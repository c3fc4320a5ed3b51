\* Two services, any two faults, calls up to one tick late, room for three entries.
CONSTANTS
    Service = {s1, s2}
    TTL = 4
    ForeignTTL = {0, 6, NoTTL}
    NoTTL = NoTTL
    HEARTBEAT = 2
    CLEANUP = 2
    RETRY = 1
    MAX_SERVICES = 3
    MaxDelay = 1
    MaxFaults = 2
SYMMETRY Symmetry
SPECIFICATION Spec
INVARIANTS NothingStaleListed LiveServiceStaysListed NoCopyWithoutCause
