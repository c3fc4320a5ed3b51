\* The registry with one service and any two faults, calls up to one tick late;
\* discovery's own node and one more, with a service that has two polls
\* outstanding, any two faults; a node with one more peer than fits in its
\* table, and two rounds of calls under way.
CONSTANTS
    Node = {self, other}
    Self = self
    Malformed = Malformed
    Service = {s1}
    Slot = {k1, k2}
    MaxFaults = 2
    TTL = 4
    ForeignTTL = {NoTTL}
    NoTTL = NoTTL
    HEARTBEAT = 2
    CLEANUP = 2
    RETRY = 1
    MAX_SERVICES = 2
    MaxDelay = 1
    MaxMishaps = 2
    Peer = {p}
    PeerSelf = me
    Elsewhere = {far}
    Undefined = Undefined
    MAX_PEERS = 2
    MaxClock = 1
SPECIFICATION MembershipSpec
INVARIANTS TablesTypeOK HeardOfLastAreListed
PROPERTIES TrustIsKept RegistersEventually EveryNodeGetsTrustedAgain ListedAreCalled
