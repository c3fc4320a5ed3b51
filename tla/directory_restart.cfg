\* One service; the directory restarts once.
CONSTANTS
    Service = {s1}
    TTL = 4
    ForeignTTL = {}
    NoTTL = NoTTL
    HEARTBEAT = 2
    CLEANUP = 2
    RETRY = 1
    MAX_SERVICES = 2
    MaxDelay = 1
    MaxFaults = 1
SPECIFICATION FairSpec
PROPERTY RunningIsListedAgain
