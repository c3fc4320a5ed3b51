CONSTANTS
    k = k
    r = r
    Node = {n1, n2}
    Key = {k}
    RuleId = {r}
    Ts = {1, 2, 3}
    NoTs = NoTs
    Missing = Missing
    MAX_EVENTS = 2
    Dump <- MCDump
    Refreshed <- MCRefreshed
    MaxMerges = 1
    MaxParcels = 1
SPECIFICATION Spec
PROPERTIES LatestRuleWins
