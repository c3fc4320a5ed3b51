\* Two publications, room for both, two calls of /set at any moment, at most one fault.
CONSTANTS
    Publish = {p1, p2}
    object = object
    packet = packet
    Payload = {object}
    Carried <- MCNoPackets
    Storable = {object}
    RuleValue <- MCRuleValue
    NotAnObject = NotAnObject
    NoItem = NoItem
    MAX_QUEUE_SIZE = 2
    MAX_EVENTS = 2
    MAX_LOGS = 2
    MaxFaults = 1
    MaxRuleSets = 2
SPECIFICATION FairSpec
INVARIANTS EvaluationsAreWhole LostOnlyByFaultOrFullQueue StoredRuleInForce
PROPERTIES NothingHangs AcknowledgedIsEvaluated
