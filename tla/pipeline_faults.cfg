\* Two publications and any two faults; a queue, a bus and a log of one item,
\* so that each of them overflows.
CONSTANTS
    Publish = {p1, p2}
    object = object
    packet = packet
    Payload = {object, plain, packet}
    Carried <- MCCarried
    Storable = {object}
    RuleValue <- MCAllOn
    NotAnObject = NotAnObject
    NoItem = NoItem
    MAX_QUEUE_SIZE = 1
    MAX_EVENTS = 1
    MAX_LOGS = 1
    MaxFaults = 2
    MaxRuleSets = 1
SYMMETRY Symmetry
SPECIFICATION Spec
INVARIANTS TypeOK NoDanglingHash AnswerTellsTheTruth AtMostOnce
PROPERTY ImplementsFlow
