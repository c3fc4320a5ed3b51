CONSTANTS
    QueueName = {history, tasksq}
    Payload = {a, b}
    MAX_QUEUE_SIZE = 2
    MAX_TASKS = 1
    Nothing = Nothing
    MaxAccepted = 3
    Undefined = Undefined
    Type = {t}
    Callback = {c}
    MAX_EVENTS = 2
    MaxPublished = 3
    MaxSubscribed = 2
    MaxEnds = 1
    Round = {r1, r2}
    LIMIT = 1
    MAX_LOGS = 1
    MaxWritten = 1
    MaxHeard = 2
    Key = {k1, k2, k3}
    Value = {v1, v2}
    MAX_KEYS = 2
    MaxClock = 2
    Id = {p, q}
    Topic = {topic}
    NoProposal = NoProposal
    MaxReports = 4
SPECIFICATION ServicesSpec
INVARIANTS TypesOK NotifiedAsSubscribed AnswersAreTheNewest MetricsAreFresh KeptUntilCrowdedOut ProposalsAreAsReported
PROPERTIES ImplementsFifo
SYMMETRY Symmetry
