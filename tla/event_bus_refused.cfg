\* One subscription, one event, one end of the process.
CONSTANTS
    Type = {t}
    Callback = {c}
    Undefined = Undefined
    MAX_EVENTS = 1
    MaxPublished = 1
    MaxSubscribed = 1
    MaxEnds = 1
SPECIFICATION Spec
PROPERTY ErrorsAreIgnored
CHECK_DEADLOCK FALSE
