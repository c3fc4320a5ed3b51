\* A request of any kind beside a signed write or a read, any one fault.
CONSTANTS
    r1 = r1
    r2 = r2
    Request <- MCRequest
    Nothing = Nothing
    Sent <- MCSent
    MaxFaults = 1
SPECIFICATION FairSpec
INVARIANTS AppliedAsVerified
PROPERTIES ImplementsRegister EveryRequestIsAnswered
