CONSTANTS
    None = None
    Closed = Closed
    Secret <- MCSecret
    Aad = {a1, a2}
    COUNTER_SPACE = 2
    MaxStarts = 2
    MaxResponds = 2
    MaxFinishes = 2
    MaxEncrypted <- MCMaxEncrypted
    MaxEpoch = 1
    MaxOpened = 1
SPECIFICATION HandshakeSpec
INVARIANTS HandshakeTypeOK OpenedAsMeant NoncesAreUsedOnce SecondChannelsAreRepeats
           LateAnswersOnly
CHECK_DEADLOCK FALSE
SYMMETRY Symmetry
