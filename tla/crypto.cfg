\* The field of 29 = 2^5 - 3 elements with operands of two bytes of three bits
\* (all of them, reduced or not), on a curve whose points of order two are one;
\* keys of up to three blocks of two bytes; messages of up to three bytes in
\* contexts of up to one; two packets of two nodes, delivered until two are accepted,
\* within a window of one second either way in four.
CONSTANTS
    P = 29
    A24 = 1
    Base = 9
    ByteBits = 3
    Size = 2
    COFACTOR = 2
    NonSquare = 2
    HLen = 2
    BlockSize = 3
    MaxCounter = 3
    Ikm = {"a", "b"}
    Salt <- MCSalt
    Info <- MCInfo
    Seed = {"a", "b"}
    Byte <- MCByte
    Prefix <- MCPrefix
    MaxContext = 1
    HashLength = 2
    MaxMessage = 3
    Node = {n1, n2}
    Offset <- MCOffset
    Body <- MCBody
    Text <- MCText
    Gateway = gateway
    SessionKey = {gk, other}
    GatewayKey = gk
    MaxSkew = 1
    MaxClock = 3
    MaxBuilt = 2
    MaxAccepted = 2
SPECIFICATION CryptoSpec
INVARIANTS LadderMultiplies KeysAreDerived SignaturesBindTheirMode AcceptedAsBuilt
