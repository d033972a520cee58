CONSTANTS
    a = a
    b = b
    Text <- TwoUnits
    MaxLength = 5
    ChunkSize = 2
    Overhead = 2
SPECIFICATION Spec
INVARIANTS
    CryptoTypeOK
    RoundTrip
    SendsPrefix
    CutIsNoticed
CHECK_DEADLOCK FALSE
