SPECIFICATION Spec
CONSTANTS
    Names = {f1, f2}
    NoName = NoName
    Garbled = Garbled
    Symbols = {"a", "b"}
    Contents <- MCShort
    Chunks <- MCOneChunk
    MaxFiles = 2
    N = 3
    B = 2
    Mod = 32
    Bytes = {1}
    Ops = {"create", "delete", "write", "append", "format"}
    SafeAppends = TRUE
    Faults = {"loss", "fatloss", "fail"}
    MaxOps = 4
SYMMETRY NameSymmetry
INVARIANTS TypeOK Layout ReadBack
PROPERTIES OthersUntouched
