SPECIFICATION Spec
CONSTANTS
    Names = {f1, f2}
    NoName = NoName
    Garbled = Garbled
    Symbols = {"a", "b"}
    Contents <- MCContents
    Chunks <- MCChunks
    MaxFiles = 2
    N = 4
    B = 2
    Mod = 32
    Bytes = {1, 8, 16}
    Ops = {"write", "append"}
    SafeAppends = FALSE
    Faults = {}
    MaxOps = 4
SYMMETRY NameSymmetry
INVARIANTS Durable
