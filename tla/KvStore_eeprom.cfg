SPECIFICATION Spec
CONSTANTS
    Keys = {1, 2}
    Values = {"a", "b"}
    Size = 8
    Blocks = 1
    MaxEntries = 64
    Medium = "EEPROM"
    DeviceEnds = TRUE
    Faults = {}
    MaxOps = 5
INVARIANTS Durable
