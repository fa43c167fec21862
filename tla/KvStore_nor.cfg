SPECIFICATION Spec
CONSTANTS
    Keys = {1, 2}
    Values = {"a", "b"}
    Size = 8
    Blocks = 1
    MaxEntries = 64
    Medium = "NOR"
    DeviceEnds = TRUE
    Faults = {"loss", "compact", "tear"}
    MaxOps = 6
INVARIANTS TypeOK Durable RestartAgrees NothingStale
PROPERTIES DictSpec
