SPECIFICATION Spec
CONSTANTS
    Keys = {1, 2, 3}
    Values = {"a", "b"}
    Size = 8
    Blocks = 2
    MaxEntries = 64
    Medium = "NOR"
    DeviceEnds = FALSE
    Faults = {"loss", "compact", "tear", "fail", "read"}
    MaxOps = 3
INVARIANTS ValuesWhole NeverReenters
