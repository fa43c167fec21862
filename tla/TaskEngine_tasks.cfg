SPECIFICATION Spec
CONSTANTS
    Comps = {"kv", "baremetal", "easyflash", "flashdb", "nvdm", "nvs", "zms", "fcb", "fastflash", "tym_setting", "fs", "fatfs", "littlefs", "spiffs", "yaffs"}
    Options <- MCOptions
    MaxFaults = 3
    NSlots = 6
    EraseSize = 2
    KvDefault = 4
    AreaDefault = 8
    Fixed = 12
    PerSector = 3
    ItemSize = 4
    PayloadMax = 256
    Missing = Missing
    Hollow = Hollow
    Junk = Junk
INVARIANTS TypeOK SurvivesRestart NoSilentLoss NoFalseAlarm
PROPERTIES ReinitKeeps
