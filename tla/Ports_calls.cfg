SPECIFICATION Spec
CONSTANTS
    PortNames = {"fatfs", "yaffs", "littlefs", "spiffs", "nvdm", "fastflash", "zephyr", "easyflash", "flashdb"}
    NBlocks = 3
    U = 2
    Base = 1
    YaffsBlocks = 4
    Data = {v1, v2}
    Blank = Blank
    Junk = Junk
    Any = Any
    Faults = {"loss", "fail"}
    MaxCalls = 3
INVARIANTS TypeOK Accepted Contained TagsFollowData
PROPERTIES StaysInside
