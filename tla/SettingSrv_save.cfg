SPECIFICATION Spec
CONSTANTS
    NItems = 2
    Extra = {9}
    Given = {v1, v2}
    Zero = Zero
    Blank = Blank
    Torn = Torn
    Default = Default
    SaveDelay = 2
    Elapsed = {1, 3}
    Base = 0
    Capacity = 4
    Page = 1
    Faults = {"loss", "fail", "readfail"}
INVARIANTS TypeOK QuietAgrees AckedOnFlash
PROPERTIES EventuallySaved
