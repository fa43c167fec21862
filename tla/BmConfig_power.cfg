SPECIFICATION Spec
CONSTANTS
    Payload = {p1, p2, p3}
    NoValue = NoValue
    Blank = Blank
    Garbage = Garbage
    SeqMod = 8
    MaxSaves = 4
    MaxDamage = 0
    MaxSeqFlips = 0
    MaxReadFaults = 0
INVARIANTS TypeOK Durable HandleAgrees
PROPERTIES LoadLatest SaveSparesBackup AbsSpec
