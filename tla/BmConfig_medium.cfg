SPECIFICATION Spec
CONSTANTS
    Payload = {p1, p2}
    NoValue = NoValue
    Blank = Blank
    Garbage = Garbage
    SeqMod = 4
    MaxSaves = 2
    MaxDamage = 1
    MaxSeqFlips = 1
    MaxReadFaults = 1
PROPERTIES LoadWhole
