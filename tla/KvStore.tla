------------------------------ MODULE KvStore -------------------------------
(***************************************************************************)
(* frameworks/kv/kv_store.c: a key-value log in one flash region.  A write *)
(* appends header, value and, last, a state byte; a read takes the last    *)
(* committed record of the key; a delete is a write of length 0; when the  *)
(* region is full, compact copies the newest records to RAM, erases the    *)
(* region and writes them back.                                            *)
(*                                                                         *)
(* The region is an array of units: a header is one unit, a value one, the *)
(* state byte one, so that a record is 2 (deleted) or 3 units long and a   *)
(* write at a wrong offset lands on units of another kind.  A HAL call is  *)
(* one step, but for the reads, which change nothing and are made with the *)
(* step they serve; the constant Faults names the faults calls meet.       *)
(***************************************************************************)
EXTENDS Integers, Sequences, FiniteSets

CONSTANTS
    Keys,       \* key_id values, below 8 (AndBits)
    Values,     \* one-unit values an application may write
    Size,       \* s_size, in units
    Blocks,     \* erase blocks the region spans
    MaxEntries, \* compact()'s valid[64]
    Medium,     \* "NOR" (programming ANDs, erase works) or "EEPROM"
    DeviceEnds, \* TRUE: the device ends with the region; reads past it fail
    Faults,     \* subset of {"loss", "compact", "tear", "fail", "read"}
    MaxOps      \* bound on kv_write and kv_delete calls

ASSUME ConstAssumption ==
    /\ Keys \subseteq 1 .. 7
    /\ Size \in Nat /\ Size >= 3
    /\ Blocks \in Nat /\ Blocks > 0 /\ Size % Blocks = 0
    /\ MaxEntries \in Nat /\ MaxOps \in Nat
    /\ Medium \in {"NOR", "EEPROM"} /\ DeviceEnds \in BOOLEAN
    /\ Faults \subseteq {"loss", "compact", "tear", "fail", "read"}
    /\ "tear" \in Faults => Medium = "NOR"
    /\ Values \cap {"none", "ff", "junk", "other"} = {}

None == [val |-> "none"]     \* kv_read: not found; as a value to write: len 0
Some(v) == [val |-> v]
NoRequest == [key |-> 0, dat |-> None]
NoCut == <<>>
Datum == {None} \cup {Some(v) : v \in Values}

VARIABLES
    region,  \* flash: 0 .. Size-1
    cursor,  \* s_write_cursor
    used,    \* s_used_bytes
    pc,      \* "off", "failed" (kv_init's error), "idle", or the HAL call under way
    todo,    \* records still to write: compact's valid[], then the caller's
    acked,   \* history: key -> datum of the last acknowledged operation
    maybe,   \* history: key -> data asked for and not acknowledged since
    ops,
    cut      \* history: the View when the first loss cut a compaction, or NoCut

vars == <<region, cursor, used, pc, todo, acked, maybe, ops, cut>>

(***************************************************************************)
(* Units.  FF marks a header field still 0xFF..; Junk an AND of two data.  *)
(***************************************************************************)
FF == [val |-> "ff"]
Junk == [val |-> "junk"]
Other == [val |-> "other"]   \* bytes no stored CRC is the CRC of
Blank == [kind |-> "blank", key |-> 0, len |-> 0, dat |-> FF]
Header(k, l, c) == [kind |-> "hdr", key |-> k, len |-> l, dat |-> c]
ValueUnit(kind, d) == [kind |-> kind, key |-> 0, len |-> 0, dat |-> d]
Committed == [kind |-> "st", key |-> 0, len |-> 0, dat |-> FF]
Garbage == [kind |-> "junk", key |-> 0, len |-> 0, dat |-> Junk]
KeyFF == 255    \* a key field, and a length field, not programmed
LenFF == 255

Units == [kind : {"blank", "hdr", "val", "torn", "st", "junk"},
          key : (0 .. 7) \cup {KeyFF}, len : {0, 1, LenFF},
          dat : Datum \cup {FF, Junk}]

AndBits(a, b) == (a % 2) * (b % 2) + 2 * ((a \div 2) % 2) * ((b \div 2) % 2)
                   + 4 * ((a \div 4) % 2) * ((b \div 4) % 2)
AndField(a, b, full, both) == IF a = full THEN b ELSE IF b = full THEN a ELSE both

\* NOR: bits only fall.  Magic over magic is magic; the fields are ANDed.
AndUnit(old, new) ==
    IF old = Blank \/ old = new THEN new
    ELSE CASE old.kind = "hdr" /\ new.kind = "hdr" ->
                Header(AndField(old.key, new.key, KeyFF, AndBits(old.key, new.key)),
                       AndField(old.len, new.len, LenFF,
                                IF old.len < new.len THEN old.len ELSE new.len),
                       AndField(old.dat, new.dat, FF,
                                IF old.dat = new.dat THEN old.dat ELSE Junk))
           [] {old.kind, new.kind} = {"torn", "val"} /\ old.dat = new.dat ->
                ValueUnit("val", new.dat)
           [] OTHER -> Garbage

Program(old, new) == IF Medium = "NOR" THEN AndUnit(old, new) ELSE new

(***************************************************************************)
(* Reading the region: the records from offset 0 to the first unit that is *)
(* no header, each with the state byte its length leads to.                *)
(***************************************************************************)
RecTotal(l) == 2 + l
RecordAt(r, off) ==
    LET h == r[off]
        st == off + 1 + h.len
    IN  [key |-> h.key, len |-> h.len, off |-> off,
         committed |-> st < Size /\ r[st].kind = "st",
         dat |-> IF h.len = 0 THEN None
                 ELSE IF off + 1 < Size /\ r[off + 1].kind = "val" THEN r[off + 1].dat
                 ELSE Other,
         crc |-> h.dat]

\* The loops of kv_read, compact and kv_summary: a state byte past the end
\* of the region either cannot be read or is not COMMITTED, and ends them.
Records(r) ==
    LET from[off \in 0 .. Size + 1] ==
            IF off + 2 > Size \/ r[off].kind # "hdr" \/ r[off].len = LenFF THEN <<>>
            ELSE IF off + RecTotal(r[off].len) > Size THEN <<RecordAt(r, off)>>
            ELSE <<RecordAt(r, off)>> \o from[off + RecTotal(r[off].len)]
    IN  from[0]

(***************************************************************************)
(* A failing HAL read ends those loops and scan_region's as a unit that is *)
(* no header does: the loop saw the region blank from the record on that   *)
(* it could not read.  kv_read and compact do not tell their callers.      *)
(***************************************************************************)
BlankFrom(r, off) == [i \in 0 .. Size - 1 |-> IF i < off THEN r[i] ELSE Blank]
Seen(r) == IF "read" \in Faults THEN {BlankFrom(r, off) : off \in 0 .. Size} ELSE {r}

\* Mutants of Accepted: no CRC; no state byte.
AcceptedNoCrc(rec) == rec.committed
AcceptedNoState(rec) == rec.dat = rec.crc
Accepted(rec) == rec.committed /\ rec.dat = rec.crc

\* kv_read: the last accepted record of the key.
Lookup(r, k) ==
    LET rs == Records(r)
        mine == {rec \in {rs[i] : i \in DOMAIN rs} : Accepted(rec) /\ rec.key = k}
    IN  IF mine = {} THEN None
        ELSE (CHOOSE rec \in mine : \A other \in mine : other.off <= rec.off).dat

(***************************************************************************)
(* scan_region: where the records end.  It fails on a state byte it cannot *)
(* read, and stops before a record that does not fit.  ScanFails: where a  *)
(* failing HAL read leaves the cursor, at one of the records it came to.   *)
(***************************************************************************)
\* Mutant: the scan stops at the first record that is not committed.
ScanToPending(r) ==
    LET from[off \in 0 .. Size + 1] ==
            IF \/ off + 2 > Size \/ r[off].kind # "hdr"
               \/ r[off].len # LenFF /\ off + 1 + r[off].len < Size
                                    /\ r[off + 1 + r[off].len].kind # "st"
            THEN [ok |-> TRUE, cursor |-> off]
            ELSE IF r[off].len = LenFF \/ off + 1 + r[off].len >= Size
                 THEN [ok |-> ~DeviceEnds, cursor |-> off]
            ELSE from[off + RecTotal(r[off].len)]
    IN  from[0]
Scan(r) ==
    LET from[off \in 0 .. Size + 1] ==
            IF off + 2 > Size \/ r[off].kind # "hdr" THEN [ok |-> TRUE, cursor |-> off]
            ELSE IF r[off].len = LenFF \/ off + 1 + r[off].len >= Size
                 THEN [ok |-> ~DeviceEnds, cursor |-> off]
            ELSE from[off + RecTotal(r[off].len)]
    IN  from[0]

ScanFails(r) ==
    IF "read" \in Faults
    THEN {off \in 0 .. Size - 2 : Scan(BlankFrom(r, off)).cursor = off}
    ELSE {}

(***************************************************************************)
(* compact's valid[]: one entry per key, in the order the keys first       *)
(* appear, with the newest datum; what exceeds the array is not kept.      *)
(***************************************************************************)
Entry(k, d) == [key |-> k, dat |-> d]
EntryLen(e) == IF e.dat = None THEN 0 ELSE 1

Firsts(rs) ==
    {i \in DOMAIN rs : /\ Accepted(rs[i])
                       /\ \A j \in 1 .. i - 1 : Accepted(rs[j]) => rs[j].key # rs[i].key}
Nth(S, n) == CHOOSE i \in S : Cardinality({j \in S : j <= i}) = n
Fitting(S) == IF Cardinality(S) <= MaxEntries THEN Cardinality(S) ELSE MaxEntries

\* Mutant: a later record does not replace the entry.
CollectedOldest(r) ==
    LET rs == Records(r)
        firsts == Firsts(rs)
        entry(i) == Entry(rs[i].key, rs[i].dat)
    IN  [n \in 1 .. Fitting(firsts) |-> entry(Nth(firsts, n))]
Collected(r) ==
    LET rs == Records(r)
        firsts == Firsts(rs)
        entry(i) == Entry(rs[i].key, Lookup(r, rs[i].key))
    IN  [n \in 1 .. Fitting(firsts) |-> entry(Nth(firsts, n))]

BlankRegion == [i \in 0 .. Size - 1 |-> Blank]

Init ==
    /\ region = BlankRegion
    /\ cursor = 0 /\ used = 0 /\ pc = "off" /\ todo = <<>>
    /\ acked = [k \in Keys |-> None] /\ maybe = [k \in Keys |-> {}]
    /\ ops = 0 /\ cut = NoCut

\* kv_init: what it finds is from here on what was written.
KvInit ==
    /\ pc = "off"
    /\ \/ LET s == Scan(region)
          IN  /\ cursor' = s.cursor /\ used' = s.cursor
              /\ pc' = IF s.ok THEN "idle" ELSE "failed"
       \/ \E off \in ScanFails(region) :
              cursor' = off /\ used' = off /\ pc' = "failed"
    /\ acked' = [k \in Keys |-> Lookup(region, k)]
    /\ maybe' = [k \in Keys |-> {}]
    /\ UNCHANGED <<region, todo, ops, cut>>

(***************************************************************************)
(* kv_write, from the check for space on; compact's rewrites go through it *)
(* as well.  Start is where the record at the head of q goes from cursor   *)
(* c: its header, or back to the caller with an error (no space for the    *)
(* caller's record, key 0 refused), or, for a record of compact's that     *)
(* does not fit, into compact again.                                       *)
(***************************************************************************)
Start(q, c) ==
    CASE q = <<>> -> "idle"
      [] q # <<>> /\ Head(q).key = 0 -> "idle"
      [] q # <<>> /\ Head(q).key # 0 /\ c + RecTotal(EntryLen(Head(q))) <= Size -> "hdr"
      [] OTHER -> IF Len(q) = 1 THEN "idle" ELSE "reenter"

Proceed(q, c) ==
    /\ pc' = Start(q, c)
    /\ todo' = IF Start(q, c) = "idle" THEN <<>> ELSE q

\* d = None is kv_delete.
KvWrite(k, d) ==
    /\ pc = "idle" /\ ops < MaxOps
    /\ IF cursor + RecTotal(EntryLen(Entry(k, d))) > Size
       THEN /\ pc' = "erase"
            /\ \E seen \in Seen(region) : todo' = Append(Collected(seen), Entry(k, d))
       ELSE pc' = "hdr" /\ todo' = <<Entry(k, d)>>
    /\ maybe' = [maybe EXCEPT ![k] = @ \cup {d}]
    /\ ops' = ops + 1
    /\ UNCHANGED <<region, cursor, used, acked, cut>>

\* EEPROM: the HAL's NOTSUP is ignored and nothing is erased.
Erased(r) == IF Medium = "NOR" THEN BlankRegion ELSE r

\* Mutant: the cursor is not reset.
CompactEraseNoReset ==
    /\ pc = "erase"
    /\ region' = Erased(region)
    /\ Proceed(todo, 0)
    /\ UNCHANGED <<cursor, used, acked, maybe, ops, cut>>
CompactErase ==
    /\ pc = "erase"
    /\ region' = Erased(region)
    /\ cursor' = 0 /\ used' = 0
    /\ Proceed(todo, 0)
    /\ UNCHANGED <<acked, maybe, ops, cut>>

Current == Head(todo)
HeaderUnit(e) == Header(e.key, EntryLen(e), e.dat)
StateOff == cursor + 1 + EntryLen(Current)

WriteHeader ==
    /\ pc = "hdr"
    /\ region' = [region EXCEPT ![cursor] = Program(@, HeaderUnit(Current))]
    /\ pc' = IF EntryLen(Current) = 0 THEN "st" ELSE "val"
    /\ UNCHANGED <<cursor, used, todo, acked, maybe, ops, cut>>

WriteValue ==
    /\ pc = "val"
    /\ region' = [region EXCEPT ![cursor + 1] = Program(@, ValueUnit("val", Current.dat))]
    /\ pc' = "st"
    /\ UNCHANGED <<cursor, used, todo, acked, maybe, ops, cut>>

WriteState ==
    /\ pc = "st"
    /\ region' = [region EXCEPT ![StateOff] = Program(@, Committed)]
    /\ cursor' = cursor + RecTotal(EntryLen(Current))
    /\ used' = used + RecTotal(EntryLen(Current))
    /\ Proceed(Tail(todo), cursor')
    /\ IF Len(todo) = 1
       THEN /\ acked' = [acked EXCEPT ![Current.key] = Current.dat]
            /\ maybe' = [maybe EXCEPT ![Current.key] = {}]
       ELSE UNCHANGED <<acked, maybe>>
    /\ UNCHANGED <<ops, cut>>

(***************************************************************************)
(* What the HAL call under way leaves when it fails or is cut: nothing,    *)
(* all, a prefix of the erase blocks, or (tear) a prefix of the fields.    *)
(***************************************************************************)
TornHeaders(e) ==
    IF "tear" \notin Faults THEN {}
    ELSE {Header(KeyFF, LenFF, FF), Header(e.key, LenFF, FF), Header(e.key, EntryLen(e), FF)}
TornValues(d) == IF "tear" \notin Faults THEN {} ELSE {ValueUnit("torn", d)}

CutAt(off, units) == {region} \cup {[region EXCEPT ![off] = Program(@, u)] : u \in units}
CutErase ==
    IF Medium = "NOR"
    THEN {[i \in 0 .. Size - 1 |-> IF i < b * (Size \div Blocks) THEN Blank ELSE region[i]]
             : b \in 0 .. Blocks}
    ELSE {region}

Cut ==
    CASE pc = "erase" -> CutErase
      [] pc = "hdr" -> CutAt(cursor, {HeaderUnit(Current)} \cup TornHeaders(Current))
      [] pc = "val" -> CutAt(cursor + 1, {ValueUnit("val", Current.dat)}
                                            \cup TornValues(Current.dat))
      [] pc = "st" -> CutAt(StateOff, {Committed})
      [] OTHER -> {region}

HalCall == {"erase", "hdr", "val", "st"}

\* The HAL call returns an error and so does kv_write; the cursor stays.
HalFail ==
    /\ "fail" \in Faults /\ pc \in HalCall
    /\ Medium = "EEPROM" => pc # "erase"
    /\ region' \in Cut
    /\ pc' = "idle" /\ todo' = <<>>
    /\ UNCHANGED <<cursor, used, acked, maybe, ops, cut>>

Compacting == pc = "erase" \/ Len(todo) > 1

\* What the store holds: while compact has the records in RAM, they count.
InRam == {i \in 1 .. Len(todo) - 1 : pc # "erase"}
View == [k \in Keys |->
    IF \E i \in InRam : todo[i].key = k
    THEN todo[CHOOSE i \in InRam : todo[i].key = k].dat
    ELSE Lookup(region, k)]

PowerLoss ==
    /\ "loss" \in Faults /\ pc # "off"
    /\ Compacting => "compact" \in Faults
    /\ region' \in Cut
    /\ pc' = "off" /\ todo' = <<>> /\ cursor' = 0 /\ used' = 0
    /\ cut' = IF Compacting /\ cut = NoCut THEN View ELSE cut
    /\ UNCHANGED <<acked, maybe, ops>>

SomeWrite == \E k \in Keys, d \in Datum : KvWrite(k, d)

Next ==
    \/ KvInit
    \/ SomeWrite
    \/ CompactErase
    \/ WriteHeader \/ WriteValue \/ WriteState
    \/ HalFail
    \/ PowerLoss

Spec == Init /\ [][Next]_vars

-----------------------------------------------------------------------------
(* The region holds units, the RAM state stays within the region. *)
TypeOK ==
    /\ region \in [0 .. Size - 1 -> Units]
    /\ cursor \in 0 .. Size /\ used \in 0 .. Size
    /\ pc \in {"off", "failed", "idle", "reenter"} \cup HalCall
    /\ \A i \in DOMAIN todo : todo[i] \in [key : 0 .. 7, dat : Datum]
    /\ pc \in HalCall <=> todo # <<>>
    /\ acked \in [Keys -> Datum] /\ maybe \in [Keys -> SUBSET Datum]
    /\ ops \in 0 .. MaxOps /\ cut \in {NoCut} \cup [Keys -> Datum]

(***************************************************************************)
(* Two-step commit: a key reads as its last acknowledged datum, or as one  *)
(* asked for since; power loss between any two HAL calls of a write costs  *)
(* nothing else.  Premise: no loss has cut a compaction, which holds the   *)
(* records in RAM only (NothingStale says what such a loss may cost), and  *)
(* no HAL read fails, which compact takes for the end of the records.      *)
(***************************************************************************)
Owed(k) == {acked[k]} \cup maybe[k]
Durable == ~Compacting /\ cut = NoCut => \A k \in Keys : Lookup(region, k) \in Owed(k)

(***************************************************************************)
(* RAM and flash agree: a restart at rest would find the same cursor and   *)
(* the same number of bytes in use (kv_init's scan against kv_write's sum).*)
(***************************************************************************)
RestartAgrees ==
    pc = "idle" => LET s == Scan(region) IN s.ok /\ s.cursor = cursor /\ used = cursor

(***************************************************************************)
(* kv_write and compact call each other; the records compact kept always   *)
(* fit the erased region, so that compact is never entered from within.    *)
(***************************************************************************)
NeverReenters == pc # "reenter"

(***************************************************************************)
(* Even when a loss cuts compact, a key reads as owed or as absent: no     *)
(* overwritten or deleted value comes back, as long as no HAL read fails.  *)
(***************************************************************************)
NothingStale == \A k \in Keys : Lookup(region, k) \in Owed(k) \cup {None}

(***************************************************************************)
(* The CRC at work: under torn writes, failing calls, records programmed   *)
(* over leftovers, reads at shifted offsets and loops that a failing read  *)
(* ended early, kv_read never returns anything but a value written whole.  *)
(***************************************************************************)
ValuesWhole == \A k \in Keys, seen \in Seen(region) : Lookup(seen, k) \in Datum

(***************************************************************************)
(* KvDict, the dictionary kv_store promises, is implemented: reads change  *)
(* only at the state byte that ends a call, compaction is invisible, and a *)
(* loss of power leaves the dictionary before or after the call cut.  The  *)
(* dictionary is followed up to the first loss that cuts a compaction.     *)
(***************************************************************************)
Request == IF pc \in HalCall THEN todo[Len(todo)] ELSE NoRequest
Followed(x, otherwise) == IF cut = NoCut THEN x ELSE otherwise
Dict == INSTANCE KvDict WITH
    dict <- Followed(View, cut), request <- Followed(Request, NoRequest),
    up <- cut = NoCut /\ (pc = "idle" \/ pc \in HalCall)
DictSpec == Dict!Spec
=============================================================================
