------------------------------- MODULE FsStore ------------------------------
(***************************************************************************)
(* frameworks/fs/fs_store.c: files in runs of consecutive data blocks,     *)
(* described by one table, the FAT, in a block of its own and copied in    *)
(* RAM (s_fat).  A write that fits the blocks of the file erases and       *)
(* rewrites them; a longer one goes to free blocks first; an append        *)
(* programs the tail of the last block.  Every operation ends by erasing   *)
(* the FAT block and programming the RAM copy into it.                     *)
(*                                                                         *)
(* A HAL call is one step; it succeeds, fails ("fail"), or is cut by a     *)
(* power loss ("loss"; "fatloss" extends it to the FAT's erase and write). *)
(* A data block is an array of cells, as many as make the block boundaries *)
(* matter.  Reading (fs_read, fs_get_size, fs_exists) is View.             *)
(*                                                                         *)
(* The table goes out in one write and fat_load looks at its magic only,   *)
(* so a write that stops inside an entry leaves a table that mounts, with  *)
(* fields of which some or all bytes are still erased.  Block numbers and  *)
(* sizes are therefore words (uint32_t), with the wrap of the C code.      *)
(***************************************************************************)
EXTENDS Integers, Sequences, FiniteSetsExt

CONSTANTS
    Names,       \* file names
    NoName,      \* name of a free FAT entry
    Garbled,     \* a name with bytes still erased: no application asks for it
    Symbols,     \* cell contents an application may write
    Contents,    \* what fs_write is called with: sequences of symbols
    Chunks,      \* what fs_append is called with
    MaxFiles,    \* FS_MAX_FILES, 32
    N,           \* s_data_blocks
    B,           \* s_block, in cells
    Mod,         \* words are below it: 2^32
    Bytes,       \* where a word can be torn: {1, 2^8, 2^16, 2^24}
    Ops,         \* subset of {"create", "delete", "write", "append", "format"}
    SafeAppends, \* TRUE: appends reach the fast path only where TailReady holds
    Faults,      \* subset of {"loss", "fatloss", "fail"}
    MaxOps       \* bound on operations

ASSUME ConstAssumption ==
    /\ NoName \notin Names
    /\ MaxFiles \in Nat \ {0} /\ N \in Nat \ {0} /\ B \in Nat \ {0}
    /\ Contents \subseteq Seq(Symbols) /\ Chunks \subseteq Seq(Symbols) \ {<<>>}
    /\ Ops \subseteq {"create", "delete", "write", "append", "format"}
    /\ Faults \subseteq {"loss", "fatloss", "fail"}
    /\ SafeAppends \in BOOLEAN /\ MaxOps \in Nat

\* Words hold every block number and size, and a torn word is none of them.
ASSUME WordAssumption ==
    /\ Mod \in Nat /\ 2 * N <= Mod /\ N * B + 1 < Mod
    /\ Bytes \subseteq Nat \ {0} /\ \A k \in Bytes : N * B + k < Mod
    /\ Garbled \notin Names \cup {NoName}

Blank == "blank"    \* an erased cell
Junk == "junk"      \* the AND of two symbols, or a cell of a cut erase
Absent == <<"absent">>

Slots == 1 .. MaxFiles
BlockNos == 0 .. N - 1
Cells == 0 .. B - 1

VARIABLES
    fat,   \* the FAT block in flash
    data,  \* the data blocks in flash
    ram,   \* s_fat
    pc,    \* "off", "corrupt" (fs_init or fs_format failed), "idle", or the HAL call under way
    job,   \* the operation it belongs to
    acked, \* history: name -> contents after the last acknowledged operation
    maybe, \* history: name -> contents asked for and not acknowledged since
    loose, \* history: files whose blocks are being, or were, overwritten in place
    astray, \* history: a table torn inside an entry was loaded since the last format
    ops
vars == <<fat, data, ram, pc, job, acked, maybe, loose, astray, ops>>

(***************************************************************************)
(* The table: fs_entry_t and fs_fat_t.                                     *)
(***************************************************************************)
Free == [name |-> NoName, start |-> 0, blocks |-> 0, size |-> 0]
Table(m, s) == [magic |-> m, slots |-> s]
NoFiles == [i \in Slots |-> Free]
ZeroFat == Table("zero", NoFiles)    \* fs_init's memset
EmptyFat == Table("ok", NoFiles)
BlankFat == Table("blank", NoFiles)
TornFat == Table("torn", NoFiles)

Top == Mod - 1                       \* 0xFFFFFFFF
Words == 0 .. Top
Entries == [name : Names \cup {NoName}, start : BlockNos, blocks : 0 .. N, size : 0 .. N * B]
WordEntries == [name : Names \cup {NoName, Garbled}, start : Words, blocks : Words, size : Words]
Magics == {"ok", "zero", "blank", "torn"}
Tables == [magic : Magics, slots : [Slots -> Entries]]
WordTables == [magic : Magics, slots : [Slots -> WordEntries]]

\* A word of which only the low bytes are written, and an entry cut short.
TornWords(w) == {(Mod - k) + (w % k) : k \in Bytes}
TornEntries(e) ==
    {[name |-> Garbled, start |-> Top, blocks |-> Top, size |-> Top]}
    \cup {[e EXCEPT !.start = w, !.blocks = Top, !.size = Top] : w \in TornWords(e.start)}
    \cup {[e EXCEPT !.blocks = w, !.size = Top] : w \in TornWords(e.blocks)}
    \cup {[e EXCEPT !.size = w] : w \in TornWords(e.size)}
\* The entries of a table that are not torn.
Untorn(f) ==
    [f EXCEPT !.slots = [i \in Slots |-> IF f.slots[i] \in Entries THEN f.slots[i] ELSE Free]]

Ceil(len) == (len + B - 1) \div B
SlotOf(f, n) == {i \in Slots : f.slots[i].name = n}     \* entry_find
Exists(f, n) == SlotOf(f, n) # {}
Runs(f) == {i \in Slots : f.slots[i].name # NoName}     \* the used entries
EntryOf(f, n) == f.slots[Min(SlotOf(f, n))]
SetEntry(f, n, e) == [f EXCEPT !.slots[Min(SlotOf(f, n))] = e]

\* The test of block_in_use; its sum wraps.
Holds(e, b) == e.name # NoName /\ e.start <= b /\ b < (e.start + e.blocks) % Mod
\* Mutant: the last block of a file counts as free.
InUseShort(f, b) == \E i \in Slots : Holds(f.slots[i], b) /\ Holds(f.slots[i], b + 1)
InUse(f, b) == \E i \in Slots : Holds(f.slots[i], b)
\* find_free_blocks: the first run of need free blocks; -1 for none.
\* Mutants: only the first block of the run is looked at; one block too many.
FirstFreeOver(f, need) ==
    LET starts == {s \in BlockNos : s + need <= N + 1 /\ \A b \in s .. s + need - 1 : ~InUse(f, b)}
    IN  IF need = 0 \/ starts = {} THEN -1 ELSE Min(starts)
FirstFreeOnly(f, need) ==
    LET starts == {s \in BlockNos : s + need <= N /\ ~InUse(f, s)}
    IN  IF need = 0 \/ starts = {} THEN -1 ELSE Min(starts)
FirstFree(f, need) ==
    LET starts == {s \in BlockNos : s + need <= N /\ \A b \in s .. s + need - 1 : ~InUse(f, b)}
    IN  IF need = 0 \/ starts = {} THEN -1 ELSE Min(starts)

\* Where data_blk_off puts block n: its offset wraps, and -1 is the FAT block.
Place(n) == (((n + 1) * B) % Mod) \div B - 1
\* fs_read of a whole file; outside the data blocks lies what is no file's.
CellAt(d, e, i) ==
    LET b == Place(e.start + i \div B) IN IF b \in BlockNos THEN d[b][i % B] ELSE Junk
View(f, d) == [n \in Names |->
    IF f.magic = "ok" /\ Exists(f, n)
    THEN [i \in 1 .. EntryOf(f, n).size |-> CellAt(d, EntryOf(f, n), i - 1)]
    ELSE Absent]

(***************************************************************************)
(* Flash.                                                                  *)
(***************************************************************************)
ErasedBlock == [c \in Cells |-> Blank]
And(old, new) == IF old = Blank \/ old = new THEN new ELSE Junk
\* Data d with row in block b, if b is a data block.
WithBlock(d, b, row) == [x \in BlockNos |-> IF x = b THEN row ELSE d[x]]
Erased(d, b) == WithBlock(d, b, ErasedBlock)
Junked(d, b) == WithBlock(d, b, [c \in Cells |-> Junk])
\* Block b of d with the first k symbols of s programmed from cell c on.
Programmed(d, b, c, s, k) ==
    WithBlock(d, b, [i \in Cells |->
        IF i \in c .. c + k - 1 THEN And(d[b][i], s[i - c + 1]) ELSE d[b][i]])

NoJob == [op |-> "none", name |-> NoName, content |-> <<>>, start |-> 0, next |-> 0]
Job(op, n, c) == [NoJob EXCEPT !.op = op, !.name = n, !.content = c]
\* The part of the content that goes to the job's next block, or to the tail.
Segment(j) == SubSeq(j.content, j.next * B + 1, Min({(j.next + 1) * B, Len(j.content)}))
LastBlock(j) == j.next + 1 = Ceil(Len(j.content))

Init ==
    /\ fat = EmptyFat /\ data = [b \in BlockNos |-> ErasedBlock]
    /\ ram = ZeroFat /\ pc = "off" /\ job = NoJob
    /\ acked = [n \in Names |-> Absent] /\ maybe = [n \in Names |-> {}]
    /\ loose = {} /\ astray = FALSE /\ ops = 0

\* fs_init and fat_load, which looks at the magic and at nothing else.
Load ==
    /\ ram' = IF fat.magic = "ok" THEN fat ELSE ZeroFat
    /\ astray' = (astray \/ ram' \notin Tables)

\* What a mount finds counts from here on as acknowledged.
Mount ==
    /\ pc = "off" /\ Load
    /\ pc' = IF fat.magic = "ok" THEN "idle" ELSE "corrupt"
    /\ acked' = View(fat, data)
    /\ maybe' = [n \in Names |-> {}] /\ loose' = {}
    /\ UNCHANGED <<fat, data, job, ops>>

Begin(op) == pc = "idle" /\ op \in Ops /\ ops < MaxOps /\ ops' = ops + 1 /\ UNCHANGED astray
Asked(n, c) == maybe' = [maybe EXCEPT ![n] = @ \cup {c}]

(***************************************************************************)
(* fs_create and fs_delete: a change of the table.  Calls that return      *)
(* before any change (EXIST, NOTFOUND, no slot) are not steps.             *)
(***************************************************************************)
FreeSlots(f) == {i \in Slots : f.slots[i].name = NoName}
WithNew(f, n) == [f EXCEPT !.slots[Min(FreeSlots(f))] = [Free EXCEPT !.name = n]]
CanCreate(n) == ~Exists(ram, n) /\ FreeSlots(ram) # {}

Create(n) ==
    /\ Begin("create") /\ CanCreate(n)
    /\ ram' = WithNew(ram, n)
    /\ pc' = "fatErase" /\ job' = Job("create", n, <<>>)
    /\ Asked(n, <<>>)
    /\ UNCHANGED <<fat, data, acked, loose>>

\* Mutant: the table is not committed.
DeleteInRam(n) ==
    /\ Begin("delete") /\ Exists(ram, n)
    /\ ram' = SetEntry(ram, n, Free)
    /\ Asked(n, Absent)
    /\ UNCHANGED <<fat, data, pc, job, acked, loose>>
Delete(n) ==
    /\ Begin("delete") /\ Exists(ram, n)
    /\ ram' = SetEntry(ram, n, Free)
    /\ pc' = "fatErase" /\ job' = Job("delete", n, Absent)
    /\ Asked(n, Absent)
    /\ UNCHANGED <<fat, data, acked, loose>>

(***************************************************************************)
(* fs_write once the file exists: empty it, rewrite its blocks in place,   *)
(* or move to new blocks; NOSPC leaves the table as it is.                 *)
(***************************************************************************)
FitsInPlace(e, c) == e.blocks > 0 /\ Ceil(Len(c)) <= e.blocks

Store(f, n, c) ==
    LET e == EntryOf(f, n)
        start == IF FitsInPlace(e, c) THEN e.start ELSE FirstFree(f, Ceil(Len(c)))
    IN  \/ /\ c = <<>>
           /\ ram' = SetEntry(f, n, [e EXCEPT !.size = 0])
           /\ pc' = "fatErase" /\ job' = Job("write", n, c)
           /\ UNCHANGED loose
        \/ /\ c # <<>> /\ start # -1
           /\ ram' = f /\ pc' = "blkErase"
           /\ job' = [Job("write", n, c) EXCEPT !.start = start]
           /\ loose' = IF FitsInPlace(e, c) THEN loose \cup {n} ELSE loose
        \/ /\ c # <<>> /\ start = -1
           /\ ram' = f /\ pc' = "idle" /\ job' = NoJob /\ UNCHANGED loose

Write(n, c) ==
    /\ Begin("write")
    /\ \/ Exists(ram, n) /\ Store(ram, n, c) /\ Asked(n, c)
       \/ /\ CanCreate(n)
          /\ ram' = WithNew(ram, n)
          /\ pc' = "fatErase" /\ job' = Job("writeNew", n, c)
          /\ maybe' = [maybe EXCEPT ![n] = @ \cup {<<>>, c}]
          /\ UNCHANGED loose
    /\ UNCHANGED <<fat, data, acked>>

\* fs_append, its fast path: content is what the file will hold.
InBlock(e) == e.size % B
FitsTail(e, s) == e.blocks > 0 /\ e.size > 0 /\ InBlock(e) + Len(s) <= B
Appended(n, s) == View(ram, data)[n] \o s
TailBlock(e) == Place(e.start + e.blocks - 1)
\* What the fast path relies on and does not check: the last block in use is
\* the last one allocated, it is not full, and what follows the file is blank.
TailReady(e) ==
    /\ InBlock(e) # 0 /\ Ceil(e.size) = e.blocks /\ TailBlock(e) \in BlockNos
    /\ \A c \in InBlock(e) .. B - 1 : data[TailBlock(e)][c] = Blank
\* The slow path reads the file and rewrites it; with a torn size the read or
\* its buffer fails.
Rewrite(n, c) == EntryOf(ram, n).size <= N * B /\ Store(ram, n, c)

FsAppend(n, s) ==
    /\ Begin("append") /\ Exists(ram, n)
    /\ LET e == EntryOf(ram, n)
       IN  \/ /\ FitsTail(e, s)
              /\ SafeAppends => TailReady(e)
              /\ pc' = "tail" /\ job' = [Job("append", n, Appended(n, s)) EXCEPT !.next = Len(s)]
              /\ UNCHANGED <<ram, loose>>
           \/ ~FitsTail(e, s) /\ Rewrite(n, Appended(n, s))
    /\ Asked(n, Appended(n, s))
    /\ UNCHANGED <<fat, data, acked>>

\* fs_format erases the FAT block (block -1 here) and the data blocks in turn.
Format ==
    /\ pc \in {"idle", "corrupt"} /\ "format" \in Ops /\ ops < MaxOps /\ ops' = ops + 1
    /\ Load
    /\ pc' = "format" /\ job' = [NoJob EXCEPT !.op = "format", !.next = -1]
    /\ maybe' = [n \in Names |-> maybe[n] \cup {Absent}] /\ loose' = Names
    /\ UNCHANGED <<fat, data, acked>>

(***************************************************************************)
(* The HAL calls.                                                          *)
(***************************************************************************)
FormatErase ==
    /\ pc = "format"
    /\ IF job.next = -1
       THEN fat' = BlankFat /\ UNCHANGED data
       ELSE data' = Erased(data, job.next) /\ UNCHANGED fat
    /\ IF job.next = N - 1
       THEN pc' = "fatErase" /\ ram' = EmptyFat /\ UNCHANGED job
       ELSE job' = [job EXCEPT !.next = @ + 1] /\ UNCHANGED <<pc, ram>>
    /\ UNCHANGED <<acked, maybe, loose, astray, ops>>

JobBlock == Place(job.start + job.next)

BlockErase ==
    /\ pc = "blkErase"
    /\ data' = Erased(data, JobBlock)
    /\ fat' = IF JobBlock = -1 THEN BlankFat ELSE fat
    /\ pc' = "blkWrite"
    /\ UNCHANGED <<ram, job, acked, maybe, loose, astray, ops>>

\* The entry once the blocks of the job are written.  Mutants: its block
\* count, its first block is not updated.
NewEntryFewBlocks ==
    [EntryOf(ram, job.name) EXCEPT !.start = job.start, !.size = Len(job.content), !.blocks = 1]
NewEntryOldStart ==
    [EntryOf(ram, job.name) EXCEPT !.size = Len(job.content), !.blocks = Ceil(Len(job.content))]
NewEntry ==
    LET e == EntryOf(ram, job.name)
        len == Len(job.content) % Mod
    IN  [e EXCEPT !.start = job.start, !.size = len,
                  !.blocks = IF FitsInPlace(e, job.content) THEN @ ELSE Ceil(len)]

BlockWrite ==
    /\ pc = "blkWrite"
    /\ data' = Programmed(data, JobBlock, 0, Segment(job), Len(Segment(job)))
    /\ fat' = IF JobBlock = -1 THEN TornFat ELSE fat
    /\ IF LastBlock(job)
       THEN /\ ram' = SetEntry(ram, job.name, NewEntry)
            /\ pc' = "fatErase" /\ UNCHANGED job
       ELSE /\ job' = [job EXCEPT !.next = @ + 1]
            /\ pc' = "blkErase" /\ UNCHANGED ram
    /\ UNCHANGED <<acked, maybe, loose, astray, ops>>

\* job.next cells, programmed behind the file's last byte in its last block.
TailChunk == SubSeq(job.content, Len(job.content) - job.next + 1, Len(job.content))
TailProgrammed(k) ==
    LET e == EntryOf(ram, job.name)
    IN  Programmed(data, TailBlock(e), InBlock(e), TailChunk, k)
\* What the FAT block may hold after it: a torn entry may end in that block.
TailFat ==
    IF TailBlock(EntryOf(ram, job.name)) = -1
    THEN {fat, TornFat} \cup {[fat EXCEPT !.slots[i].name = Garbled] : i \in Runs(fat)}
    ELSE {fat}
TailProgram ==
    /\ pc = "tail"
    /\ data' = TailProgrammed(job.next) /\ fat' \in TailFat
    /\ ram' = LET e == EntryOf(ram, job.name)
              IN  SetEntry(ram, job.name, [e EXCEPT !.size = (@ + job.next) % Mod])
    /\ pc' = "fatErase"
    /\ UNCHANGED <<job, acked, maybe, loose, astray, ops>>

\* fat_commit
FatErase ==
    /\ pc = "fatErase"
    /\ fat' = BlankFat /\ pc' = "fatWrite"
    /\ UNCHANGED <<data, ram, job, acked, maybe, loose, astray, ops>>

Return == pc' = "idle" /\ job' = NoJob

\* Where the operation returns 0.  An append leaves a file whose last
\* overwrite failed as unreliable as it was; a format leaves a sound store.
FatWrite ==
    /\ pc = "fatWrite"
    /\ fat' = ram
    /\ CASE job.op = "writeNew" ->
              Store(ram, job.name, job.content) /\ UNCHANGED <<acked, maybe, astray>>
         [] job.op = "format" ->
              /\ Return /\ UNCHANGED ram
              /\ acked' = [n \in Names |-> Absent] /\ maybe' = [n \in Names |-> {}]
              /\ loose' = {} /\ astray' = FALSE
         [] OTHER ->
              /\ Return /\ UNCHANGED <<ram, astray>>
              /\ acked' = [acked EXCEPT ![job.name] = job.content]
              /\ maybe' = [maybe EXCEPT ![job.name] = {}]
              /\ loose' = IF job.op = "append" THEN loose ELSE loose \ {job.name}
    /\ UNCHANGED <<data, ops>>

(***************************************************************************)
(* What the HAL call under way leaves when it fails or is cut.  A write of *)
(* the FAT stops before or after its magic, between two entries, or inside *)
(* one; what it has not reached is erased.                                 *)
(***************************************************************************)
CutData ==
    CASE pc = "blkErase" -> {data, Junked(data, JobBlock), Erased(data, JobBlock)}
      [] pc = "format" /\ job.next # -1 -> {data, Junked(data, job.next), Erased(data, job.next)}
      [] pc = "blkWrite" -> {Programmed(data, JobBlock, 0, Segment(job), k) :
                               k \in 0 .. Len(Segment(job))}
      [] pc = "tail" -> {TailProgrammed(k) : k \in 0 .. job.next}
      [] OTHER -> {data}

\* The table as far as slot i, which got as far as e.
UpTo(i, e) ==
    Table(ram.magic, [j \in Slots |-> IF j < i THEN ram.slots[j] ELSE IF j = i THEN e ELSE Free])
CutEntries(e) == {Free, e} \cup (IF e.name = NoName THEN {} ELSE TornEntries(e))
CutFat ==
    CASE pc = "fatErase" \/ (pc = "format" /\ job.next = -1) \/ (pc = "blkErase" /\ JobBlock = -1)
           -> {fat, TornFat, BlankFat}
      [] pc = "fatWrite" ->
            {BlankFat} \cup UNION {{UpTo(i, e) : e \in CutEntries(ram.slots[i])} : i \in Slots}
      [] pc = "blkWrite" /\ JobBlock = -1 -> {fat, TornFat}
      [] pc = "tail" -> TailFat
      [] OTHER -> {fat}

HalCall == {"format", "blkErase", "blkWrite", "tail", "fatErase", "fatWrite"}

\* The call addresses what is not the store's: the HAL may refuse it.
Strays ==
    \/ pc \in {"blkErase", "blkWrite"} /\ JobBlock \notin BlockNos \cup {-1}
    \/ pc = "tail" /\ TailBlock(EntryOf(ram, job.name)) \notin BlockNos \cup {-1}

\* An error of the HAL ends the operation, except in the tail program, after
\* which fs_append rewrites the file if it can read it.  Without a format
\* there is no store.
HalFail ==
    /\ pc \in HalCall /\ ("fail" \in Faults \/ Strays)
    /\ data' \in CutData /\ fat' \in CutFat
    /\ \/ /\ pc = "tail"
          /\ Rewrite(job.name, View(ram, data')[job.name] \o TailChunk)
       \/ /\ pc = "tail" => EntryOf(ram, job.name).size > N * B
          /\ pc' = IF job.op = "format" THEN "corrupt" ELSE "idle"
          /\ job' = NoJob /\ UNCHANGED <<ram, loose>>
    /\ UNCHANGED <<acked, maybe, astray, ops>>

FatCommit == pc = "fatWrite" \/ pc = "fatErase"

PowerLoss ==
    /\ "loss" \in Faults /\ pc # "off"
    /\ FatCommit => "fatloss" \in Faults
    /\ data' \in CutData /\ fat' \in CutFat
    /\ ram' = ZeroFat /\ pc' = "off" /\ job' = NoJob
    /\ UNCHANGED <<acked, maybe, loose, astray, ops>>

SomeCreate == \E n \in Names : Create(n)
SomeDelete == \E n \in Names : Delete(n)
SomeWrite == \E n \in Names, c \in Contents : Write(n, c)
SomeAppend == \E n \in Names, s \in Chunks : FsAppend(n, s)

Next ==
    \/ Mount
    \/ SomeCreate \/ SomeDelete \/ SomeWrite \/ SomeAppend \/ Format
    \/ FormatErase \/ BlockErase \/ BlockWrite \/ TailProgram \/ FatErase \/ FatWrite
    \/ HalFail \/ PowerLoss

Spec == Init /\ [][Next]_vars

-----------------------------------------------------------------------------
(***************************************************************************)
(* Tables are words whatever was mounted; until a torn table is, they name *)
(* blocks and sizes of the store and no HAL call leaves its data blocks.   *)
(***************************************************************************)
CellValues == Symbols \cup {Blank, Junk}
TypeOK ==
    /\ fat \in WordTables /\ ram \in WordTables
    /\ data \in [BlockNos -> [Cells -> CellValues]]
    /\ pc \in {"off", "corrupt", "idle"} \cup HalCall
    /\ pc = "idle" => ram.magic = "ok" /\ job = NoJob
    /\ ~astray => ram \in Tables /\ (pc \in {"blkErase", "blkWrite"} => JobBlock \in BlockNos)
    /\ loose \subseteq Names /\ astray \in BOOLEAN /\ ops \in 0 .. MaxOps

(***************************************************************************)
(* First-fit allocation and the reuse of what moved or deleted files gave  *)
(* up: no block belongs to two files, no file exceeds its blocks, no name  *)
(* appears twice, in RAM and in the whole entries of whatever table a      *)
(* failed or cut commit left in flash.  It holds until a table with a torn *)
(* entry is mounted, which the store takes for a sound one.                *)
(***************************************************************************)
Sound(f) ==
    /\ \A i \in Runs(f) : /\ f.slots[i].start + f.slots[i].blocks <= N
                          /\ f.slots[i].size <= f.slots[i].blocks * B
    /\ \A i, j \in Runs(f) : i # j =>
         /\ f.slots[i].name # f.slots[j].name
         /\ \A b \in BlockNos : ~ (Holds(f.slots[i], b) /\ Holds(f.slots[j], b))
Layout == ~astray => Sound(ram) /\ Sound(Untorn(fat))

(***************************************************************************)
(* What a restart would find: a file reads as after its last acknowledged  *)
(* operation or as one asked for since, unless its blocks were being       *)
(* rewritten in place (fs_store.h makes no promise there).  In the commit  *)
(* window this says what the table being written holds, unless a loss may  *)
(* strike there.                                                           *)
(***************************************************************************)
Restarted == IF FatCommit /\ "fatloss" \notin Faults THEN View(ram, data) ELSE View(fat, data)
Owed(n) == {acked[n]} \cup maybe[n]
Durable == \A n \in Names \ loose : Restarted[n] \in Owed(n)

(* Between operations the table in flash is the one in RAM. *)
RestartAgrees == pc = "idle" => fat = ram

(***************************************************************************)
(* What fs_read returns between operations, when HAL calls may fail at any *)
(* point: the RAM table and the blocks it names stay in step, until a torn *)
(* table is mounted.                                                       *)
(***************************************************************************)
ReadBack == pc = "idle" /\ ~astray => \A n \in Names \ loose : View(ram, data)[n] \in Owed(n)

(***************************************************************************)
(* No HAL call made for one file, completed, failed or cut, changes what   *)
(* another reads as, until a torn table is mounted.                        *)
(***************************************************************************)
SparesOthers ==
    pc \in {"blkErase", "blkWrite", "tail"} /\ ~astray =>
        \A n \in Names \ {job.name} : View(ram, data')[n] = View(ram, data)[n]
OthersUntouched == [][SparesOthers]_vars
=============================================================================
