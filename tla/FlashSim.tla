------------------------------ MODULE FlashSim ------------------------------
(***************************************************************************)
(* simulator/flash_sim.c: the medium under every store, a memory image     *)
(* written through to a BIN file; "NOR" stands for NAND too.               *)
(*                                                                         *)
(* A call of flash_sim_erase goes block by block and may be cut between    *)
(* two of them when the process dies; every other call is one step.  The   *)
(* delays and the statistics but for the wear are left out; a call that    *)
(* returns on its arguments alone changes nothing and is no step.          *)
(***************************************************************************)
EXTENDS Integers, FiniteSets

CONSTANTS
    NBlocks,    \* dev->nblocks
    NCells,     \* cells of a block; a cell is two bits
    Limit,      \* cfg.erase_cycles
    BadBlocks,  \* cfg.bad_blocks
    BadRatio,   \* cfg.bad_ratio > 0
    MaxCalls    \* bound on calls and restarts

ASSUME ConstAssumption ==
    /\ NBlocks \in Nat \ {0} /\ NCells \in Nat \ {0}
    /\ Limit \in Nat /\ BadBlocks \in 0 .. NBlocks
    /\ BadRatio \in BOOLEAN /\ MaxCalls \in Nat

BlockNos == 0 .. NBlocks - 1
Offsets == 0 .. NCells - 1
Bits == 0 .. 3
Erased == [c \in Offsets |-> 3]
AndBits(x, y) == (x % 2) * (y % 2) + 2 * ((x \div 2) * (y \div 2))
Raises(old, new) == AndBits(old, new) # new

VARIABLES
    type,      \* cfg.type: "NOR" or "EEPROM", fixed
    bin,       \* the BIN file, as another process would find it
    unflushed, \* blocks written with fwrite and not flushed since
    image,     \* dev->image
    wear,      \* dev->erase_cycles
    bad,       \* dev->bad
    pc,        \* "closed", "idle" or "erase"
    from, at, end, \* the erase under way: its first, next and past-last block
    before,    \* history: the image when it began
    rc,        \* the last call's return: "ok" or "error"
    calls
vars == <<type, bin, unflushed, image, wear, bad, pc, from, at, end, before, rc, calls>>
erasing == <<from, at, end, before>>

BlankImage == [b \in BlockNos |-> Erased]
NoWear == [b \in BlockNos |-> 0]

Init ==
    /\ type \in {"NOR", "EEPROM"}
    /\ bin = BlankImage /\ unflushed = {} /\ image = BlankImage
    /\ wear = NoWear /\ bad = {} /\ pc = "closed"
    /\ from = 0 /\ at = 0 /\ end = 0 /\ before = BlankImage /\ rc = "ok"
    /\ calls = 0

Call == pc = "idle" /\ calls < MaxCalls /\ calls' = calls + 1

FixedBad == IF type = "NOR" THEN BadBlocks ELSE 0

\* flash_sim_init: wear starts at 0 and the fixed bad blocks are drawn anew.
Open ==
    /\ pc = "closed" /\ calls < MaxCalls /\ calls' = calls + 1
    /\ image' = bin
    /\ wear' = NoWear
    /\ bad' \in {s \in SUBSET BlockNos : Cardinality(s) <= FixedBad}
    /\ pc' = "idle" /\ rc' = "ok"
    /\ UNCHANGED <<type, bin, unflushed, erasing>>

(***************************************************************************)
(* flash_sim_write: all of it or, where it touches a bad block, nothing.   *)
(* Cells are numbered across blocks; one value is written to all of them.  *)
(***************************************************************************)
\* Mutant: the value is stored as it is.
StoredRaw(old, new) == new
Stored(old, new) == IF type = "NOR" THEN AndBits(old, new) ELSE new

\* Mutant: only the first block of the write is checked.
TouchedFirst(first, last) == {first \div NCells}
Touched(first, last) == first \div NCells .. last \div NCells
Written(first, last, v) ==
    [b \in BlockNos |-> [c \in Offsets |->
        IF b * NCells + c \in first .. last THEN Stored(image[b][c], v) ELSE image[b][c]]]

Write(first, last, v) ==
    /\ Call
    /\ \/ /\ Touched(first, last) \cap bad = {}
          /\ image' = Written(first, last, v)
          /\ bin' = image' /\ unflushed' = {} /\ rc' = "ok"
       \/ /\ Touched(first, last) \cap bad # {}
          /\ rc' = "error" /\ UNCHANGED <<bin, unflushed, image>>
    /\ UNCHANGED <<type, wear, bad, pc, erasing>>

(***************************************************************************)
(* flash_sim_erase of n blocks from b on.                                  *)
(***************************************************************************)
\* Mutant: a block more than asked for.
EraseOneMore(b, n) ==
    /\ Call /\ type # "EEPROM"
    /\ pc' = "erase" /\ from' = b /\ at' = b /\ end' = b + n + 1 /\ before' = image
    /\ UNCHANGED <<type, bin, unflushed, image, wear, bad, rc>>
Erase(b, n) ==
    /\ Call /\ type # "EEPROM"
    /\ pc' = "erase" /\ from' = b /\ at' = b /\ end' = b + n /\ before' = image
    /\ UNCHANGED <<type, bin, unflushed, image, wear, bad, rc>>

Return(r) == pc' = "idle" /\ rc' = r /\ from' = 0 /\ at' = 0 /\ end' = 0

\* Mutants: one erase more than the limit; a bad block is skipped; the file
\* is not flushed when the last block is done.
WornLate(b) == wear[b] > Limit
Worn(b) == wear[b] >= Limit

EraseRefusedSkips ==
    /\ pc = "erase" /\ (at \in bad \/ Worn(at))
    /\ IF at + 1 = end THEN Return("ok") ELSE at' = at + 1 /\ UNCHANGED <<pc, rc, from, end>>
    /\ UNCHANGED <<type, bin, unflushed, image, wear, bad, before, calls>>
\* A bad or worn block ends the call: what was erased before it stays erased.
EraseRefused ==
    /\ pc = "erase" /\ (at \in bad \/ Worn(at))
    /\ Return("error")
    /\ UNCHANGED <<type, bin, unflushed, image, wear, bad, before, calls>>

\* bad_ratio: the block turns bad, whatever its wear.
EraseInjected ==
    /\ pc = "erase" /\ BadRatio /\ at \notin bad
    /\ bad' = bad \cup {at}
    /\ Return("error")
    /\ UNCHANGED <<type, bin, unflushed, image, wear, before, calls>>

EraseBlockNoFlush ==
    /\ pc = "erase" /\ at \notin bad /\ ~Worn(at)
    /\ image' = [image EXCEPT ![at] = Erased]
    /\ wear' = [wear EXCEPT ![at] = @ + 1]
    /\ unflushed' = unflushed \cup {at}
    /\ IF at + 1 = end THEN Return("ok") ELSE at' = at + 1 /\ UNCHANGED <<pc, rc, from, end>>
    /\ UNCHANGED <<type, bin, bad, before, calls>>
EraseBlock ==
    /\ pc = "erase" /\ at \notin bad /\ ~Worn(at)
    /\ image' = [image EXCEPT ![at] = Erased]
    /\ wear' = [wear EXCEPT ![at] = @ + 1]
    /\ IF at + 1 = end
       THEN bin' = image' /\ unflushed' = {} /\ Return("ok")
       ELSE /\ unflushed' = unflushed \cup {at} /\ at' = at + 1
            /\ UNCHANGED <<bin, pc, rc, from, end>>
    /\ UNCHANGED <<type, bad, before, calls>>

\* flash_sim_deinit: fclose flushes.
Close ==
    /\ pc = "idle" /\ pc' = "closed"
    /\ bin' = image /\ unflushed' = {}
    /\ UNCHANGED <<type, image, wear, bad, erasing, rc, calls>>

\* The process dies: of the blocks not flushed any may have reached the file.
Kill ==
    /\ pc # "closed" /\ pc' = "closed"
    /\ \E s \in SUBSET unflushed :
          bin' = [b \in BlockNos |-> IF b \in s THEN image[b] ELSE bin[b]]
    /\ unflushed' = {} /\ from' = 0 /\ at' = 0 /\ end' = 0
    /\ UNCHANGED <<type, image, wear, bad, before, rc, calls>>

AllCells == 0 .. NBlocks * NCells - 1
SomeWrite == \E first \in AllCells, v \in Bits : \E last \in first .. NBlocks * NCells - 1 :
                Write(first, last, v)
SomeErase == \E b \in BlockNos : \E n \in 1 .. NBlocks - b : Erase(b, n)

Next ==
    \/ Open \/ SomeWrite \/ SomeErase
    \/ EraseRefused \/ EraseInjected \/ EraseBlock
    \/ Close \/ Kill

Spec == Init /\ [][Next]_vars

-----------------------------------------------------------------------------
(* The file, the image and the counters have their types. *)
TypeOK ==
    /\ bin \in [BlockNos -> [Offsets -> Bits]] /\ image \in [BlockNos -> [Offsets -> Bits]]
    /\ unflushed \subseteq BlockNos /\ bad \subseteq BlockNos
    /\ wear \in [BlockNos -> Nat]
    /\ type \in {"NOR", "EEPROM"} /\ pc \in {"closed", "idle", "erase"} /\ rc \in {"ok", "error"}
    /\ from \in 0 .. NBlocks /\ at \in from .. NBlocks /\ end \in at .. NBlocks
    /\ pc = "erase" => at < end
    /\ calls \in 0 .. MaxCalls

(***************************************************************************)
(* While the device is open the BIN file lags behind the image only in     *)
(* blocks an erase has written and not flushed, and after a call that      *)
(* returned 0 in none, so that a process that dies loses nothing           *)
(* acknowledged.  (After an erase that failed half-way it may lag:         *)
(* flash_sim_erase returns without flushing the blocks it did erase.)      *)
(***************************************************************************)
WriteThrough ==
    /\ pc # "closed" => \A b \in BlockNos \ unflushed : bin[b] = image[b]
    /\ pc = "closed" \/ (pc = "idle" /\ rc = "ok") => unflushed = {}

(***************************************************************************)
(* A failed or cut erase is a prefix: the blocks before the one it stopped *)
(* at are blank, that one and those behind it untouched.  The stores'      *)
(* models rest on this (KvStore's CutErase).                               *)
(***************************************************************************)
ErasePrefix ==
    pc = "erase" => image = [b \in BlockNos |-> IF b \in from .. at - 1 THEN Erased ELSE before[b]]

(* No block is erased more often than its rated life while the device is open. *)
WearBounded == \A b \in BlockNos : wear[b] <= Limit

(***************************************************************************)
(* Bits rise only where a good block is erased as a whole and the erase is *)
(* counted; programming, on any path, never raises one.                    *)
(***************************************************************************)
RiseOnlyByErase ==
    type = "NOR" => \A b \in BlockNos :
        (\E c \in Offsets : Raises(image[b][c], image'[b][c])) =>
            \/ image'[b] = Erased /\ b \notin bad /\ wear'[b] = wear[b] + 1
            \/ pc = "closed"
BitsFall == [][RiseOnlyByErase]_vars

(***************************************************************************)
(* A block marked bad, at opening or in the middle of an erase, keeps its  *)
(* contents for as long as the device is open, whatever multi-block write  *)
(* or erase runs over it.                                                  *)
(***************************************************************************)
BadFrozen == [][pc # "closed" => \A b \in bad : image'[b] = image[b]]_vars

=============================================================================
