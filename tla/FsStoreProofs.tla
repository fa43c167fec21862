--------------------------- MODULE FsStoreProofs -----------------------------
(***************************************************************************)
(* The file store, for every number of files, blocks and cells, whatever   *)
(* the contents and however many operations.                               *)
(*                                                                         *)
(* A table torn inside an entry mounts, and what the store then does only  *)
(* keeps words words (WordInv).  Until then ReadInv holds, whatever fails. *)
(* It says that the table in RAM and the whole entries of the one in flash *)
(* are sound (their files have blocks enough and share none), how far the  *)
(* operation under way has come (Phase), that the blocks it fills belong   *)
(* to no file and hold what has been written of the new content (FillInv), *)
(* that a tail is programmed over erased cells (TailInv), and that every   *)
(* file reads as its caller may expect (Promise).  PowerInv adds what a    *)
(* restart would find (Kept), for losses outside the save of the table,    *)
(* which tear none.                                                        *)
(***************************************************************************)
EXTENDS FsStore, NatFacts, SequenceTheorems

-----------------------------------------------------------------------------
(* Sizes and blocks. *)

\* Ceil(len) blocks hold len cells, and one fewer do not.
LEMMA CeilIs ==
    ASSUME NEW len \in Nat
    PROVE  /\ Ceil(len) \in Nat /\ len <= Ceil(len) * B
           /\ len > 0 => Ceil(len) > 0 /\ (Ceil(len) - 1) * B < len
           /\ len = 0 => Ceil(len) = 0
  <1>1. B \in Nat \ {0} /\ len + B - 1 \in Nat
    BY ConstAssumption
  <1>2. DEFINE q == (len + B - 1) \div B
               r == (len + B - 1) % B
  <1>3. q \in Nat /\ r \in 0 .. B - 1 /\ len + B - 1 = B * q + r
    BY <1>1, DivMod
  <1>4. Ceil(len) = q
    BY DEF Ceil
  <1> HIDE DEF q, r
  <1>5. len <= q * B
    BY <1>1, <1>3, SMT
  <1>6. len = 0 => q = 0
    <2>1. SUFFICES ASSUME len = 0, q > 0 PROVE FALSE
      BY <1>3
    <2>2. B * 1 <= B * q
      BY <1>1, <1>3, <2>1, MulMono
    <2> QED BY <1>1, <1>3, <2>1, <2>2, SMT
  <1>7. (q - 1) * B < len
    BY <1>1, <1>3, SMT
  <1>8. ASSUME len > 0 PROVE q > 0
    BY <1>1, <1>3, <1>8, SMT
  <1> QED BY <1>3, <1>4, <1>5, <1>6, <1>7, <1>8

\* The least number of blocks that holds len cells.
LEMMA CeilLeast ==
    ASSUME NEW len \in Nat, NEW k \in Nat
    PROVE  len <= k * B <=> Ceil(len) <= k
  <1>1. B \in Nat \ {0}
    BY ConstAssumption
  <1>2. ASSUME len <= k * B, Ceil(len) > k PROVE FALSE
    <2>1. Ceil(len) \in Nat /\ len > 0 /\ (Ceil(len) - 1) * B < len
      BY <1>2, CeilIs
    <2>2. B * k <= B * (Ceil(len) - 1)
      BY <1>1, <1>2, <2>1, MulMono
    <2> QED BY <1>1, <1>2, <2>1, <2>2, SMT
  <1>3. ASSUME Ceil(len) <= k PROVE len <= k * B
    <2>1. Ceil(len) \in Nat /\ len <= Ceil(len) * B
      BY CeilIs
    <2>2. B * Ceil(len) <= B * k
      BY <1>1, <1>3, <2>1, MulMono
    <2> QED BY <1>1, <2>1, <2>2, SMT
  <1> QED BY <1>2, <1>3, CeilIs

\* Where the cell with offset i of a file of k blocks lies.
LEMMA CellPlace ==
    ASSUME NEW k \in Nat, NEW i \in Nat, i < k * B
    PROVE  i \div B \in 0 .. k - 1 /\ i % B \in Cells /\ i = B * (i \div B) + (i % B)
  <1>1. B \in Nat \ {0}
    BY ConstAssumption
  <1>2. i \div B < k
    BY <1>1, DivBelow
  <1>3. i \div B \in Nat /\ i % B \in 0 .. B - 1 /\ i = B * (i \div B) + (i % B)
    BY <1>1, DivMod
  <1> QED BY <1>2, <1>3 DEF Cells

\* A block of the store lies at its own place.
LEMMA PlaceIs ==
    ASSUME NEW b \in BlockNos
    PROVE  Place(b) = b
  <1>1. /\ B \in Nat \ {0} /\ N \in Nat /\ Mod \in Nat /\ N * B + 1 < Mod
        /\ b \in Nat /\ b + 1 \in Nat /\ b + 1 <= N
    BY ConstAssumption, WordAssumption DEF BlockNos
  <1>2. B * (b + 1) <= B * N
    BY <1>1, MulMono
  <1>3. (b + 1) * B \in Nat /\ (b + 1) * B < Mod
    BY <1>1, <1>2, MulFacts
  <1> DEFINE o == (b + 1) * B
  <1>4. o % Mod = o
    <2> HIDE DEF o
    <2>1. o = Mod * 0 + o /\ o \in 0 .. Mod - 1 /\ Mod \in Nat \ {0}
      BY <1>1, <1>3 DEF o
    <2> QED BY <2>1, SMT
  <1>5. o \div B = b + 1
    <2>1. 0 \in 0 .. B - 1
      BY <1>1
    <2>2. (B * (b + 1) + 0) \div B = b + 1
      BY <1>1, <2>1, DivModIs
    <2>3. B * (b + 1) + 0 = o
      BY <1>1, MulFacts
    <2> QED BY <2>2, <2>3
  <1> HIDE DEF o
  <1>6. Place(b) = (o % Mod) \div B - 1
    BY DEF Place, o
  <1> QED BY <1>1, <1>4, <1>5, <1>6

-----------------------------------------------------------------------------
(* Tables. *)

\* What the store counts fits a word.
LEMMA InWords ==
    /\ BlockNos \subseteq Words /\ 0 .. N \subseteq Words /\ 0 .. N * B \subseteq Words
    /\ Top \in Words /\ Mod \in Nat \ {0} /\ \A w \in 0 .. N * B : w % Mod = w
  <1> DEFINE m == N * B
  <1>1. N \in Nat \ {0} /\ Mod \in Nat /\ 2 * N <= Mod /\ m + 1 < Mod /\ m \in Nat
    BY ConstAssumption, WordAssumption, MulFacts
  <1>2. m \in Nat /\ m < Mod
    <2> HIDE DEF m
    <2> QED BY <1>1
  <1> HIDE DEF m
  <1>3. \A w \in 0 .. m : w % Mod = w
    BY <1>1, <1>2, SMT
  <1>4. /\ BlockNos \subseteq Words /\ 0 .. N \subseteq Words /\ 0 .. m \subseteq Words
        /\ Top \in Words /\ Mod \in Nat \ {0}
    BY <1>1, <1>2 DEF BlockNos, Words, Top
  <1> QED BY <1>3, <1>4 DEF m

\* Entries of the store are entries of words, and none of them is garbled.
LEMMA EntryWords ==
    ASSUME NEW e \in Entries
    PROVE  e \in WordEntries
  BY InWords DEF Entries, WordEntries

\* The blocks an entry of the store names: the sum does not wrap.
LEMMA HoldsIs ==
    ASSUME NEW e \in Entries, NEW b
    PROVE  Holds(e, b) <=> e.name # NoName /\ e.start <= b /\ b < e.start + e.blocks
  <1>1. e.start \in 0 .. N - 1 /\ e.blocks \in 0 .. N /\ N \in Nat /\ Mod \in Nat /\ 2 * N <= Mod
    BY ConstAssumption, WordAssumption DEF Entries, BlockNos
  <1>2. (e.start + e.blocks) % Mod = e.start + e.blocks
    BY <1>1, SMT
  <1> QED BY <1>2 DEF Holds

\* A table of the store is a table of words, with no torn entry.
LEMMA WholeIs ==
    ASSUME NEW f \in Tables
    PROVE  f \in WordTables /\ Untorn(f) = f
  <1>1. \A i \in Slots : f.slots[i] \in Entries /\ f.slots[i] \in WordEntries
    BY EntryWords DEF Tables
  <1>2. f.slots = [i \in Slots |-> f.slots[i]]
    BY DEF Tables
  <1>3. [i \in Slots |-> IF f.slots[i] \in Entries THEN f.slots[i] ELSE Free] = f.slots
    BY <1>1, <1>2
  <1>4. Untorn(f) = f
    BY <1>3 DEF Untorn, Tables
  <1>5. f \in WordTables
    BY <1>1 DEF Tables, WordTables
  <1> QED BY <1>4, <1>5

\* entry_find finds an entry of that name.
LEMMA Found ==
    ASSUME NEW f \in Tables, NEW n, Exists(f, n)
    PROVE  /\ Min(SlotOf(f, n)) \in Slots
           /\ f.slots[Min(SlotOf(f, n))].name = n
           /\ EntryOf(f, n) = f.slots[Min(SlotOf(f, n))]
           /\ EntryOf(f, n) \in Entries
  <1>1. SlotOf(f, n) \in SUBSET Nat /\ SlotOf(f, n) # {}
    BY ConstAssumption DEF SlotOf, Exists, Slots
  <1>2. Min(SlotOf(f, n)) \in SlotOf(f, n)
    BY <1>1, LeastNat
  <1>3. Min(SlotOf(f, n)) \in Slots /\ f.slots[Min(SlotOf(f, n))].name = n
    BY <1>2 DEF SlotOf
  <1> QED BY <1>3 DEF EntryOf, Tables

\* It is the only one of that name.
LEMMA Lookup ==
    ASSUME NEW f \in Tables, Sound(f), NEW n \in Names, NEW i \in Slots,
           f.slots[i].name = n
    PROVE  Exists(f, n) /\ Min(SlotOf(f, n)) = i /\ EntryOf(f, n) = f.slots[i]
  <1>1. Exists(f, n)
    BY DEF Exists, SlotOf
  <1>2. /\ Min(SlotOf(f, n)) \in Slots /\ f.slots[Min(SlotOf(f, n))].name = n
        /\ EntryOf(f, n) = f.slots[Min(SlotOf(f, n))]
    BY <1>1, Found
  <1>3. i \in Runs(f) /\ Min(SlotOf(f, n)) \in Runs(f)
    BY <1>2, ConstAssumption DEF Runs
  <1> QED BY <1>1, <1>2, <1>3 DEF Sound

\* What the invariant says of one file.
LEMMA FileFits ==
    ASSUME NEW f \in Tables, Sound(f), NEW n \in Names, Exists(f, n)
    PROVE  LET e == EntryOf(f, n)
           IN  /\ e \in Entries /\ e.name = n /\ e.start + e.blocks <= N
               /\ e.size \in Nat /\ e.size <= e.blocks * B
               /\ \A b : Holds(e, b) => InUse(f, b)
  <1>1. /\ Min(SlotOf(f, n)) \in Slots /\ f.slots[Min(SlotOf(f, n))].name = n
        /\ EntryOf(f, n) = f.slots[Min(SlotOf(f, n))] /\ EntryOf(f, n) \in Entries
    BY Found
  <1>2. Min(SlotOf(f, n)) \in Runs(f)
    BY <1>1, ConstAssumption DEF Runs
  <1>3. EntryOf(f, n).size \in Nat
    BY <1>1 DEF Entries
  <1> QED BY <1>1, <1>2, <1>3 DEF Sound, InUse

\* No block is another file's.
LEMMA Apart ==
    ASSUME NEW f \in Tables, Sound(f), NEW n \in Names, NEW m \in Names, n # m,
           Exists(f, n), Exists(f, m), NEW b \in BlockNos, Holds(EntryOf(f, n), b)
    PROVE  ~ Holds(EntryOf(f, m), b)
  <1>1. \A k \in {n, m} :
          /\ Min(SlotOf(f, k)) \in Runs(f) /\ f.slots[Min(SlotOf(f, k))].name = k
          /\ EntryOf(f, k) = f.slots[Min(SlotOf(f, k))]
    BY Found, ConstAssumption DEF Runs
  <1> QED BY <1>1 DEF Sound

\* Table g is f with entry e in slot i.
Replaced(f, g, i, e) == g = [f EXCEPT !.slots[i] = e]
\* Replacing one entry leaves a table and the other entries.
LEMMA ReplacedIs ==
    ASSUME NEW f \in Tables, NEW i \in Slots, NEW e \in Entries, NEW g, Replaced(f, g, i, e)
    PROVE  /\ g \in Tables /\ g.magic = f.magic /\ g.slots[i] = e
           /\ \A j \in Slots : j # i => g.slots[j] = f.slots[j]
  BY DEF Replaced, Tables

\* A replacement that fits its blocks and meets no other entry keeps a table sound.
LEMMA ReplacedSound ==
    ASSUME NEW f \in Tables, Sound(f), NEW i \in Slots, NEW e \in Entries,
           NEW g, Replaced(f, g, i, e),
           e.name # NoName =>
             /\ e.start + e.blocks <= N /\ e.size <= e.blocks * B
             /\ \A j \in Slots \ {i} : f.slots[j].name # NoName =>
                  /\ f.slots[j].name # e.name
                  /\ \A b \in BlockNos : ~ (Holds(f.slots[j], b) /\ Holds(e, b))
    PROVE  Sound(g)
  <1>1. /\ g.slots[i] = e
        /\ \A j \in Slots : j # i => g.slots[j] = f.slots[j]
    BY ReplacedIs
  <1>2. ASSUME NEW j \in Runs(g)
        PROVE  /\ g.slots[j].start + g.slots[j].blocks <= N
               /\ g.slots[j].size <= g.slots[j].blocks * B
    <2>1. CASE j = i
      BY <1>1, <2>1 DEF Runs
    <2>2. CASE j # i
      <3>1. j \in Runs(f) /\ g.slots[j] = f.slots[j]
        BY <1>1, <2>2 DEF Runs
      <3> QED BY <3>1 DEF Sound
    <2> QED BY <2>1, <2>2
  <1>3. ASSUME NEW j \in Runs(g), NEW k \in Runs(g), j # k
        PROVE  /\ g.slots[j].name # g.slots[k].name
               /\ \A b \in BlockNos : ~ (Holds(g.slots[j], b) /\ Holds(g.slots[k], b))
    <2>1. CASE j = i
      BY <1>1, <1>3, <2>1 DEF Runs
    <2>2. CASE k = i
      BY <1>1, <1>3, <2>2 DEF Runs
    <2>3. CASE j # i /\ k # i
      <3>1. /\ j \in Runs(f) /\ g.slots[j] = f.slots[j]
            /\ k \in Runs(f) /\ g.slots[k] = f.slots[k]
        BY <1>1, <2>3 DEF Runs
      <3> QED BY <3>1, <1>3 DEF Sound
    <2> QED BY <2>1, <2>2, <2>3
  <1> QED BY <1>2, <1>3 DEF Sound

\* It does not touch the files of other names.
LEMMA ReplacedOthers ==
    ASSUME NEW f \in Tables, NEW i \in Slots, NEW e \in Entries, NEW g, Replaced(f, g, i, e),
           NEW m, m # f.slots[i].name, m # e.name
    PROVE  /\ SlotOf(g, m) = SlotOf(f, m) /\ Exists(g, m) = Exists(f, m)
           /\ Exists(f, m) => EntryOf(g, m) = EntryOf(f, m)
  <1>1. /\ g.slots[i] = e
        /\ \A j \in Slots : j # i => g.slots[j] = f.slots[j]
    BY ReplacedIs
  <1>2. SlotOf(g, m) = SlotOf(f, m)
    BY <1>1 DEF SlotOf
  <1>3. ASSUME Exists(f, m) PROVE EntryOf(g, m) = EntryOf(f, m)
    <2>1. Min(SlotOf(f, m)) \in Slots /\ f.slots[Min(SlotOf(f, m))].name = m
      BY <1>3, Found
    <2> QED BY <1>1, <1>2, <2>1 DEF EntryOf
  <1> QED BY <1>2, <1>3 DEF Exists

\* Names m other than n keep their entries.
KeepsOthers(f, g, n) ==
    \A m \in Names \ {n} :
        Exists(g, m) = Exists(f, m) /\ (Exists(f, m) => EntryOf(g, m) = EntryOf(f, m))

\* A file gets an entry whose blocks it held or nobody did.
LEMMA Renewed ==
    ASSUME NEW f \in Tables, Sound(f), NEW n \in Names, Exists(f, n), NEW e \in Entries,
           e.name = n, e.start + e.blocks <= N, e.size <= e.blocks * B,
           \A b \in BlockNos : Holds(e, b) => Holds(EntryOf(f, n), b) \/ ~ InUse(f, b)
    PROVE  LET g == SetEntry(f, n, e)
           IN  /\ g \in Tables /\ g.magic = f.magic /\ Sound(g)
               /\ Exists(g, n) /\ EntryOf(g, n) = e /\ KeepsOthers(f, g, n)
  <1> DEFINE g == SetEntry(f, n, e)
             i == Min(SlotOf(f, n))
  <1>1. i \in Slots /\ f.slots[i].name = n /\ EntryOf(f, n) = f.slots[i]
    BY Found
  <1>2. Replaced(f, g, i, e)
    BY DEF Replaced, SetEntry
  <1> HIDE DEF g, i
  <1>3. g \in Tables /\ g.magic = f.magic /\ g.slots[i] = e
    BY <1>1, <1>2, ReplacedIs
  <1>4. ASSUME NEW j \in Slots \ {i}, f.slots[j].name # NoName
        PROVE  /\ f.slots[j].name # e.name
               /\ \A b \in BlockNos : ~ (Holds(f.slots[j], b) /\ Holds(e, b))
    <2>1. i \in Runs(f) /\ j \in Runs(f)
      BY <1>1, <1>4, ConstAssumption DEF Runs
    <2>2. f.slots[j].name # n
      BY <1>1, <1>4, <2>1 DEF Sound
    <2>3. ASSUME NEW b \in BlockNos, Holds(f.slots[j], b), Holds(e, b) PROVE FALSE
      <3>1. InUse(f, b)
        BY <2>3 DEF InUse
      <3>2. Holds(f.slots[i], b)
        BY <1>1, <2>3, <3>1
      <3> QED BY <1>4, <2>1, <2>3, <3>2 DEF Sound
    <2> QED BY <2>2, <2>3
  <1>5. Sound(g)
    BY <1>1, <1>2, <1>4, ReplacedSound
  <1>6. Exists(g, n) /\ EntryOf(g, n) = e
    BY <1>1, <1>3, <1>5, Lookup
  <1>7. KeepsOthers(f, g, n)
    BY <1>1, <1>2, ReplacedOthers DEF KeepsOthers
  <1> QED BY <1>3, <1>5, <1>6, <1>7 DEF g

\* fs_delete frees the entry of a file.
LEMMA Removed ==
    ASSUME NEW f \in Tables, Sound(f), NEW n \in Names, Exists(f, n)
    PROVE  LET g == SetEntry(f, n, Free)
           IN  /\ g \in Tables /\ g.magic = f.magic /\ Sound(g)
               /\ ~ Exists(g, n) /\ KeepsOthers(f, g, n)
  <1> DEFINE g == SetEntry(f, n, Free)
             i == Min(SlotOf(f, n))
  <1>1. i \in Slots /\ f.slots[i].name = n
    BY Found
  <1>2. Replaced(f, g, i, Free)
    BY DEF Replaced, SetEntry
  <1>3. Free \in Entries /\ Free.name = NoName
    <2>1. 0 \in BlockNos /\ 0 \in 0 .. N /\ 0 <= N * B
      BY ConstAssumption, SMT DEF BlockNos
    <2> QED BY <2>1, ConstAssumption, SMT DEF Free, Entries
  <1> HIDE DEF g, i
  <1>4. /\ g \in Tables /\ g.magic = f.magic /\ g.slots[i] = Free
        /\ \A j \in Slots : j # i => g.slots[j] = f.slots[j]
    BY <1>1, <1>2, <1>3, ReplacedIs
  <1>5. Sound(g)
    BY <1>1, <1>2, <1>3, ReplacedSound
  <1>6. ASSUME Exists(g, n) PROVE FALSE
    <2>1. PICK j \in Slots : g.slots[j].name = n
      BY <1>6 DEF Exists, SlotOf
    <2>2. j # i /\ f.slots[j].name = n
      BY <1>3, <1>4, <2>1, ConstAssumption
    <2>3. i \in Runs(f) /\ j \in Runs(f)
      BY <1>1, <2>2, ConstAssumption DEF Runs
    <2> QED BY <1>1, <2>2, <2>3 DEF Sound
  <1>7. KeepsOthers(f, g, n)
    BY <1>1, <1>2, <1>3, ReplacedOthers, ConstAssumption DEF KeepsOthers
  <1> QED BY <1>4, <1>5, <1>6, <1>7 DEF g

\* fs_create takes a free entry.
LEMMA Added ==
    ASSUME NEW f \in Tables, Sound(f), NEW n \in Names, ~ Exists(f, n), FreeSlots(f) # {}
    PROVE  LET g == WithNew(f, n)
           IN  /\ g \in Tables /\ g.magic = f.magic /\ Sound(g)
               /\ Exists(g, n) /\ EntryOf(g, n).size = 0 /\ KeepsOthers(f, g, n)
  <1> DEFINE g == WithNew(f, n)
             i == Min(FreeSlots(f))
             e == [Free EXCEPT !.name = n]
  <1>1. i \in Slots /\ f.slots[i].name = NoName
    <2>1. FreeSlots(f) \in SUBSET Nat
      BY ConstAssumption DEF FreeSlots, Slots
    <2>2. i \in FreeSlots(f)
      BY <2>1, LeastNat
    <2> QED BY <2>2 DEF FreeSlots
  <1>2. Replaced(f, g, i, e)
    BY DEF Replaced, WithNew
  <1>3. /\ e \in Entries /\ e.name = n /\ e.size = 0 /\ e.start + e.blocks <= N
        /\ e.size <= e.blocks * B
        /\ \A b \in BlockNos : ~ Holds(e, b)
    <2>1. 0 \in BlockNos /\ 0 \in 0 .. N /\ 0 \in 0 .. N * B
      BY ConstAssumption, SMT DEF BlockNos
    <2>2. e.name = n /\ e.size = 0 /\ e.start = 0 /\ e.blocks = 0
      BY DEF Free
    <2>3. e \in Entries
      BY <2>1 DEF Free, Entries
    <2>4. ASSUME NEW b \in BlockNos PROVE ~ Holds(e, b)
      <3>1. ~ (0 <= b /\ b < 0 + 0)
        BY DEF BlockNos
      <3> HIDE DEF e
      <3> QED BY <2>2, <2>3, <3>1, HoldsIs
    <2> QED BY <2>2, <2>3, <2>4, ConstAssumption
  <1> HIDE DEF g, i, e
  <1>4. g \in Tables /\ g.magic = f.magic /\ g.slots[i] = e
    BY <1>1, <1>2, <1>3, ReplacedIs
  <1>5. Sound(g)
    <2>1. \A j \in Slots : f.slots[j].name # n
      BY DEF Exists, SlotOf
    <2> QED BY <1>1, <1>2, <1>3, <2>1, ReplacedSound
  <1>6. Exists(g, n) /\ EntryOf(g, n) = e
    BY <1>1, <1>3, <1>4, <1>5, Lookup
  <1>7. KeepsOthers(f, g, n)
    BY <1>1, <1>2, <1>3, ReplacedOthers, ConstAssumption DEF KeepsOthers
  <1> QED BY <1>3, <1>4, <1>5, <1>6, <1>7 DEF g

\* find_free_blocks returns a run of the wanted length that nobody holds.
LEMMA FirstFreeIs ==
    ASSUME NEW f, NEW need \in Nat, FirstFree(f, need) # -1
    PROVE  /\ need > 0 /\ FirstFree(f, need) \in BlockNos
           /\ FirstFree(f, need) + need <= N
           /\ \A b \in FirstFree(f, need) .. FirstFree(f, need) + need - 1 : ~ InUse(f, b)
  <1> DEFINE starts == {s \in BlockNos : s + need <= N /\ \A b \in s .. s + need - 1 : ~InUse(f, b)}
  <1>1. need # 0 /\ starts # {} /\ FirstFree(f, need) = Min(starts)
    BY DEF FirstFree
  <1>2. starts \in SUBSET Nat
    BY ConstAssumption DEF BlockNos
  <1>3. Min(starts) \in starts
    BY <1>1, <1>2, LeastNat
  <1> QED BY <1>1, <1>3

-----------------------------------------------------------------------------
(* What files read as. *)

Texts == Seq(CellValues)
Disks == [BlockNos -> [Cells -> CellValues]]

\* An entry whose file lies within its blocks and the store.
Fits(e) == e \in Entries /\ e.start + e.blocks <= N /\ e.size <= e.blocks * B
BlockOf(e, i) == e.start + (i \div B)

\* The cell with offset i of a file.
LEMMA FileCell ==
    ASSUME NEW e, Fits(e), NEW d, NEW i \in Nat, i < e.size
    PROVE  /\ i \div B \in 0 .. e.blocks - 1 /\ i % B \in Cells
           /\ i = B * (i \div B) + (i % B)
           /\ BlockOf(e, i) \in BlockNos /\ CellAt(d, e, i) = d[BlockOf(e, i)][i % B]
           /\ e.name # NoName => Holds(e, BlockOf(e, i))
  <1>1. /\ e.blocks \in Nat /\ e.start \in Nat /\ e.size \in Nat /\ e.start + e.blocks <= N
        /\ B \in Nat \ {0} /\ N \in Nat
    BY ConstAssumption DEF Fits, Entries, BlockNos
  <1>2. i < e.blocks * B
    <2>1. e.blocks * B \in Nat /\ e.size <= e.blocks * B
      BY <1>1, SMT DEF Fits
    <2> QED BY <1>1, <2>1
  <1>3. /\ i \div B \in 0 .. e.blocks - 1 /\ i % B \in Cells
        /\ i = B * (i \div B) + (i % B)
    BY <1>1, <1>2, CellPlace
  <1>4. /\ BlockOf(e, i) \in BlockNos
        /\ e.start <= BlockOf(e, i) /\ BlockOf(e, i) < e.start + e.blocks
    BY <1>1, <1>3 DEF BlockNos, BlockOf
  <1>5. Place(e.start + i \div B) = BlockOf(e, i)
    BY <1>4, PlaceIs DEF BlockOf
  <1>6. e.name # NoName => Holds(e, BlockOf(e, i))
    BY <1>4, HoldsIs DEF Fits
  <1> QED BY <1>3, <1>4, <1>5, <1>6 DEF CellAt

\* What is read at any position of a file is a cell value.
LEMMA CellTyped ==
    ASSUME NEW d \in Disks, NEW e, NEW i \in Nat
    PROVE  CellAt(d, e, i) \in CellValues
  <1>1. i % B \in Cells
    BY ConstAssumption, DivMod DEF Cells
  <1> QED BY <1>1 DEF CellAt, Disks, CellValues

\* A file reads as its cells.
LEMMA ViewIs ==
    ASSUME NEW f \in Tables, f.magic = "ok", NEW d \in Disks, NEW n \in Names
    PROVE  /\ ~ Exists(f, n) => View(f, d)[n] = Absent
           /\ Exists(f, n) =>
                /\ View(f, d)[n] = [i \in 1 .. EntryOf(f, n).size |-> CellAt(d, EntryOf(f, n), i - 1)]
                /\ View(f, d)[n] \in Texts
                /\ Len(View(f, d)[n]) = EntryOf(f, n).size
  <1>1. ~ Exists(f, n) => View(f, d)[n] = Absent
    BY DEF View
  <1>2. ASSUME Exists(f, n)
        PROVE  /\ View(f, d)[n] = [i \in 1 .. EntryOf(f, n).size |-> CellAt(d, EntryOf(f, n), i - 1)]
               /\ View(f, d)[n] \in Texts
               /\ Len(View(f, d)[n]) = EntryOf(f, n).size
    <2> DEFINE e == EntryOf(f, n)
               w == [i \in 1 .. e.size |-> CellAt(d, e, i - 1)]
    <2>1. e.size \in Nat
      BY <1>2, Found DEF Entries
    <2>2. View(f, d)[n] = w
      BY <1>2 DEF View
    <2> HIDE DEF e
    <2>3. \A i \in 1 .. e.size : CellAt(d, e, i - 1) \in CellValues
      BY <2>1, CellTyped
    <2>4. w \in Texts /\ Len(w) = e.size
      BY <2>1, <2>3 DEF Texts
    <2> QED BY <2>2, <2>4 DEF e
  <1> QED BY <1>1, <1>2

\* A file keeps reading the same while its entry and the cells of its blocks do.
LEMMA SameView ==
    ASSUME NEW f \in Tables, f.magic = "ok", NEW d \in Disks, Sound(f),
           NEW g \in Tables, g.magic = "ok", NEW d2 \in Disks, NEW n \in Names,
           Exists(g, n) = Exists(f, n),
           Exists(f, n) => EntryOf(g, n) = EntryOf(f, n),
           Exists(f, n) => \A b \in BlockNos : Holds(EntryOf(f, n), b) => d2[b] = d[b]
    PROVE  View(g, d2)[n] = View(f, d)[n]
  <1>1. CASE ~ Exists(f, n)
    <2>1. View(f, d)[n] = Absent
      BY <1>1, ViewIs
    <2>2. View(g, d2)[n] = Absent
      BY <1>1, ViewIs
    <2> QED BY <2>1, <2>2
  <1>2. CASE Exists(f, n)
    <2> DEFINE e == EntryOf(f, n)
    <2>1. Fits(e) /\ e.name # NoName /\ e.size \in Nat
      BY <1>2, FileFits, ConstAssumption DEF Fits
    <2>2. View(f, d)[n] = [i \in 1 .. e.size |-> CellAt(d, e, i - 1)]
      BY <1>2, ViewIs
    <2>3. View(g, d2)[n] = [i \in 1 .. e.size |-> CellAt(d2, e, i - 1)]
      <3>1. Exists(g, n) /\ EntryOf(g, n) = EntryOf(f, n)
        BY <1>2
      <3> QED BY <3>1 DEF View
    <2> HIDE DEF e
    <2>4. ASSUME NEW i \in 1 .. e.size PROVE CellAt(d2, e, i - 1) = CellAt(d, e, i - 1)
      <3>1. i - 1 \in Nat /\ i - 1 < e.size
        BY <2>1
      <3>2. /\ BlockOf(e, i - 1) \in BlockNos /\ Holds(e, BlockOf(e, i - 1))
            /\ CellAt(d2, e, i - 1) = d2[BlockOf(e, i - 1)][(i - 1) % B]
            /\ CellAt(d, e, i - 1) = d[BlockOf(e, i - 1)][(i - 1) % B]
        BY <2>1, <3>1, FileCell
      <3> QED BY <1>2, <3>2 DEF e
    <2> QED BY <2>2, <2>3, <2>4
  <1> QED BY <1>1, <1>2

\* A file whose cells are those of a text reads as that text.
LEMMA ViewText ==
    ASSUME NEW f \in Tables, f.magic = "ok", NEW d \in Disks, NEW n \in Names, Exists(f, n),
           NEW t \in Texts, Len(t) = EntryOf(f, n).size,
           \A i \in 1 .. Len(t) : CellAt(d, EntryOf(f, n), i - 1) = t[i]
    PROVE  View(f, d)[n] = t
  <1>1. View(f, d)[n] = [i \in 1 .. Len(t) |-> CellAt(d, EntryOf(f, n), i - 1)]
    BY ViewIs
  <1>2. [i \in 1 .. Len(t) |-> CellAt(d, EntryOf(f, n), i - 1)] = [i \in 1 .. Len(t) |-> t[i]]
    OBVIOUS
  <1>3. t = [i \in 1 .. Len(t) |-> t[i]]
    BY DEF Texts
  <1> QED BY <1>1, <1>2, <1>3

-----------------------------------------------------------------------------
(* Programming. *)

\* Programming a block keeps the type of the data.
LEMMA ProgrammedIs ==
    ASSUME NEW d \in Disks, NEW b, NEW c \in Nat, NEW s \in Texts,
           NEW k \in Nat, k <= Len(s)
    PROVE  Programmed(d, b, c, s, k) \in Disks
  <1> DEFINE row == [i \in Cells |-> IF i \in c .. c + k - 1
                                     THEN And(d[b][i], s[i - c + 1]) ELSE d[b][i]]
  <1>1. Len(s) \in Nat /\ \A i \in 1 .. Len(s) : s[i] \in CellValues
    BY DEF Texts
  <1>2. ASSUME b \in BlockNos, NEW i \in Cells PROVE row[i] \in CellValues
    <2>1. d[b][i] \in CellValues
      BY <1>2 DEF Disks
    <2>2. ASSUME i \in c .. c + k - 1 PROVE s[i - c + 1] \in CellValues
      <3>1. i - c + 1 \in 1 .. Len(s)
        BY <1>1, <2>2 DEF Cells
      <3> QED BY <1>1, <3>1
    <2> QED BY <2>1, <2>2 DEF And, CellValues
  <1>3. Programmed(d, b, c, s, k) = [x \in BlockNos |-> IF x = b THEN row ELSE d[x]]
    BY DEF Programmed, WithBlock
  <1>4. b \in BlockNos => row \in [Cells -> CellValues]
    BY <1>2
  <1> HIDE DEF row
  <1> QED BY <1>3, <1>4 DEF Disks

-----------------------------------------------------------------------------
(* The invariant. *)

JobOps == {"none", "create", "delete", "write", "writeNew", "append", "format"}
Jobs == [op : JobOps, name : Names \cup {NoName}, content : Texts \cup {Absent},
         start : BlockNos, next : Int]

\* Every variable has its type.
Typed ==
    /\ fat \in WordTables /\ ram \in Tables /\ data \in Disks
    /\ pc \in {"off", "corrupt", "idle"} \cup HalCall
    /\ job \in Jobs
    /\ acked = [n \in Names |-> acked[n]] /\ maybe = [n \in Names |-> maybe[n]]
    /\ loose \subseteq Names /\ ops \in 0 .. MaxOps

\* The table in RAM and the whole entries of the one in flash are sound.
Placed == Sound(ram) /\ Sound(Untorn(fat))
Running == pc \in {"idle", "blkErase", "blkWrite", "tail", "fatErase", "fatWrite"}
Filling == pc \in {"blkErase", "blkWrite"}
Blocks(j) == Ceil(Len(j.content))

\* Job j fills blocks no other file of table f holds: its own, or free ones.
Target(f, j) ==
    LET e == EntryOf(f, j.name)
    IN  /\ j.start + Blocks(j) <= N
        /\ IF FitsInPlace(e, j.content) THEN j.start = e.start
           ELSE \A b \in j.start .. j.start + Blocks(j) - 1 : ~ InUse(f, b)

\* What it has written to data blocks d so far.
Filled(j, d) ==
    \A i \in 0 .. Len(j.content) - 1 :
        i < j.next * B => d[j.start + (i \div B)][i % B] = j.content[i + 1]

FillOk(f, j, d) ==
    /\ j.op = "write" /\ j.name \in Names /\ Exists(f, j.name)
    /\ j.content \in Texts /\ j.content # <<>>
    /\ j.next \in Nat /\ j.next < Blocks(j)
    /\ Target(f, j) /\ Filled(j, d)
FillInv ==
    Filling => FillOk(ram, job, data) /\ (pc = "blkWrite" => data[JobBlock] = ErasedBlock)

\* The tail of the last block is blank, the text is the file and the chunk.
TailOk(f, j, d) ==
    /\ j.op = "append" /\ j.name \in Names /\ Exists(f, j.name)
    /\ LET e == EntryOf(f, j.name)
       IN  /\ e.blocks > 0 /\ e.size > 0 /\ Ceil(e.size) = e.blocks
           /\ InBlock(e) # 0 /\ InBlock(e) + j.next <= B
           /\ \A c \in InBlock(e) .. B - 1 : d[e.start + e.blocks - 1][c] = Blank
           /\ j.next \in Nat \ {0}
           /\ j.content \in Texts /\ Len(j.content) = e.size + j.next
           /\ \A i \in 1 .. e.size : j.content[i] = CellAt(d, e, i - 1)
TailInv == pc = "tail" => TailOk(ram, job, data)

\* A table being committed: which operation it ends.
CommitInv ==
    FatCommit =>
        /\ job.op # "none"
        /\ job.op = "format" => ram = EmptyFat
        /\ job.op # "format" => job.name \in Names
        /\ job.op = "writeNew" => Exists(ram, job.name) /\ job.content \in Texts

Phase ==
    /\ Running => ram.magic = "ok"
    /\ pc \in {"off", "idle"} => job = NoJob
    /\ pc = "format" => job.op = "format" /\ job.next \in -1 .. N - 1

\* What the files read as.
Known(f, n) == n \notin loose => View(f, data)[n] \in Owed(n)
Promise ==
    /\ Running => \A n \in Names : Known(ram, n)
    /\ Filling => /\ job.content \in maybe[job.name]
                  /\ FitsInPlace(EntryOf(ram, job.name), job.content) => job.name \in loose
    /\ pc = "tail" => job.content \in maybe[job.name]
    /\ FatCommit /\ job.op \notin {"writeNew", "format"} =>
           View(ram, data)[job.name] = job.content
    /\ FatCommit /\ job.op # "format" => job.content \in maybe[job.name]
    /\ pc = "format" \/ (FatCommit /\ job.op = "format") => loose = Names

ShapeInv == Typed /\ Placed /\ Phase /\ FillInv /\ TailInv /\ CommitInv
ReadInv == ShapeInv /\ Promise

\* What a restart finds, when only the power fails.
Kept ==
    /\ pc \in {"idle", "blkErase", "blkWrite", "tail"} => fat = ram
    /\ pc \in {"off", "corrupt"} => \A n \in Names : Known(fat, n)
PowerInv == ReadInv /\ Kept /\ fat \in Tables /\ ~ astray

-----------------------------------------------------------------------------
(* fs_write once the file exists. *)

\* No job is a job.
LEMMA NoJobTyped == NoJob \in Jobs
  BY ConstAssumption DEF NoJob, Jobs, JobOps, Texts, BlockNos

\* The fields of a job that has just begun.
LEMMA JobIs ==
    ASSUME NEW op \in JobOps, NEW n \in Names, NEW c \in Texts \cup {Absent}
    PROVE  /\ Job(op, n, c) \in Jobs /\ Job(op, n, c).op = op /\ Job(op, n, c).name = n
           /\ Job(op, n, c).content = c /\ Job(op, n, c).next = 0
  <1>1. Job(op, n, c) \in Jobs
    BY NoJobTyped DEF Job, Jobs
  <1>2. NoJob.next = 0
    BY DEF NoJob
  <1> QED BY <1>1, <1>2, NoJobTyped DEF Job, Jobs

\* Setting one field keeps the others.
LEMMA JobStart ==
    ASSUME NEW j \in Jobs, NEW b \in BlockNos, NEW k, k = [j EXCEPT !.start = b]
    PROVE  /\ k \in Jobs /\ k.start = b /\ k.op = j.op /\ k.name = j.name
           /\ k.content = j.content /\ k.next = j.next
  BY DEF Jobs
\* Moving on to another block changes nothing else of a job.
LEMMA JobNext ==
    ASSUME NEW j \in Jobs, NEW i \in Int, NEW k, k = [j EXCEPT !.next = i]
    PROVE  /\ k \in Jobs /\ k.next = i /\ k.op = j.op /\ k.name = j.name
           /\ k.content = j.content /\ k.start = j.start
  BY DEF Jobs

\* The entry an emptied file keeps.
LEMMA Emptied ==
    ASSUME NEW f \in Tables, f.magic = "ok", Sound(f), NEW n \in Names, Exists(f, n)
    PROVE  LET g == SetEntry(f, n, [EntryOf(f, n) EXCEPT !.size = 0])
           IN  /\ g \in Tables /\ g.magic = "ok" /\ Sound(g) /\ KeepsOthers(f, g, n)
               /\ Exists(g, n) /\ EntryOf(g, n).size = 0
  <1> DEFINE e == EntryOf(f, n)
             z == [e EXCEPT !.size = 0]
  <1>1. e \in Entries /\ e.name = n /\ e.start + e.blocks <= N /\ e.size <= e.blocks * B
    BY FileFits
  <1> HIDE DEF e
  <1>2. /\ z \in Entries /\ z.name = n /\ z.start + z.blocks <= N /\ z.size <= z.blocks * B
        /\ z.size = 0 /\ \A b : Holds(z, b) <=> Holds(e, b)
    <2>1. /\ e.blocks \in Nat /\ 0 \in 0 .. N * B /\ 0 <= e.blocks * B
      BY <1>1, ConstAssumption, SMT DEF Entries
    <2>2. z \in Entries
      BY <1>1, <2>1 DEF Entries
    <2> QED BY <1>1, <2>1, <2>2, HoldsIs DEF Entries
  <1> HIDE DEF z
  <1> QED BY <1>2, Renewed DEF e, z

\* What a write starts with: emptying the file, blocks to fill, or no room.
StoreResult(f, n, c) ==
    \/ /\ pc' = "fatErase" /\ c = <<>> /\ loose' = loose
       /\ job'.op = "write" /\ job'.name = n /\ job'.content = c
       /\ Exists(ram', n) /\ EntryOf(ram', n).size = 0
    \/ /\ pc' = "blkErase" /\ ram' = f
       /\ job'.name = n /\ job'.content = c /\ \A d : FillOk(f, job', d)
       /\ loose' = IF FitsInPlace(EntryOf(f, n), c) THEN loose \cup {n} ELSE loose
    \/ pc' = "idle" /\ ram' = f /\ job' = NoJob /\ loose' = loose

\* What fs_write does to a table: the file's job begins, no other file moves.
LEMMA StoreIs ==
    ASSUME NEW f \in Tables, f.magic = "ok", Sound(f), NEW n \in Names, Exists(f, n),
           NEW c \in Texts, Store(f, n, c)
    PROVE  /\ ram' \in Tables /\ ram'.magic = "ok" /\ Sound(ram') /\ KeepsOthers(f, ram', n)
           /\ job' \in Jobs /\ StoreResult(f, n, c)
  <1> DEFINE e == EntryOf(f, n)
             start == IF FitsInPlace(e, c) THEN e.start ELSE FirstFree(f, Ceil(Len(c)))
  <1>1. KeepsOthers(f, f, n)
    BY DEF KeepsOthers
  <1>2. CASE /\ c = <<>>
             /\ ram' = SetEntry(f, n, [e EXCEPT !.size = 0])
             /\ pc' = "fatErase" /\ job' = Job("write", n, c)
             /\ UNCHANGED loose
    <2>1. /\ ram' \in Tables /\ ram'.magic = "ok" /\ Sound(ram') /\ KeepsOthers(f, ram', n)
          /\ Exists(ram', n) /\ EntryOf(ram', n).size = 0
      BY <1>2, Emptied
    <2>2. "write" \in JobOps
      BY DEF JobOps
    <2>3. /\ job' \in Jobs /\ job'.op = "write" /\ job'.name = n /\ job'.content = c
      BY <1>2, <2>2, JobIs
    <2>4. loose' = loose /\ pc' = "fatErase" /\ c = <<>>
      BY <1>2
    <2> QED BY <2>1, <2>3, <2>4 DEF StoreResult
  <1>3. CASE /\ c # <<>> /\ start # -1
             /\ ram' = f /\ pc' = "blkErase"
             /\ job' = [Job("write", n, c) EXCEPT !.start = start]
             /\ loose' = IF FitsInPlace(e, c) THEN loose \cup {n} ELSE loose
    <2>1. e \in Entries /\ e.start + e.blocks <= N
      BY FileFits
    <2>2. Len(c) \in Nat \ {0} /\ Ceil(Len(c)) \in Nat \ {0}
      <3>1. Len(c) \in Nat \ {0}
        BY <1>3 DEF Texts
      <3> QED BY <3>1, CeilIs
    <2>3. /\ start \in BlockNos /\ start + Ceil(Len(c)) <= N
          /\ ~ FitsInPlace(e, c) => \A b \in start .. start + Ceil(Len(c)) - 1 : ~ InUse(f, b)
      <3>1. CASE FitsInPlace(e, c)
        BY <2>1, <2>2, <3>1, ConstAssumption DEF FitsInPlace, Entries, BlockNos
      <3>2. CASE ~ FitsInPlace(e, c)
        <4>1. start = FirstFree(f, Ceil(Len(c)))
          BY <3>2
        <4> HIDE DEF start, e
        <4> QED BY <1>3, <2>2, <3>2, <4>1, FirstFreeIs
      <3> QED BY <3>1, <3>2
    <2>4. FitsInPlace(e, c) => start = e.start
      OBVIOUS
    <2> HIDE DEF start
    <2>5. /\ job' \in Jobs /\ job'.op = "write" /\ job'.name = n /\ job'.content = c
          /\ job'.start = start /\ job'.next = 0
      <3>1. "write" \in JobOps
        BY DEF JobOps
      <3>2. DEFINE j == Job("write", n, c)
      <3>3. j \in Jobs /\ j.op = "write" /\ j.name = n /\ j.content = c /\ j.next = 0
        BY <3>1, JobIs
      <3>4. job' = [j EXCEPT !.start = start]
        BY <1>3
      <3> HIDE DEF j
      <3> QED BY <2>3, <3>3, <3>4, JobStart
    <2>6. Target(f, job')
      BY <2>3, <2>4, <2>5 DEF Target, Blocks
    <2>7. ASSUME NEW d PROVE Filled(job', d)
      <3>1. B \in Nat /\ 0 * B = 0
        BY ConstAssumption
      <3> QED BY <2>5, <3>1 DEF Filled
    <2>8. \A d : FillOk(f, job', d)
      BY <1>3, <2>2, <2>5, <2>6, <2>7 DEF FillOk, Blocks
    <2> QED BY <1>1, <1>3, <2>5, <2>8 DEF StoreResult
  <1>4. CASE /\ c # <<>> /\ start = -1
             /\ ram' = f /\ pc' = "idle" /\ job' = NoJob /\ UNCHANGED loose
    BY <1>1, <1>4, NoJobTyped DEF StoreResult
  <1> QED BY <1>2, <1>3, <1>4 DEF Store

\* Files whose entry stays read the same in the new table.
LEMMA OthersRead ==
    ASSUME NEW f \in Tables, f.magic = "ok", Sound(f), NEW g \in Tables, g.magic = "ok",
           NEW n \in Names, KeepsOthers(f, g, n), NEW d \in Disks, NEW m \in Names \ {n}
    PROVE  View(g, d)[m] = View(f, d)[m]
  <1>1. Exists(g, m) = Exists(f, m) /\ (Exists(f, m) => EntryOf(g, m) = EntryOf(f, m))
    BY DEF KeepsOthers
  <1> QED BY <1>1, SameView

\* A file of size 0 is empty.
LEMMA EmptyRead ==
    ASSUME NEW f \in Tables, f.magic = "ok", NEW d \in Disks, NEW n \in Names,
           Exists(f, n), EntryOf(f, n).size = 0
    PROVE  View(f, d)[n] = <<>>
  <1>1. View(f, d)[n] \in Texts /\ Len(View(f, d)[n]) = 0
    BY ViewIs
  <1> QED BY <1>1 DEF Texts

\* From a table and data where every file reads as owed, starting to write a
\* text that is owed keeps the invariant, whatever the step does besides.
LEMMA StoreKeeps ==
    ASSUME Typed, ram.magic = "ok", Sound(ram), NEW n \in Names, Exists(ram, n),
           NEW c \in Texts, Store(ram, n, c),
           fat' \in WordTables, Sound(Untorn(fat')), data' \in Disks, ops' \in 0 .. MaxOps,
           acked' = acked, maybe' = [m \in Names |-> maybe'[m]], c \in maybe'[n],
           \A m \in Names : m \notin loose => View(ram, data')[m] \in {acked[m]} \cup maybe'[m]
    PROVE  ReadInv'
  <1>1. /\ ram' \in Tables /\ ram'.magic = "ok" /\ Sound(ram') /\ KeepsOthers(ram, ram', n)
        /\ job' \in Jobs /\ StoreResult(ram, n, c)
    BY StoreIs DEF Typed
  <1>2. loose' \subseteq Names /\ loose \subseteq loose'
    BY <1>1 DEF StoreResult, Typed
  <1>3. ASSUME NEW m \in Names \ {n}, m \notin loose'
        PROVE  View(ram', data')[m] \in {acked'[m]} \cup maybe'[m]
    <2>1. View(ram', data')[m] = View(ram, data')[m]
      BY <1>1, OthersRead DEF Typed
    <2> QED BY <1>2, <1>3, <2>1
  <1>4. pc' \in {"fatErase", "blkErase", "idle"}
    BY <1>1 DEF StoreResult
  <1>5. Typed' /\ Placed'
    BY <1>1, <1>2, <1>4 DEF Typed, Placed, HalCall
  <1>6. CASE /\ pc' = "fatErase" /\ c = <<>> /\ loose' = loose
             /\ job'.op = "write" /\ job'.name = n /\ job'.content = c
             /\ Exists(ram', n) /\ EntryOf(ram', n).size = 0
    <2>1. View(ram', data')[n] = c
      BY <1>1, <1>6, EmptyRead
    <2>2. (Phase /\ FillInv /\ TailInv /\ CommitInv)'
      BY <1>1, <1>6 DEF Phase, FillInv, Filling, TailInv, CommitInv
    <2>3. \A m \in Names : Known(ram, m)'
      BY <1>3, <2>1 DEF Known, Owed
    <2>4. Promise'
      BY <1>6, <2>1, <2>3 DEF Promise, Filling, FatCommit
    <2> QED BY <1>5, <2>2, <2>4 DEF ReadInv, ShapeInv
  <1>7. CASE /\ pc' = "blkErase" /\ ram' = ram
             /\ job'.name = n /\ job'.content = c /\ \A d : FillOk(ram, job', d)
             /\ loose' = IF FitsInPlace(EntryOf(ram, n), c) THEN loose \cup {n} ELSE loose
    <2>1. (Phase /\ FillInv /\ TailInv /\ CommitInv)'
      BY <1>1, <1>7 DEF Phase, FillInv, Filling, TailInv, CommitInv, FatCommit
    <2>2. \A m \in Names : Known(ram, m)'
      BY <1>2, <1>7 DEF Known, Owed
    <2>3. Promise'
      BY <1>7, <2>2 DEF Promise, Filling, FatCommit
    <2> QED BY <1>5, <2>1, <2>3 DEF ReadInv, ShapeInv
  <1>8. CASE pc' = "idle" /\ ram' = ram /\ job' = NoJob /\ loose' = loose
    <2>1. (Phase /\ FillInv /\ TailInv /\ CommitInv)'
      BY <1>1, <1>8 DEF Phase, FillInv, Filling, TailInv, CommitInv, FatCommit
    <2>2. \A m \in Names : Known(ram, m)'
      BY <1>2, <1>8 DEF Known, Owed
    <2>3. Promise'
      BY <1>8, <2>2 DEF Promise, Filling, FatCommit
    <2> QED BY <1>5, <2>1, <2>3 DEF ReadInv, ShapeInv
  <1> QED BY <1>1, <1>6, <1>7, <1>8 DEF StoreResult

\* A step that puts the new entry of one file in the table, to be committed
\* next, keeps the invariant if that file reads as asked for.
LEMMA CommitKeeps ==
    ASSUME Typed, ram.magic = "ok", Sound(ram), NEW n \in Names,
           ram' \in Tables, ram'.magic = "ok", Sound(ram'), KeepsOthers(ram, ram', n),
           fat' \in WordTables, Sound(Untorn(fat')), data' \in Disks, ops' \in 0 .. MaxOps,
           pc' = "fatErase", job' \in Jobs, job'.op \notin {"none", "format"}, job'.name = n,
           job'.op = "writeNew" => Exists(ram', n) /\ job'.content \in Texts,
           job'.op # "writeNew" => View(ram', data')[n] = job'.content,
           View(ram', data')[n] \in maybe'[n], job'.content \in maybe'[n],
           acked' = acked, maybe' = [m \in Names |-> maybe'[m]], loose' = loose,
           \A m \in Names \ {n} :
               m \notin loose => View(ram, data')[m] \in {acked[m]} \cup maybe'[m]
    PROVE  ReadInv'
  <1>1. Typed' /\ Placed'
    BY DEF Typed, Placed, HalCall
  <1>2. (Phase /\ FillInv /\ TailInv /\ CommitInv)'
    BY DEF Phase, FillInv, Filling, TailInv, CommitInv
  <1>3. ASSUME NEW m \in Names, m \notin loose
        PROVE  View(ram', data')[m] \in {acked'[m]} \cup maybe'[m]
    <2>1. CASE m = n
      BY <2>1
    <2>2. CASE m # n
      <3>1. View(ram', data')[m] = View(ram, data')[m]
        BY <2>2, OthersRead DEF Typed
      <3> QED BY <1>3, <2>2, <3>1
    <2> QED BY <2>1, <2>2
  <1>4. \A m \in Names : Known(ram, m)'
    BY <1>3 DEF Known, Owed
  <1>5. Promise'
    BY <1>4 DEF Promise, Filling, FatCommit
  <1> QED BY <1>1, <1>2, <1>5 DEF ReadInv, ShapeInv

-----------------------------------------------------------------------------
(* The steps of the operations. *)

\* An operation begins in an idle store, where every file reads as owed.
IdleOk ==
    /\ Typed /\ ram.magic = "ok" /\ Sound(ram) /\ Sound(Untorn(fat))
    /\ \A n \in Names : n \notin loose => View(ram, data)[n] \in {acked[n]} \cup maybe[n]
\* Between calls the invariant says what IdleOk collects.
LEMMA IdleIs ==
    ASSUME ReadInv, pc = "idle"
    PROVE  IdleOk
  BY DEF ReadInv, ShapeInv, Placed, Phase, Running, Promise, Known, Owed, IdleOk

\* Counting an operation stays below the bound.
LEMMA OpsBound ==
    ASSUME Typed, ops < MaxOps, ops' = ops + 1
    PROVE  ops' \in 0 .. MaxOps
  BY ConstAssumption DEF Typed

\* What an application writes is a text.
LEMMA SymbolText ==
    ASSUME NEW c \in Seq(Symbols)
    PROVE  c \in Texts
  BY DEF Texts, CellValues

\* Asking for a content adds it to what the file may hold.
LEMMA AskedIs ==
    ASSUME Typed, NEW n \in Names, NEW c, Asked(n, c)
    PROVE  /\ maybe' = [m \in Names |-> maybe'[m]] /\ c \in maybe'[n]
           /\ \A m \in Names : maybe[m] \subseteq maybe'[m]
  <1>1. maybe = [m \in Names |-> maybe[m]]
    BY DEF Typed
  <1>2. maybe' = [m \in Names |-> IF m = n THEN maybe[m] \cup {c} ELSE maybe[m]]
    BY <1>1 DEF Asked
  <1> QED BY <1>2

\* fs_create preserves the invariant.
LEMMA CreateStep ==
    ASSUME ReadInv, NEW n \in Names, Create(n)
    PROVE  ReadInv'
  <1>1. IdleOk
    BY IdleIs DEF Create, Begin
  <1>2. /\ ram' \in Tables /\ ram'.magic = ram.magic /\ Sound(ram')
        /\ Exists(ram', n) /\ EntryOf(ram', n).size = 0 /\ KeepsOthers(ram, ram', n)
    BY <1>1, Added DEF Create, CanCreate, IdleOk, Typed
  <1>3. View(ram', data')[n] = <<>>
    BY <1>1, <1>2, EmptyRead DEF Create, IdleOk, Typed
  <1>4. /\ job' \in Jobs /\ job'.op = "create" /\ job'.name = n /\ job'.content = <<>>
    <2>1. "create" \in JobOps /\ <<>> \in Texts
      BY DEF JobOps, Texts
    <2> QED BY <2>1, JobIs DEF Create
  <1>5. /\ maybe' = [m \in Names |-> maybe'[m]] /\ <<>> \in maybe'[n]
        /\ \A m \in Names : maybe[m] \subseteq maybe'[m]
    BY <1>1, AskedIs DEF Create, IdleOk
  <1>6. ops' \in 0 .. MaxOps
    BY <1>1, OpsBound DEF Create, Begin, IdleOk
  <1>7. fat' = fat /\ data' = data /\ acked' = acked /\ loose' = loose /\ pc' = "fatErase"
    BY DEF Create
  <1> QED BY <1>1, <1>2, <1>3, <1>4, <1>5, <1>6, <1>7, CommitKeeps DEF IdleOk, Typed

\* fs_delete preserves the invariant.
LEMMA DeleteStep ==
    ASSUME ReadInv, NEW n \in Names, Delete(n)
    PROVE  ReadInv'
  <1>1. IdleOk
    BY IdleIs DEF Delete, Begin
  <1>2. /\ ram' \in Tables /\ ram'.magic = ram.magic /\ Sound(ram')
        /\ ~ Exists(ram', n) /\ KeepsOthers(ram, ram', n)
    BY <1>1, Removed DEF Delete, IdleOk, Typed
  <1>3. View(ram', data')[n] = Absent
    BY <1>1, <1>2, ViewIs DEF Delete, IdleOk, Typed
  <1>4. /\ job' \in Jobs /\ job'.op = "delete" /\ job'.name = n /\ job'.content = Absent
    <2>1. "delete" \in JobOps
      BY DEF JobOps
    <2> QED BY <2>1, JobIs DEF Delete
  <1>5. /\ maybe' = [m \in Names |-> maybe'[m]] /\ Absent \in maybe'[n]
        /\ \A m \in Names : maybe[m] \subseteq maybe'[m]
    BY <1>1, AskedIs DEF Delete, IdleOk
  <1>6. ops' \in 0 .. MaxOps
    BY <1>1, OpsBound DEF Delete, Begin, IdleOk
  <1>7. fat' = fat /\ data' = data /\ acked' = acked /\ loose' = loose /\ pc' = "fatErase"
    BY DEF Delete
  <1> QED BY <1>1, <1>2, <1>3, <1>4, <1>5, <1>6, <1>7, CommitKeeps DEF IdleOk, Typed

\* fs_write, up to its first HAL call, preserves the invariant.
LEMMA WriteStep ==
    ASSUME ReadInv, NEW n \in Names, NEW c \in Contents, Write(n, c)
    PROVE  ReadInv'
  <1>1. IdleOk
    BY IdleIs DEF Write, Begin
  <1>2. ops' \in 0 .. MaxOps
    BY <1>1, OpsBound DEF Write, Begin, IdleOk
  <1>3. c \in Texts
    BY ConstAssumption, SymbolText
  <1>4. fat' = fat /\ data' = data /\ acked' = acked
    BY DEF Write
  <1>5. CASE Exists(ram, n) /\ Store(ram, n, c) /\ Asked(n, c)
    <2>1. /\ maybe' = [m \in Names |-> maybe'[m]] /\ c \in maybe'[n]
          /\ \A m \in Names : maybe[m] \subseteq maybe'[m]
      BY <1>1, <1>5, AskedIs DEF IdleOk
    <2> QED BY <1>1, <1>2, <1>3, <1>4, <1>5, <2>1, StoreKeeps DEF IdleOk, Typed
  <1>6. CASE /\ CanCreate(n)
             /\ ram' = WithNew(ram, n)
             /\ pc' = "fatErase" /\ job' = Job("writeNew", n, c)
             /\ maybe' = [maybe EXCEPT ![n] = @ \cup {<<>>, c}]
             /\ UNCHANGED loose
    <2>1. /\ ram' \in Tables /\ ram'.magic = ram.magic /\ Sound(ram')
          /\ Exists(ram', n) /\ EntryOf(ram', n).size = 0 /\ KeepsOthers(ram, ram', n)
      BY <1>1, <1>6, Added DEF CanCreate, IdleOk, Typed
    <2>2. View(ram', data')[n] = <<>>
      BY <1>1, <1>4, <2>1, EmptyRead DEF IdleOk, Typed
    <2>3. /\ job' \in Jobs /\ job'.op = "writeNew" /\ job'.name = n /\ job'.content = c
      <3>1. "writeNew" \in JobOps
        BY DEF JobOps
      <3> QED BY <1>3, <1>6, <3>1, JobIs
    <2>4. /\ maybe' = [m \in Names |-> maybe'[m]] /\ c \in maybe'[n] /\ <<>> \in maybe'[n]
          /\ \A m \in Names : maybe[m] \subseteq maybe'[m]
      <3>1. maybe = [m \in Names |-> maybe[m]]
        BY <1>1 DEF IdleOk, Typed
      <3>2. maybe' = [m \in Names |-> IF m = n THEN maybe[m] \cup {<<>>, c} ELSE maybe[m]]
        BY <1>6, <3>1
      <3> QED BY <3>2
    <2>5. pc' = "fatErase" /\ loose' = loose
      BY <1>6
    <2> QED BY <1>1, <1>2, <1>3, <1>4, <2>1, <2>2, <2>3, <2>4, <2>5, CommitKeeps DEF IdleOk, Typed
  <1> QED BY <1>5, <1>6 DEF Write

\* The last block of a file, to which an append is programmed.
LEMMA LastPlace ==
    ASSUME NEW e \in Entries, e.start + e.blocks <= N, e.blocks > 0
    PROVE  e.start + e.blocks - 1 \in BlockNos /\ TailBlock(e) = e.start + e.blocks - 1
  <1>1. e.start + e.blocks - 1 \in BlockNos
    BY ConstAssumption DEF Entries, BlockNos
  <1> QED BY <1>1, PlaceIs DEF TailBlock

\* fs_append, up to its first HAL call, preserves the invariant.
LEMMA AppendStep ==
    ASSUME ReadInv, SafeAppends, NEW n \in Names, NEW s \in Chunks, FsAppend(n, s)
    PROVE  ReadInv'
  <1> DEFINE e == EntryOf(ram, n)
             v == View(ram, data)[n]
  <1>1. IdleOk
    BY IdleIs DEF FsAppend, Begin
  <1>2. ops' \in 0 .. MaxOps
    BY <1>1, OpsBound DEF FsAppend, Begin, IdleOk
  <1>3. /\ fat' = fat /\ data' = data /\ acked' = acked /\ Exists(ram, n)
        /\ Asked(n, Appended(n, s))
    BY DEF FsAppend
  <1>4. v \in Texts /\ Len(v) = e.size /\ v = [i \in 1 .. e.size |-> CellAt(data, e, i - 1)]
    BY <1>1, <1>3, ViewIs DEF IdleOk, Typed
  <1>5. s \in Texts /\ Len(s) \in Nat \ {0}
    <2>1. s \in Seq(Symbols) /\ s # <<>>
      BY ConstAssumption
    <2> QED BY <2>1, SymbolText
  <1>6. e.size \in Nat
    BY <1>1, <1>3, FileFits DEF IdleOk, Typed
  <1>7. Appended(n, s) = v \o s
    BY DEF Appended
  <1> HIDE DEF e, v
  <1>8. /\ Appended(n, s) \in Texts /\ Len(Appended(n, s)) = e.size + Len(s)
        /\ \A i \in 1 .. e.size : Appended(n, s)[i] = CellAt(data, e, i - 1)
    <2>1. v \in Seq(CellValues) /\ s \in Seq(CellValues)
      BY <1>4, <1>5 DEF Texts
    <2>2. v \o s \in Texts /\ Len(v \o s) = e.size + Len(s)
      <3>1. v \o s \in Seq(CellValues) /\ Len(v \o s) = Len(v) + Len(s)
        BY <2>1
      <3>2. Len(v) = e.size
        BY <1>4
      <3> QED BY <3>1, <3>2 DEF Texts
    <2>3. ASSUME NEW i \in 1 .. e.size PROVE (v \o s)[i] = CellAt(data, e, i - 1)
      <3>1. i \in 1 .. Len(v)
        BY <1>4
      <3>2. (v \o s)[i] = v[i]
        BY <2>1, <3>1
      <3> QED BY <1>4, <3>2
    <2> QED BY <1>7, <2>2, <2>3
  <1>9. /\ maybe' = [m \in Names |-> maybe'[m]] /\ Appended(n, s) \in maybe'[n]
        /\ \A m \in Names : maybe[m] \subseteq maybe'[m]
    BY <1>1, <1>3, AskedIs DEF IdleOk
  <1>10. CASE ~ FitsTail(e, s) /\ Rewrite(n, Appended(n, s))
    <2>1. Store(ram, n, Appended(n, s))
      BY <1>10 DEF Rewrite
    <2> QED BY <2>1, <1>1, <1>2, <1>3, <1>8, <1>9, <1>10, StoreKeeps DEF IdleOk, Typed
  <1>11. CASE /\ FitsTail(e, s)
              /\ SafeAppends => TailReady(e)
              /\ pc' = "tail"
              /\ job' = [Job("append", n, Appended(n, s)) EXCEPT !.next = Len(s)]
              /\ UNCHANGED <<ram, loose>>
    <2>1. /\ job' \in Jobs /\ job'.op = "append" /\ job'.name = n
          /\ job'.content = Appended(n, s) /\ job'.next = Len(s)
      <3> DEFINE j == Job("append", n, Appended(n, s))
      <3>1. "append" \in JobOps
        BY DEF JobOps
      <3>2. j \in Jobs /\ j.op = "append" /\ j.name = n /\ j.content = Appended(n, s)
        BY <1>8, <3>1, JobIs
      <3>3. job' = [j EXCEPT !.next = Len(s)] /\ Len(s) \in Int
        BY <1>5, <1>11
      <3> HIDE DEF j
      <3> QED BY <3>2, <3>3, JobNext
    <2>2. TailOk(ram, job', data)
      <3>1. EntryOf(ram, job'.name) = e /\ Exists(ram, job'.name)
        BY <1>3, <2>1 DEF e
      <3>2. /\ e.blocks > 0 /\ e.size > 0 /\ InBlock(e) + Len(s) <= B
            /\ InBlock(e) # 0 /\ Ceil(e.size) = e.blocks
            /\ \A c \in InBlock(e) .. B - 1 : data[TailBlock(e)][c] = Blank
        BY <1>11 DEF FitsTail, TailReady
      <3>3. TailBlock(e) = e.start + e.blocks - 1
        <4>1. e \in Entries /\ e.start + e.blocks <= N
          BY <1>1, <1>3, FileFits DEF IdleOk, Typed, e
        <4> QED BY <3>2, <4>1, LastPlace
      <3> QED BY <1>5, <1>8, <2>1, <3>1, <3>2, <3>3 DEF TailOk
    <2>3. ram' = ram /\ loose' = loose /\ pc' = "tail"
      BY <1>11
    <2>4. Typed' /\ Placed'
      BY <1>1, <1>2, <1>3, <1>9, <2>1, <2>3 DEF IdleOk, Typed, Placed, HalCall
    <2>5. (Phase /\ FillInv /\ TailInv /\ CommitInv)'
      BY <1>1, <1>3, <2>2, <2>3
      DEF IdleOk, Phase, FillInv, Filling, TailInv, CommitInv, FatCommit
    <2>6. \A m \in Names : Known(ram, m)'
      BY <1>1, <1>3, <1>9, <2>3 DEF Known, Owed, IdleOk
    <2>7. Promise'
      BY <1>9, <2>1, <2>3, <2>6 DEF Promise, Filling, FatCommit
    <2> QED BY <2>4, <2>5, <2>7 DEF ReadInv, ShapeInv
  <1> QED BY <1>10, <1>11 DEF FsAppend, e

-----------------------------------------------------------------------------
(* Filling blocks. *)

\* What a job writes belongs to no other file, nor to its own unless it
\* rewrites it in place.
LEMMA FillSpares ==
    ASSUME NEW f \in Tables, Sound(f), NEW j \in Jobs, NEW d, FillOk(f, j, d),
           NEW b \in j.start .. j.start + Blocks(j) - 1
    PROVE  LET e == EntryOf(f, j.name)
           IN  /\ b \in BlockNos /\ Blocks(j) \in Nat \ {0}
               /\ FitsInPlace(e, j.content) => Holds(e, b)
               /\ ~ FitsInPlace(e, j.content) => ~ InUse(f, b)
               /\ \A m \in Names : Exists(f, m)
                      /\ (m # j.name \/ ~ FitsInPlace(e, j.content)) => ~ Holds(EntryOf(f, m), b)
  <1> DEFINE e == EntryOf(f, j.name)
  <1>1. /\ j.name \in Names /\ Exists(f, j.name) /\ Target(f, j) /\ j.start \in BlockNos
        /\ j.content \in Texts /\ j.content # <<>> /\ j.next \in Nat /\ j.next < Blocks(j)
    BY DEF FillOk, Jobs
  <1>2. e \in Entries /\ e.name = j.name /\ e.name # NoName
    BY <1>1, FileFits, ConstAssumption
  <1>3. Blocks(j) \in Nat \ {0} /\ j.start + Blocks(j) <= N
    <2>1. Len(j.content) \in Nat
      BY <1>1 DEF Texts
    <2>2. Blocks(j) \in Nat
      BY <2>1, CeilIs DEF Blocks
    <2> QED BY <1>1, <2>2 DEF Target
  <1>4. b \in BlockNos
    BY <1>1, <1>3, ConstAssumption DEF BlockNos
  <1>5. CASE FitsInPlace(e, j.content)
    <2>1. j.start = e.start /\ Blocks(j) <= e.blocks
      BY <1>1, <1>5 DEF Target, FitsInPlace, Blocks
    <2>2. Holds(e, b)
      BY <1>2, <1>3, <2>1, HoldsIs DEF Entries, BlockNos
    <2>3. \A m \in Names \ {j.name} : Exists(f, m) => ~ Holds(EntryOf(f, m), b)
      BY <1>1, <1>4, <2>2, Apart
    <2> QED BY <1>3, <1>4, <1>5, <2>2, <2>3
  <1>6. CASE ~ FitsInPlace(e, j.content)
    <2>1. ~ InUse(f, b)
      BY <1>1, <1>6 DEF Target
    <2>2. \A m \in Names : Exists(f, m) => ~ Holds(EntryOf(f, m), b)
      BY <2>1, FileFits
    <2> QED BY <1>3, <1>4, <1>6, <2>1, <2>2
  <1> QED BY <1>5, <1>6

\* The block a filling job works on.
LEMMA JobBlockIs ==
    ASSUME NEW j \in Jobs, NEW f, NEW d, FillOk(f, j, d)
    PROVE  j.start + j.next \in j.start .. j.start + Blocks(j) - 1
  <1>1. Blocks(j) \in Nat /\ j.next \in Nat /\ j.next < Blocks(j) /\ j.start \in Nat
    <2>1. Len(j.content) \in Nat
      BY DEF FillOk, Texts
    <2> QED BY <2>1, CeilIs, ConstAssumption DEF Blocks, FillOk, Jobs, BlockNos
  <1> QED BY <1>1

\* The part of the text that goes to the next block.
LEMMA SegmentIs ==
    ASSUME NEW j, j.content \in Texts, j.next \in Nat, j.next < Blocks(j)
    PROVE  /\ Segment(j) \in Texts /\ Len(Segment(j)) \in 1 .. B
           /\ \A i \in 1 .. Len(Segment(j)) : Segment(j)[i] = j.content[j.next * B + i]
           /\ \A i \in Nat : i < Len(j.content) /\ i < (j.next + 1) * B
                               => i - j.next * B < Len(Segment(j))
  <1> DEFINE lo == j.next * B
             up == (j.next + 1) * B
             hi == Min({up, Len(j.content)})
             c == j.content
  <1>1. B \in Nat \ {0} /\ Len(c) \in Nat /\ lo \in Nat /\ up \in Nat /\ up = lo + B
    BY ConstAssumption, SMT DEF Texts
  <1>2. lo < Len(c)
    <2>1. Ceil(Len(c)) \in Nat /\ j.next < Ceil(Len(c))
      BY <1>1, CeilIs DEF Blocks
    <2>2. Len(c) <= j.next * B <=> Ceil(Len(c)) <= j.next
      BY <1>1, CeilLeast
    <2> QED BY <1>1, <2>1, <2>2
  <1>3. Segment(j) = SubSeq(c, lo + 1, hi)
    BY DEF Segment
  <1>4. hi \in {up, Len(c)} /\ hi <= up /\ hi <= Len(c)
    <2>1. {up, Len(c)} \in SUBSET Nat /\ {up, Len(c)} # {}
      BY <1>1
    <2> HIDE DEF up
    <2> QED BY <2>1, LeastNat
  <1>5. c \in Seq(CellValues)
    BY DEF Texts
  <1> HIDE DEF lo, up, hi, c
  <1>6. hi \in Nat /\ lo < hi /\ hi - lo <= B
    BY <1>1, <1>2, <1>4
  <1>7. /\ SubSeq(c, lo + 1, hi) \in Seq(CellValues) /\ Len(SubSeq(c, lo + 1, hi)) = hi - lo
        /\ \A i \in 1 .. hi - lo : SubSeq(c, lo + 1, hi)[i] = c[lo + i]
    <2>1. \A i \in lo + 1 .. hi : c[i] \in CellValues
      BY <1>1, <1>4, <1>5, <1>6
    <2>2. /\ SubSeq(c, lo + 1, hi) \in Seq(CellValues)
          /\ Len(SubSeq(c, lo + 1, hi)) = IF lo + 1 <= hi THEN hi - (lo + 1) + 1 ELSE 0
          /\ \A i \in 1 .. hi - (lo + 1) + 1 : SubSeq(c, lo + 1, hi)[i] = c[lo + 1 + i - 1]
      BY <1>1, <1>6, <2>1, SubSeqProperties
    <2>3. hi - (lo + 1) + 1 = hi - lo /\ lo + 1 <= hi /\ \A i \in Nat : lo + 1 + i - 1 = lo + i
      BY <1>1, <1>6
    <2> QED BY <1>1, <1>6, <2>2, <2>3
  <1>8. /\ Segment(j) \in Texts /\ Len(Segment(j)) \in 1 .. B
        /\ \A i \in 1 .. Len(Segment(j)) : Segment(j)[i] = c[lo + i]
    BY <1>1, <1>3, <1>6, <1>7 DEF Texts
  <1>9. \A i \in Nat : i < Len(c) /\ i < up => i - lo < Len(Segment(j))
    BY <1>1, <1>3, <1>4, <1>6, <1>7
  <1> QED BY <1>8, <1>9 DEF lo, up, c

\* Programming it into the erased block leaves one block more of the text.
LEMMA FilledMore ==
    ASSUME NEW f \in Tables, Sound(f), NEW j \in Jobs, NEW d \in Disks, FillOk(f, j, d),
           d[j.start + j.next] = ErasedBlock, NEW d2,
           d2 = Programmed(d, j.start + j.next, 0, Segment(j), Len(Segment(j)))
    PROVE  /\ d2 \in Disks
           /\ \A x \in BlockNos : x # j.start + j.next => d2[x] = d[x]
           /\ \A i \in 0 .. Len(j.content) - 1 : i < (j.next + 1) * B =>
                  d2[j.start + (i \div B)][i % B] = j.content[i + 1]
  <1> DEFINE blk == j.start + j.next
             s == Segment(j)
  <1>1. /\ s \in Texts /\ Len(s) \in 1 .. B
        /\ \A i \in 1 .. Len(s) : s[i] = j.content[j.next * B + i]
        /\ \A i \in Nat : i < Len(j.content) /\ i < (j.next + 1) * B
                            => i - j.next * B < Len(s)
    BY SegmentIs DEF FillOk
  <1>2. blk \in BlockNos /\ blk \in j.start .. j.start + Blocks(j) - 1
    BY JobBlockIs, FillSpares
  <1> HIDE DEF s, blk
  <1>3. /\ d2 \in Disks /\ \A x \in BlockNos : x # blk => d2[x] = d[x]
        /\ \A i \in Cells :
             i \in 0 .. 0 + Len(s) - 1 => d2[blk][i] = And(d[blk][i], s[i - 0 + 1])
    <2>1. d2 = Programmed(d, blk, 0, s, Len(s)) /\ Len(s) \in Nat /\ 0 \in Nat
      BY <1>1 DEF blk, s
    <2>2. d2 \in Disks
      BY <1>1, <1>2, <2>1, ProgrammedIs
    <2>3. ASSUME NEW x \in BlockNos, x # blk PROVE d2[x] = d[x]
      BY <2>1, <2>3 DEF Programmed, WithBlock, Disks
    <2>4. d2[blk] = [i \in Cells |-> IF i \in 0 .. 0 + Len(s) - 1
                                     THEN And(d[blk][i], s[i - 0 + 1]) ELSE d[blk][i]]
      BY <1>2, <2>1 DEF Programmed, WithBlock, Disks
    <2> QED BY <2>2, <2>3, <2>4
  <1>4. ASSUME NEW i \in 0 .. Len(j.content) - 1, i < (j.next + 1) * B
        PROVE  d2[j.start + (i \div B)][i % B] = j.content[i + 1]
    <2>1. /\ B \in Nat \ {0} /\ i \in Nat /\ j.next \in Nat /\ j.start \in Nat
          /\ Blocks(j) \in Nat /\ j.start + Blocks(j) <= N /\ i < Len(j.content)
      <3>1. Len(j.content) \in Nat
        BY DEF FillOk, Texts
      <3> QED BY <3>1, CeilIs, ConstAssumption DEF FillOk, Jobs, BlockNos, Target, Blocks
    <2>2. /\ i \div B \in 0 .. j.next /\ i % B \in Cells
          /\ i = B * (i \div B) + (i % B)
      <3>1. j.next + 1 \in Nat
        BY <2>1
      <3>2. i \div B \in 0 .. (j.next + 1) - 1
        BY <1>4, <2>1, <3>1, CellPlace
      <3>3. (j.next + 1) - 1 = j.next
        BY <2>1
      <3> QED BY <1>4, <2>1, <3>1, <3>2, <3>3, CellPlace
    <2>3. CASE i < j.next * B
      <3>1. i \div B \in 0 .. j.next - 1
        BY <2>1, <2>3, CellPlace
      <3>2. j.next < Blocks(j)
        BY DEF FillOk
      <3>3. j.start + (i \div B) \in BlockNos /\ j.start + (i \div B) # blk
        <4> DEFINE x == i \div B
        <4>1. x \in 0 .. j.next - 1
          BY <3>1
        <4>2. j.start + j.next \in BlockNos /\ N \in Nat
          BY <1>2, ConstAssumption DEF blk
        <4> HIDE DEF x
        <4>3. j.start \in Nat /\ j.next \in Nat
          BY <2>1
        <4>4. j.start + x \in BlockNos /\ j.start + x # j.start + j.next
          BY ONLY <4>1, <4>2, <4>3 DEF BlockNos
        <4> QED BY <4>4 DEF x, blk
      <3>4. d[j.start + (i \div B)][i % B] = j.content[i + 1]
        BY <2>3 DEF FillOk, Filled
      <3> QED BY <1>3, <3>3, <3>4
    <2>4. CASE ~ (i < j.next * B)
      <3>1. i \div B = j.next
        <4>1. SUFFICES ASSUME i \div B <= j.next - 1 PROVE FALSE
          BY <2>1, <2>2
        <4>2. B * (i \div B) <= B * (j.next - 1)
          <5>1. B \in Nat /\ i \div B \in Int /\ j.next - 1 \in Int
            BY <2>1, <2>2
          <5> QED BY <4>1, <5>1, MulMono
        <4>3. i % B \in 0 .. B - 1
          BY <2>2 DEF Cells
        <4>4. B * (j.next - 1) = j.next * B - B /\ j.next * B \in Nat
          BY <2>1, MulFacts
        <4>5. B * (i \div B) \in Nat
          BY <2>1, <2>2, MulFacts
        <4> DEFINE p == B * (i \div B)
                   q == j.next * B
                   rest == i % B
        <4>6. /\ p \in Nat /\ q \in Nat /\ rest \in 0 .. B - 1 /\ p <= q - B
              /\ i = p + rest /\ ~ (i < q)
          BY <2>2, <2>4, <4>2, <4>3, <4>4, <4>5
        <4> HIDE DEF p, q, rest
        <4> QED BY <2>1, <4>6
      <3>2. i % B = i - j.next * B
        <4>1. B * j.next = j.next * B
          BY <2>1, MulFacts
        <4>2. j.next * B \in Nat /\ i % B \in Nat
          BY <2>1, <2>2, MulFacts DEF Cells
        <4>3. i = B * j.next + (i % B)
          BY <2>2, <3>1
        <4> DEFINE p == j.next * B
                   rest == i % B
        <4>4. p \in Nat /\ rest \in Nat /\ i = p + rest
          BY <4>1, <4>2, <4>3
        <4> HIDE DEF p, rest
        <4>5. rest = i - p
          BY <4>4
        <4> QED BY <4>5 DEF p, rest
      <3>3. i % B \in 0 .. Len(s) - 1
        <4>1. i - j.next * B < Len(s)
          BY <1>1, <1>4, <2>1
        <4>2. i % B \in Nat /\ Len(s) \in Nat
          BY <1>1, <2>2 DEF Cells
        <4> DEFINE x == i % B
        <4>3. x \in Nat /\ Len(s) \in Nat /\ x < Len(s)
          BY ONLY <3>2, <4>1, <4>2
        <4> HIDE DEF x
        <4>4. x \in 0 .. Len(s) - 1
          BY ONLY <4>3
        <4> QED BY <4>4 DEF x
      <3>4. s[(i % B) + 1] = j.content[i + 1]
        <4>1. (i % B) + 1 \in 1 .. Len(s)
          BY <1>1, <3>3
        <4>2. j.next * B \in Nat /\ j.next * B + ((i % B) + 1) = i + 1
          <5> DEFINE p == j.next * B
                     rest == i % B
          <5>1. p \in Nat /\ rest = i - p
            BY <2>1, <3>2, MulFacts
          <5> HIDE DEF p, rest
          <5>2. p + (rest + 1) = i + 1
            BY <2>1, <5>1
          <5> QED BY <5>1, <5>2 DEF p, rest
        <4> QED BY <1>1, <4>1, <4>2
      <3>5. d[blk][i % B] = Blank
        BY <2>2 DEF blk, ErasedBlock
      <3>6. d2[blk][i % B] = And(Blank, s[(i % B) + 1])
        <4>1. (i % B) - 0 + 1 = (i % B) + 1 /\ 0 + Len(s) - 1 = Len(s) - 1
          BY <1>1, <2>1, <2>2 DEF Cells
        <4> QED BY <1>3, <2>2, <3>3, <3>5, <4>1
      <3> QED BY <3>1, <3>4, <3>6 DEF And, blk
    <2> QED BY <2>3, <2>4
  <1> QED BY <1>3, <1>4 DEF blk

-----------------------------------------------------------------------------
(* Programming the tail. *)

\* A file that ends inside the last of its blocks, k: where its cells lie, and
\* those that will follow.
LEMMA TailPlace ==
    ASSUME NEW size \in Nat, NEW k \in Nat \ {0}, Ceil(size) = k, size % B # 0
    PROVE  /\ size % B \in 1 .. B - 1 /\ size = B * (k - 1) + (size % B)
           /\ \A i \in Nat : size <= i /\ (size % B) + (i - size) < B
                => i \div B = k - 1 /\ i % B = (size % B) + (i - size)
           /\ \A i \in Nat : i < size /\ i \div B = k - 1 => i % B < size % B
  <1> DEFINE h == size \div B
             r == size % B
  <1>1. B \in Nat \ {0} /\ k - 1 \in Nat
    BY ConstAssumption
  <1>2. h \in Nat /\ r \in 1 .. B - 1 /\ size = B * h + r
    <2>1. h \in Nat /\ r \in 0 .. B - 1 /\ size = B * h + r /\ r # 0
      BY <1>1, DivMod
    <2> HIDE DEF h, r
    <2> QED BY <1>1, <2>1
  <1> HIDE DEF h, r
  <1>3. B * (k - 1) < size /\ size <= B * (k - 1) + B /\ B * (k - 1) \in Nat
    <2>1. size > 0
      BY <1>1, <1>2, SMT
    <2>2. (k - 1) * B < size /\ size <= k * B
      BY <2>1, CeilIs
    <2>3. (k - 1) * B = B * (k - 1) /\ k * B = B * (k - 1) + B /\ B * (k - 1) \in Nat
      BY <1>1, SMT
    <2> QED BY <1>1, <2>2, <2>3
  <1>4. h = k - 1
    <2>1. ASSUME h <= k - 2 PROVE FALSE
      <3>1. B * (h + 1) <= B * (k - 1)
        BY <1>1, <1>2, <2>1, MulMono
      <3>2. B * (h + 1) = B * h + B /\ B * h \in Nat
        BY <1>1, <1>2, SMT
      <3> QED BY <1>1, <1>2, <1>3, <3>1, <3>2
    <2>2. ASSUME h >= k PROVE FALSE
      <3>1. B * ((k - 1) + 1) <= B * h
        BY <1>1, <1>2, <2>2, MulMono
      <3>2. B * ((k - 1) + 1) = B * (k - 1) + B /\ B * h \in Nat
        BY <1>1, <1>2, SMT
      <3> QED BY <1>1, <1>2, <1>3, <3>1, <3>2
    <2> QED BY <1>1, <1>2, <2>1, <2>2
  <1>5. ASSUME NEW i \in Nat, size <= i, r + (i - size) < B
        PROVE  i \div B = k - 1 /\ i % B = r + (i - size)
    <2>1. r + (i - size) \in 0 .. B - 1 /\ i = B * (k - 1) + (r + (i - size))
      BY <1>1, <1>2, <1>3, <1>4, <1>5
    <2> DEFINE x == r + (i - size)
    <2>2. x \in 0 .. B - 1 /\ i = B * (k - 1) + x
      BY <2>1
    <2> HIDE DEF x
    <2>3. (B * (k - 1) + x) \div B = k - 1 /\ (B * (k - 1) + x) % B = x
      BY <1>1, <2>2, DivModIs
    <2> QED BY <2>2, <2>3 DEF x
  <1>6. ASSUME NEW i \in Nat, i < size, i \div B = k - 1 PROVE i % B < r
    <2>1. i = B * (k - 1) + (i % B) /\ i % B \in 0 .. B - 1
      BY <1>1, <1>6, DivMod
    <2> QED BY <1>1, <1>2, <1>3, <1>4, <1>6, <2>1
  <1> QED BY <1>2, <1>4, <1>5, <1>6 DEF r

\* The chunk is what the text has more than the file.
LEMMA ChunkIs ==
    ASSUME NEW c \in Texts, NEW k \in 0 .. Len(c)
    PROVE  LET s == SubSeq(c, Len(c) - k + 1, Len(c))
           IN  /\ s \in Texts /\ Len(s) = k
               /\ \A i \in 1 .. k : s[i] = c[Len(c) - k + i]
  <1> DEFINE lo == Len(c) - k + 1
  <1>1. Len(c) \in Nat /\ lo \in Int /\ c \in Seq(CellValues)
    BY DEF Texts
  <1>2. \A i \in lo .. Len(c) : c[i] \in CellValues
    BY <1>1
  <1> HIDE DEF lo
  <1>3. /\ SubSeq(c, lo, Len(c)) \in Seq(CellValues)
        /\ Len(SubSeq(c, lo, Len(c))) = IF lo <= Len(c) THEN Len(c) - lo + 1 ELSE 0
        /\ \A i \in 1 .. Len(c) - lo + 1 : SubSeq(c, lo, Len(c))[i] = c[lo + i - 1]
    BY <1>1, <1>2, SubSeqProperties
  <1>4. /\ Len(c) - lo + 1 = k /\ (lo <= Len(c) <=> k > 0)
        /\ \A i \in Int : lo + i - 1 = Len(c) - k + i
    BY <1>1 DEF lo
  <1>5. Len(SubSeq(c, lo, Len(c))) = k
    BY <1>1, <1>3, <1>4
  <1>6. ASSUME NEW i \in 1 .. k PROVE SubSeq(c, lo, Len(c))[i] = c[Len(c) - k + i]
    BY <1>1, <1>3, <1>4
  <1> QED BY <1>3, <1>5, <1>6 DEF Texts, lo

\* The block an append programs is the file's own.
LEMMA TailSpares ==
    ASSUME NEW f \in Tables, Sound(f), NEW j \in Jobs, NEW d, TailOk(f, j, d)
    PROVE  LET e == EntryOf(f, j.name)
               b == e.start + e.blocks - 1
           IN  /\ b \in BlockNos /\ Fits(e) /\ e.size \in Nat /\ e.blocks \in Nat \ {0}
               /\ \A m \in Names \ {j.name} : Exists(f, m) => ~ Holds(EntryOf(f, m), b)
  <1> DEFINE e == EntryOf(f, j.name)
             b == e.start + e.blocks - 1
  <1>1. j.name \in Names /\ Exists(f, j.name) /\ e.blocks > 0
    BY DEF TailOk
  <1>2. /\ Fits(e) /\ e.name = j.name /\ e.name # NoName /\ e.size \in Nat
        /\ e.start \in Nat /\ e.blocks \in Nat \ {0} /\ e.start + e.blocks <= N
    BY <1>1, FileFits, ConstAssumption DEF Fits, Entries, BlockNos
  <1> HIDE DEF e
  <1>3. b \in BlockNos /\ Holds(e, b)
    <2>1. e \in Entries
      BY <1>2 DEF Fits
    <2> QED BY <1>2, <2>1, HoldsIs, ConstAssumption DEF BlockNos
  <1>4. \A m \in Names \ {j.name} : Exists(f, m) => ~ Holds(EntryOf(f, m), b)
    <2> HIDE DEF b
    <2> QED BY <1>1, <1>3, Apart DEF e
  <1> QED BY <1>2, <1>3, <1>4 DEF e

\* Positions in the tail of the last block, and in the chunk that fills it.
LEMMA TailArith ==
    ASSUME NEW size \in Nat, NEW r \in Nat, NEW k \in Nat, NEW n \in Nat, k <= n,
           NEW b \in Nat, r + n <= b, NEW i \in size .. size + k - 1
    PROVE  /\ i \in Nat /\ size <= i /\ r + (i - size) < b
           /\ r + (i - size) \in 0 .. b - 1 /\ r + (i - size) \in r .. r + k - 1
           /\ r + (i - size) \in r .. b - 1 /\ r + (i - size) - r + 1 = i - size + 1
           /\ i - size + 1 \in 1 .. n
  OBVIOUS

\* The file's cells stay, and its last block holds the first k cells that follow.
TailResult(f, j, d, k, d2) ==
    LET e == EntryOf(f, j.name)
    IN  /\ d2 \in Disks
        /\ \A x \in BlockNos : x # e.start + e.blocks - 1 => d2[x] = d[x]
        /\ \A i \in 0 .. e.size - 1 : CellAt(d2, e, i) = CellAt(d, e, i)
        /\ \A i \in e.size .. e.size + k - 1 : d2[BlockOf(e, i)][i % B] = j.content[i + 1]

\* That is what programming k cells of the chunk does.
LEMMA TailMore ==
    ASSUME NEW f \in Tables, Sound(f), NEW j \in Jobs, NEW d \in Disks, TailOk(f, j, d),
           NEW e, e = EntryOf(f, j.name), NEW k \in 0 .. j.next, NEW s,
           s = SubSeq(j.content, Len(j.content) - j.next + 1, Len(j.content)), NEW d2,
           d2 = Programmed(d, e.start + e.blocks - 1, InBlock(e), s, k)
    PROVE  TailResult(f, j, d, k, d2)
  <1> DEFINE b == e.start + e.blocks - 1
             r == e.size % B
  <1>1. /\ b \in BlockNos /\ Fits(e) /\ e.size \in Nat /\ e.blocks \in Nat \ {0}
        /\ e.start \in Nat /\ B \in Nat \ {0}
    BY TailSpares, ConstAssumption DEF Fits, Entries, BlockNos
  <1>2. /\ Ceil(e.size) = e.blocks /\ r # 0 /\ r + j.next <= B /\ j.next \in Nat \ {0}
        /\ j.content \in Texts /\ Len(j.content) = e.size + j.next
        /\ \A c \in r .. B - 1 : d[b][c] = Blank
        /\ InBlock(e) = r
    BY DEF TailOk, InBlock
  <1>3. /\ r \in 1 .. B - 1 /\ e.size = B * (e.blocks - 1) + r
        /\ \A i \in Nat : e.size <= i /\ r + (i - e.size) < B
             => i \div B = e.blocks - 1 /\ i % B = r + (i - e.size)
        /\ \A i \in Nat : i < e.size /\ i \div B = e.blocks - 1 => i % B < r
    BY <1>1, <1>2, TailPlace
  <1>4. /\ s \in Texts /\ Len(s) = j.next
        /\ \A i \in 1 .. j.next : s[i] = j.content[Len(j.content) - j.next + i]
    <2>1. j.next \in 0 .. Len(j.content)
      BY <1>1, <1>2
    <2> QED BY <1>2, <2>1, ChunkIs
  <1> HIDE DEF b, r
  <1>5. /\ d2 = Programmed(d, b, r, s, k) /\ r \in Nat /\ k \in Nat
        /\ k <= j.next /\ r + j.next <= B /\ j.next \in Nat
    <2>1. d2 = Programmed(d, b, r, s, k)
      BY <1>2 DEF b
    <2>2. r \in Nat /\ k \in Nat /\ k <= j.next
      BY <1>2, <1>3
    <2> QED BY <1>2, <2>1, <2>2
  <1>6. d2 \in Disks
    <2>1. k <= Len(s)
      BY <1>4, <1>5
    <2>2. Programmed(d, b, r, s, k) \in Disks
      BY <1>1, <1>4, <1>5, <2>1, ProgrammedIs
    <2> QED BY <1>5, <2>2
  <1>7. ASSUME NEW x \in BlockNos, x # b PROVE d2[x] = d[x]
    BY <1>5, <1>7 DEF Programmed, WithBlock, Disks
  <1>8. ASSUME NEW c \in Cells, c \notin r .. r + k - 1 PROVE d2[b][c] = d[b][c]
    <2>1. d2[b] = [i \in Cells |-> IF i \in r .. r + k - 1
                                   THEN And(d[b][i], s[i - r + 1]) ELSE d[b][i]]
      BY <1>1, <1>5 DEF Programmed, WithBlock, Disks
    <2> QED BY <1>8, <2>1
  <1>9. ASSUME NEW c \in Cells, c \in r .. r + k - 1
        PROVE  d2[b][c] = And(d[b][c], s[c - r + 1])
    <2>1. d2[b] = [i \in Cells |-> IF i \in r .. r + k - 1
                                   THEN And(d[b][i], s[i - r + 1]) ELSE d[b][i]]
      BY <1>1, <1>5 DEF Programmed, WithBlock, Disks
    <2> QED BY <1>9, <2>1
  <1>10. ASSUME NEW i \in 0 .. e.size - 1 PROVE CellAt(d2, e, i) = CellAt(d, e, i)
    <2>1. i \in Nat /\ i < e.size
      BY <1>1
    <2>2. /\ i \div B \in 0 .. e.blocks - 1 /\ i % B \in Cells /\ BlockOf(e, i) \in BlockNos
          /\ CellAt(d, e, i) = d[BlockOf(e, i)][i % B]
          /\ CellAt(d2, e, i) = d2[BlockOf(e, i)][i % B]
      BY <1>1, <2>1, FileCell
    <2>3. CASE BlockOf(e, i) = b
      <3>1. i \div B = e.blocks - 1
        <4> DEFINE x == i \div B
        <4>1. e.start + x = e.start + e.blocks - 1
          BY <2>3 DEF BlockOf, b
        <4>2. x \in Int /\ e.start \in Nat /\ e.blocks \in Nat
          BY <1>1, <2>2
        <4> HIDE DEF x
        <4>3. x = e.blocks - 1
          BY ONLY <4>1, <4>2
        <4> QED BY <4>3 DEF x
      <3>2. i % B < r
        BY <1>3, <2>1, <3>1
      <3>3. i % B \notin r .. r + k - 1
        BY <1>3, <2>2, <3>2 DEF Cells
      <3> QED BY <1>8, <2>2, <2>3, <3>3
    <2>4. CASE BlockOf(e, i) # b
      BY <1>7, <2>2, <2>4
    <2> QED BY <2>3, <2>4
  <1>11. ASSUME NEW i \in e.size .. e.size + k - 1
         PROVE  d2[BlockOf(e, i)][i % B] = j.content[i + 1]
    <2>1. i \in Nat /\ e.size <= i /\ r + (i - e.size) < B /\ k <= j.next
      BY <1>1, <1>5, TailArith
    <2>2. i \div B = e.blocks - 1 /\ i % B = r + (i - e.size)
      BY <1>3, <2>1
    <2>3. BlockOf(e, i) = b
      BY <1>1, <2>2 DEF BlockOf, b
    <2> DEFINE c == i % B
    <2>4. c \in Cells /\ c \in r .. r + k - 1 /\ c \in r .. B - 1 /\ c - r + 1 = i - e.size + 1
      <3>1. c = r + (i - e.size)
        BY <2>2
      <3> HIDE DEF c
      <3> DEFINE x == r + (i - e.size)
      <3>2. x \in 0 .. B - 1 /\ x \in r .. r + k - 1 /\ x \in r .. B - 1
        BY <1>1, <1>5, TailArith
      <3>3. x - r + 1 = i - e.size + 1
        BY <1>1, <1>5, TailArith
      <3> QED BY <3>1, <3>2, <3>3 DEF Cells
    <2>5. s[i - e.size + 1] = j.content[i + 1]
      <3>1. i - e.size + 1 \in 1 .. j.next
        BY <1>1, <1>5, TailArith
      <3>2. Len(j.content) - j.next + (i - e.size + 1) = i + 1
        <4>1. /\ Len(j.content) = e.size + j.next /\ e.size \in Nat /\ j.next \in Nat /\ i \in Nat
          BY <1>1, <1>2, <2>1
        <4> QED BY <4>1
      <3> QED BY <1>4, <3>1, <3>2
    <2> HIDE DEF c
    <2>6. d2[b][c] = And(Blank, s[i - e.size + 1])
      BY <1>2, <1>9, <2>4
    <2> QED BY <2>3, <2>5, <2>6 DEF c, And
  <1> QED BY <1>6, <1>7, <1>10, <1>11 DEF b, TailResult

\* So no file reads differently before the table is updated.
LEMMA TailReads ==
    ASSUME NEW f \in Tables, f.magic = "ok", Sound(f), NEW j \in Jobs, NEW d \in Disks,
           TailOk(f, j, d), NEW k, NEW d2, TailResult(f, j, d, k, d2), NEW m \in Names
    PROVE  View(f, d2)[m] = View(f, d)[m]
  <1> DEFINE e == EntryOf(f, j.name)
  <1> USE DEF TailResult
  <1>1. CASE m = j.name
    <2>1. Exists(f, m) /\ e.size \in Nat
      BY <1>1, TailSpares DEF TailOk
    <2>2. \A i \in 1 .. e.size : CellAt(d2, e, i - 1) = CellAt(d, e, i - 1)
      BY <2>1
    <2>3. /\ View(f, d2)[m] = [i \in 1 .. e.size |-> CellAt(d2, e, i - 1)]
          /\ View(f, d)[m] = [i \in 1 .. e.size |-> CellAt(d, e, i - 1)]
      BY <1>1, <2>1, ViewIs
    <2> QED BY <2>2, <2>3
  <1>2. CASE m # j.name
    <2>1. Exists(f, m) => \A b \in BlockNos : Holds(EntryOf(f, m), b) => d2[b] = d[b]
      BY <1>2, TailSpares
    <2> QED BY <2>1, SameView
  <1> QED BY <1>1, <1>2

-----------------------------------------------------------------------------
(* The HAL calls. *)

\* While blocks are being filled, the files that are not being overwritten in
\* place read the same whatever happens to the job's block.
FillingOk ==
    /\ Typed /\ ram.magic = "ok" /\ Sound(ram) /\ Sound(Untorn(fat)) /\ FillOk(ram, job, data)
    /\ \A n \in Names : n \notin loose => View(ram, data)[n] \in {acked[n]} \cup maybe[n]
    /\ job.content \in maybe[job.name]
    /\ FitsInPlace(EntryOf(ram, job.name), job.content) => job.name \in loose
    /\ JobBlock = job.start + job.next
    /\ JobBlock \in BlockNos /\ JobBlock \in job.start .. job.start + Blocks(job) - 1
\* While blocks are filled the invariant says what FillingOk collects.
LEMMA FillingIs ==
    ASSUME ReadInv, Filling
    PROVE  FillingOk
  <1>1. Typed /\ Sound(ram) /\ Sound(Untorn(fat)) /\ FillOk(ram, job, data) /\ ram.magic = "ok"
    BY DEF ReadInv, ShapeInv, Placed, FillInv, Phase, Running, Filling
  <1>2. job.start + job.next \in job.start .. job.start + Blocks(job) - 1
    BY <1>1, JobBlockIs DEF Typed
  <1>3. job.start + job.next \in BlockNos
    BY <1>1, <1>2, FillSpares DEF Typed
  <1>4. JobBlock = job.start + job.next
    BY <1>3, PlaceIs DEF JobBlock
  <1> QED BY <1>1, <1>2, <1>3, <1>4
          DEF FillingOk, ReadInv, Promise, Running, Filling, Known, Owed

\* Filling a block of a new place changes no file that keeps its old one.
LEMMA FillReads ==
    ASSUME FillingOk, NEW d \in Disks, \A x \in BlockNos : x # JobBlock => d[x] = data[x],
           NEW m \in Names,
           m # job.name \/ ~ FitsInPlace(EntryOf(ram, job.name), job.content)
    PROVE  View(ram, d)[m] = View(ram, data)[m]
  <1>1. Exists(ram, m) => ~ Holds(EntryOf(ram, m), JobBlock)
    BY FillSpares DEF FillingOk, Typed
  <1>2. Exists(ram, m) => \A b \in BlockNos : Holds(EntryOf(ram, m), b) => d[b] = data[b]
    BY <1>1
  <1> QED BY <1>2, SameView DEF FillingOk, Typed

\* Erasing a block, or cutting its erase, changes that block only.
LEMMA RowIs ==
    ASSUME NEW d \in Disks, NEW b \in BlockNos, NEW row \in [Cells -> CellValues], NEW d2,
           d2 = WithBlock(d, b, row)
    PROVE  d2 \in Disks /\ d2[b] = row /\ \A x \in BlockNos : x # b => d2[x] = d[x]
  BY DEF Disks, WithBlock
\* An erased block and a torn one are rows of cells.
LEMMA RowTyped ==
    ErasedBlock \in [Cells -> CellValues] /\ [c \in Cells |-> Junk] \in [Cells -> CellValues]
  BY DEF ErasedBlock, CellValues

\* The erase of a block to fill preserves the invariant.
LEMMA BlockEraseStep ==
    ASSUME ReadInv, BlockErase
    PROVE  ReadInv'
  <1>1. FillingOk
    BY FillingIs DEF BlockErase, Filling
  <1>2. /\ data' = WithBlock(data, JobBlock, ErasedBlock) /\ pc' = "blkWrite"
        /\ fat' = fat /\ ram' = ram /\ job' = job /\ acked' = acked /\ maybe' = maybe
        /\ loose' = loose /\ ops' = ops
    <2>1. JobBlock # -1
      BY <1>1 DEF FillingOk, BlockNos
    <2> QED BY <2>1 DEF BlockErase, Erased
  <1>3. /\ data' \in Disks /\ \A x \in BlockNos : x # JobBlock => data'[x] = data[x]
        /\ data'[JobBlock] = ErasedBlock
    <2>1. data \in Disks /\ JobBlock \in BlockNos
      BY <1>1 DEF FillingOk, Typed
    <2> QED BY <1>2, <2>1, RowTyped, RowIs
  <1>4. data'[JobBlock] = ErasedBlock
    BY <1>3
  <1>5. FillOk(ram, job, data')
    <2>1. ASSUME NEW i \in 0 .. Len(job.content) - 1, i < job.next * B
          PROVE  data'[job.start + (i \div B)][i % B] = job.content[i + 1]
      <3>1. /\ job.next \in Nat /\ job.start \in Nat /\ i \in Nat /\ job.next < Blocks(job)
            /\ Blocks(job) \in Nat /\ job.start + Blocks(job) <= N
        <4>1. Len(job.content) \in Nat
          BY <1>1 DEF FillingOk, FillOk, Texts
        <4> QED BY <1>1, <4>1, CeilIs, ConstAssumption
                DEF FillingOk, FillOk, Target, Typed, Jobs, BlockNos, Blocks
      <3>2. i \div B \in 0 .. job.next - 1
        BY <2>1, <3>1, CellPlace
      <3>3. job.start + (i \div B) \in BlockNos /\ job.start + (i \div B) # JobBlock
        <4> DEFINE x == i \div B
        <4>1. x \in 0 .. job.next - 1
          BY <3>2
        <4>2. N \in Nat
          BY ConstAssumption
        <4>0. /\ job.next \in Nat /\ job.start \in Nat /\ Blocks(job) \in Nat
              /\ job.start + job.next < N
          BY <3>1, <4>2
        <4> HIDE DEF x
        <4>3. job.start + x \in BlockNos /\ job.start + x # job.start + job.next
          BY ONLY <4>0, <4>1, <4>2 DEF BlockNos
        <4>4. JobBlock = job.start + job.next
          BY <1>1 DEF FillingOk
        <4> QED BY <4>3, <4>4 DEF x
      <3>4. data[job.start + (i \div B)][i % B] = job.content[i + 1]
        BY <1>1, <2>1 DEF FillingOk, FillOk, Filled
      <3> QED BY <1>3, <3>3, <3>4
    <2> QED BY <1>1, <2>1 DEF FillingOk, FillOk, Filled
  <1>6. Typed' /\ Placed'
    BY <1>1, <1>2, <1>3 DEF FillingOk, Typed, Placed, HalCall
  <1>7. (Phase /\ FillInv /\ TailInv /\ CommitInv)'
    <2>1. JobBlock' = JobBlock
      BY <1>2 DEF JobBlock
    <2> QED BY <1>1, <1>2, <1>4, <1>5, <2>1
            DEF FillingOk, Phase, FillInv, Filling, TailInv, CommitInv, FatCommit
  <1>8. \A m \in Names : Known(ram, m)'
    <2>1. SUFFICES ASSUME NEW m \in Names, m \notin loose
                   PROVE  View(ram, data')[m] = View(ram, data)[m]
      BY <1>1, <1>2 DEF Known, Owed, FillingOk
    <2>2. m # job.name \/ ~ FitsInPlace(EntryOf(ram, job.name), job.content)
      BY <1>1, <2>1 DEF FillingOk
    <2> QED BY <1>1, <1>3, <2>2, FillReads
  <1>9. Promise'
    BY <1>1, <1>2, <1>8 DEF FillingOk, Promise, Filling, FatCommit
  <1> QED BY <1>6, <1>7, <1>9 DEF ReadInv, ShapeInv

\* The entry a file gets when its text is written.
LEMMA NewEntryIs ==
    ASSUME FillingOk, LastBlock(job), NEW d \in Disks,
           \A i \in 0 .. Len(job.content) - 1 : i < (job.next + 1) * B =>
               d[job.start + (i \div B)][i % B] = job.content[i + 1]
    PROVE  LET g == SetEntry(ram, job.name, NewEntry)
           IN  /\ g \in Tables /\ g.magic = "ok" /\ Sound(g) /\ KeepsOthers(ram, g, job.name)
               /\ View(g, d)[job.name] = job.content
  <1> DEFINE n == job.name
             c == job.content
             e == EntryOf(ram, n)
             z == NewEntry
             g == SetEntry(ram, n, z)
  <1>1. /\ ram \in Tables /\ Sound(ram) /\ ram.magic = "ok" /\ n \in Names /\ Exists(ram, n)
        /\ c \in Texts /\ c # <<>> /\ job.start \in BlockNos /\ Target(ram, job) /\ job \in Jobs
        /\ FillOk(ram, job, data)
    BY DEF FillingOk, FillOk, Typed, Jobs
  <1>2. e \in Entries /\ e.name = n /\ e.start + e.blocks <= N
    BY <1>1, FileFits
  <1>3. /\ Len(c) \in Nat \ {0} /\ Blocks(job) \in Nat \ {0} /\ Len(c) <= Blocks(job) * B
        /\ job.next + 1 = Blocks(job) /\ job.start + Blocks(job) <= N
    <2>1. Len(c) \in Nat \ {0}
      BY <1>1 DEF Texts
    <2>2. Ceil(Len(c)) \in Nat \ {0} /\ Len(c) <= Ceil(Len(c)) * B
      BY <2>1, CeilIs
    <2> QED BY <1>1, <2>1, <2>2 DEF Blocks, LastBlock, Target
  <1>4. /\ z.name = n /\ z.start = job.start /\ z.size = Len(c)
        /\ z.blocks = IF FitsInPlace(e, c) THEN e.blocks ELSE Blocks(job)
    <2>1. Len(c) % Mod = Len(c)
      <3>1. Blocks(job) \in 0 .. N /\ N \in Nat /\ B \in Nat
        <4>1. job.start \in Nat /\ N \in Nat /\ B \in Nat
          BY <1>1, ConstAssumption DEF BlockNos
        <4>2. Blocks(job) \in Nat /\ job.start + Blocks(job) <= N
          BY <1>3
        <4> QED BY ONLY <4>1, <4>2
      <3>2. B * Blocks(job) <= B * N /\ B * Blocks(job) = Blocks(job) * B /\ B * N = N * B
        <4>1. Blocks(job) \in Nat /\ Blocks(job) <= N
          BY <1>3, <3>1
        <4>2. B \in Nat /\ N \in Nat /\ Blocks(job) \in Int /\ N \in Int
          BY <3>1
        <4>3. B * Blocks(job) <= B * N
          BY ONLY <4>1, <4>2, MulMono
        <4>4. B * Blocks(job) = Blocks(job) * B
          BY ONLY <4>1, <4>2, MulFacts
        <4>5. B * N = N * B
          BY ONLY <4>2, MulFacts
        <4> QED BY ONLY <4>3, <4>4, <4>5
      <3>3. Len(c) \in 0 .. N * B
        <4>1. N * B \in Nat /\ Blocks(job) * B \in Nat
          BY <1>3, ConstAssumption, MulFacts
        <4> HIDE DEF c
        <4> QED BY <1>3, <3>2, <4>1
      <3> QED BY <3>3, InWords
    <2> QED BY <1>2, <2>1 DEF NewEntry, Blocks, Entries
  <1>5. /\ z.blocks \in Nat /\ Blocks(job) <= z.blocks /\ z.start + z.blocks <= N
    <2>1. CASE FitsInPlace(e, c)
      <3>1. z.blocks = e.blocks /\ job.start = e.start /\ Blocks(job) <= e.blocks
        BY <1>1, <1>4, <2>1 DEF Target, FitsInPlace, Blocks
      <3> QED BY <1>2, <1>4, <3>1 DEF Entries
    <2>2. CASE ~ FitsInPlace(e, c)
      BY <1>3, <1>4, <2>2
    <2> QED BY <2>1, <2>2
  <1>6. Len(c) <= z.blocks * B
    BY <1>3, <1>5, CeilLeast DEF Blocks
  <1>7. z \in Entries
    <2>1. z.blocks \in 0 .. N
      <3>1. z.start \in Nat /\ N \in Nat
        BY <1>1, <1>4, ConstAssumption DEF BlockNos
      <3>2. z.blocks \in Nat /\ z.start + z.blocks <= N
        BY <1>5
      <3> HIDE DEF z
      <3> QED BY <3>1, <3>2
    <2>2. Len(c) \in 0 .. N * B
      <3>1. B * z.blocks <= B * N
        BY <2>1, ConstAssumption, MulMono
      <3>2. B * z.blocks = z.blocks * B /\ B * N = N * B /\ N * B \in Nat /\ z.blocks * B \in Nat
        BY <1>5, ConstAssumption, MulFacts
      <3> QED BY <1>3, <1>6, <3>1, <3>2
    <2>3. z = [e EXCEPT !.start = z.start, !.size = z.size, !.blocks = z.blocks]
      BY <1>2 DEF NewEntry, Entries
    <2>4. z.start \in BlockNos /\ z.size \in 0 .. N * B
      BY <1>1, <1>4, <2>2
    <2> HIDE DEF z
    <2> QED BY <1>2, <2>1, <2>3, <2>4 DEF Entries
  <1> HIDE DEF z, e, n, c
  <1>8. ASSUME NEW b \in BlockNos, Holds(z, b) PROVE Holds(e, b) \/ ~ InUse(ram, b)
    <2>1. CASE FitsInPlace(e, c)
      <3>1. z.start = e.start /\ z.blocks = e.blocks
        BY <1>1, <1>4, <2>1 DEF Target, e, c, n
      <3> QED BY <1>2, <1>4, <1>7, <1>8, <3>1, HoldsIs
    <2>2. CASE ~ FitsInPlace(e, c)
      <3>1. b \in job.start .. job.start + Blocks(job) - 1
        <4>1. z.start = job.start /\ z.blocks = Blocks(job)
          BY <1>4, <2>2
        <4>2. job.start <= b /\ b < job.start + Blocks(job)
          BY <1>7, <1>8, <4>1, HoldsIs
        <4>3. job.start \in Int /\ b \in Int /\ Blocks(job) \in Int
          BY <1>1, <1>3 DEF BlockNos
        <4> QED BY <4>2, <4>3
      <3> QED BY <1>1, <2>2, <3>1, FillSpares DEF e, c, n
    <2> QED BY <2>1, <2>2
  <1>9. /\ g \in Tables /\ g.magic = "ok" /\ Sound(g) /\ Exists(g, n) /\ EntryOf(g, n) = z
        /\ KeepsOthers(ram, g, n)
    <2>1. z.size <= z.blocks * B
      BY <1>4, <1>6
    <2> QED BY <1>1, <1>4, <1>5, <1>7, <1>8, <2>1, Renewed DEF e
  <1> HIDE DEF g
  <1>10. View(g, d)[n] = c
    <2>1. ASSUME NEW i \in 1 .. Len(c) PROVE CellAt(d, z, i - 1) = c[i]
      <3>1. i - 1 \in Nat /\ i - 1 < z.size /\ (i - 1) + 1 = i /\ i - 1 \in 0 .. Len(c) - 1
        BY <1>3, <1>4
      <3>2. Fits(z)
        BY <1>4, <1>5, <1>6, <1>7 DEF Fits
      <3>3. CellAt(d, z, i - 1) = d[job.start + ((i - 1) \div B)][(i - 1) % B]
        BY <1>4, <3>1, <3>2, FileCell DEF BlockOf
      <3>4. i - 1 < (job.next + 1) * B
        <4> DEFINE k == Blocks(job) * B
        <4>1. k \in Nat /\ Len(c) <= k
          BY <1>3, ConstAssumption, MulFacts
        <4> HIDE DEF k
        <4>2. i - 1 < k
          BY <1>3, <4>1
        <4> QED BY <1>3, <4>2 DEF k
      <3> QED BY <3>1, <3>3, <3>4 DEF c
    <2> QED BY <1>1, <1>4, <1>9, <2>1, ViewText
  <1> QED BY <1>9, <1>10 DEF g, n, c, z

\* Programming that block preserves the invariant.
LEMMA BlockWriteStep ==
    ASSUME ReadInv, BlockWrite
    PROVE  ReadInv'
  <1>1. FillingOk
    BY FillingIs DEF BlockWrite, Filling
  <1>2. /\ data' = Programmed(data, JobBlock, 0, Segment(job), Len(Segment(job)))
        /\ fat' = fat /\ acked' = acked /\ maybe' = maybe /\ loose' = loose /\ ops' = ops
    <2>1. JobBlock # -1
      BY <1>1 DEF FillingOk, BlockNos
    <2> QED BY <2>1 DEF BlockWrite
  <1>3. data[JobBlock] = ErasedBlock
    BY DEF BlockWrite, ReadInv, ShapeInv, FillInv, Filling
  <1>4. /\ data' \in Disks /\ \A x \in BlockNos : x # JobBlock => data'[x] = data[x]
        /\ \A i \in 0 .. Len(job.content) - 1 : i < (job.next + 1) * B =>
               data'[job.start + (i \div B)][i % B] = job.content[i + 1]
    BY <1>1, <1>2, <1>3, FilledMore DEF FillingOk, Typed
  <1>5. ASSUME NEW m \in Names, m \notin loose
        PROVE  View(ram, data')[m] \in {acked[m]} \cup maybe[m]
    <2>1. m # job.name \/ ~ FitsInPlace(EntryOf(ram, job.name), job.content)
      BY <1>1, <1>5 DEF FillingOk
    <2>2. View(ram, data')[m] = View(ram, data)[m]
      BY <1>1, <1>4, <2>1, FillReads
    <2> QED BY <1>1, <1>5, <2>2 DEF FillingOk
  <1>6. CASE /\ LastBlock(job)
             /\ ram' = SetEntry(ram, job.name, NewEntry)
             /\ pc' = "fatErase" /\ UNCHANGED job
    <2>1. /\ ram' \in Tables /\ ram'.magic = "ok" /\ Sound(ram')
          /\ KeepsOthers(ram, ram', job.name) /\ View(ram', data')[job.name] = job.content
      BY <1>1, <1>4, <1>6, NewEntryIs
    <2>2. job.op = "write" /\ job.name \in Names /\ maybe = [m \in Names |-> maybe[m]]
      BY <1>1 DEF FillingOk, FillOk, Typed
    <2> QED BY <1>1, <1>2, <1>4, <1>5, <1>6, <2>1, <2>2, CommitKeeps DEF FillingOk, Typed
  <1>7. CASE /\ ~ LastBlock(job)
             /\ job' = [job EXCEPT !.next = @ + 1]
             /\ pc' = "blkErase" /\ UNCHANGED ram
    <2>1. /\ job' \in Jobs /\ job'.next = job.next + 1 /\ job'.op = job.op
          /\ job'.name = job.name /\ job'.content = job.content /\ job'.start = job.start
      <3>1. job \in Jobs /\ job.next + 1 \in Int /\ job' = [job EXCEPT !.next = job.next + 1]
        BY <1>1, <1>7 DEF FillingOk, Typed, Jobs
      <3> QED BY <3>1, JobNext
    <2>2. FillOk(ram, job', data')
      <3>1. job.next + 1 < Blocks(job) /\ job.next + 1 \in Nat /\ Blocks(job') = Blocks(job)
        <4>1. Blocks(job) \in Nat
          BY <1>1, CeilIs DEF FillingOk, FillOk, Texts, Blocks
        <4> QED BY <1>1, <1>7, <2>1, <4>1 DEF FillingOk, FillOk, LastBlock, Blocks
      <3>2. Target(ram, job')
        BY <1>1, <2>1, <3>1 DEF FillingOk, FillOk, Target
      <3>3. Filled(job', data')
        BY <1>4, <2>1 DEF Filled
      <3> QED BY <1>1, <2>1, <3>1, <3>2, <3>3 DEF FillingOk, FillOk
    <2>3. Typed' /\ Placed'
      BY <1>1, <1>2, <1>4, <1>7, <2>1 DEF FillingOk, Typed, Placed, HalCall
    <2>4. (Phase /\ FillInv /\ TailInv /\ CommitInv)'
      BY <1>1, <1>7, <2>2 DEF FillingOk, Phase, FillInv, Filling, TailInv, CommitInv, FatCommit
    <2>5. \A m \in Names : Known(ram, m)'
      BY <1>2, <1>5, <1>7 DEF Known, Owed
    <2>6. Promise'
      BY <1>1, <1>2, <1>7, <2>1, <2>5 DEF FillingOk, Promise, Filling, FatCommit
    <2> QED BY <2>3, <2>4, <2>6 DEF ReadInv, ShapeInv
  <1> QED BY <1>6, <1>7 DEF BlockWrite

\* What holds while an append programs the tail.
TailingOk ==
    /\ Typed /\ ram.magic = "ok" /\ Sound(ram) /\ Sound(Untorn(fat)) /\ TailOk(ram, job, data)
    /\ \A n \in Names : n \notin loose => View(ram, data)[n] \in {acked[n]} \cup maybe[n]
    /\ job.content \in maybe[job.name]
\* While a tail is programmed the invariant says what TailingOk collects.
LEMMA TailingIs ==
    ASSUME ReadInv, pc = "tail"
    PROVE  TailingOk
  BY DEF TailingOk, ReadInv, ShapeInv, Placed, TailInv, Phase, Running, Promise, Known, Owed

\* The first k cells of the chunk programmed.
LEMMA TailProgrammedIs ==
    ASSUME TailingOk, NEW k \in 0 .. job.next
    PROVE  /\ TailResult(ram, job, data, k, TailProgrammed(k))
           /\ \A m \in Names : View(ram, TailProgrammed(k))[m] = View(ram, data)[m]
  <1> DEFINE e == EntryOf(ram, job.name)
             d2 == TailProgrammed(k)
             s == SubSeq(job.content, Len(job.content) - job.next + 1, Len(job.content))
  <1>1. /\ ram \in Tables /\ Sound(ram) /\ ram.magic = "ok" /\ job \in Jobs /\ data \in Disks
        /\ TailOk(ram, job, data)
    BY DEF TailingOk, Typed
  <1>2. d2 = Programmed(data, e.start + e.blocks - 1, InBlock(e), s, k)
    <2>1. e \in Entries /\ e.start + e.blocks <= N /\ e.blocks > 0
      BY <1>1, FileFits DEF TailOk
    <2>2. TailBlock(e) = e.start + e.blocks - 1
      BY <2>1, LastPlace
    <2> QED BY <2>2 DEF TailProgrammed, TailChunk
  <1>3. e = EntryOf(ram, job.name)
    OBVIOUS
  <1> HIDE DEF d2, e
  <1>4. TailResult(ram, job, data, k, d2)
    BY <1>1, <1>2, <1>3, TailMore
  <1>5. ASSUME NEW m \in Names PROVE View(ram, d2)[m] = View(ram, data)[m]
    BY <1>1, <1>4, TailReads
  <1> QED BY <1>4, <1>5 DEF d2

\* A tail does not reach the FAT block.
LEMMA TailFatIs ==
    ASSUME TailingOk
    PROVE  TailFat = {fat} /\ TailBlock(EntryOf(ram, job.name)) \in BlockNos
  <1> DEFINE e == EntryOf(ram, job.name)
  <1>1. e \in Entries /\ e.start + e.blocks <= N /\ e.blocks > 0
    BY FileFits DEF TailingOk, TailOk, Typed
  <1>2. TailBlock(e) \in BlockNos
    BY <1>1, LastPlace
  <1>3. TailBlock(e) # -1
    BY <1>2 DEF BlockNos
  <1> QED BY <1>2, <1>3 DEF TailFat

\* Programming the tail of the last block preserves the invariant.
LEMMA TailProgramStep ==
    ASSUME ReadInv, TailProgram
    PROVE  ReadInv'
  <1> DEFINE n == job.name
             e == EntryOf(ram, n)
             z == [e EXCEPT !.size = (@ + job.next) % Mod]
  <1>1. TailingOk
    BY TailingIs DEF TailProgram
  <1>2. /\ data' = TailProgrammed(job.next) /\ ram' = SetEntry(ram, n, z)
        /\ pc' = "fatErase" /\ fat' = fat /\ job' = job /\ acked' = acked /\ maybe' = maybe
        /\ loose' = loose /\ ops' = ops
    <2>1. TailFat = {fat}
      BY <1>1, TailFatIs
    <2> QED BY <2>1 DEF TailProgram
  <1>3. /\ ram \in Tables /\ Sound(ram) /\ ram.magic = "ok" /\ n \in Names /\ Exists(ram, n)
        /\ job.content \in Texts /\ Len(job.content) = e.size + job.next /\ job.op = "append"
        /\ job.next \in Nat \ {0} /\ e.size % B # 0 /\ Ceil(e.size) = e.blocks
        /\ (e.size % B) + job.next <= B
        /\ \A i \in 1 .. e.size : job.content[i] = CellAt(data, e, i - 1)
    BY <1>1 DEF TailingOk, TailOk, Typed, InBlock
  <1>4. /\ e \in Entries /\ e.name = n /\ e.start + e.blocks <= N /\ e.size \in Nat
        /\ e.blocks \in Nat \ {0} /\ e.start \in Nat
    <2>1. e \in Entries /\ e.name = n /\ e.start + e.blocks <= N /\ e.size \in Nat
      BY <1>3, FileFits
    <2>2. e.blocks \in Nat \ {0} /\ e.start \in Nat
      BY <1>1, <2>1, ConstAssumption DEF TailingOk, TailOk, Entries, BlockNos
    <2> QED BY <2>1, <2>2
  <1>5. /\ data' \in Disks
        /\ \A x \in BlockNos : x # e.start + e.blocks - 1 => data'[x] = data[x]
        /\ \A i \in 0 .. e.size - 1 : CellAt(data', e, i) = CellAt(data, e, i)
        /\ \A i \in e.size .. e.size + job.next - 1 :
             data'[BlockOf(e, i)][i % B] = job.content[i + 1]
        /\ \A m \in Names : View(ram, data')[m] = View(ram, data)[m]
    <2>1. job.next \in 0 .. job.next
      BY <1>3
    <2> QED BY <1>1, <1>2, <2>1, TailProgrammedIs DEF TailResult
  <1>6. e.size + job.next <= e.blocks * B
    <2>1. e.size = B * (e.blocks - 1) + (e.size % B) /\ e.size % B \in 1 .. B - 1
      BY <1>3, <1>4, TailPlace
    <2>2. B * (e.blocks - 1) = e.blocks * B - B /\ e.blocks * B \in Nat /\ B \in Nat
      BY <1>4, ConstAssumption, MulFacts
    <2> DEFINE p == B * (e.blocks - 1)
               q == e.blocks * B
               rest == e.size % B
    <2>3. /\ e.size = p + rest /\ p = q - B /\ q \in Nat /\ B \in Nat
          /\ rest \in 1 .. B - 1 /\ rest + job.next <= B
      <3>1. rest + job.next <= B
        BY <1>3
      <3> HIDE DEF rest
      <3> QED BY <2>1, <2>2, <3>1 DEF rest
    <2> HIDE DEF p, q, rest
    <2>4. job.next \in Nat
      BY <1>3
    <2>5. e.size + job.next <= q
      BY <2>3, <2>4
    <2> QED BY <2>5 DEF q
  <1>7. /\ z.name = n /\ z.start = e.start /\ z.blocks = e.blocks
        /\ z.size = e.size + job.next /\ z.size \in 0 .. N * B
    <2>1. e.size + job.next \in 0 .. N * B
      <3>1. B * e.blocks <= B * N /\ e.blocks \in 0 .. N
        BY <1>4, ConstAssumption, MulMono DEF Entries
      <3>2. /\ B * e.blocks = e.blocks * B /\ B * N = N * B /\ N * B \in Nat
            /\ e.blocks * B \in Nat
        BY <1>4, ConstAssumption, MulFacts
      <3> HIDE DEF z, e
      <3> QED BY <1>3, <1>4, <1>6, <3>1, <3>2
    <2>2. (e.size + job.next) % Mod = e.size + job.next
      BY <2>1, InWords
    <2> HIDE DEF e
    <2> QED BY <1>4, <2>1, <2>2 DEF Entries
  <1>8. Fits(z)
    <2>1. z.size \in 0 .. N * B
      BY <1>7
    <2>2. z \in Entries
      BY <1>4, <1>7, <2>1 DEF Entries
    <2> QED BY <1>4, <1>6, <1>7, <2>2 DEF Fits
  <1> HIDE DEF z, e, n
  <1>9. /\ ram' \in Tables /\ ram'.magic = "ok" /\ Sound(ram') /\ Exists(ram', n)
        /\ EntryOf(ram', n) = z /\ KeepsOthers(ram, ram', n)
    <2>1. \A b \in BlockNos : Holds(z, b) => Holds(e, b)
      BY <1>4, <1>7, <1>8, HoldsIs DEF Fits
    <2> QED BY <1>2, <1>3, <1>7, <1>8, <2>1, Renewed DEF e, Fits
  <1>10. View(ram', data')[n] = job.content
    <2>1. ASSUME NEW i \in 1 .. Len(job.content) PROVE CellAt(data', z, i - 1) = job.content[i]
      <3>1. /\ i - 1 \in Nat /\ i - 1 < z.size /\ (i - 1) + 1 = i
            /\ i - 1 \in 0 .. e.size + job.next - 1
        BY <1>3, <1>4, <1>7
      <3>2. CASE i - 1 < e.size
        <4>1. i - 1 \in 0 .. e.size - 1 /\ i \in 1 .. e.size
          BY <1>4, <3>1, <3>2
        <4>2. CellAt(data', z, i - 1) = CellAt(data', e, i - 1)
          BY <1>7 DEF CellAt
        <4> QED BY <1>3, <1>5, <4>1, <4>2
      <3>3. CASE e.size <= i - 1
        <4>1. i - 1 \in e.size .. e.size + job.next - 1
          BY <1>3, <1>4, <3>1, <3>3
        <4>2. data'[BlockOf(e, i - 1)][(i - 1) % B] = job.content[i]
          BY <1>5, <3>1, <4>1
        <4>3. CellAt(data', z, i - 1) = data'[BlockOf(z, i - 1)][(i - 1) % B]
          BY <1>8, <3>1, FileCell
        <4>4. BlockOf(z, i - 1) = BlockOf(e, i - 1)
          BY <1>7 DEF BlockOf
        <4> QED BY <4>2, <4>3, <4>4
      <3> QED BY <1>4, <3>1, <3>2, <3>3
    <2>2. /\ \A i \in 1 .. Len(job.content) :
               CellAt(data', EntryOf(ram', n), i - 1) = job.content[i]
          /\ Len(job.content) = EntryOf(ram', n).size
      BY <1>3, <1>7, <1>9, <2>1
    <2> QED BY <1>3, <1>5, <1>9, <2>2, ViewText
  <1>11. ASSUME NEW m \in Names \ {n}, m \notin loose
         PROVE  View(ram, data')[m] \in {acked[m]} \cup maybe'[m]
    BY <1>1, <1>2, <1>5, <1>11 DEF TailingOk
  <1>12. /\ job' \in Jobs /\ job'.op = "append" /\ job'.name = n
         /\ job.content \in maybe[n] /\ maybe = [m \in Names |-> maybe[m]]
    BY <1>1, <1>2, <1>3 DEF TailingOk, Typed, n
  <1> QED BY <1>1, <1>2, <1>3, <1>5, <1>9, <1>10, <1>11, <1>12, CommitKeeps DEF TailingOk, Typed

\* A table with no files.
LEMMA EmptyTable ==
    ASSUME NEW m \in {"ok", "zero", "blank", "torn"}
    PROVE  /\ Table(m, NoFiles) \in Tables /\ Table(m, NoFiles).magic = m
           /\ Table(m, NoFiles) \in WordTables /\ Untorn(Table(m, NoFiles)) = Table(m, NoFiles)
           /\ Sound(Table(m, NoFiles)) /\ \A n \in Names : ~ Exists(Table(m, NoFiles), n)
  <1> DEFINE f == Table(m, NoFiles)
  <1>1. Free \in Entries /\ Free.name = NoName
    <2>1. 0 \in BlockNos /\ 0 \in 0 .. N /\ 0 \in 0 .. N * B
      BY ConstAssumption, SMT DEF BlockNos
    <2> QED BY <2>1 DEF Free, Entries
  <1>2. f \in Tables /\ f.magic = m
    BY <1>1 DEF Table, NoFiles, Tables, Magics
  <1>3. \A i \in Slots : f.slots[i].name = NoName
    BY <1>1 DEF Table, NoFiles
  <1> QED BY <1>2, <1>3, WholeIs, ConstAssumption DEF Sound, Runs, Exists, SlotOf

\* A load that finds no torn entry finds a sound table.
LEMMA LoadIs ==
    ASSUME Load, Sound(Untorn(fat)), ~ astray'
    PROVE  /\ ram' \in Tables /\ Sound(ram')
           /\ ram' = IF fat.magic = "ok" THEN fat ELSE ZeroFat
  <1>1. ram' \in Tables /\ ram' = IF fat.magic = "ok" THEN fat ELSE ZeroFat
    BY DEF Load
  <1>2. ZeroFat \in Tables /\ Sound(ZeroFat)
    BY EmptyTable DEF ZeroFat
  <1>3. fat \in Tables => Sound(fat)
    BY WholeIs
  <1> QED BY <1>1, <1>2, <1>3

\* fs_format, up to its first HAL call, preserves the invariant.
LEMMA FormatStep ==
    ASSUME ReadInv, Format, ~ astray'
    PROVE  ReadInv'
  <1>1. Typed /\ Sound(Untorn(fat))
    BY DEF ReadInv, ShapeInv, Placed
  <1>2. ZeroFat \in Tables /\ Sound(ZeroFat)
    BY EmptyTable DEF ZeroFat
  <1>3. ram' \in Tables /\ Sound(ram')
    BY <1>1, <1>2, LoadIs DEF Format
  <1>4. /\ job' \in Jobs /\ job'.op = "format" /\ job'.next = -1
    <2>1. "format" \in JobOps /\ -1 \in Int
      BY DEF JobOps
    <2> QED BY <2>1, NoJobTyped DEF Format, Jobs
  <1>5. pc' = "format" /\ loose' = Names /\ fat' = fat /\ data' = data /\ acked' = acked
    BY DEF Format
  <1>6. maybe' = [n \in Names |-> maybe'[n]]
    BY DEF Format
  <1>7. ops' \in 0 .. MaxOps
    BY <1>1, OpsBound DEF Format
  <1>8. Typed' /\ Placed'
    BY <1>1, <1>3, <1>4, <1>5, <1>6, <1>7 DEF Typed, Placed, HalCall
  <1>9. (Phase /\ FillInv /\ TailInv /\ CommitInv)'
    BY <1>4, <1>5, ConstAssumption
    DEF Phase, Running, FillInv, Filling, TailInv, CommitInv, FatCommit
  <1>10. Promise'
    BY <1>5 DEF Promise, Running, Filling, FatCommit
  <1> QED BY <1>8, <1>9, <1>10 DEF ReadInv, ShapeInv

\* The erases of fs_format preserve the invariant.
LEMMA FormatEraseStep ==
    ASSUME ReadInv, FormatErase
    PROVE  ReadInv'
  <1>1. /\ Typed /\ Sound(ram) /\ Sound(Untorn(fat)) /\ job.op = "format" /\ job.next \in -1 .. N - 1
        /\ loose = Names
    BY DEF ReadInv, ShapeInv, Placed, Phase, Promise, FormatErase
  <1>2. fat' \in WordTables /\ Sound(Untorn(fat')) /\ data' \in Disks
    <2>1. BlankFat \in WordTables /\ Sound(Untorn(BlankFat))
      BY EmptyTable DEF BlankFat
    <2>2. CASE job.next = -1
      BY <1>1, <2>1, <2>2 DEF FormatErase, Typed
    <2>3. CASE job.next # -1
      <3>1. job.next \in BlockNos
        BY <1>1, <2>3, ConstAssumption DEF BlockNos
      <3> QED BY <1>1, <2>3, <3>1, RowTyped, RowIs DEF FormatErase, Typed, Erased
    <2> QED BY <2>2, <2>3
  <1>3. acked' = acked /\ maybe' = maybe /\ loose' = loose /\ ops' = ops
    BY DEF FormatErase
  <1>4. CASE job.next = N - 1
    <2>1. pc' = "fatErase" /\ ram' = EmptyFat /\ job' = job
      BY <1>4 DEF FormatErase
    <2>2. ram' \in Tables /\ ram'.magic = "ok" /\ Sound(ram')
      BY <2>1, EmptyTable DEF EmptyFat
    <2>3. Typed' /\ Placed'
      BY <1>1, <1>2, <1>3, <2>1, <2>2 DEF Typed, Placed, HalCall
    <2>4. (Phase /\ FillInv /\ TailInv /\ CommitInv)'
      BY <1>1, <2>1, <2>2 DEF Phase, FillInv, Filling, TailInv, CommitInv
    <2>5. Promise'
      BY <1>1, <1>3, <2>1 DEF Promise, Filling, FatCommit, Known
    <2> QED BY <2>3, <2>4, <2>5 DEF ReadInv, ShapeInv
  <1>5. CASE job.next # N - 1
    <2>1. pc' = pc /\ pc = "format" /\ ram' = ram /\ job' = [job EXCEPT !.next = job.next + 1]
      BY <1>5 DEF FormatErase
    <2>2. job.next + 1 \in Int /\ job.next + 1 \in -1 .. N - 1
      BY <1>1, <1>5, ConstAssumption
    <2>3. job' \in Jobs /\ job'.op = "format" /\ job'.next = job.next + 1
      BY <1>1, <2>1, <2>2, JobNext DEF Typed
    <2>4. Typed' /\ Placed'
      BY <1>1, <1>2, <1>3, <2>1, <2>3 DEF Typed, Placed
    <2>5. (Phase /\ FillInv /\ TailInv /\ CommitInv)'
      BY <2>1, <2>2, <2>3 DEF Phase, Running, FillInv, Filling, TailInv, CommitInv, FatCommit
    <2>6. Promise'
      BY <1>1, <1>3, <2>1 DEF Promise, Running, Filling, FatCommit
    <2> QED BY <2>4, <2>5, <2>6 DEF ReadInv, ShapeInv
  <1> QED BY <1>4, <1>5

\* What holds while the table is being committed.
CommittingOk ==
    /\ Typed /\ ram.magic = "ok" /\ Sound(ram) /\ CommitInv /\ FatCommit
    /\ \A n \in Names : n \notin loose => View(ram, data)[n] \in {acked[n]} \cup maybe[n]
    /\ job.op \notin {"writeNew", "format"} => View(ram, data)[job.name] = job.content
    /\ job.op # "format" => job.content \in maybe[job.name]
    /\ job.op = "format" => loose = Names
\* While the table is saved the invariant says what CommittingOk collects.
LEMMA CommittingIs ==
    ASSUME ReadInv, FatCommit
    PROVE  CommittingOk
  <1>1. Running
    BY DEF FatCommit, Running
  <1> QED BY <1>1 DEF CommittingOk, ReadInv, ShapeInv, Placed, Phase, Promise, Known, Owed

\* The erase of the FAT block preserves the invariant.
LEMMA FatEraseStep ==
    ASSUME ReadInv, FatErase
    PROVE  ReadInv'
  <1>1. CommittingOk
    BY CommittingIs DEF FatErase, FatCommit
  <1>2. BlankFat \in WordTables /\ Sound(Untorn(BlankFat))
    BY EmptyTable DEF BlankFat
  <1>3. /\ fat' = BlankFat /\ pc' = "fatWrite" /\ data' = data /\ ram' = ram /\ job' = job
        /\ acked' = acked /\ maybe' = maybe /\ loose' = loose /\ ops' = ops
    BY DEF FatErase
  <1>4. Typed' /\ Placed'
    BY <1>1, <1>2, <1>3 DEF CommittingOk, Typed, Placed, HalCall
  <1>5. (Phase /\ FillInv /\ TailInv /\ CommitInv)'
    BY <1>1, <1>3 DEF CommittingOk, Phase, FillInv, Filling, TailInv, CommitInv
  <1>6. \A m \in Names : Known(ram, m)'
    BY <1>1, <1>3 DEF Known, Owed, CommittingOk
  <1>7. Promise'
    BY <1>1, <1>3, <1>6 DEF CommittingOk, Promise, Filling, FatCommit
  <1> QED BY <1>4, <1>5, <1>7 DEF ReadInv, ShapeInv

\* A step into the idle state in which every file reads as owed.
LEMMA IdleKeeps ==
    ASSUME fat' \in WordTables, ram' \in Tables, data' \in Disks, Sound(Untorn(fat')), Sound(ram'),
           ram'.magic = "ok", pc' = "idle", job' = NoJob, acked' = [n \in Names |-> acked'[n]],
           maybe' = [n \in Names |-> maybe'[n]], loose' \subseteq Names, ops' \in 0 .. MaxOps,
           \A n \in Names : n \notin loose' => View(ram', data')[n] \in {acked'[n]} \cup maybe'[n]
    PROVE  ReadInv'
  <1>1. Typed' /\ Placed'
    BY NoJobTyped DEF Typed, Placed
  <1>2. (Phase /\ FillInv /\ TailInv /\ CommitInv)'
    BY DEF Phase, FillInv, Filling, TailInv, CommitInv, FatCommit
  <1>3. Promise'
    BY DEF Promise, Filling, FatCommit, Known, Owed
  <1> QED BY <1>1, <1>2, <1>3 DEF ReadInv, ShapeInv

\* Programming the FAT block, which ends an operation, preserves the invariant.
LEMMA FatWriteStep ==
    ASSUME ReadInv, FatWrite
    PROVE  ReadInv'
  <1>1. CommittingOk
    BY CommittingIs DEF FatWrite, FatCommit
  <1>2. /\ fat' = ram /\ data' = data /\ ops' = ops
        /\ fat' \in WordTables /\ Sound(Untorn(fat'))
    <2>1. fat' = ram /\ data' = data /\ ops' = ops
      BY DEF FatWrite
    <2>2. ram \in Tables /\ Sound(ram)
      BY <1>1 DEF CommittingOk, Typed
    <2> QED BY <2>1, <2>2, WholeIs
  <1>3. CASE job.op = "writeNew"
    <2>1. /\ Store(ram, job.name, job.content) /\ acked' = acked /\ maybe' = maybe
      BY <1>3 DEF FatWrite
    <2>2. /\ job.name \in Names /\ Exists(ram, job.name) /\ job.content \in Texts
          /\ job.content \in maybe[job.name]
      BY <1>1, <1>3 DEF CommittingOk, CommitInv
    <2> QED BY <1>1, <1>2, <2>1, <2>2, StoreKeeps DEF CommittingOk, Typed
  <1>4. CASE job.op = "format"
    <2>1. /\ pc' = "idle" /\ job' = NoJob /\ ram' = ram /\ acked' = [n \in Names |-> Absent]
          /\ maybe' = [n \in Names |-> {}] /\ loose' = {}
      BY <1>4 DEF FatWrite, Return
    <2>2. \A n \in Names : View(ram, data)[n] = Absent
      <3>1. ram = EmptyFat
        BY <1>1, <1>4 DEF CommittingOk, CommitInv
      <3>2. \A n \in Names : ~ Exists(ram, n)
        BY <3>1, EmptyTable DEF EmptyFat
      <3> QED BY <1>1, <3>2, ViewIs DEF CommittingOk, Typed
    <2> QED BY <1>1, <1>2, <2>1, <2>2, IdleKeeps DEF CommittingOk, Typed
  <1>5. CASE job.op \notin {"writeNew", "format"}
    <2>1. /\ pc' = "idle" /\ job' = NoJob /\ ram' = ram
          /\ acked' = [acked EXCEPT ![job.name] = job.content]
          /\ maybe' = [maybe EXCEPT ![job.name] = {}]
          /\ loose' = IF job.op = "append" THEN loose ELSE loose \ {job.name}
      BY <1>5 DEF FatWrite, Return
    <2>2. job.name \in Names /\ View(ram, data)[job.name] = job.content
      BY <1>1, <1>5 DEF CommittingOk, CommitInv
    <2>3. acked = [n \in Names |-> acked[n]] /\ maybe = [n \in Names |-> maybe[n]]
      BY <1>1 DEF CommittingOk, Typed
    <2>4. /\ acked' = [n \in Names |-> IF n = job.name THEN job.content ELSE acked[n]]
          /\ maybe' = [n \in Names |-> IF n = job.name THEN {} ELSE maybe[n]]
      BY <2>1, <2>3
    <2>5. /\ acked' = [n \in Names |-> acked'[n]] /\ maybe' = [n \in Names |-> maybe'[n]]
          /\ loose' \subseteq Names
      BY <1>1, <2>1, <2>4 DEF CommittingOk, Typed
    <2>6. ASSUME NEW n \in Names, n \notin loose'
          PROVE  View(ram', data')[n] \in {acked'[n]} \cup maybe'[n]
      <3>1. CASE n = job.name
        BY <1>2, <2>1, <2>2, <2>4, <3>1
      <3>2. CASE n # job.name
        BY <1>1, <1>2, <2>1, <2>4, <2>6, <3>2 DEF CommittingOk
      <3> QED BY <3>1, <3>2
    <2> QED BY <1>1, <1>2, <2>1, <2>5, <2>6, IdleKeeps DEF CommittingOk, Typed
  <1> QED BY <1>3, <1>4, <1>5

-----------------------------------------------------------------------------
(* A HAL call that fails or is cut. *)

\* The first k entries of a sound table are a sound table.
LEMMA PrefixSound ==
    ASSUME NEW f \in Tables, Sound(f), NEW k \in Int
    PROVE  LET g == Table(f.magic, [i \in Slots |-> IF i <= k THEN f.slots[i] ELSE Free])
           IN  g \in Tables /\ Sound(g)
  <1> DEFINE g == Table(f.magic, [i \in Slots |-> IF i <= k THEN f.slots[i] ELSE Free])
  <1>1. Free \in Entries /\ Free.name = NoName
    <2>1. 0 \in BlockNos /\ 0 \in 0 .. N /\ 0 \in 0 .. N * B
      BY ConstAssumption, SMT DEF BlockNos
    <2> QED BY <2>1 DEF Free, Entries
  <1>2. g \in Tables
    BY <1>1 DEF Table, Tables
  <1>3. ASSUME NEW i \in Runs(g) PROVE i \in Runs(f) /\ g.slots[i] = f.slots[i]
    BY <1>1 DEF Runs, Table
  <1> HIDE DEF g
  <1>4. Sound(g)
    BY <1>3 DEF Sound
  <1> QED BY <1>2, <1>4 DEF g

\* A torn entry is one of words, and not one of the store.
LEMMA TornIs ==
    ASSUME NEW e \in WordEntries, NEW t \in TornEntries(e)
    PROVE  t \in WordEntries /\ (e \in Entries => t \notin Entries)
  <1>1. Top \in Words /\ Mod \in Nat \ {0} /\ N * B \in Nat
    BY InWords, ConstAssumption, MulFacts
  <1>2. ASSUME NEW w \in Words, NEW x \in TornWords(w)
        PROVE  x \in Words /\ x > N * B
    <2> DEFINE m == N * B
    <2>1. PICK k \in Bytes : x = (Mod - k) + (w % k)
      BY <1>2 DEF TornWords
    <2>2. k \in Nat \ {0} /\ m + k < Mod /\ m \in Nat
      BY <1>1, WordAssumption
    <2>3. w \in Nat
      BY <1>2 DEF Words
    <2>4. w % k \in 0 .. k - 1
      BY <2>2, <2>3, DivMod
    <2> HIDE DEF m
    <2>5. x \in 0 .. Mod - 1 /\ x > m
      BY <1>1, <2>1, <2>2, <2>4
    <2> QED BY <2>5 DEF Words, Top, m
  <1>3. Garbled \notin Names \cup {NoName}
    BY WordAssumption
  <1>4. e.start \in Words /\ e.blocks \in Words /\ e.size \in Words
    BY DEF WordEntries
  <1>5. Top > N * B
    <2> DEFINE m == N * B
    <2>1. m \in Nat /\ Mod \in Nat /\ m + 1 < Mod
      BY <1>1, WordAssumption
    <2> HIDE DEF m
    <2>2. Mod - 1 > m
      BY <2>1
    <2> QED BY <2>2 DEF Top, m
  <1>6. CASE t = [name |-> Garbled, start |-> Top, blocks |-> Top, size |-> Top]
    BY <1>1, <1>3, <1>6 DEF WordEntries, Entries
  <1>7. ASSUME NEW w \in TornWords(e.start),
               t = [e EXCEPT !.start = w, !.blocks = Top, !.size = Top]
        PROVE  t \in WordEntries /\ t \notin Entries
    <2>1. w \in Words
      BY <1>2, <1>4, <1>7
    <2>2. t \in WordEntries /\ t.size = Top
      BY <1>1, <1>7, <2>1 DEF WordEntries
    <2> QED BY <1>1, <1>5, <2>2 DEF Entries
  <1>8. ASSUME NEW w \in TornWords(e.blocks), t = [e EXCEPT !.blocks = w, !.size = Top]
        PROVE  t \in WordEntries /\ t \notin Entries
    <2>1. w \in Words
      BY <1>2, <1>4, <1>8
    <2>2. t \in WordEntries /\ t.size = Top
      BY <1>1, <1>8, <2>1 DEF WordEntries
    <2> QED BY <1>1, <1>5, <2>2 DEF Entries
  <1>9. ASSUME NEW w \in TornWords(e.size), t = [e EXCEPT !.size = w]
        PROVE  t \in WordEntries /\ t \notin Entries
    <2>1. w \in Words /\ w > N * B
      BY <1>2, <1>4, <1>9
    <2>2. t \in WordEntries /\ t.size = w
      BY <1>9, <2>1 DEF WordEntries
    <2> QED BY <1>1, <2>1, <2>2 DEF Entries
  <1> QED BY <1>6, <1>7, <1>8, <1>9 DEF TornEntries

\* However its programming is cut, the whole entries in the FAT block are a
\* sound table.
LEMMA UpToIs ==
    ASSUME ram \in Tables, Sound(ram), NEW i \in Slots, NEW e \in CutEntries(ram.slots[i])
    PROVE  UpTo(i, e) \in WordTables /\ Sound(Untorn(UpTo(i, e)))
  <1> DEFINE f == UpTo(i, e)
             k == IF e = ram.slots[i] THEN i ELSE i - 1
             g == Table(ram.magic, [j \in Slots |-> IF j <= k THEN ram.slots[j] ELSE Free])
  <1>1. i \in Int /\ k \in Int /\ \A j \in Slots : j \in Int
    BY DEF Slots
  <1>2. Free \in Entries
    BY ConstAssumption, SMT DEF Free, Entries, BlockNos
  <1>3. \A j \in Slots : ram.slots[j] \in Entries
    BY DEF Tables
  <1>4. /\ e \in WordEntries
        /\ e = ram.slots[i] \/ e = Free \/ e \notin Entries
    <2>1. ram.slots[i] \in WordEntries /\ Free \in WordEntries
      BY <1>2, <1>3, EntryWords
    <2> QED BY <1>3, <2>1, TornIs DEF CutEntries
  <1> HIDE DEF k
  <1>5. \A j \in Slots : f.slots[j] = IF j < i THEN ram.slots[j] ELSE IF j = i THEN e ELSE Free
    BY DEF UpTo, Table
  <1>6. f \in WordTables
    <2>1. \A j \in Slots : ram.slots[j] \in WordEntries /\ Free \in WordEntries
      BY <1>2, <1>3, EntryWords
    <2> QED BY <1>4, <2>1 DEF UpTo, Table, WordTables, Tables
  <1>7. Untorn(f) = g
    <2>1. ASSUME NEW j \in Slots
          PROVE  (IF f.slots[j] \in Entries THEN f.slots[j] ELSE Free)
                   = IF j <= k THEN ram.slots[j] ELSE Free
      <3>1. CASE j < i
        <4>1. f.slots[j] = ram.slots[j] /\ ram.slots[j] \in Entries
          BY <1>3, <1>5, <3>1
        <4>2. j <= k
          <5>1. k = i \/ k = i - 1
            BY DEF k
          <5>2. i \in Int /\ j \in Int
            BY <1>1
          <5> QED BY <3>1, <5>1, <5>2
        <4> QED BY <4>1, <4>2
      <3>2. CASE j = i
        <4>1. f.slots[j] = e /\ i \in Int /\ ram.slots[j] = ram.slots[i]
          BY <1>1, <1>5, <3>2
        <4>2. CASE e = ram.slots[i]
          <5>1. j <= k
            BY <3>2, <4>1, <4>2 DEF k
          <5> QED BY <1>3, <4>1, <4>2, <5>1
        <4>3. CASE e # ram.slots[i]
          <5>1. ~ (j <= k)
            BY <3>2, <4>1, <4>3 DEF k
          <5>2. e = Free \/ e \notin Entries
            BY <1>4, <4>3
          <5> QED BY <1>2, <4>1, <5>1, <5>2
        <4> QED BY <4>2, <4>3
      <3>3. CASE j > i
        <4>1. f.slots[j] = Free
          <5>1. i \in Int /\ j \in Int
            BY <1>1
          <5>2. ~ (j < i) /\ j # i
            BY <3>3, <5>1
          <5> QED BY <1>5, <5>2
        <4>2. ~ (j <= k)
          <5>1. k = i \/ k = i - 1
            BY DEF k
          <5>2. i \in Int /\ j \in Int
            BY <1>1
          <5> QED BY <3>3, <5>1, <5>2
        <4> QED BY <1>2, <4>1, <4>2
      <3>4. j < i \/ j = i \/ j > i
        BY <1>1
      <3> QED BY <3>1, <3>2, <3>3, <3>4
    <2>2. f.magic = ram.magic /\ f = [magic |-> f.magic, slots |-> f.slots]
      BY DEF UpTo, Table
    <2> HIDE DEF f
    <2>3. [j \in Slots |-> IF f.slots[j] \in Entries THEN f.slots[j] ELSE Free]
            = [j \in Slots |-> IF j <= k THEN ram.slots[j] ELSE Free]
      BY <2>1
    <2>4. Untorn(f) = [magic |-> f.magic,
                       slots |-> [j \in Slots |-> IF f.slots[j] \in Entries THEN f.slots[j] ELSE Free]]
      BY <2>2 DEF Untorn
    <2> QED BY <2>2, <2>3, <2>4 DEF Table
  <1>8. Sound(g)
    BY <1>1, PrefixSound
  <1> HIDE DEF f, g
  <1> QED BY <1>6, <1>7, <1>8 DEF f

\* The same of every other call that fails or is cut.
LEMMA CutFatIs ==
    ASSUME ReadInv, NEW f \in CutFat
    PROVE  f \in WordTables /\ Sound(Untorn(f))
  <1>1. Typed /\ Placed
    BY DEF ReadInv, ShapeInv
  <1>2. /\ TornFat \in WordTables /\ Sound(Untorn(TornFat))
        /\ BlankFat \in WordTables /\ Sound(Untorn(BlankFat))
    BY EmptyTable DEF TornFat, BlankFat
  <1>3. CASE f \in {fat, TornFat, BlankFat}
    BY <1>1, <1>2, <1>3 DEF Typed, Placed
  <1>4. CASE pc = "fatWrite"
    <2>1. f = BlankFat \/ \E i \in Slots : \E e \in CutEntries(ram.slots[i]) : f = UpTo(i, e)
      BY <1>4 DEF CutFat
    <2> QED BY <1>1, <1>2, <2>1, UpToIs DEF Typed, Placed
  <1>5. CASE pc = "tail"
    <2>1. TailFat = {fat}
      BY <1>5, TailingIs, TailFatIs
    <2> QED BY <1>3, <1>5, <2>1 DEF CutFat
  <1> QED BY <1>3, <1>4, <1>5 DEF CutFat

\* What is left in the data blocks: only the block under way changes, and no
\* file that is not being overwritten in place reads differently.
LEMMA CutDataIs ==
    ASSUME ReadInv, NEW d \in CutData
    PROVE  /\ d \in Disks
           /\ Running => \A m \in Names : m \notin loose => View(ram, d)[m] = View(ram, data)[m]
           /\ pc \in {"blkErase", "blkWrite", "tail"} =>
                \A m \in Names \ {job.name} : View(ram, d)[m] = View(ram, data)[m]
  <1>1. Typed
    BY DEF ReadInv, ShapeInv
  <1>2. CASE d = data
    BY <1>1, <1>2 DEF Typed
  <1>3. ASSUME Filling, d \in Disks, \A x \in BlockNos : x # JobBlock => d[x] = data[x]
        PROVE  \A m \in Names :
                 m \notin loose \/ m # job.name => View(ram, d)[m] = View(ram, data)[m]
    <2>1. FillingOk
      BY <1>3, FillingIs
    <2>2. SUFFICES ASSUME NEW m \in Names, m \notin loose \/ m # job.name
                   PROVE  View(ram, d)[m] = View(ram, data)[m]
      OBVIOUS
    <2>3. m # job.name \/ ~ FitsInPlace(EntryOf(ram, job.name), job.content)
      BY <2>1, <2>2 DEF FillingOk
    <2> QED BY <1>3, <2>1, <2>3, FillReads
  <1>4. CASE pc = "blkErase"
    <2>1. FillingOk /\ Filling
      BY <1>4, FillingIs DEF Filling
    <2>2. d \in {data, Junked(data, JobBlock), Erased(data, JobBlock)}
      BY <1>4 DEF CutData
    <2>3. d \in Disks /\ \A x \in BlockNos : x # JobBlock => d[x] = data[x]
      <3>1. JobBlock \in BlockNos
        BY <2>1 DEF FillingOk
      <3>2. d \in Disks
        BY <1>1, <2>2, <3>1, RowTyped, RowIs DEF Typed, Junked, Erased
      <3>3. ASSUME NEW x \in BlockNos, x # JobBlock PROVE d[x] = data[x]
        BY <1>1, <2>2, <3>1, <3>3 DEF Typed, Junked, Erased, WithBlock, Disks
      <3> QED BY <3>2, <3>3
    <2> QED BY <1>3, <1>4, <2>1, <2>3
  <1>5. CASE pc = "blkWrite"
    <2>1. FillingOk /\ Filling
      BY <1>5, FillingIs DEF Filling
    <2>2. PICK k \in 0 .. Len(Segment(job)) : d = Programmed(data, JobBlock, 0, Segment(job), k)
      BY <1>5 DEF CutData
    <2>3. d \in Disks /\ \A x \in BlockNos : x # JobBlock => d[x] = data[x]
      <3>1. JobBlock \in BlockNos /\ data \in Disks
        BY <2>1 DEF FillingOk, Typed
      <3>2. Segment(job) \in Texts /\ Len(Segment(job)) \in 1 .. B
        BY <2>1, SegmentIs DEF FillingOk, FillOk
      <3>3. k \in Nat /\ k <= Len(Segment(job)) /\ 0 \in Nat
        BY <2>2, <3>2
      <3>4. d \in Disks
        BY <2>2, <3>1, <3>2, <3>3, ProgrammedIs
      <3>5. ASSUME NEW x \in BlockNos, x # JobBlock PROVE d[x] = data[x]
        BY <2>2, <3>1, <3>5 DEF Programmed, WithBlock, Disks
      <3> QED BY <3>4, <3>5
    <2> QED BY <1>3, <1>5, <2>1, <2>3
  <1>6. CASE pc = "tail"
    <2>1. TailingOk
      BY <1>6, TailingIs
    <2>2. PICK k \in 0 .. job.next : d = TailProgrammed(k)
      BY <1>6 DEF CutData
    <2>3. TailResult(ram, job, data, k, d) /\ \A m \in Names : View(ram, d)[m] = View(ram, data)[m]
      BY <2>1, <2>2, TailProgrammedIs
    <2> QED BY <2>3 DEF TailResult
  <1>7. CASE pc = "format" /\ job.next # -1
    <2>1. job.next \in BlockNos
      BY <1>7, ConstAssumption DEF ReadInv, ShapeInv, Phase, BlockNos
    <2>2. d \in {data, Junked(data, job.next), Erased(data, job.next)}
      BY <1>7 DEF CutData
    <2>3. d \in Disks
      BY <1>1, <2>1, <2>2, RowTyped, RowIs DEF Typed, Junked, Erased
    <2> QED BY <1>7, <2>3 DEF Running
  <1>8. CASE pc \notin {"blkErase", "blkWrite", "tail"} /\ ~ (pc = "format" /\ job.next # -1)
    <2>1. d = data
      BY <1>8 DEF CutData
    <2> QED BY <1>2, <2>1
  <1> QED BY <1>4, <1>5, <1>6, <1>7, <1>8

\* A step into a state in which no operation is under way and none can begin
\* before the store is mounted or formatted.
LEMMA DownKeeps ==
    ASSUME Typed, fat' \in WordTables, ram' \in Tables, data' \in Disks, Sound(Untorn(fat')), Sound(ram'),
           pc' \in {"off", "corrupt"}, job' = NoJob, acked' = [n \in Names |-> acked'[n]],
           maybe' = [n \in Names |-> maybe'[n]], loose' \subseteq Names, ops' = ops
    PROVE  ReadInv'
  <1>1. Typed' /\ Placed'
    BY NoJobTyped DEF Typed, Placed
  <1>2. (Phase /\ FillInv /\ TailInv /\ CommitInv)'
    BY DEF Phase, Running, FillInv, Filling, TailInv, CommitInv, FatCommit
  <1>3. Promise'
    BY DEF Promise, Running, Filling, FatCommit
  <1> QED BY <1>1, <1>2, <1>3 DEF ReadInv, ShapeInv

\* A HAL call that fails preserves the invariant.
LEMMA HalFailStep ==
    ASSUME ReadInv, HalFail
    PROVE  ReadInv'
  <1>1. Typed /\ Sound(ram) /\ Sound(Untorn(fat))
    BY DEF ReadInv, ShapeInv, Placed
  <1>2. /\ data' \in CutData /\ fat' \in CutFat /\ acked' = acked /\ maybe' = maybe /\ ops' = ops
        /\ pc \in HalCall
    BY DEF HalFail
  <1>3. /\ fat' \in WordTables /\ Sound(Untorn(fat')) /\ data' \in Disks
        /\ Running => \A m \in Names : m \notin loose => View(ram, data')[m] = View(ram, data)[m]
    BY <1>1, <1>2, CutFatIs, CutDataIs
  <1>4. /\ acked = [n \in Names |-> acked[n]] /\ maybe = [n \in Names |-> maybe[n]]
        /\ loose \subseteq Names
    BY <1>1 DEF Typed
  <1>5. ASSUME Running
        PROVE  /\ ram.magic = "ok"
               /\ \A n \in Names : n \notin loose =>
                    View(ram, data')[n] \in {acked[n]} \cup maybe[n]
    BY <1>3, <1>5 DEF ReadInv, ShapeInv, Phase, Promise, Known, Owed
  <1>6. CASE pc = "tail"
    <2> DEFINE e == EntryOf(ram, job.name)
    <2>1. TailingOk /\ Running
      BY <1>6, TailingIs DEF Running
    <2>2. Store(ram, job.name, View(ram, data')[job.name] \o TailChunk)
      <3>1. EntryOf(ram, job.name).size \in 0 .. N * B
        BY <2>1, FileFits DEF TailingOk, TailOk, Typed, Entries
      <3>2. ~ EntryOf(ram, job.name).size > N * B
        BY <3>1, ConstAssumption, MulFacts
      <3> QED BY <1>6, <3>2 DEF HalFail, Rewrite
    <2>3. /\ job.name \in Names /\ Exists(ram, job.name) /\ job.content \in Texts
          /\ job.next \in Nat \ {0} /\ Len(job.content) = e.size + job.next
          /\ \A i \in 1 .. e.size : job.content[i] = CellAt(data, e, i - 1)
      BY <2>1 DEF TailingOk, TailOk
    <2>4. PICK k \in 0 .. job.next : data' = TailProgrammed(k)
      BY <1>2, <1>6 DEF CutData
    <2>5. View(ram, data')[job.name] = View(ram, data)[job.name]
      BY <2>1, <2>3, <2>4, TailProgrammedIs
    <2>6. /\ View(ram, data)[job.name] = [i \in 1 .. e.size |-> CellAt(data, e, i - 1)]
          /\ View(ram, data)[job.name] \in Texts /\ Len(View(ram, data)[job.name]) = e.size
      BY <1>1, <2>1, <2>3, ViewIs DEF TailingOk, Typed
    <2>7. /\ TailChunk \in Texts /\ Len(TailChunk) = job.next
          /\ \A i \in 1 .. job.next : TailChunk[i] = job.content[Len(job.content) - job.next + i]
      <3>1. e.size \in Nat
        BY <2>1, <2>3, FileFits DEF TailingOk, Typed
      <3>2. job.next \in 0 .. Len(job.content)
        BY <2>3, <3>1
      <3> QED BY <2>3, <3>2, ChunkIs DEF TailChunk
    <2>8. View(ram, data')[job.name] \o TailChunk = job.content
      <3> DEFINE v == View(ram, data)[job.name]
                 s == TailChunk
                 c == job.content
      <3>1. /\ v \in Seq(CellValues) /\ s \in Seq(CellValues) /\ c \in Seq(CellValues)
            /\ Len(c) = Len(v) + Len(s)
        BY <2>3, <2>6, <2>7 DEF Texts
      <3>2. \A i \in 1 .. Len(v) : v[i] = c[i]
        BY <2>3, <2>6
      <3>3. \A i \in 1 .. Len(s) : s[i] = c[Len(v) + i]
        <4>1. Len(v) \in Nat /\ Len(s) \in Nat
          BY <3>1
        <4>2. job.next = Len(s) /\ Len(c) = Len(v) + Len(s)
          BY <2>7, <3>1
        <4> HIDE DEF v, s, c
        <4>3. \A i \in 1 .. Len(s) : Len(c) - Len(s) + i = Len(v) + i
          BY <4>1, <4>2
        <4> QED BY <2>7, <4>2, <4>3 DEF s, c
      <3> HIDE DEF v, s, c
      <3>4. v \o s \in Seq(CellValues) /\ Len(v \o s) = Len(c)
        BY <3>1
      <3>5. ASSUME NEW i \in 1 .. Len(c) PROVE (v \o s)[i] = c[i]
        <4>1. Len(v) \in Nat /\ Len(s) \in Nat
          BY <3>1
        <4>2. CASE i <= Len(v)
          BY <3>1, <3>2, <4>1, <4>2
        <4>3. CASE i > Len(v)
          <5>1. i - Len(v) \in 1 .. Len(s) /\ Len(v) + (i - Len(v)) = i
            BY <3>1, <4>1, <4>3
          <5>2. (v \o s)[i] = s[i - Len(v)]
            BY <3>1, <4>1, <4>3
          <5> QED BY <3>3, <5>1, <5>2
        <4> QED BY <3>1, <4>1, <4>2, <4>3
      <3>6. v \o s = c
        <4>1. \A i \in 1 .. Len(v \o s) : (v \o s)[i] = c[i]
          BY <3>4, <3>5
        <4> QED BY <3>1, <3>4, <4>1, SeqEqual
      <3> QED BY <2>5, <3>6 DEF v, s, c
    <2>9. job.content \in maybe[job.name]
      BY <2>1 DEF TailingOk
    <2> QED BY <1>1, <1>2, <1>3, <1>4, <1>5, <2>1, <2>2, <2>3, <2>8, <2>9, StoreKeeps DEF Typed
  <1>7. CASE pc # "tail"
    <2>1. /\ pc' = IF job.op = "format" THEN "corrupt" ELSE "idle"
          /\ job' = NoJob /\ ram' = ram /\ loose' = loose
      BY <1>7 DEF HalFail
    <2>2. CASE job.op = "format"
      BY <1>1, <1>2, <1>3, <1>4, <2>1, <2>2, DownKeeps DEF Typed
    <2>3. CASE job.op # "format"
      <3>1. Running
        BY <1>2, <2>3 DEF ReadInv, ShapeInv, Phase, Running, HalCall
      <3>2. ram.magic = "ok"
        BY <1>5, <3>1
      <3> QED BY <1>1, <1>2, <1>3, <1>4, <1>5, <2>1, <2>3, <3>1, <3>2, IdleKeeps DEF Typed
    <2> QED BY <2>2, <2>3
  <1> QED BY <1>6, <1>7

\* A loss of power preserves the invariant.
LEMMA PowerLossStep ==
    ASSUME ReadInv, PowerLoss
    PROVE  ReadInv'
  <1>1. Typed /\ Sound(ram) /\ Sound(Untorn(fat))
    BY DEF ReadInv, ShapeInv, Placed
  <1>2. /\ data' \in CutData /\ fat' \in CutFat /\ ram' = ZeroFat /\ pc' = "off" /\ job' = NoJob
        /\ acked' = acked /\ maybe' = maybe /\ loose' = loose /\ ops' = ops
    BY DEF PowerLoss
  <1>3. fat' \in WordTables /\ Sound(Untorn(fat')) /\ data' \in Disks
    BY <1>1, <1>2, CutFatIs, CutDataIs
  <1>4. ZeroFat \in Tables /\ Sound(ZeroFat)
    BY EmptyTable DEF ZeroFat
  <1> QED BY <1>1, <1>2, <1>3, <1>4, DownKeeps DEF Typed

\* fs_init preserves the invariant.
LEMMA MountStep ==
    ASSUME ReadInv, Mount, ~ astray'
    PROVE  ReadInv'
  <1>1. Typed /\ Sound(Untorn(fat)) /\ job = NoJob
    BY DEF ReadInv, ShapeInv, Placed, Phase, Mount
  <1>2. /\ acked' = View(fat, data) /\ maybe' = [n \in Names |-> {}] /\ loose' = {}
        /\ fat' = fat /\ data' = data /\ job' = job /\ ops' = ops
    BY DEF Mount
  <1>3. acked' = [n \in Names |-> acked'[n]]
    BY <1>2 DEF View
  <1>4. CASE fat.magic = "ok"
    <2>1. ram' = fat /\ pc' = "idle" /\ ram' \in Tables /\ Sound(ram')
      BY <1>1, <1>4, LoadIs DEF Mount
    <2> QED BY <1>1, <1>2, <1>3, <1>4, <2>1, IdleKeeps DEF Typed
  <1>5. CASE fat.magic # "ok"
    <2>1. ram' = ZeroFat /\ pc' = "corrupt"
      BY <1>5 DEF Mount, Load
    <2>2. ZeroFat \in Tables /\ Sound(ZeroFat)
      BY EmptyTable DEF ZeroFat
    <2> QED BY <1>1, <1>2, <1>3, <2>1, <2>2, DownKeeps DEF Typed
  <1> QED BY <1>4, <1>5

-----------------------------------------------------------------------------
(* The invariant is inductive where appends reach the fast path only when  *)
(* it is safe (FsStore_append.cfg shows what happens where they do not).   *)

\* The invariant holds at first.
LEMMA ReadInit == Init => ReadInv
  <1> SUFFICES ASSUME Init PROVE ReadInv
    OBVIOUS
  <1>1. EmptyFat \in Tables /\ Sound(EmptyFat) /\ ZeroFat \in Tables /\ Sound(ZeroFat)
    BY EmptyTable DEF EmptyFat, ZeroFat
  <1>2. data \in Disks
    BY RowTyped DEF Init, Disks
  <1>3. Typed /\ Placed
    <2>1. EmptyFat \in WordTables /\ Untorn(EmptyFat) = EmptyFat
      BY EmptyTable DEF EmptyFat
    <2> QED BY <1>1, <1>2, <2>1, NoJobTyped, ConstAssumption DEF Init, Typed, Placed
  <1>4. Phase /\ FillInv /\ TailInv /\ CommitInv
    BY DEF Init, Phase, Running, FillInv, Filling, TailInv, CommitInv, FatCommit
  <1>5. Promise
    BY DEF Init, Promise, Running, Filling, FatCommit
  <1> QED BY <1>3, <1>4, <1>5 DEF ReadInv, ShapeInv

\* Every step preserves the invariant.
LEMMA ReadStep ==
    ASSUME SafeAppends, ReadInv, [Next]_vars, ~ astray'
    PROVE  ReadInv'
  <1>1. CASE Mount
    BY <1>1, MountStep
  <1>2. CASE SomeCreate
    BY <1>2, CreateStep DEF SomeCreate
  <1>3. CASE SomeDelete
    BY <1>3, DeleteStep DEF SomeDelete
  <1>4. CASE SomeWrite
    BY <1>4, WriteStep DEF SomeWrite
  <1>5. CASE SomeAppend
    BY <1>5, AppendStep DEF SomeAppend
  <1>6. CASE Format
    BY <1>6, FormatStep
  <1>7. CASE FormatErase
    BY <1>7, FormatEraseStep
  <1>8. CASE BlockErase
    BY <1>8, BlockEraseStep
  <1>9. CASE BlockWrite
    BY <1>9, BlockWriteStep
  <1>10. CASE TailProgram
    BY <1>10, TailProgramStep
  <1>11. CASE FatErase
    BY <1>11, FatEraseStep
  <1>12. CASE FatWrite
    BY <1>12, FatWriteStep
  <1>13. CASE HalFail
    BY <1>13, HalFailStep
  <1>14. CASE PowerLoss
    BY <1>14, PowerLossStep
  <1>15. CASE UNCHANGED vars
    <2>1. /\ fat' = fat /\ data' = data /\ ram' = ram /\ pc' = pc /\ job' = job
          /\ acked' = acked /\ maybe' = maybe /\ loose' = loose /\ ops' = ops
      BY <1>15 DEF vars
    <2>2. Typed' /\ Placed' /\ Phase' /\ CommitInv'
      BY <2>1 DEF ReadInv, ShapeInv, Typed, Placed, Phase, Running, CommitInv, FatCommit
    <2>3. FillInv' /\ TailInv'
      BY <2>1 DEF ReadInv, ShapeInv, FillInv, Filling, TailInv, JobBlock
    <2>4. Promise'
      BY <2>1 DEF ReadInv, Promise, Running, Filling, FatCommit, Known, Owed
    <2> QED BY <2>2, <2>3, <2>4 DEF ReadInv, ShapeInv
  <1> QED BY <1>1, <1>2, <1>3, <1>4, <1>5, <1>6, <1>7, <1>8, <1>9, <1>10, <1>11, <1>12,
             <1>13, <1>14, <1>15 DEF Next

-----------------------------------------------------------------------------
(* Whatever was mounted: words stay words, also where a torn entry has     *)
(* been taken for a file.                                                  *)

WordJobs == [op : JobOps, name : Names \cup {NoName}, content : Texts \cup {Absent},
             start : Words, next : Int]
WordTyped ==
    /\ fat \in WordTables /\ ram \in WordTables /\ data \in Disks
    /\ pc \in {"off", "corrupt", "idle"} \cup HalCall /\ job \in WordJobs
    /\ acked = [n \in Names |-> acked[n]] /\ maybe = [n \in Names |-> maybe[n]]
    /\ loose \subseteq Names /\ astray \in BOOLEAN /\ ops \in 0 .. MaxOps
\* The job is one for a file of table f.
OnFile(f, j) == j.name \in Names /\ Exists(f, j.name) /\ j.content \in Texts
WordPhase ==
    /\ pc \in {"off", "idle"} => job = NoJob
    /\ Running => ram.magic = "ok"
    /\ pc = "format" => job.op = "format"
    /\ FatCommit /\ job.op = "format" => ram = EmptyFat
    /\ Filling => job.op = "write" /\ OnFile(ram, job) /\ job.next \in Nat
    /\ pc = "tail" => job.op = "append" /\ OnFile(ram, job) /\ job.next \in 1 .. Len(job.content)
    /\ FatCommit /\ job.op = "writeNew" => OnFile(ram, job)
WordInv == WordTyped /\ WordPhase

\* A sum that wraps is a word.
LEMMA Wrapped == ASSUME NEW x \in Nat PROVE x % Mod \in Words
  <1>1. x % Mod \in 0 .. Mod - 1
    BY InWords, DivMod
  <1> QED BY <1>1 DEF Words, Top

\* entry_find finds an entry of words.
LEMMA WordFound ==
    ASSUME NEW f \in WordTables, NEW n, Exists(f, n)
    PROVE  /\ Min(SlotOf(f, n)) \in Slots
           /\ EntryOf(f, n) = f.slots[Min(SlotOf(f, n))]
           /\ EntryOf(f, n) \in WordEntries /\ EntryOf(f, n).name = n
           /\ EntryOf(f, n).start \in Nat /\ EntryOf(f, n).blocks \in Nat
           /\ EntryOf(f, n).size \in Nat
  <1>1. SlotOf(f, n) \in SUBSET Nat /\ SlotOf(f, n) # {}
    BY ConstAssumption DEF SlotOf, Exists, Slots
  <1>2. Min(SlotOf(f, n)) \in SlotOf(f, n)
    BY <1>1, LeastNat
  <1>3. Min(SlotOf(f, n)) \in Slots /\ f.slots[Min(SlotOf(f, n))].name = n
    BY <1>2 DEF SlotOf
  <1>4. EntryOf(f, n) = f.slots[Min(SlotOf(f, n))] /\ EntryOf(f, n) \in WordEntries
    BY <1>3 DEF EntryOf, WordTables
  <1>5. \A e \in WordEntries : e.start \in Nat /\ e.blocks \in Nat /\ e.size \in Nat
    BY DEF WordEntries, Words
  <1> QED BY <1>3, <1>4, <1>5

\* Replacing an entry leaves a table of words, with the file of its name.
LEMMA WordReplaced ==
    ASSUME NEW f \in WordTables, NEW i \in Slots, NEW e \in WordEntries, NEW g,
           g = [f EXCEPT !.slots[i] = e]
    PROVE  g \in WordTables /\ g.magic = f.magic /\ Exists(g, e.name)
  <1>1. g \in WordTables /\ g.magic = f.magic /\ g.slots[i] = e
    BY DEF WordTables
  <1>2. i \in SlotOf(g, e.name)
    BY <1>1 DEF SlotOf
  <1> QED BY <1>1, <1>2 DEF Exists

\* So it is where entry_find says.
LEMMA WordSet ==
    ASSUME NEW f \in WordTables, NEW n, Exists(f, n), NEW e \in WordEntries
    PROVE  LET g == SetEntry(f, n, e)
           IN  g \in WordTables /\ g.magic = f.magic /\ Exists(g, e.name)
  <1>1. Min(SlotOf(f, n)) \in Slots
    BY WordFound
  <1> QED BY <1>1, WordReplaced DEF SetEntry

\* A free entry is one of words, and a new file has one.
LEMMA WordNew ==
    ASSUME NEW f \in WordTables, NEW n \in Names, FreeSlots(f) # {}
    PROVE  /\ Free \in WordEntries
           /\ LET g == WithNew(f, n) IN g \in WordTables /\ g.magic = f.magic /\ Exists(g, n)
  <1> DEFINE e == [Free EXCEPT !.name = n]
  <1>1. FreeSlots(f) \in SUBSET Nat
    BY ConstAssumption DEF FreeSlots, Slots
  <1>2. Min(FreeSlots(f)) \in Slots
    <2>1. Min(FreeSlots(f)) \in FreeSlots(f)
      BY <1>1, LeastNat
    <2> QED BY <2>1 DEF FreeSlots
  <1>3. e \in WordEntries /\ e.name = n /\ Free \in WordEntries
    <2>1. 0 \in Words
      BY InWords, ConstAssumption DEF BlockNos
    <2> QED BY <2>1 DEF Free, WordEntries
  <1>4. WithNew(f, n) = [f EXCEPT !.slots[Min(FreeSlots(f))] = e]
    BY DEF WithNew
  <1> HIDE DEF e
  <1> QED BY <1>2, <1>3, <1>4, WordReplaced

\* What a file reads as is a text.
LEMMA WordView ==
    ASSUME NEW f \in WordTables, f.magic = "ok", NEW d \in Disks, NEW n \in Names, Exists(f, n)
    PROVE  View(f, d)[n] \in Texts
  <1> DEFINE e == EntryOf(f, n)
             w == [i \in 1 .. e.size |-> CellAt(d, e, i - 1)]
  <1>1. e.size \in Nat
    BY WordFound
  <1>2. View(f, d)[n] = w
    BY DEF View
  <1> HIDE DEF e
  <1>3. \A i \in 1 .. e.size : CellAt(d, e, i - 1) \in CellValues
    BY <1>1, CellTyped
  <1> QED BY <1>1, <1>2, <1>3 DEF Texts

\* A piece of a text is a text.
LEMMA Piece ==
    ASSUME NEW t \in Texts, NEW a \in Nat \ {0}, NEW z \in Int, z <= Len(t)
    PROVE  SubSeq(t, a, z) \in Texts /\ Len(SubSeq(t, a, z)) \in Nat
  <1>1. SubSeq(t, a, z) \in Texts
    BY DEF Texts
  <1> QED BY <1>1 DEF Texts

\* So is the part of the content for one block.
LEMMA WordSegment ==
    ASSUME NEW j, j.content \in Texts, j.next \in Nat
    PROVE  Segment(j) \in Texts /\ Len(Segment(j)) \in Nat
  <1> DEFINE a == j.next * B + 1
             y == (j.next + 1) * B
             m == Len(j.content)
  <1>1. a \in Nat \ {0} /\ y \in Nat /\ m \in Nat
    <2>1. j.next * B \in Nat /\ (j.next + 1) * B \in Nat
      BY ConstAssumption, MulFacts
    <2>2. m \in Nat
      BY DEF Texts
    <2> QED BY <2>1, <2>2
  <1>2. Segment(j) = SubSeq(j.content, a, Min({y, m}))
    BY DEF Segment
  <1> HIDE DEF a, y, m
  <1>3. Min({y, m}) \in {y, m} /\ Min({y, m}) <= m
    BY <1>1, LeastNat
  <1>4. Min({y, m}) \in Int /\ Min({y, m}) <= Len(j.content)
    BY <1>1, <1>3 DEF m
  <1> QED BY <1>1, <1>2, <1>4, Piece

\* What the invariant needs of a job that is over, of one that begins with a
\* file to fill, and of a table to commit.
LEMMA WordKeeps ==
    ASSUME fat' \in WordTables, ram' \in WordTables, data' \in Disks, job' \in WordJobs,
           acked' = [n \in Names |-> acked'[n]], maybe' = [n \in Names |-> maybe'[n]],
           loose' \subseteq Names, astray' \in BOOLEAN, ops' \in 0 .. MaxOps,
           \/ pc' = "off" /\ job' = NoJob
           \/ pc' = "corrupt"
           \/ pc' = "format" /\ job'.op = "format"
           \/ /\ ram'.magic = "ok"
              /\ \/ pc' = "idle" /\ job' = NoJob
                 \/ /\ pc' \in {"blkErase", "blkWrite"} /\ job'.op = "write"
                    /\ OnFile(ram', job') /\ job'.next \in Nat
                 \/ /\ pc' = "tail" /\ job'.op = "append"
                    /\ OnFile(ram', job') /\ job'.next \in 1 .. Len(job'.content)
                 \/ /\ pc' \in {"fatErase", "fatWrite"}
                    /\ job'.op = "format" => ram' = EmptyFat
                    /\ job'.op = "writeNew" => OnFile(ram', job')
    PROVE  WordInv'
  <1>1. WordTyped'
    BY DEF WordTyped, HalCall
  <1>2. WordPhase'
    BY DEF WordPhase, Running, FatCommit, Filling
  <1> QED BY <1>1, <1>2 DEF WordInv

\* A job that has just begun is one of words.
LEMMA WordJob ==
    ASSUME NEW j \in Jobs, NEW w \in Words
    PROVE  /\ j \in WordJobs
           /\ LET k == [j EXCEPT !.start = w]
              IN  k \in WordJobs /\ k.op = j.op /\ k.name = j.name /\ k.content = j.content
                  /\ k.next = j.next
  BY InWords DEF Jobs, WordJobs

\* fs_write once the file exists.
LEMMA WordStore ==
    ASSUME NEW f \in WordTables, f.magic = "ok", NEW n \in Names, Exists(f, n),
           NEW c \in Texts, Store(f, n, c), fat' \in WordTables, data' \in Disks,
           acked' = [m \in Names |-> acked'[m]], maybe' = [m \in Names |-> maybe'[m]],
           loose \subseteq Names, astray' \in BOOLEAN, ops' \in 0 .. MaxOps
    PROVE  WordInv'
  <1> DEFINE e == EntryOf(f, n)
             start == IF FitsInPlace(e, c) THEN e.start ELSE FirstFree(f, Ceil(Len(c)))
             j == Job("write", n, c)
  <1>1. j \in Jobs /\ j.op = "write" /\ j.name = n /\ j.content = c /\ j.next = 0
    BY JobIs DEF JobOps
  <1>2. e \in WordEntries /\ e.name = n
    BY WordFound
  <1>3. 0 \in Words
    BY InWords, ConstAssumption DEF BlockNos
  <1>4. CASE /\ c = <<>>
             /\ ram' = SetEntry(f, n, [e EXCEPT !.size = 0])
             /\ pc' = "fatErase" /\ job' = j
             /\ UNCHANGED loose
    <2>1. [e EXCEPT !.size = 0] \in WordEntries
      BY <1>2, <1>3 DEF WordEntries
    <2>2. ram' \in WordTables /\ ram'.magic = "ok"
      BY <1>4, <2>1, WordSet
    <2>3. job' \in WordJobs
      BY <1>1, <1>3, <1>4, WordJob
    <2> QED BY <1>1, <1>4, <2>2, <2>3, WordKeeps
  <1>5. CASE /\ c # <<>> /\ start # -1
             /\ ram' = f /\ pc' = "blkErase"
             /\ job' = [j EXCEPT !.start = start]
             /\ loose' = IF FitsInPlace(e, c) THEN loose \cup {n} ELSE loose
    <2>1. start \in Words
      <3>1. CASE FitsInPlace(e, c)
        BY <1>2, <3>1 DEF WordEntries
      <3>2. CASE ~ FitsInPlace(e, c)
        <4>1. start = FirstFree(f, Ceil(Len(c)))
          BY <3>2
        <4>2. Ceil(Len(c)) \in Nat
          BY CeilIs DEF Texts
        <4> HIDE DEF start, e
        <4> QED BY <1>5, <4>1, <4>2, FirstFreeIs, InWords
      <3> QED BY <3>1, <3>2
    <2> HIDE DEF start, j
    <2>2. /\ job' \in WordJobs /\ job'.op = "write" /\ job'.name = n /\ job'.content = c
          /\ job'.next = 0
      BY <1>1, <1>5, <2>1, WordJob
    <2>3. OnFile(ram', job')
      BY <1>5, <2>2 DEF OnFile
    <2>4. loose' \subseteq Names /\ ram' \in WordTables /\ ram'.magic = "ok" /\ pc' = "blkErase"
      BY <1>5
    <2> QED BY <2>2, <2>3, <2>4, WordKeeps
  <1>6. CASE ram' = f /\ pc' = "idle" /\ job' = NoJob /\ UNCHANGED loose
    <2>1. NoJob \in WordJobs
      BY <1>3, NoJobTyped, WordJob
    <2> QED BY <1>6, <2>1, WordKeeps
  <1> QED BY <1>4, <1>5, <1>6 DEF Store

\* A table as far as a cut write of it got.
LEMMA WordUpTo ==
    ASSUME ram \in WordTables, NEW i \in Slots, NEW e \in CutEntries(ram.slots[i])
    PROVE  UpTo(i, e) \in WordTables
  <1>1. Free \in WordEntries
    BY InWords, ConstAssumption DEF Free, WordEntries, BlockNos
  <1>2. \A j \in Slots : ram.slots[j] \in WordEntries
    BY DEF WordTables
  <1>3. e \in WordEntries
    BY <1>1, <1>2, TornIs DEF CutEntries
  <1> QED BY <1>1, <1>2, <1>3 DEF UpTo, Table, WordTables

\* What a HAL call leaves in the FAT block when it fails or is cut.
LEMMA WordCutFat ==
    ASSUME WordInv
    PROVE  TailFat \subseteq WordTables /\ CutFat \subseteq WordTables
  <1>1. fat \in WordTables /\ ram \in WordTables
    BY DEF WordInv, WordTyped
  <1>2. TornFat \in WordTables /\ BlankFat \in WordTables
    BY EmptyTable DEF TornFat, BlankFat
  <1>3. \A i \in Runs(fat) : [fat EXCEPT !.slots[i].name = Garbled] \in WordTables
    <2> SUFFICES ASSUME NEW i \in Runs(fat)
                 PROVE  [fat EXCEPT !.slots[i].name = Garbled] \in WordTables
      OBVIOUS
    <2> DEFINE e == [fat.slots[i] EXCEPT !.name = Garbled]
    <2>1. i \in Slots /\ fat.slots[i] \in WordEntries
      BY <1>1 DEF Runs, WordTables
    <2>2. e \in WordEntries
      BY <2>1 DEF WordEntries
    <2>3. [fat EXCEPT !.slots[i].name = Garbled] = [fat EXCEPT !.slots[i] = e]
      OBVIOUS
    <2> HIDE DEF e
    <2> QED BY <1>1, <2>1, <2>2, <2>3, WordReplaced
  <1>4. TailFat \subseteq WordTables
    BY <1>1, <1>2, <1>3 DEF TailFat
  <1>5. CASE pc = "fatWrite"
    <2>1. CutFat = {BlankFat} \cup UNION {{UpTo(i, e) : e \in CutEntries(ram.slots[i])} : i \in Slots}
      BY <1>5 DEF CutFat
    <2> QED BY <1>1, <1>2, <1>4, <2>1, WordUpTo
  <1>6. CASE pc # "fatWrite"
    <2>1. CutFat \subseteq {fat, TornFat, BlankFat} \cup TailFat
      BY <1>6 DEF CutFat
    <2> QED BY <1>1, <1>2, <1>4, <2>1
  <1> QED BY <1>5, <1>6

\* A row in a data block, or nowhere.
LEMMA WordRow ==
    ASSUME NEW d \in Disks, NEW b
    PROVE  Erased(d, b) \in Disks /\ Junked(d, b) \in Disks
  BY RowTyped DEF Disks, WithBlock, Erased, Junked

\* A block of the content programmed, or the part of it before a cut.
LEMMA WordFilled ==
    ASSUME WordInv, Filling, NEW b, NEW k \in 0 .. Len(Segment(job))
    PROVE  Programmed(data, b, 0, Segment(job), k) \in Disks
  <1>1. Segment(job) \in Texts /\ Len(Segment(job)) \in Nat /\ data \in Disks
    BY WordSegment DEF WordInv, WordTyped, WordPhase, OnFile
  <1>2. 0 \in Nat /\ k \in Nat /\ k <= Len(Segment(job))
    BY <1>1
  <1> QED BY <1>1, <1>2, ProgrammedIs

\* The chunk of an append is a text.
LEMMA WordChunk ==
    ASSUME WordInv, pc = "tail"
    PROVE  TailChunk \in Texts /\ Len(TailChunk) = job.next /\ job.next \in Nat
  <1>1. job.content \in Texts /\ job.next \in 1 .. Len(job.content) /\ Len(job.content) \in Nat
    BY DEF WordInv, WordPhase, OnFile, Texts
  <1>2. job.next \in 0 .. Len(job.content)
    BY <1>1
  <1> QED BY <1>1, <1>2, ChunkIs DEF TailChunk

\* So is what a tail program leaves.
LEMMA WordTail ==
    ASSUME WordInv, pc = "tail", NEW k \in 0 .. job.next
    PROVE  TailProgrammed(k) \in Disks
  <1> DEFINE e == EntryOf(ram, job.name)
  <1>1. TailChunk \in Texts /\ Len(TailChunk) = job.next /\ job.next \in Nat /\ data \in Disks
    BY WordChunk DEF WordInv, WordTyped
  <1>2. e.size \in Nat
    BY WordFound DEF WordInv, WordTyped, WordPhase, OnFile
  <1>3. InBlock(e) \in Nat /\ k \in Nat /\ k <= Len(TailChunk)
    <2>1. e.size % B \in 0 .. B - 1 /\ B \in Nat
      BY <1>2, ConstAssumption, DivMod
    <2> HIDE DEF e
    <2>2. InBlock(e) \in Nat
      BY <2>1 DEF InBlock
    <2> QED BY <1>1, <2>2
  <1> HIDE DEF e
  <1>4. \A b : Programmed(data, b, InBlock(e), TailChunk, k) \in Disks
    BY <1>1, <1>3, ProgrammedIs
  <1> QED BY <1>4 DEF TailProgrammed, e

\* What a HAL call leaves in the data blocks.
LEMMA WordCutData == ASSUME WordInv PROVE CutData \subseteq Disks
  <1>1. data \in Disks
    BY DEF WordInv, WordTyped
  <1>2. CASE pc = "blkWrite"
    BY <1>2, WordFilled DEF CutData, Filling
  <1>3. CASE pc = "tail"
    BY <1>3, WordTail DEF CutData
  <1>4. CASE pc \notin {"blkWrite", "tail"}
    BY <1>1, <1>4, WordRow DEF CutData
  <1> QED BY <1>2, <1>3, <1>4

\* The entry of a rewritten file.
LEMMA WordNewEntry ==
    ASSUME WordInv, Filling
    PROVE  NewEntry \in WordEntries
  <1> DEFINE e == EntryOf(ram, job.name)
             len == Len(job.content) % Mod
  <1>1. e \in WordEntries /\ job.start \in Words
    BY WordFound DEF WordInv, WordTyped, WordPhase, OnFile, WordJobs
  <1>2. len \in Words
    <2>1. Len(job.content) \in Nat
      BY DEF WordInv, WordPhase, OnFile, Texts
    <2> QED BY <2>1, Wrapped
  <1> HIDE DEF len
  <1>3. Ceil(len) \in Words
    <2>1. len \in Nat /\ len <= Top /\ Top \in Nat
      BY <1>2, InWords DEF Words, Top
    <2>2. len <= len * B
      <3>1. len * 1 <= len * B
        BY <2>1, ConstAssumption, MulMono
      <3> QED BY <2>1, <3>1
    <2>3. Ceil(len) \in Nat /\ Ceil(len) <= len
      BY <2>1, <2>2, CeilIs, CeilLeast
    <2> QED BY <2>1, <2>3 DEF Words
  <1>4. NewEntry = [e EXCEPT !.start = job.start, !.size = len,
                             !.blocks = IF FitsInPlace(e, job.content) THEN @ ELSE Ceil(len)]
    BY DEF NewEntry, len
  <1> HIDE DEF e
  <1> QED BY <1>1, <1>2, <1>3, <1>4 DEF WordEntries

\* It keeps the file's name.
LEMMA NewEntryName ==
    ASSUME WordInv, Filling
    PROVE  NewEntry.name = job.name
  <1>1. EntryOf(ram, job.name) \in WordEntries /\ EntryOf(ram, job.name).name = job.name
    BY WordFound DEF WordInv, WordTyped, WordPhase, OnFile
  <1> QED BY <1>1 DEF NewEntry, WordEntries

\* A request keeps the shape of maybe.
LEMMA AskedShape ==
    ASSUME NEW n \in Names, NEW c, Asked(n, c), maybe = [m \in Names |-> maybe[m]]
    PROVE  maybe' = [m \in Names |-> maybe'[m]]
  BY DEF Asked

\* The words of a table that is loaded.
LEMMA WordLoad == ASSUME WordInv, Load PROVE ram' \in WordTables /\ astray' \in BOOLEAN
  <1>1. ZeroFat \in WordTables
    BY EmptyTable DEF ZeroFat
  <1> QED BY <1>1 DEF Load, WordInv, WordTyped

\* fs_init and fs_format keep words words.
LEMMA WordMount == ASSUME WordInv, Mount PROVE WordInv'
  <1>1. WordTyped /\ ram' \in WordTables /\ astray' \in BOOLEAN /\ job = NoJob
    BY WordLoad DEF WordInv, WordPhase, Mount
  <1>2. acked' = [n \in Names |-> acked'[n]] /\ maybe' = [n \in Names |-> maybe'[n]] /\ loose' = {}
    BY DEF Mount, View
  <1>3. pc' = "corrupt" \/ (pc' = "idle" /\ ram'.magic = "ok")
    BY DEF Mount, Load
  <1>4. fat' = fat /\ data' = data /\ job' = job /\ ops' = ops
    BY DEF Mount
  <1> QED BY <1>1, <1>2, <1>3, <1>4, WordKeeps DEF WordTyped
LEMMA WordFormat == ASSUME WordInv, Format PROVE WordInv'
  <1>1. WordTyped /\ ram' \in WordTables /\ astray' \in BOOLEAN
    BY WordLoad DEF WordInv, Format
  <1>2. /\ pc' = "format" /\ job' = [NoJob EXCEPT !.op = "format", !.next = -1] /\ loose' = Names
        /\ maybe' = [n \in Names |-> maybe[n] \cup {Absent}]
        /\ fat' = fat /\ data' = data /\ acked' = acked
    BY DEF Format
  <1>3. job' \in WordJobs /\ job'.op = "format"
    <2>1. NoJob \in Jobs /\ "format" \in JobOps /\ -1 \in Int
      BY NoJobTyped DEF JobOps
    <2>2. job' \in Jobs /\ job'.op = "format"
      BY <1>2, <2>1 DEF Jobs
    <2>3. 0 \in Words
      BY InWords, ConstAssumption DEF BlockNos
    <2> QED BY <2>2, <2>3, WordJob
  <1>4. ops' \in 0 .. MaxOps
    BY <1>1, ConstAssumption DEF WordTyped, Format
  <1>5. maybe' = [n \in Names |-> maybe'[n]]
    BY <1>2
  <1> QED BY <1>1, <1>2, <1>3, <1>4, <1>5, WordKeeps DEF WordTyped

\* The beginning of fs_create, fs_delete, fs_write and fs_append does.
LEMMA WordBegin ==
    ASSUME WordInv, SafeAppends, SomeCreate \/ SomeDelete \/ SomeWrite \/ SomeAppend
    PROVE  WordInv'
  <1>1. WordTyped /\ pc = "idle" /\ ram.magic = "ok" /\ astray' = astray /\ ops' = ops + 1 /\ ops < MaxOps
        /\ fat' = fat /\ data' = data /\ acked' = acked
    BY DEF WordInv, WordPhase, Running, SomeCreate, SomeDelete, SomeWrite, SomeAppend,
           Create, Delete, Write, FsAppend, Begin
  <1>2. ops' \in 0 .. MaxOps
    BY <1>1, ConstAssumption DEF WordTyped
  <1>3. 0 \in Words
    BY InWords, ConstAssumption DEF BlockNos
  <1>4. ASSUME NEW n \in Names, Create(n) PROVE WordInv'
    <2>1. /\ ram' = WithNew(ram, n) /\ pc' = "fatErase" /\ job' = Job("create", n, <<>>)
          /\ loose' = loose /\ FreeSlots(ram) # {} /\ Asked(n, <<>>)
      BY <1>4 DEF Create, CanCreate
    <2>2. ram' \in WordTables /\ ram'.magic = "ok"
      BY <1>1, <2>1, WordNew DEF WordTyped
    <2>3. job' \in WordJobs /\ job'.op = "create"
      <3>1. "create" \in JobOps /\ <<>> \in Texts
        BY DEF JobOps, Texts
      <3>2. job' \in Jobs /\ job'.op = "create"
        BY <2>1, <3>1, JobIs
      <3> QED BY <1>3, <3>2, WordJob
    <2>4. maybe' = [m \in Names |-> maybe'[m]]
      BY <1>1, <2>1, AskedShape DEF WordTyped
    <2> QED BY <1>1, <1>2, <2>1, <2>2, <2>3, <2>4, WordKeeps DEF WordTyped
  <1>5. ASSUME NEW n \in Names, Delete(n) PROVE WordInv'
    <2>1. /\ ram' = SetEntry(ram, n, Free) /\ pc' = "fatErase" /\ job' = Job("delete", n, Absent)
          /\ loose' = loose /\ Exists(ram, n) /\ Asked(n, Absent)
      BY <1>5 DEF Delete
    <2>2. ram' \in WordTables /\ ram'.magic = "ok"
      <3>1. Free \in WordEntries
        BY <1>3 DEF Free, WordEntries
      <3> QED BY <1>1, <2>1, <3>1, WordSet DEF WordTyped
    <2>3. job' \in WordJobs /\ job'.op = "delete"
      <3>1. "delete" \in JobOps
        BY DEF JobOps
      <3>2. job' \in Jobs /\ job'.op = "delete"
        BY <2>1, <3>1, JobIs
      <3> QED BY <1>3, <3>2, WordJob
    <2>4. maybe' = [m \in Names |-> maybe'[m]]
      BY <1>1, <2>1, AskedShape DEF WordTyped
    <2> QED BY <1>1, <1>2, <2>1, <2>2, <2>3, <2>4, WordKeeps DEF WordTyped
  <1>6. ASSUME NEW n \in Names, NEW c \in Contents, Write(n, c) PROVE WordInv'
    <2>1. c \in Texts
      BY ConstAssumption, SymbolText
    <2>2. CASE Exists(ram, n) /\ Store(ram, n, c) /\ Asked(n, c)
      <3>1. maybe' = [m \in Names |-> maybe'[m]]
        BY <1>1, <2>2, AskedShape DEF WordTyped
      <3> QED BY <1>1, <1>2, <2>1, <2>2, <3>1, WordStore DEF WordTyped
    <2>3. CASE /\ CanCreate(n)
               /\ ram' = WithNew(ram, n)
               /\ pc' = "fatErase" /\ job' = Job("writeNew", n, c)
               /\ maybe' = [maybe EXCEPT ![n] = @ \cup {<<>>, c}]
               /\ UNCHANGED loose
      <3>1. ram' \in WordTables /\ ram'.magic = "ok" /\ Exists(ram', n)
        BY <1>1, <2>3, WordNew DEF WordTyped, CanCreate
      <3>2. job' \in WordJobs /\ job'.op = "writeNew" /\ job'.name = n /\ job'.content = c
        <4>1. "writeNew" \in JobOps
          BY DEF JobOps
        <4>2. job' \in Jobs /\ job'.op = "writeNew" /\ job'.name = n /\ job'.content = c
          BY <2>1, <2>3, <4>1, JobIs
        <4> QED BY <1>3, <4>2, WordJob
      <3>3. OnFile(ram', job')
        BY <2>1, <3>1, <3>2 DEF OnFile
      <3>4. maybe' = [m \in Names |-> maybe'[m]]
        BY <1>1, <2>3 DEF WordTyped
      <3> QED BY <1>1, <1>2, <2>3, <3>1, <3>2, <3>3, <3>4, WordKeeps DEF WordTyped
    <2> QED BY <1>6, <2>2, <2>3 DEF Write
  <1>7. ASSUME NEW n \in Names, NEW s \in Chunks, FsAppend(n, s) PROVE WordInv'
    <2> DEFINE t == Appended(n, s)
    <2>1. Exists(ram, n) /\ Asked(n, t)
      BY <1>7 DEF FsAppend
    <2>2. t \in Texts /\ Len(s) \in 1 .. Len(t)
      <3> DEFINE v == View(ram, data)[n]
      <3>1. v \in Texts
        BY <1>1, <2>1, WordView DEF WordTyped
      <3>2. s \in Texts /\ s # <<>>
        BY ConstAssumption, SymbolText
      <3>3. t = v \o s
        BY DEF Appended
      <3> HIDE DEF v, t
      <3>4. t \in Texts /\ Len(t) = Len(v) + Len(s)
        BY <3>1, <3>2, <3>3 DEF Texts
      <3>5. Len(v) \in Nat /\ Len(s) \in Nat \ {0}
        BY <3>1, <3>2 DEF Texts
      <3> QED BY <3>4, <3>5
    <2>3. maybe' = [m \in Names |-> maybe'[m]]
      BY <1>1, <2>1, AskedShape DEF WordTyped
    <2>4. CASE Store(ram, n, t)
      BY <1>1, <1>2, <2>1, <2>2, <2>3, <2>4, WordStore DEF WordTyped
    <2>5. CASE /\ pc' = "tail" /\ job' = [Job("append", n, t) EXCEPT !.next = Len(s)]
               /\ UNCHANGED <<ram, loose>>
      <3>1. /\ job' \in WordJobs /\ job'.op = "append" /\ job'.name = n
            /\ job'.content = t /\ job'.next = Len(s)
        <4> DEFINE j == Job("append", n, t)
        <4>1. "append" \in JobOps
          BY DEF JobOps
        <4>2. j \in Jobs /\ j.op = "append" /\ j.name = n /\ j.content = t
          BY <2>2, <4>1, JobIs
        <4>3. job' = [j EXCEPT !.next = Len(s)] /\ Len(s) \in Int
          BY <2>2, <2>5
        <4> HIDE DEF j
        <4>4. /\ job' \in Jobs /\ job'.op = "append" /\ job'.name = n
              /\ job'.content = t /\ job'.next = Len(s)
          BY <4>2, <4>3, JobNext
        <4> QED BY <1>3, <4>4, WordJob
      <3>2. OnFile(ram', job')
        BY <2>1, <2>2, <2>5, <3>1 DEF OnFile
      <3>3. job'.next \in 1 .. Len(job'.content)
        BY <2>2, <3>1
      <3> QED BY <1>1, <1>2, <2>3, <2>5, <3>1, <3>2, <3>3, WordKeeps DEF WordTyped
    <2> QED BY <1>7, <2>4, <2>5 DEF FsAppend, Rewrite
  <1> QED BY <1>4, <1>5, <1>6, <1>7 DEF SomeCreate, SomeDelete, SomeWrite, SomeAppend

\* So do the HAL calls that succeed.
LEMMA WordCalls ==
    ASSUME WordInv, FormatErase \/ BlockErase \/ BlockWrite \/ TailProgram \/ FatErase \/ FatWrite
    PROVE  WordInv'
  <1> USE DEF WordInv
  <1>1. WordTyped
    OBVIOUS
  <1>2. /\ EmptyFat \in WordTables /\ BlankFat \in WordTables /\ TornFat \in WordTables
        /\ EmptyFat.magic = "ok"
    BY EmptyTable DEF EmptyFat, BlankFat, TornFat
  <1>3. CASE FormatErase
    <2>1. /\ job.op = "format" /\ acked' = acked /\ maybe' = maybe /\ loose' = loose
          /\ astray' = astray /\ ops' = ops
      BY <1>3 DEF FormatErase, WordPhase
    <2>2. fat' \in WordTables /\ data' \in Disks
      BY <1>1, <1>2, <1>3, WordRow DEF FormatErase, WordTyped
    <2>3. CASE pc' = "fatErase" /\ ram' = EmptyFat /\ UNCHANGED job
      BY <1>1, <1>2, <2>1, <2>2, <2>3, WordKeeps DEF WordTyped
    <2>4. CASE job' = [job EXCEPT !.next = @ + 1] /\ UNCHANGED <<pc, ram>>
      <3>1. job' \in WordJobs /\ job'.op = "format" /\ pc' = "format" /\ ram' \in WordTables
        BY <1>1, <1>3, <2>1, <2>4 DEF WordTyped, WordJobs, FormatErase
      <3> QED BY <1>1, <2>1, <2>2, <3>1, WordKeeps DEF WordTyped
    <2> QED BY <1>3, <2>3, <2>4 DEF FormatErase
  <1>4. CASE BlockErase
    <2>1. /\ Filling /\ pc' = "blkWrite" /\ ram' = ram /\ job' = job /\ acked' = acked
          /\ maybe' = maybe /\ loose' = loose /\ astray' = astray /\ ops' = ops
      BY <1>4 DEF BlockErase, Filling
    <2>2. fat' \in WordTables /\ data' \in Disks
      BY <1>1, <1>2, <1>4, WordRow DEF BlockErase, WordTyped
    <2>3. job.op = "write" /\ OnFile(ram, job) /\ job.next \in Nat /\ ram.magic = "ok"
      BY <2>1 DEF WordPhase, Running, Filling
    <2> QED BY <1>1, <2>1, <2>2, <2>3, WordKeeps DEF WordTyped
  <1>5. CASE BlockWrite
    <2>1. /\ Filling /\ acked' = acked /\ maybe' = maybe /\ loose' = loose /\ astray' = astray
          /\ ops' = ops
      BY <1>5 DEF BlockWrite, Filling
    <2>2. fat' \in WordTables /\ data' \in Disks
      <3>1. Len(Segment(job)) \in 0 .. Len(Segment(job))
        BY <2>1, WordSegment DEF WordPhase, OnFile
      <3>2. data' \in Disks
        BY <1>5, <2>1, <3>1, WordFilled DEF BlockWrite
      <3> QED BY <1>1, <1>2, <1>5, <3>2 DEF BlockWrite, WordTyped
    <2>3. job.op = "write" /\ OnFile(ram, job) /\ job.next \in Nat /\ ram.magic = "ok"
      BY <2>1 DEF WordPhase, Running, Filling
    <2>4. CASE ram' = SetEntry(ram, job.name, NewEntry) /\ pc' = "fatErase" /\ UNCHANGED job
      <3>1. NewEntry \in WordEntries
        BY <2>1, WordNewEntry
      <3>2. ram' \in WordTables /\ ram'.magic = "ok"
        BY <1>1, <2>3, <2>4, <3>1, WordSet DEF WordTyped, OnFile
      <3> QED BY <1>1, <2>1, <2>2, <2>3, <2>4, <3>2, WordKeeps DEF WordTyped
    <2>5. CASE job' = [job EXCEPT !.next = @ + 1] /\ pc' = "blkErase" /\ UNCHANGED ram
      <3>1. /\ job' \in WordJobs /\ job'.op = "write" /\ job'.next \in Nat
            /\ job'.name = job.name /\ job'.content = job.content
        BY <1>1, <2>3, <2>5 DEF WordTyped, WordJobs
      <3>2. OnFile(ram', job')
        BY <2>3, <2>5, <3>1 DEF OnFile
      <3>3. ram' \in WordTables /\ ram'.magic = "ok"
        BY <1>1, <2>3, <2>5 DEF WordTyped
      <3> QED BY <1>1, <2>1, <2>2, <2>5, <3>1, <3>2, <3>3, WordKeeps DEF WordTyped
    <2> QED BY <1>5, <2>4, <2>5 DEF BlockWrite
  <1>6. CASE TailProgram
    <2> DEFINE e == EntryOf(ram, job.name)
               z == [e EXCEPT !.size = (e.size + job.next) % Mod]
    <2>1. /\ pc = "tail" /\ fat' \in TailFat /\ data' = TailProgrammed(job.next)
          /\ ram' = SetEntry(ram, job.name, z) /\ pc' = "fatErase" /\ job' = job
          /\ acked' = acked /\ maybe' = maybe /\ loose' = loose /\ astray' = astray /\ ops' = ops
      BY <1>6 DEF TailProgram
    <2>2. job.op = "append" /\ OnFile(ram, job) /\ job.next \in Nat /\ ram.magic = "ok"
      BY <2>1, WordChunk DEF WordPhase, Running
    <2>3. e \in WordEntries /\ e.size \in Nat
      BY <1>1, <2>2, WordFound DEF WordTyped, OnFile
    <2>4. z \in WordEntries
      <3>1. (e.size + job.next) % Mod \in Words
        BY <2>2, <2>3, Wrapped
      <3> HIDE DEF e
      <3> QED BY <2>3, <3>1 DEF WordEntries
    <2> HIDE DEF z, e
    <2>5. ram' \in WordTables /\ ram'.magic = "ok"
      BY <1>1, <2>1, <2>2, <2>4, WordSet DEF WordTyped, OnFile
    <2>6. fat' \in WordTables /\ data' \in Disks
      <3>1. job.next \in 0 .. job.next
        BY <2>2
      <3> QED BY <2>1, <3>1, WordTail, WordCutFat
    <2> QED BY <1>1, <2>1, <2>2, <2>5, <2>6, WordKeeps DEF WordTyped
  <1>7. CASE FatErase
    <2>1. /\ FatCommit /\ fat' = BlankFat /\ pc' = "fatWrite" /\ data' = data /\ ram' = ram
          /\ job' = job /\ acked' = acked /\ maybe' = maybe /\ loose' = loose
          /\ astray' = astray /\ ops' = ops
      BY <1>7 DEF FatErase, FatCommit
    <2>2. /\ ram.magic = "ok"
          /\ job.op = "format" => ram = EmptyFat
          /\ job.op = "writeNew" => OnFile(ram, job)
      BY <2>1 DEF WordPhase, Running, FatCommit
    <2> QED BY <1>1, <1>2, <2>1, <2>2, WordKeeps DEF WordTyped
  <1>8. CASE FatWrite
    <2>1. FatCommit /\ fat' = ram /\ data' = data /\ ops' = ops /\ ram.magic = "ok"
      BY <1>8 DEF FatWrite, FatCommit, WordPhase, Running
    <2>2. NoJob \in WordJobs
      <3>1. 0 \in Words
        BY InWords, ConstAssumption DEF BlockNos
      <3> QED BY <3>1, NoJobTyped, WordJob
    <2>3. CASE job.op = "writeNew"
      <3>1. /\ Store(ram, job.name, job.content) /\ acked' = acked /\ maybe' = maybe
            /\ astray' = astray /\ OnFile(ram, job)
        BY <1>8, <2>1, <2>3 DEF FatWrite, WordPhase
      <3> QED BY <1>1, <2>1, <3>1, WordStore DEF WordTyped, OnFile
    <2>4. CASE job.op # "writeNew"
      <3>1. pc' = "idle" /\ job' = NoJob /\ ram' = ram
        BY <1>8, <2>4 DEF FatWrite, Return
      <3>2. /\ acked' = [n \in Names |-> acked'[n]] /\ maybe' = [n \in Names |-> maybe'[n]]
            /\ loose' \subseteq Names /\ astray' \in BOOLEAN
        BY <1>1, <1>8, <2>4 DEF FatWrite, WordTyped
      <3> QED BY <1>1, <2>1, <2>2, <3>1, <3>2, WordKeeps DEF WordTyped
    <2> QED BY <2>3, <2>4
  <1> QED BY <1>3, <1>4, <1>5, <1>6, <1>7, <1>8

\* And those that fail or are cut.
LEMMA WordFaults == ASSUME WordInv, HalFail \/ PowerLoss PROVE WordInv'
  <1> USE DEF WordInv
  <1>1. WordTyped /\ ZeroFat \in WordTables
    BY EmptyTable DEF ZeroFat
  <1>2. /\ fat' \in WordTables /\ data' \in Disks /\ acked' = acked /\ maybe' = maybe
        /\ astray' = astray /\ ops' = ops
    BY WordCutFat, WordCutData DEF HalFail, PowerLoss
  <1>3. NoJob \in WordJobs
    <2>1. 0 \in Words
      BY InWords, ConstAssumption DEF BlockNos
    <2> QED BY <2>1, NoJobTyped, WordJob
  <1>4. CASE PowerLoss
    <2>1. ram' = ZeroFat /\ pc' = "off" /\ job' = NoJob /\ loose' = loose
      BY <1>4 DEF PowerLoss
    <2> QED BY <1>1, <1>2, <1>3, <2>1, WordKeeps DEF WordTyped
  <1>5. CASE HalFail
    <2>1. CASE pc = "tail" /\ Rewrite(job.name, View(ram, data')[job.name] \o TailChunk)
      <3> DEFINE v == View(ram, data')[job.name]
      <3>1. OnFile(ram, job) /\ ram.magic = "ok" /\ TailChunk \in Texts
        BY <2>1, WordChunk DEF WordPhase, Running
      <3>2. v \in Texts
        BY <1>1, <1>2, <3>1, WordView DEF WordTyped, OnFile
      <3> HIDE DEF v
      <3>3. v \o TailChunk \in Texts
        BY <3>1, <3>2 DEF Texts
      <3>4. Store(ram, job.name, v \o TailChunk)
        BY <2>1 DEF Rewrite, v
      <3> QED BY <1>1, <1>2, <3>1, <3>3, <3>4, WordStore DEF WordTyped, OnFile
    <2>2. CASE /\ pc' = IF job.op = "format" THEN "corrupt" ELSE "idle"
               /\ job' = NoJob /\ UNCHANGED <<ram, loose>>
      <3>1. job.op # "format" => ram.magic = "ok"
        BY <1>5 DEF HalFail, WordPhase, Running, HalCall
      <3> QED BY <1>1, <1>2, <1>3, <2>2, <3>1, WordKeeps DEF WordTyped
    <2> QED BY <1>5, <2>1, <2>2 DEF HalFail
  <1> QED BY <1>4, <1>5

\* Words are words at first, and after every step.
LEMMA WordInit == Init => WordInv
  <1> SUFFICES ASSUME Init PROVE WordInv
    OBVIOUS
  <1>1. EmptyFat \in WordTables /\ ZeroFat \in WordTables
    BY EmptyTable DEF EmptyFat, ZeroFat
  <1>2. data \in Disks
    BY RowTyped DEF Init, Disks
  <1>3. NoJob \in WordJobs
    <2>1. 0 \in Words
      BY InWords, ConstAssumption DEF BlockNos
    <2> QED BY <2>1, NoJobTyped, WordJob
  <1>4. WordTyped
    <2>1. fat = EmptyFat /\ ram = ZeroFat /\ pc = "off" /\ job = NoJob /\ loose = {} /\ ops = 0
      BY DEF Init
    <2>2. /\ acked = [n \in Names |-> acked[n]] /\ maybe = [n \in Names |-> maybe[n]]
          /\ astray \in BOOLEAN
      BY DEF Init
    <2> QED BY <1>1, <1>2, <1>3, <2>1, <2>2, ConstAssumption DEF WordTyped
  <1>5. WordPhase
    BY DEF Init, WordPhase, Running, FatCommit, Filling
  <1> QED BY <1>4, <1>5 DEF WordInv
LEMMA WordStep == ASSUME SafeAppends, WordInv, [Next]_vars PROVE WordInv'
  <1>1. CASE UNCHANGED vars
    <2>1. WordTyped'
      BY <1>1 DEF WordInv, WordTyped, vars
    <2>2. WordPhase'
      BY <1>1 DEF WordInv, WordPhase, Running, FatCommit, Filling, vars, OnFile
    <2> QED BY <2>1, <2>2 DEF WordInv
  <1>2. CASE Next
    BY <1>2, WordMount, WordFormat, WordBegin, WordCalls, WordFaults DEF Next
  <1> QED BY <1>1, <1>2

\* The invariant of every table: that of words, and of a sound store until a
\* table torn inside an entry has been mounted.
FsInv == WordInv /\ (~ astray => ReadInv)

\* A format makes a sound store of any.
LEMMA FormatHeals ==
    ASSUME WordInv, FatWrite, job.op = "format"
    PROVE  ReadInv'
  <1>1. ram = EmptyFat /\ data \in Disks /\ ops \in 0 .. MaxOps
    BY DEF WordInv, WordTyped, WordPhase, FatWrite, FatCommit
  <1>2. /\ pc' = "idle" /\ job' = NoJob /\ ram' = ram /\ fat' = ram /\ data' = data
        /\ acked' = [n \in Names |-> Absent] /\ maybe' = [n \in Names |-> {}]
        /\ loose' = {} /\ ops' = ops
    BY DEF FatWrite, Return
  <1>3. /\ EmptyFat \in Tables /\ EmptyFat \in WordTables /\ EmptyFat.magic = "ok"
        /\ Sound(EmptyFat) /\ Sound(Untorn(EmptyFat))
        /\ \A n \in Names : ~ Exists(EmptyFat, n)
    BY EmptyTable DEF EmptyFat
  <1>4. \A n \in Names : View(ram', data')[n] = Absent
    BY <1>1, <1>2, <1>3, ViewIs
  <1> QED BY <1>1, <1>2, <1>3, <1>4, IdleKeeps

\* The invariant holds always.
LEMMA FsInvHolds == ASSUME SafeAppends PROVE Spec => []FsInv
  <1>1. Init => FsInv
    <2>1. Init => WordInv
      BY WordInit
    <2> QED BY <2>1, ReadInit DEF FsInv
  <1>2. FsInv /\ [Next]_vars => FsInv'
    <2> SUFFICES ASSUME FsInv, [Next]_vars PROVE FsInv'
      OBVIOUS
    <2>1. WordInv'
      BY WordStep DEF FsInv
    <2>2. ASSUME ~ astray' PROVE ReadInv'
      <3>1. CASE ~ astray
        BY <2>2, <3>1, ReadStep DEF FsInv
      <3>2. CASE astray
        <4>1. FatWrite /\ job.op = "format"
          BY <2>2, <3>2
             DEF Next, vars, Mount, Load, SomeCreate, SomeDelete, SomeWrite, SomeAppend, Format,
                 Create, Delete, Write, FsAppend, Begin, FormatErase, BlockErase, BlockWrite,
                 TailProgram, FatErase, FatWrite, HalFail, PowerLoss
        <4> QED BY <4>1, FormatHeals DEF FsInv
      <3> QED BY <3>1, <3>2
    <2> QED BY <2>1, <2>2 DEF FsInv
  <1> QED BY <1>1, <1>2, PTL DEF Spec

\* The invariant has the types in it.
LEMMA TypeOfInv == ASSUME FsInv PROVE TypeOK
  <1>1. ASSUME ~ astray PROVE ram \in Tables /\ (Filling => JobBlock \in BlockNos)
    BY <1>1, FillingIs DEF FsInv, ReadInv, ShapeInv, Typed, FillingOk
  <1> QED BY <1>1
          DEF FsInv, WordInv, WordTyped, WordPhase, Running, TypeOK, Disks, Filling

\* Type correctness: whatever table is mounted, its fields stay words; while no
\* table torn inside an entry is, the RAM table holds block numbers and sizes of
\* the store (fs_entry_t) and fs_write stays in the data blocks.
THEOREM TypeCorrect == ASSUME SafeAppends PROVE Spec => []TypeOK
  <1>1. FsInv => TypeOK
    BY TypeOfInv
  <1> QED BY <1>1, FsInvHolds, PTL

\* Until a table torn inside an entry is mounted: in the RAM table and in the
\* whole entries of the one in flash no block is two files', no file exceeds its
\* blocks, no name is double, whatever HAL call failed or was cut.
THEOREM BlocksApart == ASSUME SafeAppends PROVE Spec => []Layout
  <1>1. FsInv => Layout
    BY DEF FsInv, ReadInv, ShapeInv, Placed, Layout
  <1> QED BY <1>1, FsInvHolds, PTL

\* Until a table torn inside an entry is mounted: whatever HAL calls fail, between
\* operations a file reads as after its last acknowledged operation or as asked
\* for since.
THEOREM ReadsBack == ASSUME SafeAppends PROVE Spec => []ReadBack
  <1>1. FsInv => ReadBack
    BY DEF FsInv, ReadInv, Promise, Running, Known, ReadBack
  <1> QED BY <1>1, FsInvHolds, PTL

\* Until a table torn inside an entry is mounted: no HAL call made for one file
\* changes what another reads as.
THEOREM OthersSafe == ASSUME SafeAppends PROVE Spec => OthersUntouched
  <1>1. ASSUME ReadInv, Next, pc \in {"blkErase", "blkWrite", "tail"}
        PROVE  data' \in CutData
    <2>1. CASE BlockErase
      BY <1>1, <2>1 DEF BlockErase, CutData, Erased
    <2>2. CASE BlockWrite
      <3>1. FillingOk
        BY <1>1, <2>2, FillingIs DEF BlockWrite, Filling
      <3>2. Len(Segment(job)) \in 0 .. Len(Segment(job))
        BY <3>1, SegmentIs DEF FillingOk, FillOk
      <3>3. /\ pc = "blkWrite"
            /\ data' = Programmed(data, JobBlock, 0, Segment(job), Len(Segment(job)))
        BY <2>2 DEF BlockWrite
      <3> QED BY <3>2, <3>3 DEF CutData
    <2>3. CASE TailProgram
      <3>1. job.next \in 0 .. job.next
        BY <1>1, <2>3, TailingIs DEF TailProgram, TailingOk, TailOk
      <3>2. pc = "tail" /\ data' = TailProgrammed(job.next)
        BY <2>3 DEF TailProgram
      <3> QED BY <3>1, <3>2 DEF CutData
    <2>4. CASE HalFail \/ PowerLoss
      BY <2>4 DEF HalFail, PowerLoss
    <2>5. CASE Mount \/ SomeCreate \/ SomeDelete \/ SomeWrite \/ SomeAppend \/ Format
               \/ FormatErase \/ FatErase \/ FatWrite
      BY <1>1, <2>5 DEF Mount, SomeCreate, SomeDelete, SomeWrite, SomeAppend, Format,
                        FormatErase, FatErase, FatWrite, Create, Delete, Write, FsAppend, Begin
    <2> QED BY <1>1, <2>1, <2>2, <2>3, <2>4, <2>5 DEF Next
  <1>2. ASSUME FsInv, Next PROVE SparesOthers
    <2> SUFFICES ASSUME pc \in {"blkErase", "blkWrite", "tail"}, ~ astray
                 PROVE  \A n \in Names \ {job.name} : View(ram, data')[n] = View(ram, data)[n]
      BY DEF SparesOthers
    <2>1. ReadInv
      BY <1>2 DEF FsInv
    <2> QED BY <1>1, <1>2, <2>1, CutDataIs
  <1>3. FsInv /\ [Next]_vars => [SparesOthers]_vars
    BY <1>2
  <1> QED BY <1>3, FsInvHolds, PTL DEF Spec, OthersUntouched

-----------------------------------------------------------------------------
(* When only the power fails, and not while the table is being committed.  *)

\* Until a torn table is mounted the HAL is asked for nothing outside the store.
LEMMA NoStrays == ASSUME ReadInv PROVE ~ Strays
  <1>1. ASSUME Filling PROVE JobBlock \in BlockNos
    BY <1>1, FillingIs DEF FillingOk
  <1>2. ASSUME pc = "tail" PROVE TailBlock(EntryOf(ram, job.name)) \in BlockNos
    BY <1>2, TailingIs, TailFatIs
  <1> QED BY <1>1, <1>2 DEF Strays, Filling

\* A HAL call of an operation on a file, cut before the table is saved, leaves
\* the table in flash as it is.
LEMMA CallsSpareFat ==
    ASSUME ReadInv, NEW f \in CutFat, ~ FatCommit, pc # "format"
    PROVE  f = fat
  <1>1. pc \in {"blkErase", "blkWrite"} => JobBlock # -1
    BY FillingIs DEF Filling, FillingOk, BlockNos
  <1>2. pc = "tail" => TailFat = {fat}
    BY TailingIs, TailFatIs
  <1> QED BY <1>1, <1>2 DEF CutFat, FatCommit

\* When only the power fails, and not while the table is being committed, no
\* table is torn inside an entry.
LEMMA WholeStep ==
    ASSUME Faults \subseteq {"loss"}, PowerInv, [Next]_vars
    PROVE  fat' \in Tables /\ ~ astray'
  <1>1. ReadInv /\ fat \in Tables /\ ram \in Tables /\ ~ astray
    BY DEF PowerInv, ReadInv, ShapeInv, Typed
  <1>2. /\ BlankFat \in Tables /\ TornFat \in Tables /\ ZeroFat \in Tables
    BY EmptyTable DEF BlankFat, TornFat, ZeroFat
  <1>3. CASE Mount \/ Format
    BY <1>1, <1>2, <1>3 DEF Mount, Format, Load
  <1>4. CASE SomeCreate \/ SomeDelete \/ SomeWrite \/ SomeAppend
    BY <1>1, <1>4 DEF SomeCreate, SomeDelete, SomeWrite, SomeAppend, Create, Delete, Write,
                      FsAppend, Begin
  <1>5. CASE FormatErase \/ FatErase \/ FatWrite
    BY <1>1, <1>2, <1>5 DEF FormatErase, FatErase, FatWrite
  <1>6. CASE BlockErase \/ BlockWrite
    <2>1. JobBlock # -1
      BY <1>1, <1>6, FillingIs DEF BlockErase, BlockWrite, Filling, FillingOk, BlockNos
    <2> QED BY <1>1, <1>6, <2>1 DEF BlockErase, BlockWrite
  <1>7. CASE TailProgram
    <2>1. TailFat = {fat}
      BY <1>1, <1>7, TailingIs, TailFatIs DEF TailProgram
    <2> QED BY <1>1, <1>7, <2>1 DEF TailProgram
  <1>8. CASE HalFail
    BY <1>1, <1>8, NoStrays DEF HalFail
  <1>9. CASE PowerLoss
    <2>1. fat' \in CutFat /\ ~ FatCommit /\ astray' = astray
      BY <1>9 DEF PowerLoss
    <2>2. CASE pc = "format"
      <3>1. fat' \in {fat, TornFat, BlankFat}
        BY <2>1, <2>2 DEF CutFat
      <3> QED BY <1>1, <1>2, <2>1, <3>1
    <2>3. CASE pc # "format"
      BY <1>1, <2>1, <2>3, CallsSpareFat
    <2> QED BY <2>2, <2>3
  <1>10. CASE UNCHANGED vars
    BY <1>1, <1>10 DEF vars
  <1> QED BY <1>3, <1>4, <1>5, <1>6, <1>7, <1>8, <1>9, <1>10 DEF Next

\* Every step keeps what a restart would find, if only losses outside the commit occur.
LEMMA KeptStep ==
    ASSUME SafeAppends, Faults \subseteq {"loss"}, PowerInv, [Next]_vars
    PROVE  PowerInv'
  <1>0. fat' \in Tables /\ ~ astray'
    BY WholeStep DEF PowerInv
  <1>1. ReadInv /\ Kept /\ ReadInv' /\ fat' \in Tables /\ ~ astray'
    BY <1>0, ReadStep DEF PowerInv
  <1>2. Typed
    BY <1>1 DEF ReadInv, ShapeInv
  <1>3. ASSUME NEW n \in Names, NEW c, Store(ram, n, c), fat' = ram
        PROVE  Kept'
    <2>1. (pc' = "fatErase") \/ (pc' \in {"blkErase", "idle"} /\ ram' = ram)
      BY <1>3 DEF Store
    <2> QED BY <1>3, <2>1 DEF Kept
  <1>4. CASE Mount
    <2>1. CASE fat.magic = "ok"
      <3>1. fat' = fat /\ ram' = fat /\ pc' = "idle"
        BY <1>4, <2>1 DEF Mount, Load
      <3>2. Kept'
        BY <3>1 DEF Kept
      <3> QED BY <1>1, <3>2 DEF PowerInv
    <2>2. CASE fat.magic # "ok"
      <3>1. pc' = "corrupt" /\ fat' = fat /\ data' = data /\ acked' = View(fat, data)
        BY <1>4, <2>2 DEF Mount
      <3>2. \A n \in Names : View(fat', data')[n] \in {acked'[n]} \cup maybe'[n]
        BY <3>1
      <3>3. Kept'
        BY <3>1, <3>2 DEF Kept, Known, Owed
      <3> QED BY <1>1, <3>3 DEF PowerInv
    <2> QED BY <1>1, <2>1, <2>2 DEF PowerInv
  <1>5. CASE SomeCreate \/ SomeDelete \/ Format \/ FatErase
    <2>1. pc' \in {"fatErase", "fatWrite", "format"}
      BY <1>5 DEF SomeCreate, SomeDelete, Create, Delete, Format, FatErase
    <2> QED BY <1>1, <2>1 DEF Kept, PowerInv
  <1>6. CASE SomeWrite
    <2>1. PICK n \in Names, c \in Contents : Write(n, c)
      BY <1>6 DEF SomeWrite
    <2>2. fat' = fat /\ fat = ram
      BY <1>1, <2>1 DEF Write, Begin, Kept
    <2>3. CASE Store(ram, n, c)
      BY <1>1, <1>3, <2>2, <2>3 DEF PowerInv
    <2>4. CASE pc' = "fatErase"
      BY <1>1, <2>4 DEF Kept, PowerInv
    <2> QED BY <2>1, <2>3, <2>4 DEF Write
  <1>7. CASE SomeAppend
    <2>1. PICK n \in Names, s \in Chunks : FsAppend(n, s)
      BY <1>7 DEF SomeAppend
    <2>2. fat' = fat /\ fat = ram
      BY <1>1, <2>1 DEF FsAppend, Begin, Kept
    <2>3. CASE Store(ram, n, Appended(n, s))
      BY <1>1, <1>3, <2>2, <2>3 DEF PowerInv
    <2>4. CASE pc' = "tail" /\ ram' = ram
      BY <1>1, <2>2, <2>4 DEF Kept, PowerInv
    <2> QED BY <2>1, <2>3, <2>4 DEF FsAppend, Rewrite
  <1>8. CASE FormatErase
    <2>1. pc' \in {"format", "fatErase"}
      BY <1>8 DEF FormatErase
    <2> QED BY <1>1, <2>1 DEF Kept, PowerInv
  <1>9. CASE BlockErase \/ BlockWrite \/ TailProgram
    <2>1. fat' = fat /\ fat = ram
      <3>1. CASE BlockErase \/ BlockWrite
        <4>1. JobBlock # -1
          BY <1>1, <3>1, FillingIs DEF BlockErase, BlockWrite, Filling, FillingOk, BlockNos
        <4> QED BY <1>1, <3>1, <4>1 DEF BlockErase, BlockWrite, Kept
      <3>2. CASE TailProgram
        <4>1. TailFat = {fat}
          BY <1>1, <3>2, TailingIs, TailFatIs DEF TailProgram
        <4> QED BY <1>1, <3>2, <4>1 DEF TailProgram, Kept
      <3> QED BY <1>9, <3>1, <3>2
    <2>2. pc' = "fatErase" \/ (pc' \in {"blkErase", "blkWrite"} /\ ram' = ram)
      BY <1>9 DEF BlockErase, BlockWrite, TailProgram
    <2> QED BY <1>1, <2>1, <2>2 DEF Kept, PowerInv
  <1>10. CASE FatWrite
    <2>1. CommittingOk
      BY <1>1, <1>10, CommittingIs DEF FatWrite, FatCommit
    <2>2. fat' = ram
      BY <1>10 DEF FatWrite
    <2>3. CASE job.op = "writeNew"
      <3>1. job.name \in Names /\ Store(ram, job.name, job.content)
        BY <1>10, <2>1, <2>3 DEF FatWrite, CommittingOk, CommitInv
      <3> QED BY <1>1, <1>3, <2>2, <3>1 DEF PowerInv
    <2>4. CASE job.op # "writeNew"
      <3>1. pc' = "idle" /\ ram' = ram
        BY <1>10, <2>4 DEF FatWrite, Return
      <3> QED BY <1>1, <2>2, <3>1 DEF Kept, PowerInv
    <2> QED BY <2>3, <2>4
  <1>11. CASE HalFail
    BY <1>1, <1>11, NoStrays DEF HalFail
  <1>12. CASE PowerLoss
    <2>1. /\ data' \in CutData /\ fat' \in CutFat /\ pc # "off" /\ ~ FatCommit
          /\ pc' = "off" /\ acked' = acked /\ maybe' = maybe /\ loose' = loose
      BY <1>12 DEF PowerLoss
    <2>2. SUFFICES ASSUME NEW n \in Names, n \notin loose
                   PROVE  View(fat', data')[n] \in {acked[n]} \cup maybe[n]
      BY <1>1, <2>1 DEF PowerInv, Kept, Known, Owed
    <2>3. pc # "format"
      BY <1>1, <2>2 DEF ReadInv, Promise
    <2>4. fat' = fat
      BY <1>1, <2>1, <2>3, CallsSpareFat
    <2>5. CASE pc = "corrupt"
      <3>1. data' = data
        BY <2>1, <2>5 DEF CutData
      <3> QED BY <1>1, <2>2, <2>4, <2>5, <3>1 DEF Kept, Known, Owed
    <2>6. CASE pc \in {"idle", "blkErase", "blkWrite", "tail"}
      <3>1. fat = ram /\ Running
        BY <1>1, <2>6 DEF Kept, Running
      <3>2. View(ram, data')[n] = View(ram, data)[n]
        BY <1>1, <2>1, <2>2, <3>1, CutDataIs
      <3>3. View(ram, data)[n] \in {acked[n]} \cup maybe[n]
        BY <1>1, <2>2, <3>1 DEF ReadInv, Promise, Known, Owed
      <3> QED BY <2>4, <3>1, <3>2, <3>3
    <2>7. pc \in {"corrupt", "idle", "blkErase", "blkWrite", "tail"}
      BY <1>2, <2>1, <2>3 DEF Typed, HalCall, FatCommit
    <2> QED BY <2>5, <2>6, <2>7
  <1>13. CASE UNCHANGED vars
    BY <1>1, <1>13 DEF PowerInv, Kept, Known, Owed, vars
  <1> QED BY <1>4, <1>5, <1>6, <1>7, <1>8, <1>9, <1>10, <1>11, <1>12, <1>13 DEF Next

\* Both invariants hold always, if only losses outside the commit occur.
LEMMA PowerInvHolds ==
    ASSUME SafeAppends, Faults \subseteq {"loss"}
    PROVE  Spec => []PowerInv
  <1>1. Init => PowerInv
    <2> SUFFICES ASSUME Init PROVE PowerInv
      OBVIOUS
    <2>1. ReadInv
      BY ReadInit
    <2>2. \A n \in Names : View(fat, data)[n] = Absent
      <3>1. \A n \in Names : ~ Exists(EmptyFat, n)
        BY EmptyTable DEF EmptyFat
      <3> QED BY <3>1 DEF Init, View
    <2>3. Kept
      BY <2>2 DEF Init, Kept, Known, Owed
    <2>4. fat \in Tables /\ ~ astray
      BY EmptyTable DEF Init, EmptyFat
    <2> QED BY <2>1, <2>3, <2>4 DEF PowerInv
  <1>2. PowerInv /\ [Next]_vars => PowerInv'
    BY KeptStep
  <1> QED BY <1>1, <1>2, PTL DEF Spec

\* When only the power fails, and not while the table is being committed, a
\* restart finds every file not overwritten in place as acknowledged or as
\* asked for since.
THEOREM Durability ==
    ASSUME SafeAppends, Faults \subseteq {"loss"}
    PROVE  Spec => []Durable
  <1>1. ASSUME PowerInv PROVE Durable
    <2> SUFFICES ASSUME NEW n \in Names, n \notin loose PROVE Restarted[n] \in Owed(n)
      BY DEF Durable
    <2>1. Typed /\ ReadInv /\ Kept
      BY <1>1 DEF PowerInv, ReadInv, ShapeInv
    <2>2. CASE FatCommit
      <3>1. Restarted = View(ram, data) /\ Running
        BY <2>2 DEF Restarted, FatCommit, Running
      <3> QED BY <2>1, <3>1 DEF ReadInv, Promise, Known
    <2>3. CASE pc = "format"
      BY <2>1, <2>3 DEF ReadInv, Promise
    <2>4. CASE pc \in {"idle", "blkErase", "blkWrite", "tail"}
      <3>1. Restarted = View(ram, data) /\ Running
        BY <2>1, <2>4 DEF Restarted, FatCommit, Running, Kept
      <3> QED BY <2>1, <3>1 DEF ReadInv, Promise, Known
    <2>5. CASE pc \in {"off", "corrupt"}
      <3>1. Restarted = View(fat, data)
        BY <2>5 DEF Restarted, FatCommit
      <3> QED BY <2>1, <2>5, <3>1 DEF Kept, Known
    <2> QED BY <2>1, <2>2, <2>3, <2>4, <2>5 DEF Typed, HalCall, FatCommit
  <1> QED BY <1>1, PowerInvHolds, PTL

\* Between operations the table in flash is then the one in RAM.
THEOREM TablesAgree ==
    ASSUME SafeAppends, Faults \subseteq {"loss"}
    PROVE  Spec => []RestartAgrees
  <1>1. PowerInv => RestartAgrees
    BY DEF PowerInv, Kept, RestartAgrees
  <1> QED BY <1>1, PowerInvHolds, PTL
=============================================================================
