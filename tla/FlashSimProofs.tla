--------------------------- MODULE FlashSimProofs ---------------------------
(***************************************************************************)
(* Proofs about the flash simulator, for every number of blocks and cells, *)
(* every rated life and every number of calls.                             *)
(***************************************************************************)
EXTENDS FlashSim, TLAPS

Images == [BlockNos -> [Offsets -> Bits]]

(* Programming clears bits only, and stays within a cell. *)
LEMMA AndClears ==
    ASSUME NEW x \in Bits, NEW y \in Bits
    PROVE  AndBits(x, y) \in Bits /\ ~Raises(x, AndBits(x, y))
<1>1. /\ x = 0 \/ x = 1 \/ x = 2 \/ x = 3
      /\ y = 0 \/ y = 1 \/ y = 2 \/ y = 3
  BY DEF Bits
<1>2. /\ 0 % 2 = 0 /\ 1 % 2 = 1 /\ 2 % 2 = 0 /\ 3 % 2 = 1
      /\ 0 \div 2 = 0 /\ 1 \div 2 = 0 /\ 2 \div 2 = 1 /\ 3 \div 2 = 1
  OBVIOUS
<1>3. AndBits(x, y) \in Bits
  BY <1>1, <1>2 DEF AndBits, Bits
<1>4. AndBits(x, AndBits(x, y)) = AndBits(x, y)
  BY <1>1, <1>2 DEF AndBits
<1>5. QED BY <1>3, <1>4 DEF Raises

\* What programming leaves in a cell has its type.
LEMMA StoredType ==
    ASSUME NEW x \in Bits, NEW y \in Bits
    PROVE  Stored(x, y) \in Bits
BY AndClears DEF Stored

\* What a write leaves in the memory has its type.
LEMMA WrittenType ==
    ASSUME image \in Images, NEW first, NEW last, NEW v \in Bits
    PROVE  Written(first, last, v) \in Images
<1>1. ASSUME NEW b \in BlockNos, NEW c \in Offsets
      PROVE  /\ image[b][c] \in Bits
             /\ Stored(image[b][c], v) \in Bits
  <2>1. image[b][c] \in Bits BY DEF Images
  <2>2. QED BY <2>1, StoredType
<1>2. QED BY <1>1 DEF Written, Images

\* An erased block has its type.
LEMMA ErasedType == Erased \in [Offsets -> Bits]
BY DEF Erased, Bits

(***************************************************************************)
(* Type correctness: an erase under way stays within the device.           *)
(***************************************************************************)
LEMMA TypeInit == Init => TypeOK
BY ConstAssumption, ErasedType
   DEF Init, TypeOK, BlankImage, NoWear, BlockNos

\* Every step keeps the types.
LEMMA TypeNext == TypeOK /\ [Next]_vars => TypeOK'
<1> SUFFICES ASSUME TypeOK, [Next]_vars PROVE TypeOK'
  OBVIOUS
<1> USE ConstAssumption
<1>1. CASE Open
  BY <1>1 DEF TypeOK, Open, erasing, NoWear, BlockNos
<1>2. CASE SomeWrite
  <2>1. PICK first \in AllCells, v \in Bits :
            \E last \in first .. NBlocks * NCells - 1 : Write(first, last, v)
    BY <1>2 DEF SomeWrite
  <2>2. PICK last \in first .. NBlocks * NCells - 1 : Write(first, last, v)
    BY <2>1
  <2>3. Written(first, last, v) \in Images
    BY WrittenType DEF TypeOK, Images
  <2>4. QED BY <2>2, <2>3 DEF TypeOK, Write, Call, erasing, Images
<1>3. CASE SomeErase
  <2>1. PICK b \in BlockNos : \E n \in 1 .. NBlocks - b : Erase(b, n)
    BY <1>3 DEF SomeErase
  <2>2. PICK n \in 1 .. NBlocks - b : Erase(b, n)
    BY <2>1
  <2>3. QED BY <2>2 DEF TypeOK, Erase, Call, BlockNos
<1>4. CASE EraseRefused
  BY <1>4 DEF TypeOK, EraseRefused, Return
<1>5. CASE EraseInjected
  BY <1>5 DEF TypeOK, EraseInjected, Return, BlockNos
<1>6. CASE EraseBlock
  <2>1. at \in BlockNos /\ at + 1 \in from .. end /\ from \in 0 .. NBlocks /\ end \in 0 .. NBlocks
    BY <1>6 DEF TypeOK, EraseBlock, BlockNos
  <2>2. image' \in Images
    BY <1>6, <2>1, ErasedType DEF TypeOK, EraseBlock, Images
  <2>3. wear' \in [BlockNos -> Nat]
    BY <1>6, <2>1 DEF TypeOK, EraseBlock
  <2>4. CASE at + 1 = end
    <3>1. bin' = image' /\ unflushed' = {} /\ pc' = "idle" /\ rc' = "ok"
          /\ from' = 0 /\ at' = 0 /\ end' = 0
      BY <1>6, <2>4 DEF EraseBlock, Return
    <3>2. QED BY <1>6, <2>2, <2>3, <3>1 DEF TypeOK, EraseBlock, Images
  <2>5. CASE at + 1 # end
    <3>1. unflushed' = unflushed \cup {at} /\ at' = at + 1 /\ UNCHANGED <<bin, pc, rc, from, end>>
      BY <1>6, <2>5 DEF EraseBlock
    <3>2. QED BY <1>6, <2>1, <2>2, <2>3, <2>5, <3>1 DEF TypeOK, EraseBlock, Images
  <2>6. QED BY <2>4, <2>5
<1>7. CASE Close
  BY <1>7 DEF TypeOK, Close, erasing
<1>8. CASE Kill
  <2>1. bin' \in Images
    <3>1. PICK s \in SUBSET unflushed :
              bin' = [b \in BlockNos |-> IF b \in s THEN image[b] ELSE bin[b]]
      BY <1>8 DEF Kill
    <3>2. QED BY <3>1 DEF TypeOK, Images
  <2>2. QED BY <1>8, <2>1 DEF TypeOK, Kill, Images
<1>9. CASE UNCHANGED vars
  BY <1>9 DEF TypeOK, vars
<1>10. QED
  BY <1>1, <1>2, <1>3, <1>4, <1>5, <1>6, <1>7, <1>8, <1>9 DEF Next

(***************************************************************************)
(* A failed or cut erase leaves a prefix of its blocks blank and the rest  *)
(* as it was: inductive together with the types, since each block is       *)
(* erased at the moment it joins from .. at - 1.                           *)
(***************************************************************************)
LEMMA ErasePrefixNext == TypeOK /\ ErasePrefix /\ [Next]_vars => ErasePrefix'
<1> SUFFICES ASSUME TypeOK, ErasePrefix, [Next]_vars, pc' = "erase"
             PROVE  image' = [b \in BlockNos |->
                        IF b \in from' .. at' - 1 THEN Erased ELSE before'[b]]
  BY DEF ErasePrefix
<1>1. CASE Open
  BY <1>1 DEF Open
<1>2. CASE SomeWrite
  BY <1>2 DEF SomeWrite, Write, Call
<1>3. CASE SomeErase
  <2>1. PICK b \in BlockNos : \E n \in 1 .. NBlocks - b : Erase(b, n)
    BY <1>3 DEF SomeErase
  <2>2. from' = b /\ at' = b /\ before' = image /\ image' = image /\ b \in Int
    BY <2>1 DEF Erase, BlockNos
  <2>3. from' .. at' - 1 = {}
    BY <2>2
  <2>4. QED BY <2>2, <2>3 DEF TypeOK
<1>4. CASE EraseRefused \/ EraseInjected
  BY <1>4 DEF EraseRefused, EraseInjected, Return
<1>5. CASE EraseBlock
  <2>1. /\ image' = [image EXCEPT ![at] = Erased]
        /\ at' = at + 1 /\ from' = from /\ before' = before /\ pc = "erase"
    BY <1>5 DEF EraseBlock, Return
  <2>2. image = [b \in BlockNos |-> IF b \in from .. at - 1 THEN Erased ELSE before[b]]
    BY <2>1 DEF ErasePrefix
  <2>3. from \in Int /\ at \in Int /\ from <= at
    BY DEF TypeOK
  <2>4. \A b \in BlockNos : b \in from .. at <=> b \in from .. at - 1 \/ b = at
    BY <2>3 DEF BlockNos
  <2>5. (at + 1) - 1 = at
    BY <2>3
  <2>6. QED BY <2>1, <2>2, <2>4, <2>5
<1>6. CASE Close \/ Kill
  BY <1>6 DEF Close, Kill
<1>7. CASE UNCHANGED vars
  BY <1>7 DEF vars, ErasePrefix
<1>8. QED
  BY <1>1, <1>2, <1>3, <1>4, <1>5, <1>6, <1>7 DEF Next

(***************************************************************************)
(* Wear never passes the rated life while the device is open: a block at   *)
(* its limit is refused, and re-opening starts the count anew.             *)
(***************************************************************************)
LEMMA WearNext == TypeOK /\ WearBounded /\ [Next]_vars => WearBounded'
<1> SUFFICES ASSUME TypeOK, WearBounded, [Next]_vars, NEW b \in BlockNos
             PROVE  wear'[b] <= Limit
  BY DEF WearBounded
<1>1. CASE Open
  BY <1>1, ConstAssumption DEF Open, NoWear
<1>2. CASE EraseBlock
  <2>1. wear' = [wear EXCEPT ![at] = @ + 1] /\ ~(wear[at] >= Limit)
    BY <1>2 DEF EraseBlock, Worn
  <2>2. wear \in [BlockNos -> Nat] /\ wear[b] <= Limit
    BY DEF TypeOK, WearBounded
  <2>3. QED BY <2>1, <2>2, ConstAssumption
<1>3. CASE UNCHANGED wear
  BY <1>3 DEF WearBounded
<1>4. QED
  BY <1>1, <1>2, <1>3
     DEF Next, vars, SomeWrite, Write, SomeErase, Erase, EraseRefused, EraseInjected, Close, Kill

(***************************************************************************)
(* The BIN file lags only in unflushed blocks: every way out of an erase   *)
(* that returns 0, every write and every opening brings it up to date.     *)
(***************************************************************************)
LEMMA WriteThroughNext == TypeOK /\ WriteThrough /\ [Next]_vars => WriteThrough'
<1> SUFFICES ASSUME TypeOK, WriteThrough, [Next]_vars PROVE WriteThrough'
  OBVIOUS
<1>1. CASE Open
  <2>1. pc = "closed" /\ image' = bin /\ bin' = bin /\ unflushed' = unflushed
    BY <1>1 DEF Open
  <2>2. QED BY <1>1, <2>1 DEF Open, WriteThrough
<1>2. CASE SomeWrite
  BY <1>2 DEF SomeWrite, Write, Call, WriteThrough
<1>3. CASE SomeErase
  BY <1>3 DEF SomeErase, Erase, Call, WriteThrough
<1>4. CASE EraseRefused \/ EraseInjected
  BY <1>4 DEF EraseRefused, EraseInjected, Return, WriteThrough
<1>5. CASE EraseBlock
  <2>1. CASE at + 1 = end
    BY <1>5, <2>1 DEF EraseBlock, Return, WriteThrough
  <2>2. CASE at + 1 # end
    <3>1. /\ bin' = bin /\ pc' = "erase" /\ unflushed' = unflushed \cup {at}
          /\ image' = [image EXCEPT ![at] = Erased]
      BY <1>5, <2>2 DEF EraseBlock
    <3>2. \A b \in BlockNos \ unflushed' : bin[b] = image[b] /\ image'[b] = image[b]
      BY <1>5, <3>1 DEF WriteThrough, TypeOK, EraseBlock
    <3>3. QED BY <3>1, <3>2 DEF WriteThrough
  <2>3. QED BY <2>1, <2>2
<1>6. CASE Close \/ Kill
  BY <1>6 DEF Close, Kill, WriteThrough
<1>7. CASE UNCHANGED vars
  BY <1>7 DEF vars, WriteThrough
<1>8. QED
  BY <1>1, <1>2, <1>3, <1>4, <1>5, <1>6, <1>7 DEF Next

(***************************************************************************)
(* What one step may do to the image.                                      *)
(***************************************************************************)
(* No step but a counted erase raises a bit while the device is open. *)
LEMMA RiseStep == TypeOK /\ [Next]_vars => RiseOnlyByErase
<1> SUFFICES ASSUME TypeOK, [Next]_vars, type = "NOR", pc # "closed",
                    NEW b \in BlockNos, NEW c \in Offsets,
                    Raises(image[b][c], image'[b][c])
             PROVE  image'[b] = Erased /\ b \notin bad /\ wear'[b] = wear[b] + 1
  BY DEF RiseOnlyByErase
<1>1. image[b][c] \in Bits /\ image[b] \in [Offsets -> Bits]
  BY DEF TypeOK
<1>2. ~Raises(image[b][c], image[b][c])
  <2>1. \A x \in Bits : x = 0 \/ x = 1 \/ x = 2 \/ x = 3
    BY DEF Bits
  <2>2. /\ 0 % 2 = 0 /\ 1 % 2 = 1 /\ 2 % 2 = 0 /\ 3 % 2 = 1
        /\ 0 \div 2 = 0 /\ 1 \div 2 = 0 /\ 2 \div 2 = 1 /\ 3 \div 2 = 1
    OBVIOUS
  <2>3. QED BY <1>1, <2>1, <2>2 DEF Raises, AndBits
<1>3. CASE SomeWrite
  <2>1. PICK first \in AllCells, v \in Bits :
            \E last \in first .. NBlocks * NCells - 1 : Write(first, last, v)
    BY <1>3 DEF SomeWrite
  <2>2. PICK last \in first .. NBlocks * NCells - 1 : Write(first, last, v)
    BY <2>1
  <2>3. image'[b][c] = image[b][c] \/ image'[b][c] = AndBits(image[b][c], v)
    <3>1. image' = image \/ image' = Written(first, last, v)
      BY <2>2 DEF Write
    <3>2. Written(first, last, v)[b][c] \in {image[b][c], Stored(image[b][c], v)}
      BY DEF Written
    <3>3. QED BY <3>1, <3>2 DEF Stored
  <2>4. QED BY <1>1, <1>2, <2>1, <2>3, AndClears
<1>4. CASE EraseBlock
  <2>1. image' = [image EXCEPT ![at] = Erased] /\ wear' = [wear EXCEPT ![at] = @ + 1]
        /\ at \notin bad
    BY <1>4 DEF EraseBlock
  <2>2. b = at
    BY <1>2, <2>1 DEF TypeOK
  <2>3. QED BY <2>1, <2>2 DEF TypeOK
<1>5. CASE UNCHANGED image
  BY <1>2, <1>5
<1>6. QED
  BY <1>3, <1>4, <1>5
     DEF Next, vars, Open, SomeErase, Erase, EraseRefused, EraseInjected, Close, Kill

(* A cell of block b lies in no run of cells whose blocks exclude b. *)
LEMMA CellBlock ==
    ASSUME NEW b \in BlockNos, NEW c \in Offsets, NEW first \in Nat, NEW last \in Nat,
           b * NCells + c \in first .. last
    PROVE  b \in Touched(first, last)
<1> DEFINE x == b * NCells + c
<1>1. NCells \in Nat /\ NCells > 0 /\ b \in Nat /\ c \in Nat /\ c < NCells
  BY ConstAssumption DEF BlockNos, Offsets
<1>2. x \in Nat /\ first <= x /\ x <= last
  BY <1>1
<1>3. x \div NCells = b
  BY <1>1
<1>4. \A m, n \in Nat : m <= n => m \div NCells <= n \div NCells
  BY <1>1
<1>5. first \div NCells <= b /\ b <= last \div NCells
  BY <1>2, <1>3, <1>4
<1>6. first \div NCells \in Int /\ last \div NCells \in Int
  BY <1>1
<1>7. QED BY <1>1, <1>5, <1>6 DEF Touched

(* No step of an open device changes a block that is bad. *)
LEMMA BadStep ==
    TypeOK /\ [Next]_vars => (pc # "closed" => \A b \in bad : image'[b] = image[b])
<1> SUFFICES ASSUME TypeOK, [Next]_vars, pc # "closed", NEW b \in bad
             PROVE  image'[b] = image[b]
  OBVIOUS
<1>1. b \in BlockNos /\ image[b] \in [Offsets -> Bits] /\ image \in Images
  BY DEF TypeOK, Images
<1>2. CASE SomeWrite
  <2>1. PICK first \in AllCells, v \in Bits :
            \E last \in first .. NBlocks * NCells - 1 : Write(first, last, v)
    BY <1>2 DEF SomeWrite
  <2>2. PICK last \in first .. NBlocks * NCells - 1 : Write(first, last, v)
    BY <2>1
  <2>3. CASE image' = Written(first, last, v) /\ b \notin Touched(first, last)
    <3>1. first \in Nat /\ last \in Nat
      BY <2>1, <2>2 DEF AllCells
    <3>2. \A c \in Offsets : b * NCells + c \notin first .. last
      BY <1>1, <2>3, <3>1, CellBlock
    <3>3. Written(first, last, v)[b] = [c \in Offsets |-> image[b][c]]
      BY <1>1, <3>2 DEF Written
    <3>4. QED BY <1>1, <2>3, <3>3
  <2>4. QED BY <2>2, <2>3 DEF Write
<1>3. CASE EraseBlock
  BY <1>1, <1>3 DEF EraseBlock, Images
<1>4. CASE UNCHANGED image
  BY <1>4
<1>5. QED
  BY <1>2, <1>3, <1>4
     DEF Next, vars, Open, SomeErase, Erase, EraseRefused, EraseInjected, Close, Kill

(***************************************************************************)
(* The theorems.                                                           *)
(***************************************************************************)
(* Every variable keeps its type: no erase runs past the device. *)
THEOREM TypeCorrect == Spec => []TypeOK
<1>1. QED BY TypeInit, TypeNext, PTL DEF Spec

(* A failed or cut erase has erased a prefix of its blocks and nothing else. *)
THEOREM ErasesArePrefixes == Spec => []ErasePrefix
<1>1. Init => ErasePrefix
  BY DEF Init, ErasePrefix
<1>2. QED BY <1>1, TypeCorrect, ErasePrefixNext, PTL DEF Spec

(* No block is erased beyond its rated life while the device is open. *)
THEOREM WearIsBounded == Spec => []WearBounded
<1>1. Init => WearBounded
  BY ConstAssumption DEF Init, WearBounded, NoWear
<1>2. QED BY <1>1, TypeCorrect, WearNext, PTL DEF Spec

(* What a call acknowledged is in the BIN file. *)
THEOREM FileKeepsUp == Spec => []WriteThrough
<1>1. Init => WriteThrough
  BY DEF Init, WriteThrough
<1>2. QED BY <1>1, TypeCorrect, WriteThroughNext, PTL DEF Spec

(* On NOR a bit rises only in a counted erase of a good block. *)
THEOREM BitsOnlyFall == Spec => BitsFall
<1>1. TypeOK /\ [Next]_vars => [RiseOnlyByErase]_vars
  BY RiseStep
<1>2. QED BY <1>1, TypeCorrect, PTL DEF Spec, BitsFall

(* A bad block keeps its contents as long as the device is open. *)
THEOREM BadBlocksFreeze == Spec => BadFrozen
<1>1. TypeOK /\ [Next]_vars
        => [pc # "closed" => \A b \in bad : image'[b] = image[b]]_vars
  BY BadStep
<1>2. QED BY <1>1, TypeCorrect, PTL DEF Spec, BadFrozen
=============================================================================
