--------------------------- MODULE BmConfigProofs ---------------------------
(***************************************************************************)
(* Proofs about the A/B configuration store, for every set of payloads,    *)
(* every sequence-number width and every number of saves.                  *)
(***************************************************************************)
EXTENDS BmConfig, FiniteSetTheorems, TLAPS

(* Whatever a HAL call leaves in a partition, the partition has cell type. *)
LEMMA CutTypes ==
    ASSUME NEW c \in Cells
    PROVE  /\ Erased \in Cells
           /\ CutErase(c) \subseteq Cells
           /\ \A v \in Payload, h \in Headers :
                /\ CutData(c, v) \subseteq Cells /\ ProgramData(c, v) \in Cells
                /\ CutHdr(c, h) \subseteq Cells /\ ProgramHdr(c, h) \in Cells
<1>1. BlankHdr \in Headers /\ GarbageHdr \in Headers /\ Erased \in Cells
  BY DEF Erased, Cells, Headers
<1>2. c.hdr \in Headers /\ c.data \in Payload \cup {Blank, Garbage}
  BY DEF Cells
<1>3. CutErase(c) \subseteq Cells
  BY <1>1, <1>2 DEF CutErase, Cells
<1>4. ASSUME NEW v \in Payload
      PROVE  ProgramData(c, v) \in Cells /\ CutData(c, v) \subseteq Cells
  BY <1>2 DEF ProgramData, CutData, Cells
<1>5. ASSUME NEW h \in Headers
      PROVE  ProgramHdr(c, h) \in Cells /\ CutHdr(c, h) \subseteq Cells
  BY <1>1, <1>2 DEF ProgramHdr, CutHdr, Cells
<1>6. QED BY <1>1, <1>3, <1>4, <1>5

(* The header a save writes is a header, whatever the width of seq. *)
LEMMA NewHeaderType ==
    ASSUME NEW c, c.cur_seq \in 0 .. SeqMod - 1, NEW v \in Payload
    PROVE  /\ NewSeq(c) \in 0 .. SeqMod - 1
           /\ NewHeader(c, v) \in Headers
<1>1. NewSeq(c) \in 0 .. SeqMod - 1
  BY ConstAssumption DEF NewSeq
<1>2. QED BY <1>1 DEF NewHeader, Headers

(***************************************************************************)
(* Type correctness.  The strengthening says that a save in progress has a *)
(* payload to write.                                                       *)
(***************************************************************************)
TypeInv == TypeOK /\ (InSave => arg \in Payload)

\* Types hold at first.
LEMMA TypeInit == Init => TypeInv
<1>1. Erased \in Cells
  BY DEF Erased, Cells, Headers
<1>2. [p \in Parts |-> Erased] \in [Parts -> Cells]
  BY <1>1
<1>3. NoCtx \in [cur_part : {-1, 0, 1}, cur_seq : 0 .. SeqMod - 1]
  BY ConstAssumption DEF NoCtx
<1>4. NoFaults \in [damage : 0 .. MaxDamage, flips : 0 .. MaxSeqFlips,
                   reads : 0 .. MaxReadFaults]
  BY ConstAssumption DEF NoFaults
<1>5. 0 \in Parts
  BY DEF Parts
<1>. SUFFICES ASSUME Init PROVE TypeInv
  OBVIOUS
<1>6. part \in [Parts -> Cells]
  BY <1>2 DEF Init
<1>7. ctx \in [cur_part : {-1, 0, 1}, cur_seq : 0 .. SeqMod - 1]
  BY <1>3 DEF Init
<1>8. faults \in [damage : 0 .. MaxDamage, flips : 0 .. MaxSeqFlips,
                 reads : 0 .. MaxReadFaults]
  BY <1>4 DEF Init
<1>9. saves \in 0 .. MaxSaves
  BY ConstAssumption DEF Init
<1>. QED BY <1>5, <1>6, <1>7, <1>8, <1>9 DEF Init, TypeInv, TypeOK, InSave

\* The reads that fail in a load stay within their bound.
LEMMA ReadFaultsType ==
    ASSUME TypeOK, NEW unread \in SUBSET Parts, ReadFaults(unread)
    PROVE  faults' \in [damage : 0 .. MaxDamage, flips : 0 .. MaxSeqFlips,
                        reads : 0 .. MaxReadFaults]
<1>1. IsFiniteSet(Parts)
  <2>1. IsFiniteSet({}) /\ Parts = ({} \cup {0}) \cup {1}
    BY FS_EmptySet DEF Parts
  <2>2. IsFiniteSet({} \cup {0})
    BY <2>1, FS_AddElement
  <2>3. QED BY <2>1, <2>2, FS_AddElement
<1>2. Cardinality(unread) \in Nat
  BY <1>1, FS_Subset, FS_CardinalityType
<1>3. QED BY <1>2, ConstAssumption DEF ReadFaults, TypeOK

\* Every step keeps the types.
LEMMA TypeStep == TypeInv /\ [Next]_vars => TypeInv'
<1> SUFFICES ASSUME TypeInv, [Next]_vars PROVE TypeInv'
  OBVIOUS
<1> USE DEF TypeInv
<1>a. /\ \A p \in Parts : part[p] \in Cells
      /\ \A p \in Parts, x \in Cells : [part EXCEPT ![p] = x] \in [Parts -> Cells]
  BY DEF TypeOK
<1>b. target \in Parts /\ 0 \in Parts /\ 1 \in Parts
  BY DEF TypeOK, Parts
<1>c. Erased \in Cells /\ \A p \in Parts : CutErase(part[p]) \subseteq Cells
  BY <1>a, <1>b, CutTypes
<1>d. InSave => /\ NewHeader(ctx, arg) \in Headers /\ NewSeq(ctx) \in 0 .. SeqMod - 1
                /\ CutData(part[target], arg) \subseteq Cells
                /\ ProgramData(part[target], arg) \in Cells
                /\ CutHdr(part[target], NewHeader(ctx, arg)) \subseteq Cells
                /\ ProgramHdr(part[target], NewHeader(ctx, arg)) \in Cells
  <2> SUFFICES ASSUME InSave PROVE NewHeader(ctx, arg) \in Headers
                /\ NewSeq(ctx) \in 0 .. SeqMod - 1
                /\ part[target] \in Cells /\ arg \in Payload
    BY CutTypes
  <2> ctx.cur_seq \in 0 .. SeqMod - 1
    BY DEF TypeOK
  <2> QED BY <1>a, <1>b, NewHeaderType
<1>1. CASE SomeInit
  <2>1. PICK unread \in SUBSET Parts : ConfigInit(unread)
    BY <1>1 DEF SomeInit
  <2>2. ctx' \in [cur_part : {-1, 0, 1}, cur_seq : 0 .. SeqMod - 1]
    <3>1. \A p \in Parts : part[p].hdr.seq \in 0 .. SeqMod - 1
      BY <1>a, ConstAssumption DEF Cells, Headers, BlankHdr, GarbageHdr
    <3>2. \A valid : Chosen(part, valid) \in {-1, 0, 1}
      BY DEF Chosen
    <3>. QED BY <2>1, <3>1, <3>2, <1>b, ConstAssumption DEF ConfigInit, Parts
  <2>3. Recovered \in Payload \cup {NoValue}
    <3>1. \A p \in Parts : Valid(part[p]) => part[p].data \in Payload
      BY <1>a DEF Valid, Cells, Headers, BlankHdr, GarbageHdr
    <3>. QED BY <3>1, <1>b DEF Recovered, RecoveredFrom, Chosen, ValidIn
  <2>. QED BY <2>1, <2>2, <2>3, ReadFaultsType DEF ConfigInit, TypeOK, InSave
<1>2. CASE SomeLoad
  <2>1. PICK unread \in SUBSET Parts : ConfigLoad(unread)
    BY <1>2 DEF SomeLoad
  <2>2. \A p \in Parts : Valid(part[p]) =>
            part[p].data \in Payload /\ part[p].hdr.seq \in 0 .. SeqMod - 1
    BY <1>a, ConstAssumption DEF Valid, Cells, Headers, BlankHdr, GarbageHdr
  <2>3. /\ ctx' \in [cur_part : {-1, 0, 1}, cur_seq : 0 .. SeqMod - 1]
        /\ out' \in Payload \cup {NoValue}
    BY <2>1, <2>2 DEF ConfigLoad, TypeOK, Other, Parts, ValidParts, ValidIn
  <2>. QED BY <2>1, <2>3, ReadFaultsType DEF ConfigLoad, TypeOK, InSave, history
<1>3. CASE SomeSave
  <2>1. PICK v \in Payload : Save(v)
    BY <1>3 DEF SomeSave
  <2>2. SaveTarget(ctx) \in Parts
    BY DEF SaveTarget, Parts
  <2>. QED BY <2>1, <2>2, ConstAssumption DEF Save, TypeOK, InSave
<1>4. CASE SaveErase
  BY <1>4, <1>a, <1>b, <1>c DEF SaveErase, Return, TypeOK, InSave, history, Parts
<1>5. CASE SavePayload
  BY <1>5, <1>a, <1>b, <1>d DEF SavePayload, Return, TypeOK, InSave, history, Parts
<1>6. CASE SaveHeader
  <2>1. InSave
    BY <1>6 DEF SaveHeader, InSave
  <2>2. part' \in [Parts -> Cells]
    BY <1>6, <1>a, <1>b, <1>d, <2>1 DEF SaveHeader
  <2>3. ctx' \in [cur_part : {-1, 0, 1}, cur_seq : 0 .. SeqMod - 1]
    BY <1>6, <1>b, <1>d, <2>1 DEF SaveHeader, TypeOK, Parts
  <2>. QED BY <1>6, <2>1, <2>2, <2>3 DEF SaveHeader, Return, TypeOK, InSave, Parts
<1>7. CASE Reset
  BY <1>7 DEF Reset, TypeOK, InSave
<1>8. CASE ResetA
  BY <1>8, <1>a, <1>b, <1>c DEF ResetA, TypeOK, InSave, history
<1>9. CASE ResetB
  <2>1. part' \in [Parts -> Cells]
    BY <1>9, <1>a, <1>b, <1>c DEF ResetB
  <2>2. NoCtx \in [cur_part : {-1, 0, 1}, cur_seq : 0 .. SeqMod - 1]
    BY ConstAssumption DEF NoCtx
  <2>. QED BY <1>9, <2>1, <2>2 DEF ResetB, TypeOK, InSave, history
<1>10. CASE PowerLoss
  <2>1. part' \in [Parts -> Cells]
    BY <1>10, <1>a, <1>b, <1>c, <1>d DEF PowerLoss, CutParts, InSave, TypeOK
  <2>. QED BY <1>10, <2>1, ConstAssumption DEF PowerLoss, TypeOK, InSave, NoCtx, history, Parts
<1>11. CASE \E p \in Parts : Damage(p)
  BY <1>11, ConstAssumption DEF Damage, TypeOK, InSave, history, Cells
<1>12. CASE \E p \in Parts, s \in 0 .. SeqMod - 1 : SeqFlip(p, s)
  <2>1. PICK p \in Parts, s \in 0 .. SeqMod - 1 : SeqFlip(p, s)
    BY <1>12
  <2>2. part[p].hdr \in [magic : {"ok"}, seq : 0 .. SeqMod - 1, crc : Payload]
    BY <2>1, <1>a DEF SeqFlip, Cells, Headers, BlankHdr, GarbageHdr
  <2>3. [part[p].hdr EXCEPT !.seq = s] \in Headers
    BY <2>2 DEF Headers
  <2>4. [part[p] EXCEPT !.hdr = [part[p].hdr EXCEPT !.seq = s]] \in Cells
    BY <2>3, <1>a DEF Cells
  <2>5. part' \in [Parts -> Cells]
    BY <2>1, <2>4, <1>a DEF SeqFlip
  <2>6. faults' \in [damage : 0 .. MaxDamage, flips : 0 .. MaxSeqFlips,
                     reads : 0 .. MaxReadFaults]
    BY <2>1, ConstAssumption DEF SeqFlip, TypeOK
  <2>. QED BY <2>1, <2>5, <2>6 DEF SeqFlip, TypeOK, InSave, history
<1>13. CASE UNCHANGED vars
  BY <1>13 DEF vars, TypeOK, InSave
<1>14. QED
  BY <1>1, <1>2, <1>3, <1>4, <1>5, <1>6, <1>7, <1>8, <1>9, <1>10, <1>11, <1>12, <1>13
     DEF Next

(* Every variable of the store keeps its type. *)
THEOREM TypeCorrect == Spec => []TypeOK
<1>1. TypeInv => TypeOK
  BY DEF TypeInv
<1>2. QED BY <1>1, TypeInit, TypeStep, PTL DEF Spec

-----------------------------------------------------------------------------
(***************************************************************************)
(* Durability.  Five facts about Consistent, then the invariant.           *)
(***************************************************************************)

(* Two partitions that agree with the handle never tie on seq, and what    *)
(* init would choose is acknowledged or pending.                           *)
LEMMA RecoveredConsistent ==
    ASSUME NEW pt, NEW c, NEW s, NEW vis, NEW pend, NEW unf \in BOOLEAN, NEW ev,
           NEW n \in Nat, Consistent(pt, c, s, vis, pend, unf, ev, n)
    PROVE  /\ RecoveredFrom(pt) \in vis \cup pend
           /\ Valid(pt[0]) /\ Valid(pt[1]) => pt[0].hdr.seq # pt[1].hdr.seq
<1>1. \A p \in Parts : pt[p].hdr.seq \in Int
  BY ConstAssumption DEF Consistent, Cells, Headers, BlankHdr, GarbageHdr
<1>2. /\ 0 \in ValidIn(pt) <=> Valid(pt[0])
      /\ 1 \in ValidIn(pt) <=> Valid(pt[1])
      /\ pt[0].hdr.seq \in Int /\ pt[1].hdr.seq \in Int
      /\ Other(0) = 1 /\ Other(1) = 0 /\ 0 # -1 /\ 1 # -1
      /\ s \in Int
  BY <1>1 DEF ValidIn, Parts, Other, Consistent
<1>3. CASE c = -1
  BY <1>2, <1>3 DEF Consistent, RecoveredFrom, Chosen
<1>4. CASE c = 0
  BY <1>2, <1>4 DEF Consistent, RecoveredFrom, Chosen, Parts
<1>5. CASE c = 1
  BY <1>2, <1>5 DEF Consistent, RecoveredFrom, Chosen, Parts
<1>. QED BY <1>3, <1>4, <1>5 DEF Consistent

Changed(qt, pt, p, x) == qt = [pt EXCEPT ![p] = x]

(* A partition may lose its content, or become the next save, without       *)
(* disturbing the rest; the one in force may only lose it after a reset.   *)
LEMMA CellChange ==
    ASSUME NEW pt, NEW c, NEW s, NEW vis, NEW pend, NEW unf \in BOOLEAN, NEW ev,
           NEW n \in Nat, Consistent(pt, c, s, vis, pend, unf, ev, n),
           NEW p \in Parts, NEW x \in Cells, NEW qt, Changed(qt, pt, p, x),
           \/ Valid(x) => x = pt[p]
           \/ /\ x.hdr.seq = s + 1 /\ s + 1 <= n /\ x.data \in pend
              /\ p = IF c = 0 THEN 1 ELSE 0,
           p = c => unf
    PROVE  Consistent(qt, c, s, vis, pend, unf, ev, n)
<1>1. /\ qt \in [Parts -> Cells] /\ qt[p] = x
      /\ \A q \in Parts : q # p => qt[q] = pt[q]
  BY DEF Consistent, Changed
<1>3. /\ 0 \in Parts /\ 1 \in Parts /\ Other(0) = 1 /\ Other(1) = 0
      /\ 0 # -1 /\ 1 # -1 /\ s \in Int /\ (p = 0 \/ p = 1) /\ c \in {-1, 0, 1}
  BY DEF Parts, Other, Consistent
<1>4. \A q \in Parts : Valid(qt[q]) => qt[q].data \in ev /\ qt[q].hdr.seq <= n
  BY <1>1 DEF Consistent
<1>5. CASE c = -1
  BY <1>1, <1>3, <1>4, <1>5 DEF Consistent, Parts
<1>6. CASE c = 0
  BY <1>1, <1>3, <1>4, <1>6 DEF Consistent, Parts
<1>7. CASE c = 1
  BY <1>1, <1>3, <1>4, <1>7 DEF Consistent, Parts
<1>. QED BY <1>3, <1>5, <1>6, <1>7

(* A cut erase leaves a partition that checks only if it touched nothing;  *)
(* a cut payload one that does not; a cut header nothing, or all of it.    *)
LEMMA CutValid ==
    /\ \A c \in Cells : \A x \in CutErase(c) : Valid(x) => x = c
    /\ \A v \in Payload : \A x \in CutData(Erased, v) : ~Valid(x)
    /\ \A v \in Payload, h \in Headers :
         \A x \in CutHdr([hdr |-> BlankHdr, data |-> v], h) :
           Valid(x) => x.hdr = h /\ x.data = v
<1>1. ASSUME NEW c \in Cells, NEW x \in CutErase(c), Valid(x) PROVE x = c
  <2>1. PICK h \in {c.hdr, GarbageHdr, BlankHdr}, d \in {c.data, Garbage, Blank} :
            x = [hdr |-> h, data |-> d]
    BY DEF CutErase
  <2>2. c.hdr \in Headers /\ c = [hdr |-> c.hdr, data |-> c.data]
    BY DEF Cells
  <2>3. h = c.hdr /\ h \in [magic : {"ok"}, seq : 0 .. SeqMod - 1, crc : Payload]
    BY <1>1, <2>1, <2>2 DEF Valid, Headers, BlankHdr, GarbageHdr
  <2>4. d = c.data
    BY <1>1, <2>1, <2>3, ConstAssumption DEF Valid
  <2>. QED BY <2>1, <2>2, <2>3, <2>4
<1>2. ASSUME NEW v \in Payload, NEW x \in CutData(Erased, v) PROVE ~Valid(x)
  BY DEF CutData, ProgramData, Erased, BlankHdr, Valid
<1>3. ASSUME NEW v \in Payload, NEW h \in Headers,
             NEW x \in CutHdr([hdr |-> BlankHdr, data |-> v], h), Valid(x)
      PROVE  x.hdr = h /\ x.data = v
  BY <1>3 DEF CutHdr, ProgramHdr, BlankHdr, GarbageHdr, Valid
<1>. QED BY <1>1, <1>2, <1>3

(* After a boot the handle init computes agrees with flash. *)
LEMMA BootConsistent ==
    ASSUME NEW pt, NEW c, NEW s, NEW vis, NEW pend, NEW unf \in BOOLEAN, NEW ev,
           NEW n \in Nat, Consistent(pt, c, s, vis, pend, unf, ev, n)
    PROVE  LET d == Chosen(pt, ValidIn(pt))
           IN  Consistent(pt, d, IF d = -1 THEN 0 ELSE pt[d].hdr.seq,
                          {RecoveredFrom(pt)}, {}, FALSE, ev, n)
<1>1. \A p \in Parts : pt[p].hdr.seq \in Nat
  BY ConstAssumption DEF Consistent, Cells, Headers, BlankHdr, GarbageHdr
<1>2. /\ 0 \in ValidIn(pt) <=> Valid(pt[0])
      /\ 1 \in ValidIn(pt) <=> Valid(pt[1])
      /\ pt[0].hdr.seq \in Nat /\ pt[1].hdr.seq \in Nat
      /\ Other(0) = 1 /\ Other(1) = 0 /\ 0 # -1 /\ 1 # -1
      /\ 0 \in Parts /\ 1 \in Parts
  BY <1>1 DEF ValidIn, Parts, Other
<1>3. Valid(pt[0]) /\ Valid(pt[1]) => pt[0].hdr.seq # pt[1].hdr.seq
  BY RecoveredConsistent
<1> DEFINE d == Chosen(pt, ValidIn(pt))
<1>4. CASE d = -1
  BY <1>2, <1>4 DEF Consistent, RecoveredFrom, Chosen
<1>5. CASE d = 0
  BY <1>2, <1>3, <1>5 DEF Consistent, RecoveredFrom, Chosen
<1>6. CASE d = 1
  BY <1>2, <1>3, <1>6 DEF Consistent, RecoveredFrom, Chosen
<1>. QED BY <1>4, <1>5, <1>6 DEF Chosen

(* The header that lands makes the target the partition in force. *)
LEMMA AckConsistent ==
    ASSUME NEW pt, NEW c, NEW s, NEW vis, NEW pend, NEW unf \in BOOLEAN, NEW ev,
           NEW n \in Nat, Consistent(pt, c, s, vis, pend, unf, ev, n),
           NEW p \in Parts, p = 1 <=> c = 0,
           NEW x \in Cells, x.hdr.seq = s + 1, s + 1 <= n, x.data \in pend, Valid(x),
           NEW qt, Changed(qt, pt, p, x), NEW vis2, vis2 = {x.data},
           NEW pend2 \in SUBSET {}, NEW unf2 \in BOOLEAN, ~unf2
    PROVE  Consistent(qt, p, s + 1, vis2, pend2, unf2, ev, n)
<1>2. p = IF c = 0 THEN 1 ELSE 0
  BY DEF Parts
<1>3. /\ 0 \in Parts /\ 1 \in Parts /\ Other(0) = 1 /\ Other(1) = 0
      /\ 0 # -1 /\ 1 # -1 /\ s \in Nat /\ c \in {-1, 0, 1}
  BY DEF Parts, Other, Consistent
<1>1. /\ qt \in [Parts -> Cells] /\ qt[p] = x
      /\ \A q \in Parts : q # p => qt[q] = pt[q]
  BY <1>2, <1>3 DEF Consistent, Changed
<1>4. \A q \in Parts : Valid(qt[q]) => qt[q].data \in ev /\ qt[q].hdr.seq <= n
  BY <1>1 DEF Consistent
<1>. QED
  BY <1>1, <1>2, <1>3, <1>4 DEF Consistent

(* Asking for a save adds a pending value and raises the bound on seq. *)
LEMMA BeginConsistent ==
    ASSUME NEW pt, NEW c, NEW s, NEW vis, NEW pend, NEW unf \in BOOLEAN, NEW ev,
           NEW n \in Nat, Consistent(pt, c, s, vis, pend, unf, ev, n),
           NEW v \in Payload
    PROVE  Consistent(pt, c, s, vis, pend \cup {v}, unf, ev \cup {v}, n + 1)
<1>1. /\ 0 \in Parts /\ 1 \in Parts /\ Other(0) = 1 /\ Other(1) = 0
      /\ 0 # -1 /\ 1 # -1 /\ s \in 0 .. n + 1 /\ c \in {-1, 0, 1}
  BY DEF Parts, Other, Consistent
<1>2. \A p \in Parts : pt[p].hdr.seq \in Int
  BY ConstAssumption DEF Consistent, Cells, Headers, BlankHdr, GarbageHdr
<1>3. \A p \in Parts : Valid(pt[p]) =>
            pt[p].data \in ev \cup {v} /\ pt[p].hdr.seq <= n + 1
  BY <1>2 DEF Consistent
<1>4. CASE c = -1
  BY <1>1, <1>3, <1>4 DEF Consistent
<1>5. CASE c = 0
  BY <1>1, <1>3, <1>5 DEF Consistent
<1>6. CASE c = 1
  BY <1>1, <1>3, <1>6 DEF Consistent
<1>. QED BY <1>1, <1>4, <1>5, <1>6

Agree(c, s) == Consistent(part, c, s, visible, pending, unfinished, ever, saves)

\* The invariant holds at first.
LEMMA IInvInit == Init => IInv
<1> SUFFICES ASSUME Init PROVE IInv
  OBVIOUS
<1>1. TypeOK
  BY TypeInit DEF TypeInv
<1>2. Erased \in Cells /\ ~Valid(Erased)
  BY DEF Erased, Cells, Headers, Valid, BlankHdr
<1>3. Consistent(part, -1, 0, visible, pending, unfinished, ever, saves)
  BY <1>1, <1>2 DEF Init, Consistent, TypeOK, Parts
<1>4. Steps
  BY DEF Init, Steps, InSave
<1>. QED BY <1>1, <1>3, <1>4 DEF IInv, Init

(* Reading is exact when no HAL read may fail. *)
LEMMA NoReadFaults ==
    ASSUME SoundMedium, TypeOK, NEW unread \in SUBSET Parts, ReadFaults(unread)
    PROVE  unread = {}
<1>1. IsFiniteSet(unread)
  <2>1. IsFiniteSet({}) /\ Parts = ({} \cup {0}) \cup {1}
    BY FS_EmptySet DEF Parts
  <2>2. IsFiniteSet({} \cup {0})
    BY <2>1, FS_AddElement
  <2>3. QED BY <2>1, <2>2, FS_AddElement, FS_Subset
<1>2. Cardinality(unread) \in Nat
  BY <1>1, FS_CardinalityType
<1>3. faults.reads \in 0 .. 0
  BY DEF SoundMedium, TypeOK
<1>4. Cardinality(unread) = 0
  BY <1>2, <1>3 DEF ReadFaults, SoundMedium
<1>. QED BY <1>1, <1>4, FS_EmptySet

\* Every step on a sound medium preserves the invariant.
LEMMA IInvStep == SoundMedium /\ IInv /\ [Next]_vars => IInv'
<1> SUFFICES ASSUME SoundMedium, IInv, [Next]_vars PROVE IInv'
  OBVIOUS
<1>a. TypeOK /\ TypeOK'
  <2>1. pending \subseteq Payload
    BY DEF IInv, TypeOK
  <2>2. TypeInv
    BY <2>1 DEF IInv, TypeInv, Steps
  <2>. QED BY <2>2, TypeStep DEF TypeInv
<1>b. /\ unfinished \in BOOLEAN /\ saves \in Nat /\ target \in Parts
      /\ \A p \in Parts : part[p] \in Cells
      /\ 0 \in Parts /\ 1 \in Parts
  BY <1>a, ConstAssumption DEF TypeOK, Parts
<1>c. pc # "off" => Agree(ctx.cur_part, ctx.cur_seq)
  BY DEF IInv, Agree
<1>d. pc # "off" => ctx.cur_part \in {-1, 0, 1} /\ ctx.cur_seq \in 0 .. saves
  BY <1>c DEF Agree, Consistent
<1>e. Steps
  BY DEF IInv
<1>1. CASE SomeInit
  <2>1. PICK unread \in SUBSET Parts : ConfigInit(unread)
    BY <1>1 DEF SomeInit
  <2>2. unread = {}
    BY <2>1, <1>a, NoReadFaults DEF ConfigInit
  <2>3. PICK c \in {-1, 0, 1}, s \in 0 .. saves : Agree(c, s)
    BY <2>1 DEF ConfigInit, IInv, Agree
  <2>4. Consistent(part, ctx'.cur_part, ctx'.cur_seq,
                   {RecoveredFrom(part)}, {}, FALSE, ever, saves)
    BY <2>1, <2>2, <2>3, <1>b, BootConsistent DEF ConfigInit, Agree, ValidParts
  <2>5. Steps'
    BY <2>1 DEF ConfigInit, Steps, InSave
  <2>. QED BY <2>1, <2>4, <2>5, <1>a DEF ConfigInit, IInv, Recovered
<1>2. CASE SomeLoad
  <2>1. PICK unread \in SUBSET Parts : ConfigLoad(unread)
    BY <1>2 DEF SomeLoad
  <2>2. unread = {}
    BY <2>1, <1>a, NoReadFaults DEF ConfigLoad
  <2>3. Consistent(part, ctx'.cur_part, ctx'.cur_seq,
                   visible, pending, unfinished, ever, saves)
    <3> DEFINE c == ctx.cur_part
               s == ctx.cur_seq
    <3>1. /\ 0 \in ValidParts <=> Valid(part[0])
          /\ 1 \in ValidParts <=> Valid(part[1])
          /\ Other(0) = 1 /\ Other(1) = 0 /\ 0 # -1 /\ 1 # -1
          /\ part[0].hdr.seq \in Nat /\ part[1].hdr.seq \in Nat
          /\ ValidParts \ unread = ValidParts
      BY <1>b, <2>2, ConstAssumption
         DEF ValidParts, ValidIn, Parts, Other, Cells, Headers, BlankHdr, GarbageHdr
    <3>2. Agree(c, s)
      BY <2>1, <1>c DEF ConfigLoad
    <3>3. CASE UNCHANGED ctx
      BY <3>2, <3>3 DEF Agree
    <3>4. CASE /\ c # -1 /\ c \notin ValidParts /\ Other(c) \in ValidParts
               /\ ctx' = [cur_part |-> Other(c), cur_seq |-> part[Other(c)].hdr.seq]
      <4>1. ctx'.cur_part = Other(c) /\ ctx'.cur_seq = part[Other(c)].hdr.seq
        BY <3>4
      <4>. QED BY <3>1, <3>2, <3>4, <4>1, <1>b DEF Agree, Consistent
    <3>5. CASE /\ c # -1 /\ c \notin ValidParts /\ Other(c) \notin ValidParts
               /\ ctx' = [ctx EXCEPT !.cur_part = -1]
      <4>1. ctx'.cur_part = -1 /\ ctx'.cur_seq = s
        BY <3>5, <1>a DEF TypeOK
      <4>. QED BY <3>1, <3>2, <3>5, <4>1, <1>b DEF Agree, Consistent
    <3>. QED BY <2>1, <3>1, <3>3, <3>4, <3>5 DEF ConfigLoad
  <2>4. Steps'
    BY <2>1 DEF ConfigLoad, Steps, InSave, history
  <2>. QED BY <2>1, <2>3, <2>4, <1>a DEF ConfigLoad, IInv, history
<1>3. CASE SomeSave
  <2>1. PICK v \in Payload : Save(v)
    BY <1>3 DEF SomeSave
  <2>2. Consistent(part, ctx.cur_part, ctx.cur_seq, visible, pending \cup {v},
                   unfinished, ever \cup {v}, saves + 1)
    BY <2>1, <1>b, <1>c, BeginConsistent DEF Save, Agree
  <2>3. Steps'
    BY <2>1, <1>b, <1>d DEF Save, Steps, InSave
  <2>. QED BY <2>1, <2>2, <2>3, <1>a DEF Save, IInv
<1>f. \A p \in Parts, x \in Cells :
          /\ pc # "off"
          /\ \/ Valid(x) => x = part[p]
             \/ /\ InSave /\ p = target
                /\ x.hdr.seq = ctx.cur_seq + 1 /\ x.data = arg
          /\ p = ctx.cur_part => unfinished
          => Consistent([part EXCEPT ![p] = x], ctx.cur_part, ctx.cur_seq,
                        visible, pending, unfinished, ever, saves)
  <2> SUFFICES ASSUME NEW p \in Parts, NEW x \in Cells, pc # "off",
                      \/ Valid(x) => x = part[p]
                      \/ /\ InSave /\ p = target
                         /\ x.hdr.seq = ctx.cur_seq + 1 /\ x.data = arg,
                      p = ctx.cur_part => unfinished
               PROVE  Consistent([part EXCEPT ![p] = x], ctx.cur_part, ctx.cur_seq,
                                 visible, pending, unfinished, ever, saves)
    OBVIOUS
  <2>1. Agree(ctx.cur_part, ctx.cur_seq)
    BY <1>c
  <2>3. InSave => target = (IF ctx.cur_part = 0 THEN 1 ELSE 0)
                  /\ ctx.cur_seq + 1 <= saves /\ arg \in pending
    BY <1>e DEF Steps, SaveTarget
  <2>4. \/ Valid(x) => x = part[p]
        \/ /\ x.hdr.seq = ctx.cur_seq + 1 /\ ctx.cur_seq + 1 <= saves
           /\ x.data \in pending
           /\ p = (IF ctx.cur_part = 0 THEN 1 ELSE 0)
    BY <2>3
  <2> DEFINE qt == [part EXCEPT ![p] = x]
  <2>5. Changed(qt, part, p, x)
    BY DEF Changed
  <2> HIDE DEF qt
  <2>6. Consistent(qt, ctx.cur_part, ctx.cur_seq,
                   visible, pending, unfinished, ever, saves)
    BY <2>1, <2>4, <2>5, <1>b, CellChange DEF Agree
  <2>. QED BY <2>6 DEF qt
<1>g. InSave => target # ctx.cur_part
  BY <1>e, <1>d DEF Steps, SaveTarget, InSave
<1>h. /\ Erased \in Cells /\ ~Valid(Erased)
      /\ \A p \in Parts : CutErase(part[p]) \subseteq Cells
  BY <1>b, CutTypes DEF Valid, Erased, BlankHdr
<1>i. InSave => /\ arg \in Payload /\ arg \in pending
                /\ NewHeader(ctx, arg) \in Headers /\ NewSeq(ctx) = ctx.cur_seq + 1
                /\ NewHeader(ctx, arg).seq = ctx.cur_seq + 1
  <2> SUFFICES ASSUME InSave
               PROVE  /\ arg \in Payload /\ arg \in pending
                      /\ NewHeader(ctx, arg) \in Headers /\ NewSeq(ctx) = ctx.cur_seq + 1
                      /\ NewHeader(ctx, arg).seq = ctx.cur_seq + 1
    OBVIOUS
  <2>1. arg \in pending /\ arg \in Payload
    BY <1>e, <1>a DEF Steps, TypeOK
  <2>2. ctx.cur_seq \in 0 .. SeqMod - 1 /\ ctx.cur_seq + 1 < SeqMod
    BY <1>e, <1>a, ConstAssumption DEF Steps, TypeOK, SoundMedium
  <2>3. NewSeq(ctx) = ctx.cur_seq + 1
    BY <2>2, ConstAssumption DEF NewSeq
  <2>. QED BY <2>1, <2>2, <2>3, NewHeaderType DEF NewHeader
<1>4. CASE SaveErase
  <2>1. InSave
    BY <1>4 DEF SaveErase, InSave
  <2>2. \A x \in CutErase(part[target]) : Valid(x) => x = part[target]
    BY <1>b, CutValid
  <2>3. Consistent(part', ctx.cur_part, ctx.cur_seq,
                   visible, pending, unfinished, ever, saves)
    BY <1>4, <2>1, <2>2, <1>b, <1>f, <1>g, <1>h DEF SaveErase, InSave
  <2>4. Steps'
    BY <1>4, <1>e, <1>b, <1>a DEF SaveErase, Return, Steps, InSave, history, TypeOK
  <2>. QED BY <1>4, <2>3, <2>4, <1>a DEF SaveErase, Return, IInv, history
<1>5. CASE SavePayload
  <2>1. InSave /\ part[target] = Erased
    BY <1>5, <1>e DEF SavePayload, InSave, Steps
  <2>2. /\ CutData(part[target], arg) \subseteq Cells
        /\ \A x \in CutData(part[target], arg) : ~Valid(x)
        /\ ProgramData(part[target], arg) \in CutData(part[target], arg)
    BY <2>1, <1>b, <1>i, CutTypes, CutValid DEF CutData
  <2>3. Consistent(part', ctx.cur_part, ctx.cur_seq,
                   visible, pending, unfinished, ever, saves)
    BY <1>5, <2>1, <2>2, <1>b, <1>f, <1>g DEF SavePayload, InSave
  <2>4. ProgramData(Erased, arg) = [hdr |-> BlankHdr, data |-> arg]
    BY DEF ProgramData, Erased
  <2>5. Steps'
    BY <1>5, <2>1, <2>4, <1>e, <1>b, <1>a
       DEF SavePayload, Return, Steps, InSave, history, TypeOK
  <2>. QED BY <1>5, <2>3, <2>5, <1>a DEF SavePayload, Return, IInv, history
<1>j. ASSUME pc = "header"
      PROVE  /\ CutHdr(part[target], NewHeader(ctx, arg)) \subseteq Cells
             /\ \A x \in CutHdr(part[target], NewHeader(ctx, arg)) :
                   Valid(x) => x.hdr.seq = ctx.cur_seq + 1 /\ x.data = arg
  <2>1. InSave /\ part[target] = [hdr |-> BlankHdr, data |-> arg]
    BY <1>j, <1>e DEF InSave, Steps
  <2>2. CutHdr(part[target], NewHeader(ctx, arg)) \subseteq Cells
    BY <2>1, <1>b, <1>i, CutTypes
  <2>3. \A x \in CutHdr(part[target], NewHeader(ctx, arg)) :
             Valid(x) => x.hdr = NewHeader(ctx, arg) /\ x.data = arg
    BY <2>1, <1>i, CutValid
  <2>. QED BY <2>1, <2>2, <2>3, <1>i
<1>6. CASE SaveHeader
  <2>1. pc = "header" /\ InSave /\ part[target] = [hdr |-> BlankHdr, data |-> arg]
    BY <1>6, <1>e DEF SaveHeader, InSave, Steps
  <2>2. Steps'
    BY <1>6 DEF SaveHeader, Return, Steps, InSave
  <2>3. CASE UNCHANGED <<ctx, visible, pending, unfinished>> /\
             \E c \in CutHdr(part[target], NewHeader(ctx, arg)) :
                part' = [part EXCEPT ![target] = c]
    <3>1. Consistent(part', ctx.cur_part, ctx.cur_seq,
                     visible, pending, unfinished, ever, saves)
      BY <2>1, <2>3, <1>b, <1>f, <1>g, <1>j
    <3>. QED BY <1>6, <2>2, <2>3, <3>1, <1>a DEF SaveHeader, Return, IInv
  <2>4. CASE /\ part' = [part EXCEPT ![target] = ProgramHdr(@, NewHeader(ctx, arg))]
             /\ ctx' = [cur_part |-> target, cur_seq |-> NewSeq(ctx)]
             /\ visible' = {arg} /\ pending' = {} /\ unfinished' = FALSE
    <3> DEFINE x == [hdr |-> NewHeader(ctx, arg), data |-> arg]
    <3>1. ProgramHdr(part[target], NewHeader(ctx, arg)) = x
      BY <2>1 DEF ProgramHdr, BlankHdr
    <3>2. x \in Cells /\ Valid(x) /\ x.hdr.seq = ctx.cur_seq + 1 /\ x.data = arg
      BY <2>1, <1>i DEF Cells, Valid, NewHeader
    <3>3. target \in Parts /\ (target = 1 <=> ctx.cur_part = 0)
          /\ ctx.cur_seq + 1 <= saves
      BY <2>1, <1>b, <1>e DEF Steps, SaveTarget
    <3>4. Agree(ctx.cur_part, ctx.cur_seq)
      BY <2>1, <1>c
    <3>a. PICK y \in Cells : y = x
      BY <3>2
    <3>b. Changed(part', part, target, y)
      BY <2>4, <3>1, <3>a DEF Changed
    <3>c. Valid(y) /\ y.hdr.seq = ctx.cur_seq + 1 /\ y.data = arg /\ y.data \in pending
      BY <3>2, <3>a, <2>1, <1>i
    <3>d. Consistent(part, ctx.cur_part, ctx.cur_seq,
                     visible, pending, unfinished, ever, saves)
      BY <3>4 DEF Agree
    <3>e. visible' = {y.data} /\ pending' \in SUBSET {} /\ unfinished' \in BOOLEAN /\ ~unfinished'
      BY <2>4, <3>c
    <3>5. Consistent(part', target, ctx.cur_seq + 1,
                     visible', pending', unfinished', ever, saves)
      BY <3>b, <3>c, <3>d, <3>e, <3>3, <1>b, AckConsistent
    <3>6. Consistent(part', ctx'.cur_part, ctx'.cur_seq,
                     visible', pending', unfinished', ever, saves)
      BY <2>1, <2>4, <3>5, <1>i
    <3>. QED BY <1>6, <2>2, <3>6, <1>a DEF SaveHeader, Return, IInv
  <2>. QED BY <1>6, <2>3, <2>4 DEF SaveHeader
<1>7. CASE Reset
  <2>1. Consistent(part, ctx.cur_part, ctx.cur_seq,
                   visible \cup ever \cup {NoValue}, pending, TRUE, ever, saves)
    BY <1>7, <1>b, <1>c, <1>d DEF Reset, Agree, Consistent
  <2>2. Steps'
    BY <1>7 DEF Reset, Steps, InSave
  <2>. QED BY <1>7, <2>1, <2>2, <1>a DEF Reset, IInv
<1>k. \A p \in Parts : \A x \in CutErase(part[p]) \cup {Erased} :
           unfinished /\ pc # "off" =>
             Consistent([part EXCEPT ![p] = x], ctx.cur_part, ctx.cur_seq,
                        visible, pending, unfinished, ever, saves)
  <2> SUFFICES ASSUME NEW p \in Parts, NEW x \in CutErase(part[p]) \cup {Erased},
                      unfinished, pc # "off"
               PROVE  Consistent([part EXCEPT ![p] = x], ctx.cur_part, ctx.cur_seq,
                                 visible, pending, unfinished, ever, saves)
    OBVIOUS
  <2>1. x \in Cells /\ (Valid(x) => x = part[p])
    BY <1>b, <1>h, CutValid
  <2>. QED BY <2>1, <1>f
<1>8. CASE ResetA
  <2>1. unfinished /\ pc # "off"
    BY <1>8, <1>e DEF ResetA, Steps
  <2>2. Consistent(part', ctx.cur_part, ctx.cur_seq,
                   visible, pending, unfinished, ever, saves)
    BY <1>8, <2>1, <1>b, <1>k DEF ResetA
  <2>3. pc' = "resetB" => part'[0] = Erased
    BY <1>8, <1>a, <1>b DEF ResetA, TypeOK
  <2>4. Steps'
    BY <1>8, <2>1, <2>3 DEF ResetA, Steps, InSave, history
  <2>. QED BY <1>8, <2>2, <2>4, <1>a DEF ResetA, IInv, history
<1>9. CASE ResetB
  <2>1. unfinished /\ pc = "resetB" /\ part[0] = Erased
    BY <1>9, <1>e DEF ResetB, Steps
  <2>2. Steps'
    BY <1>9 DEF ResetB, Steps, InSave
  <2>3. CASE /\ part' = [part EXCEPT ![1] = Erased] /\ ctx' = NoCtx
             /\ visible' = {NoValue} /\ pending' = {} /\ ever' = {}
             /\ unfinished' = FALSE
    <3>1. /\ part' \in [Parts -> Cells] /\ part'[0] = Erased /\ part'[1] = Erased
      BY <2>1, <2>3, <1>a, <1>b DEF TypeOK
    <3>2. Consistent(part', -1, 0, {NoValue}, {}, FALSE, {}, saves)
      BY <3>1, <1>b, <1>h DEF Consistent, Parts
    <3>. QED BY <1>9, <2>2, <2>3, <3>2, <1>a DEF ResetB, IInv, NoCtx
  <2>4. CASE /\ \E c \in CutErase(part[1]) : part' = [part EXCEPT ![1] = c]
             /\ UNCHANGED <<ctx, history>>
    <3>1. PICK x \in CutErase(part[1]) : part' = [part EXCEPT ![1] = x]
      BY <2>4
    <3>2. pc # "off"
      BY <2>1
    <3>3. Consistent(part', ctx.cur_part, ctx.cur_seq,
                     visible, pending, unfinished, ever, saves)
      BY <2>1, <3>1, <3>2, <1>b, <1>k
    <3>. QED BY <1>9, <2>2, <2>4, <3>3, <1>a DEF ResetB, IInv, history
  <2>. QED BY <1>9, <2>3, <2>4 DEF ResetB
<1>10. CASE PowerLoss
  <2>1. pc # "off"
    BY <1>10 DEF PowerLoss
  <2>2. Consistent(part', ctx.cur_part, ctx.cur_seq,
                   visible, pending, unfinished, ever, saves)
    <3>1. CASE pc = "erase"
      <4>1. \A x \in CutErase(part[target]) : x \in Cells /\ (Valid(x) => x = part[target])
        BY <1>b, <1>h, CutValid
      <4>2. InSave /\ target # ctx.cur_part
        BY <3>1, <1>g DEF InSave
      <4>3. PICK x \in CutErase(part[target]) : part' = [part EXCEPT ![target] = x]
        BY <1>10, <3>1 DEF PowerLoss, CutParts
      <4>. QED BY <2>1, <4>1, <4>2, <4>3, <1>b, <1>f
    <3>2. CASE pc = "payload"
      <4>1. InSave /\ part[target] = Erased
        BY <3>2, <1>e DEF InSave, Steps
      <4>2. /\ CutData(part[target], arg) \subseteq Cells
            /\ \A x \in CutData(part[target], arg) : ~Valid(x)
        BY <4>1, <1>b, <1>i, CutTypes, CutValid
      <4>3. PICK x \in CutData(part[target], arg) : part' = [part EXCEPT ![target] = x]
        BY <1>10, <3>2 DEF PowerLoss, CutParts
      <4>. QED BY <2>1, <4>1, <4>2, <4>3, <1>b, <1>f, <1>g
    <3>3. CASE pc = "header"
      <4>1. InSave
        BY <3>3 DEF InSave
      <4>2. PICK x \in CutHdr(part[target], NewHeader(ctx, arg)) :
                part' = [part EXCEPT ![target] = x]
        BY <1>10, <3>3 DEF PowerLoss, CutParts
      <4>. QED BY <2>1, <3>3, <4>1, <4>2, <1>b, <1>f, <1>g, <1>j
    <3>4. CASE pc = "resetA"
      <4>1. unfinished
        BY <3>4, <1>e DEF Steps
      <4>2. PICK x \in CutErase(part[0]) : part' = [part EXCEPT ![0] = x]
        BY <1>10, <3>4 DEF PowerLoss, CutParts
      <4>. QED BY <2>1, <4>1, <4>2, <1>b, <1>k
    <3>5. CASE pc = "resetB"
      <4>1. unfinished
        BY <3>5, <1>e DEF Steps
      <4>2. PICK x \in CutErase(part[1]) : part' = [part EXCEPT ![1] = x]
        BY <1>10, <3>5 DEF PowerLoss, CutParts
      <4>. QED BY <2>1, <4>1, <4>2, <1>b, <1>k
    <3>6. CASE pc = "idle"
      <4>1. part' = part
        BY <1>10, <3>6 DEF PowerLoss, CutParts
      <4>. QED BY <4>1, <2>1, <1>c DEF Agree
    <3>. QED BY <2>1, <3>1, <3>2, <3>3, <3>4, <3>5, <3>6, <1>a DEF TypeOK
  <2>3. Steps'
    BY <1>10 DEF PowerLoss, Steps, InSave
  <2>. QED BY <1>10, <2>2, <2>3, <1>a, <2>1, <1>d DEF PowerLoss, IInv, history
<1>11. CASE \E p \in Parts : Damage(p)
  BY <1>11, <1>a DEF Damage, SoundMedium, TypeOK
<1>12. CASE \E p \in Parts, s \in 0 .. SeqMod - 1 : SeqFlip(p, s)
  BY <1>12, <1>a DEF SeqFlip, SoundMedium, TypeOK
<1>13. CASE UNCHANGED vars
  BY <1>13, <1>a DEF vars, IInv, Steps, InSave
<1>14. QED
  BY <1>1, <1>2, <1>3, <1>4, <1>5, <1>6, <1>7, <1>8, <1>9, <1>10, <1>11, <1>12, <1>13
     DEF Next

(***************************************************************************)
(* No power loss, wherever it falls, and no failing erase or program loses *)
(* an acknowledged configuration: for every set of payloads, every width   *)
(* of the sequence number and every number of saves below it.              *)
(***************************************************************************)
THEOREM DurableAlways == ASSUME SoundMedium PROVE Spec => []Durable
<1>1. IInv => Durable
  <2> SUFFICES ASSUME IInv PROVE Durable
    OBVIOUS
  <2>1. unfinished \in BOOLEAN /\ saves \in Nat
    BY ConstAssumption DEF IInv, TypeOK
  <2>2. PICK c, s : Agree(c, s)
    BY DEF IInv, Agree
  <2>. QED BY <2>1, <2>2, RecoveredConsistent DEF Agree, Durable, Recovered
<1>2. SoundMedium
  OBVIOUS
<1>. QED BY <1>1, <1>2, IInvInit, IInvStep, PTL DEF Spec

(***************************************************************************)
(* What bm_config_status reports as active is valid, newest, and carries   *)
(* the handle's sequence number, whatever operations failed before.        *)
(***************************************************************************)
THEOREM HandleAlwaysAgrees == ASSUME SoundMedium PROVE Spec => []HandleAgrees
<1>1. IInv => HandleAgrees
  <2> SUFFICES ASSUME IInv, pc = "idle", ctx.cur_part # -1 PROVE HandleAgrees
    BY DEF HandleAgrees
  <2>1. Agree(ctx.cur_part, ctx.cur_seq)
    BY DEF IInv, Agree
  <2>2. ctx.cur_part \in {0, 1}
    BY DEF IInv, TypeOK
  <2>3. \A p \in Parts : part[p].hdr.seq \in Int
    BY ConstAssumption DEF IInv, TypeOK, Cells, Headers, BlankHdr, GarbageHdr
  <2>4. part[Other(ctx.cur_part)].hdr.seq \in Int
    BY <2>2, <2>3 DEF Other, Parts
  <2>. QED BY <2>1, <2>2, <2>4 DEF Agree, Consistent, HandleAgrees
<1>2. SoundMedium
  OBVIOUS
<1>. QED BY <1>1, <1>2, IInvInit, IInvStep, PTL DEF Spec

(***************************************************************************)
(* bm_config_load never hands out a payload that was only being saved, and *)
(* never misses an acknowledged one.                                       *)
(***************************************************************************)
THEOREM LoadIsLatest == ASSUME SoundMedium PROVE Spec => LoadLatest
<1>1. IInv /\ [Next]_vars =>
        [SomeLoad => out' \in visible \cup (IF unfinished THEN pending ELSE {})]_vars
  <2> SUFFICES ASSUME IInv, SomeLoad
               PROVE  out' \in visible \cup (IF unfinished THEN pending ELSE {})
    OBVIOUS
  <2>1. PICK unread \in SUBSET Parts : ConfigLoad(unread)
    BY DEF SomeLoad
  <2>2. unread = {} /\ Agree(ctx.cur_part, ctx.cur_seq)
    BY <2>1, NoReadFaults DEF ConfigLoad, IInv, Agree
  <2>3. \A p \in Parts : p \in ValidParts \ unread <=> Valid(part[p])
    BY <2>2 DEF ValidParts, ValidIn
  <2>4. ctx.cur_part # -1 => ctx.cur_part \in Parts /\ Other(ctx.cur_part) \in Parts
    BY DEF IInv, TypeOK, Parts, Other
  <2>5. unfinished \in BOOLEAN
    BY DEF IInv, TypeOK
  <2>. QED BY <2>1, <2>2, <2>3, <2>4, <2>5 DEF ConfigLoad, Agree, Consistent
<1>2. SoundMedium
  OBVIOUS
<1>. QED BY <1>1, <1>2, IInvInit, IInvStep, PTL DEF Spec, LoadLatest

(***************************************************************************)
(* Once a configuration is acknowledged, bm_config_save never chooses to   *)
(* erase the only valid partition: the handle points at a valid one, and   *)
(* the target is the other.                                                *)
(***************************************************************************)
THEOREM SaveSparesAlways == ASSUME SoundMedium PROVE Spec => SaveSparesBackup
<1>1. IInv /\ [Next]_vars =>
        [SomeSave /\ NoValue \notin visible /\ ValidParts # {}
            => ValidParts \ {target'} # {}]_vars
  <2> SUFFICES ASSUME IInv, SomeSave, NoValue \notin visible
               PROVE  ValidParts \ {target'} # {}
    OBVIOUS
  <2>1. PICK v \in Payload : Save(v)
    BY DEF SomeSave
  <2>2. Agree(ctx.cur_part, ctx.cur_seq) /\ target' = SaveTarget(ctx)
    BY <2>1 DEF Save, IInv, Agree
  <2>3. unfinished \in BOOLEAN /\ ctx.cur_part \in {-1, 0, 1}
    BY DEF IInv, TypeOK
  <2>4. ctx.cur_part \in Parts /\ Valid(part[ctx.cur_part])
    BY <2>2, <2>3 DEF Agree, Consistent, Parts
  <2>5. SaveTarget(ctx) # ctx.cur_part
    BY <2>4 DEF SaveTarget, Parts
  <2>. QED BY <2>2, <2>4, <2>5 DEF ValidParts, ValidIn
<1>2. SoundMedium
  OBVIOUS
<1>. QED BY <1>1, <1>2, IInvInit, IInvStep, PTL DEF Spec, SaveSparesBackup

-----------------------------------------------------------------------------
(***************************************************************************)
(* The refinement: every step of bm_config.c is a step of ConfigStore or   *)
(* none, for every set of payloads, width of the sequence number and       *)
(* number of saves below it.                                               *)
(***************************************************************************)

(* Changing the partition that is not in force changes what a restart      *)
(* finds only to what is owed or to what the partition now holds.          *)
LEMMA SaveOwed ==
    ASSUME NEW pt, NEW c, NEW s, NEW vis, NEW pend, NEW unf \in BOOLEAN, NEW ev,
           NEW n \in Nat, Consistent(pt, c, s, vis, pend, unf, ev, n),
           NEW p \in Parts, p = 1 <=> c = 0,
           NEW x \in Cells, NEW qt, Changed(qt, pt, p, x)
    PROVE  \/ RecoveredFrom(qt) \in vis \cup {RecoveredFrom(pt)}
           \/ Valid(x) /\ x # pt[p] /\ RecoveredFrom(qt) = x.data
           \/ unf /\ RecoveredFrom(qt) \in ev
<1>1. /\ qt \in [Parts -> Cells] /\ qt[p] = x
      /\ \A q \in Parts : q # p => qt[q] = pt[q]
  BY DEF Consistent, Changed
<1>2. /\ 0 \in Parts /\ 1 \in Parts /\ Other(0) = 1 /\ Other(1) = 0
      /\ 0 # -1 /\ 1 # -1 /\ s \in Int /\ c \in {-1, 0, 1}
  BY DEF Parts, Other, Consistent
<1>3. /\ \A q \in Parts : pt[q].hdr.seq \in Int
      /\ \A q \in Parts : qt[q].hdr.seq \in Int
  BY <1>1, ConstAssumption DEF Consistent, Cells, Headers, BlankHdr, GarbageHdr
<1>4. /\ \A q \in {0, 1} : q \in ValidIn(pt) <=> Valid(pt[q])
      /\ \A q \in {0, 1} : q \in ValidIn(qt) <=> Valid(qt[q])
  BY <1>2 DEF ValidIn, Parts
<1>5. CASE c = -1
  <2>1. p = 0 /\ ~Valid(pt[1]) /\ qt[1] = pt[1] /\ NoValue \in vis
    BY <1>1, <1>2, <1>5 DEF Consistent, Parts
  <2>2. RecoveredFrom(qt) = IF Valid(x) THEN x.data ELSE NoValue
    BY <2>1, <1>1, <1>2, <1>4 DEF RecoveredFrom, Chosen
  <2>3. RecoveredFrom(pt) = IF Valid(pt[0]) THEN pt[0].data ELSE NoValue
    BY <2>1, <1>1, <1>2, <1>4 DEF RecoveredFrom, Chosen
  <2>. QED BY <2>1, <2>2, <2>3
<1>6. CASE c \in {0, 1}
  <2>1. p = Other(c) /\ qt[c] = pt[c] /\ c \in Parts /\ c # p
    BY <1>1, <1>2, <1>6 DEF Parts
  <2>2. Valid(pt[c]) => pt[c].data \in vis \/ (unf /\ pt[c].data \in ev)
    BY <2>1, <1>6 DEF Consistent
  <2>3. ~Valid(pt[c]) => NoValue \in vis
    BY <2>1, <1>6 DEF Consistent
  \* What qt gives is its own copy in c, the new cell, or nothing at all.
  <2>4. \/ Valid(pt[c]) /\ RecoveredFrom(qt) = pt[c].data
        \/ Valid(x) /\ RecoveredFrom(qt) = x.data
        \/ ~Valid(pt[c]) /\ RecoveredFrom(qt) = NoValue
    BY <2>1, <1>1, <1>2, <1>3, <1>4, <1>6 DEF RecoveredFrom, Chosen
  \* Where the cell is the old one nothing has changed.
  <2>5. x = pt[p] => qt = pt
    BY <2>1, <1>1 DEF Changed, Consistent
  <2>. QED BY <2>2, <2>3, <2>4, <2>5
<1>. QED BY <1>2, <1>5, <1>6

(* After a reset has begun a partition that loses its content leaves some  *)
(* payload it was once given, or none.                                     *)
LEMMA ResetOwed ==
    ASSUME NEW pt, NEW c, NEW s, NEW vis, NEW pend, NEW unf \in BOOLEAN, NEW ev,
           NEW n \in Nat, Consistent(pt, c, s, vis, pend, unf, ev, n), unf,
           NEW p \in Parts, NEW x \in Cells, Valid(x) => x = pt[p],
           NEW qt, Changed(qt, pt, p, x)
    PROVE  RecoveredFrom(qt) \in vis \cup ev
<1>1. /\ qt[p] = x /\ \A q \in Parts : q # p => qt[q] = pt[q]
  BY DEF Consistent, Changed
<1>2. \A q \in Parts : Valid(qt[q]) => qt[q].data \in ev
  BY <1>1 DEF Consistent
<1>3. NoValue \in vis
  BY DEF Consistent
<1>. QED BY <1>2, <1>3 DEF RecoveredFrom, Chosen, ValidIn, Parts

(* No payload is kept in a local once save has returned. *)
ArgIdle == ~InSave => arg = NoValue

\* Every step keeps that an idle store remembers no argument.
LEMMA ArgIdleStep == ArgIdle /\ [Next]_vars => ArgIdle'
<1> SUFFICES ASSUME ArgIdle, [Next]_vars PROVE ArgIdle'
  OBVIOUS
<1> USE DEF ArgIdle, InSave
<1>1. CASE SomeInit \/ SomeLoad \/ SomeSave
  BY <1>1 DEF SomeInit, SomeLoad, SomeSave, ConfigInit, ConfigLoad, Save
<1>2. CASE SaveErase \/ SavePayload \/ SaveHeader
  BY <1>2 DEF SaveErase, SavePayload, SaveHeader, Return
<1>3. CASE Reset \/ ResetA \/ ResetB \/ PowerLoss
  BY <1>3 DEF Reset, ResetA, ResetB, PowerLoss
<1>4. CASE (\E p \in Parts : Damage(p))
           \/ \E p \in Parts, s \in 0 .. SeqMod - 1 : SeqFlip(p, s)
  BY <1>4 DEF Damage, SeqFlip
<1>5. CASE UNCHANGED vars
  BY <1>5 DEF vars
<1>. QED BY <1>1, <1>2, <1>3, <1>4, <1>5 DEF Next

RefInv == IInv /\ ArgIdle

\* Initial states map to initial states.
LEMMA RefInit == Init => RefInv /\ Abs!Init
<1> SUFFICES ASSUME Init PROVE RefInv /\ Abs!Init
  OBVIOUS
<1>1. ~Valid(Erased)
  BY DEF Valid, Erased, BlankHdr
<1>2. Recovered = NoValue
  BY <1>1 DEF Init, Recovered, RecoveredFrom, Chosen, ValidIn, Parts
<1>3. AbsPhase = "off"
  BY DEF Init, AbsPhase
<1>. QED BY <1>2, <1>3, IInvInit DEF Init, RefInv, ArgIdle, Abs!Init

(* What init would choose after a step is what the new flash gives. *)
LEMMA RecoveredPrime == Recovered' = RecoveredFrom(part')
BY DEF Recovered, RecoveredFrom

\* Every step maps to a step of ConfigStore or to a stutter.
LEMMA RefStep == SoundMedium /\ RefInv /\ [Next]_vars => [Abs!Next]_(Abs!vars)
<1> SUFFICES ASSUME SoundMedium, RefInv, [Next]_vars PROVE [Abs!Next]_(Abs!vars)
  OBVIOUS
<1>a. /\ IInv /\ IInv' /\ ArgIdle /\ TypeOK /\ TypeOK' /\ Steps
  BY IInvStep DEF RefInv, IInv
<1>b. /\ unfinished \in BOOLEAN /\ saves \in Nat /\ target \in Parts
      /\ unfinished' \in BOOLEAN /\ saves' \in Nat
      /\ \A p \in Parts : part[p] \in Cells
      /\ 0 \in Parts /\ 1 \in Parts
  BY <1>a, ConstAssumption DEF TypeOK, Parts
<1>c. pc # "off" => Agree(ctx.cur_part, ctx.cur_seq)
  BY <1>a DEF IInv, Agree
<1>d. Recovered' \in visible' \cup pending'
  <2>1. PICK c, s : Consistent(part', c, s, visible', pending', unfinished', ever', saves')
    BY <1>a DEF IInv
  <2>. QED BY <2>1, <1>b, RecoveredConsistent, RecoveredPrime
<1>e. UNCHANGED part => UNCHANGED Recovered
  BY RecoveredPrime DEF Recovered
<1>f. InSave => AbsPhase = "save"
  BY DEF InSave, AbsPhase
<1>g. pc \in {"resetA", "resetB"} => AbsPhase = "reset" /\ unfinished
  BY <1>a DEF AbsPhase, Steps
\* A save's HAL call settles what a restart finds among what is owed.
<1>h. ASSUME InSave, NEW x \in Cells, Valid(x) => x = part[target] \/ x.data = arg,
             part' = [part EXCEPT ![target] = x]
      PROVE  Recovered' \in Abs!Settle
  <2>1. target = 1 <=> ctx.cur_part = 0
    BY <1>a, <1>h DEF Steps, SaveTarget
  <2>2. Consistent(part, ctx.cur_part, ctx.cur_seq,
                   visible, pending, unfinished, ever, saves)
    BY <1>c, <1>h DEF InSave, Agree
  <2>3. Changed(part', part, target, x)
    BY <1>h DEF Changed
  <2>4. \/ RecoveredFrom(part') \in visible \cup {RecoveredFrom(part)}
        \/ Valid(x) /\ x # part[target] /\ RecoveredFrom(part') = x.data
        \/ unfinished /\ RecoveredFrom(part') \in ever
    BY <2>1, <2>2, <2>3, <1>b, SaveOwed
  <2>. QED BY <2>4, <1>f, <1>h, RecoveredPrime DEF Abs!Settle, Abs!Owed, Recovered
\* So does a reset's.
<1>i. ASSUME pc \in {"resetA", "resetB"}, NEW p \in Parts,
             NEW x \in CutErase(part[p]) \cup {Erased}, part' = [part EXCEPT ![p] = x]
      PROVE  Recovered' \in Abs!Settle
  <2>1. x \in Cells /\ (Valid(x) => x = part[p])
    BY <1>b, CutTypes, CutValid DEF Valid, Erased, BlankHdr
  <2>2. Consistent(part, ctx.cur_part, ctx.cur_seq,
                   visible, pending, unfinished, ever, saves)
    BY <1>c, <1>i DEF Agree
  <2>3. Changed(part', part, p, x)
    BY <1>i DEF Changed
  <2>4. unfinished
    BY <1>g, <1>i
  <2>5. RecoveredFrom(part') \in visible \cup ever
    BY <2>1, <2>2, <2>3, <2>4, <1>b, ResetOwed
  <2>. QED BY <2>5, <1>g, <1>i, RecoveredPrime DEF Abs!Settle, Abs!Owed
\* The cells each HAL call of a save may leave.
<1>j. /\ \A x \in CutErase(part[target]) \cup {Erased} :
             x \in Cells /\ (Valid(x) => x = part[target])
      /\ pc = "payload" => \A x \in CutData(part[target], arg) : x \in Cells /\ ~Valid(x)
      /\ pc = "header" => \A x \in CutHdr(part[target], NewHeader(ctx, arg)) :
                             x \in Cells /\ (Valid(x) => x.data = arg)
  <2>1. InSave => arg \in Payload /\ NewHeader(ctx, arg) \in Headers
    <3>1. ctx.cur_seq \in 0 .. SeqMod - 1
      BY <1>a DEF TypeOK
    <3>2. InSave => arg \in Payload
      BY <1>a DEF TypeOK, Steps
    <3>. QED BY <3>1, <3>2, NewHeaderType
  <2>2. \A x \in CutErase(part[target]) \cup {Erased} :
             x \in Cells /\ (Valid(x) => x = part[target])
    BY <1>b, CutTypes, CutValid DEF Valid, Erased, BlankHdr
  <2>3. ASSUME pc = "payload"
        PROVE  \A x \in CutData(part[target], arg) : x \in Cells /\ ~Valid(x)
    <3>1. part[target] = Erased /\ arg \in Payload
      BY <1>a, <2>1, <2>3 DEF Steps, InSave
    <3>2. CutData(part[target], arg) \subseteq Cells
      BY <3>1, <1>b, CutTypes DEF Headers
    <3>. QED BY <3>1, <3>2, CutValid
  <2>4. ASSUME pc = "header"
        PROVE  \A x \in CutHdr(part[target], NewHeader(ctx, arg)) :
                  x \in Cells /\ (Valid(x) => x.data = arg)
    <3>1. /\ part[target] = [hdr |-> BlankHdr, data |-> arg]
          /\ arg \in Payload /\ NewHeader(ctx, arg) \in Headers
      BY <1>a, <2>1, <2>4 DEF Steps, InSave
    <3>2. CutHdr(part[target], NewHeader(ctx, arg)) \subseteq Cells
      BY <3>1, <1>b, CutTypes
    <3>. QED BY <3>1, <3>2, CutValid
  <2>. QED BY <2>2, <2>3, <2>4
<1>1. CASE SomeInit
  <2>1. PICK unread \in SUBSET Parts : ConfigInit(unread)
    BY <1>1 DEF SomeInit
  <2>2. AbsPhase = "off" /\ AbsPhase' = "idle"
    BY <2>1 DEF ConfigInit, AbsPhase
  <2>. QED BY <2>1, <2>2, <1>e DEF ConfigInit, Abs!Next, Abs!PowerUp
<1>2. CASE SomeLoad
  <2>1. PICK unread \in SUBSET Parts : ConfigLoad(unread)
    BY <1>2 DEF SomeLoad
  <2>2. UNCHANGED AbsPhase
    BY <2>1 DEF ConfigLoad, AbsPhase
  <2>. QED BY <2>1, <2>2, <1>e DEF ConfigLoad, history, Abs!vars
<1>3. CASE SomeSave
  <2>1. PICK v \in Payload : Save(v)
    BY <1>3 DEF SomeSave
  <2>2. AbsPhase = "idle" /\ AbsPhase' = "save"
    BY <2>1 DEF Save, AbsPhase
  <2>. QED BY <2>1, <2>2, <1>e DEF Save, Abs!Next, Abs!BeginSave
<1>4. CASE SaveErase
  <2>1. InSave
    BY <1>4 DEF SaveErase, InSave
  <2>2. Recovered' \in Abs!Settle
    <3>1. PICK x \in CutErase(part[target]) \cup {Erased} :
              part' = [part EXCEPT ![target] = x]
      BY <1>4 DEF SaveErase
    <3>. QED BY <2>1, <3>1, <1>h, <1>j
  <2>3. CASE pc' = "payload" /\ UNCHANGED arg
    <3>1. AbsPhase' = "save"
      BY <2>3 DEF AbsPhase
    <3>. QED BY <1>4, <2>1, <2>2, <2>3, <3>1, <1>f
         DEF SaveErase, history, Abs!Next, Abs!Progress
  <2>4. CASE Return
    <3>1. AbsPhase' = "idle"
      BY <2>4 DEF Return, AbsPhase
    <3>. QED BY <1>4, <2>1, <2>2, <2>4, <3>1, <1>f
         DEF SaveErase, Return, history, Abs!Next, Abs!Fail
  <2>. QED BY <1>4, <2>3, <2>4 DEF SaveErase
<1>5. CASE SavePayload
  <2>1. InSave
    BY <1>5 DEF SavePayload, InSave
  <2>2. Recovered' \in Abs!Settle
    <3>1. PICK x \in CutData(part[target], arg) : part' = [part EXCEPT ![target] = x]
      BY <1>5 DEF SavePayload, CutData
    <3>2. pc = "payload"
      BY <1>5 DEF SavePayload
    <3>. QED BY <2>1, <3>1, <3>2, <1>h, <1>j
  <2>3. CASE pc' = "header" /\ UNCHANGED arg
    <3>1. AbsPhase' = "save"
      BY <2>3 DEF AbsPhase
    <3>. QED BY <1>5, <2>1, <2>2, <2>3, <3>1, <1>f
         DEF SavePayload, history, Abs!Next, Abs!Progress
  <2>4. CASE Return
    <3>1. AbsPhase' = "idle"
      BY <2>4 DEF Return, AbsPhase
    <3>. QED BY <1>5, <2>1, <2>2, <2>4, <3>1, <1>f
         DEF SavePayload, Return, history, Abs!Next, Abs!Fail
  <2>. QED BY <1>5, <2>3, <2>4 DEF SavePayload
<1>6. CASE SaveHeader
  <2>1. InSave /\ pc = "header" /\ arg' = NoValue /\ UNCHANGED ever
    BY <1>6 DEF SaveHeader, Return, InSave
  <2>2. AbsPhase' = "idle"
    BY <1>6 DEF SaveHeader, Return, AbsPhase
  <2>3. CASE /\ \E x \in CutHdr(part[target], NewHeader(ctx, arg)) :
                    part' = [part EXCEPT ![target] = x]
             /\ UNCHANGED <<visible, unfinished>>
    <3>1. PICK x \in CutHdr(part[target], NewHeader(ctx, arg)) :
              part' = [part EXCEPT ![target] = x]
      BY <2>3
    <3>2. Recovered' \in Abs!Settle
      BY <2>1, <3>1, <1>h, <1>j
    <3>. QED BY <2>1, <2>2, <2>3, <3>2, <1>f DEF Abs!Next, Abs!Fail
  <2>4. CASE visible' = {arg} /\ pending' = {} /\ unfinished' = FALSE
    <3>1. Recovered' = arg
      BY <2>4, <1>d
    <3>. QED BY <2>1, <2>2, <2>4, <3>1, <1>f DEF Abs!Next, Abs!EndSave
  <2>. QED BY <1>6, <2>3, <2>4 DEF SaveHeader
<1>7. CASE Reset
  <2>1. AbsPhase = "idle" /\ AbsPhase' = "reset"
    BY <1>7 DEF Reset, AbsPhase
  <2>. QED BY <1>7, <2>1, <1>e DEF Reset, Abs!Next, Abs!BeginReset
<1>8. CASE ResetA
  <2>1. pc = "resetA" /\ arg = NoValue
    BY <1>8, <1>a DEF ResetA, ArgIdle, InSave
  <2>2. Recovered' \in Abs!Settle
    <3>1. PICK x \in CutErase(part[0]) \cup {Erased} : part' = [part EXCEPT ![0] = x]
      BY <1>8 DEF ResetA
    <3>. QED BY <2>1, <3>1, <1>b, <1>i
  <2>3. CASE pc' = "resetB"
    <3>1. AbsPhase' = "reset"
      BY <2>3 DEF AbsPhase
    <3>. QED BY <1>8, <2>1, <2>2, <3>1, <1>g DEF ResetA, history, Abs!Next, Abs!Progress
  <2>4. CASE pc' = "idle"
    <3>1. AbsPhase' = "idle"
      BY <2>4 DEF AbsPhase
    <3>. QED BY <1>8, <2>1, <2>2, <3>1, <1>g DEF ResetA, history, Abs!Next, Abs!Fail
  <2>. QED BY <1>8, <2>3, <2>4 DEF ResetA
<1>9. CASE ResetB
  <2>1. pc = "resetB" /\ arg = NoValue /\ UNCHANGED arg
    BY <1>9, <1>a DEF ResetB, ArgIdle, InSave
  <2>2. AbsPhase' = "idle"
    BY <1>9 DEF ResetB, AbsPhase
  <2>3. CASE visible' = {NoValue} /\ pending' = {} /\ ever' = {} /\ unfinished' = FALSE
    <3>1. Recovered' = NoValue
      BY <2>3, <1>d
    <3>. QED BY <2>1, <2>2, <2>3, <3>1, <1>g DEF Abs!Next, Abs!EndReset
  <2>4. CASE (\E x \in CutErase(part[1]) : part' = [part EXCEPT ![1] = x]) /\ UNCHANGED history
    <3>1. Recovered' \in Abs!Settle
      BY <2>1, <2>4, <1>b, <1>i
    <3>. QED BY <2>1, <2>2, <2>4, <3>1, <1>g DEF history, Abs!Next, Abs!Fail
  <2>. QED BY <1>9, <2>3, <2>4 DEF ResetB
<1>10. CASE PowerLoss
  <2>1. AbsPhase # "off" /\ AbsPhase' = "off"
    BY <1>10 DEF PowerLoss, AbsPhase
  <2>2. Recovered' \in Abs!Settle
    <3>1. CASE InSave
      <4>1. PICK x \in Cells : /\ Valid(x) => x = part[target] \/ x.data = arg
                               /\ part' = [part EXCEPT ![target] = x]
        BY <1>10, <3>1, <1>j DEF PowerLoss, CutParts, InSave
      <4>. QED BY <3>1, <4>1, <1>h
    <3>2. CASE pc \in {"resetA", "resetB"}
      <4>1. PICK p \in Parts : \E x \in CutErase(part[p]) : part' = [part EXCEPT ![p] = x]
        BY <1>10, <3>2, <1>b DEF PowerLoss, CutParts
      <4>. QED BY <3>2, <4>1, <1>i
    <3>3. CASE pc = "idle"
      <4>1. UNCHANGED part /\ AbsPhase = "idle"
        BY <1>10, <3>3 DEF PowerLoss, CutParts, AbsPhase
      <4>. QED BY <4>1, <1>e DEF Abs!Settle
    <3>. QED BY <1>10, <3>1, <3>2, <3>3, <1>a DEF PowerLoss, InSave, TypeOK
  <2>. QED BY <1>10, <2>1, <2>2 DEF PowerLoss, history, Abs!Next, Abs!PowerLoss
<1>11. CASE \E p \in Parts : Damage(p)
  BY <1>11, <1>a DEF Damage, SoundMedium, TypeOK
<1>12. CASE \E p \in Parts, s \in 0 .. SeqMod - 1 : SeqFlip(p, s)
  BY <1>12, <1>a DEF SeqFlip, SoundMedium, TypeOK
<1>13. CASE UNCHANGED vars
  <2>1. UNCHANGED AbsPhase
    BY <1>13 DEF vars, AbsPhase
  <2>. QED BY <1>13, <2>1, <1>e DEF vars, Abs!vars
<1>14. QED
  BY <1>1, <1>2, <1>3, <1>4, <1>5, <1>6, <1>7, <1>8, <1>9, <1>10, <1>11, <1>12, <1>13
     DEF Next

(***************************************************************************)
(* On a medium that keeps what it was given, and below the wrap of seq,    *)
(* bm_config.c implements the one stored configuration of ConfigStore: a   *)
(* save takes effect at one moment or not at all, a restart in between     *)
(* included, and nothing changes what is stored while no call is made.     *)
(***************************************************************************)
THEOREM Refines == ASSUME SoundMedium PROVE Spec => AbsSpec
<1>1. SoundMedium
  OBVIOUS
<1>2. RefInv /\ [Next]_vars => RefInv'
  BY <1>1, IInvStep, ArgIdleStep DEF RefInv
<1>3. RefInv /\ [Next]_vars => [Abs!Next]_(Abs!vars)
  BY <1>1, RefStep
<1>. QED BY <1>2, <1>3, RefInit, PTL DEF Spec, AbsSpec, Abs!Spec

-----------------------------------------------------------------------------
(***************************************************************************)
(* What the store keeps of its promises on a medium that damages payloads  *)
(* and sequence numbers and fails reads, any number of times.              *)
(***************************************************************************)

(***************************************************************************)
(* Every payload in flash is one some save since the last full reset was   *)
(* given, or no payload at all.  A reset forgets them only when the second *)
(* partition is blank and the first still holds no payload.                *)
(***************************************************************************)
NoPayload == {Blank, Garbage}
WholeInv ==
    /\ \A p \in Parts : part[p].data \in ever \cup NoPayload
    /\ pc \in {"erase", "payload", "header"} => arg \in ever
    /\ pc = "resetB" => part[0].data \in NoPayload

(* A HAL call leaves the payload that was there, the one it writes, or none. *)
LEMMA CutPayloads ==
    ASSUME NEW c \in Cells, NEW v, NEW h
    PROVE  /\ \A x \in CutErase(c) \cup {Erased} : x.data \in {c.data} \cup NoPayload
           /\ \A x \in CutData(c, v) \cup {ProgramData(c, v)} :
                  x.data \in {c.data, v} \cup NoPayload
           /\ \A x \in CutHdr(c, h) \cup {ProgramHdr(c, h)} : x.data = c.data
<1>1. \A x \in CutErase(c) \cup {Erased} : x.data \in {c.data} \cup NoPayload
  BY DEF CutErase, Erased, NoPayload
<1>2. \A x \in CutData(c, v) \cup {ProgramData(c, v)} : x.data \in {c.data, v} \cup NoPayload
  BY DEF CutData, ProgramData, NoPayload, Cells
<1>3. \A x \in CutHdr(c, h) \cup {ProgramHdr(c, h)} : x.data = c.data
  BY DEF CutHdr, ProgramHdr, Cells
<1>4. QED BY <1>1, <1>2, <1>3

\* Blank flash holds no payload.
LEMMA WholeInit == Init => WholeInv
BY DEF Init, WholeInv, Erased, NoPayload, Parts

\* Every step, of any medium, leaves whole payloads or none.
LEMMA WholeStep == TypeInv /\ WholeInv /\ [Next]_vars => WholeInv'
<1> SUFFICES ASSUME TypeInv, WholeInv, [Next]_vars PROVE WholeInv'
  OBVIOUS
<1>a. /\ part \in [Parts -> Cells] /\ target \in Parts /\ 0 \in Parts /\ 1 \in Parts
      /\ \A p \in Parts : part[p].data \in ever \cup NoPayload
  BY DEF TypeInv, TypeOK, WholeInv, Parts
\* A partition replaced by one whose payload is owed keeps the first conjunct.
<1>b. ASSUME NEW p \in Parts, NEW x, x.data \in ever \cup NoPayload,
             part' = [part EXCEPT ![p] = x]
      PROVE  \A q \in Parts : part'[q].data \in ever \cup NoPayload
  BY <1>a, <1>b
<1>1. CASE SomeInit \/ SomeLoad
  BY <1>1, <1>a DEF SomeInit, SomeLoad, ConfigInit, ConfigLoad, WholeInv, history
<1>2. CASE SomeSave
  BY <1>2, <1>a DEF SomeSave, Save, WholeInv
<1>3. CASE SaveErase
  <2>1. PICK x \in CutErase(part[target]) \cup {Erased} : part' = [part EXCEPT ![target] = x]
    BY <1>3 DEF SaveErase
  <2>2. x.data \in ever \cup NoPayload
    BY <1>a, CutPayloads
  <2>. QED BY <1>3, <1>b, <2>1, <2>2 DEF SaveErase, Return, WholeInv, history
<1>4. CASE SavePayload
  <2>1. PICK x \in CutData(part[target], arg) \cup {ProgramData(part[target], arg)} :
            part' = [part EXCEPT ![target] = x]
    BY <1>4 DEF SavePayload
  <2>2. x.data \in ever \cup NoPayload
    BY <1>4, <1>a, CutPayloads DEF SavePayload, WholeInv
  <2>. QED BY <1>4, <1>b, <2>1, <2>2 DEF SavePayload, Return, WholeInv, history
<1>5. CASE SaveHeader
  <2>1. PICK x \in CutHdr(part[target], NewHeader(ctx, arg))
                     \cup {ProgramHdr(part[target], NewHeader(ctx, arg))} :
            part' = [part EXCEPT ![target] = x]
    BY <1>5 DEF SaveHeader
  <2>2. x.data \in ever \cup NoPayload
    BY <1>a, CutPayloads
  <2>. QED BY <1>5, <1>b, <2>1, <2>2 DEF SaveHeader, Return, WholeInv
<1>6. CASE Reset
  BY <1>6, <1>a DEF Reset, WholeInv
<1>7. CASE ResetA
  <2>1. PICK x \in CutErase(part[0]) \cup {Erased} :
            part' = [part EXCEPT ![0] = x] /\ (pc' = "resetB" => x = Erased)
    BY <1>7 DEF ResetA
  <2>2. x.data \in ever \cup NoPayload
    BY <1>a, CutPayloads
  <2>3. part'[0] = x
    BY <1>a, <2>1
  <2>4. pc' = "resetB" => part'[0].data \in NoPayload
    BY <2>1, <2>3 DEF Erased, NoPayload
  <2>5. pc' \in {"resetB", "idle"} /\ ever' = ever
    BY <1>7 DEF ResetA, history
  <2>6. \A q \in Parts : part'[q].data \in ever \cup NoPayload
    BY <1>a, <1>b, <2>1, <2>2
  <2>. QED BY <2>4, <2>5, <2>6 DEF WholeInv
<1>8. CASE ResetB
  <2>1. CASE part' = [part EXCEPT ![1] = Erased] /\ ever' = {}
    <3>1. part[0].data \in NoPayload
      BY <1>8 DEF ResetB, WholeInv
    <3>2. \A q \in Parts : part'[q].data \in NoPayload
      BY <1>a, <2>1, <3>1 DEF Erased, NoPayload, Parts
    <3>. QED BY <1>8, <2>1, <3>2 DEF ResetB, WholeInv
  <2>2. CASE \E c \in CutErase(part[1]) : part' = [part EXCEPT ![1] = c] /\ ever' = ever
    <3>1. PICK x \in CutErase(part[1]) : part' = [part EXCEPT ![1] = x] /\ ever' = ever
      BY <2>2
    <3>2. x.data \in ever \cup NoPayload
      BY <1>a, CutPayloads
    <3>. QED BY <1>8, <1>a, <1>b, <3>1, <3>2 DEF ResetB, WholeInv
  <2>. QED BY <1>8, <2>1, <2>2 DEF ResetB, history
<1>9. CASE PowerLoss
  <2>1. \A q \in Parts : part'[q].data \in ever \cup NoPayload
    <3>1. CASE part' = part
      BY <1>a, <3>1
    <3>2. part[target] \in Cells
      BY <1>a
    <3>3. CASE pc = "erase"
      <4>1. PICK x \in CutErase(part[target]) : part' = [part EXCEPT ![target] = x]
        BY <1>9, <3>3 DEF PowerLoss, CutParts
      <4>2. x.data \in ever \cup NoPayload
        BY <1>a, <3>2, CutPayloads
      <4>. QED BY <4>1, <4>2, <1>a, <1>b
    <3>4. CASE pc = "payload"
      <4>1. PICK x \in CutData(part[target], arg) : part' = [part EXCEPT ![target] = x]
        BY <1>9, <3>4 DEF PowerLoss, CutParts
      <4>2. arg \in ever
        BY <3>4 DEF WholeInv
      <4>3. x.data \in ever \cup NoPayload
        BY <4>2, <1>a, <3>2, CutPayloads
      <4>. QED BY <4>1, <4>3, <1>a, <1>b
    <3>5. CASE pc = "header"
      <4>1. PICK x \in CutHdr(part[target], NewHeader(ctx, arg)) :
                part' = [part EXCEPT ![target] = x]
        BY <1>9, <3>5 DEF PowerLoss, CutParts
      <4>2. x.data \in ever \cup NoPayload
        BY <1>a, <3>2, CutPayloads
      <4>. QED BY <4>1, <4>2, <1>a, <1>b
    <3>6. CASE pc \in {"resetA", "resetB"}
      <4>1. PICK p \in Parts : \E x \in CutErase(part[p]) : part' = [part EXCEPT ![p] = x]
        BY <1>9, <1>a, <3>6 DEF PowerLoss, CutParts
      <4>2. PICK x \in CutErase(part[p]) : part' = [part EXCEPT ![p] = x]
        BY <4>1
      <4>3. x.data \in ever \cup NoPayload
        BY <1>a, CutPayloads
      <4>. QED BY <4>2, <4>3, <1>a, <1>b
    <3>7. CASE pc = "idle"
      BY <1>9, <3>1, <3>7 DEF PowerLoss, CutParts
    <3>. QED BY <1>9, <3>3, <3>4, <3>5, <3>6, <3>7 DEF PowerLoss, TypeInv, TypeOK
  <2>. QED BY <1>9, <2>1 DEF PowerLoss, WholeInv, history
<1>10. CASE \E p \in Parts : Damage(p)
  <2>1. PICK p \in Parts : Damage(p)
    BY <1>10
  <2>2. part' = [part EXCEPT ![p] = [part[p] EXCEPT !.data = Garbage]]
    BY <2>1 DEF Damage
  <2>3. \A q \in Parts : part'[q].data \in {part[q].data, Garbage}
    BY <1>a, <2>2 DEF Cells
  <2>. QED BY <1>a, <2>1, <2>3 DEF Damage, WholeInv, history, NoPayload
<1>11. CASE \E p \in Parts, s \in 0 .. SeqMod - 1 : SeqFlip(p, s)
  <2>1. PICK p \in Parts, s \in 0 .. SeqMod - 1 : SeqFlip(p, s)
    BY <1>11
  <2>2. \A q \in Parts : part'[q].data = part[q].data
    BY <1>a, <2>1 DEF SeqFlip, Cells
  <2>. QED BY <1>a, <2>1, <2>2 DEF SeqFlip, WholeInv, history
<1>12. CASE UNCHANGED vars
  BY <1>12 DEF vars, WholeInv
<1>13. QED
  BY <1>1, <1>2, <1>3, <1>4, <1>5, <1>6, <1>7, <1>8, <1>9, <1>10, <1>11, <1>12 DEF Next

(* A partition that checks holds a payload, and so one that was saved. *)
LEMMA ValidIsWhole ==
    ASSUME TypeInv, WholeInv, NEW p \in Parts, Valid(part[p])
    PROVE  part[p].data \in ever
<1>1. part[p] \in Cells /\ part[p].hdr \in Headers
  BY DEF TypeInv, TypeOK, Cells
<1>2. part[p].data \in Payload
  BY <1>1 DEF Valid, Headers, BlankHdr, GarbageHdr
<1>3. QED BY <1>2, ConstAssumption DEF WholeInv, NoPayload

(***************************************************************************)
(* bm_config_load never hands out anything but a payload given whole to    *)
(* some save since the last full reset, however often the medium damages   *)
(* partitions, flips sequence numbers and fails to read.                   *)
(***************************************************************************)
THEOREM LoadIsWhole == Spec => LoadWhole
<1>1. TypeInv /\ WholeInv /\ [Next]_vars => [SomeLoad => out' \in ever \cup {NoValue}]_vars
  <2> SUFFICES ASSUME TypeInv, WholeInv, SomeLoad
               PROVE  out' \in ever \cup {NoValue}
    OBVIOUS
  <2>1. PICK unread \in SUBSET Parts : ConfigLoad(unread)
    BY DEF SomeLoad
  <2>2. \A p \in ValidParts \ unread : part[p].data \in ever
    BY ValidIsWhole DEF ValidParts, ValidIn
  <2>. QED BY <2>1, <2>2 DEF ConfigLoad
<1>. QED BY <1>1, TypeInit, TypeStep, WholeInit, WholeStep, PTL DEF Spec, LoadWhole
=============================================================================
