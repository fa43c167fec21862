-------------------------- MODULE SettingSrvProofs --------------------------
(***************************************************************************)
(* RAM, flash and what the adapter acknowledged, for every number of       *)
(* settings and values, every delay and any sequence of faults.            *)
(*                                                                         *)
(* QuietAgrees and AckedOnFlash speak of the service at rest; a save       *)
(* reaches rest item by item.  The strengthening says of a save under way  *)
(* that the items before the next one are on flash or on record as missed, *)
(* and of an acknowledged item that RAM holds one of its values while the  *)
(* service runs, and that flash does until the page is erased.             *)
(***************************************************************************)
EXTENDS SettingSrv, TLAPS

SavedSoFar == pc = "write" => \A i \in Items : i < next => AgreesBut(i)
AckedHeld ==
    \A i \in Items : acked[i] # {} =>
        /\ (pc \in {"off", "idle", "erase"} /\ i \notin missed) => flash[i] \in acked[i]
        /\ pc # "off" => ram[i] \in acked[i]
IInv == TypeOK /\ QuietAgrees /\ SavedSoFar /\ AckedHeld

\* The first item exists and no extra setting is stored.
LEMMA ItemFacts ==
    /\ 1 \in Items /\ NItems \in Items /\ NItems \in Nat
    /\ \A i \in Items : i \in Int /\ 1 <= i /\ i <= NItems /\ i \in Ids
    /\ \A id \in Ids : id \notin Items => \A i \in Items : i # id
    /\ Zero \in Values /\ Blank \in Values /\ Torn \in Values /\ Given \subseteq Values
  BY ConstAssumption DEF Items, Ids, Values

\* The delay may stand at nothing or at its full length.
LEMMA DelayFacts == 0 \in 0 .. SaveDelay /\ SaveDelay \in 0 .. SaveDelay /\ SaveDelay > 0
  BY ConstAssumption

\* What TypeOK says of the saving delay.
DelayOK ==
    /\ saveFlag \in BOOLEAN /\ timeout \in 0 .. SaveDelay
    /\ timeout > 0 <=> saveFlag
    /\ pc = "off" => ~saveFlag

\* No delay is running once the flag is down.
LEMMA NoDelay == saveFlag' = FALSE /\ timeout' = 0 => DelayOK'
  <1> SUFFICES ASSUME saveFlag' = FALSE, timeout' = 0 PROVE DelayOK'
    OBVIOUS
  <1>1. ~(timeout' > 0) /\ timeout' \in 0 .. SaveDelay
    BY DelayFacts
  <1>2. ~saveFlag' /\ saveFlag' \in BOOLEAN
    OBVIOUS
  <1> QED BY <1>1, <1>2 DEF DelayOK

\* The rest of TypeOK.
LEMMA TypeOKPart ==
    ASSUME (flash \in [Items -> Values])', (ram \in [Ids -> Values])',
           (isSet \subseteq Ids)', DelayOK', (pc \in {"off", "idle", "erase", "write"})',
           (next \in Items)', (asked \in Items \cup {0})', (missed \subseteq Items)',
           (acked \in [Items -> SUBSET Values])'
    PROVE  TypeOK'
  BY DEF TypeOK, DelayOK

\* The initial state: flash erased, RAM zero, nothing pending or promised.
LEMMA InitInv == Init => IInv
  <1> SUFFICES ASSUME Init PROVE IInv
    OBVIOUS
  <1>1. flash \in [Items -> Values] /\ ram \in [Ids -> Values]
    BY ItemFacts DEF Init
  <1>2. acked \in [Items -> SUBSET Values] /\ isSet \subseteq Ids /\ missed \subseteq Items
    BY DEF Init
  <1>3. next \in Items /\ asked \in Items \cup {0} /\ pc = "off"
    BY ItemFacts DEF Init
  <1>4. ~saveFlag /\ saveFlag \in BOOLEAN
    BY DEF Init
  <1>5. timeout \in 0 .. SaveDelay /\ ~(timeout > 0)
    BY DelayFacts DEF Init
  <1>6. TypeOK
    BY <1>1, <1>2, <1>3, <1>4, <1>5 DEF TypeOK
  <1>7. AckedHeld
    BY DEF Init, AckedHeld
  <1> QED BY <1>3, <1>6, <1>7 DEF IInv, QuietAgrees, SavedSoFar

-----------------------------------------------------------------------------
(* The callers: starts, sets, resets. *)

\* SettingInit after a medium was kept or erased.
LEMMA StartInv ==
    ASSUME IInv, NEW unread \in SUBSET Items, NEW gone \in SUBSET Items,
           unread \subseteq gone, flash' \in [Items -> Values],
           \A i \in Items \ gone : acked[i] # {} => flash'[i] \in acked[i],
           SettingInit(unread), Forget(gone)
    PROVE  IInv'
  <1> DEFINE R == [i \in Ids |-> IF i \in Items \ unread THEN flash'[i] ELSE ram[i]]
             A == [i \in Items |-> IF i \in gone THEN {} ELSE acked[i]]
  <1>a. R \in [Ids -> Values] /\ ram' = R
    BY DEF IInv, TypeOK, SettingInit
  <1>b. A \in [Items -> SUBSET Values] /\ acked' = A
    BY DEF IInv, TypeOK, Forget
  <1>c. isSet' \subseteq Ids /\ missed' \subseteq Items /\ pc' = "idle"
        /\ next' \in Items /\ asked' \in Items \cup {0}
    BY ItemFacts DEF IInv, TypeOK, SettingInit
  <1>d. DelayOK'
    BY NoDelay DEF SettingInit
  <1> HIDE DEF R, A
  <1>1. TypeOK'
    BY <1>a, <1>b, <1>c, <1>d, TypeOKPart
  <1>2. \A i \in Items : i \notin unread => ram'[i] = flash'[i]
    BY ItemFacts DEF SettingInit
  <1>3. QuietAgrees'
    BY <1>2 DEF QuietAgrees, AgreesBut, SettingInit
  <1>4. SavedSoFar'
    BY DEF SavedSoFar, SettingInit
  <1>5. \A i \in Items : acked'[i] # {} =>
          i \notin gone /\ acked'[i] = acked[i] /\ flash'[i] \in acked[i]
    BY DEF Forget
  <1>6. AckedHeld'
    BY <1>2, <1>5 DEF AckedHeld
  <1> QED BY <1>1, <1>3, <1>4, <1>6 DEF IInv

\* What may be found for a set item grows by the value set; of an item already
\* missed nothing is promised any more.
LEMMA MayHoldFacts ==
    ASSUME TypeOK, NEW id \in Ids, NEW v \in Given, MayHold(id, v)
    PROVE  /\ acked' \in [Items -> SUBSET Values]
           /\ \A i \in Items : i # id => acked'[i] = acked[i]
           /\ \A i \in Items : i = id /\ acked'[i] # {} =>
                  /\ acked[i] # {} /\ i \notin missed
                  /\ acked'[i] = acked[i] \cup {v}
  <1>1. v \in Values
    BY ItemFacts
  <1>2. \A i \in Items : acked[i] \subseteq Values
    BY DEF TypeOK
  <1>3. \A i \in Items : acked[i] \cup {v} \in SUBSET Values
    BY <1>1, <1>2
  <1>4. acked' \in [Items -> SUBSET Values]
    BY <1>2, <1>3 DEF MayHold
  <1>5. \A i \in Items : i # id => acked'[i] = acked[i]
    BY DEF MayHold
  <1>6. \A i \in Items : i = id /\ acked'[i] # {} =>
          /\ acked[i] # {} /\ i \notin missed
          /\ acked'[i] = acked[i] \cup {v}
    BY DEF MayHold
  <1> QED BY <1>4, <1>5, <1>6

\* A set keeps the types, and leaves the delay running exactly with the flag up.
LEMMA SetRamType ==
    ASSUME IInv, NEW id \in Ids, NEW v \in Given, SetRam(id, v), pc' # "off" \/ pc = "off"
    PROVE  /\ ram' \in [Ids -> Values] /\ isSet' \subseteq Ids /\ missed' \subseteq Items
           /\ DelayOK'
           /\ \A i \in Items : i # id => ram'[i] = ram[i] /\ (i \in missed' <=> i \in missed)
           /\ \A i \in Items : i = id => ram'[i] = v
           /\ id \notin Items => saveFlag' = saveFlag /\ \A i \in Items : i # id
           /\ id \in Items /\ pc # "off" => saveFlag'
  <1>1. ram' \in [Ids -> Values] /\ isSet' \subseteq Ids /\ missed' \subseteq Items
    BY ItemFacts DEF IInv, TypeOK, SetRam
  <1>2. /\ \A i \in Items : i # id => ram'[i] = ram[i] /\ (i \in missed' <=> i \in missed)
        /\ \A i \in Items : i = id => ram'[i] = v
    BY ItemFacts DEF IInv, TypeOK, SetRam
  <1>3. CASE id \in Items /\ pc # "off"
    <2>1. saveFlag' = TRUE /\ timeout' = SaveDelay
      BY <1>3 DEF SetRam
    <2>2. timeout' \in 0 .. SaveDelay /\ timeout' > 0
      BY <2>1, DelayFacts
    <2>3. saveFlag' /\ saveFlag' \in BOOLEAN
      BY <2>1
    <2>4. pc' # "off"
      BY <1>3
    <2> QED BY <1>1, <1>2, <1>3, <2>2, <2>3, <2>4 DEF DelayOK
  <1>4. CASE ~(id \in Items /\ pc # "off")
    <2>1. saveFlag' = saveFlag /\ timeout' = timeout
      BY <1>4 DEF SetRam
    <2>2. DelayOK
      BY DEF IInv, TypeOK, DelayOK
    <2>3. pc' = "off" => pc = "off"
      OBVIOUS
    <2>4. DelayOK'
      BY <2>1, <2>2, <2>3 DEF DelayOK
    <2>5. id \notin Items => \A i \in Items : i # id
      OBVIOUS
    <2> QED BY <1>1, <1>2, <1>4, <2>1, <2>4, <2>5
  <1> QED BY <1>3, <1>4

\* A set of an acknowledged item adds the value to those that may be found: flash
\* keeps one of the old ones, RAM has the new one.
LEMMA SetAcked ==
    ASSUME IInv, NEW id \in Ids, NEW v \in Given, SetRam(id, v), MayHold(id, v),
           flash' = flash, pc \in {"off", "idle"}, pc' = pc \/ (pc = "idle" /\ pc' = "erase")
    PROVE  AckedHeld'
  <1>0. TypeOK /\ AckedHeld /\ (pc' # "off" \/ pc = "off")
    BY DEF IInv
  <1> SUFFICES ASSUME NEW i \in Items, acked'[i] # {}
               PROVE  /\ i \notin missed' => flash'[i] \in acked'[i]
                      /\ pc' # "off" => ram'[i] \in acked'[i]
    BY DEF AckedHeld
  <1>1. CASE i = id
    <2>1. acked[i] # {} /\ i \notin missed /\ acked'[i] = acked[i] \cup {v}
      BY <1>0, <1>1, MayHoldFacts
    <2>2. flash[i] \in acked[i]
      BY <1>0, <2>1 DEF AckedHeld
    <2>3. ram'[i] = v
      BY <1>0, <1>1, SetRamType
    <2> QED BY <2>1, <2>2, <2>3
  <1>2. CASE i # id
    <2>1. acked'[i] = acked[i]
      BY <1>0, <1>2, MayHoldFacts
    <2>2. ram'[i] = ram[i] /\ (i \in missed' <=> i \in missed)
      BY <1>0, <1>2, SetRamType
    <2> QED BY <1>0, <2>1, <2>2 DEF AckedHeld
  <1> QED BY <1>1, <1>2

\* Calls of the application and of the adapter, starts included, keep the invariant.
LEMMA CallerStep == IInv /\ Caller => IInv'
  <1> SUFFICES ASSUME IInv, Caller PROVE IInv'
    OBVIOUS
  <1> USE DEF IInv
  <1>1. ASSUME NEW unread \in SUBSET Items, Reopen(unread)
        PROVE  IInv'
    <2> DEFINE gone == missed \cup unread
    <2>1. /\ pc \in {"off", "idle"} /\ flash' = flash
          /\ SettingInit(unread) /\ Forget(gone)
      BY <1>1 DEF Reopen
    <2>2. \A i \in Items \ gone : acked[i] # {} => flash'[i] \in acked[i]
      BY <2>1 DEF AckedHeld
    <2>3. flash' \in [Items -> Values] /\ gone \in SUBSET Items /\ unread \subseteq gone
      BY <2>1 DEF TypeOK
    <2> HIDE DEF gone
    <2> QED BY <2>1, <2>2, <2>3, StartInv
  <1>2. ASSUME NEW unread \in SUBSET Items, Format(unread)
        PROVE  IInv'
    <2>1. flash' \in [Items -> Values] /\ SettingInit(unread) /\ Forget(Items)
      BY <1>2, ItemFacts DEF Format, TypeOK
    <2>2. \A i \in Items \ Items : acked[i] # {} => flash'[i] \in acked[i]
      OBVIOUS
    <2> QED BY <2>1, <2>2, StartInv
  <1>3. ASSUME NEW id \in Ids, NEW v \in Given, SettingSet(id, v)
        PROVE  IInv'
    <2>1. /\ pc \in {"off", "idle"} /\ SetRam(id, v) /\ MayHold(id, v)
          /\ flash' = flash /\ pc' = pc /\ next' = next /\ asked' = asked
      BY <1>3 DEF SettingSet
    <2>2. TypeOK'
      BY <2>1, SetRamType, MayHoldFacts, TypeOKPart DEF TypeOK
    <2>3. QuietAgrees'
      BY <2>1, SetRamType DEF QuietAgrees, AgreesBut
    <2>4. SavedSoFar'
      BY <2>1 DEF SavedSoFar
    <2>5. AckedHeld'
      BY <2>1, SetAcked
    <2> QED BY <2>2, <2>3, <2>4, <2>5
  <1>4. ASSUME NEW id \in Items, NEW v \in Given, AdapterSet(id, v)
        PROVE  IInv'
    <2>0. id \in Ids
      BY ItemFacts
    <2>1. /\ pc = "idle" /\ SetRam(id, v) /\ pc' = "erase" /\ asked' = id
          /\ MayHold(id, v) /\ flash' = flash /\ next' = next
      BY <1>4 DEF AdapterSet
    <2>2. TypeOK'
      BY <2>0, <2>1, SetRamType, MayHoldFacts, TypeOKPart DEF TypeOK
    <2>5. AckedHeld'
      BY <2>0, <2>1, SetAcked
    <2> QED BY <2>1, <2>2, <2>5 DEF QuietAgrees, SavedSoFar
  <1>5. ASSUME NEW id \in Ids, SettingReset(id)
        PROVE  IInv'
    BY <1>5 DEF SettingReset, TypeOK, QuietAgrees, AgreesBut, SavedSoFar, AckedHeld
  <1>6. CASE SettingInitDB
    BY <1>6 DEF SettingInitDB, TypeOK, QuietAgrees, AgreesBut, SavedSoFar, AckedHeld
  <1>7. CASE SaveNow
    BY <1>7 DEF SaveNow, TypeOK, QuietAgrees, AgreesBut, SavedSoFar, AckedHeld
  <1>8. ASSUME NEW id \in Items, AdapterDel(id)
        PROVE  IInv'
    BY <1>8 DEF AdapterDel, TypeOK, QuietAgrees, AgreesBut, SavedSoFar, AckedHeld
  <1> QED BY <1>1, <1>2, <1>3, <1>4, <1>5, <1>6, <1>7, <1>8 DEF Caller, SomeSet

-----------------------------------------------------------------------------
(* The tick, the steps of a save and the loss of power. *)

\* A tick counts down, or begins a save of which nothing is done yet.
LEMMA TickStep == IInv /\ Tick => IInv'
  <1> SUFFICES ASSUME IInv, NEW e \in Elapsed, TickBy(e) PROVE IInv'
    BY DEF Tick
  <1>1. DelayOK'
    <2>1. pc = "idle" /\ saveFlag /\ timeout \in Nat /\ timeout <= SaveDelay /\ e \in Nat /\ e > 0
      BY ConstAssumption DEF IInv, TypeOK, TickBy
    <2>2. CASE timeout > e
      <3>1. timeout' = timeout - e /\ saveFlag' = saveFlag /\ pc' = pc
        BY <2>2 DEF TickBy
      <3>2. timeout' \in 0 .. SaveDelay /\ timeout' > 0
        BY <2>1, <2>2, <3>1, ConstAssumption
      <3>3. saveFlag' \in BOOLEAN /\ saveFlag'
        BY <2>1, <3>1 DEF IInv, TypeOK
      <3>4. pc' # "off"
        BY <2>1, <3>1
      <3> QED BY <3>2, <3>3, <3>4 DEF DelayOK
    <2>3. CASE ~(timeout > e)
      BY <2>3, NoDelay DEF TickBy
    <2> QED BY <2>2, <2>3
  <1>2. pc' \in {"off", "idle", "erase", "write"}
    BY DEF IInv, TypeOK, TickBy
  <1>3. TypeOK'
    BY <1>1, <1>2, TypeOKPart DEF IInv, TypeOK, TickBy
  <1> QED BY <1>3 DEF IInv, TickBy, QuietAgrees, AgreesBut, SavedSoFar, AckedHeld

\* When a save returns, RAM holds a value of every acknowledged item.
LEMMA ReturnFacts ==
    ASSUME IInv, pc # "off", ram' = ram, Return
    PROVE  /\ pc' = "idle" /\ asked' = 0 /\ acked' \in [Items -> SUBSET Values]
           /\ \A i \in Items : acked'[i] # {} => ram'[i] \in acked'[i]
  <1>1. \A i \in Items : ram[i] \in Values
    BY ItemFacts DEF IInv, TypeOK
  <1>2. acked' = [i \in Items |-> IF i = asked THEN {ram[i]} ELSE acked[i]]
    BY DEF Return
  <1>3. acked' \in [Items -> SUBSET Values]
    BY <1>1, <1>2 DEF IInv, TypeOK
  <1>4. \A i \in Items : acked'[i] # {} => ram'[i] \in acked'[i]
    BY <1>2 DEF IInv, AckedHeld
  <1> QED BY <1>3, <1>4 DEF Return

\* A write, done or failed, of the next item.
LEMMA ItemStep ==
    ASSUME IInv, pc = "write", flash' \in [Items -> Values], missed' \subseteq Items,
           \A i \in Items : i # next =>
               flash'[i] = flash[i] /\ (i \in missed' <=> i \in missed),
           next \in missed' \/ flash'[next] = ram[next],
           AfterWrite, UNCHANGED <<ram, isSet, saveFlag, timeout>>
    PROVE  IInv'
  <1> USE DEF IInv
  <1>1. \A i \in Items : i <= next /\ i \notin missed' => flash'[i] = ram[i]
    BY ItemFacts DEF SavedSoFar, AgreesBut, TypeOK
  <1>2. CASE next = NItems
    <2>1. next' = 1 /\ Return
      BY <1>2 DEF AfterWrite
    <2>2. TypeOK'
      BY <2>1, ReturnFacts, ItemFacts DEF TypeOK
    <2>3. \A i \in Items : i \notin missed' => flash'[i] = ram'[i]
      BY <1>1, <1>2, ItemFacts
    <2>4. AckedHeld'
      BY <2>1, <2>3, ReturnFacts DEF AckedHeld
    <2>5. pc' = "idle"
      BY <2>1, ReturnFacts
    <2> QED BY <2>2, <2>3, <2>4, <2>5 DEF QuietAgrees, AgreesBut, SavedSoFar
  <1>3. CASE next # NItems
    <2>1. next' = next + 1 /\ pc' = pc /\ asked' = asked /\ acked' = acked
      BY <1>3 DEF AfterWrite
    <2>2. TypeOK'
      BY <1>3, <2>1, ItemFacts DEF TypeOK, Items
    <2>3. SavedSoFar'
      BY <1>1, <2>1, ItemFacts DEF SavedSoFar, AgreesBut, TypeOK
    <2>4. AckedHeld'
      BY <2>1 DEF AckedHeld
    <2> QED BY <2>1, <2>2, <2>3, <2>4 DEF QuietAgrees
  <1> QED BY <1>2, <1>3

\* Each HAL call of a save adds one item to those that agree, or puts it in missed.
LEMMA SavingStep == IInv /\ Saving => IInv'
  <1> SUFFICES ASSUME IInv, Saving PROVE IInv'
    OBVIOUS
  <1> USE DEF IInv
  <1>1. CASE SaveErase
    BY <1>1, ItemFacts DEF SaveErase, TypeOK, QuietAgrees, SavedSoFar, AckedHeld
  <1>2. CASE SaveEraseFails
    <2>1. /\ flash' \in [Items -> Values] /\ missed' = Items /\ next' = next
          /\ pc = "erase" /\ ram' = ram /\ Return
      BY <1>2, ItemFacts DEF SaveEraseFails, TypeOK
    <2>2. TypeOK'
      BY <1>2, <2>1, ReturnFacts DEF SaveEraseFails, TypeOK
    <2>3. pc' = "idle" /\ \A i \in Items : acked'[i] # {} => ram'[i] \in acked'[i]
      BY <2>1, ReturnFacts
    <2> QED BY <2>1, <2>2, <2>3 DEF QuietAgrees, AgreesBut, SavedSoFar, AckedHeld
  <1>3. CASE SaveWrite
    <2>1. /\ pc = "write" /\ flash' = [flash EXCEPT ![next] = ram[next]]
          /\ missed' = missed \ {next} /\ AfterWrite
          /\ UNCHANGED <<ram, isSet, saveFlag, timeout>>
      BY <1>3 DEF SaveWrite
    <2>2. next \in Items /\ ram[next] \in Values
      BY ItemFacts DEF TypeOK
    <2>3. /\ flash' \in [Items -> Values] /\ missed' \subseteq Items
          /\ \A i \in Items : i # next =>
                 flash'[i] = flash[i] /\ (i \in missed' <=> i \in missed)
          /\ flash'[next] = ram[next]
      BY <2>1, <2>2 DEF TypeOK
    <2> QED BY <2>1, <2>3, ItemStep
  <1>4. CASE SaveWriteFails
    <2>1. /\ pc = "write" /\ flash' \in CutItem
          /\ missed' = missed \cup {next} /\ AfterWrite
          /\ UNCHANGED <<ram, isSet, saveFlag, timeout>>
      BY <1>4 DEF SaveWriteFails
    <2>2. next \in Items /\ ram[next] \in Values
      BY ItemFacts DEF TypeOK
    <2>3. /\ flash' \in [Items -> Values] /\ missed' \subseteq Items
          /\ \A i \in Items : i # next =>
                 flash'[i] = flash[i] /\ (i \in missed' <=> i \in missed)
          /\ next \in missed'
      BY <2>1, <2>2, ItemFacts DEF TypeOK, CutItem
    <2> QED BY <2>1, <2>3, ItemStep
  <1> QED BY <1>1, <1>2, <1>3, <1>4 DEF Saving

\* A loss forgets RAM; of an acknowledged item that it leaves, flash holds a value:
\* the save had not erased it yet, or had written it back.
LEMMA PowerLossStep == IInv /\ PowerLoss => IInv'
  <1> SUFFICES ASSUME IInv, PowerLoss PROVE IInv'
    OBVIOUS
  <1> USE DEF IInv
  <1>1. next \in Items /\ ram[next] \in Values
    BY ItemFacts DEF TypeOK
  <1>2. CutItem \subseteq [Items -> Values]
    BY <1>1, ItemFacts DEF CutItem, TypeOK
  <1>3. flash' \in [Items -> Values]
    BY <1>2, ItemFacts DEF PowerLoss, TypeOK
  <1> DEFINE R == [i \in Ids |-> Zero]
  <1>a. R \in [Ids -> Values] /\ ram' = R
    BY ItemFacts DEF PowerLoss
  <1>b. \A gone \in SUBSET Items : Forget(gone) => acked' \in [Items -> SUBSET Values]
    BY DEF Forget, TypeOK
  <1>c. acked' \in [Items -> SUBSET Values]
    BY <1>b DEF PowerLoss, TypeOK
  <1>d. isSet' \subseteq Ids /\ missed' \subseteq Items /\ pc' = "off"
        /\ next' \in Items /\ asked' \in Items \cup {0}
    BY ItemFacts DEF PowerLoss
  <1>e. DelayOK'
    BY NoDelay DEF PowerLoss
  <1> HIDE DEF R
  <1>4. TypeOK'
    BY <1>3, <1>a, <1>c, <1>d, <1>e, TypeOKPart
  <1>5. ASSUME NEW i \in Items, acked'[i] # {}
        PROVE  flash'[i] \in acked'[i]
    <2>1. CASE pc = "erase" /\ Forget(Items)
      BY <1>5, <2>1 DEF Forget
    <2>2. CASE /\ pc = "write" /\ flash' \in CutItem
               /\ Forget(missed \cup {j \in Items : next <= j})
      <3>1. acked'[i] = acked[i] /\ i \notin missed /\ ~(next <= i)
        BY <1>5, <2>2 DEF Forget
      <3>2. i < next
        BY <1>1, <3>1, ItemFacts
      <3>3. flash[i] = ram[i] /\ ram[i] \in acked[i]
        BY <1>5, <2>2, <3>1, <3>2 DEF SavedSoFar, AgreesBut, AckedHeld
      <3>4. flash'[i] = flash[i]
        BY <1>1, <2>2, <3>2, ItemFacts DEF CutItem, TypeOK
      <3> QED BY <3>1, <3>3, <3>4
    <2>3. CASE pc # "write" /\ flash' = flash /\ Forget(missed)
      <3>1. acked'[i] = acked[i] /\ i \notin missed
        BY <1>5, <2>3 DEF Forget
      <3>2. pc \in {"off", "idle", "erase"}
        BY <2>3 DEF TypeOK
      <3> QED BY <1>5, <2>3, <3>1, <3>2 DEF AckedHeld
    <2> QED BY <2>1, <2>2, <2>3 DEF PowerLoss
  <1>6. AckedHeld'
    BY <1>5, <1>d DEF AckedHeld
  <1> QED BY <1>4, <1>6 DEF PowerLoss, QuietAgrees, SavedSoFar

\* The invariant is inductive.
LEMMA InvStep == IInv /\ [Next]_vars => IInv'
  <1>1. IInv /\ UNCHANGED vars => IInv'
    BY DEF IInv, vars, TypeOK, QuietAgrees, AgreesBut, SavedSoFar, AckedHeld
  <1> QED BY <1>1, CallerStep, TickStep, SavingStep, PowerLossStep DEF Next

\* The inductive invariant holds throughout.
LEMMA Invariant == Spec => []IInv
  BY InitInv, InvStep, PTL DEF Spec

-----------------------------------------------------------------------------
\* Every variable of the setting service keeps its type.
THEOREM TypeCorrect == Spec => []TypeOK
  <1>1. IInv => TypeOK
    BY DEF IInv
  <1> QED BY Invariant, <1>1, PTL

\* With no save due, RAM and flash agree but for items a HAL error kept from being
\* saved or loaded (Setting_Set, SettingSrv_Tick, SettingSrv_Bookkeeping).
THEOREM QuietAlwaysAgrees == Spec => []QuietAgrees
  <1>1. IInv => QuietAgrees
    BY DEF IInv
  <1> QED BY Invariant, <1>1, PTL

\* Outside a save flash holds what the adapter acknowledged (tym_ad_set_impl), but
\* for the items a loss of power found erased and not written back by the save
\* under way (SettingSrv_Bookkeeping), and those a HAL error struck.
THEOREM AckedAlwaysOnFlash == Spec => []AckedOnFlash
  <1>1. IInv => AckedOnFlash
    BY DEF IInv, AckedHeld, AckedOnFlash, SettingGet
  <1> QED BY Invariant, <1>1, PTL
=============================================================================
