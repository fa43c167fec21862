-------------------------- MODULE TaskEngineProofs --------------------------
(***************************************************************************)
(* What a verdict of the task engine is worth, for every set of options,   *)
(* every geometry and any number of misbehaviours of the stores.           *)
(*                                                                         *)
(* Inductive invariant: TypeOK; the phases belong to their tasks (Phases); *)
(* while nothing is counted as lost, every set that returned 0 reads back  *)
(* or is about to be checked (Noticed); and the items already verified     *)
(* after the restart hold what was written (Verified).  Smooth adds what   *)
(* holds while no store misbehaves.                                        *)
(***************************************************************************)
EXTENDS TaskEngine, NatFacts, FiniteSetTheorems

\* Every call is made on an open device, and a run leaves one open only when the first
\* init of an adapter that does not clean up fails (app_run_task, the adapters' inits).
DeviceOpen ==
    /\ pc \in {"loop", "check", "read", "restart", "verify"} => dev
    /\ (pc = "over" /\ dev) => verdict = -1 /\ ~Registered[comp].frees

\* The phases that only some tasks have.
Phases ==
    /\ pc = "read" => task = "read"
    /\ pc \in {"restart", "reinit", "verify"} => task = "powerloss"
    /\ pc = "reinit" => reinit
    /\ pc = "start" => ~missed

\* Item n reads back as what the task wrote last.
Readable(n) == /\ Found(comp, store, n, opt)
               /\ store.at[Slot(comp, n)] = Value(task, round, n)

Checking == task = "update" \/ (task = "durability" /\ Kind # "baremetal")
\* A set that returned 0 and cannot be read is counted, or about to be.
Noticed ==
    Checking /\ missed =>
        /\ pc = "check" => lost > 0 \/ ~Readable(i)
        /\ pc \in {"loop", "end"} => lost > 0
        /\ pc = "over" => verdict # 0

\* What the check after the restart has gone over is there.
Verified ==
    /\ pc = "verify" /\ lost = 0 =>
           store.at = store.disk /\ \A n \in ToVerify : n < i => Readable(n)
    /\ pc = "end" /\ task = "powerloss" /\ rc = 0 /\ lost = 0 =>
           store.at = store.disk /\ \A n \in ToVerify : Readable(n)
    /\ pc = "over" /\ task = "powerloss" /\ verdict = 0 =>
           store.at = store.disk /\ \A n \in ToVerify : Readable(n)

IInv == TypeOK /\ Phases /\ DeviceOpen /\ Noticed /\ Verified

-----------------------------------------------------------------------------
(* The adapters' operators keep the type of a store. *)

\* A value, a store with one, and a bare store have the types the model says.
LEMMA ValueType ==
    ASSUME NEW t \in Tasks, NEW r \in Nat, NEW n \in Slots
    PROVE  Value(t, r, n) \in Contents
  BY DEF Value, Contents, Values, Tasks, Seed

\* Put writes one content.
LEMMA PutType ==
    ASSUME NEW c, NEW s \in Stores, NEW n, NEW x \in Contents
    PROVE  Put(c, s, n, x) \in Stores
  <1>1. s.at \in [Slots -> Contents] /\ s.disk \in [Slots -> Contents] /\ s.used \in Nat
    BY DEF Stores
  <1> DEFINE p == Place(c, s, n)
             used == IF Registered[c].layout = "log" \/ ~Written(c, s, n)
                     THEN s.used + 1 ELSE s.used
  <1>2. [s.at EXCEPT ![p] = x] \in [Slots -> Contents]
    BY <1>1
  <1>3. [s.disk EXCEPT ![p] = x] \in [Slots -> Contents]
    BY <1>1
  <1>4. used \in Nat
    BY <1>1
  <1>5. Put(c, s, n, x) = [at |-> [s.at EXCEPT ![p] = x],
                           disk |-> [s.disk EXCEPT ![p] = x], used |-> used]
    BY DEF Put
  <1> HIDE DEF p, used
  <1> QED BY <1>2, <1>3, <1>4, <1>5 DEF Stores

\* An empty store is a store.
LEMMA BareType == ASSUME NEW c PROVE Bare(c) \in Stores
  BY DEF Bare, Stores, Contents

\* Opening a store again replaces what reads find.
LEMMA ReopenedType == ASSUME NEW s \in Stores PROVE Reopened(s) \in Stores
  BY DEF Reopened, Stores

\* The stores of failed and of unflushed writes.
LEMMA TornType ==
    ASSUME NEW c, NEW s \in Stores, NEW n, NEW v \in Contents
    PROVE  Torn(c, s, n, v) \subseteq Stores /\ Unflushed(c, s, n, v) \subseteq Stores
  <1>1. {Hollow, Junk} \subseteq Contents
    BY DEF Contents
  <1>2. Put(c, s, n, v) \in Stores /\ Put(c, s, n, Hollow) \in Stores
        /\ Put(c, s, n, Junk) \in Stores
    BY <1>1, PutType
  <1>3. [s EXCEPT !.used = @ + 1] \in Stores
    BY DEF Stores
  <1>4. /\ [Put(c, s, n, v) EXCEPT !.disk = s.disk] \in Stores
        /\ [Put(c, s, n, v) EXCEPT !.disk = Bare(c).disk] \in Stores
    BY <1>2, BareType DEF Stores
  <1>5. Torn(c, s, n, v) \subseteq Stores
    BY <1>2, <1>3 DEF Torn
  <1>6. Unflushed(c, s, n, v) \subseteq Stores
    BY <1>2, <1>4 DEF Unflushed
  <1> QED BY <1>5, <1>6

\* An append to a table whose head could not be read.
LEMMA MisreadType ==
    ASSUME NEW c, NEW s \in Stores, NEW n, NEW v \in Contents
    PROVE  Misread(c, s, n, v) \subseteq Stores
  <1>1. s.at \in [Slots -> Contents] /\ s.disk \in [Slots -> Contents] /\ s.used \in Nat
    BY DEF Stores
  <1>2. s.used + 1 \in Nat
    BY <1>1
  <1>3. [s.at EXCEPT ![s.used] = v] \in [Slots -> Contents]
    BY <1>1, Zenon
  <1>4. [s.disk EXCEPT ![s.used] = v] \in [Slots -> Contents]
    BY <1>1, Zenon
  <1> QED BY <1>2, <1>3, <1>4 DEF Misread, Stores

Outcomes == [rc : {-1, 0}, store : Stores, cost : Nat]

\* Every outcome of a set is a return code, a store and a cost.
LEMMA SetsType ==
    ASSUME NEW c, NEW s \in Stores, NEW n, NEW v \in Contents, NEW o
    PROVE  Sets(c, s, n, v, o) \subseteq Outcomes
  <1>1. Put(c, s, n, v) \in Stores /\ Put(c, s, n, Hollow) \in Stores
    BY PutType DEF Contents
  <1>2. Torn(c, s, n, v) \subseteq Stores /\ Unflushed(c, s, n, v) \subseteq Stores
    BY TornType
  <1>3. {Outcome(0, t, 1) : t \in Unflushed(c, s, n, v) \cup Misread(c, s, n, v)}
        \subseteq Outcomes
    BY <1>2, MisreadType DEF Outcome, Outcomes
  <1>4. {Outcome(-1, t, Cost(c, s, n)) : t \in Torn(c, s, n, v)} \subseteq Outcomes
    BY <1>2 DEF Outcome, Outcomes, Cost
  <1>5. {Outcome(0, Put(c, s, n, v), 0)} \subseteq Outcomes
    BY <1>1 DEF Outcome, Outcomes
  <1>6. SetNow(c, s, n, v) \subseteq Outcomes
    BY <1>3, <1>4, <1>5 DEF SetNow
  <1> QED BY <1>1, <1>6 DEF Sets, Outcome, Outcomes

\* And every outcome of a delete.
LEMMA DeletesType ==
    ASSUME NEW c, NEW s \in Stores, NEW n, NEW o
    PROVE  Deletes(c, s, n, o) \subseteq Outcomes
  <1>1. Blank(c) \in Contents
    BY DEF Blank, Contents
  <1>2. Put(c, s, n, Blank(c)) \in Stores
    BY <1>1, PutType
  <1>3. Torn(c, s, n, Blank(c)) \subseteq Stores /\ Unflushed(c, s, n, Blank(c)) \subseteq Stores
    BY <1>1, TornType
  <1>4. {Outcome(-1, t, 1) : t \in Torn(c, s, n, Blank(c))} \subseteq Outcomes
    BY <1>3 DEF Outcome, Outcomes
  <1>5. {Outcome(0, t, 1) : t \in Undeleted(c, s, n)} \subseteq Outcomes
    BY <1>3 DEF Undeleted, Outcome, Outcomes
  <1>6. {Outcome(-1, s, 0), Outcome(0, s, 0), Outcome(0, Put(c, s, n, Blank(c)), 0)}
        \subseteq Outcomes
    BY <1>2 DEF Outcome, Outcomes
  <1> QED BY <1>4, <1>5, <1>6 DEF Deletes

\* A read that returns 0 returns what is there.
LEMMA GetsRight ==
    ASSUME NEW c, NEW s, NEW n, NEW o, NEW g \in Gets(c, s, n, o)
    PROVE  /\ g.cost \in Nat
           /\ g.rc = 0 => Found(c, s, n, o) /\ g.val = s.at[Slot(c, n)]
  BY DEF Gets

\* A repair leaves a store that was opened again, and is a misbehaviour.
LEMMA RepairRight ==
    ASSUME NEW c, NEW s \in Stores, NEW o, NEW r \in RepairInits(c, s, o)
    PROVE  /\ r.rc \in {-1, 0} /\ r.dev \in BOOLEAN /\ r.cost \in Nat /\ r.cost > 0
           /\ r.rc = 0 <=> r.dev
           /\ r.store \in Stores /\ r.store.at = r.store.disk
  <1>1. PICK ok \in {0, 1}, t \in Repaired(c, s) :
            r = [rc |-> ok - 1, dev |-> ok = 1, store |-> t, cost |-> 2 - ok]
    BY DEF RepairInits
  <1>2. r.dev \in BOOLEAN /\ (r.dev <=> ok = 1)
    BY <1>1, Zenon
  <1>3. t \in Stores /\ t.at = t.disk
    <2>1. CASE c = "fastflash"
      <3>1. t = Bare(c)
        BY <2>1 DEF Repaired
      <3> QED BY <3>1, BareType DEF Bare
    <2>2. CASE c # "fastflash"
      <3>1. PICK gone \in SUBSET Slots, x \in {Missing, Junk} :
                t = Reopened([s EXCEPT !.disk = Left(s, gone, x)])
        BY <2>2 DEF Repaired
      <3> DEFINE left == Left(s, gone, x)
      <3>2. left \in [Slots -> Contents]
        BY DEF Left, Stores, Contents
      <3>3. t = Reopened([s EXCEPT !.disk = left])
        BY <3>1
      <3> HIDE DEF left
      <3>4. [s EXCEPT !.disk = left] \in Stores
        BY <3>2 DEF Stores
      <3>5. t \in Stores
        BY <3>3, <3>4, ReopenedType
      <3>6. t.at = t.disk
        BY <3>3, <3>4 DEF Reopened, Stores
      <3> QED BY <3>5, <3>6
    <2> QED BY <2>1, <2>2
  <1> QED BY <1>1, <1>2, <1>3

\* Init: the device is open after a success, and after a failure only where it is not
\* freed; the store is emptied or opened again.
LEMMA InitsRight ==
    ASSUME NEW c, NEW s \in Stores, NEW o, NEW b \in BOOLEAN, NEW r \in Inits(c, s, o, b)
    PROVE  /\ r.rc \in {-1, 0} /\ r.dev \in BOOLEAN /\ r.cost \in Nat
           /\ r.store \in Stores /\ r.store.at = r.store.disk
           /\ r.rc = 0 => r.dev
           /\ r.rc # 0 /\ r.dev => ~Registered[c].frees
  <1>0. CASE b /\ r \in RepairInits(c, s, o)
    <2>1. /\ r.rc \in {-1, 0} /\ r.dev \in BOOLEAN /\ r.cost \in Nat
          /\ r.rc = 0 <=> r.dev
          /\ r.store \in Stores /\ r.store.at = r.store.disk
      BY <1>0, RepairRight
    <2> QED BY <2>1
  <1>1. CASE r \in AdapterInits(c, s, o, b)
    <2>1. PICK m \in Mishaps :
              r = [rc |-> IF Succeeds(c, o, b, m) THEN 0 ELSE -1,
                   dev |-> \/ Succeeds(c, o, b, m)
                           \/ Opens(c, o, m) /\ m = "mount" /\ ~Registered[c].frees,
                   store |-> IF Empties(c, o, b, m) THEN Bare(c) ELSE Reopened(s),
                   cost |-> IF m = "none" THEN 0 ELSE 1]
      BY <1>1 DEF AdapterInits
    <2>2. Bare(c) \in Stores /\ Bare(c).at = Bare(c).disk
      BY BareType DEF Bare
    <2>3. Reopened(s) \in Stores /\ Reopened(s).at = Reopened(s).disk
      BY ReopenedType DEF Reopened, Stores
    <2>4. r.dev \in BOOLEAN
      BY <2>1, Zenon
    <2> QED BY <2>1, <2>2, <2>3, <2>4
  <1> QED BY <1>0, <1>1 DEF Inits

\* Under APP_REINIT an init that costs nothing, or is not of a store that repairs its
\* medium, keeps what is there.
LEMMA InitsKeep ==
    ASSUME NEW c, NEW s \in Stores, NEW o, NEW r \in Inits(c, s, o, TRUE)
    PROVE  r.store.disk = s.disk \/ (c \in Repairing /\ r.cost > 0)
  <1>0. CASE r \in RepairInits(c, s, o)
    <2>1. r.cost > 0
      BY <1>0, RepairRight
    <2> QED BY <1>0, <2>1 DEF RepairInits
  <1>1. CASE r \in AdapterInits(c, s, o, TRUE)
    <2>1. PICK m \in Mishaps :
              r = [rc |-> IF Succeeds(c, o, TRUE, m) THEN 0 ELSE -1,
                   dev |-> \/ Succeeds(c, o, TRUE, m)
                           \/ Opens(c, o, m) /\ m = "mount" /\ ~Registered[c].frees,
                   store |-> IF Empties(c, o, TRUE, m) THEN Bare(c) ELSE Reopened(s),
                   cost |-> IF m = "none" THEN 0 ELSE 1]
      BY <1>1 DEF AdapterInits
    <2>2. ~Empties(c, o, TRUE, m)
      BY DEF Empties, Formats
    <2> QED BY <2>1, <2>2 DEF Reopened, Stores
  <1> QED BY <1>0, <1>1 DEF Inits

-----------------------------------------------------------------------------
(* What is known of the run's fixed part. *)
LEMMA OptType ==
    ASSUME TypeOK
    PROVE  /\ opt.items \in 0 .. NSlots /\ opt.rounds \in Nat
           /\ Rounds \in Nat /\ NSlots \in Nat /\ NSlots >= 4
           /\ LastToVerify \in Int /\ FirstToVerify \in Slots
           /\ ToVerify # {} => LastToVerify \in Slots
  BY EngineAssumption, AdaptersAssumption
     DEF TypeOK, Rounds, Settings, LastToVerify, FirstToVerify, ToVerify, Slots

\* The phase after the loop is the task's.
LEMMA AfterPhase ==
    /\ After \in {"read", "restart", "end"}
    /\ After = "read" => task = "read"
    /\ After = "restart" <=> task = "powerloss"
  BY DEF After

\* A step to the next item.
LEMMA ForwardRight ==
    ASSUME TypeOK, Forward
    PROVE  /\ i' \in Slots /\ round' \in Nat
           /\ pc' \in {"loop", After}
  BY OptType DEF Forward, TypeOK, Slots

\* Nothing is missed or lost before the first call.
LEMMA InitInv == Init => IInv
  <1> SUFFICES ASSUME Init PROVE IInv
    OBVIOUS
  <1>1. Bare(comp) \in Stores
    BY BareType
  <1>2. \A n \in Slots : Value("write", 0, n) \in Contents
    BY ValueType DEF Tasks
  <1>3. Leftover(comp) \subseteq Stores
    BY <1>1, <1>2, AdaptersAssumption DEF Leftover, Stores
  <1>a. store \in Stores
    BY <1>3 DEF Init
  <1>b. 0 \in Slots /\ 0 \in 0 .. MaxFaults
    BY AdaptersAssumption, EngineAssumption DEF Slots, Settings
  <1>4. TypeOK
    BY <1>a, <1>b DEF Init, TypeOK
  <1>5. Phases /\ DeviceOpen /\ Noticed /\ Verified
    BY DEF Init, Phases, DeviceOpen, Noticed, Verified
  <1> QED BY <1>4, <1>5 DEF IInv

-----------------------------------------------------------------------------
(* Type correctness, step by step. *)
LEMMA TypeStep == IInv /\ [Next]_vars => TypeOK'
  <1> SUFFICES ASSUME IInv, [Next]_vars PROVE TypeOK'
    OBVIOUS
  <1> USE DEF IInv
  <1>o. TypeOK
    OBVIOUS
  <1>i. i \in Slots /\ round \in Nat /\ lost \in Nat /\ 0 \in Slots /\ task \in Tasks
    BY OptType DEF TypeOK, Slots
  <1>v. Value(task, round, i) \in Contents /\ store \in Stores
    BY <1>i, ValueType DEF TypeOK
  <1>1. CASE Start
    <2>1. PICK r \in Inits(comp, store, opt, FALSE) :
              /\ Spend(r.cost) /\ store' = r.store /\ dev' = r.dev
              /\ IF r.rc = 0 THEN pc' = Entry /\ verdict' = verdict
                 ELSE pc' = "over" /\ verdict' = -1
      BY <1>1 DEF Start
    <2>2. r.store \in Stores /\ r.dev \in BOOLEAN /\ r.cost \in Nat
      BY <1>v, <2>1, InitsRight
    <2>3. faults' \in 0 .. MaxFaults
      BY <2>1, <2>2, EngineAssumption DEF Spend, TypeOK
    <2>4. pc' \in {"loop", "read", "restart", "end", "over"} /\ verdict' \in {-1, 0, 1}
      BY <2>1, AfterPhase DEF Entry, TypeOK
    <2>5. dev' \in BOOLEAN
      BY <2>1, <2>2, Zenon
    <2> QED BY <1>1, <2>1, <2>2, <2>3, <2>4, <2>5 DEF Start, run, TypeOK
  <1>2. CASE Set
    <2>1. PICK r \in Sets(comp, store, i, Value(task, round, i), opt) :
              /\ Spend(r.cost) /\ store' = r.store
              /\ lost' = IF r.rc # 0 /\ task # "read" THEN lost + 1 ELSE lost
              /\ missed' = (missed \/ (r.rc = 0 /\ ~(/\ Found(comp, r.store, i, opt)
                    /\ r.store.at[Slot(comp, i)] = Value(task, round, i))))
              /\ IF r.rc = 0 /\ Checks THEN pc' = "check" /\ UNCHANGED <<i, round>>
                 ELSE Forward
      BY <1>2 DEF Set
    <2>2. r \in Outcomes
      BY <1>v, <2>1, SetsType
    <2>3. faults' \in 0 .. MaxFaults
      BY <2>1, <2>2, EngineAssumption DEF Spend, TypeOK, Outcomes
    <2>4. /\ i' \in Slots /\ round' \in Nat
          /\ pc' \in {"loop", "read", "restart", "end", "check"}
      BY <1>o, <1>i, <2>1, ForwardRight, AfterPhase
    <2>5. missed' \in BOOLEAN
      BY <2>1, Zenon
    <2> QED BY <1>2, <2>1, <2>2, <2>3, <2>4, <2>5 DEF Set, run, TypeOK, Outcomes
  <1>3. CASE Delete
    <2>1. PICK r \in Deletes(comp, store, i, opt) :
              /\ Spend(r.cost) /\ store' = r.store
              /\ lost' = IF r.rc # 0 THEN lost + 1 ELSE lost
      BY <1>3 DEF Delete
    <2>2. r \in Outcomes
      BY <1>v, <2>1, DeletesType
    <2>3. faults' \in 0 .. MaxFaults
      BY <2>1, <2>2, EngineAssumption DEF Spend, TypeOK, Outcomes
    <2>4. /\ i' \in Slots /\ round' \in Nat /\ pc' \in {"loop", "read", "restart", "end"}
      BY <1>o, <1>3, ForwardRight, AfterPhase DEF Delete
    <2> QED BY <1>3, <2>1, <2>2, <2>3, <2>4 DEF Delete, run, TypeOK, Outcomes
  <1>4. CASE Skip
    <2>4. /\ i' \in Slots /\ round' \in Nat /\ pc' \in {"loop", "read", "restart", "end"}
      BY <1>o, <1>4, ForwardRight, AfterPhase DEF Skip
    <2> QED BY <1>4, <2>4 DEF Skip, run, TypeOK
  <1>5. CASE Check
    <2>1. PICK g \in Gets(comp, store, i, opt) :
              Spend(g.cost) /\ lost' = IF Same(g, i) THEN lost ELSE lost + 1
      BY <1>5 DEF Check
    <2>3. faults' \in 0 .. MaxFaults
      BY <2>1, GetsRight, EngineAssumption DEF Spend, TypeOK
    <2>4. /\ i' \in Slots /\ round' \in Nat /\ pc' \in {"loop", "read", "restart", "end"}
      BY <1>o, <1>5, ForwardRight, AfterPhase DEF Check
    <2> QED BY <1>5, <2>1, <2>3, <2>4 DEF Check, run, TypeOK
  <1>6. CASE Read
    <2>1. PICK g \in Gets(comp, store, i, opt) :
              Spend(g.cost) /\ lost' = IF g.rc = 0 THEN lost ELSE lost + 1
      BY <1>6 DEF Read
    <2>3. faults' \in 0 .. MaxFaults
      BY <2>1, GetsRight, EngineAssumption DEF Spend, TypeOK
    <2>4. i' \in Slots /\ pc' \in {"read", "end"}
      BY <1>i, <1>6, <1>o, OptType DEF Read, Slots
    <2> QED BY <1>6, <2>1, <2>3, <2>4 DEF Read, run, TypeOK
  <1>7. CASE Restart
    <2>1. \A p \in Slots : [store EXCEPT !.disk[p] = Bare(comp).disk[p]] \in Stores
      BY <1>v, BareType DEF Stores
    <2>2. store' \in Stores /\ faults' \in 0 .. MaxFaults
      BY <1>7, <2>1, EngineAssumption DEF Restart, Spend, TypeOK
    <2> QED BY <1>7, <2>2 DEF Restart, run, TypeOK
  <1>8. CASE Reinit
    <2>0. reinit = TRUE
      BY <1>8 DEF Reinit, Phases, TypeOK
    <2>1. PICK r \in Inits(comp, store, opt, reinit) :
              /\ Spend(r.cost) /\ store' = r.store /\ dev' = r.dev
              /\ IF r.rc = 0
                 THEN /\ UNCHANGED <<lost, rc>>
                      /\ IF ToVerify = {} THEN pc' = "end" /\ i' = i
                         ELSE pc' = "verify" /\ i' = FirstToVerify
                 ELSE pc' = "end" /\ lost' = lost + opt.items /\ rc' = -1 /\ i' = i
      BY <1>8 DEF Reinit
    <2>2. r.store \in Stores /\ r.dev \in BOOLEAN /\ r.cost \in Nat
      BY <1>v, <2>0, <2>1, InitsRight
    <2>3. faults' \in 0 .. MaxFaults
      BY <2>1, <2>2, EngineAssumption DEF Spend, TypeOK
    <2>4. /\ i' \in Slots /\ pc' \in {"verify", "end"}
          /\ lost' \in Nat /\ rc' \in {-1, 0}
      BY <1>i, <1>o, <2>1, OptType DEF TypeOK
    <2>5. dev' \in BOOLEAN
      BY <2>1, <2>2, Zenon
    <2> QED BY <1>8, <2>1, <2>2, <2>3, <2>4, <2>5 DEF Reinit, run, TypeOK
  <1>9. CASE Verify
    <2>1. PICK g \in Gets(comp, store, i, opt) :
              Spend(g.cost) /\ lost' = IF Same(g, i) THEN lost ELSE lost + 1
      BY <1>9 DEF Verify
    <2>3. faults' \in 0 .. MaxFaults
      BY <2>1, GetsRight, EngineAssumption DEF Spend, TypeOK
    <2>4. i' \in Slots /\ pc' \in {"verify", "end"}
      BY <1>i, <1>9, <1>o, OptType, EngineAssumption DEF Verify, Slots, LastToVerify
    <2> QED BY <1>9, <2>1, <2>3, <2>4 DEF Verify, run, TypeOK
  <1>10. CASE End
    BY <1>10 DEF End, run, TypeOK
  <1>11. CASE UNCHANGED vars
    BY <1>11 DEF vars, TypeOK
  <1> QED BY <1>1, <1>2, <1>3, <1>4, <1>5, <1>6, <1>7, <1>8, <1>9, <1>10, <1>11
          DEF Next, Over

-----------------------------------------------------------------------------
(* The phases and the device, step by step. *)
LEMMA PhasesStep == IInv /\ [Next]_vars => Phases' /\ DeviceOpen'
  <1> SUFFICES ASSUME IInv, [Next]_vars PROVE Phases' /\ DeviceOpen'
    OBVIOUS
  <1> USE DEF IInv
  <1>o. TypeOK /\ store \in Stores
    BY DEF TypeOK
  <1>1. CASE Start
    <2>1. PICK r \in Inits(comp, store, opt, FALSE) :
              /\ store' = r.store /\ dev' = r.dev
              /\ IF r.rc = 0 THEN pc' = Entry /\ verdict' = verdict
                 ELSE pc' = "over" /\ verdict' = -1
      BY <1>1 DEF Start
    <2>2. /\ r.rc = 0 => r.dev
          /\ r.rc # 0 /\ r.dev => ~Registered[comp].frees
      <3>1. r \in Inits(comp, store, opt, FALSE) /\ store \in Stores /\ FALSE \in BOOLEAN
        BY <1>o, <2>1
      <3> DEFINE c == comp
                 o == opt
                 s == store
                 b == FALSE
      <3>2. r \in Inits(c, s, o, b) /\ s \in Stores /\ b \in BOOLEAN
        BY <3>1
      <3> HIDE DEF c, o, s, b
      <3>3. (r.rc = 0 => r.dev) /\ (r.rc # 0 /\ r.dev => ~Registered[c].frees)
        BY ONLY <3>2, InitsRight, SMTT(30)
      <3> QED BY <3>3 DEF c
    <2>3. /\ Entry \in {"loop", "read", "restart", "end"}
          /\ Entry = "read" => task = "read"
          /\ Entry = "restart" => task = "powerloss"
      BY AfterPhase DEF Entry
    <2>4. CASE r.rc = 0
      <3>1. pc' = Entry /\ dev'
        BY <2>1, <2>2, <2>4
      <3> QED BY <1>1, <2>3, <3>1 DEF Start, run, Phases, DeviceOpen
    <2>5. CASE r.rc # 0
      <3>1. pc' = "over" /\ verdict' = -1
        BY <2>1, <2>5
      <3>2. dev' => ~Registered[comp].frees
        BY <2>1, <2>2, <2>5
      <3>3. comp' = comp
        BY <1>1 DEF Start, run
      <3> QED BY <3>1, <3>2, <3>3 DEF Phases, DeviceOpen
    <2> QED BY <2>4, <2>5
  <1>2. CASE Set \/ Delete \/ Skip \/ Check
    <2>1. /\ pc \in {"loop", "check"} /\ dev' = dev /\ task' = task
          /\ pc' = "check" \/ Forward
      BY <1>2 DEF Set, Delete, Skip, Check, run
    <2>2. /\ pc' \in {"check", "loop", "read", "restart", "end"}
          /\ pc' = "read" => task = "read"
          /\ pc' = "restart" => task = "powerloss"
      BY <1>o, <2>1, ForwardRight, AfterPhase
    <2>3. dev
      BY <2>1 DEF DeviceOpen
    <2> QED BY <2>1, <2>2, <2>3 DEF Phases, DeviceOpen
  <1>3. CASE Read \/ Verify
    BY <1>3 DEF Read, Verify, run, Phases, DeviceOpen
  <1>4. CASE Restart
    BY <1>4 DEF Restart, run, Phases, DeviceOpen
  <1>5. CASE Reinit
    <2>0. reinit = TRUE
      BY <1>5 DEF Reinit, Phases, TypeOK
    <2>1. PICK r \in Inits(comp, store, opt, reinit) :
              /\ dev' = r.dev
              /\ IF r.rc = 0 THEN pc' \in {"end", "verify"} ELSE pc' = "end"
      BY <1>5 DEF Reinit
    <2>2. r.rc = 0 => r.dev
      BY <1>o, <2>0, <2>1, InitsRight
    <2>3. pc' \in {"end", "verify"} /\ (pc' = "verify" => dev')
      BY <2>1, <2>2
    <2> QED BY <1>5, <2>3 DEF Reinit, run, Phases, DeviceOpen
  <1>6. CASE End
    BY <1>6 DEF End, run, Phases, DeviceOpen
  <1>7. CASE UNCHANGED vars
    BY <1>7 DEF vars, Phases, DeviceOpen
  <1> QED BY <1>1, <1>2, <1>3, <1>4, <1>5, <1>6, <1>7 DEF Next, Over

-----------------------------------------------------------------------------
\* What Same accepts is what was written.
LEMMA SameReads ==
    ASSUME NEW g \in Gets(comp, store, i, opt), Same(g, i)
    PROVE  Readable(i)
  BY GetsRight DEF Same, Readable

\* The silent losses, step by step.
LEMMA NoticedStep == IInv /\ [Next]_vars => Noticed'
  <1> SUFFICES ASSUME IInv, [Next]_vars PROVE Noticed'
    OBVIOUS
  <1> USE DEF IInv
  <1>o. TypeOK /\ lost \in Nat /\ missed \in BOOLEAN
    BY DEF TypeOK
  <1>c. /\ Checking => task \in {"update", "durability"}
        /\ Checking <=> Checks
        /\ Checking => After = "end"
    BY DEF Checking, Checks, After
  <1>0. run' = run => (Checking' <=> Checking)
    BY DEF run, Checking, Kind
  <1> SUFFICES ASSUME Checking', missed'
               PROVE  /\ pc' = "check" => lost' > 0 \/ ~(Readable(i))'
                      /\ pc' \in {"loop", "end"} => lost' > 0
                      /\ pc' = "over" => verdict' # 0
    BY DEF Noticed
  <1>1. CASE Start
    BY <1>1 DEF Start, Phases
  <1>2. CASE Set
    <2>1. PICK r \in Sets(comp, store, i, Value(task, round, i), opt) :
              /\ store' = r.store
              /\ lost' = IF r.rc # 0 /\ task # "read" THEN lost + 1 ELSE lost
              /\ missed' = (missed \/ (r.rc = 0 /\ ~(/\ Found(comp, r.store, i, opt)
                    /\ r.store.at[Slot(comp, i)] = Value(task, round, i))))
              /\ IF r.rc = 0 /\ Checks THEN pc' = "check" /\ UNCHANGED <<i, round>>
                 ELSE Forward
      BY <1>2 DEF Set
    <2>2. Checking /\ Checks /\ task # "read" /\ pc = "loop" /\ run' = run
      BY <1>2, <1>0, <1>c DEF Set
    <2>3. CASE r.rc = 0
      <3>1. pc' = "check" /\ lost' = lost /\ i' = i /\ round' = round
        BY <2>1, <2>2, <2>3
      <3>2. CASE missed
        BY <2>2, <3>1, <3>2 DEF Noticed
      <3>3. CASE ~missed
        <4>1. ~(Found(comp, r.store, i, opt)
                /\ r.store.at[Slot(comp, i)] = Value(task, round, i))
          BY <2>1, <3>3
        <4>2. ~(Readable(i))'
          BY <2>1, <2>2, <3>1, <4>1 DEF Readable, run
        <4> QED BY <3>1, <4>2
      <3> QED BY <3>2, <3>3
    <2>4. CASE r.rc # 0
      <3>1. lost' > 0 /\ Forward
        BY <1>o, <2>1, <2>2, <2>4
      <3>2. pc' \in {"loop", "end"}
        BY <1>o, <1>c, <2>2, <3>1, ForwardRight
      <3> QED BY <3>1, <3>2
    <2> QED BY <2>3, <2>4
  <1>3. CASE Delete \/ Skip
    BY <1>0, <1>c, <1>3 DEF Delete, Skip, Deleting, Skipping
  <1>4. CASE Check
    <2>1. PICK g \in Gets(comp, store, i, opt) :
              lost' = IF Same(g, i) THEN lost ELSE lost + 1
      BY <1>4 DEF Check
    <2>2. Checking /\ missed /\ pc = "check" /\ Forward
      BY <1>0, <1>4 DEF Check
    <2>3. lost' > 0
      BY <1>o, <2>1, <2>2, SameReads DEF Noticed
    <2>4. pc' \in {"loop", "end"}
      BY <1>o, <1>c, <2>2, ForwardRight
    <2> QED BY <2>3, <2>4
  <1>5. CASE Read \/ Restart \/ Reinit \/ Verify
    BY <1>0, <1>c, <1>5 DEF Read, Restart, Reinit, Verify, Phases
  <1>6. CASE End
    <2>1. lost > 0
      BY <1>0, <1>6 DEF End, Noticed
    <2> QED BY <1>6, <2>1 DEF End
  <1>7. CASE UNCHANGED vars
    <2>1. Readable(i)' <=> Readable(i)
      BY <1>7 DEF vars, Readable
    <2> QED BY <1>0, <1>7, <2>1 DEF vars, run, Noticed
  <1> QED BY <1>1, <1>2, <1>3, <1>4, <1>5, <1>6, <1>7 DEF Next, Over

-----------------------------------------------------------------------------
\* Where nothing changes, what reads back and what is to be verified stay the same.
LEMMA ReadableStays ==
    ASSUME run' = run, store' = store, round' = round
    PROVE  /\ ToVerify' = ToVerify
           /\ \A n : Readable(n)' <=> Readable(n)
  BY DEF run, ToVerify, FirstToVerify, LastToVerify, Kind, Readable

\* The items verified so far, step by step.
LEMMA VerifiedStep == IInv /\ [Next]_vars => Verified'
  <1> SUFFICES ASSUME IInv, [Next]_vars PROVE Verified'
    OBVIOUS
  <1> USE DEF IInv
  <1>o. TypeOK /\ lost \in Nat /\ store \in Stores
    BY DEF TypeOK
  <1>1. CASE Start
    <2>1. /\ pc' \in {Entry, "over"} /\ task' = task
          /\ pc' = "over" => verdict' = -1 \/ Entry = "over"
      BY <1>1 DEF Start, run
    <2>2. Entry \in {"loop", "read", "restart", "end"} /\ (Entry = "end" => task # "powerloss")
      BY AfterPhase DEF Entry
    <2> QED BY <2>1, <2>2 DEF Verified
  <1>2. CASE Set \/ Delete \/ Skip \/ Check
    <2>1. task' = task /\ (pc' = "check" \/ Forward)
      BY <1>2 DEF Set, Delete, Skip, Check, run
    <2>2. /\ pc' \in {"check", "loop", "read", "restart", "end"}
          /\ pc' = "end" => task' # "powerloss"
      BY <1>o, <2>1, ForwardRight, AfterPhase
    <2> QED BY <2>2 DEF Verified
  <1>3. CASE Read
    BY <1>3 DEF Read, run, Phases, Verified
  <1>4. CASE Restart
    BY <1>4 DEF Restart, Verified
  <1>5. CASE Reinit
    <2>0. reinit = TRUE
      BY <1>5 DEF Reinit, Phases, TypeOK
    <2>1. PICK r \in Inits(comp, store, opt, reinit) :
              /\ store' = r.store
              /\ IF r.rc = 0
                 THEN IF ToVerify = {} THEN pc' = "end" /\ i' = i
                      ELSE pc' = "verify" /\ i' = FirstToVerify
                 ELSE pc' = "end" /\ rc' = -1
      BY <1>5 DEF Reinit
    <2>2. store'.at = store'.disk
      BY <1>o, <2>0, <2>1, InitsRight
    <2>3. ToVerify' = ToVerify
      BY <1>5 DEF Reinit, run, ToVerify, FirstToVerify, LastToVerify, Kind
    <2>4. CASE r.rc # 0
      BY <2>1, <2>4 DEF Verified
    <2>5. CASE r.rc = 0 /\ ToVerify = {}
      <3>1. pc' = "end"
        BY <2>1, <2>5
      <3> QED BY <2>2, <2>3, <2>5, <3>1 DEF Verified
    <2>6. CASE r.rc = 0 /\ ToVerify # {}
      <3>1. pc' = "verify" /\ i' = FirstToVerify
        BY <2>1, <2>6
      <3>2. \A n \in ToVerify : ~(n < i')
        BY <3>1, <1>o, OptType DEF ToVerify, Slots
      <3> QED BY <2>2, <2>3, <3>1, <3>2 DEF Verified
    <2> QED BY <2>4, <2>5, <2>6
  <1>6. CASE Verify
    <2>1. PICK g \in Gets(comp, store, i, opt) :
              lost' = IF Same(g, i) THEN lost ELSE lost + 1
      BY <1>6 DEF Verify
    <2>2. /\ run' = run /\ store' = store /\ round' = round /\ pc = "verify"
          /\ IF i < LastToVerify THEN i' = i + 1 /\ pc' = pc ELSE i' = 0 /\ pc' = "end"
      BY <1>6 DEF Verify
    <2>3. /\ ToVerify' = ToVerify
          /\ \A n : Readable(n)' <=> Readable(n)
      BY <2>2, ReadableStays
    <2>4. CASE lost' # 0
      BY <2>2, <2>4 DEF Verified
    <2>5. CASE lost' = 0
      <3>1. Same(g, i) /\ lost = 0
        BY <1>o, <2>1, <2>5
      <3>2. Readable(i)
        BY <2>1, <3>1, SameReads
      <3>3. store.at = store.disk /\ \A n \in ToVerify : n < i => Readable(n)
        BY <2>2, <3>1 DEF Verified
      <3>4. i \in Int /\ LastToVerify \in Int /\ \A n \in ToVerify : n \in Int /\ n <= LastToVerify
        BY <1>o, OptType DEF TypeOK, Slots, ToVerify
      <3>5. \A n \in ToVerify : n <= i => Readable(n)
        BY <3>2, <3>3, <3>4
      <3>6. CASE i < LastToVerify
        <4>1. \A n \in ToVerify : n < i + 1 => Readable(n)
          BY <3>4, <3>5
        <4> QED BY <2>2, <2>3, <3>3, <3>6, <4>1 DEF Verified
      <3>7. CASE ~(i < LastToVerify)
        <4>1. \A n \in ToVerify : Readable(n)
          BY <3>4, <3>5, <3>7
        <4> QED BY <2>2, <2>3, <3>3, <3>7, <4>1 DEF Verified
      <3> QED BY <3>6, <3>7
    <2> QED BY <2>4, <2>5
  <1>7. CASE End
    <2>1. /\ run' = run /\ store' = store /\ round' = round /\ pc = "end" /\ pc' = "over"
          /\ verdict' = 0 => rc = 0 /\ lost = 0
      BY <1>7 DEF End
    <2>2. task' = task
      BY <2>1 DEF run
    <2>3. /\ ToVerify' = ToVerify
          /\ \A n : Readable(n)' <=> Readable(n)
      BY <2>1, ReadableStays
    <2> QED BY <2>1, <2>2, <2>3 DEF Verified
  <1>8. CASE UNCHANGED vars
    <2>1. run' = run /\ store' = store /\ round' = round
      BY <1>8 DEF vars, run
    <2>2. /\ ToVerify' = ToVerify
          /\ \A n : Readable(n)' <=> Readable(n)
      BY <2>1, ReadableStays
    <2> QED BY <1>8, <2>2 DEF vars, Verified
  <1> QED BY <1>1, <1>2, <1>3, <1>4, <1>5, <1>6, <1>7, <1>8 DEF Next, Over

-----------------------------------------------------------------------------
\* Every step keeps the inductive invariant.
LEMMA InvStep == IInv /\ [Next]_vars => IInv'
  BY TypeStep, PhasesStep, NoticedStep, VerifiedStep DEF IInv

\* The inductive invariant holds throughout (Init, Next of the engine).
LEMMA Invariant == Spec => []IInv
  BY InitInv, InvStep, PTL DEF Spec

\* Every variable of the engine keeps its type.
THEOREM TypeCorrect == Spec => []TypeOK
  <1>1. IInv => TypeOK
    BY DEF IInv
  <1> QED BY Invariant, <1>1, PTL

\* A power-loss test that passes has found, after the restart, every item it wrote
\* (task_powerloss, kv_verify, fs_verify).
THEOREM SurvivesRestartAlways == Spec => []SurvivesRestart
  <1>1. IInv => SurvivesRestart
    <2> SUFFICES ASSUME IInv, pc = "over", verdict = 0, task = "powerloss", NEW n \in ToVerify
                 PROVE  /\ Found(comp, Reopened(store), n, opt)
                        /\ store.disk[Slot(comp, n)] = Value(task, round, n)
      BY DEF SurvivesRestart
    <2>1. store.at = store.disk /\ Readable(n) /\ store \in Stores
      BY DEF IInv, Verified, TypeOK
    <2>2. Reopened(store) = store
      BY <2>1 DEF Reopened, Stores
    <2> QED BY <2>1, <2>2 DEF Readable
  <1> QED BY Invariant, <1>1, PTL

\* An update or durability test that passes has met no set that returned 0 in vain
\* (task_update, task_durability).
THEOREM NoSilentLossAlways == Spec => []NoSilentLoss
  <1>1. IInv => NoSilentLoss
    BY DEF IInv, Noticed, NoSilentLoss, Checking, TypeOK
  <1> QED BY Invariant, <1>1, PTL

\* Calls are made on an open device only; what leaves one open (app_run_task, the inits).
THEOREM DeviceAlwaysOpen == Spec => []DeviceOpen
  <1>1. IInv => DeviceOpen
    BY DEF IInv
  <1> QED BY Invariant, <1>1, PTL

\* No adapter formats under APP_REINIT: the medium's contents change while a component is
\* opened again only where the store's own init repairs it, and something went wrong.
THEOREM ReinitAlwaysKeeps == Spec => ReinitKeeps
  <1>1. IInv /\ [Next]_vars => [pc = "reinit" /\ store'.disk # store.disk
                                 => comp \in Repairing /\ faults < faults']_vars
    <2> SUFFICES ASSUME IInv, Next, pc = "reinit", store'.disk # store.disk
                 PROVE  comp \in Repairing /\ faults < faults'
      OBVIOUS
    <2>1. Reinit /\ reinit = TRUE /\ store \in Stores
      BY DEF Next, Start, Set, Delete, Skip, Check, Read, Restart, Verify, End, Over,
             IInv, Phases, TypeOK
    <2>2. PICK r \in Inits(comp, store, opt, reinit) : store' = r.store /\ Spend(r.cost)
      BY <2>1 DEF Reinit
    <2>3. r \in Inits(comp, store, opt, TRUE)
      BY <2>1, <2>2, Zenon
    <2>4. comp \in Repairing /\ r.cost > 0
      BY <2>1, <2>2, <2>3, InitsKeep
    <2>5. r.cost \in Nat /\ faults \in Int
      <3>1. TRUE \in BOOLEAN
        OBVIOUS
      <3>2. r.cost \in Nat
        BY ONLY <2>1, <2>3, <3>1, InitsRight
      <3> QED BY <3>2, EngineAssumption DEF IInv, TypeOK
    <2>6. faults < faults'
      BY <2>2, <2>4, <2>5 DEF Spend
    <2> QED BY <2>4, <2>6
  <1> QED BY Invariant, <1>1, PTL DEF Spec, ReinitKeeps
-----------------------------------------------------------------------------
(***************************************************************************)
(* No false alarm.  While no fault is spent, on a component the task       *)
(* suits, nothing is lost and flash agrees with what reads find (Nothing); *)
(* the loop stays inside its bounds, where the adapter has room for every  *)
(* item (Inside); and what was gone over can be read (Done).               *)
(***************************************************************************)

Clean == faults = 0 /\ Suited
Nothing == lost = 0 /\ rc = 0 /\ verdict = 0 /\ store.at = store.disk

\* Items set or deleted in this round.
Gone == IF pc = "check" THEN i + 1 ELSE i
Inside ==
    /\ pc = "start" => i = 0 /\ round = 0
    /\ pc \in {"loop", "check"} =>
        /\ i < opt.items /\ round < Rounds
        /\ comp = "fcb" => store.used <= round * opt.items + Gone
        /\ comp = "fastflash" /\ task # "mixed" => store.used >= Gone
        /\ comp = "fs" => \A p \in Slots : p >= opt.items => store.at[p] = Missing

Done ==
    /\ pc = "check" => Checks /\ Readable(i)
    /\ task = "read" =>
           /\ pc = "loop" => \A n \in Slots : n < i => Found(comp, store, n, opt)
           /\ pc = "read" => /\ i < opt.items
                             /\ \A n \in Slots : n < opt.items => Found(comp, store, n, opt)
    /\ task = "powerloss" =>
           /\ pc = "loop" => \A n \in ToVerify : n < i => Readable(n)
           /\ pc \in {"restart", "reinit", "verify"} => \A n \in ToVerify : Readable(n)
           /\ pc = "verify" => i \in ToVerify

Smooth == Clean => Nothing /\ Inside /\ Done

\* What the proof uses of the table of adapters.
LEMMA AdapterFacts ==
    ASSUME NEW c \in Ids
    PROVE  /\ Registered[c].layout = "log" <=> c = "fcb"
           /\ Registered[c].layout = "table" <=> c = "fastflash"
           /\ Registered[c].layout = "ram" <=> c = "tym_setting"
           /\ Registered[c].layout = "one" <=> c = "baremetal"
           /\ Registered[c].kind = "baremetal" <=> c = "baremetal"
           /\ c \in {"fcb", "fastflash"} => ~Registered[c].strict
           /\ c = "fcb" => Registered[c].fresh = "erase"
           /\ c = "fs" => Registered[c].mkfs = "always" /\ Registered[c].strict
  <1>1. c \in {"kv", "baremetal", "easyflash", "flashdb", "nvdm", "nvs", "zms", "fcb",
              "fastflash", "tym_setting", "fs", "fatfs", "littlefs", "spiffs", "yaffs"}
    BY DEF Ids, Registered
  <1>2. CASE c \in {"kv", "baremetal", "fcb", "fastflash", "tym_setting"}
    BY <1>2 DEF Registered, KvStore, Baremetal, Fcb, FastFlash, TymSetting
  <1>3. CASE c \in {"easyflash", "flashdb", "nvdm", "nvs", "zms"}
    BY <1>3 DEF Registered, EasyFlash, FlashDb, Nvdm, Nvs, Zms
  <1>4. CASE c \in {"fs", "fatfs", "littlefs", "spiffs", "yaffs"}
    BY <1>4 DEF Registered, FsStore, FatFs, LittleFs, Spiffs, Yaffs
  <1> QED BY <1>1, <1>2, <1>3, <1>4

\* A value is somebody's data.
LEMMA ValueIsData ==
    ASSUME NEW t \in Tasks, NEW r \in Nat, NEW n \in Slots
    PROVE  Value(t, r, n) # Missing
  <1>1. Value(t, r, n) \in Nat \X Slots
    BY DEF Value, Tasks, Seed
  <1> QED BY <1>1, DataAssumption

\* Items have slots of their own, except in the configuration and the settings.
LEMMA SlotIs ==
    ASSUME NEW c \in Ids, NEW n \in Slots
    PROVE  /\ Slot(c, n) \in Slots
           /\ c = "baremetal" => Slot(c, n) = 0
           /\ c = "tym_setting" => Slot(c, n) = n % 4
           /\ c \notin {"baremetal", "tym_setting"} => Slot(c, n) = n
  BY AdapterFacts, AdaptersAssumption DEF Slot, Slots, Settings

\* The item's own slot is taken, in a table if the items before it are there.
LEMMA PlaceIs ==
    ASSUME NEW c \in Ids, NEW s \in Stores, NEW n \in Slots,
           c = "fastflash" => n <= s.used
    PROVE  /\ Place(c, s, n) = Slot(c, n)
           /\ ~Written(c, s, n) => c = "fastflash" /\ s.used = n
  <1>1. s.used \in Nat /\ n \in Nat
    BY DEF Stores, Slots
  <1>2. Written(c, s, n) <=> (c = "fastflash" => n < s.used)
    BY AdapterFacts DEF Written
  <1> QED BY <1>1, <1>2, SlotIs DEF Place

-----------------------------------------------------------------------------
(* Calls that cost nothing. *)

\* With room for it a set that meets no fault takes effect.
LEMMA FreeSet ==
    ASSUME NEW c, NEW s, NEW n, NEW v, NEW o, Accepts(c, o), Room(c, s, n, o),
           NEW r \in Sets(c, s, n, v, o), r.cost = 0
    PROVE  r.rc = 0 /\ r.store = Put(c, s, n, v)
  <1>1. r \in SetNow(c, s, n, v)
    BY DEF Sets
  <1>2. Cost(c, s, n) # 0
    BY DEF Cost
  <1> QED BY <1>1, <1>2 DEF SetNow, Outcome

\* A delete takes effect, or had nothing to do.
LEMMA FreeDelete ==
    ASSUME NEW c, NEW s, NEW n, NEW o, ~Registered[c].strict, Room(c, s, n, o),
           NEW r \in Deletes(c, s, n, o), r.cost = 0
    PROVE  r.rc = 0 /\ r.store \in {s, Put(c, s, n, Blank(c))}
  BY DEF Deletes, Outcome

\* A read finds what is there.
LEMMA FreeGet ==
    ASSUME NEW c, NEW s, NEW n, NEW o, Found(c, s, n, o), NEW g \in Gets(c, s, n, o),
           g.cost = 0
    PROVE  g.rc = 0 /\ g.val = s.at[Slot(c, n)]
  BY DEF Gets

\* The FCB adapter's region is inside the medium, which its init therefore erases.
LEMMA FcbFits ==
    ASSUME NEW o \in Options
    PROVE  FcbRegion(o) \in Int /\ FcbRegion(o) <= o.total
  <1>1. o.total \in Nat /\ o.cap \in Nat /\ EraseSize \in Nat \ {0} /\ AreaDefault \in Nat
    BY EngineAssumption, AdaptersAssumption
  <1>2. \A n \in Int : RoundDown(n) \in Int /\ RoundDown(n) <= n
    BY <1>1 DEF RoundDown
  <1>3. TwoBlocks(o) \in Int /\ TwoBlocks(o) <= o.total
    BY <1>1, <1>2 DEF TwoBlocks, Clamp, AtLeast, CapOr, AtMost
  <1> QED BY <1>1, <1>3 DEF FcbRegion, AtMost

\* An init opens the component; before a task FCB and the file store are emptied.
LEMMA FreeInit ==
    ASSUME NEW c \in Ids, NEW s \in Stores, NEW o \in Options, NEW b \in BOOLEAN,
           Opens(c, o, "none"), NEW r \in Inits(c, s, o, b), r.cost = 0
    PROVE  /\ r.rc = 0
           /\ b => r.store = Reopened(s)
           /\ ~b /\ c \in {"fcb", "fs"} => r.store = Bare(c)
  <1>0. r \in AdapterInits(c, s, o, b)
    <2>1. r \notin RepairInits(c, s, o)
      BY RepairRight
    <2> QED BY <2>1 DEF Inits
  <1>1. PICK m \in Mishaps :
            r = [rc |-> IF Succeeds(c, o, b, m) THEN 0 ELSE -1,
                 dev |-> \/ Succeeds(c, o, b, m)
                         \/ Opens(c, o, m) /\ m = "mount" /\ ~Registered[c].frees,
                 store |-> IF Empties(c, o, b, m) THEN Bare(c) ELSE Reopened(s),
                 cost |-> IF m = "none" THEN 0 ELSE 1]
    BY <1>0 DEF AdapterInits
  <1>2. m = "none"
    BY <1>1
  <1>3. Succeeds(c, o, b, m)
    BY <1>2 DEF Succeeds
  <1>4. b => ~Empties(c, o, b, m)
    BY DEF Empties, Formats
  <1>5. ~b /\ c = "fcb" => Empties(c, o, b, m)
    BY <1>2, FcbFits, AdapterFacts DEF Empties, Region
  <1>6. ~b /\ c = "fs" => Empties(c, o, b, m)
    BY <1>2, AdapterFacts DEF Empties, Formats
  <1> QED BY <1>1, <1>3, <1>4, <1>5, <1>6

-----------------------------------------------------------------------------
(* Room for every item. *)

\* A multiple of the divisor goes into a quotient whole.
LEMMA DivAtLeast ==
    ASSUME NEW b \in Nat \ {0}, NEW n \in Nat, NEW k \in Nat, b * k <= n
    PROVE  n \div b >= k
  <1>1. n \div b \in Nat /\ n % b \in 0 .. b - 1 /\ n = b * (n \div b) + (n % b)
    BY DivMod
  <1> DEFINE q == n \div b
  <1>2. SUFFICES ASSUME q + 1 <= k PROVE FALSE
    BY <1>1
  <1>3. b * (q + 1) <= b * k
    BY <1>1, <1>2, MulMono
  <1>4. b * (q + 1) = b * q + b
    BY <1>1, MulFacts
  <1>5. b * q \in Nat /\ b * k \in Nat /\ b * (q + 1) \in Nat
    BY <1>1, MulFacts
  <1> QED BY <1>1, <1>3, <1>4, <1>5

\* The file store's region has a block for each item beside the table's.
LEMMA FsFits ==
    ASSUME NEW o \in Options, o.items * EraseSize <= o.total - (o.total % EraseSize) - EraseSize
    PROVE  FsRegion(o) \in Nat /\ FsRegion(o) \div EraseSize >= o.items + 1
  <1>1. /\ o.total \in Nat /\ o.cap \in Nat /\ EraseSize \in Nat \ {0} /\ o.items \in Nat
        /\ NSlots \in Nat
    BY EngineAssumption, AdaptersAssumption
  <1> DEFINE least == EraseSize * (o.items + 1)
  <1>2. least \in Nat /\ least = o.items * EraseSize + EraseSize
    BY <1>1, MulFacts
  <1>3. \A n \in Nat : RoundDown(n) \in Int
    BY <1>1 DEF RoundDown
  <1>4. RoundDown(o.total) >= least
    BY <1>1, <1>2 DEF RoundDown
  <1> HIDE DEF least
  <1>5. CapOr(o, o.total) \in Nat
    BY <1>1 DEF CapOr, AtMost
  <1> DEFINE asked == RoundDown(CapOr(o, o.total))
             roomy == IF asked < least THEN RoundDown(o.total) ELSE asked
  <1>6. asked \in Int
    BY <1>3, <1>5
  <1> HIDE DEF asked
  <1>7. roomy \in Int /\ roomy >= least
    BY <1>1, <1>2, <1>3, <1>4, <1>6
  <1>8. FsRegion(o) = Clamp(AtLeast(roomy, 2 * EraseSize), o)
    BY DEF FsRegion, least, asked
  <1> HIDE DEF roomy
  <1>9. FsRegion(o) \in Int /\ FsRegion(o) >= least
    BY <1>1, <1>2, <1>3, <1>4, <1>7, <1>8 DEF Clamp, AtLeast
  <1>10. FsRegion(o) \in Nat /\ EraseSize * (o.items + 1) <= FsRegion(o)
    BY <1>2, <1>9 DEF least
  <1> QED BY <1>1, <1>10, DivAtLeast

\* A count of rounds and items below both bounds is below their product.
LEMMA CountBelow ==
    ASSUME NEW n \in Nat, NEW m \in Nat, NEW r \in Nat, NEW k \in Nat, r < m, k < n
    PROVE  /\ r * n \in Nat /\ r * n + k < n * m
           /\ (r + 1) * n = r * n + n
  <1>1. r * n \in Nat /\ (r + 1) * n = r * n + n /\ m * n = n * m /\ m * n \in Nat
        /\ n * (r + 1) = (r + 1) * n
    BY MulFacts
  <1>2. n * (r + 1) <= n * m
    BY MulMono
  <1> QED BY <1>1, <1>2

\* Where a task suits its component there is room for the next item.
LEMMA RoomHere ==
    ASSUME TypeOK, Suited, Inside, pc = "loop"
    PROVE  Accepts(comp, opt) /\ Room(comp, store, i, opt)
  <1>1. /\ i \in Nat /\ i < opt.items /\ round \in Nat /\ round < Rounds /\ Rounds \in Nat
        /\ i \in Slots /\ opt \in Options /\ store \in Stores /\ opt.items \in Nat
        /\ opt.items <= NSlots /\ NSlots \in Nat /\ store.used \in Nat /\ Gone = i
    BY OptType DEF TypeOK, Slots, Inside, Stores, Gone
  <1>2. CASE comp = "fcb"
    <2>1. store.used <= round * opt.items + i
      BY <1>1, <1>2 DEF Inside
    <2>2. round * opt.items \in Nat /\ round * opt.items + i < opt.items * Rounds
      BY <1>1, CountBelow
    <2> DEFINE most == (FcbRegion(opt) \div EraseSize - 1) * PerSector
    <2>3. opt.items * Rounds <= most
      BY <1>2 DEF Suited
    <2>4. FcbRegion(opt) \div EraseSize \in Int /\ PerSector \in Nat
      BY <1>1, FcbFits, AdaptersAssumption
    <2>5. most \in Int /\ opt.items * Rounds \in Int
      BY <1>1, <2>4
    <2> HIDE DEF most
    <2>6. store.used < most
      BY <1>1, <2>1, <2>2, <2>3, <2>5
    <2> QED BY <1>2, <2>6 DEF Room, most, Suited
  <1>3. CASE comp = "fastflash"
    <2>1. Written(comp, store, i) <=> i < store.used
      BY <1>3, AdapterFacts DEF Written, TypeOK, Ids, Registered
    <2> QED BY <1>1, <1>3, <2>1 DEF Room, Slots, Suited
  <1>4. CASE comp = "fs"
    <2>1. FsRegion(opt) \in Nat /\ FsRegion(opt) \div EraseSize >= opt.items + 1
      BY <1>1, <1>4, FsFits DEF Suited
    <2> DEFINE S == 0 .. opt.items - 1
    <2>2. Files(store, i) \subseteq S \ {i}
      BY <1>1, <1>4 DEF Files, Inside, Slots
    <2>3. IsFiniteSet(S) /\ Cardinality(S) = opt.items /\ i \in S
      <3>1. 0 \in Int /\ opt.items - 1 \in Int /\ ~(0 > opt.items - 1)
        BY <1>1
      <3>2. IsFiniteSet(S) /\ Cardinality(S) = (opt.items - 1) - 0 + 1
        BY <3>1, FS_Interval
      <3> QED BY <1>1, <3>2
    <2> HIDE DEF S
    <2>4. IsFiniteSet(S \ {i}) /\ Cardinality(S \ {i}) = opt.items - 1
      BY <2>3, FS_RemoveElement
    <2>5. Cardinality(Files(store, i)) <= opt.items - 1 /\ Cardinality(Files(store, i)) \in Nat
      BY <2>2, <2>4, FS_Subset, FS_CardinalityType
    <2>6. FsRegion(opt) \div EraseSize \in Nat
      BY <2>1, AdaptersAssumption, DivMod
    <2>7. Cardinality(Files(store, i)) < FsRegion(opt) \div EraseSize - 1
      BY <1>1, <2>1, <2>5, <2>6
    <2> QED BY <1>4, <2>7 DEF Room, Suited
  <1>5. CASE comp \notin {"fcb", "fastflash", "fs"}
    BY <1>5 DEF Room, Suited
  <1> QED BY <1>2, <1>3, <1>4, <1>5
-----------------------------------------------------------------------------
(* Without a fault, step by step. *)

\* The run's fixed part.
LEMMA RunKept ==
    ASSUME run' = run
    PROVE  /\ comp' = comp /\ task' = task /\ opt' = opt
           /\ Rounds' = Rounds /\ After' = After /\ Checks' = Checks
           /\ ToVerify' = ToVerify /\ Suited' = Suited
  BY DEF run, Rounds, After, Checks, ToVerify, FirstToVerify, LastToVerify, Kind, Suited

\* Nothing was spent before if nothing is spent after.
LEMMA NotSpent ==
    ASSUME TypeOK, NEW k \in Nat, Spend(k), faults' = 0
    PROVE  k = 0 /\ faults = 0
  BY EngineAssumption DEF TypeOK, Spend

\* Where a step to the next item leads.
LEMMA ForwardCases ==
    ASSUME TypeOK, Forward, i < opt.items, round < Rounds
    PROVE  \/ pc' = "loop" /\ i' = i + 1 /\ round' = round /\ i + 1 < opt.items
           \/ /\ pc' = "loop" /\ i' = 0 /\ round' = round + 1 /\ round + 1 < Rounds
              /\ i + 1 = opt.items
           \/ pc' = After /\ i' = 0 /\ round' = round /\ i + 1 = opt.items
  BY OptType DEF TypeOK, Forward, Slots

\* The items a task verifies are items of it.
LEMMA VerifyIs ==
    ASSUME TypeOK, Suited, task = "powerloss"
    PROVE  /\ \A n \in ToVerify : n \in Slots /\ n < opt.items
           /\ comp = "baremetal" => ToVerify = {opt.items - 1}
           /\ Rounds = 1
  <1>1. comp \in Ids /\ opt.items \in 0 .. NSlots /\ NSlots \in Nat
    BY OptType, EngineAssumption DEF TypeOK
  <1>2. (Kind = "baremetal" <=> comp = "baremetal") /\ (comp = "baremetal" => opt.items > 0)
    BY <1>1, AdapterFacts DEF Kind, Suited
  <1> QED BY <1>1, <1>2 DEF ToVerify, FirstToVerify, LastToVerify, Slots, Rounds

\* One item more has been gone over, and the loop goes on.
LEMMA Onward ==
    ASSUME TypeOK, Suited, run' = run, Forward, i < opt.items, round < Rounds,
           comp = "fcb" => store'.used <= round * opt.items + (i + 1),
           comp = "fastflash" /\ task # "mixed" => store'.used >= i + 1,
           comp = "fs" => \A p \in Slots : p >= opt.items => store'.at[p] = Missing,
           task = "read" => \A n \in Slots : n < i + 1 => Found(comp, store', n, opt),
           task = "powerloss" =>
               \A n \in ToVerify : n < i + 1 => /\ Found(comp, store', n, opt)
                                                /\ store'.at[Slot(comp, n)] = Value(task, round, n),
           store' \in Stores
    PROVE  Inside' /\ Done'
  <1>1. /\ i \in Nat /\ round \in Nat /\ Rounds \in Nat /\ opt.items \in Nat /\ i \in Slots
        /\ opt.items <= NSlots /\ NSlots \in Nat /\ store'.used \in Nat
        /\ \A n \in Slots : n \in Nat
    BY OptType DEF TypeOK, Slots, Stores
  <1>2. /\ comp' = comp /\ task' = task /\ opt' = opt
        /\ Rounds' = Rounds /\ After' = After /\ ToVerify' = ToVerify
    BY RunKept
  <1>3. round * opt.items \in Nat /\ (round + 1) * opt.items = round * opt.items + opt.items
    BY <1>1, MulFacts
  <1>4. task = "powerloss" => /\ \A n \in ToVerify : n \in Slots /\ n < opt.items
                              /\ Rounds = 1
    BY VerifyIs
  <1>5. /\ After \in {"read", "restart", "end"}
        /\ After = "read" => task = "read" /\ opt.items > 0
        /\ After = "restart" <=> task = "powerloss"
    BY DEF After
  <1>6. CASE pc' = "loop" /\ i' = i + 1 /\ round' = round /\ i + 1 < opt.items
    <2>1. Gone' = i + 1
      BY <1>6 DEF Gone
    <2>2. Inside'
      BY <1>1, <1>2, <1>6, <2>1 DEF Inside
    <2>3. Done'
      BY <1>2, <1>6 DEF Done, Readable
    <2> QED BY <2>2, <2>3
  <1>7. CASE /\ pc' = "loop" /\ i' = 0 /\ round' = round + 1 /\ round + 1 < Rounds
             /\ i + 1 = opt.items
    <2>1. Gone' = 0
      BY <1>7 DEF Gone
    <2>2. Inside'
      BY <1>1, <1>2, <1>3, <1>7, <2>1 DEF Inside
    <2>3. task # "powerloss"
      BY <1>1, <1>4, <1>7
    <2>4. Done'
      BY <1>1, <1>2, <1>7, <2>3 DEF Done
    <2> QED BY <2>2, <2>4
  <1>8. CASE pc' = After /\ i' = 0 /\ round' = round /\ i + 1 = opt.items
    <2>1. Inside'
      BY <1>5, <1>8 DEF Inside
    <2>2. task = "read" => \A n \in Slots : n < opt.items => Found(comp, store', n, opt)
      BY <1>8
    <2>3. task = "powerloss" =>
              \A n \in ToVerify : /\ Found(comp, store', n, opt)
                                  /\ store'.at[Slot(comp, n)] = Value(task, round, n)
      BY <1>4, <1>8
    <2>4. Done'
      BY <1>2, <1>5, <1>8, <2>2, <2>3 DEF Done, Readable
    <2> QED BY <2>1, <2>4
  <1> QED BY <1>6, <1>7, <1>8, ForwardCases

\* Before the first item there is nothing to show.
LEMMA StartSmooth ==
    ASSUME IInv, Smooth, Start, Clean'
    PROVE  Nothing' /\ Inside' /\ Done'
  <1>0. TypeOK /\ store \in Stores /\ comp \in Ids /\ opt \in Options
    BY EngineAssumption DEF IInv, TypeOK
  <1>1. PICK r \in Inits(comp, store, opt, FALSE) :
            /\ Spend(r.cost) /\ store' = r.store
            /\ IF r.rc = 0 THEN pc' = Entry /\ verdict' = verdict
               ELSE pc' = "over" /\ verdict' = -1
    BY DEF Start
  <1>2. run' = run /\ faults' = 0
    BY DEF Start, Clean
  <1>3. Suited
    BY <1>2, RunKept DEF Clean
  <1>4. r.cost \in Nat /\ r.store \in Stores /\ r.store.at = r.store.disk
    BY <1>0, <1>1, InitsRight
  <1>5. r.cost = 0 /\ faults = 0
    BY <1>0, <1>1, <1>2, <1>4, NotSpent
  <1>6. r.rc = 0 /\ (comp \in {"fcb", "fs"} => r.store = Bare(comp))
    BY <1>0, <1>1, <1>3, <1>5, FreeInit DEF Suited
  <1>7. Nothing
    BY <1>3, <1>5 DEF Smooth, Clean
  <1>8. Nothing'
    BY <1>1, <1>4, <1>6, <1>7 DEF Start, Nothing
  <1>9. /\ comp' = comp /\ task' = task /\ opt' = opt /\ Rounds' = Rounds
        /\ ToVerify' = ToVerify /\ i' = i /\ round' = round /\ pc' = Entry
    BY <1>1, <1>2, <1>6, RunKept DEF Start
  <1>t. opt.items \in Nat /\ Rounds \in Nat
    BY <1>0, OptType
  <1>10. i = 0 /\ round = 0
    BY <1>3, <1>5 DEF Smooth, Clean, Start, Inside
  <1>11. Inside'
    <2>1. SUFFICES ASSUME pc' \in {"loop", "check"}
                   PROVE  /\ i < opt.items /\ round < Rounds
                          /\ comp = "fcb" => store'.used <= round * opt.items + i
                          /\ comp = "fastflash" => store'.used >= i
                          /\ comp = "fs" => \A p \in Slots : store'.at[p] = Missing
      <3>1. Gone' = i \/ pc' = "check"
        BY <1>9 DEF Gone
      <3>2. Entry # "check" /\ Entry # "start"
        BY AfterPhase DEF Entry
      <3>3. Gone' = i /\ pc' # "start"
        BY <1>9, <3>1, <3>2
      <3>4. CASE pc' \in {"loop", "check"}
        BY <1>9, <2>1, <3>3, <3>4 DEF Inside
      <3>5. CASE pc' \notin {"loop", "check"}
        BY <3>3, <3>5 DEF Inside
      <3> QED BY <3>4, <3>5
    <2>2. opt.items > 0 /\ Rounds > 0
      BY <1>9, <2>1, AfterPhase DEF Entry
    <2>3. comp = "fcb" => store'.used = 0
      BY <1>1, <1>6 DEF Bare
    <2>4. comp = "fs" => \A p \in Slots : store'.at[p] = Missing
      <3>1. comp = "fs" => Registered[comp].layout # "ram"
        BY <1>0, AdapterFacts
      <3> QED BY <1>1, <1>6, <3>1 DEF Bare
    <2>5. store'.used \in Nat /\ 0 * opt.items = 0
      BY <1>1, <1>4, <1>t DEF Stores
    <2> QED BY <1>10, <2>2, <2>3, <2>4, <2>5
  <1>12. Done'
    <2>1. Entry # "check" /\ Entry # "reinit" /\ Entry # "verify"
      BY AfterPhase DEF Entry
    <2>2. task = "powerloss" /\ Entry = "restart" => ToVerify = {}
      <3>1. SUFFICES ASSUME task = "powerloss", Entry = "restart" PROVE ToVerify = {}
        OBVIOUS
      <3>2. Rounds = 1 /\ \A n \in ToVerify : n \in Slots /\ n < opt.items
        BY <1>0, <1>3, <3>1, VerifyIs
      <3>3. opt.items = 0
        BY <1>t, <3>1, <3>2 DEF Entry
      <3> QED BY <3>2, <3>3 DEF Slots
    <2>3. Entry = "read" => FALSE
      BY <1>t DEF Entry, After, Rounds
    <2>4. task = "powerloss" => \A n \in ToVerify : n \in Slots
      BY <1>0, <1>3, VerifyIs
    <2>5. \A n \in Slots : ~(n < i)
      BY <1>10 DEF Slots
    <2> QED BY <1>9, <2>1, <2>2, <2>3, <2>4, <2>5 DEF Done
  <1> QED BY <1>8, <1>11, <1>12

\* A set takes effect, and the items before it stay.
LEMMA SetSmooth ==
    ASSUME IInv, Smooth, Set, Clean'
    PROVE  Nothing' /\ Inside' /\ Done'
  <1> DEFINE v == Value(task, round, i)
  <1>0. /\ TypeOK /\ store \in Stores /\ comp \in Ids /\ opt \in Options /\ task \in Tasks
        /\ i \in Slots /\ round \in Nat /\ pc = "loop"
    BY EngineAssumption DEF IInv, TypeOK, Set
  <1>1. PICK r \in Sets(comp, store, i, v, opt) :
            /\ Spend(r.cost)
            /\ store' = r.store
            /\ lost' = IF r.rc # 0 /\ task # "read" THEN lost + 1 ELSE lost
            /\ IF r.rc = 0 /\ Checks THEN pc' = "check" /\ UNCHANGED <<i, round>> ELSE Forward
    BY DEF Set
  <1>2. run' = run /\ faults' = 0 /\ rc' = rc /\ verdict' = verdict
    BY DEF Set, Clean
  <1>3. Suited
    BY <1>2, RunKept DEF Clean
  <1>v. v \in Contents /\ v # Missing
    BY <1>0, ValueType, ValueIsData
  <1> HIDE DEF v
  <1>4. r.cost \in Nat /\ r.store \in Stores
    BY <1>0, <1>1, <1>v, SetsType DEF Outcomes
  <1>5. r.cost = 0 /\ faults = 0
    BY <1>0, <1>1, <1>2, <1>4, NotSpent
  <1>6. Nothing /\ Inside /\ Done
    BY <1>3, <1>5 DEF Smooth, Clean
  <1>7. r.rc = 0 /\ store' = Put(comp, store, i, v)
    <2>1. Accepts(comp, opt) /\ Room(comp, store, i, opt)
      BY <1>0, <1>3, <1>6, RoomHere
    <2> QED BY <1>1, <1>5, <2>1, FreeSet
  <1>8. /\ i < opt.items /\ round < Rounds /\ Gone = i
        /\ comp = "fcb" => store.used <= round * opt.items + i
        /\ comp = "fastflash" /\ task # "mixed" => store.used >= i
        /\ comp = "fs" => \A p \in Slots : p >= opt.items => store.at[p] = Missing
    BY <1>0, <1>6 DEF Inside, Gone
  <1>9. /\ i \in Nat /\ opt.items \in Nat /\ Rounds \in Nat /\ round * opt.items \in Nat
        /\ store.used \in Nat /\ store'.used \in Nat /\ store' \in Stores
        /\ \A n \in Slots : n \in Nat
        /\ store.at \in [Slots -> Contents] /\ store.disk \in [Slots -> Contents]
    <2>1. i \in Nat /\ opt.items \in Nat /\ Rounds \in Nat
      BY <1>0, OptType DEF Slots
    <2>2. round * opt.items \in Nat
      BY <1>0, <2>1, MulFacts
    <2>3. store' \in Stores
      BY <1>1, <1>4
    <2> QED BY <1>0, <2>1, <2>2, <2>3 DEF Slots, Stores
  <1>10. store'.at = store'.disk
    <2>1. store.at = store.disk
      BY <1>6 DEF Nothing
    <2> QED BY <1>7, <2>1 DEF Put
  <1>11. Nothing'
    BY <1>1, <1>2, <1>6, <1>7, <1>10 DEF Nothing
  <1>a. comp = "fcb" => store'.used <= round * opt.items + (i + 1)
    <2>1. SUFFICES ASSUME comp = "fcb" PROVE store'.used <= round * opt.items + (i + 1)
      OBVIOUS
    <2>2. Put(comp, store, i, v).used = store.used + 1
      BY <1>0, <2>1, AdapterFacts DEF Put
    <2>3. store'.used = store.used + 1
      BY <1>7, <2>2
    <2> QED BY <1>8, <1>9, <2>1, <2>3
  <1>b. comp = "fastflash" /\ task # "mixed" => store'.used >= i + 1
    <2>1. SUFFICES ASSUME comp = "fastflash", task # "mixed" PROVE store'.used >= i + 1
      OBVIOUS
    <2>2. ~Written(comp, store, i) => store.used = i
      BY <1>0, <1>8, <2>1, PlaceIs
    <2>3. Written(comp, store, i) => i < store.used
      BY <1>0, <2>1, AdapterFacts DEF Written
    <2>4. /\ ~Written(comp, store, i) => store'.used = store.used + 1
          /\ Written(comp, store, i) => store'.used = store.used
      BY <1>0, <1>7, <2>1, AdapterFacts DEF Put
    <2> QED BY <1>9, <2>2, <2>3, <2>4
  \* Where the item went.
  <1>c. ~(comp = "fastflash" /\ task = "mixed") =>
            /\ store'.at = [store.at EXCEPT ![Slot(comp, i)] = v]
            /\ Slot(comp, i) \in Slots
    <2>1. SUFFICES ASSUME ~(comp = "fastflash" /\ task = "mixed")
                   PROVE  /\ store'.at = [store.at EXCEPT ![Slot(comp, i)] = v]
                          /\ Slot(comp, i) \in Slots
      OBVIOUS
    <2>2. comp = "fastflash" => i <= store.used
      BY <1>8, <1>9, <2>1
    <2>3. Put(comp, store, i, v).at = [store.at EXCEPT ![Slot(comp, i)] = v]
      BY <1>0, <2>2, PlaceIs DEF Put
    <2>4. Slot(comp, i) \in Slots
      BY <1>0, SlotIs
    <2> QED BY <1>7, <2>3, <2>4
  <1>d. comp = "fs" => \A p \in Slots : p >= opt.items => store'.at[p] = Missing
    <2>1. SUFFICES ASSUME comp = "fs", NEW p \in Slots, p >= opt.items
                   PROVE  store'.at[p] = Missing
      OBVIOUS
    <2>2. Slot(comp, i) = i /\ p # i
      BY <1>0, <1>8, <1>9, <2>1, SlotIs
    <2> QED BY <1>8, <1>9, <1>c, <2>1, <2>2
  \* What is read of it.
  <1>e. ASSUME task # "mixed", Length(comp, opt) <= opt.vlen
        PROVE  /\ Found(comp, store', i, opt) /\ store'.at[Slot(comp, i)] = v
               /\ \A n \in Slots : n <= i /\ (n < i => store'.at[Slot(comp, n)] # Missing)
                                    => Found(comp, store', n, opt)
    <2>1. store'.at[Slot(comp, i)] = v
      BY <1>9, <1>c, <1>e
    <2>2. \A n \in Slots : n <= i => Written(comp, store', n)
      <3>1. Registered[comp].layout = "table" => store'.used >= i + 1
        BY <1>0, <1>b, <1>e, AdapterFacts
      <3> QED BY <1>9, <3>1 DEF Written
    <2>3. Accepts(comp, opt)
      BY <1>3 DEF Suited
    <2> QED BY <1>0, <1>9, <1>e, <1>v, <2>1, <2>2, <2>3 DEF Found
  <1>f. task = "read" => \A n \in Slots : n < i + 1 => Found(comp, store', n, opt)
    <2>1. SUFFICES ASSUME task = "read", NEW n \in Slots, n < i + 1
                   PROVE  Found(comp, store', n, opt)
      OBVIOUS
    <2>2. Length(comp, opt) <= opt.vlen
      BY <1>0, <1>3, <2>1, EngineAssumption DEF Suited, Length
    <2>3. n < i => store.at[Slot(comp, n)] # Missing
      BY <1>0, <1>6, <2>1 DEF Done, Found
    <2>4. n < i => store'.at[Slot(comp, n)] # Missing
      <3>1. Slot(comp, n) \in Slots
        BY <1>0, SlotIs
      <3> QED BY <1>9, <1>c, <1>v, <2>1, <2>3, <3>1
    <2> QED BY <1>9, <1>e, <2>1, <2>2, <2>4
  <1>g. task = "powerloss" =>
            \A n \in ToVerify : n < i + 1 => /\ Found(comp, store', n, opt)
                                             /\ store'.at[Slot(comp, n)] = Value(task, round, n)
    <2>1. SUFFICES ASSUME task = "powerloss", NEW n \in ToVerify, n < i + 1
                   PROVE  /\ Found(comp, store', n, opt)
                          /\ store'.at[Slot(comp, n)] = Value(task, round, n)
      OBVIOUS
    <2>2. Length(comp, opt) <= opt.vlen
      BY <1>0, <1>3, <2>1, EngineAssumption DEF Suited, Length
    <2>3. n \in Slots /\ n < opt.items /\ (comp = "baremetal" => n = opt.items - 1)
      BY <1>0, <1>3, <2>1, VerifyIs
    <2>4. CASE n = i
      BY <1>e, <2>1, <2>2, <2>4 DEF v
    <2>5. CASE n < i
      <3>1. Found(comp, store, n, opt) /\ store.at[Slot(comp, n)] = Value(task, round, n)
        BY <1>0, <1>6, <2>1, <2>5 DEF Done, Readable
      <3>2. Slot(comp, n) # Slot(comp, i) /\ Slot(comp, n) \in Slots
        <4>1. comp # "baremetal"
          BY <1>8, <1>9, <2>3, <2>5
        <4>2. comp = "tym_setting" => n % 4 = n /\ i % 4 = i
          <5>1. comp = "tym_setting" => opt.items <= 4
            BY <1>3, <2>1 DEF Suited, Settings
          <5> QED BY <1>8, <1>9, <2>3, <2>5, <5>1
        <4> QED BY <1>0, <2>3, <2>5, <4>1, <4>2, <1>9, SlotIs
      <3>3. store'.at[Slot(comp, n)] = store.at[Slot(comp, n)]
        BY <1>9, <1>c, <2>1, <3>2
      <3>4. store'.at[Slot(comp, n)] # Missing
        BY <3>1, <3>3 DEF Found
      <3> QED BY <1>e, <2>1, <2>2, <2>3, <2>5, <3>1, <3>3, <3>4, <1>9
    <2> QED BY <1>9, <2>1, <2>3, <2>4, <2>5
  <1>12. CASE ~Checks
    BY <1>0, <1>1, <1>2, <1>3, <1>7, <1>8, <1>9, <1>11, <1>12, <1>a, <1>b, <1>d, <1>f, <1>g,
       Onward
  <1>13. CASE Checks
    <2>1. /\ pc' = "check" /\ i' = i /\ round' = round /\ comp' = comp /\ opt' = opt
          /\ task' = task /\ Rounds' = Rounds /\ Checks'
      BY <1>1, <1>2, <1>7, <1>13, RunKept
    <2>2. Gone' = i + 1
      BY <2>1 DEF Gone
    <2>3. Inside'
      BY <1>8, <1>a, <1>b, <1>d, <2>1, <2>2 DEF Inside
    <2>4. task \in {"update", "durability"}
      BY <1>13 DEF Checks
    <2>5. Length(comp, opt) <= opt.vlen
      BY <1>0, <1>3, <2>4, EngineAssumption DEF Suited, Length
    <2>6. Readable(i)'
      BY <1>e, <2>1, <2>4, <2>5 DEF Readable, v
    <2>7. Done'
      BY <2>1, <2>6 DEF Done
    <2> QED BY <1>11, <2>3, <2>7
  <1> QED BY <1>12, <1>13

\* A delete finds what it deletes, or need not.
LEMMA DeleteSmooth ==
    ASSUME IInv, Smooth, Delete, Clean'
    PROVE  Nothing' /\ Inside' /\ Done'
  <1>0. /\ TypeOK /\ store \in Stores /\ comp \in Ids /\ opt \in Options
        /\ i \in Slots /\ round \in Nat /\ pc = "loop" /\ task = "mixed" /\ i % 4 = 3
        /\ Forward
    BY EngineAssumption DEF IInv, TypeOK, Delete, Deleting
  <1>1. PICK r \in Deletes(comp, store, i, opt) :
            /\ Spend(r.cost) /\ store' = r.store
            /\ lost' = IF r.rc # 0 THEN lost + 1 ELSE lost
    BY DEF Delete
  <1>2. run' = run /\ faults' = 0 /\ rc' = rc /\ verdict' = verdict
    BY DEF Delete, Clean
  <1>3. Suited
    BY <1>2, RunKept DEF Clean
  <1>4. r.cost \in Nat /\ r.store \in Stores
    BY <1>0, <1>1, DeletesType DEF Outcomes
  <1>5. r.cost = 0 /\ faults = 0
    BY <1>0, <1>1, <1>2, <1>4, NotSpent
  <1>6. Nothing /\ Inside
    BY <1>3, <1>5 DEF Smooth, Clean
  <1>8. /\ i < opt.items /\ round < Rounds /\ Gone = i
        /\ comp = "fcb" => store.used <= round * opt.items + i
    BY <1>0, <1>6 DEF Inside, Gone
  <1>9. /\ i \in Nat /\ opt.items \in Nat /\ round * opt.items \in Nat /\ store.used \in Nat
    BY <1>0, OptType, MulFacts DEF Slots, Stores
  <1>s. ~Registered[comp].strict
    <2>1. SUFFICES ASSUME Registered[comp].strict PROVE FALSE
      OBVIOUS
    <2>2. opt.items <= 3
      BY <1>0, <1>3, <2>1 DEF Suited
    <2> QED BY <1>0, <1>8, <1>9, <2>2
  <1>7. r.rc = 0 /\ store' \in {store, Put(comp, store, i, Blank(comp))}
    <2>1. Room(comp, store, i, opt)
      BY <1>0, <1>3, <1>6, RoomHere
    <2> QED BY <1>1, <1>5, <1>s, <2>1, FreeDelete
  <1>10. store'.at = store'.disk
    <2>1. store.at = store.disk
      BY <1>6 DEF Nothing
    <2> QED BY <1>7, <2>1 DEF Put
  <1>11. Nothing'
    BY <1>1, <1>2, <1>6, <1>7, <1>10 DEF Nothing
  <1>12. comp # "fs"
    BY <1>0, <1>s, AdapterFacts
  <1>13. comp = "fcb" => store'.used <= round * opt.items + (i + 1)
    <2>1. SUFFICES ASSUME comp = "fcb" PROVE store'.used <= round * opt.items + (i + 1)
      OBVIOUS
    <2>2. Put(comp, store, i, Blank(comp)).used = store.used + 1
      BY <1>0, <2>1, AdapterFacts DEF Put
    <2>3. store'.used \in {store.used, store.used + 1}
      BY <1>7, <2>2
    <2> QED BY <1>8, <1>9, <2>1, <2>3
  <1> QED BY <1>0, <1>1, <1>2, <1>3, <1>4, <1>8, <1>11, <1>12, <1>13, Onward

\* A configuration not saved in an odd round.
LEMMA SkipSmooth ==
    ASSUME IInv, Smooth, Skip, Clean'
    PROVE  Nothing' /\ Inside' /\ Done'
  <1>0. /\ TypeOK /\ comp \in Ids /\ pc = "loop" /\ task = "mixed" /\ Kind = "baremetal"
        /\ Forward /\ store' = store /\ store \in Stores
    BY EngineAssumption DEF IInv, TypeOK, Skip, Skipping
  <1>1. /\ run' = run /\ faults' = 0 /\ faults = 0 /\ rc' = rc /\ verdict' = verdict
        /\ lost' = lost
    BY DEF Skip, Clean
  <1>2. Suited
    BY <1>1, RunKept DEF Clean
  <1>3. Nothing /\ Inside
    BY <1>1, <1>2 DEF Smooth, Clean
  <1>4. Nothing'
    BY <1>0, <1>1, <1>3 DEF Nothing
  <1>5. comp = "baremetal"
    BY <1>0, AdapterFacts DEF Kind
  <1>6. i < opt.items /\ round < Rounds
    BY <1>0, <1>3 DEF Inside
  <1> QED BY <1>0, <1>1, <1>2, <1>4, <1>5, <1>6, Onward

\* What was set is read back.
LEMMA CheckSmooth ==
    ASSUME IInv, Smooth, Check, Clean'
    PROVE  Nothing' /\ Inside' /\ Done'
  <1>0. /\ TypeOK /\ comp \in Ids /\ opt \in Options /\ pc = "check" /\ Forward
        /\ store' = store /\ store \in Stores
    BY EngineAssumption DEF IInv, TypeOK, Check
  <1>1. PICK g \in Gets(comp, store, i, opt) :
            Spend(g.cost) /\ lost' = IF Same(g, i) THEN lost ELSE lost + 1
    BY DEF Check
  <1>2. run' = run /\ faults' = 0 /\ rc' = rc /\ verdict' = verdict
    BY DEF Check, Clean
  <1>3. Suited
    BY <1>2, RunKept DEF Clean
  <1>4. g.cost = 0 /\ faults = 0
    BY <1>0, <1>1, <1>2, GetsRight, NotSpent
  <1>5. Nothing /\ Inside /\ Done
    BY <1>3, <1>4 DEF Smooth, Clean
  <1>6. Checks /\ Readable(i)
    BY <1>0, <1>5 DEF Done
  <1>7. task \in {"update", "durability"}
    BY <1>6 DEF Checks
  <1>8. Same(g, i)
    <2>1. g.rc = 0 /\ g.val = store.at[Slot(comp, i)]
      BY <1>1, <1>4, <1>6, FreeGet DEF Readable
    <2>2. Length(comp, opt) = opt.vlen
      BY <1>3, <1>7 DEF Suited, Length
    <2> QED BY <1>6, <2>1, <2>2 DEF Same, Readable
  <1>9. Nothing'
    BY <1>0, <1>1, <1>2, <1>5, <1>8 DEF Nothing
  <1>10. /\ i < opt.items /\ round < Rounds /\ Gone = i + 1
         /\ comp = "fcb" => store.used <= round * opt.items + (i + 1)
         /\ comp = "fastflash" => store.used >= i + 1
         /\ comp = "fs" => \A p \in Slots : p >= opt.items => store.at[p] = Missing
    BY <1>0, <1>5, <1>7 DEF Inside, Gone
  <1> QED BY <1>0, <1>2, <1>3, <1>7, <1>9, <1>10, Onward

\* Reads and verifications find what Done says is there.
LEMMA ReadSmooth ==
    ASSUME IInv, Smooth, Read, Clean'
    PROVE  Nothing' /\ Inside' /\ Done'
  <1>0. /\ TypeOK /\ pc = "read" /\ task = "read" /\ store' = store /\ i \in Slots
        /\ round' = round
    BY DEF IInv, TypeOK, Read, Phases
  <1>1. PICK g \in Gets(comp, store, i, opt) :
            Spend(g.cost) /\ lost' = IF g.rc = 0 THEN lost ELSE lost + 1
    BY DEF Read
  <1>2. run' = run /\ faults' = 0 /\ rc' = rc /\ verdict' = verdict
    BY DEF Read, Clean
  <1>3. Suited
    BY <1>2, RunKept DEF Clean
  <1>4. g.cost = 0 /\ faults = 0
    BY <1>0, <1>1, <1>2, GetsRight, NotSpent
  <1>5. Nothing /\ Inside /\ Done
    BY <1>3, <1>4 DEF Smooth, Clean
  <1>6. i < opt.items /\ \A n \in Slots : n < opt.items => Found(comp, store, n, opt)
    BY <1>0, <1>5 DEF Done
  <1>7. g.rc = 0
    BY <1>0, <1>1, <1>4, <1>6, FreeGet
  <1>8. Nothing'
    BY <1>0, <1>1, <1>2, <1>5, <1>7 DEF Nothing
  <1>9. /\ comp' = comp /\ opt' = opt /\ task' = task
        /\ \/ pc' = "read" /\ i' < opt.items
           \/ pc' = "end"
    BY <1>0, <1>2, RunKept DEF Read
  <1> QED BY <1>0, <1>6, <1>8, <1>9 DEF Inside, Done

\* Closing the component loses nothing.
LEMMA RestartSmooth ==
    ASSUME IInv, Smooth, Restart, Clean'
    PROVE  Nothing' /\ Inside' /\ Done'
  <1>0. /\ TypeOK /\ pc = "restart" /\ task = "powerloss" /\ pc' = "reinit"
        /\ run' = run /\ faults' = 0 /\ UNCHANGED <<round, i, lost, rc, verdict>>
    BY DEF IInv, TypeOK, Restart, Phases, Clean
  <1>1. store' = store /\ faults = 0
    <2>1. ~Spend(1)
      BY <1>0, NotSpent
    <2> QED BY <1>0, <2>1 DEF Restart
  <1>2. Suited
    BY <1>0, RunKept DEF Clean
  <1>3. Nothing /\ Done
    BY <1>1, <1>2 DEF Smooth, Clean
  <1>4. /\ ToVerify' = ToVerify /\ task' = task
        /\ \A n : Readable(n)' <=> Readable(n)
    BY <1>0, <1>1, RunKept, ReadableStays
  <1> QED BY <1>0, <1>1, <1>3, <1>4 DEF Nothing, Inside, Done

\* Opening it again finds what was there.
LEMMA ReinitSmooth ==
    ASSUME IInv, Smooth, Reinit, Clean'
    PROVE  Nothing' /\ Inside' /\ Done'
  <1>0. /\ TypeOK /\ pc = "reinit" /\ task = "powerloss" /\ reinit = TRUE
        /\ store \in Stores /\ comp \in Ids /\ opt \in Options
        /\ round' = round /\ verdict' = verdict /\ run' = run /\ faults' = 0
    BY EngineAssumption DEF IInv, TypeOK, Reinit, Phases, Clean
  <1>1. PICK r \in Inits(comp, store, opt, TRUE) :
            /\ Spend(r.cost) /\ store' = r.store
            /\ IF r.rc = 0
               THEN /\ UNCHANGED <<lost, rc>>
                    /\ IF ToVerify = {} THEN pc' = "end" /\ i' = i
                       ELSE pc' = "verify" /\ i' = FirstToVerify
               ELSE pc' = "end" /\ lost' = lost + opt.items /\ rc' = -1 /\ i' = i
    BY <1>0, Zenon DEF Reinit
  <1>2. Suited
    BY <1>0, RunKept DEF Clean
  <1>3. r.cost \in Nat
    BY <1>0, <1>1, InitsRight
  <1>4. r.cost = 0 /\ faults = 0
    BY <1>0, <1>1, <1>3, NotSpent
  <1>5. Nothing /\ Done
    BY <1>2, <1>4 DEF Smooth, Clean
  <1>6. r.rc = 0 /\ store' = Reopened(store)
    BY <1>0, <1>1, <1>2, <1>4, FreeInit DEF Suited
  <1>7. store' = store
    BY <1>0, <1>5, <1>6 DEF Nothing, Reopened, Stores
  <1>8. Nothing'
    BY <1>0, <1>1, <1>5, <1>6, <1>7 DEF Nothing
  <1>9. /\ ToVerify' = ToVerify /\ task' = task
        /\ \A n : Readable(n)' <=> Readable(n)
    BY <1>0, <1>7, RunKept, ReadableStays
  <1>10. \/ pc' = "end"
         \/ pc' = "verify" /\ i' = FirstToVerify /\ ToVerify # {}
    BY <1>1, <1>6
  <1>11. ToVerify # {} => FirstToVerify \in ToVerify
    <2>1. FirstToVerify \in Int /\ LastToVerify \in Int
      BY <1>0, OptType DEF Slots
    <2> QED BY <2>1 DEF ToVerify
  <1> QED BY <1>0, <1>5, <1>8, <1>9, <1>10, <1>11 DEF Inside, Done

\* The check after the restart finds what was written.
LEMMA VerifySmooth ==
    ASSUME IInv, Smooth, Verify, Clean'
    PROVE  Nothing' /\ Inside' /\ Done'
  <1>0. /\ TypeOK /\ pc = "verify" /\ task = "powerloss" /\ store' = store
        /\ round' = round
    BY DEF IInv, TypeOK, Verify, Phases
  <1>1. PICK g \in Gets(comp, store, i, opt) :
            Spend(g.cost) /\ lost' = IF Same(g, i) THEN lost ELSE lost + 1
    BY DEF Verify
  <1>2. run' = run /\ faults' = 0 /\ rc' = rc /\ verdict' = verdict
    BY DEF Verify, Clean
  <1>3. Suited
    BY <1>2, RunKept DEF Clean
  <1>4. g.cost = 0 /\ faults = 0
    BY <1>0, <1>1, <1>2, GetsRight, NotSpent
  <1>5. Nothing /\ Done
    BY <1>3, <1>4 DEF Smooth, Clean
  <1>6. i \in ToVerify /\ \A n \in ToVerify : Readable(n)
    BY <1>0, <1>5 DEF Done
  <1>7. Same(g, i)
    <2>1. g.rc = 0 /\ g.val = store.at[Slot(comp, i)]
      BY <1>1, <1>4, <1>6, FreeGet DEF Readable
    <2>2. Length(comp, opt) = opt.vlen
      BY <1>0, <1>3 DEF Suited, Length
    <2> QED BY <1>6, <2>1, <2>2 DEF Same, Readable
  <1>8. Nothing'
    BY <1>0, <1>1, <1>2, <1>5, <1>7 DEF Nothing
  <1>9. /\ ToVerify' = ToVerify /\ task' = task
        /\ \A n : Readable(n)' <=> Readable(n)
    BY <1>0, <1>2, RunKept, ReadableStays
  <1>10. \/ pc' = "verify" /\ i' \in ToVerify
         \/ pc' = "end"
    <2>1. FirstToVerify \in Int /\ LastToVerify \in Int
      BY <1>0, OptType DEF Slots
    <2> QED BY <1>0, <1>6, <2>1 DEF Verify, ToVerify
  <1> QED BY <1>0, <1>6, <1>8, <1>9, <1>10 DEF Inside, Done

\* With nothing lost the verdict is 0.
LEMMA EndSmooth ==
    ASSUME IInv, Smooth, End, Clean'
    PROVE  Nothing' /\ Inside' /\ Done'
  <1>1. /\ run' = run /\ store' = store /\ lost' = lost /\ rc' = rc
        /\ pc' = "over" /\ verdict' = (IF rc = 0 /\ lost = 0 THEN 0 ELSE 1)
        /\ faults' = faults
    BY DEF End
  <1>2. Clean
    BY <1>1, RunKept DEF Clean
  <1>3. Nothing
    BY <1>2 DEF Smooth
  <1> QED BY <1>1, <1>3 DEF Nothing, Inside, Done

\* A step that changes nothing.
LEMMA StaySmooth ==
    ASSUME IInv, Smooth, UNCHANGED vars, Clean'
    PROVE  Nothing' /\ Inside' /\ Done'
  <1>1. /\ run' = run /\ UNCHANGED <<pc, store, round, i, lost, rc, verdict, faults>>
    BY DEF vars, run
  <1>2. /\ comp' = comp /\ task' = task /\ opt' = opt /\ Rounds' = Rounds
        /\ Checks' = Checks /\ ToVerify' = ToVerify /\ Suited' = Suited
    BY <1>1, RunKept
  <1>3. \A n : Readable(n)' <=> Readable(n)
    BY <1>1, ReadableStays
  <1>4. Nothing /\ Inside /\ Done
    BY <1>1, <1>2 DEF Smooth, Clean
  <1>5. Nothing'
    BY <1>1, <1>4 DEF Nothing
  <1>6. Inside'
    BY <1>1, <1>2, <1>4 DEF Inside, Gone
  <1>7. Done'
    BY <1>1, <1>2, <1>3, <1>4 DEF Done
  <1> QED BY <1>5, <1>6, <1>7

\* Every step keeps it.
LEMMA SmoothStep == IInv /\ Smooth /\ [Next]_vars => Smooth'
  <1> SUFFICES ASSUME IInv, Smooth, [Next]_vars, Clean' PROVE Nothing' /\ Inside' /\ Done'
    BY DEF Smooth
  <1> QED BY StartSmooth, SetSmooth, DeleteSmooth, SkipSmooth, CheckSmooth, ReadSmooth,
             RestartSmooth, ReinitSmooth, VerifySmooth, EndSmooth, StaySmooth DEF Next, Over

\* It holds at first, whatever an earlier process left.
LEMMA InitSmooth == Init => Smooth
  <1> SUFFICES ASSUME Init PROVE Nothing /\ Inside /\ Done
    BY DEF Smooth
  <1>1. store.at = store.disk
    <2>1. store \in Leftover(comp)
      BY DEF Init
    <2> QED BY <2>1 DEF Leftover, Bare
  <1> QED BY <1>1 DEF Init, Nothing, Inside, Done

\* A store that never misbehaves passes every task that suits it, whatever an earlier
\* process left on the medium (the adapters' regions, layouts and deletes against the
\* tasks' bookkeeping), for every number of items, rounds and sizes.
THEOREM NeverFalseAlarm == Spec => []NoFalseAlarm
  <1>1. Spec => []Smooth
    BY InitSmooth, SmoothStep, Invariant, PTL DEF Spec
  <1>2. Smooth => NoFalseAlarm
    BY DEF Smooth, Clean, Nothing, NoFalseAlarm
  <1> QED BY <1>1, <1>2, PTL
=============================================================================
