----------------------------- MODULE TaskEngine -----------------------------
(***************************************************************************)
(* app_run_task of src/app/app_task.c: one task on one component, behind   *)
(* its adapter.  A task calls the adapter item by item, counts in res.lost *)
(* what failed or did not read back, and the verdict of the run is 0 when  *)
(* nothing was counted.  "powerloss" closes the component half-way and     *)
(* opens it again with APP_REINIT set.  Each step is one call of the       *)
(* adapter; stores misbehave within a budget of MaxFaults.                 *)
(***************************************************************************)
EXTENDS Adapters

CONSTANTS
    Comps,      \* subset of Ids
    Options,    \* what the APP_ and SIM_ variables of the environment may say
    MaxFaults   \* bound on misbehaviour

Tasks == {"write", "read", "update", "durability", "powerloss", "mixed"}

ASSUME EngineAssumption ==
    /\ Comps \subseteq Ids /\ Comps # {}
    /\ MaxFaults \in Nat
    /\ \A o \in Options : /\ o.items \in 0 .. NSlots
                          /\ o.rounds \in Nat /\ o.vlen \in Nat \ {0}
                          /\ o.cap \in Nat /\ o.total \in Nat
                          /\ o.total >= 2 * EraseSize

\* What tells the absence of data is no data.
ASSUME DataAssumption == {Missing, Hollow, Junk} \cap (Nat \X Slots) = {}

VARIABLES
    comp, task, opt, \* the run, fixed
    pc,         \* what app_run_task does next
    store,      \* the component's data
    dev,        \* s_dev is set
    reinit,     \* APP_REINIT
    round, i,   \* loop counters
    lost, rc,   \* res.lost and the task's return value
    verdict,    \* app_run_task's
    faults,     \* misbehaviour so far
    missed      \* history: a set that returned 0 did not read back
run == <<comp, task, opt>>
vars == <<comp, task, opt, pc, store, dev, reinit, round, i, lost, rc, verdict, faults, missed>>

-----------------------------------------------------------------------------
Seed == [write |-> 1, read |-> 2, update |-> 3, durability |-> 4, powerloss |-> 5, mixed |-> 6]
\* fill_buf's data; two tasks may write the same.
Value(t, r, n) == <<Seed[t] + r, n>>
Values == Nat \X Slots
Contents == Values \cup {Missing, Hollow, Junk}
Stores == [at : [Slots -> Contents], disk : [Slots -> Contents], used : Nat]

Kind == Registered[comp].kind
Rounds == IF task \in {"update", "durability", "mixed"} THEN opt.rounds ELSE 1
\* Where the loop over rounds and items is left, and where it is entered.
After == CASE task = "read" /\ opt.items > 0 -> "read"
           [] task = "powerloss" -> "restart"
           [] OTHER -> "end"
Entry == IF opt.items > 0 /\ Rounds > 0 THEN "loop" ELSE After

\* task_durability never reads a bare-metal configuration back; mutant: files
\* are not read back either.
ChecksOnlyKv == (task = "update" \/ task = "durability") /\ Kind = "kv"
Checks == task = "update" \/ (task = "durability" /\ Kind # "baremetal")

\* kv_verify, fs_verify: the length and the content; mutant: the return value only.
SameAnything(g, n) == g.rc = 0
Same(g, n) ==
    g.rc = 0 /\ Length(comp, opt) = opt.vlen /\ g.val = Value(task, round, n)

\* Mutant: one item too many.
ForwardPast ==
    \/ i + 1 <= opt.items /\ i' = i + 1 /\ round' = round /\ pc' = "loop"
    \/ i + 1 > opt.items /\ i' = 0 /\ round' = round /\ pc' = After
Forward ==
    \/ /\ i + 1 < opt.items
       /\ i' = i + 1 /\ round' = round /\ pc' = "loop"
    \/ /\ i + 1 >= opt.items /\ round + 1 < Rounds
       /\ i' = 0 /\ round' = round + 1 /\ pc' = "loop"
    \/ /\ i + 1 >= opt.items /\ round + 1 >= Rounds
       /\ i' = 0 /\ round' = round /\ pc' = After

Spend(cost) == faults + cost <= MaxFaults /\ faults' = faults + cost

-----------------------------------------------------------------------------
\* Left by an earlier process: nothing, or what a write task wrote.
Leftover(c) ==
    LET all == [p \in Slots |-> Value("write", 0, p)]
    IN {Bare(c), [at |-> all, disk |-> all, used |-> NSlots]}

Init ==
    /\ comp \in Comps /\ task \in Tasks /\ opt \in Options
    /\ pc = "start" /\ store \in Leftover(comp) /\ dev = FALSE /\ reinit = FALSE
    /\ round = 0 /\ i = 0 /\ lost = 0 /\ rc = 0 /\ verdict = 0
    /\ faults = 0 /\ missed = FALSE

\* comp->init; a failure ends the run without deinit.
Start ==
    /\ pc = "start"
    /\ \E r \in Inits(comp, store, opt, FALSE) :
        /\ Spend(r.cost)
        /\ store' = r.store /\ dev' = r.dev
        /\ IF r.rc = 0 THEN pc' = Entry /\ verdict' = verdict
           ELSE pc' = "over" /\ verdict' = -1
    /\ UNCHANGED <<run, reinit, round, i, lost, rc, missed>>

\* task_mixed deletes every fourth item, and saves a configuration in even rounds only.
Deleting == task = "mixed" /\ Kind # "baremetal" /\ i % 4 = 3
Skipping == task = "mixed" /\ Kind = "baremetal" /\ round % 2 = 1

\* kv_set, fs_write, bm_save; task_read ignores the result.
Set ==
    /\ pc = "loop" /\ ~Deleting /\ ~Skipping
    /\ \E r \in Sets(comp, store, i, Value(task, round, i), opt) :
        /\ Spend(r.cost)
        /\ store' = r.store
        /\ lost' = IF r.rc # 0 /\ task # "read" THEN lost + 1 ELSE lost
        /\ missed' = (missed \/ (r.rc = 0 /\ ~(/\ Found(comp, r.store, i, opt)
                                               /\ r.store.at[Slot(comp, i)] = Value(task, round, i))))
        /\ IF r.rc = 0 /\ Checks THEN pc' = "check" /\ UNCHANGED <<i, round>> ELSE Forward
    /\ UNCHANGED <<run, dev, reinit, rc, verdict>>

Delete ==
    /\ pc = "loop" /\ Deleting
    /\ \E r \in Deletes(comp, store, i, opt) :
        /\ Spend(r.cost)
        /\ store' = r.store
        /\ lost' = IF r.rc # 0 THEN lost + 1 ELSE lost
    /\ Forward
    /\ UNCHANGED <<run, dev, reinit, rc, verdict, missed>>

Skip ==
    /\ pc = "loop" /\ Skipping
    /\ Forward
    /\ UNCHANGED <<run, store, dev, reinit, lost, rc, verdict, faults, missed>>

\* The read-back after a set.
Check ==
    /\ pc = "check"
    /\ \E g \in Gets(comp, store, i, opt) :
        /\ Spend(g.cost)
        /\ lost' = IF Same(g, i) THEN lost ELSE lost + 1
    /\ Forward
    /\ UNCHANGED <<run, store, dev, reinit, rc, verdict, missed>>

\* task_read's second loop: any value will do.
Read ==
    /\ pc = "read"
    /\ \E g \in Gets(comp, store, i, opt) :
        /\ Spend(g.cost)
        /\ lost' = IF g.rc = 0 THEN lost ELSE lost + 1
    /\ IF i + 1 < opt.items THEN i' = i + 1 /\ pc' = pc ELSE i' = 0 /\ pc' = "end"
    /\ UNCHANGED <<run, store, dev, reinit, round, rc, verdict, missed>>

\* task_powerloss: setenv and deinit; the store may not keep what it took.
Restart ==
    /\ pc = "restart"
    /\ pc' = "reinit" /\ reinit' = TRUE /\ dev' = FALSE
    /\ \/ UNCHANGED <<store, faults>>
       \/ Spend(1) /\ \E p \in Slots : store' = [store EXCEPT !.disk[p] = Bare(comp).disk[p]]
    /\ UNCHANGED <<run, round, i, lost, rc, verdict, missed>>

\* A bare-metal configuration holds the last item only; with none saved
\* it is looked for all the same.  Mutant: every item is looked for.
FirstToVerifyAlways == 0
FirstToVerify == IF Kind = "baremetal" /\ opt.items > 0 THEN opt.items - 1 ELSE 0
LastToVerify == IF Kind = "baremetal" /\ opt.items = 0 THEN 0 ELSE opt.items - 1
ToVerify == FirstToVerify .. LastToVerify

\* comp->init again and unsetenv; a failure loses every item.
Reinit ==
    /\ pc = "reinit"
    /\ \E r \in Inits(comp, store, opt, reinit) :
        /\ Spend(r.cost)
        /\ store' = r.store /\ dev' = r.dev
        /\ IF r.rc = 0
           THEN /\ UNCHANGED <<lost, rc>>
                /\ IF ToVerify = {} THEN pc' = "end" /\ i' = i
                   ELSE pc' = "verify" /\ i' = FirstToVerify
           ELSE pc' = "end" /\ lost' = lost + opt.items /\ rc' = -1 /\ i' = i
    /\ reinit' = FALSE
    /\ UNCHANGED <<run, round, verdict, missed>>

Verify ==
    /\ pc = "verify"
    /\ \E g \in Gets(comp, store, i, opt) :
        /\ Spend(g.cost)
        /\ lost' = IF Same(g, i) THEN lost ELSE lost + 1
    /\ IF i < LastToVerify THEN i' = i + 1 /\ pc' = pc ELSE i' = 0 /\ pc' = "end"
    /\ UNCHANGED <<run, store, dev, reinit, round, rc, verdict, missed>>

End ==
    /\ pc = "end"
    /\ pc' = "over" /\ dev' = FALSE
    /\ verdict' = IF rc = 0 /\ lost = 0 THEN 0 ELSE 1
    /\ UNCHANGED <<run, store, reinit, round, i, lost, rc, faults, missed>>

\* The process exits with the verdict.
Over == pc = "over" /\ UNCHANGED vars

Next ==
    \/ Start \/ Over
    \/ Set \/ Delete \/ Skip \/ Check \/ Read \/ Restart \/ Reinit \/ Verify \/ End
Spec == Init /\ [][Next]_vars

-----------------------------------------------------------------------------
(* Every variable has its type: the run, the store, the counters, the verdict. *)
TypeOK ==
    /\ comp \in Comps /\ task \in Tasks /\ opt \in Options
    /\ pc \in {"start", "loop", "check", "read", "restart", "reinit", "verify", "end", "over"}
    /\ store \in Stores
    /\ dev \in BOOLEAN /\ reinit \in BOOLEAN
    /\ i \in Slots /\ round \in Nat /\ lost \in Nat
    /\ rc \in {-1, 0} /\ verdict \in {-1, 0, 1}
    /\ faults \in 0 .. MaxFaults /\ missed \in BOOLEAN

\* A power-loss test that passed: every item, or the last configuration, is what it wrote
\* and would be found by the next process too (task_powerloss), even if the store's own
\* init repaired the medium and reported a success.
SurvivesRestart ==
    (pc = "over" /\ verdict = 0 /\ task = "powerloss")
    => \A n \in ToVerify : /\ Found(comp, Reopened(store), n, opt)
                           /\ store.disk[Slot(comp, n)] = Value(task, round, n)

\* An update or durability test that passed: no set ever returned 0 without the value
\* being readable at once.  Not for the durability of a bare-metal configuration, which
\* task_durability saves and never loads.
NoSilentLoss ==
    (/\ pc = "over" /\ verdict = 0
     /\ task = "update" \/ (task = "durability" /\ Kind # "baremetal"))
    => ~missed

\* What a task asks of its component and options before it can pass at all.
Suited ==
    /\ Opens(comp, opt, "none") /\ Accepts(comp, opt)
    /\ (comp = "tym_setting" /\ task = "read") => opt.vlen >= ItemSize
    /\ (comp = "tym_setting" /\ task \in {"update", "durability", "powerloss"}) =>
           opt.vlen = ItemSize
    /\ (comp = "tym_setting" /\ task = "powerloss") => opt.items <= Settings
    /\ (Registered[comp].strict /\ task = "mixed") => opt.items <= 3
    /\ (comp = "baremetal" /\ task = "powerloss") => opt.items > 0
    /\ comp = "fcb" =>
           opt.items * Rounds <= (FcbRegion(opt) \div EraseSize - 1) * PerSector
    /\ comp = "fs" => opt.items * EraseSize <= opt.total - (opt.total % EraseSize) - EraseSize

\* No false alarm: a store that never misbehaves passes every task it suits, whatever an
\* earlier process left on the medium (the adapters' regions, layouts and deletes against
\* the tasks' bookkeeping).
NoFalseAlarm == (pc = "over" /\ faults = 0 /\ Suited) => verdict = 0

\* No adapter formats under APP_REINIT (their APP_REINIT branches): what the medium holds
\* changes while a component is opened again only where the store's own init erases what
\* it takes for damaged, which it reports as a success (ef_load_env, load_manager_table
\* and the like; Repairing), and only when something went wrong.
ReinitKeeps ==
    [][pc = "reinit" /\ store'.disk # store.disk
       => comp \in Repairing /\ faults < faults']_vars
=============================================================================
