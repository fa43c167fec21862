-------------------------------- MODULE KvDict ------------------------------
(***************************************************************************)
(* What frameworks/kv/kv_store.h promises: a dictionary in which a write   *)
(* or delete takes effect at once or not at all, whatever power loss comes *)
(* in between, and nothing else ever changes.                              *)
(***************************************************************************)
CONSTANTS Keys, Datum, NoRequest
VARIABLES dict, request, up
vars == <<dict, request, up>>

Init ==
    /\ dict \in [Keys -> Datum] /\ request = NoRequest /\ up = FALSE

Open == ~up /\ up' = TRUE /\ UNCHANGED <<dict, request>>

Ask(k, d) ==
    /\ up /\ request = NoRequest
    /\ request' = [key |-> k, dat |-> d]
    /\ UNCHANGED <<dict, up>>

Done == [dict EXCEPT ![request.key] = request.dat]

\* The call returns 0.
Commit ==
    /\ request # NoRequest /\ request' = NoRequest
    /\ dict' = Done
    /\ UNCHANGED up

\* The call returns an error: no room even after compaction.
Refuse ==
    /\ request # NoRequest /\ request' = NoRequest
    /\ UNCHANGED <<dict, up>>

Crash ==
    /\ up /\ up' = FALSE /\ request' = NoRequest
    /\ dict' \in {dict} \cup (IF request = NoRequest THEN {} ELSE {Done})

Next == Open \/ Commit \/ Refuse \/ Crash \/ \E k \in Keys, d \in Datum : Ask(k, d)

Spec == Init /\ [][Next]_vars
=============================================================================
