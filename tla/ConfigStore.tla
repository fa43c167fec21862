----------------------------- MODULE ConfigStore ----------------------------
(***************************************************************************)
(* What frameworks/baremetal/bm_config.h promises its caller: one stored   *)
(* configuration that saves replace and power loss does not disturb.       *)
(* stored is what init and load would give after a power cycle.  While a   *)
(* save is under way it may already be the new configuration or still the  *)
(* old one; from a reset's begin until it or a later save succeeds, any    *)
(* earlier one or none; at rest, and with the power off, it does not       *)
(* change.                                                                 *)
(***************************************************************************)
CONSTANTS Payload, NoValue
VARIABLES stored, visible, ever, unfinished, phase, arg
vars == <<stored, visible, ever, unfinished, phase, arg>>

Init ==
    /\ stored = NoValue /\ visible = {NoValue} /\ ever = {}
    /\ unfinished = FALSE /\ phase = "off" /\ arg = NoValue

\* The store finds what survived; from here on it counts as saved.
PowerUp ==
    /\ phase = "off" /\ phase' = "idle"
    /\ visible' = {stored} /\ unfinished' = FALSE
    /\ UNCHANGED <<stored, ever, arg>>

BeginSave(v) ==
    /\ phase = "idle" /\ phase' = "save" /\ arg' = v
    /\ ever' = ever \cup {v}
    /\ UNCHANGED <<stored, visible, unfinished>>

\* The medium takes the new value, gives up one an earlier save left there,
\* or, once a reset has begun, falls back on anything it was ever given.
Owed == visible \cup {stored} \cup (IF unfinished THEN ever ELSE {})
Settle == CASE phase = "save" -> Owed \cup {arg}
            [] phase = "reset" -> Owed
            [] OTHER -> {stored}

Progress ==
    /\ phase \in {"save", "reset"}
    /\ stored' \in Settle
    /\ UNCHANGED <<visible, ever, unfinished, phase, arg>>

EndSave ==
    /\ phase = "save" /\ phase' = "idle" /\ arg' = NoValue
    /\ stored' = arg /\ visible' = {arg} /\ unfinished' = FALSE
    /\ UNCHANGED ever

BeginReset ==
    /\ phase = "idle" /\ phase' = "reset"
    /\ visible' = visible \cup ever \cup {NoValue} /\ unfinished' = TRUE
    /\ UNCHANGED <<stored, ever, arg>>

EndReset ==
    /\ phase = "reset" /\ phase' = "idle"
    /\ stored' = NoValue /\ visible' = {NoValue} /\ ever' = {} /\ unfinished' = FALSE
    /\ UNCHANGED arg

\* The caller is told of an error: nothing is promised beyond Settle.
Fail ==
    /\ phase \in {"save", "reset"} /\ phase' = "idle" /\ arg' = NoValue
    /\ stored' \in Settle
    /\ UNCHANGED <<visible, ever, unfinished>>

PowerLoss ==
    /\ phase # "off" /\ phase' = "off" /\ arg' = NoValue
    /\ stored' \in Settle
    /\ UNCHANGED <<visible, ever, unfinished>>

Next ==
    \/ PowerUp \/ PowerLoss
    \/ \E v \in Payload : BeginSave(v)
    \/ BeginReset \/ Progress \/ EndSave \/ EndReset \/ Fail

Spec == Init /\ [][Next]_vars
=============================================================================
