----------------------------- MODULE MCTaskEngine -----------------------------
(* The task engine for TLC: the options that matter to some adapter. *)
EXTENDS TaskEngine
Opt(items, rounds, vlen, cap, total) ==
    [items |-> items, rounds |-> rounds, vlen |-> vlen, cap |-> cap, total |-> total]
MCOptions == {Opt(5, 2, 4, 0, 15), Opt(3, 2, 4, 5, 12), Opt(0, 1, 32, 0, 8), Opt(1, 1, 2, 0, 6),
              Opt(6, 3, 32, 0, 20), Opt(4, 2, 4, 30, 9), Opt(2, 3, 300, 1, 8), Opt(4, 1, 32, 20, 11)}
=============================================================================
