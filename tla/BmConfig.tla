------------------------------ MODULE BmConfig ------------------------------
(***************************************************************************)
(* frameworks/baremetal/bm_config.c: one configuration structure kept in   *)
(* two flash partitions A (0) and B (1).  A save erases the partition that *)
(* is not in force, programs the payload and programs the header last.     *)
(*                                                                         *)
(* Each HAL call (erase, write) is a step of its own; it succeeds, fails,  *)
(* or is cut by a power loss, and in the last two cases leaves any of the  *)
(* outcomes a cut erase or program can leave.  RAM (the handle) is lost    *)
(* with the power.  bm_config_init, load and status only read, so each is  *)
(* one step.  The CRC is taken as exact for the payload; as in the code,   *)
(* it does not cover the sequence number.                                  *)
(***************************************************************************)
EXTENDS Integers, FiniteSets

CONSTANTS
    Payload,        \* configurations an application may save
    NoValue,        \* "no valid configuration": FLASH_HAL_ERR_ARGS of load
    Blank, Garbage, \* payload bytes all 0xFF / bytes of a cut operation
    SeqMod,         \* 2^32 in the code: the width of bm_header_t.seq
    MaxSaves,       \* bound on calls of bm_config_save
    MaxDamage,      \* bound on payload or header corruptions at run time
    MaxSeqFlips,    \* bound on corruptions of a stored sequence number
    MaxReadFaults   \* bound on failing HAL reads

ASSUME ConstAssumption ==
    /\ NoValue \notin Payload
    /\ Blank \notin Payload /\ Garbage \notin Payload
    /\ Blank # Garbage
    /\ SeqMod \in Nat /\ SeqMod > 1
    /\ MaxSaves \in Nat
    /\ MaxDamage \in Nat /\ MaxSeqFlips \in Nat /\ MaxReadFaults \in Nat

Parts == {0, 1}
Other(p) == 1 - p

VARIABLES
    part,     \* the two partitions in flash
    ctx,      \* bm_config_t: cur_part (-1, 0, 1) and cur_seq
    pc,       \* "off", "idle", or the HAL call in progress
    target,   \* the partition the save in progress writes
    arg,      \* its payload
    out,      \* what the last bm_config_load gave its caller
    visible,  \* history: what a load of this power cycle may return
    pending,  \* history: saves asked for and not acknowledged since
    unfinished, \* history: a reset began and no save or boot has followed it
    ever,     \* history: every payload handed to save since a full reset
    saves, faults \* counters of the bounds

flash == <<part>>
history == <<visible, pending, unfinished, ever>>
vars == <<part, ctx, pc, target, arg, out, visible, pending, unfinished, ever, saves, faults>>

(***************************************************************************)
(* A partition: its header (magic stands for magic and len) and payload.   *)
(***************************************************************************)
BlankHdr == [magic |-> "blank", seq |-> 0, crc |-> Blank]
GarbageHdr == [magic |-> "garbage", seq |-> 0, crc |-> Blank]
Headers == [magic : {"ok"}, seq : 0 .. SeqMod - 1, crc : Payload]
              \cup {BlankHdr, GarbageHdr}
Cells == [hdr : Headers, data : Payload \cup {Blank, Garbage}]

Erased == [hdr |-> BlankHdr, data |-> Blank]

\* Mutant of Valid: the CRC is not compared.
ValidMagicOnly(c) == c.hdr.magic = "ok"

\* part_read: magic and len match and the payload's CRC is the header's.
Valid(c) == c.hdr.magic = "ok" /\ c.hdr.crc = c.data

(***************************************************************************)
(* NOR programming clears bits only: programming what is not blank leaves  *)
(* the AND of the two, which no CRC accepts.                               *)
(***************************************************************************)
ProgramData(c, v) == [c EXCEPT !.data = IF @ = Blank THEN v ELSE Garbage]
ProgramHdr(c, h) == [c EXCEPT !.hdr = IF @.magic = "blank" THEN h ELSE GarbageHdr]

\* What a HAL call that fails or is cut may leave behind.
CutErase(c) == {[hdr |-> h, data |-> d] : h \in {c.hdr, GarbageHdr, BlankHdr},
                                          d \in {c.data, Garbage, Blank}}
CutData(c, v) == {c, [c EXCEPT !.data = Garbage], ProgramData(c, v)}
CutHdr(c, h) == {c, [c EXCEPT !.hdr = GarbageHdr], ProgramHdr(c, h)}

(***************************************************************************)
(* bm_config_init's choice between the partitions that read as valid.      *)
(***************************************************************************)
Chosen(pt, valid) ==
    IF 0 \in valid /\ (1 \in valid => pt[0].hdr.seq >= pt[1].hdr.seq) THEN 0
    ELSE IF 1 \in valid THEN 1 ELSE -1

ValidIn(pt) == {p \in Parts : Valid(pt[p])}
ValidParts == ValidIn(part)

\* What a power cycle followed by init and load would return from pt.
RecoveredFrom(pt) ==
    LET c == Chosen(pt, ValidIn(pt)) IN IF c = -1 THEN NoValue ELSE pt[c].data
Recovered == RecoveredFrom(part)

NoCtx == [cur_part |-> -1, cur_seq |-> 0]
NoFaults == [damage |-> 0, flips |-> 0, reads |-> 0]

Init ==
    /\ part = [p \in Parts |-> Erased]
    /\ ctx = NoCtx
    /\ pc = "off" /\ target = 0 /\ arg = NoValue /\ out = NoValue
    /\ visible = {NoValue} /\ pending = {} /\ unfinished = FALSE /\ ever = {}
    /\ saves = 0 /\ faults = NoFaults

(***************************************************************************)
(* Reads.  unread is the set of partitions whose HAL read fails.           *)
(***************************************************************************)
ReadFaults(unread) ==
    /\ faults.reads + Cardinality(unread) <= MaxReadFaults
    /\ faults' = [faults EXCEPT !.reads = @ + Cardinality(unread)]

ConfigInit(unread) ==
    /\ pc = "off"
    /\ ReadFaults(unread)
    /\ LET c == Chosen(part, ValidParts \ unread)
           s == IF c = -1 THEN 0 ELSE part[c].hdr.seq
       IN  ctx' = [cur_part |-> c, cur_seq |-> s]
    /\ pc' = "idle"
    /\ visible' = {Recovered} /\ pending' = {} /\ unfinished' = FALSE
    /\ UNCHANGED <<part, target, arg, out, ever, saves>>

\* The part in force, else the other one (and the handle moves to it).
ConfigLoad(unread) ==
    /\ pc = "idle"
    /\ ReadFaults(unread)
    /\ LET c == ctx.cur_part
           readable == ValidParts \ unread
       IN  \/ /\ c = -1
              /\ out' = NoValue /\ UNCHANGED ctx
           \/ /\ c # -1 /\ c \in readable
              /\ out' = part[c].data /\ UNCHANGED ctx
           \/ /\ c # -1 /\ c \notin readable /\ Other(c) \in readable
              /\ out' = part[Other(c)].data
              /\ ctx' = [cur_part |-> Other(c), cur_seq |-> part[Other(c)].hdr.seq]
           \/ /\ c # -1 /\ c \notin readable /\ Other(c) \notin readable
              /\ out' = NoValue
              /\ ctx' = [ctx EXCEPT !.cur_part = -1]
    /\ UNCHANGED <<part, pc, target, arg, history, saves>>

(***************************************************************************)
(* bm_config_save                                                          *)
(***************************************************************************)
\* Mutants: the active partition is overwritten; the toggle lacks its modulus;
\* the sequence number is not advanced.
TargetActive(c) == IF c.cur_part = 1 THEN 1 ELSE 0
TargetNext(c) == c.cur_part + 1
NewSeqSame(c) == c.cur_seq

SaveTarget(c) == IF c.cur_part = 0 THEN 1 ELSE 0
NewSeq(c) == (c.cur_seq + 1) % SeqMod
NewHeader(c, v) == [magic |-> "ok", seq |-> NewSeq(c), crc |-> v]

Save(v) ==
    /\ pc = "idle" /\ saves < MaxSaves
    /\ pc' = "erase" /\ target' = SaveTarget(ctx) /\ arg' = v
    /\ pending' = pending \cup {v} /\ ever' = ever \cup {v}
    /\ saves' = saves + 1
    /\ UNCHANGED <<part, ctx, out, visible, unfinished, faults>>

\* Back to the caller with the return code of the HAL call that ended it.
Return == pc' = "idle" /\ target' = 0 /\ arg' = NoValue

SaveErase ==
    /\ pc = "erase"
    /\ \/ /\ part' = [part EXCEPT ![target] = Erased]
          /\ pc' = "payload" /\ UNCHANGED <<target, arg>>
       \/ /\ \E c \in CutErase(part[target]) : part' = [part EXCEPT ![target] = c]
          /\ Return
    /\ UNCHANGED <<ctx, out, history, saves, faults>>

SavePayload ==
    /\ pc = "payload"
    /\ \/ /\ part' = [part EXCEPT ![target] = ProgramData(@, arg)]
          /\ pc' = "header" /\ UNCHANGED <<target, arg>>
       \/ /\ \E c \in CutData(part[target], arg) : part' = [part EXCEPT ![target] = c]
          /\ Return
    /\ UNCHANGED <<ctx, out, history, saves, faults>>

SaveHeader ==
    /\ pc = "header"
    /\ \/ /\ part' = [part EXCEPT ![target] = ProgramHdr(@, NewHeader(ctx, arg))]
          /\ ctx' = [cur_part |-> target, cur_seq |-> NewSeq(ctx)]
          /\ visible' = {arg} /\ pending' = {} /\ unfinished' = FALSE
       \/ /\ \E c \in CutHdr(part[target], NewHeader(ctx, arg)) :
                part' = [part EXCEPT ![target] = c]
          /\ UNCHANGED <<ctx, visible, pending, unfinished>>
    /\ Return
    /\ UNCHANGED <<out, ever, saves, faults>>

(***************************************************************************)
(* bm_config_reset: two erases, A then B, and only then the handle.  What  *)
(* an unfinished reset leaves is any older configuration, or none.         *)
(***************************************************************************)
Reset ==
    /\ pc = "idle"
    /\ pc' = "resetA"
    /\ visible' = visible \cup ever \cup {NoValue} /\ unfinished' = TRUE
    /\ UNCHANGED <<part, ctx, target, arg, out, pending, ever, saves, faults>>

ResetA ==
    /\ pc = "resetA"
    /\ \/ part' = [part EXCEPT ![0] = Erased] /\ pc' = "resetB"
       \/ /\ \E c \in CutErase(part[0]) : part' = [part EXCEPT ![0] = c]
          /\ pc' = "idle"
    /\ UNCHANGED <<ctx, target, arg, out, history, saves, faults>>

ResetB ==
    /\ pc = "resetB"
    /\ \/ /\ part' = [part EXCEPT ![1] = Erased]
          /\ ctx' = NoCtx
          /\ visible' = {NoValue} /\ pending' = {} /\ ever' = {}
          /\ unfinished' = FALSE
       \/ /\ \E c \in CutErase(part[1]) : part' = [part EXCEPT ![1] = c]
          /\ UNCHANGED <<ctx, history>>
    /\ pc' = "idle"
    /\ UNCHANGED <<target, arg, out, saves, faults>>

(***************************************************************************)
(* Power loss, at any moment and in the middle of any HAL call, and the    *)
(* faults of the medium.                                                   *)
(***************************************************************************)
CutParts ==
    CASE pc = "erase" -> {[part EXCEPT ![target] = c] : c \in CutErase(part[target])}
      [] pc = "payload" -> {[part EXCEPT ![target] = c] : c \in CutData(part[target], arg)}
      [] pc = "header" -> {[part EXCEPT ![target] = c] :
                             c \in CutHdr(part[target], NewHeader(ctx, arg))}
      [] pc = "resetA" -> {[part EXCEPT ![0] = c] : c \in CutErase(part[0])}
      [] pc = "resetB" -> {[part EXCEPT ![1] = c] : c \in CutErase(part[1])}
      [] OTHER -> {part}

PowerLoss ==
    /\ pc # "off"
    /\ part' \in CutParts
    /\ ctx' = NoCtx /\ out' = NoValue
    /\ pc' = "off" /\ target' = 0 /\ arg' = NoValue
    /\ UNCHANGED <<history, saves, faults>>

\* A block goes bad at run time: the payload, or the header, no longer checks.
Damage(p) ==
    /\ faults.damage < MaxDamage
    /\ part' = [part EXCEPT ![p].data = Garbage]
    /\ faults' = [faults EXCEPT !.damage = @ + 1]
    /\ UNCHANGED <<ctx, pc, target, arg, out, history, saves>>

\* A bit of the stored sequence number flips: no CRC covers it.
SeqFlip(p, s) ==
    /\ faults.flips < MaxSeqFlips
    /\ part[p].hdr.magic = "ok"
    /\ part' = [part EXCEPT ![p].hdr.seq = s]
    /\ faults' = [faults EXCEPT !.flips = @ + 1]
    /\ UNCHANGED <<ctx, pc, target, arg, out, history, saves>>

SomeInit == \E unread \in SUBSET Parts : ConfigInit(unread)
SomeLoad == \E unread \in SUBSET Parts : ConfigLoad(unread)
SomeSave == \E v \in Payload : Save(v)

Next ==
    \/ SomeInit
    \/ SomeLoad
    \/ SomeSave
    \/ SaveErase \/ SavePayload \/ SaveHeader
    \/ Reset \/ ResetA \/ ResetB
    \/ PowerLoss
    \/ \E p \in Parts : Damage(p)
    \/ \E p \in Parts, s \in 0 .. SeqMod - 1 : SeqFlip(p, s)

Spec == Init /\ [][Next]_vars

-----------------------------------------------------------------------------
(* Every variable ranges over the values the code's types and steps allow. *)
TypeOK ==
    /\ part \in [Parts -> Cells]
    /\ ctx \in [cur_part : {-1, 0, 1}, cur_seq : 0 .. SeqMod - 1]
    /\ pc \in {"off", "idle", "erase", "payload", "header", "resetA", "resetB"}
    /\ target \in Parts /\ arg \in Payload \cup {NoValue}
    /\ out \in Payload \cup {NoValue}
    /\ visible \subseteq Payload \cup {NoValue}
    /\ unfinished \in BOOLEAN
    /\ pending \subseteq Payload /\ ever \subseteq Payload
    /\ saves \in 0 .. MaxSaves
    /\ faults \in [damage : 0 .. MaxDamage, flips : 0 .. MaxSeqFlips,
                   reads : 0 .. MaxReadFaults]

(***************************************************************************)
(* Power loss at any instant, inside any HAL call of save or reset, costs  *)
(* at most the save that was not acknowledged: init and load would find    *)
(* the configuration a load returns now, or one asked for since.           *)
(* (bm_config.h: the A/B rotation and the header written last.)            *)
(***************************************************************************)
Durable == Recovered \in visible \cup pending

(***************************************************************************)
(* bm_config_load gives the last acknowledged configuration (the recovered *)
(* one after a boot), never a payload that was only being saved, and       *)
(* "none" only where none was ever stored or a reset had begun.  After an  *)
(* unfinished reset the handle may point at an erased partition, and the   *)
(* fallback may find a later save that was reported as failed.             *)
(***************************************************************************)
LoadLatest ==
    [][SomeLoad => out' \in visible \cup (IF unfinished THEN pending ELSE {})]_vars

(***************************************************************************)
(* The partition bm_config_status reports as active is valid and carries   *)
(* the handle's sequence number, unless a reset was left unfinished; the   *)
(* other one can outrank it only with a save that landed and was reported  *)
(* as failed.                                                              *)
(***************************************************************************)
HandleAgrees ==
    pc = "idle" /\ ctx.cur_part # -1 =>
        LET c == part[ctx.cur_part]
            o == part[Other(ctx.cur_part)]
        IN  /\ \/ Valid(c) /\ c.hdr.seq = ctx.cur_seq
               \/ unfinished
            /\ Valid(o) /\ o.hdr.seq >= ctx.cur_seq => o.data \in pending

(***************************************************************************)
(* Whatever the medium does to payloads, headers, sequence numbers and     *)
(* reads, load hands out only what some save since the last full reset was *)
(* given whole: a half-programmed payload, or the header of one save over  *)
(* the payload of another, is never accepted (part_read's CRC).            *)
(***************************************************************************)
LoadWhole == [][SomeLoad => out' \in ever \cup {NoValue}]_vars

(***************************************************************************)
(* bm_config.h: with either partition damaged the configuration is still   *)
(* recovered from the other, "never losing the configuration".  So a save  *)
(* may not choose to erase the only partition that is still valid, once a   *)
(* configuration has been acknowledged.                                    *)
(***************************************************************************)
SaveSparesBackup ==
    [][SomeSave /\ NoValue \notin visible /\ ValidParts # {}
            => ValidParts \ {target'} # {}]_vars

(***************************************************************************)
(* The inductive invariant behind Durable: the handle (or, with the power  *)
(* off, the handle that was lost) points at the newest acknowledged copy,  *)
(* and the other partition is older, invalid, or one save ahead of it and  *)
(* pending.  n bounds every sequence number, so none has wrapped.          *)
(***************************************************************************)
Consistent(pt, c, s, vis, pend, unf, ev, n) ==
    /\ c \in {-1, 0, 1} /\ s \in 0 .. n
    /\ pt \in [Parts -> Cells]
    /\ pend \subseteq ev /\ ev \subseteq Payload
    /\ \A p \in Parts : Valid(pt[p]) => pt[p].data \in ev /\ pt[p].hdr.seq <= n
    /\ unf => ev \subseteq vis \cup pend /\ NoValue \in vis
    /\ c = -1 => /\ NoValue \in vis /\ ~Valid(pt[1])
                 /\ Valid(pt[0]) => pt[0].data \in pend
    /\ c # -1 =>
         /\ Valid(pt[c]) => /\ pt[c].hdr.seq = s
                            /\ pt[c].data \in vis \/ (unf /\ pt[c].data \in pend)
         /\ Valid(pt[c]) \/ unf
         /\ Valid(pt[Other(c)]) =>
                \/ pt[Other(c)].hdr.seq < s
                \/ pt[Other(c)].hdr.seq = s + 1 /\ pt[Other(c)].data \in pend

\* The medium keeps what it was given, and no sequence number can wrap.
SoundMedium ==
    /\ MaxDamage = 0 /\ MaxSeqFlips = 0 /\ MaxReadFaults = 0
    /\ MaxSaves < SeqMod

InSave == pc \in {"erase", "payload", "header"}
Steps ==
    /\ InSave => /\ target = SaveTarget(ctx) /\ arg \in pending
                 /\ ctx.cur_seq + 1 <= saves
    /\ pc = "payload" => part[target] = Erased
    /\ pc = "header" => part[target] = [hdr |-> BlankHdr, data |-> arg]
    /\ pc \in {"resetA", "resetB"} => unfinished
    /\ pc = "resetB" => part[0] = Erased

IInv ==
    /\ TypeOK
    /\ IF pc = "off"
       THEN \E c \in {-1, 0, 1}, s \in 0 .. saves :
               Consistent(part, c, s, visible, pending, unfinished, ever, saves)
       ELSE Consistent(part, ctx.cur_part, ctx.cur_seq,
                       visible, pending, unfinished, ever, saves)
    /\ Steps

(***************************************************************************)
(* The abstract store (ConfigStore) this component implements when the     *)
(* medium keeps what it was given and the sequence number does not wrap.   *)
(***************************************************************************)
AbsPhase == CASE pc = "off" -> "off" [] pc = "idle" -> "idle"
              [] pc \in {"resetA", "resetB"} -> "reset" [] OTHER -> "save"
Abs == INSTANCE ConfigStore WITH stored <- Recovered, phase <- AbsPhase
AbsSpec == Abs!Spec
=============================================================================
