----------------------------- MODULE SettingSrv ------------------------------
(***************************************************************************)
(* frameworks/tym_setting: settings kept in RAM, each with a fixed place   *)
(* in one flash page.  A set changes RAM and (re)starts a delay; when the  *)
(* polled tick finds the delay over, the page is erased and every item     *)
(* written back.  The application's adapter saves at once instead.         *)
(*                                                                         *)
(* Items 1 .. NItems are those of settingRomMap, in its order; Extra are   *)
(* valid settings without a place in flash.  Each HAL call of a save is a  *)
(* step; nothing bounds the number of calls.                               *)
(***************************************************************************)
EXTENDS Integers

CONSTANTS
    NItems,     \* entries of settingRomMap
    Extra,      \* ids that are valid and not stored
    Given,      \* values an application may set
    Zero, Blank, Torn,  \* RAM never loaded; erased flash; a write that was cut
    Default,    \* what a caller of Setting_GetEx passes
    SaveDelay,  \* SETTING_SAVE_MS, in units of the shortest tick
    Elapsed,    \* elapsed_ms of a tick, in the same units
    Base, Capacity, Page,   \* s_base_addr, s_capacity, SETT_PAGE_ROM_ADDR
    Faults      \* subset of {"loss", "fail", "readfail"}

Items == 1 .. NItems
Ids == Items \cup Extra
Values == Given \cup {Zero, Blank, Torn}

ASSUME ConstAssumption ==
    /\ NItems \in Nat \ {0} /\ Extra \cap Items = {}
    /\ Given \cap {Zero, Blank, Torn} = {}
    /\ Zero # Blank /\ Torn \notin {Zero, Blank}
    /\ SaveDelay \in Nat \ {0} /\ Elapsed \subseteq Nat \ {0}
    /\ Base \in Nat /\ Capacity \in Nat /\ Page \in Nat \ {0}  \* address 0: not stored
    /\ Faults \subseteq {"loss", "fail", "readfail"}

VARIABLES
    flash,      \* the page: item -> what a read of its place returns
    ram,        \* setting: the RAM image
    isSet,      \* SETTING_ATTR_SET
    saveFlag,   \* SettingSave.save_flag
    timeout,    \* SettingSave.save_timeout
    pc,         \* "off" (pStorageDrv is NULL), "idle", or a save's call: "erase", "write"
    next,       \* the item SettingSrv_Bookkeeping writes next
    asked,      \* the id whose adapter call is under way, 0 if none
    missed,     \* history: items a HAL error kept from being saved or loaded since set
    acked       \* history: item -> the value the adapter acknowledged last and those set
                \* since; {} if there is none, or it is gone for a reason AckedOnFlash names

vars == <<flash, ram, isSet, saveFlag, timeout, pc, next, asked, missed, acked>>

Init ==
    /\ flash \in [Items -> {Blank}] /\ ram = [i \in Ids |-> Zero]
    /\ isSet = {} /\ saveFlag = FALSE /\ timeout = 0
    /\ pc = "off" /\ next = 1 /\ asked = 0
    /\ missed = {} /\ acked = [i \in Items |-> {}]

\* What the adapter acknowledged for the items in gone is lost.
Forget(gone) == acked' = [i \in Items |-> IF i \in gone THEN {} ELSE acked[i]]

\* SettingSrv_Init: every item that can be read replaces the RAM image and
\* counts as set; one that cannot leaves RAM as it is, and the next save of
\* any item writes that over the value in flash.
SettingInit(unread) ==
    /\ unread # {} => "readfail" \in Faults
    /\ ram' = [i \in Ids |-> IF i \in Items \ unread THEN flash'[i] ELSE ram[i]]
    /\ isSet' = isSet \cup (Items \ unread)
    /\ missed' = unread
    /\ saveFlag' = FALSE /\ timeout' = 0 /\ pc' = "idle"
    /\ UNCHANGED <<next, asked>>

\* A start that keeps the medium: after a loss of power, or without one.
Reopen(unread) ==
    /\ pc \in {"off", "idle"} /\ flash' = flash
    /\ SettingInit(unread) /\ Forget(missed \cup unread)

\* tym_setting_sim_erase_all, or tym_ad_init_impl unless APP_REINIT: the
\* medium is erased before the start, and the result not looked at.
Format(unread) ==
    /\ pc \in {"off", "idle"}
    /\ flash' \in {[i \in Items |-> Blank]} \cup (IF "fail" \in Faults THEN {flash} ELSE {})
    /\ SettingInit(unread) /\ Forget(Items)

SetRam(id, v) ==
    /\ ram' = [ram EXCEPT ![id] = v]
    /\ isSet' = isSet \cup {id} /\ missed' = missed \ {id}
    /\ IF id \in Items /\ pc # "off" THEN saveFlag' = TRUE /\ timeout' = SaveDelay
       ELSE UNCHANGED <<saveFlag, timeout>>

\* From here on v may be found for item id, if flash held what was acknowledged.
MayHold(id, v) ==
    acked' = [i \in Items |-> IF i # id THEN acked[i]
                               ELSE IF i \in missed \/ acked[i] = {} THEN {}
                               ELSE acked[i] \cup {v}]

\* Setting_Set; without a driver the delay is not started.
SettingSet(id, v) ==
    /\ pc \in {"off", "idle"} /\ SetRam(id, v)
    /\ MayHold(id, v)
    /\ UNCHANGED <<flash, pc, next, asked>>

\* Setting_Reset clears a mark in RAM, no more.
SettingReset(id) ==
    /\ pc = "idle" /\ isSet' = isSet \ {id}
    /\ UNCHANGED <<flash, ram, saveFlag, timeout, pc, next, asked, missed, acked>>

\* SettingSrv_InitDB: no setting counts as set.
SettingInitDB ==
    /\ pc = "idle" /\ isSet' = {}
    /\ UNCHANGED <<flash, ram, saveFlag, timeout, pc, next, asked, missed, acked>>

\* Setting_GetEx.
SettingGet(id) == IF id \in isSet THEN ram[id] ELSE Default

\* Mutant: a tick that finds the delay over waits on.
TickByLate(e) ==
    /\ pc = "idle" /\ saveFlag
    /\ timeout' = IF timeout > e THEN timeout - e ELSE timeout
    /\ pc' = "idle"
    /\ UNCHANGED <<flash, ram, isSet, saveFlag, next, asked, missed, acked>>
\* SettingSrv_Tick: the flag is cleared before the save begins.
TickBy(e) ==
    /\ pc = "idle" /\ saveFlag
    /\ IF timeout > e
       THEN timeout' = timeout - e /\ UNCHANGED <<saveFlag, pc>>
       ELSE timeout' = 0 /\ saveFlag' = FALSE /\ pc' = "erase"
    /\ UNCHANGED <<flash, ram, isSet, next, asked, missed, acked>>
Tick == \E e \in Elapsed : TickBy(e)

\* SettingSrv_BookkeepingEx.
SaveNow ==
    /\ pc = "idle" /\ pc' = "erase"
    /\ UNCHANGED <<flash, ram, isSet, saveFlag, timeout, next, asked, missed, acked>>

\* Mutant: the adapter leaves saving to the delay.
AdapterSetDelayed(id, v) ==
    /\ pc = "idle" /\ id \in Items
    /\ SetRam(id, v)
    /\ acked' = [acked EXCEPT ![id] = {v}]
    /\ UNCHANGED <<flash, pc, next, asked>>
\* tym_ad_set_impl: set, then save whatever the delay says.
AdapterSet(id, v) ==
    /\ pc = "idle" /\ id \in Items
    /\ SetRam(id, v)
    /\ pc' = "erase" /\ asked' = id
    /\ MayHold(id, v)
    /\ UNCHANGED <<flash, next>>

\* tym_ad_del_impl: what is deleted is the mark in RAM; the value is saved.
AdapterDel(id) ==
    /\ pc = "idle" /\ id \in Items
    /\ isSet' = isSet \ {id} /\ pc' = "erase"
    /\ UNCHANGED <<flash, ram, saveFlag, timeout, next, asked, missed, acked>>

\* The save is over; the adapter's call returns 0, errors or not.
Return ==
    /\ pc' = "idle" /\ asked' = 0
    /\ acked' = [i \in Items |-> IF i = asked THEN {ram[i]} ELSE acked[i]]

\* NvmDrv_ErasePage: the address it compares is relative to the partition,
\* the bounds are not.
InPartition == Base <= Page /\ Page < Base + Capacity

SaveErase ==
    /\ pc = "erase" /\ InPartition
    /\ flash' = [i \in Items |-> Blank]
    /\ pc' = "write" /\ next' = 1
    /\ UNCHANGED <<ram, isSet, saveFlag, timeout, asked, missed, acked>>

\* The erase is refused, or fails before or after the block of the items.
SaveEraseFails ==
    /\ pc = "erase" /\ (InPartition => "fail" \in Faults)
    /\ flash' \in IF InPartition THEN {flash, [i \in Items |-> Blank]} ELSE {flash}
    /\ missed' = missed \cup Items
    /\ Return
    /\ UNCHANGED <<ram, isSet, saveFlag, timeout, next>>

\* Mutant: one item too many.
AfterWriteOneMore ==
    IF next > NItems THEN next' = 1 /\ Return
    ELSE next' = next + 1 /\ UNCHANGED <<pc, asked, acked>>
AfterWrite ==
    IF next = NItems THEN next' = 1 /\ Return
    ELSE next' = next + 1 /\ UNCHANGED <<pc, asked, acked>>

\* Mutant of SaveWrite: the item at address 0 of the page is passed over.
SaveWriteSkipsFirst ==
    /\ pc = "write"
    /\ flash' = IF next = 1 THEN flash ELSE [flash EXCEPT ![next] = ram[next]]
    /\ missed' = missed \ {next}
    /\ AfterWrite
    /\ UNCHANGED <<ram, isSet, saveFlag, timeout>>
SaveWrite ==
    /\ pc = "write"
    /\ flash' = [flash EXCEPT ![next] = ram[next]]
    /\ missed' = missed \ {next}
    /\ AfterWrite
    /\ UNCHANGED <<ram, isSet, saveFlag, timeout>>

\* A write that fails is logged; the loop goes on.
CutItem == {flash, [flash EXCEPT ![next] = Torn], [flash EXCEPT ![next] = ram[next]]}
SaveWriteFails ==
    /\ pc = "write" /\ "fail" \in Faults
    /\ flash' \in CutItem
    /\ missed' = missed \cup {next}
    /\ AfterWrite
    /\ UNCHANGED <<ram, isSet, saveFlag, timeout>>

\* A save erases the page before it writes: a loss takes with it the items
\* that are erased and not written back yet, and those RAM alone held.
PowerLoss ==
    /\ "loss" \in Faults
    /\ \/ /\ pc = "erase" /\ flash' = [i \in Items |-> Blank]
          /\ Forget(Items)
       \/ /\ pc = "write" /\ flash' \in CutItem
          /\ Forget(missed \cup {i \in Items : next <= i})
       \/ /\ pc # "write" /\ flash' = flash
          /\ Forget(missed)
    /\ ram' = [i \in Ids |-> Zero] /\ isSet' = {}
    /\ saveFlag' = FALSE /\ timeout' = 0
    /\ pc' = "off" /\ next' = 1 /\ asked' = 0 /\ missed' = {}

SomeSet ==
    \/ \E id \in Ids, v \in Given : SettingSet(id, v)
    \/ \E id \in Items, v \in Given : AdapterSet(id, v)

Caller ==
    \/ \E unread \in SUBSET Items : Reopen(unread) \/ Format(unread)
    \/ SomeSet
    \/ \E id \in Ids : SettingReset(id)
    \/ SettingInitDB
    \/ SaveNow
    \/ \E id \in Items : AdapterDel(id)
Saving == SaveErase \/ SaveEraseFails \/ SaveWrite \/ SaveWriteFails

Next == Caller \/ Tick \/ Saving \/ PowerLoss

\* The main loop keeps polling the tick, and a save runs to its end.
Fairness == WF_vars(Tick) /\ WF_vars(Saving)
Spec == Init /\ [][Next]_vars /\ Fairness

-----------------------------------------------------------------------------
(* RAM and flash hold values, the delay is running only with the flag up. *)
TypeOK ==
    /\ flash \in [Items -> Values] /\ ram \in [Ids -> Values]
    /\ isSet \subseteq Ids
    /\ saveFlag \in BOOLEAN /\ timeout \in 0 .. SaveDelay
    /\ pc \in {"off", "idle", "erase", "write"}
    /\ next \in Items /\ asked \in Items \cup {0}
    /\ missed \subseteq Items /\ acked \in [Items -> SUBSET Values]
    /\ timeout > 0 <=> saveFlag
    /\ pc = "off" => ~saveFlag

(***************************************************************************)
(* RAM and flash agree once no save is due: whatever order of sets, ticks, *)
(* immediate saves, resets and restarts came before, the next restart      *)
(* finds every setting as RAM has it, but for those a HAL error kept from  *)
(* being saved or loaded (for which nothing is due any more).              *)
(***************************************************************************)
AgreesBut(i) == i \notin missed => flash[i] = ram[i]
QuietAgrees == pc = "idle" /\ ~saveFlag => \A i \in Items : AgreesBut(i)

(***************************************************************************)
(* tym_setting_ad.c saves after every set so that it is on flash.  Each of *)
(* these saves erases the page of all settings, so an acknowledged setting *)
(* can still be lost, however long ago it was set; this says when, and     *)
(* that nothing else loses or alters one.  Outside a save, with the power  *)
(* off too, flash holds what the adapter acknowledged or what was set      *)
(* since, and a get returns that or, after a reset, the default, unless    *)
(*   - a loss of power found the item erased and not yet written back, or  *)
(*   - a HAL error kept it from being saved (flash lacks it until a save   *)
(*     succeeds; a loss or a restart before that takes it), or from being  *)
(*     loaded at a start.                                                  *)
(***************************************************************************)
AckedOnFlash ==
    \A i \in Items : acked[i] # {} =>
        /\ pc \in {"off", "idle"} /\ i \notin missed => flash[i] \in acked[i]
        /\ pc = "idle" => SettingGet(i) \in acked[i] \cup {Default}

(***************************************************************************)
(* A pending save happens: once sets no longer keep restarting the delay,  *)
(* every setting reaches flash, unless the power is lost or a HAL error    *)
(* strikes it.                                                             *)
(***************************************************************************)
Settled == pc = "off" \/ \A i \in Items : AgreesBut(i)
EventuallySaved == (saveFlag ~> Settled) \/ []<><<SomeSet>>_vars
=============================================================================
