------------------------------ MODULE Adapters ------------------------------
(***************************************************************************)
(* The component adapters of src/app/adapter: every store of the           *)
(* repository behind one app_component_t (init, deinit, set, get, delete). *)
(* The stores themselves are external here.  An adapter is a record of the *)
(* choices its file makes:                                                 *)
(*   kind    category: "kv", "fs" or "baremetal"                           *)
(*   fresh   without APP_REINIT, init erases the store's region after      *)
(*           opening the device ("erase"), removes the image file before   *)
(*           ("remove"), or neither; both ignore the result                *)
(*   mkfs    init formats: "no", "always" or, when mounting fails,         *)
(*           "fallback"; never under APP_REINIT                            *)
(*   frees   a failed mount closes the device                              *)
(*   layout  where a value goes: "put" in a slot of its own, "one" in the  *)
(*           only slot, "ram" in one of four settings mirrored in RAM,     *)
(*           "log" appended, "table" at an index, appended if beyond       *)
(*   strict  deleting what is not there is an error                        *)
(*   flush   "checked", or "ignored": 0 is returned whatever the last      *)
(*           write (f_close, the setting service's save) did               *)
(***************************************************************************)
EXTENDS Integers, FiniteSets

CONSTANTS
    NSlots,      \* items told apart; the structs of a fastflash table
    EraseSize,   \* erase block, the unit of sizes being arbitrary
    KvDefault, AreaDefault, \* regions taken when the option gives none
    Fixed,       \* medium of the adapters that fix their own
    PerSector,   \* FCB entries in a sector
    ItemSize,    \* bytes of a setting
    PayloadMax,  \* BM_AD_PAYLOAD_MAX
    Missing, Hollow, Junk \* no item; an empty file; readable, but nobody's value

Slots == 0 .. NSlots - 1
Settings == 4

ASSUME AdaptersAssumption ==
    /\ NSlots \in Nat /\ NSlots >= Settings
    /\ EraseSize \in Nat \ {0} /\ KvDefault \in Nat \ {0} /\ AreaDefault \in Nat \ {0}
    /\ Fixed \in Nat \ {0} /\ Fixed % EraseSize = 0
    /\ PerSector \in Nat \ {0} /\ ItemSize \in Nat /\ PayloadMax \in Nat
    /\ Cardinality({Missing, Hollow, Junk}) = 3

-----------------------------------------------------------------------------
(* The adapters. *)

KvStore == [kind |-> "kv", fresh |-> "erase", mkfs |-> "no", frees |-> FALSE,
            layout |-> "put", strict |-> FALSE, flush |-> "checked"]
Baremetal == [kind |-> "baremetal", fresh |-> "erase", mkfs |-> "no", frees |-> FALSE,
              layout |-> "one", strict |-> FALSE, flush |-> "checked"]
EasyFlash == [kind |-> "kv", fresh |-> "erase", mkfs |-> "no", frees |-> TRUE,
              layout |-> "put", strict |-> TRUE, flush |-> "checked"]
FlashDb == [kind |-> "kv", fresh |-> "erase", mkfs |-> "no", frees |-> TRUE,
            layout |-> "put", strict |-> TRUE, flush |-> "checked"]
Nvdm == [kind |-> "kv", fresh |-> "erase", mkfs |-> "no", frees |-> TRUE,
         layout |-> "put", strict |-> TRUE, flush |-> "checked"]
Nvs == [kind |-> "kv", fresh |-> "erase", mkfs |-> "no", frees |-> TRUE,
        layout |-> "put", strict |-> FALSE, flush |-> "checked"]
Zms == [kind |-> "kv", fresh |-> "erase", mkfs |-> "no", frees |-> TRUE,
        layout |-> "put", strict |-> FALSE, flush |-> "checked"]
Fcb == [kind |-> "kv", fresh |-> "erase", mkfs |-> "no", frees |-> TRUE,
        layout |-> "log", strict |-> FALSE, flush |-> "checked"]
FastFlash == [kind |-> "kv", fresh |-> "remove", mkfs |-> "no", frees |-> TRUE,
              layout |-> "table", strict |-> FALSE, flush |-> "checked"]
TymSetting == [kind |-> "kv", fresh |-> "erase", mkfs |-> "no", frees |-> TRUE,
               layout |-> "ram", strict |-> FALSE, flush |-> "ignored"]
FsStore == [kind |-> "fs", fresh |-> "no", mkfs |-> "always", frees |-> FALSE,
            layout |-> "put", strict |-> TRUE, flush |-> "checked"]
FatFs == [kind |-> "fs", fresh |-> "remove", mkfs |-> "always", frees |-> TRUE,
          layout |-> "put", strict |-> TRUE, flush |-> "ignored"]
LittleFs == [kind |-> "fs", fresh |-> "remove", mkfs |-> "fallback", frees |-> TRUE,
             layout |-> "put", strict |-> TRUE, flush |-> "ignored"]
Spiffs == [kind |-> "fs", fresh |-> "remove", mkfs |-> "fallback", frees |-> TRUE,
           layout |-> "put", strict |-> TRUE, flush |-> "ignored"]
Yaffs == [kind |-> "fs", fresh |-> "remove", mkfs |-> "no", frees |-> TRUE,
          layout |-> "put", strict |-> TRUE, flush |-> "ignored"]

\* By the id each registers under.
Registered == [kv |-> KvStore, baremetal |-> Baremetal, easyflash |-> EasyFlash,
               flashdb |-> FlashDb, nvdm |-> Nvdm, nvs |-> Nvs, zms |-> Zms, fcb |-> Fcb,
               fastflash |-> FastFlash, tym_setting |-> TymSetting, fs |-> FsStore,
               fatfs |-> FatFs, littlefs |-> LittleFs, spiffs |-> Spiffs, yaffs |-> Yaffs]
Ids == DOMAIN Registered

-----------------------------------------------------------------------------
(* The region each adapter gives its store; o.cap is the option (0: none),  *)
(* o.total the medium.                                                      *)

RoundDown(n) == n - (n % EraseSize)
AtLeast(n, least) == IF n < least THEN least ELSE n
AtMost(n, most) == IF n > most THEN most ELSE n
CapOr(o, default) == IF o.cap = 0 THEN AtMost(default, o.total) ELSE o.cap
Clamp(n, o) == IF n > o.total THEN RoundDown(o.total) ELSE n

KvRegion(o) == AtLeast(RoundDown(CapOr(o, KvDefault)), EraseSize)
TwoBlocks(o) ==
    Clamp(AtLeast(RoundDown(CapOr(o, AreaDefault)), 2 * EraseSize), o)
FcbRegion(o) == AtMost(TwoBlocks(o), 16 * EraseSize)
\* Two partitions of two blocks: the payload always fits.
BmRegion == 4 * EraseSize
FsRegion(o) ==
    LET asked == RoundDown(CapOr(o, o.total))
        roomy == IF asked < EraseSize * (o.items + 1) THEN RoundDown(o.total) ELSE asked
    IN Clamp(AtLeast(roomy, 2 * EraseSize), o)

Medium(c, o) == IF c \in {"fatfs", "littlefs", "spiffs", "yaffs"} THEN Fixed ELSE o.total
Region(c, o) ==
    CASE c = "kv" -> KvRegion(o)
      [] c = "baremetal" -> BmRegion
      [] c = "fs" -> FsRegion(o)
      [] c = "fcb" -> FcbRegion(o)
      [] c \in {"fatfs", "littlefs", "spiffs", "yaffs", "fastflash"} -> Medium(c, o)
      [] OTHER -> TwoBlocks(o)

-----------------------------------------------------------------------------
(* What a store holds: "at" is what a read finds, "disk" what it will find  *)
(* after the store is opened again, "used" the entries of a log or table.   *)

Bare(c) ==
    LET nothing == [p \in Slots |-> IF Registered[c].layout = "ram" THEN Junk ELSE Missing]
    IN [at |-> nothing, disk |-> nothing, used |-> 0]
Reopened(s) == [s EXCEPT !.at = s.disk]

Slot(c, i) ==
    CASE Registered[c].layout = "one" -> 0
      [] Registered[c].layout = "ram" -> i % Settings
      [] OTHER -> i
\* flt_index_written.
Written(c, s, i) == Registered[c].layout = "table" => i < s.used

\* flt_set_impl appends what is beyond the table, wherever that lands.
Place(c, s, i) == IF Written(c, s, i) THEN Slot(c, i) ELSE s.used
Put(c, s, i, x) ==
    [at   |-> [s.at EXCEPT ![Place(c, s, i)] = x],
     disk |-> [s.disk EXCEPT ![Place(c, s, i)] = x],
     used |-> IF Registered[c].layout = "log" \/ ~Written(c, s, i) THEN s.used + 1 ELSE s.used]

Files(s, i) == {p \in Slots \ {i} : s.at[p] \notin {Missing, Hollow}}
\* FCB keeps a scratch sector, the file store its allocation table's block.
Room(c, s, i, o) ==
    CASE c = "fcb" -> s.used < (FcbRegion(o) \div EraseSize - 1) * PerSector
      [] c = "fastflash" -> Written(c, s, i) \/ s.used < NSlots
      [] c = "fs" -> Cardinality(Files(s, i)) < FsRegion(o) \div EraseSize - 1
      [] OTHER -> TRUE
Accepts(c, o) == c = "baremetal" => o.vlen <= PayloadMax

-----------------------------------------------------------------------------
(* Calls: the outcomes of each, with the faults each costs. *)

Outcome(rc, s, cost) == [rc |-> rc, store |-> s, cost |-> cost]

\* A write that fails may have taken effect, or half of it.
Torn(c, s, i, v) ==
    CASE Registered[c].layout = "ram" -> {}
      [] Registered[c].layout = "log" -> {s, [s EXCEPT !.used = @ + 1]}
      [] Registered[c].kind = "fs" ->
            {s, Put(c, s, i, v),
             Put(c, s, i, IF s.at[i] \in {Missing, Hollow} THEN Hollow ELSE Junk)}
      [] OTHER -> {s, Put(c, s, i, v)}
\* A last write that fails unnoticed: the setting stays in RAM, its page as it was
\* or erased; the file stays as it was or empty.
Unflushed(c, s, i, v) ==
    CASE Registered[c].flush = "checked" -> {}
      [] c = "tym_setting" ->
            {[Put(c, s, i, v) EXCEPT !.disk = s.disk],
             [Put(c, s, i, v) EXCEPT !.disk = Bare(c).disk]}
      [] OTHER -> {s, Put(c, s, i, Hollow)}
\* flt_index_written cannot read the table's head: the item is not there, and appended.
Misread(c, s, i, v) ==
    IF c = "fastflash" /\ Written(c, s, i) /\ s.used < NSlots
    THEN {[at |-> [s.at EXCEPT ![s.used] = v], disk |-> [s.disk EXCEPT ![s.used] = v],
           used |-> s.used + 1]}
    ELSE {}
\* flt_set_impl collects garbage and tries a failed rewrite again.
Cost(c, s, i) == IF c = "fastflash" /\ Written(c, s, i) THEN 2 ELSE 1
SetNow(c, s, i, v) ==
    {Outcome(0, Put(c, s, i, v), 0)}
    \cup {Outcome(-1, t, Cost(c, s, i)) : t \in Torn(c, s, i, v)}
    \cup {Outcome(0, t, 1) : t \in Unflushed(c, s, i, v) \cup Misread(c, s, i, v)}

\* kv_set, fs_write, bm_save.  fs_write has created the file when it runs out of blocks.
Sets(c, s, i, v, o) ==
    IF Accepts(c, o) /\ Room(c, s, i, o) THEN SetNow(c, s, i, v)
    ELSE {Outcome(-1, IF c = "fs" /\ s.at[i] = Missing THEN Put(c, s, i, Hollow) ELSE s, 0)}

\* kv_get, fs_read, bm_load; tym_ad_get_impl answers with the setting's own size.
Length(c, o) == IF c = "tym_setting" THEN ItemSize ELSE o.vlen
Found(c, s, i, o) ==
    /\ Written(c, s, i)
    /\ s.at[Slot(c, i)] # Missing
    /\ Length(c, o) <= o.vlen /\ Accepts(c, o)
Gets(c, s, i, o) ==
    {IF Found(c, s, i, o) THEN [rc |-> 0, val |-> s.at[Slot(c, i)], cost |-> 0]
     ELSE [rc |-> -1, val |-> Missing, cost |-> 0]}
    \cup (IF c = "tym_setting" THEN {} ELSE {[rc |-> -1, val |-> Missing, cost |-> 1]})

\* kv_del, fs_delete: an item is dropped, overwritten with 0xFF or reset.
Blank(c) == IF Registered[c].layout \in {"table", "ram"} THEN Junk ELSE Missing
Undeleted(c, s, i) ==
    CASE c = "tym_setting" -> Unflushed(c, s, i, Blank(c))
      [] c = "fastflash" -> {s}
      [] OTHER -> {}
Deletes(c, s, i, o) ==
    IF Registered[c].strict /\ s.at[Slot(c, i)] = Missing THEN {Outcome(-1, s, 0)}
    ELSE IF ~Written(c, s, i) THEN {Outcome(0, s, 0)}
    ELSE IF ~Room(c, s, i, o) THEN {Outcome(-1, s, 0)}
    ELSE {Outcome(0, Put(c, s, i, Blank(c)), 0)}
         \cup {Outcome(-1, t, 1) : t \in Torn(c, s, i, Blank(c))}
         \cup {Outcome(0, t, 1) : t \in Undeleted(c, s, i)}

-----------------------------------------------------------------------------
(* Init, with at most one of these going wrong; "mount" is any failure of   *)
(* the store's own init.                                                    *)

Mishaps == {"none", "open", "fresh", "format", "mount", "remount"}

\* Mutant: littlefs and spiffs format under APP_REINIT as well.
FormatsAnyway(c, reinit, mishap) ==
    \/ Registered[c].mkfs = "always" /\ ~reinit
    \/ Registered[c].mkfs = "fallback" /\ mishap = (IF reinit THEN "mount" ELSE mishap)
\* A medium init has just emptied does not mount either.
Formats(c, reinit, mishap) ==
    /\ ~reinit
    /\ \/ Registered[c].mkfs = "always"
       \/ Registered[c].mkfs = "fallback" /\ mishap # "fresh"

CanHappen(c, reinit, mishap) ==
    CASE mishap = "fresh" -> ~reinit /\ Registered[c].fresh # "no"
      [] mishap = "format" -> Formats(c, reinit, mishap)
      [] mishap = "remount" -> Registered[c].mkfs = "fallback" /\ ~reinit
      [] mishap = "mount" -> c # "tym_setting"
      [] OTHER -> TRUE

\* bm_init_impl refuses a medium without room for both partitions.
Opens(c, o, mishap) ==
    mishap # "open" /\ (c = "baremetal" => BmRegion <= o.total)

Succeeds(c, o, reinit, mishap) ==
    /\ Opens(c, o, mishap)
    /\ mishap \notin {"format", "remount"}
    /\ mishap = "mount" => Registered[c].mkfs = "fallback" /\ Formats(c, reinit, mishap)

\* flash_sim_erase refuses a region beyond the medium.
Empties(c, o, reinit, mishap) ==
    \/ Formats(c, reinit, mishap) /\ Opens(c, o, mishap) /\ mishap # "format"
    \/ ~reinit /\ mishap # "fresh" /\ Registered[c].fresh = "remove"
    \/ /\ ~reinit /\ mishap # "fresh" /\ Registered[c].fresh = "erase"
       /\ Opens(c, o, mishap) /\ Region(c, o) <= o.total

AdapterInits(c, s, o, reinit) ==
    {[rc |-> IF Succeeds(c, o, reinit, m) THEN 0 ELSE -1,
      dev |-> \/ Succeeds(c, o, reinit, m)
              \/ Opens(c, o, m) /\ m = "mount" /\ ~Registered[c].frees,
      store |-> IF Empties(c, o, reinit, m) THEN Bare(c) ELSE Reopened(s),
      cost |-> IF m = "none" THEN 0 ELSE 1] :
     m \in {n \in Mishaps : CanHappen(c, reinit, n)}}

\* The stores whose own init erases what it cannot read or takes for damaged.  The
\* others only read, but for FCB, which may write a header.
Repairing == {"easyflash", "flashdb", "nvdm", "nvs", "zms", "fastflash", "spiffs", "yaffs"}

\* fast_flash_init gives up its whole table.  Elsewhere some items lose their block:
\* they are gone, or what they were before they were written last.
Left(s, gone, x) == [p \in Slots |-> IF p \in gone THEN x ELSE s.disk[p]]
Repaired(c, s) ==
    IF c = "fastflash" THEN {Bare(c)}
    ELSE {Reopened([s EXCEPT !.disk = Left(s, gone, x)]) :
          gone \in SUBSET Slots, x \in {Missing, Junk}}

\* The repair is reported as a success, or fails itself.
RepairInits(c, s, o) ==
    IF c \in Repairing /\ Opens(c, o, "none")
    THEN {[rc |-> ok - 1, dev |-> ok = 1, store |-> t, cost |-> 2 - ok] :
          ok \in {0, 1}, t \in Repaired(c, s)}
    ELSE {}

\* Without APP_REINIT the medium has been emptied, and there is nothing to repair.
Inits(c, s, o, reinit) ==
    AdapterInits(c, s, o, reinit) \cup (IF reinit THEN RepairInits(c, s, o) ELSE {})
=============================================================================
