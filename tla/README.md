# flash_use: a TLA+ model of the platform's own flash stores

flash_use compares flash storage frameworks on a simulated medium. This
directory models the layers the project wrote itself, from the task engine down
to the simulated medium, checks them with TLC and proves the central properties
of seven of them with TLAPS. Most properties are about one question: what
survives when power is lost, a HAL call fails or the medium misbehaves at the
worst moment.

## 1. Inventory

| Component | Source | State | Operations | Hard behaviours |
|---|---|---|---|---|
| A/B configuration store | `frameworks/baremetal/bm_config.c` | two flash partitions (header with magic, seq, len, crc; payload); handle `cur_part`, `cur_seq` | init, load, save, reset, status | power loss inside a save or reset, failing HAL calls, block damage, wrap of `seq` |
| Key-value log | `frameworks/kv/kv_store.c` | the region; `s_write_cursor`, `s_used_bytes` | init, write, read, delete, compact, summary | loss between header, value and state byte; compaction holding data in RAM; leftovers of failed writes; wrong offsets from torn headers |
| File store | `frameworks/fs/fs_store.c` | FAT block, data blocks; `s_fat` in RAM | init, format, create, delete, write, append, read, size | RAM and flash tables diverging, migration, reuse of blocks, tail programming |
| Simulator | `simulator/flash_sim.c` | memory image, BIN file, wear counters, bad blocks | init, deinit, read, write, erase | AND programming, partial multi-block erase, wear limit, flushing |
| HAL back ends | `simulator/flash_hal_adapter.c`, `flash_hal_mem.c` | none; a plain array | read, write, erase | programming that ANDs or copies, refused arguments, an array that dies with its process |
| Ports | `frameworks/*/*_port.c`, `ef_port.c` | the registered HAL, a partition, a block buffer | registration, read, write, erase of a library's units | read-modify-write, two writes per YAFFS chunk, partitions that begin at an offset |
| Zephyr layer | `frameworks/zephyr_compat` | registered device and area | `flash_area_*` with range checks | as the ports |
| Setting service | `frameworks/tym_setting`, its port and adapter | RAM image, marks, save flag and delay, one flash page | init, set, get, reset, tick, save | flag cleared before a save that may fail; erase before rewrite; a save that may never come |
| Adapters | `app/adapter/*_ad.c` | a device and a HAL each | init, deinit, set, get, delete | erase and format at start, regions, ignored results |
| Task engine | `app/app_task.c`, `app_register.c`, `app_util.c` | loop counters, items lost | write, read, update, durability, power-loss, mixed tasks | its own count of what must be readable |
| Circular log (FCB) | `frameworks/fcb/vendor` | sectors with 16-bit ids, active sector, oldest sector | init, append, walk, rotate, clear | vendored |
| Third-party stores | `frameworks/{easyflash,flashdb,fastflash,nvdm,nvs,zms,littlefs,fatfs,spiffs,yaffs}` | their own | their own | vendored |
| Back end, front end, scripts | `backend`, `frontend`, `scripts` | processes, files, a page | HTTP requests, generation, import | input and output |

The components are layers. An application task calls an adapter; the adapter
calls one store; a store reaches flash through the three callbacks of
`flash_hal_t` only; these are the simulator's functions, or the in-memory
HAL's. No component runs a thread or an interrupt handler. What interleaves
with an operation is the loss of power (RAM gone, the HAL call under way cut)
and an error returned by one HAL call of several. All models therefore make
**one HAL call one step**, and put power loss and failure between and inside
the steps. Errors in the arguments of a call change nothing and are no steps.

What makes each component correct:

- A/B store: an acknowledged configuration is never lost; load never returns a
  half-written one; the handle and flash agree; a save never erases the only
  valid copy.
- Key-value log: a write takes effect at its state byte and at no other
  moment; compaction is invisible; RAM cursor and flash agree; nothing stale
  comes back; nothing unwritten is read.
- File store: as long as the table it mounts is whole, no block belongs to two
  files, files read back, and an operation on one file leaves the others alone; a
  restart finds what was committed.
- Simulator: bits rise by erasing only; wear is bounded; a failed erase is a
  prefix; the file holds what was acknowledged.
- Setting service: RAM and flash agree when no save is due; what the adapter
  acknowledged is on flash, unless a loss of power found it erased or an error of
  the HAL struck it; a pending save happens.
- Ports: the HAL is asked only for what it accepts; a port stays in its
  partition; a failed call harms what it was rewriting and nothing else; YAFFS
  tags stand above whole data only.
- Adapters and task engine: a task that passes has shown what it claims; a
  store that behaves passes; no adapter formats at a restart; every call is made
  on an open device.

## 2. Modules

| Module | Models |
|---|---|
| `ConfigStore` | the promise of `bm_config.h`: one stored configuration |
| `BmConfig` | `bm_config.c` over two NOR partitions |
| `BmConfigProofs` | theorems about `BmConfig`: its types, a sound medium, any medium, and that it implements `ConfigStore` |
| `KvDict` | the promise of `kv_store.h`: a dictionary with atomic updates |
| `KvStore` | `kv_store.c` over a region of NOR or EEPROM |
| `KvStoreProofs` | theorems about `KvStore`, and that it implements `KvDict` |
| `FsStore` | `fs_store.c` over a FAT block and data blocks |
| `FsStoreProofs` | theorems about `FsStore` |
| `FlashSim` | `flash_sim.c`: NOR or NAND, and EEPROM |
| `FlashSimProofs` | theorems about `FlashSim` |
| `SettingSrv` | the setting service, its port and the saving half of its adapter |
| `SettingSrvProofs` | theorems about `SettingSrv` |
| `Ports` | nine ports of third-party stores and the Zephyr layer, over both HAL back ends |
| `PortsProofs` | theorems about `Ports` |
| `Adapters` | the fifteen adapters of `src/app/adapter` |
| `TaskEngine` | the six tasks of `app_task.c`, on `Adapters` |
| `TaskEngineProofs` | theorems about `TaskEngine` |
| `NatFacts` | facts about division, products, least numbers and recursive functions the proofs share |
| `MC...` | instances for TLC |

### BmConfig

`part` is flash, `ctx` the handle, `pc` the HAL call under way; `target` and
`arg` are the locals of `bm_config_save`. `Save`, `SaveErase`, `SavePayload`
and `SaveHeader` are that function cut at its HAL calls; `Reset`, `ResetA`,
`ResetB` are `bm_config_reset`; `ConfigInit` and `ConfigLoad` only read, so
each is one step. A HAL call may succeed, or leave any outcome of a cut call
and return an error. `PowerLoss` does the same from any state and forgets the
handle. `Damage`, `SeqFlip` and failing reads are faults of the medium, each
with a bound. Magic and length are one field; a CRC matches exactly the payload
it was computed for, and as in the code it covers the payload only.
`bm_config_status` is a function of the state (`HandleAgrees` states what it
reports).

History variables hold what the caller may rely on: `visible` (what a load may
return: the last acknowledged configuration), `pending` (saves asked for and
not acknowledged), `ever` and `unfinished`. At a boot what was found counts as
acknowledged.

`ConfigStore` is the abstract view: `stored` (what a restart would return)
moves to the new value at some point of a save, or not if that fails. A save
may also uncover an older copy that a load may return, and after a reset that
did not finish any configuration given since the last full reset may be found
again, until a save, a reset or a restart settles it. While no call is under way
`stored` does not change.
`BmConfig!AbsSpec` maps `stored` to what init would choose from flash.

### KvStore

The region is an array of units: a header, a value and a state byte are one
unit each, so records are two or three units long and a write at a wrong offset
meets units of another kind. Values are as long as one unit or empty: a record
longer than the space left is what matters of the lengths. `AndUnit` is NOR
programming over what is there. `KvWrite` is `kv_write` up to its space check,
or `compact` up to its erase; `WriteHeader`, `WriteValue` and `WriteState` are
the three HAL writes, of the caller's record or of those `compact` rewrites
through `kv_write`; `todo` holds these. `Start` repeats the space check that
each nested `kv_write` makes and exposes the recursion (`"reenter"`).
`Lookup`, `Scan` and `Collected` are the loops over the region, with the
differences they have in the code: where each stops, which record of a key it
takes. `kv_summary` counts records and changes nothing; it is not modelled. `KvInit` after `"off"` is the restart.
A failing HAL read ends each of these loops where it is (`Seen`: the loop saw the
region blank from that record on). `scan_region` then fails with the cursor
there (`ScanFails`); `kv_read` returns the candidate it has and `compact` erases
the region with the records it has, and neither tells its caller.

`Faults` selects the environment: `"loss"` between and in HAL calls,
`"compact"` extends it to compaction, `"tear"` lets a cut program end inside a
header or a value, `"fail"` lets a HAL write or erase return an error, `"read"` a
HAL read. The history `cut`
remembers that a loss cut a compaction: `Durable` and the refinement of `KvDict`
are about the time before that, `NothingStale` and the others about all of it.
Without `"read"` in `Faults` no read fails: `Durable`, `NothingStale` and the
refinement are claimed for that case only, and the table in section 3 shows what
a failing read costs them.

### FsStore

A data block is an array of cells. `fat` is the FAT block, `ram` is `s_fat`,
`job` holds the locals of the operation under way. `Create`, `Delete`, `Write`,
`FsAppend` and `Format` end at their first HAL call; `BlockErase`, `BlockWrite`,
`TailProgram`, `FormatErase` and the commit's `FatErase` and `FatWrite` are the
HAL calls. `Store` is the part `fs_write` and the slow path of `fs_append`
share: empty, in place, or migrate. The RAM entry changes where the code
changes it, before the commit. `fs_write` of a new file commits an empty file
first. The store is mounted or formatted as `app/adapter/fs_store_ad.c` does;
after a failed mount only a format follows. `FAT.seq` is written once and never
read, and is left out. `loose` holds the files being overwritten in place, for
which `fs_store.h` promises nothing.

`fat_commit` programs the whole table in one HAL write and `fat_load` looks at
its magic only. A write that is cut or fails therefore leaves (`CutFat`) nothing,
a table whole up to some entry, or one that ends inside an entry
(`TornEntries`): the state byte and a part of the name (`Garbled`, a name nobody
asks for), or the name and a part of the numbers, of which the missing bytes
read as 0xFF. Such a table mounts. Block numbers and sizes are therefore words
below `Mod`, with the wrap that `start_blk + blocks` and `data_blk_off` have in
C (`Holds`, `Place`), so that the model follows the store into this state: blocks of a
live file counted as free, offsets outside the region (`Strays`; the HAL may
refuse them, or the FAT block itself may be hit), lengths no buffer can hold
(`Rewrite`). `astray` is the history that such a table was loaded since the last
format. `Layout`, `ReadBack` and `OthersUntouched` are claimed until then,
`TypeOK` says of the rest that the tables hold words. The table of section 3
shows that each of the three fails without that premise.

### FlashSim

`image` is memory, `bin` the file as another process finds it, `unflushed` the
blocks the erase loop wrote without flushing. `Erase` with `EraseBlock`,
`EraseRefused` and `EraseInjected` is the loop of `flash_sim_erase`; `Kill` is
the end of the process at any point. A cell is two bits; a write covers any run
of cells, across blocks. The kind of medium is a variable fixed by `Init`, so
that one run covers both.

### SettingSrv

`flash` is the page, one cell per item of `settingRomMap`; `ram`, `isSet`,
`saveFlag` and `timeout` are the service's variables; `pc`, `next` and `asked`
the save under way. `SettingSet`, `SettingReset`, `SettingInitDB`, `SaveNow`
(`SettingSrv_BookkeepingEx`) and `Tick` are the service's calls, `AdapterSet`
and `AdapterDel` the adapter's, which save at once. `SaveErase`, `SaveWrite`
and their failing forms are `SettingSrv_Bookkeeping` cut at its HAL calls, with
the partition check of the port (`InPartition`). `Reopen` and `Format` are the
two starts, with any set of items failing to be read. A value of RAM that was
never loaded is `Zero`, as static memory is. `missed` and `acked` are
histories: the items an error kept from being saved or loaded, and for each item
what flash may hold: the value the adapter acknowledged last and those set since.
A save erases the page of all settings, so a loss of power inside it costs
acknowledged settings, however old. `PowerLoss` forgets in `acked` exactly the
items that are then erased and not yet written back, or that an error had kept in RAM
only; those written before the cut stay promised, and a loss before the erase
costs nothing. `Reopen` forgets the items it could not read.

### Ports

`port` and `hal` are fixed by `Init`, so that one run covers nine ports on both
back ends. A library's call is a request in the geometry its port gave it
(`Addresses`); `HalCalls` is the port: the sequence of HAL calls it makes of a
request, held in `todo` and made one per step. `Accepts` is the argument check
of the back ends, `HalFails` an error that leaves any part of the call done,
`PowerLoss` the end of the process. The libraries are external and ask for
anything in their geometry, except that YAFFS writes a chunk where it was
erased (`Allowed`). `want` is a history of what the calls that returned 0
left.

### Adapters and TaskEngine

`Adapters` has no state: an adapter is a record of the choices its file makes
(`Registered`), the region it computes, and the outcomes of `Inits`, `Sets`,
`Gets` and `Deletes` on a store, each with the number of faults it costs. The
stores are external: `at` is what a read finds, `disk` what the next start
finds. Some of them repair the medium in their own init: EasyFlash formats
sectors whose header it cannot read and sets defaults when it can read none
(`ef_env.c:1698`, `:1762`), `fast_flash_init` gives up its table and erases
sector 0 (`fast_flash_core.c:284`), and FlashDB, nvdm, NVS, ZMS, SPIFFS and YAFFS
erase what they take for damaged. With `APP_REINIT` this is a fault of its own
(`RepairInits`): any items lose what was written last, and init reports a
success or an error. `TaskEngine` is `app_run_task`: `Start`, the loop of `Set`, `Delete`,
`Skip` and `Check` over items and rounds, `Read`, the power-loss test's
`Restart`, `Reinit` and `Verify`, and `End` with the verdict. Component, task
and options are fixed by `Init`, and an earlier process may have left the
medium full. `missed` is a history: a set returned 0 and its value cannot be
read.

The stores' models do not instantiate `FlashSim`; they carry the medium at
their own granularity. `BitsFall` and `ErasePrefix` are the two facts they take
from it.

## 3. Runs

All runs have small constants; each cfg names its bounds.

| Run | Shows |
|---|---|
| `bm_power` | `TypeOK`, `Durable`, `HandleAgrees`, `LoadLatest`, `SaveSparesBackup` and the refinement of `ConfigStore`, with loss and failure in every HAL call: 4 saves, 3 payloads, any number of resets, loads and restarts |
| `bm_medium` | `LoadWhole` under damage, sequence flips and read faults |
| `kv_nor` | `TypeOK`, `RestartAgrees`, `NothingStale`, and, up to the first loss that cuts a compaction, `Durable` and the refinement of `KvDict`, with loss and torn writes anywhere: 6 operations, two keys, region of 8 units in one block, so that compaction happens more than once |
| `kv_faults` | `ValuesWhole`, `NeverReenters` under all faults, failing reads among them, erase cut at a block |
| `fs_power` | `Durable`, `RestartAgrees` with loss outside the FAT commit, every operation |
| `fs_faults` | `TypeOK` and, until a table torn inside an entry is mounted, `Layout`, `ReadBack`, `OthersUntouched`, with loss anywhere and failing calls |
| `flash_media` | `TypeOK`, `WriteThrough`, `ErasePrefix`, `WearBounded`, `BitsFall`, `BadFrozen` for NOR and EEPROM |
| `setting` | `TypeOK`, `QuietAgrees`, `AckedOnFlash` and the liveness property `EventuallySaved`, with loss, failing calls and failing reads: two stored settings and one that is not, any number of calls |
| `ports` | `TypeOK`, `Accepted`, `Contained`, `TagsFollowData`, `StaysInside` for nine ports on both back ends: three calls, any number of restarts |
| `tasks` | `TypeOK`, `SurvivesRestart`, `NoSilentLoss`, `NoFalseAlarm`, `ReinitKeeps` for six tasks on fifteen adapters with up to three faults |

Runs that end in a counterexample, each against a sentence of the source:

| Run | Sentence | What the code does |
|---|---|---|
| `kv_eeprom` | `kv_store.c:5` EEPROM adapts by itself | stale records revive after compaction |
| `fs_append` | `fs_store.h:11` appends use erased bytes | a full or shrunken file is appended to in the wrong place |

The models show more of these when a passing run is given constants outside
its premises, and one property to check. They mark the limits of what the
passing runs claim:

| Constants | Violated | Sentence | What the code does |
|---|---|---|---|
| `bm_power` with `MaxDamage = 1` | `SaveSparesBackup` | `bm_config.h:8` never loses the configuration | a save chooses its target from `cur_part` alone and may erase the only valid copy |
| `bm_power` with `MaxSeqFlips = 1` | `Durable` | `bm_config.h:9` CRC over the whole block | the CRC omits the header |
| `bm_power` with `MaxReadFaults = 2` | `Durable` | `bm_config.h:15` at most the last save is lost | a read error redirects the next save |
| `bm_power` with `SeqMod = 4`, `MaxSaves = 5` | `Durable` | `bm_config.c:11` compares by difference | compares with `>=`; after the wrap an old configuration wins |
| `kv_nor` with `Durable` and `DictSpec` not stopping at `cut` | `Durable` | `kv_store.h:7` safe against power loss | compaction erases before it rewrites |
| `kv_nor` with `Blocks = 2` | `NothingStale` | `kv_store.h:9` cut records are discarded | a compaction cut between two block erases leaves records of the second block behind an empty first |
| `kv_nor` with `Faults = {"fail"}` | `Durable` | `kv_store.c:218` the state byte is the atomic point | a record over a leftover is acknowledged and unreadable |
| `kv_nor` with `DeviceEnds = FALSE` | `Durable` | `kv_store.h:9` cut records are discarded | a header torn in its length is written over and its key bits stay |
| `kv_nor` as it is | that `pc` is never `"failed"` | `kv_store.h:9` cut records are discarded | init fails on a torn length |
| `kv_nor` with `"read"` added to `Faults` | `Durable` | `kv_store.c:12` valid records are rewritten | `compact` takes a failing read for the end of the records, erases the region and reports a success |
| `kv_nor` with `"read"` added to `Faults` | `NothingStale` | `kv_store.c:126` the newest value of each key is kept | as above: the read fails between an old record of the key and its newest |
| `kv_nor` with 3 keys, `Size = 10`, `MaxEntries = 2`, no faults | `Durable` | `kv_store.c:12` valid records are rewritten | keys beyond the array are dropped |
| `fs_power` without the third conjunct of `TailReady` | `Durable` | `fs_store.h:11` appends use erased bytes | the bytes may be left from a cut append |
| `fs_power` with `"fatloss"` added to `Faults` | `Durable` | `fs_store.h:14` the old FAT survives | the only FAT is erased first |
| `fs_faults` with `Layout` not stopping at `astray` | `Layout` | `fs_store.h:14` the old FAT survives | create a file, its FAT write fails inside the new entry, format loads the table: sizes of 0xFFFFFFFF |
| `fs_faults` with `ReadBack` not stopping at `astray` | `ReadBack` | as above | power is lost inside the entry, the table mounts, and a write that fails leaves the file with a size nobody asked for |
| `fs_faults` with `OthersUntouched` not stopping at `astray` | `OthersUntouched` | as above | a FAT write is cut inside the entry of one of two files, the table mounts, and the operation that follows on the one changes what the other reads as |
| `ports` with `Accepted` not excusing YAFFS | `Accepted` | `yaffs_sim_port.c:196` the medium fits the layout | checks the size of its blocks, not their number |
| `setting` with `Faults = {"loss"}` and `PowerLoss` leaving `acked` as it is | `AckedOnFlash` | `tym_setting_ad.c:10` saved after every set | set, saved, acknowledged; the next save, of that item or another, erases the page of all and power is lost before the item is back (`app_setting_idle_activity.c:71`; `PORTING.md:91` of the component calls it unsafe) |
| `setting` with `Reopen` leaving `acked` as it is | `AckedOnFlash` | `tym_setting_ad.c:10` saved after every set | what a failed save or a failed read at start cost is not on flash, or not in RAM, and the next save of any setting writes zeros over it |
| `setting` with `AckedOnFlash` not exempting `missed` | `AckedOnFlash` | `tym_setting_ad.c:10` saved after every set | the adapter returns 0 though the save failed, and the save flag is already cleared |
| `tasks` without a premise of `Suited` | `NoFalseAlarm` | `app_task.c` counts lost data | strict stores refuse to delete what `task_mixed` never wrote; a setting has its own size and only four exist; a log fills up; no configuration is saved of 0 items |

Beside these, comments that the simulator does not follow: `flash_sim.c:7`
says that a write to a region that is not erased is refused (it is ANDed),
`flash_sim.c:10` that erases accumulate (the counters start anew when the file
is re-opened, see `Open`), `flash_hal_mem.c:6` that bits only fall (bytes are
copied), and `kv_store.h:94` that `valid_entries` is the number of keys that can
be read (`kv_summary` decides by the first record of a key, not the last).
`app_task.c:286` says that the durability test writes and reads back; of a
bare-metal configuration it reads nothing back (`Checks`). Three facts of the
ports that no run turns on: with no HAL registered those of EasyFlash and FAL report success and nvdm's ends the process, as it does on any
HAL error; `flash_area_get_sectors` gives addresses of the medium where
`flash_area_read` expects offsets in the area; and a FatFs sector cannot be
rewritten without endangering the others of its erase block. Two of the setting
service: a deleted setting loses its mark in RAM only, is saved with the rest
and is back after a restart (`AdapterDel`); and `tym_setting_sim_port.h:9` has
the page at address 0, where the configuration has 4096: in a partition that
ends before it every erase is refused (`InPartition`).

**Bounds.** Two partitions are the real number. The sequence number is 3 bits
where nothing may wrap and 2 bits where it does; four saves reach every
alternation of the partitions with one failure or loss between any two. A KV
region of 8 units holds two full records of each kind and forces compaction
with the third; two keys are enough to tell a key's own records from another's,
a third is there where key fields are ANDed or the array overflows. Files have
up to two blocks of two cells, so that a file can end inside a block, on its
boundary, grow over it and shrink back; three or four data blocks make
migration and fragmentation happen. Operations, saves and calls are counted by
`MaxOps`, `MaxSaves` and `MaxCalls`, faults by `MaxDamage`, `MaxSeqFlips` and
`MaxReadFaults`. Ports have a partition of two blocks behind a foreign one, each
of two units: a write of two units crosses a block, an erase rounds up to one,
and a third call can meet what two cut ones left; YAFFS has one block more than
the medium. The setting service has an item before and after every point of a
save, a delay that one tick does not end and another does, and no bound on
calls. The tasks run with eight sets of options (`MCOptions`): no items, as many
as the adapters have slots, more than a log or a file system of that region
holds, regions below, at and above the medium, values too short, of the wrong
size and too large; three faults are enough for one in the write, one in the
restart and one in the check after it.

**Symmetry.** The names of `FsStore` are interchangeable model values; no run
with symmetry checks liveness or a refinement.

**Deadlock** is checked except in `flash_media`, where the calls run out at the
bound with the device closed. `TaskEngine!Over` stutters once the process has
exited; in `ports` a step remains at the bound, since registering again is
always possible.

**Fairness.** `SettingSrv` alone has a liveness property. `WF(Tick)`: the header
`app_setting_idle_activity.h` and the porting guide tell the application to call
`SettingSrv_Tick` from its main loop, so a tick comes again while the flag is
up. `WF(Saving)`: a save is a synchronous loop over the items and runs to its
end. Nothing is assumed of callers, of the power or of the HAL.
`EventuallySaved` therefore excuses settings set again and again (each restarts
the delay: without that exception the property fails), loss of power, and items
struck by an error, which nothing saves again until the next set. The other
stores are called synchronously and their loops are bounded by the region.

**Passing runs state their premises.** `bm_power` assumes a medium that keeps
what it was given and fewer saves than sequence numbers. `kv_nor` has a region of one block; its
`Durable` and `DictSpec` end at the first loss that cuts a compaction, and
`fs_power` excludes loss in the FAT commit; both `Durable`s and the refinement of `KvDict`
have no failing reads. `fs_faults` follows the store beyond the mount of a torn
table, but claims of the time after it only that the tables hold words. `setting`
does not promise an item that a loss found erased and not yet written back, nor
flash of an item an error struck, `tasks` expects a pass only of components that `Suited` allows, and `ports` excuses YAFFS where
its fixed number of blocks exceeds the medium's. `fs_power` and `fs_faults`
assume that appends take the fast path only where `TailReady` holds: the code
does not check it (`SafeAppends`). The counterexamples above show what happens
without each premise.

## 4. Proofs

TLAPS proves the following for every value of the constants that satisfies the
module's `ConstAssumption` (and `WordAssumption` in `FsStore`: the blocks and
sizes of the store are words, and a word with bytes still erased is larger than
they); `SoundMedium` adds that there is no damage, no
sequence flip and no failing read, and fewer saves than `SeqMod`. The
counterexamples of section 3 show that its parts are needed.

| Theorem | Property | Assumes |
|---|---|---|
| `BmConfigProofs!TypeCorrect` | `TypeOK` | nothing more: all faults |
| `BmConfigProofs!DurableAlways` | `Durable` | `SoundMedium` |
| `BmConfigProofs!HandleAlwaysAgrees` | `HandleAgrees` | `SoundMedium` |
| `BmConfigProofs!LoadIsLatest` | `LoadLatest` | `SoundMedium` |
| `BmConfigProofs!SaveSparesAlways` | `SaveSparesBackup` | `SoundMedium` |
| `BmConfigProofs!Refines` | `AbsSpec` | `SoundMedium` |
| `BmConfigProofs!LoadIsWhole` | `LoadWhole` | nothing more: all faults, wrap included |
| `FlashSimProofs!TypeCorrect` | `TypeOK` | nothing more |
| `FlashSimProofs!ErasesArePrefixes` | `ErasePrefix` | nothing more |
| `FlashSimProofs!WearIsBounded` | `WearBounded` | nothing more |
| `FlashSimProofs!FileKeepsUp` | `WriteThrough` | nothing more |
| `FlashSimProofs!BitsOnlyFall` | `BitsFall` | nothing more |
| `FlashSimProofs!BadBlocksFreeze` | `BadFrozen` | nothing more |
| `SettingSrvProofs!TypeCorrect` | `TypeOK` | nothing more: all faults |
| `SettingSrvProofs!QuietAlwaysAgrees` | `QuietAgrees` | nothing more |
| `SettingSrvProofs!AckedAlwaysOnFlash` | `AckedOnFlash` | nothing more (the property names its exceptions) |
| `TaskEngineProofs!TypeCorrect` | `TypeOK` | nothing more: any number of faults |
| `TaskEngineProofs!SurvivesRestartAlways` | `SurvivesRestart` | nothing more |
| `TaskEngineProofs!NoSilentLossAlways` | `NoSilentLoss` | nothing more |
| `TaskEngineProofs!NeverFalseAlarm` | `NoFalseAlarm` | nothing more (the property names `Suited`) |
| `TaskEngineProofs!DeviceAlwaysOpen` | `DeviceOpen` | nothing more |
| `TaskEngineProofs!ReinitAlwaysKeeps` | `ReinitKeeps` | nothing more (repairs by a store's own init excepted) |
| `FsStoreProofs!TypeCorrect` | `TypeOK` | `SafeAppends` |
| `FsStoreProofs!BlocksApart` | `Layout` | `SafeAppends`: all faults, until a torn table is mounted |
| `FsStoreProofs!ReadsBack` | `ReadBack` | `SafeAppends`: all faults, until a torn table is mounted |
| `FsStoreProofs!OthersSafe` | `OthersUntouched` | `SafeAppends`: all faults, until a torn table is mounted |
| `FsStoreProofs!Durability` | `Durable` | `SafeAppends`, `Faults` at most `{"loss"}` |
| `FsStoreProofs!TablesAgree` | `RestartAgrees` | `SafeAppends`, `Faults` at most `{"loss"}` |
| `KvStoreProofs!TypeCorrect` | `TypeOK` | nothing more: all faults, both media |
| `KvStoreProofs!WholeValues` | `ValuesWhole` | nothing more: all faults, both media |
| `KvStoreProofs!NoReentry` | `NeverReenters` | nothing more: all faults, both media |
| `KvStoreProofs!RestartFinds` | `RestartAgrees` | `Orderly` |
| `KvStoreProofs!AcknowledgedKept` | `Durable` | `Sound` |
| `KvStoreProofs!StaleNever` | `NothingStale` | `Sound` |
| `KvStoreProofs!Refines` | `DictSpec` | `Sound` |
| `PortsProofs!TypeCorrect` | `TypeOK` | nothing more |
| `PortsProofs!CallsAccepted` | `Accepted` | nothing more |
| `PortsProofs!FaultsContained` | `Contained` | nothing more |
| `PortsProofs!TagsLast` | `TagsFollowData` | nothing more |
| `PortsProofs!PartitionKept` | `StaysInside` | nothing more |

**The A/B store on a sound medium.** `Durable` is not inductive: it does not say
why the chosen partition is the right one. `IInv` does. `Consistent` relates
flash to the handle: the handle's partition is valid, carries its sequence
number and holds an acknowledged configuration (unless a reset is unfinished);
the other is invalid, or older, or exactly one ahead and holds a pending save.
With the power off the handle is lost, and the invariant says that one exists
for which this holds. `Steps` says what the partition being written looks like
between the HAL calls. Each HAL call disturbs one partition; the lemmas show
`Consistent` preserved by a change of the partition that is not in force
(`CellChange`, fed by `CutValid`: what a cut call can leave), by a commit
(`AckConsistent`), by asking for a save (`BeginConsistent`) and by a boot, which
picks a handle for which it holds again (`BootConsistent`).

**The refinement.** The proof that every step is one of `ConfigStore`'s rests on
the same invariant. `SaveOwed` and `ResetOwed` say what a restart can find after
one partition has changed: what it found before, what a load may return, the
new payload, and after a reset has begun anything given since the last full one.
The commit and the end of a reset need the invariant after the step: it leaves
one value a restart can find.

**Any medium.** `WholeInv` does not look at sequence numbers or headers: every
payload in flash was given to a save since the last full reset, or is no payload
(blank or garbage). Damage makes garbage, a program of what is not blank makes
garbage, and a valid partition holds a payload.

**The simulator.** `ErasePrefix`, `WearBounded` and `WriteThrough` are inductive
with the types; `BitsFall` and `BadFrozen` are facts about one step, from the
lemmas about `Stored` (programming never raises a bit) and `Written`.

**The setting service.** `QuietAgrees` and `AckedOnFlash` are about the times
between saves; `IInv` adds what holds inside one. `SavedSoFar`: the items the
loop has passed agree with RAM, or are in `missed`; the last one passed makes it
`QuietAgrees`. `AckedHeld`: while the service runs RAM holds a value of every item
on record as acknowledged, and until the page is erased so does flash, but for
items an error struck. A loss after the erase is where this ends: what `SavedSoFar`
says of the items already written back is then all that is left, and the
others go off the record. The two together need the types, for the delay runs
exactly while the flag is up.

**The task engine.** `Phases` ties the phases to their tasks. `Noticed`: a set
that returned 0 and cannot be read has been counted as lost, or its check is
the next call and will fail. `Verified`: after the restart what reads find is
what is on the medium, and the items gone over so far are what the task wrote:
what a store's own init has repaired away is noticed here, item by item.
`ReinitKeeps` is a fact about one step: with `APP_REINIT` no branch of an adapter
that formats is taken (`Empties`), so only a repair can change the medium, and it
is a fault. Nothing is assumed of the stores: a call may have any outcome
`Adapters` allows, any number of times. `DeviceOpen`, a part of the invariant,
says that every call is made on an open device.
`NoFalseAlarm` needs an invariant of its own, `Smooth`, about runs that spend no
fault. A call without a fault fails only where the adapter has no room, so
`Inside` follows what the room depends on: a log has taken no more entries than
the loop made calls (`CountBelow`), a table is filled from its front, a file
system holds nothing beyond the task's items. What init erases enters here: FCB
and the file store start empty, whatever an earlier process left, because their
region ends inside the medium (`FcbFits`, `FsFits`). `Done` says that the items
gone over can be read, for which two of them must not share a slot, or one be
taken for a gap.

**The file store.** `ReadBack` speaks of the moments between operations;
`ReadInv` says what holds inside one. `Sound`, of both tables: no two files
share a block and each has blocks enough. `Phase` ties the job under way to the
HAL call. `FillInv`: the blocks being filled belong to no file but the one
overwritten in place, those before the present one hold the new content, and
the one being programmed is erased. `TailInv`: a tail is programmed over erased
cells behind the size the table still gives the file. `Promise`: through
the table in RAM every file reads as acknowledged or as asked for. It is preserved
by every step under every fault but one: a mount of a table torn inside an entry.
`FsInv` is therefore `WordInv`, which holds always and says that tables are of
words, and `ReadInv` as long as `astray` is not set; a format ends that time
(`FormatHeals`). That a mount without a torn entry keeps the invariant needs
`Sound` of the whole entries of the table in flash (`Untorn`), which a cut or failed
write of the sound table in RAM leaves. `SafeAppends` is needed
where `fs_append` takes its fast path, since the code does not look at the
cells it programs (`fs_append` is the run that shows it). `PowerInv` adds
`Kept`, what a restart would find: until the commit begins flash holds the table of
RAM, and with the power off every file reads through it as promised. A failing
call breaks it, because the table in RAM has changed already, and a loss inside
the commit breaks it by leaving no table; therefore `Durable` and
`RestartAgrees` assume `Faults` within `{"loss"}`, as `fs_power` does. Lemmas
about the operators (`ViewIs`, `SameView`, `ReplacedSound`, `FillSpares`) carry
most of the argument: which blocks a file's text depends on, and that a
replaced entry keeps a table sound.

**The key-value log, under all faults.** `Records` and `Scan` are recursive functions over
offsets. That they satisfy their equations is proved first (`RecursionDown`: a
function may be defined at each argument from its value at a greater one), then
that `Records` is a walk (`IsWalk`): each record begins where the one before it
ends, and after the last one none begins. `Flash` says which units the region
can hold: a value unit holds a value, and a header with a length has a whole
key; programming over leftovers keeps that (`ProgramOk`). From these a record
whose CRC matches holds a value somebody wrote (`AcceptedIs`), which is
`ValuesWhole`. `Queue` carries `NeverReenters`: the records still to be written
have room one behind the other (`Fits`), all but the caller's own, the last.
It holds when `compact` starts because its entries have different keys, the
records they were read from are therefore different and do not overlap
(`WalkOrder`), and so their lengths add up to no more than the region
(`CollectedFits`). TLC had used keys whose AND is 0 or a key again; the proof of
the types needed the entries `compact` keeps to be allowed any key below 8, as
two headers programmed over each other may have a third key.

**The key-value log on NOR.** The other four properties do not hold under every
fault (section 3), so they assume what they need. `Orderly`: NOR, writes and erases
that do not fail, and one erase block if a loss may cut a compaction. `Sound` adds
that no read fails (what `compact` has seen is the region, `Seen`),
`Firm` (where headers may be torn, the device ends with the region, so that
`kv_init` refuses a torn length instead of writing over it) and no more keys
than `valid[64]` has entries. `kv_nor` has these constants.

The argument has four parts beside the invariant above. `Layout` says what flash
looks like around the cursor: the whole records end at it (`Laid`: the walk of
what is below it ends there), behind it is nothing or the stub of a torn header
(`Rest`), and during a write the head, the value and the blank rest of the record
under way. A HAL call changes units at or behind the cursor, so that what is
below counts as before (`LaidAlike`) until the state byte makes the record one
more (`LaidGrow`); what a cut leaves is a shorter version of the same
(`CutIs`). `RestartAgrees` follows: `scan_region` climbs over
exactly these records. `Kept` ties RAM to flash: before the erase
the entries `compact` holds say of every key what the region says, they have
different keys, and the caller's own is one asked for. That `compact` keeps all
there is (`CollectedAll`) needs an entry for each key, and this is where the
number of keys enters. `Owing`, last, relates all this to the
histories: what the region and the RAM entries say together (`View`) is for each
key what was acknowledged, or asked for since; and what the region alone says
is that or nothing, which holds after a cut compaction too and is
`NothingStale`. The refinement needs no more: `View` changes at the state byte
that ends a call, at that of a rewritten record it does not.

**The ports.** A call is a list of HAL calls, and `PortInv` speaks of the list.
`Pending`: each lies where the port may put it, so that the next is accepted
and stays in the partition. `FatOrder`: `disk_write`'s come as read, erase and
write of one block. `Buffered`: the buffer holds what the block held, with the
new sector in its place. `Agrees`: every address outside the block being
rewritten reads as promised. `Chunk`: the second of YAFFS's two calls writes
tags above a chunk that holds its data, and both find blank units. The sequence
of calls is built for each port by an operator; that what it builds satisfies
these is proved port by port, for every length of a request.

The proofs found places where a `CASE` of the model had arms that overlap:
TLA+ then leaves the choice open, and TLC had taken the first. They are now
exclusive (`Ports!Size`, `Ports!After`, `Ports!Left`, `KvStore!AndUnit`,
`Adapters!Deletes`).

Every invariant and action property that a passing run checks is proved, each
under the assumptions named in the table, and so are both refinements. Out of
the prover's reach is liveness (`EventuallySaved`), which stays with TLC; and
the two runs that end in a counterexample are about instances.

## 5. Not modelled

- Delays, time statistics and counters of operations and bytes, logging,
  `fwrite` errors, resizing of BIN files, the arguments a store checks itself.
- The CRC as a computation: it is exact. Keys as text: items are told apart, so
  that two keys with the hash of one id (`nvs_ad.c:40`) do not occur.
- The append operations of the adapters, which no task calls, and of
  `zephyr_compat.c` the CRC functions and the layout `flash_area_get_sectors`
  fills.
- The vendored libraries, FCB with its rotation and 16-bit ids among them:
  unchanged third-party code. `Ports` stands below them and `Adapters` above,
  both taking them as external.
- Back end, front end and scripts: processes, parsing and text.

## 6. What could follow

1. An abstract dictionary of files for `FsStore`, with the refinement.
2. `TaskEngine` over `KvDict` in place of the adapters' external store.
3. The stores instantiating `FlashSim`, for erases of several blocks that meet
   a worn one.
