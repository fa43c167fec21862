-------------------------------- MODULE Ports --------------------------------
(***************************************************************************)
(* The port files under third-party stores: each turns the calls of its    *)
(* library into calls of the registered flash_hal_t, and flash_hal_t is    *)
(* served by the simulator ("sim", programming can only clear bits) or by  *)
(* the array of flash_hal_mem.c ("mem", writes overwrite).                 *)
(*                                                                         *)
(* A unit is what is written in one piece: a sector of FatFs, the data or  *)
(* the spare bytes of a YAFFS chunk, a write of any other library.  A call *)
(* of a port is the sequence of HAL calls it makes, one per step; each may *)
(* fail and the process may die in it.  The libraries are external: they   *)
(* ask for anything within the geometry their port gives them.             *)
(***************************************************************************)
EXTENDS Integers, Sequences

CONSTANTS
    PortNames,  \* subset of AllPorts
    NBlocks,    \* erase blocks of the medium
    U,          \* units of an erase block
    Base,       \* first block of the partition, where the port is given one
    YaffsBlocks,\* YAFFS_SIM_BLOCKS
    Data, Blank, Junk,  \* payloads; an erased unit; bits of several, or a torn write
    Any,        \* want: nothing is promised
    Faults,     \* subset of {"loss", "fail"}
    MaxCalls    \* bound on calls

AllPorts == {"fatfs", "yaffs", "littlefs", "spiffs", "nvdm", "fastflash", "zephyr",
             "easyflash", "flashdb"}
Units == 0 .. NBlocks * U - 1
Contents == Data \cup {Blank, Junk}

ASSUME ConstAssumption ==
    /\ PortNames \subseteq AllPorts /\ PortNames # {}
    /\ NBlocks \in Nat \ {0} /\ U \in Nat \ {0} /\ Base \in 0 .. NBlocks - 1
    /\ YaffsBlocks \in Nat
    /\ "yaffs" \in PortNames => U % 2 = 0
    /\ Blank \notin Data /\ Junk \notin Data \cup {Blank} /\ Any \notin Contents
    /\ Faults \subseteq {"loss", "fail"} /\ MaxCalls \in Nat

VARIABLES
    port, hal,  \* which port and which kind of flash_hal_t, both fixed
    reg,        \* s_hal is set
    mem,        \* the medium
    block,      \* disk_write's buffer of one erase block
    todo,       \* HAL calls the port's call has still to make
    rc,         \* return: "ok", "error" or "abort"; "refused" by the HAL for its arguments
    want,       \* history: address -> what the calls that returned 0 left there, or Any
    calls
vars == <<port, hal, reg, mem, block, todo, rc, want, calls>>

-----------------------------------------------------------------------------
(* Geometry: what each port tells its library, in its library's addresses. *)

\* The ports their callers give no base.
Whole(p) == p \in {"fatfs", "yaffs", "spiffs", "fastflash"}
Start(p) == IF Whole(p) THEN 0 ELSE Base * U
Partition(p) == Start(p) .. NBlocks * U - 1

\* Mutant: a block_count that forgets the base.
LfsBlocksAll == NBlocks
LfsBlocks == IF NBlocks > Base THEN NBlocks - Base ELSE 0
NvdmPebs == IF NBlocks - Base < 2 THEN 0 ELSE NBlocks - Base

Size(p) ==
    CASE p = "yaffs" -> YaffsBlocks * U
      [] p = "littlefs" -> LfsBlocks * U
      [] p = "nvdm" -> NvdmPebs * U
      [] p \in {"fatfs", "spiffs", "fastflash"} -> NBlocks * U
      [] OTHER -> (NBlocks - Base) * U

\* The ports that add their base to the library's address; those of EasyFlash and
\* FAL are given addresses of the medium.
AddsBase(p) == p \in {"fatfs", "littlefs", "nvdm", "zephyr"}
\* Mutant: the base is not added.
PhysNoBase(p, a) == a
Phys(p, a) == IF AddsBase(p) THEN Start(p) + a ELSE a
First(p) == IF AddsBase(p) THEN 0 ELSE Start(p)
Addresses(p) == First(p) .. First(p) + Size(p) - 1

-----------------------------------------------------------------------------
(* Requests and the HAL calls they become. *)

Req(op, at, n, v) == [op |-> op, at |-> at, n |-> n, v |-> v]
Reach(p, at) == 1 .. First(p) + Size(p) - at

Writes(p) ==
    IF p = "yaffs"
    THEN {Req("write", c, 2, v) : c \in {a \in Addresses(p) : a % 2 = 0}, v \in Data}
    ELSE UNION {{Req("write", a, n, v) : n \in Reach(p, a) \cap 1 .. 2, v \in Data} :
                a \in Addresses(p)}

BlockStarts(p) == {a \in Addresses(p) : a % U = 0}
Erases(p) ==
    CASE p = "fatfs" -> {}
      [] p \in {"easyflash", "flashdb"} ->  \* of any size
            UNION {{Req("erase", a, n, Blank) : n \in Reach(p, a)} : a \in BlockStarts(p)}
      [] p = "zephyr" ->  \* from a sector on, and past the end of the area
            {Req("erase", i * U, n * U, Blank) :
                i \in 0 .. NBlocks - Base - 1, n \in 1 .. NBlocks - Base}
      [] OTHER -> {Req("erase", a, U, Blank) : a \in BlockStarts(p)}

Reads(p) == {Req("read", a, 1, Blank) : a \in Addresses(p)}
Requests(p) == Writes(p) \cup Erases(p) \cup Reads(p)

\* flash_area_read, _write and _erase: mutant without the check.
InAreaAlways(r) == TRUE
InArea(r) == port = "zephyr" => r.at + r.n <= Size("zephyr")

\* ef_port_erase and sim_flash_erase round the size up to whole blocks;
\* mutant: not at all.
RoundUpNot(n) == n
RoundUp(n) == IF n % U = 0 THEN n ELSE n + U - (n % U)

Hal(op, at, n, v) == <<Req(op, at, n, v)>>

\* disk_write: each sector by reading its block, erasing and rewriting it;
\* mutant: one sector more.
SectorCalls(s, v) ==
    Hal("load", s, 1, v) \o Hal("erase", s - (s % U), U, v) \o Hal("store", s, 1, v)
FatCallsOneMore(r) ==
    [i \in 1 .. 3 * (r.n + 1) |-> SectorCalls(r.at + (i - 1) \div 3, r.v)[((i - 1) % 3) + 1]]
FatCalls(r) == [i \in 1 .. 3 * r.n |-> SectorCalls(r.at + (i - 1) \div 3, r.v)[((i - 1) % 3) + 1]]

\* drv_write_chunk: mutant with the spare bytes first.
ChunkCallsSpareFirst(r) == Hal("write", r.at + 1, 1, r.v) \o Hal("write", r.at, 1, r.v)
ChunkCalls(r) == Hal("write", r.at, 1, r.v) \o Hal("write", r.at + 1, 1, r.v)

HalCalls(r) ==
    CASE port = "fatfs" /\ r.op = "write" -> FatCalls(r)
      [] port = "yaffs" /\ r.op = "write" -> ChunkCalls(r)
      [] port \in {"easyflash", "flashdb"} /\ r.op = "erase" -> Hal("erase", r.at, RoundUp(r.n), Blank)
      [] OTHER -> Hal(r.op, Phys(port, r.at), r.n, r.v)

-----------------------------------------------------------------------------
Init ==
    /\ port \in PortNames /\ hal \in {"sim", "mem"} /\ reg = FALSE
    /\ mem = [u \in Units |-> Blank] /\ block = [i \in 0 .. U - 1 |-> Blank]
    /\ todo = <<>> /\ rc = "ok" /\ calls = 0
    /\ want = [a \in Addresses(port) |-> Blank]

\* *_port_init, *_setup, register_flash; YAFFS declines another block size.
Register ==
    /\ todo = <<>>
    /\ reg' \in IF port = "yaffs" THEN BOOLEAN ELSE {TRUE}
    /\ UNCHANGED <<port, hal, mem, block, todo, rc, want, calls>>

\* yaffs_sim_deinit_device; the other ports keep their pointer.
Unregister ==
    /\ port = "yaffs" /\ todo = <<>> /\ reg' = FALSE
    /\ UNCHANGED <<port, hal, mem, block, todo, rc, want, calls>>

\* A chunk is written where the block was erased and nothing else was tried.
Allowed(r) == port = "yaffs" =>
    reg /\ (r.op = "write" => \A u \in Units \cap {r.at, r.at + 1} : mem[u] = Blank)

\* Without a HAL EasyFlash's and FAL's ports report success, nvdm's aborts.
Unserved == CASE port \in {"easyflash", "flashdb"} -> "ok" [] port = "nvdm" -> "abort" [] OTHER -> "error"

Call(r) ==
    /\ todo = <<>> /\ calls < MaxCalls /\ calls' = calls + 1 /\ Allowed(r)
    /\ IF reg /\ InArea(r)
       THEN todo' = HalCalls(r) /\ rc' = "ok"
       ELSE todo' = <<>> /\ rc' = IF reg THEN "error" ELSE Unserved
    /\ UNCHANGED <<port, hal, reg, mem, block, want>>

BlockOf(a) == a - (a % U) .. a - (a % U) + U - 1
Cells(c) == IF c.op \in {"load", "store"} THEN BlockOf(c.at) ELSE c.at .. c.at + c.n - 1

\* flash_sim_* and mem_*: the range, and for an erase whole blocks.
Accepts(c) ==
    /\ Cells(c) \subseteq Units
    /\ c.op = "erase" => c.at % U = 0 /\ c.n % U = 0 /\ c.n > 0

\* flash_sim_write ANDs, mem_write copies.
Stored(old, new) ==
    IF hal = "mem" \/ old = Blank \/ old = new THEN new
    ELSE IF new = Blank THEN old ELSE Junk

\* The medium after the HAL call.
After(c) == [u \in Units |->
    IF u \notin Cells(c) THEN mem[u]
    ELSE CASE c.op = "erase" -> Blank
           [] c.op = "write" -> Stored(mem[u], c.v)
           [] c.op = "store" -> Stored(mem[u], block[u % U])
           [] OTHER -> mem[u]]

\* disk_write's buffer after the read and the memcpy; mutant: only the memcpy.
LoadedSector(c) == [block EXCEPT ![c.at % U] = c.v]
Loaded(c) == [i \in 0 .. U - 1 |-> IF i = c.at % U THEN c.v ELSE mem[c.at - (c.at % U) + i]]

\* What a HAL call that returned 0 leaves at an address.  Of disk_write's
\* calls only the last of a sector does, and at that sector only.
Left(c, a) ==
    IF Phys(port, a) \notin Cells(c) \/ c.op \in {"load", "read"} THEN want[a]
    ELSE IF port = "fatfs" THEN (IF c.op = "store" /\ a = c.at THEN c.v ELSE want[a])
    ELSE IF c.op = "erase" THEN Blank
    ELSE IF want[a] = Any THEN Any ELSE Stored(want[a], c.v)

Step ==
    /\ todo # <<>> /\ Accepts(Head(todo))
    /\ LET c == Head(todo) IN
       /\ mem' = After(c)
       /\ block' = IF c.op = "load" THEN Loaded(c) ELSE block
       /\ want' = [a \in Addresses(port) |-> Left(c, a)]
    /\ todo' = Tail(todo)
    /\ UNCHANGED <<port, hal, reg, rc, calls>>

\* A HAL error ends the call; nvdm's port aborts the process.
Fail(code) ==
    /\ todo' = <<>>
    /\ rc' = IF port = "nvdm" THEN "abort" ELSE code
    /\ reg' = (port # "nvdm")

HalRefuses ==
    /\ todo # <<>> /\ ~Accepts(Head(todo))
    /\ Fail("refused")
    /\ UNCHANGED <<port, hal, mem, block, want, calls>>

\* How far a call that fails or is cut gets: an erase block by block, a
\* write up to a torn unit.
Cut(c) ==
    CASE c.op = "erase" ->
            {[u \in Units |-> IF u \in Cells(c) /\ u \div U \in s THEN Blank ELSE mem[u]] :
                s \in SUBSET {u \div U : u \in Cells(c)}}
      [] c.op \in {"write", "store"} ->
            {[u \in Units |-> IF u \in Cells(c) /\ u < k THEN After(c)[u]
                             ELSE IF u = k THEN Junk ELSE mem[u]] :
                k \in Cells(c)} \cup {mem}
      [] OTHER -> {mem}
AtRisk(c) == IF c.op \in {"load", "read"} THEN {} ELSE Cells(c)
Forget(cells) == [a \in Addresses(port) |-> IF Phys(port, a) \in cells THEN Any ELSE want[a]]

HalFails ==
    /\ "fail" \in Faults /\ todo # <<>> /\ Accepts(Head(todo))
    /\ mem' \in Cut(Head(todo))
    /\ want' = Forget(AtRisk(Head(todo)))
    /\ Fail("error")
    /\ UNCHANGED <<port, hal, block, calls>>

\* The process dies in the HAL call; the array of flash_hal_mem.c dies with it.
PowerLoss ==
    /\ "loss" \in Faults /\ reg
    /\ IF hal = "mem"
       THEN mem' = [u \in Units |-> Blank] /\ want' = [a \in Addresses(port) |-> Blank]
       ELSE IF todo = <<>> THEN UNCHANGED <<mem, want>>
       ELSE mem' \in Cut(Head(todo)) /\ want' = Forget(AtRisk(Head(todo)))
    /\ reg' = FALSE /\ todo' = <<>> /\ rc' = "error"
    /\ block' = [i \in 0 .. U - 1 |-> Blank]
    /\ UNCHANGED <<port, hal, calls>>

SomeCall == \E r \in Requests(port) : Call(r)
Next == Register \/ Unregister \/ SomeCall \/ Step \/ HalRefuses \/ HalFails \/ PowerLoss
Spec == Init /\ [][Next]_vars

-----------------------------------------------------------------------------
(* Units hold contents, a call makes at most six HAL calls and ends with its HAL. *)
TypeOK ==
    /\ port \in PortNames /\ hal \in {"sim", "mem"} /\ reg \in BOOLEAN
    /\ mem \in [Units -> Contents] /\ block \in [0 .. U - 1 -> Contents]
    /\ Len(todo) <= 6
    /\ todo # <<>> => reg
    /\ rc \in {"ok", "error", "abort", "refused"}
    /\ want \in [Addresses(port) -> Contents \cup {Any}]
    /\ calls \in 0 .. MaxCalls

(***************************************************************************)
(* Every address a port's geometry allows is one the HAL accepts, with     *)
(* sizes it accepts, though libraries erase parts of blocks and give       *)
(* offsets in a partition that does not begin at 0.  YAFFS's is fixed, and  *)
(* its port holds the size of a block against the HAL's, not their number.  *)
(***************************************************************************)
Accepted == rc = "refused" => port = "yaffs" /\ YaffsBlocks > NBlocks

(***************************************************************************)
(* No call of a port, failed and cut ones included, touches a byte outside *)
(* the partition it was given.                                             *)
(***************************************************************************)
StaysInside ==
    [][\A u \in Units \ Partition(port) : mem'[u] # mem[u] => hal = "mem" /\ ~reg']_vars

(***************************************************************************)
(* At rest every address reads as the calls that returned 0 left it, but   *)
(* for the erase block, or the units, in which a call failed or was cut:   *)
(* a FatFs sector rewritten in a block leaves the other sectors alone, and *)
(* of a write of several sectors those already done stay.                  *)
(***************************************************************************)
Contained ==
    todo = <<>> => \A a \in Addresses(port) :
        Phys(port, a) \in Units => want[a] \in {Any, mem[Phys(port, a)]}

(***************************************************************************)
(* YAFFS takes a chunk whose spare bytes carry tags for written: wherever  *)
(* a write of a chunk is cut, tags are there only above whole data.        *)
(***************************************************************************)
TagsFollowData ==
    port = "yaffs" => \A c \in {u \in Units : u % 2 = 0} :
        mem[c + 1] \in Data => mem[c] = mem[c + 1]
=============================================================================
