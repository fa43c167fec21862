----------------------------- MODULE PortsProofs -----------------------------
(***************************************************************************)
(* The port files, for every medium, partition and set of payloads.        *)
(*                                                                         *)
(* A call under way is a list of HAL calls, and the invariant says of each *)
(* that it lies in the partition and is one the HAL accepts (Pending), of  *)
(* disk_write's that they come as read, erase, write of one block with the *)
(* buffer holding what the block held (FatOrder, Buffered), and of YAFFS's *)
(* that the spare bytes come second, above a chunk that is blank or holds  *)
(* the data (Chunk).                                                       *)
(***************************************************************************)
EXTENDS Ports, NatFacts, SequenceTheorems

Reqs == [op : {"load", "erase", "store", "write", "read"}, at : Nat, n : Nat \ {0},
         v : Data \cup {Blank}]

\* Every variable has its type.
Typed ==
    /\ port \in AllPorts /\ port \in PortNames /\ hal \in {"sim", "mem"} /\ reg \in BOOLEAN
    /\ mem \in [Units -> Contents] /\ block \in [0 .. U - 1 -> Contents]
    /\ todo \in Seq(Reqs) /\ Len(todo) <= 6
    /\ todo # <<>> => reg
    /\ rc \in {"ok", "error", "abort", "refused"}
    /\ want \in [Addresses(port) -> Contents \cup {Any}]
    /\ calls \in 0 .. MaxCalls

\* The units a port may reach.
Span == IF port = "yaffs" THEN 0 .. YaffsBlocks * U - 1 ELSE Partition(port)
CallOk(c) ==
    /\ Cells(c) \subseteq Span
    /\ c.op = "erase" => c.at % U = 0 /\ c.n % U = 0
    /\ c.op \in {"load", "store"} => port = "fatfs" /\ c.at \in Units
    /\ c.op \in {"load", "store", "write"} => c.v \in Data
Pending == \A i \in 1 .. Len(todo) : CallOk(todo[i])

\* disk_write's HAL calls.
FatOrdered(t) ==
    \A i \in 1 .. Len(t) :
        /\ t[i].op # "write"
        /\ t[i].op = "load" =>
             i + 2 <= Len(t) /\ t[i + 1].op = "erase" /\ t[i + 2].op = "store"
             /\ t[i + 2].at = t[i].at /\ t[i + 2].v = t[i].v
        /\ t[i].op = "erase" =>
             i + 1 <= Len(t) /\ t[i + 1].op = "store" /\ Cells(t[i]) = BlockOf(t[i + 1].at)
        /\ t[i].op = "store" => i = Len(t) \/ t[i + 1].op = "load"
        /\ t[i].op = "read" => i = Len(t)
FatOrder == port = "fatfs" => FatOrdered(todo)

Doing(op) == todo # <<>> /\ todo[1].op = op
Buffered ==
    port = "fatfs" =>
        /\ Doing("erase") =>
             /\ block[todo[2].at % U] = todo[2].v
             /\ \A a \in BlockOf(todo[2].at) : a # todo[2].at => block[a % U] = mem[a]
        /\ Doing("store") =>
             /\ block[todo[1].at % U] = todo[1].v
             /\ \A a \in BlockOf(todo[1].at) :
                  mem[a] = Blank /\ (a # todo[1].at => want[a] \in {Any, block[a % U]})

\* A block between its erase and its rewriting is the only place that does
\* not read as promised.
Rewriting(a) == port = "fatfs" /\ Doing("store") /\ a \in BlockOf(todo[1].at)
Agrees ==
    \A a \in Addresses(port) :
        Phys(port, a) \in Units => want[a] \in {Any, mem[Phys(port, a)]} \/ Rewriting(a)

\* drv_write_chunk's HAL calls.
IsWrite(c) == c.op = "write" /\ c.n = 1
Chunk ==
    port = "yaffs" =>
        \/ todo = <<>>
        \/ Len(todo) = 1 /\ todo[1].op \in {"erase", "read"}
        \/ /\ Len(todo) = 2 /\ IsWrite(todo[1]) /\ IsWrite(todo[2]) /\ todo[1].at % 2 = 0
           /\ todo[2].at = todo[1].at + 1 /\ todo[2].v = todo[1].v
           /\ \A u \in Units \cap {todo[1].at, todo[1].at + 1} : mem[u] = Blank
        \/ /\ Len(todo) = 1 /\ IsWrite(todo[1]) /\ todo[1].at % 2 = 1
           /\ todo[1].at \in Units => mem[todo[1].at] = Blank
           /\ todo[1].at - 1 \in Units /\ mem[todo[1].at - 1] = todo[1].v

PortInv == Typed /\ Pending /\ FatOrder /\ Buffered /\ Agrees /\ Chunk
           /\ Accepted /\ TagsFollowData
-----------------------------------------------------------------------------
(* Blocks. *)

\* The block an address lies in is made of units of the medium.
LEMMA BlockIs ==
    ASSUME NEW a \in Nat
    PROVE  /\ a % U \in 0 .. U - 1 /\ a - (a % U) \in Nat /\ (a - (a % U)) % U = 0
           /\ a - (a % U) = U * (a \div U) /\ a \div U \in Nat
           /\ a \in BlockOf(a) /\ BlockOf(a) \subseteq Nat
  <1>1. U \in Nat \ {0}
    BY ConstAssumption
  <1>2. a \div U \in Nat /\ a % U \in 0 .. U - 1 /\ a = U * (a \div U) + (a % U)
    BY <1>1, DivMod
  <1>3. U * (a \div U) \in Nat /\ (U * (a \div U) + 0) % U = 0
    <2> DEFINE d == a \div U
    <2>1. d \in Nat /\ 0 \in 0 .. U - 1
      BY <1>1, <1>2
    <2> HIDE DEF d
    <2>2. U * d \in Nat
      BY <1>1, <2>1, MulFacts
    <2>3. (U * d + 0) % U = 0
      BY <1>1, <2>1, DivModIs
    <2> QED BY <2>2, <2>3 DEF d
  <1> DEFINE q == U * (a \div U)
             r == a % U
  <1>4. q \in Nat /\ r \in 0 .. U - 1 /\ a = q + r /\ (q + 0) % U = 0
    BY <1>2, <1>3
  <1>5. BlockOf(a) = a - r .. a - r + U - 1
    BY DEF BlockOf
  <1> HIDE DEF q, r
  <1>6. a - r = q /\ q + 0 = q
    BY <1>1, <1>4
  <1>7. a \in BlockOf(a) /\ BlockOf(a) \subseteq Nat
    BY <1>1, <1>4, <1>5, <1>6
  <1> QED BY <1>2, <1>4, <1>6, <1>7 DEF q, r

\* A block that begins below n blocks ends there too.
LEMMA BlockBelow ==
    ASSUME NEW a \in Nat, NEW n \in Nat, a < n * U
    PROVE  a - (a % U) + U <= n * U
  <1>1. U \in Nat \ {0} /\ a \div U \in Nat /\ a - (a % U) = U * (a \div U)
    BY ConstAssumption, BlockIs
  <1>2. a \div U < n
    BY <1>1, DivBelow
  <1>3. U * ((a \div U) + 1) <= U * n
    BY <1>1, <1>2, MulMono
  <1>4. U * ((a \div U) + 1) = U * (a \div U) + U /\ U * n = n * U
    BY <1>1, SMT
  <1> QED BY <1>1, <1>3, <1>4

\* The addresses of a block.
LEMMA InBlockIs ==
    ASSUME NEW s \in Nat, NEW a \in BlockOf(s)
    PROVE  /\ a \in Nat /\ a - (a % U) = s - (s % U) /\ BlockOf(a) = BlockOf(s)
           /\ a % U \in 0 .. U - 1 /\ a = s - (s % U) + (a % U)
           /\ a \div U = s \div U
  <1> DEFINE q == s \div U
             t == a - U * q
  <1>1. U \in Nat \ {0} /\ q \in Nat /\ s - (s % U) = U * q /\ BlockOf(s) \subseteq Nat
    BY ConstAssumption, BlockIs
  <1>2. U * q \in Nat
    BY <1>1, MulFacts
  <1>3. a \in U * q .. U * q + U - 1
    BY <1>1 DEF BlockOf
  <1> HIDE DEF q
  <1>4. t \in 0 .. U - 1 /\ a = U * q + t
    BY <1>1, <1>2, <1>3
  <1>5. a % U = t /\ a \div U = q
    <2> HIDE DEF t
    <2> QED BY <1>1, <1>4, DivModIs
  <1>6. a \in Nat /\ a - (a % U) = U * q
    BY <1>2, <1>4, <1>5
  <1> QED BY <1>1, <1>4, <1>5, <1>6 DEF BlockOf, q

\* The medium.
LEMMA MediumIs ==
    /\ U \in Nat \ {0} /\ NBlocks \in Nat \ {0} /\ Base \in Nat /\ Base < NBlocks
    /\ NBlocks * U \in Nat /\ Base * U \in Nat /\ (NBlocks - Base) * U \in Nat
    /\ Base * U + (NBlocks - Base) * U = NBlocks * U
    /\ (Base * U) % U = 0 /\ YaffsBlocks \in Nat /\ YaffsBlocks * U \in Nat
    /\ Units = 0 .. NBlocks * U - 1
  <1>1. /\ U \in Nat \ {0} /\ NBlocks \in Nat \ {0} /\ Base \in Nat /\ Base < NBlocks
        /\ YaffsBlocks \in Nat /\ NBlocks - Base \in Nat
    BY ConstAssumption
  <1>2. /\ NBlocks * U \in Nat /\ Base * U \in Nat /\ (NBlocks - Base) * U \in Nat
        /\ YaffsBlocks * U \in Nat /\ U * Base = Base * U
    BY <1>1, MulFacts
  <1>3. Base * U + (NBlocks - Base) * U = NBlocks * U
    BY <1>1, SMT
  <1>4. (U * Base + 0) % U = 0
    BY <1>1, DivModIs
  <1>5. U * Base + 0 = Base * U
    BY <1>2
  <1> QED BY <1>1, <1>2, <1>3, <1>4, <1>5 DEF Units

\* Every port's addresses are those of a partition of its own, in the port's numbering.
LEMMA PortIs ==
    ASSUME NEW p \in AllPorts
    PROVE  /\ First(p) \in Nat /\ Size(p) \in Nat /\ Start(p) \in Nat
           /\ Start(p) % U = 0 /\ First(p) % U = 0
           /\ Partition(p) \subseteq Units
           /\ p # "yaffs" =>
                /\ \E n \in Nat : First(p) + Size(p) = n * U
                /\ \/ Start(p) = 0 /\ Size(p) = NBlocks * U
                   \/ Start(p) = Base * U /\ Size(p) \in {0, (NBlocks - Base) * U}
                /\ First(p) = IF AddsBase(p) THEN 0 ELSE Start(p)
           /\ p = "yaffs" => Start(p) = 0 /\ First(p) = 0 /\ Size(p) = YaffsBlocks * U
                             /\ ~ AddsBase(p)
           /\ p = "fatfs" => AddsBase(p) /\ Start(p) = 0 /\ Size(p) = NBlocks * U
  <1>1. 0 % U = 0 /\ 0 \in Nat /\ 0 * U = 0
    BY MediumIs, SMT
  <1>2. LfsBlocks = NBlocks - Base
    BY MediumIs DEF LfsBlocks
  <1>3. NvdmPebs \in {0, NBlocks - Base}
    BY MediumIs DEF NvdmPebs
  <1>4. Start(p) \in {0, Base * U} /\ Partition(p) = Start(p) .. NBlocks * U - 1
    BY DEF Start, Partition
  <1>5. Partition(p) \subseteq Units
    <2> HIDE DEF Partition
    <2>1. Start(p) \in Nat
      BY <1>4, MediumIs
    <2> QED BY <1>4, <2>1, MediumIs
  <1>6. CASE p \in {"fatfs", "spiffs", "fastflash"}
    <2>1. Start(p) = 0 /\ Size(p) = NBlocks * U /\ First(p) = 0
      BY <1>6 DEF Start, Size, First, Whole
    <2>2. First(p) + Size(p) = NBlocks * U /\ NBlocks \in Nat
      BY <2>1, MediumIs
    <2>3. \E n \in Nat : First(p) + Size(p) = n * U
      BY <2>2
    <2>4. First(p) = IF AddsBase(p) THEN 0 ELSE Start(p)
      BY <2>1
    <2>5. p = "fatfs" => AddsBase(p)
      BY DEF AddsBase
    <2>6. /\ First(p) \in Nat /\ Size(p) \in Nat /\ Start(p) \in Nat
          /\ Start(p) % U = 0 /\ First(p) % U = 0
      BY <1>1, <2>1, MediumIs
    <2>7. p # "yaffs"
      BY <1>6
    <2> QED BY <1>5, <2>1, <2>3, <2>4, <2>5, <2>6, <2>7
  <1>7. CASE p = "yaffs"
    <2>1. Whole(p) /\ ~ AddsBase(p)
      BY <1>7 DEF Whole, AddsBase
    <2>2. Start(p) = 0
      BY <2>1 DEF Start
    <2>3. First(p) = 0
      BY <2>1, <2>2 DEF First
    <2>4. Size(p) = YaffsBlocks * U
      BY <1>7 DEF Size
    <2> QED BY <1>1, <1>5, <1>7, <2>1, <2>2, <2>3, <2>4, MediumIs
  <1>8. CASE p \in {"littlefs", "nvdm", "zephyr"}
    <2>1. Start(p) = Base * U /\ First(p) = 0 /\ Size(p) \in {0, (NBlocks - Base) * U}
      BY <1>1, <1>2, <1>3, <1>8 DEF Start, Size, First, Whole, AddsBase
    <2>2. First(p) + Size(p) = 0 * U \/ First(p) + Size(p) = (NBlocks - Base) * U
      BY <1>1, <2>1, MediumIs
    <2>3. 0 \in Nat /\ NBlocks - Base \in Nat
      BY MediumIs
    <2>4. \E n \in Nat : First(p) + Size(p) = n * U
      BY <2>2, <2>3
    <2> QED BY <1>1, <1>5, <1>8, <2>1, <2>4, MediumIs DEF AddsBase
  <1>9. CASE p \in {"easyflash", "flashdb"}
    <2>1. Start(p) = Base * U /\ First(p) = Base * U /\ Size(p) = (NBlocks - Base) * U
      BY <1>9 DEF Start, Size, First, Whole, AddsBase
    <2>2. First(p) + Size(p) = NBlocks * U
      BY <2>1, MediumIs
    <2> QED BY <1>1, <1>5, <1>9, <2>1, <2>2, MediumIs DEF AddsBase
  <1> QED BY <1>6, <1>7, <1>8, <1>9 DEF AllPorts
\* Multiples of the block size.
LEMMA Multiples ==
    /\ \A n \in Nat : n * U \in Nat /\ (n * U) % U = 0
    /\ \A x, y \in Nat : x % U = 0 /\ y % U = 0 => (x + y) % U = 0
    /\ U % U = 0
  <1>1. U \in Nat \ {0}
    BY ConstAssumption
  <1>2. ASSUME NEW n \in Nat PROVE n * U \in Nat /\ (n * U) % U = 0
    <2>1. (U * n + 0) % U = 0
      BY <1>1, DivModIs
    <2>2. U * n + 0 = n * U /\ n * U \in Nat
      BY <1>1, MulFacts
    <2> QED BY <2>1, <2>2
  <1>3. ASSUME NEW x \in Nat, NEW y \in Nat, x % U = 0, y % U = 0 PROVE (x + y) % U = 0
    <2> DEFINE q == x \div U
               k == y \div U
    <2>1. q \in Nat /\ k \in Nat /\ x = U * q + 0 /\ y = U * k + 0
      BY <1>1, <1>3, DivMod
    <2> HIDE DEF q, k
    <2>2. x + y = U * (q + k) + 0
      BY <1>1, <2>1, SMT
    <2> QED BY <1>1, <2>1, <2>2, DivModIs
  <1>4. U % U = 0
    BY <1>1, SMT
  <1> QED BY <1>2, <1>3, <1>4

\* Where what a library asks for lies: in the partition, unless it is YAFFS's.
LEMMA PhysIs ==
    ASSUME NEW p \in AllPorts, NEW a \in Addresses(p), NEW n \in Nat \ {0},
           a + n <= First(p) + Size(p)
    PROVE  /\ a \in Nat /\ Phys(p, a) \in Nat /\ (a % U = 0 => Phys(p, a) % U = 0)
           /\ p # "yaffs" => Phys(p, a) .. Phys(p, a) + n - 1 \subseteq Partition(p)
           /\ p = "yaffs" => Phys(p, a) = a /\ a + n <= YaffsBlocks * U
           /\ p = "fatfs" => Phys(p, a) = a /\ a + n <= NBlocks * U
  <1>1. /\ First(p) \in Nat /\ Size(p) \in Nat /\ Start(p) \in Nat /\ Start(p) % U = 0
        /\ First(p) % U = 0
    BY PortIs
  <1>2. a \in Nat /\ First(p) <= a
    BY <1>1 DEF Addresses
  <1>3. Phys(p, a) \in {Start(p) + a, a} /\ (AddsBase(p) => Phys(p, a) = Start(p) + a)
    BY DEF Phys
  <1>4. Phys(p, a) \in Nat /\ (a % U = 0 => Phys(p, a) % U = 0)
    <2>1. a % U = 0 => (Start(p) + a) % U = 0
      BY <1>1, <1>2, Multiples
    <2> QED BY <1>1, <1>2, <1>3, <2>1
  <1>5. ASSUME p # "yaffs" PROVE Phys(p, a) .. Phys(p, a) + n - 1 \subseteq Partition(p)
    <2>1. Start(p) <= Phys(p, a) /\ Phys(p, a) + n <= Start(p) + Size(p)
      <3>1. First(p) = IF AddsBase(p) THEN 0 ELSE Start(p)
        BY <1>5, PortIs
      <3>2. CASE AddsBase(p)
        BY <1>1, <1>2, <3>1, <3>2 DEF Phys
      <3>3. CASE ~ AddsBase(p)
        BY <1>1, <1>2, <3>1, <3>3 DEF Phys
      <3> QED BY <3>2, <3>3
    <2>2. Start(p) + Size(p) <= NBlocks * U
      <3>1. \/ Start(p) = 0 /\ Size(p) = NBlocks * U
            \/ Start(p) = Base * U /\ Size(p) \in {0, (NBlocks - Base) * U}
        BY <1>5, PortIs
      <3> QED BY <3>1, MediumIs
    <2> QED BY <1>1, <1>4, <2>1, <2>2, MediumIs DEF Partition
  <1>6. p = "yaffs" => Phys(p, a) = a /\ a + n <= YaffsBlocks * U
    BY <1>1, <1>2, <1>3, PortIs DEF Phys
  <1>7. p = "fatfs" => Phys(p, a) = a /\ a + n <= NBlocks * U
    BY <1>1, <1>2, <1>3, PortIs DEF Phys
  <1> QED BY <1>2, <1>4, <1>5, <1>6, <1>7

\* Rounding a size up to whole blocks stays in the partition.
LEMMA RoundUpIs ==
    ASSUME NEW n \in Nat \ {0}
    PROVE  /\ RoundUp(n) \in Nat \ {0} /\ RoundUp(n) % U = 0
           /\ \A a, k \in Nat : a % U = 0 /\ a + n <= k * U => a + RoundUp(n) <= k * U
  <1>1. U \in Nat \ {0}
    BY ConstAssumption
  <1> DEFINE q == n \div U
             r == n % U
             m == IF r = 0 THEN q ELSE q + 1
  <1>2. q \in Nat /\ r \in 0 .. U - 1 /\ n = U * q + r
    BY <1>1, DivMod
  <1>3. RoundUp(n) = IF r = 0 THEN n ELSE n + U - r
    BY DEF RoundUp
  <1> HIDE DEF q, r
  <1>4. m \in Nat
    BY <1>2
  <1>5. U * (q + 1) = U * q + U
    BY <1>1, <1>2, SMT
  <1>6. RoundUp(n) = U * m
    BY <1>1, <1>2, <1>3, <1>5
  <1>7. RoundUp(n) >= n
    BY <1>1, <1>2, <1>3
  <1>8. RoundUp(n) % U = 0 /\ RoundUp(n) \in Nat
    <2> HIDE DEF m
    <2> QED BY <1>1, <1>4, <1>6, Multiples, MulFacts
  <1>9. ASSUME NEW a \in Nat, NEW k \in Nat, a % U = 0, a + n <= k * U
        PROVE  a + RoundUp(n) <= k * U
    <2> DEFINE j == a \div U
    <2>1. j \in Nat /\ a = U * j + 0
      BY <1>1, <1>9, DivMod
    <2> HIDE DEF j
    <2>2. U * j + U * q + r <= U * k /\ U * q \in Nat /\ U * j \in Nat
      BY <1>1, <1>2, <1>9, <2>1, MulFacts
    <2>3. U * (j + q) = U * j + U * q /\ U * (j + m) = U * j + U * m
      BY <1>1, <1>2, <1>4, <2>1, SMT
    <2>4. CASE r = 0
      BY <1>1, <1>2, <1>3, <1>9, <2>4
    <2>5. CASE r # 0
      <3>1. SUFFICES ASSUME k < j + m PROVE FALSE
        <4>1. j + m <= k => U * (j + m) <= U * k
          <5> HIDE DEF m
          <5> QED BY <1>1, <1>4, <2>1, MulMono
        <4>2. U * k = k * U
          BY <1>1, MulFacts
        <4> HIDE DEF m
        <4> QED BY <1>1, <1>4, <1>6, <2>1, <2>3, <4>1, <4>2
      <3>2. k <= j + q
        BY <1>2, <2>1, <2>5, <3>1
      <3>3. U * k <= U * (j + q)
        BY <1>1, <1>2, <2>1, <3>2, MulMono
      <3> QED BY <1>1, <1>2, <2>2, <2>3, <2>5, <3>3
    <2> QED BY <2>4, <2>5
  <1> QED BY <1>2, <1>7, <1>8, <1>9

-----------------------------------------------------------------------------
(* What the libraries ask for. *)

\* A write lies in the partition; of YAFFS it is a chunk and its spare bytes.
LEMMA WritesAre ==
    ASSUME NEW p \in AllPorts, p \in PortNames, NEW r \in Writes(p)
    PROVE  /\ r = Req("write", r.at, r.n, r.v) /\ r.op = "write" /\ r.v \in Data
           /\ r.at \in Addresses(p) /\ r.n \in {1, 2} /\ r.at + r.n <= First(p) + Size(p)
           /\ p = "yaffs" => r.n = 2 /\ r.at % 2 = 0
  <1>1. First(p) \in Nat /\ Size(p) \in Nat
    BY PortIs
  <1>2. CASE p # "yaffs"
    <2>0. PICK a \in Addresses(p) :
            r \in {Req("write", a, n, v) : n \in Reach(p, a) \cap 1 .. 2, v \in Data}
      BY <1>2 DEF Writes
    <2>1. PICK n \in Reach(p, a) \cap 1 .. 2, v \in Data : r = Req("write", a, n, v)
      BY <2>0
    <2>2. a \in Nat /\ n \in {1, 2} /\ a + n <= First(p) + Size(p)
      BY <1>1, <2>1 DEF Reach, Addresses
    <2> QED BY <1>2, <2>1, <2>2 DEF Req
  <1>3. CASE p = "yaffs"
    <2>1. PICK a \in Addresses(p), v \in Data : a % 2 = 0 /\ r = Req("write", a, 2, v)
      BY <1>3 DEF Writes
    <2>2. First(p) = 0 /\ Size(p) = YaffsBlocks * U /\ U % 2 = 0
      BY <1>3, PortIs, ConstAssumption
    <2>3. (YaffsBlocks * U) % 2 = 0
      <3>1. PICK h \in Nat : U = 2 * h
        <4>1. U \in Nat /\ 2 \in Nat \ {0}
          BY ConstAssumption
        <4>2. U = 2 * (U \div 2) + (U % 2) /\ U \div 2 \in Nat
          BY <4>1, DivMod
        <4> QED BY <2>2, <4>2
      <3>2. YaffsBlocks * h \in Nat /\ YaffsBlocks * U = 2 * (YaffsBlocks * h)
        BY <3>1, MediumIs, SMT
      <3> DEFINE z == YaffsBlocks * h
      <3> HIDE DEF z
      <3>3. z \in Nat /\ YaffsBlocks * U = 2 * z
        BY <3>2 DEF z
      <3> QED BY <3>3
    <2>4. a \in Nat /\ a < YaffsBlocks * U /\ YaffsBlocks * U \in Nat
      BY <2>1, <2>2, MediumIs DEF Addresses
    <2>5. a + 2 <= YaffsBlocks * U
      <3> DEFINE z == YaffsBlocks * U
      <3>1. z \in Nat /\ z % 2 = 0 /\ a < z
        BY <2>3, <2>4
      <3> HIDE DEF z
      <3>2. a + 2 <= z
        BY <2>1, <2>4, <3>1
      <3> QED BY <3>2 DEF z
    <2> QED BY <1>3, <2>1, <2>2, <2>4, <2>5 DEF Req
  <1> QED BY <1>2, <1>3

\* An erase begins at a block, and in the partition where the port checks it.
LEMMA ErasesAre ==
    ASSUME NEW p \in AllPorts, NEW r \in Erases(p)
    PROVE  /\ r = Req("erase", r.at, r.n, Blank) /\ r.op = "erase" /\ r.v = Blank
           /\ p # "fatfs"
           /\ r.at \in Nat /\ r.at % U = 0 /\ r.n \in Nat \ {0}
           /\ p \in {"easyflash", "flashdb"} =>
                r.at \in Addresses(p) /\ r.at + r.n <= First(p) + Size(p)
           /\ p = "zephyr" => r.n % U = 0
           /\ p \notin {"easyflash", "flashdb", "zephyr"} => r.at \in Addresses(p) /\ r.n = U
  <1>1. First(p) \in Nat /\ Size(p) \in Nat /\ U \in Nat \ {0}
    BY PortIs, MediumIs
  <1>2. \A a \in Addresses(p) : a \in Nat
    BY <1>1 DEF Addresses
  <1>3. CASE p \in {"easyflash", "flashdb"}
    <2>0. PICK a \in BlockStarts(p) : r \in {Req("erase", a, n, Blank) : n \in Reach(p, a)}
      BY <1>3 DEF Erases
    <2>1. PICK n \in Reach(p, a) : r = Req("erase", a, n, Blank)
      BY <2>0
    <2>2. a \in Addresses(p) /\ a % U = 0
      BY DEF BlockStarts
    <2>3. a \in Nat /\ n \in Nat \ {0} /\ a + n <= First(p) + Size(p)
      BY <1>1, <1>2, <2>1, <2>2 DEF Reach
    <2> QED BY <1>3, <2>1, <2>2, <2>3 DEF Req
  <1>4. CASE p = "zephyr"
    <2>1. PICK i \in 0 .. NBlocks - Base - 1, n \in 1 .. NBlocks - Base :
            r = Req("erase", i * U, n * U, Blank)
      BY <1>4 DEF Erases
    <2>2. i \in Nat /\ n \in Nat /\ n >= 1
      BY <2>1, MediumIs
    <2>3. i * U \in Nat /\ (i * U) % U = 0 /\ n * U \in Nat /\ (n * U) % U = 0
      BY <2>2, Multiples
    <2>4. n * U # 0
      BY <1>1, <2>2, SMT
    <2> QED BY <1>4, <2>1, <2>3, <2>4 DEF Req
  <1>5. CASE p \notin {"easyflash", "flashdb", "zephyr"}
    <2>1. p # "fatfs" /\ \E a \in BlockStarts(p) : r = Req("erase", a, U, Blank)
      BY <1>5 DEF Erases
    <2>2. PICK a \in BlockStarts(p) : r = Req("erase", a, U, Blank)
      BY <2>1
    <2>3. a \in Addresses(p) /\ a % U = 0
      BY <2>2 DEF BlockStarts
    <2> QED BY <1>1, <1>2, <1>5, <2>1, <2>2, <2>3 DEF Req
  <1> QED BY <1>3, <1>4, <1>5

\* A read is of one unit of the partition.
LEMMA ReadsAre ==
    ASSUME NEW p \in AllPorts, NEW r \in Reads(p)
    PROVE  /\ r = Req("read", r.at, 1, Blank) /\ r.op = "read" /\ r.n = 1 /\ r.v = Blank
           /\ r.at \in Addresses(p) /\ r.at + 1 <= First(p) + Size(p)
  <1>1. First(p) \in Nat /\ Size(p) \in Nat
    BY PortIs
  <1>2. PICK a \in Addresses(p) : r = Req("read", a, 1, Blank)
    BY DEF Reads
  <1>3. a + 1 <= First(p) + Size(p)
    BY <1>1 DEF Addresses
  <1> QED BY <1>2, <1>3 DEF Req
-----------------------------------------------------------------------------
(* The HAL calls of a call. *)

\* Of anything but a write of FatFs or YAFFS: one, in the partition.
LEMMA OneCall ==
    ASSUME Typed, NEW r \in Requests(port), InArea(r),
           r.op = "write" => port \notin {"fatfs", "yaffs"}
    PROVE  \E c \in Reqs : /\ HalCalls(r) = <<c>> /\ CallOk(c) /\ c.op = r.op
                           /\ c.op \in {"write", "erase", "read"}
                           /\ port = "fatfs" => c.op = "read"
                           /\ port = "yaffs" => c.op \in {"erase", "read"}
  <1>1. port \in AllPorts /\ port \in PortNames
    BY DEF Typed
  <1>2. U \in Nat \ {0}
    BY ConstAssumption
  <1>3. r \in Writes(port) \/ r \in Erases(port) \/ r \in Reads(port)
    BY DEF Requests
  <1> DEFINE c == Req(r.op, Phys(port, r.at), r.n, r.v)
  <1>4. ASSUME r.at \in Addresses(port), r.n \in Nat \ {0},
               r.at + r.n <= First(port) + Size(port)
        PROVE  /\ Phys(port, r.at) \in Nat
               /\ r.at % U = 0 => Phys(port, r.at) % U = 0
               /\ Phys(port, r.at) .. Phys(port, r.at) + r.n - 1 \subseteq Span
    <2>1. /\ r.at \in Nat /\ Phys(port, r.at) \in Nat
          /\ r.at % U = 0 => Phys(port, r.at) % U = 0
          /\ port # "yaffs" => Phys(port, r.at) .. Phys(port, r.at) + r.n - 1 \subseteq Partition(port)
          /\ port = "yaffs" => Phys(port, r.at) = r.at /\ r.at + r.n <= YaffsBlocks * U
      BY <1>1, <1>4, PhysIs
    <2>2. CASE port = "yaffs"
      BY <1>4, <2>1, <2>2, MediumIs DEF Span
    <2> QED BY <2>1, <2>2 DEF Span
  <1>5. ASSUME ~ (port \in {"easyflash", "flashdb"} /\ r.op = "erase")
        PROVE  HalCalls(r) = <<c>>
    BY <1>5 DEF HalCalls, Hal
  <1>6. c.op = r.op /\ c.at = Phys(port, r.at) /\ c.n = r.n /\ c.v = r.v
    BY DEF Req
  <1>7. CASE r \in Writes(port) \/ r \in Reads(port)
    <2>1. /\ r.at \in Addresses(port) /\ r.n \in Nat \ {0} /\ r.at + r.n <= First(port) + Size(port)
          /\ r.op \in {"write", "read"} /\ r.v \in Data \cup {Blank}
          /\ r.op = "write" => r.v \in Data
      BY <1>1, <1>7, WritesAre, ReadsAre
    <2>2. /\ Phys(port, r.at) \in Nat
          /\ Phys(port, r.at) .. Phys(port, r.at) + r.n - 1 \subseteq Span
      BY <1>4, <2>1
    <2>3. c \in Reqs
      BY <2>1, <2>2 DEF Req, Reqs
    <2>4. HalCalls(r) = <<c>>
      BY <1>5, <2>1
    <2> HIDE DEF c
    <2>5. Cells(c) = Phys(port, r.at) .. Phys(port, r.at) + r.n - 1
      BY <1>6, <2>1 DEF Cells
    <2>6. CallOk(c)
      BY <1>6, <2>1, <2>2, <2>5 DEF CallOk
    <2> QED BY <1>6, <2>1, <2>3, <2>4, <2>6
  <1>8. CASE r \in Erases(port)
    <2>1. /\ r.op = "erase" /\ r.v = Blank /\ port # "fatfs"
          /\ r.at \in Nat /\ r.at % U = 0 /\ r.n \in Nat \ {0}
          /\ port \in {"easyflash", "flashdb"} =>
               r.at \in Addresses(port) /\ r.at + r.n <= First(port) + Size(port)
          /\ port = "zephyr" => r.n % U = 0
          /\ port \notin {"easyflash", "flashdb", "zephyr"} => r.at \in Addresses(port) /\ r.n = U
      BY <1>1, <1>8, ErasesAre
    <2>2. /\ First(port) \in Nat /\ Size(port) \in Nat
          /\ port # "yaffs" => \E n \in Nat : First(port) + Size(port) = n * U
          /\ port = "yaffs" => First(port) + Size(port) = YaffsBlocks * U
      <3>1. port = "yaffs" => First(port) = 0 /\ Size(port) = YaffsBlocks * U
        BY <1>1, PortIs
      <3>2. port = "yaffs" => First(port) + Size(port) = YaffsBlocks * U
        BY <3>1, MediumIs
      <3> QED BY <1>1, <3>2, PortIs
    <2>3. PICK n \in Nat : First(port) + Size(port) = n * U
      BY <2>2, MediumIs
    <2>4. CASE port \in {"easyflash", "flashdb"}
      <3> DEFINE d == Req("erase", r.at, RoundUp(r.n), Blank)
      <3>1. HalCalls(r) = <<d>>
        BY <2>1, <2>4 DEF HalCalls, Hal
      <3>2. RoundUp(r.n) \in Nat \ {0} /\ RoundUp(r.n) % U = 0 /\ r.at + RoundUp(r.n) <= n * U
        BY <2>1, <2>3, <2>4, RoundUpIs
      <3>3. d \in Reqs
        BY <2>1, <3>2 DEF Req, Reqs
      <3>4. r.at .. r.at + RoundUp(r.n) - 1 \subseteq Partition(port)
        <4>1. Phys(port, r.at) .. Phys(port, r.at) + RoundUp(r.n) - 1 \subseteq Partition(port)
          BY <1>1, <2>1, <2>3, <2>4, <3>2, PhysIs
        <4>2. Phys(port, r.at) = r.at
          BY <2>4 DEF Phys, AddsBase
        <4> QED BY <4>1, <4>2
      <3>5. d.op = "erase" /\ d.at = r.at /\ d.n = RoundUp(r.n)
        BY DEF Req
      <3> HIDE DEF d
      <3>6. Cells(d) = r.at .. r.at + RoundUp(r.n) - 1
        BY <3>5 DEF Cells
      <3>7. CallOk(d)
        BY <2>1, <2>4, <3>2, <3>4, <3>5, <3>6 DEF CallOk, Span
      <3> QED BY <2>1, <2>4, <3>1, <3>3, <3>5, <3>7
    <2>5. CASE port \notin {"easyflash", "flashdb"}
      <3>1. r.at \in Addresses(port) /\ r.n % U = 0 /\ r.at + r.n <= First(port) + Size(port)
        <4>1. CASE port = "zephyr"
          <5>1. r.at + r.n <= Size(port) /\ First(port) = 0
            BY <4>1 DEF InArea, First, AddsBase
          <5> QED BY <2>1, <2>2, <4>1, <5>1 DEF Addresses
        <4>2. CASE port # "zephyr"
          <5>1. r.at \in Addresses(port) /\ r.n = U /\ r.at < n * U
            BY <2>1, <2>2, <2>3, <2>5, <4>2 DEF Addresses
          <5>2. r.at - 0 + U <= n * U
            BY <2>1, <5>1, BlockBelow
          <5> QED BY <1>2, <2>1, <2>3, <5>1, <5>2, Multiples
        <4> QED BY <4>1, <4>2
      <3>2. /\ Phys(port, r.at) \in Nat /\ Phys(port, r.at) % U = 0
            /\ Phys(port, r.at) .. Phys(port, r.at) + r.n - 1 \subseteq Span
        BY <1>4, <2>1, <3>1
      <3>3. c \in Reqs
        BY <2>1, <3>2 DEF Req, Reqs
      <3>4. HalCalls(r) = <<c>>
        BY <1>5, <2>5
      <3> HIDE DEF c
      <3>5. Cells(c) = Phys(port, r.at) .. Phys(port, r.at) + r.n - 1
        BY <1>6, <2>1 DEF Cells
      <3>6. CallOk(c)
        BY <1>6, <2>1, <3>1, <3>2, <3>5 DEF CallOk
      <3> QED BY <1>6, <2>1, <3>3, <3>4, <3>6
    <2> QED BY <2>4, <2>5
  <1> QED BY <1>3, <1>7, <1>8

\* Short sequences of HAL calls.
LEMMA Pair == ASSUME NEW a, NEW b PROVE <<a>> \o <<b>> = <<a, b>>
  <1> DEFINE S == {a, b}
             s == <<a>>
             t == <<b>>
             w == <<a, b>>
  <1>1. /\ s \in Seq(S) /\ Len(s) = 1 /\ s[1] = a
        /\ t \in Seq(S) /\ Len(t) = 1 /\ t[1] = b
        /\ w \in Seq(S) /\ Len(w) = 2 /\ w[1] = a /\ w[2] = b
    OBVIOUS
  <1> HIDE DEF S, s, t, w
  <1>2. /\ s \o t \in Seq(S) /\ Len(s \o t) = 2
        /\ \A i \in 1 .. 2 : (s \o t)[i] = IF i <= 1 THEN s[i] ELSE t[i - 1]
    BY <1>1, ConcatProperties
  <1>3. (s \o t)[1] = w[1] /\ (s \o t)[2] = w[2]
    BY <1>1, <1>2
  <1>4. \A i \in 1 .. Len(s \o t) : (s \o t)[i] = w[i]
    BY <1>2, <1>3
  <1>5. s \o t = w
    BY <1>1, <1>2, <1>4, SeqEqual
  <1> QED BY <1>5 DEF s, t, w

\* Three HAL calls in a row, one by one.
LEMMA Triple ==
    ASSUME NEW a, NEW b, NEW c
    PROVE  (<<a>> \o <<b>>) \o <<c>> = <<a, b, c>>
  <1> DEFINE S == {a, b, c}
             s == <<a, b>>
             t == <<c>>
             w == <<a, b, c>>
  <1>1. /\ s \in Seq(S) /\ Len(s) = 2 /\ s[1] = a /\ s[2] = b
        /\ t \in Seq(S) /\ Len(t) = 1 /\ t[1] = c
        /\ w \in Seq(S) /\ Len(w) = 3 /\ w[1] = a /\ w[2] = b /\ w[3] = c
    OBVIOUS
  <1>2. <<a>> \o <<b>> = s
    BY Pair
  <1> HIDE DEF S, s, t, w
  <1>3. /\ s \o t \in Seq(S) /\ Len(s \o t) = 3
        /\ \A i \in 1 .. 3 : (s \o t)[i] = IF i <= 2 THEN s[i] ELSE t[i - 2]
    <2>1. /\ s \o t \in Seq(S) /\ Len(s \o t) = Len(s) + Len(t)
          /\ \A i \in 1 .. Len(s) + Len(t) :
               (s \o t)[i] = IF i <= Len(s) THEN s[i] ELSE t[i - Len(s)]
      BY <1>1, ConcatProperties
    <2> QED BY <1>1, <2>1
  <1>4. (s \o t)[1] = w[1] /\ (s \o t)[2] = w[2] /\ (s \o t)[3] = w[3]
    BY <1>1, <1>3
  <1>5. \A i \in 1 .. Len(s \o t) : (s \o t)[i] = w[i]
    BY <1>3, <1>4
  <1>6. s \o t = w
    BY <1>1, <1>3, <1>5, SeqEqual
  <1> QED BY <1>2, <1>6 DEF t, w

\* Of a YAFFS chunk: its data, then its spare bytes.
LEMMA ChunkWrites ==
    ASSUME Typed, port = "yaffs", NEW r \in Writes(port)
    PROVE  LET t == HalCalls(r)
           IN  /\ t \in Seq(Reqs) /\ Len(t) = 2 /\ CallOk(t[1]) /\ CallOk(t[2])
               /\ IsWrite(t[1]) /\ IsWrite(t[2])
               /\ t[1].at = r.at /\ t[2].at = r.at + 1 /\ t[2].v = t[1].v /\ r.at % 2 = 0
  <1>1. /\ r.op = "write" /\ r.v \in Data /\ r.at \in Addresses(port) /\ r.n = 2
        /\ r.at % 2 = 0 /\ r.at + r.n <= First(port) + Size(port)
    BY WritesAre DEF Typed
  <1>2. r.at \in Nat /\ r.at + 2 <= YaffsBlocks * U
    BY <1>1, PhysIs DEF Typed
  <1> DEFINE c == Req("write", r.at, 1, r.v)
             d == Req("write", r.at + 1, 1, r.v)
  <1>3. HalCalls(r) = <<c, d>>
    BY <1>1, Pair DEF HalCalls, ChunkCalls, Hal
  <1>4. c \in Reqs /\ d \in Reqs
    BY <1>1, <1>2 DEF Req, Reqs
  <1>5. /\ c.op = "write" /\ c.at = r.at /\ c.n = 1 /\ c.v = r.v
        /\ d.op = "write" /\ d.at = r.at + 1 /\ d.n = 1 /\ d.v = r.v
    BY DEF Req
  <1> HIDE DEF c, d
  <1>6. Cells(c) \subseteq Span /\ Cells(d) \subseteq Span
    <2>1. Cells(c) = r.at .. r.at + 1 - 1 /\ Cells(d) = r.at + 1 .. r.at + 1 + 1 - 1
      BY <1>5 DEF Cells
    <2>2. Span = 0 .. YaffsBlocks * U - 1 /\ YaffsBlocks * U \in Nat
      BY MediumIs DEF Span
    <2> QED BY <1>2, <2>1, <2>2
  <1>7. CallOk(c) /\ CallOk(d)
    BY <1>1, <1>5, <1>6 DEF CallOk
  <1> QED BY <1>1, <1>3, <1>4, <1>5, <1>7 DEF IsWrite

\* Of a sector of FatFs: read, erase and write of its block.
LEMMA SectorIs ==
    ASSUME Typed, port = "fatfs", NEW s \in Units, NEW v \in Data
    PROVE  LET t == SectorCalls(s, v)
           IN  /\ t = <<Req("load", s, 1, v), Req("erase", s - (s % U), U, v), Req("store", s, 1, v)>>
               /\ \A i \in 1 .. 3 : t[i] \in Reqs /\ CallOk(t[i])
               /\ Cells(t[2]) = BlockOf(s)
  <1> DEFINE c == Req("load", s, 1, v)
             d == Req("erase", s - (s % U), U, v)
             e == Req("store", s, 1, v)
  <1>1. U \in Nat \ {0} /\ s \in Nat /\ s < NBlocks * U /\ NBlocks \in Nat /\ NBlocks * U \in Nat
    BY MediumIs
  <1>2. s - (s % U) \in Nat /\ (s - (s % U)) % U = 0 /\ U % U = 0 /\ s - (s % U) + U <= NBlocks * U
    BY <1>1, BlockIs, BlockBelow, Multiples
  <1>3. SectorCalls(s, v) = <<c, d, e>>
    BY Triple DEF SectorCalls, Hal
  <1>4. c \in Reqs /\ d \in Reqs /\ e \in Reqs
    BY <1>1, <1>2 DEF Req, Reqs
  <1>5. /\ c.op = "load" /\ c.at = s /\ c.v = v
        /\ d.op = "erase" /\ d.at = s - (s % U) /\ d.n = U
        /\ e.op = "store" /\ e.at = s /\ e.v = v
    BY DEF Req
  <1> HIDE DEF c, d, e
  <1>6. Cells(c) = BlockOf(s) /\ Cells(d) = BlockOf(s) /\ Cells(e) = BlockOf(s)
    BY <1>5 DEF Cells, BlockOf
  <1>7. BlockOf(s) \subseteq Span
    <2>1. Start(port) = 0
      BY PortIs DEF Typed
    <2> QED BY <1>1, <1>2, <2>1 DEF Span, BlockOf, Partition
  <1>8. CallOk(c) /\ CallOk(d) /\ CallOk(e)
    BY <1>2, <1>5, <1>6, <1>7 DEF CallOk
  <1>9. \A i \in 1 .. 3 : <<c, d, e>>[i] \in Reqs /\ CallOk(<<c, d, e>>[i])
    BY <1>4, <1>8
  <1> QED BY <1>3, <1>6, <1>9 DEF c, d, e
\* Of a write of FatFs: those of its sectors, one after the other.
LEMMA FatWrites ==
    ASSUME Typed, port = "fatfs", NEW r \in Writes(port)
    PROVE  LET t == HalCalls(r)
           IN  /\ t \in Seq(Reqs) /\ Len(t) \in {3, 6} /\ FatOrdered(t) /\ t[1].op = "load"
               /\ \A i \in 1 .. Len(t) : CallOk(t[i])
  <1>1. /\ r.op = "write" /\ r.v \in Data /\ r.at \in Addresses(port) /\ r.n \in {1, 2}
        /\ r.at + r.n <= First(port) + Size(port)
    BY WritesAre DEF Typed
  <1>2. r.at \in Nat /\ r.at + r.n <= NBlocks * U
    BY <1>1, PhysIs DEF Typed
  <1> DEFINE t == HalCalls(r)
             S(q) == SectorCalls(r.at + q, r.v)
             s(q) == r.at + q
  <1>3. t = [i \in 1 .. 3 * r.n |-> S((i - 1) \div 3)[((i - 1) % 3) + 1]]
    BY <1>1 DEF HalCalls, FatCalls
  <1>4. ASSUME NEW q \in 0 .. r.n - 1
        PROVE  /\ S(q) = <<Req("load", s(q), 1, r.v), Req("erase", s(q) - (s(q) % U), U, r.v),
                            Req("store", s(q), 1, r.v)>>
               /\ \A m \in 1 .. 3 : S(q)[m] \in Reqs /\ CallOk(S(q)[m])
               /\ Cells(S(q)[2]) = BlockOf(s(q))
    <2>1. s(q) \in Units
      BY <1>1, <1>2, MediumIs
    <2> QED BY <1>1, <2>1, SectorIs
  <1>5. ASSUME NEW q \in 0 .. r.n - 1
        PROVE  /\ S(q)[1].op = "load" /\ S(q)[2].op = "erase" /\ S(q)[3].op = "store"
               /\ S(q)[1].at = s(q) /\ S(q)[3].at = s(q) /\ S(q)[1].v = r.v /\ S(q)[3].v = r.v
               /\ \A m \in 1 .. 3 : S(q)[m] \in Reqs /\ CallOk(S(q)[m])
               /\ Cells(S(q)[2]) = BlockOf(S(q)[3].at)
    <2> HIDE DEF S, s
    <2>1. /\ S(q)[1] = Req("load", s(q), 1, r.v) /\ S(q)[3] = Req("store", s(q), 1, r.v)
          /\ S(q)[2] = Req("erase", s(q) - (s(q) % U), U, r.v)
      BY <1>4
    <2>2. /\ S(q)[1].op = "load" /\ S(q)[2].op = "erase" /\ S(q)[3].op = "store"
          /\ S(q)[1].at = s(q) /\ S(q)[3].at = s(q) /\ S(q)[1].v = r.v /\ S(q)[3].v = r.v
      BY <2>1 DEF Req
    <2> QED BY <1>4, <2>2
  <1> HIDE DEF S, s, t
  <1>6. ASSUME NEW i \in 1 .. 3 * r.n
        PROVE  \E q \in 0 .. r.n - 1, m \in 1 .. 3 : i = 3 * q + m /\ t[i] = S(q)[m]
    <2>1. /\ (i - 1) \div 3 \in 0 .. r.n - 1 /\ ((i - 1) % 3) + 1 \in 1 .. 3
          /\ i = 3 * ((i - 1) \div 3) + ((i - 1) % 3) + 1
      BY <1>1, SMT
    <2> QED BY <1>3, <2>1
  <1>7. ASSUME NEW q \in 0 .. r.n - 1, NEW m \in 1 .. 3
        PROVE  3 * q + m \in 1 .. 3 * r.n /\ t[3 * q + m] = S(q)[m]
    <2>1. /\ 3 * q + m \in 1 .. 3 * r.n /\ (3 * q + m - 1) \div 3 = q
          /\ ((3 * q + m - 1) % 3) + 1 = m
      BY <1>1, SMT
    <2> QED BY <1>3, <2>1
  <1>8. t \in Seq(Reqs) /\ Len(t) = 3 * r.n
    <2>1. \A i \in 1 .. 3 * r.n : t[i] \in Reqs
      BY <1>5, <1>6
    <2>2. t \in [1 .. 3 * r.n -> Reqs]
      BY <1>3, <2>1
    <2> QED BY <1>1, <2>2
  <1>9. \A i \in 1 .. 3 * r.n : CallOk(t[i])
    BY <1>5, <1>6
  <1>10. t[1].op = "load"
    <2>1. 3 * 0 + 1 = 1 /\ 0 \in 0 .. r.n - 1 /\ 1 \in 1 .. 3
      BY <1>1
    <2> QED BY <1>5, <1>7, <2>1
  <1>11. FatOrdered(t)
    <2> SUFFICES ASSUME NEW i \in 1 .. 3 * r.n
                 PROVE  /\ t[i].op # "write"
                        /\ t[i].op = "load" =>
                             i + 2 <= 3 * r.n /\ t[i + 1].op = "erase" /\ t[i + 2].op = "store"
                             /\ t[i + 2].at = t[i].at /\ t[i + 2].v = t[i].v
                        /\ t[i].op = "erase" =>
                             i + 1 <= 3 * r.n /\ t[i + 1].op = "store"
                             /\ Cells(t[i]) = BlockOf(t[i + 1].at)
                        /\ t[i].op = "store" => i = 3 * r.n \/ t[i + 1].op = "load"
                        /\ t[i].op = "read" => i = 3 * r.n
      BY <1>8 DEF FatOrdered
    <2>1. PICK q \in 0 .. r.n - 1, m \in 1 .. 3 : i = 3 * q + m /\ t[i] = S(q)[m]
      BY <1>6
    <2>2. CASE m = 1
      <3>1. i + 1 = 3 * q + 2 /\ i + 2 = 3 * q + 3 /\ 2 \in 1 .. 3 /\ 3 \in 1 .. 3
        BY <2>1, <2>2
      <3>2. t[i + 1] = S(q)[2] /\ t[i + 2] = S(q)[3] /\ i + 2 <= 3 * r.n
        BY <1>1, <1>7, <3>1
      <3> QED BY <1>5, <2>1, <2>2, <3>2
    <2>3. CASE m = 2
      <3>1. i + 1 = 3 * q + 3 /\ 3 \in 1 .. 3
        BY <2>1, <2>3
      <3>2. t[i + 1] = S(q)[3] /\ i + 1 <= 3 * r.n
        BY <1>1, <1>7, <3>1
      <3> QED BY <1>5, <2>1, <2>3, <3>2
    <2>4. CASE m = 3
      <3>1. ASSUME i # 3 * r.n PROVE t[i + 1].op = "load"
        <4>1. q + 1 \in 0 .. r.n - 1 /\ i + 1 = 3 * (q + 1) + 1 /\ 1 \in 1 .. 3
          BY <1>1, <2>1, <2>4, <3>1
        <4> QED BY <1>5, <1>7, <4>1
      <3> QED BY <1>5, <2>1, <2>4, <3>1
    <2> QED BY <2>1, <2>2, <2>3, <2>4
  <1> QED BY <1>1, <1>8, <1>9, <1>10, <1>11 DEF t
-----------------------------------------------------------------------------
(* The HAL call under way. *)

\* The first of the calls left, and the others.
LEMMA HeadIs ==
    ASSUME Typed, Pending, todo # <<>>
    PROVE  /\ Head(todo) = todo[1] /\ todo[1] \in Reqs /\ CallOk(todo[1]) /\ Len(todo) \in 1 .. 6
           /\ Tail(todo) \in Seq(Reqs) /\ Len(Tail(todo)) = Len(todo) - 1
           /\ \A i \in 1 .. Len(todo) - 1 : Tail(todo)[i] = todo[i + 1]
           /\ Tail(todo) = <<>> <=> Len(todo) = 1
  <1>1. todo \in Seq(Reqs) /\ Len(todo) <= 6
    BY DEF Typed
  <1>2. Len(todo) \in 1 .. 6
    <2> DEFINE n == Len(todo)
    <2>1. n \in Nat \ {0} /\ n <= 6
      BY <1>1, EmptySeq
    <2> HIDE DEF n
    <2>2. n \in 1 .. 6
      BY <2>1
    <2> QED BY <2>2 DEF n
  <1>3. /\ Tail(todo) \in Seq(Reqs) /\ Len(Tail(todo)) = Len(todo) - 1
        /\ \A i \in 1 .. Len(todo) - 1 : Tail(todo)[i] = todo[i + 1]
    BY <1>1, HeadTailProperties
  <1>4. Head(todo) = todo[1] /\ todo[1] \in Reqs
    BY <1>1, <1>2
  <1>5. CallOk(todo[1])
    BY <1>2 DEF Pending
  <1>6. Tail(todo) = <<>> <=> Len(todo) = 1
    BY <1>2, <1>3
  <1> QED BY <1>2, <1>3, <1>4, <1>5, <1>6

\* The HAL accepts it, or YAFFS's fixed geometry exceeds the medium.
LEMMA AcceptsIs ==
    ASSUME Typed, NEW c \in Reqs, CallOk(c)
    PROVE  Accepts(c) \/ (port = "yaffs" /\ YaffsBlocks > NBlocks)
  <1>1. /\ Cells(c) \subseteq Span /\ c.n > 0
        /\ c.op = "erase" => c.at % U = 0 /\ c.n % U = 0
    BY DEF CallOk, Reqs
  <1>2. CASE port # "yaffs"
    <2>1. Span \subseteq Units
      BY <1>2, PortIs DEF Span, Typed
    <2> QED BY <1>1, <2>1 DEF Accepts
  <1>3. CASE port = "yaffs" /\ YaffsBlocks <= NBlocks
    <2>1. U * YaffsBlocks <= U * NBlocks
      BY <1>3, MulMono, MediumIs
    <2>2. U * YaffsBlocks = YaffsBlocks * U /\ U * NBlocks = NBlocks * U
      BY MulFacts, MediumIs
    <2>3. Span \subseteq Units
      BY <1>3, <2>1, <2>2, MediumIs DEF Span
    <2> QED BY <1>1, <2>3 DEF Accepts
  <1> QED BY <1>2, <1>3, MediumIs

\* What the HAL stores is a content.
LEMMA StoredIs ==
    ASSUME NEW old \in Contents, NEW new \in Contents
    PROVE  Stored(old, new) \in Contents
  BY DEF Stored, Contents

\* The addresses of FatFs are the units.
LEMMA FatAddress ==
    ASSUME Typed, port = "fatfs"
    PROVE  Addresses(port) = Units /\ \A a \in Units : Phys(port, a) = a
  <1>1. /\ AddsBase(port) /\ Start(port) = 0 /\ Size(port) = NBlocks * U
    BY PortIs DEF Typed
  <1>2. First(port) = 0
    BY <1>1 DEF First
  <1> QED BY <1>1, <1>2, MediumIs DEF Addresses, Phys

\* The medium after a call, whole, failed or cut: only its cells change.
LEMMA AfterIs ==
    ASSUME Typed, NEW c \in Reqs, CallOk(c)
    PROVE  /\ After(c) \in [Units -> Contents]
           /\ \A u \in Units \ Cells(c) : After(c)[u] = mem[u]
           /\ \A u \in Units \cap Cells(c) :
                /\ c.op = "erase" => After(c)[u] = Blank
                /\ c.op = "write" => After(c)[u] = Stored(mem[u], c.v)
                /\ c.op = "store" => After(c)[u] = Stored(mem[u], block[u % U])
                /\ c.op \in {"read", "load"} => After(c)[u] = mem[u]
  <1>1. mem \in [Units -> Contents] /\ block \in [0 .. U - 1 -> Contents]
        /\ c.op \in {"load", "erase", "store", "write", "read"}
        /\ (c.op = "write" => c.v \in Contents)
    BY DEF Typed, CallOk, Contents, Reqs
  <1>2. ASSUME NEW u \in Units
        PROVE  /\ mem[u] \in Contents /\ Stored(mem[u], block[u % U]) \in Contents
               /\ c.op = "write" => Stored(mem[u], c.v) \in Contents
               /\ Blank \in Contents
    <2>1. u % U \in 0 .. U - 1
      BY MediumIs, DivMod
    <2> QED BY <1>1, <2>1, StoredIs DEF Contents
  <1>3. ASSUME NEW u \in Units
        PROVE  /\ After(c)[u] \in Contents
               /\ u \notin Cells(c) => After(c)[u] = mem[u]
               /\ u \in Cells(c) =>
                    /\ c.op = "erase" => After(c)[u] = Blank
                    /\ c.op = "write" => After(c)[u] = Stored(mem[u], c.v)
                    /\ c.op = "store" => After(c)[u] = Stored(mem[u], block[u % U])
                    /\ c.op \in {"read", "load"} => After(c)[u] = mem[u]
    <2>1. After(c)[u] =
             IF u \notin Cells(c) THEN mem[u]
             ELSE CASE c.op = "erase" -> Blank
                    [] c.op = "write" -> Stored(mem[u], c.v)
                    [] c.op = "store" -> Stored(mem[u], block[u % U])
                    [] OTHER -> mem[u]
      BY DEF After
    <2>2. CASE u \notin Cells(c)
      BY <1>2, <2>1, <2>2
    <2>3. CASE u \in Cells(c) /\ c.op = "erase"
      BY <1>2, <2>1, <2>3
    <2>4. CASE u \in Cells(c) /\ c.op = "write"
      BY <1>2, <2>1, <2>4
    <2>5. CASE u \in Cells(c) /\ c.op = "store"
      BY <1>2, <2>1, <2>5
    <2>6. CASE u \in Cells(c) /\ c.op \in {"read", "load"}
      BY <1>2, <2>1, <2>6
    <2> QED BY <1>1, <2>2, <2>3, <2>4, <2>5, <2>6
  <1>4. After(c) \in [Units -> Contents]
    <2>1. After(c) = [u \in Units |-> After(c)[u]]
      BY DEF After
    <2> QED BY <1>3, <2>1
  <1> QED BY <1>3, <1>4

\* A call that is cut touches its own units only, and a read none.
LEMMA CutIs ==
    ASSUME Typed, NEW c \in Reqs, CallOk(c), NEW m \in Cut(c)
    PROVE  /\ m \in [Units -> Contents]
           /\ \A u \in Units \ Cells(c) : m[u] = mem[u]
           /\ c.op \in {"read", "load"} => m = mem
  <1>1. mem \in [Units -> Contents] /\ Blank \in Contents /\ Junk \in Contents
        /\ c.op \in {"load", "erase", "store", "write", "read"}
    BY DEF Typed, Contents, Reqs
  <1>2. CASE m = mem
    BY <1>1, <1>2
  <1>3. CASE c.op = "erase"
    <2>1. PICK s : m = [u \in Units |-> IF u \in Cells(c) /\ u \div U \in s THEN Blank ELSE mem[u]]
      BY <1>3 DEF Cut
    <2> QED BY <1>1, <1>3, <2>1
  <1>4. CASE c.op \in {"write", "store"} /\ m # mem
    <2>1. PICK k \in Cells(c) :
            m = [u \in Units |-> IF u \in Cells(c) /\ u < k THEN After(c)[u]
                                 ELSE IF u = k THEN Junk ELSE mem[u]]
      BY <1>4 DEF Cut
    <2>2. \A u \in Units : After(c)[u] \in Contents
      BY AfterIs
    <2> QED BY <1>1, <1>4, <2>1, <2>2
  <1>5. CASE c.op \in {"read", "load"}
    BY <1>5, <1>2 DEF Cut
  <1> QED BY <1>1, <1>2, <1>3, <1>4, <1>5

\* What is promised afterwards has its type.
LEMMA LeftIs ==
    ASSUME Typed, NEW c \in Reqs, CallOk(c), NEW a \in Addresses(port)
    PROVE  Left(c, a) \in Contents \cup {Any}
  <1>1. /\ want[a] \in Contents \cup {Any} /\ Blank \in Contents
        /\ c.op \in {"load", "erase", "store", "write", "read"}
        /\ c.op \in {"store", "write"} => c.v \in Contents
    BY DEF Typed, CallOk, Contents, Reqs
  <1>2. c.op = "write" /\ want[a] # Any => Stored(want[a], c.v) \in Contents
    BY <1>1, StoredIs
  <1>3. c.op = "store" => port = "fatfs"
    BY DEF CallOk
  <1> QED BY <1>1, <1>2, <1>3 DEF Left
-----------------------------------------------------------------------------
(* YAFFS: tags only above data. *)

\* Data and spare bytes of a chunk lie in one block, and are erased together.
LEMMA ChunkPlace ==
    ASSUME Typed, port = "yaffs", NEW u \in Units, u % 2 = 0
    PROVE  /\ u \in Nat /\ u + 1 \in Units /\ u \div U = (u + 1) \div U
           /\ \A c \in Reqs : CallOk(c) /\ c.op = "erase" =>
                (u \in Cells(c) <=> u + 1 \in Cells(c))
  <1>1. U \in Nat \ {0} /\ u \in Nat /\ u < NBlocks * U /\ NBlocks * U \in Nat /\ NBlocks \in Nat
    BY MediumIs
  <1>2. U % 2 = 0
    BY ConstAssumption DEF Typed
  <1>3. PICK h \in Nat : U = 2 * h
    <2>1. U \div 2 \in Nat /\ U = 2 * (U \div 2) + (U % 2)
      BY <1>1, DivMod
    <2> QED BY <1>2, <2>1
  <1>4. ASSUME NEW x \in Nat, x % U = 0 PROVE x % 2 = 0
    <2> DEFINE q == x \div U
    <2>1. q \in Nat /\ x = U * q + 0
      BY <1>1, <1>4, DivMod
    <2> HIDE DEF q
    <2>2. x = 2 * (h * q) /\ h * q \in Nat
      BY <1>3, <2>1, SMT
    <2> DEFINE z == h * q
    <2> HIDE DEF z
    <2>3. z \in Nat /\ x = 2 * z
      BY <2>2 DEF z
    <2> QED BY <2>3
  <1>5. ASSUME NEW x \in Nat, x % U = 0
        PROVE  (u < x <=> u + 1 < x) /\ (x <= u <=> x <= u + 1)
    BY <1>1, <1>4, <1>5
  <1>6. u + 1 \in Units
    <2>1. (NBlocks * U) % U = 0
      BY <1>1, Multiples
    <2>2. u + 1 < NBlocks * U
      BY <1>1, <1>5, <2>1
    <2> QED BY <1>1, <2>2, MediumIs
  <1>7. u \div U = (u + 1) \div U
    <2> DEFINE q == u \div U
               r == u % U
    <2>1. q \in Nat /\ r \in 0 .. U - 1 /\ u = U * q + r
      BY <1>1, DivMod
    <2> HIDE DEF q, r
    <2>2. U * (q + 1) \in Nat /\ U * (q + 1) = U * q + U /\ U * (q + 1) = (q + 1) * U
      BY <1>1, <2>1, MulFacts, SMT
    <2>3. (U * (q + 1)) % U = 0
      BY <1>1, <2>1, <2>2, Multiples
    <2>4. u < U * (q + 1)
      BY <1>1, <2>1, <2>2
    <2>5. u + 1 < U * (q + 1)
      BY <1>5, <2>2, <2>3, <2>4
    <2>6. U * q \in Nat
      BY <1>1, <2>1, MulFacts
    <2>7. r + 1 \in 0 .. U - 1 /\ u + 1 = U * q + (r + 1)
      BY <1>1, <2>1, <2>2, <2>5, <2>6
    <2>8. (u + 1) \div U = q
      BY <1>1, <2>1, <2>7, DivModIs
    <2> QED BY <2>8 DEF q
  <1>8. ASSUME NEW c \in Reqs, CallOk(c), c.op = "erase"
        PROVE  u \in Cells(c) <=> u + 1 \in Cells(c)
    <2> DEFINE x == c.at
               y == c.at + c.n
    <2>1. c.at \in Nat /\ c.n \in Nat /\ c.at % U = 0 /\ c.n % U = 0
      BY <1>8 DEF CallOk, Reqs
    <2>2. y % U = 0
      BY <2>1, Multiples
    <2>3. Cells(c) = x .. y - 1
      <3>1. Cells(c) = c.at .. c.at + c.n - 1
        BY <1>8 DEF Cells
      <3> QED BY <2>1, <3>1 DEF x, y
    <2>4. x \in Nat /\ y \in Nat /\ x % U = 0
      BY <2>1
    <2> HIDE DEF x, y
    <2>5. (u < y <=> u + 1 < y) /\ (x <= u <=> x <= u + 1)
      BY <1>5, <2>2, <2>4
    <2>6. u \in x .. y - 1 <=> u + 1 \in x .. y - 1
      BY <1>1, <2>4, <2>5
    <2> QED BY <2>3, <2>6
  <1> QED BY <1>1, <1>6, <1>7, <1>8

\* The chunks on a medium.
Tagged(m) == \A u \in Units : u % 2 = 0 /\ m[u + 1] \in Data => m[u] = m[u + 1]
\* TagsFollowData, of a memory instead of the memory.
LEMMA TaggedIs == ASSUME port = "yaffs" PROVE TagsFollowData <=> Tagged(mem)
  BY DEF TagsFollowData, Tagged

\* A HAL call that ends, fails or is cut keeps them so.
LEMMA TaggedAfter ==
    ASSUME PortInv, port = "yaffs", todo # <<>>, NEW m, m \in Cut(todo[1]) \/ m = After(todo[1])
    PROVE  Tagged(m)
  <1> DEFINE c == todo[1]
  <1>1. /\ Typed /\ Pending /\ Chunk /\ Tagged(mem) /\ c \in Reqs /\ CallOk(c)
        /\ Blank \notin Data /\ Junk \notin Data
    BY HeadIs, TaggedIs, ConstAssumption DEF PortInv
  <1>2. CASE c.op = "read"
    <2>1. \A u \in Units : m[u] = mem[u]
      <3>1. CASE m \in Cut(c)
        BY <1>1, <1>2, <3>1, CutIs
      <3>2. CASE m = After(c)
        BY <1>1, <1>2, <3>2, AfterIs
      <3> QED BY <3>1, <3>2
    <2>2. \A u \in Units : u % 2 = 0 => u + 1 \in Units
      BY <1>1, ChunkPlace
    <2> QED BY <1>1, <2>1, <2>2 DEF Tagged
  <1>3. CASE c.op = "erase"
    <2>1. \E s : \A u \in Units : m[u] = IF u \in Cells(c) /\ u \div U \in s THEN Blank ELSE mem[u]
      <3>1. CASE m \in Cut(c)
        <4>1. PICK s : m = [u \in Units |-> IF u \in Cells(c) /\ u \div U \in s THEN Blank
                                            ELSE mem[u]]
          BY <1>3, <3>1 DEF Cut
        <4> QED BY <4>1
      <3>2. CASE m = After(c)
        <4> DEFINE s == {u \div U : u \in Units}
        <4>1. \A u \in Units : m[u] = IF u \in Cells(c) /\ u \div U \in s THEN Blank ELSE mem[u]
          BY <1>1, <1>3, <3>2, AfterIs
        <4> QED BY <4>1
      <3> QED BY <3>1, <3>2
    <2>2. PICK s : \A u \in Units :
            m[u] = IF u \in Cells(c) /\ u \div U \in s THEN Blank ELSE mem[u]
      BY <2>1
    <2>3. SUFFICES ASSUME NEW u \in Units, u % 2 = 0, m[u + 1] \in Data PROVE m[u] = m[u + 1]
      BY DEF Tagged
    <2>4. /\ u + 1 \in Units /\ u \div U = (u + 1) \div U
          /\ u \in Cells(c) <=> u + 1 \in Cells(c)
      BY <1>1, <1>3, <2>3, ChunkPlace
    <2>5. ~ (u + 1 \in Cells(c) /\ (u + 1) \div U \in s) /\ m[u + 1] = mem[u + 1]
      BY <1>1, <2>2, <2>3, <2>4
    <2>6. m[u] = mem[u]
      BY <2>2, <2>4, <2>5
    <2> QED BY <1>1, <2>3, <2>5, <2>6 DEF Tagged
  <1>4. CASE c.op = "write"
    <2>1. IsWrite(c) /\ c.v \in Data /\ c.at \in Nat /\ Cells(c) = {c.at}
      <3>1. c.at \in Nat /\ c.v \in Data
        BY <1>1, <1>4 DEF CallOk, Reqs
      <3>2. IsWrite(c)
        BY <1>1, <1>4 DEF Chunk
      <3>3. Cells(c) = c.at .. c.at + 1 - 1
        BY <1>4, <3>2 DEF Cells, IsWrite
      <3> QED BY <3>1, <3>2, <3>3
    <2>2. \A u \in Units : u # c.at => m[u] = mem[u]
      <3>1. CASE m \in Cut(c)
        BY <1>1, <2>1, <3>1, CutIs
      <3>2. CASE m = After(c)
        BY <1>1, <2>1, <3>2, AfterIs
      <3> QED BY <3>1, <3>2
    <2>3. c.at \in Units => m[c.at] \in {Junk, mem[c.at], Stored(mem[c.at], c.v)}
      <3>1. CASE m \in Cut(c) /\ m # mem
        <4>1. PICK k \in Cells(c) :
                m = [u \in Units |-> IF u \in Cells(c) /\ u < k THEN After(c)[u]
                                     ELSE IF u = k THEN Junk ELSE mem[u]]
          BY <1>4, <3>1 DEF Cut
        <4>2. k = c.at /\ ~ (c.at < k)
          BY <2>1
        <4> QED BY <4>1, <4>2
      <3>2. CASE m = After(c)
        BY <1>1, <1>4, <2>1, <3>2, AfterIs
      <3> QED BY <3>1, <3>2
    <2>4. CASE c.at % 2 = 0
      <3>1. \A u \in Units \cap {c.at, c.at + 1} : mem[u] = Blank
        BY <1>1, <1>4, <2>4 DEF Chunk
      <3>2. SUFFICES ASSUME NEW u \in Units, u % 2 = 0, m[u + 1] \in Data PROVE m[u] = m[u + 1]
        BY DEF Tagged
      <3>3. u \in Nat /\ u + 1 \in Units
        BY <1>1, <3>2, ChunkPlace
      <3>4. u + 1 # c.at
        BY <2>1, <2>4, <3>2, <3>3
      <3>5. m[u + 1] = mem[u + 1] /\ u # c.at
        BY <1>1, <2>1, <2>2, <3>1, <3>2, <3>3, <3>4
      <3> QED BY <1>1, <2>2, <3>2, <3>5 DEF Tagged
    <2>5. CASE c.at % 2 # 0
      <3>1. /\ c.at \in Units => mem[c.at] = Blank
            /\ c.at - 1 \in Units /\ mem[c.at - 1] = c.v
        BY <1>1, <1>4, <2>5 DEF Chunk
      <3>2. SUFFICES ASSUME NEW u \in Units, u % 2 = 0, m[u + 1] \in Data PROVE m[u] = m[u + 1]
        BY DEF Tagged
      <3>3. u \in Nat /\ u + 1 \in Units /\ u # c.at
        BY <1>1, <2>5, <3>2, ChunkPlace
      <3>4. CASE u + 1 = c.at
        <4>1. mem[c.at] = Blank /\ u = c.at - 1 /\ m[u] = c.v
          BY <2>1, <2>2, <3>1, <3>3, <3>4
        <4>2. Stored(mem[c.at], c.v) = c.v
          BY <4>1 DEF Stored
        <4> QED BY <1>1, <2>3, <3>2, <3>3, <3>4, <4>1, <4>2
      <3>5. CASE u + 1 # c.at
        BY <1>1, <2>2, <3>2, <3>3, <3>5 DEF Tagged
      <3> QED BY <3>4, <3>5
    <2> QED BY <2>4, <2>5
  <1>5. c.op \in {"read", "erase", "write"}
    BY <1>1 DEF CallOk, Reqs
  <1> QED BY <1>2, <1>3, <1>4, <1>5
-----------------------------------------------------------------------------
(* Steps. *)

\* A step after which no call is under way.
LEMMA RestKeeps ==
    ASSUME Typed, port' = port, hal' = hal, reg' \in BOOLEAN, mem' \in [Units -> Contents],
           block' \in [0 .. U - 1 -> Contents], todo' = <<>>,
           rc' \in {"ok", "error", "abort", "refused"},
           want' \in [Addresses(port) -> Contents \cup {Any}], calls' \in 0 .. MaxCalls,
           \A a \in Addresses(port) :
               Phys(port, a) \in Units => want'[a] \in {Any, mem'[Phys(port, a)]},
           Accepted', port = "yaffs" => Tagged(mem')
    PROVE  PortInv'
  <1>1. Len(todo') = 0 /\ todo' \in Seq(Reqs)
    BY EmptySeq
  <1>2. Typed'
    BY <1>1 DEF Typed
  <1>3. Pending' /\ FatOrder' /\ Buffered' /\ Chunk'
    BY <1>1 DEF Pending, FatOrder, FatOrdered, Buffered, Doing, Chunk
  <1>4. Agrees'
    BY DEF Agrees
  <1>5. TagsFollowData'
    BY DEF TagsFollowData, Tagged
  <1> QED BY <1>2, <1>3, <1>4, <1>5 DEF PortInv

\* The invariant holds at first.
LEMMA InitOk == Init => PortInv
  <1> SUFFICES ASSUME Init PROVE PortInv
    OBVIOUS
  <1>1. Len(todo) = 0 /\ todo \in Seq(Reqs) /\ todo = <<>>
    BY EmptySeq DEF Init
  <1>2. Blank \in Contents /\ Blank \notin Data /\ PortNames \subseteq AllPorts /\ MaxCalls \in Nat
    BY ConstAssumption DEF Contents
  <1>3. Typed
    <2>1. port \in AllPorts /\ port \in PortNames /\ hal \in {"sim", "mem"} /\ reg \in BOOLEAN
      BY <1>2 DEF Init
    <2>2. /\ mem \in [Units -> Contents] /\ block \in [0 .. U - 1 -> Contents]
          /\ want \in [Addresses(port) -> Contents \cup {Any}]
      BY <1>2 DEF Init
    <2>3. rc = "ok" /\ calls \in 0 .. MaxCalls
      BY <1>2 DEF Init
    <2> QED BY <1>1, <2>1, <2>2, <2>3 DEF Typed
  <1>4. Pending /\ FatOrder /\ Buffered /\ Chunk /\ Accepted
    BY <1>1 DEF Init, Pending, FatOrder, FatOrdered, Buffered, Doing, Chunk, Accepted
  <1>5. Agrees
    BY DEF Init, Agrees
  <1>6. port = "yaffs" => Tagged(mem)
    <2> SUFFICES ASSUME port = "yaffs", NEW u \in Units, u % 2 = 0, mem[u + 1] \in Data PROVE FALSE
      BY DEF Tagged
    <2> QED BY <1>2, <1>3, ChunkPlace DEF Init
  <1> QED BY <1>3, <1>4, <1>5, <1>6, TaggedIs DEF PortInv, TagsFollowData

\* Registering a HAL, or none, preserves the invariant.
LEMMA RegisterStep ==
    ASSUME PortInv, Register \/ Unregister
    PROVE  PortInv'
  <1>1. /\ Typed /\ Agrees /\ Accepted /\ (port = "yaffs" => Tagged(mem))
        /\ todo = <<>> /\ reg' \in BOOLEAN
        /\ UNCHANGED <<port, hal, mem, block, todo, rc, want, calls>>
    BY TaggedIs DEF PortInv, Register, Unregister
  <1>2. \A a \in Addresses(port) :
          Phys(port, a) \in Units => want[a] \in {Any, mem[Phys(port, a)]}
    BY <1>1 DEF Agrees, Rewriting, Doing
  <1>3. Accepted'
    BY <1>1 DEF Accepted
  <1> QED BY <1>1, <1>2, <1>3, RestKeeps DEF Typed

\* A library's call, up to its first HAL call, preserves the invariant.
LEMMA CallStep ==
    ASSUME PortInv, SomeCall
    PROVE  PortInv'
  <1>1. PICK r \in Requests(port) : Call(r)
    BY DEF SomeCall
  <1>2. /\ Typed /\ Agrees /\ Accepted /\ (port = "yaffs" => Tagged(mem))
        /\ todo = <<>> /\ calls' \in 0 .. MaxCalls /\ Allowed(r)
        /\ UNCHANGED <<port, hal, reg, mem, block, want>>
    <2>1. calls + 1 \in 0 .. MaxCalls
      BY <1>1, ConstAssumption DEF PortInv, Typed, Call
    <2> QED BY <1>1, <2>1, TaggedIs DEF PortInv, Call
  <1>3. \A a \in Addresses(port) :
          Phys(port, a) \in Units => want[a] \in {Any, mem[Phys(port, a)]}
    BY <1>2 DEF Agrees, Rewriting, Doing
  <1>4. CASE ~ (reg /\ InArea(r))
    <2>1. todo' = <<>> /\ rc' \in {"ok", "error", "abort"}
      BY <1>1, <1>4 DEF Call, Unserved
    <2>2. Accepted'
      BY <2>1 DEF Accepted
    <2> QED BY <1>2, <1>3, <2>1, <2>2, RestKeeps DEF Typed
  <1>5. CASE reg /\ InArea(r)
    <2> DEFINE t == HalCalls(r)
    <2>1. todo' = t /\ rc' = "ok"
      BY <1>1, <1>5 DEF Call
    <2> HIDE DEF t
    <2>2. SUFFICES /\ t \in Seq(Reqs) /\ Len(t) <= 6 /\ \A i \in 1 .. Len(t) : CallOk(t[i])
                   /\ port = "fatfs" => FatOrdered(t) /\ t[1].op \notin {"erase", "store"}
                   /\ port = "yaffs" =>
                        \/ Len(t) = 1 /\ t[1].op \in {"erase", "read"}
                        \/ /\ Len(t) = 2 /\ IsWrite(t[1]) /\ IsWrite(t[2]) /\ t[1].at % 2 = 0
                           /\ t[2].at = t[1].at + 1 /\ t[2].v = t[1].v
                           /\ \A u \in Units \cap {t[1].at, t[1].at + 1} : mem[u] = Blank
      <3>1. Typed'
        BY <1>2, <1>5, <2>1, <2>2 DEF Typed
      <3>2. Pending'
        BY <1>2, <2>1, <2>2 DEF Pending, CallOk, Span
      <3>3. FatOrder' /\ Buffered' /\ Chunk'
        BY <1>2, <2>1, <2>2 DEF FatOrder, Buffered, Doing, Chunk
      <3>4. Agrees' /\ Accepted' /\ TagsFollowData'
        BY <1>2, <1>3, <2>1 DEF Agrees, Accepted, TagsFollowData, Tagged
      <3> QED BY <3>1, <3>2, <3>3, <3>4 DEF PortInv
    <2>3. CASE r.op = "write" /\ port = "fatfs"
      <3>1. r \in Writes(port)
        BY <1>2, <2>3, ErasesAre, ReadsAre DEF Requests, Typed
      <3> QED BY <1>2, <2>3, <3>1, FatWrites DEF t
    <2>4. CASE r.op = "write" /\ port = "yaffs"
      <3>1. r \in Writes(port)
        BY <1>2, <2>4, ErasesAre, ReadsAre DEF Requests, Typed
      <3>2. /\ t \in Seq(Reqs) /\ Len(t) = 2 /\ CallOk(t[1]) /\ CallOk(t[2])
            /\ IsWrite(t[1]) /\ IsWrite(t[2])
            /\ t[1].at = r.at /\ t[2].at = r.at + 1 /\ t[2].v = t[1].v /\ r.at % 2 = 0
        BY <1>2, <2>4, <3>1, ChunkWrites DEF t
      <3>3. \A u \in Units \cap {r.at, r.at + 1} : mem[u] = Blank
        BY <1>2, <2>4 DEF Allowed
      <3> QED BY <2>4, <3>2, <3>3
    <2>5. CASE r.op = "write" => port \notin {"fatfs", "yaffs"}
      <3>1. PICK c \in Reqs :
              /\ t = <<c>> /\ CallOk(c) /\ c.op \in {"write", "erase", "read"}
              /\ port = "fatfs" => c.op = "read"
              /\ port = "yaffs" => c.op \in {"erase", "read"}
        BY <1>2, <1>5, <2>5, OneCall DEF t
      <3>2. t \in Seq(Reqs) /\ Len(t) = 1 /\ t[1] = c
        BY <3>1
      <3>3. port = "fatfs" => FatOrdered(t)
        BY <3>1, <3>2 DEF FatOrdered
      <3> QED BY <3>1, <3>2, <3>3
    <2> QED BY <2>3, <2>4, <2>5
  <1> QED BY <1>4, <1>5
\* A HAL call that ends: the calls that remain.
LEMMA TailOk ==
    ASSUME Typed, Pending, FatOrder, todo # <<>>, todo' = Tail(todo), port' = port
    PROVE  Pending' /\ FatOrder'
  <1> DEFINE t == Tail(todo)
  <1>1. /\ t \in Seq(Reqs) /\ Len(t) = Len(todo) - 1 /\ Len(todo) \in 1 .. 6
        /\ \A i \in 1 .. Len(todo) - 1 : t[i] = todo[i + 1]
    BY HeadIs
  <1>2. todo' = t
    OBVIOUS
  <1> HIDE DEF t
  <1>3. ASSUME NEW i \in 1 .. Len(t)
        PROVE  i + 1 \in 1 .. Len(todo) /\ t[i] = todo[i + 1]
    BY <1>1
  <1>4. \A i \in 1 .. Len(t) : CallOk(t[i])
    BY <1>3 DEF Pending
  <1>5. Pending'
    BY <1>2, <1>4 DEF Pending, CallOk, Span
  <1>6. ASSUME port = "fatfs" PROVE FatOrdered(t)
    <2> SUFFICES ASSUME NEW i \in 1 .. Len(t)
                 PROVE  /\ t[i].op # "write"
                        /\ t[i].op = "load" =>
                             i + 2 <= Len(t) /\ t[i + 1].op = "erase" /\ t[i + 2].op = "store"
                             /\ t[i + 2].at = t[i].at /\ t[i + 2].v = t[i].v
                        /\ t[i].op = "erase" =>
                             i + 1 <= Len(t) /\ t[i + 1].op = "store"
                             /\ Cells(t[i]) = BlockOf(t[i + 1].at)
                        /\ t[i].op = "store" => i = Len(t) \/ t[i + 1].op = "load"
                        /\ t[i].op = "read" => i = Len(t)
      BY DEF FatOrdered
    <2>1. /\ todo[i + 1].op # "write"
          /\ todo[i + 1].op = "load" =>
               i + 3 <= Len(todo) /\ todo[i + 2].op = "erase" /\ todo[i + 3].op = "store"
               /\ todo[i + 3].at = todo[i + 1].at /\ todo[i + 3].v = todo[i + 1].v
          /\ todo[i + 1].op = "erase" =>
               i + 2 <= Len(todo) /\ todo[i + 2].op = "store"
               /\ Cells(todo[i + 1]) = BlockOf(todo[i + 2].at)
          /\ todo[i + 1].op = "store" => i + 1 = Len(todo) \/ todo[i + 2].op = "load"
          /\ todo[i + 1].op = "read" => i + 1 = Len(todo)
      <3>1. i + 1 \in 1 .. Len(todo) /\ (i + 1) + 1 = i + 2 /\ (i + 1) + 2 = i + 3
        BY <1>1
      <3> QED BY <1>6, <3>1 DEF FatOrder, FatOrdered
    <2>2. /\ t[i] = todo[i + 1] /\ Len(t) = Len(todo) - 1 /\ i \in Nat /\ Len(todo) \in Nat
          /\ i + 2 <= Len(todo) => t[i + 1] = todo[i + 2]
          /\ i + 3 <= Len(todo) => t[i + 2] = todo[i + 3]
      <3>1. i + 2 <= Len(todo) => i + 1 \in 1 .. Len(t) /\ (i + 1) + 1 = i + 2
        BY <1>1
      <3>2. i + 3 <= Len(todo) => i + 2 \in 1 .. Len(t) /\ (i + 2) + 1 = i + 3
        BY <1>1
      <3> QED BY <1>1, <1>3, <3>1, <3>2
    <2>3. i + 1 = Len(todo) <=> i = Len(t)
      BY <1>1
    <2>4. /\ i + 3 <= Len(todo) <=> i + 2 <= Len(t)
          /\ i + 2 <= Len(todo) <=> i + 1 <= Len(t)
      BY <1>1
    <2>5. i # Len(t) => i + 2 <= Len(todo)
      BY <1>1
    <2>6. i + 3 <= Len(todo) => i + 2 <= Len(todo)
      BY <1>1
    <2> QED BY <2>1, <2>2, <2>3, <2>4, <2>5, <2>6
  <1> QED BY <1>2, <1>5, <1>6 DEF FatOrder

\* FatFs: what the buffer and the block hold after the call.
LEMMA FatStep ==
    ASSUME PortInv, port = "fatfs", Step
    PROVE  Buffered' /\ Agrees'
  <1> DEFINE c == todo[1]
             A == Addresses(port)
  <1>1. /\ Typed /\ Pending /\ FatOrder /\ Buffered /\ Agrees /\ todo # <<>>
        /\ c \in Reqs /\ CallOk(c) /\ Len(todo) \in 1 .. 6
        /\ Len(todo') = Len(todo) - 1 /\ \A i \in 1 .. Len(todo) - 1 : todo'[i] = todo[i + 1]
        /\ (todo' = <<>> <=> Len(todo) = 1)
    BY HeadIs DEF PortInv, Step
  <1>2. /\ mem' = After(c) /\ block' = (IF c.op = "load" THEN Loaded(c) ELSE block)
        /\ want' = [a \in A |-> Left(c, a)] /\ port' = port /\ Accepts(c)
    BY <1>1, HeadIs DEF Step
  <1>3. /\ A = Units /\ \A a \in Units : Phys(port, a) = a
    BY <1>1, FatAddress
  <1>4. /\ c.op # "write"
        /\ c.op = "load" =>
             3 <= Len(todo) /\ todo[2].op = "erase" /\ todo[3].op = "store"
             /\ todo[3].at = c.at /\ todo[3].v = c.v
        /\ c.op = "erase" =>
             2 <= Len(todo) /\ todo[2].op = "store" /\ Cells(c) = BlockOf(todo[2].at)
        /\ c.op = "store" => 1 = Len(todo) \/ todo[2].op = "load"
        /\ c.op = "read" => 1 = Len(todo)
    <2>1. 1 \in 1 .. Len(todo) /\ 1 + 1 = 2 /\ 1 + 2 = 3
      BY <1>1
    <2> QED BY <1>1, <2>1 DEF FatOrder, FatOrdered
  <1>5. c.op \in {"load", "erase", "store", "read"}
    BY <1>1, <1>4 DEF Reqs
  <1>6. \A op : Doing(op) <=> c.op = op
    BY <1>1 DEF Doing
  <1>7. \A op : Doing(op)' <=> Len(todo) > 1 /\ todo[2].op = op
    <2>1. Len(todo) > 1 => todo'[1] = todo[2]
      BY <1>1
    <2>2. todo' # <<>> <=> Len(todo) > 1
      BY <1>1
    <2> QED BY <2>1, <2>2 DEF Doing
  <1>8. SUFFICES /\ Buffered'
                 /\ \A a \in Units : want'[a] \in {Any, mem'[a]} \/ Rewriting(a)'
    BY <1>2, <1>3 DEF Agrees
  <1>9. \A a \in Units : want[a] \in {Any, mem[a]} \/ Rewriting(a)
    BY <1>1, <1>3 DEF Agrees
  <1>10. ASSUME NEW a \in Units
         PROVE  want'[a] = IF c.op = "store" /\ a = c.at /\ a \in Cells(c) THEN c.v ELSE want[a]
    BY <1>2, <1>3, <1>5 DEF Left
  <1> HIDE DEF c, A
  <1>11. CASE c.op = "read"
    <2>1. \A op : ~ Doing(op)'
      <3>1. Len(todo) = 1
        BY <1>4, <1>11
      <3>2. ~ (Len(todo) > 1)
        BY <3>1
      <3> QED BY <1>7, <3>2
    <2>2. \A a \in Units : mem'[a] = mem[a] /\ ~ Rewriting(a)
      BY <1>1, <1>2, <1>6, <1>11, AfterIs DEF Rewriting
    <2> QED BY <1>9, <1>10, <1>11, <2>1, <2>2 DEF Buffered
  <1>12. CASE c.op = "load"
    <2>1. /\ \A op : Doing(op)' <=> op = "erase"
          /\ todo'[2] = todo[3]
      BY <1>1, <1>4, <1>7, <1>12
    <2>2. \A a \in Units : mem'[a] = mem[a] /\ ~ Rewriting(a)
      BY <1>1, <1>2, <1>6, <1>12, AfterIs DEF Rewriting
    <2>3. c.at \in Nat /\ BlockOf(c.at) \subseteq Units
      BY <1>1, <1>2, <1>12 DEF Accepts, Cells, Reqs
    <2>4. c.at % U \in 0 .. U - 1
      BY <2>3, BlockIs
    <2>5. block' = Loaded(c)
      BY <1>2, <1>12
    <2>6. block'[c.at % U] = c.v
      BY <2>4, <2>5 DEF Loaded
    <2>7. ASSUME NEW a \in BlockOf(c.at), a # c.at PROVE block'[a % U] = mem'[a]
      <3>1. /\ a % U \in 0 .. U - 1 /\ a = c.at - (c.at % U) + (a % U)
            /\ a - (a % U) = c.at - (c.at % U) /\ a \in Nat
        BY <2>3, InBlockIs
      <3>2. a % U # c.at % U
        BY <2>3, <2>4, <2>7, <3>1
      <3>3. block'[a % U] = mem[c.at - (c.at % U) + (a % U)]
        BY <2>5, <3>1, <3>2 DEF Loaded
      <3> QED BY <2>2, <2>3, <2>7, <3>1, <3>3
    <2>8. Buffered'
      BY <1>4, <1>12, <2>1, <2>6, <2>7 DEF Buffered
    <2> QED BY <1>9, <1>10, <1>12, <2>2, <2>8
  <1>13. CASE c.op = "erase"
    <2>1. /\ \A op : Doing(op)' <=> op = "store"
          /\ todo'[1] = todo[2] /\ Cells(c) = BlockOf(todo[2].at)
      BY <1>1, <1>4, <1>7, <1>13
    <2>2. BlockOf(todo[2].at) \subseteq Units /\ \A a \in Units : ~ Rewriting(a)
      BY <1>2, <1>6, <1>13, <2>1 DEF Accepts, Rewriting
    <2>3. /\ block[todo[2].at % U] = todo[2].v
          /\ \A a \in BlockOf(todo[2].at) : a # todo[2].at => block[a % U] = mem[a]
      BY <1>1, <1>6, <1>13 DEF Buffered
    <2>4. block' = block /\ \A a \in Units : want'[a] = want[a]
      BY <1>2, <1>10, <1>13
    <2>5. \A a \in Units : IF a \in Cells(c) THEN mem'[a] = Blank ELSE mem'[a] = mem[a]
      BY <1>1, <1>2, <1>13, AfterIs
    <2>6. Buffered'
      <3>1. block'[todo'[1].at % U] = todo'[1].v
        BY <2>1, <2>3, <2>4
      <3>2. ASSUME NEW a \in BlockOf(todo'[1].at)
            PROVE  mem'[a] = Blank /\ (a # todo'[1].at => want'[a] \in {Any, block'[a % U]})
        BY <1>9, <2>1, <2>2, <2>3, <2>4, <2>5, <3>2
      <3> QED BY <2>1, <3>1, <3>2 DEF Buffered
    <2>7. ASSUME NEW a \in Units PROVE want'[a] \in {Any, mem'[a]} \/ Rewriting(a)'
      <3>1. CASE a \in Cells(c)
        BY <1>2, <2>1, <3>1 DEF Rewriting
      <3>2. CASE a \notin Cells(c)
        BY <1>9, <2>2, <2>4, <2>5, <3>2
      <3> QED BY <3>1, <3>2
    <2> QED BY <2>6, <2>7
  <1>14. CASE c.op = "store"
    <2>1. ~ Doing("erase")' /\ ~ Doing("store")'
      BY <1>1, <1>4, <1>7, <1>14
    <2>2. Cells(c) = BlockOf(c.at) /\ Cells(c) \subseteq Units /\ c.at \in Nat /\ c.v \in Data
      BY <1>1, <1>2, <1>14 DEF Accepts, Cells, Reqs, CallOk
    <2>3. /\ block[c.at % U] = c.v
          /\ \A a \in BlockOf(c.at) :
               mem[a] = Blank /\ (a # c.at => want[a] \in {Any, block[a % U]})
      BY <1>1, <1>6, <1>14 DEF Buffered, c
    <2>4. ASSUME NEW a \in Units, a \in Cells(c) PROVE mem'[a] = block[a % U]
      <3>1. mem'[a] = Stored(mem[a], block[a % U]) /\ mem[a] = Blank
        BY <1>1, <1>2, <1>14, <2>2, <2>3, <2>4, AfterIs
      <3> QED BY <3>1 DEF Stored
    <2>5. ASSUME NEW a \in Units PROVE want'[a] \in {Any, mem'[a]}
      <3>1. CASE a \in Cells(c)
        BY <1>10, <1>14, <2>2, <2>3, <2>4, <3>1
      <3>2. CASE a \notin Cells(c)
        <4>1. mem'[a] = mem[a] /\ want'[a] = want[a] /\ ~ Rewriting(a)
          BY <1>1, <1>2, <1>10, <2>2, <3>2, AfterIs DEF Rewriting, c
        <4> QED BY <1>9, <4>1
      <3> QED BY <3>1, <3>2
    <2> QED BY <2>1, <2>5 DEF Buffered
  <1> QED BY <1>5, <1>11, <1>12, <1>13, <1>14

\* The others: every address is as it was promised.
LEMMA PlainStep ==
    ASSUME PortInv, port # "fatfs", Step
    PROVE  Buffered' /\ Agrees'
  <1> DEFINE c == todo[1]
  <1>1. /\ Typed /\ Pending /\ Agrees /\ todo # <<>> /\ c \in Reqs /\ CallOk(c)
        /\ Head(todo) = c
    BY HeadIs DEF PortInv, Step
  <1>2. /\ mem' = After(c) /\ want' = [a \in Addresses(port) |-> Left(c, a)]
        /\ port' = port /\ hal' = hal
    BY <1>1 DEF Step
  <1>3. c.op \in {"write", "erase", "read"}
    BY <1>1 DEF CallOk, Reqs
  <1> HIDE DEF c
  <1>4. ASSUME NEW a \in Addresses(port), Phys(port, a) \in Units
        PROVE  want'[a] \in {Any, mem'[Phys(port, a)]}
    <2> DEFINE u == Phys(port, a)
    <2>1. want[a] \in {Any, mem[u]} /\ want'[a] = Left(c, a)
      BY <1>1, <1>2, <1>4 DEF Agrees, Rewriting
    <2>2. u \in Units
      BY <1>4
    <2>3. Left(c, a) = IF u \notin Cells(c) \/ c.op \in {"load", "read"} THEN want[a]
                       ELSE IF c.op = "erase" THEN Blank
                       ELSE IF want[a] = Any THEN Any ELSE Stored(want[a], c.v)
      BY DEF Left
    <2> HIDE DEF u
    <2>4. CASE u \notin Cells(c) \/ c.op = "read"
      <3>1. mem'[u] = mem[u]
        BY <1>1, <1>2, <2>2, <2>4, AfterIs
      <3> QED BY <2>1, <2>3, <2>4, <3>1 DEF u
    <2>5. CASE u \in Cells(c) /\ c.op = "erase"
      <3>1. mem'[u] = Blank
        BY <1>1, <1>2, <2>2, <2>5, AfterIs
      <3> QED BY <2>1, <2>3, <2>5, <3>1 DEF u
    <2>6. CASE u \in Cells(c) /\ c.op = "write"
      <3>1. mem'[u] = Stored(mem[u], c.v)
        BY <1>1, <1>2, <2>2, <2>6, AfterIs
      <3>2. want[a] = Any \/ want[a] = mem[u]
        BY <2>1
      <3>3. Left(c, a) \in {Any, Stored(mem[u], c.v)}
        BY <2>3, <2>6, <3>2
      <3> QED BY <2>1, <3>1, <3>3 DEF u
    <2> QED BY <1>3, <2>4, <2>5, <2>6
  <1>5. Agrees'
    BY <1>2, <1>4 DEF Agrees
  <1>6. Buffered'
    BY <1>2 DEF Buffered
  <1> QED BY <1>5, <1>6
\* A HAL call that succeeds preserves the invariant.
LEMMA StepStep ==
    ASSUME PortInv, Step
    PROVE  PortInv'
  <1> DEFINE c == todo[1]
             t == Tail(todo)
  <1>1. /\ Typed /\ Pending /\ FatOrder /\ Chunk /\ Accepted /\ todo # <<>>
        /\ c \in Reqs /\ CallOk(c) /\ Head(todo) = c
        /\ Len(todo) \in 1 .. 6 /\ t \in Seq(Reqs) /\ Len(t) = Len(todo) - 1
        /\ \A i \in 1 .. Len(todo) - 1 : t[i] = todo[i + 1]
        /\ (t = <<>> <=> Len(todo) = 1)
    BY HeadIs DEF PortInv, Step
  <1>2. /\ mem' = After(c) /\ block' = (IF c.op = "load" THEN Loaded(c) ELSE block)
        /\ want' = [a \in Addresses(port) |-> Left(c, a)] /\ Accepts(c) /\ todo' = t
        /\ UNCHANGED <<port, hal, reg, rc, calls>>
    BY <1>1 DEF Step
  <1> HIDE DEF c, t
  <1>3. Typed'
    <2>1. mem' \in [Units -> Contents]
      BY <1>1, <1>2, AfterIs
    <2>2. want' \in [Addresses(port) -> Contents \cup {Any}]
      BY <1>1, <1>2, LeftIs
    <2>3. block' \in [0 .. U - 1 -> Contents]
      <3>1. CASE c.op = "load"
        <4>1. c.at \in Nat /\ c.v \in Contents /\ BlockOf(c.at) \subseteq Units
          BY <1>1, <1>2, <3>1 DEF Accepts, Cells, Reqs, Contents
        <4>2. ASSUME NEW i \in 0 .. U - 1 PROVE c.at - (c.at % U) + i \in BlockOf(c.at)
          <5>1. c.at - (c.at % U) \in Nat /\ U \in Nat
            BY <4>1, BlockIs, MediumIs
          <5> QED BY <5>1 DEF BlockOf
        <4>3. \A i \in 0 .. U - 1 : mem[c.at - (c.at % U) + i] \in Contents
          BY <1>1, <4>1, <4>2 DEF Typed
        <4> QED BY <1>2, <3>1, <4>1, <4>3 DEF Loaded
      <3> QED BY <1>1, <1>2, <3>1 DEF Typed
    <2>4. Len(t) <= 6 /\ t \in Seq(Reqs)
      <3> DEFINE n == Len(todo)
                 k == Len(t)
      <3>1. n \in 1 .. 6 /\ k = n - 1
        BY <1>1
      <3> HIDE DEF n, k
      <3>2. k <= 6
        BY <3>1
      <3> QED BY <1>1, <3>2 DEF k
    <2> QED BY <1>1, <1>2, <2>1, <2>2, <2>3, <2>4 DEF Typed
  <1>4. Pending' /\ FatOrder'
    BY <1>1, <1>2, TailOk DEF t
  <1>5. Buffered' /\ Agrees'
    BY FatStep, PlainStep
  <1>6. Chunk'
    <2> SUFFICES ASSUME port = "yaffs", t # <<>> PROVE Chunk'
      BY <1>2 DEF Chunk
    <2>1. Len(todo) # 1
      BY <1>1
    <2>2. /\ Len(todo) = 2 /\ IsWrite(c) /\ IsWrite(todo[2]) /\ c.at % 2 = 0
          /\ todo[2].at = c.at + 1 /\ todo[2].v = c.v
          /\ \A u \in Units \cap {c.at, c.at + 1} : mem[u] = Blank
      BY <1>1, <2>1 DEF Chunk, c
    <2>3. c.at \in Nat /\ c.op = "write" /\ Cells(c) = {c.at} /\ c.at \in Units
      <3>1. c.at \in Nat /\ c.op = "write"
        BY <1>1, <2>2 DEF Reqs, IsWrite
      <3>2. Cells(c) = c.at .. c.at + 1 - 1
        BY <2>2, <3>1 DEF Cells, IsWrite
      <3>3. Cells(c) = {c.at}
        BY <3>1, <3>2
      <3> QED BY <1>2, <3>1, <3>3 DEF Accepts
    <2>4. Len(t) = 1 /\ t[1] = todo[2]
      BY <1>1, <2>2
    <2>5. mem'[c.at] = c.v
      <3>1. mem'[c.at] = Stored(mem[c.at], c.v)
        BY <1>1, <1>2, <2>3, AfterIs
      <3> QED BY <2>2, <2>3, <3>1 DEF Stored
    <2>6. c.at + 1 \in Units => mem'[c.at + 1] = Blank
      <3>1. c.at + 1 # c.at
        BY <2>3
      <3>2. c.at + 1 \in Units => mem'[c.at + 1] = mem[c.at + 1]
        BY <1>1, <1>2, <2>3, <3>1, AfterIs
      <3> QED BY <2>2, <3>2
    <2>7. (c.at + 1) % 2 = 1 /\ (c.at + 1) - 1 = c.at
      BY <2>2, <2>3
    <2>8. /\ Len(t) = 1 /\ IsWrite(t[1]) /\ t[1].at % 2 = 1
          /\ t[1].at \in Units => mem'[t[1].at] = Blank
          /\ t[1].at - 1 \in Units /\ mem'[t[1].at - 1] = t[1].v
      BY <2>2, <2>3, <2>4, <2>5, <2>6, <2>7
    <2> QED BY <1>2, <2>8 DEF Chunk
  <1>7. Accepted'
    BY <1>1, <1>2 DEF Accepted
  <1>8. TagsFollowData'
    <2>1. port = "yaffs" => Tagged(mem')
      BY <1>1, <1>2, TaggedAfter DEF c
    <2> QED BY <1>2, <2>1 DEF TagsFollowData, Tagged
  <1> QED BY <1>3, <1>4, <1>5, <1>6, <1>7, <1>8 DEF PortInv

\* A HAL call that fails or is cut: its cells are no longer promised.
LEMMA CutKeeps ==
    ASSUME PortInv, todo # <<>>, NEW m \in Cut(todo[1])
    PROVE  /\ m \in [Units -> Contents]
           /\ Forget(AtRisk(todo[1])) \in [Addresses(port) -> Contents \cup {Any}]
           /\ \A a \in Addresses(port) :
                Phys(port, a) \in Units =>
                    Forget(AtRisk(todo[1]))[a] \in {Any, m[Phys(port, a)]}
           /\ port = "yaffs" => Tagged(m)
  <1> DEFINE c == todo[1]
             w == Forget(AtRisk(todo[1]))
  <1>1. Typed /\ Pending /\ Agrees /\ c \in Reqs /\ CallOk(c)
    BY HeadIs DEF PortInv
  <1>2. /\ m \in [Units -> Contents] /\ \A u \in Units \ Cells(c) : m[u] = mem[u]
        /\ c.op \in {"read", "load"} => m = mem
    BY <1>1, CutIs
  <1>3. w \in [Addresses(port) -> Contents \cup {Any}]
    BY <1>1 DEF Forget, Typed
  <1>4. ASSUME NEW a \in Addresses(port), Phys(port, a) \in Units
        PROVE  w[a] \in {Any, m[Phys(port, a)]}
    <2>1. CASE Phys(port, a) \in AtRisk(c)
      BY <2>1 DEF Forget
    <2>2. CASE Phys(port, a) \notin AtRisk(c)
      <3>1. w[a] = want[a] /\ m[Phys(port, a)] = mem[Phys(port, a)]
        BY <1>2, <1>4, <2>2 DEF Forget, AtRisk
      <3>2. ~ Rewriting(a)
        <4>1. ASSUME Rewriting(a) PROVE a \in AtRisk(c) /\ Phys(port, a) = a
          <5>1. port = "fatfs" /\ c.op = "store" /\ a \in BlockOf(c.at)
            BY <4>1 DEF Rewriting, Doing
          <5> QED BY <1>1, <1>4, <5>1, FatAddress DEF AtRisk, Cells
        <4> QED BY <2>2, <4>1
      <3> QED BY <1>1, <1>4, <3>1, <3>2 DEF Agrees
    <2> QED BY <2>1, <2>2
  <1>5. port = "yaffs" => Tagged(m)
    BY TaggedAfter
  <1> QED BY <1>2, <1>3, <1>4, <1>5

\* A HAL call that is refused preserves the invariant.
LEMMA HalRefusesStep ==
    ASSUME PortInv, HalRefuses
    PROVE  PortInv'
  <1>1. /\ Typed /\ Pending /\ Agrees /\ todo # <<>> /\ ~ Accepts(todo[1])
        /\ todo[1] \in Reqs /\ CallOk(todo[1])
        /\ todo' = <<>> /\ rc' \in {"abort", "refused"} /\ reg' \in BOOLEAN
        /\ UNCHANGED <<port, hal, mem, block, want, calls>>
        /\ (port = "yaffs" => Tagged(mem))
    BY HeadIs, TaggedIs DEF PortInv, HalRefuses, Fail
  <1>2. port = "yaffs" /\ YaffsBlocks > NBlocks
    BY <1>1, AcceptsIs
  <1>3. \A a \in Addresses(port) : Phys(port, a) \in Units => want[a] \in {Any, mem[Phys(port, a)]}
    BY <1>1, <1>2 DEF Agrees, Rewriting
  <1>4. Accepted'
    BY <1>1, <1>2 DEF Accepted
  <1> QED BY <1>1, <1>3, <1>4, RestKeeps DEF Typed

\* A HAL call that fails preserves the invariant.
LEMMA HalFailsStep ==
    ASSUME PortInv, HalFails
    PROVE  PortInv'
  <1>1. /\ Typed /\ todo # <<>> /\ mem' \in Cut(todo[1]) /\ want' = Forget(AtRisk(todo[1]))
        /\ todo' = <<>> /\ rc' \in {"abort", "error"} /\ reg' \in BOOLEAN
        /\ UNCHANGED <<port, hal, block, calls>>
    BY HeadIs DEF PortInv, HalFails, Fail
  <1>2. /\ mem' \in [Units -> Contents] /\ want' \in [Addresses(port) -> Contents \cup {Any}]
        /\ \A a \in Addresses(port) :
             Phys(port, a) \in Units => want'[a] \in {Any, mem'[Phys(port, a)]}
        /\ (port = "yaffs" => Tagged(mem'))
    BY <1>1, CutKeeps
  <1>3. Accepted'
    BY <1>1 DEF Accepted
  <1> QED BY <1>1, <1>2, <1>3, RestKeeps DEF Typed

\* A loss of power preserves the invariant.
LEMMA PowerLossStep ==
    ASSUME PortInv, PowerLoss
    PROVE  PortInv'
  <1>1. /\ Typed /\ Agrees /\ (port = "yaffs" => Tagged(mem))
        /\ reg' = FALSE /\ todo' = <<>> /\ rc' = "error"
        /\ block' = [i \in 0 .. U - 1 |-> Blank] /\ UNCHANGED <<port, hal, calls>>
    BY TaggedIs DEF PortInv, PowerLoss
  <1>2. Blank \in Contents /\ Blank \notin Data
    BY ConstAssumption DEF Contents
  <1>3. block' \in [0 .. U - 1 -> Contents] /\ Accepted'
    BY <1>1, <1>2 DEF Accepted
  <1>4. /\ mem' \in [Units -> Contents] /\ want' \in [Addresses(port) -> Contents \cup {Any}]
        /\ \A a \in Addresses(port) :
             Phys(port, a) \in Units => want'[a] \in {Any, mem'[Phys(port, a)]}
        /\ (port = "yaffs" => Tagged(mem'))
    <2>1. CASE hal = "mem"
      <3>1. /\ mem' = [u \in Units |-> Blank]
            /\ want' = [a \in Addresses(port) |-> Blank]
        BY <2>1 DEF PowerLoss
      <3>2. port = "yaffs" => Tagged(mem')
        <4> SUFFICES ASSUME port = "yaffs", NEW u \in Units, u % 2 = 0, mem'[u + 1] \in Data
                     PROVE FALSE
          BY DEF Tagged
        <4>1. u + 1 \in Units
          BY <1>1, ChunkPlace
        <4> QED BY <1>2, <3>1, <4>1
      <3> QED BY <1>2, <3>1, <3>2
    <2>2. CASE hal # "mem" /\ todo = <<>>
      <3>1. mem' = mem /\ want' = want /\ \A a : ~ Rewriting(a)
        BY <2>2 DEF PowerLoss, Rewriting, Doing
      <3> QED BY <1>1, <3>1 DEF Typed, Agrees
    <2>3. CASE hal # "mem" /\ todo # <<>>
      <3>1. mem' \in Cut(todo[1]) /\ want' = Forget(AtRisk(todo[1]))
        BY <2>3, HeadIs DEF PowerLoss, PortInv
      <3> QED BY <2>3, <3>1, CutKeeps
    <2> QED BY <2>1, <2>2, <2>3
  <1> QED BY <1>1, <1>3, <1>4, RestKeeps DEF Typed

\* No step breaks the invariant.
LEMMA PortStep == PortInv /\ [Next]_vars => PortInv'
  <1> SUFFICES ASSUME PortInv, [Next]_vars PROVE PortInv'
    OBVIOUS
  <1>1. CASE Register \/ Unregister
    BY <1>1, RegisterStep
  <1>2. CASE SomeCall
    BY <1>2, CallStep
  <1>3. CASE Step
    BY <1>3, StepStep
  <1>4. CASE HalRefuses
    BY <1>4, HalRefusesStep
  <1>5. CASE HalFails
    BY <1>5, HalFailsStep
  <1>6. CASE PowerLoss
    BY <1>6, PowerLossStep
  <1>7. CASE UNCHANGED vars
    <2>1. Typed' /\ Pending' /\ FatOrder'
      BY <1>7 DEF vars, PortInv, Typed, Pending, FatOrder, CallOk, Span
    <2>2. Buffered' /\ Agrees' /\ Chunk'
      BY <1>7 DEF vars, PortInv, Buffered, Agrees, Chunk, Doing, Rewriting
    <2>3. Accepted' /\ TagsFollowData'
      BY <1>7 DEF vars, PortInv, Accepted, TagsFollowData
    <2> QED BY <2>1, <2>2, <2>3 DEF PortInv
  <1> QED BY <1>1, <1>2, <1>3, <1>4, <1>5, <1>6, <1>7 DEF Next

\* The invariant holds always.
LEMMA PortInvHolds == Spec => []PortInv
  BY InitOk, PortStep, PTL DEF Spec

-----------------------------------------------------------------------------
(* What holds of every port, medium and partition. *)

\* Units hold contents, and a call makes at most six HAL calls.
THEOREM TypeCorrect == Spec => []TypeOK
  <1>1. PortInv => TypeOK
    BY DEF PortInv, Typed, TypeOK
  <1> QED BY <1>1, PortInvHolds, PTL

\* The HAL refuses no call of a port but YAFFS's beyond a smaller medium.
THEOREM CallsAccepted == Spec => []Accepted
  <1>1. PortInv => Accepted
    BY DEF PortInv
  <1> QED BY <1>1, PortInvHolds, PTL

\* At rest every address reads as the calls that returned 0 left it, but where
\* a HAL call failed or was cut.
THEOREM FaultsContained == Spec => []Contained
  <1>1. PortInv => Contained
    BY DEF PortInv, Agrees, Rewriting, Doing, Contained
  <1> QED BY <1>1, PortInvHolds, PTL

\* YAFFS finds tags only above whole data, wherever a write was cut.
THEOREM TagsLast == Spec => []TagsFollowData
  <1>1. PortInv => TagsFollowData
    BY DEF PortInv
  <1> QED BY <1>1, PortInvHolds, PTL

\* No HAL call, whole, failed or cut, touches a unit outside the partition.
THEOREM PartitionKept == Spec => StaysInside
  <1>1. ASSUME PortInv, [Next]_vars, NEW u \in Units \ Partition(port), mem'[u] # mem[u]
        PROVE  hal = "mem" /\ ~ reg'
    <2>1. Typed /\ Pending
      BY <1>1 DEF PortInv
    <2>2. ASSUME todo # <<>>, mem' \in Cut(todo[1]) \/ mem' = After(todo[1]) PROVE FALSE
      <3>1. todo[1] \in Reqs /\ CallOk(todo[1])
        BY <2>1, <2>2, HeadIs
      <3>2. u \in Cells(todo[1])
        BY <1>1, <2>1, <2>2, <3>1, AfterIs, CutIs
      <3>3. port = "yaffs"
        BY <1>1, <3>1, <3>2 DEF CallOk, Span
      <3>4. Partition(port) = Units
        BY <2>1, <3>3, PortIs DEF Partition, Units, Typed
      <3> QED BY <1>1, <3>4
    <2>3. CASE Step \/ HalFails
      <3>1. todo # <<>> /\ (mem' \in Cut(todo[1]) \/ mem' = After(todo[1]))
        BY <2>1, <2>3, HeadIs DEF Step, HalFails
      <3> QED BY <2>2, <3>1
    <2>4. CASE PowerLoss
      <3>1. CASE hal = "mem"
        BY <2>4, <3>1 DEF PowerLoss
      <3>2. CASE hal # "mem"
        <4>1. todo # <<>> /\ mem' \in Cut(todo[1])
          BY <1>1, <2>1, <2>4, <3>2, HeadIs DEF PowerLoss
        <4> QED BY <2>2, <4>1
      <3> QED BY <3>1, <3>2
    <2>5. CASE Register \/ Unregister \/ SomeCall \/ HalRefuses \/ UNCHANGED vars
      BY <1>1, <2>5 DEF Register, Unregister, SomeCall, Call, HalRefuses, vars
    <2> QED BY <1>1, <2>3, <2>4, <2>5 DEF Next
  <1>2. PortInv /\ [Next]_vars =>
          [\A u \in Units \ Partition(port) : mem'[u] # mem[u] => hal = "mem" /\ ~ reg']_vars
    BY <1>1
  <1> QED BY <1>2, PortInvHolds, PTL DEF Spec, StaysInside
=============================================================================
