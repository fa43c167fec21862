--------------------------- MODULE KvStoreProofs -----------------------------
(***************************************************************************)
(* The key-value log, for every region, set of keys and values, medium and *)
(* kind of fault.                                                          *)
(***************************************************************************)
EXTENDS KvStore, NatFacts, SequenceTheorems, FiniteSetTheorems

Regions == [0 .. Size - 1 -> Units]
Recs == [key : (0 .. 7) \cup {KeyFF}, len : {0, 1}, off : 0 .. Size - 2,
         committed : BOOLEAN, dat : Datum \cup {FF, Junk, Other}, crc : Datum \cup {FF, Junk}]

\* A record begins at off, as the loops of kv_read and compact see it.
Begins(r, off) == off + 2 <= Size /\ r[off].kind = "hdr" /\ r[off].len # LenFF
NextOff(rec) == rec.off + RecTotal(rec.len)

-----------------------------------------------------------------------------
(* The walk over the region. *)

\* s holds the records from off on: each where the one before it ends.
IsWalk(r, off, s) ==
    /\ s \in Seq(Recs)
    /\ \A i \in 1 .. Len(s) : Begins(r, s[i].off) /\ s[i] = RecordAt(r, s[i].off)
    /\ \A i \in 1 .. Len(s) - 1 : s[i + 1].off = NextOff(s[i])
    /\ Len(s) = 0 => ~ Begins(r, off)
    /\ Len(s) > 0 => s[1].off = off /\ ~ Begins(r, NextOff(s[Len(s)]))

\* What is read of a record.
LEMMA RecordTyped ==
    ASSUME NEW r \in Regions, NEW off \in Nat, Begins(r, off)
    PROVE  /\ RecordAt(r, off) \in Recs /\ RecordAt(r, off).off = off
           /\ RecordAt(r, off).len = r[off].len /\ off \in 0 .. Size - 2
           /\ NextOff(RecordAt(r, off)) = off + RecTotal(r[off].len)
           /\ NextOff(RecordAt(r, off)) \in off + 2 .. off + 3
  <1>1. off \in 0 .. Size - 2 /\ off \in 0 .. Size - 1 /\ Size \in Nat
    BY ConstAssumption DEF Begins
  <1>2. r[off] \in Units /\ r[off].len \in {0, 1}
    BY <1>1 DEF Regions, Begins, Units
  <1>3. off + 1 < Size => r[off + 1] \in Units
    BY <1>1 DEF Regions
  <1>4. RecordAt(r, off) \in Recs /\ RecordAt(r, off).off = off /\ RecordAt(r, off).len = r[off].len
    <2>1. (off + 1 + r[off].len < Size /\ r[off + 1 + r[off].len].kind = "st") \in BOOLEAN
      OBVIOUS
    <2>2. (IF r[off].len = 0 THEN None
           ELSE IF off + 1 < Size /\ r[off + 1].kind = "val" THEN r[off + 1].dat
           ELSE Other) \in Datum \cup {FF, Junk, Other}
      BY <1>3 DEF Datum, Units
    <2>3. r[off].key \in (0 .. 7) \cup {KeyFF} /\ r[off].dat \in Datum \cup {FF, Junk}
      BY <1>2 DEF Units
    <2> QED BY <1>1, <1>2, <2>1, <2>2, <2>3 DEF RecordAt, Recs
  <1> QED BY <1>1, <1>2, <1>4 DEF NextOff, RecTotal

\* The records from off on are the one at off and those from its end on.
LEMMA WalkCons ==
    ASSUME NEW r \in Regions, NEW off \in Nat, Begins(r, off), NEW t,
           IsWalk(r, NextOff(RecordAt(r, off)), t)
    PROVE  IsWalk(r, off, <<RecordAt(r, off)>> \o t)
  <1> DEFINE rec == RecordAt(r, off)
             one == <<rec>>
             s == one \o t
  <1>1. rec \in Recs /\ rec.off = off
    BY RecordTyped
  <1>2. t \in Seq(Recs) /\ one \in Seq(Recs) /\ Len(one) = 1 /\ one[1] = rec /\ Len(t) \in Nat
    BY <1>1 DEF IsWalk
  <1> HIDE DEF rec, one
  <1>3. /\ s \in Seq(Recs) /\ Len(s) = Len(t) + 1 /\ s[1] = rec
        /\ \A i \in 1 .. Len(t) : s[i + 1] = t[i]
    <2>1. /\ s \in Seq(Recs) /\ Len(s) = 1 + Len(t)
          /\ \A i \in 1 .. 1 + Len(t) : s[i] = IF i <= 1 THEN one[i] ELSE t[i - 1]
      <3>1. /\ s \in Seq(Recs) /\ Len(s) = Len(one) + Len(t)
            /\ \A i \in 1 .. Len(one) + Len(t) :
                   s[i] = IF i <= Len(one) THEN one[i] ELSE t[i - Len(one)]
        BY <1>2, ConcatProperties
      <3> HIDE DEF s
      <3> QED BY <1>2, <3>1
    <2>2. ASSUME NEW i \in 1 .. Len(t) PROVE s[i + 1] = t[i]
      BY <1>2, <2>1
    <2> QED BY <1>2, <2>1, <2>2
  <1> HIDE DEF s
  <1>4. ASSUME NEW i \in 1 .. Len(s) PROVE Begins(r, s[i].off) /\ s[i] = RecordAt(r, s[i].off)
    <2>1. CASE i = 1
      BY <1>1, <1>3, <2>1 DEF rec
    <2>2. CASE i # 1
      <3>1. i - 1 \in 1 .. Len(t) /\ (i - 1) + 1 = i
        BY <1>2, <1>3, <2>2
      <3>2. s[i] = t[i - 1]
        BY <1>3, <3>1
      <3> QED BY <3>1, <3>2 DEF IsWalk
    <2> QED BY <2>1, <2>2
  <1>5. ASSUME NEW i \in 1 .. Len(s) - 1 PROVE s[i + 1].off = NextOff(s[i])
    <2>1. CASE i = 1
      BY <1>2, <1>3, <2>1 DEF rec, IsWalk
    <2>2. CASE i # 1
      <3>1. i - 1 \in 1 .. Len(t) - 1 /\ (i - 1) + 1 = i /\ i \in 1 .. Len(t)
        BY <1>2, <1>3, <2>2
      <3>2. s[i] = t[i - 1] /\ s[i + 1] = t[i]
        <4>1. i - 1 \in 1 .. Len(t)
          BY <1>2, <3>1
        <4>2. s[(i - 1) + 1] = t[i - 1] /\ s[i + 1] = t[i]
          BY <1>3, <3>1, <4>1
        <4> QED BY <3>1, <4>2
      <3>3. t[(i - 1) + 1].off = NextOff(t[i - 1])
        BY <3>1 DEF IsWalk
      <3> QED BY <3>1, <3>2, <3>3
    <2> QED BY <2>1, <2>2
  <1>6. ~ Begins(r, NextOff(s[Len(s)]))
    <2>1. CASE Len(t) = 0
      BY <1>2, <1>3, <2>1 DEF IsWalk, rec
    <2>2. CASE Len(t) > 0
      <3>1. s[Len(s)] = t[Len(t)]
        BY <1>2, <1>3, <2>2
      <3> QED BY <2>2, <3>1 DEF IsWalk
    <2> QED BY <1>2, <2>1, <2>2
  <1>7. IsWalk(r, off, s)
    BY <1>1, <1>2, <1>3, <1>4, <1>5, <1>6 DEF IsWalk
  <1> QED BY <1>7 DEF s, one, rec

\* Where no record begins the walk ends.
LEMMA WalkNil ==
    ASSUME NEW r \in Regions, NEW off \in Nat, ~ Begins(r, off)
    PROVE  IsWalk(r, off, <<>>)
  <1>1. <<>> \in Seq(Recs) /\ Len(<<>>) = 0
    BY EmptySeq
  <1> QED BY <1>1 DEF IsWalk

\* Records is the walk from offset 0.
LEMMA RecordsWalk ==
    ASSUME NEW r \in Regions
    PROVE  IsWalk(r, 0, Records(r))
  <1> DEFINE N == Size + 1
             Body(f, off) ==
                IF off + 2 > Size \/ r[off].kind # "hdr" \/ r[off].len = LenFF THEN <<>>
                ELSE IF off + RecTotal(r[off].len) > Size THEN <<RecordAt(r, off)>>
                ELSE <<RecordAt(r, off)>> \o f[off + RecTotal(r[off].len)]
             V == Seq(Recs)
             stop == {o \in 0 .. N : ~ Begins(r, o) \/ o + RecTotal(r[o].len) > Size}
             base == [o \in 0 .. N |-> IF Begins(r, o) THEN <<RecordAt(r, o)>> ELSE <<>>]
             next == [o \in 0 .. N |-> o + RecTotal(r[o].len)]
             pre(o, v) == IF Begins(r, o) THEN <<RecordAt(r, o)>> \o v ELSE v
             glue == [o \in 0 .. N |-> [v \in V |-> pre(o, v)]]
             g == CHOOSE f : f = [off \in 0 .. Size + 1 |-> Body(f, off)]
  <1>1. N \in Nat /\ Size \in Nat
    BY ConstAssumption
  <1>2. \E f : f = [off \in 0 .. Size + 1 |-> Body(f, off)]
    <2>1. ASSUME NEW o \in 0 .. N PROVE base[o] \in V
      BY RecordTyped
    <2>2. base \in [0 .. N -> V]
      BY <2>1
    <2>3. ASSUME NEW o \in 0 .. N, NEW v \in V PROVE pre(o, v) \in V
      <3>1. Begins(r, o) => <<RecordAt(r, o)>> \in V
        BY RecordTyped
      <3> QED BY <3>1, ConcatProperties
    <2>4. glue \in [0 .. N -> [V -> V]]
      BY <2>3
    <2>5. \A o \in 0 .. N : o \notin stop => next[o] \in o + 1 .. N
      <3> SUFFICES ASSUME NEW o \in 0 .. N, o \notin stop PROVE next[o] \in o + 1 .. N
        OBVIOUS
      <3>1. Begins(r, o) /\ o + RecTotal(r[o].len) <= Size
        <4>1. ~ (o + RecTotal(r[o].len) > Size) /\ Begins(r, o)
          OBVIOUS
        <4>2. o + RecTotal(r[o].len) \in Nat
          BY <4>1, RecordTyped
        <4> QED BY <1>1, <4>1, <4>2
      <3>2. o + RecTotal(r[o].len) \in o + 2 .. o + 3
        BY <3>1, RecordTyped
      <3> QED BY <1>1, <3>1, <3>2
    <2> HIDE DEF stop, base, next, glue, V, N
    <2>6. PICK f \in [0 .. N -> V] : Solves(f, N, stop, base, next, glue)
      <3>1. Climbs(N, stop, next)
        BY <2>5 DEF Climbs
      <3> QED BY <1>1, <2>2, <2>4, <3>1, RecursionDown
    <2>7. ASSUME NEW o \in 0 .. N PROVE f[o] = Body(f, o)
      <3>1. f[o] = IF o \in stop THEN base[o] ELSE glue[o][f[next[o]]]
        BY <2>6 DEF Solves
      <3>2. base[o] = IF Begins(r, o) THEN <<RecordAt(r, o)>> ELSE <<>>
        BY DEF base
      <3>3. CASE ~ Begins(r, o)
        <4>1. o \in stop
          BY <3>3 DEF stop
        <4>2. o + 2 > Size \/ r[o].kind # "hdr" \/ r[o].len = LenFF
          BY <1>1, <3>3 DEF Begins, N
        <4> QED BY <3>1, <3>2, <3>3, <4>1, <4>2
      <3>4. CASE Begins(r, o)
        <4>1. ~ (o + 2 > Size \/ r[o].kind # "hdr" \/ r[o].len = LenFF)
          BY <1>1, <3>4 DEF Begins, N
        <4>2. CASE o + RecTotal(r[o].len) > Size
          <5>1. o \in stop
            BY <4>2 DEF stop
          <5> QED BY <3>1, <3>2, <3>4, <4>1, <4>2, <5>1
        <4>3. CASE ~ (o + RecTotal(r[o].len) > Size)
          <5>1. o \notin stop
            BY <3>4, <4>3 DEF stop
          <5>2. next[o] \in 0 .. N /\ next[o] = o + RecTotal(r[o].len)
            BY <1>1, <2>5, <5>1 DEF next
          <5>3. f[next[o]] \in V
            BY <5>2
          <5>4. glue[o][f[next[o]]] = <<RecordAt(r, o)>> \o f[next[o]]
            BY <3>4, <5>3 DEF glue
          <5> QED BY <3>1, <4>1, <4>3, <5>1, <5>2, <5>4
        <4> QED BY <4>2, <4>3
      <3> QED BY <3>3, <3>4
    <2>8. f = [off \in 0 .. N |-> Body(f, off)]
      <3> HIDE DEF Body
      <3> QED BY <2>7
    <2> QED BY <2>8 DEF N
  <1>3. g = [off \in 0 .. Size + 1 |-> Body(g, off)]
    <2> HIDE DEF Body
    <2> QED BY <1>2
  <1>4. Records(r) = g[0]
    BY DEF Records
  <1> HIDE DEF g
  <1>5. ASSUME NEW off \in 0 .. N PROVE g[off] = Body(g, off)
    <2> HIDE DEF Body
    <2> QED BY <1>3
  <1> DEFINE T == {n \in Nat : n <= N /\ ~ IsWalk(r, N - n, g[N - n])}
             n == Min(T)
  <1>6. T = {}
    <2> SUFFICES ASSUME T # {} PROVE FALSE
      OBVIOUS
    <2>1. n \in T /\ \A y \in T : n <= y
      BY LeastNat
    <2> HIDE DEF n
    <2> DEFINE off == N - n
    <2>2. off \in 0 .. N /\ ~ IsWalk(r, off, g[off])
      BY <1>1, <2>1
    <2>3. CASE ~ Begins(r, off)
      <3>1. off + 2 > Size \/ r[off].kind # "hdr" \/ r[off].len = LenFF
        BY <1>1, <2>2, <2>3 DEF Begins
      <3>2. g[off] = <<>>
        BY <1>5, <2>2, <3>1
      <3> QED BY <2>2, <2>3, <3>2, WalkNil
    <2>4. CASE Begins(r, off)
      <3> DEFINE nx == off + RecTotal(r[off].len)
      <3>1. ~ (off + 2 > Size \/ r[off].kind # "hdr" \/ r[off].len = LenFF)
        BY <1>1, <2>2, <2>4 DEF Begins
      <3>2. nx = NextOff(RecordAt(r, off)) /\ nx \in off + 2 .. off + 3
        BY <2>2, <2>4, RecordTyped
      <3> HIDE DEF nx
      <3>3. CASE nx > Size
        <4>1. g[off] = <<RecordAt(r, off)>>
          BY <1>5, <2>2, <3>1, <3>3 DEF nx
        <4>2. ~ Begins(r, nx) /\ nx \in Nat
          BY <1>1, <2>2, <3>2, <3>3 DEF Begins
        <4>3. IsWalk(r, off, <<RecordAt(r, off)>> \o <<>>)
          <5>1. IsWalk(r, nx, <<>>)
            BY <4>2, WalkNil
          <5>2. IsWalk(r, NextOff(RecordAt(r, off)), <<>>) /\ off \in Nat
            BY <2>2, <3>2, <5>1
          <5> QED BY <2>4, <5>2, WalkCons
        <4>4. <<RecordAt(r, off)>> \o <<>> = <<RecordAt(r, off)>>
          BY <2>2, <2>4, RecordTyped, ConcatEmptySeq
        <4> QED BY <2>2, <4>1, <4>3, <4>4
      <3>4. CASE ~ (nx > Size)
        <4>1. g[off] = <<RecordAt(r, off)>> \o g[nx]
          BY <1>5, <2>2, <3>1, <3>4 DEF nx
        <4>2. nx \in 0 .. N /\ N - nx \in Nat /\ N - nx <= N /\ N - nx < n /\ N - (N - nx) = nx
          BY <1>1, <2>1, <2>2, <3>2, <3>4
        <4>3. IsWalk(r, nx, g[nx])
          <5>1. N - nx \notin T
            <6> HIDE DEF T
            <6>1. ASSUME N - nx \in T PROVE n <= N - nx
              BY <2>1, <6>1
            <6>2. N - nx \in Nat /\ N - nx < n /\ n \in Nat
              BY <1>1, <2>1, <4>2 DEF T
            <6> QED BY <6>1, <6>2
          <5> QED BY <4>2, <5>1
        <4> QED BY <2>2, <2>4, <3>2, <4>1, <4>3, WalkCons
      <3> QED BY <3>3, <3>4
    <2> QED BY <2>3, <2>4
  <1>7. N \in Nat /\ N <= N /\ N - N = 0
    BY <1>1
  <1> QED BY <1>4, <1>6, <1>7

\* Records do not overlap.
LEMMA WalkOrder ==
    ASSUME NEW r \in Regions, NEW off \in Nat, NEW s, IsWalk(r, off, s),
           NEW i \in 1 .. Len(s), NEW j \in i + 1 .. Len(s)
    PROVE  NextOff(s[i]) <= s[j].off
  <1>1. s \in Seq(Recs) /\ Len(s) \in Nat
    BY DEF IsWalk
  <1> DEFINE T == {n \in Nat : n \in i + 1 .. Len(s) /\ ~ (NextOff(s[i]) <= s[n].off)}
             n == Min(T)
  <1>2. SUFFICES ASSUME T # {} PROVE FALSE
    BY <1>1
  <1>3. n \in T /\ \A y \in T : n <= y
    BY <1>2, LeastNat
  <1> HIDE DEF n
  <1>4. n - 1 \in 1 .. Len(s) - 1 /\ (n - 1) + 1 = n /\ n - 1 \in 1 .. Len(s) /\ i \in 1 .. Len(s)
    BY <1>1, <1>3
  <1>5. /\ s[n].off = NextOff(s[n - 1])
        /\ s[n - 1] \in Recs /\ s[n] \in Recs /\ s[i] \in Recs
    BY <1>1, <1>3, <1>4, ElementOfSeq DEF IsWalk
  <1>6. CASE n - 1 = i
    <2>1. NextOff(s[i]) = s[n].off /\ s[n].off \in Int
      BY <1>5, <1>6 DEF Recs
    <2> QED BY <1>3, <2>1
  <1>7. CASE n - 1 # i
    <2>1. n - 1 \in i + 1 .. Len(s) /\ n - 1 \notin T
      BY <1>1, <1>3, <1>7
    <2>2. NextOff(s[i]) <= s[n - 1].off
      BY <2>1
    <2>3. s[n - 1].off <= s[n].off
      <3>1. s[n].off = s[n - 1].off + (2 + s[n - 1].len)
        BY <1>5 DEF NextOff, RecTotal
      <3>2. s[n - 1].off \in Int /\ s[n - 1].len \in {0, 1}
        BY <1>5 DEF Recs
      <3> QED BY <3>1, <3>2
    <2>4. NextOff(s[i]) \in Int /\ s[n - 1].off \in Int /\ s[n].off \in Int
      <3>1. NextOff(s[i]) = s[i].off + (2 + s[i].len)
        BY DEF NextOff, RecTotal
      <3>2. /\ s[i].off \in Int /\ s[i].len \in Int
            /\ s[n - 1].off \in Int /\ s[n].off \in Int
        BY <1>5 DEF Recs
      <3> QED BY <3>1, <3>2
    <2> QED BY <1>3, <2>2, <2>3, <2>4
  <1> QED BY <1>6, <1>7

-----------------------------------------------------------------------------
(* The records of a key. *)

\* The place among the records of the one kv_read takes, or 0.
Latest(rs, k) ==
    LET mine == {i \in DOMAIN rs : Accepted(rs[i]) /\ rs[i].key = k}
    IN  IF mine = {} THEN 0 ELSE CHOOSE i \in mine : \A j \in mine : j <= i

\* Sets of positions: the last one, and the n-th one.
LEMMA LastOf ==
    ASSUME NEW n \in Nat, NEW S \in SUBSET (1 .. n), S # {}
    PROVE  \E i \in S : \A j \in S : j <= i
  <1> DEFINE T == {m \in Nat : \A j \in S : j <= m}
             m == Min(T)
  <1>1. n \in T
    OBVIOUS
  <1>2. m \in T /\ \A y \in T : m <= y
    BY <1>1, LeastNat
  <1> HIDE DEF m
  <1>3. ASSUME m \notin S PROVE FALSE
    <2>1. PICK x \in S : x \in 1 .. n
      OBVIOUS
    <2>2. m - 1 \in Nat
      BY <1>2, <2>1
    <2>3. ASSUME NEW j \in S PROVE j <= m - 1
      <3>1. j \in Nat /\ j <= m /\ j # m
        BY <1>2, <1>3
      <3> QED BY <1>2, <3>1
    <2>4. m - 1 \in T
      BY <2>2, <2>3
    <2> QED BY <1>2, <2>4
  <1> QED BY <1>2, <1>3

LEMMA NthIs ==
    ASSUME NEW n \in Nat, NEW S \in SUBSET (1 .. n), NEW m \in 1 .. Cardinality(S)
    PROVE  Nth(S, m) \in S /\ Cardinality({j \in S : j <= Nth(S, m)}) = m
  <1> DEFINE Below(x) == {j \in S : j <= x}
             T == {x \in Nat : Cardinality(Below(x)) >= m}
             x == Min(T)
  <1>1. IsFiniteSet(S) /\ Cardinality(S) \in Nat
    <2>1. IsFiniteSet(1 .. n)
      <3>1. 1 \in Int /\ n \in Int
        OBVIOUS
      <3> QED BY <3>1, FS_Interval
    <2>2. S \subseteq 1 .. n
      OBVIOUS
    <2> QED BY <2>1, <2>2, FS_Subset, FS_CardinalityType
  <1>2. \A y : IsFiniteSet(Below(y)) /\ Cardinality(Below(y)) \in Nat
    <2> TAKE y
    <2>1. Below(y) \in SUBSET S
      OBVIOUS
    <2> HIDE DEF Below
    <2> QED BY <1>1, <2>1, FS_Subset, FS_CardinalityType
  <1>3. n \in T
    <2>1. Below(n) = S
      <3>1. \A j \in S : j <= n
        OBVIOUS
      <3> QED BY <3>1
    <2> HIDE DEF Below
    <2> QED BY <1>1, <2>1
  <1>4. x \in T /\ \A y \in T : x <= y
    BY <1>3, LeastNat
  <1> HIDE DEF x
  <1>5. x # 0
    <2>1. Below(0) = {}
      <3>1. \A j \in S : ~ (j <= 0)
        OBVIOUS
      <3> QED BY <3>1
    <2>2. Cardinality(Below(0)) = 0
      BY <2>1, FS_EmptySet
    <2> HIDE DEF Below
    <2> QED BY <1>4, <2>2
  <1>6. x - 1 \in Nat /\ x - 1 \notin T
    <2>1. x \in Nat /\ x - 1 \in Nat /\ ~ (x <= x - 1)
      BY <1>4, <1>5
    <2> HIDE DEF T
    <2> QED BY <1>4, <2>1
  <1>7. Cardinality(Below(x - 1)) < m
    <2> HIDE DEF Below
    <2> QED BY <1>2, <1>6
  <1>8. CASE x \notin S
    <2>1. Below(x) = Below(x - 1)
      <3>1. ASSUME NEW j \in S PROVE j <= x <=> j <= x - 1
        BY <1>4, <1>8
      <3> QED BY <3>1
    <2> HIDE DEF Below
    <2> QED BY <1>2, <1>4, <1>7, <2>1
  <1>9. CASE x \in S
    <2>1. Below(x) = Below(x - 1) \cup {x}
      <3>1. ASSUME NEW j \in S PROVE j <= x <=> (j <= x - 1 \/ j = x)
        BY <1>4
      <3> QED BY <1>9, <3>1
    <2>2. Cardinality(Below(x)) <= Cardinality(Below(x - 1)) + 1
      <3> HIDE DEF Below
      <3> QED BY <1>2, <2>1, FS_AddElement
    <2>3. Cardinality(Below(x)) = m
      <3> HIDE DEF Below
      <3> QED BY <1>2, <1>4, <1>7, <2>2
    <2>4. \E i \in S : Cardinality({j \in S : j <= i}) = m
      BY <1>9, <2>3
    <2> QED BY <2>4 DEF Nth
  <1> QED BY <1>8, <1>9

\* Different places in the order are different elements.
LEMMA NthDiffer ==
    ASSUME NEW n \in Nat, NEW S \in SUBSET (1 .. n), NEW a \in 1 .. Cardinality(S),
           NEW b \in 1 .. Cardinality(S), a # b
    PROVE  Nth(S, a) # Nth(S, b)
  <1>1. Cardinality({j \in S : j <= Nth(S, a)}) = a
    BY NthIs
  <1>2. Cardinality({j \in S : j <= Nth(S, b)}) = b
    BY NthIs
  <1> QED BY <1>1, <1>2

\* kv_read's record: the last accepted one of the key, or none.
LEMMA LatestIs ==
    ASSUME NEW rs \in Seq(Recs), NEW k
    PROVE  \/ /\ Latest(rs, k) = 0
              /\ \A j \in 1 .. Len(rs) : ~ (Accepted(rs[j]) /\ rs[j].key = k)
           \/ /\ Latest(rs, k) \in 1 .. Len(rs)
              /\ Accepted(rs[Latest(rs, k)]) /\ rs[Latest(rs, k)].key = k
              /\ \A j \in 1 .. Len(rs) :
                     Accepted(rs[j]) /\ rs[j].key = k => j <= Latest(rs, k)
  <1> DEFINE mine == {i \in DOMAIN rs : Accepted(rs[i]) /\ rs[i].key = k}
  <1>1. DOMAIN rs = 1 .. Len(rs) /\ Len(rs) \in Nat
    BY LenProperties
  <1>2. Latest(rs, k) = IF mine = {} THEN 0 ELSE CHOOSE i \in mine : \A j \in mine : j <= i
    BY DEF Latest
  <1>3. CASE mine = {}
    BY <1>1, <1>2, <1>3
  <1>4. CASE mine # {}
    <2>1. mine \in SUBSET (1 .. Len(rs))
      BY <1>1
    <2>2. \E i \in mine : \A j \in mine : j <= i
      <3> HIDE DEF mine
      <3> QED BY <1>1, <1>4, <2>1, LastOf
    <2>3. Latest(rs, k) \in mine /\ \A j \in mine : j <= Latest(rs, k)
      <3> HIDE DEF mine
      <3> QED BY <1>2, <1>4, <2>2
    <2> QED BY <1>1, <2>3
  <1> QED BY <1>3, <1>4

-----------------------------------------------------------------------------
(* What the units of the region may hold. *)

Written == {Some(v) : v \in Values}

\* A value unit holds a value; the key of a header with a length is whole.
UnitOk(u) ==
    /\ u \in Units
    /\ u.kind \in {"val", "torn"} => u.dat \in Written
    /\ u.kind = "hdr" => u.key \in 0 .. 7 \/ u.len = LenFF
RegionOk(r) == r \in Regions /\ \A i \in 0 .. Size - 1 : UnitOk(r[i])

\* The data kv_store tells apart are different.
LEMMA Different ==
    /\ None \notin Written /\ FF \notin Datum /\ Junk \notin Datum /\ Other \notin Datum
    /\ Other # FF /\ Other # Junk /\ FF # Junk /\ Datum = Written \cup {None}
  <1>1. \A v \in Values : v # "none" /\ v # "ff" /\ v # "junk" /\ v # "other"
    BY ConstAssumption
  <1>2. \A v \in Values : Some(v).val = v
    BY DEF Some
  <1>3. None.val = "none" /\ FF.val = "ff" /\ Junk.val = "junk" /\ Other.val = "other"
    BY DEF None, FF, Junk, Other
  <1> QED BY <1>1, <1>2, <1>3 DEF Datum, Written

LEMMA AndBitsType ==
    ASSUME NEW a \in 0 .. 7, NEW b \in 0 .. 7
    PROVE  AndBits(a, b) \in 0 .. 7
  <1>1. \A x \in {0, 1}, y \in {0, 1} : x * y \in {0, 1}
    OBVIOUS
  <1> DEFINE p == (a % 2) * (b % 2)
             q == ((a \div 2) % 2) * ((b \div 2) % 2)
             s == ((a \div 4) % 2) * ((b \div 4) % 2)
  <1>2. /\ a % 2 \in {0, 1} /\ b % 2 \in {0, 1}
        /\ (a \div 2) % 2 \in {0, 1} /\ (b \div 2) % 2 \in {0, 1}
        /\ (a \div 4) % 2 \in {0, 1} /\ (b \div 4) % 2 \in {0, 1}
    BY SMT
  <1>3. p \in {0, 1} /\ q \in {0, 1} /\ s \in {0, 1}
    BY <1>1, <1>2
  <1>4. AndBits(a, b) = p + 2 * q + 4 * s
    <2>1. 4 * ((a \div 4) % 2) * ((b \div 4) % 2) = 4 * s
      BY <1>2
    <2>2. 2 * ((a \div 2) % 2) * ((b \div 2) % 2) = 2 * q
      BY <1>2
    <2> QED BY <2>1, <2>2 DEF AndBits
  <1> HIDE DEF p, q, s
  <1> QED BY <1>3, <1>4

\* The units a program writes, whole or torn, may be in the region.
LEMMA WrittenUnits ==
    ASSUME NEW k \in 0 .. 7, NEW d \in Datum
    PROVE  /\ UnitOk(HeaderUnit(Entry(k, d))) /\ UnitOk(Committed) /\ UnitOk(Blank)
           /\ UnitOk(Garbage)
           /\ \A u \in TornHeaders(Entry(k, d)) : UnitOk(u)
           /\ d # None => UnitOk(ValueUnit("val", d)) /\ \A u \in TornValues(d) : UnitOk(u)
  <1>1. EntryLen(Entry(k, d)) \in {0, 1} /\ Entry(k, d).key = k /\ Entry(k, d).dat = d
    BY DEF EntryLen, Entry
  <1>2. UnitOk(HeaderUnit(Entry(k, d)))
    BY <1>1 DEF UnitOk, HeaderUnit, Header, Units
  <1>3. UnitOk(Committed) /\ UnitOk(Blank) /\ UnitOk(Garbage)
    BY DEF UnitOk, Committed, Blank, Garbage, Units
  <1>4. \A u \in TornHeaders(Entry(k, d)) : UnitOk(u)
    BY <1>1 DEF UnitOk, TornHeaders, Header, Units, KeyFF, LenFF
  <1>5. ASSUME d # None
        PROVE  UnitOk(ValueUnit("val", d)) /\ \A u \in TornValues(d) : UnitOk(u)
    BY <1>5, Different DEF UnitOk, ValueUnit, TornValues, Units
  <1> QED BY <1>2, <1>3, <1>4, <1>5

\* Programming keeps a unit one of those.
LEMMA ProgramOk ==
    ASSUME NEW old, UnitOk(old), NEW new, UnitOk(new)
    PROVE  UnitOk(Program(old, new))
  <1>1. UnitOk(Garbage)
    BY DEF UnitOk, Garbage, Units
  <1>2. CASE old.kind = "hdr" /\ new.kind = "hdr"
    <2> DEFINE key == AndField(old.key, new.key, KeyFF, AndBits(old.key, new.key))
               len == AndField(old.len, new.len, LenFF,
                               IF old.len < new.len THEN old.len ELSE new.len)
               dat == AndField(old.dat, new.dat, FF,
                               IF old.dat = new.dat THEN old.dat ELSE Junk)
    <2>1. /\ old.key \in (0 .. 7) \cup {KeyFF} /\ new.key \in (0 .. 7) \cup {KeyFF}
          /\ old.len \in {0, 1, LenFF} /\ new.len \in {0, 1, LenFF}
          /\ old.dat \in Datum \cup {FF, Junk} /\ new.dat \in Datum \cup {FF, Junk}
          /\ old.key \in 0 .. 7 \/ old.len = LenFF
          /\ new.key \in 0 .. 7 \/ new.len = LenFF
      BY <1>2 DEF UnitOk, Units
    <2>2. key \in (0 .. 7) \cup {KeyFF} /\ (key \in 0 .. 7 \/ (old.key = KeyFF /\ new.key = KeyFF))
      <3>1. old.key \in 0 .. 7 /\ new.key \in 0 .. 7 => AndBits(old.key, new.key) \in 0 .. 7
        BY AndBitsType
      <3> QED BY <2>1, <3>1 DEF AndField
    <2>3. len \in {0, 1, LenFF} /\ (old.len = LenFF /\ new.len = LenFF => len = LenFF)
      BY <2>1 DEF AndField
    <2>4. dat \in Datum \cup {FF, Junk}
      BY <2>1 DEF AndField
    <2>5. key \in 0 .. 7 \/ len = LenFF
      BY <2>1, <2>2, <2>3 DEF KeyFF
    <2> HIDE DEF key, len, dat
    <2>6. UnitOk(Header(key, len, dat))
      BY <2>2, <2>3, <2>4, <2>5 DEF UnitOk, Header, Units
    <2>7. AndUnit(old, new) \in {new, Header(key, len, dat)}
      BY <1>2 DEF AndUnit, key, len, dat
    <2> QED BY <2>6, <2>7 DEF Program
  <1>3. CASE /\ ~ (old.kind = "hdr" /\ new.kind = "hdr")
             /\ {old.kind, new.kind} = {"torn", "val"} /\ old.dat = new.dat
    <2>1. new.kind \in {"torn", "val"}
      BY <1>3
    <2>2. new.dat \in Written
      BY <2>1 DEF UnitOk
    <2>3. UnitOk(ValueUnit("val", new.dat))
      BY <2>2, Different DEF UnitOk, ValueUnit, Units
    <2>4. AndUnit(old, new) \in {new, ValueUnit("val", new.dat)}
      BY <1>3 DEF AndUnit
    <2> QED BY <2>3, <2>4 DEF Program
  <1>4. CASE /\ ~ (old.kind = "hdr" /\ new.kind = "hdr")
             /\ ~ ({old.kind, new.kind} = {"torn", "val"} /\ old.dat = new.dat)
    <2>1. AndUnit(old, new) \in {new, Garbage}
      BY <1>4 DEF AndUnit
    <2> QED BY <1>1, <2>1 DEF Program
  <1> QED BY <1>2, <1>3, <1>4

\* An accepted record holds a datum of its length, whole, inside the region.
LEMMA AcceptedIs ==
    ASSUME NEW r, RegionOk(r), NEW i \in 1 .. Len(Records(r)), Accepted(Records(r)[i])
    PROVE  LET rec == Records(r)[i]
           IN  /\ rec \in Recs /\ rec.dat \in Datum /\ rec.key \in 0 .. 7
               /\ NextOff(rec) <= Size
               /\ rec.len = IF rec.dat = None THEN 0 ELSE 1
  <1> DEFINE rec == Records(r)[i]
             off == rec.off
  <1>1. IsWalk(r, 0, Records(r)) /\ r \in Regions
    BY RecordsWalk DEF RegionOk
  <1>2. rec \in Recs /\ Begins(r, off) /\ rec = RecordAt(r, off) /\ Accepted(rec)
    BY <1>1, ElementOfSeq DEF IsWalk
  <1> HIDE DEF rec
  <1>3. off \in 0 .. Size - 1 /\ off + 1 \in 0 .. Size - 1 /\ off \in Nat
    BY <1>2, ConstAssumption DEF Recs, Begins
  <1>4. UnitOk(r[off]) /\ UnitOk(r[off + 1]) /\ r[off].kind = "hdr" /\ r[off].len \in {0, 1}
    BY <1>2, <1>3 DEF RegionOk, Begins, UnitOk, Units
  <1>5. /\ rec.key = r[off].key /\ rec.len = r[off].len /\ rec.crc = r[off].dat
        /\ rec.dat = IF rec.len = 0 THEN None
                     ELSE IF off + 1 < Size /\ r[off + 1].kind = "val" THEN r[off + 1].dat
                     ELSE Other
        /\ rec.committed = (off + 1 + rec.len < Size /\ r[off + 1 + rec.len].kind = "st")
    BY <1>2 DEF RecordAt
  <1>6. rec.dat = rec.crc /\ off + 1 + rec.len < Size
    BY <1>2, <1>5 DEF Accepted
  <1>7. rec.key \in 0 .. 7
    BY <1>4, <1>5 DEF UnitOk, LenFF
  <1>8. rec.dat # Other
    BY <1>4, <1>5, <1>6, Different DEF UnitOk, Units
  <1>9. rec.len \in {0, 1}
    BY <1>4, <1>5
  <1>10. rec.dat \in Datum /\ rec.len = IF rec.dat = None THEN 0 ELSE 1
    <2>1. CASE rec.len = 0
      BY <1>5, <2>1, Different
    <2>2. CASE rec.len = 1
      <3>1. rec.dat = r[off + 1].dat /\ r[off + 1].kind = "val"
        BY <1>5, <1>8, <2>2
      <3>2. rec.dat \in Written
        BY <1>4, <3>1 DEF UnitOk
      <3> QED BY <2>2, <3>2, Different
    <2> QED BY <1>9, <2>1, <2>2
  <1>11. NextOff(rec) <= Size
    BY <1>3, <1>6, <1>9, ConstAssumption DEF NextOff, RecTotal
  <1> QED BY <1>2, <1>7, <1>10, <1>11 DEF rec

\* What kv_read returns.
LEMMA LookupLatest ==
    ASSUME NEW r \in Regions, NEW k
    PROVE  Lookup(r, k) = IF Latest(Records(r), k) = 0 THEN None
                          ELSE Records(r)[Latest(Records(r), k)].dat
  <1> DEFINE rs == Records(r)
             i == Latest(rs, k)
             mine == {rec \in {rs[j] : j \in DOMAIN rs} : Accepted(rec) /\ rec.key = k}
  <1>1. IsWalk(r, 0, rs) /\ rs \in Seq(Recs) /\ Len(rs) \in Nat /\ DOMAIN rs = 1 .. Len(rs)
    BY RecordsWalk, LenProperties DEF IsWalk
  <1>2. Lookup(r, k) = IF mine = {} THEN None
                       ELSE (CHOOSE rec \in mine : \A other \in mine : other.off <= rec.off).dat
    BY DEF Lookup
  <1> HIDE DEF rs
  <1>3. CASE i = 0
    <2>1. \A j \in 1 .. Len(rs) : ~ (Accepted(rs[j]) /\ rs[j].key = k)
      BY <1>1, <1>3, LatestIs
    <2>2. mine = {}
      BY <1>1, <2>1
    <2> QED BY <1>2, <1>3, <2>2 DEF rs
  <1>4. CASE i # 0
    <2>1. /\ i \in 1 .. Len(rs) /\ Accepted(rs[i]) /\ rs[i].key = k
          /\ \A j \in 1 .. Len(rs) : Accepted(rs[j]) /\ rs[j].key = k => j <= i
      BY <1>1, <1>4, LatestIs
    <2> HIDE DEF i
    <2>2. rs[i] \in mine
      BY <1>1, <2>1
    <2>3. ASSUME NEW j \in 1 .. Len(rs), j < i PROVE rs[j].off < rs[i].off
      <3>1. i \in j + 1 .. Len(rs)
        BY <1>1, <2>1, <2>3
      <3>2. NextOff(rs[j]) <= rs[i].off
        BY <1>1, <3>1, WalkOrder
      <3>3. rs[j] \in Recs /\ rs[i] \in Recs
        BY <1>1, <2>1, ElementOfSeq
      <3> QED BY <3>2, <3>3 DEF NextOff, RecTotal, Recs
    <2>4. ASSUME NEW rec \in mine PROVE rec = rs[i] \/ rec.off < rs[i].off
      <3>1. PICK j \in 1 .. Len(rs) : rec = rs[j] /\ Accepted(rs[j]) /\ rs[j].key = k
        BY <1>1
      <3>2. j <= i
        BY <2>1, <3>1
      <3>3. j = i \/ j < i
        BY <2>1, <3>2
      <3> QED BY <2>3, <3>1, <3>3
    <2>5. ASSUME NEW rec \in mine PROVE rec.off \in Int
      <3>1. PICK j \in 1 .. Len(rs) : rec = rs[j]
        BY <1>1
      <3>2. rec \in Recs
        BY <1>1, <3>1, ElementOfSeq
      <3> QED BY <3>2 DEF Recs
    <2> HIDE DEF mine
    <2>6. \A other \in mine : other.off <= rs[i].off
      BY <2>2, <2>4, <2>5
    <2>7. ASSUME NEW rec \in mine, \A other \in mine : other.off <= rec.off
          PROVE  rec = rs[i]
      BY <2>2, <2>4, <2>5, <2>7
    <2>8. (CHOOSE rec \in mine : \A other \in mine : other.off <= rec.off) = rs[i]
      BY <2>2, <2>6, <2>7
    <2> QED BY <1>2, <1>4, <2>2, <2>8 DEF i, rs
  <1> QED BY <1>3, <1>4

\* A read returns a datum or nothing.
LEMMA LookupIs ==
    ASSUME NEW r, RegionOk(r), NEW k
    PROVE  Lookup(r, k) \in Datum
  <1>1. Records(r) \in Seq(Recs) /\ r \in Regions
    BY RecordsWalk DEF IsWalk, RegionOk
  <1>2. CASE Latest(Records(r), k) = 0
    BY <1>1, <1>2, LookupLatest, Different
  <1>3. CASE Latest(Records(r), k) # 0
    <2>1. /\ Latest(Records(r), k) \in 1 .. Len(Records(r))
          /\ Accepted(Records(r)[Latest(Records(r), k)])
      BY <1>1, <1>3, LatestIs
    <2> QED BY <1>1, <1>3, <2>1, LookupLatest, AcceptedIs
  <1> QED BY <1>2, <1>3

-----------------------------------------------------------------------------
(* Where the records end. *)

\* One turn of scan_region's loop; where the loop ends.
ScanBody(r, f, off) ==
    IF off + 2 > Size \/ r[off].kind # "hdr" THEN [ok |-> TRUE, cursor |-> off]
    ELSE IF r[off].len = LenFF \/ off + 1 + r[off].len >= Size
         THEN [ok |-> ~DeviceEnds, cursor |-> off]
    ELSE f[off + RecTotal(r[off].len)]
ScanStops(r) == {o \in 0 .. Size + 1 : \/ o + 2 > Size \/ r[o].kind # "hdr"
                                       \/ r[o].len = LenFF \/ o + 1 + r[o].len >= Size}

\* Where it does not end it goes on to the next record.
LEMMA ScanClimbs ==
    ASSUME NEW r \in Regions, NEW o \in 0 .. Size + 1, o \notin ScanStops(r)
    PROVE  o + RecTotal(r[o].len) \in o + 2 .. o + 3 /\ o + RecTotal(r[o].len) <= Size
  <1>1. Size \in Nat
    BY ConstAssumption
  <1>2. o + 2 <= Size /\ r[o].kind = "hdr" /\ r[o].len # LenFF /\ ~ (o + 1 + r[o].len >= Size)
    BY <1>1 DEF ScanStops
  <1>3. o \in 0 .. Size - 1
    BY <1>1, <1>2
  <1>4. r[o].len \in {0, 1}
    BY <1>2, <1>3 DEF Regions, Units
  <1> QED BY <1>1, <1>2, <1>4 DEF RecTotal

\* Scan is that loop from offset 0.
LEMMA ScanLoop ==
    ASSUME NEW r \in Regions
    PROVE  \E g : Scan(r) = g[0] /\ \A off \in 0 .. Size + 1 : g[off] = ScanBody(r, g, off)
  <1> DEFINE N == Size + 1
             Body(f, off) ==
                IF off + 2 > Size \/ r[off].kind # "hdr" THEN [ok |-> TRUE, cursor |-> off]
                ELSE IF r[off].len = LenFF \/ off + 1 + r[off].len >= Size
                     THEN [ok |-> ~DeviceEnds, cursor |-> off]
                ELSE f[off + RecTotal(r[off].len)]
             V == [ok : BOOLEAN, cursor : Nat]
             stop == ScanStops(r)
             basis(o) == IF o + 2 > Size \/ r[o].kind # "hdr" THEN [ok |-> TRUE, cursor |-> o]
                         ELSE [ok |-> ~DeviceEnds, cursor |-> o]
             base == [o \in 0 .. N |-> basis(o)]
             next == [o \in 0 .. N |-> o + RecTotal(r[o].len)]
             glue == [o \in 0 .. N |-> [v \in V |-> v]]
             g == CHOOSE f : f = [off \in 0 .. Size + 1 |-> Body(f, off)]
  <1>1. N \in Nat /\ Size \in Nat
    BY ConstAssumption
  <1>2. ASSUME NEW o \in 0 .. N, o \notin stop
        PROVE  /\ o + RecTotal(r[o].len) \in o + 2 .. o + 3 /\ o + RecTotal(r[o].len) <= Size
    BY <1>2, ScanClimbs
  <1>3. \E f : f = [off \in 0 .. Size + 1 |-> Body(f, off)]
    <2>1. base \in [0 .. N -> V]
      BY ConstAssumption
    <2>2. glue \in [0 .. N -> [V -> V]]
      OBVIOUS
    <2>3. \A o \in 0 .. N : o \notin stop => next[o] \in o + 1 .. N
      <3> HIDE DEF stop
      <3> QED BY <1>1, <1>2
    <2> HIDE DEF stop, base, next, glue, V, N
    <2>4. PICK f \in [0 .. N -> V] : Solves(f, N, stop, base, next, glue)
      <3>1. Climbs(N, stop, next)
        BY <2>3 DEF Climbs
      <3> QED BY <1>1, <2>1, <2>2, <3>1, RecursionDown
    <2>5. ASSUME NEW o \in 0 .. N PROVE f[o] = Body(f, o)
      <3>1. f[o] = IF o \in stop THEN base[o] ELSE glue[o][f[next[o]]]
        BY <2>4 DEF Solves
      <3>2. CASE o \in stop
        <4>1. base[o] = basis(o)
          BY DEF base
        <4>2. \/ o + 2 > Size \/ r[o].kind # "hdr"
              \/ r[o].len = LenFF \/ o + 1 + r[o].len >= Size
          BY <3>2 DEF stop, ScanStops
        <4> QED BY <3>1, <3>2, <4>1, <4>2
      <3>3. CASE o \notin stop
        <4>1. ~ (\/ o + 2 > Size \/ r[o].kind # "hdr"
                 \/ r[o].len = LenFF \/ o + 1 + r[o].len >= Size)
          BY <3>3 DEF stop, ScanStops, N
        <4>2. next[o] \in 0 .. N /\ next[o] = o + RecTotal(r[o].len)
          BY <1>1, <2>3, <3>3 DEF next
        <4>3. f[next[o]] \in V
          BY <4>2
        <4>4. glue[o][f[next[o]]] = f[next[o]]
          BY <4>3 DEF glue
        <4> QED BY <3>1, <3>3, <4>1, <4>2, <4>4
      <3> QED BY <3>2, <3>3
    <2>6. f = [off \in 0 .. N |-> Body(f, off)]
      <3> HIDE DEF Body
      <3> QED BY <2>5
    <2> QED BY <2>6 DEF N
  <1>4. g = [off \in 0 .. Size + 1 |-> Body(g, off)]
    <2> HIDE DEF Body
    <2> QED BY <1>3
  <1>5. Scan(r) = g[0]
    BY DEF Scan
  <1> HIDE DEF g
  <1>6. ASSUME NEW off \in 0 .. N PROVE g[off] = ScanBody(r, g, off)
    <2>1. g[off] = Body(g, off)
      <3> HIDE DEF Body
      <3> QED BY <1>4
    <2> QED BY <2>1 DEF ScanBody
  <1> QED BY <1>5, <1>6

\* scan_region stops inside the region.
LEMMA ScanType ==
    ASSUME NEW r \in Regions
    PROVE  Scan(r).cursor \in 0 .. Size /\ Scan(r).ok \in BOOLEAN
  <1>1. Size \in Nat
    BY ConstAssumption
  <1>2. PICK g : Scan(r) = g[0] /\ \A off \in 0 .. Size + 1 : g[off] = ScanBody(r, g, off)
    BY ScanLoop
  <1> DEFINE Good(v) == v.cursor \in 0 .. Size /\ v.ok \in BOOLEAN
             T == {n \in Nat : n <= Size /\ ~ Good(g[Size - n])}
             n == Min(T)
  <1>3. T = {}
    <2> SUFFICES ASSUME T # {} PROVE FALSE
      OBVIOUS
    <2>1. n \in T /\ \A y \in T : n <= y
      BY LeastNat
    <2> HIDE DEF n
    <2> DEFINE off == Size - n
    <2>2. off \in 0 .. Size /\ off \in 0 .. Size + 1 /\ ~ Good(g[off])
      BY <1>1, <2>1
    <2>3. CASE off \in ScanStops(r)
      <3>1. g[off] \in {[ok |-> TRUE, cursor |-> off], [ok |-> ~DeviceEnds, cursor |-> off]}
        BY <1>2, <2>2, <2>3 DEF ScanBody, ScanStops
      <3>2. g[off].cursor = off
        BY <3>1
      <3>3. g[off].ok \in BOOLEAN
        <4>1. g[off].ok = TRUE \/ g[off].ok = ~DeviceEnds
          BY <3>1
        <4> QED BY <4>1, ConstAssumption
      <3> QED BY <2>2, <3>2, <3>3
    <2>4. CASE off \notin ScanStops(r)
      <3> DEFINE nx == off + RecTotal(r[off].len)
      <3>1. g[off] = g[nx]
        BY <1>2, <2>2, <2>4 DEF ScanBody, ScanStops
      <3>2. nx \in off + 2 .. off + 3 /\ nx <= Size
        BY <2>2, <2>4, ScanClimbs
      <3> HIDE DEF nx
      <3>3. Size - nx \in Nat /\ Size - nx <= Size /\ Size - nx < n /\ Size - (Size - nx) = nx
        BY <1>1, <2>1, <2>2, <3>2
      <3>4. Good(g[nx])
        BY <1>1, <2>1, <3>3
      <3> QED BY <2>2, <3>1, <3>4
    <2> QED BY <2>3, <2>4
  <1>4. Size \in Nat /\ Size <= Size /\ Size - Size = 0
    BY <1>1
  <1> QED BY <1>2, <1>3, <1>4

-----------------------------------------------------------------------------
(* What compact keeps. *)

Entries == [key : 0 .. 7, dat : Datum]

\* The records of q, written one behind the other from c on, all but the last
\* inside the region.
Fits(q, c) ==
    \E at \in [1 .. Len(q) -> Nat] :
        /\ at[1] = c
        /\ \A i \in 1 .. Len(q) - 1 :
               at[i + 1] = at[i] + RecTotal(EntryLen(q[i])) /\ at[i + 1] <= Size

\* The entries have different keys, each with the record a read would take.
LEMMA CollectedIs ==
    ASSUME NEW r, RegionOk(r)
    PROVE  /\ Collected(r) \in Seq(Entries)
           /\ \A n \in 1 .. Len(Collected(r)) :
                  LET i == Latest(Records(r), Collected(r)[n].key)
                  IN  /\ i \in 1 .. Len(Records(r)) /\ Accepted(Records(r)[i])
                      /\ Records(r)[i].key = Collected(r)[n].key
                      /\ Collected(r)[n].dat = Records(r)[i].dat
           /\ \A n, m \in 1 .. Len(Collected(r)) :
                  n # m => Collected(r)[n].key # Collected(r)[m].key
  <1> DEFINE rs == Records(r)
             F == Firsts(rs)
             kept == Fitting(F)
             C == Collected(r)
  <1>1. rs \in Seq(Recs) /\ Len(rs) \in Nat /\ DOMAIN rs = 1 .. Len(rs)
    BY RecordsWalk, LenProperties DEF IsWalk, RegionOk
  <1>2. /\ F \in SUBSET (1 .. Len(rs))
        /\ \A i \in F : Accepted(rs[i])
        /\ \A i, j \in F : j < i => rs[j].key # rs[i].key
    BY <1>1 DEF Firsts
  <1>3. Cardinality(F) \in Nat
    <2>1. IsFiniteSet(1 .. Len(rs))
      <3>1. 1 \in Int /\ Len(rs) \in Int
        BY <1>1
      <3> QED BY <3>1, FS_Interval
    <2> HIDE DEF F
    <2> QED BY <1>2, <2>1, FS_Subset, FS_CardinalityType
  <1>4. kept \in Nat /\ kept <= Cardinality(F)
    BY <1>3, ConstAssumption DEF Fitting
  <1>5. C = [n \in 1 .. kept |-> Entry(rs[Nth(F, n)].key, Lookup(r, rs[Nth(F, n)].key))]
    BY DEF Collected
  <1> HIDE DEF F, kept, C
  <1>6. ASSUME NEW n \in 1 .. kept
        PROVE  /\ Nth(F, n) \in F
               /\ C[n] = Entry(rs[Nth(F, n)].key, Lookup(r, rs[Nth(F, n)].key))
               /\ C[n].key = rs[Nth(F, n)].key
    <2>1. n \in 1 .. Cardinality(F)
      BY <1>3, <1>4
    <2> QED BY <1>1, <1>2, <1>5, <2>1, NthIs DEF Entry
  <1>7. ASSUME NEW n \in 1 .. kept
        PROVE  LET i == Latest(rs, C[n].key)
               IN  /\ i \in 1 .. Len(rs) /\ Accepted(rs[i]) /\ rs[i].key = C[n].key
                   /\ C[n].dat = rs[i].dat /\ C[n] \in Entries
    <2> DEFINE i == Latest(rs, C[n].key)
               first == Nth(F, n)
    <2>1. first \in 1 .. Len(rs) /\ Accepted(rs[first]) /\ rs[first].key = C[n].key
      BY <1>2, <1>6
    <2>2. i \in 1 .. Len(rs) /\ Accepted(rs[i]) /\ rs[i].key = C[n].key
      BY <1>1, <2>1, LatestIs
    <2>3. C[n] = [key |-> C[n].key, dat |-> Lookup(r, C[n].key)]
      BY <1>6 DEF Entry
    <2>4. C[n].dat = rs[i].dat
      BY <1>1, <2>2, <2>3, LookupLatest DEF RegionOk
    <2>5. rs[i].key \in 0 .. 7 /\ rs[i].dat \in Datum
      BY <2>2, AcceptedIs
    <2>6. C[n] \in Entries
      <3>1. C[n].key \in 0 .. 7 /\ C[n].dat \in Datum
        BY <2>2, <2>4, <2>5
      <3>2. C[n] = [key |-> C[n].key, dat |-> C[n].dat]
        BY <2>3
      <3> HIDE DEF C
      <3> QED BY <3>1, <3>2 DEF Entries
    <2> QED BY <2>2, <2>4, <2>6
  <1>8. C \in [1 .. kept -> Entries]
    BY <1>5, <1>7
  <1>9. C \in Seq(Entries) /\ Len(C) = kept
    BY <1>4, <1>8, SeqDef, LenProperties
  <1>10. ASSUME NEW n \in 1 .. kept, NEW m \in 1 .. kept, n # m
         PROVE  C[n].key # C[m].key
    <2>1. n \in 1 .. Cardinality(F) /\ m \in 1 .. Cardinality(F)
      BY <1>3, <1>4
    <2>2. Nth(F, n) # Nth(F, m) /\ Nth(F, n) \in F /\ Nth(F, m) \in F
      BY <1>1, <1>2, <1>6, <1>10, <2>1, NthDiffer
    <2>3. Nth(F, n) < Nth(F, m) \/ Nth(F, m) < Nth(F, n)
      <3>1. Nth(F, n) \in 1 .. Len(rs) /\ Nth(F, m) \in 1 .. Len(rs)
        BY <1>2, <2>2
      <3> QED BY <1>1, <2>2, <3>1
    <2>4. rs[Nth(F, n)].key # rs[Nth(F, m)].key
      BY <1>2, <2>2, <2>3
    <2> QED BY <1>6, <2>4
  <1> QED BY <1>7, <1>9, <1>10 DEF C

\* What compact keeps fits the erased region: its records lie apart in the old one.
LEMMA CollectedFits ==
    ASSUME NEW r, RegionOk(r), NEW e \in Entries
    PROVE  Fits(Append(Collected(r), e), 0)
  <1> DEFINE rs == Records(r)
             C == Collected(r)
             q == Append(C, e)
             L(n) == Latest(rs, C[n].key)
             Foot(n) == rs[L(n)].off .. rs[L(n)].off + 1 + EntryLen(C[n])
             U(n) == UNION {Foot(j) : j \in 1 .. n - 1}
             at == [n \in 1 .. Len(C) + 1 |-> Cardinality(U(n))]
  <1>1. C \in Seq(Entries) /\ Len(C) \in Nat
    BY CollectedIs
  <1>2. Len(q) = Len(C) + 1 /\ \A i \in 1 .. Len(C) : q[i] = C[i]
    BY <1>1
  <1>3. rs \in Seq(Recs) /\ Len(rs) \in Nat /\ IsWalk(r, 0, rs) /\ r \in Regions
    BY RecordsWalk, LenProperties DEF IsWalk, RegionOk
  <1>4. ASSUME NEW n \in 1 .. Len(C)
        PROVE  /\ L(n) \in 1 .. Len(rs) /\ rs[L(n)].key = C[n].key
               /\ rs[L(n)] \in Recs /\ NextOff(rs[L(n)]) <= Size
               /\ EntryLen(C[n]) = rs[L(n)].len
    <2>1. /\ L(n) \in 1 .. Len(rs) /\ rs[L(n)].key = C[n].key /\ Accepted(rs[L(n)])
          /\ C[n].dat = rs[L(n)].dat
      BY CollectedIs
    <2> QED BY <2>1, AcceptedIs DEF EntryLen
  <1>5. ASSUME NEW n \in 1 .. Len(C)
        PROVE  /\ Foot(n) \subseteq 0 .. Size - 1 /\ IsFiniteSet(Foot(n))
               /\ Cardinality(Foot(n)) = RecTotal(EntryLen(C[n]))
               /\ RecTotal(EntryLen(C[n])) \in Nat
    <2> DEFINE o == rs[L(n)].off
               l == EntryLen(C[n])
    <2>1. o \in Nat /\ l \in {0, 1} /\ o + 2 + l <= Size /\ Size \in Nat
      BY <1>4, ConstAssumption DEF Recs, NextOff, RecTotal
    <2>2. Foot(n) = o .. o + 1 + l
      OBVIOUS
    <2> HIDE DEF o, l, Foot
    <2>3. IsFiniteSet(Foot(n)) /\ Cardinality(Foot(n)) = 2 + l
      BY <2>1, <2>2, FS_Interval
    <2>4. RecTotal(l) = 2 + l
      BY DEF RecTotal
    <2> QED BY <2>1, <2>2, <2>3, <2>4 DEF l
  <1>6. ASSUME NEW n \in 1 .. Len(C), NEW m \in 1 .. Len(C), n # m
        PROVE  Foot(n) \cap Foot(m) = {}
    <2>1. L(n) # L(m)
      <3>1. C[n].key # C[m].key
        BY <1>6, CollectedIs
      <3> QED BY <1>4, <3>1
    <2>2. ASSUME NEW a \in 1 .. Len(C), NEW b \in 1 .. Len(C), L(a) < L(b)
          PROVE  Foot(a) \cap Foot(b) = {}
      <3>1. L(a) \in 1 .. Len(rs) /\ L(b) \in L(a) + 1 .. Len(rs)
        BY <1>3, <1>4, <2>2
      <3>2. NextOff(rs[L(a)]) <= rs[L(b)].off
        BY <1>3, <3>1, WalkOrder
      <3>3. /\ rs[L(a)].off \in Nat /\ rs[L(b)].off \in Nat
            /\ EntryLen(C[a]) \in {0, 1} /\ EntryLen(C[b]) \in {0, 1}
            /\ rs[L(a)].off + 2 + EntryLen(C[a]) <= rs[L(b)].off
        <4>1. /\ rs[L(a)] \in Recs /\ rs[L(b)] \in Recs
              /\ EntryLen(C[a]) = rs[L(a)].len /\ EntryLen(C[b]) = rs[L(b)].len
          BY <1>4
        <4>2. NextOff(rs[L(a)]) = rs[L(a)].off + (2 + rs[L(a)].len)
          BY DEF NextOff, RecTotal
        <4> HIDE DEF L
        <4> QED BY <3>2, <4>1, <4>2 DEF Recs
      <3> DEFINE x == rs[L(a)].off
                 y == rs[L(b)].off
                 u == EntryLen(C[a])
                 v == EntryLen(C[b])
      <3>4. Foot(a) = x .. x + 1 + u /\ Foot(b) = y .. y + 1 + v
        OBVIOUS
      <3> HIDE DEF x, y, u, v, Foot
      <3>5. x \in Nat /\ y \in Nat /\ u \in {0, 1} /\ v \in {0, 1} /\ x + 2 + u <= y
        BY <3>3 DEF x, y, u, v
      <3> QED BY <3>4, <3>5
    <2>3. L(n) < L(m) \/ L(m) < L(n)
      BY <1>3, <1>4, <2>1
    <2> HIDE DEF Foot, L
    <2> QED BY <2>2, <2>3
  <1>7. ASSUME NEW n \in 1 .. Len(C) + 1
        PROVE  U(n) \subseteq 0 .. Size - 1 /\ IsFiniteSet(U(n)) /\ Cardinality(U(n)) \in Nat
               /\ Cardinality(U(n)) <= Size
    <2>1. ASSUME NEW x \in U(n) PROVE x \in 0 .. Size - 1
      <3>1. PICK j \in 1 .. n - 1 : x \in Foot(j)
        OBVIOUS
      <3>2. j \in 1 .. Len(C)
        BY <1>1
      <3> HIDE DEF Foot
      <3> QED BY <1>5, <3>1, <3>2
    <2>2. U(n) \in SUBSET (0 .. Size - 1)
      BY <2>1
    <2>3. IsFiniteSet(0 .. Size - 1) /\ Cardinality(0 .. Size - 1) = Size /\ Size \in Nat
      BY ConstAssumption, FS_Interval
    <2> HIDE DEF U
    <2> QED BY <2>2, <2>3, FS_Subset, FS_CardinalityType
  <1>8. ASSUME NEW n \in 1 .. Len(C)
        PROVE  at[n + 1] = at[n] + RecTotal(EntryLen(q[n])) /\ at[n + 1] <= Size
    <2>1. n \in 1 .. Len(C) + 1 /\ n + 1 \in 1 .. Len(C) + 1
      BY <1>1
    <2>2. U(n + 1) = U(n) \cup Foot(n)
      <3>1. 1 .. (n + 1) - 1 = (1 .. n - 1) \cup {n}
        BY <1>1
      <3> HIDE DEF Foot
      <3> QED BY <3>1
    <2>3. U(n) \cap Foot(n) = {}
      <3> SUFFICES ASSUME NEW x \in U(n), x \in Foot(n) PROVE FALSE
        OBVIOUS
      <3>1. PICK j \in 1 .. n - 1 : x \in Foot(j)
        OBVIOUS
      <3>2. j \in 1 .. Len(C) /\ j # n
        BY <1>1
      <3> HIDE DEF Foot
      <3> QED BY <1>6, <3>1, <3>2
    <2> HIDE DEF U, Foot
    <2>4. /\ Cardinality(U(n + 1)) =
             Cardinality(U(n)) + Cardinality(Foot(n)) - Cardinality(U(n) \cap Foot(n))
          /\ Cardinality(U(n) \cap Foot(n)) = 0
      BY <1>5, <1>7, <2>1, <2>2, <2>3, FS_Union, FS_EmptySet
    <2>5. Cardinality(U(n + 1)) = Cardinality(U(n)) + RecTotal(EntryLen(C[n]))
      BY <1>5, <1>7, <2>1, <2>4
    <2>6. at[n] = Cardinality(U(n)) /\ at[n + 1] = Cardinality(U(n + 1))
      BY <2>1
    <2> QED BY <1>2, <1>7, <2>1, <2>5, <2>6
  <1>9. at \in [1 .. Len(q) -> Nat]
    <2> HIDE DEF U
    <2> QED BY <1>2, <1>7
  <1>10. at[1] = 0
    <2>1. U(1) = {}
      OBVIOUS
    <2>2. 1 \in 1 .. Len(C) + 1
      BY <1>1
    <2> HIDE DEF U
    <2> QED BY <2>1, <2>2, FS_EmptySet
  <1>11. \A i \in 1 .. Len(q) - 1 :
            at[i + 1] = at[i] + RecTotal(EntryLen(q[i])) /\ at[i + 1] <= Size
    <2> HIDE DEF at, q
    <2>1. 1 .. Len(q) - 1 = 1 .. Len(C)
      BY <1>1, <1>2
    <2> QED BY <1>8, <2>1
  <1> HIDE DEF at
  <1> QED BY <1>9, <1>10, <1>11 DEF Fits

-----------------------------------------------------------------------------
(* The invariant. *)

\* The region holds such units only; the RAM's counters agree.
Flash == RegionOk(region) /\ cursor \in 0 .. Size /\ used = cursor

\* The records still to be written have room, so that only the caller's own,
\* the last one, can be refused.
Queue ==
    /\ pc \in {"off", "failed", "idle"} \cup HalCall
    /\ todo \in Seq(Entries)
    /\ pc \in HalCall <=> todo # <<>>
    /\ todo # <<>> => todo[Len(todo)].key \in Keys
    /\ pc = "erase" => Fits(todo, 0)
    /\ pc \in {"hdr", "val", "st"} =>
           Fits(todo, cursor) /\ cursor + RecTotal(EntryLen(todo[1])) <= Size
    /\ pc = "val" => todo[1].dat # None

History ==
    /\ acked \in [Keys -> Datum] /\ maybe \in [Keys -> SUBSET Datum]
    /\ ops \in 0 .. MaxOps /\ cut \in {NoCut} \cup [Keys -> Datum]

KvInv == Flash /\ Queue /\ History

-----------------------------------------------------------------------------
(* The queue of records. *)

\* A queue that is not empty has a first entry, one of compact's or a caller's.
LEMMA HeadIs ==
    ASSUME NEW q \in Seq(Entries), q # <<>>
    PROVE  /\ Len(q) \in Nat \ {0} /\ Head(q) = q[1] /\ q[1] \in Entries
           /\ q[1] = Entry(q[1].key, q[1].dat) /\ q[1].key \in 0 .. 7 /\ q[1].dat \in Datum
           /\ EntryLen(q[1]) \in {0, 1} /\ (EntryLen(q[1]) = 0 <=> q[1].dat = None)
           /\ RecTotal(EntryLen(q[1])) \in {2, 3}
  <1>1. Len(q) \in Nat \ {0} /\ Head(q) = q[1]
    BY EmptySeq
  <1>2. q[1] \in Entries
    BY <1>1, ElementOfSeq
  <1>3. EntryLen(q[1]) = IF q[1].dat = None THEN 0 ELSE 1
    BY DEF EntryLen
  <1> QED BY <1>1, <1>2, <1>3 DEF Entries, Entry, RecTotal

LEMMA TailIs ==
    ASSUME NEW q \in Seq(Entries), q # <<>>
    PROVE  /\ Tail(q) \in Seq(Entries) /\ Len(Tail(q)) = Len(q) - 1
           /\ \A i \in 1 .. Len(q) - 1 : Tail(q)[i] = q[i + 1]
           /\ Tail(q) = <<>> <=> Len(q) = 1
  <1>1. Tail(q) \in Seq(Entries) /\ Len(Tail(q)) = Len(q) - 1
        /\ \A i \in 1 .. Len(q) - 1 : Tail(q)[i] = q[i + 1]
    BY HeadTailProperties, LenProperties
  <1>2. Len(q) \in Nat \ {0}
    BY HeadIs
  <1> QED BY <1>1, <1>2, EmptySeq

\* A single record always fits: it is not asked for room here.
LEMMA FitsOne ==
    ASSUME NEW q \in Seq(Entries), Len(q) = 1, NEW c \in Nat
    PROVE  Fits(q, c)
  <1> DEFINE at == [i \in 1 .. Len(q) |-> c]
  <1>1. at \in [1 .. Len(q) -> Nat] /\ at[1] = c
    OBVIOUS
  <1>2. 1 .. Len(q) - 1 = {}
    OBVIOUS
  <1> HIDE DEF at
  <1> QED BY <1>1, <1>2 DEF Fits

\* The first of several fits, and so do the others behind it.
LEMMA FitsNext ==
    ASSUME NEW q \in Seq(Entries), Len(q) > 1, NEW c \in Nat, Fits(q, c)
    PROVE  /\ c + RecTotal(EntryLen(q[1])) <= Size
           /\ Fits(Tail(q), c + RecTotal(EntryLen(q[1])))
  <1>1. PICK at \in [1 .. Len(q) -> Nat] :
            /\ at[1] = c
            /\ \A i \in 1 .. Len(q) - 1 :
                   at[i + 1] = at[i] + RecTotal(EntryLen(q[i])) /\ at[i + 1] <= Size
    BY DEF Fits
  <1>2. q # <<>> /\ Len(q) \in Nat /\ 1 \in 1 .. Len(q) - 1
    BY LenProperties, EmptySeq
  <1>3. at[2] = c + RecTotal(EntryLen(q[1])) /\ at[2] <= Size
    BY <1>1, <1>2
  <1> DEFINE t == Tail(q)
             bt == [i \in 1 .. Len(t) |-> at[i + 1]]
  <1>4. Len(t) = Len(q) - 1 /\ \A i \in 1 .. Len(q) - 1 : t[i] = q[i + 1]
    BY <1>2, TailIs
  <1> HIDE DEF t
  <1>5. bt \in [1 .. Len(t) -> Nat] /\ bt[1] = at[2]
    BY <1>1, <1>2, <1>4
  <1>6. ASSUME NEW i \in 1 .. Len(t) - 1
        PROVE  bt[i + 1] = bt[i] + RecTotal(EntryLen(t[i])) /\ bt[i + 1] <= Size
    <2>1. i + 1 \in 1 .. Len(q) - 1 /\ i \in 1 .. Len(t) /\ i + 1 \in 1 .. Len(t)
      BY <1>2, <1>4
    <2>2. at[(i + 1) + 1] = at[i + 1] + RecTotal(EntryLen(q[i + 1])) /\ at[(i + 1) + 1] <= Size
      BY <1>1, <2>1
    <2>3. t[i] = q[i + 1] /\ bt[i] = at[i + 1] /\ bt[i + 1] = at[(i + 1) + 1]
      BY <1>4, <2>1
    <2> HIDE DEF bt
    <2> QED BY <2>2, <2>3
  <1> HIDE DEF bt
  <1>7. Fits(t, at[2])
    BY <1>5, <1>6 DEF Fits
  <1> QED BY <1>3, <1>7 DEF t

\* What kv_write does with the head of a queue that has room.
LEMMA ProceedOk ==
    ASSUME NEW q \in Seq(Entries), NEW c \in Nat, q # <<>> => Fits(q, c), Proceed(q, c)
    PROVE  \/ pc' = "idle" /\ todo' = <<>>
           \/ /\ pc' = "hdr" /\ todo' = q /\ q # <<>>
              /\ c + RecTotal(EntryLen(q[1])) <= Size
  <1>1. CASE q = <<>>
    BY <1>1 DEF Proceed, Start
  <1>2. CASE q # <<>> /\ Head(q).key = 0
    BY <1>2 DEF Proceed, Start
  <1>3. CASE q # <<>> /\ Head(q).key # 0 /\ c + RecTotal(EntryLen(Head(q))) <= Size
    BY <1>3, HeadIs DEF Proceed, Start
  <1>4. CASE q # <<>> /\ Head(q).key # 0 /\ ~ (c + RecTotal(EntryLen(Head(q))) <= Size)
    <2>1. Len(q) = 1
      <3> DEFINE n == Len(q)
      <3>1. n \in Nat \ {0} /\ Head(q) = q[1]
        BY <1>4, HeadIs
      <3>2. ~ (n > 1)
        BY <1>4, <3>1, FitsNext
      <3> HIDE DEF n
      <3>3. n = 1
        BY <3>1, <3>2
      <3> QED BY <3>3 DEF n
    <2>2. Start(q, c) = "idle"
      BY <1>4, <2>1 DEF Start
    <2> QED BY <2>2 DEF Proceed
  <1> QED BY <1>1, <1>2, <1>3, <1>4

-----------------------------------------------------------------------------
(* The flash. *)

\* Programming a unit.
LEMMA ProgramAt ==
    ASSUME NEW r, RegionOk(r), NEW i \in 0 .. Size - 1, NEW u, UnitOk(u)
    PROVE  RegionOk([r EXCEPT ![i] = Program(@, u)])
  <1>1. UnitOk(Program(r[i], u)) /\ Program(r[i], u) \in Units
    <2>1. UnitOk(r[i])
      BY DEF RegionOk
    <2> QED BY <2>1, ProgramOk DEF UnitOk
  <1> DEFINE s == [r EXCEPT ![i] = Program(@, u)]
  <1>2. s \in Regions /\ \A j \in 0 .. Size - 1 : s[j] = IF j = i THEN Program(r[i], u) ELSE r[j]
    BY <1>1 DEF RegionOk, Regions
  <1> HIDE DEF s
  <1>3. RegionOk(s)
    BY <1>1, <1>2 DEF RegionOk
  <1> QED BY <1>3 DEF s

LEMMA BlankOk == RegionOk(BlankRegion)
  <1>1. UnitOk(Blank) /\ Blank \in Units
    BY DEF UnitOk, Blank, Units
  <1> QED BY <1>1 DEF RegionOk, Regions, BlankRegion

\* What a loop that a failing read ended has seen is a region, too.
LEMMA SeenOk ==
    ASSUME NEW r, RegionOk(r), NEW seen \in Seen(r)
    PROVE  RegionOk(seen)
  <1>1. UnitOk(Blank) /\ Blank \in Units
    BY DEF UnitOk, Blank, Units
  <1>2. ASSUME NEW off \in 0 .. Size PROVE RegionOk(BlankFrom(r, off))
    BY <1>1 DEF RegionOk, Regions, BlankFrom
  <1> QED BY <1>2 DEF Seen

LEMMA CutAtOk ==
    ASSUME RegionOk(region), NEW off \in 0 .. Size - 1, NEW units,
           \A u \in units : UnitOk(u), NEW m \in CutAt(off, units)
    PROVE  RegionOk(m)
  <1>1. CASE m = region
    BY <1>1
  <1>2. CASE m # region
    <2>1. PICK u \in units : m = [region EXCEPT ![off] = Program(@, u)]
      BY <1>2 DEF CutAt
    <2> QED BY <2>1, ProgramAt
  <1> QED BY <1>1, <1>2

\* What the record under way is and where its units are.
LEMMA CurrentIs ==
    ASSUME Flash, Queue, pc \in {"hdr", "val", "st"}
    PROVE  /\ todo # <<>> /\ todo \in Seq(Entries) /\ Current = todo[1]
           /\ cursor \in 0 .. Size - 1 /\ cursor + 1 \in 0 .. Size - 1
           /\ StateOff \in 0 .. Size - 1
           /\ cursor + RecTotal(EntryLen(Current)) \in 0 .. Size
           /\ UnitOk(HeaderUnit(Current)) /\ UnitOk(Committed)
           /\ \A u \in TornHeaders(Current) : UnitOk(u)
           /\ Current.dat # None => /\ UnitOk(ValueUnit("val", Current.dat))
                                    /\ \A u \in TornValues(Current.dat) : UnitOk(u)
  <1>1. todo # <<>> /\ todo \in Seq(Entries) /\ cursor + RecTotal(EntryLen(todo[1])) <= Size
    BY DEF Queue, HalCall
  <1>2. Current = todo[1] /\ EntryLen(Current) \in {0, 1} /\ Current \in Entries
        /\ Current = Entry(Current.key, Current.dat)
        /\ Current.key \in 0 .. 7 /\ Current.dat \in Datum
    BY <1>1, HeadIs DEF Current
  <1>3. /\ cursor \in 0 .. Size - 1 /\ cursor + 1 \in 0 .. Size - 1 /\ StateOff \in 0 .. Size - 1
        /\ cursor + RecTotal(EntryLen(Current)) \in 0 .. Size
    <2>1. Size \in Nat /\ cursor \in Nat /\ RecTotal(EntryLen(Current)) = 2 + EntryLen(Current)
          /\ StateOff = cursor + 1 + EntryLen(Current)
      BY ConstAssumption DEF Flash, RecTotal, StateOff
    <2> QED BY <1>1, <1>2, <2>1
  <1>4. /\ UnitOk(HeaderUnit(Current)) /\ UnitOk(Committed)
        /\ \A u \in TornHeaders(Current) : UnitOk(u)
        /\ Current.dat # None => /\ UnitOk(ValueUnit("val", Current.dat))
                                 /\ \A u \in TornValues(Current.dat) : UnitOk(u)
    BY <1>2, WrittenUnits
  <1> QED BY <1>1, <1>2, <1>3, <1>4

\* What a call that fails or is cut leaves.
LEMMA CutOk ==
    ASSUME Flash, Queue, NEW m \in Cut
    PROVE  RegionOk(m)
  <1>1. RegionOk(region)
    BY DEF Flash
  <1>2. CASE pc = "erase"
    <2>1. m \in CutErase
      BY <1>2 DEF Cut
    <2>2. CASE m = region
      BY <1>1, <2>2
    <2>3. CASE m # region
      <3>1. PICK b \in 0 .. Blocks :
                m = [i \in 0 .. Size - 1 |-> IF i < b * (Size \div Blocks) THEN Blank ELSE region[i]]
        BY <2>1, <2>3 DEF CutErase
      <3>2. UnitOk(Blank) /\ Blank \in Units
        BY DEF UnitOk, Blank, Units
      <3>3. \A i \in 0 .. Size - 1 : m[i] = Blank \/ m[i] = region[i]
        BY <3>1
      <3>4. \A i \in 0 .. Size - 1 : UnitOk(m[i]) /\ m[i] \in Units
        BY <1>1, <3>2, <3>3 DEF RegionOk, Regions
      <3>5. m \in Regions
        BY <3>1, <3>4 DEF Regions
      <3> QED BY <3>4, <3>5 DEF RegionOk
    <2> QED BY <2>2, <2>3
  <1>3. CASE pc = "hdr"
    <2>1. m \in CutAt(cursor, {HeaderUnit(Current)} \cup TornHeaders(Current))
      BY <1>3 DEF Cut
    <2>2. cursor \in 0 .. Size - 1 /\ \A u \in {HeaderUnit(Current)} \cup TornHeaders(Current) : UnitOk(u)
      BY <1>3, CurrentIs
    <2> QED BY <1>1, <2>1, <2>2, CutAtOk
  <1>4. CASE pc = "val"
    <2>1. m \in CutAt(cursor + 1, {ValueUnit("val", Current.dat)} \cup TornValues(Current.dat))
      BY <1>4 DEF Cut
    <2>2. /\ cursor + 1 \in 0 .. Size - 1
          /\ \A u \in {ValueUnit("val", Current.dat)} \cup TornValues(Current.dat) : UnitOk(u)
      <3>1. Current.dat # None
        BY <1>4, CurrentIs DEF Queue
      <3> QED BY <1>4, <3>1, CurrentIs
    <2> QED BY <1>1, <2>1, <2>2, CutAtOk
  <1>5. CASE pc = "st"
    <2>1. m \in CutAt(StateOff, {Committed})
      BY <1>5 DEF Cut
    <2>2. StateOff \in 0 .. Size - 1 /\ \A u \in {Committed} : UnitOk(u)
      BY <1>5, CurrentIs
    <2> QED BY <1>1, <2>1, <2>2, CutAtOk
  <1>6. CASE pc \notin HalCall
    BY <1>1, <1>6 DEF Cut, HalCall
  <1> QED BY <1>2, <1>3, <1>4, <1>5, <1>6 DEF HalCall

-----------------------------------------------------------------------------
(* Every step keeps the invariant. *)

\* What the store holds is a dictionary.
LEMMA ViewIs ==
    ASSUME Flash, Queue
    PROVE  View \in [Keys -> Datum]
  <1>1. ASSUME NEW k \in Keys, NEW i \in InRam PROVE todo[i].dat \in Datum
    <2>1. todo \in Seq(Entries) /\ Len(todo) \in Nat
      BY LenProperties DEF Queue
    <2>2. i \in 1 .. Len(todo)
      BY <2>1 DEF InRam
    <2>3. todo[i] \in Entries
      BY <2>1, <2>2, ElementOfSeq
    <2> QED BY <2>3 DEF Entries
  <1>2. ASSUME NEW k \in Keys PROVE View[k] \in Datum
    <2>1. CASE \E i \in InRam : todo[i].key = k
      <3>1. (CHOOSE i \in InRam : todo[i].key = k) \in InRam
        BY <2>1
      <3> QED BY <1>1, <2>1, <3>1 DEF View
    <2>2. CASE ~ \E i \in InRam : todo[i].key = k
      <3>1. View[k] = Lookup(region, k)
        BY <2>2 DEF View
      <3> QED BY <3>1, LookupIs DEF Flash
    <2> QED BY <2>1, <2>2
  <1> DEFINE f(k) == IF \E i \in InRam : todo[i].key = k
                     THEN todo[CHOOSE i \in InRam : todo[i].key = k].dat
                     ELSE Lookup(region, k)
  <1>3. View = [k \in Keys |-> f(k)]
    BY DEF View
  <1>4. \A k \in Keys : f(k) \in Datum
    BY <1>2, <1>3
  <1> HIDE DEF f
  <1> QED BY <1>3, <1>4

LEMMA InitOk == Init => KvInv
  <1> SUFFICES ASSUME Init PROVE KvInv
    OBVIOUS
  <1>1. Flash
    BY BlankOk, ConstAssumption DEF Init, Flash
  <1>2. Queue
    BY EmptySeq DEF Init, Queue, HalCall
  <1>3. History
    BY ConstAssumption, Different DEF Init, History
  <1> QED BY <1>1, <1>2, <1>3 DEF KvInv

LEMMA KvInitOk == KvInv /\ KvInit => KvInv'
  <1> SUFFICES ASSUME KvInv, KvInit PROVE KvInv'
    OBVIOUS
  <1>1. region \in Regions /\ RegionOk(region)
    BY DEF KvInv, Flash, RegionOk
  <1>2. Scan(region).cursor \in 0 .. Size /\ Scan(region).ok \in BOOLEAN
    BY <1>1, ScanType
  <1>3. /\ cursor' \in 0 .. Size /\ used' = cursor' /\ region' = region
        /\ pc' \in {"idle", "failed"} /\ todo' = todo /\ pc = "off"
    BY <1>2, ConstAssumption DEF KvInit, ScanFails
  <1>4. Flash'
    BY <1>1, <1>2, <1>3 DEF Flash
  <1>5. todo = <<>>
    BY <1>3 DEF KvInv, Queue, HalCall
  <1>6. Queue'
    BY <1>3, <1>5, EmptySeq DEF Queue, HalCall
  <1>7. History'
    <2>1. acked' = [k \in Keys |-> Lookup(region, k)] /\ maybe' = [k \in Keys |-> {}]
          /\ ops' = ops /\ cut' = cut
      BY DEF KvInit
    <2>2. \A k \in Keys : Lookup(region, k) \in Datum
      BY <1>1, LookupIs
    <2> QED BY <2>1, <2>2 DEF History, KvInv
  <1> QED BY <1>4, <1>6, <1>7 DEF KvInv

LEMMA KvWriteOk ==
    ASSUME KvInv, NEW k \in Keys, NEW d \in Datum, KvWrite(k, d)
    PROVE  KvInv'
  <1> DEFINE e == Entry(k, d)
  <1>1. e \in Entries /\ e.key = k
    BY ConstAssumption DEF Entry, Entries
  <1>2. RegionOk(region) /\ region' = region /\ cursor' = cursor /\ used' = used
    BY DEF KvInv, Flash, KvWrite
  <1>3. Flash'
    BY <1>2 DEF KvInv, Flash
  <1> HIDE DEF e
  <1>4. Queue'
    <2>1. CASE cursor + RecTotal(EntryLen(e)) > Size
      <3>1. PICK seen \in Seen(region) : pc' = "erase" /\ todo' = Append(Collected(seen), e)
        BY <2>1 DEF KvWrite, e
      <3> RegionOk(seen)
        BY <1>2, SeenOk
      <3>2. Collected(seen) \in Seq(Entries)
        BY CollectedIs
      <3>3. /\ todo' \in Seq(Entries) /\ Len(todo') = Len(Collected(seen)) + 1
            /\ todo'[Len(todo')] = e
        BY <1>1, <3>1, <3>2, AppendProperties
      <3>4. todo' # <<>>
        BY <3>2, <3>3, LenProperties, EmptySeq
      <3>5. Fits(todo', 0)
        BY <1>1, <3>1, CollectedFits
      <3> QED BY <1>1, <3>1, <3>3, <3>4, <3>5 DEF Queue, HalCall
    <2>2. CASE ~ (cursor + RecTotal(EntryLen(e)) > Size)
      <3>1. pc' = "hdr" /\ todo' = <<e>>
        BY <2>2 DEF KvWrite, e
      <3>2. todo' \in Seq(Entries) /\ Len(todo') = 1 /\ todo'[1] = e /\ todo' # <<>>
        BY <1>1, <3>1
      <3>3. cursor \in Nat /\ Size \in Nat /\ RecTotal(EntryLen(e)) \in Nat
        BY ConstAssumption DEF KvInv, Flash, RecTotal, EntryLen
      <3>4. Fits(todo', cursor')
        BY <1>2, <3>2, <3>3, FitsOne
      <3>5. cursor' + RecTotal(EntryLen(todo'[1])) <= Size
        BY <1>2, <2>2, <3>2, <3>3
      <3> QED BY <1>1, <3>1, <3>2, <3>4, <3>5 DEF Queue, HalCall
    <2> QED BY <2>1, <2>2
  <1>5. History'
    <2>1. /\ maybe' = [maybe EXCEPT ![k] = @ \cup {d}] /\ ops' = ops + 1 /\ ops < MaxOps
          /\ acked' = acked /\ cut' = cut
      BY DEF KvWrite
    <2>2. maybe' \in [Keys -> SUBSET Datum]
      BY <2>1 DEF KvInv, History
    <2>3. ops' \in 0 .. MaxOps
      BY <2>1, ConstAssumption DEF KvInv, History
    <2> QED BY <2>1, <2>2, <2>3 DEF KvInv, History
  <1> QED BY <1>3, <1>4, <1>5 DEF KvInv

LEMMA CompactEraseOk == KvInv /\ CompactErase => KvInv'
  <1> SUFFICES ASSUME KvInv, CompactErase PROVE KvInv'
    OBVIOUS
  <1>1. /\ pc = "erase" /\ region' = Erased(region) /\ cursor' = 0 /\ used' = 0
        /\ Proceed(todo, 0) /\ acked' = acked /\ maybe' = maybe /\ ops' = ops /\ cut' = cut
    BY DEF CompactErase
  <1>2. RegionOk(region')
    BY <1>1, BlankOk DEF Erased, KvInv, Flash
  <1>3. Flash'
    BY <1>1, <1>2, ConstAssumption DEF Flash
  <1>4. todo \in Seq(Entries) /\ todo # <<>> /\ Fits(todo, 0) /\ todo[Len(todo)].key \in Keys
    BY <1>1 DEF KvInv, Queue, HalCall
  <1>5. \/ pc' = "idle" /\ todo' = <<>>
        \/ pc' = "hdr" /\ todo' = todo /\ 0 + RecTotal(EntryLen(todo[1])) <= Size
    BY <1>1, <1>4, ProceedOk
  <1>6. Queue'
    BY <1>1, <1>4, <1>5, EmptySeq DEF Queue, HalCall
  <1>7. History'
    BY <1>1 DEF KvInv, History
  <1> QED BY <1>3, <1>6, <1>7 DEF KvInv

LEMMA WriteHeaderOk == KvInv /\ WriteHeader => KvInv'
  <1> SUFFICES ASSUME KvInv, WriteHeader PROVE KvInv'
    OBVIOUS
  <1>1. /\ pc = "hdr" /\ region' = [region EXCEPT ![cursor] = Program(@, HeaderUnit(Current))]
        /\ pc' = (IF EntryLen(Current) = 0 THEN "st" ELSE "val")
        /\ cursor' = cursor /\ used' = used /\ todo' = todo
        /\ acked' = acked /\ maybe' = maybe /\ ops' = ops /\ cut' = cut
    BY DEF WriteHeader
  <1>2. /\ cursor \in 0 .. Size - 1 /\ UnitOk(HeaderUnit(Current)) /\ Current = todo[1]
        /\ todo # <<>> /\ todo \in Seq(Entries)
    BY <1>1, CurrentIs DEF KvInv
  <1>3. RegionOk(region')
    BY <1>1, <1>2, ProgramAt DEF KvInv, Flash
  <1>4. Flash'
    BY <1>1, <1>3 DEF KvInv, Flash
  <1>5. pc' = "val" => todo'[1].dat # None
    BY <1>1, <1>2 DEF EntryLen
  <1>6. Queue'
    <2>1. pc' \in {"st", "val"} /\ pc' # "erase"
      BY <1>1
    <2> QED BY <1>1, <1>2, <1>5, <2>1 DEF KvInv, Queue, HalCall
  <1>7. History'
    BY <1>1 DEF KvInv, History
  <1> QED BY <1>4, <1>6, <1>7 DEF KvInv

LEMMA WriteValueOk == KvInv /\ WriteValue => KvInv'
  <1> SUFFICES ASSUME KvInv, WriteValue PROVE KvInv'
    OBVIOUS
  <1>1. /\ pc = "val"
        /\ region' = [region EXCEPT ![cursor + 1] = Program(@, ValueUnit("val", Current.dat))]
        /\ pc' = "st" /\ cursor' = cursor /\ used' = used /\ todo' = todo
        /\ acked' = acked /\ maybe' = maybe /\ ops' = ops /\ cut' = cut
    BY DEF WriteValue
  <1>2. cursor + 1 \in 0 .. Size - 1 /\ Current = todo[1] /\ todo # <<>>
    BY <1>1, CurrentIs DEF KvInv
  <1>3. UnitOk(ValueUnit("val", Current.dat))
    <2>1. Current.dat # None
      BY <1>1, <1>2 DEF KvInv, Queue
    <2> QED BY <1>1, <2>1, CurrentIs DEF KvInv
  <1>4. RegionOk(region')
    BY <1>1, <1>2, <1>3, ProgramAt DEF KvInv, Flash
  <1>5. Flash'
    BY <1>1, <1>4 DEF KvInv, Flash
  <1>6. Queue'
    BY <1>1, <1>2 DEF KvInv, Queue, HalCall
  <1>7. History'
    BY <1>1 DEF KvInv, History
  <1> QED BY <1>5, <1>6, <1>7 DEF KvInv

LEMMA WriteStateOk == KvInv /\ WriteState => KvInv'
  <1> SUFFICES ASSUME KvInv, WriteState PROVE KvInv'
    OBVIOUS
  <1> DEFINE total == RecTotal(EntryLen(Current))
  <1>1. /\ pc = "st" /\ region' = [region EXCEPT ![StateOff] = Program(@, Committed)]
        /\ cursor' = cursor + total /\ used' = used + total
        /\ Proceed(Tail(todo), cursor + total) /\ ops' = ops /\ cut' = cut
    BY DEF WriteState
  <1>2. /\ StateOff \in 0 .. Size - 1 /\ UnitOk(Committed) /\ Current = todo[1]
        /\ todo # <<>> /\ todo \in Seq(Entries) /\ cursor + total \in 0 .. Size
    BY <1>1, CurrentIs DEF KvInv
  <1>3. RegionOk(region')
    BY <1>1, <1>2, ProgramAt DEF KvInv, Flash
  <1> HIDE DEF total
  <1>4. Flash'
    BY <1>1, <1>2, <1>3 DEF KvInv, Flash
  <1> DEFINE q == Tail(todo)
  <1>5. /\ q \in Seq(Entries) /\ Len(q) = Len(todo) - 1 /\ Len(todo) \in Nat \ {0}
        /\ \A i \in 1 .. Len(todo) - 1 : q[i] = todo[i + 1]
        /\ q = <<>> <=> Len(todo) = 1
    BY <1>2, TailIs, HeadIs
  <1>6. ASSUME q # <<>>
        PROVE  Fits(q, cursor + total) /\ q[Len(q)].key \in Keys
    <2>1. Len(todo) > 1
      BY <1>5, <1>6
    <2>2. Fits(todo, cursor) /\ cursor \in Nat /\ todo[Len(todo)].key \in Keys
      BY <1>1, <1>2, ConstAssumption DEF KvInv, Queue, Flash
    <2>3. Fits(q, cursor + total)
      BY <1>2, <2>1, <2>2, FitsNext DEF total
    <2>4. q[Len(q)] = todo[Len(todo)]
      BY <1>5, <2>1
    <2> QED BY <2>2, <2>3, <2>4
  <1> HIDE DEF q
  <1>7. cursor + total \in Nat
    BY <1>2
  <1>8. \/ pc' = "idle" /\ todo' = <<>>
        \/ /\ pc' = "hdr" /\ todo' = q /\ q # <<>>
           /\ cursor + total + RecTotal(EntryLen(q[1])) <= Size
    <2>1. Proceed(q, cursor + total)
      BY <1>1 DEF q
    <2> QED BY <1>5, <1>6, <1>7, <2>1, ProceedOk
  <1>9. Queue'
    BY <1>1, <1>5, <1>6, <1>8, EmptySeq DEF Queue, HalCall
  <1>10. History'
    <2>1. Current.dat \in Datum
      BY <1>2, HeadIs
    <2>2. \/ acked' = acked /\ maybe' = maybe
          \/ /\ acked' = [acked EXCEPT ![Current.key] = Current.dat]
             /\ maybe' = [maybe EXCEPT ![Current.key] = {}]
      BY DEF WriteState
    <2>3. acked' \in [Keys -> Datum] /\ maybe' \in [Keys -> SUBSET Datum]
      BY <2>1, <2>2 DEF KvInv, History
    <2> QED BY <1>1, <2>3 DEF KvInv, History
  <1> QED BY <1>4, <1>9, <1>10 DEF KvInv

LEMMA HalFailOk == KvInv /\ HalFail => KvInv'
  <1> SUFFICES ASSUME KvInv, HalFail PROVE KvInv'
    OBVIOUS
  <1>1. /\ region' \in Cut /\ pc' = "idle" /\ todo' = <<>> /\ cursor' = cursor /\ used' = used
        /\ acked' = acked /\ maybe' = maybe /\ ops' = ops /\ cut' = cut
    BY DEF HalFail
  <1>2. Flash'
    BY <1>1, CutOk DEF KvInv, Flash
  <1>3. Queue'
    BY <1>1, EmptySeq DEF Queue, HalCall
  <1>4. History'
    BY <1>1 DEF KvInv, History
  <1> QED BY <1>2, <1>3, <1>4 DEF KvInv

LEMMA PowerLossOk == KvInv /\ PowerLoss => KvInv'
  <1> SUFFICES ASSUME KvInv, PowerLoss PROVE KvInv'
    OBVIOUS
  <1>1. /\ region' \in Cut /\ pc' = "off" /\ todo' = <<>> /\ cursor' = 0 /\ used' = 0
        /\ acked' = acked /\ maybe' = maybe /\ ops' = ops /\ cut' \in {cut, View}
    BY DEF PowerLoss
  <1>2. Flash'
    BY <1>1, CutOk, ConstAssumption DEF KvInv, Flash
  <1>3. Queue'
    BY <1>1, EmptySeq DEF Queue, HalCall
  <1>4. History'
    BY <1>1, ViewIs DEF KvInv, History
  <1> QED BY <1>2, <1>3, <1>4 DEF KvInv

\* Every step keeps the invariant.
LEMMA StepOk == KvInv /\ [Next]_vars => KvInv'
  <1> SUFFICES ASSUME KvInv, [Next]_vars PROVE KvInv'
    OBVIOUS
  <1>1. CASE KvInit
    BY <1>1, KvInitOk
  <1>2. CASE SomeWrite
    BY <1>2, KvWriteOk DEF SomeWrite
  <1>3. CASE CompactErase
    BY <1>3, CompactEraseOk
  <1>4. CASE WriteHeader
    BY <1>4, WriteHeaderOk
  <1>5. CASE WriteValue
    BY <1>5, WriteValueOk
  <1>6. CASE WriteState
    BY <1>6, WriteStateOk
  <1>7. CASE HalFail
    BY <1>7, HalFailOk
  <1>8. CASE PowerLoss
    BY <1>8, PowerLossOk
  <1>9. CASE UNCHANGED vars
    BY <1>9 DEF vars, KvInv, Flash, Queue, History
  <1> QED BY <1>1, <1>2, <1>3, <1>4, <1>5, <1>6, <1>7, <1>8, <1>9 DEF Next

LEMMA InvHolds == Spec => []KvInv
  <1> QED BY InitOk, StepOk, PTL DEF Spec

-----------------------------------------------------------------------------
(* The theorems. *)

(***************************************************************************)
(* kv_store's region holds units of the format and no others, and its RAM  *)
(* state stays inside the region, whatever the medium and whatever faults  *)
(* the flash is exposed to.                                                *)
(***************************************************************************)
THEOREM TypeCorrect == Spec => []TypeOK
  <1>1. KvInv => TypeOK
    <2> SUFFICES ASSUME KvInv PROVE TypeOK
      OBVIOUS
    <2>1. region \in [0 .. Size - 1 -> Units] /\ cursor \in 0 .. Size /\ used \in 0 .. Size
      BY DEF KvInv, Flash, RegionOk, Regions
    <2>2. \A i \in DOMAIN todo : todo[i] \in [key : 0 .. 7, dat : Datum]
      BY LenProperties, ElementOfSeq DEF KvInv, Queue, Entries
    <2>3. pc \in {"off", "failed", "idle", "reenter"} \cup HalCall /\ (pc \in HalCall <=> todo # <<>>)
      BY DEF KvInv, Queue
    <2> QED BY <2>1, <2>2, <2>3 DEF TypeOK, KvInv, History
  <1> QED BY <1>1, InvHolds, PTL

(***************************************************************************)
(* A key never reads as anything but a value written whole (kv_read's CRC  *)
(* check): under lost power, torn writes, failing calls, records           *)
(* programmed over leftovers and loops that a failing read ended early.    *)
(***************************************************************************)
THEOREM WholeValues == Spec => []ValuesWhole
  <1>1. KvInv => ValuesWhole
    BY LookupIs, SeenOk DEF KvInv, Flash, ValuesWhole
  <1> QED BY <1>1, InvHolds, PTL

(***************************************************************************)
(* kv_write and compact call each other; compact is never entered from     *)
(* within, because the records it keeps lie apart in the region they are   *)
(* read from and so fit the region they are written to.                    *)
(***************************************************************************)
THEOREM NoReentry == Spec => []NeverReenters
  <1>1. KvInv => NeverReenters
    BY DEF KvInv, Queue, NeverReenters, HalCall
  <1> QED BY <1>1, InvHolds, PTL

-----------------------------------------------------------------------------
(* Two regions that agree up to an offset. *)

\* Where the walk ends: no record begins there.
End(r) == IF Len(Records(r)) = 0 THEN 0 ELSE NextOff(Records(r)[Len(Records(r))])
Alike(r, q, c) == \A i \in 0 .. Size - 1 : i < c => q[i] = r[i]

\* What the walk gives, in one place.
LEMMA WalkFacts ==
    ASSUME NEW r \in Regions
    PROVE  /\ IsWalk(r, 0, Records(r)) /\ Records(r) \in Seq(Recs) /\ Len(Records(r)) \in Nat
           /\ End(r) \in Nat /\ ~ Begins(r, End(r))
           /\ \A i \in 1 .. Len(Records(r)) :
                  /\ Records(r)[i] \in Recs /\ Records(r)[i].off \in Nat
                  /\ NextOff(Records(r)[i]) \in Nat /\ NextOff(Records(r)[i]) <= End(r)
                  /\ Begins(r, Records(r)[i].off)
                  /\ Records(r)[i] = RecordAt(r, Records(r)[i].off)
  <1> DEFINE rs == Records(r)
  <1>1. IsWalk(r, 0, rs) /\ rs \in Seq(Recs) /\ Len(rs) \in Nat
    BY RecordsWalk, LenProperties DEF IsWalk
  <1> HIDE DEF rs
  <1>2. ASSUME NEW i \in 1 .. Len(rs)
        PROVE  /\ rs[i] \in Recs /\ rs[i].off \in Nat /\ NextOff(rs[i]) \in Nat
               /\ rs[i].off <= NextOff(rs[i])
    <2>1. rs[i] \in Recs
      BY <1>1, ElementOfSeq
    <2>2. rs[i].off \in Nat /\ rs[i].len \in {0, 1}
      BY <2>1, ConstAssumption DEF Recs
    <2>3. NextOff(rs[i]) = rs[i].off + (2 + rs[i].len)
      BY DEF NextOff, RecTotal
    <2> QED BY <2>1, <2>2, <2>3
  <1>3. End(r) = IF Len(rs) = 0 THEN 0 ELSE NextOff(rs[Len(rs)])
    BY DEF End, rs
  <1>4. End(r) \in Nat
    BY <1>1, <1>2, <1>3
  <1>5. ~ Begins(r, End(r))
    BY <1>1, <1>3 DEF IsWalk
  <1>6. ASSUME NEW i \in 1 .. Len(rs) PROVE NextOff(rs[i]) <= End(r)
    <2>1. CASE i = Len(rs)
      BY <1>1, <1>2, <1>3, <2>1
    <2>2. CASE i # Len(rs)
      <3>1. Len(rs) \in i + 1 .. Len(rs) /\ Len(rs) \in 1 .. Len(rs) /\ Len(rs) # 0
        BY <1>1, <2>2
      <3>2. NextOff(rs[i]) <= rs[Len(rs)].off
        BY <1>1, <3>1, WalkOrder
      <3>3. rs[Len(rs)].off <= NextOff(rs[Len(rs)]) /\ NextOff(rs[Len(rs)]) = End(r)
        BY <1>2, <1>3, <3>1
      <3>4. NextOff(rs[i]) \in Nat /\ rs[Len(rs)].off \in Nat /\ End(r) \in Nat
        BY <1>2, <1>4, <3>1
      <3> QED BY <3>2, <3>3, <3>4
    <2> QED BY <2>1, <2>2
  <1>7. \A i \in 1 .. Len(rs) : Begins(r, rs[i].off) /\ rs[i] = RecordAt(r, rs[i].off)
    BY <1>1 DEF IsWalk
  <1> QED BY <1>1, <1>2, <1>4, <1>5, <1>6, <1>7 DEF rs

\* A region has one walk.
LEMMA WalkUnique ==
    ASSUME NEW r \in Regions, NEW off \in Nat, NEW s, NEW t, IsWalk(r, off, s), IsWalk(r, off, t)
    PROVE  s = t
  <1>1. s \in Seq(Recs) /\ t \in Seq(Recs) /\ Len(s) \in Nat /\ Len(t) \in Nat
    BY LenProperties DEF IsWalk
  <1>2. ASSUME NEW a, NEW b, IsWalk(r, off, a), IsWalk(r, off, b),
               a \in Seq(Recs), b \in Seq(Recs), Len(a) \in Nat, Len(b) \in Nat,
               NEW i \in 1 .. Len(a), \A j \in 1 .. Len(a) : j < i => j <= Len(b) /\ a[j] = b[j]
        PROVE  i <= Len(b) /\ a[i] = b[i]
    <2>1. CASE i = 1
      <3>1. a[1].off = off /\ Begins(r, off) /\ a[1] = RecordAt(r, off)
        BY <1>2, <2>1 DEF IsWalk
      <3>2. Len(b) # 0
        BY <1>2, <3>1 DEF IsWalk
      <3>3. 1 \in 1 .. Len(b)
        BY <1>2, <3>2
      <3>4. b[1].off = off /\ b[1] = RecordAt(r, b[1].off)
        BY <1>2, <3>3 DEF IsWalk
      <3> QED BY <1>2, <2>1, <3>1, <3>3, <3>4
    <2>2. CASE i # 1
      <3>1. i - 1 \in 1 .. Len(a) - 1 /\ i - 1 \in 1 .. Len(a) /\ i - 1 < i /\ (i - 1) + 1 = i
        BY <1>2, <2>2
      <3>2. i - 1 <= Len(b) /\ a[i - 1] = b[i - 1]
        BY <1>2, <3>1
      <3>3. a[(i - 1) + 1].off = NextOff(a[i - 1]) /\ Begins(r, a[i].off) /\ a[i] = RecordAt(r, a[i].off)
        BY <1>2, <3>1 DEF IsWalk
      <3>4. a[i].off = NextOff(b[i - 1])
        BY <3>1, <3>2, <3>3
      <3>5. i - 1 # Len(b)
        <4>1. SUFFICES ASSUME i - 1 = Len(b) PROVE FALSE
          OBVIOUS
        <4>2. Len(b) > 0
          BY <3>1, <4>1
        <4>3. ~ Begins(r, NextOff(b[Len(b)]))
          BY <1>2, <4>2 DEF IsWalk
        <4> QED BY <3>3, <3>4, <4>1, <4>3
      <3>6. i - 1 \in 1 .. Len(b) - 1 /\ i \in 1 .. Len(b)
        BY <1>2, <3>1, <3>2, <3>5
      <3>7. b[(i - 1) + 1].off = NextOff(b[i - 1]) /\ b[i] = RecordAt(r, b[i].off)
        BY <1>2, <3>6 DEF IsWalk
      <3> QED BY <3>1, <3>3, <3>4, <3>6, <3>7
    <2> QED BY <2>1, <2>2
  <1>3. ASSUME NEW a, NEW b, IsWalk(r, off, a), IsWalk(r, off, b),
               a \in Seq(Recs), b \in Seq(Recs), Len(a) \in Nat, Len(b) \in Nat
        PROVE  \A i \in 1 .. Len(a) : i <= Len(b) /\ a[i] = b[i]
    <2> DEFINE T == {i \in Nat : i \in 1 .. Len(a) /\ ~ (i <= Len(b) /\ a[i] = b[i])}
               n == Min(T)
    <2>1. SUFFICES ASSUME T # {} PROVE FALSE
      BY <1>3
    <2>2. n \in T /\ \A y \in T : n <= y
      BY <2>1, LeastNat
    <2> HIDE DEF n
    <2>3. ASSUME NEW j \in 1 .. Len(a), j < n PROVE j <= Len(b) /\ a[j] = b[j]
      <3>1. n \in Nat /\ j \in Nat
        BY <2>2, <1>3
      <3>2. j \notin T
        <4> HIDE DEF T
        <4> QED BY <2>2, <2>3, <3>1
      <3> QED BY <3>1, <3>2
    <2>4. n \in 1 .. Len(a)
      BY <2>2
    <2>5. n <= Len(b) /\ a[n] = b[n]
      BY <1>2, <1>3, <2>3, <2>4
    <2> QED BY <2>2, <2>5
  <1>4. /\ \A i \in 1 .. Len(s) : i <= Len(t) /\ s[i] = t[i]
        /\ \A i \in 1 .. Len(t) : i <= Len(s) /\ t[i] = s[i]
    BY <1>1, <1>3
  <1>5. Len(s) = Len(t)
    <2>1. Len(s) > 0 => Len(s) <= Len(t)
      BY <1>1, <1>4
    <2>2. Len(t) > 0 => Len(t) <= Len(s)
      BY <1>1, <1>4
    <2> QED BY <1>1, <2>1, <2>2
  <1> QED BY <1>1, <1>4, <1>5, SeqEqual

\* A record that lies below c is the same in both.
LEMMA RecordAlike ==
    ASSUME NEW r \in Regions, NEW q \in Regions, NEW c, c \in Nat, c <= Size, Alike(r, q, c),
           NEW off \in Nat, Begins(r, off), off + RecTotal(r[off].len) <= c
    PROVE  Begins(q, off) /\ RecordAt(q, off) = RecordAt(r, off)
  <1>1. off \in 0 .. Size - 2 /\ r[off].len \in {0, 1} /\ Size \in Nat
    <2>1. off \in 0 .. Size - 1 /\ Size \in Nat
      BY ConstAssumption DEF Begins
    <2> QED BY <2>1, RecordTyped DEF Begins, Regions, Units
  <1>2. off + (2 + r[off].len) <= c
    BY DEF RecTotal
  <1>3. q[off] = r[off]
    BY <1>1, <1>2 DEF Alike
  <1>4. q[off + 1] = r[off + 1]
    BY <1>1, <1>2 DEF Alike
  <1>5. q[off + 1 + r[off].len] = r[off + 1 + r[off].len]
    BY <1>1, <1>2 DEF Alike
  <1>6. Begins(q, off)
    BY <1>3 DEF Begins
  <1> QED BY <1>3, <1>4, <1>5, <1>6 DEF RecordAt

\* The records of r, when q is like r up to where they end.
LEMMA WalkAlike ==
    ASSUME NEW r \in Regions, NEW q \in Regions, End(r) <= Size, Alike(r, q, End(r))
    PROVE  \A i \in 1 .. Len(Records(r)) :
               /\ Begins(q, Records(r)[i].off)
               /\ Records(r)[i] = RecordAt(q, Records(r)[i].off)
  <1> SUFFICES ASSUME NEW i \in 1 .. Len(Records(r))
               PROVE  /\ Begins(q, Records(r)[i].off)
                      /\ Records(r)[i] = RecordAt(q, Records(r)[i].off)
    OBVIOUS
  <1> DEFINE rec == Records(r)[i]
  <1>1. /\ End(r) \in Nat /\ rec.off \in Nat /\ NextOff(rec) <= End(r)
        /\ Begins(r, rec.off) /\ rec = RecordAt(r, rec.off)
    BY WalkFacts
  <1> HIDE DEF rec
  <1>2. NextOff(rec) = rec.off + RecTotal(r[rec.off].len)
    BY <1>1, RecordTyped
  <1>3. Begins(q, rec.off) /\ RecordAt(q, rec.off) = RecordAt(r, rec.off)
    BY <1>1, <1>2, RecordAlike
  <1> QED BY <1>1, <1>3 DEF rec

\* Nothing new begins there: the same records.
LEMMA WalkCarry ==
    ASSUME NEW r \in Regions, NEW q \in Regions, End(r) <= Size, Alike(r, q, End(r)),
           ~ Begins(q, End(r))
    PROVE  Records(q) = Records(r) /\ End(q) = End(r)
  <1> DEFINE rs == Records(r)
  <1>1. IsWalk(r, 0, rs) /\ End(r) = IF Len(rs) = 0 THEN 0 ELSE NextOff(rs[Len(rs)])
    BY WalkFacts DEF End
  <1>2. \A i \in 1 .. Len(rs) : Begins(q, rs[i].off) /\ rs[i] = RecordAt(q, rs[i].off)
    BY WalkAlike
  <1> HIDE DEF rs
  <1>3. IsWalk(q, 0, rs)
    <2>1. Len(rs) \in Nat
      BY <1>1, LenProperties DEF IsWalk
    <2>2. Len(rs) = 0 => ~ Begins(q, 0)
      BY <1>1
    <2>3. Len(rs) > 0 => rs[1].off = 0 /\ ~ Begins(q, NextOff(rs[Len(rs)]))
      BY <1>1, <2>1 DEF IsWalk
    <2> QED BY <1>1, <1>2, <2>1, <2>2, <2>3 DEF IsWalk
  <1>4. Records(q) = rs
    BY <1>3, WalkUnique, RecordsWalk
  <1> QED BY <1>4 DEF rs, End

\* One more record begins there.
LEMMA WalkGrow ==
    ASSUME NEW r \in Regions, NEW q \in Regions, End(r) <= Size, Alike(r, q, End(r)),
           Begins(q, End(r)), ~ Begins(q, NextOff(RecordAt(q, End(r))))
    PROVE  /\ Records(q) = Append(Records(r), RecordAt(q, End(r)))
           /\ End(q) = NextOff(RecordAt(q, End(r)))
  <1> DEFINE rs == Records(r)
             c == End(r)
             rec == RecordAt(q, c)
             s == Append(rs, rec)
  <1>1. /\ IsWalk(r, 0, rs) /\ c = (IF Len(rs) = 0 THEN 0 ELSE NextOff(rs[Len(rs)]))
        /\ rs \in Seq(Recs) /\ Len(rs) \in Nat /\ c \in Nat
    BY WalkFacts DEF End
  <1>2. \A i \in 1 .. Len(rs) : Begins(q, rs[i].off) /\ rs[i] = RecordAt(q, rs[i].off)
    BY WalkAlike
  <1>3. rec \in Recs /\ rec.off = c
    BY <1>1, RecordTyped
  <1>4. Begins(q, c) /\ ~ Begins(q, NextOff(rec)) /\ rec = RecordAt(q, c)
    OBVIOUS
  <1> HIDE DEF rs, c, rec
  <1>5. /\ s \in Seq(Recs) /\ Len(s) = Len(rs) + 1 /\ s[Len(rs) + 1] = rec
        /\ \A i \in 1 .. Len(rs) : s[i] = rs[i]
    BY <1>1, <1>3, AppendProperties
  <1> HIDE DEF s
  <1>6. ASSUME NEW i \in 1 .. Len(s) PROVE Begins(q, s[i].off) /\ s[i] = RecordAt(q, s[i].off)
    <2>1. CASE i = Len(rs) + 1
      BY <1>3, <1>4, <1>5, <2>1
    <2>2. CASE i # Len(rs) + 1
      <3>1. i \in 1 .. Len(rs)
        BY <1>1, <1>5, <2>2
      <3> QED BY <1>2, <1>5, <3>1
    <2> QED BY <2>1, <2>2
  <1>7. ASSUME NEW i \in 1 .. Len(s) - 1 PROVE s[i + 1].off = NextOff(s[i])
    <2>1. i \in 1 .. Len(rs) /\ s[i] = rs[i]
      BY <1>1, <1>5
    <2>2. CASE i = Len(rs)
      BY <1>1, <1>3, <1>5, <2>1, <2>2
    <2>3. CASE i # Len(rs)
      <3>1. i \in 1 .. Len(rs) - 1 /\ i + 1 \in 1 .. Len(rs)
        BY <1>1, <2>1, <2>3
      <3>2. rs[i + 1].off = NextOff(rs[i])
        BY <1>1, <3>1 DEF IsWalk
      <3> QED BY <1>5, <2>1, <3>1, <3>2
    <2> QED BY <2>2, <2>3
  <1>8. Len(s) > 0 => s[1].off = 0 /\ ~ Begins(q, NextOff(s[Len(s)]))
    <2>1. s[1].off = 0
      <3>1. CASE Len(rs) = 0
        BY <1>1, <1>3, <1>5, <3>1
      <3>2. CASE Len(rs) # 0
        <4>1. rs[1].off = 0 /\ s[1] = rs[1]
          BY <1>1, <1>5, <3>2 DEF IsWalk
        <4> QED BY <4>1
      <3> QED BY <3>1, <3>2
    <2>2. ~ Begins(q, NextOff(s[Len(s)]))
      BY <1>4, <1>5
    <2> QED BY <2>1, <2>2
  <1>9. Len(s) # 0
    BY <1>1, <1>5
  <1>10. IsWalk(q, 0, s)
    BY <1>5, <1>6, <1>7, <1>8, <1>9 DEF IsWalk
  <1>11. Records(q) = s
    BY <1>10, WalkUnique, RecordsWalk
  <1>12. End(q) = NextOff(rec)
    BY <1>1, <1>5, <1>9, <1>11 DEF End
  <1> QED BY <1>11, <1>12 DEF s, rs, c, rec

\* Scan stops at the end of the walk.
LEMMA ScanAtEnd ==
    ASSUME NEW r \in Regions, End(r) <= Size
    PROVE  /\ Scan(r).cursor = End(r)
           /\ Scan(r).ok = IF End(r) + 2 <= Size /\ r[End(r)].kind = "hdr" THEN ~ DeviceEnds
                           ELSE TRUE
  <1> DEFINE rs == Records(r)
             c == End(r)
  <1>1. PICK g : Scan(r) = g[0] /\ \A off \in 0 .. Size + 1 : g[off] = ScanBody(r, g, off)
    BY ScanLoop
  <1>2. /\ IsWalk(r, 0, rs) /\ Len(rs) \in Nat /\ c \in Nat /\ ~ Begins(r, c)
        /\ c = IF Len(rs) = 0 THEN 0 ELSE NextOff(rs[Len(rs)])
    BY WalkFacts DEF End
  <1>3. Size \in Nat /\ c <= Size
    BY ConstAssumption
  <1>4. ASSUME NEW i \in 1 .. Len(rs)
        PROVE  rs[i].off \in Nat /\ NextOff(rs[i]) \in Nat /\ g[rs[i].off] = g[NextOff(rs[i])]
    <2> DEFINE off == rs[i].off
    <2>1. /\ off \in Nat /\ NextOff(rs[i]) \in Nat /\ NextOff(rs[i]) <= c
          /\ Begins(r, off) /\ rs[i] = RecordAt(r, off)
      BY WalkFacts
    <2>2. NextOff(rs[i]) = off + RecTotal(r[off].len) /\ off \in 0 .. Size - 2
      BY <2>1, RecordTyped
    <2> HIDE DEF off, c, rs
    <2>3. off \in 0 .. Size + 1 /\ r[off].len \in {0, 1}
      <3>1. off \in 0 .. Size - 1
        BY <1>3, <2>2
      <3> QED BY <1>3, <2>1, <2>2, <3>1 DEF Begins, Regions, Units
    <2>4. off + (2 + r[off].len) <= Size
      BY <1>2, <1>3, <2>1, <2>2 DEF RecTotal
    <2>5. ~ (off + 2 > Size \/ r[off].kind # "hdr") /\ ~ (r[off].len = LenFF \/ off + 1 + r[off].len >= Size)
      BY <1>3, <2>1, <2>3, <2>4 DEF Begins
    <2>6. g[off] = ScanBody(r, g, off)
      BY <1>1, <2>3
    <2>7. g[off] = g[off + RecTotal(r[off].len)]
      BY <2>5, <2>6 DEF ScanBody
    <2> QED BY <2>1, <2>2, <2>7 DEF off
  <1> HIDE DEF rs, c
  <1> DEFINE T == {i \in Nat : i \in 1 .. Len(rs) /\ g[rs[i].off] # g[0]}
             n == Min(T)
  <1>5. T = {}
    <2> SUFFICES ASSUME T # {} PROVE FALSE
      OBVIOUS
    <2>1. n \in T /\ \A y \in T : n <= y
      BY LeastNat
    <2> HIDE DEF n
    <2>2. n \in 1 .. Len(rs) /\ g[rs[n].off] # g[0]
      BY <2>1
    <2>3. CASE n = 1
      <3>1. rs[1].off = 0
        BY <1>2, <2>2, <2>3 DEF IsWalk
      <3> QED BY <2>2, <2>3, <3>1
    <2>4. CASE n # 1
      <3>1. n - 1 \in 1 .. Len(rs) - 1 /\ n - 1 \in 1 .. Len(rs) /\ (n - 1) + 1 = n /\ n - 1 \in Nat
            /\ ~ (n <= n - 1)
        BY <1>2, <2>2, <2>4
      <3>2. rs[(n - 1) + 1].off = NextOff(rs[n - 1])
        BY <1>2, <3>1 DEF IsWalk
      <3>3. n - 1 \notin T
        <4> HIDE DEF T
        <4> QED BY <2>1, <3>1
      <3>4. g[rs[n - 1].off] = g[0]
        BY <3>1, <3>3
      <3>5. g[rs[n - 1].off] = g[NextOff(rs[n - 1])]
        BY <1>4, <3>1
      <3> QED BY <2>2, <3>1, <3>2, <3>4, <3>5
    <2> QED BY <2>3, <2>4
  <1>6. g[0] = g[c]
    <2>1. CASE Len(rs) = 0
      BY <1>2, <2>1
    <2>2. CASE Len(rs) # 0
      <3>1. Len(rs) \in 1 .. Len(rs) /\ Len(rs) \in Nat
        BY <1>2, <2>2
      <3>2. g[rs[Len(rs)].off] = g[0]
        BY <1>5, <3>1
      <3> QED BY <1>2, <1>4, <2>2, <3>1, <3>2
    <2> QED BY <2>1, <2>2
  <1>7. g[c] = ScanBody(r, g, c)
    BY <1>1, <1>2, <1>3
  <1>8. CASE c + 2 <= Size /\ r[c].kind = "hdr"
    <2>1. r[c].len = LenFF
      BY <1>2, <1>8 DEF Begins
    <2>2. ~ (c + 2 > Size \/ r[c].kind # "hdr")
      BY <1>2, <1>3, <1>8
    <2>3. g[c] = [ok |-> ~DeviceEnds, cursor |-> c]
      BY <1>7, <2>1, <2>2 DEF ScanBody
    <2>4. g[c].cursor = c
      BY <2>3
    <2>5. g[c].ok = ~DeviceEnds
      BY <2>3
    <2> QED BY <1>1, <1>6, <1>8, <2>4, <2>5 DEF c
  <1>9. CASE ~ (c + 2 <= Size /\ r[c].kind = "hdr")
    <2>1. c + 2 > Size \/ r[c].kind # "hdr"
      BY <1>2, <1>3, <1>9
    <2>2. g[c] = [ok |-> TRUE, cursor |-> c]
      BY <1>7, <2>1 DEF ScanBody
    <2>3. g[c].cursor = c
      BY <2>2
    <2>4. g[c].ok = TRUE
      BY <2>2
    <2> QED BY <1>1, <1>6, <1>9, <2>3, <2>4 DEF c
  <1> QED BY <1>8, <1>9

-----------------------------------------------------------------------------
(* How the region is laid out, on NOR whose writes and erases do not fail and *)
(* whose erase is not cut half way: whole records up to an offset, behind it *)
(* nothing, or the stub of a header whose length was not programmed.         *)

Orderly ==
    /\ Medium = "NOR" /\ "fail" \notin Faults
    /\ "compact" \in Faults => Blocks = 1
\* What a torn header leaves is not written over.
Firm == "tear" \in Faults => DeviceEnds

Below(r, c) == BlankFrom(r, c)
Laid(r, c) == c \in 0 .. Size /\ End(Below(r, c)) = c
Blanks(r, c) == \A i \in 0 .. Size - 1 : i >= c => r[i] = Blank
Stub(u) == "tear" \in Faults /\ u.kind = "hdr" /\ u.len = LenFF
Rest(r, c) == Blanks(r, c + 1) /\ (c < Size => r[c] = Blank \/ Stub(r[c]))
HeadOf(r, c, l) == r[c].kind = "hdr" /\ r[c].len = l

LEMMA BlankIs == Blank.kind = "blank" /\ Blank \in Units /\ UnitOk(Blank)
  BY DEF Blank, UnitOk, Units

\* What is below an offset, with nothing behind it.
LEMMA BelowIs ==
    ASSUME NEW r \in Regions, NEW c \in 0 .. Size
    PROVE  /\ Below(r, c) \in Regions /\ Alike(Below(r, c), r, c)
           /\ \A off \in Nat : off >= c => ~ Begins(Below(r, c), off)
  <1>1. Below(r, c) \in Regions
    BY BlankIs DEF Below, BlankFrom, Regions
  <1>2. Alike(Below(r, c), r, c)
    BY DEF Alike, Below, BlankFrom
  <1>3. ASSUME NEW off \in Nat, off >= c PROVE ~ Begins(Below(r, c), off)
    <2>1. SUFFICES ASSUME Begins(Below(r, c), off) PROVE FALSE
      OBVIOUS
    <2>2. off \in 0 .. Size - 1 /\ ~ (off < c)
      BY <1>3, <2>1, ConstAssumption DEF Begins
    <2>3. Below(r, c)[off] = Blank
      BY <2>2 DEF Below, BlankFrom
    <2> QED BY <2>1, <2>3, BlankIs DEF Begins
  <1> QED BY <1>1, <1>2, <1>3

\* Only what is below counts.
LEMMA LaidAlike ==
    ASSUME NEW r \in Regions, NEW q \in Regions, NEW c, Laid(r, c), Alike(r, q, c)
    PROVE  Laid(q, c) /\ Below(q, c) = Below(r, c)
  <1>1. Below(q, c) = Below(r, c)
    BY DEF Below, BlankFrom, Alike
  <1> QED BY <1>1 DEF Laid

LEMMA LaidBlank == Laid(BlankRegion, 0) /\ Rest(BlankRegion, 0) /\ BlankRegion \in Regions
                   /\ Records(BlankRegion) = <<>>
  <1>1. BlankRegion \in Regions /\ 0 \in 0 .. Size /\ Size \in Nat
    BY BlankOk, ConstAssumption DEF RegionOk
  <1>2. Below(BlankRegion, 0) = BlankRegion
    BY DEF Below, BlankFrom, BlankRegion
  <1>3. ~ Begins(BlankRegion, 0)
    <2>1. BlankRegion[0] = Blank
      BY ConstAssumption DEF BlankRegion
    <2> QED BY <2>1, BlankIs DEF Begins
  <1>4. Records(BlankRegion) = <<>>
    BY <1>1, <1>3, WalkNil, WalkUnique, RecordsWalk
  <1>5. End(BlankRegion) = 0
    BY <1>4, EmptySeq DEF End
  <1>6. Rest(BlankRegion, 0)
    BY <1>1 DEF Rest, Blanks, BlankRegion
  <1> QED BY <1>1, <1>2, <1>4, <1>5, <1>6 DEF Laid

\* With nothing but a stub behind, the records are those below.
LEMMA LaidIs ==
    ASSUME NEW r \in Regions, NEW c, Laid(r, c), Rest(r, c)
    PROVE  Records(r) = Records(Below(r, c)) /\ End(r) = c
  <1>1. c \in 0 .. Size /\ c <= Size /\ Size \in Nat /\ End(Below(r, c)) = c
    BY ConstAssumption DEF Laid
  <1>2. Below(r, c) \in Regions /\ Alike(Below(r, c), r, c)
    BY <1>1, BelowIs
  <1>3. ~ Begins(r, c)
    <2>1. SUFFICES ASSUME Begins(r, c) PROVE FALSE
      OBVIOUS
    <2>2. c < Size
      BY <1>1, <2>1 DEF Begins
    <2> QED BY <2>1, <2>2, BlankIs DEF Begins, Rest, Stub
  <1> QED BY <1>1, <1>2, <1>3, WalkCarry

\* A record that begins there, and nothing behind it.
LEMMA LaidOpen ==
    ASSUME NEW r \in Regions, NEW c, Laid(r, c), NEW l \in {0, 1}, HeadOf(r, c, l),
           c + RecTotal(l) <= Size, ~ Begins(r, c + RecTotal(l))
    PROVE  /\ Records(r) = Append(Records(Below(r, c)), RecordAt(r, c))
           /\ End(r) = c + RecTotal(l)
  <1>1. c \in 0 .. Size /\ c \in Nat /\ c <= Size /\ Size \in Nat /\ End(Below(r, c)) = c
    BY ConstAssumption DEF Laid
  <1>2. Below(r, c) \in Regions /\ Alike(Below(r, c), r, c)
    BY <1>1, BelowIs
  <1>3. Begins(r, c)
    BY <1>1 DEF Begins, HeadOf, RecTotal, LenFF
  <1>4. NextOff(RecordAt(r, c)) = c + RecTotal(l)
    BY <1>1, <1>3, RecordTyped DEF HeadOf
  <1> QED BY <1>1, <1>2, <1>3, <1>4, WalkGrow

\* It counts from the moment something else may follow.
LEMMA LaidGrow ==
    ASSUME NEW r \in Regions, NEW c, Laid(r, c), NEW l \in {0, 1}, HeadOf(r, c, l),
           c + RecTotal(l) <= Size
    PROVE  /\ Laid(r, c + RecTotal(l))
           /\ Records(Below(r, c + RecTotal(l))) = Append(Records(Below(r, c)), RecordAt(r, c))
  <1> DEFINE n == c + RecTotal(l)
             q == Below(r, n)
  <1>1. /\ c \in 0 .. Size /\ c \in Nat /\ c <= Size /\ Size \in Nat /\ n \in 0 .. Size
        /\ n = c + (2 + l)
    BY ConstAssumption DEF Laid, RecTotal
  <1>2. q \in Regions /\ Alike(q, r, n) /\ ~ Begins(q, n)
    BY <1>1, BelowIs
  <1>3. Alike(r, q, n) /\ Alike(r, q, c)
    BY <1>1 DEF Alike, Below, BlankFrom
  <1>4. Laid(q, c) /\ Below(q, c) = Below(r, c)
    BY <1>2, <1>3, LaidAlike
  <1>5. Begins(r, c) /\ c + RecTotal(r[c].len) = n
    BY <1>1 DEF Begins, HeadOf, RecTotal, LenFF
  <1> HIDE DEF q, n
  <1>6. Begins(q, c) /\ RecordAt(q, c) = RecordAt(r, c)
    BY <1>1, <1>2, <1>3, <1>5, RecordAlike
  <1>7. HeadOf(q, c, l)
    <2>1. c \in 0 .. Size - 1 /\ c < n
      BY <1>1
    <2>2. q[c] = r[c]
      BY <1>3, <2>1 DEF Alike
    <2> QED BY <2>2 DEF HeadOf
  <1>8. Records(q) = Append(Records(Below(q, c)), RecordAt(q, c)) /\ End(q) = c + RecTotal(l)
    BY <1>1, <1>2, <1>4, <1>7, LaidOpen DEF n
  <1>9. Laid(r, n)
    BY <1>1, <1>8 DEF Laid, q, n
  <1> QED BY <1>4, <1>6, <1>8, <1>9 DEF q, n

-----------------------------------------------------------------------------
(* The layout while calls are under way. *)

Layout ==
    /\ pc \in {"off", "failed"} => \E c \in 0 .. Size : Laid(region, c) /\ Rest(region, c)
    /\ pc \in {"idle"} \cup HalCall => Laid(region, cursor)
    /\ pc \in {"idle", "erase", "hdr"} =>
           /\ Rest(region, cursor)
           /\ Firm /\ cursor + 2 <= Size => region[cursor] = Blank
    /\ pc \in {"val", "st"} =>
           /\ HeadOf(region, cursor, EntryLen(Current))
           /\ Firm => region[cursor] = HeaderUnit(Current)
    /\ pc = "val" => Blanks(region, cursor + 1)
    /\ pc = "st" =>
           /\ Blanks(region, StateOff)
           /\ EntryLen(Current) = 1 => region[cursor + 1] = ValueUnit("val", Current.dat)

\* Programming a header over blank units or over a stub.
LEMMA HeaderOver ==
    ASSUME Orderly, NEW old, old = Blank \/ Stub(old), NEW new, new.kind = "hdr"
    PROVE  /\ Program(old, new).kind = "hdr"
           /\ new.len = LenFF => Program(old, new).len = LenFF
           /\ new.len # LenFF => Program(old, new).len = new.len
  <1>1. CASE old = Blank \/ old = new
    BY <1>1 DEF Program, AndUnit, Orderly
  <1>2. CASE ~ (old = Blank \/ old = new)
    <2>1. old.kind = "hdr" /\ old.len = LenFF
      BY <1>2 DEF Stub
    <2> DEFINE key == AndField(old.key, new.key, KeyFF, AndBits(old.key, new.key))
               dat == AndField(old.dat, new.dat, FF, IF old.dat = new.dat THEN old.dat ELSE Junk)
               len == AndField(old.len, new.len, LenFF,
                               IF old.len < new.len THEN old.len ELSE new.len)
    <2>2. Program(old, new) = Header(key, len, dat)
      BY <1>2, <2>1 DEF Program, AndUnit, Orderly
    <2>3. len = new.len
      BY <2>1 DEF AndField
    <2> HIDE DEF key, dat, len
    <2> QED BY <2>2, <2>3 DEF Header
  <1> QED BY <1>1, <1>2

\* What the record under way occupies.
LEMMA Occupies ==
    ASSUME Flash, Queue, pc \in {"hdr", "val", "st"}
    PROVE  /\ EntryLen(Current) \in {0, 1} /\ cursor \in Nat /\ Size \in Nat
           /\ RecTotal(EntryLen(Current)) = 2 + EntryLen(Current)
           /\ cursor + 2 + EntryLen(Current) <= Size
           /\ StateOff = cursor + 1 + EntryLen(Current)
           /\ region \in Regions /\ RegionOk(region)
           /\ pc = "val" => EntryLen(Current) = 1
           /\ Current.key \in 0 .. 7 /\ Current.dat \in Datum
  <1>1. todo # <<>> /\ todo \in Seq(Entries) /\ cursor + RecTotal(EntryLen(todo[1])) <= Size
    BY DEF Queue, HalCall
  <1>2. Current = todo[1] /\ EntryLen(Current) \in {0, 1}
        /\ Current.key \in 0 .. 7 /\ Current.dat \in Datum
        /\ (EntryLen(Current) = 0 <=> Current.dat = None)
    BY <1>1, HeadIs DEF Current
  <1>3. cursor \in Nat /\ Size \in Nat /\ RecTotal(EntryLen(Current)) = 2 + EntryLen(Current)
    BY ConstAssumption DEF Flash, RecTotal
  <1>4. pc = "val" => EntryLen(Current) = 1
    BY <1>2 DEF Queue
  <1>5. cursor + 2 + EntryLen(Current) <= Size
    BY <1>1, <1>2, <1>3
  <1> QED BY <1>2, <1>3, <1>4, <1>5 DEF StateOff, Flash, RegionOk

\* The header is written: a record begins at the cursor, with nothing in it.
LEMMA HeaderLaid ==
    ASSUME Orderly, Flash, Queue, Layout, pc = "hdr", NEW u, UnitOk(u), u.kind = "hdr",
           u.len \in {LenFF, EntryLen(Current)}, u.len = LenFF => "tear" \in Faults, NEW m, m = [region EXCEPT ![cursor] = Program(@, u)]
    PROVE  /\ RegionOk(m) /\ Alike(region, m, cursor) /\ Laid(m, cursor)
           /\ Blanks(m, cursor + 1) /\ m[cursor] = Program(region[cursor], u)
           /\ u.len = LenFF => Rest(m, cursor)
           /\ u.len = EntryLen(Current) => HeadOf(m, cursor, EntryLen(Current))
           /\ Firm => m[cursor] = u
  <1>1. /\ EntryLen(Current) \in {0, 1} /\ cursor \in Nat /\ Size \in Nat /\ cursor \in 0 .. Size - 1
        /\ cursor + 2 + EntryLen(Current) <= Size /\ region \in Regions /\ RegionOk(region)
    BY Occupies
  <1>2. RegionOk(m)
    BY <1>1, ProgramAt
  <1>3. /\ Alike(region, m, cursor) /\ m[cursor] = Program(region[cursor], u)
        /\ \A j \in 0 .. Size - 1 : j # cursor => m[j] = region[j]
    <2>1. m[cursor] = Program(region[cursor], u) /\ \A j \in 0 .. Size - 1 : j # cursor => m[j] = region[j]
      BY <1>1 DEF Regions
    <2>2. \A j \in 0 .. Size - 1 : j < cursor => j # cursor
      BY <1>1
    <2> QED BY <2>1, <2>2 DEF Alike
  <1>4. Laid(region, cursor) /\ Rest(region, cursor)
    BY DEF Layout, HalCall
  <1>5. Laid(m, cursor)
    BY <1>1, <1>2, <1>3, <1>4, LaidAlike DEF RegionOk
  <1>6. Blanks(m, cursor + 1)
    <2>1. ASSUME NEW j \in 0 .. Size - 1, j >= cursor + 1 PROVE m[j] = Blank
      <3>1. j # cursor
        BY <1>1, <2>1
      <3>2. region[j] = Blank
        BY <1>4, <2>1 DEF Rest, Blanks
      <3> QED BY <1>3, <3>1, <3>2
    <2> QED BY <2>1 DEF Blanks
  <1>7. region[cursor] = Blank \/ Stub(region[cursor])
    BY <1>1, <1>4 DEF Rest
  <1>8. /\ m[cursor].kind = "hdr"
        /\ u.len = LenFF => m[cursor].len = LenFF
        /\ u.len # LenFF => m[cursor].len = u.len
    BY <1>3, <1>7, HeaderOver
  <1>9. LenFF # EntryLen(Current)
    BY <1>1 DEF LenFF
  <1>10. ASSUME Firm PROVE m[cursor] = u
    <2>1. region[cursor] = Blank
      BY <1>1, <1>10 DEF Layout
    <2> QED BY <1>3, <2>1 DEF Program, AndUnit, Orderly
  <1> QED BY <1>2, <1>3, <1>5, <1>6, <1>8, <1>9, <1>10 DEF Rest, Stub, HeadOf

\* Another unit of the record is written.
LEMMA BodyLaid ==
    ASSUME Orderly, Flash, Queue, Layout, pc \in {"val", "st"}, NEW u, NEW i,
           i = (IF pc = "val" THEN cursor + 1 ELSE StateOff), NEW m, RegionOk(m),
           m[i] = Program(region[i], u), \A j \in 0 .. Size - 1 : j # i => m[j] = region[j]
    PROVE  /\ Alike(region, m, cursor) /\ Laid(m, cursor)
           /\ HeadOf(m, cursor, EntryLen(Current)) /\ Blanks(m, i + 1)
           /\ m[i] = u /\ region[i] = Blank
  <1>1. /\ EntryLen(Current) \in {0, 1} /\ cursor \in Nat /\ Size \in Nat /\ cursor \in 0 .. Size - 1
        /\ cursor + 2 + EntryLen(Current) <= Size /\ region \in Regions /\ RegionOk(region)
        /\ StateOff = cursor + 1 + EntryLen(Current)
    BY Occupies
  <1>2. i \in 0 .. Size - 1 /\ i >= cursor + 1 /\ i >= cursor /\ cursor # i
    BY <1>1
  <1>3. \A j \in 0 .. Size - 1 : j < cursor => j # i
    BY <1>1, <1>2
  <1>4. Alike(region, m, cursor)
    BY <1>3 DEF Alike
  <1>5. Laid(region, cursor) /\ HeadOf(region, cursor, EntryLen(Current)) /\ Blanks(region, i)
    BY <1>1, <1>2 DEF Layout, HalCall
  <1>6. Laid(m, cursor)
    BY <1>1, <1>4, <1>5, LaidAlike DEF RegionOk
  <1>7. HeadOf(m, cursor, EntryLen(Current))
    BY <1>1, <1>2, <1>5 DEF HeadOf
  <1>8. Blanks(m, i + 1)
    BY <1>2, <1>5 DEF Blanks
  <1>9. region[i] = Blank
    BY <1>2, <1>5 DEF Blanks
  <1>10. m[i] = u
    BY <1>9 DEF Program, AndUnit, Orderly
  <1> QED BY <1>4, <1>6, <1>7, <1>8, <1>9, <1>10

-----------------------------------------------------------------------------
(* What a cut leaves, by the end of what counts. *)

\* Nothing of the record under way counts.
Before(m) == Alike(region, m, cursor) /\ Laid(m, cursor) /\ Rest(m, cursor)
\* The record under way begins at the cursor, committed or not.
Begun(m) ==
    /\ pc \in {"hdr", "val", "st"} /\ m \in Regions
    /\ Alike(region, m, cursor) /\ Laid(m, cursor) /\ HeadOf(m, cursor, EntryLen(Current))
    /\ Rest(m, cursor + RecTotal(EntryLen(Current)))
    /\ Firm => m[cursor].key = Current.key
    /\ \/ m[StateOff] = Blank
       \/ pc = "st" /\ m = [region EXCEPT ![StateOff] = Program(@, Committed)]

LEMMA CutIs ==
    ASSUME Orderly, Flash, Queue, Layout, pc \in {"idle"} \cup HalCall, NEW m \in Cut,
           pc = "erase" => Blocks = 1
    PROVE  Before(m) \/ Begun(m) \/ (pc = "erase" /\ m = BlankRegion)
  <1>1. region \in Regions /\ RegionOk(region) /\ Laid(region, cursor) /\ Size \in Nat /\ cursor \in 0 .. Size
    BY ConstAssumption DEF Flash, RegionOk, Layout
  <1>2. Alike(region, region, cursor)
    BY DEF Alike
  <1>3. ASSUME pc \in {"idle", "erase", "hdr"} PROVE Before(region)
    BY <1>1, <1>2, <1>3 DEF Before, Layout
  <1>4. CASE pc = "idle"
    <2>1. m = region
      BY <1>4 DEF Cut
    <2> QED BY <1>3, <1>4, <2>1
  <1>5. CASE pc = "erase"
    <2>1. m \in CutErase
      BY <1>5 DEF Cut
    <2>2. PICK b \in 0 .. Blocks :
              m = [i \in 0 .. Size - 1 |-> IF i < b * (Size \div Blocks) THEN Blank ELSE region[i]]
      BY <2>1 DEF CutErase, Orderly
    <2>3. b \in {0, 1} /\ Size \div Blocks = Size
      BY <1>1, <1>5
    <2>4. CASE b = 0
      <3>1. m = [i \in 0 .. Size - 1 |-> region[i]]
        BY <1>1, <2>2, <2>3, <2>4
      <3>2. m = region
        BY <1>1, <3>1 DEF Regions
      <3> QED BY <1>3, <1>5, <3>2
    <2>5. CASE b = 1
      <3>1. \A i \in 0 .. Size - 1 : i < b * (Size \div Blocks)
        BY <1>1, <2>3, <2>5
      <3>2. m = BlankRegion
        BY <2>2, <3>1 DEF BlankRegion
      <3> QED BY <1>5, <3>2
    <2> QED BY <2>3, <2>4, <2>5
  <1>6. ASSUME pc \in {"hdr", "val", "st"}
        PROVE  /\ EntryLen(Current) \in {0, 1} /\ cursor \in Nat /\ cursor \in 0 .. Size - 1
               /\ cursor + RecTotal(EntryLen(Current)) = StateOff + 1
               /\ StateOff = cursor + 1 + EntryLen(Current)
               /\ StateOff \in 0 .. Size - 1 /\ StateOff \in Nat
    BY <1>1, <1>6, Occupies
  <1>7. CASE pc = "hdr"
    <2>1. CASE m = region
      BY <1>3, <1>7, <2>1
    <2>2. CASE m # region
      <3>1. m \in CutAt(cursor, {HeaderUnit(Current)} \cup TornHeaders(Current))
        BY <1>7 DEF Cut
      <3>2. PICK u \in {HeaderUnit(Current)} \cup TornHeaders(Current) :
                m = [region EXCEPT ![cursor] = Program(@, u)]
        BY <2>2, <3>1 DEF CutAt
      <3>3. UnitOk(u)
        BY <1>7, CurrentIs
      <3>4. /\ u.kind = "hdr" /\ u.len \in {LenFF, EntryLen(Current)}
            /\ u.len = LenFF => "tear" \in Faults
            /\ u.len = EntryLen(Current) => u.key = Current.key
        <4>1. LenFF # EntryLen(Current)
          BY <1>6, <1>7 DEF LenFF
        <4>2. u = HeaderUnit(Current) \/ ("tear" \in Faults /\ u \in TornHeaders(Current))
          BY DEF TornHeaders
        <4> QED BY <4>1, <4>2 DEF HeaderUnit, TornHeaders, Header
      <3>5. /\ RegionOk(m) /\ Alike(region, m, cursor) /\ Laid(m, cursor)
            /\ Blanks(m, cursor + 1)
            /\ u.len = LenFF => Rest(m, cursor)
            /\ u.len = EntryLen(Current) => HeadOf(m, cursor, EntryLen(Current))
            /\ Firm => m[cursor] = u
        BY <1>7, <3>2, <3>3, <3>4, HeaderLaid
      <3>6. CASE u.len = LenFF
        BY <3>5, <3>6 DEF Before
      <3>7. CASE u.len = EntryLen(Current)
        <4>1. m[StateOff] = Blank
          BY <1>6, <1>7, <3>5 DEF Blanks
        <4>2. Rest(m, StateOff + 1)
          <5>1. \A i \in 0 .. Size - 1 : i >= StateOff + 1 => i >= cursor + 1
            BY <1>6, <1>7
          <5>2. \A i \in 0 .. Size - 1 : i >= StateOff + 1 => m[i] = Blank
            BY <3>5, <5>1 DEF Blanks
          <5> QED BY <1>1, <1>6, <1>7, <5>2 DEF Rest, Blanks
        <4> QED BY <1>6, <1>7, <3>4, <3>5, <3>7, <4>1, <4>2 DEF Begun, RegionOk
      <3> QED BY <3>4, <3>6, <3>7
    <2> QED BY <2>1, <2>2
  <1>8. CASE pc \in {"val", "st"}
    <2> DEFINE i == IF pc = "val" THEN cursor + 1 ELSE StateOff
    <2>1. /\ i \in 0 .. Size - 1 /\ i >= cursor + 1 /\ i <= StateOff
          /\ pc = "val" => i < StateOff
          /\ i = IF pc = "val" THEN cursor + 1 ELSE StateOff
      BY <1>6, <1>8, Occupies
    <2>2. HeadOf(region, cursor, EntryLen(Current)) /\ Blanks(region, i)
          /\ (Firm => region[cursor].key = Current.key)
      BY <1>8 DEF Layout, HeaderUnit, Header
    <2> HIDE DEF i
    <2>3. ASSUME NEW r, Blanks(r, i + 1) PROVE Rest(r, StateOff + 1)
      <3>1. \A j \in 0 .. Size - 1 : j >= StateOff + 1 => j >= i + 1
        BY <1>6, <1>8, <2>1
      <3>2. \A j \in 0 .. Size - 1 : j >= StateOff + 1 => r[j] = Blank
        BY <2>3, <3>1 DEF Blanks
      <3> QED BY <1>1, <1>6, <1>8, <3>2 DEF Rest, Blanks
    <2>4. CASE m = region
      <3>1. Blanks(region, i + 1)
        BY <2>1, <2>2, <1>6, <1>8 DEF Blanks
      <3>2. region[StateOff] = Blank
        BY <1>6, <1>8, <2>1, <2>2 DEF Blanks
      <3> QED BY <1>1, <1>2, <1>6, <1>8, <2>2, <2>3, <2>4, <3>1, <3>2 DEF Begun
    <2>5. CASE m # region
      <3>1. PICK u : /\ m = [region EXCEPT ![i] = Program(@, u)] /\ UnitOk(u)
                     /\ pc = "st" => u = Committed
        <4>1. CASE pc = "val"
          <5>1. m \in CutAt(i, {ValueUnit("val", Current.dat)} \cup TornValues(Current.dat))
            BY <4>1 DEF Cut, i
          <5>2. \A u \in {ValueUnit("val", Current.dat)} \cup TornValues(Current.dat) : UnitOk(u)
            <6>1. Current.dat # None
              BY <4>1, CurrentIs DEF Queue
            <6> QED BY <4>1, <6>1, CurrentIs
          <5> QED BY <2>5, <4>1, <5>1, <5>2 DEF CutAt
        <4>2. CASE pc = "st"
          <5>1. m \in CutAt(i, {Committed})
            BY <4>2 DEF Cut, i
          <5>2. UnitOk(Committed)
            BY <4>2, CurrentIs
          <5> QED BY <2>5, <5>1, <5>2 DEF CutAt
        <4> QED BY <1>8, <4>1, <4>2
      <3>2. /\ RegionOk(m) /\ Alike(region, m, cursor) /\ Laid(m, cursor)
            /\ HeadOf(m, cursor, EntryLen(Current)) /\ Blanks(m, i + 1)
            /\ m[cursor] = region[cursor]
        <4>1. RegionOk(m)
          BY <1>1, <2>1, <3>1, ProgramAt
        <4>2. m[i] = Program(region[i], u) /\ \A j \in 0 .. Size - 1 : j # i => m[j] = region[j]
          BY <1>1, <2>1, <3>1 DEF Regions
        <4>3. m[cursor] = region[cursor]
          BY <1>6, <1>8, <2>1, <4>2
        <4> QED BY <1>8, <2>1, <4>1, <4>2, <4>3, BodyLaid
      <3>3. \/ m[StateOff] = Blank
            \/ pc = "st" /\ m = [region EXCEPT ![StateOff] = Program(@, Committed)]
        <4>1. CASE pc = "val"
          <5>1. i \in Int /\ i < StateOff /\ StateOff \in 0 .. Size - 1
            BY <1>6, <1>8, <2>1, <4>1
          <5>2. StateOff >= i + 1
            BY <1>6, <1>8, <5>1
          <5>3. Blanks(m, i + 1)
            BY <3>2
          <5>4. m[StateOff] = Blank
            BY ONLY <5>1, <5>2, <5>3 DEF Blanks
          <5> QED BY <5>4
        <4>2. CASE pc = "st"
          BY <3>1, <4>2 DEF i
        <4> QED BY <1>8, <4>1, <4>2
      <3>4. Firm => m[cursor].key = Current.key
        BY <2>2, <3>2
      <3> QED BY <1>6, <1>8, <2>3, <3>2, <3>3, <3>4 DEF Begun, RegionOk
    <2> QED BY <2>4, <2>5
  <1> QED BY <1>4, <1>5, <1>7, <1>8 DEF HalCall

\* What a cut leaves is laid out again.
LEMMA CutLayout ==
    ASSUME Orderly, Flash, Queue, Layout, NEW m \in Cut, Compacting => "compact" \in Faults
    PROVE  \E c \in 0 .. Size : Laid(m, c) /\ Rest(m, c)
  <1>1. CASE pc \in {"off", "failed"}
    <2>1. m = region
      BY <1>1 DEF Cut
    <2> QED BY <1>1, <2>1 DEF Layout
  <1>2. CASE pc \in {"idle"} \cup HalCall
    <2>1. CASE Before(m)
      BY <2>1 DEF Before, Laid
    <2>2. CASE Begun(m)
      <3>1. /\ Laid(m, cursor) /\ HeadOf(m, cursor, EntryLen(Current)) /\ m \in Regions
            /\ Rest(m, cursor + RecTotal(EntryLen(Current))) /\ EntryLen(Current) \in {0, 1}
            /\ cursor + RecTotal(EntryLen(Current)) <= Size
        BY <2>2, Occupies DEF Begun
      <3>2. Laid(m, cursor + RecTotal(EntryLen(Current)))
        BY <3>1, LaidGrow
      <3> QED BY <3>1, <3>2 DEF Laid
    <2>3. CASE m = BlankRegion
      BY <2>3, LaidBlank DEF Laid
    <2>4. pc = "erase" => Blocks = 1
      BY DEF Orderly, Compacting
    <2> QED BY <1>2, <2>1, <2>2, <2>3, <2>4, CutIs
  <1> QED BY <1>1, <1>2 DEF Queue

-----------------------------------------------------------------------------
(* The layout is kept. *)

\* Nothing behind it: neither more of a record nor a stub.
LEMMA BlanksRest ==
    ASSUME NEW r, NEW c \in Nat, Blanks(r, c)
    PROVE  Rest(r, c) /\ (c + 2 <= Size => r[c] = Blank)
  <1>1. Size \in Nat
    BY ConstAssumption
  <1>2. \A i \in 0 .. Size - 1 : i >= c + 1 => i >= c
    OBVIOUS
  <1>3. Blanks(r, c + 1)
    BY <1>2 DEF Blanks
  <1>4. c < Size => r[c] = Blank
    BY <1>1 DEF Blanks
  <1> QED BY <1>1, <1>3, <1>4 DEF Rest

LEMMA InitLayout == Init => Layout
  <1> SUFFICES ASSUME Init PROVE Layout
    OBVIOUS
  <1>1. pc = "off" /\ region = BlankRegion
    BY DEF Init
  <1>2. 0 \in 0 .. Size
    BY ConstAssumption
  <1> QED BY <1>1, <1>2, LaidBlank DEF Layout, HalCall

\* kv_init finds the end of what is laid out.
LEMMA KvInitLayout ==
    ASSUME Orderly, KvInv, Layout, KvInit
    PROVE  Layout'
  <1>1. /\ region' = region /\ pc = "off"
        /\ pc' \in {"idle", "failed"}
        /\ pc' = "idle" => Scan(region).ok /\ cursor' = Scan(region).cursor
    BY DEF KvInit
  <1>2. region \in Regions
    BY DEF KvInv, Flash, RegionOk
  <1>3. PICK c \in 0 .. Size : Laid(region, c) /\ Rest(region, c)
    BY <1>1 DEF Layout
  <1>4. End(region) = c /\ c <= Size /\ c \in Nat /\ Size \in Nat
    BY <1>2, <1>3, LaidIs, ConstAssumption
  <1>5. /\ Scan(region).cursor = c
        /\ Scan(region).ok = IF c + 2 <= Size /\ region[c].kind = "hdr" THEN ~ DeviceEnds ELSE TRUE
    BY <1>2, <1>4, ScanAtEnd
  <1>6. ASSUME Scan(region).ok, Firm, c + 2 <= Size PROVE region[c] = Blank
    <2>1. region[c] = Blank \/ Stub(region[c])
      BY <1>3, <1>4, <1>6 DEF Rest
    <2> QED BY <1>5, <1>6, <2>1 DEF Stub, Firm
  <1>7. CASE pc' = "idle"
    BY <1>1, <1>3, <1>5, <1>6, <1>7 DEF Layout, HalCall
  <1>8. CASE pc' = "failed"
    BY <1>1, <1>3, <1>8 DEF Layout, HalCall
  <1> QED BY <1>1, <1>7, <1>8

LEMMA KvWriteLayout ==
    ASSUME Layout, NEW k \in Keys, NEW d \in Datum, KvWrite(k, d)
    PROVE  Layout'
  <1>1. pc = "idle" /\ region' = region /\ cursor' = cursor /\ pc' \in {"erase", "hdr"}
    BY DEF KvWrite
  <1> QED BY <1>1 DEF Layout, HalCall

LEMMA CompactEraseLayout ==
    ASSUME Orderly, KvInv', CompactErase
    PROVE  Layout'
  <1>1. region' = BlankRegion /\ cursor' = 0 /\ pc' \in {"idle", "hdr"}
    <2>1. region' = Erased(region) /\ cursor' = 0 /\ Proceed(todo, 0)
      BY DEF CompactErase
    <2>2. pc' \in {"idle", "hdr", "reenter"}
      BY <2>1 DEF Proceed, Start
    <2>3. pc' # "reenter"
      BY DEF KvInv, Queue, HalCall
    <2> QED BY <2>1, <2>2, <2>3 DEF Erased, Orderly
  <1>2. BlankRegion[0] = Blank
    BY ConstAssumption DEF BlankRegion
  <1> QED BY <1>1, <1>2, LaidBlank DEF Layout, HalCall

LEMMA WriteHeaderLayout ==
    ASSUME Orderly, KvInv, Layout, WriteHeader
    PROVE  Layout'
  <1> DEFINE u == HeaderUnit(Current)
  <1>1. /\ pc = "hdr" /\ region' = [region EXCEPT ![cursor] = Program(@, u)]
        /\ pc' = (IF EntryLen(Current) = 0 THEN "st" ELSE "val")
        /\ cursor' = cursor /\ todo' = todo
    BY DEF WriteHeader
  <1>2. UnitOk(u) /\ u.kind = "hdr" /\ u.len = EntryLen(Current) /\ EntryLen(Current) \in {0, 1}
        /\ u.len # LenFF
    BY <1>1, CurrentIs, Occupies DEF KvInv, HeaderUnit, Header, LenFF
  <1> HIDE DEF u
  <1>3. /\ Laid(region', cursor) /\ Blanks(region', cursor + 1)
        /\ HeadOf(region', cursor, EntryLen(Current))
        /\ Firm => region'[cursor] = u
    BY <1>1, <1>2, HeaderLaid DEF KvInv
  <1>4. Current' = Current
    BY <1>1 DEF Current
  <1>5. pc' = "st" => StateOff' = cursor + 1 /\ EntryLen(Current) # 1
    BY <1>1, <1>4, <1>2, Occupies DEF StateOff, KvInv
  <1>6. pc' \in {"st", "val"}
    BY <1>1
  <1> QED BY <1>1, <1>3, <1>4, <1>5, <1>6 DEF Layout, HalCall, u

LEMMA WriteValueLayout ==
    ASSUME Orderly, KvInv, Layout, WriteValue
    PROVE  Layout'
  <1> DEFINE u == ValueUnit("val", Current.dat)
  <1>1. /\ pc = "val" /\ region' = [region EXCEPT ![cursor + 1] = Program(@, u)]
        /\ pc' = "st" /\ cursor' = cursor /\ todo' = todo
    BY DEF WriteValue
  <1> HIDE DEF u
  <1>2. /\ cursor \in Nat /\ cursor + 1 \in 0 .. Size - 1 /\ cursor \in 0 .. Size - 1
        /\ EntryLen(Current) = 1 /\ region \in Regions
    BY <1>1, Occupies DEF KvInv
  <1>3. /\ region'[cursor + 1] = Program(region[cursor + 1], u)
        /\ \A j \in 0 .. Size - 1 : j # cursor + 1 => region'[j] = region[j]
    BY <1>1, <1>2 DEF Regions
  <1>4. RegionOk(region')
    BY <1>1, WriteValueOk DEF KvInv, Flash
  <1>5. /\ Laid(region', cursor) /\ HeadOf(region', cursor, EntryLen(Current))
        /\ Blanks(region', cursor + 1 + 1) /\ region'[cursor + 1] = u
    <2> DEFINE i == cursor + 1
               m == region'
    <2>1. /\ i = (IF pc = "val" THEN cursor + 1 ELSE StateOff)
          /\ pc \in {"val", "st"} /\ Flash /\ Queue /\ RegionOk(m)
          /\ m[i] = Program(region[i], u) /\ \A j \in 0 .. Size - 1 : j # i => m[j] = region[j]
      BY <1>1, <1>3, <1>4 DEF KvInv
    <2> HIDE DEF i, m
    <2>2. /\ Laid(m, cursor) /\ HeadOf(m, cursor, EntryLen(Current))
          /\ Blanks(m, i + 1) /\ m[i] = u
      BY <2>1, BodyLaid
    <2> QED BY <2>2 DEF i, m
  <1>6. Current' = Current /\ StateOff' = cursor + 1 + 1
    BY <1>1, <1>2 DEF Current, StateOff
  <1>7. Firm => region'[cursor] = HeaderUnit(Current)
    BY <1>1, <1>2, <1>3 DEF Layout
  <1> QED BY <1>1, <1>5, <1>6, <1>7 DEF Layout, HalCall, u

\* The state byte is written: the record counts.
LEMMA StateLaid ==
    ASSUME Orderly, KvInv, Layout, pc = "st", NEW m, m = [region EXCEPT ![StateOff] = Program(@, Committed)]
    PROVE  /\ RegionOk(m) /\ Alike(region, m, cursor) /\ Laid(m, cursor)
           /\ HeadOf(m, cursor, EntryLen(Current)) /\ Blanks(m, StateOff + 1)
           /\ m[StateOff] = Committed
           /\ \A j \in 0 .. Size - 1 : j # StateOff => m[j] = region[j]
  <1>1. StateOff \in 0 .. Size - 1 /\ region \in Regions /\ RegionOk(region) /\ UnitOk(Committed)
    BY CurrentIs DEF KvInv, Flash, RegionOk
  <1>2. /\ m[StateOff] = Program(region[StateOff], Committed)
        /\ \A j \in 0 .. Size - 1 : j # StateOff => m[j] = region[j]
    BY <1>1 DEF Regions
  <1>3. RegionOk(m)
    BY <1>1, ProgramAt
  <1> DEFINE i == StateOff
  <1>4. i = (IF pc = "val" THEN cursor + 1 ELSE StateOff)
    OBVIOUS
  <1>5. /\ m[i] = Program(region[i], Committed)
        /\ \A j \in 0 .. Size - 1 : j # i => m[j] = region[j]
    BY <1>2
  <1> HIDE DEF i
  <1>6. /\ Alike(region, m, cursor) /\ Laid(m, cursor)
        /\ HeadOf(m, cursor, EntryLen(Current)) /\ Blanks(m, i + 1) /\ m[i] = Committed
    <2> DEFINE u == Committed
    <2>1. m[i] = Program(region[i], u) /\ Flash /\ Queue /\ pc \in {"val", "st"}
      BY <1>5 DEF KvInv
    <2> HIDE DEF u
    <2>2. /\ Alike(region, m, cursor) /\ Laid(m, cursor)
          /\ HeadOf(m, cursor, EntryLen(Current)) /\ Blanks(m, i + 1) /\ m[i] = u
      BY ONLY Orderly, Layout, <1>3, <1>4, <1>5, <2>1, BodyLaid
    <2> QED BY <2>2 DEF u
  <1> QED BY <1>2, <1>3, <1>6 DEF i

LEMMA WriteStateLayout ==
    ASSUME Orderly, KvInv, KvInv', Layout, WriteState
    PROVE  Layout'
  <1> DEFINE n == cursor + RecTotal(EntryLen(Current))
  <1>1. /\ pc = "st" /\ region' = [region EXCEPT ![StateOff] = Program(@, Committed)]
        /\ cursor' = n /\ pc' \in {"idle", "hdr"}
    <2>1. pc' \in {"idle", "hdr", "reenter"}
      BY DEF WriteState, Proceed, Start
    <2>2. pc' # "reenter"
      BY DEF KvInv, Queue, HalCall
    <2> QED BY <2>1, <2>2 DEF WriteState
  <1>2. /\ RegionOk(region') /\ Laid(region', cursor) /\ HeadOf(region', cursor, EntryLen(Current))
        /\ Blanks(region', StateOff + 1)
    BY <1>1, StateLaid
  <1>3. EntryLen(Current) \in {0, 1} /\ n <= Size /\ n \in Nat /\ n = StateOff + 1
    BY <1>1, Occupies DEF KvInv
  <1>4. Laid(region', n)
    BY <1>2, <1>3, LaidGrow DEF RegionOk
  <1>5. Rest(region', n) /\ (n + 2 <= Size => region'[n] = Blank)
    BY <1>2, <1>3, BlanksRest
  <1> HIDE DEF n
  <1> QED BY <1>1, <1>4, <1>5 DEF Layout, HalCall

LEMMA PowerLossLayout ==
    ASSUME Orderly, KvInv, Layout, PowerLoss
    PROVE  Layout'
  <1>1. region' \in Cut /\ pc' = "off" /\ (Compacting => "compact" \in Faults)
    BY DEF PowerLoss
  <1>2. \E c \in 0 .. Size : Laid(region', c) /\ Rest(region', c)
    BY <1>1, CutLayout DEF KvInv
  <1> QED BY <1>1, <1>2 DEF Layout, HalCall

LEMMA LayoutStep ==
    ASSUME Orderly, KvInv, Layout, [Next]_vars
    PROVE  Layout'
  <1>1. KvInv'
    BY StepOk
  <1>2. CASE KvInit
    BY <1>2, KvInitLayout
  <1>3. CASE SomeWrite
    BY <1>3, KvWriteLayout DEF SomeWrite
  <1>4. CASE CompactErase
    BY <1>1, <1>4, CompactEraseLayout
  <1>5. CASE WriteHeader
    BY <1>5, WriteHeaderLayout
  <1>6. CASE WriteValue
    BY <1>6, WriteValueLayout
  <1>7. CASE WriteState
    BY <1>1, <1>7, WriteStateLayout
  <1>8. CASE HalFail
    BY <1>8 DEF HalFail, Orderly
  <1>9. CASE PowerLoss
    BY <1>9, PowerLossLayout
  <1>10. CASE UNCHANGED vars
    BY <1>10 DEF vars, Layout, Current, StateOff
  <1> QED BY <1>2, <1>3, <1>4, <1>5, <1>6, <1>7, <1>8, <1>9, <1>10 DEF Next

LEMMA LayoutHolds == ASSUME Orderly PROVE Spec => [](KvInv /\ Layout)
  <1>1. Init => KvInv /\ Layout
    BY InitOk, InitLayout
  <1>2. KvInv /\ Layout /\ [Next]_vars => (KvInv /\ Layout)'
    BY StepOk, LayoutStep
  <1> QED BY <1>1, <1>2, PTL DEF Spec

(***************************************************************************)
(* RAM and flash agree.  On NOR flash whose writes and erases do not fail, *)
(* kv_init, run again while the store is at rest, would find the cursor    *)
(* where kv_write left it, and as many bytes in use: whatever the keys,    *)
(* the values and the size, however often power is lost, with headers torn *)
(* and, when the region is one erase block, also inside a compaction, and  *)
(* whatever records a failing read hid from compact.                       *)
(***************************************************************************)
THEOREM RestartFinds == ASSUME Orderly PROVE Spec => []RestartAgrees
  <1>1. KvInv /\ Layout => RestartAgrees
    <2> SUFFICES ASSUME KvInv, Layout, pc = "idle"
                 PROVE  Scan(region).ok /\ Scan(region).cursor = cursor /\ used = cursor
      BY DEF RestartAgrees
    <2>1. region \in Regions /\ cursor \in Nat /\ used = cursor /\ cursor <= Size
      BY ConstAssumption DEF KvInv, Flash, RegionOk
    <2>2. Laid(region, cursor) /\ Rest(region, cursor)
      BY DEF Layout
    <2>3. End(region) = cursor
      BY <2>1, <2>2, LaidIs
    <2>4. /\ Scan(region).cursor = cursor
          /\ Scan(region).ok = IF cursor + 2 <= Size /\ region[cursor].kind = "hdr"
                               THEN ~ DeviceEnds ELSE TRUE
      BY <2>1, <2>3, ScanAtEnd
    <2>5. DeviceEnds /\ cursor + 2 <= Size => region[cursor] = Blank
      BY DEF Layout, Firm
    <2> QED BY <2>1, <2>4, <2>5, BlankIs
  <1> QED BY <1>1, LayoutHolds, PTL

-----------------------------------------------------------------------------
(* What is read of a region laid out. *)

RecKeys(r) == \A i \in 1 .. Len(Records(r)) : Records(r)[i].key \in Keys

\* A read sees the records only.
LEMMA SameLookup ==
    ASSUME NEW r, NEW q, Records(q) = Records(r)
    PROVE  (\A k : Lookup(q, k) = Lookup(r, k)) /\ (RecKeys(r) => RecKeys(q))
  BY DEF Lookup, RecKeys

\* The last of one more record.
LEMMA LatestGrow ==
    ASSUME NEW s \in Seq(Recs), NEW rec \in Recs, NEW k
    PROVE  Latest(Append(s, rec), k) = IF Accepted(rec) /\ rec.key = k THEN Len(s) + 1
                                       ELSE Latest(s, k)
  <1> DEFINE t == Append(s, rec)
  <1>1. /\ t \in Seq(Recs) /\ Len(s) \in Nat /\ Len(t) = Len(s) + 1 /\ t[Len(s) + 1] = rec
        /\ \A i \in 1 .. Len(s) : t[i] = s[i]
    BY AppendProperties, LenProperties
  <1> HIDE DEF t
  <1> DEFINE i == Latest(t, k)
             j == Latest(s, k)
  <1>2. \/ i = 0 /\ \A n \in 1 .. Len(t) : ~ (Accepted(t[n]) /\ t[n].key = k)
        \/ /\ i \in 1 .. Len(t) /\ Accepted(t[i]) /\ t[i].key = k
           /\ \A n \in 1 .. Len(t) : Accepted(t[n]) /\ t[n].key = k => n <= i
    BY <1>1, LatestIs
  <1>3. \/ j = 0 /\ \A n \in 1 .. Len(s) : ~ (Accepted(s[n]) /\ s[n].key = k)
        \/ /\ j \in 1 .. Len(s) /\ Accepted(s[j]) /\ s[j].key = k
           /\ \A n \in 1 .. Len(s) : Accepted(s[n]) /\ s[n].key = k => n <= j
    BY LatestIs
  <1> HIDE DEF i, j
  <1>4. CASE Accepted(rec) /\ rec.key = k
    <2>1. Len(s) + 1 \in 1 .. Len(t)
      BY <1>1
    <2>2. i # 0 /\ Len(s) + 1 <= i
      BY <1>1, <1>2, <1>4, <2>1
    <2>3. i = Len(s) + 1
      BY <1>1, <1>2, <2>2
    <2> QED BY <1>4, <2>3 DEF i, t
  <1>5. CASE ~ (Accepted(rec) /\ rec.key = k)
    <2>1. i # Len(s) + 1
      BY <1>1, <1>2, <1>5
    <2>2. i = 0 \/ i \in 1 .. Len(s)
      BY <1>1, <1>2, <2>1
    <2>3. 1 .. Len(s) \subseteq 1 .. Len(t)
      BY <1>1
    <2>4. i = j
      <3>1. CASE i = 0
        BY <1>1, <1>2, <1>3, <2>3, <3>1
      <3>2. CASE i # 0
        <4>1. i \in 1 .. Len(s) /\ Accepted(s[i]) /\ s[i].key = k
          BY <1>1, <1>2, <2>2, <3>2
        <4>2. j \in 1 .. Len(s) /\ i <= j /\ Accepted(t[j]) /\ t[j].key = k
          BY <1>1, <1>3, <4>1
        <4>3. j <= i
          BY <1>2, <2>3, <3>2, <4>2
        <4> QED BY <1>1, <4>1, <4>2, <4>3
      <3> QED BY <3>1, <3>2
    <2> QED BY <1>5, <2>4 DEF i, j, t
  <1> QED BY <1>4, <1>5

\* A read of one more record.
LEMMA LookupGrow ==
    ASSUME NEW r \in Regions, NEW q \in Regions, NEW rec \in Recs,
           Records(q) = Append(Records(r), rec), NEW k
    PROVE  Lookup(q, k) = IF Accepted(rec) /\ rec.key = k THEN rec.dat ELSE Lookup(r, k)
  <1> DEFINE s == Records(r)
             t == Append(s, rec)
  <1>1. /\ s \in Seq(Recs) /\ Len(s) \in Nat /\ t[Len(s) + 1] = rec
        /\ \A i \in 1 .. Len(s) : t[i] = s[i]
    BY RecordsWalk, AppendProperties, LenProperties DEF IsWalk
  <1>2. Lookup(q, k) = IF Latest(t, k) = 0 THEN None ELSE t[Latest(t, k)].dat
    BY LookupLatest
  <1>3. Lookup(r, k) = IF Latest(s, k) = 0 THEN None ELSE s[Latest(s, k)].dat
    BY LookupLatest
  <1> HIDE DEF s, t
  <1>4. Latest(t, k) = IF Accepted(rec) /\ rec.key = k THEN Len(s) + 1 ELSE Latest(s, k)
    BY <1>1, LatestGrow DEF t
  <1>5. Latest(s, k) = 0 \/ Latest(s, k) \in 1 .. Len(s)
    BY <1>1, LatestIs
  <1>6. CASE Accepted(rec) /\ rec.key = k
    BY <1>1, <1>2, <1>4, <1>6
  <1>7. CASE ~ (Accepted(rec) /\ rec.key = k)
    BY <1>1, <1>2, <1>3, <1>4, <1>5, <1>7
  <1> QED BY <1>6, <1>7

\* The keys of one more record.
LEMMA KeysGrow ==
    ASSUME NEW r \in Regions, NEW q \in Regions, NEW rec \in Recs,
           Records(q) = Append(Records(r), rec), RecKeys(r), rec.key \in Keys
    PROVE  RecKeys(q)
  <1> DEFINE s == Records(r)
             t == Append(s, rec)
  <1>1. /\ s \in Seq(Recs) /\ Len(s) \in Nat /\ Len(t) = Len(s) + 1 /\ t[Len(s) + 1] = rec
        /\ \A i \in 1 .. Len(s) : t[i] = s[i]
    BY RecordsWalk, AppendProperties, LenProperties DEF IsWalk
  <1> HIDE DEF t
  <1>2. ASSUME NEW i \in 1 .. Len(t) PROVE t[i].key \in Keys
    <2>1. i \in 1 .. Len(s) \/ i = Len(s) + 1
      BY <1>1
    <2> QED BY <1>1, <2>1 DEF RecKeys
  <1> QED BY <1>2 DEF RecKeys, t

\* Nothing behind what counts.
LEMMA LookupRest ==
    ASSUME NEW r \in Regions, NEW c, Laid(r, c), Rest(r, c)
    PROVE  Records(r) = Records(Below(r, c))
  BY LaidIs

\* A record behind what counts.
LEMMA RecordsBegun ==
    ASSUME NEW r \in Regions, NEW c, Laid(r, c), NEW l \in {0, 1}, HeadOf(r, c, l),
           c + RecTotal(l) <= Size, Rest(r, c + RecTotal(l))
    PROVE  /\ Records(r) = Append(Records(Below(r, c)), RecordAt(r, c))
           /\ RecordAt(r, c) \in Recs /\ Below(r, c) \in Regions
  <1>1. c \in 0 .. Size /\ c \in Nat /\ Size \in Nat
    BY ConstAssumption DEF Laid
  <1>2. Begins(r, c)
    BY <1>1 DEF Begins, HeadOf, RecTotal, LenFF
  <1>3. RecordAt(r, c) \in Recs /\ Below(r, c) \in Regions
    BY <1>1, <1>2, RecordTyped, BelowIs
  <1>4. /\ Laid(r, c + RecTotal(l))
        /\ Records(Below(r, c + RecTotal(l))) = Append(Records(Below(r, c)), RecordAt(r, c))
    BY LaidGrow
  <1>5. Records(r) = Records(Below(r, c + RecTotal(l)))
    BY <1>4, LookupRest
  <1> QED BY <1>3, <1>4, <1>5

\* Until its state byte is written it is not read.
LEMMA LookupPending ==
    ASSUME NEW r \in Regions, NEW c, Laid(r, c), NEW l \in {0, 1}, HeadOf(r, c, l),
           c + RecTotal(l) <= Size, Rest(r, c + RecTotal(l)), r[c + 1 + l] = Blank
    PROVE  \A k : Lookup(r, k) = Lookup(Below(r, c), k)
  <1>1. ~ RecordAt(r, c).committed
    BY BlankIs DEF RecordAt, HeadOf
  <1> QED BY <1>1, RecordsBegun, LookupGrow DEF Accepted

\* Alike below: the same records there.
LEMMA SameBelow ==
    ASSUME NEW r, NEW q, NEW c, Alike(r, q, c)
    PROVE  Below(q, c) = Below(r, c)
  BY DEF Below, BlankFrom, Alike

-----------------------------------------------------------------------------
(* What is read while a call is under way, and after a cut. *)

\* The first keys of a longer sequence of records.
LEMMA KeysShrink ==
    ASSUME NEW r \in Regions, NEW q \in Regions, NEW rec \in Recs,
           Records(q) = Append(Records(r), rec), RecKeys(q)
    PROVE  RecKeys(r)
  <1> DEFINE s == Records(r)
             t == Append(s, rec)
  <1>1. /\ s \in Seq(Recs) /\ Len(s) \in Nat /\ Len(t) = Len(s) + 1
        /\ \A i \in 1 .. Len(s) : t[i] = s[i]
    BY RecordsWalk, AppendProperties, LenProperties DEF IsWalk
  <1>2. \A i \in 1 .. Len(t) : t[i].key \in Keys
    BY DEF RecKeys
  <1> HIDE DEF s, t
  <1>3. \A i \in 1 .. Len(s) : i \in 1 .. Len(t)
    BY <1>1
  <1>4. \A i \in 1 .. Len(s) : s[i].key \in Keys
    BY <1>1, <1>2, <1>3
  <1> QED BY <1>4 DEF RecKeys, s

\* Behind a record under way there is nothing.
LEMMA UnderWay ==
    ASSUME Flash, Queue, Layout, pc \in {"val", "st"}
    PROVE  /\ region[StateOff] = Blank /\ Rest(region, cursor + RecTotal(EntryLen(Current)))
           /\ Laid(region, cursor) /\ HeadOf(region, cursor, EntryLen(Current))
           /\ (Firm => region[cursor] = HeaderUnit(Current))
  <1>1. /\ EntryLen(Current) \in {0, 1} /\ cursor \in Nat /\ Size \in Nat
        /\ RecTotal(EntryLen(Current)) = 2 + EntryLen(Current)
        /\ cursor + 2 + EntryLen(Current) <= Size
        /\ StateOff = cursor + 1 + EntryLen(Current)
    BY Occupies
  <1>2. StateOff \in 0 .. Size - 1 /\ cursor + RecTotal(EntryLen(Current)) = StateOff + 1
        /\ StateOff + 1 \in Nat /\ StateOff >= cursor + 1
    BY <1>1
  <1> DEFINE a == StateOff
  <1>3. Blanks(region, a)
    <2>1. CASE pc = "val"
      <3>1. Blanks(region, cursor + 1)
        BY <2>1 DEF Layout
      <3> HIDE DEF a
      <3>2. a \in Int /\ a >= cursor + 1 /\ cursor + 1 \in Int
        BY <1>1, <1>2 DEF a
      <3>3. \A j \in 0 .. Size - 1 : j >= a => j >= cursor + 1
        BY <3>2
      <3> QED BY <3>1, <3>3 DEF Blanks
    <2>2. CASE pc = "st"
      BY <2>2 DEF Layout
    <2> QED BY <2>1, <2>2
  <1>4. Blanks(region, a + 1)
    <2> HIDE DEF a
    <2>1. a \in Int
      BY <1>2 DEF a
    <2>2. \A j \in 0 .. Size - 1 : j >= a + 1 => j >= a
      BY <2>1
    <2> QED BY <1>3, <2>2 DEF Blanks
  <1>5. Rest(region, a + 1)
    BY <1>2, <1>4, BlanksRest
  <1>6. region[a] = Blank
    <2> HIDE DEF a
    <2>1. a \in 0 .. Size - 1 /\ a >= a
      BY <1>2 DEF a
    <2> QED BY <1>3, <2>1 DEF Blanks
  <1>7. /\ Laid(region, cursor) /\ HeadOf(region, cursor, EntryLen(Current))
        /\ (Firm => region[cursor] = HeaderUnit(Current))
    BY DEF Layout, HalCall
  <1> QED BY <1>2, <1>5, <1>6, <1>7

\* What counts is read, and no more.
LEMMA BaseIs ==
    ASSUME Flash, Queue, Layout, pc \in {"idle"} \cup HalCall
    PROVE  /\ \A k : Lookup(region, k) = Lookup(Below(region, cursor), k)
           /\ RecKeys(region) => RecKeys(Below(region, cursor))
           /\ Below(region, cursor) \in Regions
  <1>1. region \in Regions /\ Laid(region, cursor) /\ cursor \in 0 .. Size
    BY DEF Flash, RegionOk, Layout
  <1>2. Below(region, cursor) \in Regions
    BY <1>1, BelowIs
  <1>3. CASE pc \in {"idle", "erase", "hdr"}
    <2>1. Rest(region, cursor)
      BY <1>3 DEF Layout
    <2>2. Records(region) = Records(Below(region, cursor))
      BY <1>1, <2>1, LaidIs
    <2> QED BY <1>2, <2>2, SameLookup
  <1>4. CASE pc \in {"val", "st"}
    <2> DEFINE l == EntryLen(Current)
    <2>1. /\ region[cursor + 1 + l] = Blank /\ Rest(region, cursor + RecTotal(l))
          /\ HeadOf(region, cursor, l) /\ l \in {0, 1} /\ cursor + RecTotal(l) <= Size
      <3>1. StateOff = cursor + 1 + l /\ l \in {0, 1} /\ cursor + RecTotal(l) <= Size
        BY <1>4, Occupies
      <3> QED BY <1>4, <3>1, UnderWay
    <2> HIDE DEF l
    <2>2. \A k : Lookup(region, k) = Lookup(Below(region, cursor), k)
      BY <1>1, <2>1, LookupPending
    <2>3. /\ Records(region) = Append(Records(Below(region, cursor)), RecordAt(region, cursor))
          /\ RecordAt(region, cursor) \in Recs
      BY <1>1, <2>1, RecordsBegun
    <2> QED BY <1>1, <1>2, <2>2, <2>3, KeysShrink
  <1> QED BY <1>3, <1>4 DEF HalCall

\* The state byte makes the record the one that is read.
LEMMA CommitRead ==
    ASSUME Orderly, Firm, KvInv, Layout, pc = "st",
           NEW m, m = [region EXCEPT ![StateOff] = Program(@, Committed)]
    PROVE  /\ \A k : Lookup(m, k) = IF k = Current.key THEN Current.dat ELSE Lookup(region, k)
           /\ RecKeys(region) /\ Current.key \in Keys => RecKeys(m)
  <1> DEFINE l == EntryLen(Current)
             b == Below(region, cursor)
             rec == RecordAt(m, cursor)
  <1>1. /\ RegionOk(m) /\ Alike(region, m, cursor) /\ Laid(m, cursor)
        /\ HeadOf(m, cursor, l) /\ Blanks(m, StateOff + 1) /\ m[StateOff] = Committed
        /\ \A j \in 0 .. Size - 1 : j # StateOff => m[j] = region[j]
    BY StateLaid
  <1>2. /\ l \in {0, 1} /\ cursor \in Nat /\ Size \in Nat /\ cursor + 2 + l <= Size
        /\ StateOff = cursor + 1 + l /\ RecTotal(l) = 2 + l
    BY Occupies DEF KvInv
  <1>3. l = (IF Current.dat = None THEN 0 ELSE 1)
    BY DEF EntryLen
  <1> HIDE DEF l
  <1>4. Below(m, cursor) = b
    BY <1>1, SameBelow
  <1>5. Rest(m, cursor + RecTotal(l)) /\ cursor + RecTotal(l) <= Size
    <2>1. cursor + RecTotal(l) = StateOff + 1 /\ StateOff + 1 \in Nat /\ cursor + RecTotal(l) <= Size
      BY <1>2
    <2> QED BY <1>1, <2>1, BlanksRest
  <1>6. Records(m) = Append(Records(b), rec) /\ rec \in Recs /\ b \in Regions
    BY <1>1, <1>2, <1>4, <1>5, RecordsBegun DEF RegionOk
  <1>7. m[cursor] = HeaderUnit(Current)
    <2>1. cursor \in 0 .. Size - 1 /\ cursor # StateOff
      BY <1>2
    <2>2. region[cursor] = HeaderUnit(Current)
      BY DEF Layout
    <2> QED BY <1>1, <2>1, <2>2
  <1>8. m[cursor].key = Current.key /\ m[cursor].len = l /\ m[cursor].dat = Current.dat
    BY <1>7 DEF HeaderUnit, Header, l
  <1>9. rec.committed
    <2>1. rec.committed = (cursor + 1 + l < Size /\ m[cursor + 1 + l].kind = "st")
      BY <1>8 DEF RecordAt
    <2>2. cursor + 1 + l < Size /\ m[cursor + 1 + l] = Committed
      BY <1>1, <1>2
    <2>3. m[cursor + 1 + l].kind = "st"
      BY <2>2 DEF Committed
    <2> QED BY <2>1, <2>2, <2>3
  <1>10. rec.dat = Current.dat /\ rec.crc = Current.dat /\ rec.key = Current.key
    <2>1. /\ rec.key = m[cursor].key /\ rec.crc = m[cursor].dat
          /\ rec.dat = IF m[cursor].len = 0 THEN None
                       ELSE IF cursor + 1 < Size /\ m[cursor + 1].kind = "val"
                       THEN m[cursor + 1].dat ELSE Other
      BY DEF RecordAt
    <2>2. CASE l = 0
      BY <1>3, <1>8, <2>1, <2>2
    <2>3. CASE l = 1
      <3>1. region[cursor + 1] = ValueUnit("val", Current.dat)
        BY <2>3 DEF Layout, l
      <3>2. cursor + 1 \in 0 .. Size - 1 /\ cursor + 1 # StateOff
        BY <1>2, <2>3
      <3>3. m[cursor + 1] = ValueUnit("val", Current.dat)
        BY <1>1, <3>1, <3>2
      <3>4. m[cursor + 1].kind = "val" /\ m[cursor + 1].dat = Current.dat /\ cursor + 1 < Size
        BY <1>2, <3>2, <3>3 DEF ValueUnit
      <3> QED BY <1>8, <2>1, <2>3, <3>4
    <2> QED BY <1>2, <2>2, <2>3
  <1> HIDE DEF rec, b
  <1>11. \A k : Lookup(m, k) = IF rec.key = k THEN rec.dat ELSE Lookup(b, k)
    <2>1. Accepted(rec)
      BY <1>9, <1>10 DEF Accepted
    <2> TAKE k
    <2>2. Lookup(m, k) = IF Accepted(rec) /\ rec.key = k THEN rec.dat ELSE Lookup(b, k)
      <3>1. m \in Regions
        BY <1>1 DEF RegionOk
      <3> QED BY ONLY <1>6, <3>1, LookupGrow
    <2> QED BY <2>1, <2>2
  <1>12. /\ \A k : Lookup(region, k) = Lookup(b, k)
         /\ RecKeys(region) => RecKeys(b)
    BY BaseIs DEF KvInv, HalCall, b
  <1>13. RecKeys(b) /\ rec.key \in Keys => RecKeys(m)
    BY <1>1, <1>6, KeysGrow DEF RegionOk
  <1> QED BY <1>10, <1>11, <1>12, <1>13

LEMMA BlankRead == RecKeys(BlankRegion) /\ \A k : Lookup(BlankRegion, k) = None
  <1>1. Records(BlankRegion) = <<>> /\ BlankRegion \in Regions
    BY LaidBlank
  <1>2. DOMAIN <<>> = {} /\ Len(<<>>) = 0
    BY EmptySeq
  <1>3. RecKeys(BlankRegion)
    BY <1>1, <1>2 DEF RecKeys
  <1>4. ASSUME NEW k PROVE Lookup(BlankRegion, k) = None
    BY <1>1, <1>2 DEF Lookup
  <1> QED BY <1>3, <1>4

\* What is read after a cut.
LEMMA CutRead ==
    ASSUME Orderly, Firm, KvInv, Layout, pc \in {"idle"} \cup HalCall, NEW m \in Cut,
           pc = "erase" => Blocks = 1
    PROVE  /\ \/ \A k : Lookup(m, k) = Lookup(region, k)
              \/ /\ pc = "st"
                 /\ \A k : Lookup(m, k) = IF k = Current.key THEN Current.dat ELSE Lookup(region, k)
              \/ pc = "erase" /\ \A k : Lookup(m, k) = None
           /\ RecKeys(region) /\ (pc \in HalCall => Current.key \in Keys) => RecKeys(m)
  <1> DEFINE b == Below(region, cursor)
             l == EntryLen(Current)
             rec == RecordAt(m, cursor)
  <1>1. /\ \A k : Lookup(region, k) = Lookup(b, k)
        /\ RecKeys(region) => RecKeys(b)
        /\ b \in Regions
    BY BaseIs DEF KvInv
  <1>2. m \in Regions
    BY CutOk DEF KvInv, RegionOk
  <1>3. CASE Before(m)
    <2>1. Laid(m, cursor) /\ Rest(m, cursor) /\ Below(m, cursor) = b
      BY <1>3, SameBelow DEF Before
    <2> HIDE DEF b
    <2>2. Records(m) = Records(b)
      BY <1>2, <2>1, LaidIs
    <2>3. (\A k : Lookup(m, k) = Lookup(b, k)) /\ (RecKeys(b) => RecKeys(m))
      BY <2>2, SameLookup
    <2> QED BY <1>1, <2>3
  <1>4. CASE Begun(m)
    <2>1. /\ pc \in {"hdr", "val", "st"} /\ Laid(m, cursor) /\ HeadOf(m, cursor, l)
          /\ Rest(m, cursor + RecTotal(l)) /\ Below(m, cursor) = b
          /\ m[cursor].key = Current.key
      BY <1>4, SameBelow DEF Begun
    <2>2. l \in {0, 1} /\ cursor + RecTotal(l) <= Size /\ StateOff = cursor + 1 + l
      BY <2>1, Occupies DEF KvInv
    <2> HIDE DEF l, b
    <2>3. CASE m[StateOff] = Blank
      <3>1. \A k : Lookup(m, k) = Lookup(b, k)
        BY <1>2, <2>1, <2>2, <2>3, LookupPending
      <3>2. Records(m) = Append(Records(b), rec) /\ rec \in Recs
        BY <1>2, <2>1, <2>2, RecordsBegun
      <3>3. rec.key = Current.key
        BY <2>1 DEF RecordAt
      <3> HIDE DEF rec
      <3>4. RecKeys(b) /\ Current.key \in Keys => RecKeys(m)
        BY <1>1, <1>2, <3>2, <3>3, KeysGrow
      <3> QED BY <1>1, <2>1, <3>1, <3>4 DEF HalCall
    <2>4. CASE pc = "st" /\ m = [region EXCEPT ![StateOff] = Program(@, Committed)]
      BY <2>4, CommitRead DEF HalCall
    <2> QED BY <1>4, <2>3, <2>4 DEF Begun
  <1>5. CASE pc = "erase" /\ m = BlankRegion
    BY <1>5, BlankRead
  <1> QED BY <1>3, <1>4, <1>5, CutIs DEF KvInv

-----------------------------------------------------------------------------
(* What compact keeps is all there is. *)

\* Every element of a set of positions has its place in the order.
LEMMA NthOnto ==
    ASSUME NEW n \in Nat, NEW S \in SUBSET (1 .. n), NEW i \in S
    PROVE  \E m \in 1 .. Cardinality(S) : Nth(S, m) = i
  <1> DEFINE Upto(x) == {j \in S : j <= x}
             m == Cardinality(Upto(i))
  <1>1. IsFiniteSet(S) /\ Cardinality(S) \in Nat /\ S \subseteq Int
    <2>0. S \subseteq Int
      OBVIOUS
    <2>1. IsFiniteSet(1 .. n)
      <3>1. 1 \in Int /\ n \in Int
        OBVIOUS
      <3> QED BY <3>1, FS_Interval
    <2>2. S \subseteq 1 .. n
      OBVIOUS
    <2>3. IsFiniteSet(S) /\ Cardinality(S) \in Nat
      BY <2>1, <2>2, FS_Subset, FS_CardinalityType
    <2> QED BY <2>0, <2>3
  <1>2. \A y : IsFiniteSet(Upto(y)) /\ Cardinality(Upto(y)) \in Nat
               /\ Cardinality(Upto(y)) <= Cardinality(S)
    <2> TAKE y
    <2>1. Upto(y) \in SUBSET S
      OBVIOUS
    <2> HIDE DEF Upto
    <2> QED BY <1>1, <2>1, FS_Subset, FS_CardinalityType
  <1>3. m # 0
    <2>1. i \in Upto(i)
      BY <1>1
    <2> HIDE DEF Upto
    <2> QED BY <1>2, <2>1, FS_EmptySet
  <1>4. m \in 1 .. Cardinality(S)
    <2> HIDE DEF Upto
    <2> QED BY <1>1, <1>2, <1>3
  <1>5. ASSUME NEW x \in S, NEW y \in S, x < y PROVE Cardinality(Upto(x)) # Cardinality(Upto(y))
    <2>1. x \in Int /\ y \in Int
      BY <1>1
    <2>2. Upto(x) \subseteq Upto(y) /\ y \in Upto(y) /\ y \notin Upto(x)
      <3>1. \A j \in S : j <= x => j <= y
        BY <1>1, <1>5, <2>1
      <3>2. y <= y /\ ~ (y <= x)
        BY <1>5, <2>1
      <3> QED BY <3>1, <3>2
    <2>3. Upto(x) # Upto(y)
      <3> HIDE DEF Upto
      <3> QED BY <2>2
    <2> HIDE DEF Upto
    <2> QED BY <1>2, <2>2, <2>3, FS_Subset
  <1>6. Nth(S, m) \in S /\ Cardinality(Upto(Nth(S, m))) = m
    <2> HIDE DEF m
    <2> QED BY <1>4, NthIs
  <1> DEFINE x == Nth(S, m)
  <1>7. x \in S /\ Cardinality(Upto(x)) = Cardinality(Upto(i))
    BY <1>6
  <1> HIDE DEF x, Upto
  <1>8. x = i
    <2>1. x \in Int /\ i \in Int
      BY <1>1, <1>7
    <2>2. ~ (x < i) /\ ~ (i < x)
      BY <1>5, <1>7
    <2> QED BY <2>1, <2>2
  <1> QED BY <1>4, <1>8 DEF x

\* With no more keys than valid[] has entries, none is left out.
LEMMA CollectedAll ==
    ASSUME NEW r, RegionOk(r), RecKeys(r), Cardinality(Keys) <= MaxEntries
    PROVE  /\ \A n \in 1 .. Len(Collected(r)) :
                  /\ Collected(r)[n].key \in Keys
                  /\ Collected(r)[n].dat = Lookup(r, Collected(r)[n].key)
           /\ \A k : Lookup(r, k) # None =>
                  \E n \in 1 .. Len(Collected(r)) : Collected(r)[n].key = k
  <1> DEFINE rs == Records(r)
             F == Firsts(rs)
             C == Collected(r)
  <1>1. /\ rs \in Seq(Recs) /\ Len(rs) \in Nat /\ DOMAIN rs = 1 .. Len(rs) /\ r \in Regions
        /\ C \in Seq(Entries) /\ Len(C) \in Nat
    BY RecordsWalk, CollectedIs, LenProperties DEF IsWalk, RegionOk
  <1>2. ASSUME NEW n \in 1 .. Len(C)
        PROVE  C[n].key \in Keys /\ C[n].dat = Lookup(r, C[n].key)
    <2> DEFINE i == Latest(rs, C[n].key)
    <2>1. i \in 1 .. Len(rs) /\ rs[i].key = C[n].key /\ C[n].dat = rs[i].dat
      BY CollectedIs
    <2>2. C[n].key \in Keys
      <3> HIDE DEF i
      <3> QED BY <2>1 DEF RecKeys
    <2>3. i # 0
      <3> HIDE DEF i
      <3> QED BY <1>1, <2>1
    <2>4. Lookup(r, C[n].key) = rs[i].dat
      BY <1>1, <2>3, LookupLatest
    <2> QED BY <2>1, <2>2, <2>4
  <1>3. F \in SUBSET (1 .. Len(rs))
    BY <1>1 DEF Firsts
  <1>4. IsFiniteSet(F) /\ Cardinality(F) \in Nat
    <2>1. IsFiniteSet(1 .. Len(rs))
      <3>1. 1 \in Int /\ Len(rs) \in Int
        BY <1>1
      <3> QED BY <3>1, FS_Interval
    <2> HIDE DEF F
    <2> QED BY <1>3, <2>1, FS_Subset, FS_CardinalityType
  <1>5. Cardinality(F) <= Cardinality(Keys)
    <2> DEFINE f == [i \in F |-> rs[i].key]
    <2>1. IsFiniteSet(Keys)
      <3>1. IsFiniteSet(1 .. 7)
        <4>1. 1 \in Int /\ 7 \in Int
          OBVIOUS
        <4> QED BY <4>1, FS_Interval
      <3> QED BY <3>1, ConstAssumption, FS_Subset
    <2>2. f \in [F -> Keys]
      <3>1. \A i \in F : rs[i].key \in Keys
        BY <1>3 DEF RecKeys
      <3> QED BY <3>1
    <2>3. ASSUME NEW i \in F, NEW j \in F, f[i] = f[j] PROVE i = j
      <3>1. i \in Nat /\ j \in Nat
        BY <1>3
      <3>2. rs[i].key = rs[j].key
        BY <2>3
      <3>3. ~ (i < j) /\ ~ (j < i)
        <4>1. ASSUME NEW a \in F, NEW b \in F, a < b PROVE rs[a].key # rs[b].key
          <5>1. Accepted(rs[a]) /\ \A x \in 1 .. b - 1 : Accepted(rs[x]) => rs[x].key # rs[b].key
            BY DEF Firsts
          <5>2. a \in 1 .. b - 1
            <6>1. a \in 1 .. Len(rs) /\ b \in 1 .. Len(rs)
              BY <1>3
            <6> QED BY <1>1, <4>1, <6>1
          <5> QED BY <5>1, <5>2
        <4> QED BY <3>2, <4>1
      <3> QED BY <3>1, <3>3
    <2>4. f \in Injection(F, Keys)
      <3> HIDE DEF f
      <3> QED BY <2>2, <2>3 DEF Injection, IsInjective
    <2> HIDE DEF f, F
    <2> QED BY <2>1, <2>4, FS_Injection
  <1>6. Len(C) = Cardinality(F) /\ \A n \in 1 .. Len(C) : C[n].key = rs[Nth(F, n)].key
    <2>1. Fitting(F) = Cardinality(F)
      <3>1. Cardinality(F) <= MaxEntries
        <4>1. Cardinality(Keys) \in Nat
          <5>1. IsFiniteSet(1 .. 7)
            <6>1. 1 \in Int /\ 7 \in Int
              OBVIOUS
            <6> QED BY <6>1, FS_Interval
          <5> QED BY <5>1, ConstAssumption, FS_Subset, FS_CardinalityType
        <4> HIDE DEF F
        <4> QED BY <1>4, <1>5, <4>1, ConstAssumption
      <3> HIDE DEF F
      <3> QED BY <3>1 DEF Fitting
    <2>2. C = [n \in 1 .. Cardinality(F) |-> Entry(rs[Nth(F, n)].key, Lookup(r, rs[Nth(F, n)].key))]
      BY <2>1 DEF Collected
    <2> HIDE DEF C, F, rs
    <2>3. Len(C) = Cardinality(F)
      <3>1. DOMAIN C = 1 .. Cardinality(F)
        BY <2>2
      <3>2. DOMAIN C = 1 .. Len(C)
        BY <1>1, LenProperties
      <3> DEFINE a == Len(C)
                 c == Cardinality(F)
      <3>3. a \in Nat /\ c \in Nat /\ 1 .. a = 1 .. c
        BY <1>1, <1>4, <3>1, <3>2
      <3> HIDE DEF a, c
      <3>4. a = c
        <4>1. a > 0 => a \in 1 .. c
          BY <3>3
        <4>2. c > 0 => c \in 1 .. a
          BY <3>3
        <4> QED BY <3>3, <4>1, <4>2
      <3> QED BY <3>4 DEF a, c
    <2>4. ASSUME NEW n \in 1 .. Len(C) PROVE C[n].key = rs[Nth(F, n)].key
      BY <2>2, <2>3 DEF Entry
    <2> QED BY <2>3, <2>4
  <1>7. ASSUME NEW k, Lookup(r, k) # None PROVE \E n \in 1 .. Len(C) : C[n].key = k
    <2> DEFINE T == {i \in Nat : i \in 1 .. Len(rs) /\ Accepted(rs[i]) /\ rs[i].key = k}
               i == Min(T)
    <2>1. Latest(rs, k) # 0
      BY <1>1, <1>7, LookupLatest
    <2>2. Latest(rs, k) \in T
      <3> DEFINE a == Latest(rs, k)
      <3>1. a \in 1 .. Len(rs) /\ Accepted(rs[a]) /\ rs[a].key = k
        BY <1>1, <2>1, LatestIs
      <3> HIDE DEF a
      <3> QED BY <3>1 DEF a
    <2>3. i \in T /\ \A y \in T : i <= y
      BY <2>2, LeastNat
    <2> HIDE DEF i
    <2>4. i \in F
      <3>1. i \in 1 .. Len(rs) /\ Accepted(rs[i]) /\ rs[i].key = k /\ i \in Nat
        BY <2>3
      <3>2. ASSUME NEW j \in 1 .. i - 1, Accepted(rs[j]) PROVE rs[j].key # rs[i].key
        <4>1. j \in 1 .. Len(rs) /\ j \in Nat /\ ~ (i <= j)
          BY <1>1, <3>1
        <4>2. j \notin T
          <5> HIDE DEF T
          <5> QED BY <2>3, <4>1
        <4> QED BY <3>1, <3>2, <4>1, <4>2
      <3> QED BY <1>1, <3>1, <3>2 DEF Firsts
    <2>5. rs[i].key = k
      BY <2>3
    <2> HIDE DEF F, T
    <2>6. PICK n \in 1 .. Cardinality(F) : Nth(F, n) = i
      BY <1>1, <1>3, <2>4, NthOnto
    <2> QED BY <1>6, <2>5, <2>6
  <1> QED BY <1>2, <1>7

-----------------------------------------------------------------------------
(* What the store holds, step by step. *)

\* What the entries before the last one of q say of k, or x.
Stored(q, k, x) ==
    IF \E i \in 1 .. Len(q) - 1 : q[i].key = k
    THEN q[CHOOSE i \in 1 .. Len(q) - 1 : q[i].key = k].dat
    ELSE x
Apart(q) == \A i, j \in 1 .. Len(q) - 1 : i # j => q[i].key # q[j].key
ViewOf(r, q, p, k) == IF p = "erase" THEN Lookup(r, k) ELSE Stored(q, k, Lookup(r, k))

LEMMA ViewAt == \A k \in Keys : View[k] = ViewOf(region, todo, pc, k)
  <1> TAKE k \in Keys
  <1>1. View[k] = IF \E i \in InRam : todo[i].key = k
                  THEN todo[CHOOSE i \in InRam : todo[i].key = k].dat
                  ELSE Lookup(region, k)
    BY DEF View
  <1>2. CASE pc = "erase"
    <2>1. InRam = {}
      BY <1>2 DEF InRam
    <2> QED BY <1>1, <1>2, <2>1 DEF ViewOf
  <1>3. CASE pc # "erase"
    <2>1. InRam = 1 .. Len(todo) - 1
      BY <1>3 DEF InRam
    <2> QED BY <1>1, <1>3, <2>1 DEF ViewOf, Stored
  <1> QED BY <1>2, <1>3

LEMMA ViewNext == \A k \in Keys : View'[k] = ViewOf(region', todo', pc', k)
  <1> TAKE k \in Keys
  <1>1. View'[k] = IF \E i \in InRam' : todo'[i].key = k
                   THEN todo'[CHOOSE i \in InRam' : todo'[i].key = k].dat
                   ELSE Lookup(region', k)
    BY DEF View
  <1>2. CASE pc' = "erase"
    <2>1. InRam' = {}
      BY <1>2 DEF InRam
    <2> QED BY <1>1, <1>2, <2>1 DEF ViewOf
  <1>3. CASE pc' # "erase"
    <2>1. InRam' = 1 .. Len(todo') - 1
      BY <1>3 DEF InRam
    <2> QED BY <1>1, <1>3, <2>1 DEF ViewOf, Stored
  <1> QED BY <1>2, <1>3

\* No entries but the caller's.
LEMMA StoredNone ==
    ASSUME NEW q, q = <<>> \/ Len(q) = 1, NEW k, NEW x
    PROVE  Stored(q, k, x) = x
  <1>1. 1 .. Len(q) - 1 = {}
    <2>1. Len(q) = 0 \/ Len(q) = 1
      BY EmptySeq
    <2> DEFINE n == Len(q)
    <2> HIDE DEF n
    <2>2. n = 0 \/ n = 1
      BY <2>1 DEF n
    <2>3. 1 .. n - 1 = {}
      BY <2>2
    <2> QED BY <2>3 DEF n
  <1> QED BY <1>1 DEF Stored

\* An entry says what it holds.
LEMMA StoredAt ==
    ASSUME NEW q, Apart(q), NEW i \in 1 .. Len(q) - 1, NEW x
    PROVE  Stored(q, q[i].key, x) = q[i].dat
  <1> DEFINE k == q[i].key
             j == CHOOSE a \in 1 .. Len(q) - 1 : q[a].key = k
  <1>1. j \in 1 .. Len(q) - 1 /\ q[j].key = k
    OBVIOUS
  <1> HIDE DEF j
  <1>2. j = i
    BY <1>1 DEF Apart
  <1>3. Stored(q, k, x) = q[j].dat
    BY DEF Stored, j
  <1> QED BY <1>2, <1>3

LEMMA StoredElse ==
    ASSUME NEW q, NEW k, \A i \in 1 .. Len(q) - 1 : q[i].key # k, NEW x
    PROVE  Stored(q, k, x) = x
  BY DEF Stored

\* Without its first entry, which is written.
LEMMA StoredTail ==
    ASSUME NEW q \in Seq(Entries), Len(q) > 1, Apart(q), NEW k, NEW x, NEW y,
           y = IF k = q[1].key THEN q[1].dat ELSE x
    PROVE  Stored(Tail(q), k, y) = Stored(q, k, x) /\ Apart(Tail(q))
  <1> DEFINE t == Tail(q)
  <1>1. q # <<>> /\ Len(q) \in Nat
    BY EmptySeq, LenProperties
  <1>2. /\ t \in Seq(Entries) /\ Len(t) = Len(q) - 1
        /\ \A i \in 1 .. Len(q) - 1 : t[i] = q[i + 1]
    BY <1>1, TailIs
  <1> HIDE DEF t
  <1>3. \A i \in 1 .. Len(t) - 1 : i + 1 \in 1 .. Len(q) - 1 /\ t[i] = q[i + 1] /\ i + 1 # 1
    BY <1>1, <1>2
  <1>4. 1 \in 1 .. Len(q) - 1 /\ \A i \in 1 .. Len(q) - 1 : i = 1 \/ i - 1 \in 1 .. Len(t) - 1
    BY <1>1, <1>2
  <1>5. Apart(t)
    <2> SUFFICES ASSUME NEW i \in 1 .. Len(t) - 1, NEW j \in 1 .. Len(t) - 1, i # j
                 PROVE  t[i].key # t[j].key
      BY DEF Apart
    <2>1. i + 1 # j + 1
      OBVIOUS
    <2>2. i + 1 \in 1 .. Len(q) - 1 /\ j + 1 \in 1 .. Len(q) - 1 /\ t[i] = q[i + 1] /\ t[j] = q[j + 1]
      BY <1>3
    <2> QED BY <2>1, <2>2 DEF Apart
  <1>6. CASE k = q[1].key
    <2>1. Stored(q, k, x) = q[1].dat
      BY <1>4, <1>6, StoredAt
    <2>2. ASSUME NEW i \in 1 .. Len(t) - 1 PROVE t[i].key # k
      <3>1. i + 1 \in 1 .. Len(q) - 1 /\ t[i] = q[i + 1] /\ i + 1 # 1
        BY <1>3
      <3> QED BY <1>4, <1>6, <3>1 DEF Apart
    <2>3. Stored(t, k, y) = y
      BY <2>2, StoredElse
    <2> QED BY <1>5, <1>6, <2>1, <2>3 DEF t
  <1>7. CASE k # q[1].key
    <2>1. CASE \E i \in 1 .. Len(q) - 1 : q[i].key = k
      <3>1. PICK i \in 1 .. Len(q) - 1 : q[i].key = k
        BY <2>1
      <3>2. Stored(q, k, x) = q[i].dat
        BY <3>1, StoredAt
      <3>3. i - 1 \in 1 .. Len(t) - 1 /\ (i - 1) + 1 = i
        BY <1>4, <1>7, <3>1
      <3> DEFINE j == i - 1
      <3>4. j \in 1 .. Len(t) - 1 /\ t[j] = q[i]
        BY <1>3, <3>3
      <3> HIDE DEF j
      <3>5. Stored(t, t[j].key, y) = t[j].dat
        BY <1>5, <3>4, StoredAt
      <3> QED BY <1>5, <3>1, <3>2, <3>4, <3>5 DEF t
    <2>2. CASE \A i \in 1 .. Len(q) - 1 : q[i].key # k
      <3>1. \A i \in 1 .. Len(t) - 1 : t[i].key # k
        BY <1>3, <2>2
      <3>2. Stored(t, k, y) = y /\ Stored(q, k, x) = x
        BY <2>2, <3>1, StoredElse
      <3> QED BY <1>5, <1>7, <3>2 DEF t
    <2> QED BY <2>1, <2>2
  <1> QED BY <1>6, <1>7

\* The queue of a compaction holds what the region held.
LEMMA StoredCollected ==
    ASSUME NEW r, RegionOk(r), RecKeys(r), Cardinality(Keys) <= MaxEntries,
           NEW e \in Entries, e.key \in Keys, NEW q, q = Append(Collected(r), e)
    PROVE  /\ Apart(q) /\ \A i \in 1 .. Len(q) : q[i].key \in Keys
           /\ \A k : Stored(q, k, None) = Lookup(r, k)
           /\ Len(q) \in Nat \ {0} /\ q[Len(q)] = e /\ q # <<>>
  <1> DEFINE C == Collected(r)
  <1>1. C \in Seq(Entries) /\ Len(C) \in Nat
    BY CollectedIs
  <1>2. /\ \A n \in 1 .. Len(C) : C[n].key \in Keys /\ C[n].dat = Lookup(r, C[n].key)
        /\ \A k : Lookup(r, k) # None => \E n \in 1 .. Len(C) : C[n].key = k
    BY CollectedAll
  <1>3. \A n, m \in 1 .. Len(C) : n # m => C[n].key # C[m].key
    BY CollectedIs
  <1> HIDE DEF C
  <1>4. /\ q \in Seq(Entries) /\ Len(q) = Len(C) + 1 /\ q[Len(C) + 1] = e
        /\ \A i \in 1 .. Len(C) : q[i] = C[i]
    BY <1>1, AppendProperties DEF C
  <1>5. 1 .. Len(q) - 1 = 1 .. Len(C)
    BY <1>1, <1>4
  <1>6. Apart(q)
    BY <1>3, <1>4, <1>5 DEF Apart
  <1>7. ASSUME NEW i \in 1 .. Len(q) PROVE q[i].key \in Keys
    <2>1. i \in 1 .. Len(C) \/ i = Len(C) + 1
      BY <1>1, <1>4
    <2> QED BY <1>2, <1>4, <2>1
  <1>8. ASSUME NEW k PROVE Stored(q, k, None) = Lookup(r, k)
    <2>1. CASE \E n \in 1 .. Len(C) : C[n].key = k
      <3>1. PICK n \in 1 .. Len(C) : C[n].key = k
        BY <2>1
      <3>2. n \in 1 .. Len(q) - 1 /\ q[n] = C[n]
        BY <1>4, <1>5
      <3>3. Stored(q, q[n].key, None) = q[n].dat
        BY <1>6, <3>2, StoredAt
      <3> QED BY <1>2, <3>1, <3>2, <3>3
    <2>2. CASE \A n \in 1 .. Len(C) : C[n].key # k
      <3>1. \A i \in 1 .. Len(q) - 1 : q[i].key # k
        BY <1>4, <1>5, <2>2
      <3>2. Stored(q, k, None) = None
        BY <3>1, StoredElse
      <3> QED BY <1>2, <2>2, <3>2
    <2> QED BY <2>1, <2>2
  <1>9. q # <<>>
    BY <1>1, <1>4, EmptySeq
  <1> QED BY <1>1, <1>4, <1>6, <1>7, <1>8, <1>9

\* No read fails, torn headers are not written over, and valid[] has an entry
\* for every key.
Sound == Orderly /\ Firm /\ "read" \notin Faults /\ Cardinality(Keys) <= MaxEntries

\* The entries queued are compact's, of what the region held, and the caller's.
Kept ==
    /\ RecKeys(region)
    /\ \A i \in 1 .. Len(todo) : todo[i].key \in Keys
    /\ Apart(todo)
    /\ pc = "erase" => \A k : Stored(todo, k, None) = Lookup(region, k)
    /\ todo # <<>> => todo[Len(todo)].dat \in maybe[todo[Len(todo)].key]

\* A queue whose keys are proper goes on, or ends at the caller's entry.
LEMMA ProceedKeys ==
    ASSUME NEW q \in Seq(Entries), q # <<>>, \A i \in 1 .. Len(q) : q[i].key \in Keys,
           NEW c \in Nat, Fits(q, c), Proceed(q, c)
    PROVE  \/ pc' = "hdr" /\ todo' = q
           \/ /\ pc' = "idle" /\ todo' = <<>> /\ Len(q) = 1
              /\ ~ (c + RecTotal(EntryLen(q[1])) <= Size)
  <1>1. Head(q) = q[1] /\ Len(q) \in Nat \ {0}
    BY HeadIs
  <1>2. q[1].key # 0
    <2>1. 1 \in 1 .. Len(q)
      BY <1>1
    <2> QED BY <2>1, ConstAssumption
  <1>3. CASE c + RecTotal(EntryLen(q[1])) <= Size
    BY <1>1, <1>2, <1>3 DEF Proceed, Start
  <1>4. CASE ~ (c + RecTotal(EntryLen(q[1])) <= Size)
    <2> DEFINE n == Len(q)
    <2>1. ~ (n > 1)
      BY <1>4, FitsNext
    <2>2. n = 1
      <3> HIDE DEF n
      <3>1. n \in Nat \ {0}
        BY <1>1 DEF n
      <3> QED BY <2>1, <3>1
    <2>3. Start(q, c) = "idle"
      BY <1>1, <1>2, <1>4, <2>2 DEF Start
    <2> QED BY <1>4, <2>2, <2>3 DEF Proceed
  <1> QED BY <1>3, <1>4

LEMMA EmptyKept ==
    ASSUME todo' = <<>>, RecKeys(region'), pc' # "erase"
    PROVE  Kept'
  <1>1. Len(todo') = 0
    BY EmptySeq
  <1>2. 1 .. Len(todo') = {} /\ 1 .. Len(todo') - 1 = {}
    BY <1>1
  <1> QED BY <1>2 DEF Kept, Apart

LEMMA InitKept == Init => Kept
  <1> SUFFICES ASSUME Init PROVE Kept
    OBVIOUS
  <1>1. todo = <<>> /\ region = BlankRegion /\ pc = "off"
    BY DEF Init
  <1>2. Len(todo) = 0
    BY <1>1, EmptySeq
  <1>3. 1 .. Len(todo) = {} /\ 1 .. Len(todo) - 1 = {}
    BY <1>2
  <1> QED BY <1>1, <1>3, BlankRead DEF Kept, Apart

\* kv_init changes nothing of it.
LEMMA KvInitEffect ==
    ASSUME KvInv, Kept, KvInit
    PROVE  /\ Kept' /\ \A k \in Keys : View'[k] = View[k] /\ View[k] = Lookup(region, k)
           /\ todo = <<>> /\ todo' = <<>>
  <1>1. pc = "off" /\ todo' = todo /\ region' = region /\ pc' \in {"idle", "failed"}
    BY DEF KvInit
  <1>2. todo = <<>>
    BY <1>1 DEF KvInv, Queue, HalCall
  <1>3. RecKeys(region')
    BY <1>1 DEF Kept
  <1>4. Kept'
    BY <1>1, <1>2, <1>3, EmptyKept
  <1>5. ASSUME NEW k \in Keys PROVE View'[k] = View[k] /\ View[k] = Lookup(region, k)
    <2>1. View'[k] = ViewOf(region', todo', pc', k) /\ View[k] = ViewOf(region, todo, pc, k)
      BY ViewAt, ViewNext
    <2>2. Stored(todo, k, Lookup(region, k)) = Lookup(region, k)
      BY <1>2, StoredNone
    <2> QED BY <1>1, <2>1, <2>2 DEF ViewOf
  <1> QED BY <1>1, <1>2, <1>4, <1>5

\* A call is taken up; what is held stays.
LEMMA KvWriteEffect ==
    ASSUME Sound, KvInv, Kept, NEW k \in Keys, NEW d \in Datum, KvWrite(k, d)
    PROVE  /\ Kept' /\ \A x \in Keys : View'[x] = View[x]
           /\ todo = <<>> /\ todo' # <<>> /\ todo'[Len(todo')] = Entry(k, d)
           /\ pc' \in {"erase", "hdr"}
  <1> DEFINE e == Entry(k, d)
  <1>1. e \in Entries /\ e.key = k /\ e.dat = d
    BY ConstAssumption DEF Entry, Entries
  <1>2. /\ region' = region /\ pc = "idle" /\ maybe' = [maybe EXCEPT ![k] = @ \cup {d}]
        /\ \/ pc' = "erase" /\ todo' = Append(Collected(region), e)
           \/ pc' = "hdr" /\ todo' = <<e>>
    BY DEF KvWrite, Seen, Sound
  <1>3. todo = <<>> /\ RegionOk(region) /\ RecKeys(region)
    BY <1>2 DEF KvInv, Queue, Flash, HalCall, Kept
  <1>4. d \in maybe'[k]
    BY <1>2 DEF KvInv, History
  <1> HIDE DEF e
  <1>5. ASSUME NEW x \in Keys PROVE View[x] = Lookup(region, x) /\ View'[x] = ViewOf(region', todo', pc', x)
    <2>1. View[x] = ViewOf(region, todo, pc, x)
      BY ViewAt
    <2>2. Stored(todo, x, Lookup(region, x)) = Lookup(region, x)
      BY <1>3, StoredNone
    <2> QED BY <1>2, <2>1, <2>2, ViewNext DEF ViewOf
  <1>6. CASE pc' = "erase" /\ todo' = Append(Collected(region), e)
    <2>1. /\ Apart(todo') /\ \A i \in 1 .. Len(todo') : todo'[i].key \in Keys
          /\ \A x : Stored(todo', x, None) = Lookup(region, x)
          /\ todo'[Len(todo')] = e /\ todo' # <<>>
      BY <1>1, <1>3, <1>6, StoredCollected DEF Sound
    <2>2. Kept'
      BY <1>1, <1>2, <1>3, <1>4, <2>1 DEF Kept
    <2> QED BY <1>2, <1>3, <1>5, <1>6, <2>1, <2>2 DEF ViewOf, e
  <1>7. CASE pc' = "hdr" /\ todo' = <<e>>
    <2>1. Len(todo') = 1 /\ todo'[1] = e /\ todo' # <<>>
      BY <1>7
    <2>2. 1 .. Len(todo') - 1 = {} /\ 1 .. Len(todo') = {1}
      BY <2>1
    <2>3. Kept'
      BY <1>1, <1>2, <1>3, <1>4, <1>7, <2>1, <2>2 DEF Kept, Apart
    <2>4. \A x : Stored(todo', x, Lookup(region', x)) = Lookup(region', x)
      BY <2>1, StoredNone
    <2> QED BY <1>2, <1>3, <1>5, <1>7, <2>1, <2>3, <2>4 DEF ViewOf, e
  <1> QED BY <1>2, <1>6, <1>7

\* The erase takes nothing away: it is in RAM.
LEMMA CompactEraseEffect ==
    ASSUME Sound, KvInv, Kept, CompactErase
    PROVE  /\ Kept' /\ \A k \in Keys : View'[k] = View[k] /\ Lookup(region', k) = None
           /\ pc' = "hdr" /\ todo' = todo
  <1>1. /\ pc = "erase" /\ region' = BlankRegion /\ Proceed(todo, 0) /\ maybe' = maybe
    BY DEF CompactErase, Erased, Sound, Orderly
  <1>2. /\ todo \in Seq(Entries) /\ todo # <<>> /\ Fits(todo, 0)
        /\ \A i \in 1 .. Len(todo) : todo[i].key \in Keys
    BY <1>1 DEF KvInv, Queue, HalCall, Kept
  <1>3. 0 + RecTotal(EntryLen(todo[1])) <= Size
    <2>1. RecTotal(EntryLen(todo[1])) \in {2, 3}
      BY <1>2, HeadIs
    <2> QED BY <2>1, ConstAssumption
  <1>4. pc' = "hdr" /\ todo' = todo
    BY <1>1, <1>2, <1>3, ProceedKeys
  <1>5. RecKeys(region') /\ \A k : Lookup(region', k) = None
    BY <1>1, BlankRead
  <1>6. Kept'
    BY <1>1, <1>4, <1>5 DEF Kept
  <1>7. ASSUME NEW k \in Keys PROVE View'[k] = View[k]
    <2>1. View'[k] = Stored(todo, k, None) /\ View[k] = Lookup(region, k)
      BY <1>1, <1>4, <1>5, ViewAt, ViewNext DEF ViewOf
    <2> QED BY <1>1, <2>1 DEF Kept
  <1> QED BY <1>4, <1>5, <1>6, <1>7

\* Neither the header nor the value is read yet.
LEMMA BodyEffect ==
    ASSUME Sound, KvInv, Layout, Kept, WriteHeader \/ WriteValue
    PROVE  /\ Kept' /\ \A k \in Keys : View'[k] = View[k] /\ Lookup(region', k) = Lookup(region, k)
           /\ todo' = todo /\ pc \in HalCall /\ pc' \in {"val", "st"}
  <1>1. /\ pc \in {"hdr", "val"} /\ pc' \in {"val", "st"} /\ todo' = todo /\ maybe' = maybe
    BY DEF WriteHeader, WriteValue
  <1>2. region' \in Cut
    <2>1. CASE WriteHeader
      <3>1. pc = "hdr" /\ region' = [region EXCEPT ![cursor] = Program(@, HeaderUnit(Current))]
        BY <2>1 DEF WriteHeader
      <3>2. region' \in CutAt(cursor, {HeaderUnit(Current)} \cup TornHeaders(Current))
        BY <3>1 DEF CutAt
      <3> QED BY <3>1, <3>2 DEF Cut
    <2>2. CASE WriteValue
      <3>1. pc = "val" /\ region' = [region EXCEPT ![cursor + 1] = Program(@, ValueUnit("val", Current.dat))]
        BY <2>2 DEF WriteValue
      <3>2. region' \in CutAt(cursor + 1, {ValueUnit("val", Current.dat)} \cup TornValues(Current.dat))
        BY <3>1 DEF CutAt
      <3> QED BY <3>1, <3>2 DEF Cut
    <2> QED BY <2>1, <2>2
  <1>3. Current.key \in Keys
    <2>1. Current = todo[1] /\ todo # <<>> /\ todo \in Seq(Entries)
      BY <1>1, CurrentIs DEF KvInv
    <2>2. 1 \in 1 .. Len(todo)
      BY <2>1, HeadIs
    <2> QED BY <2>1, <2>2 DEF Kept
  <1>4. (\A k : Lookup(region', k) = Lookup(region, k)) /\ RecKeys(region')
    <2>1. pc # "erase" /\ pc # "st" /\ pc \in {"idle"} \cup HalCall
      BY <1>1 DEF HalCall
    <2> QED BY <1>2, <1>3, <2>1, CutRead DEF Sound, Kept
  <1>5. Kept'
    BY <1>1, <1>4 DEF Kept
  <1>6. ASSUME NEW k \in Keys PROVE View'[k] = View[k]
    <2>1. View'[k] = ViewOf(region', todo, pc', k) /\ View[k] = ViewOf(region, todo, pc, k)
      BY <1>1, ViewAt, ViewNext
    <2> QED BY <1>1, <1>4, <2>1 DEF ViewOf
  <1> QED BY <1>1, <1>4, <1>5, <1>6 DEF HalCall

\* The state byte of compact's record takes its place in RAM; the caller's is
\* what the call was for, or is refused for want of room.
LEMMA WriteStateEffect ==
    ASSUME Sound, KvInv, Layout, Kept, WriteState
    PROVE  /\ Kept' /\ pc = "st" /\ todo # <<>> /\ Current = todo[1] /\ Len(todo) \in Nat \ {0}
           /\ \A k \in Keys : Lookup(region', k) = IF k = Current.key THEN Current.dat
                                                   ELSE Lookup(region, k)
           /\ \/ /\ Len(todo) = 1 /\ pc' = "idle" /\ todo' = <<>>
                 /\ \A k \in Keys : View[k] = Lookup(region, k)
                 /\ \A k \in Keys : View'[k] = Lookup(region', k)
              \/ /\ Len(todo) > 1
                 /\ \A k \in Keys : View'[k] = View[k]
                 /\ Current.key \in Keys /\ View[Current.key] = Current.dat
                 /\ \/ pc' = "idle" /\ todo' = <<>>
                    \/ /\ pc' = "hdr" /\ todo' # <<>>
                       /\ todo'[Len(todo')] = todo[Len(todo)]
  <1> DEFINE c == cursor + RecTotal(EntryLen(Current))
             q == Tail(todo)
  <1>1. /\ pc = "st" /\ region' = [region EXCEPT ![StateOff] = Program(@, Committed)]
        /\ Proceed(q, c)
    BY DEF WriteState
  <1>2. /\ todo # <<>> /\ todo \in Seq(Entries) /\ Current = todo[1] /\ Len(todo) \in Nat \ {0}
        /\ c \in Nat /\ Apart(todo)
    BY <1>1, CurrentIs, HeadIs DEF KvInv, Kept
  <1>3. 1 \in 1 .. Len(todo) /\ Current.key \in Keys
    BY <1>2 DEF Kept
  <1>4. /\ \A k : Lookup(region', k) = IF k = Current.key THEN Current.dat ELSE Lookup(region, k)
        /\ RecKeys(region')
    BY <1>1, <1>3, CommitRead DEF Sound, Kept
  <1>5. /\ q \in Seq(Entries) /\ Len(q) = Len(todo) - 1
        /\ \A i \in 1 .. Len(todo) - 1 : q[i] = todo[i + 1]
        /\ q = <<>> <=> Len(todo) = 1
    BY <1>2, TailIs
  <1>9. \/ Len(todo) = 1 /\ ~ (Len(todo) > 1)
        \/ Len(todo) > 1 /\ Len(todo) # 1
    <2> DEFINE n == Len(todo)
    <2>1. n \in Nat \ {0}
      BY <1>2
    <2> HIDE DEF n
    <2>2. (n = 1 /\ ~ (n > 1)) \/ (n > 1 /\ n # 1)
      BY <2>1
    <2> QED BY <2>2 DEF n
  <1>6. Len(todo) > 1 => maybe' = maybe
    BY <1>9 DEF WriteState
  <1> HIDE DEF c, q
  <1>7. CASE Len(todo) = 1
    <2>1. q = <<>>
      BY <1>5, <1>7
    <2>2. pc' = "idle" /\ todo' = <<>>
      BY <1>1, <2>1 DEF Proceed, Start
    <2>3. Kept'
      BY <1>4, <2>2, EmptyKept
    <2>4. ASSUME NEW k \in Keys PROVE View[k] = Lookup(region, k) /\ View'[k] = Lookup(region', k)
      <3>1. View[k] = Stored(todo, k, Lookup(region, k))
        BY <1>1, ViewAt DEF ViewOf
      <3>2. View'[k] = Stored(todo', k, Lookup(region', k))
        BY <2>2, ViewNext DEF ViewOf
      <3>3. Stored(todo, k, Lookup(region, k)) = Lookup(region, k)
        BY <1>7, StoredNone
      <3>4. Stored(todo', k, Lookup(region', k)) = Lookup(region', k)
        BY <2>2, StoredNone
      <3> QED BY <3>1, <3>2, <3>3, <3>4
    <2> QED BY <1>1, <1>2, <1>4, <1>7, <2>2, <2>3, <2>4
  <1>8. CASE Len(todo) > 1
    <2>1. q # <<>> /\ Len(q) \in Nat \ {0}
      BY <1>2, <1>5, <1>8
    <2>2. \A i \in 1 .. Len(q) : q[i].key \in Keys
      <3> TAKE i \in 1 .. Len(q)
      <3>1. i + 1 \in 1 .. Len(todo) /\ q[i] = todo[i + 1]
        BY <1>2, <1>5
      <3> QED BY <3>1 DEF Kept
    <2>3. q[Len(q)] = todo[Len(todo)]
      BY <1>2, <1>5, <1>8
    <2>4. Fits(q, c)
      <3>1. Fits(todo, cursor) /\ cursor \in Nat
        BY <1>1, ConstAssumption DEF KvInv, Queue, Flash
      <3> QED BY <1>2, <1>8, <3>1, FitsNext DEF q, c
    <2>5. \/ pc' = "hdr" /\ todo' = q
          \/ pc' = "idle" /\ todo' = <<>> /\ Len(q) = 1
      BY <1>1, <1>2, <1>5, <2>1, <2>2, <2>4, ProceedKeys
    <2>6. ASSUME NEW k PROVE Stored(q, k, Lookup(region', k)) = Stored(todo, k, Lookup(region, k))
                             /\ Apart(q)
      <3>1. Lookup(region', k) = IF k = todo[1].key THEN todo[1].dat ELSE Lookup(region, k)
        BY <1>2, <1>4
      <3> DEFINE x == Lookup(region, k)
                 y == Lookup(region', k)
      <3>2. y = IF k = todo[1].key THEN todo[1].dat ELSE x
        BY <3>1
      <3> HIDE DEF x, y
      <3>3. Stored(Tail(todo), k, y) = Stored(todo, k, x) /\ Apart(Tail(todo))
        BY <1>2, <1>8, <3>2, StoredTail
      <3> QED BY <3>3 DEF x, y, q
    <2>7. ASSUME NEW k \in Keys PROVE View'[k] = View[k]
      <3>1. View[k] = Stored(todo, k, Lookup(region, k))
        BY <1>1, ViewAt DEF ViewOf
      <3>2. View'[k] = Stored(todo', k, Lookup(region', k))
        BY <2>5, ViewNext DEF ViewOf
      <3>3. CASE todo' = q
        BY <2>6, <3>1, <3>2, <3>3
      <3>4. CASE todo' = <<>> /\ Len(q) = 1
        <4>1. Stored(q, k, Lookup(region', k)) = Lookup(region', k)
          BY <3>4, StoredNone
        <4>2. Stored(todo', k, Lookup(region', k)) = Lookup(region', k)
          BY <3>4, StoredNone
        <4> QED BY <2>6, <3>1, <3>2, <4>1, <4>2
      <3> QED BY <2>5, <3>3, <3>4
    <2>8. View[Current.key] = Current.dat
      <3>1. View[Current.key] = Stored(todo, Current.key, Lookup(region, Current.key))
        BY <1>1, <1>3, ViewAt DEF ViewOf
      <3>2. 1 \in 1 .. Len(todo) - 1
        BY <1>2, <1>8
      <3>3. Stored(todo, todo[1].key, Lookup(region, todo[1].key)) = todo[1].dat
        BY <1>2, <3>2, StoredAt
      <3> QED BY <1>2, <3>1, <3>3
    <2>9. Kept'
      <3>1. CASE pc' = "hdr" /\ todo' = q
        <4>1. q[Len(q)].dat \in maybe'[q[Len(q)].key]
          BY <1>2, <1>6, <1>8, <2>3 DEF Kept
        <4> QED BY <1>4, <2>2, <2>6, <3>1, <4>1 DEF Kept
      <3>2. CASE pc' = "idle" /\ todo' = <<>>
        BY <1>4, <3>2, EmptyKept
      <3> QED BY <2>5, <3>1, <3>2
    <2> QED BY <1>1, <1>2, <1>3, <1>4, <1>8, <2>1, <2>3, <2>5, <2>7, <2>8, <2>9
  <1> QED BY <1>7, <1>8, <1>9

\* At rest, or with the caller's record under way, the region is all there is.
LEMMA ViewRegion ==
    ASSUME KvInv, ~ Compacting, NEW k \in Keys
    PROVE  View[k] = Lookup(region, k)
  <1>1. pc # "erase" /\ ~ (Len(todo) > 1) /\ todo \in Seq(Entries) /\ Len(todo) \in Nat
    BY LenProperties DEF Compacting, KvInv, Queue
  <1>2. todo = <<>> \/ Len(todo) = 1
    BY <1>1, EmptySeq
  <1>3. Stored(todo, k, Lookup(region, k)) = Lookup(region, k)
    BY <1>2, StoredNone
  <1> QED BY <1>1, <1>3, ViewAt DEF ViewOf

\* What a compaction has in RAM.
LEMMA ViewCurrent ==
    ASSUME KvInv, Kept, pc \in {"hdr", "val", "st"}, Compacting
    PROVE  Current.key \in Keys /\ View[Current.key] = Current.dat
  <1>1. Len(todo) > 1 /\ pc # "erase" /\ todo \in Seq(Entries) /\ Len(todo) \in Nat
    BY LenProperties DEF Compacting, KvInv, Queue
  <1>2. Current = todo[1] /\ 1 \in 1 .. Len(todo) - 1 /\ 1 \in 1 .. Len(todo)
    BY <1>1, CurrentIs DEF KvInv
  <1>3. Current.key \in Keys /\ Apart(todo)
    BY <1>2 DEF Kept
  <1>4. View[Current.key] = Stored(todo, Current.key, Lookup(region, Current.key))
    BY <1>1, <1>3, ViewAt DEF ViewOf
  <1>5. Stored(todo, todo[1].key, Lookup(region, todo[1].key)) = todo[1].dat
    BY <1>2, <1>3, StoredAt
  <1> QED BY <1>2, <1>3, <1>4, <1>5

\* A loss of power leaves what was read before, or, at the state byte, what
\* the record under way says, or, at the erase, nothing.
LEMMA PowerLossEffect ==
    ASSUME Sound, KvInv, Layout, Kept, PowerLoss
    PROVE  /\ Kept' /\ pc' = "off" /\ todo' = <<>>
           /\ \A k \in Keys : View'[k] = Lookup(region', k)
           /\ \/ \A k : Lookup(region', k) = Lookup(region, k)
              \/ /\ pc = "st" /\ Current.key \in Keys
                 /\ \A k : Lookup(region', k) = IF k = Current.key THEN Current.dat
                                                ELSE Lookup(region, k)
              \/ pc = "erase" /\ \A k : Lookup(region', k) = None
  <1>1. region' \in Cut /\ pc' = "off" /\ todo' = <<>> /\ (Compacting => "compact" \in Faults)
    BY DEF PowerLoss
  <1>2. ASSUME pc \in HalCall PROVE Current.key \in Keys
    <2>1. todo # <<>> /\ todo \in Seq(Entries)
      BY <1>2 DEF KvInv, Queue
    <2>2. Current = todo[1] /\ 1 \in 1 .. Len(todo)
      BY <2>1, HeadIs DEF Current
    <2> QED BY <2>2 DEF Kept
  <1>3. /\ RecKeys(region')
        /\ \/ \A k : Lookup(region', k) = Lookup(region, k)
           \/ /\ pc = "st" /\ Current.key \in Keys
              /\ \A k : Lookup(region', k) = IF k = Current.key THEN Current.dat
                                             ELSE Lookup(region, k)
           \/ pc = "erase" /\ \A k : Lookup(region', k) = None
    <2>1. CASE pc \in {"idle"} \cup HalCall
      <3>1. pc = "erase" => Blocks = 1
        BY <1>1 DEF Compacting, Sound, Orderly
      <3>2. pc = "st" => pc \in HalCall
        BY DEF HalCall
      <3> QED BY <1>1, <1>2, <2>1, <3>1, <3>2, CutRead DEF Sound, Kept
    <2>2. CASE pc \notin {"idle"} \cup HalCall
      <3>1. region' = region
        BY <1>1, <2>2 DEF Cut, HalCall
      <3> QED BY <3>1 DEF Kept
    <2> QED BY <2>1, <2>2
  <1>4. Kept'
    BY <1>1, <1>3, EmptyKept
  <1>5. ASSUME NEW k \in Keys PROVE View'[k] = Lookup(region', k)
    <2>1. Stored(todo', k, Lookup(region', k)) = Lookup(region', k)
      BY <1>1, StoredNone
    <2> QED BY <1>1, <2>1, ViewNext DEF ViewOf
  <1> QED BY <1>1, <1>3, <1>4, <1>5

LEMMA KeptStep ==
    ASSUME Sound, KvInv, Layout, Kept, [Next]_vars
    PROVE  Kept'
  <1>1. CASE KvInit
    BY <1>1, KvInitEffect
  <1>2. CASE SomeWrite
    BY <1>2, KvWriteEffect DEF SomeWrite
  <1>3. CASE CompactErase
    BY <1>3, CompactEraseEffect
  <1>4. CASE WriteHeader \/ WriteValue
    BY <1>4, BodyEffect
  <1>5. CASE WriteState
    BY <1>5, WriteStateEffect
  <1>6. CASE HalFail
    BY <1>6 DEF HalFail, Sound, Orderly
  <1>7. CASE PowerLoss
    BY <1>7, PowerLossEffect
  <1>8. CASE UNCHANGED vars
    BY <1>8 DEF vars, Kept
  <1> QED BY <1>1, <1>2, <1>3, <1>4, <1>5, <1>6, <1>7, <1>8 DEF Next

-----------------------------------------------------------------------------
(* What is held is what was acknowledged, or asked for since. *)

Owing ==
    /\ pc \in {"idle"} \cup HalCall \/ cut = NoCut => \A k \in Keys : View[k] \in Owed(k)
    /\ \A k \in Keys : Lookup(region, k) \in Owed(k) \cup {None}

LEMMA InitOwing == Init => Owing
  <1> SUFFICES ASSUME Init PROVE Owing
    OBVIOUS
  <1>1. todo = <<>> /\ region = BlankRegion /\ pc = "off" /\ acked = [k \in Keys |-> None]
    BY DEF Init
  <1>2. ASSUME NEW k \in Keys PROVE View[k] = None /\ Lookup(region, k) = None /\ None \in Owed(k)
    <2>1. Stored(todo, k, Lookup(region, k)) = Lookup(region, k)
      BY <1>1, StoredNone
    <2> QED BY <1>1, <2>1, ViewAt, BlankRead DEF ViewOf, Owed
  <1> QED BY <1>2 DEF Owing

LEMMA KvInitOwing ==
    ASSUME KvInv, Kept, KvInit
    PROVE  Owing'
  <1>1. region' = region /\ acked' = [k \in Keys |-> Lookup(region, k)]
    BY DEF KvInit
  <1>2. ASSUME NEW k \in Keys
        PROVE  View'[k] = Lookup(region, k) /\ Lookup(region', k) = Lookup(region, k)
               /\ Lookup(region, k) \in Owed(k)'
    BY <1>1, KvInitEffect DEF Owed
  <1> QED BY <1>2 DEF Owing

LEMMA KvWriteOwing ==
    ASSUME Sound, KvInv, Kept, Owing, NEW k \in Keys, NEW d \in Datum, KvWrite(k, d)
    PROVE  Owing'
  <1>1. /\ region' = region /\ pc = "idle" /\ maybe' = [maybe EXCEPT ![k] = @ \cup {d}]
        /\ acked' = acked
    BY DEF KvWrite
  <1>2. \A x \in Keys : View'[x] = View[x]
    BY KvWriteEffect
  <1>3. ASSUME NEW x \in Keys PROVE Owed(x) \subseteq Owed(x)'
    BY <1>1 DEF Owed, KvInv, History
  <1>4. \A x \in Keys : View[x] \in Owed(x) /\ Lookup(region, x) \in Owed(x) \cup {None}
    BY <1>1 DEF Owing
  <1> QED BY <1>1, <1>2, <1>3, <1>4 DEF Owing

LEMMA CompactEraseOwing ==
    ASSUME Sound, KvInv, Kept, Owing, CompactErase
    PROVE  Owing'
  <1>1. pc \in HalCall /\ acked' = acked /\ maybe' = maybe
    BY DEF CompactErase, HalCall
  <1>2. \A k \in Keys : View'[k] = View[k] /\ Lookup(region', k) = None
    BY CompactEraseEffect
  <1>3. \A k \in Keys : View[k] \in Owed(k) /\ Owed(k)' = Owed(k)
    BY <1>1 DEF Owing, Owed
  <1> QED BY <1>2, <1>3 DEF Owing

LEMMA BodyOwing ==
    ASSUME Sound, KvInv, Layout, Kept, Owing, WriteHeader \/ WriteValue
    PROVE  Owing'
  <1>1. acked' = acked /\ maybe' = maybe
    BY DEF WriteHeader, WriteValue
  <1>2. /\ \A k \in Keys : View'[k] = View[k] /\ Lookup(region', k) = Lookup(region, k)
        /\ pc \in HalCall
    BY BodyEffect
  <1>3. \A k \in Keys : Owed(k)' = Owed(k)
    BY <1>1 DEF Owed
  <1>4. \A k \in Keys : View[k] \in Owed(k) /\ Lookup(region, k) \in Owed(k) \cup {None}
    BY <1>2 DEF Owing
  <1> QED BY <1>2, <1>3, <1>4 DEF Owing

LEMMA WriteStateOwing ==
    ASSUME Sound, KvInv, Layout, Kept, Owing, WriteState
    PROVE  Owing'
  <1>1. /\ pc = "st"
        /\ \A k \in Keys : Lookup(region', k) = IF k = Current.key THEN Current.dat
                                                ELSE Lookup(region, k)
        /\ \/ /\ Len(todo) = 1
              /\ \A k \in Keys : View[k] = Lookup(region, k)
              /\ \A k \in Keys : View'[k] = Lookup(region', k)
           \/ /\ Len(todo) > 1
              /\ \A k \in Keys : View'[k] = View[k]
              /\ Current.key \in Keys /\ View[Current.key] = Current.dat
    BY WriteStateEffect
  <1>2. \A k \in Keys : View[k] \in Owed(k) /\ Lookup(region, k) \in Owed(k) \cup {None}
    <2>1. pc \in HalCall
      BY <1>1 DEF HalCall
    <2> QED BY <2>1 DEF Owing
  <1>3. CASE /\ Len(todo) = 1
             /\ \A k \in Keys : View[k] = Lookup(region, k)
             /\ \A k \in Keys : View'[k] = Lookup(region', k)
    <2>1. /\ acked' = [acked EXCEPT ![Current.key] = Current.dat]
          /\ maybe' = [maybe EXCEPT ![Current.key] = {}]
      BY <1>3 DEF WriteState
    <2>2. ASSUME NEW k \in Keys PROVE Lookup(region', k) \in Owed(k)'
      <3>1. CASE k = Current.key
        <4>1. acked'[k] = Current.dat
          BY <2>1, <3>1 DEF KvInv, History
        <4> QED BY <1>1, <3>1, <4>1 DEF Owed
      <3>2. CASE k # Current.key
        <4>1. acked'[k] = acked[k] /\ maybe'[k] = maybe[k]
          BY <2>1, <3>2 DEF KvInv, History
        <4>2. Lookup(region', k) = View[k]
          BY <1>1, <1>3, <3>2
        <4> QED BY <1>2, <4>1, <4>2 DEF Owed
      <3> QED BY <3>1, <3>2
    <2> QED BY <1>3, <2>2 DEF Owing
  <1>4. CASE /\ Len(todo) > 1
             /\ \A k \in Keys : View'[k] = View[k]
             /\ Current.key \in Keys /\ View[Current.key] = Current.dat
    <2>1. acked' = acked /\ maybe' = maybe
      <3>1. Len(todo) # 1
        <4> DEFINE n == Len(todo)
        <4>1. n > 1
          BY <1>4
        <4> HIDE DEF n
        <4>2. n # 1
          BY <4>1
        <4> QED BY <4>2 DEF n
      <3> QED BY <3>1 DEF WriteState
    <2>2. \A k \in Keys : Owed(k)' = Owed(k)
      BY <2>1 DEF Owed
    <2>3. ASSUME NEW k \in Keys PROVE Lookup(region', k) \in Owed(k) \cup {None}
      <3>1. CASE k = Current.key
        BY <1>1, <1>2, <1>4, <3>1
      <3>2. CASE k # Current.key
        BY <1>1, <1>2, <3>2
      <3> QED BY <3>1, <3>2
    <2> QED BY <1>2, <1>4, <2>2, <2>3 DEF Owing
  <1> QED BY <1>1, <1>3, <1>4

\* A loss that cuts a compaction is noted.
LEMMA CutNoted ==
    ASSUME KvInv, PowerLoss, cut' = NoCut, NEW k \in Keys
    PROVE  cut = NoCut /\ ~ Compacting
  <1>1. View \in [Keys -> Datum]
    BY ViewIs DEF KvInv
  <1>2. View # NoCut
    <2>1. k \in DOMAIN View
      BY <1>1
    <2>2. DOMAIN NoCut = {}
      BY EmptySeq DEF NoCut
    <2> QED BY <2>1, <2>2
  <1> QED BY <1>2 DEF PowerLoss

LEMMA PowerLossOwing ==
    ASSUME Sound, KvInv, Layout, Kept, Owing, PowerLoss
    PROVE  Owing'
  <1>1. pc' = "off" /\ acked' = acked /\ maybe' = maybe
    BY DEF PowerLoss
  <1>2. /\ \A k \in Keys : View'[k] = Lookup(region', k)
        /\ \/ \A k : Lookup(region', k) = Lookup(region, k)
           \/ /\ pc = "st" /\ Current.key \in Keys
              /\ \A k : Lookup(region', k) = IF k = Current.key THEN Current.dat
                                             ELSE Lookup(region, k)
           \/ pc = "erase" /\ \A k : Lookup(region', k) = None
    BY PowerLossEffect
  <1>3. \A k \in Keys : Owed(k)' = Owed(k) /\ Lookup(region, k) \in Owed(k) \cup {None}
    BY <1>1 DEF Owed, Owing
  <1>4. ASSUME pc = "st", Current.key \in Keys PROVE Current.dat \in Owed(Current.key)
    <2>1. CASE Compacting
      <3>1. View[Current.key] = Current.dat
        BY <1>4, <2>1, ViewCurrent
      <3>2. pc \in HalCall
        BY <1>4 DEF HalCall
      <3> QED BY <1>4, <3>1, <3>2 DEF Owing
    <2>2. CASE ~ Compacting
      <3>1. todo # <<>> /\ todo \in Seq(Entries) /\ Current = todo[1]
        BY <1>4, CurrentIs DEF KvInv
      <3>2. Len(todo) \in Nat \ {0} /\ ~ (Len(todo) > 1)
        BY <2>2, <3>1, HeadIs DEF Compacting
      <3>3. Len(todo) = 1
        <4> DEFINE n == Len(todo)
        <4>1. n \in Nat \ {0} /\ ~ (n > 1)
          BY <3>2
        <4> HIDE DEF n
        <4>2. n = 1
          BY <4>1
        <4> QED BY <4>2 DEF n
      <3>4. Current.dat \in maybe[Current.key]
        BY <3>1, <3>3 DEF Kept
      <3> QED BY <3>4 DEF Owed
    <2> QED BY <2>1, <2>2
  <1>5. ASSUME NEW k \in Keys PROVE Lookup(region', k) \in Owed(k) \cup {None}
    <2>1. CASE pc = "st" /\ Current.key \in Keys /\ k = Current.key
               /\ \A x : Lookup(region', x) = IF x = Current.key THEN Current.dat
                                              ELSE Lookup(region, x)
      BY <1>4, <2>1
    <2>2. CASE Lookup(region', k) = Lookup(region, k) \/ Lookup(region', k) = None
      BY <1>3, <2>2
    <2> QED BY <1>2, <2>1, <2>2
  <1>6. ASSUME cut' = NoCut, NEW k \in Keys PROVE View'[k] \in Owed(k)
    <2>1. cut = NoCut /\ ~ Compacting
      BY <1>6, CutNoted
    <2>2. View[k] = Lookup(region, k) /\ View[k] \in Owed(k)
      BY <2>1, ViewRegion DEF Owing
    <2>3. pc # "erase"
      BY <2>1 DEF Compacting
    <2>4. CASE pc = "st" /\ Current.key \in Keys /\ k = Current.key
               /\ \A x : Lookup(region', x) = IF x = Current.key THEN Current.dat
                                              ELSE Lookup(region, x)
      BY <1>2, <1>4, <2>4
    <2>5. CASE Lookup(region', k) = Lookup(region, k)
      BY <1>2, <2>2, <2>5
    <2> QED BY <1>2, <2>3, <2>4, <2>5
  <1>7. pc' \notin {"idle"} \cup HalCall
    BY <1>1 DEF HalCall
  <1> QED BY <1>3, <1>5, <1>6, <1>7 DEF Owing

LEMMA OwingStep ==
    ASSUME Sound, KvInv, Layout, Kept, Owing, [Next]_vars
    PROVE  Owing'
  <1>1. CASE KvInit
    BY <1>1, KvInitOwing
  <1>2. CASE SomeWrite
    BY <1>2, KvWriteOwing DEF SomeWrite
  <1>3. CASE CompactErase
    BY <1>3, CompactEraseOwing
  <1>4. CASE WriteHeader \/ WriteValue
    BY <1>4, BodyOwing
  <1>5. CASE WriteState
    BY <1>5, WriteStateOwing
  <1>6. CASE HalFail
    BY <1>6 DEF HalFail, Sound, Orderly
  <1>7. CASE PowerLoss
    BY <1>7, PowerLossOwing
  <1>8. CASE UNCHANGED vars
    <2>1. View' = View
      BY <1>8 DEF vars, View, InRam
    <2> QED BY <1>8, <2>1 DEF vars, Owing, Owed
  <1> QED BY <1>1, <1>2, <1>3, <1>4, <1>5, <1>6, <1>7, <1>8 DEF Next

LEMMA SoundHolds == ASSUME Sound PROVE Spec => [](KvInv /\ Layout /\ Kept /\ Owing)
  <1>1. Init => KvInv /\ Layout /\ Kept /\ Owing
    BY InitOk, InitLayout, InitKept, InitOwing
  <1>2. KvInv /\ Layout /\ Kept /\ Owing /\ [Next]_vars => (KvInv /\ Layout /\ Kept /\ Owing)'
    BY StepOk, LayoutStep, KeptStep, OwingStep DEF Sound
  <1> QED BY <1>1, <1>2, PTL DEF Spec

(***************************************************************************)
(* Two-step commit.  On such flash, when no read fails either, and with no *)
(* more keys than valid[] has entries, every key reads as its last         *)
(* acknowledged datum or as one asked for since, wherever in a write power *)
(* is lost, until a loss first cuts a compaction.                          *)
(***************************************************************************)
THEOREM AcknowledgedKept == ASSUME Sound PROVE Spec => []Durable
  <1>1. KvInv /\ Layout /\ Kept /\ Owing => Durable
    <2> SUFFICES ASSUME KvInv, Owing, ~ Compacting, cut = NoCut, NEW k \in Keys
                 PROVE  Lookup(region, k) \in Owed(k)
      BY DEF Durable
    <2>1. View[k] = Lookup(region, k)
      BY ViewRegion
    <2> QED BY <2>1 DEF Owing
  <1> QED BY <1>1, SoundHolds, PTL

(***************************************************************************)
(* When no read fails, a loss of power inside compact costs records and    *)
(* nothing else: no key ever reads as a value overwritten or deleted.      *)
(***************************************************************************)
THEOREM StaleNever == ASSUME Sound PROVE Spec => []NothingStale
  <1>1. Owing => NothingStale
    BY DEF Owing, NothingStale
  <1> QED BY <1>1, SoundHolds, PTL

-----------------------------------------------------------------------------
(* The dictionary KvDict is implemented: its state, as KvStore's DictSpec    *)
(* maps it, step by step.                                                    *)

Held == Followed(View, cut)
Asked == Followed(Request, NoRequest)
Up == cut = NoCut /\ (pc = "idle" \/ pc \in HalCall)

\* The dictionary is given by what it says of each key.
LEMMA ViewSame ==
    ASSUME \A k \in Keys : View'[k] = View[k]
    PROVE  View' = View
  <1>1. View = [k \in Keys |-> View[k]]
    BY DEF View
  <1>2. View' = [k \in Keys |-> View'[k]]
    BY DEF View
  <1> QED BY <1>1, <1>2

\* A step that KvDict does not see.
LEMMA Unseen ==
    ASSUME Held' = Held, Asked' = Asked, Up' = Up
    PROVE  [Dict!Next]_(Dict!vars)
  <1>1. UNCHANGED Dict!vars
    BY DEF Dict!vars, Held, Asked, Up
  <1> QED BY <1>1

\* The dictionary while it is followed.
LEMMA FollowedIs ==
    ASSUME cut = NoCut
    PROVE  /\ Held = View /\ Asked = Request /\ (Up <=> pc = "idle" \/ pc \in HalCall)
  BY DEF Held, Asked, Up, Followed
LEMMA FollowedNext ==
    ASSUME cut' = NoCut
    PROVE  /\ Held' = View' /\ Asked' = Request'
           /\ (Up' <=> pc' = "idle" \/ pc' \in HalCall)
  BY DEF Held, Asked, Up, Followed, HalCall

\* After a loss that cut a compaction it is not followed.
LEMMA NotFollowed ==
    ASSUME cut # NoCut, [Next]_vars
    PROVE  [Dict!Next]_(Dict!vars)
  <1>1. cut' = cut
    BY DEF Next, vars, KvInit, SomeWrite, KvWrite, CompactErase, WriteHeader, WriteValue, WriteState,
           HalFail, PowerLoss
  <1>2. Held' = Held /\ Asked' = Asked /\ Up' = Up
    BY <1>1 DEF Held, Asked, Up, Followed
  <1> QED BY <1>2, Unseen

\* The call under way is one of a caller's.
LEMMA RequestIs ==
    ASSUME KvInv, pc \in HalCall
    PROVE  /\ Request = todo[Len(todo)] /\ Request # NoRequest /\ Request.key \in Keys
           /\ todo # <<>> /\ Len(todo) \in Nat \ {0}
  <1>1. todo # <<>> /\ todo \in Seq(Entries) /\ todo[Len(todo)].key \in Keys
    BY DEF KvInv, Queue
  <1>2. Request = todo[Len(todo)]
    BY DEF Request
  <1>3. NoRequest.key = 0 /\ 0 \notin Keys
    BY ConstAssumption DEF NoRequest
  <1> QED BY <1>1, <1>2, <1>3, HeadIs

LEMMA KvInitDict ==
    ASSUME KvInv, Kept, cut = NoCut, KvInit
    PROVE  [Dict!Next]_(Dict!vars)
  <1>1. pc = "off" /\ cut' = cut /\ pc' \in {"idle", "failed"}
    BY DEF KvInit
  <1>2. View' = View
    BY KvInitEffect, ViewSame
  <1>3. Request = NoRequest /\ Request' = NoRequest
    BY <1>1 DEF Request, HalCall
  <1>4. Held' = Held /\ Asked' = Asked /\ ~ Up
    BY <1>1, <1>2, <1>3, FollowedIs, FollowedNext DEF HalCall
  <1>5. CASE pc' = "idle"
    <2>1. Up'
      BY <1>1, <1>5, FollowedNext
    <2>2. Dict!Open
      BY <1>4, <2>1 DEF Dict!Open, Held, Asked, Up
    <2> QED BY <2>2 DEF Dict!Next
  <1>6. CASE pc' = "failed"
    <2>1. ~ Up'
      BY <1>1, <1>6, FollowedNext DEF HalCall
    <2>2. Up' = Up
      BY <1>4, <2>1 DEF Up
    <2> QED BY <1>4, <2>2, Unseen
  <1> QED BY <1>1, <1>5, <1>6

LEMMA KvWriteDict ==
    ASSUME Sound, KvInv, Kept, cut = NoCut, NEW k \in Keys, NEW d \in Datum, KvWrite(k, d)
    PROVE  [Dict!Next]_(Dict!vars)
  <1>1. pc = "idle" /\ cut' = cut
    BY DEF KvWrite
  <1>2. /\ \A x \in Keys : View'[x] = View[x]
        /\ pc' \in {"erase", "hdr"} /\ todo'[Len(todo')] = Entry(k, d)
    BY KvWriteEffect
  <1>3. Request = NoRequest /\ Request' = [key |-> k, dat |-> d]
    BY <1>1, <1>2 DEF Request, HalCall, Entry
  <1>4. Held' = Held /\ Asked = NoRequest /\ Asked' = [key |-> k, dat |-> d] /\ Up /\ Up'
    BY <1>1, <1>2, <1>3, ViewSame, FollowedIs, FollowedNext DEF HalCall
  <1>5. Dict!Ask(k, d)
    <2>1. Up' = Up
      BY <1>4 DEF Up
    <2> QED BY <1>4, <2>1 DEF Dict!Ask, Held, Asked, Up
  <1> QED BY <1>5 DEF Dict!Next

LEMMA WorkDict ==
    ASSUME Sound, KvInv, Layout, Kept, cut = NoCut, CompactErase \/ WriteHeader \/ WriteValue
    PROVE  [Dict!Next]_(Dict!vars)
  <1>1. cut' = cut /\ pc \in HalCall
    BY DEF CompactErase, WriteHeader, WriteValue, HalCall
  <1>2. (\A k \in Keys : View'[k] = View[k]) /\ pc' \in HalCall /\ todo' = todo
    BY CompactEraseEffect, BodyEffect DEF HalCall
  <1>3. Request' = Request
    BY <1>1, <1>2 DEF Request, HalCall
  <1>4. Held' = Held /\ Asked' = Asked /\ Up /\ Up'
    BY <1>1, <1>2, <1>3, ViewSame, FollowedIs, FollowedNext
  <1>5. Up' = Up
    BY <1>4 DEF Up
  <1> QED BY <1>4, <1>5, Unseen

\* A call ends: it has taken effect, or is refused.
LEMMA WriteStateDict ==
    ASSUME Sound, KvInv, Layout, Kept, cut = NoCut, WriteState
    PROVE  [Dict!Next]_(Dict!vars)
  <1>1. cut' = cut /\ pc = "st" /\ pc \in HalCall
    BY DEF WriteState, HalCall
  <1>2. /\ todo # <<>> /\ Current = todo[1] /\ Len(todo) \in Nat \ {0}
        /\ \A k \in Keys : Lookup(region', k) = IF k = Current.key THEN Current.dat
                                                ELSE Lookup(region, k)
        /\ \/ /\ Len(todo) = 1 /\ pc' = "idle" /\ todo' = <<>>
              /\ \A k \in Keys : View[k] = Lookup(region, k)
              /\ \A k \in Keys : View'[k] = Lookup(region', k)
           \/ /\ Len(todo) > 1
              /\ \A k \in Keys : View'[k] = View[k]
              /\ \/ pc' = "idle" /\ todo' = <<>>
                 \/ /\ pc' = "hdr" /\ todo' # <<>>
                    /\ todo'[Len(todo')] = todo[Len(todo)]
    BY WriteStateEffect
  <1>3. Held = View /\ Held' = View' /\ Asked = Request /\ Asked' = Request' /\ Up
    BY <1>1, FollowedIs, FollowedNext
  <1>4. Request = todo[Len(todo)] /\ Request # NoRequest
    BY <1>1, RequestIs
  <1>5. pc' = "idle" \/ pc' = "hdr"
    BY <1>2
  <1>6. Up' = Up
    <2>1. Up'
      BY <1>1, <1>5, FollowedNext DEF HalCall
    <2> QED BY <1>3, <2>1 DEF Up
  <1>7. CASE /\ Len(todo) = 1 /\ pc' = "idle" /\ todo' = <<>>
             /\ \A k \in Keys : View[k] = Lookup(region, k)
             /\ \A k \in Keys : View'[k] = Lookup(region', k)
    <2>1. Asked' = NoRequest /\ Asked = Current
      BY <1>2, <1>3, <1>4, <1>7 DEF Request, HalCall
    <2>2. \A k \in Keys : View'[k] = IF k = Current.key THEN Current.dat ELSE View[k]
      BY <1>2, <1>7
    <2>3. View' = [View EXCEPT ![Current.key] = Current.dat]
      <3>1. View = [k \in Keys |-> View[k]] /\ View' = [k \in Keys |-> View'[k]]
        BY DEF View
      <3> HIDE DEF Current
      <3> QED BY <2>2, <3>1
    <2>4. Held' = [Held EXCEPT ![Asked.key] = Asked.dat]
      BY <1>3, <2>1, <2>3
    <2>5. Dict!Commit
      BY <1>3, <1>4, <1>6, <2>1, <2>4 DEF Dict!Commit, Dict!Done, Held, Asked, Up
    <2> QED BY <2>5 DEF Dict!Next
  <1>8. CASE Len(todo) > 1 /\ (\A k \in Keys : View'[k] = View[k]) /\ pc' = "idle" /\ todo' = <<>>
    <2>1. Asked' = NoRequest
      BY <1>3, <1>8 DEF Request, HalCall
    <2>2. Held' = Held
      BY <1>3, <1>8, ViewSame
    <2>3. Dict!Refuse
      BY <1>3, <1>4, <1>6, <2>1, <2>2 DEF Dict!Refuse, Held, Asked, Up
    <2> QED BY <2>3 DEF Dict!Next
  <1>9. CASE /\ Len(todo) > 1 /\ \A k \in Keys : View'[k] = View[k]
             /\ pc' = "hdr" /\ todo' # <<>> /\ todo'[Len(todo')] = todo[Len(todo)]
    <2>1. Asked' = Asked
      BY <1>1, <1>3, <1>4, <1>9 DEF Request, HalCall
    <2>2. Held' = Held
      BY <1>3, <1>9, ViewSame
    <2> QED BY <1>6, <2>1, <2>2, Unseen
  <1> QED BY <1>2, <1>7, <1>8, <1>9

\* A loss of power leaves the dictionary before or after the call.
LEMMA PowerLossDict ==
    ASSUME Sound, KvInv, Layout, Kept, cut = NoCut, PowerLoss
    PROVE  [Dict!Next]_(Dict!vars)
  <1>1. pc' = "off" /\ todo' = <<>> /\ cut' = (IF Compacting THEN View ELSE NoCut) /\ pc # "off"
    BY DEF PowerLoss
  <1>2. /\ \A k \in Keys : View'[k] = Lookup(region', k)
        /\ \/ \A k : Lookup(region', k) = Lookup(region, k)
           \/ /\ pc = "st" /\ Current.key \in Keys
              /\ \A k : Lookup(region', k) = IF k = Current.key THEN Current.dat
                                             ELSE Lookup(region, k)
           \/ pc = "erase" /\ \A k : Lookup(region', k) = None
    BY PowerLossEffect
  <1>3. Held = View /\ Asked = Request /\ (Up <=> pc = "idle" \/ pc \in HalCall)
    BY FollowedIs
  <1>4. ~ Up'
    BY <1>1 DEF Up, HalCall
  <1>5. Asked' = NoRequest
    BY <1>1 DEF Asked, Followed, Request, HalCall
  <1>6. CASE Compacting
    <2>1. pc \in HalCall
      <3>1. pc = "erase" \/ todo # <<>>
        <4>1. pc = "erase" \/ Len(todo) > 1
          BY <1>6 DEF Compacting
        <4> QED BY <4>1, EmptySeq
      <3> QED BY <3>1 DEF KvInv, Queue, HalCall
    <2>2. PICK k \in Keys : TRUE
      BY <2>1, RequestIs
    <2>3. cut' # NoCut
      BY <2>2, <1>6, CutNoted
    <2>4. Held' = Held
      BY <1>1, <1>3, <1>6, <2>3 DEF Held, Followed
    <2>5. Dict!Crash
      BY <1>3, <1>4, <1>5, <2>1, <2>4 DEF Dict!Crash, Held, Asked, Up
    <2> QED BY <2>5 DEF Dict!Next
  <1>7. CASE ~ Compacting
    <2>1. cut' = NoCut /\ pc # "erase"
      BY <1>1, <1>7 DEF Compacting
    <2>2. Held' = View'
      BY <2>1, FollowedNext
    <2>3. \A k \in Keys : View[k] = Lookup(region, k)
      BY <1>7, ViewRegion
    <2>4. CASE \A k : Lookup(region', k) = Lookup(region, k)
      <3>1. Held' = Held
        BY <1>2, <1>3, <2>2, <2>3, <2>4, ViewSame
      <3>2. CASE Up
        <4>1. Dict!Crash
          BY <1>4, <1>5, <3>1, <3>2 DEF Dict!Crash, Held, Asked, Up
        <4> QED BY <4>1 DEF Dict!Next
      <3>3. CASE ~ Up
        <4>1. Asked = NoRequest
          BY <1>3, <3>3 DEF Request
        <4>2. Up' = Up
          BY <1>4, <3>3 DEF Up
        <4> QED BY <1>5, <3>1, <4>1, <4>2, Unseen
      <3> QED BY <3>2, <3>3
    <2>5. CASE /\ pc = "st" /\ Current.key \in Keys
               /\ \A k : Lookup(region', k) = IF k = Current.key THEN Current.dat
                                              ELSE Lookup(region, k)
      <3>1. pc \in HalCall /\ Up
        BY <1>3, <2>5 DEF HalCall
      <3>2. Request = todo[Len(todo)] /\ Request # NoRequest /\ Len(todo) \in Nat \ {0}
        BY <3>1, RequestIs
      <3>3. Asked = Current /\ Asked # NoRequest
        <4>1. ~ (Len(todo) > 1)
          BY <1>7 DEF Compacting
        <4> DEFINE n == Len(todo)
        <4>2. n = 1
          <5>1. n \in Nat \ {0} /\ ~ (n > 1)
            BY <3>2, <4>1
          <5> HIDE DEF n
          <5> QED BY <5>1
        <4>3. Current = todo[1]
          BY <2>5, CurrentIs DEF KvInv
        <4> QED BY <1>3, <3>2, <4>2, <4>3
      <3>4. \A k \in Keys : View'[k] = IF k = Current.key THEN Current.dat ELSE View[k]
        BY <1>2, <2>3, <2>5
      <3>5. View' = [View EXCEPT ![Current.key] = Current.dat]
        <4>1. View = [k \in Keys |-> View[k]] /\ View' = [k \in Keys |-> View'[k]]
          BY DEF View
        <4> HIDE DEF Current
        <4> QED BY <3>4, <4>1
      <3>6. Held' = [Held EXCEPT ![Asked.key] = Asked.dat]
        BY <1>3, <2>2, <3>3, <3>5
      <3>7. Dict!Crash
        BY <1>4, <1>5, <3>1, <3>3, <3>6 DEF Dict!Crash, Dict!Done, Held, Asked, Up
      <3> QED BY <3>7 DEF Dict!Next
    <2> QED BY <1>2, <2>1, <2>4, <2>5
  <1> QED BY <1>6, <1>7

LEMMA DictStep ==
    ASSUME Sound, KvInv, Layout, Kept, [Next]_vars
    PROVE  [Dict!Next]_(Dict!vars)
  <1>1. CASE cut # NoCut
    BY <1>1, NotFollowed
  <1>2. CASE cut = NoCut
    <2>1. CASE KvInit
      BY <1>2, <2>1, KvInitDict
    <2>2. CASE SomeWrite
      BY <1>2, <2>2, KvWriteDict DEF SomeWrite
    <2>3. CASE CompactErase \/ WriteHeader \/ WriteValue
      BY <1>2, <2>3, WorkDict
    <2>4. CASE WriteState
      BY <1>2, <2>4, WriteStateDict
    <2>5. CASE HalFail
      BY <2>5 DEF HalFail, Sound, Orderly
    <2>6. CASE PowerLoss
      BY <1>2, <2>6, PowerLossDict
    <2>7. CASE UNCHANGED vars
      <3>1. Held' = Held /\ Asked' = Asked /\ Up' = Up
        BY <2>7 DEF vars, Held, Asked, Up, Followed, View, InRam, Request
      <3> QED BY <3>1, Unseen
    <2> QED BY <2>1, <2>2, <2>3, <2>4, <2>5, <2>6, <2>7 DEF Next
  <1> QED BY <1>1, <1>2

(***************************************************************************)
(* kv_store is the dictionary of KvDict: reads change only at the state    *)
(* byte that ends a call, a compaction is not seen, and a loss of power    *)
(* leaves the dictionary before the call it cut, or after it.              *)
(***************************************************************************)
THEOREM Refines == ASSUME Sound PROVE Spec => DictSpec
  <1>1. Init => Dict!Init
    <2> SUFFICES ASSUME Init PROVE Dict!Init
      OBVIOUS
    <2>1. pc = "off" /\ cut = NoCut /\ KvInv
      BY InitOk DEF Init
    <2>2. View \in [Keys -> Datum]
      BY <2>1, ViewIs DEF KvInv
    <2>3. Held = View /\ Asked = NoRequest /\ ~ Up
      BY <2>1, FollowedIs DEF Request, HalCall
    <2>4. Up = FALSE
      BY <2>3 DEF Up
    <2> QED BY <2>2, <2>3, <2>4 DEF Dict!Init, Held, Asked, Up
  <1>2. KvInv /\ Layout /\ Kept /\ Owing /\ [Next]_vars => [Dict!Next]_(Dict!vars)
    BY DictStep
  <1> QED BY <1>1, <1>2, SoundHolds, PTL DEF Spec, DictSpec, Dict!Spec
==============================================================================
