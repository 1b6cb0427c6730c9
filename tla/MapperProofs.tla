---------------------------- MODULE MapperProofs ----------------------------
(***************************************************************************)
(* Proofs about Mapper, for any layout of ranges of whole words, in any    *)
(* order and overlapping as they may: the ranges that get mapped are       *)
(* disjoint, memory is what the guest's stores put there, the caches agree *)
(* with it wherever the guest kept to their rules, the lanes of devices    *)
(* are those of the target, and the whole implements FlatMemory.           *)
(*                                                                         *)
(* The list of ranges is built by a recursive function.  What is shown of  *)
(* it is shown by induction on the set of the lengths for which it holds:  *)
(* a length outside the set would have a least one, and no number is.      *)
(*                                                                         *)
(* The invariant that carries the proofs adds to the properties that a     *)
(* valid line, reliable or not, is at the index of its tag: a store of a   *)
(* word into an isolated cache keeps the tag, and the line that it makes   *)
(* stale is the line that the tag names only because of that.              *)
(***************************************************************************)
EXTENDS Mapper, WellFoundedInduction, TLAPS

Values(n) == [0..n - 1 -> Byte]

ByteOrders == endian \in [hostBig : BOOLEAN, bigendian : BOOLEAN]

LEMMA RevTyped ==
    ASSUME NEW n \in {1, 2, 4}, NEW v \in Values(n)
    PROVE  /\ Rev(n, v) \in Values(n)
           /\ Rev(n, Rev(n, v)) = v
<1>1. \A k \in 0..n - 1 : n - 1 - k \in 0..n - 1 /\ n - 1 - (n - 1 - k) = k
  OBVIOUS
<1>2. QED
  BY <1>1 DEF Rev, Values

LEMMA Orders ==
    ASSUME ByteOrders
    PROVE  \/ \A n, v : HostOrder(n, v) = Rev(n, v) /\ TargetOrder(n, v) = Rev(n, v)
                          /\ HostToMips(n, v) = v /\ ~byteswapped
           \/ \A n, v : HostOrder(n, v) = Rev(n, v) /\ TargetOrder(n, v) = v
                          /\ HostToMips(n, v) = Rev(n, v) /\ byteswapped
           \/ \A n, v : HostOrder(n, v) = v /\ TargetOrder(n, v) = Rev(n, v)
                          /\ HostToMips(n, v) = Rev(n, v) /\ byteswapped
           \/ \A n, v : HostOrder(n, v) = v /\ TargetOrder(n, v) = v
                          /\ HostToMips(n, v) = v /\ ~byteswapped
<1>1. endian.hostBig \in BOOLEAN /\ endian.bigendian \in BOOLEAN
  BY DEF ByteOrders
<1>2. CASE endian.hostBig /\ endian.bigendian
  BY <1>1, <1>2, Zenon DEF HostOrder, TargetOrder, HostToMips, byteswapped
<1>3. CASE endian.hostBig /\ ~endian.bigendian
  BY <1>1, <1>3, Zenon DEF HostOrder, TargetOrder, HostToMips, byteswapped
<1>4. CASE ~endian.hostBig /\ endian.bigendian
  BY <1>1, <1>4, Zenon DEF HostOrder, TargetOrder, HostToMips, byteswapped
<1>5. CASE ~endian.hostBig /\ ~endian.bigendian
  BY <1>1, <1>5, Zenon DEF HostOrder, TargetOrder, HostToMips, byteswapped
<1>6. QED
  BY <1>2, <1>3, <1>4, <1>5

LEMMA RoundTrip ==
    ASSUME ByteOrders, NEW n \in {1, 2, 4}, NEW v \in Values(n)
    PROVE  /\ HostOrder(n, v) \in Values(n) /\ TargetOrder(n, v) \in Values(n)
           /\ HostToMips(n, v) \in Values(n)
           /\ HostOrder(n, HostOrder(n, v)) = v /\ TargetOrder(n, TargetOrder(n, v)) = v
           /\ HostOrder(n, HostToMips(n, v)) = TargetOrder(n, v)
           /\ TargetOrder(n, HostToMips(n, HostOrder(n, v))) = v
BY Orders, RevTyped

(* The target's order is the host's, or its reverse.                        *)
LEMMA TargetFromHost ==
    ASSUME ByteOrders, NEW n \in {1, 2, 4}, NEW v \in Values(n)
    PROVE  TargetOrder(n, v) = IF byteswapped THEN Rev(n, HostOrder(n, v)) ELSE HostOrder(n, v)
BY Orders, RevTyped

(* Lanes of an aligned part of a word, counted from either end.             *)
LEMMA Lanes ==
    ASSUME NEW n \in {1, 2, 4}, NEW o \in 0..3, o % n = 0, NEW k \in 0..3
    PROVE  /\ k % n \in 0..n - 1 /\ (3 - k) % n \in 0..n - 1
           /\ k \div n = o \div n <=> k \in o..o + n - 1
           /\ (3 - k) \div n = 4 \div n - 1 - (o \div n) <=> k \in o..o + n - 1
           /\ k \in o..o + n - 1 => /\ k % n = k - o /\ k - o \in 0..n - 1
                                   /\ (3 - k) % n = n - 1 - (k - o)
<1>1. CASE n = 1
  BY <1>1
<1>2. CASE n = 2
  BY <1>2
<1>3. CASE n = 4
  BY <1>3
<1>4. QED
  BY <1>1, <1>2, <1>3

(* The bytes of a line after a store into it, in the target's order.        *)
LEMMA SetExact ==
    ASSUME ByteOrders, NEW n \in {1, 2, 4}, NEW a \in Nat, a % n = 0,
           NEW e, e.data \in Values(4), NEW v \in Values(n)
    PROVE  /\ CacheSetDataIntoEntry(e, n, a, v) \in Values(4)
           /\ \A k \in 0..3 :
                TargetOrder(4, CacheSetDataIntoEntry(e, n, a, v))[k] =
                   IF k \in (a % 4)..(a % 4) + n - 1 THEN TargetOrder(n, v)[k - (a % 4)]
                                                     ELSE TargetOrder(4, e.data)[k]
<1> DEFINE o == a % 4
           P == Part(a, n)
           x == HostOrder(n, v)
           y == HostOrder(4, e.data)
           new == [k \in 0..3 |-> IF k \div n = P THEN x[k % n] ELSE y[k]]
           set == CacheSetDataIntoEntry(e, n, a, v)
<1>1. o \in 0..3 /\ o % n = 0
  OBVIOUS
<1>2. x \in Values(n) /\ y \in Values(4)
  BY RoundTrip
<1>3. \A k \in 0..3 : k % n \in 0..n - 1
  BY <1>1, Lanes
<1>4. new \in Values(4)
  BY <1>2, <1>3 DEF Values
<1>5. set = HostOrder(4, new)
  BY DEF CacheSetDataIntoEntry
<1>6. set \in Values(4) /\ HostOrder(4, set) = new
  BY <1>4, <1>5, RoundTrip
<1>7. TargetOrder(4, set) = IF byteswapped THEN Rev(4, new) ELSE new
  BY <1>6, TargetFromHost
<1>8. /\ TargetOrder(n, v) = IF byteswapped THEN Rev(n, x) ELSE x
      /\ TargetOrder(4, e.data) = IF byteswapped THEN Rev(4, y) ELSE y
  BY TargetFromHost
<1>9. P = IF byteswapped THEN 4 \div n - 1 - (o \div n) ELSE o \div n
  BY DEF Part
<1>10. ASSUME NEW k \in 0..3
       PROVE  TargetOrder(4, set)[k] = IF k \in o..o + n - 1 THEN TargetOrder(n, v)[k - o]
                                                              ELSE TargetOrder(4, e.data)[k]
  <2> HIDE DEF o, P, x, y, set
  <2>1. CASE ~byteswapped
    BY <2>1, <1>1, <1>7, <1>8, <1>9, Lanes
  <2>2. CASE byteswapped
    <3>1. Rev(4, new)[k] = new[3 - k] /\ Rev(4, y)[k] = y[3 - k] /\ 3 - k \in 0..3
      BY DEF Rev
    <3>2. k \in o..o + n - 1 => Rev(n, x)[k - o] = x[n - 1 - (k - o)]
      BY <1>1, Lanes DEF Rev
    <3>3. QED
      BY <2>2, <3>1, <3>2, <1>1, <1>7, <1>8, <1>9, Lanes
  <2>3. QED
    BY <2>1, <2>2
<1>11. QED
  BY <1>6, <1>10

(* v is the n bytes at address a of a line with data d, in the target's     *)
(* order: what a load takes from the line.                                  *)
IsPart(v, n, a, d) ==
    v \in Values(n) /\ \A k \in 0..n - 1 : TargetOrder(n, v)[k] = TargetOrder(4, d)[(a % 4) + k]

LEMMA GetExact ==
    ASSUME ByteOrders, NEW n \in {1, 2, 4}, NEW a \in Nat, a % n = 0,
           NEW e, e.data \in Values(4)
    PROVE  IsPart(CacheGetDataFromEntry(e, n, a), n, a, e.data)
<1> DEFINE o == a % 4
           P == Part(a, n)
           y == HostOrder(4, e.data)
           part == Slice(y, n * P, n)
<1>1. o \in 0..3 /\ o % n = 0
  OBVIOUS
<1>2. y \in Values(4)
  BY RoundTrip
<1>3. P = IF byteswapped THEN 4 \div n - 1 - (o \div n) ELSE o \div n
  BY DEF Part
<1>4. \A k \in 0..n - 1 : /\ o + k \in 0..3 /\ n - 1 - k \in 0..n - 1
                          /\ n * (o \div n) + k = o + k
                          /\ n * (4 \div n - 1 - (o \div n)) + k = 3 - (o + (n - 1 - k))
                          /\ 3 - (o + k) \in 0..3
  <2> HIDE DEF o
  <2>1. n * (o \div n) = o /\ n * (4 \div n - 1 - (o \div n)) = 4 - n - o
    <3>1. CASE n = 1
      <4>1. 4 \div 1 = 4 /\ o \div 1 = o
        BY <1>1
      <4>2. QED
        BY <3>1, <4>1, <1>1
    <3>2. CASE n = 2
      BY <3>2, <1>1
    <3>3. CASE n = 4
      BY <3>3, <1>1
    <3>4. QED
      BY <3>1, <3>2, <3>3
  <2>2. o + n <= 4
    BY <1>1
  <2>3. QED
    BY <2>1, <2>2, <1>1
<1>5. \A k \in 0..n - 1 : part[k] = IF byteswapped THEN y[3 - (o + (n - 1 - k))] ELSE y[o + k]
  BY <1>3, <1>4 DEF Slice
<1>6. part \in Values(n)
  <2>1. \A k \in 0..n - 1 : part[k] \in Byte
    BY <1>2, <1>4, <1>5 DEF Values
  <2>2. QED
    BY <2>1 DEF Slice, Values
<1>7. /\ CacheGetDataFromEntry(e, n, a) \in Values(n)
      /\ TargetOrder(n, CacheGetDataFromEntry(e, n, a)) = IF byteswapped THEN Rev(n, part) ELSE part
  BY <1>6, RoundTrip, TargetFromHost DEF CacheGetDataFromEntry
<1>8. TargetOrder(4, e.data) = IF byteswapped THEN Rev(4, y) ELSE y
  BY TargetFromHost
<1>9. ASSUME NEW k \in 0..n - 1
      PROVE  TargetOrder(n, CacheGetDataFromEntry(e, n, a))[k] = TargetOrder(4, e.data)[o + k]
  <2> HIDE DEF o, P, y, part
  <2>1. CASE ~byteswapped
    BY <2>1, <1>5, <1>7, <1>8
  <2>2. CASE byteswapped
    <3>1. Rev(n, part)[k] = part[n - 1 - k] /\ Rev(4, y)[o + k] = y[3 - (o + k)]
      BY <1>4 DEF Rev
    <3>2. n - 1 - (n - 1 - k) = k
      BY <1>4
    <3>3. part[n - 1 - k] = y[3 - (o + k)]
      BY <2>2, <1>4, <1>5, <3>2
    <3>4. QED
      BY <2>2, <3>1, <3>3, <1>7, <1>8
  <2>3. QED
    BY <2>1, <2>2
<1>10. QED
  BY <1>7, <1>9 DEF IsPart

-----------------------------------------------------------------------------
(* Induction over the natural numbers below a bound, on the set of those    *)
(* for which what is to be shown holds.                                     *)
LEMMA BoundedInduction ==
    ASSUME NEW n \in Nat, NEW S, 0 \in S, \A m \in 0..n - 1 : m \in S => m + 1 \in S
    PROVE  \A m \in 0..n : m \in S
<1> DEFINE R == OpToRel(<, Nat)
           T == (0..n) \ S
<1>1. IsWellFoundedOn(R, Nat)
  BY NatLessThanWellFounded
<1>2. \A x, y \in Nat : y < x => <<y, x>> \in R
  BY DEF OpToRel
<1>3. T \subseteq Nat
  OBVIOUS
<1> HIDE DEF R
<1>4. ASSUME T # {} PROVE FALSE
  <2>1. PICK x \in T : \A y \in T : ~(<<y, x>> \in R)
    BY <1>1, <1>3, <1>4, WFMin
  <2>2. x \in 1..n /\ x - 1 \in 0..n - 1 /\ x - 1 < x /\ (x - 1) + 1 = x
    OBVIOUS
  <2>3. x - 1 \notin T
    <3>1. x \in Nat /\ x - 1 \in Nat
      BY <1>3, <2>2
    <3>2. <<x - 1, x>> \in R
      BY <1>2, <2>2, <3>1
    <3>3. QED
      BY <2>1, <3>2
  <2>4. QED
    BY <2>2, <2>3
<1>5. QED
  BY <1>4

-----------------------------------------------------------------------------
(* The list of ranges.                                                      *)
Fits == [kind : {"ram", "rom"}, base : Addr, extent : Nat]

WholeFits == {r \in Fits : r.base % 4 = 0 /\ r.extent % 4 = 0}

(* Ranges of whole words, none of which overlaps another.                   *)
Disjoint(rs) ==
    /\ rs \in Seq(WholeFits)
    /\ \A i, j \in DOMAIN rs : i # j => ~Overlaps(rs[i], rs[j])

(* The recursion of Mapped has a solution, so Mapped is one.                *)
LEMMA MappedIsDefined ==
    Mapped = [n \in 0..Len(Layout) |-> IF n = 0 THEN <<>> ELSE AddRange(Mapped[n - 1], Layout[n])]
<1> DEFINE Solves(f, m) == f = [n \in 0..m |-> IF n = 0 THEN <<>> ELSE AddRange(f[n - 1], Layout[n])]
           S == {m \in Nat : \E f : Solves(f, m)}
<1>1. 0 \in S
  <2>1. Solves([n \in 0..0 |-> <<>>], 0)
    OBVIOUS
  <2>2. QED
    BY <2>1
<1>2. ASSUME NEW m \in Nat, m \in S PROVE m + 1 \in S
  <2>1. PICK f : Solves(f, m)
    BY <1>2
  <2> DEFINE g == [n \in 0..m + 1 |-> IF n = m + 1 THEN AddRange(f[m], Layout[m + 1]) ELSE f[n]]
  <2>2. Solves(g, m + 1)
    <3>1. \A n \in 0..m + 1 : g[n] = IF n = 0 THEN <<>> ELSE AddRange(g[n - 1], Layout[n])
      <4> SUFFICES ASSUME NEW n \in 0..m + 1
                   PROVE  g[n] = IF n = 0 THEN <<>> ELSE AddRange(g[n - 1], Layout[n])
        OBVIOUS
      <4>1. CASE n = m + 1
        BY <4>1
      <4>2. CASE n \in 0..m
        BY <2>1, <4>2
      <4>3. QED
        BY <4>1, <4>2
    <3>2. QED
      BY <3>1
  <2>3. m + 1 \in Nat
    BY <1>2
  <2> HIDE DEF g, Solves
  <2>4. QED
    BY <2>2, <2>3
<1>3. Len(Layout) \in Nat
  BY MapperAssumption
<1>4. Len(Layout) \in S
  <2> HIDE DEF S
  <2>1. \A m \in 0..Len(Layout) : m \in S
    BY <1>1, <1>2, <1>3, BoundedInduction
  <2>2. QED
    BY <1>3, <2>1
<1>5. QED
  BY <1>4 DEF Mapped

(* The list that AddRange builds.                                           *)
LEMMA AddRangeDisjoint ==
    ASSUME NEW rs, Disjoint(rs), NEW r \in WholeFits
    PROVE  Disjoint(AddRange(rs, r))
<1>1. CASE \E i \in DOMAIN rs : Overlaps(r, rs[i])
  BY <1>1 DEF AddRange
<1>2. CASE \A i \in DOMAIN rs : ~Overlaps(r, rs[i])
  <2> DEFINE new == Append(rs, r)
  <2>1. rs \in Seq(WholeFits) /\ AddRange(rs, r) = new
    BY <1>2 DEF AddRange, Disjoint
  <2>2. /\ new \in Seq(WholeFits) /\ DOMAIN rs = 1..Len(rs) /\ Len(rs) \in Nat
        /\ DOMAIN new = 1..Len(rs) + 1
        /\ new[Len(rs) + 1] = r
        /\ \A i \in 1..Len(rs) : new[i] = rs[i]
    BY <2>1
  <2>3. \A s : Overlaps(s, r) <=> Overlaps(r, s)
    BY DEF Overlaps
  <2> HIDE DEF new
  <2>4. \A i, j \in DOMAIN new : i # j => ~Overlaps(new[i], new[j])
    <3> SUFFICES ASSUME NEW i \in 1..Len(rs) + 1, NEW j \in 1..Len(rs) + 1, i # j
                 PROVE  ~Overlaps(new[i], new[j])
      BY <2>2
    <3>1. CASE i \in 1..Len(rs) /\ j \in 1..Len(rs)
      BY <2>2, <3>1 DEF Disjoint
    <3>2. CASE i = Len(rs) + 1 /\ j \in 1..Len(rs)
      BY <1>2, <2>2, <3>2
    <3>3. CASE i \in 1..Len(rs) /\ j = Len(rs) + 1
      BY <1>2, <2>2, <2>3, <3>3
    <3>4. QED
      BY <2>2, <3>1, <3>2, <3>3
  <2>5. QED
    BY <2>1, <2>2, <2>4 DEF Disjoint
<1>3. QED
  BY <1>1, <1>2

LEMMA RangesDisjoint == Disjoint(Ranges)
<1> DEFINE S == {m \in Nat : Disjoint(Mapped[m])}
<1>1. Len(Layout) \in Nat /\ DOMAIN Layout = 1..Len(Layout)
  BY MapperAssumption
<1>2. 0 \in S
  <2>1. Mapped[0] = <<>>
    BY <1>1, MappedIsDefined
  <2>2. Disjoint(<<>>)
    BY DEF Disjoint
  <2>3. QED
    BY <2>1, <2>2
<1>3. ASSUME NEW m \in 0..Len(Layout) - 1, m \in S PROVE m + 1 \in S
  <2>1. m + 1 \in 1..Len(Layout) /\ m + 1 \in Nat /\ m + 1 \in 0..Len(Layout) /\ m + 1 # 0 /\ (m + 1) - 1 = m
    BY <1>1
  <2>2. Mapped[m + 1] = AddRange(Mapped[m], Layout[m + 1])
    <3>1. Mapped[m + 1] = IF m + 1 = 0 THEN <<>> ELSE AddRange(Mapped[(m + 1) - 1], Layout[m + 1])
      BY <2>1, MappedIsDefined
    <3>2. QED
      BY <2>1, <3>1
  <2>3. Layout[m + 1] \in WholeFits
    <3>1. Layout[m + 1] \in [kind : {"ram", "rom"}, base : 0..2^AddrBits - 1, extent : Nat]
      <4>1. \A T : Layout \in Seq(T) => Layout[m + 1] \in T
        BY <1>1, <2>1
      <4>2. QED
        BY <4>1, MapperAssumption
    <3>2. Layout[m + 1].base % 4 = 0 /\ Layout[m + 1].extent % 4 = 0
      BY <1>1, <2>1, MapperAssumption
    <3>3. QED
      BY <3>1, <3>2 DEF WholeFits, Fits, Addr
  <2>4. Disjoint(Mapped[m + 1])
    BY <1>3, <2>2, <2>3, AddRangeDisjoint
  <2>5. QED
    BY <2>1, <2>4
<1>4. Len(Layout) \in S
  <2> HIDE DEF S
  <2>1. \A m \in 0..Len(Layout) : m \in S
    BY <1>1, <1>2, <1>3, BoundedInduction
  <2>2. QED
    BY <1>1, <2>1
<1>5. QED
  BY <1>4 DEF Ranges

(* Bytes of one word belong to the same ranges.                             *)
LEMMA WordsOfRanges ==
    ASSUME NEW r \in WholeFits, NEW p \in Addr, NEW b \in 4 * (p \div 4)..4 * (p \div 4) + 3
    PROVE  b \in Addr /\ (Incorporates(r, p) <=> Incorporates(r, b))
<1>1. 2^AddrBits \in Nat /\ 2^AddrBits % 4 = 0 /\ p \in 0..2^AddrBits - 1
  BY MapperAssumption DEF Addr
<1>2. /\ r.base \in 0..2^AddrBits - 1 /\ r.extent \in Nat
      /\ r.base % 4 = 0 /\ r.extent % 4 = 0
  BY DEF WholeFits, Fits, Addr
<1>3. End(r) \in Nat /\ End(r) % 4 = 0
  <2> DEFINE M == 2^AddrBits
             x == r.base + r.extent
  <2>1. M \in Nat \ {0} /\ M % 4 = 0 /\ x \in Nat /\ x % 4 = 0
    BY <1>1, <1>2
  <2> HIDE DEF M, x
  <2>2. x % M \in Nat /\ (x % M) % 4 = 0
    <3> DEFINE q == x \div M
               m == M \div 4
    <3>1. q \in Nat /\ m \in Nat /\ M = 4 * m /\ x % M \in Nat /\ x = M * q + (x % M)
      BY <2>1
    <3>2. M * q = 4 * (m * q) /\ m * q \in Nat
      BY <3>1
    <3> HIDE DEF q, m
    <3> DEFINE y == m * q
               z == x % M
    <3>3. y \in Nat /\ z \in Nat /\ x = 4 * y + z
      BY <3>1, <3>2
    <3> HIDE DEF y, z
    <3>4. z % 4 = 0
      BY <2>1, <3>3
    <3>5. QED
      BY <3>3, <3>4 DEF z
  <2>3. QED
    BY <2>2 DEF End, M, x
<1>4. b \in Nat /\ b \div 4 = p \div 4
  BY <1>1
<1>5. \A x \in Nat : x % 4 = 0 => (x <= p <=> x <= b)
  BY <1>1, <1>4
<1>6. b \in Addr
  BY <1>1, <1>4, <1>5 DEF Addr
<1>7. r.base <= p <=> r.base <= b
  BY <1>2, <1>5
<1>8. End(r) <= p <=> End(r) <= b
  BY <1>3, <1>5
<1>9. QED
  BY <1>1, <1>2, <1>3, <1>4, <1>6, <1>7, <1>8 DEF Incorporates

LEMMA MappedWords == WholeWords
<1> DEFINE Hits(p) == {i \in DOMAIN Ranges : Incorporates(Ranges[i], p)}
<1>1. /\ Ranges \in Seq(WholeFits) /\ DOMAIN Ranges \subseteq Nat
      /\ \A i \in DOMAIN Ranges : Ranges[i] \in WholeFits
      /\ \A i, j \in DOMAIN Ranges : i # j => ~Overlaps(Ranges[i], Ranges[j])
  <2>1. Ranges \in Seq(WholeFits) /\ \A i, j \in DOMAIN Ranges : i # j => ~Overlaps(Ranges[i], Ranges[j])
    BY RangesDisjoint DEF Disjoint
  <2>2. QED
    BY <2>1
<1>2. \A r \in WholeFits : /\ r.kind \in {"ram", "rom"} /\ r.base \in Nat /\ r.base % 4 = 0
                          /\ r # NoRange /\ End(r) \in Nat
  <2>1. \A r \in WholeFits : r \in [kind : {"ram", "rom"}, base : Nat, extent : Nat] /\ r.base % 4 = 0
    BY DEF WholeFits, Fits, Addr
  <2>2. \A r \in [kind : {"ram", "rom"}, base : Nat, extent : Nat] : r # NoRange
    BY MapperAssumption
  <2>3. 2^AddrBits \in Nat
    BY MapperAssumption
  <2>4. ASSUME NEW r \in WholeFits PROVE End(r) \in Nat
    BY <2>3 DEF End, WholeFits, Fits, Addr
  <2>5. QED
    BY <2>1, <2>2, <2>4
<1>3. \A p \in Addr : p \in Nat
  BY DEF Addr
<1>4. ASSUME NEW p \in Addr, NEW i \in Hits(p), NEW j \in Hits(p) PROVE i = j
  <2>1. /\ Ranges[i].base \in Nat /\ Ranges[j].base \in Nat /\ p \in Nat
        /\ End(Ranges[i]) \in Nat /\ End(Ranges[j]) \in Nat
        /\ Ranges[i].base <= p /\ p < End(Ranges[i])
        /\ Ranges[j].base <= p /\ p < End(Ranges[j])
    BY <1>1, <1>2, <1>3 DEF Incorporates
  <2>2. Overlaps(Ranges[i], Ranges[j])
    BY <2>1 DEF Overlaps
  <2>3. QED
    BY <1>1, <2>2
<1>5. ASSUME NEW p \in Addr, NEW i \in Hits(p) PROVE FirstMatch[p] = Ranges[i]
  <2>1. Hits(p) = {i}
    BY <1>4
  <2>2. FirstMatch[p] = IF Hits(p) = {} THEN NoRange
                        ELSE Ranges[CHOOSE k \in Hits(p) : \A j \in Hits(p) : k <= j]
    BY DEF FirstMatch
  <2>3. i <= i
    BY <1>1
  <2> HIDE DEF Hits
  <2>4. (CHOOSE k \in Hits(p) : \A j \in Hits(p) : k <= j) = i
    BY <2>1, <2>3
  <2>5. QED
    BY <2>1, <2>2, <2>4
<1>6. ASSUME NEW p \in Addr, FirstMatch[p] # NoRange
      PROVE  \E i \in Hits(p) : FirstMatch[p] = Ranges[i]
  <2>1. Hits(p) # {}
    BY <1>6 DEF FirstMatch
  <2>2. QED
    BY <1>5, <2>1
<1>7. ASSUME NEW p \in Addr, FirstMatch[p] # NoRange
      PROVE  /\ FirstMatch[p].kind \in {"ram", "rom"}
             /\ FirstMatch[p].base \in 0..p /\ FirstMatch[p].base % 4 = 0
             /\ \E i \in DOMAIN Ranges : FirstMatch[p] = Ranges[i]
             /\ \A b \in 4 * (p \div 4)..4 * (p \div 4) + 3 : b \in Addr /\ FirstMatch[b] = FirstMatch[p]
  <2>1. PICK i \in Hits(p) : FirstMatch[p] = Ranges[i]
    BY <1>6, <1>7
  <2>2. Ranges[i] \in WholeFits /\ Ranges[i].base <= p
    BY <1>1 DEF Incorporates
  <2>3. \A b \in 4 * (p \div 4)..4 * (p \div 4) + 3 : b \in Addr /\ i \in Hits(b)
    BY <2>2, WordsOfRanges
  <2>4. QED
    BY <1>2, <1>3, <1>5, <2>1, <2>2, <2>3
<1>8. QED
  BY <1>5, <1>7 DEF WholeWords

-----------------------------------------------------------------------------
(* Words of the mapped ranges.                                              *)
LEMMA Words ==
    ASSUME NEW a \in Nat, NEW b \in Nat
    PROVE  /\ 4 * Tag(a) = a - (a % 4) /\ Tag(a) \in Nat /\ a % 4 \in 0..3
           /\ Tag(a) = Tag(b) <=> b \in 4 * Tag(a)..4 * Tag(a) + 3
           /\ \A n \in {1, 2, 4} : a % n = 0 => \A k \in 0..n - 1 : (a % 4) + k \in 0..3 /\ Tag(a + k) = Tag(a)
BY DEF Tag

LEMMA BackedWords ==
    ASSUME NEW a \in Addr, FirstMatch[a] # NoRange
    PROVE  /\ a \in Backed
           /\ \A b \in Nat : Tag(b) = Tag(a) => b \in Backed /\ FirstMatch[b] = FirstMatch[a]
<1>1. a \in Nat
  BY DEF Addr
<1>2. \A b \in Nat : Tag(b) = Tag(a) => b \in 4 * (a \div 4)..4 * (a \div 4) + 3
  BY <1>1 DEF Tag
<1>3. \A b \in Nat : Tag(b) = Tag(a) => b \in Addr /\ FirstMatch[b] = FirstMatch[a]
  BY <1>2, MappedWords DEF WholeWords
<1>4. \A b \in Addr : FirstMatch[b] = FirstMatch[a] => b \in Backed
  BY MappedWords DEF WholeWords, Backed, Ram, Rom, BytesOf
<1>5. QED
  BY <1>3, <1>4

LEMMA BackedMapped ==
    ASSUME NEW a \in Backed
    PROVE  a \in Addr /\ a \in Nat /\ FirstMatch[a] # NoRange
BY DEF Backed, Ram, Rom, BytesOf, Addr

-----------------------------------------------------------------------------
(* The data d of a line are the word with tag t of the memory m, on a       *)
(* machine with byte orders o.                                              *)
HoldsWord(o, m, d, t) ==
    \A k \in 0..3 : (IF o.bigendian THEN Rev(4, d) ELSE d)[k] = m[4 * t + k]

LinesHold ==
    \A c \in Caches, i \in Index : cache[c][i].valid =>
        /\ cache[c][i].tag % Entries = i
        /\ <<c, cache[c][i].tag>> \notin stale => HoldsWord(endian, raw, cache[c][i].data, cache[c][i].tag)

MapperInv == TypeOK /\ LinesHold /\ MemoryIsFlat

LEMMA Typed ==
    ASSUME TypeOK
    PROVE  ByteOrders /\ raw \in [Backed -> Byte] /\ isolated \in BOOLEAN /\ swapped \in BOOLEAN
             /\ stale \subseteq Caches \X {Tag(p) : p \in Backed}
BY MapperAssumption DEF TypeOK, ByteOrders

LEMMA IndexOf == ASSUME NEW t \in Nat PROVE t % Entries \in Index
BY MapperAssumption DEF Index

LEMMA EntryTyped ==
    ASSUME TypeOK, NEW c \in Caches, NEW a \in Nat
    PROVE  /\ Entry(c, a) \in Line
           /\ Entry(c, a).data \in Values(4)
BY IndexOf, Words DEF TypeOK, Entry, Line, Values

LEMMA LineTags ==
    ASSUME NEW e \in Line
    PROVE  e.tag \in Nat /\ e.data \in Values(4) /\ e.valid \in BOOLEAN
             /\ \E b \in Backed : e.tag = Tag(b)
BY BackedMapped DEF Line, Values, Tag

LEMMA FindRange ==
    ASSUME TypeOK, NEW a \in Addr
    PROVE  FindMappingRange(a) = FirstMatch[a]
BY MappedWords DEF WholeWords, TypeOK, FindMappingRange

LEMMA RememberTyped ==
    ASSUME TypeOK, NEW a \in Addr, Remember(FirstMatch[a])
    PROVE  last_used' = NoRange \/ \E i \in DOMAIN Ranges : last_used' = Ranges[i]
BY MappedWords DEF WholeWords, TypeOK, Remember

LEMMA RangeFrom ==
    ASSUME NEW n \in {1, 2, 4}, NEW a \in Nat, NEW base \in 0..a, base % 4 = 0
    PROVE  base + ((a - base) - ((a - base) % n)) = a - (a % n)
<1>1. CASE n = 1
  BY <1>1
<1>2. CASE n = 2
  BY <1>2
<1>3. CASE n = 4
  BY <1>3
<1>4. QED
  BY <1>1, <1>2, <1>3

LEMMA FetchesWord ==
    ASSUME TypeOK, NEW n \in {1, 2, 4}, NEW a \in Backed
    PROVE  /\ RangeFetch(FirstMatch[a], a, n) = HostOrder(n, Slice(raw, a - (a % n), n))
           /\ Slice(raw, a - (a % n), n) \in Values(n)
<1>1. a \in Addr /\ a \in Nat /\ FirstMatch[a] # NoRange
  BY BackedMapped
<1>2. FirstMatch[a].base \in 0..a /\ FirstMatch[a].base % 4 = 0
  BY <1>1, MappedWords DEF WholeWords
<1>3. \A k \in 0..n - 1 : a - (a % n) + k \in Nat /\ Tag(a - (a % n) + k) = Tag(a)
  BY <1>1 DEF Tag
<1>4. \A k \in 0..n - 1 : a - (a % n) + k \in Backed
  BY <1>1, <1>3, BackedWords
<1>5. Slice(raw, a - (a % n), n) \in Values(n)
  BY <1>4, Typed DEF Slice, Values
<1>6. QED
  BY <1>1, <1>2, <1>5, RangeFrom DEF RangeFetch

LEMMA FilledHolds ==
    ASSUME TypeOK, NEW a \in Backed, NEW e, NEW mode,
           ~isolated \/ mode = "INSTFETCH"
    PROVE  LET f == Filled(e, FirstMatch[a], a, mode)
           IN  f \in Line /\ f.valid /\ f.tag = Tag(a) /\ HoldsWord(endian, raw, f.data, Tag(a))
<1> DEFINE f == Filled(e, FirstMatch[a], a, mode)
           w == Slice(raw, a - (a % 4), 4)
<1>1. f = [valid |-> TRUE, tag |-> Tag(a), data |-> HostToMips(4, HostOrder(4, w))]
  BY FetchesWord DEF Filled
<1>2. w \in Values(4) /\ ByteOrders
  BY FetchesWord, Typed
<1>3. HostToMips(4, HostOrder(4, w)) \in Values(4) /\ TargetOrder(4, f.data) = w
  BY <1>1, <1>2, RoundTrip
<1>4. \A k \in 0..3 : w[k] = raw[4 * Tag(a) + k]
  <2>1. 4 * Tag(a) = a - (a % 4)
    BY BackedMapped, Words
  <2>2. QED
    BY <2>1 DEF Slice
<1>5. f \in Line
  BY <1>1, <1>3 DEF Line, Values, Tag
<1>6. QED
  BY <1>1, <1>3, <1>4, <1>5 DEF HoldsWord, TargetOrder

-----------------------------------------------------------------------------
(* A step that replaces one line, or none, keeps the caches coherent if the *)
(* new line holds its word and the step leaves the words of the others that *)
(* are not stale afterwards.                                                *)
LEMMA LineReplaced ==
    ASSUME MapperInv, UNCHANGED endian, NEW c \in Caches, NEW a \in Backed, NEW e \in Line,
           SetEntry(c, a, e),
           e.valid => e.tag % Entries = Tag(a) % Entries,
           e.valid /\ <<c, e.tag>> \notin stale' => HoldsWord(endian, raw', e.data, e.tag),
           \A d \in Caches, t \in {Tag(b) : b \in Backed} :
              <<d, t>> \notin stale' /\ ~(d = c /\ t % Entries = Tag(a) % Entries) =>
                 <<d, t>> \notin stale /\ \A k \in 0..3 : raw'[4 * t + k] = raw[4 * t + k]
    PROVE  cache' \in [Caches -> [Index -> Line]] /\ LinesHold'
<1> DEFINE x == Tag(a) % Entries
<1>1. x \in Index /\ cache \in [Caches -> [Index -> Line]]
  BY IndexOf, BackedMapped, Words DEF MapperInv, TypeOK
<1>2. cache' = [cache EXCEPT ![c][x] = e]
  BY DEF SetEntry
<1> HIDE DEF x
<1>3. cache' \in [Caches -> [Index -> Line]]
  BY <1>1, <1>2
<1>4. ASSUME NEW d \in Caches, NEW i \in Index, cache'[d][i].valid
      PROVE  /\ cache'[d][i].tag % Entries = i
             /\ <<d, cache'[d][i].tag>> \notin stale' =>
                   HoldsWord(endian, raw', cache'[d][i].data, cache'[d][i].tag)
  <2>1. CASE d = c /\ i = x
    <3>1. cache'[d][i] = e
      BY <2>1, <1>1, <1>2
    <3>2. QED
      BY <2>1, <3>1, <1>4 DEF x
  <2>2. CASE ~(d = c /\ i = x)
    <3>1. cache'[d][i] = cache[d][i] /\ cache[d][i] \in Line
      BY <2>2, <1>1, <1>2
    <3>2. cache[d][i].tag \in {Tag(b) : b \in Backed} /\ cache[d][i].tag % Entries = i
      BY <3>1, <1>4, LineTags DEF MapperInv, LinesHold
    <3>3. ASSUME <<d, cache[d][i].tag>> \notin stale'
          PROVE  HoldsWord(endian, raw', cache[d][i].data, cache[d][i].tag)
      <4>1. /\ <<d, cache[d][i].tag>> \notin stale
            /\ \A k \in 0..3 : raw'[4 * cache[d][i].tag + k] = raw[4 * cache[d][i].tag + k]
        BY <2>2, <3>2, <3>3 DEF x
      <4>2. HoldsWord(endian, raw, cache[d][i].data, cache[d][i].tag)
        BY <3>1, <4>1, <1>4 DEF MapperInv, LinesHold
      <4>3. QED
        BY <4>1, <4>2 DEF HoldsWord
    <3>4. QED
      BY <3>1, <3>2, <3>3
  <2>3. QED
    BY <2>1, <2>2
<1>5. QED
  BY <1>3, <1>4 DEF LinesHold

(* Steps that leave the caches alone: the same of every line.               *)
LEMMA LinesKept ==
    ASSUME MapperInv, UNCHANGED <<endian, cache>>,
           \A d \in Caches, t \in {Tag(b) : b \in Backed} : <<d, t>> \notin stale' =>
                 <<d, t>> \notin stale /\ \A k \in 0..3 : raw'[4 * t + k] = raw[4 * t + k]
    PROVE  LinesHold'
<1>1. ASSUME NEW d \in Caches, NEW i \in Index, cache[d][i].valid
      PROVE  /\ cache[d][i].tag % Entries = i
             /\ <<d, cache[d][i].tag>> \notin stale' => HoldsWord(endian, raw', cache[d][i].data, cache[d][i].tag)
  <2>1. cache[d][i] \in Line
    BY DEF MapperInv, TypeOK
  <2>2. cache[d][i].tag \in {Tag(b) : b \in Backed}
    BY <2>1, LineTags
  <2>3. cache[d][i].tag % Entries = i
    BY <1>1 DEF MapperInv, LinesHold
  <2>4. ASSUME <<d, cache[d][i].tag>> \notin stale'
        PROVE  HoldsWord(endian, raw', cache[d][i].data, cache[d][i].tag)
    <3>1. /\ <<d, cache[d][i].tag>> \notin stale
          /\ \A k \in 0..3 : raw'[4 * cache[d][i].tag + k] = raw[4 * cache[d][i].tag + k]
      BY <2>2, <2>4
    <3>2. HoldsWord(endian, raw, cache[d][i].data, cache[d][i].tag)
      BY <3>1, <1>1 DEF MapperInv, LinesHold
    <3>3. QED
      BY <3>1, <3>2 DEF HoldsWord
  <2>5. QED
    BY <2>3, <2>4
<1>2. QED
  BY <1>1 DEF LinesHold

(* Memory m after a store of v at the part of its word that has address a.  *)
Stored(m, n, a, v) ==
    LET from == a - (a % n)
    IN  /\ m \in [Backed -> Byte]
        /\ \A b \in Backed : m[b] = IF b \in from..from + n - 1 THEN TargetOrder(n, v)[b - from] ELSE raw[b]
        /\ \A b \in Rom : m[b] = raw[b]
        /\ \A b \in Nat : b \in from..from + n - 1 => Tag(b) = Tag(a)

(* A store of the target's bytes into the range of a.                       *)
LEMMA StoresBytes ==
    ASSUME TypeOK, NEW n \in {1, 2, 4}, NEW a \in Backed, NEW v \in Values(n),
           FirstMatch[a].kind # "rom"
    PROVE  Stored(RangeStore(FirstMatch[a], a, n, MipsToHost(n, v)), n, a, v)
<1> DEFINE m == RangeStore(FirstMatch[a], a, n, MipsToHost(n, v))
           from == a - (a % n)
           w == HostOrder(n, MipsToHost(n, v))
<1>1. a \in Addr /\ a \in Nat /\ FirstMatch[a] # NoRange
  BY BackedMapped
<1>2. FirstMatch[a].base \in 0..a /\ FirstMatch[a].base % 4 = 0
  BY <1>1, MappedWords DEF WholeWords
<1>3. FirstMatch[a].base + ((a - FirstMatch[a].base) - ((a - FirstMatch[a].base) % n)) = from
  BY <1>1, <1>2, RangeFrom
<1>4. raw \in [Backed -> Byte] /\ ByteOrders
  BY Typed
<1>5. w = TargetOrder(n, v) /\ w \in Values(n)
  BY <1>4, RoundTrip DEF MipsToHost
<1>6. from \in Nat
  BY <1>1
<1> HIDE DEF from
<1>7. m = [b \in Backed |-> IF b \in from..from + n - 1 THEN w[b - from] ELSE raw[b]]
  BY <1>3, <1>4 DEF RangeStore
<1>8. \A b \in Backed : b \in from..from + n - 1 => b - from \in 0..n - 1
  BY <1>6, BackedMapped
<1>9. m \in [Backed -> Byte]
  BY <1>4, <1>5, <1>7, <1>8 DEF Values
<1>10. \A b \in Nat : b \in from..from + n - 1 => Tag(b) = Tag(a)
  BY <1>1 DEF from, Tag
<1>11. \A b \in Rom : b \in Backed /\ b \notin from..from + n - 1
  <2> SUFFICES ASSUME NEW b \in Rom PROVE b \in Backed /\ b \notin from..from + n - 1
    OBVIOUS
  <2>1. b \in Backed /\ b \in Nat /\ FirstMatch[b].kind = "rom"
    BY BackedMapped DEF Backed, Rom, BytesOf
  <2>2. Tag(b) = Tag(a) => FirstMatch[b] = FirstMatch[a]
    BY <1>1, <2>1, BackedWords
  <2>3. QED
    BY <1>10, <2>1, <2>2
<1>12. QED
  BY <1>5, <1>7, <1>9, <1>10, <1>11 DEF from, Stored

LEMMA FetchGood ==
    ASSUME MapperInv, NEW a \in Addr, NEW mode, NEW cacheable \in BOOLEAN,
           Fetch(a, mode, cacheable)
    PROVE  MapperInv' /\ UNCHANGED flat
<1> DEFINE c == CacheFor(mode)
           r == FirstMatch[a]
           e == Filled(Entry(c, a), r, a, mode)
<1>1. TypeOK /\ r = FindMappingRange(a) /\ c \in Caches
  BY FindRange DEF MapperInv, CacheFor, Caches
<1>2. /\ ~(cacheable /\ CacheUseEntry(Entry(c, a), a, mode))
      /\ Remember(r)
      /\ IF r = NoRange THEN BusError ELSE UNCHANGED berr
      /\ IF r # NoRange /\ cacheable THEN SetEntry(c, a, e) ELSE UNCHANGED cache
      /\ UNCHANGED <<endian, raw, isolated, swapped, stale, flat>>
  BY <1>1 DEF Fetch
<1>3. cache' \in [Caches -> [Index -> Line]] /\ LinesHold'
  <2>1. CASE r # NoRange /\ cacheable
    <3>1. a \in Backed
      BY <2>1, BackedWords
    <3>2. ~isolated \/ mode = "INSTFETCH"
      BY <1>2, <2>1 DEF CacheUseEntry
    <3>3. e \in Line /\ e.valid /\ e.tag = Tag(a) /\ HoldsWord(endian, raw, e.data, Tag(a))
      BY <1>1, <3>1, <3>2, FilledHolds
    <3> HIDE DEF e, c, r
    <3>4. SetEntry(c, a, e)
      BY <1>2, <2>1
    <3>5. QED
      BY <1>1, <1>2, <3>1, <3>3, <3>4, LineReplaced
  <2>2. CASE ~(r # NoRange /\ cacheable)
    BY <1>2, <2>2, LinesKept DEF MapperInv, TypeOK
  <2>3. QED
    BY <2>1, <2>2
<1>4. last_used' = NoRange \/ \E i \in DOMAIN Ranges : last_used' = Ranges[i]
  BY <1>1, <1>2, RememberTyped
<1>5. berr' \in BOOLEAN
  BY <1>1, <1>2 DEF BusError, TypeOK
<1>6. QED
  BY <1>1, <1>2, <1>3, <1>4, <1>5 DEF MapperInv, TypeOK, MemoryIsFlat

LEMMA Distinct ==
    ASSUME NEW a \in Backed, NEW t \in {Tag(b) : b \in Backed}, t # Tag(a)
    PROVE  t \in Nat /\ \A k \in 0..3 : 4 * t + k \in Backed /\ Tag(4 * t + k) # Tag(a)
<1>1. PICK b \in Backed : t = Tag(b)
  OBVIOUS
<1>2. b \in Addr /\ b \in Nat /\ FirstMatch[b] # NoRange
  BY BackedMapped
<1>3. t \in Nat /\ \A k \in 0..3 : 4 * t + k \in Nat /\ Tag(4 * t + k) = t
  BY <1>1, <1>2 DEF Tag
<1>4. QED
  BY <1>1, <1>2, <1>3, BackedWords

(* Stores while the data cache is isolated.                                 *)
LEMMA IsolatedGood ==
    ASSUME MapperInv, NEW c \in Caches, NEW n \in {1, 2, 4}, NEW a \in Backed,
           NEW v \in Values(n), UNCHANGED endian, StoreIsolated(c, a, n, v)
    PROVE  /\ cache' \in [Caches -> [Index -> Line]] /\ LinesHold'
           /\ stale' \subseteq Caches \X {Tag(p) : p \in Backed}
           /\ UNCHANGED <<raw, flat>>
<1> DEFINE old == Entry(c, a)
           same == {c} \X SameIndex(a)
<1>1. TypeOK /\ a \in Nat /\ Tag(a) \in Nat
  BY BackedMapped, Words DEF MapperInv
<1>2. old \in Line /\ old.data \in Values(4)
  BY <1>1, EntryTyped
<1>3. SameIndex(a) \subseteq {Tag(p) : p \in Backed}
  BY DEF SameIndex
<1>4. \A t \in {Tag(p) : p \in Backed} : t \in SameIndex(a) <=> t % Entries = Tag(a) % Entries
  BY DEF SameIndex
<1>5. UNCHANGED <<raw, flat>>
  BY DEF StoreIsolated
<1>6. stale \subseteq Caches \X {Tag(p) : p \in Backed}
  BY <1>1, Typed
<1>7. CASE n = 4
  <2> DEFINE e == [old EXCEPT !.data = v]
  <2>1. SetEntry(c, a, e) /\ stale' = stale \cup same
    BY <1>7 DEF StoreIsolated
  <2>2. e \in Line /\ e.valid = old.valid /\ e.tag = old.tag
    BY <1>2, <1>7 DEF Line, Values
  <2>3. old.valid => old.tag % Entries = Tag(a) % Entries
    BY <1>1, IndexOf DEF MapperInv, LinesHold, Entry
  <2>4. old.tag \in {Tag(p) : p \in Backed}
    BY <1>2, LineTags
  <2>5. old.valid => <<c, old.tag>> \in stale'
    BY <1>4, <2>1, <2>3, <2>4
  <2> HIDE DEF e, same, old
  <2>6. \A d \in Caches, t \in {Tag(b) : b \in Backed} :
           <<d, t>> \notin stale' /\ ~(d = c /\ t % Entries = Tag(a) % Entries) =>
              <<d, t>> \notin stale /\ \A k \in 0..3 : raw'[4 * t + k] = raw[4 * t + k]
    BY <1>5, <2>1
  <2>7. cache' \in [Caches -> [Index -> Line]] /\ LinesHold'
    BY <2>1, <2>2, <2>3, <2>5, <2>6, LineReplaced
  <2>8. stale' \subseteq Caches \X {Tag(p) : p \in Backed}
    BY <1>3, <1>6, <2>1 DEF same
  <2>9. QED
    BY <1>5, <2>7, <2>8
<1>8. CASE n # 4
  <2> DEFINE e == [old EXCEPT !.valid = FALSE]
  <2>1. SetEntry(c, a, e) /\ stale' = stale \ same
    BY <1>8 DEF StoreIsolated
  <2>2. e \in Line /\ e.valid = FALSE
    BY <1>2 DEF Line
  <2>3. \A d \in Caches, t \in {Tag(b) : b \in Backed} :
           <<d, t>> \notin stale' /\ ~(d = c /\ t % Entries = Tag(a) % Entries) =>
              <<d, t>> \notin stale /\ \A k \in 0..3 : raw'[4 * t + k] = raw[4 * t + k]
    BY <1>4, <1>5, <2>1
  <2> HIDE DEF e, same, old
  <2>4. cache' \in [Caches -> [Index -> Line]] /\ LinesHold'
    BY <2>1, <2>2, <2>3, LineReplaced
  <2>5. stale' \subseteq Caches \X {Tag(p) : p \in Backed}
    BY <1>6, <2>1
  <2>6. QED
    BY <1>5, <2>4, <2>5
<1>9. QED
  BY <1>7, <1>8

(* The line that a store goes into, filled first if it has to be.           *)
LEMMA OldLine ==
    ASSUME MapperInv, NEW c \in Caches, NEW n \in {1, 2, 4}, NEW a \in Backed, ~isolated
    PROVE  LET old == IF n # 4 /\ ~CacheUseEntry(Entry(c, a), a, "DATASTORE")
                        THEN Filled(Entry(c, a), FirstMatch[a], a, "DATASTORE") ELSE Entry(c, a)
           IN  /\ old.data \in Values(4)
               /\ n # 4 /\ <<c, Tag(a)>> \notin stale => HoldsWord(endian, raw, old.data, Tag(a))
<1> DEFINE hit == CacheUseEntry(Entry(c, a), a, "DATASTORE")
           filled == Filled(Entry(c, a), FirstMatch[a], a, "DATASTORE")
<1>1. TypeOK /\ a \in Nat /\ Tag(a) \in Nat
  BY BackedMapped, Words DEF MapperInv
<1>2. Entry(c, a) \in Line /\ Entry(c, a).data \in Values(4)
  BY <1>1, EntryTyped
<1>3. filled \in Line /\ HoldsWord(endian, raw, filled.data, Tag(a))
  BY <1>1, FilledHolds
<1>4. hit => Entry(c, a).valid /\ Entry(c, a).tag = Tag(a)
  BY DEF CacheUseEntry
<1>5. hit /\ <<c, Tag(a)>> \notin stale => HoldsWord(endian, raw, Entry(c, a).data, Tag(a))
  BY <1>1, <1>4, IndexOf DEF MapperInv, LinesHold, Entry
<1> HIDE DEF hit, filled
<1>6. CASE n # 4 /\ ~hit
  <2>1. filled.data \in Values(4)
    BY <1>3, LineTags
  <2>2. QED
    BY <1>3, <1>6, <2>1 DEF hit, filled
<1>7. CASE ~(n # 4 /\ ~hit)
  BY <1>2, <1>5, <1>7 DEF hit, filled
<1>8. QED
  BY <1>6, <1>7

(* Stores through the cache: the whole line is written back.                *)
LEMMA ThroughGood ==
    ASSUME MapperInv, NEW c \in Caches, NEW n \in {1, 2, 4}, NEW a \in Backed,
           a % n = 0, FirstMatch[a].kind # "rom", NEW v \in Values(n), UNCHANGED endian, ~isolated,
           StoreThrough(c, FirstMatch[a], a, n, v)
    PROVE  /\ cache' \in [Caches -> [Index -> Line]] /\ LinesHold'
           /\ stale' \subseteq Caches \X {Tag(p) : p \in Backed}
           /\ raw' \in [Backed -> Byte] /\ \A b \in Rom : raw'[b] = raw[b]
           /\ flat' = raw'
           /\ stale' = (stale \ {<<c, Tag(a)>>}) \cup ((Caches \ {c}) \X {Tag(a)})
           /\ \A b \in Backed : flat'[b] # flat[b] =>
                 b \in a..a + n - 1 \/ (Tag(b) = Tag(a) /\ <<c, Tag(a)>> \in stale)
<1> DEFINE old == IF n # 4 /\ ~CacheUseEntry(Entry(c, a), a, "DATASTORE")
                    THEN Filled(Entry(c, a), FirstMatch[a], a, "DATASTORE") ELSE Entry(c, a)
           new == CacheSetDataIntoEntry(old, n, a, v)
           e == [valid |-> TRUE, tag |-> Tag(a), data |-> new]
<1>1. TypeOK /\ ByteOrders /\ a \in Nat /\ Tag(a) \in Nat /\ 4 * Tag(a) = a - (a % 4) /\ a % 4 \in 0..3
  BY BackedMapped, Words, Typed DEF MapperInv
<1>2. /\ SetEntry(c, a, e)
      /\ raw' = RangeStore(FirstMatch[a], a, 4, MipsToHost(4, new))
      /\ stale' = (stale \ {<<c, Tag(a)>>}) \cup ((Caches \ {c}) \X {Tag(a)})
      /\ Expect(c, a, n, v)
  BY DEF StoreThrough
<1>3. /\ old.data \in Values(4)
      /\ n # 4 /\ <<c, Tag(a)>> \notin stale => HoldsWord(endian, raw, old.data, Tag(a))
  BY OldLine
<1>4. /\ new \in Values(4)
      /\ \A k \in 0..3 : TargetOrder(4, new)[k] =
            IF k \in (a % 4)..(a % 4) + n - 1 THEN TargetOrder(n, v)[k - (a % 4)]
                                              ELSE TargetOrder(4, old.data)[k]
  <2> HIDE DEF old
  <2>1. QED
    BY <1>1, <1>3, SetExact
<1> HIDE DEF old, new
<1>5. e \in Line
  <2>1. Tag(a) \in {x \div 4 : x \in Backed}
    BY DEF Tag
  <2>2. QED
    BY <1>4, <2>1 DEF Line, Values
<1>6. /\ raw' \in [Backed -> Byte] /\ \A b \in Rom : raw'[b] = raw[b]
      /\ \A b \in Backed : raw'[b] = IF b \in 4 * Tag(a)..4 * Tag(a) + 3
                                        THEN TargetOrder(4, new)[b - 4 * Tag(a)] ELSE raw[b]
  <2>1. Stored(raw', 4, a, new)
    BY <1>1, <1>2, <1>4, StoresBytes
  <2>2. a - (a % 4) + 4 - 1 = 4 * Tag(a) + 3
    BY <1>1
  <2>3. QED
    BY <1>1, <2>1, <2>2 DEF Stored
<1>7. \A k \in 0..3 : 4 * Tag(a) + k \in Backed
  <2>1. a \in Addr /\ FirstMatch[a] # NoRange
    BY BackedMapped
  <2>2. \A k \in 0..3 : 4 * Tag(a) + k \in Nat /\ Tag(4 * Tag(a) + k) = Tag(a)
    BY <1>1 DEF Tag
  <2>3. QED
    BY <2>1, <2>2, BackedWords
<1>8. HoldsWord(endian, raw', new, Tag(a))
  <2>1. ASSUME NEW k \in 0..3
        PROVE  TargetOrder(4, new)[k] = raw'[4 * Tag(a) + k]
    <3> DEFINE b == 4 * Tag(a) + k
    <3>1. b \in 4 * Tag(a)..4 * Tag(a) + 3 /\ b - 4 * Tag(a) = k
      BY <1>1
    <3>2. b \in Backed
      BY <1>7
    <3> HIDE DEF b
    <3>3. raw'[b] = TargetOrder(4, new)[b - 4 * Tag(a)]
      BY <1>6, <3>1, <3>2
    <3>4. QED
      BY <3>1, <3>3 DEF b
  <2>2. QED
    BY <2>1 DEF HoldsWord, TargetOrder
<1>9. \A d \in Caches, t \in {Tag(b) : b \in Backed} :
         <<d, t>> \notin stale' /\ ~(d = c /\ t % Entries = Tag(a) % Entries) =>
            <<d, t>> \notin stale /\ \A k \in 0..3 : raw'[4 * t + k] = raw[4 * t + k]
  <2> SUFFICES ASSUME NEW d \in Caches, NEW t \in {Tag(b) : b \in Backed}, <<d, t>> \notin stale',
                      ~(d = c /\ t % Entries = Tag(a) % Entries)
               PROVE  <<d, t>> \notin stale /\ \A k \in 0..3 : raw'[4 * t + k] = raw[4 * t + k]
    OBVIOUS
  <2>1. t # Tag(a)
    BY <1>2
  <2>2. <<d, t>> \notin stale
    BY <1>2, <2>1
  <2>3. \A k \in 0..3 : 4 * t + k \in Backed /\ 4 * t + k \notin 4 * Tag(a)..4 * Tag(a) + 3
    <3>1. t \in Nat /\ \A k \in 0..3 : 4 * t + k \in Backed /\ Tag(4 * t + k) # Tag(a)
      BY <2>1, Distinct
    <3>2. \A k \in 0..3 : 4 * t + k \in Nat
      BY <3>1
    <3>3. \A b \in Nat : b \in 4 * Tag(a)..4 * Tag(a) + 3 => Tag(b) = Tag(a)
      BY <1>1, Words
    <3>4. QED
      BY <3>1, <3>2, <3>3
  <2>4. QED
    BY <1>6, <2>2, <2>3
<1>10. cache' \in [Caches -> [Index -> Line]] /\ LinesHold'
  BY <1>2, <1>5, <1>8, <1>9, LineReplaced
<1>11. stale' \subseteq Caches \X {Tag(p) : p \in Backed}
  BY <1>1, <1>2, Typed
<1>12. ASSUME NEW b \in Backed
       PROVE  raw'[b] = IF b \in a..a + n - 1 THEN TargetOrder(n, v)[b - a]
                        ELSE IF Tag(b) = Tag(a) /\ <<c, Tag(a)>> \in stale THEN raw'[b] ELSE flat[b]
  <2>1. b \in Nat /\ (Tag(b) = Tag(a) <=> b \in 4 * Tag(a)..4 * Tag(a) + 3)
    BY <1>1, BackedMapped, Words
  <2>2. b \in a..a + n - 1 => Tag(b) = Tag(a)
    BY <1>1, <2>1 DEF Tag
  <2>3. CASE Tag(b) # Tag(a)
    <3>1. raw'[b] = raw[b] /\ b \notin a..a + n - 1
      BY <1>6, <2>1, <2>2, <2>3
    <3>2. QED
      BY <2>3, <3>1 DEF MapperInv, MemoryIsFlat
  <2>4. CASE Tag(b) = Tag(a)
    <3> DEFINE W == 4 * Tag(a)
               o == a % 4
               k == b - W
    <3>1. W \in Nat /\ o \in 0..3 /\ a = W + o /\ b \in Nat /\ b \in W..W + 3
      BY <1>1, <2>1, <2>4
    <3>2. raw'[b] = TargetOrder(4, new)[k]
      BY <1>6, <3>1
    <3>3. \A j \in 0..3 : TargetOrder(4, new)[j] =
            IF j \in o..o + n - 1 THEN TargetOrder(n, v)[j - o] ELSE TargetOrder(4, old.data)[j]
      BY <1>4
    <3>4. n # 4 /\ <<c, Tag(a)>> \notin stale => \A j \in 0..3 : TargetOrder(4, old.data)[j] = raw[W + j]
      BY <1>3 DEF HoldsWord, TargetOrder
    <3>5. a % n = 0 /\ (n = 4 => o = 0)
      BY <1>1
    <3> HIDE DEF W, o
    <3>6. k \in 0..3 /\ b = W + k
      BY <3>1
    <3>7. /\ k \in o..o + n - 1 <=> b \in a..a + n - 1
          /\ k - o = b - a
      BY <3>1
    <3>8. b \notin a..a + n - 1 => n # 4
      BY <3>1, <3>5
    <3> HIDE DEF k
    <3>9. b \in a..a + n - 1 => raw'[b] = TargetOrder(n, v)[b - a]
      BY <3>6, <3>7, <3>2, <3>3
    <3>10. b \notin a..a + n - 1 /\ <<c, Tag(a)>> \notin stale => raw'[b] = flat[b]
      BY <3>6, <3>7, <3>8, <3>2, <3>3, <3>4 DEF MapperInv, MemoryIsFlat
    <3>11. QED
      BY <2>4, <3>9, <3>10
  <2>5. QED
    BY <2>3, <2>4
<1>13. flat' = [b \in Backed |-> raw'[b]]
  BY <1>2, <1>12 DEF Expect
<1>14. flat' = raw'
  BY <1>6, <1>13
<1>15. \A b \in Backed : flat'[b] # flat[b] =>
                 b \in a..a + n - 1 \/ (Tag(b) = Tag(a) /\ <<c, Tag(a)>> \in stale)
  BY <1>12, <1>14
<1>16. QED
  BY <1>2, <1>6, <1>10, <1>11, <1>14, <1>15

(* Stores around the caches make both copies of the word unreliable.        *)
LEMMA UncachedGood ==
    ASSUME MapperInv, NEW n \in {1, 2, 4}, NEW a \in Backed, a % n = 0,
           FirstMatch[a].kind # "rom", NEW v \in Values(n), UNCHANGED <<endian, cache>>,
           raw' = RangeStore(FirstMatch[a], a, n, MipsToHost(n, v)),
           stale' = stale \cup (Caches \X {Tag(a)}),
           Expect("none", a, n, v)
    PROVE  /\ LinesHold'
           /\ stale' \subseteq Caches \X {Tag(p) : p \in Backed}
           /\ raw' \in [Backed -> Byte] /\ \A b \in Rom : raw'[b] = raw[b]
           /\ flat' = raw'
           /\ \A b \in Backed : flat'[b] # flat[b] => b \in a..a + n - 1
<1>1. TypeOK /\ a \in Nat /\ a - (a % n) = a
  BY BackedMapped DEF MapperInv
<1>2. Stored(raw', n, a, v)
  BY <1>1, StoresBytes
<1>3. /\ raw' \in [Backed -> Byte] /\ \A b \in Rom : raw'[b] = raw[b]
      /\ \A b \in Backed : raw'[b] = IF b \in a..a + n - 1 THEN TargetOrder(n, v)[b - a] ELSE raw[b]
      /\ \A b \in Nat : b \in a..a + n - 1 => Tag(b) = Tag(a)
  BY <1>1, <1>2 DEF Stored
<1>4. \A d \in Caches, t \in {Tag(b) : b \in Backed} : <<d, t>> \notin stale' =>
         <<d, t>> \notin stale /\ \A k \in 0..3 : raw'[4 * t + k] = raw[4 * t + k]
  <2> SUFFICES ASSUME NEW d \in Caches, NEW t \in {Tag(b) : b \in Backed}, <<d, t>> \notin stale'
               PROVE  <<d, t>> \notin stale /\ \A k \in 0..3 : raw'[4 * t + k] = raw[4 * t + k]
    OBVIOUS
  <2>1. t # Tag(a) /\ <<d, t>> \notin stale
    OBVIOUS
  <2>2. \A k \in 0..3 : 4 * t + k \in Backed /\ 4 * t + k \notin a..a + n - 1
    BY <1>3, <2>1, Distinct, BackedMapped
  <2>3. QED
    BY <1>3, <2>1, <2>2
<1>5. LinesHold'
  BY <1>4, LinesKept
<1>6. stale' \subseteq Caches \X {Tag(p) : p \in Backed}
  BY <1>1, Typed
<1>7. \A b \in Backed : raw'[b] = IF b \in a..a + n - 1 THEN TargetOrder(n, v)[b - a] ELSE flat[b]
  BY <1>3 DEF MapperInv, MemoryIsFlat
<1>8. flat' = [b \in Backed |-> raw'[b]]
  BY <1>7 DEF Expect
<1>9. flat' = raw'
  BY <1>3, <1>8
<1>10. QED
  BY <1>3, <1>5, <1>6, <1>7, <1>9

-----------------------------------------------------------------------------
(* The store handler, and what the flat memory sees of it.                  *)
DataCache == IF swapped THEN "icache" ELSE "dcache"

LEMMA StoreCases ==
    ASSUME MapperInv, NEW n \in {1, 2, 4}, NEW a \in Addr, a % n = 0,
           NEW v \in Values(n), NEW cacheable \in BOOLEAN, Store(a, n, v, cacheable)
    PROVE  /\ MapperInv'
           /\ UNCHANGED <<isolated, swapped>>
           /\ \/ UNCHANGED flat
              \/ /\ FirstMatch[a].kind # "rom" /\ a \in Backed
                 /\ stale' = (stale \ {<<DataCache, Tag(a)>>}) \cup ((Caches \ {DataCache}) \X {Tag(a)})
                 /\ \A b \in Backed : flat'[b] # flat[b] =>
                       b \in a..a + n - 1 \/ (Tag(b) = Tag(a) /\ <<DataCache, Tag(a)>> \in stale)
              \/ /\ FirstMatch[a].kind # "rom" /\ a \in Backed
                 /\ stale' = stale \cup (Caches \X {Tag(a)})
                 /\ \A b \in Backed : flat'[b] # flat[b] => b \in a..a + n - 1
<1> DEFINE r == FirstMatch[a]
           kept == /\ cache' \in [Caches -> [Index -> Line]] /\ LinesHold'
                   /\ stale' \subseteq Caches \X {Tag(p) : p \in Backed}
                   /\ raw' \in [Backed -> Byte] /\ \A b \in Rom : raw'[b] = raw[b]
                   /\ flat' = raw'
<1>1. TypeOK /\ r = FindMappingRange(a) /\ DataCache \in Caches
  BY FindRange DEF MapperInv, DataCache, Caches
<1>2. /\ Remember(r)
      /\ IF r = NoRange THEN BusError ELSE UNCHANGED berr
      /\ UNCHANGED <<endian, isolated, swapped>>
  BY <1>1 DEF Store
<1>3. kept => MapperInv'
  <2>1. last_used' = NoRange \/ \E i \in DOMAIN Ranges : last_used' = Ranges[i]
    BY <1>1, <1>2, RememberTyped
  <2>2. berr' \in BOOLEAN
    BY <1>1, <1>2 DEF BusError, TypeOK
  <2>3. QED
    BY <1>1, <1>2, <2>1, <2>2 DEF MapperInv, TypeOK, MemoryIsFlat
<1>4. CASE Discarded(r, cacheable)
  <2>1. UNCHANGED <<raw, cache, stale, flat>>
    BY <1>1, <1>4 DEF Store
  <2>2. kept
    BY <1>1, <1>2, <2>1, LinesKept DEF MapperInv, MemoryIsFlat, TypeOK
  <2>3. QED
    BY <1>2, <1>3, <2>1, <2>2
<1>5. ASSUME ~Discarded(r, cacheable)
      PROVE  a \in Backed /\ r.kind # "rom"
  BY <1>5, BackedWords DEF Discarded
<1>6. CASE ~Discarded(r, cacheable) /\ cacheable /\ isolated
  <2>1. StoreIsolated(DataCache, a, n, v)
    BY <1>1, <1>6 DEF Store, CacheWrite, DataCache
  <2>2. /\ cache' \in [Caches -> [Index -> Line]] /\ LinesHold'
        /\ stale' \subseteq Caches \X {Tag(p) : p \in Backed}
        /\ UNCHANGED <<raw, flat>>
    BY <1>1, <1>2, <1>5, <1>6, <2>1, IsolatedGood
  <2>3. kept
    BY <1>1, <2>2 DEF MapperInv, MemoryIsFlat, TypeOK
  <2>4. QED
    BY <1>2, <1>3, <2>2, <2>3
<1>7. CASE ~Discarded(r, cacheable) /\ cacheable /\ ~isolated
  <2>1. StoreThrough(DataCache, r, a, n, v)
    BY <1>1, <1>7 DEF Store, CacheWrite, DataCache
  <2>2. /\ kept
        /\ stale' = (stale \ {<<DataCache, Tag(a)>>}) \cup ((Caches \ {DataCache}) \X {Tag(a)})
        /\ \A b \in Backed : flat'[b] # flat[b] =>
              b \in a..a + n - 1 \/ (Tag(b) = Tag(a) /\ <<DataCache, Tag(a)>> \in stale)
    BY <1>1, <1>2, <1>5, <1>7, <2>1, ThroughGood
  <2>3. QED
    BY <1>2, <1>3, <1>5, <1>7, <2>2
<1>8. CASE ~Discarded(r, cacheable) /\ ~cacheable
  <2>1. /\ raw' = RangeStore(r, a, n, MipsToHost(n, v))
        /\ stale' = stale \cup (Caches \X {Tag(a)})
        /\ Expect("none", a, n, v)
        /\ UNCHANGED cache
    BY <1>1, <1>8 DEF Store
  <2>2. /\ LinesHold'
        /\ stale' \subseteq Caches \X {Tag(p) : p \in Backed}
        /\ raw' \in [Backed -> Byte] /\ \A b \in Rom : raw'[b] = raw[b]
        /\ flat' = raw'
        /\ \A b \in Backed : flat'[b] # flat[b] => b \in a..a + n - 1
    BY <1>2, <1>5, <1>8, <2>1, UncachedGood
  <2>3. kept
    BY <1>1, <2>1, <2>2 DEF TypeOK
  <2>4. QED
    BY <1>2, <1>3, <1>5, <1>8, <2>1, <2>2, <2>3
<1>9. QED
  BY <1>4, <1>6, <1>7, <1>8

LEMMA SetControlBitsGood ==
    ASSUME MapperInv, NEW iso \in BOOLEAN, NEW swap \in BOOLEAN, CacheSetControlBits(iso, swap)
    PROVE  MapperInv' /\ UNCHANGED flat
<1>1. UNCHANGED <<endian, raw, cache, last_used, berr, stale, flat>> /\ isolated' = iso /\ swapped' = swap
  BY DEF CacheSetControlBits
<1>2. LinesHold'
  BY <1>1, LinesKept
<1>3. QED
  BY <1>1, <1>2 DEF MapperInv, TypeOK, MemoryIsFlat

LEMMA InitGood == Init => MapperInv
<1> SUFFICES ASSUME Init PROVE MapperInv
  OBVIOUS
<1>1. raw \in [Backed -> Byte] /\ \A p \in Rom : p \in Backed /\ raw[p] = RomWord[p % 4]
  <2>1. \A p \in Backed : p \in Nat /\ p % 4 \in 0..3
    BY BackedMapped
  <2>2. Rom \subseteq Backed
    BY DEF Backed
  <2>3. QED
    BY <2>1, <2>2, MapperAssumption DEF Init
<1>2. PICK p \in Ram : cache = [c \in Caches |-> [i \in Index |-> EmptyLine(Tag(p))]]
  BY DEF Init
<1>3. EmptyLine(Tag(p)) \in Line /\ EmptyLine(Tag(p)).valid = FALSE
  <2>1. Tag(p) \in {x \div 4 : x \in Backed}
    BY DEF Tag, Backed
  <2>2. QED
    BY <2>1, MapperAssumption DEF EmptyLine, Line
<1>4. \A c \in Caches, i \in Index : cache[c][i] = EmptyLine(Tag(p))
  BY <1>2
<1>5. cache \in [Caches -> [Index -> Line]] /\ LinesHold
  BY <1>2, <1>3, <1>4 DEF LinesHold
<1>6. QED
  BY <1>1, <1>5 DEF Init, MapperInv, TypeOK, MemoryIsFlat

LEMMA NumberTyped ==
    ASSUME NEW s \in StoreAt
    PROVE  /\ s[1] \in {1, 2, 4} /\ s[2] \in Addr /\ s[2] % s[1] = 0
           /\ Number(s[3], s[1]) \in Values(s[1])
BY MapperAssumption DEF Number, Values, Addr

LEMMA NextGood == MapperInv /\ [Next]_vars => MapperInv'
<1> SUFFICES ASSUME MapperInv, [Next]_vars PROVE MapperInv'
  OBVIOUS
<1>1. ASSUME NEW cacheable \in BOOLEAN, NEW p \in Aligned(4), NEW mode \in {"INSTFETCH", "DATALOAD"},
             Fetch(p, mode, cacheable)
      PROVE  MapperInv'
  BY <1>1, FetchGood DEF Aligned
<1>2. ASSUME NEW cacheable \in BOOLEAN, NEW s \in StoreAt,
             Store(s[2], s[1], Number(s[3], s[1]), cacheable)
      PROVE  MapperInv'
  BY <1>2, NumberTyped, StoreCases
<1>3. ASSUME NEW iso \in BOOLEAN, NEW swap \in BOOLEAN, CacheSetControlBits(iso, swap)
      PROVE  MapperInv'
  BY <1>3, SetControlBitsGood
<1>4. CASE UNCHANGED vars
  <2>1. LinesHold'
    BY <1>4, LinesKept DEF vars
  <2>2. QED
    BY <1>4, <2>1 DEF vars, MapperInv, TypeOK, MemoryIsFlat
<1>5. QED
  BY <1>1, <1>2, <1>3, <1>4 DEF Next

LEMMA MapperInvariant == Spec => []MapperInv
<1>1. Init => MapperInv
  BY InitGood
<1>2. MapperInv /\ [Next]_vars => MapperInv'
  BY NextGood
<1>3. QED
  BY <1>1, <1>2, PTL DEF Spec

(* Type correctness: whatever the guest stores, the memory, the lines of    *)
(* both caches and the range that find_mapping_range remembers stay what    *)
(* they are, and no store changes a byte of the ROM.                        *)
THEOREM TypeCorrect == Spec => []TypeOK
<1>1. MapperInv => TypeOK
  BY DEF MapperInv
<1>2. QED
  BY <1>1, MapperInvariant, PTL

(* The host's copy of memory is the bytes that the guest's stores put, in   *)
(* the target's byte order, whatever their width, the cache they went       *)
(* through and the byte order of the host (Range::store_*,                  *)
(* cache_set_data_into_entry).                                              *)
THEOREM MemoryFlat == Spec => []MemoryIsFlat
<1>1. MapperInv => MemoryIsFlat
  BY DEF MapperInv
<1>2. QED
  BY <1>1, MapperInvariant, PTL

-----------------------------------------------------------------------------
(* What loads return.  The line that a cacheable load reads, refilled or    *)
(* not.                                                                     *)
LineRead(a, mode) ==
    LET e == Entry(CacheFor(mode), a)
    IN  IF CacheUseEntry(e, a, mode) THEN e ELSE Filled(e, FirstMatch[a], a, mode)

LEMMA LineReadGood ==
    ASSUME MapperInv, NEW a \in Backed, NEW mode
    PROVE  /\ LineRead(a, mode).data \in Values(4)
           /\ \A n : FetchValue(a, n, mode, TRUE) = CacheGetDataFromEntry(LineRead(a, mode), n, a)
           /\ <<CacheFor(mode), Tag(a)>> \notin stale /\ ~(isolated /\ mode # "INSTFETCH")
                 => HoldsWord(endian, raw, LineRead(a, mode).data, Tag(a))
<1> DEFINE c == CacheFor(mode)
           e == Entry(c, a)
           f == Filled(e, FirstMatch[a], a, mode)
<1>1. TypeOK /\ c \in Caches /\ a \in Addr /\ a \in Nat /\ Tag(a) \in Nat
  BY BackedMapped, Words DEF MapperInv, CacheFor, Caches
<1>2. FindMappingRange(a) = FirstMatch[a]
  BY <1>1, FindRange
<1>3. e.data \in Values(4)
  BY <1>1, EntryTyped
<1>4. ASSUME ~CacheUseEntry(e, a, mode)
      PROVE  f.data \in Values(4) /\ HoldsWord(endian, raw, f.data, Tag(a))
  <2>1. ~isolated \/ mode = "INSTFETCH"
    BY <1>4 DEF CacheUseEntry
  <2>2. f \in Line /\ HoldsWord(endian, raw, f.data, Tag(a))
    BY <1>1, <2>1, FilledHolds
  <2>3. QED
    BY <2>2, LineTags
<1>5. ASSUME CacheUseEntry(e, a, mode), <<c, Tag(a)>> \notin stale, ~(isolated /\ mode # "INSTFETCH")
      PROVE  HoldsWord(endian, raw, e.data, Tag(a))
  <2>1. e.valid /\ e.tag = Tag(a)
    BY <1>5 DEF CacheUseEntry
  <2>2. QED
    BY <1>1, <1>5, <2>1, IndexOf DEF MapperInv, LinesHold, Entry
<1>6. \A n : FetchValue(a, n, mode, TRUE) = CacheGetDataFromEntry(LineRead(a, mode), n, a)
  BY <1>2 DEF FetchValue, LineRead
<1>7. LineRead(a, mode) = IF CacheUseEntry(e, a, mode) THEN e ELSE f
  BY DEF LineRead
<1> HIDE DEF e, f
<1>8. QED
  BY <1>3, <1>4, <1>5, <1>6, <1>7

(* The bytes of a word have the word's line.                                *)
LEMMA SameLine ==
    ASSUME MapperInv, NEW a \in Backed, NEW b \in Backed, Tag(b) = Tag(a), NEW mode
    PROVE  LineRead(b, mode) = LineRead(a, mode)
<1>1. a \in Addr /\ a \in Nat /\ b \in Nat /\ FirstMatch[a] # NoRange /\ TypeOK
  BY BackedMapped DEF MapperInv
<1>2. FirstMatch[b] = FirstMatch[a]
  BY <1>1, BackedWords
<1>3. b - (b % 4) = a - (a % 4)
  BY <1>1, Words
<1>4. RangeFetch(FirstMatch[b], b, 4) = RangeFetch(FirstMatch[a], a, 4)
  <2>1. 4 \in {1, 2, 4}
    OBVIOUS
  <2>2. RangeFetch(FirstMatch[a], a, 4) = HostOrder(4, Slice(raw, a - (a % 4), 4))
    BY <1>1, <2>1, FetchesWord
  <2>3. RangeFetch(FirstMatch[b], b, 4) = HostOrder(4, Slice(raw, b - (b % 4), 4))
    BY <1>1, <2>1, FetchesWord
  <2>4. QED
    BY <1>3, <2>2, <2>3
<1>5. QED
  BY <1>2, <1>4 DEF LineRead, Entry, CacheUseEntry, Filled

LEMMA OneByte ==
    ASSUME ByteOrders, NEW v \in Values(1)
    PROVE  TargetOrder(1, v)[0] = v[0]
BY Orders DEF Rev

LEMMA LoadWidths ==
    ASSUME MapperInv, NEW n \in {2, 4}, NEW p \in Backed, p % n = 0, NEW cacheable \in BOOLEAN
    PROVE  TargetOrder(n, FetchValue(p, n, "DATALOAD", cacheable)) =
             [k \in 0..n - 1 |-> FetchValue(p + k, 1, "DATALOAD", cacheable)[0]]
<1>1. TypeOK /\ ByteOrders /\ p \in Addr /\ p \in Nat /\ FirstMatch[p] # NoRange
  BY BackedMapped, Typed DEF MapperInv
<1>2. n \in {1, 2, 4} /\ 1 \in {1, 2, 4}
  OBVIOUS
<1>3. \A k \in 0..n - 1 : p + k \in Nat /\ Tag(p + k) = Tag(p) /\ (p + k) % 4 = (p % 4) + k
                            /\ (p + k) % 1 = 0
  BY <1>1 DEF Tag
<1>4. \A k \in 0..n - 1 : p + k \in Backed
  BY <1>1, <1>3, BackedWords
<1>5. CASE cacheable
  <2> DEFINE l == LineRead(p, "DATALOAD")
             x == CacheGetDataFromEntry(l, n, p)
  <2>1. l.data \in Values(4) /\ FetchValue(p, n, "DATALOAD", cacheable) = x
    BY <1>5, LineReadGood
  <2>2. IsPart(x, n, p, l.data)
    BY <1>1, <1>2, <2>1, GetExact
  <2>3. ASSUME NEW k \in 0..n - 1
        PROVE  FetchValue(p + k, 1, "DATALOAD", cacheable)[0] = TargetOrder(n, x)[k]
    <3> DEFINE y == CacheGetDataFromEntry(l, 1, p + k)
    <3>1. FetchValue(p + k, 1, "DATALOAD", cacheable) = y
      BY <1>3, <1>4, <1>5, LineReadGood, SameLine
    <3>2. IsPart(y, 1, p + k, l.data)
      BY <1>1, <1>2, <1>3, <2>1, GetExact
    <3> HIDE DEF y, l
    <3>3. y[0] = TargetOrder(4, l.data)[(p % 4) + k]
      <4>1. TargetOrder(1, y)[0] = TargetOrder(4, l.data)[((p + k) % 4) + 0]
        BY <3>2 DEF IsPart
      <4>2. ((p + k) % 4) + 0 = (p % 4) + k
        BY <1>1, <1>3
      <4>3. QED
        BY <1>1, <3>2, <4>1, <4>2, OneByte DEF IsPart
    <3>4. QED
      BY <2>2, <3>1, <3>3 DEF IsPart
  <2>4. TargetOrder(n, x) \in Values(n)
    BY <1>1, <1>2, <2>2, RoundTrip DEF IsPart
  <2> HIDE DEF x
  <2>5. QED
    BY <2>1, <2>3, <2>4 DEF Values
<1>6. CASE ~cacheable
  <2>1. \A m \in {1, 2, 4}, b \in Backed : b % m = 0 =>
           TargetOrder(m, FetchValue(b, m, "DATALOAD", cacheable)) = Slice(raw, b, m)
             /\ FetchValue(b, m, "DATALOAD", cacheable) \in Values(m)
    <3> SUFFICES ASSUME NEW m \in {1, 2, 4}, NEW b \in Backed, b % m = 0
                 PROVE  /\ TargetOrder(m, FetchValue(b, m, "DATALOAD", cacheable)) = Slice(raw, b, m)
                        /\ FetchValue(b, m, "DATALOAD", cacheable) \in Values(m)
      OBVIOUS
    <3>1. b \in Addr /\ b \in Nat /\ b - (b % m) = b
      BY BackedMapped
    <3>2. FetchValue(b, m, "DATALOAD", cacheable) = HostToMips(m, RangeFetch(FirstMatch[b], b, m))
      BY <1>1, <1>6, <3>1, FindRange DEF FetchValue
    <3>3. /\ RangeFetch(FirstMatch[b], b, m) = HostOrder(m, Slice(raw, b, m))
          /\ Slice(raw, b, m) \in Values(m)
      BY <1>1, <3>1, FetchesWord
    <3>4. QED
      BY <1>1, <3>2, <3>3, RoundTrip
  <2>2. ASSUME NEW k \in 0..n - 1
        PROVE  FetchValue(p + k, 1, "DATALOAD", cacheable)[0] = raw[p + k]
    <3> DEFINE y == FetchValue(p + k, 1, "DATALOAD", cacheable)
    <3>1. TargetOrder(1, y) = Slice(raw, p + k, 1) /\ y \in Values(1)
      BY <1>2, <1>3, <1>4, <2>1
    <3>2. y[0] = Slice(raw, p + k, 1)[0]
      BY <1>1, <3>1, OneByte
    <3> HIDE DEF y
    <3>3. QED
      BY <1>3, <3>2 DEF Slice, y
  <2>3. QED
    <3>1. TargetOrder(n, FetchValue(p, n, "DATALOAD", cacheable)) = Slice(raw, p, n)
      BY <1>2, <2>1
    <3>2. QED
      BY <2>2, <3>1 DEF Slice
<1>7. QED
  BY <1>5, <1>6

(* In either cache a valid line is at the index of its tag and holds the    *)
(* word that memory holds, unless the guest made it unreliable and has not  *)
(* invalidated it since; and a load of a halfword or a word returns the     *)
(* bytes that loads of its bytes return (cache_write, cache_do_fill,        *)
(* cache_get_data_from_entry and the fetches of Range).                     *)
THEOREM CachesCoherent == Spec => []Coherent
<1>1. ASSUME MapperInv PROVE Coherent
  <2>1. ASSUME NEW c \in Caches, NEW i \in Index, cache[c][i].valid, <<c, cache[c][i].tag>> \notin stale
        PROVE  /\ cache[c][i].tag % Entries = i
               /\ TargetOrder(4, cache[c][i].data) = [k \in 0..3 |-> raw[4 * cache[c][i].tag + k]]
    <3>1. cache[c][i] \in Line
      BY <1>1 DEF MapperInv, TypeOK
    <3>2. cache[c][i].tag % Entries = i /\ HoldsWord(endian, raw, cache[c][i].data, cache[c][i].tag)
      BY <1>1, <2>1 DEF MapperInv, LinesHold
    <3>3. TargetOrder(4, cache[c][i].data) \in Values(4)
      BY <1>1, <3>1, LineTags, Typed, RoundTrip DEF MapperInv
    <3>4. QED
      BY <3>2, <3>3 DEF HoldsWord, TargetOrder, Values
  <2>2. QED
    BY <1>1, <2>1, LoadWidths DEF Coherent
<1>2. QED
  BY <1>1, MapperInvariant, PTL

-----------------------------------------------------------------------------
(* What find_mapping_range finds and the lanes of devices.                  *)
LEMMA FindsItsRange ==
    ASSUME TypeOK, NEW p \in Addr, NEW i \in DOMAIN Ranges,
           Ranges[i].base + Ranges[i].extent < 2^AddrBits,
           p \in Ranges[i].base..Ranges[i].base + Ranges[i].extent - 1
    PROVE  FindMappingRange(p) = Ranges[i]
<1>1. Ranges[i] \in WholeFits
  <2>1. Ranges \in Seq(WholeFits)
    BY RangesDisjoint DEF Disjoint
  <2>2. QED
    BY <2>1
<1>2. Ranges[i].base \in Nat /\ Ranges[i].extent \in Nat /\ 2^AddrBits \in Nat
  BY <1>1, MapperAssumption DEF WholeFits, Fits, Addr
<1>3. End(Ranges[i]) = Ranges[i].base + Ranges[i].extent
  BY <1>2 DEF End
<1>4. Incorporates(Ranges[i], p)
  BY <1>2, <1>3 DEF Incorporates
<1>5. QED
  BY <1>4, FindRange, MappedWords DEF WholeWords

(* At every address find_mapping_range finds the one range that holds it,   *)
(* whatever it found before, unless that range wraps at the top of the      *)
(* address space: the ranges that map_at_physical_address let in do not     *)
(* overlap (Range::overlaps, Mapper::add_range, find_mapping_range).        *)
THEOREM FindsRanges == Spec => []FindAgrees
<1>1. TypeOK => FindAgrees
  BY MappedWords, FindRange, FindsItsRange DEF FindAgrees
<1>2. QED
  BY <1>1, TypeCorrect, PTL

Counts(n) == [0..n - 1 -> Nat]

LEMMA SwappedBack ==
    ASSUME NEW n \in {1, 2, 4}, NEW v \in Counts(n)
    PROVE  /\ Rev(n, v) \in Counts(n) /\ HostToMips(n, v) \in Counts(n) /\ TargetOrder(n, v) \in Counts(n)
           /\ HostToMips(n, MipsToHost(n, v)) = v
<1>1. \A u \in Counts(n) : Rev(n, u) \in Counts(n) /\ Rev(n, Rev(n, u)) = u
  <2>1. \A k \in 0..n - 1 : n - 1 - k \in 0..n - 1 /\ n - 1 - (n - 1 - k) = k
    OBVIOUS
  <2>2. QED
    BY <2>1 DEF Rev, Counts
<1>2. QED
  BY <1>1 DEF HostToMips, MipsToHost, TargetOrder

LEMMA LaneOfPart ==
    ASSUME ByteOrders, NEW n \in {1, 2}, NEW o \in 0..3, o % n = 0
    PROVE  DeviceLane(o, n) = IF endian.bigendian THEN 4 - n - o ELSE o
<1>1. o % 4 = o /\ n * (o \div n) = o /\ n * (4 \div n) = 4
  <2>1. CASE n = 1
    <3>1. o \div 1 = o /\ 4 \div 1 = 4
      OBVIOUS
    <3>2. QED
      BY <2>1, <3>1
  <2>2. CASE n = 2
    BY <2>2
  <2>3. QED
    BY <2>1, <2>2
<1> DEFINE k == o \div n
           q == 4 \div n
<1>2. k \in Nat /\ q \in Nat
  OBVIOUS
<1>3. DeviceLane(o, n) = 4 - n * (1 + IF endian.bigendian THEN k ELSE q - 1 - k)
  BY <1>1 DEF DeviceLane
<1> HIDE DEF k, q
<1>4. n * (1 + k) = n + n * k /\ n * (1 + (q - 1 - k)) = n * q - n * k
  BY <1>2
<1>5. QED
  BY <1>1, <1>3, <1>4 DEF k, q

LEMMA LanesOfDevices == ASSUME ByteOrders PROVE LanesExact
<1> DEFINE f == [b \in 0..3 |-> b]
<1> SUFFICES ASSUME NEW n \in {1, 2}, NEW o \in 0..3, o % n = 0
             PROVE  LET v == [l \in 0..n - 1 |-> 10 + l]
                        w == TargetOrder(4, DeviceStore(o, n, MipsToHost(n, v), 0))
                    IN  /\ TargetOrder(n, HostToMips(n, DeviceFetch(WordAt(f, 0), o, n))) = Slice(f, o, n)
                        /\ w = [k \in 0..3 |-> IF k \in o..o + n - 1 THEN TargetOrder(n, v)[k - o] ELSE 0]
  BY DEF LanesExact
<1> DEFINE L == DeviceLane(o, n)
           v == [l \in 0..n - 1 |-> 10 + l]
<1>1. L = IF endian.bigendian THEN 4 - n - o ELSE o
  BY LaneOfPart
<1>2. L \in 0..3 /\ L + n <= 4 /\ o + n <= 4
  BY <1>1
<1>3. v \in Counts(n) /\ f \in Counts(4)
  BY DEF Counts
<1> HIDE DEF L
<1>4. TargetOrder(n, HostToMips(n, DeviceFetch(WordAt(f, 0), o, n))) = Slice(f, o, n)
  <2> DEFINE word == TargetOrder(4, f)
             part == Slice(word, L, n)
  <2>1. WordAt(f, 0) = word
    <3>1. Slice(f, 0, 4) = f
      BY DEF Slice
    <3>2. 0 - (0 % 4) = 0
      OBVIOUS
    <3>3. QED
      BY <3>1, <3>2 DEF WordAt
  <2>2. word \in Counts(4) /\ HostToMips(4, MipsToHost(4, word)) = word
    BY <1>3, SwappedBack
  <2>3. part \in Counts(n)
    BY <1>2, <2>2 DEF Slice, Counts
  <2>4. HostToMips(n, DeviceFetch(word, o, n)) = part
    BY <2>2, <2>3, SwappedBack DEF DeviceFetch, L
  <2>5. TargetOrder(n, part) = Slice(f, o, n)
    <3>1. CASE endian.bigendian
      BY <1>1, <1>2, <3>1 DEF TargetOrder, Slice, Rev
    <3>2. CASE ~endian.bigendian
      BY <1>1, <1>2, <3>2 DEF TargetOrder, Slice
    <3>3. QED
      BY <3>1, <3>2
  <2>6. QED
    BY <2>1, <2>4, <2>5
<1>5. TargetOrder(4, DeviceStore(o, n, MipsToHost(n, v), 0))
         = [k \in 0..3 |-> IF k \in o..o + n - 1 THEN TargetOrder(n, v)[k - o] ELSE 0]
  <2> DEFINE w == [l \in 0..3 |-> IF l \in L..L + n - 1 THEN v[l - L] ELSE 0]
  <2>1. HostToMips(n, MipsToHost(n, v)) = v
    BY <1>3, SwappedBack
  <2>2. w \in Counts(4)
    BY <1>2, <1>3 DEF Counts
  <2>3. DeviceStore(o, n, MipsToHost(n, v), 0) = w
    <3>1. HostToMips(4, MipsToHost(4, w)) = w
      BY <2>2, SwappedBack
    <3>2. QED
      BY <2>1, <3>1 DEF DeviceStore, L
  <2>4. TargetOrder(4, w) = [k \in 0..3 |-> IF k \in o..o + n - 1 THEN TargetOrder(n, v)[k - o] ELSE 0]
    <3>1. CASE endian.bigendian
      BY <1>1, <1>2, <3>1 DEF TargetOrder, Rev
    <3>2. CASE ~endian.bigendian
      BY <1>1, <1>2, <3>2 DEF TargetOrder
    <3>3. QED
      BY <3>1, <3>2
  <2>5. QED
    BY <2>3, <2>4
<1>6. QED
  BY <1>4, <1>5

(* A halfword or a byte of a device's register is the part of its word at   *)
(* its address, on a host and a target of any byte order, for loads and for *)
(* stores (DeviceMap::fetch_halfword, store_byte and the others).           *)
THEOREM DeviceLanes == Spec => []LanesExact
<1>1. TypeOK => LanesExact
  BY Typed, LanesOfDevices
<1>2. QED
  BY <1>1, TypeCorrect, PTL

-----------------------------------------------------------------------------
(* The mapper implements the flat memory.                                   *)
Ports == {"fetch", "data"}

Seen == [pa \in Ports \X Backed |-> TargetOrder(4, FetchValue(pa[2], 4, PortMode[pa[1]], TRUE))]

Wild == {pa \in Ports \X Backed : \/ <<CacheFor(PortMode[pa[1]]), Tag(pa[2])>> \in stale
                                  \/ pa[1] = "data" /\ isolated}

LEMMA PortReads ==
    ASSUME MapperInv, NEW p \in Ports, NEW a \in Backed, a % 4 = 0, NEW k \in 0..3,
           Seen[<<p, a>>][k] # flat[a + k]
    PROVE  a + k \in Backed /\ <<p, a + k>> \in Wild
<1>1. a \in Addr /\ a \in Nat /\ FirstMatch[a] # NoRange /\ ByteOrders
  BY BackedMapped, Typed DEF MapperInv
<1>2. a + k \in Nat /\ Tag(a + k) = Tag(a) /\ 4 * Tag(a) + k = a + k /\ (a % 4) + k = k
  BY <1>1 DEF Tag
<1>3. a + k \in Backed
  BY <1>1, <1>2, BackedWords
<1>4. PortMode[p] # "INSTFETCH" => p = "data"
  BY DEF PortMode, Ports
<1>5. Seen[<<p, a>>] = TargetOrder(4, FetchValue(a, 4, PortMode[p], TRUE))
  BY DEF Seen
<1> DEFINE l == LineRead(a, PortMode[p])
<1>6. l.data \in Values(4) /\ FetchValue(a, 4, PortMode[p], TRUE) = CacheGetDataFromEntry(l, 4, a)
  BY LineReadGood
<1>7. IsPart(CacheGetDataFromEntry(l, 4, a), 4, a, l.data)
  <2> HIDE DEF l
  <2>1. 4 \in {1, 2, 4}
    OBVIOUS
  <2>2. QED
    BY <1>1, <1>6, <2>1, GetExact
<1>8. <<CacheFor(PortMode[p]), Tag(a)>> \notin stale /\ ~(p = "data" /\ isolated)
         => HoldsWord(endian, raw, l.data, Tag(a))
  BY <1>4, LineReadGood
<1> HIDE DEF l
<1>9. Seen[<<p, a>>][k] = TargetOrder(4, l.data)[k]
  <2>1. k \in 0..4 - 1
    OBVIOUS
  <2>2. TargetOrder(4, CacheGetDataFromEntry(l, 4, a))[k] = TargetOrder(4, l.data)[(a % 4) + k]
    BY <1>7, <2>1 DEF IsPart
  <2>3. QED
    BY <1>2, <1>5, <1>6, <2>2
<1>10. HoldsWord(endian, raw, l.data, Tag(a)) => TargetOrder(4, l.data)[k] = flat[a + k]
  BY <1>2 DEF HoldsWord, TargetOrder, MapperInv, MemoryIsFlat
<1>11. <<CacheFor(PortMode[p]), Tag(a + k)>> \in stale \/ (p = "data" /\ isolated)
  BY <1>2, <1>8, <1>9, <1>10
<1>12. QED
  BY <1>3, <1>11 DEF Wild

LEMMA ReliableGood == ASSUME MapperInv PROVE Flat!Reliable
<1>1. flat \in [Ram \cup Rom -> Byte]
  BY DEF MapperInv, TypeOK, MemoryIsFlat, Backed
<1>2. Wild \subseteq Ports \X (Ram \cup Rom)
  BY DEF Wild, Backed
<1>3. Flat!Misread \subseteq Wild
  <2> SUFFICES ASSUME NEW x \in Flat!Misread PROVE x \in Wild
    OBVIOUS
  <2> DEFINE Bad(p, a) == {p} \X {a + k : k \in {j \in 0..3 : Seen[<<p, a>>][j] # flat[a + j]}}
  <2>1. Flat!Misread = UNION {Bad(p, a) : p \in Ports, a \in Flat!WordAddress}
    BY DEF Flat!Misread, Seen, Ports
  <2>2. Flat!WordAddress = {a \in Backed : a % 4 = 0}
    BY DEF Flat!WordAddress, Backed
  <2> HIDE DEF Bad
  <2>3. PICK p \in Ports, a \in Flat!WordAddress : x \in Bad(p, a)
    BY <2>1
  <2>4. a \in Backed /\ a % 4 = 0
    BY <2>2
  <2>5. PICK k \in 0..3 : Seen[<<p, a>>][k] # flat[a + k] /\ x = <<p, a + k>>
    BY <2>3 DEF Bad
  <2>6. QED
    BY <2>4, <2>5, PortReads
<1>4. QED
  BY <1>1, <1>2, <1>3 DEF Flat!Reliable, Wild, Ports

LEMMA WildMember ==
    ASSUME swapped \in BOOLEAN, NEW p \in Ports, NEW b \in Backed
    PROVE  /\ <<p, b>> \in Wild <=> <<CacheFor(PortMode[p]), Tag(b)>> \in stale \/ (p = "data" /\ isolated)
           /\ UNCHANGED <<isolated, swapped>> =>
                (<<p, b>> \in Wild' <=> <<CacheFor(PortMode[p]), Tag(b)>> \in stale' \/ (p = "data" /\ isolated))
           /\ CacheFor(PortMode[p]) \in Caches
           /\ CacheFor(PortMode[p]) = DataCache <=> p = "data"
<1>1. CacheFor(PortMode[p]) \in Caches
  BY DEF CacheFor, Caches
<1>2. CacheFor(PortMode[p]) = DataCache <=> p = "data"
  <2>1. PortMode[p] = "INSTFETCH" <=> p # "data"
    BY DEF PortMode, Ports
  <2>2. CASE swapped
    BY <2>1, <2>2, Zenon DEF CacheFor, DataCache
  <2>3. CASE ~swapped
    BY <2>1, <2>3, Zenon DEF CacheFor, DataCache
  <2>4. QED
    BY <2>2, <2>3
<1>3. UNCHANGED <<isolated, swapped>> => \A m : CacheFor(m)' = CacheFor(m)
  BY DEF CacheFor
<1>4. <<p, b>> \in Wild <=> <<CacheFor(PortMode[p]), Tag(b)>> \in stale \/ (p = "data" /\ isolated)
  BY DEF Wild
<1>5. ASSUME UNCHANGED <<isolated, swapped>>
      PROVE  <<p, b>> \in Wild' <=> <<CacheFor(PortMode[p]), Tag(b)>> \in stale' \/ (p = "data" /\ isolated)
  <2>1. CacheFor(PortMode[p])' = CacheFor(PortMode[p]) /\ isolated' = isolated
    BY <1>5 DEF CacheFor
  <2>2. QED
    BY <2>1 DEF Wild
<1>6. QED
  BY <1>1, <1>2, <1>4, <1>5

LEMMA StoreImplements ==
    ASSUME MapperInv, NEW n \in {1, 2, 4}, NEW a \in Addr, a % n = 0,
           NEW v \in Values(n), NEW cacheable \in BOOLEAN, Store(a, n, v, cacheable)
    PROVE  Flat!Next
<1> DEFINE word == Flat!WordOf(a)
<1>1. CASE UNCHANGED flat
  BY <1>1 DEF Flat!Next, Flat!Maintain
<1>2. UNCHANGED <<isolated, swapped>> /\ swapped \in BOOLEAN
  BY StoreCases DEF MapperInv, TypeOK
<1>3. ASSUME FirstMatch[a].kind # "rom", a \in Backed
      PROVE  /\ a \in Ram /\ Flat!Chunk(a, n) \subseteq Ram
             /\ word = {b \in Backed : Tag(b) = Tag(a)}
             /\ \A b \in a..a + n - 1 : b \in Backed /\ Tag(b) = Tag(a)
  <2>1. a \in Nat /\ FirstMatch[a] # NoRange /\ FirstMatch[a].kind = "ram"
    BY <1>3, BackedMapped, MappedWords DEF WholeWords
  <2>2. \A b \in a..a + n - 1 : b \in Nat /\ Tag(b) = Tag(a)
    BY <2>1 DEF Tag
  <2>3. \A b \in a..a + n - 1 : b \in Backed /\ FirstMatch[b] = FirstMatch[a]
    BY <2>1, <2>2, BackedWords
  <2>4. \A b \in Backed : FirstMatch[b] = FirstMatch[a] => b \in Ram
    BY <2>1, BackedMapped DEF Ram, BytesOf
  <2>5. QED
    BY <1>3, <2>2, <2>3, <2>4 DEF Flat!Chunk, Flat!WordOf, Tag, Backed
<1>4. Flat!Changed = {b \in Backed : flat'[b] # flat[b]}
  BY DEF Flat!Changed, Backed
<1>5. ASSUME FirstMatch[a].kind # "rom", a \in Backed,
             stale' = (stale \ {<<DataCache, Tag(a)>>}) \cup ((Caches \ {DataCache}) \X {Tag(a)}),
             \A b \in Backed : flat'[b] # flat[b] =>
                b \in a..a + n - 1 \/ (Tag(b) = Tag(a) /\ <<DataCache, Tag(a)>> \in stale)
      PROVE  Flat!Store(a, n)
  <2>1. \A b \in Flat!Changed \ Flat!Chunk(a, n) : b \in word /\ <<"data", b>> \in Wild
    <3> SUFFICES ASSUME NEW b \in Backed, flat'[b] # flat[b], b \notin a..a + n - 1
                 PROVE  b \in word /\ <<"data", b>> \in Wild
      BY <1>4 DEF Flat!Chunk
    <3>1. Tag(b) = Tag(a) /\ <<DataCache, Tag(a)>> \in stale
      BY <1>5
    <3>2. QED
      BY <1>2, <1>3, <1>5, <3>1, WildMember DEF Ports
  <2>2. Wild' \subseteq Wild \cup ((Ports \ {"data"}) \X word)
    <3> SUFFICES ASSUME NEW p \in Ports, NEW b \in Backed, <<p, b>> \in Wild'
                 PROVE  <<p, b>> \in Wild \/ (p # "data" /\ b \in word)
      BY DEF Wild
    <3>1. <<CacheFor(PortMode[p]), Tag(b)>> \in stale' \/ (p = "data" /\ isolated)
      BY <1>2, WildMember
    <3>2. CASE <<CacheFor(PortMode[p]), Tag(b)>> \in stale \/ (p = "data" /\ isolated)
      BY <1>2, <3>2, WildMember
    <3>3. CASE CacheFor(PortMode[p]) # DataCache /\ Tag(b) = Tag(a)
      BY <1>2, <1>3, <1>5, <3>3, WildMember
    <3>4. QED
      BY <1>5, <3>1, <3>2, <3>3
  <2>3. QED
    BY <2>1, <2>2 DEF Flat!Store, Wild, Ports
<1>6. ASSUME FirstMatch[a].kind # "rom", a \in Backed,
             stale' = stale \cup (Caches \X {Tag(a)}),
             \A b \in Backed : flat'[b] # flat[b] => b \in a..a + n - 1
      PROVE  Flat!StoreAround(a, n)
  <2>1. Flat!Changed \subseteq Flat!Chunk(a, n)
    BY <1>4, <1>6 DEF Flat!Chunk
  <2>2. Wild' \subseteq Wild \cup (Ports \X word)
    <3> SUFFICES ASSUME NEW p \in Ports, NEW b \in Backed, <<p, b>> \in Wild'
                 PROVE  <<p, b>> \in Wild \/ b \in word
      BY DEF Wild
    <3>1. <<CacheFor(PortMode[p]), Tag(b)>> \in stale' \/ (p = "data" /\ isolated)
      BY <1>2, WildMember
    <3>2. CASE <<CacheFor(PortMode[p]), Tag(b)>> \in stale \/ (p = "data" /\ isolated)
      BY <1>2, <3>2, WildMember
    <3>3. CASE Tag(b) = Tag(a)
      BY <1>3, <1>6, <3>3
    <3>4. QED
      BY <1>6, <3>1, <3>2, <3>3
  <2>3. QED
    BY <2>1, <2>2 DEF Flat!StoreAround, Wild, Ports
<1>7. QED
  BY <1>1, <1>3, <1>5, <1>6, StoreCases DEF Flat!Next

LEMMA InitImplements == Init => Flat!Init
<1> SUFFICES ASSUME Init PROVE Flat!Init
  OBVIOUS
<1>1. flat \in [Ram \cup Rom -> Byte]
  BY InitGood DEF MapperInv, TypeOK, MemoryIsFlat, Backed
<1>2. Wild = {}
  BY DEF Init, Wild
<1>3. QED
  BY <1>1, <1>2 DEF Flat!Init, Wild, Ports

LEMMA NextImplements == ASSUME MapperInv, [Next]_vars PROVE [Flat!Next]_Flat!vars
<1>1. ASSUME NEW cacheable \in BOOLEAN, NEW p \in Aligned(4), NEW mode \in {"INSTFETCH", "DATALOAD"},
             Fetch(p, mode, cacheable)
      PROVE  UNCHANGED flat
  BY <1>1, FetchGood DEF Aligned
<1>2. ASSUME NEW cacheable \in BOOLEAN, NEW s \in StoreAt,
             Store(s[2], s[1], Number(s[3], s[1]), cacheable)
      PROVE  Flat!Next
  BY <1>2, NumberTyped, StoreImplements
<1>3. ASSUME NEW iso \in BOOLEAN, NEW swap \in BOOLEAN, CacheSetControlBits(iso, swap)
      PROVE  UNCHANGED flat
  BY <1>3, SetControlBitsGood
<1>4. UNCHANGED flat => Flat!Next
  BY DEF Flat!Next, Flat!Maintain
<1>5. CASE UNCHANGED vars
  BY <1>4, <1>5 DEF vars
<1>6. QED
  BY <1>1, <1>2, <1>3, <1>4, <1>5 DEF Next

(* A guest that reads and writes through mapper.cc sees one array of bytes: *)
(* each port, instruction fetch or data load, reads at every address the    *)
(* last bytes stored, whichever cache it uses and whether it hits, except   *)
(* in words that the guest stored around that port's cache, or into it      *)
(* while it was isolated, and has not invalidated since.                    *)
THEOREM Refinement == Spec => ImplementsFlatMemory
<1>1. Init => Flat!Init
  BY InitImplements
<1>2. MapperInv /\ [Next]_vars => [Flat!Next]_Flat!vars
  BY NextImplements
<1>3. MapperInv => Flat!Reliable
  BY ReliableGood
<1>4. QED
  BY <1>1, <1>2, <1>3, MapperInvariant, PTL DEF ImplementsFlatMemory, Spec, Flat!Spec
=============================================================================
