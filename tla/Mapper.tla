------------------------------ MODULE Mapper --------------------------------
(***************************************************************************)
(* The physical memory of vmips: the list of mapped ranges (range.cc), the *)
(* mapper and its two caches (mapper.cc) and the byte lanes of             *)
(* memory-mapped devices (devicemap.cc).                                   *)
(*                                                                         *)
(* A value of n bytes is a function from its lanes 0..n-1, lane 0 the      *)
(* least significant.  An access that is not aligned raises an address     *)
(* error before it touches any state, so accesses are aligned here.        *)
(***************************************************************************)
EXTENDS Integers, Sequences

CONSTANTS AddrBits,    \* width of a physical address (32 in the code)
          Byte,        \* values of a byte
          Entries,     \* entries of a cache (2^14 in the code)
          Layout,      \* ranges in the order of their map_at_physical_address
          RomWord,     \* what the ROM holds, in the order of its addresses
          Endian,      \* possible byte orders of host and target
          StoreAt,     \* bound: size, address and value of the guest's stores
          NoRange

ASSUME MapperAssumption ==
    /\ AddrBits \in Nat /\ 2^AddrBits \in Nat /\ 2^AddrBits % 4 = 0 /\ Entries \in Nat \ {0}
    /\ Layout \in Seq([kind : {"ram", "rom"}, base : 0..2^AddrBits - 1, extent : Nat])
    /\ \A k \in DOMAIN Layout : Layout[k].base % 4 = 0 /\ Layout[k].extent % 4 = 0
    /\ NoRange \notin [kind : {"ram", "rom"}, base : Nat, extent : Nat]
    /\ Endian \subseteq [hostBig : BOOLEAN, bigendian : BOOLEAN]
    /\ 0 \in Byte /\ RomWord \in [0..3 -> Byte]
    /\ \A s \in StoreAt : /\ s[1] \in {1, 2, 4} /\ s[2] \in 0..2^AddrBits - 1
                          /\ s[2] % s[1] = 0 /\ s[3] \in Byte

VARIABLES endian,      \* host_bigendian and opt_bigendian
          raw,         \* host memory behind the RAM and ROM ranges
          cache,       \* icache and dcache: their entries
          isolated,    \* caches_isolated
          swapped,     \* caches_swapped
          last_used,   \* last_used_mapping
          berr,        \* last_berr_info.valid
          stale,       \* history: <<cache, word>> whose line the guest made
                       \* unreliable and has not invalidated since
          flat         \* history: the bytes as the guest's stores put them

vars == <<endian, raw, cache, isolated, swapped, last_used, berr, stale, flat>>

Addr == 0..2^AddrBits - 1
Index == 0..Entries - 1
Caches == {"icache", "dcache"}

-----------------------------------------------------------------------------
(* Ranges: uint32 arithmetic wraps at the top of the address space. *)

End(r) == (r.base + r.extent) % 2^AddrBits

Incorporates(r, p) == p >= r.base /\ p < End(r)

(* Faulty variant: only ranges that start below the new one are compared. *)
OverlapsBelow(r, s) == s.base <= r.base /\ End(s) > r.base

Overlaps(r, s) ==
    \/ r.base <= s.base /\ End(r) > s.base
    \/ s.base <= r.base /\ End(s) > r.base
    \/ r.base >= s.base /\ End(r) <= End(s)
    \/ s.base >= r.base /\ End(s) <= End(r)

(* A range that overlaps is reported and left out; set-up goes on. *)
AddRange(rs, r) ==
    IF \E i \in DOMAIN rs : Overlaps(r, rs[i]) THEN rs ELSE Append(rs, r)

(* The list after the first n calls.                                        *)
Mapped[n \in 0..Len(Layout)] == IF n = 0 THEN <<>> ELSE AddRange(Mapped[n - 1], Layout[n])

Ranges == Mapped[Len(Layout)]

FirstMatch ==
    [p \in Addr |-> LET hits == {i \in DOMAIN Ranges : Incorporates(Ranges[i], p)}
                    IN  IF hits = {} THEN NoRange
                        ELSE Ranges[CHOOSE i \in hits : \A j \in hits : i <= j]]

FindMappingRange(p) ==
    IF last_used # NoRange /\ Incorporates(last_used, p) THEN last_used ELSE FirstMatch[p]

Remember(r) == last_used' = IF r = NoRange THEN last_used ELSE r

BytesOf(kind) == {p \in Addr : FirstMatch[p] # NoRange /\ FirstMatch[p].kind = kind}
Ram == BytesOf("ram")
Rom == BytesOf("rom")
Backed == Ram \cup Rom

-----------------------------------------------------------------------------
(* Byte order *)

Rev(n, v) == [l \in 0..n - 1 |-> v[n - 1 - l]]
Slice(f, from, n) == [l \in 0..n - 1 |-> f[from + l]]

(* The lanes of a native value in the order of its host addresses, and back. *)
HostOrder(n, v) == IF endian.hostBig THEN Rev(n, v) ELSE v

(* The same for the target. *)
TargetOrder(n, v) == IF endian.bigendian THEN Rev(n, v) ELSE v

byteswapped == endian.hostBig # endian.bigendian

HostToMips(n, v) == IF byteswapped THEN Rev(n, v) ELSE v
MipsToHost(n, v) == HostToMips(n, v)

(* Range::fetch_word, fetch_halfword, fetch_byte *)
RangeFetch(r, a, n) == LET o == a - r.base
                       IN  HostOrder(n, Slice(raw, r.base + (o - (o % n)), n))

(* Range::store_word, store_halfword, store_byte *)
RangeStore(r, a, n, v) ==
    LET o == a - r.base
        from == r.base + (o - (o % n))
    IN  [b \in DOMAIN raw |-> IF b \in from..from + n - 1 THEN HostOrder(n, v)[b - from]
                                                          ELSE raw[b]]

-----------------------------------------------------------------------------
(* Caches: direct-mapped, physically tagged, lines of one word *)

Line == [valid : BOOLEAN, tag : {a \div 4 : a \in Backed}, data : [0..3 -> Byte]]

(* Bound: the data of a line that was never filled, which the code leaves   *)
(* uninitialized, is zero; only loads from isolated caches can see it.      *)
EmptyLine(tag) == [valid |-> FALSE, tag |-> tag, data |-> [l \in 0..3 |-> 0]]

Tag(a) == a \div 4

CacheFor(mode) == IF (mode = "INSTFETCH") = swapped THEN "dcache" ELSE "icache"

Entry(c, a) == cache[c][Tag(a) % Entries]

CacheUseEntry(e, a, mode) ==
    (isolated /\ mode # "INSTFETCH") \/ (e.valid /\ e.tag = Tag(a))

(* Which n-byte part of the host's image of the line address a is. *)
Part(a, n) == LET k == (a % 4) \div n IN IF byteswapped THEN 4 \div n - 1 - k ELSE k

CacheGetDataFromEntry(e, n, a) == HostOrder(n, Slice(HostOrder(4, e.data), n * Part(a, n), n))

(* Faulty variant: a store numbers the parts in the host's order. *)
SetUnswapped(e, n, a, v) ==
    HostOrder(4, [k \in 0..3 |-> IF k \div n = (a % 4) \div n THEN HostOrder(n, v)[k % n]
                                                         ELSE HostOrder(4, e.data)[k]])

CacheSetDataIntoEntry(e, n, a, v) ==
    HostOrder(4, [k \in 0..3 |-> IF k \div n = Part(a, n) THEN HostOrder(n, v)[k % n]
                                                       ELSE HostOrder(4, e.data)[k]])

(* cache_do_fill: the entry as it is refilled *)
Filled(e, r, a, mode) ==
    [valid |-> TRUE, tag |-> Tag(a),
     data |-> IF ~isolated \/ mode = "INSTFETCH"
                THEN HostToMips(4, RangeFetch(r, a, 4)) ELSE e.data]

SetEntry(c, a, e) == cache' = [cache EXCEPT ![c][Tag(a) % Entries] = e]

SameIndex(a) == {Tag(b) : b \in {x \in Backed : Tag(x) % Entries = Tag(a) % Entries}}
-----------------------------------------------------------------------------
(* Parts of the word register of a device (DeviceMap): word is the register *)
(* in the target's order; the device swaps it on its own side (testdev.cc). *)

(* Faulty variant: the lanes of a little-endian target, whatever it is. *)
DeviceLaneLittle(o, n) == o % 4

DeviceLane(o, n) == LET k == (o % 4) \div n
                    IN  4 - n * (1 + IF endian.bigendian THEN k ELSE 4 \div n - 1 - k)

DeviceFetch(word, o, n) == MipsToHost(n, Slice(HostToMips(4, MipsToHost(4, word)), DeviceLane(o, n), n))

DeviceStore(o, n, data, zero) ==
    LET w == [l \in 0..3 |-> IF l \in DeviceLane(o, n)..DeviceLane(o, n) + n - 1
                               THEN HostToMips(n, data)[l - DeviceLane(o, n)] ELSE zero]
    IN  HostToMips(4, MipsToHost(4, w))

(* The target's word among the memory bytes f at byte p. *)
WordAt(f, p) == TargetOrder(4, Slice(f, p - (p % 4), 4))

-----------------------------------------------------------------------------
(* Accesses *)

BusError == berr' = TRUE

(* fetch_word, fetch_halfword, fetch_byte: a hit changes nothing, and a miss *)
(* refills the whole word whatever the width.                               *)
Fetch(a, mode, cacheable) ==
    LET c == CacheFor(mode)
        r == FindMappingRange(a)
    IN  /\ ~(cacheable /\ CacheUseEntry(Entry(c, a), a, mode))
        /\ Remember(r)
        /\ IF r = NoRange THEN BusError ELSE UNCHANGED berr
        /\ IF r # NoRange /\ cacheable
             THEN SetEntry(c, a, Filled(Entry(c, a), r, a, mode))
             ELSE UNCHANGED cache
        /\ UNCHANGED <<endian, raw, isolated, swapped, stale, flat>>

(* The value that such a fetch returns. *)
FetchValue(a, n, mode, cacheable) ==
    LET e == Entry(CacheFor(mode), a)
        r == FindMappingRange(a)
    IN  IF cacheable /\ CacheUseEntry(e, a, mode) THEN CacheGetDataFromEntry(e, n, a)
        ELSE IF cacheable THEN CacheGetDataFromEntry(Filled(e, r, a, mode), n, a)
        ELSE HostToMips(n, RangeFetch(r, a, n))

(* Faulty variant: a partial store does not invalidate the line.            *)
StoreIsolatedKeeping(c, a, n, v) ==
    /\ IF n = 4
         THEN /\ SetEntry(c, a, [Entry(c, a) EXCEPT !.data = v])
              /\ stale' = stale \cup ({c} \X SameIndex(a))
         ELSE /\ UNCHANGED cache
              /\ stale' = stale \ ({c} \X SameIndex(a))
    /\ UNCHANGED <<raw, flat>>

(* While the data cache is isolated a word goes into the line, whatever its *)
(* tag, and a partial store invalidates the line (Cache::cache_write).      *)
StoreIsolated(c, a, n, v) ==
    /\ IF n = 4
         THEN /\ SetEntry(c, a, [Entry(c, a) EXCEPT !.data = v])
              /\ stale' = stale \cup ({c} \X SameIndex(a))
         ELSE /\ SetEntry(c, a, [Entry(c, a) EXCEPT !.valid = FALSE])
              /\ stale' = stale \ ({c} \X SameIndex(a))
    /\ UNCHANGED <<raw, flat>>

(* What a store of v means to the guest: its bytes, and after a partial     *)
(* store to a line that was stale whatever the line held.                   *)
Expect(c, a, n, v) ==
    flat' = [b \in Backed |->
               IF b \in a..a + n - 1 THEN TargetOrder(n, v)[b - a]
               ELSE IF Tag(b) = Tag(a) /\ <<c, Tag(a)>> \in stale THEN raw'[b] ELSE flat[b]]

(* A partial store first fills the line unless it hits; then the whole      *)
(* line is written back.                                                    *)
StoreThrough(c, r, a, n, v) ==
    LET old == IF n # 4 /\ ~CacheUseEntry(Entry(c, a), a, "DATASTORE")
                 THEN Filled(Entry(c, a), r, a, "DATASTORE") ELSE Entry(c, a)
        e == [valid |-> TRUE, tag |-> Tag(a), data |-> CacheSetDataIntoEntry(old, n, a, v)]
    IN  /\ SetEntry(c, a, e)
        /\ raw' = RangeStore(r, a, 4, MipsToHost(4, e.data))
        /\ stale' = (stale \ {<<c, Tag(a)>>}) \cup ((Caches \ {c}) \X {Tag(a)})
        /\ Expect(c, a, n, v)

CacheWrite(r, a, n, v) ==
    LET c == IF swapped THEN "icache" ELSE "dcache"
    IN  IF isolated THEN StoreIsolated(c, a, n, v) ELSE StoreThrough(c, r, a, n, v)

(* Faulty variant: the ROM can be written. *)
DiscardedUnmapped(r, cacheable) == r = NoRange \/ (isolated /\ ~cacheable)

(* Stores that go nowhere: nothing is mapped, the range is not writable, or *)
(* the caches are isolated.                                                 *)
Discarded(r, cacheable) == r = NoRange \/ r.kind = "rom" \/ (isolated /\ ~cacheable)

(* store_word, store_halfword, store_byte *)
Store(a, n, v, cacheable) ==
    LET r == FindMappingRange(a)
    IN  /\ Remember(r)
        /\ IF r = NoRange THEN BusError ELSE UNCHANGED berr
        /\ IF Discarded(r, cacheable)
             THEN UNCHANGED <<raw, cache, stale, flat>>
             ELSE IF cacheable
             THEN CacheWrite(r, a, n, v)
             ELSE /\ raw' = RangeStore(r, a, n, MipsToHost(n, v))
                  /\ stale' = stale \cup (Caches \X {Tag(a)})
                  /\ Expect("none", a, n, v)
                  /\ UNCHANGED cache
        /\ UNCHANGED <<endian, isolated, swapped>>

CacheSetControlBits(iso, swap) ==
    /\ isolated' = iso
    /\ swapped' = swap
    /\ UNCHANGED <<endian, raw, cache, last_used, berr, stale, flat>>

Init ==
    /\ endian \in Endian
    /\ raw = [p \in Backed |-> IF p \in Rom THEN RomWord[p % 4] ELSE 0]
    /\ \E p \in Ram : cache = [c \in Caches |-> [i \in Index |-> EmptyLine(Tag(p))]]
    /\ isolated = FALSE /\ swapped = FALSE
    /\ last_used = NoRange
    /\ berr = FALSE
    /\ stale = {}
    /\ flat = raw

(* Bound: what is stored is a number below 256. *)
Number(d, n) == [l \in 0..n - 1 |-> IF l = 0 THEN d ELSE 0]

Aligned(n) == {p \in Addr : p % n = 0}

Next ==
    \/ \E cacheable \in BOOLEAN :
          \/ \E p \in Aligned(4), mode \in {"INSTFETCH", "DATALOAD"} : Fetch(p, mode, cacheable)
          \/ \E s \in StoreAt : Store(s[2], s[1], Number(s[3], s[1]), cacheable)
    \/ \E iso, swap \in BOOLEAN : CacheSetControlBits(iso, swap)

Spec == Init /\ [][Next]_vars

-----------------------------------------------------------------------------
(* Types.                                                                   *)
TypeOK ==
    /\ endian \in Endian
    /\ raw \in [Backed -> Byte] /\ \A p \in Rom : raw[p] = RomWord[p % 4]
    /\ cache \in [Caches -> [Index -> Line]]
    /\ isolated \in BOOLEAN /\ swapped \in BOOLEAN
    /\ last_used = NoRange \/ \E i \in DOMAIN Ranges : last_used = Ranges[i]
    /\ berr \in BOOLEAN
    /\ stale \subseteq Caches \X {Tag(p) : p \in Backed}

(* A valid line holds the word that memory holds, in either cache, unless   *)
(* the guest stored around that cache or wrote into it while it was         *)
(* isolated, and has not invalidated the line since (cache_write,           *)
(* cache_do_fill).  Reliable or not, a wide load returns what loads of its  *)
(* bytes return (cache_get_data_from_entry).                                *)
Coherent ==
    /\ \A c \in Caches, i \in Index :
          LET e == cache[c][i]
          IN  e.valid /\ <<c, e.tag>> \notin stale =>
                 /\ e.tag % Entries = i
                 /\ TargetOrder(4, e.data) = [k \in 0..3 |-> raw[4 * e.tag + k]]
    /\ \A n \in {2, 4}, p \in Backed, cacheable \in BOOLEAN : p % n = 0 =>
          TargetOrder(n, FetchValue(p, n, "DATALOAD", cacheable)) =
             [k \in 0..n - 1 |-> FetchValue(p + k, 1, "DATALOAD", cacheable)[0]]

(* No address belongs to two ranges, and those that are mapped are of whole *)
(* words.                                                                   *)
WholeWords ==
    \A p \in Addr :
        /\ \A i \in DOMAIN Ranges : Incorporates(Ranges[i], p) => FirstMatch[p] = Ranges[i]
        /\ FirstMatch[p] # NoRange =>
              /\ FirstMatch[p].kind \in {"ram", "rom"}
              /\ FirstMatch[p].base \in 0..p /\ FirstMatch[p].base % 4 = 0
              /\ \E i \in DOMAIN Ranges : FirstMatch[p] = Ranges[i]
              /\ \A b \in 4 * (p \div 4)..4 * (p \div 4) + 3 : b \in Addr /\ FirstMatch[b] = FirstMatch[p]

(* No address belongs to two ranges, so what find_mapping_range finds does  *)
(* not depend on what it found last; only a range that wraps at the top of  *)
(* the address space cannot be found (Range::overlaps, incorporates).       *)
FindAgrees ==
    /\ WholeWords
    /\ \A p \in Addr :
        /\ FindMappingRange(p) = FirstMatch[p]
        /\ \A i \in DOMAIN Ranges :
              LET r == Ranges[i]
              IN  r.base + r.extent < 2^AddrBits /\ p \in r.base..r.base + r.extent - 1
                    => FindMappingRange(p) = r

(* Whatever the byte order of host and target, a halfword or a byte of a    *)
(* device register is the part of the word at its address (devicemap.cc).   *)
(* The byte orders are fixed at set-up, so it is enough to ask before the   *)
(* first access to memory.                                                  *)
LanesExact ==
    last_used = NoRange =>
    LET f == [b \in 0..3 |-> b]
    IN  \A n \in {1, 2}, o \in 0..3 : o % n = 0 =>
            LET v == [l \in 0..n - 1 |-> 10 + l]
                w == TargetOrder(4, DeviceStore(o, n, MipsToHost(n, v), 0))
            IN  /\ TargetOrder(n, HostToMips(n, DeviceFetch(WordAt(f, 0), o, n))) = Slice(f, o, n)
                /\ w = [k \in 0..3 |-> IF k \in o..o + n - 1 THEN TargetOrder(n, v)[k - o] ELSE 0]

(* Every store put its value in memory in the target's byte order, whatever *)
(* its width and whether it went through a cache, and nothing else changed  *)
(* memory: not a refill, not a store while the caches were isolated         *)
(* (Range::store_*, cache_set_data_into_entry).                             *)
MemoryIsFlat == raw = flat

(* The mapper and its caches are a flat memory to a guest that keeps to the *)
(* rules of its caches (mapper.cc).                                         *)
PortMode == [fetch |-> "INSTFETCH", data |-> "DATALOAD"]

Flat == INSTANCE FlatMemory WITH
    Port <- {"fetch", "data"},
    bytes <- flat,
    seen <- [pa \in {"fetch", "data"} \X Backed |->
               TargetOrder(4, FetchValue(pa[2], 4, PortMode[pa[1]], TRUE))],
    wild <- {pa \in {"fetch", "data"} \X Backed :
               \/ <<CacheFor(PortMode[pa[1]]), Tag(pa[2])>> \in stale
               \/ pa[1] = "data" /\ isolated}

ImplementsFlatMemory == Flat!Spec
=============================================================================
