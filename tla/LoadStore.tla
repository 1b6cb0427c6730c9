----------------------------- MODULE LoadStore ------------------------------
(***************************************************************************)
(* The loads and stores of cpu.cc: what an instruction makes of the word   *)
(* of memory it falls in and of its register.  A byte has a quarter of the *)
(* bits of a word, and stands in it as the target's byte order says.       *)
(***************************************************************************)
EXTENDS Arithmetic

CONSTANT BigEndian     \* opt_bigendian

ASSUME LoadStoreAssumption == W % 4 = 0 /\ BigEndian \in BOOLEAN

Loads == {"lb", "lbu", "lh", "lhu", "lw", "lwl", "lwr"}
Stores == {"sb", "sh", "sw", "swl", "swr"}
Unaligned == {"lwl", "lwr", "swl", "swr"}

(* Bytes that an access takes at an address that is a multiple of them. *)
Width(op) == CASE op \in {"lb", "lbu", "sb"} -> 1
               [] op \in {"lh", "lhu", "sh"} -> 2
               [] OTHER -> 4

Base(va) == va - (va % 4)

(* The address that is translated: lwl, lwr, swl and swr ask for the word. *)
Accessed(op, va) == IF op \in Unaligned THEN Base(va) ELSE va

Bytes(n) == 2^(n * (W \div 4))

(* Bytes between the part of n bytes at va and the right end of its word.   *)
Right(va, n) == IF BigEndian THEN 4 - n - (va % 4) ELSE va % 4

Part(word, va, n) == (word \div Bytes(Right(va, n))) % Bytes(n)

Replaced(word, va, n, v) == word + ((v % Bytes(n)) - Part(word, va, n)) * Bytes(Right(va, n))

SignExtended(v, n) == IF 2 * v < Bytes(n) THEN v ELSE Wrap(v - Bytes(n))

(* Bytes by which lwl and swl move to the left and to the right, and by     *)
(* which lwr and swr move to the right and to the left.                     *)
LeftShift(va) == IF BigEndian THEN va % 4 ELSE 3 - (va % 4)
RightShift(va) == 3 - LeftShift(va)

Upper(word, n) == word - (word % Bytes(4 - n))

(* Faulty variant: the little-endian case as the manual had it. *)
LwrBook(reg, word, va) ==
    LET k == IF BigEndian THEN 3 - (va % 4) ELSE (va + 1) % 4
    IN  Upper(reg, k) + (word \div Bytes(k))

Lwl(reg, word, va) == Wrap(word * Bytes(LeftShift(va))) + (reg % Bytes(LeftShift(va)))
Lwr(reg, word, va) == Upper(reg, RightShift(va)) + (word \div Bytes(RightShift(va)))
Swl(reg, word, va) == Upper(word, LeftShift(va)) + (reg \div Bytes(LeftShift(va)))
Swr(reg, word, va) == Wrap(reg * Bytes(RightShift(va))) + (word % Bytes(RightShift(va)))

(* The register after a load from va, and the word after a store to it. *)
Loaded(op, reg, word, va) ==
    CASE op \in {"lw", "lbu", "lhu"} -> Part(word, va, Width(op))
      [] op \in {"lb", "lh"} -> SignExtended(Part(word, va, Width(op)), Width(op))
      [] op = "lwl" -> Lwl(reg, word, va)
      [] op = "lwr" -> Lwr(reg, word, va)

Stored(op, reg, word, va) ==
    CASE op \in {"sw", "sb", "sh"} -> Replaced(word, va, Width(op), reg)
      [] op = "swl" -> Swl(reg, word, va)
      [] op = "swr" -> Swr(reg, word, va)

-----------------------------------------------------------------------------
(* Two neighbouring words as memory m, and the byte of it at address p.     *)
PutAt(m, op, reg, p) == [m EXCEPT ![Base(p)] = Stored(op, reg, m[Base(p)], p)]
GetAt(m, op, reg, p) == Loaded(op, reg, m[Base(p)], p)
ByteAt(m, p) == Part(m[Base(p)], p, 1)

(* The pair of instructions a compiler emits for an unaligned word at p.    *)
Leftmost(p) == IF BigEndian THEN p ELSE p + 3
Rightmost(p) == IF BigEndian THEN p + 3 ELSE p
UnalignedLoad(m, reg, p) == GetAt(m, "lwr", GetAt(m, "lwl", reg, Leftmost(p)), Rightmost(p))
UnalignedStore(m, reg, p) == PutAt(PutAt(m, "swl", reg, Leftmost(p)), "swr", reg, Rightmost(p))

(* The k-th byte, in the order of addresses, of a value of n bytes. *)
ByteOf(v, n, k) == (v \div Bytes(IF BigEndian THEN n - 1 - k ELSE k)) % Bytes(1)

(* Whatever the byte order and the offset, a load takes the n bytes from    *)
(* its address on, with their sign if it is lb or lh, a store writes them   *)
(* and no others, and so does a pair of unaligned accesses (lb_emulate to   *)
(* swr_emulate).                                                            *)
MovesBytes(words) ==
    \A m \in [{0, 4} -> words], reg \in words :
       LET wrote(f, n, p) == \A b \in 0..7 :
               ByteAt(f, b) = IF b \in p..p + n - 1 THEN ByteOf(reg, n, b - p) ELSE ByteAt(m, b)
           read(v, n, p) == \A k \in 0..n - 1 : ByteOf(v, n, k) = ByteAt(m, p + k)
       IN  /\ \A op \in {"sb", "sh", "sw"}, p \in 0..3 : p % Width(op) = 0 =>
                 wrote(PutAt(m, op, reg, p), Width(op), p)
           /\ \A op \in {"lb", "lbu", "lh", "lhu", "lw"}, p \in 0..3 : p % Width(op) = 0 =>
                 LET v == GetAt(m, op, reg, p)
                     n == Width(op)
                 IN  /\ read(v % Bytes(n), n, p)
                     /\ IF op \in {"lb", "lh"} THEN Signed(v) \in -(Bytes(n) \div 2)..(Bytes(n) \div 2) - 1
                                               ELSE v < Bytes(n)
           /\ \A p \in 0..3 : read(UnalignedLoad(m, reg, p), 4, p) /\ wrote(UnalignedStore(m, reg, p), 4, p)
=============================================================================
