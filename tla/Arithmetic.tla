---------------------------- MODULE Arithmetic ------------------------------
(***************************************************************************)
(* The integer arithmetic of cpu.cc on words of W bits, in the form the    *)
(* code gives it: signs read off a wrapped sum, products built from halves *)
(* where the host has no 64-bit integers, logical shifts made of signed    *)
(* ones.  A word is a number below 2^W.                                    *)
(***************************************************************************)
EXTENDS Integers

CONSTANTS W,           \* bits of a word, even (32 in the code)
          HostShift    \* what >> does to a negative int on the host, which the
                       \* language leaves open: "arithmetic" or "logical"

ASSUME ArithmeticAssumption ==
    W \in Nat \ {0} /\ W % 2 = 0 /\ HostShift \in {"arithmetic", "logical"}

(* True of exponents that are numbers; stated because the proofs need it.   *)
ASSUME PowerAssumption ==
    \A j, k \in 0..W : 2^j \in Nat \ {0} /\ 2^(j + k) = 2^j * 2^k

Word == 0..2^W - 1

Wrap(n) == n % 2^W

Negative(a) == a >= 2^(W - 1)

Signed(a) == IF Negative(a) THEN a - 2^W ELSE a

-----------------------------------------------------------------------------
(* The host's a >> b on an int32, as a word. *)
ShiftRight(a, b) ==
    IF HostShift = "arithmetic" THEN Wrap(Signed(a) \div 2^b) ELSE a \div 2^b

Srl(a, b) == IF b = 0 THEN a ELSE ShiftRight(a, b) % 2^(W - b)

(* The or with the top b bits. *)
Sra(a, b) ==
    IF b = 0 \/ ~Negative(a) THEN ShiftRight(a, b)
                             ELSE (2^b - 1) * 2^(W - b) + (ShiftRight(a, b) % 2^(W - b))

(* Faulty variant: the sign of the sum is compared with one operand only.  *)
AddOverflowsOneSided(a, b) == Negative(a) # Negative(Wrap(a + b))

AddOverflows(a, b) ==
    LET sum == Wrap(a + b)
    IN  \/ Negative(a) /\ Negative(b) /\ ~Negative(sum)
        \/ ~Negative(a) /\ ~Negative(b) /\ Negative(sum)

SubOverflows(a, b) ==
    LET diff == Wrap(a - b)
    IN  \/ Negative(a) /\ ~Negative(b) /\ ~Negative(diff)
        \/ ~Negative(a) /\ Negative(b) /\ Negative(diff)

Slt(a, b) == IF Signed(a) < Signed(b) THEN 1 ELSE 0
Sltu(a, b) == IF a < b THEN 1 ELSE 0

(* hi and lo of a product of halves: wx times yz, digits to base P. *)
Mult64(n, m) ==
    LET P == 2^(W \div 2)
        w == n \div P   x == n % P   y == m \div P   z == m % P
        zw == z * w + ((z * x) \div P)
        yw == y * w + ((y * x) \div P)
        b == zw % P     a == (zw \div P) % P
        f == (y * x) % P
        e == yw % P     d == (yw \div P) % P
        h == (b + f) % P
        carry == (a + e) + ((b + f) \div P)
        i == (d + (carry \div P)) % P
    IN  <<i * P + (carry % P), h * P + ((z * x) % P)>>

Mult64s(n, m) ==
    LET Abs(a) == IF Negative(a) THEN Wrap(-a) ELSE a
        r == Mult64(Abs(n), Abs(m))
        hi == 2^W - 1 - r[1]
        lo == 2^W - 1 - r[2]
    IN  IF Negative(n) = Negative(m) THEN r
        ELSE <<IF Negative(lo) /\ ~Negative(Wrap(lo + 1)) THEN Wrap(hi + 1) ELSE hi, Wrap(lo + 1)>>

(* C's division, towards zero; hi takes the remainder, which has the sign   *)
(* of the dividend.                                                         *)
Divided(n, d) ==
    LET Abs(k) == IF k < 0 THEN -k ELSE k
        q == IF (n < 0) = (d < 0) THEN Abs(n) \div Abs(d) ELSE -(Abs(n) \div Abs(d))
    IN  <<Wrap(n - q * d), Wrap(q)>>

(* What the host's division leaves in hi and lo.  Division by zero, and of  *)
(* the least number by -1, are undefined: anything, if the host's trap does *)
(* not end the program.                                                     *)
Quotients(op, a, b) ==
    IF b = 0 \/ (op = "div" /\ a = 2^(W - 1) /\ b = 2^W - 1) THEN Word \X Word
    ELSE {IF op = "div" THEN Divided(Signed(a), Signed(b)) ELSE Divided(a, b)}

(* A word as the set of its bits, for the bitwise operations. *)
Bits(a) == {k \in 0..W - 1 : (a \div 2^k) % 2 = 1}
FromBits(ks) ==
    LET sum[n \in 0..W] == IF n = 0 THEN 0 ELSE sum[n - 1] + (IF n - 1 \in ks THEN 2^(n - 1) ELSE 0)
    IN  sum[W]

-----------------------------------------------------------------------------
(* What instructions compute.  An instruction is a record: op, the          *)
(* registers rs, rt and rd (rd is what is written, rt = "imm" takes the     *)
(* immediate instead), and imm, in bytes where it is an offset.  hi and lo  *)
(* are registers like the others: mfhi is an addu from hi.                  *)

Compute(op, a, b) ==
    CASE op \in {"add", "addu"} -> Wrap(a + b)
      [] op \in {"sub", "subu"} -> Wrap(a - b)
      [] op = "and" -> FromBits(Bits(a) \cap Bits(b))
      [] op = "or" -> FromBits(Bits(a) \cup Bits(b))
      [] op = "xor" -> FromBits((Bits(a) \cup Bits(b)) \ (Bits(a) \cap Bits(b)))
      [] op = "nor" -> 2^W - 1 - FromBits(Bits(a) \cup Bits(b))
      [] op = "lui" -> Wrap(b * 2^(W \div 2))
      [] op = "sll" -> Wrap(a * 2^(b % W))
      [] op = "slt" -> Slt(a, b)
      [] op = "sltu" -> Sltu(a, b)
      [] op = "srl" -> Srl(a, b % W)
      [] op = "sra" -> Sra(a, b % W)

Computations == {"add", "addu", "sub", "subu", "and", "or", "xor", "nor", "lui",
                 "slt", "sltu", "sll", "srl", "sra"}

Products == {"mult", "multu", "div", "divu"}

(* The pairs that hi and lo may become. *)
Product(op, a, b) == CASE op = "mult" -> {Mult64s(a, b)}
                       [] op = "multu" -> {Mult64(a, b)}
                       [] OTHER -> Quotients(op, a, b)

(* An unused register field must be zero; jr asks it of the register.       *)
Reserved(i, r) ==
    \/ i.op \in {"mult", "multu"} /\ i.rd # "zero"
    \/ i.op \in {"blez", "bgtz"} /\ i.rt # "zero"
    \/ i.op = "jr" /\ r[i.rd] # 0

Overflows(op, a, b) ==
    \/ op = "add" /\ AddOverflows(a, b)
    \/ op = "sub" /\ SubOverflows(a, b)

Operand(i, r) == IF i.rt = "imm" THEN Wrap(i.imm) ELSE r[i.rt]

Branches == {"beq", "bne", "blez", "bgtz", "bltz", "bgez", "bltzal", "bgezal",
             "bc0t", "bc0f"}
Jumps == {"j", "jal"}
RegisterJumps == {"jr", "jalr"}
Transfers == Branches \cup Jumps \cup RegisterJumps

Taken(op, a, b) ==
    CASE op = "beq" -> a = b
      [] op = "bne" -> a # b
      [] op = "blez" -> a = 0 \/ Negative(a)
      [] op = "bgtz" -> ~(a = 0 \/ Negative(a))
      [] op \in {"bltz", "bltzal"} -> Negative(a)
      [] op \in {"bgez", "bgezal"} -> ~Negative(a)
      [] op = "bc0f" -> FALSE
      [] OTHER -> TRUE    \* cpCond() too

(* A jump stays in the sixteenth of the address space of its delay slot.    *)
Target(i, a, pc) ==
    CASE i.op \in Branches -> Wrap(pc + 4 + i.imm)
      [] i.op \in Jumps -> Wrap(pc + 4) - (Wrap(pc + 4) % 2^(W - 4)) + i.imm
      [] i.op \in RegisterJumps -> a

(* A link is written whether or not the branch is taken.                    *)
Link(i) == IF i.op \in {"jal", "bltzal", "bgezal"} THEN {"ra"}
           ELSE IF i.op = "jalr" THEN {i.rd} ELSE {}

Linked(i, r, pc) == [x \in DOMAIN r |-> IF x \in Link(i) \ {"zero"} THEN Wrap(pc + 8) ELSE r[x]]

(* Register zero is forced to zero at the end of the step. *)
Assigned(r, x, v) == [r EXCEPT ![x] = IF x = "zero" THEN 0 ELSE v]

-----------------------------------------------------------------------------
(* Sums and differences raise an overflow exactly when the result does not  *)
(* fit, the halves give the whole product of any two words, signed or not,  *)
(* a division leaves quotient and remainder, with the dividend's sign,      *)
(* and the shifts are the mathematical ones whatever the host does to       *)
(* negative numbers (add_emulate, sub_emulate, mult64, mult64s, div_emulate, *)
(* divu_emulate, srl, sra).                                                 *)
Exact(words) ==
    /\ \A a, b \in words :
          /\ AddOverflows(a, b) <=> Signed(a) + Signed(b) \notin -(2^(W - 1))..2^(W - 1) - 1
          /\ SubOverflows(a, b) <=> Signed(a) - Signed(b) \notin -(2^(W - 1))..2^(W - 1) - 1
          /\ Mult64(a, b)[1] * 2^W + Mult64(a, b)[2] = a * b
          /\ LET p == Mult64s(a, b)
             IN  p[1] * 2^W + p[2] = (Signed(a) * Signed(b)) % 2^(2 * W)
          /\ b # 0 => \E p \in Quotients("div", a, b) :
                /\ (Signed(p[2]) * Signed(b) + Signed(p[1]) - Signed(a)) % 2^W = 0
                /\ Signed(p[1]) * Signed(p[1]) < Signed(b) * Signed(b)
                /\ Signed(p[1]) * Signed(a) >= 0
          /\ b # 0 => \A p \in Quotients("divu", a, b) : p[2] * b + p[1] = a /\ p[1] < b
    /\ \A a \in words, s \in 0..W - 1 :
          /\ Srl(a, s) = a \div 2^s
          /\ Signed(Sra(a, s)) = Signed(a) \div 2^s
=============================================================================
