------------------------------- MODULE MCCPU --------------------------------
(* An instance of UserMode.  Physical memory: the refill handler at 0, the  *)
(* general handler at 32, the page table at 64, two pages of the program at *)
(* 80 and 96, its data at 112, the device at 128, the boot ROM at 160.      *)
EXTENDS UserMode, Sequences

Op(op) == [op |-> op, rs |-> "zero", rt |-> "zero", rd |-> "zero", imm |-> 0]
Imm(op, rd, rs, n) == [Op(op) EXCEPT !.rd = rd, !.rs = rs, !.rt = "imm", !.imm = n]
Three(op, rd, rs, rt) == [Op(op) EXCEPT !.rd = rd, !.rs = rs, !.rt = rt]
Read(op, rd, rs, n) == [Op(op) EXCEPT !.rd = rd, !.rs = rs, !.imm = n]
Write(op, rt, rs, n) == [Op(op) EXCEPT !.rt = rt, !.rs = rs, !.imm = n]
LoadW(rd, rs, n) == Read("lw", rd, rs, n)
StoreW(rt, rs, n) == Write("sw", rt, rs, n)
Branch(op, rs, rt, n) == [Op(op) EXCEPT !.rs = rs, !.rt = rt, !.imm = n]
Jump(op, target) == [Op(op) EXCEPT !.imm = target]
JumpReg(rs) == [Op("jr") EXCEPT !.rs = rs]
C0(op, rt, rd) == [Op(op) EXCEPT !.rt = rt, !.rd = rd]
Cop(c) == [Op("cop") EXCEPT !.imm = c]

At(from, code) == [a \in {from + 4 * (k - 1) : k \in 1..Len(code)} |-> {code[1 + (a - from) \div 4]}]

Merge(f, g) == [a \in DOMAIN f \cup DOMAIN g |-> IF a \in DOMAIN f THEN f[a] ELSE g[a]]

Refill == << C0("mfc0", "k1", "Context"), LoadW("k1", "k1", 0), C0("mtc0", "k1", "EntryLo"),
             C0("mfc0", "k1", "EPC"), Op("tlbwr"), JumpReg("k1"), Op("rfe") >>

General == << C0("mfc0", "k0", "EPC"), StoreW("zero", "zero", 2560 + 128), JumpReg("k0"), Op("rfe") >>

Boot == << Imm("addu", "k0", "zero", 2048), C0("mtc0", "k0", "EntryHi"),
           Imm("addu", "k1", "zero", 1), C0("mtc0", "k1", "Index"), Op("tlbwi"),
           Imm("addu", "k0", "zero", 2064), C0("mtc0", "k0", "EntryHi"),
           Imm("addu", "k1", "zero", 2), C0("mtc0", "k1", "Index"), Op("tlbwi"),
           Imm("addu", "k0", "zero", 3073), C0("mtc0", "k0", "EntryHi"), C0("mtc0", "k0", "Context"),
           Imm("addu", "k1", "zero", 64 + 7), C0("mtc0", "k1", "EntryLo"),
           C0("mtc0", "zero", "Index"), Op("tlbwi"), Op("tlbp"), Op("tlbr"), Op("tlbwi"),
           Imm("addu", "k0", "zero", 384), C0("mtc0", "k0", "Status"), [Cop(1) EXCEPT !.op = "cfc1", !.rd = "k0"],
           Imm("addu", "k1", "zero", 64), C0("mtc0", "k1", "Cause"),
           Imm("addu", "r2", "zero", 24), Imm("addu", "r3", "zero", 26),
           Three("div", "zero", "r3", "r2"), Three("divu", "zero", "r3", "r2"),
           Three("and", "k0", "r3", "r2"), Imm("or", "k0", "k0", 5), Three("xor", "k0", "k0", "r2"),
           Three("nor", "k0", "k0", "r3"), Imm("sll", "k0", "k0", 1), Imm("lui", "k1", "zero", 3),
           Read("lb", "k1", "zero", 2560 + 64), Read("lh", "k1", "zero", 2560 + 66),
           Read("lhu", "k1", "zero", 2560 + 66), Read("lwl", "k1", "zero", 2560 + 66),
           Read("lwr", "k1", "zero", 2560 + 63 + 4), Write("sh", "k0", "zero", 2560 + 134),
           Write("swl", "k0", "zero", 2560 + 133), Write("swr", "k0", "zero", 2560 + 134),
           Three("mult", "zero", "r3", "r2"),
           Imm("addu", "k0", "zero", 64 + 12), C0("mtc0", "k0", "Status"),
           C0("mtc0", "r3", "Index"), JumpReg("r2"), Op("rfe") >>

Toggle == Imm("sltu", "r1", "r1", 1)

(* The program, arbitrary within these sets, over a page boundary between   *)
(* a branch and its slot.                                                   *)
UserCode == [a \in {88, 92, 96, 100, 104} |->
    CASE a = 88 -> {Toggle, StoreW("r1", "zero", 48), StoreW("r1", "zero", 0), Write("sb", "r1", "zero", 50)}
      [] a = 92 -> {Branch("bne", "r1", "zero", -8),
                    Jump("jal", 24), Jump("j", 16)}
      [] a = 96 -> {Read("lbu", "r1", "zero", 50)}
      [] a = 100 -> {JumpReg("r2"), [JumpReg("r3") EXCEPT !.op = "jalr"]}
      [] a = 104 -> {Op("break"), Three("mult", "zero", "r3", "r2"), Imm("addu", "zero", "r2", 1)}]

Image == Merge(Merge(At(0, Refill), At(32, General)), Merge(At(160, Boot), UserCode))

(* Page table: page 0 is an empty page without its dirty flag.              *)
Words == [a \in {64, 68, 72, 76, 112, 128, 132} |->
             CASE a = 64 -> 144 + 2 [] a = 68 -> 80 + 6 [] a = 72 -> 96 + 6 [] a = 76 -> 112 + 6
               [] OTHER -> 0]

Pages == [v \in {0, 16, 32, 48} |-> CASE v = 0 -> 144 [] v = 16 -> 80 [] v = 32 -> 96 [] v = 48 -> 112]

Regs == {"zero", "r1", "r2", "r3", "ra", "k0", "k1", "hi", "lo"}
ProgramRegs == Regs \ {"k0", "k1"}
FirstRegs == [r \in ProgramRegs |-> CASE r = "r2" -> 24 [] r = "r3" -> 26 [] r = "lo" -> 624 [] OTHER -> 0]

Narrow(host) == INSTANCE Arithmetic WITH W <- 6, HostShift <- host
OneBitBytes(big) == INSTANCE LoadStore WITH W <- 4, BigEndian <- big

(* Sums, differences, products and shifts are exact at reset and therefore  *)
(* ever after: Exact of Arithmetic for every pair of words of six bits and  *)
(* either kind of host (add_emulate, sub_emulate, mult64, mult64s,           *)
(* div_emulate, srl, sra); loads and stores move the right bytes: MovesBytes *)
(* of LoadStore for words of four bits, whose bytes are the bits.            *)
ArithmeticExact ==
    pc = ResetPc =>
        /\ \A host \in {"arithmetic", "logical"} : Narrow(host)!Exact(0..2^6 - 1)
        /\ \A big \in BOOLEAN : OneBitBytes(big)!MovesBytes(0..2^4 - 1)
=============================================================================
