------------------------------ MODULE CPZero --------------------------------
(***************************************************************************)
(* The system control coprocessor (cpzero.cc): the registers, the TLB, the *)
(* translation of addresses, the stack of modes and interrupt enables.     *)
(*                                                                         *)
(* Addresses have W bits and the four segments of the 32-bit space in the  *)
(* same proportion.  The flags of EntryLo and the address space identifier *)
(* of EntryHi lie below the page number, as in the code; the other         *)
(* registers keep the order of their fields and drop the gaps.             *)
(***************************************************************************)
EXTENDS Arithmetic

CONSTANTS PageSize,    \* bytes in a page (2^12), at least 16
          TlbEntries,  \* entries of the TLB (64)
          RandomLower, RandomUpper    \* bounds of Random (8, 63)

ASSUME CPZeroAssumption ==
    /\ W >= 12 /\ \E k \in 4..W - 3 : PageSize = 2^k
    /\ TlbEntries \in 1..2^(W - 1)
    /\ RandomLower \in Nat /\ RandomUpper \in RandomLower..TlbEntries - 1

VARIABLES status,      \* Status: bits 0-5 the mode stack, 6 IM, 7 BEV, 8 CU1
          cause,       \* Cause: code, software interrupt, coprocessor, delay slot
          epc, badvaddr, context, entryhi, entrylo, index, random,
          tlb,         \* entries: <<entryHi, entryLo>>
          irq          \* the interrupt controller's line (external)

excVars == <<status, cause, epc>>
faultVars == <<badvaddr, context, entryhi>>
tlbVars == <<entrylo, index, tlb>>

Bit(v, k) == (v \div 2^k) % 2 = 1
Flag(b, k) == IF b THEN 2^k ELSE 0

KUc == 1    IEc == 0    IM == 6    BEV == 7    CU1 == 8

KernelMode == ~Bit(status, KUc)

-----------------------------------------------------------------------------
(* Segments *)

Kseg0 == 2^(W - 1)
Kseg1 == Kseg0 + 2^(W - 3)
Kseg2 == Kseg1 + 2^(W - 3)

Vpn(v) == v - (v % PageSize)
Asid(hi) == hi % PageSize

(* Flags of EntryLo *)
Global == 0    Valid == 1    Dirty == 2

Matches(e, va, asid) == Vpn(e[1]) = Vpn(va) /\ (Bit(e[2], Global) \/ Asid(e[1]) = asid)

(* find_matching_tlb_entry: the first that matches *)
Matching(va) == {x \in 0..TlbEntries - 1 : Matches(tlb[x], va, Asid(entryhi))}
FirstMatching(va) == CHOOSE x \in Matching(va) : \A y \in Matching(va) : x <= y

NoFault(pa) == [exc |-> "none", phys |-> pa, userMiss |-> FALSE]
Fault(code, miss) == [exc |-> code, phys |-> -1, userMiss |-> miss]

TlbTranslate(kuseg, va, mode) ==
    IF Matching(va) # {} /\ Bit(tlb[FirstMatching(va)][2], Valid)
    THEN LET lo == tlb[FirstMatching(va)][2]
         IN  IF mode = "DATASTORE" /\ ~Bit(lo, Dirty) THEN Fault("Mod", FALSE)
             ELSE NoFault(Vpn(lo) + (va % PageSize))
    ELSE Fault(IF mode = "DATASTORE" THEN "TLBS" ELSE "TLBL", kuseg /\ Matching(va) = {})

AddressTrans(va, mode) ==
    IF va < Kseg0 THEN TlbTranslate(TRUE, va, mode)
    ELSE IF ~KernelMode THEN Fault(IF mode = "DATASTORE" THEN "AdES" ELSE "AdEL", FALSE)
    ELSE IF va < Kseg1 THEN NoFault(va - Kseg0)
    ELSE IF va < Kseg2 THEN NoFault(va - Kseg1)
    ELSE TlbTranslate(FALSE, va, mode)

(* The page table's offset of the address in Context *)
BadVpn(va) == 4 * ((va % Kseg0) \div PageSize)
PteBase(c) == c - (c % (4 * (Kseg0 \div PageSize)))

(* Faulty variant: EntryHi is left to the handler.                          *)
LoadAddrTransExcpInfoOnly(va) ==
    /\ badvaddr' = va
    /\ context' = PteBase(context) + BadVpn(va)
    /\ UNCHANGED entryhi

LoadAddrTransExcpInfo(va) ==
    /\ badvaddr' = va
    /\ context' = PteBase(context) + BadVpn(va)
    /\ entryhi' = Vpn(va) + Asid(entryhi)

-----------------------------------------------------------------------------
(* Exceptions and interrupts *)

ExcCode == [Int |-> 0, Mod |-> 1, TLBL |-> 2, TLBS |-> 3, AdEL |-> 4, AdES |-> 5,
            IBE |-> 6, DBE |-> 7, Sys |-> 8, Bp |-> 9, RI |-> 10, CpU |-> 11, Ov |-> 12]

(* Cause: bits 2-5 ExcCode, 6 software interrupt, 7 the line, 8-9 CE, 10 BD *)
SW == 6    IP == 7    BD == 10

InterruptPending == Bit(status, IEc) /\ Bit(status, IM) /\ (irq \/ Bit(cause, SW))

(* Faulty variant: the current mode is saved and also kept.                *)
PushModeKeeping(s) == 64 * (s \div 64) + ((4 * s) % 64) + (s % 4)

PushMode(s) == 64 * (s \div 64) + ((4 * s) % 64)

PopMode(s) == 16 * (s \div 16) + ((s \div 4) % 16)

(* The pending interrupts are cleared before getIP() reads them, so the      *)
(* software interrupt is lost here; the line is read afresh elsewhere.       *)
EnterException(pc, code, ce, dly) ==
    /\ epc' = pc
    /\ status' = PushMode(status)
    /\ cause' = 4 * ExcCode[code] + (IF code = "CpU" THEN 256 * ce ELSE 0) + Flag(dly, BD)

-----------------------------------------------------------------------------
(* Instructions of the coprocessor *)

C0Registers == {"Status", "Cause", "EPC", "BadVAddr", "Context", "EntryHi", "EntryLo",
                "Index", "Random"}

ReadReg(r) ==
    CASE r = "Status" -> status
      [] r = "Cause" -> cause + Flag(irq, IP)
      [] r = "EPC" -> epc
      [] r = "BadVAddr" -> badvaddr
      [] r = "Context" -> context
      [] r = "EntryHi" -> entryhi
      [] r = "EntryLo" -> entrylo
      [] r = "Index" -> index
      [] r = "Random" -> random'    \* stepped before the instruction

CauseField(v) == (v % 2^(BD + 1)) - (v % 4) - Flag(Bit(v, IP), IP)

(* EPC, BadVAddr, Random and the external interrupts are read-only. *)
WriteReg(r, v) ==
    /\ status' = IF r = "Status" THEN v % 2^(CU1 + 1) ELSE status
    /\ cause' = IF r = "Cause" THEN CauseField(v) ELSE cause
    /\ context' = IF r = "Context" THEN PteBase(v) + (context - PteBase(context)) ELSE context
    /\ entryhi' = IF r = "EntryHi" THEN v ELSE entryhi
    /\ entrylo' = IF r = "EntryLo" THEN v ELSE entrylo
    /\ index' = IF r = "Index" THEN v ELSE index
    /\ UNCHANGED <<epc, badvaddr, tlb>>

(* The probe's failure bit and the number of an entry in Index *)
ProbeFailure == 2^(W - 1)

TlbWrite(x) ==
    /\ tlb' = [tlb EXCEPT ![x] = <<entryhi, entrylo>>]
    /\ UNCHANGED <<excVars, faultVars, entrylo, index>>

Tlbwi == TlbWrite(index % TlbEntries)
Tlbwr == TlbWrite(random')

Tlbr ==
    /\ entryhi' = tlb[index % TlbEntries][1]
    /\ entrylo' = tlb[index % TlbEntries][2]
    /\ UNCHANGED <<excVars, badvaddr, context, index, tlb>>

Tlbp ==
    /\ index' = IF Matching(entryhi) = {} THEN ProbeFailure ELSE FirstMatching(entryhi)
    /\ UNCHANGED <<excVars, faultVars, entrylo, tlb>>

Rfe ==
    /\ status' = PopMode(status)
    /\ UNCHANGED <<cause, epc, faultVars, tlbVars>>

(* Faulty variant: one step too far, as if the bounds were exclusive.       *)
AdjustRandomTooFar == IF random = 0 THEN RandomUpper ELSE random - 1

AdjustRandom ==
    RandomUpper - ((RandomUpper - random + 1) % (RandomUpper - RandomLower + 1))

Reset ==
    /\ status = 2^BEV
    /\ cause = 0
    /\ random = RandomUpper
=============================================================================
