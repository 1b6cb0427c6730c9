----------------------------- MODULE CPUProofs ------------------------------
(***************************************************************************)
(* Proofs about the processor of CPU, whatever program it runs, and about  *)
(* the program in user mode that UserMode sees in it.                      *)
(***************************************************************************)
EXTENDS UserMode, ArithmeticProofs

(* A step ends in an exception, in a taken branch or in neither.            *)
Flow ==
    \/ delay_state' = "NORMAL" /\ UNCHANGED undefined
    \/ \E target : ControlTransfer(target)

LEMMA ExceptionFlow ==
    ASSUME NEW code, NEW c, NEW miss, Exception(code, c, miss)
    PROVE  Flow
BY DEF Exception, Flow

LEMMA RaiseFlow ==
    ASSUME NEW code, NEW c, Raise(code, c)
    PROVE  Flow /\ UNCHANGED tlb
<1>1. Exception(code, c, FALSE) /\ UNCHANGED tlb
  BY DEF Raise, tlbVars
<1> QED  BY <1>1, ExceptionFlow

LEMMA TranslationFaultFlow ==
    ASSUME NEW t, NEW va, TranslationFault(t, va)
    PROVE  Flow /\ UNCHANGED tlb
<1>1. Exception(t.exc, 0, t.userMiss) /\ UNCHANGED tlb
  BY DEF TranslationFault, tlbVars
<1> QED  BY <1>1, ExceptionFlow

LEMMA ProceedFlow == Proceed => Flow
BY DEF Proceed, Flow

(* What an instruction may do to the TLB.                                   *)
TlbStep ==
    \/ UNCHANGED tlb
    \/ \E v : tlb' = [tlb EXCEPT ![index % TlbEntries] = v]
    \/ \E v : tlb' = [tlb EXCEPT ![random'] = v]

LEMMA EmulateEffect ==
    ASSUME NEW i, Emulate(i)
    PROVE  Flow /\ TlbStep
<1>1. CASE Calculate(i)
  <2>1. Raise("Ov", 0) \/ (Proceed /\ UNCHANGED c0Vars)
    BY <1>1 DEF Calculate
  <2> QED  BY <2>1, RaiseFlow, ProceedFlow DEF TlbStep, c0Vars, tlbVars
<1>0. CASE Multiply(i)
  BY <1>0, ProceedFlow DEF Multiply, TlbStep, c0Vars, tlbVars
<1>2. CASE Transfer(i)
  <2>1. \/ Proceed /\ UNCHANGED c0Vars
        \/ ControlTransfer(Target(i, gpr[i.rs], pc)) /\ UNCHANGED c0Vars
    BY <1>2 DEF Transfer
  <2> QED  BY <2>1, ProceedFlow DEF TlbStep, c0Vars, tlbVars, Flow
<1>3. CASE Load(i)
  <2> DEFINE va == Accessed(i.op, Wrap(gpr[i.rs] + i.imm))
             t == AddressTrans(va, "DATALOAD")
  <2>1. \/ Raise("AdEL", 0) \/ TranslationFault(t, va) \/ Raise("DBE", 0)
        \/ (Proceed /\ UNCHANGED c0Vars)
    BY <1>3 DEF Load
  <2> HIDE DEF va, t
  <2> QED  BY <2>1, RaiseFlow, TranslationFaultFlow, ProceedFlow DEF TlbStep, c0Vars, tlbVars
<1>4. CASE Store(i)
  <2> DEFINE va == Accessed(i.op, Wrap(gpr[i.rs] + i.imm))
             t == AddressTrans(va, "DATASTORE")
  <2>1. \/ Raise("AdES", 0) \/ TranslationFault(t, va) \/ Raise("DBE", 0)
        \/ (Proceed /\ UNCHANGED c0Vars)
    BY <1>4 DEF Store
  <2> HIDE DEF va, t
  <2> QED  BY <2>1, RaiseFlow, TranslationFaultFlow, ProceedFlow DEF TlbStep, c0Vars, tlbVars
<1>5. CASE Trap(i)
  <2>1. Raise(Traps[i.op], 0) \/ Raise("RI", 0)
    BY <1>5 DEF Trap
  <2> QED  BY <2>1, RaiseFlow DEF TlbStep
<1>6. CASE Unimplemented(i)
  <2>1. Raise("CpU", i.imm) \/ (Proceed /\ UNCHANGED c0Vars)
    BY <1>6 DEF Unimplemented
  <2> QED  BY <2>1, RaiseFlow, ProceedFlow DEF TlbStep, c0Vars, tlbVars
<1>7. CASE CoprocessorZero(i)
  <2>1. Flow
    BY <1>7, ProceedFlow DEF CoprocessorZero
  <2>2. CASE UNCHANGED c0Vars
    BY <2>1, <2>2 DEF TlbStep, c0Vars, tlbVars
  <2>3. CASE WriteReg(i.rd, gpr[i.rt]) \/ Tlbr \/ Tlbp \/ Rfe
    BY <2>1, <2>3 DEF TlbStep, WriteReg, Tlbr, Tlbp, Rfe, tlbVars
  <2>4. CASE Tlbwi
    BY <2>1, <2>4 DEF TlbStep, Tlbwi, TlbWrite
  <2>5. CASE Tlbwr
    BY <2>1, <2>5 DEF TlbStep, Tlbwr, TlbWrite
  <2> QED  BY <1>7, <2>1, <2>2, <2>3, <2>4, <2>5 DEF CoprocessorZero
<1> QED  BY <1>0, <1>1, <1>2, <1>3, <1>4, <1>5, <1>6, <1>7 DEF Emulate

LEMMA StepEffect ==
    ASSUME Step
    PROVE  SaveEpc /\ random' = AdjustRandom /\ Flow /\ TlbStep
<1>1. CASE FetchFault
  BY <1>1, Step, TranslationFaultFlow DEF Step, FetchFault, TlbStep
<1>2. CASE Misaligned \/ FetchBusError \/ TakeInterrupt
  BY <1>2, Step, RaiseFlow DEF Step, Misaligned, FetchBusError, TakeInterrupt, TlbStep
<1>3. CASE Instruction
  BY <1>3, Step, EmulateEffect DEF Step, Instruction
<1> QED  BY <1>1, <1>2, <1>3, Step DEF Step

-----------------------------------------------------------------------------
(* Whatever the program, the address that an exception in a delay slot      *)
(* reports is that of the branch just before it (step, control_transfer):   *)
(* an induction on SlotFollowsBranch itself.                                *)
THEOREM BranchBeforeSlot == Spec => []SlotFollowsBranch
<1>1. Init => SlotFollowsBranch
  BY DEF Init, SlotFollowsBranch
<1>2. SlotFollowsBranch /\ [Next]_vars => SlotFollowsBranch'
  <2> SUFFICES ASSUME SlotFollowsBranch, [Next]_vars
               PROVE  SlotFollowsBranch'
    OBVIOUS
  <2>1. CASE Step
    <3>1. CASE delay_state' = "NORMAL"
      BY <3>1 DEF SlotFollowsBranch
    <3>2. ASSUME NEW target, ControlTransfer(target)
          PROVE  SlotFollowsBranch'
      BY <2>1, <3>2, StepEffect DEF SaveEpc, ControlTransfer, SlotFollowsBranch
    <3> QED  BY <2>1, <3>1, <3>2, StepEffect DEF Flow
  <2>2. CASE Interrupt
    BY <2>2 DEF Interrupt, SlotFollowsBranch
  <2>3. CASE UNCHANGED vars
    BY <2>3 DEF vars, SlotFollowsBranch
  <2> QED  BY <2>1, <2>2, <2>3 DEF Next
<1> QED  BY <1>1, <1>2, PTL DEF Spec

-----------------------------------------------------------------------------
(* The remainder of a division by the number of values that Random takes.   *)
LEMMA AdjustRandomBounds ==
    ASSUME random \in RandomLower..RandomUpper
    PROVE  AdjustRandom \in RandomLower..RandomUpper
<1> DEFINE a == RandomUpper - random + 1
           b == RandomUpper - RandomLower + 1
<1>1. /\ RandomLower \in Nat /\ RandomUpper \in Nat /\ RandomLower <= RandomUpper
      /\ a \in Nat /\ b \in Nat \ {0}
  BY CPZeroAssumption
<1>2. a % b \in 0..b - 1
  <2> HIDE DEF a, b
  <2> QED  BY <1>1
<1> QED  BY <1>1, <1>2 DEF AdjustRandom

(* Random stays between its bounds and the TLB keeps its size.              *)
TlbInv ==
    /\ random \in RandomLower..RandomUpper
    /\ DOMAIN tlb = 0..TlbEntries - 1

LEMMA TlbInvariance == Spec => []TlbInv
<1>1. Init => TlbInv
  BY CPZeroAssumption DEF Init, Reset, TlbInv
<1>2. TlbInv /\ [Next]_vars => TlbInv'
  <2> SUFFICES ASSUME TlbInv, [Next]_vars
               PROVE  TlbInv'
    OBVIOUS
  <2>1. CASE Step
    BY <2>1, StepEffect, AdjustRandomBounds DEF TlbInv, TlbStep
  <2>2. CASE Interrupt
    BY <2>2 DEF Interrupt, TlbInv, c0Vars, tlbVars
  <2>3. CASE UNCHANGED vars
    BY <2>3 DEF vars, TlbInv, c0Vars, tlbVars
  <2> QED  BY <2>1, <2>2, <2>3 DEF Next
<1> QED  BY <1>1, <1>2, PTL DEF Spec

(* Whatever the program, only an indexed write of the program's own reaches *)
(* the entries below the lower bound of Random (adjust_random,              *)
(* tlbwr_emulate): it rests on the bounds of Random.                        *)
THEOREM WiredEntriesKept == Spec => WiredKept
<1>1. TlbInv /\ TlbInv' /\ [Next]_vars
        => [\A x \in 0..RandomLower - 1 : tlb'[x] # tlb[x] => x = index % TlbEntries]_vars
  <2> SUFFICES ASSUME TlbInv, TlbInv', [Next]_vars, NEW x \in 0..RandomLower - 1,
                      tlb'[x] # tlb[x]
               PROVE  x = index % TlbEntries
    OBVIOUS
  <2>1. CASE Step
    <3>1. x \in DOMAIN tlb /\ x # random'
      BY CPZeroAssumption DEF TlbInv
    <3> QED  BY <2>1, <3>1, StepEffect DEF TlbStep
  <2>2. CASE Interrupt
    BY <2>2 DEF Interrupt, c0Vars, tlbVars
  <2>3. CASE UNCHANGED vars
    BY <2>3 DEF vars, c0Vars, tlbVars
  <2> QED  BY <2>1, <2>2, <2>3 DEF Next
<1> QED  BY <1>1, TlbInvariance, PTL DEF Spec, WiredKept

-----------------------------------------------------------------------------
(* An exception enters kernel mode with interrupts disabled and leaves the  *)
(* rest of Status alone, and rfe after it restores the current and the      *)
(* previous mode, for every value of Status (enter_exception, rfe_emulate). *)
THEOREM ModeStack ==
    ASSUME NEW s \in Nat
    PROVE  /\ PushMode(s) % 4 = 0
           /\ PushMode(s) \div 64 = s \div 64
           /\ PopMode(PushMode(s)) \div 64 = s \div 64
           /\ PopMode(PushMode(s)) % 16 = s % 16
<1> DEFINE q == s \div 64
           m == (4 * s) % 64
           p == 64 * q + m
<1>1. q \in Nat /\ m \in 0..63 /\ m % 4 = 0 /\ p \in Nat
  OBVIOUS
<1>2. p % 4 = 0 /\ p \div 64 = q
  <2> HIDE DEF q, m
  <2> QED  BY <1>1
<1>3. PopMode(p) = 16 * (p \div 16) + ((p \div 4) % 16)
  BY DEF PopMode
<1>4. (p \div 4) % 16 = s % 16
  OBVIOUS
<1>5. 16 * (p \div 16) + (s % 16) \in Nat /\ (16 * (p \div 16) + (s % 16)) % 16 = s % 16
  <2> HIDE DEF p
  <2> QED  BY <1>1
<1>6. (16 * (p \div 16) + (s % 16)) \div 64 = q
  <2> HIDE DEF q, m
  <2> QED  BY <1>1
<1> QED  BY <1>2, <1>3, <1>4, <1>5, <1>6 DEF PushMode
-----------------------------------------------------------------------------
(* Types.  Pages divide the address space: T is half the number of them.    *)
T == Kseg0 \div PageSize

LEMMA Pages ==
    /\ PageSize \in Nat \ {0} /\ T \in Nat \ {0} /\ H = T * PageSize /\ Kseg0 = H
    /\ M = PageSize * (2 * T)
    /\ \E e \in Nat \ {0} : M = (4 * T) * e
<1>1. W \in Nat /\ W >= 12
  BY ArithmeticAssumption, CPZeroAssumption
<1>2. PICK k \in 4..W - 3 : PageSize = 2^k
  BY CPZeroAssumption
<1>3. k \in 0..W /\ k - 1 \in 0..W /\ 1 \in 0..W /\ W - 1 - k \in 0..W /\ (k - 1) + 1 = k
      /\ (W - 1 - k) + k = W - 1
  BY <1>1, <1>2
<1> DEFINE t == 2^(W - 1 - k)
           e == 2^(k - 1)
           s == PageSize
<1>4. t \in Nat \ {0} /\ e \in Nat \ {0} /\ s \in Nat \ {0}
  BY <1>2, <1>3, PowerAssumption
<1>5. H = t * s
  <2>1. 2^((W - 1 - k) + k) = 2^(W - 1 - k) * 2^k
    BY <1>3, PowerAssumption
  <2>2. QED
    BY <1>2, <1>3, <2>1 DEF H
<1>6. s = e * 2
  <2>1. 2^((k - 1) + 1) = 2^(k - 1) * 2^1
    BY <1>3, PowerAssumption
  <2>2. 2^1 = 2
    OBVIOUS
  <2>3. QED
    BY <1>2, <1>3, <2>1, <2>2
<1>7. Kseg0 = H
  BY DEF Kseg0, H
<1> HIDE DEF t, e, s
<1>8. H \div s = t
  <2>1. H \in Int /\ t \in Int /\ t * s \in Int
    BY <1>4, <1>5
  <2>2. H - t * s = 0 /\ 0 \in 0..s - 1
    BY <1>4, <1>5, <2>1
  <2>3. H - t * s \in 0..s - 1
    BY <2>2
  <2>4. QED
    BY <1>4, <2>1, <2>3, QuotientUnique
<1>9. T = t
  BY <1>7, <1>8 DEF T, s
<1>10. M = 2 * (t * s) /\ M = s * (2 * t) /\ M = (4 * t) * e
  BY <1>4, <1>5, <1>6, WordSize
<1>11. QED
  BY <1>4, <1>5, <1>7, <1>9, <1>10 DEF s

(* The upper part of one word with the lower part of another.               *)
LEMMA Grafted ==
    ASSUME NEW d \in Nat \ {0}, NEW e \in Nat \ {0}, M = d * e, NEW x \in Word, NEW y \in 0..d - 1
    PROVE  (x - (x % d)) + y \in Word
<1> DEFINE u == x \div d
           r == x % d
           v == d * u
           w == d * e
<1>1. x \in 0..M - 1 /\ M \in Nat
  BY WordSize, Words
<1>2. u \in Nat /\ r \in 0..d - 1 /\ x = v + r
  <2>1. x \in Nat
    BY <1>1
  <2>2. QED
    BY <2>1, Digits
<1>3. u \in 0..e - 1
  BY <1>1, DigitBound
<1>4. v \in Nat /\ v <= w - d /\ w \in Nat
  <2> HIDE DEF u
  <2>1. d * u <= d * (e - 1) /\ d * (e - 1) = d * e - d
    BY <1>3
  <2>2. QED
    BY <1>3, <2>1
<1> HIDE DEF v, w, r
<1>5. (x - r) + y \in 0..w - 1
  BY <1>2, <1>4
<1>6. QED
  BY <1>5, Words DEF w, r

LEMMA PageGraft ==
    ASSUME NEW va \in Word, NEW hi \in Word
    PROVE  Vpn(va) + Asid(hi) \in Word
<1>1. PageSize \in Nat \ {0} /\ 2 * T \in Nat \ {0} /\ M = PageSize * (2 * T)
  BY Pages
<1>2. hi % PageSize \in 0..PageSize - 1
  <2>1. hi \in Nat
    BY WordSize, Words
  <2>2. QED
    BY <1>1, <2>1
<1>3. QED
  BY <1>1, <1>2, Grafted DEF Vpn, Asid

LEMMA ContextGraft ==
    ASSUME NEW c \in Word
    PROVE  /\ \A y \in 0..4 * T - 1 : PteBase(c) + y \in Word
           /\ c - PteBase(c) \in 0..4 * T - 1
<1> DEFINE d == 4 * T
<1>1. T \in Nat \ {0} /\ d \in Nat \ {0}
  BY Pages
<1>2. PICK e \in Nat \ {0} : M = d * e
  BY Pages
<1>3. PteBase(c) = c - (c % d)
  BY DEF PteBase, T
<1>4. c \in Nat
  BY WordSize, Words
<1> HIDE DEF d
<1>5. \A y \in 0..d - 1 : (c - (c % d)) + y \in Word
  BY <1>1, <1>2, Grafted
<1>6. c - (c - (c % d)) \in 0..d - 1
  <2> DEFINE r == c % d
  <2>1. r \in 0..d - 1
    BY <1>1, <1>4
  <2> HIDE DEF r
  <2>2. c - (c - r) = r
    BY <1>4, <2>1
  <2>3. QED
    BY <2>1, <2>2 DEF r
<1>7. QED
  BY <1>3, <1>5, <1>6 DEF d

LEMMA BadVpnTyped == ASSUME NEW va \in Word PROVE BadVpn(va) \in 0..4 * T - 1
<1> DEFINE x == va % H
           u == x \div PageSize
<1>1. PageSize \in Nat \ {0} /\ T \in Nat \ {0} /\ H = PageSize * T /\ Kseg0 = H
  BY Pages
<1>2. x \in 0..H - 1
  <2>1. va \in Nat /\ H \in Nat \ {0}
    BY WordSize, Words
  <2>2. QED
    BY <2>1
<1> HIDE DEF x
<1>3. u \in 0..T - 1
  BY <1>1, <1>2, DigitBound
<1>4. BadVpn(va) = 4 * u
  BY <1>1 DEF BadVpn, x
<1> HIDE DEF u
<1>5. QED
  BY <1>1, <1>3, <1>4

LEMMA AccessedTyped == ASSUME NEW op, NEW va \in Word PROVE Accessed(op, va) \in Word
<1>1. va \in 0..M - 1 /\ M \in Nat
  BY WordSize, Words
<1>2. va - (va % 4) \in 0..M - 1
  BY <1>1
<1>3. QED
  BY <1>2, Words DEF Accessed, Base

(* Fields of Status and Cause.                                              *)
LEMMA Fields ==
    /\ 2^BEV = 128 /\ 2^(CU1 + 1) = 512 /\ 2^(BD + 1) = 2048 /\ 2^IP = 128 /\ 2^BD = 1024
    /\ M >= 4096
<1>1. 2^7 = 128 /\ 2^9 = 512 /\ 2^11 = 2048 /\ 2^10 = 1024 /\ 2^12 = 4096
  OBVIOUS
<1>2. 8 + 1 = 9 /\ 10 + 1 = 11
  OBVIOUS
<1>3. M >= 4096
  <2>1. W \in Nat /\ W >= 12
    BY ArithmeticAssumption, CPZeroAssumption
  <2>2. 12 \in 0..W /\ W - 12 \in 0..W /\ 12 + (W - 12) = W
    BY <2>1
  <2>3. 2^(12 + (W - 12)) = 2^12 * 2^(W - 12) /\ 2^(W - 12) \in Nat \ {0}
    BY <2>2, PowerAssumption
  <2>4. M = 4096 * 2^(W - 12)
    BY <1>1, <2>2, <2>3 DEF M
  <2> DEFINE y == 2^(W - 12)
  <2>5. y \in Nat \ {0} /\ M = 4096 * y
    BY <2>3, <2>4
  <2> HIDE DEF y
  <2>6. QED
    BY <2>5
<1>4. QED
  BY <1>1, <1>2, <1>3 DEF BEV, CU1, BD, IP

LEMMA ModesTyped ==
    ASSUME NEW s \in 0..511
    PROVE  PushMode(s) \in 0..511 /\ PopMode(s) \in 0..511
BY DEF PushMode, PopMode

LEMMA CauseTyped == ASSUME NEW v \in Word PROVE CauseField(v) \in 0..2047
<1> DEFINE r == v % 2048
           q == v \div 2048
           b == Bit(v, IP)
<1>1. v \in Nat
  BY WordSize, Words
<1>2. r \in 0..2047 /\ q \in Nat /\ v = 2048 * q + r
  BY <1>1
<1>3. CauseField(v) = (r - (v % 4)) - (IF b THEN 128 ELSE 0)
  BY Fields DEF CauseField, Flag
<1>4. v % 4 = r % 4
  <2> HIDE DEF r, q
  <2>1. QED
    BY <1>2
<1>5. b => r >= 128
  <2>1. b <=> (v \div 128) % 2 = 1
    BY Fields DEF Bit
  <2> HIDE DEF r, q
  <2>2. r < 128 => v \div 128 = 16 * q
    BY <1>2
  <2>3. (16 * q) % 2 = 0
    BY <1>2
  <2>4. QED
    BY <1>2, <2>1, <2>2, <2>3
<1> HIDE DEF r, q, b
<1>6. r - (r % 4) \in 0..2047 /\ (r >= 128 => r - (r % 4) >= 128)
  BY <1>2
<1>7. r % 4 \in Int
  BY <1>2
<1> DEFINE z == r - (r % 4)
<1>8. CauseField(v) = z - (IF b THEN 128 ELSE 0)
  BY <1>3, <1>4
<1>9. z \in 0..2047 /\ (b => z >= 128)
  BY <1>5, <1>6
<1> HIDE DEF z
<1>10. CASE b
  BY <1>8, <1>9, <1>10
<1>11. CASE ~b
  BY <1>8, <1>9, <1>11
<1>12. QED
  BY <1>10, <1>11

(* What a translation answers.                                              *)
LEMMA TranslationTyped ==
    ASSUME NEW va, NEW mode, AddressTrans(va, mode).exc # "none"
    PROVE  AddressTrans(va, mode).exc \in {"Mod", "TLBL", "TLBS", "AdEL", "AdES"}
<1>1. \A code, miss : Fault(code, miss).exc = code
  BY DEF Fault
<1>2. \A pa : NoFault(pa).exc = "none"
  BY DEF NoFault
<1>3. \A kuseg : TlbTranslate(kuseg, va, mode).exc \in {"none", "Mod", "TLBL", "TLBS"}
  <2> SUFFICES ASSUME NEW kuseg PROVE TlbTranslate(kuseg, va, mode).exc \in {"none", "Mod", "TLBL", "TLBS"}
    OBVIOUS
  <2> DEFINE lo == tlb[FirstMatching(va)][2]
             hit == Matching(va) # {} /\ Bit(lo, Valid)
             clean == mode = "DATASTORE" /\ ~Bit(lo, Dirty)
             v == TlbTranslate(kuseg, va, mode)
  <2>1. CASE hit /\ clean
    <3>1. v = Fault("Mod", FALSE)
      BY <2>1 DEF TlbTranslate
    <3>2. QED
      BY <1>1, <3>1
  <2>2. CASE hit /\ ~clean
    <3>1. v = NoFault(Vpn(lo) + (va % PageSize))
      BY <2>2 DEF TlbTranslate
    <3>2. QED
      BY <1>2, <3>1
  <2>3. CASE ~hit
    <3>1. v = Fault(IF mode = "DATASTORE" THEN "TLBS" ELSE "TLBL", kuseg /\ Matching(va) = {})
      BY <2>3 DEF TlbTranslate
    <3>2. v.exc = IF mode = "DATASTORE" THEN "TLBS" ELSE "TLBL"
      BY <1>1, <3>1
    <3>3. QED
      BY <3>2
  <2>4. QED
    BY <2>1, <2>2, <2>3
<1> DEFINE v == AddressTrans(va, mode)
<1>4. CASE va < Kseg0
  <2>1. v = TlbTranslate(TRUE, va, mode)
    BY <1>4 DEF AddressTrans
  <2>2. QED
    BY <1>3, <2>1
<1>5. CASE ~(va < Kseg0) /\ ~KernelMode
  <2>1. v = Fault(IF mode = "DATASTORE" THEN "AdES" ELSE "AdEL", FALSE)
    BY <1>5 DEF AddressTrans
  <2>2. v.exc = IF mode = "DATASTORE" THEN "AdES" ELSE "AdEL"
    BY <1>1, <2>1
  <2>3. QED
    BY <2>2
<1>6. CASE ~(va < Kseg0) /\ KernelMode /\ (va < Kseg1 \/ va < Kseg2)
  <2>1. v = NoFault(va - Kseg0) \/ v = NoFault(va - Kseg1)
    BY <1>6 DEF AddressTrans
  <2>2. QED
    BY <1>2, <2>1
<1>7. CASE ~(va < Kseg0) /\ KernelMode /\ ~(va < Kseg1 \/ va < Kseg2)
  <2>1. v = TlbTranslate(FALSE, va, mode)
    BY <1>7 DEF AddressTrans
  <2>2. QED
    BY <1>3, <2>1
<1>8. QED
  BY <1>4, <1>5, <1>6, <1>7

LEMMA FirstTyped ==
    ASSUME NEW va, Matching(va) # {}
    PROVE  FirstMatching(va) \in Matching(va) /\ FirstMatching(va) \in 0..TlbEntries - 1
<1>1. Matching(va) \subseteq Nat /\ Matching(va) \subseteq 0..TlbEntries - 1
  BY DEF Matching
<1>2. \E x \in Matching(va) : \A y \in Matching(va) : x <= y
  BY <1>1, LeastOf
<1>3. FirstMatching(va) \in Matching(va)
  BY <1>2 DEF FirstMatching
<1>4. QED
  BY <1>1, <1>3

LEMMA EntriesAreWords == 0..TlbEntries - 1 \subseteq Word /\ 0 \in Word /\ H \in Word
<1>1. TlbEntries \in 1..H /\ M = 2 * H /\ H \in Nat \ {0}
  BY CPZeroAssumption, WordSize DEF H
<1>2. 0..TlbEntries - 1 \subseteq 0..M - 1 /\ 0 \in 0..M - 1 /\ H \in 0..M - 1
  BY <1>1
<1>3. QED
  BY <1>2, Words

-----------------------------------------------------------------------------
(* The parts of TypeOK that a step settles one by one.                      *)
FlowTyped ==
    /\ pc' \in Word /\ delay_pc' \in Word
    /\ delay_state' \in {"NORMAL", "DELAYSLOT"}
    /\ exception_pending' \in BOOLEAN /\ undefined' \in BOOLEAN
StatusTyped == status' \in 0..511 /\ cause' \in 0..2047 /\ epc' \in Word
FaultTyped == badvaddr' \in Word /\ context' \in Word /\ entryhi' \in Word
EntriesTyped == entrylo' \in Word /\ index' \in Word /\ tlb' \in [0..TlbEntries - 1 -> Word \X Word]
RegistersTyped == gpr' \in [GPR -> Word] /\ gpr'["zero"] = 0
MemoryTyped == mem' \in [DOMAIN Data -> Word] /\ irq' \in BOOLEAN

StepTyped == FlowTyped /\ StatusTyped /\ FaultTyped /\ EntriesTyped /\ RegistersTyped /\ MemoryTyped

LEMMA UnchangedTyped ==
    ASSUME TypeOK
    PROVE  /\ UNCHANGED excVars => StatusTyped
           /\ UNCHANGED faultVars => FaultTyped
           /\ UNCHANGED tlbVars => EntriesTyped
           /\ UNCHANGED c0Vars => StatusTyped /\ FaultTyped /\ EntriesTyped
           /\ UNCHANGED gpr => RegistersTyped
           /\ UNCHANGED <<mem, irq>> => MemoryTyped
<1>1. UNCHANGED excVars => StatusTyped
  BY DEF TypeOK, StatusTyped, excVars
<1>2. UNCHANGED faultVars => FaultTyped
  BY DEF TypeOK, FaultTyped, faultVars
<1>3. UNCHANGED tlbVars => EntriesTyped
  BY DEF TypeOK, EntriesTyped, tlbVars
<1>4. UNCHANGED c0Vars => UNCHANGED excVars /\ UNCHANGED faultVars /\ UNCHANGED tlbVars
  BY DEF c0Vars
<1>5. UNCHANGED gpr => RegistersTyped
  BY DEF TypeOK, RegistersTyped
<1>6. UNCHANGED <<mem, irq>> => MemoryTyped
  BY DEF TypeOK, MemoryTyped
<1>7. QED
  BY <1>1, <1>2, <1>3, <1>4, <1>5, <1>6

LEMMA ExceptionTyped ==
    ASSUME TypeOK, SaveEpc, NEW code \in DOMAIN ExcCode, NEW c, code = "CpU" => c \in 0..3, NEW miss,
           Exception(code, c, miss)
    PROVE  FlowTyped /\ StatusTyped
<1> DEFINE base == IF Bit(status, BEV) THEN BootBase ELSE Kseg0
           ce == IF code = "CpU" THEN 256 * c ELSE 0
           slot == Flag(delay_state = "DELAYSLOT", BD)
<1>1. FlowTyped
  <2>1. base \in Word /\ base + GeneralVector \in Word
    BY CPUAssumption
  <2>2. pc' = base + (IF miss THEN 0 ELSE GeneralVector)
    BY DEF Exception
  <2> HIDE DEF base
  <2>3. base + 0 = base
    BY <2>1, WordSize, Words
  <2>4. pc' \in Word
    BY <2>1, <2>2, <2>3
  <2>5. QED
    BY <2>4 DEF Exception, FlowTyped, TypeOK
<1>2. StatusTyped
  <2>1. status' = PushMode(status) /\ epc' = next_epc' /\ cause' = (4 * ExcCode[code] + ce) + slot
    BY DEF Exception, EnterException
  <2>2. status' \in 0..511
    <3>1. status \in 0..511
      BY DEF TypeOK
    <3>2. QED
      BY <2>1, <3>1, ModesTyped
  <2>3. epc' \in Word
    BY <2>1 DEF TypeOK, SaveEpc
  <2>4. ExcCode[code] \in 0..12
    BY DEF ExcCode
  <2>5. ce \in 0..768 /\ slot \in {0, 1024}
    <3>1. ce \in 0..768
      BY DEF ce
    <3>2. slot \in {0, 1024}
      BY Fields DEF Flag
    <3>3. QED
      BY <3>1, <3>2
  <2> DEFINE x == ExcCode[code]
  <2> HIDE DEF ce, slot, x
  <2>6. cause' \in 0..2047
    <3>1. x \in 0..12 /\ cause' = (4 * x + ce) + slot
      BY <2>1, <2>4 DEF x
    <3>2. (4 * x + ce) + slot \in 0..2047
      BY <2>5, <3>1
    <3>3. QED
      BY <3>1, <3>2
  <2>7. QED
    BY <2>2, <2>3, <2>6 DEF StatusTyped
<1>3. QED
  BY <1>1, <1>2

LEMMA RaiseTyped ==
    ASSUME TypeOK, SaveEpc, NEW code \in DOMAIN ExcCode, NEW c, code = "CpU" => c \in 0..3,
           Raise(code, c)
    PROVE  StepTyped
<1>1. Exception(code, c, FALSE) /\ UNCHANGED <<mem, irq>> /\ UNCHANGED gpr
      /\ UNCHANGED faultVars /\ UNCHANGED tlbVars
  BY DEF Raise
<1>2. FlowTyped /\ StatusTyped
  BY <1>1, ExceptionTyped
<1>3. QED
  BY <1>1, <1>2, UnchangedTyped DEF StepTyped

LEMMA TranslationFaultTyped ==
    ASSUME TypeOK, SaveEpc, NEW va \in Word, NEW mode, NEW ea \in Word,
           AddressTrans(ea, mode).exc # "none",
           TranslationFault(AddressTrans(ea, mode), va)
    PROVE  StepTyped
<1> DEFINE t == AddressTrans(ea, mode)
<1>1. t.exc \in DOMAIN ExcCode /\ t.exc # "CpU"
  <2>1. t.exc \in {"Mod", "TLBL", "TLBS", "AdEL", "AdES"}
    BY TranslationTyped
  <2> HIDE DEF t
  <2>2. QED
    BY <2>1 DEF ExcCode
<1> HIDE DEF t
<1>2. /\ Exception(t.exc, 0, t.userMiss) /\ UNCHANGED <<mem, irq>> /\ UNCHANGED gpr /\ UNCHANGED tlbVars
      /\ LoadAddrTransExcpInfo(va) \/ UNCHANGED faultVars
  BY DEF TranslationFault, t
<1>3. FlowTyped /\ StatusTyped
  BY <1>1, <1>2, ExceptionTyped
<1>4. CASE LoadAddrTransExcpInfo(va)
  <2>1. context \in Word /\ entryhi \in Word
    BY DEF TypeOK
  <2>2. BadVpn(va) \in 0..4 * T - 1
    BY BadVpnTyped
  <2>3. PteBase(context) + BadVpn(va) \in Word
    BY <2>1, <2>2, ContextGraft
  <2>4. FaultTyped
    BY <1>4, <2>1, <2>3, PageGraft DEF LoadAddrTransExcpInfo, FaultTyped
  <2>5. QED
    BY <1>2, <1>3, <2>4, UnchangedTyped DEF StepTyped
<1>5. CASE UNCHANGED faultVars
  BY <1>2, <1>3, <1>5, UnchangedTyped DEF StepTyped
<1>6. QED
  BY <1>2, <1>4, <1>5

LEMMA ProceedTyped ==
    ASSUME TypeOK, Proceed
    PROVE  FlowTyped
<1>1. pc + 4 \in Int
  BY WordSize, Words DEF TypeOK
<1>2. Wrap(pc + 4) \in Word
  BY <1>1, WrapTyped
<1>3. pc' \in Word /\ delay_state' = "NORMAL" /\ exception_pending' = FALSE
  <2>1. delay_pc \in Word
    BY DEF TypeOK
  <2>2. QED
    BY <1>2, <2>1 DEF Proceed
<1>4. delay_pc' \in Word /\ undefined' \in BOOLEAN
  BY DEF Proceed, TypeOK
<1>5. QED
  BY <1>3, <1>4 DEF FlowTyped

LEMMA ControlTransferTyped ==
    ASSUME TypeOK, NEW target \in Word, ControlTransfer(target)
    PROVE  FlowTyped
<1>1. pc + 4 \in Int
  BY WordSize, Words DEF TypeOK
<1>2. Wrap(pc + 4) \in Word
  BY <1>1, WrapTyped
<1>3. (undefined \/ delay_state = "DELAYSLOT") \in BOOLEAN
  OBVIOUS
<1>4. QED
  BY <1>2, <1>3 DEF ControlTransfer, FlowTyped, TypeOK

LEMMA PutTyped ==
    ASSUME TypeOK, NEW r, NEW v \in Word, Put(r, v)
    PROVE  RegistersTyped
<1>1. (IF r = "zero" THEN 0 ELSE v) \in Word /\ "zero" \in GPR
  BY EntriesAreWords, CPUAssumption
<1>2. gpr \in [GPR -> Word] /\ gpr["zero"] = 0
  BY DEF TypeOK
<1>3. gpr' = [gpr EXCEPT ![r] = IF r = "zero" THEN 0 ELSE v]
  BY DEF Put, Assigned
<1>4. gpr' \in [GPR -> Word]
  <2> DEFINE w == IF r = "zero" THEN 0 ELSE v
  <2>1. w \in Word /\ gpr' = [gpr EXCEPT ![r] = w]
    BY <1>1, <1>3
  <2> HIDE DEF w
  <2>2. QED
    BY <1>2, <2>1
<1>5. gpr'["zero"] = 0
  BY <1>1, <1>2, <1>3
<1>6. QED
  BY <1>4, <1>5 DEF RegistersTyped

-----------------------------------------------------------------------------
(* Instructions, one kind after another.                                    *)
LEMMA WordsAreNumbers == \A x \in Word : x \in Nat
BY WordSize, Words

LEMMA UpdateTyped ==
    ASSUME NEW D, NEW S, NEW f \in [D -> S], NEW x, NEW v \in S
    PROVE  /\ [f EXCEPT ![x] = v] \in [D -> S]
           /\ \A y \in D : y # x => [f EXCEPT ![x] = v][y] = f[y]
OBVIOUS

LEMMA OperandsTyped ==
    ASSUME TypeOK, NEW i, WellFormed(i)
    PROVE  /\ gpr[i.rs] \in Word
           /\ i.op \notin Computations => gpr[i.rt] \in Word
           /\ Operand(i, gpr) \in Word
           /\ i.op \notin {"mfc0", "mtc0"} => gpr[i.rd] \in Word
           /\ Wrap(gpr[i.rs] + i.imm) \in Word
           /\ \A op, mode : Accessed(op, Wrap(gpr[i.rs] + i.imm)) \in Word
<1>1. gpr \in [GPR -> Word]
  BY DEF TypeOK
<1>2. gpr[i.rs] \in Word /\ i.imm \in Int
  BY <1>1 DEF WellFormed
<1>3. i.rt \in GPR \/ (i.rt = "imm" /\ i.op \in Computations)
  BY DEF WellFormed
<1>4. i.op \notin Computations => gpr[i.rt] \in Word
  BY <1>1, <1>3
<1>5. Operand(i, gpr) \in Word
  <2>1. CASE i.rt = "imm"
    BY <1>2, <2>1, WrapTyped DEF Operand
  <2>2. CASE i.rt # "imm"
    BY <1>1, <1>3, <2>2 DEF Operand
  <2>3. QED
    BY <2>1, <2>2
<1>6. i.op \notin {"mfc0", "mtc0"} => gpr[i.rd] \in Word
  BY <1>1 DEF WellFormed
<1>7. gpr[i.rs] + i.imm \in Int
  <2>1. gpr[i.rs] \in Nat
    BY <1>2, WordsAreNumbers
  <2>2. QED
    BY <1>2, <2>1
<1>8. Wrap(gpr[i.rs] + i.imm) \in Word
  BY <1>7, WrapTyped
<1>9. QED
  BY <1>2, <1>4, <1>5, <1>6, <1>8, AccessedTyped

LEMMA CalculateTyped ==
    ASSUME TypeOK, SaveEpc, NEW i, WellFormed(i), Calculate(i)
    PROVE  StepTyped
<1> DEFINE a == gpr[i.rs]
           b == Operand(i, gpr)
<1>1. CASE Raise("Ov", 0)
  <2>1. "Ov" \in DOMAIN ExcCode /\ "Ov" # "CpU"
    BY DEF ExcCode
  <2>2. QED
    BY <1>1, <2>1, RaiseTyped
<1>2. CASE ~Raise("Ov", 0)
  <2>1. /\ i.op \in Computations /\ Put(i.rd, Compute(i.op, a, b)) /\ Proceed
        /\ UNCHANGED c0Vars /\ UNCHANGED <<mem, irq>>
    BY <1>2 DEF Calculate
  <2>2. Compute(i.op, a, b) \in Word
    BY <2>1, OperandsTyped, ComputeTyped
  <2>3. QED
    BY <2>1, <2>2, PutTyped, ProceedTyped, UnchangedTyped DEF StepTyped
<1>3. QED
  BY <1>1, <1>2

LEMMA MultiplyTyped ==
    ASSUME TypeOK, NEW i, WellFormed(i), Multiply(i)
    PROVE  StepTyped
<1>1. /\ i.op \in Products /\ Proceed /\ UNCHANGED c0Vars /\ UNCHANGED <<mem, irq>>
      /\ \E p \in Product(i.op, gpr[i.rs], gpr[i.rt]) :
            gpr' = [gpr EXCEPT !["hi"] = p[1], !["lo"] = p[2]]
  BY DEF Multiply
<1>2. PICK p \in Product(i.op, gpr[i.rs], gpr[i.rt]) :
         gpr' = [gpr EXCEPT !["hi"] = p[1], !["lo"] = p[2]]
  BY <1>1
<1>3. i.op \notin Computations
  BY <1>1 DEF Products, Computations
<1>4. p \in Word \X Word
  BY <1>2, <1>3, OperandsTyped, ProductTyped
<1>5. gpr \in [GPR -> Word] /\ gpr["zero"] = 0 /\ "zero" \in GPR
  BY CPUAssumption DEF TypeOK
<1>6. gpr' \in [GPR -> Word] /\ gpr'["zero"] = 0
  <2>1. p[1] \in Word /\ p[2] \in Word
    BY <1>4
  <2> DEFINE f == [gpr EXCEPT !["hi"] = p[1]]
  <2>2. f \in [GPR -> Word] /\ f["zero"] = 0
    BY <1>5, <2>1
  <2>3. gpr' = [f EXCEPT !["lo"] = p[2]]
    BY <1>2
  <2> HIDE DEF f
  <2>4. gpr' \in [GPR -> Word]
    BY <2>1, <2>2, <2>3, UpdateTyped
  <2>5. gpr'["zero"] = f["zero"]
    BY <1>5, <2>1, <2>2, <2>3, UpdateTyped
  <2>6. QED
    BY <2>2, <2>4, <2>5
<1>7. QED
  BY <1>1, <1>6, ProceedTyped, UnchangedTyped DEF StepTyped, RegistersTyped

LEMMA TargetTyped ==
    ASSUME NEW i, i.op \in Transfers, i.imm \in Int, i.op \in Jumps => i.imm \in 0..2^(W - 4) - 1,
           NEW a \in Word, NEW p \in Word
    PROVE  Target(i, a, p) \in Word
<1>1. p + 4 \in Int /\ p + 4 + i.imm \in Int
  <2>1. p \in Nat
    BY WordsAreNumbers
  <2>2. QED
    BY <2>1
<1>2. CASE i.op \in Branches
  <2>1. i.op \notin Jumps /\ i.op \notin RegisterJumps
    BY <1>2 DEF Branches, Jumps, RegisterJumps
  <2>2. Target(i, a, p) = Wrap(p + 4 + i.imm)
    BY <1>2, <2>1 DEF Target
  <2>3. QED
    BY <1>1, <2>2, WrapTyped
<1>3. CASE i.op \in Jumps
  <2> DEFINE x == Wrap(p + 4)
             d == 2^(W - 4)
  <2>1. x \in Word
    BY <1>1, WrapTyped
  <2>2. d \in Nat \ {0} /\ M = d * 16
    <3>1. W \in Nat /\ W >= 12
      BY ArithmeticAssumption, CPZeroAssumption
    <3>2. W - 4 \in 0..W /\ 4 \in 0..W /\ (W - 4) + 4 = W
      BY <3>1
    <3>3. 2^((W - 4) + 4) = 2^(W - 4) * 2^4 /\ 2^(W - 4) \in Nat \ {0}
      BY <3>2, PowerAssumption
    <3>4. 2^4 = 16
      OBVIOUS
    <3>5. QED
      BY <3>2, <3>3, <3>4 DEF M
  <2>3. Target(i, a, p) = (x - (x % d)) + i.imm
    <3>1. i.op \notin Branches /\ i.op \notin RegisterJumps
      BY <1>3 DEF Branches, Jumps, RegisterJumps
    <3>2. QED
      BY <1>3, <3>1 DEF Target
  <2>4. i.imm \in 0..d - 1
    BY <1>3
  <2> HIDE DEF x, d
  <2>5. QED
    BY <2>1, <2>2, <2>3, <2>4, Grafted
<1>4. CASE i.op \in RegisterJumps
  <2>1. i.op \notin Branches /\ i.op \notin Jumps
    BY <1>4 DEF Branches, Jumps, RegisterJumps
  <2>2. QED
    BY <1>4, <2>1 DEF Target
<1>5. QED
  BY <1>2, <1>3, <1>4 DEF Transfers

LEMMA TransferTyped ==
    ASSUME TypeOK, NEW i, WellFormed(i), Transfer(i)
    PROVE  StepTyped
<1>1. /\ i.op \in Transfers /\ gpr' = Linked(i, gpr, pc) /\ UNCHANGED c0Vars /\ UNCHANGED <<mem, irq>>
      /\ ControlTransfer(Target(i, gpr[i.rs], pc)) \/ Proceed
  BY DEF Transfer
<1>2. pc \in Word /\ pc + 8 \in Int
  BY WordSize, Words DEF TypeOK
<1>3. Target(i, gpr[i.rs], pc) \in Word
  BY <1>1, <1>2, OperandsTyped, TargetTyped DEF WellFormed
<1>4. FlowTyped
  BY <1>1, <1>3, ControlTransferTyped, ProceedTyped
<1>5. RegistersTyped
  <2>1. gpr \in [GPR -> Word] /\ gpr["zero"] = 0 /\ "zero" \in GPR
    BY CPUAssumption DEF TypeOK
  <2>2. Wrap(pc + 8) \in Word
    BY <1>2, WrapTyped
  <2>3. gpr' = [x \in GPR |-> IF x \in Link(i) \ {"zero"} THEN Wrap(pc + 8) ELSE gpr[x]]
    BY <1>1, <2>1 DEF Linked
  <2>4. QED
    BY <2>1, <2>2, <2>3 DEF RegistersTyped
<1>6. QED
  BY <1>1, <1>4, <1>5, UnchangedTyped DEF StepTyped

LEMMA LoadTyped ==
    ASSUME TypeOK, SaveEpc, NEW i, WellFormed(i), Load(i)
    PROVE  StepTyped
<1> DEFINE va == Wrap(gpr[i.rs] + i.imm)
           ea == Accessed(i.op, va)
           t == AddressTrans(ea, "DATALOAD")
           word == Base(t.phys)
<1>1. va \in Word /\ ea \in Word
  BY OperandsTyped
<1>2. \/ Raise("AdEL", 0) \/ Raise("DBE", 0)
      \/ t.exc # "none" /\ TranslationFault(t, ea)
      \/ /\ ea % Width(i.op) = 0 /\ word \in DOMAIN mem
         /\ Put(i.rd, Loaded(i.op, gpr[i.rd], mem[word], va))
         /\ Proceed /\ UNCHANGED c0Vars /\ UNCHANGED <<mem, irq>>
  BY DEF Load
<1>3. CASE Raise("AdEL", 0) \/ Raise("DBE", 0)
  <2>1. "AdEL" \in DOMAIN ExcCode /\ "DBE" \in DOMAIN ExcCode
    BY DEF ExcCode
  <2>2. QED
    BY <1>3, <2>1, RaiseTyped
<1>4. CASE t.exc # "none" /\ TranslationFault(t, ea)
  <2> HIDE DEF va
  <2> HIDE DEF ea
  <2>1. QED
    BY <1>1, <1>4, TranslationFaultTyped
<1>5. CASE /\ ea % Width(i.op) = 0 /\ word \in DOMAIN mem
           /\ Put(i.rd, Loaded(i.op, gpr[i.rd], mem[word], va))
           /\ Proceed /\ UNCHANGED c0Vars /\ UNCHANGED <<mem, irq>>
  <2>1. i.op \in Loads
    BY DEF Load
  <2>2. i.op \notin {"mfc0", "mtc0"}
    BY <2>1 DEF Loads
  <2>3. mem[word] \in Word
    <3> HIDE DEF word
    <3>1. QED
      BY <1>5 DEF TypeOK
  <2>4. Loaded(i.op, gpr[i.rd], mem[word], va) \in Word
    <3>1. gpr[i.rd] \in Word
      BY <2>2, OperandsTyped
    <3>2. va \in Int
      BY <1>1, WordSize, Words
    <3>3. Accessed(i.op, va) % Width(i.op) = 0
      BY <1>5
    <3> HIDE DEF va, word
    <3>4. QED
      BY <1>1, <2>1, <2>3, <3>1, <3>3, LoadedTyped, <3>2
  <2> HIDE DEF va, word
  <2>5. QED
    BY <1>5, <2>4, PutTyped, ProceedTyped, UnchangedTyped DEF StepTyped
<1>6. QED
  BY <1>2, <1>3, <1>4, <1>5

LEMMA StoreTyped ==
    ASSUME TypeOK, SaveEpc, NEW i, WellFormed(i), Store(i)
    PROVE  StepTyped
<1> DEFINE va == Wrap(gpr[i.rs] + i.imm)
           ea == Accessed(i.op, va)
           t == AddressTrans(ea, "DATASTORE")
           word == Base(t.phys)
<1>1. va \in Word /\ ea \in Word
  BY OperandsTyped
<1>2. \/ Raise("AdES", 0) \/ Raise("DBE", 0)
      \/ t.exc # "none" /\ TranslationFault(t, ea)
      \/ /\ ea % Width(i.op) = 0 /\ word \in DOMAIN mem
         /\ mem' = [mem EXCEPT ![word] = Stored(i.op, gpr[i.rt], mem[word], va)]
         /\ irq' = (irq /\ word # AckRegister)
         /\ Proceed /\ UNCHANGED c0Vars /\ UNCHANGED gpr
  BY DEF Store
<1>3. CASE Raise("AdES", 0) \/ Raise("DBE", 0)
  <2>1. "AdES" \in DOMAIN ExcCode /\ "DBE" \in DOMAIN ExcCode
    BY DEF ExcCode
  <2>2. QED
    BY <1>3, <2>1, RaiseTyped
<1>4. CASE t.exc # "none" /\ TranslationFault(t, ea)
  <2> HIDE DEF va
  <2> HIDE DEF ea
  <2>1. QED
    BY <1>1, <1>4, TranslationFaultTyped
<1>5. CASE /\ ea % Width(i.op) = 0 /\ word \in DOMAIN mem
           /\ mem' = [mem EXCEPT ![word] = Stored(i.op, gpr[i.rt], mem[word], va)]
           /\ irq' = (irq /\ word # AckRegister)
           /\ Proceed /\ UNCHANGED c0Vars /\ UNCHANGED gpr
  <2>1. i.op \in Stores
    BY DEF Store
  <2>2. i.op \notin Computations
    BY <2>1 DEF Stores, Computations
  <2>3. mem \in [DOMAIN Data -> Word] /\ irq \in BOOLEAN
    BY DEF TypeOK
  <2>4. mem[word] \in Word
    <3> HIDE DEF word
    <3>1. QED
      BY <1>5, <2>3
  <2> DEFINE v == Stored(i.op, gpr[i.rt], mem[word], va)
  <2>5. v \in Word
    <3>1. gpr[i.rt] \in Word
      BY <2>2, OperandsTyped
    <3>2. va \in Int
      BY <1>1, WordSize, Words
    <3>3. Accessed(i.op, va) % Width(i.op) = 0
      BY <1>5
    <3> HIDE DEF va, word
    <3>4. QED
      BY <2>1, <2>4, <3>1, <3>2, <3>3, StoredTyped
  <2>6. mem' = [mem EXCEPT ![word] = v]
    BY <1>5
  <2> HIDE DEF v, va, word
  <2>7. MemoryTyped
    BY <1>5, <2>3, <2>5, <2>6 DEF MemoryTyped
  <2>8. QED
    BY <1>5, <2>7, ProceedTyped, UnchangedTyped DEF StepTyped
<1>6. QED
  BY <1>2, <1>3, <1>4, <1>5

LEMMA TrapTyped ==
    ASSUME TypeOK, SaveEpc, NEW i, Trap(i)
    PROVE  StepTyped
<1>1. \E code \in {"Sys", "Bp", "RI"} : Raise(code, 0)
  BY DEF Trap, Traps
<1>2. \A code \in {"Sys", "Bp", "RI"} : code \in DOMAIN ExcCode /\ code # "CpU"
  BY DEF ExcCode
<1>3. QED
  BY <1>1, <1>2, RaiseTyped

LEMMA UnimplementedTyped ==
    ASSUME TypeOK, SaveEpc, NEW i, WellFormed(i), Unimplemented(i)
    PROVE  StepTyped
<1>1. i.imm \in 0..3
  BY DEF Unimplemented, WellFormed
<1>2. CASE Raise("CpU", i.imm)
  <2>1. "CpU" \in DOMAIN ExcCode
    BY DEF ExcCode
  <2>2. QED
    BY <1>1, <1>2, <2>1, RaiseTyped
<1>3. CASE Put(i.rd, 0) /\ Proceed /\ UNCHANGED <<c0Vars, mem, irq>>
  <2>1. 0 \in Word
    BY EntriesAreWords
  <2>2. UNCHANGED c0Vars /\ UNCHANGED <<mem, irq>>
    BY <1>3
  <2>3. QED
    BY <1>3, <2>1, <2>2, PutTyped, ProceedTyped, UnchangedTyped DEF StepTyped
<1>4. QED
  BY <1>2, <1>3 DEF Unimplemented

(* Reads and writes of the registers of the coprocessor.                    *)
LEMMA ReadTyped ==
    ASSUME TypeOK, random' \in RandomLower..RandomUpper, NEW r \in C0Registers
    PROVE  ReadReg(r) \in Word
<1>1. /\ r = "Status" => ReadReg(r) = status
      /\ r = "Cause" => ReadReg(r) = cause + Flag(irq, IP)
      /\ r = "EPC" => ReadReg(r) = epc
      /\ r = "BadVAddr" => ReadReg(r) = badvaddr
      /\ r = "Context" => ReadReg(r) = context
      /\ r = "EntryHi" => ReadReg(r) = entryhi
      /\ r = "EntryLo" => ReadReg(r) = entrylo
      /\ r = "Index" => ReadReg(r) = index
      /\ r = "Random" => ReadReg(r) = random'
  BY DEF ReadReg
<1>2. status \in 0..511 /\ cause \in 0..2047 /\ irq \in BOOLEAN
  BY DEF TypeOK
<1>3. epc \in Word /\ badvaddr \in Word /\ context \in Word /\ entryhi \in Word /\ entrylo \in Word /\ index \in Word
  BY DEF TypeOK
<1>4. status \in Word
  <2>1. M \in Nat /\ M >= 4096
    BY Fields, WordSize
  <2>2. status \in 0..M - 1
    BY <1>2, <2>1
  <2>3. QED
    BY <2>2, Words
<1>5. cause + Flag(irq, IP) \in Word
  <2>1. M \in Nat /\ M >= 4096
    BY Fields, WordSize
  <2>2. Flag(irq, IP) \in {0, 128}
    BY Fields DEF Flag
  <2>3. cause \in 0..2047
    BY <1>2
  <2>4. cause + Flag(irq, IP) \in Nat /\ cause + Flag(irq, IP) <= 2175
    BY <2>2, <2>3
  <2>5. cause + Flag(irq, IP) \in 0..M - 1
    BY <2>1, <2>4
  <2>6. QED
    BY <2>5, Words
<1>6. random' \in Word
  <2>1. random' \in 0..TlbEntries - 1
    BY CPZeroAssumption
  <2>2. QED
    BY <2>1, EntriesAreWords
<1>7. r \in {"Status", "Cause", "EPC", "BadVAddr", "Context", "EntryHi", "EntryLo", "Index", "Random"}
  BY DEF C0Registers
<1>8. QED
  BY <1>1, <1>3, <1>4, <1>5, <1>6, <1>7

LEMMA WriteTyped ==
    ASSUME TypeOK, NEW r, NEW v \in Word, WriteReg(r, v)
    PROVE  StatusTyped /\ FaultTyped /\ EntriesTyped
<1>1. status \in 0..511 /\ cause \in 0..2047 /\ epc \in Word /\ badvaddr \in Word /\ context \in Word
      /\ entryhi \in Word /\ entrylo \in Word /\ index \in Word
      /\ tlb \in [0..TlbEntries - 1 -> Word \X Word]
  BY DEF TypeOK
<1>2. /\ status' = (IF r = "Status" THEN v % 2^(CU1 + 1) ELSE status)
      /\ cause' = (IF r = "Cause" THEN CauseField(v) ELSE cause)
      /\ context' = (IF r = "Context" THEN PteBase(v) + (context - PteBase(context)) ELSE context)
      /\ entryhi' = (IF r = "EntryHi" THEN v ELSE entryhi)
      /\ entrylo' = (IF r = "EntryLo" THEN v ELSE entrylo)
      /\ index' = (IF r = "Index" THEN v ELSE index)
      /\ UNCHANGED <<epc, badvaddr, tlb>>
  BY DEF WriteReg
<1>3. v % 2^(CU1 + 1) \in 0..511
  <2>1. v \in Nat
    BY WordsAreNumbers
  <2>2. v % 512 \in 0..511
    BY <2>1
  <2>3. QED
    BY <2>2, Fields
<1>4. CauseField(v) \in 0..2047
  BY CauseTyped
<1>5. PteBase(v) + (context - PteBase(context)) \in Word
  BY <1>1, ContextGraft
<1>6. StatusTyped
  BY <1>1, <1>2, <1>3, <1>4 DEF StatusTyped
<1>7. FaultTyped
  BY <1>1, <1>2, <1>5 DEF FaultTyped
<1>8. EntriesTyped
  BY <1>1, <1>2 DEF EntriesTyped
<1>9. QED
  BY <1>6, <1>7, <1>8

LEMMA TlbInstructionsTyped ==
    ASSUME TypeOK, Tlbwi \/ Tlbwr \/ Tlbr \/ Tlbp \/ Rfe
    PROVE  StatusTyped /\ FaultTyped /\ EntriesTyped
<1>1. status \in 0..511 /\ cause \in 0..2047 /\ epc \in Word /\ badvaddr \in Word /\ context \in Word
      /\ entryhi \in Word /\ entrylo \in Word /\ index \in Word
      /\ tlb \in [0..TlbEntries - 1 -> Word \X Word]
  BY DEF TypeOK
<1>2. ASSUME NEW x, TlbWrite(x) PROVE StatusTyped /\ FaultTyped /\ EntriesTyped
  <2>1. UNCHANGED excVars /\ UNCHANGED faultVars /\ tlb' = [tlb EXCEPT ![x] = <<entryhi, entrylo>>]
        /\ entrylo' = entrylo /\ index' = index
    BY <1>2 DEF TlbWrite
  <2>2. <<entryhi, entrylo>> \in Word \X Word
    BY <1>1
  <2>3. tlb' \in [0..TlbEntries - 1 -> Word \X Word]
    BY <1>1, <2>1, <2>2, UpdateTyped
  <2>4. EntriesTyped
    BY <1>1, <2>1, <2>3 DEF EntriesTyped
  <2>5. QED
    BY <2>1, <2>4, UnchangedTyped
<1>3. CASE Tlbwi \/ Tlbwr
  BY <1>2, <1>3 DEF Tlbwi, Tlbwr
<1>4. CASE Tlbr
  <2> DEFINE n == index % TlbEntries
  <2>1. entryhi' = tlb[n][1] /\ entrylo' = tlb[n][2] /\ UNCHANGED excVars
        /\ UNCHANGED <<badvaddr, context, index, tlb>>
    BY <1>4 DEF Tlbr
  <2>2. n \in 0..TlbEntries - 1
    <3>1. index \in Nat
      BY <1>1, WordsAreNumbers
    <3>2. TlbEntries \in Nat \ {0}
      BY CPZeroAssumption, WordSize DEF H
    <3>3. QED
      BY <3>1, <3>2
  <2> HIDE DEF n
  <2>3. tlb[n] \in Word \X Word
    BY <1>1, <2>2
  <2>4. entryhi' \in Word /\ entrylo' \in Word
    BY <2>1, <2>3
  <2>5. FaultTyped /\ EntriesTyped
    BY <1>1, <2>1, <2>4 DEF FaultTyped, EntriesTyped
  <2>6. QED
    BY <2>1, <2>5, UnchangedTyped
<1>5. CASE Tlbp
  <2>1. UNCHANGED excVars /\ UNCHANGED faultVars /\ entrylo' = entrylo /\ tlb' = tlb
        /\ index' = IF Matching(entryhi) = {} THEN ProbeFailure ELSE FirstMatching(entryhi)
    BY <1>5 DEF Tlbp
  <2>2. ProbeFailure \in Word
    BY EntriesAreWords DEF ProbeFailure, H
  <2>3. index' \in Word
    BY <2>1, <2>2, FirstTyped, EntriesAreWords
  <2>4. EntriesTyped
    BY <1>1, <2>1, <2>3 DEF EntriesTyped
  <2>5. QED
    BY <2>1, <2>4, UnchangedTyped
<1>6. CASE Rfe
  <2>1. status' = PopMode(status) /\ UNCHANGED <<cause, epc>> /\ UNCHANGED faultVars /\ UNCHANGED tlbVars
    BY <1>6 DEF Rfe
  <2>2. StatusTyped
    <3>1. PopMode(status) \in 0..511
      <4>1. status \in 0..511
        BY <1>1
      <4>2. QED
        BY <4>1, ModesTyped
    <3>2. QED
      BY <1>1, <2>1, <3>1 DEF StatusTyped
  <2>3. QED
    BY <2>1, <2>2, UnchangedTyped
<1>7. QED
  BY <1>3, <1>4, <1>5, <1>6

LEMMA CoprocessorZeroTyped ==
    ASSUME TypeOK, random' \in RandomLower..RandomUpper, NEW i, WellFormed(i), CoprocessorZero(i)
    PROVE  StepTyped
<1>1. Proceed /\ UNCHANGED <<mem, irq>>
  BY DEF CoprocessorZero
<1>2. CASE i.op = "mfc0" /\ Put(i.rt, ReadReg(i.rd)) /\ UNCHANGED c0Vars
  <2>1. i.rd \in C0Registers
    BY <1>2 DEF WellFormed
  <2>2. QED
    BY <1>1, <1>2, <2>1, ReadTyped, PutTyped, ProceedTyped, UnchangedTyped DEF StepTyped
<1>3. CASE i.op = "mtc0" /\ WriteReg(i.rd, gpr[i.rt]) /\ UNCHANGED gpr
  <2>1. i.op \notin Computations
    BY <1>3 DEF Computations
  <2>2. gpr[i.rt] \in Word
    BY <2>1, OperandsTyped
  <2>3. QED
    BY <1>1, <1>3, <2>2, WriteTyped, ProceedTyped, UnchangedTyped DEF StepTyped
<1>4. CASE (Tlbwi \/ Tlbwr \/ Tlbr \/ Tlbp \/ Rfe) /\ UNCHANGED gpr
  BY <1>1, <1>4, TlbInstructionsTyped, ProceedTyped, UnchangedTyped DEF StepTyped
<1>5. QED
  BY <1>2, <1>3, <1>4 DEF CoprocessorZero

LEMMA EmulateTyped ==
    ASSUME TypeOK, SaveEpc, random' \in RandomLower..RandomUpper, NEW i, WellFormed(i), Emulate(i)
    PROVE  StepTyped
BY CalculateTyped, MultiplyTyped, TransferTyped, LoadTyped, StoreTyped, TrapTyped,
   UnimplementedTyped, CoprocessorZeroTyped DEF Emulate

(* Whatever the program and the layout of memory, every register keeps its  *)
(* width through every instruction, exception and translation, register     *)
(* zero is zero, and Random stays between its bounds (step, exception,      *)
(* cpzero.cc): an induction on TypeOK itself.                               *)
THEOREM TypeCorrect == Spec => []TypeOK
<1>1. Init => TypeOK
  <2> SUFFICES ASSUME Init PROVE TypeOK
    OBVIOUS
  <2>1. 0 \in Word /\ ResetPc \in Word /\ "zero" \in GPR /\ Data \in [DOMAIN Data -> Word]
    BY EntriesAreWords, CPUAssumption
  <2>2. /\ pc = ResetPc /\ delay_state = "NORMAL" /\ delay_pc = 0 /\ next_epc = 0
        /\ exception_pending = FALSE /\ undefined = FALSE /\ irq = FALSE
        /\ epc = 0 /\ badvaddr = 0 /\ context = 0 /\ entryhi = 0 /\ entrylo = 0 /\ index = 0
    BY DEF Init
  <2>3. status = 128 /\ cause = 0 /\ random = RandomUpper
    BY Fields DEF Init, Reset
  <2>4. random \in RandomLower..RandomUpper
    BY <2>3, CPZeroAssumption
  <2>5. gpr \in [GPR -> Word] /\ gpr["zero"] = 0
    BY <2>1 DEF Init
  <2>6. mem \in [DOMAIN Data -> Word]
    BY <2>1 DEF Init
  <2>7. tlb \in [0..TlbEntries - 1 -> Word \X Word]
    <3>1. tlb = [x \in 0..TlbEntries - 1 |-> <<0, 0>>]
      BY DEF Init
    <3>2. <<0, 0>> \in Word \X Word
      BY <2>1
    <3>3. QED
      BY <3>1, <3>2
  <2>8. status \in 0..511 /\ cause \in 0..2047
    BY <2>3
  <2>9. \A r \in {epc, badvaddr, context, entryhi, entrylo, index} : r \in Word
    BY <2>1, <2>2
  <2>10. pc \in Word /\ delay_pc \in Word /\ next_epc \in Word /\ delay_state \in {"NORMAL", "DELAYSLOT"}
         /\ exception_pending \in BOOLEAN /\ undefined \in BOOLEAN /\ irq \in BOOLEAN
    BY <2>1, <2>2
  <2>11. QED
    BY <2>4, <2>5, <2>6, <2>7, <2>8, <2>9, <2>10 DEF TypeOK
<1>2. TypeOK /\ [Next]_vars => TypeOK'
  <2> SUFFICES ASSUME TypeOK, [Next]_vars PROVE TypeOK'
    OBVIOUS
  <2>1. CASE Step
    <3>1. SaveEpc /\ random' = AdjustRandom
      BY <2>1 DEF Step
    <3>2. random' \in RandomLower..RandomUpper
      BY <3>1, AdjustRandomBounds DEF TypeOK
    <3>3. next_epc' \in Word
      BY <3>1 DEF SaveEpc, TypeOK
    <3>4. StepTyped
      <4>1. CASE FetchFault
        <5>1. pc \in Word
          BY DEF TypeOK
        <5>2. QED
          BY <3>1, <4>1, <5>1, TranslationFaultTyped DEF FetchFault, Fetched
      <4>2. CASE Misaligned \/ FetchBusError \/ TakeInterrupt
        <5>1. \E code \in {"AdEL", "IBE", "Int"} : Raise(code, 0)
          BY <4>2 DEF Misaligned, FetchBusError, TakeInterrupt
        <5>2. \A code \in {"AdEL", "IBE", "Int"} : code \in DOMAIN ExcCode /\ code # "CpU"
          BY DEF ExcCode
        <5>3. QED
          BY <3>1, <5>1, <5>2, RaiseTyped
      <4>3. CASE Instruction
        <5>1. PICK i \in Code[Fetched.phys] : Emulate(i)
          BY <4>3 DEF Instruction
        <5>2. WellFormed(i)
          <6>1. Fetched.phys \in DOMAIN Code
            BY <4>3 DEF Instruction, Reaches
          <6>2. QED
            BY <5>1, <6>1, CodeAssumption
        <5>3. QED
          BY <3>1, <3>2, <5>1, <5>2, EmulateTyped
      <4>4. QED
        BY <2>1, <4>1, <4>2, <4>3 DEF Step
    <3>5. QED
      BY <3>2, <3>3, <3>4 DEF StepTyped, FlowTyped, StatusTyped, FaultTyped, EntriesTyped, RegistersTyped,
                              MemoryTyped, TypeOK
  <2>2. CASE Interrupt
    BY <2>2 DEF Interrupt, TypeOK, c0Vars, excVars, faultVars, tlbVars
  <2>3. CASE UNCHANGED vars
    BY <2>3 DEF vars, TypeOK, c0Vars, excVars, faultVars, tlbVars
  <2>4. QED
    BY <2>1, <2>2, <2>3 DEF Next
<1>3. QED
  BY <1>1, <1>2, PTL DEF Spec
-----------------------------------------------------------------------------
(* The operators of the abstract program are those of the processor.        *)
LEMMA SameWrap == \A n : Program!Wrap(n) = Wrap(n)
BY DEF Program!Wrap, Wrap

LEMMA SameSigned == \A a : Program!Negative(a) = Negative(a) /\ Program!Signed(a) = Signed(a)
BY DEF Program!Negative, Negative, Program!Signed, Signed

LEMMA SameCompute == \A op, a, b : Program!Compute(op, a, b) = Compute(op, a, b)
BY DEF Program!Compute, Compute, Program!Wrap, Wrap, Program!Negative, Negative, Program!Signed, Signed,
       Program!FromBits, FromBits, Program!Bits, Bits, Program!Slt, Slt, Program!Sltu, Sltu,
       Program!Srl, Srl, Program!Sra, Sra, Program!ShiftRight, ShiftRight

LEMMA SameProduct == \A op, a, b : Program!Product(op, a, b) = Product(op, a, b)
BY DEF Program!Product, Product, Program!Quotients, Quotients, Program!Divided, Divided,
       Program!Mult64, Mult64, Program!Mult64s, Mult64s, Program!Wrap, Wrap,
       Program!Negative, Negative, Program!Signed, Signed, Program!Word, Word

LEMMA SameLoaded == \A op, reg, word, va : Program!Loaded(op, reg, word, va) = Loaded(op, reg, word, va)
BY DEF Program!Loaded, Loaded, Program!Part, Part, Program!SignExtended, SignExtended, Program!Lwl, Lwl,
       Program!Lwr, Lwr, Program!Upper, Upper, Program!Bytes, Bytes, Program!Right, Right, Program!Wrap, Wrap,
       Program!LeftShift, LeftShift, Program!RightShift, RightShift, Program!Width, Width

LEMMA SameStored == \A op, reg, word, va : Program!Stored(op, reg, word, va) = Stored(op, reg, word, va)
BY DEF Program!Stored, Stored, Program!Replaced, Replaced, Program!Part, Part, Program!Swl, Swl,
       Program!Swr, Swr, Program!Upper, Upper, Program!Bytes, Bytes, Program!Right, Right, Program!Wrap, Wrap,
       Program!LeftShift, LeftShift, Program!RightShift, RightShift, Program!Width, Width

LEMMA SameSets ==
    /\ Program!Computations = Computations /\ Program!Products = Products /\ Program!Transfers = Transfers
    /\ Program!Loads = Loads /\ Program!Stores = Stores
BY DEF Program!Computations, Computations, Program!Products, Products, Program!Transfers, Transfers,
       Program!Branches, Branches, Program!Jumps, Jumps, Program!RegisterJumps, RegisterJumps,
       Program!Loads, Loads, Program!Stores, Stores

LEMMA SameTests ==
    /\ \A op, a, b : Program!Overflows(op, a, b) = Overflows(op, a, b) /\ Program!Taken(op, a, b) = Taken(op, a, b)
    /\ \A i, r : Program!Operand(i, r) = Operand(i, r) /\ Program!Reserved(i, r) = Reserved(i, r)
    /\ \A op, va : Program!Accessed(op, va) = Accessed(op, va)
    /\ \A op : Program!Width(op) = Width(op)
    /\ \A va : Program!Base(va) = Base(va)
BY DEF Program!Overflows, Overflows, Program!AddOverflows, AddOverflows, Program!SubOverflows, SubOverflows,
       Program!Taken, Taken, Program!Operand, Operand, Program!Reserved, Reserved, Program!Accessed, Accessed,
       Program!Unaligned, Unaligned, Program!Width, Width, Program!Base, Base, Program!Wrap, Wrap,
       Program!Negative, Negative

LEMMA SameControl ==
    /\ \A i, a, p : Program!Target(i, a, p) = Target(i, a, p)
    /\ \A i, r, p : Program!Linked(i, r, p) = Linked(i, r, p)
    /\ \A r, x, v : Program!Assigned(r, x, v) = Assigned(r, x, v)
BY DEF Program!Target, Target, Program!Linked, Linked, Program!Link, Link, Program!Assigned, Assigned,
       Program!Branches, Branches, Program!Jumps, Jumps, Program!RegisterJumps, RegisterJumps, Program!Wrap, Wrap

-----------------------------------------------------------------------------
(* Pages of words, and the words in them.                                   *)
LEMMA PageOfFour == \E c \in Nat \ {0} : PageSize = 4 * c
<1>1. PICK k \in 4..W - 3 : PageSize = 2^k
  BY CPZeroAssumption
<1>2. k - 2 \in 0..W /\ 2 \in 0..W /\ 2 + (k - 2) = k
  BY <1>1, ArithmeticAssumption
<1>3. 2^(2 + (k - 2)) = 2^2 * 2^(k - 2) /\ 2^(k - 2) \in Nat \ {0}
  BY <1>2, PowerAssumption
<1>4. 2^2 = 4
  OBVIOUS
<1>5. QED
  BY <1>1, <1>2, <1>3, <1>4

LEMMA PageParts ==
    ASSUME NEW v \in Nat
    PROVE  /\ Vpn(v) \in Nat /\ v % PageSize \in 0..PageSize - 1
           /\ v = Vpn(v) + (v % PageSize) /\ Vpn(v) % PageSize = 0
<1> DEFINE s == PageSize
           q == v \div s
           r == v % s
           w == s * q
<1>1. s \in Nat \ {0}
  BY Pages
<1>2. q \in Nat /\ r \in 0..s - 1 /\ v = w + r
  BY <1>1, Digits
<1>3. w \in Nat /\ w = q * s
  <2> HIDE DEF q, s
  <2>1. QED
    BY <1>1, <1>2
<1>4. w % s = 0
  <2> HIDE DEF w, q, s
  <2>1. w - q * s \in 0..s - 1 /\ w - q * s = 0
    BY <1>1, <1>2, <1>3
  <2>2. s \in Nat \ {0} /\ w \in Int /\ q \in Int
    BY <1>1, <1>2, <1>3
  <2>3. w % s = w - q * s
    BY <2>1, <2>2, QuotientUnique
  <2>4. QED
    BY <2>1, <2>3
<1>5. Vpn(v) = v - r
  BY DEF Vpn
<1> HIDE DEF w, r, q, s
<1>6. Vpn(v) = w
  BY <1>2, <1>3, <1>5
<1>7. QED
  BY <1>2, <1>3, <1>4, <1>6 DEF r, s

LEMMA PageAndOffset ==
    ASSUME NEW page \in Nat, page % PageSize = 0, NEW o \in 0..PageSize - 1
    PROVE  /\ (page + o) % PageSize = o /\ Vpn(page + o) = page
           /\ (page + o) % 4 = o % 4 /\ o - (o % 4) \in 0..PageSize - 1
<1> DEFINE s == PageSize
           q == page \div s
           w == q * s
<1>1. s \in Nat \ {0}
  BY Pages
<1>2. q \in Nat /\ page = w
  <2>1. q \in Nat /\ page = s * q + (page % s)
    BY <1>1, Digits
  <2>2. w \in Nat /\ s * q = w
    <3> HIDE DEF q, s
    <3>1. QED
      BY <1>1, <2>1
  <2>3. QED
    BY <2>1, <2>2
<1>3. page + o \in Int /\ (page + o) - w = o
  <2> HIDE DEF w
  <2>1. QED
    BY <1>2
<1>4. (page + o) % s = o
  <2> DEFINE x == page + o
  <2>1. x \in Int /\ x - q * s \in 0..s - 1 /\ x - q * s = o
    BY <1>3
  <2> HIDE DEF x, q
  <2>2. x % s = x - q * s
    BY <1>1, <1>2, <2>1, QuotientUnique
  <2>3. QED
    BY <2>1, <2>2 DEF x
<1>5. Vpn(page + o) = page
  BY <1>1, <1>4 DEF Vpn
<1>6. PICK c \in Nat \ {0} : s = 4 * c
  BY PageOfFour
<1> DEFINE z == q * c
<1>7. z \in Nat /\ page = 4 * z
  <2>1. z \in Nat /\ q * (4 * c) = 4 * z
    <3> HIDE DEF q
    <3>1. QED
      BY <1>2, <1>6
  <2>2. QED
    BY <1>2, <1>6, <2>1
<1> HIDE DEF z, w, q, s
<1>8. (4 * z + o) % 4 = o % 4
  BY <1>7
<1>9. o - (o % 4) \in 0..PageSize - 1
  BY <1>1 DEF s
<1>10. QED
  BY <1>4, <1>5, <1>7, <1>8, <1>9 DEF s

(* The word of an address lies in its page.                                 *)
LEMMA BaseInPage ==
    ASSUME NEW v \in Nat
    PROVE  /\ Base(v) \in Nat /\ Vpn(Base(v)) = Vpn(v)
           /\ \A n \in Nat : n % PageSize = 0 => Base(n + (v % PageSize)) = n + (Base(v) % PageSize)
<1> DEFINE p == Vpn(v)
           o == v % PageSize
           b == o - (o % 4)
<1>1. p \in Nat /\ o \in 0..PageSize - 1 /\ v = p + o /\ p % PageSize = 0
  BY PageParts
<1>2. v % 4 = o % 4 /\ b \in 0..PageSize - 1
  BY <1>1, PageAndOffset
<1>3. Base(v) = v - (o % 4)
  BY <1>2 DEF Base
<1>4. o % 4 \in Int /\ PageSize \in Nat
  BY <1>1, Pages
<1>5. Base(v) = p + b
  <2> HIDE DEF p, o
  <2>1. v - (o % 4) = p + (o - (o % 4))
    BY <1>1, <1>4
  <2>2. QED
    BY <1>3, <2>1
<1>6. Vpn(p + b) = p /\ (p + b) % PageSize = b
  BY <1>1, <1>2, PageAndOffset
<1>7. ASSUME NEW n \in Nat, n % PageSize = 0
      PROVE  Base(n + o) = n + b
  <2>1. (n + o) % 4 = o % 4
    BY <1>1, <1>7, PageAndOffset
  <2>2. Base(n + o) = (n + o) - (o % 4)
    BY <2>1 DEF Base
  <2> HIDE DEF o
  <2>3. (n + o) - (o % 4) = n + (o - (o % 4))
    BY <1>1, <1>4, <1>7
  <2>4. QED
    BY <2>2, <2>3
<1>8. p + b \in Nat
  <2> HIDE DEF p, b
  <2>1. QED
    BY <1>1, <1>2
<1>9. QED
  BY <1>5, <1>6, <1>7, <1>8

(* A program's address and the word behind it.                              *)
LEMMA InVirtual ==
    ASSUME NEW v \in Nat, Vpn(v) \in DOMAIN UserPage, NEW domain, Physical(v) \in domain
    PROVE  v \in Virtual(domain)
<1>1. Vpn(v) \in Nat /\ v % PageSize \in 0..PageSize - 1 /\ v = Vpn(v) + (v % PageSize) /\ PageSize \in Nat
  BY PageParts, Pages
<1>2. v \in Vpn(v)..Vpn(v) + PageSize - 1
  <2> DEFINE p == Vpn(v)
             o == v % PageSize
  <2> HIDE DEF p, o
  <2>1. p \in Nat /\ o \in 0..PageSize - 1 /\ v = p + o
    BY <1>1 DEF p, o
  <2>2. v \in p..p + PageSize - 1
    BY <1>1, <2>1
  <2>3. QED
    BY <2>2 DEF p
<1>3. QED
  BY <1>2 DEF Virtual, Physical

LEMMA VirtualPages ==
    ASSUME NEW domain, NEW v \in Virtual(domain)
    PROVE  v \in Nat /\ Vpn(v) \in DOMAIN UserPage /\ Physical(v) \in domain
<1>1. PICK page \in DOMAIN UserPage : v \in page..page + PageSize - 1
  BY DEF Virtual
<1>2. page \in Nat /\ page % PageSize = 0 /\ PageSize \in Nat
  <2>1. Kseg0 \in Nat
    BY Pages
  <2>2. page \in 0..Kseg0 - 1 /\ page % PageSize = 0
    BY <1>1, UserAssumption
  <2>3. QED
    BY <2>1, <2>2, Pages
<1>3. v \in Nat /\ v - page \in 0..PageSize - 1 /\ page + (v - page) = v
  BY <1>1, <1>2
<1>4. Vpn(v) = page
  BY <1>2, <1>3, PageAndOffset
<1>5. QED
  BY <1>1, <1>3, <1>4 DEF Virtual, Physical

(* No two of the program's addresses stand for one word.                    *)
LEMMA PhysicalInjective ==
    ASSUME NEW domain, NEW u \in Virtual(domain), NEW v \in Virtual(domain), Physical(u) = Physical(v)
    PROVE  u = v
<1>1. u \in Nat /\ v \in Nat /\ Vpn(u) \in DOMAIN UserPage /\ Vpn(v) \in DOMAIN UserPage
  BY VirtualPages
<1> DEFINE a == UserPage[Vpn(u)]
           b == UserPage[Vpn(v)]
           x == u % PageSize
           y == v % PageSize
<1>2. a \in Nat /\ b \in Nat /\ a % PageSize = 0 /\ b % PageSize = 0
  BY <1>1, UserAssumption
<1>3. x \in 0..PageSize - 1 /\ y \in 0..PageSize - 1 /\ u = Vpn(u) + x /\ v = Vpn(v) + y
  BY <1>1, PageParts
<1>4. a + x = b + y
  BY DEF Physical
<1>5. Vpn(a + x) = a /\ Vpn(b + y) = b /\ (a + x) % PageSize = x /\ (b + y) % PageSize = y
  <2> HIDE DEF a, b, x, y
  <2>1. QED
    BY <1>2, <1>3, PageAndOffset
<1>6. a = b /\ x = y
  BY <1>4, <1>5
<1>7. Vpn(u) = Vpn(v)
  BY <1>1, <1>6, UserAssumption
<1>8. QED
  BY <1>3, <1>6, <1>7

-----------------------------------------------------------------------------
(* The registers that the program sees, and what is true while it runs: a   *)
(* slot is entered by a branch of its own, whose link is written.           *)
Seen == [r \in UserRegs |-> gpr[r]]

SlotOfProgram ==
    delay_state = "DELAYSLOT" =>
        /\ next_epc \in DOMAIN ProgramCode /\ pc = Wrap(next_epc + 4)
        /\ \E i \in ProgramCode[next_epc] :
              /\ i.op \in Transfers /\ ~Reserved(i, Seen) /\ Taken(i.op, Seen[i.rs], Seen[i.rt])
              /\ Seen = Linked(i, Seen, next_epc)
              /\ delay_pc = Target(i, Seen[i.rs], next_epc)

UserInv == ~KernelMode => TlbFollowsTable /\ ~Bit(status, BEV) /\ SlotOfProgram

(* A translation for the program finds the table's page.                    *)
LEMMA Translated ==
    ASSUME TlbFollowsTable, ~KernelMode, NEW v \in Nat, NEW mode, AddressTrans(v, mode).exc = "none"
    PROVE  /\ Vpn(v) \in DOMAIN UserPage /\ AddressTrans(v, mode).phys = Physical(v)
           /\ mode = "DATASTORE" =>
                 \A u \in Virtual(DOMAIN mem) : Vpn(u) = Vpn(v) => u \in UserWritable
<1> DEFINE x == FirstMatching(v)
           lo == tlb[x][2]
           t == AddressTrans(v, mode)
           hit == Matching(v) # {} /\ Bit(lo, Valid)
           clean == mode = "DATASTORE" /\ ~Bit(lo, Dirty)
<1>1. \A code, miss : Fault(code, miss).exc = code
  BY DEF Fault
<1>2. v < Kseg0
  <2> SUFFICES ASSUME ~(v < Kseg0) PROVE FALSE
    OBVIOUS
  <2>1. t = Fault(IF mode = "DATASTORE" THEN "AdES" ELSE "AdEL", FALSE)
    BY DEF AddressTrans
  <2>2. t.exc = IF mode = "DATASTORE" THEN "AdES" ELSE "AdEL"
    BY <1>1, <2>1
  <2>3. QED
    BY <2>2
<1>3. t = TlbTranslate(TRUE, v, mode)
  BY <1>2 DEF AddressTrans
<1>4. hit
  <2> SUFFICES ASSUME ~hit PROVE FALSE
    OBVIOUS
  <2>1. t = Fault(IF mode = "DATASTORE" THEN "TLBS" ELSE "TLBL", TRUE /\ Matching(v) = {})
    BY <1>3 DEF TlbTranslate
  <2>2. t.exc = IF mode = "DATASTORE" THEN "TLBS" ELSE "TLBL"
    BY <1>1, <2>1
  <2>3. QED
    BY <2>2
<1>5. ~clean
  <2> SUFFICES ASSUME clean PROVE FALSE
    OBVIOUS
  <2>1. t = Fault("Mod", FALSE)
    BY <1>3, <1>4 DEF TlbTranslate
  <2>2. t.exc = "Mod"
    BY <1>1, <2>1
  <2>3. QED
    BY <2>2
<1>6. t = NoFault(Vpn(lo) + (v % PageSize))
  BY <1>3, <1>4, <1>5 DEF TlbTranslate
<1>7. t.phys = Vpn(lo) + (v % PageSize)
  BY <1>6 DEF NoFault
<1>8. x \in 0..TlbEntries - 1 /\ Matches(tlb[x], v, Asid(entryhi))
  <2>1. x \in Matching(v) /\ x \in 0..TlbEntries - 1
    BY <1>4, FirstTyped
  <2>2. QED
    BY <2>1 DEF Matching
<1>9. Vpn(tlb[x][1]) = Vpn(v) /\ Vpn(Vpn(v)) = Vpn(v) /\ Vpn(v) < Kseg0
  <2>1. Vpn(tlb[x][1]) = Vpn(v)
    BY <1>8 DEF Matches
  <2> DEFINE p == Vpn(v)
             o == v % PageSize
  <2>2. p \in Nat /\ o \in 0..PageSize - 1 /\ v = p + o /\ p % PageSize = 0
    BY PageParts
  <2>3. Kseg0 \in Nat /\ PageSize \in Nat \ {0}
    BY Pages
  <2>4. Vpn(p) = p
    <3> HIDE DEF p
    <3>1. Vpn(p) = p - 0
      BY <2>2 DEF Vpn
    <3>2. QED
      BY <2>2, <3>1
  <2>5. p < Kseg0
    <3> HIDE DEF p, o
    <3>1. QED
      BY <1>2, <2>2, <2>3
  <2>6. QED
    BY <2>1, <2>4, <2>5
<1>10. Matches(tlb[x], Vpn(tlb[x][1]), Asid(entryhi))
  BY <1>8, <1>9 DEF Matches
<1>11. /\ Vpn(v) \in DOMAIN UserPage /\ Vpn(lo) = UserPage[Vpn(v)]
       /\ Bit(lo, Dirty) => {u \in Virtual(DOMAIN mem) : Vpn(u) = Vpn(v)} \subseteq UserWritable
  BY <1>4, <1>8, <1>9, <1>10 DEF TlbFollowsTable
<1>12. QED
  BY <1>5, <1>7, <1>11 DEF Physical

(* Where an exception leads, and that the program does not see it.          *)
LEMMA Vectors ==
    /\ Kseg0 \in Nat /\ Kseg1 \in Nat /\ Kseg0 < Kseg1 /\ GeneralVector \in Nat
    /\ Kseg0 + GeneralVector < Kseg1
<1>1. W - 3 \in 0..W /\ Kseg0 \in Nat
  BY ArithmeticAssumption, CPZeroAssumption, Pages
<1>2. 2^(W - 3) \in Nat \ {0}
  BY <1>1, PowerAssumption
<1>3. Kseg1 = Kseg0 + 2^(W - 3)
  BY DEF Kseg1
<1> DEFINE y == 2^(W - 3)
<1> HIDE DEF y
<1>4. Kseg1 \in Nat /\ Kseg0 < Kseg1
  BY <1>1, <1>2, <1>3 DEF y
<1>5. QED
  BY <1>1, <1>4, CPUAssumption, UserAssumption

LEMMA UserView ==
    ASSUME ~KernelMode
    PROVE  /\ Pending = IF delay_state = "DELAYSLOT" THEN next_epc ELSE pc
           /\ ~Booting
BY DEF Pending, Booting

LEMMA ViewUnchanged ==
    ASSUME Pending' = Pending, ~Booting', ~KernelMode, UNCHANGED <<gpr, mem>>
    PROVE  UNCHANGED Program!vars
<1>1. ~Booting
  BY UserView
<1>2. QED
  BY <1>1 DEF Program!vars

LEMMA ExceptionHidden ==
    ASSUME TypeOK, ~KernelMode, ~Bit(status, BEV), SaveEpc, NEW code, NEW c, NEW miss \in BOOLEAN,
           Exception(code, c, miss), UNCHANGED <<gpr, mem>>
    PROVE  UNCHANGED Program!vars /\ KernelMode'
<1>1. status \in 0..511
  BY DEF TypeOK
<1>2. status' = PushMode(status) /\ epc' = next_epc'
  BY DEF Exception, EnterException
<1>3. KernelMode'
  <2>1. PushMode(status) % 4 = 0 /\ PushMode(status) \in Nat
    <3>1. status \in Nat
      BY <1>1
    <3>2. PushMode(status) \in 0..511
      BY <1>1, ModesTyped
    <3>3. PushMode(status) % 4 = 0
      BY <3>1, ModeStack
    <3>4. QED
      BY <3>2, <3>3
  <2>2. 2^KUc = 2
    BY DEF KUc
  <2>3. \A n \in Nat : n % 4 = 0 => ~((n \div 2) % 2 = 1)
    OBVIOUS
  <2>4. ~Bit(PushMode(status), KUc)
    BY <2>1, <2>2, <2>3 DEF Bit
  <2>5. QED
    BY <1>2, <2>4 DEF KernelMode, Bit
<1>4. ~Booting'
  <2>1. pc' = Kseg0 + (IF miss THEN 0 ELSE GeneralVector)
    BY DEF Exception
  <2>2. pc' < Kseg1 /\ Kseg1 \in Nat /\ pc' \in Nat
    BY <2>1, Vectors
  <2>3. ~(pc' >= Kseg1)
    BY <2>2
  <2>4. QED
    BY <2>3 DEF Booting, Kseg1, Kseg0
<1>5. Pending' = next_epc'
  BY <1>2, <1>3, <1>4 DEF Pending
<1>6. Pending' = Pending
  BY <1>5, UserView DEF SaveEpc
<1>7. QED
  BY <1>3, <1>4, <1>6, ViewUnchanged

LEMMA RaiseHidden ==
    ASSUME TypeOK, ~KernelMode, ~Bit(status, BEV), SaveEpc, NEW code, NEW c, Raise(code, c)
    PROVE  UNCHANGED Program!vars /\ KernelMode'
BY ExceptionHidden DEF Raise

LEMMA FaultHidden ==
    ASSUME TypeOK, ~KernelMode, ~Bit(status, BEV), SaveEpc, NEW v, NEW mode, NEW u,
           AddressTrans(v, mode).exc # "none",
           TranslationFault(AddressTrans(v, mode), u)
    PROVE  UNCHANGED Program!vars /\ KernelMode'
<1> DEFINE t == AddressTrans(v, mode)
<1>1. Exception(t.exc, 0, t.userMiss) /\ UNCHANGED <<gpr, mem>>
  BY DEF TranslationFault
<1>2. \A code, miss : Fault(code, miss).userMiss = miss
  BY DEF Fault
<1>3. t.userMiss \in BOOLEAN
  <2>1. ~(v < Kseg0) => t = Fault(IF mode = "DATASTORE" THEN "AdES" ELSE "AdEL", FALSE)
    BY DEF AddressTrans
  <2>2. v < Kseg0 => t = TlbTranslate(TRUE, v, mode)
    BY DEF AddressTrans
  <2> DEFINE lo == tlb[FirstMatching(v)][2]
             hit == Matching(v) # {} /\ Bit(lo, Valid)
             k == TlbTranslate(TRUE, v, mode)
  <2>3. hit => k = IF mode = "DATASTORE" /\ ~Bit(lo, Dirty) THEN Fault("Mod", FALSE)
                   ELSE NoFault(Vpn(lo) + (v % PageSize))
    BY DEF TlbTranslate
  <2>4. ~hit => k = Fault(IF mode = "DATASTORE" THEN "TLBS" ELSE "TLBL", TRUE /\ Matching(v) = {})
    BY DEF TlbTranslate
  <2>5. \A pa : NoFault(pa).userMiss = FALSE
    BY DEF NoFault
  <2> HIDE DEF k, hit, lo
  <2>6. k.userMiss \in BOOLEAN
    <3>1. CASE hit
      <4>1. k.userMiss = FALSE
        BY <1>2, <2>3, <2>5, <3>1
      <4>2. QED
        BY <4>1
    <3>2. CASE ~hit
      <4>1. k.userMiss = (TRUE /\ Matching(v) = {})
        BY <1>2, <2>4, <3>2
      <4>2. QED
        BY <4>1
    <3>3. QED
      BY <3>1, <3>2
  <2>7. v < Kseg0 \/ ~(v < Kseg0)
    OBVIOUS
  <2>8. ~(v < Kseg0) => t.userMiss = FALSE
    BY <1>2, <2>1
  <2>9. QED
    BY <2>2, <2>6, <2>7, <2>8 DEF k
<1>4. QED
  BY <1>1, <1>3, ExceptionHidden

-----------------------------------------------------------------------------
(* A step of the program in which nothing interrupts it.                    *)
Hidden == UNCHANGED Program!vars /\ KernelMode'

Completed(i) == Proceed /\ UNCHANGED c0Vars /\ Program!Completes(i, Seen)

SeenData == [v \in Virtual(DOMAIN mem) |-> mem[Physical(v)]]

LEMMA SeenOperands ==
    ASSUME TypeOK, NEW i, Ordinary(i)
    PROVE  /\ Seen[i.rs] = gpr[i.rs] /\ Seen[i.rd] = gpr[i.rd] /\ Operand(i, Seen) = Operand(i, gpr)
           /\ i.op \notin Computations => Seen[i.rt] = gpr[i.rt]
           /\ Reserved(i, Seen) = Reserved(i, gpr)
<1>1. Seen[i.rs] = gpr[i.rs] /\ Seen[i.rd] = gpr[i.rd] /\ i.rs \in UserRegs /\ i.rd \in UserRegs
  BY DEF Ordinary, Seen
<1>2. i.rt \in UserRegs => Seen[i.rt] = gpr[i.rt]
  BY DEF Seen
<1>3. i.rt \in UserRegs \/ (i.rt = "imm" /\ i.op \in Computations)
  BY DEF Ordinary
<1>4. QED
  BY <1>1, <1>2, <1>3 DEF Operand, Reserved

LEMMA StillUser ==
    ASSUME ~KernelMode, UNCHANGED c0Vars
    PROVE  /\ ~KernelMode' /\ ~Booting /\ ~Booting'
           /\ (IF Booting THEN EntryRegs ELSE [r \in UserRegs |-> gpr[r]])' = Seen'
           /\ [v \in Virtual(DOMAIN mem) |-> mem[Physical(v)]] = SeenData
           /\ [v \in Virtual(DOMAIN mem) |-> mem[Physical(v)]]' = SeenData'
<1>1. status' = status
  BY DEF c0Vars, excVars
<1>2. ~KernelMode'
  BY <1>1 DEF KernelMode, Bit
<1>3. ~Booting /\ ~Booting'
  BY <1>2 DEF Booting
<1>4. QED
  BY <1>2, <1>3 DEF Seen, SeenData

LEMMA SeenPut ==
    ASSUME TypeOK, NEW x \in UserRegs, NEW v, Put(x, v)
    PROVE  Seen' = Assigned(Seen, x, v)
<1>1. gpr \in [GPR -> Word] /\ UserRegs \subseteq GPR
  BY UserAssumption DEF TypeOK
<1>2. gpr' = [gpr EXCEPT ![x] = IF x = "zero" THEN 0 ELSE v]
  BY DEF Put, Assigned
<1>3. \A r \in UserRegs : gpr'[r] = IF r = x THEN (IF x = "zero" THEN 0 ELSE v) ELSE gpr[r]
  BY <1>1, <1>2
<1>4. QED
  BY <1>3 DEF Seen, Assigned

LEMMA SeenDataKept == ASSUME mem' = mem PROVE SeenData' = SeenData
BY DEF SeenData

LEMMA CalculateSeen ==
    ASSUME TypeOK, ~KernelMode, ~Bit(status, BEV), SaveEpc, NEW i, Ordinary(i), Calculate(i)
    PROVE  Hidden \/ Completed(i)
<1> DEFINE a == gpr[i.rs]
           b == Operand(i, gpr)
<1>1. CASE Overflows(i.op, a, b)
  BY <1>1, RaiseHidden DEF Calculate, Hidden
<1>2. CASE ~Overflows(i.op, a, b)
  <2>1. /\ i.op \in Computations /\ Put(i.rd, Compute(i.op, a, b)) /\ Proceed /\ UNCHANGED c0Vars /\ mem' = mem
    BY <1>2 DEF Calculate
  <2>2. Seen' = Assigned(Seen, i.rd, Compute(i.op, a, b))
    <3>1. i.rd \in UserRegs
      BY DEF Ordinary
    <3>2. QED
      BY <2>1, <3>1, SeenPut
  <2>3. a = Seen[i.rs] /\ b = Operand(i, Seen)
    BY SeenOperands
  <2>4. SeenData' = SeenData
    BY <2>1, SeenDataKept
  <2> HIDE DEF a, b
  <2>5. Program!Completes(i, Seen)
    BY <1>2, <2>1, <2>2, <2>3, <2>4, StillUser, SameSets, SameTests, SameCompute, SameControl
       DEF Program!Completes
  <2>6. QED
    BY <2>1, <2>5 DEF Completed
<1>3. QED
  BY <1>1, <1>2

LEMMA MultiplySeen ==
    ASSUME TypeOK, ~KernelMode, NEW i, Ordinary(i), Multiply(i)
    PROVE  Completed(i)
<1>1. /\ i.op \in Products /\ ~Reserved(i, gpr) /\ Proceed /\ UNCHANGED c0Vars /\ mem' = mem
  BY DEF Multiply
<1>2. PICK p \in Product(i.op, gpr[i.rs], gpr[i.rt]) : gpr' = [gpr EXCEPT !["hi"] = p[1], !["lo"] = p[2]]
  BY DEF Multiply
<1>3. i.op \notin Computations
  BY <1>1 DEF Products, Computations
<1>4. p \in Product(i.op, Seen[i.rs], Seen[i.rt]) /\ ~Reserved(i, Seen)
  BY <1>1, <1>2, <1>3, SeenOperands
<1>5. Seen' = [Seen EXCEPT !["hi"] = p[1], !["lo"] = p[2]]
  <2>1. gpr \in [GPR -> Word] /\ UserRegs \subseteq GPR
    BY UserAssumption DEF TypeOK
  <2>2. \A r \in UserRegs : gpr'[r] = IF r = "lo" THEN p[2] ELSE IF r = "hi" THEN p[1] ELSE gpr[r]
    BY <1>2, <2>1
  <2>3. QED
    BY <2>2 DEF Seen
<1>6. SeenData' = SeenData
  BY <1>1, SeenDataKept
<1>7. Program!Completes(i, Seen)
  BY <1>1, <1>4, <1>5, <1>6, StillUser, SameSets, SameTests, SameProduct DEF Program!Completes
<1>8. QED
  BY <1>1, <1>7 DEF Completed

(* The word that an access reaches, in the program's addresses.             *)
LEMMA BaseOfBase == ASSUME NEW v \in Nat PROVE Base(Base(v)) = Base(v) /\ Base(v) \in Nat
<1> DEFINE r == v % 4
           z == v - r
<1>1. r \in 0..3 /\ z \in Nat /\ z % 4 = 0
  OBVIOUS
<1>2. Base(v) = z /\ Base(z) = z - (z % 4)
  BY DEF Base
<1> HIDE DEF z
<1>3. QED
  BY <1>1, <1>2

LEMMA Reached ==
    ASSUME TypeOK, TlbFollowsTable, ~KernelMode, NEW i, WellFormed(i), Ordinary(i), NEW mode,
           NEW va, va = Wrap(gpr[i.rs] + i.imm), NEW t, t = AddressTrans(Accessed(i.op, va), mode),
           t.exc = "none", Base(t.phys) \in DOMAIN mem
    PROVE  /\ Program!Address(i, Seen) = va
           /\ Base(va) \in Virtual(DOMAIN mem) /\ Physical(Base(va)) = Base(t.phys)
           /\ mode = "DATASTORE" => Base(va) \in UserWritable
<1> DEFINE acc == Accessed(i.op, va)
           b == Base(va)
           n == UserPage[Vpn(acc)]
<1>1. va \in Nat /\ acc \in Nat
  <2>1. va \in Word /\ acc \in Word
    BY OperandsTyped
  <2>2. QED
    BY <2>1, WordsAreNumbers
<1>2. Base(acc) = b /\ b \in Nat
  <2>1. acc = va \/ acc = Base(va)
    BY DEF Accessed
  <2>2. QED
    BY <1>1, <2>1, BaseOfBase
<1> HIDE DEF acc
<1>3. /\ Vpn(acc) \in DOMAIN UserPage /\ t.phys = Physical(acc)
      /\ mode = "DATASTORE" => \A u \in Virtual(DOMAIN mem) : Vpn(u) = Vpn(acc) => u \in UserWritable
  <2>1. t = AddressTrans(acc, mode)
    BY DEF acc
  <2>2. QED
    BY <1>1, <2>1, Translated
<1>4. Vpn(b) = Vpn(acc)
  BY <1>1, <1>2, BaseInPage
<1>5. Base(n + (acc % PageSize)) = n + (b % PageSize)
  <2>1. n \in Nat /\ n % PageSize = 0
    BY <1>3, UserAssumption
  <2> HIDE DEF n
  <2>2. QED
    BY <1>1, <1>2, <2>1, BaseInPage
<1>6. Physical(b) = Base(t.phys)
  BY <1>3, <1>4, <1>5 DEF Physical
<1>7. b \in Virtual(DOMAIN mem)
  <2>1. Physical(b) \in DOMAIN mem
    BY <1>6
  <2>2. Vpn(b) \in DOMAIN UserPage
    BY <1>3, <1>4
  <2>3. QED
    BY <1>2, <2>1, <2>2, InVirtual
<1>8. Program!Address(i, Seen) = va
  BY SeenOperands, SameWrap DEF Program!Address
<1>9. QED
  BY <1>3, <1>4, <1>6, <1>7, <1>8

LEMMA LoadSeen ==
    ASSUME TypeOK, TlbFollowsTable, ~KernelMode, ~Bit(status, BEV), SaveEpc,
           NEW i, WellFormed(i), Ordinary(i), Load(i)
    PROVE  Hidden \/ Completed(i)
<1> DEFINE va == Wrap(gpr[i.rs] + i.imm)
           acc == Accessed(i.op, va)
           t == AddressTrans(acc, "DATALOAD")
           word == Base(t.phys)
<1>0. i.op \in Loads /\ \/ acc % Width(i.op) # 0 /\ Raise("AdEL", 0)
                        \/ t.exc # "none" /\ TranslationFault(t, acc)
                        \/ Raise("DBE", 0)
                        \/ /\ acc % Width(i.op) = 0 /\ t.exc = "none" /\ word \in DOMAIN mem
                           /\ Put(i.rd, Loaded(i.op, gpr[i.rd], mem[word], va))
                           /\ Proceed /\ UNCHANGED <<c0Vars, mem>>
  BY DEF Load
<1>1. CASE Raise("AdEL", 0) \/ Raise("DBE", 0)
  BY <1>1, RaiseHidden DEF Hidden
<1>2. CASE t.exc # "none" /\ TranslationFault(t, acc)
  BY <1>2, FaultHidden DEF Hidden
<1>3. CASE /\ acc % Width(i.op) = 0 /\ t.exc = "none" /\ word \in DOMAIN mem
           /\ Put(i.rd, Loaded(i.op, gpr[i.rd], mem[word], va))
           /\ Proceed /\ UNCHANGED <<c0Vars, mem>>
  <2> DEFINE v == Loaded(i.op, gpr[i.rd], mem[word], va)
  <2>1. Program!Address(i, Seen) = va /\ Base(va) \in Virtual(DOMAIN mem) /\ Physical(Base(va)) = word
    BY <1>3, Reached
  <2>2. SeenData[Base(va)] = mem[word]
    BY <2>1 DEF SeenData
  <2>3. Seen' = Assigned(Seen, i.rd, v)
    <3>1. i.rd \in UserRegs
      BY DEF Ordinary
    <3>2. QED
      BY <1>3, <3>1, SeenPut
  <2>4. v = Loaded(i.op, Seen[i.rd], SeenData[Base(va)], va)
    BY <2>2, SeenOperands
  <2>5. SeenData' = SeenData /\ DOMAIN SeenData = Virtual(DOMAIN mem)
    BY <1>3, SeenDataKept DEF SeenData
  <2>6. Program!InReach(i, Seen, DOMAIN SeenData)
    BY <1>3, <2>1, <2>5, SameTests DEF Program!InReach
  <2> HIDE DEF v, word, t, acc, va
  <2>7. UNCHANGED c0Vars /\ Proceed
    BY <1>3
  <2>8. Program!Completes(i, Seen)
    BY <1>0, <2>1, <2>3, <2>4, <2>5, <2>6, <2>7, StillUser, SameSets, SameTests, SameLoaded, SameControl
       DEF Program!Completes
  <2>9. QED
    BY <2>7, <2>8 DEF Completed
<1>4. QED
  BY <1>0, <1>1, <1>2, <1>3

LEMMA StoreSeen ==
    ASSUME TypeOK, TlbFollowsTable, ~KernelMode, ~Bit(status, BEV), SaveEpc,
           NEW i, WellFormed(i), Ordinary(i), Store(i)
    PROVE  Hidden \/ Completed(i)
<1> DEFINE va == Wrap(gpr[i.rs] + i.imm)
           acc == Accessed(i.op, va)
           t == AddressTrans(acc, "DATASTORE")
           word == Base(t.phys)
           v == Stored(i.op, gpr[i.rt], mem[word], va)
<1>0. i.op \in Stores /\ \/ acc % Width(i.op) # 0 /\ Raise("AdES", 0)
                         \/ t.exc # "none" /\ TranslationFault(t, acc)
                         \/ Raise("DBE", 0)
                         \/ /\ acc % Width(i.op) = 0 /\ t.exc = "none" /\ word \in DOMAIN mem
                            /\ mem' = [mem EXCEPT ![word] = v]
                            /\ Proceed /\ UNCHANGED <<c0Vars, gpr>>
  BY DEF Store
<1>1. CASE Raise("AdES", 0) \/ Raise("DBE", 0)
  BY <1>1, RaiseHidden DEF Hidden
<1>2. CASE t.exc # "none" /\ TranslationFault(t, acc)
  BY <1>2, FaultHidden DEF Hidden
<1>3. CASE /\ acc % Width(i.op) = 0 /\ t.exc = "none" /\ word \in DOMAIN mem
           /\ mem' = [mem EXCEPT ![word] = v]
           /\ Proceed /\ UNCHANGED <<c0Vars, gpr>>
  <2>1. /\ Program!Address(i, Seen) = va /\ Base(va) \in Virtual(DOMAIN mem) /\ Physical(Base(va)) = word
        /\ Base(va) \in UserWritable
    BY <1>3, Reached
  <2>2. SeenData[Base(va)] = mem[word]
    BY <2>1 DEF SeenData
  <2>3. i.op \notin Computations
    BY <1>0 DEF Stores, Computations
  <2>4. v = Stored(i.op, Seen[i.rt], SeenData[Base(va)], va)
    BY <2>2, <2>3, SeenOperands
  <2> HIDE DEF v, word, t, acc, va
  <2>5. SeenData' = [SeenData EXCEPT ![Base(va)] = v]
    <3>1. DOMAIN mem' = DOMAIN mem
      BY <1>3
    <3>2. \A u \in Virtual(DOMAIN mem) :
             mem'[Physical(u)] = IF u = Base(va) THEN v ELSE mem[Physical(u)]
      <4> SUFFICES ASSUME NEW u \in Virtual(DOMAIN mem)
                   PROVE  mem'[Physical(u)] = IF u = Base(va) THEN v ELSE mem[Physical(u)]
        OBVIOUS
      <4>1. Physical(u) \in DOMAIN mem
        BY VirtualPages
      <4>2. u # Base(va) => Physical(u) # word
        BY <2>1, PhysicalInjective
      <4>3. QED
        BY <1>3, <2>1, <4>1, <4>2
    <3>3. QED
      BY <3>1, <3>2 DEF SeenData
  <2>6. Program!InReach(i, Seen, UserWritable)
    BY <1>3, <2>1, SameTests DEF Program!InReach, acc
  <2>7. UNCHANGED c0Vars /\ Proceed /\ Seen' = Seen
    BY <1>3 DEF Seen
  <2>8. Program!Completes(i, Seen)
    BY <1>0, <2>1, <2>4, <2>5, <2>6, <2>7, StillUser, SameSets, SameTests, SameStored DEF Program!Completes
  <2>9. QED
    BY <2>7, <2>8 DEF Completed
<1>4. QED
  BY <1>0, <1>1, <1>2, <1>3

LEMMA InstructionSeen ==
    ASSUME TypeOK, TlbFollowsTable, ~KernelMode, ~Bit(status, BEV), SaveEpc,
           NEW i, WellFormed(i), Ordinary(i), Emulate(i)
    PROVE  Hidden \/ (Completed(i) /\ i.op \notin Transfers) \/ Transfer(i)
<1>1. CASE Calculate(i)
  <2>1. i.op \notin Transfers
    BY <1>1 DEF Calculate, Computations, Transfers, Branches, Jumps, RegisterJumps
  <2>2. QED
    BY <1>1, <2>1, CalculateSeen
<1>2. CASE Multiply(i)
  <2>1. i.op \notin Transfers
    BY <1>2 DEF Multiply, Products, Transfers, Branches, Jumps, RegisterJumps
  <2>2. QED
    BY <1>2, <2>1, MultiplySeen
<1>3. CASE Transfer(i)
  BY <1>3
<1>4. CASE Load(i)
  <2>1. i.op \notin Transfers
    BY <1>4 DEF Load, Loads, Transfers, Branches, Jumps, RegisterJumps
  <2>2. QED
    BY <1>4, <2>1, LoadSeen
<1>5. CASE Store(i)
  <2>1. i.op \notin Transfers
    BY <1>5 DEF Store, Stores, Transfers, Branches, Jumps, RegisterJumps
  <2>2. QED
    BY <1>5, <2>1, StoreSeen
<1>6. CASE Trap(i)
  BY <1>6, RaiseHidden DEF Trap, Hidden
<1>7. CASE Unimplemented(i)
  <2>1. i.op # "cfc1"
    BY DEF Ordinary, Computations, Products, Transfers, Branches, Jumps, RegisterJumps, Loads, Stores, Traps
  <2>2. QED
    BY <1>7, <2>1, RaiseHidden DEF Unimplemented, Hidden
<1>8. CASE CoprocessorZero(i)
  <2>1. i.op \in {"mfc0", "mtc0", "tlbwi", "tlbwr", "tlbr", "tlbp", "rfe"}
    BY <1>8 DEF CoprocessorZero
  <2>2. QED
    BY <2>1 DEF Ordinary, Computations, Products, Transfers, Branches, Jumps, RegisterJumps, Loads, Stores, Traps
<1>9. QED
  BY <1>1, <1>2, <1>3, <1>4, <1>5, <1>6, <1>7, <1>8 DEF Emulate

(* A branch that was taken is taken again after its link is written.        *)
LEMMA LinkedAgain ==
    ASSUME NEW r, r = [x \in DOMAIN r |-> r[x]], NEW s,
           NEW i, i.op \in Transfers, i.rs \notin Link(i) \ {"zero"}, i.rs \in DOMAIN r,
           i.rd \in DOMAIN r, NEW p, s = Linked(i, r, p)
    PROVE  /\ s[i.rs] = r[i.rs] /\ s = Linked(i, s, p)
           /\ Reserved(i, s) <=> Reserved(i, r)
           /\ i.rt \in DOMAIN r => Taken(i.op, s[i.rs], s[i.rt]) = Taken(i.op, r[i.rs], r[i.rt])
<1>1. s = [x \in DOMAIN r |-> IF x \in Link(i) \ {"zero"} THEN Wrap(p + 8) ELSE r[x]]
  BY DEF Linked
<1>2. s[i.rs] = r[i.rs]
  BY <1>1
<1>3. s = Linked(i, s, p)
  BY <1>1 DEF Linked
<1>4. i.op \in {"beq", "bne", "blez", "bgtz", "jr", "bltz", "bgez", "bc0t", "bc0f", "j"} => s = r
  BY <1>1 DEF Link
<1>5. Reserved(i, s) <=> Reserved(i, r)
  BY <1>4 DEF Reserved, Transfers, Branches, Jumps, RegisterJumps
<1>6. i.op \in {"bltzal", "bgezal", "jal", "jalr"} =>
        \A a, b, c : Taken(i.op, a, b) = Taken(i.op, a, c)
  BY DEF Taken
<1>7. i.op \in {"beq", "bne", "blez", "bgtz", "jr", "bltz", "bgez", "bc0t", "bc0f", "j"}
        \/ i.op \in {"bltzal", "bgezal", "jal", "jalr"}
  BY DEF Transfers, Branches, Jumps, RegisterJumps
<1>8. QED
  BY <1>2, <1>3, <1>4, <1>5, <1>6, <1>7

LEMMA TransferSeen ==
    ASSUME TypeOK, NEW i, Ordinary(i), Transfer(i)
    PROVE  Seen' = Linked(i, Seen, pc)
<1>1. gpr' = Linked(i, gpr, pc) /\ gpr \in [GPR -> Word] /\ UserRegs \subseteq GPR
  BY UserAssumption DEF Transfer, TypeOK
<1>2. \A x \in UserRegs : gpr'[x] = IF x \in Link(i) \ {"zero"} THEN Wrap(pc + 8) ELSE gpr[x]
  BY <1>1 DEF Linked
<1>3. QED
  BY <1>2 DEF Seen, Linked

(* The instruction that the program fetches is one of its own.              *)
LEMMA FetchedOwn ==
    ASSUME TypeOK, TlbFollowsTable, ~KernelMode, Instruction
    PROVE  pc \in DOMAIN ProgramCode /\ \E i \in ProgramCode[pc] : WellFormed(i) /\ Emulate(i)
<1>1. Fetched.exc = "none" /\ Fetched.phys \in DOMAIN Code
  BY DEF Instruction, Reaches
<1>2. PICK i \in Code[Fetched.phys] : Emulate(i)
  BY DEF Instruction
<1>3. pc \in Nat
  BY WordsAreNumbers DEF TypeOK
<1>4. Vpn(pc) \in DOMAIN UserPage /\ Fetched.phys = Physical(pc)
  BY <1>1, <1>3, Translated DEF Fetched
<1>5. pc \in Virtual(DOMAIN Code)
  BY <1>1, <1>3, <1>4, InVirtual
<1>6. pc \in DOMAIN ProgramCode /\ ProgramCode[pc] = Code[Physical(pc)]
  BY <1>5 DEF ProgramCode
<1>7. WellFormed(i)
  BY <1>1, <1>2, CodeAssumption
<1>8. QED
  BY <1>2, <1>4, <1>6, <1>7

-----------------------------------------------------------------------------
(* A step in user mode is one of the program, or is not seen by it.         *)
LEMMA ViewOfProgram ==
    ASSUME ~KernelMode, UNCHANGED c0Vars
    PROVE  /\ Pending = (IF delay_state = "DELAYSLOT" THEN next_epc ELSE pc)
           /\ Pending' = (IF delay_state = "DELAYSLOT" THEN next_epc ELSE pc)'
BY StillUser DEF Pending

LEMMA InCodeIsOwn == \A a : Program!InCode(a) = IF a \in DOMAIN ProgramCode THEN ProgramCode[a] ELSE {}
BY DEF Program!InCode

LEMMA CompletedStep ==
    ASSUME TypeOK, ~KernelMode, SlotOfProgram, NEW i, pc \in DOMAIN ProgramCode, i \in ProgramCode[pc],
           i.op \notin Transfers, Completed(i)
    PROVE  Program!Next /\ delay_state' = "NORMAL" /\ UNCHANGED c0Vars
<1>1. Proceed /\ UNCHANGED c0Vars /\ Program!Completes(i, Seen)
  BY DEF Completed
<1>2. pc' = (IF delay_state = "DELAYSLOT" THEN delay_pc ELSE Wrap(pc + 4)) /\ delay_state' = "NORMAL"
  BY <1>1 DEF Proceed
<1>3. Pending' = pc'
  BY <1>1, <1>2, ViewOfProgram
<1>4. i \in Program!InCode(pc)
  BY InCodeIsOwn
<1>5. (IF Booting THEN EntryRegs ELSE [r \in UserRegs |-> gpr[r]]) = Seen
  BY UserView DEF Seen
<1>6. CASE delay_state # "DELAYSLOT"
  <2>1. Pending = pc
    BY <1>6, UserView
  <2>2. Program!Completes(i, IF Booting THEN EntryRegs ELSE [r \in UserRegs |-> gpr[r]])
    BY <1>1, <1>5 DEF Program!Completes
  <2>3. Pending' = Program!Wrap(Pending + 4)
    BY <1>2, <1>3, <1>6, <2>1, SameWrap
  <2>4. Program!Straight
    BY <1>4, <2>1, <2>2, <2>3 DEF Program!Straight
  <2>5. QED
    BY <1>1, <1>2, <2>4 DEF Program!Next
<1>7. CASE delay_state = "DELAYSLOT"
  <2>1. Pending = next_epc
    BY <1>7, UserView
  <2>2. PICK k \in ProgramCode[next_epc] :
           /\ k.op \in Transfers /\ ~Reserved(k, Seen) /\ Taken(k.op, Seen[k.rs], Seen[k.rt])
           /\ Seen = Linked(k, Seen, next_epc)
           /\ delay_pc = Target(k, Seen[k.rs], next_epc)
    BY <1>7 DEF SlotOfProgram
  <2>3. next_epc \in DOMAIN ProgramCode /\ pc = Wrap(next_epc + 4)
    BY <1>7 DEF SlotOfProgram
  <2>4. /\ k \in Program!InCode(Pending) /\ i \in Program!InCode(Program!Wrap(Pending + 4))
        /\ k.op \in Program!Transfers
    BY <1>4, <2>1, <2>2, <2>3, InCodeIsOwn, SameWrap, SameSets
  <2>5. Program!Takes(k)
    BY <1>5, <2>2, SameTests DEF Program!Takes
  <2>6. Program!Completes(i, Program!Linked(k, IF Booting THEN EntryRegs ELSE [r \in UserRegs |-> gpr[r]],
                                            Pending))
    <3>1. Program!Linked(k, IF Booting THEN EntryRegs ELSE [r \in UserRegs |-> gpr[r]], Pending) = Seen
      BY <1>5, <2>1, <2>2, SameControl
    <3>2. QED
      BY <1>1, <3>1 DEF Program!Completes
  <2>7. Pending' = Program!Target(k, (IF Booting THEN EntryRegs ELSE [r \in UserRegs |-> gpr[r]])[k.rs],
                                  Pending)
    BY <1>2, <1>3, <1>5, <1>7, <2>1, <2>2, SameControl
  <2>8. Program!BranchAndSlot
    BY <2>4, <2>5, <2>6, <2>7 DEF Program!BranchAndSlot, Program!Completes
  <2>9. QED
    BY <1>1, <1>2, <2>8 DEF Program!Next
<1>8. QED
  BY <1>6, <1>7

LEMMA TransferStep ==
    ASSUME TypeOK, ~KernelMode, SaveEpc, SlotOfProgram, NEW i, pc \in DOMAIN ProgramCode, i \in ProgramCode[pc],
           WellFormed(i), Transfer(i)
    PROVE  Program!Next /\ SlotOfProgram' /\ UNCHANGED c0Vars
<1>1. /\ i.op \in Transfers /\ ~Reserved(i, gpr) /\ UNCHANGED c0Vars /\ mem' = mem
      /\ IF Taken(i.op, gpr'[i.rs], gpr'[i.rt]) THEN ControlTransfer(Target(i, gpr[i.rs], pc)) ELSE Proceed
  BY DEF Transfer
<1>2. Ordinary(i) /\ Restartable(i, pc)
  BY UserAssumption
<1>3. delay_state # "DELAYSLOT"
  <2> SUFFICES ASSUME delay_state = "DELAYSLOT" PROVE FALSE
    OBVIOUS
  <2>1. PICK k \in ProgramCode[next_epc] : k.op \in Transfers
    BY DEF SlotOfProgram
  <2>2. next_epc \in DOMAIN ProgramCode /\ pc = Wrap(next_epc + 4)
    BY DEF SlotOfProgram
  <2>3. Restartable(k, next_epc)
    BY <2>1, <2>2, UserAssumption
  <2>4. i.op \notin Transfers
    BY <2>1, <2>2, <2>3 DEF Restartable
  <2>5. QED
    BY <1>1, <2>4
<1>4. Pending = pc /\ next_epc' = pc
  BY <1>3, UserView DEF SaveEpc
<1>5. Seen' = Linked(i, Seen, pc) /\ SeenData' = SeenData
  BY <1>1, <1>2, TransferSeen, SeenDataKept
<1>6. i.op \notin Computations
  BY <1>1 DEF Transfers, Branches, Jumps, RegisterJumps, Computations
<1>7. /\ i.rs \in DOMAIN Seen /\ i.rd \in DOMAIN Seen /\ i.rt \in DOMAIN Seen
      /\ Seen[i.rs] = gpr[i.rs] /\ Seen[i.rt] = gpr[i.rt] /\ ~Reserved(i, Seen)
  <2>1. i.rs \in UserRegs /\ i.rd \in UserRegs /\ i.rt \in UserRegs
    BY <1>2, <1>6 DEF Ordinary
  <2>2. QED
    BY <1>1, <1>2, <1>6, <2>1, SeenOperands DEF Seen
<1>8. i \in Program!InCode(pc)
  BY InCodeIsOwn
<1>9. (IF Booting THEN EntryRegs ELSE [r \in UserRegs |-> gpr[r]]) = Seen
  BY UserView DEF Seen
<1>10. Taken(i.op, gpr'[i.rs], gpr'[i.rt]) = Taken(i.op, gpr[i.rs], gpr[i.rt])
  <2>1. i.rs \in GPR /\ i.rt \in GPR /\ i.rd \in GPR
    BY <1>2, <1>6, UserAssumption DEF Ordinary
  <2>2. DOMAIN gpr = GPR /\ gpr = [x \in DOMAIN gpr |-> gpr[x]]
    BY DEF TypeOK
  <2>3. gpr' = Linked(i, gpr, pc) /\ i.rs \notin Link(i) \ {"zero"}
    BY <1>1, <1>2 DEF Transfer, Restartable
  <2>4. QED
    BY <1>1, <2>1, <2>2, <2>3, LinkedAgain
<1>11. CASE ~Taken(i.op, gpr[i.rs], gpr[i.rt])
  <2>1. Proceed
    BY <1>1, <1>11, <1>10
  <2>2. pc' = Wrap(pc + 4) /\ delay_state' = "NORMAL"
    BY <1>3, <2>1 DEF Proceed
  <2>3. Pending' = Wrap(pc + 4)
    BY <1>1, <2>2, ViewOfProgram
  <2>4. ~Program!Takes(i)
    BY <1>7, <1>9, <1>11, SameTests DEF Program!Takes
  <2>5. Program!NotTaken
    BY <1>1, <1>4, <1>5, <1>7, <1>8, <1>9, <2>3, <2>4, StillUser, SameSets, SameTests, SameWrap, SameControl
       DEF Program!NotTaken
  <2>6. SlotOfProgram'
    BY <2>2 DEF SlotOfProgram
  <2>7. QED
    BY <1>1, <2>5, <2>6 DEF Program!Next
<1>12. CASE Taken(i.op, gpr[i.rs], gpr[i.rt])
  <2>1. pc' = Wrap(pc + 4) /\ delay_state' = "DELAYSLOT" /\ delay_pc' = Target(i, gpr[i.rs], pc)
    BY <1>1, <1>12, <1>10 DEF ControlTransfer
  <2>2. Pending' = pc
    BY <1>1, <1>4, <2>1, ViewOfProgram
  <2>3. Program!Takes(i)
    BY <1>7, <1>9, <1>12, SameTests DEF Program!Takes
  <2>4. Program!LinkFirst
    BY <1>1, <1>4, <1>5, <1>8, <1>9, <2>2, <2>3, StillUser, SameSets, SameControl DEF Program!LinkFirst
  <2>5. /\ Seen'[i.rs] = Seen[i.rs] /\ Seen' = Linked(i, Seen', pc) /\ ~Reserved(i, Seen')
        /\ Taken(i.op, Seen'[i.rs], Seen'[i.rt])
    <3>1. i.rs \notin Link(i) \ {"zero"}
      BY <1>1, <1>2 DEF Restartable
    <3>2. Seen = [x \in DOMAIN Seen |-> Seen[x]]
      BY DEF Seen
    <3>3. QED
      BY <1>1, <1>5, <1>7, <1>12, <3>1, <3>2, LinkedAgain
  <2>6. SlotOfProgram'
    <3>1. next_epc' \in DOMAIN ProgramCode /\ pc' = Wrap(next_epc' + 4) /\ i \in ProgramCode[next_epc']
      BY <1>4, <2>1
    <3>2. delay_pc' = Target(i, Seen'[i.rs], next_epc')
      BY <1>4, <1>7, <2>1, <2>5
    <3>3. QED
      BY <1>1, <1>4, <2>5, <3>1, <3>2 DEF SlotOfProgram
  <2>7. QED
    BY <1>1, <2>4, <2>6 DEF Program!Next
<1>13. QED
  BY <1>11, <1>12

LEMMA UserStep ==
    ASSUME TypeOK, UserInv, ~KernelMode, Step
    PROVE  Hidden \/ (Program!Next /\ SlotOfProgram' /\ UNCHANGED c0Vars)
<1>1. TlbFollowsTable /\ ~Bit(status, BEV) /\ SlotOfProgram
  BY DEF UserInv
<1>2. SaveEpc
  BY DEF Step
<1>3. CASE FetchFault
  BY <1>1, <1>2, <1>3, FaultHidden DEF FetchFault, Fetched, Hidden
<1>4. CASE Misaligned \/ FetchBusError \/ TakeInterrupt
  BY <1>1, <1>2, <1>4, RaiseHidden DEF Misaligned, FetchBusError, TakeInterrupt, Hidden
<1>5. CASE Instruction
  <2>1. pc \in DOMAIN ProgramCode
    BY <1>1, <1>5, FetchedOwn
  <2>2. PICK i \in ProgramCode[pc] : WellFormed(i) /\ Emulate(i)
    BY <1>1, <1>5, FetchedOwn
  <2>3. Ordinary(i)
    BY <2>1, <2>2, UserAssumption
  <2>4. CASE Hidden
    BY <2>4
  <2>5. CASE Completed(i) /\ i.op \notin Transfers
    <3>1. Program!Next /\ delay_state' = "NORMAL" /\ UNCHANGED c0Vars
      BY <1>1, <2>1, <2>2, <2>5, CompletedStep
    <3>2. SlotOfProgram'
      BY <3>1 DEF SlotOfProgram
    <3>3. QED
      BY <3>1, <3>2
  <2>6. CASE Transfer(i)
    BY <1>1, <1>2, <2>1, <2>2, <2>6, TransferStep
  <2>7. QED
    BY <1>1, <1>2, <2>2, <2>3, <2>4, <2>5, <2>6, InstructionSeen
<1>6. QED
  BY <1>3, <1>4, <1>5 DEF Step

(* What a step of the system leaves, as SystemKeeps has it.                 *)
Keeps == KernelMode => /\ UNCHANGED Program!vars
                       /\ (~Booting => OneMatch /\ TlbFollowsTable)'
                       /\ (~KernelMode => delay_state = "NORMAL" /\ ~Bit(status, BEV))'
                       /\ (exception_pending \/ ModeMatchesCode)'

LEMMA ProgramStep ==
    ASSUME TypeOK, TypeOK', UserInv, [Next]_vars, [Keeps]_vars
    PROVE  UserInv' /\ [Program!Next]_Program!vars
<1>1. CASE UNCHANGED vars
  <2>1. UserInv'
    BY <1>1 DEF vars, c0Vars, excVars, faultVars, tlbVars, UserInv, KernelMode, TlbFollowsTable, SlotOfProgram, Seen,
                Matches, Bit, Asid, Vpn
  <2>2. UNCHANGED Program!vars
    BY <1>1 DEF vars, c0Vars, excVars, Program!vars, Pending, Booting, KernelMode, Bit
  <2>3. QED
    BY <2>1, <2>2
<1>2. CASE KernelMode /\ Keeps
  <2>1. UNCHANGED Program!vars
    BY <1>2 DEF Keeps
  <2>2. ASSUME ~KernelMode' PROVE UserInv'
    <3>1. ~Booting'
      BY <2>2 DEF Booting
    <3>2. TlbFollowsTable' /\ (delay_state = "NORMAL")' /\ ~Bit(status, BEV)'
      BY <1>2, <2>2, <3>1 DEF Keeps
    <3>3. SlotOfProgram'
      BY <3>2 DEF SlotOfProgram
    <3>4. QED
      BY <3>2, <3>3 DEF UserInv
  <2>3. KernelMode' => UserInv'
    BY DEF UserInv
  <2>4. QED
    BY <2>1, <2>2, <2>3
<1>3. CASE ~KernelMode /\ Step
  <2>1. CASE Hidden
    BY <2>1 DEF Hidden, UserInv
  <2>2. CASE Program!Next /\ SlotOfProgram' /\ UNCHANGED c0Vars
    <3>1. TlbFollowsTable /\ ~Bit(status, BEV)
      BY <1>3 DEF UserInv
    <3>2. DOMAIN mem' = DOMAIN mem
      BY DEF TypeOK
    <3>3. TlbFollowsTable'
      BY <2>2, <3>1, <3>2 DEF TlbFollowsTable, c0Vars, faultVars, tlbVars, Matches, Bit, Asid, Vpn, Virtual
    <3>4. ~Bit(status, BEV)'
      BY <2>2, <3>1 DEF c0Vars, excVars, Bit
    <3>5. QED
      BY <2>2, <3>3, <3>4 DEF UserInv
  <2>3. QED
    BY <1>3, <2>1, <2>2, UserStep
<1>4. CASE ~KernelMode /\ Interrupt
  <2>1. UNCHANGED <<pc, delay_state, delay_pc, next_epc, gpr, mem, c0Vars>>
    BY <1>4 DEF Interrupt
  <2>2. UserInv'
    BY <2>1 DEF c0Vars, excVars, faultVars, tlbVars, UserInv, KernelMode, TlbFollowsTable, SlotOfProgram, Seen,
                Matches, Bit, Asid, Vpn
  <2>3. UNCHANGED Program!vars
    BY <2>1 DEF c0Vars, excVars, Program!vars, Pending, Booting, KernelMode, Bit
  <2>4. QED
    BY <2>2, <2>3
<1>5. Next \/ UNCHANGED vars
  OBVIOUS
<1>6. QED
  BY <1>1, <1>2, <1>3, <1>4, <1>5 DEF Next

(* Whatever the program and its page table, wherever it is interrupted: if  *)
(* the system keeps what it owes, the program runs on the processor as if   *)
(* there were neither exceptions nor delay state: no instruction is lost or *)
(* runs twice, a branch and its slot stay together, stores reach their word *)
(* (step, exception, enter_exception, control_transfer, tlb_translate).     *)
THEOREM ProgramRuns == Spec /\ SystemKeeps => RunsUserProgram
<1>1. Init => UserInv /\ Program!Init
  <2> SUFFICES ASSUME Init PROVE UserInv /\ Program!Init
    OBVIOUS
  <2>1. status = 2^BEV /\ pc = ResetPc
    BY DEF Init, Reset
  <2>2. KernelMode
    <3>1. status = 128 /\ 2^KUc = 2
      BY <2>1, Fields DEF KUc
    <3>2. QED
      BY <3>1 DEF KernelMode, Bit
  <2>3. Booting
    BY <2>1, <2>2, UserAssumption DEF Booting
  <2>4. Pending = UserEntry
    BY <2>3 DEF Pending
  <2>5. QED
    BY <2>2, <2>4 DEF UserInv, Program!Init
<1>2. TypeOK /\ TypeOK' /\ UserInv /\ [Next]_vars /\ [Keeps]_vars => UserInv' /\ [Program!Next]_Program!vars
  BY ProgramStep
<1>3. SystemKeeps => [][Keeps]_vars
  BY PTL DEF SystemKeeps, Keeps
<1>4. QED
  BY <1>1, <1>2, <1>3, TypeCorrect, PTL DEF Spec, RunsUserProgram, Program!Spec

-----------------------------------------------------------------------------
(* The mode of the processor.                                               *)

(* However an exception comes about, it enters kernel mode at a vector, with *)
(* interrupts disabled.                                                     *)
LEMMA ExceptionEnters ==
    ASSUME TypeOK, NEW code, NEW c, NEW miss, Exception(code, c, miss)
    PROVE  KernelMode' /\ exception_pending' /\ ModeMatchesCode'
<1>1. status' = PushMode(status) /\ exception_pending'
  BY DEF Exception, EnterException
<1>2. PushMode(status) % 4 = 0 /\ PushMode(status) \in Nat
  <2>1. status \in 0..511
    BY DEF TypeOK
  <2>2. PushMode(status) \in 0..511
    BY <2>1, ModesTyped
  <2>3. status \in Nat
    BY <2>1
  <2>4. PushMode(status) % 4 = 0
    BY <2>3, ModeStack
  <2>5. QED
    BY <2>2, <2>4
<1>3. \A n \in Nat : n % 4 = 0 => ~((n \div 2) % 2 = 1) /\ ~((n \div 1) % 2 = 1)
  OBVIOUS
<1>4. 2^KUc = 2 /\ 2^IEc = 1
  BY DEF KUc, IEc
<1>5. ~Bit(PushMode(status), KUc) /\ ~Bit(PushMode(status), IEc)
  BY <1>2, <1>3, <1>4 DEF Bit
<1>6. ~Bit(status', KUc) /\ ~Bit(status', IEc)
  BY <1>1, <1>5
<1>7. pc' >= Kseg0
  <2>1. BootBase \in Nat /\ BootBase >= Kseg0 /\ Kseg0 \in Nat /\ GeneralVector \in Nat
    BY CPUAssumption, UserAssumption, Vectors, WordsAreNumbers
  <2>2. pc' = (IF Bit(status, BEV) THEN BootBase ELSE Kseg0) + (IF miss THEN 0 ELSE GeneralVector)
    BY DEF Exception
  <2>3. QED
    BY <2>1, <2>2
<1>8. QED
  BY <1>1, <1>6, <1>7 DEF KernelMode, ModeMatchesCode, Bit, Kseg0

(* Every instruction ends in an exception or goes on, and then only          *)
(* coprocessor 0 changes Status.                                            *)
LEMMA EmulateEnds ==
    ASSUME NEW i, Emulate(i)
    PROVE  \/ \E code, c, miss : Exception(code, c, miss)
           \/ ~exception_pending' /\ (UNCHANGED c0Vars \/ CoprocessorZero(i))
<1> DEFINE raised == \E code, c, miss : Exception(code, c, miss)
<1>1. \A code, c : Raise(code, c) => raised
  BY DEF Raise
<1>2. \A t, va : TranslationFault(t, va) => raised
  BY DEF TranslationFault
<1>3. Proceed => ~exception_pending'
  BY DEF Proceed
<1>4. \A target : ControlTransfer(target) => ~exception_pending'
  BY DEF ControlTransfer
<1> HIDE DEF raised
<1>5. Calculate(i) => raised \/ (~exception_pending' /\ UNCHANGED c0Vars)
  <2>1. Calculate(i) => Raise("Ov", 0) \/ (Proceed /\ UNCHANGED c0Vars)
    BY DEF Calculate
  <2>2. QED
    BY <1>1, <1>3, <2>1
<1>6. Multiply(i) => ~exception_pending' /\ UNCHANGED c0Vars
  BY <1>3 DEF Multiply
<1>7. Transfer(i) => ~exception_pending' /\ UNCHANGED c0Vars
  BY <1>3, <1>4 DEF Transfer
<1>8. Load(i) => raised \/ (~exception_pending' /\ UNCHANGED c0Vars)
  <2>1. Load(i) => \/ Raise("AdEL", 0) \/ Raise("DBE", 0)
                  \/ \E t, va : TranslationFault(t, va)
                  \/ (Proceed /\ UNCHANGED c0Vars)
    BY DEF Load
  <2>2. QED
    BY <1>1, <1>2, <1>3, <2>1
<1>9. Store(i) => raised \/ (~exception_pending' /\ UNCHANGED c0Vars)
  <2>1. Store(i) => \/ Raise("AdES", 0) \/ Raise("DBE", 0)
                  \/ \E t, va : TranslationFault(t, va)
                  \/ (Proceed /\ UNCHANGED c0Vars)
    BY DEF Store
  <2>2. QED
    BY <1>1, <1>2, <1>3, <2>1
<1>10. Trap(i) => raised
  BY <1>1 DEF Trap
<1>11. Unimplemented(i) => raised \/ (~exception_pending' /\ UNCHANGED c0Vars)
  <2>1. Unimplemented(i) => Raise("CpU", i.imm) \/ (Proceed /\ UNCHANGED c0Vars)
    BY DEF Unimplemented
  <2>2. QED
    BY <1>1, <1>3, <2>1
<1>12. CoprocessorZero(i) => ~exception_pending'
  BY <1>3 DEF CoprocessorZero
<1>13. QED
  BY <1>5, <1>6, <1>7, <1>8, <1>9, <1>10, <1>11, <1>12 DEF Emulate, raised

(* An ordinary instruction is none of coprocessor 0.                        *)
LEMMA OrdinaryKeepsStatus ==
    ASSUME NEW i, Ordinary(i)
    PROVE  ~CoprocessorZero(i)
<1>1. CoprocessorZero(i) => i.op \in {"mfc0", "mtc0", "tlbwi", "tlbwr", "tlbr", "tlbp", "rfe"}
  BY DEF CoprocessorZero
<1>2. QED
  BY <1>1 DEF Ordinary, Computations, Products, Transfers, Branches, Jumps, RegisterJumps, Loads, Stores, Traps

LEMMA StepEnds ==
    ASSUME Step
    PROVE  (\E code, c, miss : Exception(code, c, miss)) \/ ~exception_pending'
<1> DEFINE raised == \E code, c, miss : Exception(code, c, miss)
<1>1. \A code, c : Raise(code, c) => raised
  BY DEF Raise
<1>2. \A t, va : TranslationFault(t, va) => raised
  BY DEF TranslationFault
<1> HIDE DEF raised
<1>3. FetchFault \/ Misaligned \/ FetchBusError \/ TakeInterrupt => raised
  BY <1>1, <1>2 DEF FetchFault, Misaligned, FetchBusError, TakeInterrupt
<1>4. Instruction => raised \/ ~exception_pending'
  BY EmulateEnds DEF Instruction, raised
<1>5. QED
  BY <1>3, <1>4 DEF Step, raised

(* In user mode, what raises no exception leaves the mode as it was.        *)
LEMMA UserStepEnds ==
    ASSUME TypeOK, UserInv, ~KernelMode, Step
    PROVE  (\E code, c, miss : Exception(code, c, miss)) \/ (UNCHANGED c0Vars /\ ~exception_pending')
<1> DEFINE raised == \E code, c, miss : Exception(code, c, miss)
<1>1. CASE Instruction
  <2>1. TlbFollowsTable
    BY DEF UserInv
  <2>2. PICK i \in ProgramCode[pc] : Emulate(i) /\ pc \in DOMAIN ProgramCode
    BY <1>1, <2>1, FetchedOwn
  <2>3. ~CoprocessorZero(i)
    BY <2>2, UserAssumption, OrdinaryKeepsStatus
  <2>4. QED
    BY <2>2, <2>3, EmulateEnds
<1>2. CASE ~Instruction
  BY <1>2 DEF Step, FetchFault, Misaligned, FetchBusError, TakeInterrupt, Raise, TranslationFault
<1>3. QED
  BY <1>1, <1>2

LEMMA ModeStep ==
    ASSUME TypeOK, TypeOK', UserInv, ModeMatchesCode, [Next]_vars, [Keeps]_vars
    PROVE  ModeMatchesCode'
<1>1. CASE UNCHANGED <<pc, status, exception_pending>>
  BY <1>1 DEF ModeMatchesCode, KernelMode, Bit, Kseg0
<1>2. CASE Step /\ \E code, c, miss : Exception(code, c, miss)
  BY <1>2, ExceptionEnters
<1>3. CASE Step /\ KernelMode /\ Keeps
  BY <1>2, <1>3, StepEnds DEF Keeps
<1>4. CASE Step /\ ~KernelMode
  <2>1. CASE UNCHANGED c0Vars /\ ~exception_pending'
    <3>1. status' = status /\ ~exception_pending'
      BY <2>1 DEF c0Vars, excVars
    <3>2. QED
      BY <1>4, <3>1 DEF ModeMatchesCode, KernelMode, Bit
  <2>2. QED
    BY <1>2, <1>4, <2>1, UserStepEnds
<1>5. Interrupt \/ UNCHANGED vars => UNCHANGED <<pc, status, exception_pending>>
  BY DEF Interrupt, vars, c0Vars, excVars
<1>6. UNCHANGED vars \/ Keeps
  OBVIOUS
<1>7. QED
  BY <1>1, <1>3, <1>4, <1>5, <1>6 DEF Next

(* Whatever the program: every exception enters kernel mode at a vector,    *)
(* with interrupts disabled, and while the system leaves it as SystemKeeps  *)
(* has it, it never runs at a user address (enter_exception, exception).    *)
THEOREM ModeIsRight == Spec /\ SystemKeeps => []ModeMatchesCode
<1>1. Init => UserInv /\ ModeMatchesCode
  <2> SUFFICES ASSUME Init PROVE UserInv /\ ModeMatchesCode
    OBVIOUS
  <2>1. status = 2^BEV /\ pc = ResetPc /\ ~exception_pending
    BY DEF Init, Reset
  <2>2. status = 128 /\ 2^KUc = 2 /\ 2^IEc = 1
    BY <2>1, Fields DEF KUc, IEc
  <2>3. KernelMode /\ ~Bit(status, IEc)
    BY <2>2 DEF KernelMode, Bit
  <2>4. ResetPc \in Nat /\ ResetPc >= Kseg0
    BY CPUAssumption, UserAssumption, Vectors, WordsAreNumbers
  <2>5. QED
    BY <2>1, <2>3, <2>4 DEF UserInv, ModeMatchesCode
<1>2. /\ TypeOK /\ TypeOK' /\ UserInv /\ [Next]_vars /\ [Keeps]_vars => UserInv'
      /\ TypeOK /\ TypeOK' /\ UserInv /\ ModeMatchesCode /\ [Next]_vars /\ [Keeps]_vars => ModeMatchesCode'
  BY ProgramStep, ModeStep
<1>3. SystemKeeps => [][Keeps]_vars
  BY PTL DEF SystemKeeps, Keeps
<1>4. QED
  BY <1>1, <1>2, <1>3, TypeCorrect, PTL DEF Spec
=============================================================================
