-------------------------------- MODULE CPU ---------------------------------
(***************************************************************************)
(* The processor (cpu.cc): one step fetches, checks for an interrupt and   *)
(* runs an instruction; exceptions and delay slots decide what comes next. *)
(* Memory is flat here; Mapper shows that the caches implement that.       *)
(* exception() runs at most once in a step, because whatever raises one    *)
(* returns at once, so the table of priorities never decides anything.     *)
(***************************************************************************)
EXTENDS CPZero, LoadStore

CONSTANTS GPR,         \* registers, with "zero", "ra", "hi" and "lo"
          Code,        \* the program: set of possible instructions by physical address
          Data,        \* initial data: words by physical address
          AckRegister, \* device register that takes back the interrupt (external)
          ResetPc,     \* where execution begins (0xbfc00000)
          BootBase,    \* base of the exception vectors at boot (0xbfc00100)
          GeneralVector, \* offset of the general exception vector (0x080)
          Asynchronous \* bound: whether the device interrupts at all

ASSUME CPUAssumption ==
    /\ {"zero", "ra", "hi", "lo"} \subseteq GPR
    /\ DOMAIN Code \cap DOMAIN Data = {}
    /\ ResetPc \in Word /\ GeneralVector \in Nat
    /\ \A base \in {BootBase, Kseg0} : base \in Word /\ base + GeneralVector \in Word
    /\ Asynchronous \in BOOLEAN
    /\ Data \in [DOMAIN Data -> Word]

(* What the fields of an instruction hold: numbers of registers, and an     *)
(* immediate of its width, which numbers the coprocessor in cop and cfc1.   *)
WellFormed(i) ==
    /\ i.imm \in Int
    /\ i.op \in Jumps => i.imm \in 0..2^(W - 4) - 1
    /\ i.op \in {"cop", "cfc1"} => i.imm \in 1..3
    /\ i.rs \in GPR
    /\ i.rt \in GPR \/ (i.rt = "imm" /\ i.op \in Computations)
    /\ i.rd \in IF i.op \in {"mfc0", "mtc0"} THEN C0Registers ELSE GPR

ASSUME CodeAssumption == \A a \in DOMAIN Code : \A i \in Code[a] : WellFormed(i)

VARIABLES pc, delay_state, delay_pc, next_epc, exception_pending,
          gpr,         \* registers
          mem,         \* data words by physical address
          undefined    \* history: a branch was taken in a delay slot, which
                       \* the architecture leaves undefined

c0Vars == <<excVars, faultVars, tlbVars>>
vars == <<pc, delay_state, delay_pc, next_epc, exception_pending, gpr, mem, undefined,
          c0Vars, random, irq>>

-----------------------------------------------------------------------------
(* Faulty variant: the handler begins in the delay slot it interrupted.     *)
ExceptionKeeping(code, c, miss) ==
    /\ EnterException(next_epc', code, c, delay_state = "DELAYSLOT")
    /\ pc' = (IF Bit(status, BEV) THEN BootBase ELSE Kseg0) + (IF miss THEN 0 ELSE GeneralVector)
    /\ exception_pending' = TRUE
    /\ UNCHANGED <<delay_state, delay_pc, undefined>>

(* exception(): c is the coprocessor, miss whether a user page was missing. *)
Exception(code, c, miss) ==
    /\ EnterException(next_epc', code, c, delay_state = "DELAYSLOT")
    /\ pc' = (IF Bit(status, BEV) THEN BootBase ELSE Kseg0) + (IF miss THEN 0 ELSE GeneralVector)
    /\ exception_pending' = TRUE
    /\ delay_state' = "NORMAL"
    /\ UNCHANGED <<delay_pc, undefined>>

Raise(code, c) ==
    Exception(code, c, FALSE) /\ UNCHANGED <<faultVars, tlbVars, gpr, mem, irq>>

TranslationFault(t, va) ==
    /\ Exception(t.exc, 0, t.userMiss)
    /\ IF t.exc \in {"Mod", "TLBL", "TLBS"} THEN LoadAddrTransExcpInfo(va)
                                            ELSE UNCHANGED faultVars
    /\ UNCHANGED <<tlbVars, gpr, mem, irq>>

(* Faulty variant: the slot's own address is taken for the branch's.       *)
SaveEpcAlways == next_epc' = pc

(* The address that an exception in this step reports. *)
SaveEpc == next_epc' = IF delay_state = "DELAYSLOT" THEN next_epc ELSE pc

(* The end of a step in which no branch was taken. *)
Proceed ==
    /\ pc' = IF delay_state = "DELAYSLOT" THEN delay_pc ELSE Wrap(pc + 4)
    /\ delay_state' = "NORMAL"
    /\ exception_pending' = FALSE
    /\ UNCHANGED <<delay_pc, undefined>>

(* control_transfer() and the end of its step. *)
ControlTransfer(target) ==
    /\ pc' = Wrap(pc + 4)
    /\ delay_state' = "DELAYSLOT"
    /\ delay_pc' = target
    /\ exception_pending' = FALSE
    /\ undefined' = (undefined \/ delay_state = "DELAYSLOT")

Put(r, v) == gpr' = Assigned(gpr, r, v)

-----------------------------------------------------------------------------
(* Instructions *)

Calculate(i) ==
    LET a == gpr[i.rs]
        b == Operand(i, gpr)
    IN  /\ i.op \in Computations
        /\ IF Overflows(i.op, a, b)
             THEN Raise("Ov", 0)
             ELSE Put(i.rd, Compute(i.op, a, b)) /\ Proceed /\ UNCHANGED <<c0Vars, mem, irq>>

Multiply(i) ==
    /\ i.op \in Products /\ ~Reserved(i, gpr)
    /\ \E p \in Product(i.op, gpr[i.rs], gpr[i.rt]) :
          gpr' = [gpr EXCEPT !["hi"] = p[1], !["lo"] = p[2]]
    /\ Proceed /\ UNCHANGED <<c0Vars, mem, irq>>

(* bltzal and bgezal link before they test, jalr reads its target before it  *)
(* links.                                                                    *)
Transfer(i) ==
    /\ i.op \in Transfers /\ ~Reserved(i, gpr)
    /\ gpr' = Linked(i, gpr, pc)
    /\ IF Taken(i.op, gpr'[i.rs], gpr'[i.rt])
         THEN ControlTransfer(Target(i, gpr[i.rs], pc)) ELSE Proceed
    /\ UNCHANGED <<c0Vars, mem, irq>>

Load(i) ==
    LET va == Wrap(gpr[i.rs] + i.imm)
        t == AddressTrans(Accessed(i.op, va), "DATALOAD")
        word == Base(t.phys)
    IN  /\ i.op \in Loads
        /\ IF Accessed(i.op, va) % Width(i.op) # 0 THEN Raise("AdEL", 0)
           ELSE IF t.exc # "none" THEN TranslationFault(t, Accessed(i.op, va))
           ELSE IF word \notin DOMAIN mem THEN Raise("DBE", 0)
           ELSE /\ Put(i.rd, Loaded(i.op, gpr[i.rd], mem[word], va))
                /\ Proceed /\ UNCHANGED <<c0Vars, mem, irq>>

Store(i) ==
    LET va == Wrap(gpr[i.rs] + i.imm)
        t == AddressTrans(Accessed(i.op, va), "DATASTORE")
        word == Base(t.phys)
    IN  /\ i.op \in Stores
        /\ IF Accessed(i.op, va) % Width(i.op) # 0 THEN Raise("AdES", 0)
           ELSE IF t.exc # "none" THEN TranslationFault(t, Accessed(i.op, va))
           ELSE IF word \notin DOMAIN mem THEN Raise("DBE", 0)
           ELSE /\ mem' = [mem EXCEPT ![word] = Stored(i.op, gpr[i.rt], mem[word], va)]
                /\ irq' = (irq /\ word # AckRegister)
                /\ Proceed /\ UNCHANGED <<c0Vars, gpr>>

Traps == [syscall |-> "Sys", break |-> "Bp", reserved |-> "RI"]

Trap(i) ==
    \/ i.op \in DOMAIN Traps /\ Raise(Traps[i.op], 0)
    \/ Reserved(i, gpr) /\ Raise("RI", 0)

(* Coprocessors 1 to 3, without the option fpu: only cfc1 of $0 answers.   *)
Unimplemented(i) ==
    /\ i.op \in {"cop", "cfc1"}
    /\ IF i.op = "cfc1" /\ Bit(status, CU1)
         THEN Put(i.rd, 0) /\ Proceed /\ UNCHANGED <<c0Vars, mem, irq>>
         ELSE Raise("CpU", i.imm)

(* cpzero_emulate() *)
CoprocessorZero(i) ==
    /\ \/ i.op = "mfc0" /\ Put(i.rt, ReadReg(i.rd)) /\ UNCHANGED c0Vars
       \/ i.op = "mtc0" /\ WriteReg(i.rd, gpr[i.rt]) /\ UNCHANGED gpr
       \/ i.op = "tlbwi" /\ Tlbwi /\ UNCHANGED gpr
       \/ i.op = "tlbwr" /\ Tlbwr /\ UNCHANGED gpr
       \/ i.op = "tlbr" /\ Tlbr /\ UNCHANGED gpr
       \/ i.op = "tlbp" /\ Tlbp /\ UNCHANGED gpr
       \/ i.op = "rfe" /\ Rfe /\ UNCHANGED gpr
    /\ Proceed /\ UNCHANGED <<mem, irq>>

Emulate(i) ==
    \/ Calculate(i) \/ Multiply(i) \/ Transfer(i) \/ Load(i) \/ Store(i)
    \/ Trap(i) \/ Unimplemented(i) \/ CoprocessorZero(i)

-----------------------------------------------------------------------------
Fetched == AddressTrans(pc, "INSTFETCH")

FetchFault == Fetched.exc # "none" /\ TranslationFault(Fetched, pc)

Misaligned == Fetched.exc = "none" /\ Fetched.phys % 4 # 0 /\ Raise("AdEL", 0)

FetchBusError ==
    Fetched.exc = "none" /\ Fetched.phys % 4 = 0 /\ Fetched.phys \notin DOMAIN Code /\ Raise("IBE", 0)

Reaches == Fetched.exc = "none" /\ Fetched.phys \in DOMAIN Code

TakeInterrupt == Reaches /\ InterruptPending /\ Raise("Int", 0)

Instruction == Reaches /\ ~InterruptPending /\ \E i \in Code[Fetched.phys] : Emulate(i)

Step ==
    /\ random' = AdjustRandom
    /\ SaveEpc
    /\ FetchFault \/ Misaligned \/ FetchBusError \/ TakeInterrupt \/ Instruction

(* The device asserts its interrupt (external). *)
Interrupt ==
    /\ Asynchronous /\ ~irq
    /\ irq' = TRUE
    /\ UNCHANGED <<pc, delay_state, delay_pc, next_epc, exception_pending, gpr, mem, undefined,
                   c0Vars, random>>

(* Bound: what the code leaves uninitialized is zero. *)
Init ==
    /\ Reset
    /\ pc = ResetPc
    /\ delay_state = "NORMAL" /\ delay_pc = 0 /\ next_epc = 0
    /\ exception_pending = FALSE
    /\ gpr = [r \in GPR |-> 0]
    /\ mem = Data
    /\ undefined = FALSE
    /\ epc = 0 /\ badvaddr = 0 /\ context = 0 /\ entryhi = 0 /\ entrylo = 0 /\ index = 0
    /\ tlb = [x \in 0..TlbEntries - 1 |-> <<0, 0>>]
    /\ irq = FALSE

Next == Step \/ Interrupt

Spec == Init /\ [][Next]_vars

-----------------------------------------------------------------------------
(* Types.                                                                   *)
TypeOK ==
    /\ pc \in Word /\ delay_pc \in Word /\ next_epc \in Word
    /\ delay_state \in {"NORMAL", "DELAYSLOT"}
    /\ exception_pending \in BOOLEAN /\ undefined \in BOOLEAN /\ irq \in BOOLEAN
    /\ gpr \in [GPR -> Word] /\ gpr["zero"] = 0
    /\ mem \in [DOMAIN Data -> Word]
    /\ status \in 0..511 /\ cause \in 0..2047
    /\ \A r \in {epc, badvaddr, context, entryhi, entrylo, index} : r \in Word
    /\ random \in RandomLower..RandomUpper
    /\ tlb \in [0..TlbEntries - 1 -> Word \X Word]

(* An instruction in a delay slot follows its branch: the address that an   *)
(* exception would report there is the branch's, just before (step()).      *)
SlotFollowsBranch ==
    delay_state = "DELAYSLOT" /\ ~undefined => pc = Wrap(next_epc + 4)

(* A software interrupt stays requested until the program withdraws it:     *)
(* "software interrupts (readable/writable by software)", vmips.texi:1624.   *)
SoftwareInterruptKept == [][exception_pending' /\ Bit(cause, SW) => Bit(cause', SW)]_vars

(* The entries below the lower bound of Random are the program's own: only  *)
(* tlbwi writes them, whatever tlbwr picks (adjust_random).                 *)
WiredKept ==
    [][\A x \in 0..RandomLower - 1 : tlb'[x] # tlb[x] => x = index % TlbEntries]_vars
=============================================================================
