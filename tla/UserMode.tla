------------------------------ MODULE UserMode ------------------------------
(***************************************************************************)
(* A program in user mode under a small operating system on the processor  *)
(* of CPU: the system fills the TLB from a page table that is itself       *)
(* mapped, answers the device's interrupt, and returns with jr and rfe     *)
(* from either handler.  The table maps virtual to physical pages.         *)
(***************************************************************************)
EXTENDS CPU

CONSTANTS UserPage,    \* physical page of each user page the program may fetch or load from
          UserRegs,    \* registers the handlers leave alone
          UserEntry,   \* first instruction of the program
          EntryRegs,   \* registers at that point
          UserWritable \* addresses of the words the program may store to

Virtual(domain) ==
    {v \in UNION {page..page + PageSize - 1 : page \in DOMAIN UserPage} :
        UserPage[Vpn(v)] + (v % PageSize) \in domain}

Physical(v) == UserPage[Vpn(v)] + (v % PageSize)

ProgramCode == [v \in Virtual(DOMAIN Code) |-> Code[Physical(v)]]

(* An instruction of the program: none of the system coprocessor's, which   *)
(* the processor would let it run, and no register that a handler writes.   *)
Ordinary(i) ==
    /\ i.op \in Computations \cup Products \cup Transfers \cup Loads \cup Stores
                 \cup DOMAIN Traps \cup {"cop"}
    /\ {i.rs, i.rd} \subseteq UserRegs
    /\ i.rt \in UserRegs \/ (i.rt = "imm" /\ i.op \in Computations)

(* A branch that can run again after an exception in its slot, which holds  *)
(* no branch: it does not overwrite the register that it jumps by.          *)
Restartable(i, v) ==
    i.op \in Transfers =>
        /\ i.rs \notin Link(i) \ {"zero"}
        /\ Wrap(v + 4) \in DOMAIN ProgramCode =>
              \A j \in ProgramCode[Wrap(v + 4)] : j.op \notin Transfers

ASSUME UserAssumption ==
    /\ {"zero", "ra", "hi", "lo"} \subseteq UserRegs /\ UserRegs \subseteq GPR
    /\ \A page \in DOMAIN UserPage :
          /\ page \in 0..Kseg0 - 1 /\ page % PageSize = 0
          /\ UserPage[page] \in Nat /\ UserPage[page] % PageSize = 0
          /\ \A other \in DOMAIN UserPage : UserPage[other] = UserPage[page] => other = page
    /\ ResetPc >= Kseg1 /\ BootBase >= Kseg0 /\ Kseg0 + GeneralVector < Kseg1
    /\ \A v \in DOMAIN ProgramCode : \A i \in ProgramCode[v] : Ordinary(i) /\ Restartable(i, v)

Booting == KernelMode /\ pc >= Kseg1

(* The instruction that the program has not completed yet: during a handler *)
(* the one that EPC names, and while in a delay slot the branch.            *)
Pending ==
    IF Booting THEN UserEntry
    ELSE IF KernelMode THEN epc
    ELSE IF delay_state = "DELAYSLOT" THEN next_epc ELSE pc

Program == INSTANCE UserProgram WITH
    Code <- ProgramCode,
    Entry <- UserEntry,
    Writable <- UserWritable,
    at <- Pending,
    regs <- IF Booting THEN EntryRegs ELSE [r \in UserRegs |-> gpr[r]],
    data <- [v \in Virtual(DOMAIN mem) |-> mem[Physical(v)]]

(* Whatever interrupts the program, at whatever instruction, a branch or    *)
(* its delay slot included, the program goes on as if nothing had happened  *)
(* (step, exception, enter_exception, rfe_emulate, tlb_translate).          *)
RunsUserProgram == Program!Spec

(* Every exception enters kernel mode at a vector, whatever it interrupts,  *)
(* and kernel mode never runs code at a user address (the program may jump  *)
(* to a kernel address, where it faults); no handler runs with interrupts   *)
(* enabled, nor the program with interrupts disabled (enter_exception,      *)
(* exception, rfe_emulate).                                                 *)
ModeMatchesCode ==
    /\ exception_pending => KernelMode
    /\ KernelMode => pc >= Kseg0
    /\ KernelMode <=> ~Bit(status, IEc)

(* At most one entry of the TLB matches an address: the handler is asked to *)
(* fill in a page only when it is missing (tlb_translate).                  *)
OneMatch ==
    \A x, y \in 0..TlbEntries - 1 : x # y => ~Matches(tlb[x], tlb[y][1], Asid(tlb[y][1]))

(* A valid entry for a page of the program says what the table says, and    *)
(* lets it store only where it may.                                         *)
TlbFollowsTable ==
    \A x \in 0..TlbEntries - 1 :
        LET page == Vpn(tlb[x][1])
            lo == tlb[x][2]
        IN  page < Kseg0 /\ Matches(tlb[x], page, Asid(entryhi)) /\ Bit(lo, Valid) =>
              /\ page \in DOMAIN UserPage /\ Vpn(lo) = UserPage[page]
              /\ Bit(lo, Dirty) => {v \in Virtual(DOMAIN mem) : Vpn(v) = page} \subseteq UserWritable

(* What the system owes the processor and the program, whatever interrupted *)
(* what: its steps change nothing that the program sees, leave the TLB as   *)
(* the table has it with one entry for a page (tlb_translate asks for a     *)
(* page only when it is missing), return between a branch and its slot      *)
(* never, and to the ordinary vectors (exception), and unless they raise an *)
(* exception themselves, jump to a user address and enable interrupts only  *)
(* with the rfe that leaves kernel mode.                                    *)
SystemKeeps ==
    [][KernelMode => /\ UNCHANGED Program!vars
                     /\ (~Booting => OneMatch /\ TlbFollowsTable)'
                     /\ (~KernelMode => delay_state = "NORMAL" /\ ~Bit(status, BEV))'
                     /\ (exception_pending \/ ModeMatchesCode)']_vars
=============================================================================
