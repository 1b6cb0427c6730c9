---------------------------- MODULE UserProgram -----------------------------
(***************************************************************************)
(* What a program in user mode sees of the processor when an operating     *)
(* system handles the exceptions: its instructions run one after another,  *)
(* each once, a taken branch and its delay slot as one unit.  There are no *)
(* exceptions here, no translation and no delay state.                     *)
(***************************************************************************)
EXTENDS LoadStore

CONSTANTS Code,        \* set of possible instructions at each address
          Entry,       \* first instruction
          Writable     \* addresses of the words the program may store to

VARIABLES at,          \* address of the next instruction
          regs,        \* registers
          data         \* words the program can load, by address

vars == <<at, regs, data>>

Address(i, r) == Wrap(r[i.rs] + i.imm)

InReach(i, r, words) ==
    /\ Accessed(i.op, Address(i, r)) % Width(i.op) = 0
    /\ Base(Address(i, r)) \in words

(* Instruction i, which transfers no control, with registers r. *)
Completes(i, r) ==
    \/ /\ i.op \in Computations
       /\ ~Overflows(i.op, r[i.rs], Operand(i, r))
       /\ regs' = Assigned(r, i.rd, Compute(i.op, r[i.rs], Operand(i, r)))
       /\ UNCHANGED data
    \/ /\ i.op \in Products /\ ~Reserved(i, r)
       /\ \E p \in Product(i.op, r[i.rs], r[i.rt]) :
             regs' = [r EXCEPT !["hi"] = p[1], !["lo"] = p[2]]
       /\ UNCHANGED data
    \/ /\ i.op \in Loads /\ InReach(i, r, DOMAIN data)
       /\ regs' = Assigned(r, i.rd, Loaded(i.op, r[i.rd], data[Base(Address(i, r))], Address(i, r)))
       /\ UNCHANGED data
    \/ /\ i.op \in Stores /\ InReach(i, r, Writable)
       /\ data' = [data EXCEPT ![Base(Address(i, r))] =
                      Stored(i.op, r[i.rt], data[Base(Address(i, r))], Address(i, r))]
       /\ regs' = r

InCode(a) == IF a \in DOMAIN Code THEN Code[a] ELSE {}

Takes(i) == ~Reserved(i, regs) /\ Taken(i.op, regs[i.rs], regs[i.rt])

Straight == \E i \in InCode(at) : Completes(i, regs) /\ at' = Wrap(at + 4)

NotTaken ==
    \E i \in InCode(at) :
        /\ i.op \in Transfers /\ ~Reserved(i, regs) /\ ~Takes(i)
        /\ regs' = Linked(i, regs, at) /\ at' = Wrap(at + 4)
        /\ UNCHANGED data

BranchAndSlot ==
    \E i \in InCode(at), j \in InCode(Wrap(at + 4)) :
        /\ i.op \in Transfers /\ Takes(i)
        /\ Completes(j, Linked(i, regs, at))
        /\ at' = Target(i, regs[i.rs], at)

(* The link register may be written before the delay slot completes.       *)
LinkFirst ==
    \E i \in InCode(at) :
        /\ i.op \in Transfers /\ Takes(i)
        /\ regs' = Linked(i, regs, at)
        /\ UNCHANGED <<at, data>>

Init == at = Entry

Next == Straight \/ NotTaken \/ BranchAndSlot \/ LinkFirst

Spec == Init /\ [][Next]_vars
=============================================================================
