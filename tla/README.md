# A TLA+ model of VMIPS

VMIPS simulates a MIPS R3000 computer: a CPU with its system coprocessor, caches,
memory, and devices on a physical bus. These modules model its control: what the
components keep, in which order they change it, and which promises hold between them.
Paths below are relative to `src/`.

Contents: 1 inventory, 2 modules and code, 3 runs, 4 bounds, 5 fairness, 6 proofs, 7
divergences found, 8 not modelled, 9 plan.

## 1. Inventory

VMIPS has one thread and one asynchronous actor, the handler of SIGQUIT. Everything else
that looks concurrent is ordered by the simulated clock: after each guest instruction
(`vmips::step`, vmips.cc:374) the clock advances and runs the tasks that came due. A
task may queue tasks, change a device's registers, raise interrupts or, by way of the
attention key, change the state of the machine.

| component | state | operations | what is hard, and what makes it correct |
|---|---|---|---|
| Clock, deferred tasks (clock.cc, clock.h, task.h) | simulated time; a delta list of task groups | add_deferred_task, increment_time, pass_realtime, set_time | tasks queue tasks while their own group runs; overshoot; equal due times. Every task runs once, when due, in order |
| Machine driver (vmips.cc) | `state` in HALT, RUN, DEBUG, INTERACT | run, step, halt, attn_key, interact | four writers of one variable, one of them a signal handler. A halt is obeyed, each loop is left when it should be |
| Inspector (interactor.cc) | commands | go, step, halt, end of input | it steps the guest inside the prompt |
| Debugger (debug.cc, remotegdb.cc) | session, breakpoints, connection error | serverloop, targetloop, packet handlers; getpkt, putpkt | connection lost at any point; the guest runs in a loop of the debugger's own; acknowledgements and retransmission |
| Terminal controller (terminalcontroller.cc) | per line: descriptor, keyboard and display state, the two task pointers; unready_keyboards; max_fd | ready/unready of keyboard and display, polls, connect, remove, suspend, reinitialize | pointers into objects that the clock deletes; a descriptor must be watched by exactly one of poll and repoll |
| SPIM console (spimconsole.cc) | enable bits, clock state, interrupt lines | register reads and writes; overrides of the controller's methods | an edge lost between the guest and a task; a request without a cause |
| DEC serial + CSR (decserial.cc, deccsr.cc) | receive buffer state, CSR bits, one shared interrupt | registers as above | one interrupt stands for eight conditions |
| DEC RTC (decrtc.cc) | registers A-D, rate, the triggers on the clock | store, fetch, ready_clock | enabling starts a chain of triggers, and several may run at once. Ticks go on while enabled and stop with the enable bit |
| Clock device (clockdev.cc) | enable bit, clock state | registers, set_time, the trigger | a period that ends while the interrupt is disabled; units and carries |
| Interrupts (deviceint.cc, intctrl.cc) | lines connected and asserted per device | assert, deassert, union over devices | level-triggered lines shared by devices |
| CPU (cpu.cc) | pc, registers, delay_state, delay_pc, exception_pending | step, exception, one emulation per opcode | branch delay slots with exceptions and interrupts |
| CP0, TLB (cpzero.cc) | Status, Cause, EPC, Random, TLB | exceptions, rfe, tlb operations, translation | the three-deep mode stack; Random's range |
| Mapper, caches (mapper.cc, range.cc, devicemap.cc) | ranges, two write-through caches, isolation and swap bits | fetch and store of word, halfword, byte | cache agrees with memory, partial-word stores |
| ROM, RAM (rommodule.cc, memorymodule.h) | bytes | loads, stores | ROM refuses stores |
| Options, loader, errors (options.cc, exeloader.cc, error.cc) | option table | parsing | order of sources, numeric suffixes |
| FPU, disassembler, vmipstool, libopcodes_mips | | | host arithmetic, printing, vendored code |

Interactions: the driver calls CPU and clock; the CPU calls the mapper, which calls
devices; the clock calls tasks, which call devices; devices queue tasks on the clock and
set interrupt lines that CP0 reads between instructions; a device calls `attn_key`,
which the driver's loops observe; the debugger calls `vmips::step`.

## 2. Modules and code

An operator introduced by "Faulty variant" is a deviation from the code that a property
is known to reject; no specification uses it. Modules named `MC...` give the constants
their values, modules named `...Proofs` hold theorems.

### Clock

`DeferredSchedule` is what clock.h promises a caller: tasks pending, the time until each
is due, the order in which they were queued. `Clock` is the delta list of clock.cc, and
implements it. One iteration of a loop of the code is one step of the model, because
`pass_time` runs tasks in the middle of `increment_time` and a task calls
`add_deferred_task`; `pos` is the position in the running group, `call` the local state
of `add_deferred_task`. `pending`, `due` and `older` are history variables, identical to
the abstract ones: the refinement mapping is the identity on them, and what there is to
show is that the code's steps obey the abstract guards. The call of a task's `task()` is
`RunTask`; what it does, apart from queueing tasks, is left to the devices. Cancelled
tasks run too: cancel() is the devices' business.

`Realtime` is the arithmetic of `pass_realtime`: how many nanoseconds it passes, in how
many increments, and what it spills to the next call, from two readings of the host's
clock.

### Terminals and devices

`TerminalController` holds the methods of terminalcontroller.cc as operators on a line
and `SpimConsole` extends it the way the class does: its actions are the cases of
`fetch_word` and `store_word`, one per task type, and the two halves of
`vmips::interact`, `EnterInspector` (`suspend`) and `LeaveInspector`
(`reinitialize_terminals`). Between them, while `suspended`, the inspector may step the
machine, or the user leave it alone. An action is a whole register access or a whole
task, as neither is interrupted. `suspend`, `prepare_tty` and `remove_terminal` set the
terminal's mode with TCSAFLUSH, which throws away what was typed and not yet read
(`Flush`); on a descriptor that is no terminal it stays, so any subset of the connected
descriptors may be flushed. `tasks` counts, for each kind of task, those on the clock
and not cancelled; that each of them runs in the end is `EveryTaskRuns` of `Clock`. A
failed assertion sets `aborted` and ends the behaviour. The one on the result of `write`
(terminalcontroller.cc:192) fails when the host does not take the character, which it
need not, as the descriptors are opened O_NONBLOCK: `WriteFails`, at any write, which
sets `write_failed` besides, a history variable. What the user types is external
(`Type`). `select` may fail, and then leaves the set it was given, so `Selected` offers
both. Characters other than the attention key are not told apart.

`DECSerial` extends `TerminalController` in the same way for decserial.cc, and `DECCSR`
is the status register whose one bit all its receivers and transmitters share (`Recheck`
is the end of `store_word`, which settles that bit). A read that changes nothing is left
out. The constructors leave the copies of the enable bits, `ioint` and `rwbits` unset,
so their first values are arbitrary. `setup_decserial` connects the console to line 3
only. `DECRTC` is the periodic interrupt of decrtc.cc: `triggers` counts the tasks on
the clock, as each queues its successor. `ClockDevice` is clockdev.cc, whose one trigger
is always queued. `DECstation` puts these side by side.

### Machine and debugger

`Machine` is the driver: `pc` names a place in `vmips::run`, `Debug::serverloop`,
`Debug::targetloop` and `SimpleInteractor::interact`; `caller` is the loop to which
`vmips::step` returns. `Sigquit` may come between any two steps, in particular between
the test and the assignment in `interact` (vmips.cc:474), which are two actions for that
reason. What a guest instruction does to `state` is a choice in `CpuStep` (halt device,
halting exception), what a task does is one in `ClockStep` (attention key). `late` and
`stored` are history.

`RemoteProtocol` has the two ends of a GDB session. The server is `targetloop` with
`getpkt` and `putpkt` of remotegdb.cc; the client is GDB, with `remote_send` of the same
file. They talk over TCP, so nothing is lost or reordered, but everything may be late,
and a read may time out at any moment. A packet is its `$` and the rest, which are read
one after the other. Commands and answers carry numbers, so that a property can say
which command was answered.

### Memory

`FlatMemory` is what the memory promises a program: one array of bytes, seen through two
ports (fetches and cached loads). `wild` are the places where the program itself has
gone behind a cache: a store around it, or into it while it was isolated, and the line
not invalidated since. `Mapper` is mapper.cc with range.cc and devicemap.cc: ranges in
the order of their mapping and in arithmetic modulo 2^AddrBits, the range remembered
from the last access, both write-through caches with isolation and swapping, byte order
of host and target, partial words filled by read-modify-write, device lanes. A value is
a function from byte lanes to bytes. `stale` and `flat` are history, and the refinement
mapping `Flat` reads `seen` through the code's own fetch. `MCMapper` has a range that
overlaps the ROM and is refused, and one that ends at the top of the address space,
which is refused as well: its end wraps to 0, and the overlap test takes it to lie
inside every range below.

### Processor

`Arithmetic` is the integer arithmetic of cpu.cc in the code's form (signs read off a
wrapped sum, products from halves, shifts as the host does them), and `LoadStore` what
each load and store makes of a word and a register, for both byte orders. `CPZero` is
the system coprocessor. `CPU` is `CPU::step`: fetch, interrupt check, instruction, with
`delay_state`, `delay_pc`, `next_epc`, `exception_pending` as in the code. Its memory is
flat, which is what the memory run shows of the caches for a program that does not go
behind them. `mem` holds data and `Code` the set of possible instructions at an address,
so that one run covers many programs. `undefined` is history: a branch stood in a delay
slot, for which the manual promises nothing.

`UserProgram` is what a user program may expect: its instructions in order, each once, a
taken branch and its slot as a unit, no exceptions. `UserMode` states that `CPU` under
an operating system implements it: while a handler runs, the program stands at EPC, and
while the processor is in a delay slot, at the branch. The system appears in `UserMode`
only through its page table and through `SystemKeeps`, what its own steps owe the
program: they change no register or datum of it, keep one entry of the TLB for a page
(`OneMatch`) as the table has it (`TlbFollowsTable`), and return to user mode outside of
delay slots, with the ordinary vectors, and unless they raise an exception themselves,
enable interrupts with the `rfe` that leaves kernel mode only (`ModeMatchesCode`).
`UserAssumption` says which programs: no system coprocessor, no register that the
handlers use, no branch in a delay slot, and no branch that overwrites the register it
jumps by (one that links, when an exception in its slot makes it run again). `MCCPU`
holds such a system: a boot routine that exercises the remaining instructions, a refill
handler that reads a page table in kseg2, itself mapped by the wired entry, a general
handler for the device's interrupt, and a program of arbitrary instructions that crosses
a page between a branch and its slot.

## 3. Runs

| run | configuration | what it shows |
|---|---|---|
| clock | MCClock.cfg, 23 596 states | `TypeOK`, `PassTimeAsserts`, `OnePlaceEach`, `DeadlinesKept`, `FifoGroups`; the clock implements `DeferredSchedule` (`KeepsPromise`); every queued task runs (`EveryTaskRuns`); simulated time follows the host's (`RealtimeTracks`) |
| spim | MCSpim.cfg, 896 400 states | two lines: `LinesAgree` ties the keyboard's state, the polled set and the task pointers; `NoAssertFails`: none but the assertion on what `write` returns, for a guest that checks READY before it reads; `ReadyDeviceRequests` and `InterruptHasCause` relate interrupt lines to devices |
| spim_live | MCSpimLive.cfg, 14 400 states | `DisplayRecovers`, `InputIsRead`, `KeyboardRequestsInTheEnd` |
| decstation | MCDECstation.cfg, 238 140 states | `SerialRequestKept` and `SerialRequestHasCause`: one interrupt for many sources is neither lost nor left over; `TimersRequest` for both timers; `RtcTicks`: ticks go on |
| machine | MCMachine.cfg, 179 states | `StopsWithinOneInstruction`, `DebuggerOwnsMachine`; and that halts, lost connections and the attention key have their effect |
| memory | MCMapper.cfg, 294 944 states | `Coherent`: a valid cache entry that is not stale is what memory holds; `FindAgrees`: mapped ranges are disjoint and of whole words, and the remembered range is the one a search finds; `MemoryIsFlat`; `LanesExact` for devices; `ImplementsFlatMemory` |
| cpu | MCCPU.cfg, 285 866 states | `RunsUserProgram`; `SlotFollowsBranch`; `ModeMatchesCode`; `SystemKeeps`: the handlers' steps change nothing the program sees, and leave one TLB entry for a page, as the table has it; `WiredKept`: `tlbwr` writes no wired entry; `ArithmeticExact` |
| spim_irq3, spim_read, machine_halt_store, cpu_software_interrupt, gdb_gobble | MCSpimIrq3.cfg, MCSpimRead.cfg, MCMachineHalt.cfg, MCCPUSoft.cfg, MCRemoteProtocol.cfg | five sentences of the manual or of a comment that the code does not keep, section 7 |

Only `clock`, `memory` and the two processor runs check deadlock. In the others the
system may stop: the program ends when it exits, or when an assertion fails, and GDB has
finished when it has sent its commands.

## 4. Bounds

* `clock`: three task objects, delays 1..3, increments 1 and 3, three nanoseconds to the
  second, two seconds (`SecWrap`). Three tasks are enough for a group of two with a
  third before, inside and behind it, for a group split off by a task that runs, and for
  an increment that overshoots two groups and reaches a third exactly. A task object is
  queued again only after it ran, as tasks are allocated anew in the code. The history
  counts time from the present, so it needs no bound. `RealtimeTracks` takes every three
  calls within three seconds and every ratio up to a second.
* `spim`: both lines, each on a descriptor of its own, connected or not; one ordinary
  character and the attention key; one character waiting on each descriptor. A line's
  character is consumed by one read, so longer input repeats the same states.
* `spim_live`: one connected line, as with the default `ttydev2=off` (optiontbl.h), and
  the registers of both. The two lines share only `unready_keyboards`, `max_fd` and the
  poll, which `spim` covers for safety.
* `decstation`: the one line that `setup_decserial` connects; `MaxTriggers` = 2 lets two
  chains of triggers run at once.
* `machine`: `MaxSteps` = 2 bounds the history counter `late`, one more than the
  invariant allows. Nothing else is bounded.
* `memory`: addresses of four bits, bytes 0 and 1, caches of one entry, so that two
  words of RAM and one of ROM share it; stores from `StoreAt`, one of each width in RAM,
  one to ROM, one to a second word. All four combinations of byte order.
* `cpu`: words of twelve bits, bytes of three, pages of sixteen bytes, a TLB of four
  entries with one wired, Random in 1..3; five instruction slots across a page boundary,
  each with up to four instructions; arithmetic shifts, little-endian. Registers that
  `CPU::reset` leaves alone start at 0. `ArithmeticExact` takes all pairs of six-bit
  words and both kinds of host shift, and for loads and stores all words of four one-bit
  bytes in both byte orders.
* `gdb_gobble`: two commands and one timeout at each end.

## 5. Fairness

* `Clock`: weak fairness of some advance of the clock (vmips::step advances it after
  each instruction) and of each loop's next iteration. No fairness for callers.
* `SpimConsole`: weak fairness of the poll, the repolls and the display delays
  (`FairPoll`, `FairRepoll`, `FairDelay`): a queued task runs, which is `EveryTaskRuns`
  of `Clock`. None for the guest. Of the user, that an inspector is left again
  (`InspectorLeft`): inside it nothing runs but what the user steps.
* `DECstation`: weak fairness of the real-time clock's trigger (`Trigger`), for the same
  reason, and `InspectorLeft`.
* `Machine`: weak fairness of the program's own steps. None where it waits: for a
  command, a connection, a packet, or the acknowledgement of one; none for SIGQUIT.

The memory, the processor and the protocol are checked for safety only.

## 6. Proofs

`ClockProofs` proves, for any sets of tasks, delays and increments and any second
length, under `ClockAssumption` (delays and increments are positive: clock.cc asserts
both), that the conjunction `IInv` of the five invariants is inductive (`IInvariant`),
each of them (`TypeCorrect`, `PassTimeSafe`, `OnePlaceEach` in `NoTaskLost`,
`DeadlinesCorrect`, `GroupsFifo`) and the refinement (`Refinement`). The five support
each other, which is why none is proved alone. That a group's delay is positive needs
the deadlines in increasing order; the deadlines need every task to have one place;
first in, first out needs both. The refinement uses them at `RunTask`: the next task of
the front group is the earliest of all pending ones, because the groups' due times
increase and the group is in queueing order. It also uses them at `IncrementTime`, where
no task may be overdue. The abstract time until a task is due is read off the list by
`Due`, defined through the first task of a group, so no recursive sum is needed.
`PassRealtimeSlips` bounds what one call of `pass_realtime` may lose, for any ratio and
any readings of the host's clock, and `RealtimeKept` (`RealtimeTracks`) what three calls
lose together.

`MachineProofs` proves `TypeCorrect`, `HaltStopsGuest` (`StopsWithinOneInstruction`) and
`DebuggerInControl` (`DebuggerOwnsMachine`) from one inductive invariant. Beside the two
properties it says where a late instruction may have left the program (`OnTheWayOut`),
and that under the debugger the state INTERACT is confined to a session: a session that
ends in it ended with an error, whose handling halts the machine before any loop outside
the debugger looks.

It also proves the three liveness properties of the machine run from `FairSpec /\
[]StopsOnlyToWait`: `HaltedExits`, `DisconnectExits` and `AttentionPrompts`. The prover
treats ENABLED as an atom, which is why `StopsOnlyToWait` is a hypothesis of theirs. It
says that the case distinctions at each place are exhaustive, and TLC confirms it when
it is added to MCMachine.cfg as an INVARIANT. The argument for each is a chain of
places. While the state asked about holds and the program neither waits nor exits, a
step of the driver goes to a place nearer the end, every other step stays where it is or
leaves the state (`HaltedStays`, `LostStays`, `CalledStays` for any step, `HaltedMoves`,
`LostMoves`, `CalledMoves` for the driver's own), and each place is left by fairness.

`TerminalProofs` proves once that each method of the terminal controller keeps
`TerminalInv`: the types, `LinesAgree`, and that a line keeps its descriptor until it is
removed. It assumes `SeparateTerminals`, that no two lines share a descriptor, which the
code does not guarantee (section 8). `SpimProofs` and `DECProofs` cite these lemmas for
their registers and tasks. `SpimProofs` proves all five invariants of the spim run;
`NoAssertFails` excepts the assertion on the result of `write` and needs
`GuestChecksReady`, and its proof that a poll never meets a ready keyboard rests on
`LinesAgree`. `DECProofs` proves the types, that no assertion but that one fails
whatever the guest does, `TimersRequest`, and the two action properties about the shared
interrupt. Their strengthening is `CopiesWritten`: once an enable bit is set in CSR, the
driver's copies of both bits agree with it; before that they hold what the constructor
found in memory, and the check at the end of `store_word`, which reads the copies, could
not be shown to settle the interrupt.

Liveness of the devices rests on one task each, which the proof shows to be queued and
to stay queued until it has done its work, the line is removed, or an assertion ends the
program; they hold of any guest. `DisplaysRecover`: an unready display of a connected
line has its delay on the clock. `InputGetsRead`: a waiting character is seen by the
repoll of its line while the keyboard is ready, and otherwise by the poll, whose set
holds the descriptor; `LinesAgree` is what rules out that neither watches it.
`InputIsRead` counts a character as read only when it has made the keyboard ready; one
that is flushed is lost, and only a visit to the inspector, or the removal of the line,
flushes. `KeyboardsRequest`: a ready keyboard has its repoll. `TicksGoOn` (`RtcTicks`):
while rate and enable bit are on, a trigger queues the next. Fairness is of `FairSpec`,
and that a queued task can run is the hypothesis `QueuedTasksRun` or
`QueuedTriggerRuns`, again because ENABLED is not expanded: the guards of the tasks say
it, and as an INVARIANT added to MCSpimLive.cfg and to MCDECstation.cfg TLC finds that
both hold.

`ArithmeticProofs` proves `Exact` (overflow, shifts, products, and both divisions) and
`MovesBytes` for all words, of any even width for the former and any multiple of four
bits for the latter (`ArithmeticIsExact`, `LoadsAndStoresMoveBytes`); the cpu run takes
words of six and of four bits (`ArithmeticExact`). Powers of two are numbers in these
proofs, about which `PowerAssumption` states the two facts that the prover does not
know, for exponents up to the width; TLC evaluates it. The rest is the uniqueness of
quotients and digits. The bitwise operations are sums over bits, which an induction on
the number of bits bounds (`FromBitsTyped`).

`CPUProofs` proves `TypeCorrect` for any program, data, page size and TLB: each
instruction, exception and translation leaves a word in every register, which is where
the fields of Context, EntryHi, Cause and Status have to fit (`ContextGraft`,
`CauseTyped`), jump targets stay within their segment, and register zero is zero. It
assumes `CodeAssumption`, that instructions are what their encoding can hold
(`WellFormed`). The attempt to prove it found two slips of earlier versions of the
models, which let `jalr`, and the abstract program, write register zero; cpu.cc:1889
puts its zero back. It proves `BranchBeforeSlot` (`SlotFollowsBranch`): the property is
inductive by itself, since every step ends in an exception, a taken branch or neither.
It proves `WiredEntriesKept`, that `tlbwr` writes no wired entry (`WiredKept`), from the
range of Random, whose arithmetic keeps it within its bounds, and `ModeStack`: `rfe`
after `enter_exception` restores the current mode, for every value of Status.

`ProgramRuns` is the refinement of `UserProgram`, `Spec /\ SystemKeeps =>
RunsUserProgram`, for every program, page table, size of the TLB and moment of an
interrupt. The system's code is a parameter, so its side of the bargain is a hypothesis:
a step in kernel mode stutters by `SystemKeeps`, and every step of the program is shown
to be a step of `UserProgram` or to change nothing of it. The inductive invariant
`UserInv` says that, in user mode, the TLB follows the table and a branch waits for its
slot as the program has them: `SlotOfProgram` keeps, while in a delay slot, that the
branch at `next_epc` was allowed, that it leads to `delay_pc` and that running it again
writes the same link (`LinkedAgain`), since an exception in the slot sends the program
back to it. A fetch or a load goes to the word the table names (`Translated`, from
`TlbFollowsTable`, which speaks of every entry that matches; `OneMatch` is not needed),
a store only where the table lets it, and two virtual addresses never share a word
(`PhysicalInjective`). An exception leaves `epc` at the instruction not completed
(`ExceptionHidden`, `FaultHidden`). Without `Restartable` in `UserAssumption` the
theorem is false: `jalr` writes its link before the slot is fetched (cpu.cc:1197), so
that one that jumps by its own link jumps elsewhere when run again.

`ModeIsRight` is `Spec /\ SystemKeeps => []ModeMatchesCode`, by induction together with
`UserInv`. The processor's side is that every way to raise an exception, also from
inside a handler, ends at a vector in kernel mode with interrupts disabled
(`ExceptionEnters`, `StepEnds`), and that an instruction of the program which raises
none leaves Status alone (`UserStepEnds`); for the other steps in kernel mode, which run
`rfe`, `mtc0` and `jr`, `SystemKeeps` answers. An earlier form of `ModeMatchesCode` also
said that a kernel address means kernel mode; that holds in the cpu run but not of every
program, as one may jump to a kernel address, where its fetch faults.

`MapperProofs` proves the memory's `TypeCorrect`, `CachesCoherent` (`Coherent`),
`MemoryFlat` (`MemoryIsFlat`) and the refinement of `FlatMemory` (`Refinement`), for any
number of cache entries, any stores and every byte order, under `MapperAssumption`. That
asks that the ranges a machine tries to map be of whole words, which is the code's own
precondition: a RAM or ROM size that is no multiple of 4 lets the last word read past
the memory. That those accepted are disjoint is proved, by induction over the layout
(`MappedWords`): `add_range` asks each range that is already there, in arithmetic that
wraps. With it, `FindsRanges` (`FindAgrees`) shows that the remembered range is the one
a search would find, and `DeviceLanes` (`LanesExact`) that a device and the guest see
the same bytes. The invariant `MapperInv` joins the types and `MemoryIsFlat` with
`LinesHold`, which strengthens `Coherent`: a valid line is at the index of its tag even
when it is stale. Without that, a word stored into an isolated cache could change a line
whose tag lies elsewhere, which nothing would mark as stale. `MemoryIsFlat` and
`LinesHold` need each other: a partial store writes back the rest of the line, which is
memory only because the line was coherent, and the line stays coherent because the word
written is the line. The byte order is settled once, by `SetExact` and `GetExact`, in
the target's order: what a store changes in a line and a load takes from it.

Only model-checked:

* `EveryTaskRuns`: how long a task waits depends on its deadline and the tasks before
  it, so its proof needs an induction on numbers inside temporal logic, which is out of
  the prover's reach; the proofs of the other liveness properties need none;
* `StopsOnlyToWait`, `QueuedTasksRun` and `QueuedTriggerRuns`, which say ENABLED and are
  hypotheses of the liveness proofs: TLC confirms each when it is added as an INVARIANT;
* `SystemKeeps`, which is about the code of the handlers that `MCCPU` gives: TLC checks
  that this system meets the hypothesis of `ProgramRuns` and `ModeIsRight`;
* `ArithmeticExact`, an instance of the general theorems of `ArithmeticProofs`.

## 7. Divergences found

With a run that shows them:

* `machine_halt_store`: the guest stores to the halt device, and in the same step the
  keyboard poll reads the attention key: `attn_key` overwrites HALT with INTERACT
  (vmips.cc:362), and `go` at the prompt resumes the guest. doc/vmips.texi:1167 says the
  store halts the simulation.
* `spim_irq3`: spimconsole.cc:164 tests the state of display 1 when the guest enables
  the interrupt of keyboard 1. Line 3 is requested without a key typed. In the other
  direction the request may be missing until the next repoll, which
  `KeyboardRequestsInTheEnd` covers.
* `spim_read`: reading a keyboard's data register while it is unready fails the
  assertion at terminalcontroller.cc:204; doc/vmips.texi:1027 promises the last
  character. `spim` therefore lets the guest check first (`GuestChecksReady`).
* `cpu_software_interrupt`: `enter_exception` (cpzero.cc:371) clears the software bits
  of Cause before it reads them back, so any exception drops what the guest requested;
  doc/vmips.texi:1624 says that these two bits are the guest's.
* `gdb_gobble`: on a `$`, `putpkt` calls `getpkt` to discard the packet
  (remotegdb.cc:484), but `getpkt` waits for a `$` of its own and swallows the
  acknowledgement and the next command; the comment at remotegdb.cc:482 says that the
  old packet is ignored.

Met while modelling, and part of the models as the code has them:

* A read of RBUF takes the shared interrupt from a ready transmitter (decserial.cc:272):
  the exception that `SerialRequestKept` names.
* A terminal that is full when the guest writes a character ends the program
  (terminalcontroller.cc:192): the exception of `NoAssertFails`.
* A range that ends at the top of the address space wraps to 0 (range.cc:38): it is
  refused where another range is mapped, and maps nothing where none is. `FindAgrees`
  leaves it out.
* The copies of the enable bits start with what is in memory (decserial.cc:43), so the
  serial device may request an interrupt nobody enabled: `SerialRequestHasCause` leaves
  those states out.
* A removed line leaves its interrupt asserted (terminalcontroller.cc:117): the
  exception of `SerialRequestHasCause`.
* The real-time clock gives no tick if its interrupt is enabled before its rate is set,
  and toggling the enable bit multiplies the chains of triggers. No document says
  otherwise.
* `jr` requires the register named by rd to hold 0, not the field (cpu.cc:1186, in
  `Reserved`).
* Division by zero, and of the least number by -1, are not guarded (cpu.cc:1345): the
  model lets any result follow (`Quotients`), but a host that traps ends the program.
* `pass_realtime` drops the remainder whenever something passes, and a host clock that
  is set back lets up to a second pass (clock.cc:88). `RealtimeTracks` bounds the former
  and leaves out the latter.
* The clock device returns CTL_RDY, not CTL_IE, for an enabled interrupt
  (clockdev.cc:86); doc/vmips.texi:1113 says otherwise. Values read are not in the
  model.

## 8. Not modelled, and why

* Terminals: their modes, of which only the flush and whether a line could be prepared
  matter; the destructor, which runs when the program ends; two lines on one descriptor,
  which `FdOf` admits, but for which the assertion on `keyboard_repoll` can fail and no
  document says what should happen.
* Debugger: breakpoints and the contents of packets, which change what GDB sees, and
  through the debugger's memory accesses the guest's data. A continue at another address
  (`debug_set_pc`, cpu.cc:2062) leaves `delay_state` alone. Checksums and run lengths of
  the protocol are conversions; a broken connection is in `Machine`.
* Processor: coprocessor 1 and its loads (host floating point), tracing and dumps
  (output). The isolation and swap bits of Status are in `Mapper`.
* Real-time clock: the time of day and the update-in-progress bit, read from the host.
* The constant word of decstat, the test device: no state.
* Options, executable loader, error formatting, vmipstool: files, tables and strings,
  read before anything runs or in other programs. `ClockAssumption` asks for positive
  increments; a clock speed above 1 GHz would break it (vmips.cc:77).
* libopcodes_mips is vendored code for disassembly and accounts for a large part of the
  repository's lines.

## 9. Plan

What is left, in order of importance:

1. Breakpoints in ROM and RAM and the debugger's accesses to the processor, composed
   with `CPU`: what a continue from a delay slot does.
2. Two lines on one descriptor, as a run of its own.
3. Liveness of the GDB session: with finitely many timeouts every command is answered,
   once `putpkt` discards the packet it has met.
