----------------------------- MODULE SpimProofs -----------------------------
(***************************************************************************)
(* The safety properties of the SPIM console, for any descriptors of its   *)
(* two lines (as long as they differ) and any characters, and its liveness *)
(* once queued tasks run.                                                  *)
(***************************************************************************)
EXTENDS SpimConsole, TerminalProofs

RegistersOK ==
    /\ keyboard_interrupt_enable \in [Line -> BOOLEAN]
    /\ display_interrupt_enable \in [Line -> BOOLEAN]
    /\ clock_interrupt \in BOOLEAN
    /\ clock_state \in {"UNREADY", "READY"}
    /\ irq \in SUBSET IRQ
    /\ attn \in BOOLEAN

(* Assertions depend on the guest, everything else does not.                *)
IInv ==
    /\ TerminalInv
    /\ RegistersOK
    /\ GuestChecksReady => NoAssertFails
    /\ ReadyDeviceRequests
    /\ InterruptHasCause

(* What a step leaves of the lines that the interrupts depend on.           *)
SameLine(l) == lines'[l].fd = lines[l].fd /\ lines'[l].kbd = lines[l].kbd
                 /\ lines'[l].disp = lines[l].disp

LEMMA LinesTyped ==
    ASSUME TerminalInv
    PROVE  lines \in [Line -> LineState] /\ Line \subseteq {0, 1} /\ Line \subseteq 0..3
BY SpimAssumption DEF TerminalInv, TerminalTypeOK, LineState

LEMMA IrqsDiffer ==
    ASSUME NEW l \in Line, NEW m \in Line
    PROVE  /\ KeyboardIrq(l) \in IRQ /\ DisplayIrq(l) \in IRQ /\ ClockIrq \in IRQ
           /\ KeyboardIrq(l) # DisplayIrq(m)
           /\ KeyboardIrq(l) # ClockIrq /\ DisplayIrq(l) # ClockIrq
           /\ l # m => KeyboardIrq(l) # KeyboardIrq(m) /\ DisplayIrq(l) # DisplayIrq(m)
BY SpimAssumption DEF KeyboardIrq, DisplayIrq, ClockIrq, IRQ

LEMMA InitIInv == ASSUME SeparateTerminals, Init PROVE IInv
<1>1. PICK on \in SUBSET {l \in Line : FdOf[l] # NoFd} : InitTerminals(on, {ClockTrigger})
  BY DEF Init
<1>2. {ClockTrigger} \cap Kinds = {}
  BY DEF Kinds, ClockTrigger, Poll, Repoll, Delay
<1>3. TerminalInv
  BY <1>1, <1>2, SpimAssumption, TerminalInit
<1>4. NoAssertFails
  BY <1>1 DEF InitTerminals, NoAssertFails
<1>5. RegistersOK
  BY DEF Init, RegistersOK, IRQ
<1>6. ReadyDeviceRequests /\ InterruptHasCause
  BY DEF Init, ReadyDeviceRequests, InterruptHasCause
<1>7. QED
  BY <1>3, <1>4, <1>5, <1>6 DEF IInv

-----------------------------------------------------------------------------
(* Accesses to the registers that leave the lines alone.                    *)
LEMMA FetchControlKeeps ==
    ASSUME IInv, NEW l \in Line, FetchKeyboardControl(l) \/ FetchDisplayControl(l)
    PROVE  IInv'
<1> USE DEF IInv, NoAssertFails
<1>1. TerminalInv' /\ UNCHANGED terminalVars /\ UNCHANGED deviceVars /\ UNCHANGED attn
  BY TerminalStutter DEF FetchKeyboardControl, FetchDisplayControl
<1>2. CASE UNCHANGED irq
  BY <1>1, <1>2 DEF RegistersOK, ReadyDeviceRequests, InterruptHasCause, terminalVars,
     deviceVars, programVars, Connected
<1>3. CASE ~keyboard_interrupt_enable[l] /\ irq' = irq \ {KeyboardIrq(l)}
  <2>1. \A m \in Line : DisplayIrq(m) \in irq => DisplayIrq(m) \in irq'
    BY <1>3, IrqsDiffer
  <2>2. \A m \in Line : keyboard_interrupt_enable[m] /\ KeyboardIrq(m) \in irq
                           => KeyboardIrq(m) \in irq'
    BY <1>3, IrqsDiffer
  <2>3. ClockIrq \in irq => ClockIrq \in irq'
    BY <1>3, IrqsDiffer
  <2>4. QED
    BY <1>1, <1>3, <2>1, <2>2, <2>3 DEF RegistersOK, ReadyDeviceRequests, InterruptHasCause,
       terminalVars, deviceVars, programVars, Connected
<1>4. CASE ~display_interrupt_enable[l] /\ irq' = irq \ {DisplayIrq(l)}
  <2>1. \A m \in Line : display_interrupt_enable[m] /\ DisplayIrq(m) \in irq
                           => DisplayIrq(m) \in irq'
    BY <1>4, IrqsDiffer
  <2>2. \A m \in Line : KeyboardIrq(m) \in irq => KeyboardIrq(m) \in irq'
    BY <1>4, IrqsDiffer
  <2>3. ClockIrq \in irq => ClockIrq \in irq'
    BY <1>4, IrqsDiffer
  <2>4. QED
    BY <1>1, <1>4, <2>1, <2>2, <2>3 DEF RegistersOK, ReadyDeviceRequests, InterruptHasCause,
       terminalVars, deviceVars, programVars, Connected
<1>5. QED
  BY <1>2, <1>3, <1>4 DEF FetchKeyboardControl, FetchDisplayControl, Deassert

LEMMA ClockKeeps ==
    ASSUME IInv, \/ FetchClockControl \/ RunClockTrigger
                 \/ \E enable \in BOOLEAN : StoreClockControl(enable)
    PROVE  IInv'
<1> USE DEF IInv, NoAssertFails
<1>1. /\ TerminalInv' /\ UNCHANGED terminalVars
      /\ UNCHANGED <<keyboard_interrupt_enable, display_interrupt_enable, attn>>
  BY TerminalStutter DEF FetchClockControl, RunClockTrigger, StoreClockControl
<1>2. irq' \in {irq, irq \cup {ClockIrq}, irq \ {ClockIrq}}
  BY Zenon DEF FetchClockControl, RunClockTrigger, StoreClockControl, Assert, Deassert
<1>3. \A l \in Line : /\ KeyboardIrq(l) \in irq <=> KeyboardIrq(l) \in irq'
                      /\ DisplayIrq(l) \in irq <=> DisplayIrq(l) \in irq'
  BY <1>2, IrqsDiffer
<1>4. /\ clock_interrupt' \in BOOLEAN /\ clock_state' \in {"UNREADY", "READY"}
      /\ clock_interrupt' /\ clock_state' = "READY" => ClockIrq \in irq'
      /\ ClockIrq \in irq' => clock_state' = "READY"
  BY DEF FetchClockControl, RunClockTrigger, StoreClockControl, Assert, Deassert,
     RegistersOK, ReadyDeviceRequests, InterruptHasCause
<1>5. irq' \in SUBSET IRQ
  BY <1>2 DEF RegistersOK, IRQ, ClockIrq
<1>6. QED
  BY <1>1, <1>3, <1>4, <1>5 DEF RegistersOK, ReadyDeviceRequests, InterruptHasCause,
     terminalVars, programVars, Connected

LEMMA StoreControlKeeps ==
    ASSUME IInv, NEW l \in Line, NEW enable \in BOOLEAN,
           StoreKeyboardControl(l, enable) \/ StoreDisplayControl(l, enable)
    PROVE  IInv'
<1> USE DEF IInv, NoAssertFails
<1>1. /\ TerminalInv' /\ UNCHANGED terminalVars /\ UNCHANGED <<clock_interrupt, clock_state, attn>>
  BY TerminalStutter DEF StoreKeyboardControl, StoreDisplayControl
<1>2. CASE StoreKeyboardControl(l, enable)
  <2>1. /\ keyboard_interrupt_enable' = [keyboard_interrupt_enable EXCEPT ![l] = enable]
        /\ UNCHANGED display_interrupt_enable
        /\ irq' \in {irq, irq \cup {KeyboardIrq(l)}}
    BY <1>2, Zenon DEF StoreKeyboardControl, Assert
  <2>2. \A m \in Line : /\ DisplayIrq(m) \in irq <=> DisplayIrq(m) \in irq'
                        /\ m # l => (KeyboardIrq(m) \in irq <=> KeyboardIrq(m) \in irq')
                        /\ KeyboardIrq(m) \in irq => KeyboardIrq(m) \in irq'
    BY <2>1, IrqsDiffer
  <2>3. (ClockIrq \in irq <=> ClockIrq \in irq') /\ irq' \in SUBSET IRQ
    BY <2>1, IrqsDiffer DEF RegistersOK
  <2>4. l # 0 => /\ enable /\ Connected(l) /\ lines[l].kbd = "READY" => KeyboardIrq(l) \in irq'
                 /\ Connected(l) /\ KeyboardIrq(l) \in irq' =>
                       KeyboardIrq(l) \in irq \/ lines[l].kbd = "READY"
    BY <1>2 DEF StoreKeyboardControl, Assert
  <2>5. QED
    BY <1>1, <2>1, <2>2, <2>3, <2>4 DEF RegistersOK, ReadyDeviceRequests, InterruptHasCause,
       terminalVars, programVars, Connected
<1>3. CASE StoreDisplayControl(l, enable)
  <2>1. /\ display_interrupt_enable' = [display_interrupt_enable EXCEPT ![l] = enable]
        /\ UNCHANGED keyboard_interrupt_enable
        /\ irq' \in {irq, irq \cup {DisplayIrq(l)}}
    BY <1>3, Zenon DEF StoreDisplayControl, Assert
  <2>2. \A m \in Line : /\ KeyboardIrq(m) \in irq <=> KeyboardIrq(m) \in irq'
                        /\ m # l => (DisplayIrq(m) \in irq <=> DisplayIrq(m) \in irq')
                        /\ DisplayIrq(m) \in irq => DisplayIrq(m) \in irq'
    BY <2>1, IrqsDiffer
  <2>3. (ClockIrq \in irq <=> ClockIrq \in irq') /\ irq' \in SUBSET IRQ
    BY <2>1, IrqsDiffer DEF RegistersOK
  <2>4. /\ enable /\ Connected(l) /\ lines[l].disp = "READY" => DisplayIrq(l) \in irq'
        /\ DisplayIrq(l) \in irq' => DisplayIrq(l) \in irq \/ lines[l].disp = "READY"
    BY <1>3 DEF StoreDisplayControl, Assert
  <2>5. QED
    BY <1>1, <2>1, <2>2, <2>3, <2>4 DEF RegistersOK, ReadyDeviceRequests, InterruptHasCause,
       terminalVars, programVars, Connected
<1>4. QED
  BY <1>2, <1>3

(* Accesses to the data registers.                                          *)
LEMMA AbortKeeps ==
    ASSUME IInv, Abort, ~GuestChecksReady, UNCHANGED <<deviceVars, irq, attn>>
    PROVE  IInv'
<1>1. TerminalInv'
  BY LinesKept DEF IInv, Abort, TerminalInv, TerminalTypeOK
<1>2. QED
  BY <1>1 DEF IInv, Abort, Connected, RegistersOK, ReadyDeviceRequests, InterruptHasCause, deviceVars

LEMMA FetchDataKeeps ==
    ASSUME SeparateTerminals, IInv, NEW l \in Line, FetchKeyboardData(l)
    PROVE  IInv'
<1>1. Connected(l) /\ TerminalInv
  BY DEF FetchKeyboardData, IInv
<1>2. CASE UnreadyKeyboardAsserts(l)
  <2>1. /\ UnreadyKeyboard(l) /\ irq' = irq \ {KeyboardIrq(l)}
        /\ UNCHANGED deviceVars /\ UNCHANGED attn /\ lines[l].kbd = "READY"
    BY <1>2 DEF FetchKeyboardData, Deassert, UnreadyKeyboardAsserts
  <2>2. TerminalInv'
    BY <1>1, <2>1, UnreadyKeyboardKeeps
  <2>3. \A m \in Line : /\ lines'[m].fd = lines[m].fd /\ lines'[m].disp = lines[m].disp
                        /\ m # l => lines'[m].kbd = lines[m].kbd
    BY <1>1, <2>1, LinesTyped DEF UnreadyKeyboard, LineState
  <2>4. lines'[l].kbd = "UNREADY" /\ UNCHANGED <<aborted, write_failed>>
    BY <1>1, <2>1, LinesTyped DEF UnreadyKeyboard, LineState, programVars
  <2>5. \A m \in Line : /\ DisplayIrq(m) \in irq <=> DisplayIrq(m) \in irq'
                        /\ m # l => (KeyboardIrq(m) \in irq <=> KeyboardIrq(m) \in irq')
    BY <2>1, IrqsDiffer
  <2>6. /\ ClockIrq \in irq <=> ClockIrq \in irq'
        /\ KeyboardIrq(l) \notin irq'
        /\ irq' \subseteq irq
    BY <2>1, IrqsDiffer
  <2>7. QED
    BY <2>1, <2>2, <2>3, <2>4, <2>5, <2>6 DEF IInv, NoAssertFails, RegistersOK,
       ReadyDeviceRequests, InterruptHasCause, deviceVars, programVars, Connected
<1>3. CASE ~UnreadyKeyboardAsserts(l)
  <2>1. Abort /\ UNCHANGED <<deviceVars, irq, attn>> /\ lines[l].kbd # "READY"
    BY <1>1, <1>3, UnreadyKeyboardKeeps DEF FetchKeyboardData
  <2>2. ~GuestChecksReady
    BY <2>1 DEF FetchKeyboardData
  <2>3. QED
    BY <2>1, <2>2, AbortKeeps
<1>4. QED
  BY <1>2, <1>3

LEMMA StoreDataKeeps ==
    ASSUME SeparateTerminals, IInv, ~aborted, NEW l \in Line, StoreDisplayData(l)
    PROVE  IInv'
<1>1. /\ Connected(l) /\ TerminalInv /\ UnreadyDisplay(l)
      /\ UNCHANGED deviceVars /\ UNCHANGED attn
      /\ IF aborted' THEN UNCHANGED irq ELSE irq' = irq \ {DisplayIrq(l)}
  BY DEF StoreDisplayData, Deassert, IInv
<1>2. /\ TerminalInv' /\ (NoAssertFails => NoAssertFails')
      /\ aborted' => UNCHANGED lines
  BY <1>1, UnreadyDisplayKeeps
<1>3. CASE aborted'
  <2>1. UNCHANGED <<lines, irq, deviceVars, attn>>
    BY <1>1, <1>2, <1>3
  <2>2. QED
    BY <1>2, <2>1 DEF IInv, RegistersOK, ReadyDeviceRequests, InterruptHasCause, deviceVars,
       Connected
<1>4. CASE ~aborted'
  <2>1. irq' = irq \ {DisplayIrq(l)}
    BY <1>1, <1>4
  <2>2. lines'[l].disp = "UNREADY" /\ \A m \in Line :
           /\ lines'[m].fd = lines[m].fd /\ lines'[m].kbd = lines[m].kbd
           /\ m # l => lines'[m].disp = lines[m].disp
    <3>1. CASE lines[l].disp = "UNREADY"
      BY <1>1, <3>1 DEF UnreadyDisplay, terminalVars
    <3>2. CASE lines[l].disp # "UNREADY"
      <4>1. ~lines[l].delay
        BY <1>1, <3>2 DEF TerminalInv, LinesAgree
      <4>2. QED
        BY <1>1, <1>4, <3>2, <4>1, LinesTyped DEF UnreadyDisplay, WriteFails, LineState
    <3>3. QED
      BY <3>1, <3>2
  <2>3. \A m \in Line : /\ KeyboardIrq(m) \in irq <=> KeyboardIrq(m) \in irq'
                        /\ m # l => (DisplayIrq(m) \in irq <=> DisplayIrq(m) \in irq')
    BY <2>1, IrqsDiffer
  <2>4. /\ ClockIrq \in irq <=> ClockIrq \in irq'
        /\ DisplayIrq(l) \notin irq'
        /\ irq' \subseteq irq
    BY <2>1, IrqsDiffer
  <2>5. QED
    BY <1>1, <1>2, <2>2, <2>3, <2>4 DEF IInv, RegistersOK, ReadyDeviceRequests,
       InterruptHasCause, deviceVars, Connected
<1>5. QED
  BY <1>3, <1>4

-----------------------------------------------------------------------------
(* The tasks.                                                               *)
LEMMA DisplayDelayKeeps ==
    ASSUME SeparateTerminals, IInv, NEW l \in Line, RunDisplayDelay(l)
    PROVE  IInv'
<1>1. TerminalInv /\ tasks[Delay(l)] > 0
  BY DEF RunDisplayDelay, IInv
<1>2. /\ ReadyDisplay(l) /\ TerminalInv' /\ UNCHANGED deviceVars /\ UNCHANGED attn
      /\ irq' = IF display_interrupt_enable[l] THEN irq \cup {DisplayIrq(l)} ELSE irq
  BY <1>1, ReadyDisplayKeeps DEF RunDisplayDelay, Assert
<1>3. /\ lines'[l].disp = "READY" /\ UNCHANGED <<aborted, write_failed>>
      /\ \A m \in Line : /\ lines'[m].fd = lines[m].fd /\ lines'[m].kbd = lines[m].kbd
                         /\ m # l => lines'[m].disp = lines[m].disp
  BY <1>1, <1>2, LinesTyped DEF ReadyDisplay, LineState, programVars
<1>4. \A m \in Line : /\ KeyboardIrq(m) \in irq <=> KeyboardIrq(m) \in irq'
                      /\ m # l => (DisplayIrq(m) \in irq <=> DisplayIrq(m) \in irq')
  BY <1>2, IrqsDiffer
<1>5. /\ ClockIrq \in irq <=> ClockIrq \in irq'
      /\ display_interrupt_enable[l] => DisplayIrq(l) \in irq'
      /\ irq' \subseteq irq \cup {DisplayIrq(l)} /\ DisplayIrq(l) \in IRQ
  BY <1>2, IrqsDiffer
<1>6. QED
  BY <1>2, <1>3, <1>4, <1>5 DEF IInv, NoAssertFails, RegistersOK,
     ReadyDeviceRequests, InterruptHasCause, deviceVars, programVars, Connected

(* ready_keyboard on the lines of ls, with the interrupts it asserts.       *)
LEMMA KeyboardsKeep ==
    ASSUME IInv, NEW ls \in SUBSET Line, ReadyKeyboards(ls), AssertKeyboards(ls),
           TerminalInv', attn' \in BOOLEAN, UNCHANGED deviceVars
    PROVE  IInv'
<1>1. \A m \in ls : lines'[m].fd = lines[m].fd /\ lines'[m].disp = lines[m].disp
                    /\ lines'[m].kbd = "READY"
  <2> SUFFICES ASSUME NEW m \in ls
               PROVE  lines'[m].fd = lines[m].fd /\ lines'[m].disp = lines[m].disp
                        /\ lines'[m].kbd = "READY"
    OBVIOUS
  <2>1. lines[m] \in LineState
    BY LinesTyped DEF IInv
  <2>2. lines'[m] = [lines[m] EXCEPT !.kbd = "READY", !.repoll = TRUE]
    BY DEF ReadyKeyboards
  <2>3. QED
    BY <2>1, <2>2 DEF LineState
<1>2. \A m \in Line \ ls : lines'[m] = lines[m]
  BY DEF ReadyKeyboards
<1>3. UNCHANGED <<aborted, write_failed>>
  BY DEF ReadyKeyboards, programVars
<1> DEFINE enabled == {m \in ls : keyboard_interrupt_enable[m]}
<1>4. irq' = irq \cup {KeyboardIrq(m) : m \in enabled}
  BY DEF AssertKeyboards
<1>5. \A m \in Line : /\ DisplayIrq(m) \in irq <=> DisplayIrq(m) \in irq'
                      /\ KeyboardIrq(m) \in irq' <=> KeyboardIrq(m) \in irq \/ m \in enabled
  BY <1>4, IrqsDiffer
<1>6. (ClockIrq \in irq <=> ClockIrq \in irq') /\ irq' \in SUBSET IRQ
  BY <1>4, IrqsDiffer DEF IInv, RegistersOK
<1>7. \A m \in Line : m \in enabled <=> m \in ls /\ keyboard_interrupt_enable[m]
  OBVIOUS
<1> HIDE DEF enabled
<1>8. QED
  BY <1>1, <1>2, <1>3, <1>5, <1>6, <1>7 DEF IInv, NoAssertFails, RegistersOK,
     ReadyDeviceRequests, InterruptHasCause, deviceVars, programVars, Connected

LEMMA PollsKeep ==
    ASSUME SeparateTerminals, IInv,
           RunKeyboardPoll \/ \E l \in Line : RunKeyboardRepoll(l)
    PROVE  IInv'
<1>1. TerminalInv
  BY DEF IInv
<1>2. CASE RunKeyboardPoll
  <2>1. PICK fds \in Selected :
           IF PollAsserts(LinesOn(fds))
             THEN /\ PollKeyboards(LinesOn(fds))
                  /\ AssertKeyboards(LinesOn(fds))
                  /\ attn' = (attn \/ AttnRead(LinesOn(fds)))
             ELSE Abort /\ UNCHANGED <<irq, attn>>
    BY <1>2 DEF RunKeyboardPoll
  <2>2. /\ PollKeyboards(LinesOn(fds)) /\ AssertKeyboards(LinesOn(fds)) /\ attn' \in BOOLEAN
        /\ TerminalInv'
    BY <1>1, <2>1, PollKeeps
  <2>3. ReadyKeyboards(LinesOn(fds)) /\ LinesOn(fds) \in SUBSET Line
    BY <2>2 DEF PollKeyboards, LinesOn
  <2>4. UNCHANGED deviceVars
    BY <1>2 DEF RunKeyboardPoll
  <2>5. QED
    BY <2>2, <2>3, <2>4, KeyboardsKeep
<1>3. CASE \E l \in Line : RunKeyboardRepoll(l)
  <2>1. PICK l \in Line : RunKeyboardRepoll(l)
    BY <1>3
  <2>2. RepollAsserts(l) /\ RepollKeyboard(l) /\ TerminalInv'
    BY <1>1, <2>1, RepollKeeps DEF RunKeyboardRepoll
  <2>3. /\ ReadyKeyboards({l}) /\ AssertKeyboards({l}) /\ attn' \in BOOLEAN
        /\ UNCHANGED deviceVars
    BY <2>1, <2>2 DEF RunKeyboardRepoll, RepollKeyboard
  <2>4. QED
    BY <2>2, <2>3, KeyboardsKeep
<1>4. QED
  BY <1>2, <1>3

LEMMA EnterKeeps == ASSUME IInv, EnterInspector PROVE IInv'
<1>1. PICK flushed \in SUBSET ConnectedFds : Suspend(flushed)
  BY DEF EnterInspector
<1>2. TerminalInv' /\ UNCHANGED <<lines, aborted, write_failed>>
  BY <1>1, SuspendKeeps DEF IInv
<1>3. UNCHANGED <<deviceVars, irq, attn>>
  BY DEF EnterInspector
<1>4. QED
  BY <1>2, <1>3 DEF IInv, NoAssertFails, RegistersOK, ReadyDeviceRequests,
     InterruptHasCause, deviceVars, Connected

LEMMA LeaveKeeps ==
    ASSUME SeparateTerminals, IInv, LeaveInspector
    PROVE  IInv'
<1>1. PICK gone \in SUBSET {l \in Line : Connected(l)}, flushed \in SUBSET ConnectedFds :
         Reinitialize(gone, flushed)
  BY DEF LeaveInspector
<1>2. /\ TerminalInv' /\ UNCHANGED <<aborted, write_failed>>
      /\ \A l \in Line \ gone : lines'[l] = lines[l]
      /\ \A l \in gone : ~Connected(l)'
  BY <1>1, LinesTyped, ReinitializeKeeps DEF IInv
<1>3. attn' = FALSE /\ UNCHANGED deviceVars /\ UNCHANGED irq
  BY DEF LeaveInspector
<1>4. QED
  BY <1>2, <1>3 DEF IInv, NoAssertFails, RegistersOK, ReadyDeviceRequests,
     InterruptHasCause, deviceVars, programVars, Connected

LEMMA NextIInv == ASSUME SeparateTerminals, IInv, [Next]_vars PROVE IInv'
<1>1. CASE Guest /\ ~aborted
  BY <1>1, FetchControlKeeps, FetchDataKeeps, StoreDataKeeps, StoreControlKeeps, ClockKeeps
     DEF Guest
<1>2. CASE Tasks
  BY <1>2, DisplayDelayKeeps, PollsKeep, ClockKeeps DEF Tasks
<1>3. CASE EnterInspector \/ LeaveInspector
  BY <1>3, EnterKeeps, LeaveKeeps
<1>4. CASE User
  <2>1. PICK f \in Fd, c \in Key \cup {AttnKey} : Type(f, c)
    BY <1>4 DEF User
  <2>2. TerminalInv' /\ UNCHANGED <<lines, programVars>>
    BY <2>1, TypeKeeps DEF IInv
  <2>3. QED
    BY <1>4, <2>2 DEF User, IInv, NoAssertFails, RegistersOK, ReadyDeviceRequests,
       InterruptHasCause, deviceVars, programVars, Connected
<1>5. CASE UNCHANGED vars
  <2>1. TerminalInv'
    BY <1>5, TerminalStutter DEF vars, IInv
  <2>2. QED
    BY <1>5, <2>1 DEF vars, IInv, NoAssertFails, RegistersOK, ReadyDeviceRequests,
       InterruptHasCause, deviceVars, terminalVars, programVars, Connected
<1>6. QED
  BY <1>1, <1>2, <1>3, <1>4, <1>5 DEF Next

(* Whatever the descriptors, every reachable state of the console satisfies  *)
(* the invariant that ties lines, tasks and interrupts together.            *)
THEOREM IInvariant == ASSUME SeparateTerminals PROVE Spec => []IInv
<1>1. Init => IInv
  BY InitIInv
<1>2. IInv /\ [Next]_vars => IInv'
  BY NextIInv
<1>3. QED
  BY <1>1, <1>2, PTL DEF Spec

(* The registers, lines and tasks of spimconsole.cc keep to their types.    *)
THEOREM TypeCorrect == ASSUME SeparateTerminals PROVE Spec => []TypeOK
<1>1. IInv => TypeOK
  BY DEF IInv, TypeOK, TerminalInv, RegistersOK
<1>2. QED
  BY <1>1, IInvariant, PTL

(* A keyboard's state, the polled set, max_fd and the task pointers agree:  *)
(* no pointer outlives its task (terminalcontroller.cc).                    *)
THEOREM RecordsAgree == ASSUME SeparateTerminals PROVE Spec => []LinesAgree
<1>1. IInv => LinesAgree
  BY DEF IInv, TerminalInv
<1>2. QED
  BY <1>1, IInvariant, PTL

(* With a guest that looks before it reads, no assertion of                 *)
(* terminalcontroller.cc fails but the one on the result of write (192).    *)
THEOREM AssertionsHold ==
    ASSUME SeparateTerminals, GuestChecksReady PROVE Spec => []NoAssertFails
<1>1. IInv => NoAssertFails
  BY DEF IInv
<1>2. QED
  BY <1>1, IInvariant, PTL

(* No device that is ready and enabled is left without its request, except  *)
(* for the first keyboard (spimconsole.cc:164).                             *)
THEOREM ReadyRequests == ASSUME SeparateTerminals PROVE Spec => []ReadyDeviceRequests
<1>1. IInv => ReadyDeviceRequests
  BY DEF IInv
<1>2. QED
  BY <1>1, IInvariant, PTL

(* No connected device requests an interrupt unless it is ready, with the   *)
(* same exception.                                                          *)
THEOREM RequestsHaveCause == ASSUME SeparateTerminals PROVE Spec => []InterruptHasCause
<1>1. IInv => InterruptHasCause
  BY DEF IInv
<1>2. QED
  BY <1>1, IInvariant, PTL

-----------------------------------------------------------------------------
(* Liveness.  That the tasks can run is a hypothesis (QueuedTasksRun),       *)
(* because ENABLED is not expanded here.                                     *)

(* A display that took a character becomes ready again, or its line goes, or *)
(* the program ends (terminalcontroller.cc, unready_display, ready_display). *)
THEOREM DisplaysRecover ==
    ASSUME SeparateTerminals
    PROVE  FairSpec /\ []QueuedTasksRun => DisplayRecovers
<1> SUFFICES ASSUME NEW l \in Line
             PROVE  FairSpec /\ []QueuedTasksRun =>
                      (lines[l].disp = "UNREADY"
                         ~> lines[l].disp = "READY" \/ ~Connected(l) \/ aborted)
  BY DEF DisplayRecovers
<1> DEFINE P == lines[l].disp = "UNREADY" /\ Connected(l) /\ ~aborted
           G == lines[l].disp = "READY" \/ ~Connected(l) \/ aborted
           A == ~aborted /\ RunDisplayDelay(l)
<1>1. IInv /\ P => (QueuedTasksRun => ENABLED <<A>>_vars)
  BY DEF IInv, TerminalInv, LinesAgree, QueuedTasksRun
<1>2. IInv /\ P /\ <<A>>_vars => G'
  BY LinesTyped DEF IInv, RunDisplayDelay, ReadyDisplayAsserts, ReadyDisplay, TerminalInv,
     LinesAgree, LineState
<1>3. IInv => P \/ G
  BY LinesTyped DEF IInv, LineState
<1>4. Fairness => FairDelay(l)
  BY DEF Fairness
<1>5. QED
  BY <1>1, <1>2, <1>3, <1>4, IInvariant, PTL DEF FairSpec, FairDelay

Waits(l) ==
    Connected(l) /\ input[lines[l].fd] # NoInput /\ ~suspended /\ ~aborted

WaitEnds(l) == InputRead(l) \/ suspended \/ ~Connected(l) \/ aborted

(* Keyboards that become ready read their own descriptors and no other's.    *)
LEMMA ReadyingKeepsWait ==
    ASSUME SeparateTerminals, IInv, NEW l \in Line, Waits(l), NEW ls \in SUBSET Line,
           ReadyKeyboards(ls)
    PROVE  /\ l \in ls => InputRead(l)'
           /\ l \notin ls => Waits(l)' /\ lines'[l] = lines[l]
<1>1. lines \in [Line -> LineState] /\ lines[l].fd \in Fd /\ lines[l].fd # NoFd
  BY LinesTyped DEF IInv, Waits, Connected, LineState
<1>2. CASE l \in ls
  <2>1. lines'[l] = [lines[l] EXCEPT !.kbd = "READY", !.repoll = TRUE]
    BY <1>2 DEF ReadyKeyboards
  <2>2. lines'[l].fd = lines[l].fd /\ lines'[l].kbd = "READY"
    BY <1>1, <2>1 DEF LineState
  <2>3. QED
    BY <1>1, <1>2, <2>2 DEF ReadyKeyboards, InputRead, Connected
<1>3. CASE l \notin ls
  <2>1. lines'[l] = lines[l]
    BY <1>3 DEF ReadyKeyboards
  <2>2. \A m \in ls : lines[m].fd # lines[l].fd
    BY <1>1, <1>3, FdsDiffer DEF IInv, TerminalInv
  <2>3. input'[lines[l].fd] = input[lines[l].fd]
    BY <1>1, <2>2 DEF ReadyKeyboards
  <2>4. QED
    BY <1>3, <2>1, <2>3 DEF Waits, Connected, ReadyKeyboards, programVars
<1>4. QED
  BY <1>2, <1>3

(* The guest's accesses and the display's task leave the input alone.        *)
LEMMA AccessKeepsWait ==
    ASSUME IInv, NEW l \in Line, Waits(l), NEW m \in Line,
           FetchKeyboardData(m) \/ StoreDisplayData(m) \/ RunDisplayDelay(m)
    PROVE  \/ WaitEnds(l)'
           \/ Waits(l)' /\ (lines[l].kbd = "UNREADY" => lines'[l].kbd = "UNREADY")
<1>1. lines \in [Line -> LineState]
  BY LinesTyped DEF IInv
<1>2. CASE FetchKeyboardData(m) \/ RunDisplayDelay(m)
  BY <1>1, <1>2 DEF FetchKeyboardData, UnreadyKeyboard, RunDisplayDelay, ReadyDisplay, Abort,
     Waits, WaitEnds, Connected, LineState, programVars
<1>3. CASE StoreDisplayData(m)
  BY <1>1, <1>3 DEF StoreDisplayData, UnreadyDisplay, WriteFails, Abort,
     Waits, WaitEnds, Connected, LineState, terminalVars, programVars
<1>4. QED
  BY <1>2, <1>3

(* A character waits until it is read, and a keyboard becomes ready only by  *)
(* reading it.                                                               *)
LEMMA StepKeepsWait ==
    ASSUME SeparateTerminals, IInv, NEW l \in Line, Waits(l), [Next]_vars
    PROVE  \/ WaitEnds(l)'
           \/ Waits(l)' /\ (lines[l].kbd = "UNREADY" => lines'[l].kbd = "UNREADY")
<1>1. CASE UNCHANGED terminalVars
  BY <1>1 DEF Waits, Connected, terminalVars, programVars
<1>2. CASE \E m \in Line : FetchKeyboardData(m) \/ StoreDisplayData(m) \/ RunDisplayDelay(m)
  BY <1>2, AccessKeepsWait
<1>3. CASE aborted'
  BY <1>3 DEF WaitEnds
<1>4. CASE (RunKeyboardPoll \/ \E m \in Line : RunKeyboardRepoll(m)) /\ ~aborted'
  <2>1. PICK ls \in SUBSET Line : ReadyKeyboards(ls)
    BY <1>4 DEF RunKeyboardPoll, PollKeyboards, LinesOn, RunKeyboardRepoll, RepollKeyboard, Abort
  <2>2. QED
    BY <2>1, ReadyingKeepsWait DEF WaitEnds
<1>5. CASE EnterInspector
  BY <1>5 DEF EnterInspector, Suspend, WaitEnds
<1>6. CASE User
  <2>1. PICK f \in Fd, c \in Key \cup {AttnKey} : Type(f, c)
    BY <1>6 DEF User
  <2>2. f # lines[l].fd /\ UNCHANGED <<lines, programVars>>
    BY <2>1 DEF Type, Waits
  <2>3. input'[lines[l].fd] = input[lines[l].fd]
    BY <2>1, <2>2 DEF Type, IInv, TerminalInv, TerminalTypeOK
  <2>4. QED
    BY <2>2, <2>3 DEF Waits, Connected, programVars
<1>7. ~LeaveInspector
  BY DEF LeaveInspector, Waits
<1>8. \/ UNCHANGED terminalVars
      \/ \E m \in Line : FetchKeyboardData(m) \/ StoreDisplayData(m) \/ RunDisplayDelay(m)
      \/ RunKeyboardPoll
      \/ \E m \in Line : RunKeyboardRepoll(m)
      \/ EnterInspector \/ LeaveInspector \/ User
  BY DEF Next, Guest, Tasks, FetchKeyboardControl, FetchDisplayControl, StoreKeyboardControl,
     StoreDisplayControl, FetchClockControl, StoreClockControl, RunClockTrigger, vars
<1>9. QED
  BY <1>1, <1>2, <1>3, <1>4, <1>5, <1>6, <1>7, <1>8

(* The repoll of a ready keyboard reads, and asserts what is enabled.        *)
LEMMA RepollReads ==
    ASSUME IInv, NEW l \in Line, RunKeyboardRepoll(l), Connected(l), lines[l].kbd = "READY"
    PROVE  /\ ReadyKeyboards({l})
           /\ keyboard_interrupt_enable[l] => KeyboardIrq(l) \in irq'
<1>1. ReadyKeyboards({l}) /\ AssertKeyboards({l})
  BY DEF RunKeyboardRepoll, RepollAsserts, RepollKeyboard
<1>2. QED
  BY <1>1 DEF AssertKeyboards

(* The poll reads every descriptor that it selects on and that has input.    *)
LEMMA PollReads ==
    ASSUME SeparateTerminals, IInv, NEW l \in Line, Waits(l), lines[l].kbd = "UNREADY",
           RunKeyboardPoll
    PROVE  WaitEnds(l)'
<1>1. lines[l].fd \in ToRead
  BY DEF IInv, TerminalInv, LinesAgree, ToRead, Waits
<1>2. PICK fds \in Selected : PollKeyboards(LinesOn(fds)) \/ Abort
  BY DEF RunKeyboardPoll
<1>3. l \in LinesOn(fds) /\ LinesOn(fds) \in SUBSET Line
  BY <1>1, <1>2 DEF Selected, LinesOn, Waits
<1>4. CASE PollKeyboards(LinesOn(fds))
  BY <1>3, <1>4, ReadyingKeepsWait DEF PollKeyboards, WaitEnds
<1>5. CASE Abort
  BY <1>5 DEF Abort, WaitEnds
<1>6. QED
  BY <1>2, <1>4, <1>5

(* What the user types is read, by the poll or by a repoll, whatever the     *)
(* guest's reads do to the keyboard in between (terminalcontroller.cc:237).  *)
THEOREM InputGetsRead ==
    ASSUME SeparateTerminals
    PROVE  FairSpec /\ []QueuedTasksRun => InputIsRead
<1> SUFFICES ASSUME NEW l \in Line
             PROVE  FairSpec /\ []QueuedTasksRun =>
                      (Connected(l) /\ input[lines[l].fd] # NoInput
                         ~> InputRead(l) \/ suspended \/ ~Connected(l) \/ aborted)
  BY DEF InputIsRead
<1> DEFINE P == Connected(l) /\ input[lines[l].fd] # NoInput
           G == InputRead(l) \/ suspended \/ ~Connected(l) \/ aborted
           Ready == Waits(l) /\ lines[l].kbd = "READY"
           Polled == Waits(l) /\ lines[l].kbd = "UNREADY"
           R == ~aborted /\ RunKeyboardRepoll(l)
           A == ~aborted /\ RunKeyboardPoll
<1>1. IInv /\ P => G \/ Ready \/ Polled
  BY LinesTyped DEF IInv, LineState, Waits
<1>2. IInv /\ QueuedTasksRun /\ Ready => ENABLED <<R>>_vars
  BY DEF IInv, TerminalInv, LinesAgree, QueuedTasksRun, RepollAsserts, Waits
<1>3. IInv /\ QueuedTasksRun /\ Polled => ENABLED <<A>>_vars
  <2>1. ASSUME IInv, Polled PROVE tasks[Poll] > 0 /\ lines[l].fd \in ToRead
    BY <2>1 DEF IInv, TerminalInv, LinesAgree, ToRead, Waits
  <2>2. QED
    BY <2>1 DEF QueuedTasksRun, Waits
<1>4. IInv /\ Ready /\ <<R>>_vars => G'
  <2>1. ASSUME IInv, Ready, RunKeyboardRepoll(l) PROVE InputRead(l)'
    BY <2>1, RepollReads, ReadyingKeepsWait DEF Waits
  <2>2. QED
    BY <2>1
<1>5. IInv /\ Polled /\ <<A>>_vars => G'
  BY PollReads DEF WaitEnds
<1>6. IInv /\ IInv' /\ Polled /\ [Next]_vars => Polled' \/ G'
  BY StepKeepsWait DEF WaitEnds
<1>7. IInv /\ IInv' /\ Ready /\ [Next]_vars => Ready' \/ Polled' \/ G'
  <2>1. IInv' => lines'[l].kbd \in {"READY", "UNREADY"}
    BY DEF IInv, TerminalInv, TerminalTypeOK
  <2>2. QED
    BY <2>1, StepKeepsWait DEF WaitEnds
<1>8. Fairness => FairRepoll(l) /\ FairPoll
  BY DEF Fairness
<1>9. QED
  BY <1>1, <1>2, <1>3, <1>4, <1>5, <1>6, <1>7, <1>8, IInvariant, PTL
     DEF FairSpec, Spec, FairRepoll, FairPoll

(* A keyboard that stays ready and enabled requests its interrupt in the     *)
(* end, the first one too: the repoll makes up for spimconsole.cc:164.       *)
THEOREM KeyboardsRequest ==
    ASSUME SeparateTerminals
    PROVE  FairSpec /\ []QueuedTasksRun => KeyboardRequestsInTheEnd
<1> SUFFICES ASSUME NEW l \in Line
             PROVE  FairSpec /\ []QueuedTasksRun =>
                      (Connected(l) /\ keyboard_interrupt_enable[l] /\ lines[l].kbd = "READY"
                         ~> \/ KeyboardIrq(l) \in irq
                            \/ ~(Connected(l) /\ keyboard_interrupt_enable[l] /\ lines[l].kbd = "READY")
                            \/ aborted)
  BY DEF KeyboardRequestsInTheEnd
<1> DEFINE P == Connected(l) /\ keyboard_interrupt_enable[l] /\ lines[l].kbd = "READY"
           Due == P /\ KeyboardIrq(l) \notin irq /\ ~aborted
           R == ~aborted /\ RunKeyboardRepoll(l)
<1>1. IInv /\ QueuedTasksRun /\ Due => ENABLED <<R>>_vars
  BY DEF IInv, TerminalInv, LinesAgree, QueuedTasksRun, RepollAsserts
<1>2. IInv /\ Due /\ <<R>>_vars => (KeyboardIrq(l) \in irq)'
  BY RepollReads
<1>3. Due \/ KeyboardIrq(l) \in irq \/ ~P \/ aborted
  OBVIOUS
<1>4. Fairness => FairRepoll(l)
  BY DEF Fairness
<1>5. QED
  BY <1>1, <1>2, <1>3, <1>4, IInvariant, PTL DEF FairSpec, FairRepoll
=============================================================================
