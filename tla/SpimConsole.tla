---------------------------- MODULE SpimConsole -----------------------------
(***************************************************************************)
(* The SPIM-compatible console (spimconsole.cc): two terminal lines and a  *)
(* clock behind nine registers, with an interrupt for each of the five     *)
(* devices.  A step is a register access of the guest or a task run by the *)
(* clock; the driver never interleaves the two more finely.                *)
(***************************************************************************)
EXTENDS TerminalController

CONSTANT GuestChecksReady  \* the guest reads a keyboard only while READY

ASSUME SpimAssumption == Line \subseteq {0, 1} /\ GuestChecksReady \in BOOLEAN

VARIABLES keyboard_interrupt_enable, display_interrupt_enable,
          clock_interrupt, clock_state,
          irq,           \* lines_asserted of the device
          attn           \* attn_key was called since the last interaction

deviceVars == <<keyboard_interrupt_enable, display_interrupt_enable,
                clock_interrupt, clock_state>>
vars == <<terminalVars, deviceVars, irq, attn>>

IRQ == 2..6
ClockIrq == 2
KeyboardIrq(l) == IF l = 0 THEN 3 ELSE 5
DisplayIrq(l) == IF l = 0 THEN 4 ELSE 6

ClockTrigger == [kind |-> "ClockTrigger", line |-> NoFd]

Init ==
    /\ \E on \in SUBSET {l \in Line : FdOf[l] # NoFd} : InitTerminals(on, {ClockTrigger})
    /\ keyboard_interrupt_enable = [l \in Line |-> FALSE]
    /\ display_interrupt_enable = [l \in Line |-> FALSE]
    /\ clock_interrupt = FALSE
    /\ clock_state = "UNREADY"
    /\ irq = {}
    /\ attn = FALSE

(* assertInt and deassertInt: all five lines are connected at set-up. *)
Assert(i) == irq' = irq \cup {i}
Deassert(i) == irq' = irq \ {i}

-----------------------------------------------------------------------------
(* fetch_word *)

(* A read of a control register changes nothing but an interrupt that was   *)
(* left asserted when its enable bit was cleared.                           *)
FetchKeyboardControl(l) ==
    /\ IF keyboard_interrupt_enable[l] THEN UNCHANGED irq ELSE Deassert(KeyboardIrq(l))
    /\ UNCHANGED <<terminalVars, deviceVars, attn>>

FetchDisplayControl(l) ==
    /\ IF display_interrupt_enable[l] THEN UNCHANGED irq ELSE Deassert(DisplayIrq(l))
    /\ UNCHANGED <<terminalVars, deviceVars, attn>>

(* Faulty variant: the data is read and the interrupt stays. *)
FetchKeepingIrq(l) ==
    /\ Connected(l) /\ UnreadyKeyboardAsserts(l)
    /\ UnreadyKeyboard(l)
    /\ UNCHANGED <<deviceVars, irq, attn>>

FetchKeyboardData(l) ==
    /\ Connected(l)
    /\ GuestChecksReady => lines[l].kbd = "READY"
    /\ IF UnreadyKeyboardAsserts(l)
         THEN UnreadyKeyboard(l) /\ Deassert(KeyboardIrq(l))
         ELSE Abort /\ UNCHANGED irq
    /\ UNCHANGED <<deviceVars, attn>>

FetchClockControl ==
    /\ clock_state' = "UNREADY"
    /\ Deassert(ClockIrq)
    /\ UNCHANGED <<terminalVars, keyboard_interrupt_enable, display_interrupt_enable,
                   clock_interrupt, attn>>

(* store_word *)

(* For the first line the state tested is that of the display. *)
StoreKeyboardControl(l, enable) ==
    /\ keyboard_interrupt_enable' = [keyboard_interrupt_enable EXCEPT ![l] = enable]
    /\ IF /\ enable /\ Connected(l)
          /\ IF l = 0 THEN lines[l].disp = "READY" ELSE lines[l].kbd = "READY"
         THEN Assert(KeyboardIrq(l))
         ELSE UNCHANGED irq
    /\ UNCHANGED <<terminalVars, display_interrupt_enable, clock_interrupt,
                   clock_state, attn>>

StoreDisplayControl(l, enable) ==
    /\ display_interrupt_enable' = [display_interrupt_enable EXCEPT ![l] = enable]
    /\ IF enable /\ Connected(l) /\ lines[l].disp = "READY"
         THEN Assert(DisplayIrq(l))
         ELSE UNCHANGED irq
    /\ UNCHANGED <<terminalVars, keyboard_interrupt_enable, clock_interrupt,
                   clock_state, attn>>

StoreDisplayData(l) ==
    /\ Connected(l)
    /\ UnreadyDisplay(l)
    /\ IF aborted' THEN UNCHANGED irq ELSE Deassert(DisplayIrq(l))
    /\ UNCHANGED <<deviceVars, attn>>

StoreClockControl(enable) ==
    /\ clock_interrupt' = enable
    /\ IF enable /\ clock_state = "READY" THEN Assert(ClockIrq) ELSE UNCHANGED irq
    /\ UNCHANGED <<terminalVars, keyboard_interrupt_enable, display_interrupt_enable,
                   clock_state, attn>>

-----------------------------------------------------------------------------
(* The tasks *)

AssertKeyboards(ls) ==
    irq' = irq \cup {KeyboardIrq(l) : l \in {m \in ls : keyboard_interrupt_enable[m]}}

RunDisplayDelay(l) ==
    /\ tasks[Delay(l)] > 0
    /\ IF ReadyDisplayAsserts(l)
         THEN /\ ReadyDisplay(l)
              /\ IF display_interrupt_enable[l] THEN Assert(DisplayIrq(l)) ELSE UNCHANGED irq
         ELSE Abort /\ UNCHANGED irq
    /\ UNCHANGED <<deviceVars, attn>>

RunKeyboardRepoll(l) ==
    /\ tasks[Repoll(l)] > 0
    /\ IF RepollAsserts(l)
         THEN /\ RepollKeyboard(l)
              /\ AssertKeyboards({l})
              /\ attn' = (attn \/ AttnRead({l}))
         ELSE Abort /\ UNCHANGED <<irq, attn>>
    /\ UNCHANGED deviceVars

(* Faulty variant: a keyboard that becomes ready raises no interrupt. *)
RunKeyboardPollSilently ==
    /\ tasks[Poll] > 0
    /\ \E fds \in Selected :
         /\ PollAsserts(LinesOn(fds))
         /\ PollKeyboards(LinesOn(fds))
         /\ attn' = (attn \/ AttnRead(LinesOn(fds)))
    /\ UNCHANGED <<irq, deviceVars>>

RunKeyboardPoll ==
    /\ tasks[Poll] > 0
    /\ \E fds \in Selected :
         LET ls == LinesOn(fds)
         IN  IF PollAsserts(ls)
               THEN /\ PollKeyboards(ls)
                    /\ AssertKeyboards(ls)
                    /\ attn' = (attn \/ AttnRead(ls))
               ELSE Abort /\ UNCHANGED <<irq, attn>>
    /\ UNCHANGED deviceVars

(* ready_clock, which queues the next trigger *)
RunClockTrigger ==
    /\ tasks[ClockTrigger] > 0
    /\ clock_state' = "READY"
    /\ IF clock_interrupt THEN Assert(ClockIrq) ELSE UNCHANGED irq
    /\ UNCHANGED <<terminalVars, keyboard_interrupt_enable, display_interrupt_enable,
                   clock_interrupt, attn>>

(* vmips::interact, after the attention key.  Between the two halves the     *)
(* inspector may step the machine; an attention key read meanwhile leads    *)
(* nowhere, as interact sets the state back to RUN.                         *)
EnterInspector ==
    /\ attn /\ ~suspended
    /\ \E flushed \in SUBSET ConnectedFds : Suspend(flushed)
    /\ UNCHANGED <<deviceVars, irq, attn>>

LeaveInspector ==
    /\ suspended
    /\ attn' = FALSE
    /\ \E gone \in SUBSET {l \in Line : Connected(l)}, flushed \in SUBSET ConnectedFds :
          Reinitialize(gone, flushed)
    /\ UNCHANGED <<deviceVars, irq>>

-----------------------------------------------------------------------------
Guest ==
    \/ \E l \in Line : \/ FetchKeyboardControl(l)
                       \/ FetchDisplayControl(l)
                       \/ FetchKeyboardData(l)
                       \/ StoreDisplayData(l)
    \/ \E l \in Line, enable \in BOOLEAN : \/ StoreKeyboardControl(l, enable)
                                           \/ StoreDisplayControl(l, enable)
    \/ FetchClockControl
    \/ \E enable \in BOOLEAN : StoreClockControl(enable)

Tasks ==
    \/ \E l \in Line : RunDisplayDelay(l) \/ RunKeyboardRepoll(l)
    \/ RunKeyboardPoll
    \/ RunClockTrigger

User ==
    /\ \E f \in Fd, c \in Key \cup {AttnKey} : Type(f, c)
    /\ UNCHANGED <<deviceVars, irq, attn>>

Next == ~aborted /\ (Guest \/ Tasks \/ EnterInspector \/ LeaveInspector \/ User)

Spec == Init /\ [][Next]_vars

(* While the machine runs, the driver keeps advancing the clock, and a      *)
(* queued task runs in the end (EveryTaskRuns of Clock).  Nothing is        *)
(* assumed of the guest, and of the user only that an inspector is left     *)
(* again: inside it nothing runs but what the user steps.                   *)
FairPoll == WF_vars(~aborted /\ RunKeyboardPoll)
FairRepoll(l) == WF_vars(~aborted /\ RunKeyboardRepoll(l))
FairDelay(l) == WF_vars(~aborted /\ RunDisplayDelay(l))

Fairness == InspectorLeft /\ FairPoll /\ \A l \in Line : FairRepoll(l) /\ FairDelay(l)

FairSpec == Spec /\ Fairness

-----------------------------------------------------------------------------
(* Types.                                                                    *)
TypeOK ==
    /\ TerminalTypeOK
    /\ keyboard_interrupt_enable \in [Line -> BOOLEAN]
    /\ display_interrupt_enable \in [Line -> BOOLEAN]
    /\ clock_interrupt \in BOOLEAN
    /\ clock_state \in {"UNREADY", "READY"}
    /\ irq \in SUBSET IRQ
    /\ attn \in BOOLEAN

(* "When any one of the console devices is both ready and has its Device     *)
(* Interrupt Enable bit set, it requests an interrupt" (vmips.texi): no      *)
(* interleaving of a register access with a task leaves a ready, enabled     *)
(* device silent.                                                            *)
ReadyDeviceRequests ==
    /\ \A l \in Line : Connected(l) /\ display_interrupt_enable[l]
                         /\ lines[l].disp = "READY" => DisplayIrq(l) \in irq
    /\ \A l \in Line \ {0} : Connected(l) /\ keyboard_interrupt_enable[l]
                         /\ lines[l].kbd = "READY" => KeyboardIrq(l) \in irq
    /\ clock_interrupt /\ clock_state = "READY" => ClockIrq \in irq

(* And a connected device that requests an interrupt is ready, so a handler  *)
(* that reads the keyboard it was called for does not find it unready.  For  *)
(* keyboard 1 this fails: see KeyboardOneInterruptHasCause.                  *)
InterruptHasCause ==
    /\ \A l \in Line : Connected(l) /\ DisplayIrq(l) \in irq => lines[l].disp = "READY"
    /\ \A l \in Line \ {0} :
          Connected(l) /\ KeyboardIrq(l) \in irq => lines[l].kbd = "READY"
    /\ ClockIrq \in irq => clock_state = "READY"

(* "If the keyboard data register is read while the keyboard is unready, the *)
(* data in the buffer is the same as when the keyboard was last ready"       *)
(* (vmips.texi:1027): the read does not end the program.                     *)
UnreadyReadReturnsData == [][\A l \in Line : FetchKeyboardData(l) => ~aborted']_vars

(* vmips.texi, "Interrupt line 3 is wired to the #1 Keyboard": it is         *)
(* requested only for a ready keyboard.                                      *)
KeyboardOneInterruptHasCause ==
    \A l \in Line \cap {0} :
       Connected(l) /\ KeyboardIrq(l) \in irq => lines[l].kbd = "READY"

(* A task that is queued and has something to do can run: a delay always,    *)
(* a repoll where there is input to read or a request to make, the poll      *)
(* where there is input on a descriptor that it selects on.                  *)
QueuedTasksRun ==
    ~aborted =>
        /\ \A l \in Line :
             /\ tasks[Delay(l)] > 0 => ENABLED <<~aborted /\ RunDisplayDelay(l)>>_vars
             /\ tasks[Repoll(l)] > 0 /\ RepollAsserts(l)
                  /\ (\/ input[lines[l].fd] # NoInput
                      \/ keyboard_interrupt_enable[l] /\ KeyboardIrq(l) \notin irq)
                => ENABLED <<~aborted /\ RunKeyboardRepoll(l)>>_vars
        /\ tasks[Poll] > 0 /\ (\E f \in ToRead : input[f] # NoInput)
             => ENABLED <<~aborted /\ RunKeyboardPoll>>_vars

(* A display that takes a character becomes ready again, unless its line is  *)
(* removed or an assertion ends the program: a guest that polls the control  *)
(* register does not wait for ever.                                          *)
DisplayRecovers ==
    \A l \in Line :
       lines[l].disp = "UNREADY" ~> lines[l].disp = "READY" \/ ~Connected(l) \/ aborted

InputRead(l) ==
    Connected(l) /\ lines[l].kbd = "READY" /\ input[lines[l].fd] = NoInput

(* What the user types on a connected line makes its keyboard ready and is   *)
(* read, whatever mix of polls, repolls and reads by the guest comes         *)
(* between.  Only a visit to the inspector, which flushes the terminals, the *)
(* removal of the line and the end of the program come before that.          *)
InputIsRead ==
    \A l \in Line : Connected(l) /\ input[lines[l].fd] # NoInput
                       ~> InputRead(l) \/ suspended \/ ~Connected(l) \/ aborted

(* A keyboard that stays ready and enabled requests its interrupt in the     *)
(* end, on either line: the repoll makes up for the test of the wrong state  *)
(* in the first keyboard's control register.                                 *)
KeyboardRequestsInTheEnd ==
    \A l \in Line :
       Connected(l) /\ keyboard_interrupt_enable[l] /\ lines[l].kbd = "READY"
         ~> \/ KeyboardIrq(l) \in irq
            \/ ~(Connected(l) /\ keyboard_interrupt_enable[l] /\ lines[l].kbd = "READY")
            \/ aborted
=============================================================================
