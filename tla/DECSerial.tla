------------------------------ MODULE DECSerial -----------------------------
(***************************************************************************)
(* The DECstation's serial device (decserial.cc) behind the control and    *)
(* status register of DECCSR.  All its lines, receivers and transmitters   *)
(* alike, share one interrupt, so whoever deasserts it for one source must *)
(* not take it from another.                                               *)
(*                                                                         *)
(* A read of CSR, TCR or MSR changes nothing that a later step looks at,   *)
(* and the value that a read returns is left out, as is MSE, which only    *)
(* shows in it.  The status register device is on (an assertion asks it).  *)
(***************************************************************************)
EXTENDS TerminalController, DECCSR

SystemInterface == "SystemInterfaceCSRInt"

(* FIXME of store_word: the transmit register always writes to this line. *)
TransmitLine == 3

ASSUME DECSerialAssumption == SystemInterface \in CsrInt /\ Line \subseteq 0..3

VARIABLES csr,    \* enable bits, a subset of {"RIE", "TIE"}
          tcr,    \* lines enabled to transmit
          keyboard_interrupt_enable, display_interrupt_enable,
          attn    \* attn_key was called since the last interaction

registers == <<csr, tcr, keyboard_interrupt_enable, display_interrupt_enable>>
serialVars == <<terminalVars, csrVars, registers, attn>>

(* master_clear leaves the copies of the enable bits as it finds them. *)
InitSerial ==
    /\ \E on \in SUBSET {l \in Line : FdOf[l] # NoFd} : InitTerminals(on, {})
    /\ InitCsr
    /\ csr = {} /\ tcr = {}
    /\ keyboard_interrupt_enable \in BOOLEAN
    /\ display_interrupt_enable \in BOOLEAN
    /\ attn = FALSE

ReceiverDone(l) == Connected(l) /\ lines[l].kbd = "READY"

TransmitterReady(l) == Connected(l) /\ lines[l].disp = "READY" /\ l \in tcr

KeyboardInterruptReady(l) == keyboard_interrupt_enable /\ ReceiverDone(l)
DisplayInterruptReady(l) == display_interrupt_enable /\ TransmitterReady(l)

AnySourceIsReady == \E l \in Line : DisplayInterruptReady(l) \/ KeyboardInterruptReady(l)

(* What store_word does after any write. *)
Recheck ==
    IF csr' # {} /\ AnySourceIsReady' THEN AssertCsr(SystemInterface)
                                      ELSE DeassertCsr(SystemInterface)

-----------------------------------------------------------------------------
(* Faulty variant: the data is read and the interrupt stays. *)
FetchRbufKeepingIrq ==
    /\ LET done == {l \in Line : ReceiverDone(l)}
           first == CHOOSE l \in done : \A k \in done : l <= k
       IN  done # {} /\ UnreadyKeyboard(first)
    /\ UNCHANGED <<csrVars, registers, attn>>

(* The interrupt is taken back whatever other source still needs it. *)
FetchRbuf ==
    /\ LET done == {l \in Line : ReceiverDone(l)}
           first == CHOOSE l \in done : \A k \in done : l <= k
       IN  CASE done = {} -> UNCHANGED <<terminalVars, csrVars>>
             [] done # {} /\ UnreadyKeyboardAsserts(first) ->
                  UnreadyKeyboard(first) /\ DeassertCsr(SystemInterface)
             [] OTHER -> Abort /\ UNCHANGED csrVars
    /\ UNCHANGED <<registers, attn>>

StoreCsrClear ==
    /\ csr' = {} /\ tcr' = {}
    /\ keyboard_interrupt_enable' = FALSE
    /\ display_interrupt_enable' = FALSE
    /\ UNCHANGED <<terminalVars, attn>>
    /\ Recheck

StoreCsrEnable(enable) ==
    /\ csr' = enable
    /\ keyboard_interrupt_enable' = ("RIE" \in enable)
    /\ display_interrupt_enable' = ("TIE" \in enable)
    /\ UNCHANGED <<terminalVars, tcr, attn>>
    /\ Recheck

StoreLpr == UNCHANGED <<terminalVars, registers, attn>> /\ Recheck

StoreTcr(enable) ==
    /\ tcr' = enable
    /\ UNCHANGED <<terminalVars, csr, keyboard_interrupt_enable,
                   display_interrupt_enable, attn>>
    /\ Recheck

(* Faulty variant: the write ends in unready_display, which deasserts. *)
StoreTdrDeasserting ==
    /\ TransmitLine \in Line /\ Connected(TransmitLine)
    /\ UnreadyDisplay(TransmitLine)
    /\ DeassertCsr(SystemInterface)
    /\ UNCHANGED <<registers, attn>>

(* unready_display deasserts the interrupt and the check settles it. *)
StoreTdr ==
    /\ IF TransmitLine \in Line /\ Connected(TransmitLine)
         THEN UnreadyDisplay(TransmitLine)
         ELSE UNCHANGED terminalVars
    /\ UNCHANGED <<registers, attn>>
    /\ IF aborted' THEN UNCHANGED csrVars ELSE Recheck

-----------------------------------------------------------------------------
(* The tasks.  Asserting the interrupt of some of the lines ls that became  *)
(* ready is asserting the one interrupt.                                    *)
AssertFor(ls) ==
    IF ls # {} THEN AssertCsr(SystemInterface) ELSE UNCHANGED csrVars

RunDisplayDelay(l) ==
    /\ tasks[Delay(l)] > 0
    /\ UNCHANGED <<registers, attn>>
    /\ IF ReadyDisplayAsserts(l)
         THEN ReadyDisplay(l) /\ AssertFor({k \in {l} : DisplayInterruptReady(k)'})
         ELSE Abort /\ UNCHANGED csrVars

ReadyAndAssert(ls) ==
    /\ AssertFor({l \in ls : KeyboardInterruptReady(l)'})
    /\ attn' = (attn \/ AttnRead(ls))

RunKeyboardRepoll(l) ==
    /\ tasks[Repoll(l)] > 0
    /\ UNCHANGED registers
    /\ IF RepollAsserts(l)
         THEN RepollKeyboard(l) /\ ReadyAndAssert({l})
         ELSE Abort /\ UNCHANGED <<csrVars, attn>>

RunKeyboardPoll ==
    /\ tasks[Poll] > 0
    /\ UNCHANGED registers
    /\ \E fds \in Selected :
         IF PollAsserts(LinesOn(fds))
           THEN PollKeyboards(LinesOn(fds)) /\ ReadyAndAssert(LinesOn(fds))
           ELSE Abort /\ UNCHANGED <<csrVars, attn>>

(* vmips::interact, after the attention key.  Between the two halves the     *)
(* inspector may step the machine.                                          *)
EnterInspector ==
    /\ attn /\ ~suspended
    /\ \E flushed \in SUBSET ConnectedFds : Suspend(flushed)
    /\ UNCHANGED <<csrVars, registers, attn>>

LeaveInspector ==
    /\ suspended
    /\ attn' = FALSE
    /\ \E gone \in SUBSET {l \in Line : Connected(l)}, flushed \in SUBSET ConnectedFds :
          Reinitialize(gone, flushed)
    /\ UNCHANGED <<csrVars, registers>>

StoreStatusRegister ==
    /\ \E enable \in SUBSET CsrInt : StoreCsr(enable)
    /\ UNCHANGED <<terminalVars, registers, attn>>

User ==
    /\ \E f \in Fd, c \in Key \cup {AttnKey} : Type(f, c)
    /\ UNCHANGED <<csrVars, registers, attn>>

SerialNext ==
    \/ FetchRbuf
    \/ StoreCsrClear
    \/ \E enable \in SUBSET {"RIE", "TIE"} : StoreCsrEnable(enable)
    \/ StoreLpr
    \/ \E enable \in SUBSET Line : StoreTcr(enable)
    \/ StoreTdr
    \/ StoreStatusRegister
    \/ \E l \in Line : RunDisplayDelay(l) \/ RunKeyboardRepoll(l)
    \/ RunKeyboardPoll
    \/ EnterInspector
    \/ LeaveInspector
    \/ User

SerialTypeOK ==
    /\ TerminalTypeOK
    /\ CsrTypeOK
    /\ csr \subseteq {"RIE", "TIE"}
    /\ tcr \subseteq Line
    /\ keyboard_interrupt_enable \in BOOLEAN
    /\ display_interrupt_enable \in BOOLEAN
    /\ attn \in BOOLEAN
=============================================================================
