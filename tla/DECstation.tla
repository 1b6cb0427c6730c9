----------------------------- MODULE DECstation -----------------------------
(***************************************************************************)
(* The DECstation's devices side by side: the serial device behind the     *)
(* control and status register, the real-time clock and the clock device,  *)
(* which interrupt on lines of their own.  A step is a register access of  *)
(* the guest, a task run by the clock, or the user's.                      *)
(***************************************************************************)
EXTENDS DECSerial, DECRTC, ClockDevice

vars == <<serialVars, rtcVars, clockdevVars>>

Init == InitSerial /\ InitRtc /\ InitClockDevice

Next ==
    /\ ~aborted
    /\ \/ SerialNext /\ UNCHANGED <<rtcVars, clockdevVars>>
       \/ RtcNext /\ UNCHANGED <<serialVars, clockdevVars>>
       \/ ClockDeviceNext /\ UNCHANGED <<serialVars, rtcVars>>

Spec == Init /\ [][Next]_vars

(* The real-time clock's task, which leaves the other devices alone. *)
Trigger == ~aborted /\ RunClockTrigger /\ UNCHANGED <<serialVars, clockdevVars>>

(* While the machine runs, a queued task runs in the end (EveryTaskRuns of  *)
(* Clock).  Nothing is assumed of the guest, and of the user only that an   *)
(* inspector is left again.                                                 *)
FairSpec == Spec /\ InspectorLeft /\ WF_vars(Trigger)

-----------------------------------------------------------------------------
(* Types, and no assertion of terminalcontroller.cc fails but the one on     *)
(* the result of write.                                                      *)
TypeOK == SerialTypeOK /\ RtcTypeOK /\ ClockDeviceTypeOK /\ NoAssertFails

SerialSourceReady ==
    \E l \in Line : \/ "RIE" \in csr /\ ReceiverDone(l)
                    \/ "TIE" \in csr /\ TransmitterReady(l)

SerialRequests == SystemInterface \in ioint /\ (SystemInterface \in iointen => csr_irq)

(* Receivers and transmitters share one interrupt.  Whatever a source's      *)
(* enable bits, state and turn, a step that leaves one ready and enabled     *)
(* leaves the request standing, up to the processor's line when IOINTEN lets *)
(* it through.  The exception is the code's: a read of RBUF takes the        *)
(* request from a ready transmitter too (decserial.cc:272).                  *)
SerialRequestKept ==
    [][SerialSourceReady' /\ ~SerialRequests' =>
         FetchRbuf \/ (SerialSourceReady /\ ~SerialRequests)]_vars

EnablesAgree ==
    /\ keyboard_interrupt_enable = ("RIE" \in csr)
    /\ display_interrupt_enable = ("TIE" \in csr)

(* And no step leaves a request standing with no source behind it, so a      *)
(* handler finds something to do, but for the removal of the line, which     *)
(* deasserts nothing (terminalcontroller.cc:117), and for the enable bits'   *)
(* copies, which the constructor leaves unset until the first write of CSR.  *)
SerialRequestHasCause ==
    [][EnablesAgree' /\ SystemInterface \in ioint' /\ ~SerialSourceReady' =>
         LeaveInspector \/ (SystemInterface \in ioint /\ ~SerialSourceReady)]_vars

(* The real-time clock requests nothing once its interrupt is disabled, even *)
(* with triggers still queued from the time when it was enabled.  The clock  *)
(* device loses no period: whatever the order of its trigger, of the enable  *)
(* bit and of the reads of its control word, it requests its interrupt when  *)
(* it is ready and enabled, and never when there is no period to report.     *)
TimersRequest ==
    /\ rtc_irq => interrupt_enable
    /\ clock_state = "READY" /\ interrupt_enabled => clock_irq
    /\ clock_irq => clock_state = "READY"

(* A queued trigger that has an interrupt to request can run.                *)
QueuedTriggerRuns ==
    ~aborted /\ triggers > 0 /\ interrupt_enable /\ ~rtc_irq => ENABLED <<Trigger>>_vars

(* While a trigger is queued and the guest leaves the rate and the enable    *)
(* bit on, the next request comes, with the trigger of the one after it      *)
(* queued: ticks that the guest takes back never stop coming, unless an      *)
(* assertion ends the program.                                               *)
RtcTicks ==
    LET on == interrupt_enable /\ rate
    IN  triggers > 0 /\ on ~> (triggers > 0 /\ rtc_irq) \/ ~on \/ aborted
=============================================================================
