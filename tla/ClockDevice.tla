----------------------------- MODULE ClockDevice ----------------------------
(***************************************************************************)
(* VMIPS's own clock device (clockdev.cc): a repeated trigger that makes   *)
(* it ready, and the control word that acknowledges it.                    *)
(*                                                                         *)
(* The constructor queues one trigger and each trigger queues the next, so *)
(* that one is on the clock at all times and no variable counts it.  The   *)
(* words of simulated time are Clock's time and SetTime; those of real     *)
(* time are the host's.                                                    *)
(***************************************************************************)
EXTENDS Integers

VARIABLES clock_state,       \* "UNREADY" or "READY"
          interrupt_enabled,
          clock_irq          \* lines_asserted of the device

clockdevVars == <<clock_state, interrupt_enabled, clock_irq>>

InitClockDevice ==
    /\ clock_state = "UNREADY"
    /\ interrupt_enabled = FALSE
    /\ clock_irq = FALSE

(* ready_clock: the task that the clock runs each period *)
RunTrigger ==
    /\ clock_state' = "READY"
    /\ clock_irq' = (clock_irq \/ interrupt_enabled)
    /\ UNCHANGED interrupt_enabled

(* Faulty variant: the device stays ready when its interrupt ends. *)
FetchControlKeeping ==
    /\ clock_irq' = FALSE
    /\ UNCHANGED <<clock_state, interrupt_enabled>>

(* The read of the control word takes the interrupt back: unready_clock.    *)
FetchControl ==
    /\ clock_state' = "UNREADY"
    /\ clock_irq' = FALSE
    /\ UNCHANGED interrupt_enabled

(* Enabling the interrupt of a ready device requests it at once; disabling  *)
(* it leaves a request standing.                                            *)
StoreControl(enable) ==
    /\ interrupt_enabled' = enable
    /\ clock_irq' = (clock_irq \/ (enable /\ clock_state = "READY"))
    /\ UNCHANGED clock_state

ClockDeviceNext ==
    \/ RunTrigger
    \/ FetchControl
    \/ \E enable \in BOOLEAN : StoreControl(enable)

ClockDeviceTypeOK ==
    /\ clock_state \in {"UNREADY", "READY"}
    /\ interrupt_enabled \in BOOLEAN
    /\ clock_irq \in BOOLEAN
=============================================================================
