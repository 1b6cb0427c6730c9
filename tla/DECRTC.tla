------------------------------- MODULE DECRTC -------------------------------
(***************************************************************************)
(* The periodic interrupt of the DECstation's real-time clock (decrtc.cc). *)
(* The time of day, read from the host, has no part in it.                 *)
(*                                                                         *)
(* The rate is on or off: how long a period lasts does not matter here.    *)
(* triggers counts the tasks on the clock, of which each queues the next.  *)
(***************************************************************************)
EXTENDS Integers

CONSTANT MaxTriggers      \* bound on the chains of tasks

VARIABLES rate,             \* frequency_ns is above 0
          interrupt_enable, \* REGB_PIE of register B, and its copy
          triggers,         \* ClockTriggers on the clock
          rtc_irq           \* lines_asserted of the device

rtcVars == <<rate, interrupt_enable, triggers, rtc_irq>>

InitRtc ==
    /\ rate = FALSE
    /\ interrupt_enable = FALSE
    /\ triggers = 0
    /\ rtc_irq = FALSE

(* Faulty variant: the trigger asserts the interrupt and is not queued again. *)
ReadyClockOnce(left) ==
    /\ rtc_irq' = (rtc_irq \/ interrupt_enable)
    /\ triggers' = IF left < triggers THEN left ELSE left + (IF rate THEN 1 ELSE 0)

(* ready_clock, with left tasks on the clock besides the one it may queue *)
ReadyClock(left) ==
    /\ rtc_irq' = (rtc_irq \/ interrupt_enable)
    /\ triggers' = left + (IF rate THEN 1 ELSE 0)

(* unready_clock leaves the queued tasks where they are. *)
UnreadyClock == rtc_irq' = FALSE /\ UNCHANGED triggers

StoreRateSelect(on) == rate' = on /\ UNCHANGED <<interrupt_enable, triggers, rtc_irq>>

(* ready_clock runs before interrupt_enable is set. *)
StorePeriodicInterrupt(enable) ==
    /\ interrupt_enable' = enable
    /\ CASE ~interrupt_enable /\ enable -> ReadyClock(triggers)
         [] interrupt_enable /\ ~enable -> UnreadyClock
         [] OTHER -> UNCHANGED <<triggers, rtc_irq>>
    /\ triggers' <= MaxTriggers
    /\ UNCHANGED rate

(* The read of register C that ends an interrupt. *)
FetchRegC == UnreadyClock /\ UNCHANGED <<rate, interrupt_enable>>

RunClockTrigger ==
    /\ triggers > 0
    /\ ReadyClock(triggers - 1)
    /\ UNCHANGED <<rate, interrupt_enable>>

RtcNext ==
    \/ \E on \in BOOLEAN : StoreRateSelect(on)
    \/ \E enable \in BOOLEAN : StorePeriodicInterrupt(enable)
    \/ FetchRegC
    \/ RunClockTrigger

RtcTypeOK ==
    /\ rate \in BOOLEAN
    /\ interrupt_enable \in BOOLEAN
    /\ triggers \in 0..MaxTriggers
    /\ rtc_irq \in BOOLEAN
=============================================================================
