------------------------------ MODULE Realtime ------------------------------
(***************************************************************************)
(* How much simulated time Clock::pass_realtime lets pass for the time     *)
(* that the host's clock says has gone by (clock.cc, clock.h): one         *)
(* nanosecond for each timeratio of the host's.                            *)
(***************************************************************************)
EXTENDS Integers

CONSTANT NsPerSec      \* nanoseconds in a second

Timespec == [sec : 0..2, nsec : 0..NsPerSec - 1]     \* bound: three seconds

Ns(t) == t.sec * NsPerSec + t.nsec

TimespecSub(a, b) ==
    LET sec == a.sec - b.sec
        nsec == a.nsec - b.nsec
    IN  IF nsec < 0 THEN [sec |-> sec - 1, nsec |-> nsec + NsPerSec]
                    ELSE [sec |-> sec, nsec |-> nsec]

(* Faulty variant: the time that was too short to pass is counted again. *)
PassRealtimeKeeping(now, then, spill_ns, timeratio) ==
    LET gone == TimespecSub(now, then)
        increase == (gone.nsec + spill_ns) \div timeratio
        seconds == IF gone.sec > 0 THEN gone.sec ELSE 0
    IN  [passed |-> seconds * (NsPerSec \div timeratio) + increase,
         increments |-> seconds + (IF increase = 0 THEN 0 ELSE 1),
         spill_ns |-> IF increase = 0 THEN gone.nsec + spill_ns ELSE spill_ns]

(* What one call passes and in how many calls of increment_time: one for    *)
(* each second and one for the rest.  What does not make a nanosecond is    *)
(* kept for the next call, but the remainder of a division is not.          *)
PassRealtime(now, then, spill_ns, timeratio) ==
    LET gone == TimespecSub(now, then)
        increase == (gone.nsec + spill_ns) \div timeratio
        seconds == IF gone.sec > 0 THEN gone.sec ELSE 0
    IN  [passed |-> seconds * (NsPerSec \div timeratio) + increase,
         increments |-> seconds + (IF increase = 0 THEN 0 ELSE 1),
         spill_ns |-> IF increase = 0 THEN gone.nsec + spill_ns ELSE 0]

-----------------------------------------------------------------------------
(* What three calls pass, at any times of a host whose clock is not set back. *)
Tracks ==
    \A timeratio \in 1..NsPerSec : \A t0, t1, t2, t3 \in Timespec :
        Ns(t0) <= Ns(t1) /\ Ns(t1) <= Ns(t2) /\ Ns(t2) <= Ns(t3) =>
            LET first == PassRealtime(t1, t0, 0, timeratio)
                second == PassRealtime(t2, t1, first.spill_ns, timeratio)
                third == PassRealtime(t3, t2, second.spill_ns, timeratio)
                passed == first.passed + second.passed + third.passed
                increments == first.increments + second.increments + third.increments
                behind == Ns(t3) - Ns(t0) - third.spill_ns - timeratio * passed
            IN  0 <= behind /\ behind <= (timeratio - 1) * increments
=============================================================================
