-------------------------- MODULE DeferredSchedule --------------------------
(***************************************************************************)
(* What Clock promises its callers (clock.h:40-54): a task queued with     *)
(* add_deferred_task(task, n) is run once, by the first advance of the     *)
(* clock that reaches n nanoseconds from then; tasks run in the order of   *)
(* their due times and, for equal due times, in the order in which they    *)
(* were queued; an advance does not end before every due task has run.     *)
(*                                                                         *)
(* The clock is relative: due[t] counts the nanoseconds from the present   *)
(* to the instant at which t is due, so it is negative for an overdue one. *)
(***************************************************************************)
EXTENDS Integers

CONSTANTS Task,        \* Task objects
          Delay,       \* delays the callers ask for, in nanoseconds
          Increment    \* steps by which the driver advances the clock

VARIABLES pending,     \* tasks queued and not yet run
          due,         \* due[t]: nanoseconds until t is due, 0 unless pending
          older        \* <<u, t>> : both are pending and u was queued first

abstractVars == <<pending, due, older>>

Init ==
    /\ pending = {}
    /\ due = [t \in Task |-> 0]
    /\ older = {}

Schedule(t, n) ==
    /\ t \notin pending
    /\ pending' = pending \cup {t}
    /\ due' = [due EXCEPT ![t] = n]
    /\ older' = older \cup {<<u, t>> : u \in pending}

(* t comes before u in the order in which tasks must run. *)
Before(t, u) ==
    \/ due[t] < due[u]
    \/ due[t] = due[u] /\ <<t, u>> \in older

Run(t) ==
    /\ t \in pending
    /\ due[t] <= 0
    /\ \A u \in pending \ {t} : Before(t, u)
    /\ pending' = pending \ {t}
    /\ due' = [due EXCEPT ![t] = 0]
    /\ older' = {p \in older : p[1] # t /\ p[2] # t}

Advance(n) ==
    /\ \A t \in pending : due[t] > 0
    /\ due' = [t \in Task |-> IF t \in pending THEN due[t] - n ELSE 0]
    /\ UNCHANGED <<pending, older>>

Next ==
    \/ \E t \in Task, n \in Delay : Schedule(t, n)
    \/ \E t \in Task : Run(t)
    \/ \E n \in Increment : Advance(n)

Spec == Init /\ [][Next]_abstractVars

=============================================================================
