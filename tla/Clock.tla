------------------------------- MODULE Clock --------------------------------
(***************************************************************************)
(* The simulated clock of vmips (clock.cc, clock.h): a delta list of       *)
(* groups of deferred tasks.  The first group holds the nanoseconds left   *)
(* until it is due, every other group the nanoseconds from the group       *)
(* before it.                                                              *)
(*                                                                         *)
(* Grain: one iteration of a loop of the code is one step, because a task  *)
(* that runs inside increment_time calls back into add_deferred_task while *)
(* the group it belongs to is still at the front of the list.  pos and     *)
(* call are the program counters of the two loops.                         *)
(***************************************************************************)
EXTENDS Integers, Sequences, Realtime

CONSTANTS Task,        \* Task objects; one is reused only after its delete
          Delay,       \* arguments of add_deferred_task
          Increment,   \* arguments of increment_time
          SecWrap,     \* bound: seconds are counted modulo SecWrap
          SetNsec,     \* nanoseconds that set_time may store
          NoCall       \* no add_deferred_task is in progress

ASSUME ClockAssumption ==
    /\ Delay \subseteq Nat \ {0}
    /\ Increment \subseteq Nat \ {0}
    /\ NsPerSec \in Nat \ {0}
    /\ SecWrap \in Nat \ {0}
    /\ SetNsec \subseteq Nat
    /\ NoCall \notin [task : Task, ns : Int, i : Nat]

VARIABLES time,        \* simulated time, a timespec
          queue,       \* deferred_tasks
          pos,         \* 0, or the index in the front group of the next task
                       \* to run while increment_time runs that group
          call,        \* NoCall, or the loop state of add_deferred_task
          pending,     \* history: tasks queued and not yet run
          due,         \* history: nanoseconds until the task is due
          older        \* history: pairs in the order of their queueing

vars == <<time, queue, pos, call, pending, due, older>>

Promise == INSTANCE DeferredSchedule

Queued(t) == \E i \in 1..Len(queue) : \E k \in 1..Len(queue[i].tasks) :
                queue[i].tasks[k] = t

Idle == pos = 0 /\ call = NoCall

Init ==
    /\ time \in [sec : 0..SecWrap - 1, nsec : {0}]
    /\ queue = <<>>
    /\ pos = 0
    /\ call = NoCall
    /\ Promise!Init

-----------------------------------------------------------------------------
(* add_deferred_task *)

(* The call itself, by the program between two advances of the clock or by *)
(* a task that has just run.                                               *)
AddDeferredTask(t, n) ==
    /\ call = NoCall
    /\ pos # 1
    /\ ~Queued(t)
    /\ IF queue = <<>>
         THEN queue' = << [left |-> n, tasks |-> <<t>>] >> /\ call' = NoCall
         ELSE queue' = queue /\ call' = [task |-> t, ns |-> n, i |-> 1]
    /\ Promise!Schedule(t, n)
    /\ UNCHANGED <<time, pos>>

(* Faulty variant: the group pushed back keeps its whole delay. *)
InsertKeepingDelay(q, i, ns, t) ==
    [j \in 1..Len(q) + 1 |->
        IF j < i THEN q[j]
        ELSE IF j = i THEN [left |-> ns, tasks |-> <<t>>]
        ELSE q[j - 1]]

(* The delta list with a group for t put in before group i, which then has *)
(* that much less to wait.                                                 *)
InsertBefore(q, i, ns, t) ==
    [j \in 1..Len(q) + 1 |->
        IF j < i THEN q[j]
        ELSE IF j = i THEN [left |-> ns, tasks |-> <<t>>]
        ELSE IF j = i + 1 THEN [left |-> q[i].left - ns, tasks |-> q[i].tasks]
        ELSE q[j - 1]]

(* Faulty variant: equal due times are not recognised. *)
WalkBodyNoEqual ==
    LET i == call.i
        rest == call.ns - queue[i].left
    IN  \/ /\ rest < 0
           /\ queue' = InsertBefore(queue, i, call.ns, call.task)
           /\ call' = NoCall
        \/ /\ rest >= 0
           /\ queue' = queue
           /\ call' = [call EXCEPT !.ns = rest, !.i = i + 1]

(* Faulty variant: a task joins a group at its front. *)
WalkBodyLifo ==
    LET i == call.i
        rest == call.ns - queue[i].left
    IN  \/ /\ rest < 0
           /\ queue' = InsertBefore(queue, i, call.ns, call.task)
           /\ call' = NoCall
        \/ /\ rest = 0
           /\ queue' = [queue EXCEPT ![i].tasks = <<call.task>> \o @]
           /\ call' = NoCall
        \/ /\ rest > 0
           /\ queue' = queue
           /\ call' = [call EXCEPT !.ns = rest, !.i = i + 1]

(* One iteration of the loop over the list. *)
WalkBody ==
    LET i == call.i
        rest == call.ns - queue[i].left
    IN  \/ /\ rest < 0
           /\ queue' = InsertBefore(queue, i, call.ns, call.task)
           /\ call' = NoCall
        \/ /\ rest = 0
           /\ queue' = [queue EXCEPT ![i].tasks = Append(@, call.task)]
           /\ call' = NoCall
        \/ /\ rest > 0
           /\ queue' = queue
           /\ call' = [call EXCEPT !.ns = rest, !.i = i + 1]

WalkStep ==
    /\ call # NoCall
    /\ call.i <= Len(queue)
    /\ WalkBody
    /\ UNCHANGED <<time, pos, pending, due, older>>

(* The end of the list was reached. *)
PushBack ==
    /\ call # NoCall
    /\ call.i > Len(queue)
    /\ queue' = Append(queue, [left |-> call.ns, tasks |-> <<call.task>>])
    /\ call' = NoCall
    /\ UNCHANGED <<time, pos, pending, due, older>>

-----------------------------------------------------------------------------
(* increment_time *)

(* timespecadd carries at most one second, whatever the nanoseconds are. *)
TimespecAdd(ts, n) ==
    IF ts.nsec + n >= NsPerSec
      THEN [sec |-> IF ts.sec + 1 = SecWrap THEN 0 ELSE ts.sec + 1,
            nsec |-> ts.nsec + n - NsPerSec]
      ELSE [sec |-> ts.sec, nsec |-> ts.nsec + n]

(* Faulty variant: a group reached exactly is not yet due. *)
PassTimeOffByOne(q, n) ==
    /\ queue' = [q EXCEPT ![1].left = @ - n]
    /\ pos' = IF q[1].left - n < 0 THEN 1 ELSE 0

(* pass_time on the first group of q; its tasks are run when it is due. *)
PassTimeOnFront(q, n) ==
    /\ queue' = [q EXCEPT ![1].left = @ - n]
    /\ pos' = IF q[1].left - n <= 0 THEN 1 ELSE 0

IncrementTime(n) ==
    /\ Idle
    /\ time' = TimespecAdd(time, n)
    /\ IF queue = <<>>
         THEN UNCHANGED <<queue, pos>>
         ELSE PassTimeOnFront(queue, n)
    /\ due' = [t \in Task |-> IF t \in pending THEN due[t] - n ELSE 0]
    /\ UNCHANGED <<call, pending, older>>

(* Faulty variant: the iterator over the tasks of the group stays put. *)
RunTaskAgain ==
    /\ pos > 0
    /\ call = NoCall
    /\ pos <= Len(queue[1].tasks)
    /\ LET t == queue[1].tasks[pos]
       IN  /\ pending' = pending \ {t}
           /\ due' = [due EXCEPT ![t] = 0]
           /\ older' = {p \in older : p[1] # t /\ p[2] # t}
    /\ UNCHANGED <<time, queue, pos, call>>

(* One iteration of the for_each of pass_time: Task::task(). *)
RunTask ==
    /\ pos > 0
    /\ call = NoCall
    /\ pos <= Len(queue[1].tasks)
    /\ LET t == queue[1].tasks[pos]
       IN  /\ pending' = pending \ {t}
           /\ due' = [due EXCEPT ![t] = 0]
           /\ older' = {p \in older : p[1] # t /\ p[2] # t}
    /\ pos' = pos + 1
    /\ UNCHANGED <<time, queue, call>>

(* Faulty variant: what is left of the increment is dropped. *)
AfterGroupDropRest(q, rest) == queue' = q /\ pos' = 0

(* Every task of the group has run: delete it and pass what is left of the *)
(* increment on to the next group.                                         *)
AfterGroup(q, rest) ==
    IF rest >= 0 \/ q = <<>>
      THEN queue' = q /\ pos' = 0
      ELSE PassTimeOnFront(q, -rest)

(* Faulty variant: the loop stops one task short. *)
EndGroupEarly ==
    /\ pos > 0
    /\ call = NoCall
    /\ pos >= Len(queue[1].tasks)
    /\ AfterGroup(Tail(queue), queue[1].left)
    /\ UNCHANGED <<time, call, pending, due, older>>

EndGroup ==
    /\ pos > 0
    /\ call = NoCall
    /\ pos > Len(queue[1].tasks)
    /\ AfterGroup(Tail(queue), queue[1].left)
    /\ UNCHANGED <<time, call, pending, due, older>>

(* set_time changes the time the guest reads and no deferred task. *)
SetTime(s, ns) ==
    /\ Idle
    /\ time' = [sec |-> s, nsec |-> ns]
    /\ UNCHANGED <<queue, pos, call, pending, due, older>>

-----------------------------------------------------------------------------
Next ==
    \/ \E t \in Task, n \in Delay : AddDeferredTask(t, n)
    \/ WalkStep
    \/ PushBack
    \/ \E n \in Increment : IncrementTime(n)
    \/ RunTask
    \/ EndGroup
    \/ \E s \in 0..SecWrap - 1, ns \in SetNsec : SetTime(s, ns)

Spec == Init /\ [][Next]_vars

(* VMIPS::step advances the clock after every instruction, and both loops  *)
(* run to their end: nothing else is assumed to happen.                    *)
Fairness ==
    /\ WF_vars(\E n \in Increment : IncrementTime(n))
    /\ WF_vars(RunTask)
    /\ WF_vars(EndGroup)
    /\ WF_vars(WalkStep)
    /\ WF_vars(PushBack)

FairSpec == Spec /\ Fairness

-----------------------------------------------------------------------------
(* Types, and the asserts on delays: a group is never empty, both loops     *)
(* stay within the list, and the delay that the walk of add_deferred_task   *)
(* carries on stays positive (clock.cc:161 asserts it of a new group).      *)
TypeOK ==
    /\ time \in [sec : 0..SecWrap - 1, nsec : Nat]
    /\ queue \in Seq([left : Int, tasks : Seq(Task)])
    /\ \A i \in 1..Len(queue) : queue[i].tasks # <<>>
    /\ pos \in Nat
    /\ pos > 0 => queue # <<>> /\ pos <= Len(queue[1].tasks) + 1
    /\ call \in [task : Task, ns : Nat \ {0}, i : Nat \ {0}] \cup {NoCall}
    /\ call # NoCall => queue # <<>> /\ call.i <= Len(queue) + 1 /\ pos # 1
    /\ pending \in SUBSET Task
    /\ due \in [Task -> Int]
    /\ older \in SUBSET (Task \X Task)

(* The instant at which group i is due, counted from the present. *)
Due(i) == IF i = 1 THEN queue[1].left ELSE due[queue[i].tasks[1]]

(* The asserts of pass_time (clock.cc:178-179) hold at every call: no group *)
(* but the one being run is overdue, so neither increment_time nor the      *)
(* insertion in add_deferred_task ever runs a group twice or passes time on *)
(* one already due.                                                         *)
PassTimeAsserts ==
    \A i \in 1..Len(queue) : queue[i].left > 0 <=> ~(i = 1 /\ pos > 0)

(* The delta list keeps the deadlines: adding up what is left along the     *)
(* list gives, for every task, the time for which its caller asked, whatever *)
(* was put in before it and however far the clock overshot; add_deferred_task *)
(* knows at every group how much of its delay lies beyond the group before. *)
DeadlinesKept ==
    /\ \A i \in 1..Len(queue) : \A k \in 1..Len(queue[i].tasks) :
          (i = 1 /\ k < pos) \/ due[queue[i].tasks[k]] = Due(i)
    /\ \A i \in 2..Len(queue) : Due(i) = Due(i - 1) + queue[i].left
    /\ \A i, j \in 1..Len(queue) : i < j => Due(i) < Due(j)
    /\ call # NoCall =>
          due[call.task] = call.ns + (IF call.i = 1 THEN 0 ELSE Due(call.i - 1))

(* Every pending task has one place: on the list, or in the hands of        *)
(* add_deferred_task; the list holds no other but those the increment in    *)
(* progress has already run.  No task is lost, queued twice, or joined to   *)
(* the group that is about to be deleted.                                   *)
OnePlaceEach ==
    /\ \A i, j \in 1..Len(queue) :
          \A k \in 1..Len(queue[i].tasks), l \in 1..Len(queue[j].tasks) :
             queue[i].tasks[k] = queue[j].tasks[l] => i = j /\ k = l
    /\ \A i \in 1..Len(queue) : \A k \in 1..Len(queue[i].tasks) :
          queue[i].tasks[k] \in pending <=> ~(i = 1 /\ k < pos)
    /\ \A t \in pending : Queued(t) \/ (call # NoCall /\ call.task = t)
    /\ call # NoCall => call.task \in pending /\ ~Queued(call.task)

(* Within a group the tasks stand in the order in which they were queued.   *)
FifoGroups ==
    /\ \A i \in 1..Len(queue) : \A k, l \in 1..Len(queue[i].tasks) :
          k < l /\ ~(i = 1 /\ k < pos) =>
             <<queue[i].tasks[k], queue[i].tasks[l]>> \in older
    /\ call # NoCall =>
          \A u \in pending \ {call.task} : <<u, call.task>> \in older

(* Over three calls of pass_realtime simulated time never runs ahead of its  *)
(* ratio to the host's, what it falls behind is less than one nanosecond for *)
(* each increment, and at a ratio of 1 it falls behind by nothing (Tracks of *)
(* Realtime, whose operators have no state: it holds before the first task   *)
(* and therefore ever after).                                                *)
RealtimeTracks == pending = {} => Tracks

(* The inductive invariant. *)
IInv ==
    /\ TypeOK
    /\ PassTimeAsserts
    /\ OnePlaceEach
    /\ DeadlinesKept
    /\ FifoGroups

(* The clock keeps what clock.h promises: each task runs once, never before *)
(* its time, in order of due time and then first in, first out, and no      *)
(* advance of the clock ends with a task overdue.                           *)
KeepsPromise == Promise!Spec

(* A task that was queued is run in the end, because the driver keeps       *)
(* advancing the clock (vmips.cc, VMIPS::step).                             *)
EveryTaskRuns == \A t \in Task : t \in pending ~> t \notin pending
=============================================================================
