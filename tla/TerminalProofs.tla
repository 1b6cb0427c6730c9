--------------------------- MODULE TerminalProofs ---------------------------
(***************************************************************************)
(* The methods of terminalcontroller.cc keep the records of a line in       *)
(* agreement, for any descriptors, as long as no two lines share one.       *)
(* The devices that extend TerminalController use these lemmas for the      *)
(* registers and tasks that call the methods.                               *)
(***************************************************************************)
EXTENDS TerminalController, TLAPS

(* No two lines are opened on the same descriptor.                          *)
SeparateTerminals ==
    \A l, m \in Line : FdOf[l] # NoFd /\ FdOf[l] = FdOf[m] => l = m

LineState == [fd : Fd \cup {NoFd}, kbd : {"UNREADY", "READY"},
              disp : {"UNREADY", "READY"}, repoll : BOOLEAN, delay : BOOLEAN]

Kinds == {Poll} \cup {Repoll(l) : l \in Line} \cup {Delay(l) : l \in Line}

(* A line keeps its descriptor until it is removed.                         *)
OwnFd == \A l \in Line : lines[l].fd \in {FdOf[l], NoFd}

TerminalInv ==
    /\ TerminalTypeOK
    /\ LinesAgree
    /\ OwnFd
    /\ Kinds \subseteq DOMAIN tasks

-----------------------------------------------------------------------------
LEMMA KindsDiffer ==
    ASSUME NEW l \in Line, NEW m \in Line
    PROVE  /\ Poll # Repoll(l) /\ Poll # Delay(l) /\ Repoll(l) # Delay(m)
           /\ l # m => Repoll(l) # Repoll(m) /\ Delay(l) # Delay(m)
           /\ Poll.line \notin Line /\ Repoll(l).line = l /\ Delay(l).line = l
BY TerminalAssumption DEF Poll, Repoll, Delay, NoFd

(* Connected lines have descriptors of their own.                           *)
LEMMA FdsDiffer ==
    ASSUME SeparateTerminals, OwnFd, NEW l \in Line, NEW m \in Line,
           lines[l].fd # NoFd, lines[l].fd = lines[m].fd
    PROVE  l = m
BY DEF SeparateTerminals, OwnFd

HasLargest(S) == S = {} \/ \E f \in S : \A g \in S : g <= f

LEMMA LargestOfOneMore ==
    ASSUME NEW S \in SUBSET Nat, NEW v \in Nat, HasLargest(S)
    PROVE  HasLargest(S \cup {v})
BY DEF HasLargest

FdsBelow(ls, n) == {ls[l].fd : l \in Line \cap (0..n - 1)} \ {NoFd}

LEMMA NextFd ==
    ASSUME NEW ls \in [Line -> LineState], NEW n \in Nat, HasLargest(FdsBelow(ls, n))
    PROVE  HasLargest(FdsBelow(ls, n + 1))
<1>1. FdsBelow(ls, n) \in SUBSET Nat
  BY TerminalAssumption DEF FdsBelow, LineState, NoFd
<1>2. CASE n \in Line /\ ls[n].fd # NoFd
  <2>1. FdsBelow(ls, n + 1) = FdsBelow(ls, n) \cup {ls[n].fd}
    BY <1>2, TerminalAssumption DEF FdsBelow
  <2>2. ls[n].fd \in Nat
    BY <1>2, TerminalAssumption DEF LineState
  <2>3. QED
    BY <1>1, <2>1, <2>2, LargestOfOneMore
<1>3. CASE ~(n \in Line /\ ls[n].fd # NoFd)
  <2>1. FdsBelow(ls, n + 1) = FdsBelow(ls, n)
    BY <1>3, TerminalAssumption DEF FdsBelow
  <2>2. QED
    BY <2>1
<1>4. QED
  BY <1>2, <1>3

(* max_fd lies above every descriptor of a connected line.                  *)
LEMMA LargestFdBound ==
    ASSUME Line \subseteq 0..3, NEW ls \in [Line -> LineState]
    PROVE  /\ LargestFd(ls) \in Nat \cup {NoFd}
           /\ \A l \in Line : ls[l].fd # NoFd => ls[l].fd < LargestFd(ls)
<1>1. HasLargest(FdsBelow(ls, 0))
  BY DEF HasLargest, FdsBelow
<1>2. HasLargest(FdsBelow(ls, 0 + 1 + 1 + 1 + 1))
  <2>1. HasLargest(FdsBelow(ls, 0 + 1))
    BY <1>1, NextFd
  <2>2. HasLargest(FdsBelow(ls, 0 + 1 + 1))
    BY <2>1, NextFd
  <2>3. HasLargest(FdsBelow(ls, 0 + 1 + 1 + 1))
    BY <2>2, NextFd
  <2>4. QED
    BY <2>3, NextFd
<1> DEFINE fds == {ls[l].fd : l \in Line} \ {NoFd}
<1>3. fds = FdsBelow(ls, 0 + 1 + 1 + 1 + 1)
  BY DEF FdsBelow
<1>4. fds \subseteq Nat
  BY TerminalAssumption DEF LineState, NoFd
<1>5. CASE fds = {}
  BY <1>5 DEF LargestFd
<1>6. CASE fds # {}
  <2>1. \E f \in fds : \A g \in fds : g <= f
    BY <1>2, <1>3, <1>6 DEF HasLargest
  <2> DEFINE top == CHOOSE f \in fds : \A g \in fds : g <= f
  <2>2. top \in fds /\ \A g \in fds : g <= top
    BY <2>1
  <2>3. LargestFd(ls) = 1 + top
    BY <1>6 DEF LargestFd
  <2>4. \A l \in Line : ls[l].fd # NoFd => ls[l].fd \in fds
    OBVIOUS
  <2> HIDE DEF top, fds
  <2>5. top \in Nat /\ LargestFd(ls) \in Nat
    BY <2>2, <2>3, <1>4
  <2>6. ASSUME NEW l \in Line, ls[l].fd # NoFd PROVE ls[l].fd < LargestFd(ls)
    <3>1. ls[l].fd \in Nat /\ ls[l].fd <= top
      BY <2>2, <2>4, <2>6, <1>4
    <3>2. QED
      BY <2>3, <2>5, <3>1
  <2>7. QED
    BY <2>5, <2>6
<1>7. QED
  BY <1>5, <1>6

-----------------------------------------------------------------------------
(* The controller starts with agreeing records.                             *)
LEMMA TerminalInit ==
    ASSUME Line \subseteq 0..3, SeparateTerminals,
           NEW on \in SUBSET {l \in Line : FdOf[l] # NoFd}, NEW other,
           InitTerminals(on, other), other \cap Kinds = {}
    PROVE  TerminalInv
<1>1. lines \in [Line -> LineState]
  BY TerminalAssumption DEF InitTerminals, LineState
<1>2. /\ max_fd \in Nat \cup {NoFd}
      /\ \A l \in Line : lines[l].fd # NoFd => lines[l].fd < max_fd
  BY <1>1, LargestFdBound DEF InitTerminals
<1>3. /\ tasks[Poll] = 1
      /\ \A l \in Line : tasks[Repoll(l)] = 0 /\ tasks[Delay(l)] = 0
      /\ \A k \in DOMAIN tasks : tasks[k] \in Nat
      /\ Kinds \subseteq DOMAIN tasks
  BY KindsDiffer DEF InitTerminals, Kinds
<1>4. unready = {FdOf[l] : l \in on} /\ unready \in SUBSET Fd
  BY TerminalAssumption DEF InitTerminals
<1>5. \A l \in Line : /\ lines[l].kbd = "UNREADY" /\ lines[l].disp = "READY"
                      /\ ~lines[l].repoll /\ ~lines[l].delay
                      /\ lines[l].fd = IF l \in on THEN FdOf[l] ELSE NoFd
  BY DEF InitTerminals
<1>6. unready \subseteq {lines[l].fd : l \in Line}
  BY <1>4, <1>5
<1>7. LinesAgree
  BY <1>2, <1>3, <1>4, <1>5, <1>6 DEF LinesAgree, Connected
<1>8. TerminalTypeOK
  BY <1>1, <1>2, <1>3, <1>4, TerminalAssumption DEF TerminalTypeOK, LineState, InitTerminals
<1>9. OwnFd
  BY <1>5 DEF OwnFd
<1>10. QED
  BY <1>3, <1>7, <1>8, <1>9 DEF TerminalInv

(* What the invariant says of the task pointers, for use in steps.          *)
LEMMA TaskCounts ==
    ASSUME TerminalInv, NEW l \in Line
    PROVE  /\ Repoll(l) \in DOMAIN tasks /\ Delay(l) \in DOMAIN tasks /\ Poll \in DOMAIN tasks
           /\ tasks[Repoll(l)] = IF lines[l].repoll THEN 1 ELSE 0
           /\ tasks[Delay(l)] = IF lines[l].delay THEN 1 ELSE 0
           /\ tasks[Poll] = 1
BY Zenon DEF TerminalInv, LinesAgree, Kinds

LEMMA TerminalStutter ==
    ASSUME TerminalInv, UNCHANGED terminalVars
    PROVE  TerminalInv'
BY DEF TerminalInv, TerminalTypeOK, LinesAgree, OwnFd, Connected, terminalVars, programVars

(* So does a step that ends the program, or that only takes input away.     *)
LEMMA LinesKept ==
    ASSUME TerminalInv, UNCHANGED <<lines, unready, max_fd, tasks>>,
           input' \in [Fd -> Key \cup {AttnKey, NoInput}],
           suspended' \in BOOLEAN, aborted' \in BOOLEAN, write_failed' \in BOOLEAN
    PROVE  TerminalInv'
BY DEF TerminalInv, TerminalTypeOK, LinesAgree, OwnFd, Connected

LEMMA FlushTyped ==
    ASSUME TerminalInv, NEW fds, Flush(fds)
    PROVE  input' \in [Fd -> Key \cup {AttnKey, NoInput}]
BY DEF Flush, TerminalInv, TerminalTypeOK

LEMMA SuspendKeeps ==
    ASSUME TerminalInv, NEW flushed, Suspend(flushed)
    PROVE  TerminalInv' /\ UNCHANGED <<lines, aborted, write_failed>>
<1>1. /\ UNCHANGED <<lines, unready, max_fd, tasks, aborted, write_failed>>
      /\ suspended' = TRUE /\ Flush(flushed)
  BY DEF Suspend
<1>2. aborted' \in BOOLEAN /\ write_failed' \in BOOLEAN
  BY <1>1 DEF TerminalInv, TerminalTypeOK
<1>3. TerminalInv'
  BY <1>1, <1>2, FlushTyped, LinesKept
<1>4. QED
  BY <1>1, <1>3

(* A step on one line l leaves the records of the others alone: what is left *)
(* to show is that those of l agree.                                        *)
LEMMA OneLine ==
    ASSUME SeparateTerminals, TerminalInv, NEW l \in Line,
           NEW next \in LineState, lines' = [lines EXCEPT ![l] = next],
           next.fd = lines[l].fd, Connected(l),
           unready' = IF next.kbd = "READY" THEN unready \ {lines[l].fd}
                                           ELSE unready \cup {lines[l].fd},
           DOMAIN tasks' = DOMAIN tasks,
           \A k \in DOMAIN tasks : tasks'[k] =
              CASE k = Repoll(l) -> (IF next.repoll THEN 1 ELSE 0)
                [] k = Delay(l) -> (IF next.delay THEN 1 ELSE 0)
                [] OTHER -> tasks[k],
           next.kbd = "READY" <=> next.repoll,
           next.disp = "UNREADY" <=> next.delay,
           input' \in [Fd -> Key \cup {AttnKey, NoInput}],
           UNCHANGED <<max_fd, programVars>>
    PROVE  TerminalInv'
<1> USE DEF LineState
<1>1. lines \in [Line -> LineState] /\ lines' \in [Line -> LineState]
  BY DEF TerminalInv, TerminalTypeOK
<1>2. lines'[l] = next /\ \A m \in Line : m # l => lines'[m] = lines[m]
  BY <1>1
<1>3. \A m \in Line : lines'[m].fd = lines[m].fd
  BY <1>2
<1>4. unready' \in SUBSET Fd
  BY <1>1 DEF TerminalInv, TerminalTypeOK, Connected
<1>5. \A m \in Line : /\ tasks'[Repoll(m)] = IF lines'[m].repoll THEN 1 ELSE 0
                      /\ tasks'[Delay(m)] = IF lines'[m].delay THEN 1 ELSE 0
  <2> SUFFICES ASSUME NEW m \in Line
               PROVE  /\ tasks'[Repoll(m)] = IF lines'[m].repoll THEN 1 ELSE 0
                      /\ tasks'[Delay(m)] = IF lines'[m].delay THEN 1 ELSE 0
    OBVIOUS
  <2>1. CASE m = l
    BY <2>1, <1>2, TaskCounts, KindsDiffer
  <2>2. CASE m # l
    BY <2>2, <1>2, TaskCounts, KindsDiffer
  <2>3. QED
    BY <2>1, <2>2
<1>6. tasks'[Poll] = 1
  BY TaskCounts, KindsDiffer
<1>7. \A k \in DOMAIN tasks' : tasks'[k] \in Nat
  BY DEF TerminalInv, TerminalTypeOK
<1>8. \A m \in Line : lines'[m].fd # NoFd /\ m # l => lines[m].fd # lines[l].fd
  BY <1>3, FdsDiffer DEF TerminalInv
<1>9. \A m \in Line : lines'[m].fd # NoFd =>
         /\ lines'[m].kbd = "READY" <=> lines'[m].repoll
         /\ lines'[m].kbd = "UNREADY" <=> lines'[m].fd \in unready'
         /\ lines'[m].disp = "UNREADY" <=> lines'[m].delay
         /\ lines'[m].fd < max_fd'
  <2> SUFFICES ASSUME NEW m \in Line, lines'[m].fd # NoFd
               PROVE  /\ lines'[m].kbd = "READY" <=> lines'[m].repoll
                      /\ lines'[m].kbd = "UNREADY" <=> lines'[m].fd \in unready'
                      /\ lines'[m].disp = "UNREADY" <=> lines'[m].delay
                      /\ lines'[m].fd < max_fd'
    OBVIOUS
  <2>1. CASE m = l
    BY <2>1, <1>2 DEF TerminalInv, LinesAgree, Connected
  <2>2. CASE m # l
    BY <2>2, <1>2, <1>8 DEF TerminalInv, LinesAgree, Connected
  <2>3. QED
    BY <2>1, <2>2
<1>10. \A m \in Line : lines'[m].fd = NoFd => ~lines'[m].repoll /\ ~lines'[m].delay
  BY <1>2, <1>3 DEF TerminalInv, LinesAgree, Connected
<1>11. unready' \subseteq {lines'[m].fd : m \in Line}
  <2>1. unready \subseteq {lines[m].fd : m \in Line}
    BY DEF TerminalInv, LinesAgree
  <2>2. {lines'[m].fd : m \in Line} = {lines[m].fd : m \in Line}
    BY <1>3
  <2>3. QED
    BY <2>1, <2>2
<1>12. LinesAgree'
  BY <1>5, <1>6, <1>9, <1>10, <1>11 DEF LinesAgree, Connected
<1>13. TerminalTypeOK'
  BY <1>1, <1>4, <1>7 DEF TerminalInv, TerminalTypeOK, programVars
<1>14. OwnFd'
  BY <1>3 DEF TerminalInv, OwnFd
<1>15. QED
  BY <1>12, <1>13, <1>14 DEF TerminalInv

-----------------------------------------------------------------------------
(* The methods, one lemma each.                                             *)
LEMMA ReadyDisplayKeeps ==
    ASSUME SeparateTerminals, TerminalInv, NEW l \in Line, tasks[Delay(l)] > 0
    PROVE  /\ ReadyDisplayAsserts(l)
           /\ ReadyDisplay(l) => TerminalInv'
<1> DEFINE next == [lines[l] EXCEPT !.delay = FALSE, !.disp = "READY"]
<1>1. lines[l].delay
  BY TaskCounts
<1>2. Connected(l) /\ lines[l].disp = "UNREADY" /\ lines[l] \in LineState
  BY <1>1 DEF TerminalInv, TerminalTypeOK, LineState, LinesAgree, Connected
<1>3. ReadyDisplayAsserts(l)
  BY <1>1, <1>2 DEF ReadyDisplayAsserts
<1>4. ASSUME ReadyDisplay(l) PROVE TerminalInv'
  <2>1. next \in LineState /\ lines' = [lines EXCEPT ![l] = next]
    BY <1>2, <1>4 DEF ReadyDisplay, LineState, TerminalInv, TerminalTypeOK
  <2>2. /\ next.fd = lines[l].fd /\ next.kbd = lines[l].kbd /\ next.repoll = lines[l].repoll
        /\ next.disp = "READY" /\ ~next.delay
    BY <1>2 DEF LineState
  <2>3. unready' = IF next.kbd = "READY" THEN unready \ {lines[l].fd}
                                         ELSE unready \cup {lines[l].fd}
    BY <1>2, <1>4, <2>2 DEF ReadyDisplay, TerminalInv, LinesAgree, LineState
  <2>4. /\ DOMAIN tasks' = DOMAIN tasks
        /\ \A k \in DOMAIN tasks : tasks'[k] =
             CASE k = Repoll(l) -> (IF next.repoll THEN 1 ELSE 0)
               [] k = Delay(l) -> (IF next.delay THEN 1 ELSE 0)
               [] OTHER -> tasks[k]
    BY <1>1, <1>4, <2>2, TaskCounts, KindsDiffer DEF ReadyDisplay
  <2>5. next.kbd = "READY" <=> next.repoll
    BY <1>2, <2>2 DEF TerminalInv, LinesAgree
  <2>6. input' \in [Fd -> Key \cup {AttnKey, NoInput}] /\ UNCHANGED <<max_fd, programVars>>
    BY <1>4 DEF ReadyDisplay, TerminalInv, TerminalTypeOK
  <2> HIDE DEF next
  <2>7. QED
    BY <1>2, <2>1, <2>2, <2>3, <2>4, <2>5, <2>6, OneLine
<1>5. QED
  BY <1>3, <1>4

LEMMA UnreadyDisplayKeeps ==
    ASSUME SeparateTerminals, TerminalInv, NEW l \in Line, Connected(l), UnreadyDisplay(l)
    PROVE  /\ TerminalInv'
           /\ NoAssertFails => NoAssertFails'
           /\ aborted' => aborted \/ UNCHANGED lines
<1>1. CASE lines[l].disp = "UNREADY"
  BY <1>1, TerminalStutter DEF UnreadyDisplay, terminalVars, programVars, NoAssertFails
<1>2. CASE lines[l].disp # "UNREADY" /\ WriteFails
  <2>1. TerminalInv'
    BY <1>2, LinesKept DEF WriteFails, TerminalInv, TerminalTypeOK
  <2>2. QED
    BY <1>2, <2>1 DEF WriteFails, NoAssertFails
<1>3. CASE lines[l].disp # "UNREADY" /\ ~WriteFails
  <2> DEFINE next == [lines[l] EXCEPT !.delay = TRUE, !.disp = "UNREADY"]
  <2>1. ~lines[l].delay /\ lines[l] \in LineState
    BY <1>3 DEF TerminalInv, TerminalTypeOK, LineState, LinesAgree
  <2>2. /\ lines' = [lines EXCEPT ![l].delay = TRUE, ![l].disp = "UNREADY"]
        /\ tasks' = [tasks EXCEPT ![Delay(l)] = @ + 1]
        /\ UNCHANGED <<unready, max_fd, input, programVars>>
    BY <1>3, <2>1 DEF UnreadyDisplay
  <2>3. next \in LineState /\ lines' = [lines EXCEPT ![l] = next]
    BY <2>1, <2>2 DEF LineState, TerminalInv, TerminalTypeOK
  <2>4. /\ next.fd = lines[l].fd /\ next.kbd = lines[l].kbd /\ next.repoll = lines[l].repoll
        /\ next.disp = "UNREADY" /\ next.delay
    BY <2>1 DEF LineState
  <2>5. unready' = IF next.kbd = "READY" THEN unready \ {lines[l].fd}
                                         ELSE unready \cup {lines[l].fd}
    BY <2>1, <2>2, <2>4 DEF TerminalInv, LinesAgree, LineState
  <2>6. /\ DOMAIN tasks' = DOMAIN tasks
        /\ \A k \in DOMAIN tasks : tasks'[k] =
             CASE k = Repoll(l) -> (IF next.repoll THEN 1 ELSE 0)
               [] k = Delay(l) -> (IF next.delay THEN 1 ELSE 0)
               [] OTHER -> tasks[k]
    BY <2>1, <2>2, <2>4, TaskCounts, KindsDiffer
  <2>7. next.kbd = "READY" <=> next.repoll
    BY <2>4 DEF TerminalInv, LinesAgree
  <2>8. input' \in [Fd -> Key \cup {AttnKey, NoInput}] /\ UNCHANGED <<max_fd, programVars>>
    BY <2>2 DEF TerminalInv, TerminalTypeOK
  <2> HIDE DEF next
  <2>9. TerminalInv'
    BY <2>3, <2>4, <2>5, <2>6, <2>7, <2>8, OneLine
  <2>10. QED
    BY <2>2, <2>9 DEF programVars, NoAssertFails
<1>4. QED
  BY <1>1, <1>2, <1>3

LEMMA UnreadyKeyboardKeeps ==
    ASSUME SeparateTerminals, TerminalInv, NEW l \in Line, Connected(l),
           lines[l].kbd = "READY"
    PROVE  /\ UnreadyKeyboardAsserts(l)
           /\ UnreadyKeyboard(l) => TerminalInv'
<1> DEFINE next == [lines[l] EXCEPT !.repoll = FALSE, !.kbd = "UNREADY"]
<1>1. lines[l].repoll /\ lines[l] \in LineState
  BY DEF TerminalInv, TerminalTypeOK, LineState, LinesAgree
<1>2. UnreadyKeyboardAsserts(l)
  BY <1>1 DEF UnreadyKeyboardAsserts
<1>3. ASSUME UnreadyKeyboard(l) PROVE TerminalInv'
  <2>1. next \in LineState /\ lines' = [lines EXCEPT ![l] = next]
    BY <1>1, <1>3 DEF UnreadyKeyboard, LineState, TerminalInv, TerminalTypeOK
  <2>2. /\ next.fd = lines[l].fd /\ next.disp = lines[l].disp /\ next.delay = lines[l].delay
        /\ next.kbd = "UNREADY" /\ ~next.repoll
    BY <1>1 DEF LineState
  <2>3. unready' = IF next.kbd = "READY" THEN unready \ {lines[l].fd}
                                         ELSE unready \cup {lines[l].fd}
    BY <1>3, <2>2 DEF UnreadyKeyboard
  <2>4. /\ DOMAIN tasks' = DOMAIN tasks
        /\ \A k \in DOMAIN tasks : tasks'[k] =
             CASE k = Repoll(l) -> (IF next.repoll THEN 1 ELSE 0)
               [] k = Delay(l) -> (IF next.delay THEN 1 ELSE 0)
               [] OTHER -> tasks[k]
    BY <1>1, <1>3, <2>2, TaskCounts, KindsDiffer DEF UnreadyKeyboard
  <2>5. next.disp = "UNREADY" <=> next.delay
    BY <2>2 DEF TerminalInv, LinesAgree
  <2>6. input' \in [Fd -> Key \cup {AttnKey, NoInput}] /\ UNCHANGED <<max_fd, programVars>>
    BY <1>3 DEF UnreadyKeyboard, TerminalInv, TerminalTypeOK
  <2> HIDE DEF next
  <2>7. QED
    BY <2>1, <2>2, <2>3, <2>4, <2>5, <2>6, OneLine
<1>4. QED
  BY <1>2, <1>3

(* ready_keyboard, for a set ls of connected lines whose repoll is queued   *)
(* once afterwards.                                                         *)
LEMMA ReadyKeyboardsKeep ==
    ASSUME SeparateTerminals, TerminalInv, NEW ls \in SUBSET Line,
           \A l \in ls : Connected(l), ReadyKeyboards(ls),
           DOMAIN tasks' = DOMAIN tasks,
           \A l \in ls : tasks'[Repoll(l)] = 1,
           \A k \in DOMAIN tasks :
              tasks'[k] = tasks[k] \/ \E l \in ls : k = Repoll(l)
    PROVE  TerminalInv'
<1> USE DEF LineState
<1>0. lines \in [Line -> LineState]
  BY DEF TerminalInv, TerminalTypeOK
<1>1. lines' \in [Line -> LineState]
  <2>1. \A m \in Line : [lines[m] EXCEPT !.kbd = "READY", !.repoll = TRUE] \in LineState
    BY <1>0
  <2>2. QED
    BY <1>0, <2>1 DEF ReadyKeyboards
<1>2. /\ \A m \in ls : lines'[m] = [lines[m] EXCEPT !.kbd = "READY", !.repoll = TRUE]
      /\ \A m \in Line \ ls : lines'[m] = lines[m]
  BY DEF ReadyKeyboards
<1>3. \A m \in ls : /\ lines'[m].fd = lines[m].fd /\ lines'[m].disp = lines[m].disp
                    /\ lines'[m].delay = lines[m].delay
                    /\ lines'[m].kbd = "READY" /\ lines'[m].repoll
  <2> SUFFICES ASSUME NEW m \in ls
               PROVE  /\ lines'[m].fd = lines[m].fd /\ lines'[m].disp = lines[m].disp
                      /\ lines'[m].delay = lines[m].delay
                      /\ lines'[m].kbd = "READY" /\ lines'[m].repoll
    OBVIOUS
  <2>1. lines[m] \in LineState
    BY <1>0
  <2>2. lines'[m] = [lines[m] EXCEPT !.kbd = "READY", !.repoll = TRUE]
    BY <1>2
  <2>3. QED
    BY <2>1, <2>2
<1>4. \A m \in Line : /\ lines'[m].fd = lines[m].fd /\ lines'[m].disp = lines[m].disp
                      /\ lines'[m].delay = lines[m].delay
  BY <1>2, <1>3
<1>5. unready' = unready \ {lines[l].fd : l \in ls} /\ UNCHANGED <<max_fd, programVars>>
  BY DEF ReadyKeyboards
<1>6. \A m \in Line : /\ tasks'[Repoll(m)] = IF lines'[m].repoll THEN 1 ELSE 0
                      /\ tasks'[Delay(m)] = IF lines'[m].delay THEN 1 ELSE 0
  <2> SUFFICES ASSUME NEW m \in Line
               PROVE  /\ tasks'[Repoll(m)] = IF lines'[m].repoll THEN 1 ELSE 0
                      /\ tasks'[Delay(m)] = IF lines'[m].delay THEN 1 ELSE 0
    OBVIOUS
  <2>1. tasks'[Delay(m)] = tasks[Delay(m)]
    BY TaskCounts, KindsDiffer
  <2>2. m \notin ls => tasks'[Repoll(m)] = tasks[Repoll(m)]
    BY TaskCounts, KindsDiffer
  <2>3. QED
    BY <1>2, <1>4, <1>3, <2>1, <2>2, TaskCounts
<1>7. /\ tasks'[Poll] = 1
      /\ \A k \in DOMAIN tasks' : tasks'[k] \in Nat
  <2>1. \A l \in ls : Poll # Repoll(l)
    BY KindsDiffer
  <2>2. CASE Line = {}
    BY <2>2 DEF TerminalInv, TerminalTypeOK, LinesAgree, Kinds
  <2>3. CASE Line # {}
    BY <2>1, <2>3, TaskCounts DEF TerminalInv, TerminalTypeOK
  <2>4. QED
    BY <2>2, <2>3
<1>8. \A m \in Line \ ls : lines[m].fd # NoFd => lines[m].fd \notin {lines[l].fd : l \in ls}
  BY FdsDiffer DEF TerminalInv
<1>9. \A m \in Line : lines'[m].fd # NoFd =>
         /\ lines'[m].kbd = "READY" <=> lines'[m].repoll
         /\ lines'[m].kbd = "UNREADY" <=> lines'[m].fd \in unready'
         /\ lines'[m].disp = "UNREADY" <=> lines'[m].delay
         /\ lines'[m].fd < max_fd'
  <2> SUFFICES ASSUME NEW m \in Line, lines'[m].fd # NoFd
               PROVE  /\ lines'[m].kbd = "READY" <=> lines'[m].repoll
                      /\ lines'[m].kbd = "UNREADY" <=> lines'[m].fd \in unready'
                      /\ lines'[m].disp = "UNREADY" <=> lines'[m].delay
                      /\ lines'[m].fd < max_fd'
    OBVIOUS
  <2>1. lines'[m].disp = "UNREADY" <=> lines'[m].delay
    BY <1>4 DEF TerminalInv, LinesAgree, Connected
  <2>2. lines'[m].fd < max_fd'
    BY <1>4, <1>5 DEF TerminalInv, LinesAgree, Connected
  <2>3. CASE m \in ls
    BY <1>4, <1>3, <1>5, <2>1, <2>2, <2>3
  <2>4. CASE m \notin ls
    BY <1>2, <1>5, <1>8, <2>1, <2>2, <2>4 DEF TerminalInv, LinesAgree, Connected
  <2>5. QED
    BY <2>3, <2>4
<1>10. \A m \in Line : lines'[m].fd = NoFd => ~lines'[m].repoll /\ ~lines'[m].delay
  <2> SUFFICES ASSUME NEW m \in Line, lines'[m].fd = NoFd
               PROVE  ~lines'[m].repoll /\ ~lines'[m].delay
    OBVIOUS
  <2>1. lines[m].fd = NoFd /\ m \notin ls
    BY <1>4 DEF Connected
  <2>2. ~lines[m].repoll /\ ~lines[m].delay
    BY <2>1 DEF TerminalInv, LinesAgree, Connected
  <2>3. QED
    BY <1>2, <2>1, <2>2
<1>11. unready' \subseteq {lines'[m].fd : m \in Line}
  <2>1. {lines'[m].fd : m \in Line} = {lines[m].fd : m \in Line}
    BY <1>4
  <2>2. QED
    BY <1>5, <2>1 DEF TerminalInv, LinesAgree
<1>12. LinesAgree'
  BY <1>6, <1>7, <1>9, <1>10, <1>11 DEF LinesAgree, Connected
<1>13. input' \in [Fd -> Key \cup {AttnKey, NoInput}]
  BY DEF ReadyKeyboards, TerminalInv, TerminalTypeOK
<1>14. TerminalTypeOK'
  BY <1>1, <1>5, <1>7, <1>13 DEF TerminalInv, TerminalTypeOK, programVars
<1>15. OwnFd'
  BY <1>4 DEF TerminalInv, OwnFd
<1>16. QED
  BY <1>12, <1>14, <1>15 DEF TerminalInv

LEMMA RepollKeeps ==
    ASSUME SeparateTerminals, TerminalInv, NEW l \in Line, tasks[Repoll(l)] > 0
    PROVE  /\ RepollAsserts(l)
           /\ RepollKeyboard(l) => TerminalInv'
<1>1. lines[l].repoll
  BY TaskCounts
<1>2. Connected(l) /\ lines[l].kbd = "READY"
  BY <1>1 DEF TerminalInv, TerminalTypeOK, LinesAgree, Connected
<1>3. ASSUME RepollKeyboard(l) PROVE TerminalInv'
  <2>1. ReadyKeyboards({l}) /\ UNCHANGED tasks /\ tasks[Repoll(l)] = 1
    BY <1>1, <1>3, TaskCounts DEF RepollKeyboard
  <2>2. QED
    BY <1>2, <2>1, ReadyKeyboardsKeep
<1>4. QED
  BY <1>2, <1>3 DEF RepollAsserts

LEMMA PollKeeps ==
    ASSUME SeparateTerminals, TerminalInv, NEW fds \in Selected
    PROVE  /\ PollAsserts(LinesOn(fds))
           /\ \A l \in LinesOn(fds) : Connected(l)
           /\ PollKeyboards(LinesOn(fds)) => TerminalInv'
<1> DEFINE ls == LinesOn(fds)
<1>1. ls \in SUBSET Line /\ \A l \in ls : lines[l].fd \in unready
  BY DEF LinesOn, Selected, ToRead
<1>2. \A l \in ls : Connected(l)
  BY <1>1, TerminalAssumption DEF TerminalInv, TerminalTypeOK, Connected, NoFd
<1>3. \A l \in ls : lines[l].kbd = "UNREADY" /\ ~lines[l].repoll
  BY <1>1, <1>2 DEF TerminalInv, LinesAgree
<1>4. ASSUME PollKeyboards(ls) PROVE TerminalInv'
  <2>1. ReadyKeyboards(ls)
    BY <1>4 DEF PollKeyboards
  <2>2. /\ DOMAIN tasks' = DOMAIN tasks
        /\ \A k \in DOMAIN tasks : tasks'[k] = tasks[k] \/ \E l \in ls : k = Repoll(l)
    BY <1>4 DEF PollKeyboards
  <2>3. \A l \in ls : tasks'[Repoll(l)] = 1
    BY <1>1, <1>3, <1>4, TaskCounts DEF PollKeyboards
  <2> HIDE DEF ls
  <2>4. QED
    BY <1>1, <1>2, <2>1, <2>2, <2>3, ReadyKeyboardsKeep
<1>5. QED
  BY <1>2, <1>3, <1>4 DEF PollAsserts

LEMMA TypeKeeps ==
    ASSUME TerminalInv, NEW f \in Fd, NEW c \in Key \cup {AttnKey}, Type(f, c)
    PROVE  TerminalInv' /\ UNCHANGED <<lines, programVars>>
<1>1. UNCHANGED <<lines, unready, max_fd, tasks, programVars>>
  BY DEF Type
<1>2. /\ input' \in [Fd -> Key \cup {AttnKey, NoInput}]
      /\ suspended' \in BOOLEAN /\ aborted' \in BOOLEAN /\ write_failed' \in BOOLEAN
  BY <1>1 DEF Type, TerminalInv, TerminalTypeOK, programVars
<1>3. QED
  BY <1>1, <1>2, LinesKept

LEMMA ReinitializeKeeps ==
    ASSUME Line \subseteq 0..3, SeparateTerminals, TerminalInv,
           NEW gone \in SUBSET {l \in Line : Connected(l)}, NEW flushed,
           Reinitialize(gone, flushed)
    PROVE  /\ TerminalInv'
           /\ \A l \in Line \ gone : lines'[l] = lines[l]
           /\ \A l \in gone : ~Connected(l)'
           /\ UNCHANGED <<aborted, write_failed>>
<1> USE DEF LineState
<1>1. lines \in [Line -> LineState]
  BY DEF TerminalInv, TerminalTypeOK
<1>2. \A m \in gone : /\ lines'[m].fd = NoFd /\ ~lines'[m].repoll /\ ~lines'[m].delay
                      /\ lines'[m] \in LineState
  <2> SUFFICES ASSUME NEW m \in gone
               PROVE  /\ lines'[m].fd = NoFd /\ ~lines'[m].repoll /\ ~lines'[m].delay
                      /\ lines'[m] \in LineState
    OBVIOUS
  <2>1. lines[m] \in LineState
    BY <1>1
  <2>2. lines'[m] = [lines[m] EXCEPT !.fd = NoFd, !.repoll = FALSE, !.delay = FALSE]
    BY DEF Reinitialize, Removed
  <2>3. QED
    BY <2>1, <2>2
<1>3. \A m \in Line \ gone : lines'[m] = lines[m]
  BY DEF Reinitialize, Removed
<1>4. lines' \in [Line -> LineState]
  <2>1. \A m \in Line : lines'[m] \in LineState
    BY <1>1, <1>2, <1>3
  <2>2. lines' = [m \in Line |-> lines'[m]]
    BY DEF Reinitialize, Removed
  <2>3. QED
    BY <2>1, <2>2
<1>5. /\ max_fd' \in Nat \cup {NoFd}
      /\ \A m \in Line : lines'[m].fd # NoFd => lines'[m].fd < max_fd'
  BY <1>4, LargestFdBound DEF Reinitialize
<1>6. \A m \in Line : /\ tasks'[Repoll(m)] = IF lines'[m].repoll THEN 1 ELSE 0
                      /\ tasks'[Delay(m)] = IF lines'[m].delay THEN 1 ELSE 0
  <2> SUFFICES ASSUME NEW m \in Line
               PROVE  /\ tasks'[Repoll(m)] = IF lines'[m].repoll THEN 1 ELSE 0
                      /\ tasks'[Delay(m)] = IF lines'[m].delay THEN 1 ELSE 0
    OBVIOUS
  <2>1. tasks'[Repoll(m)] = IF m \in gone /\ lines[m].repoll THEN tasks[Repoll(m)] - 1
                                                           ELSE tasks[Repoll(m)]
    BY TaskCounts, KindsDiffer DEF Reinitialize
  <2>2. tasks'[Delay(m)] = IF m \in gone /\ lines[m].delay THEN tasks[Delay(m)] - 1
                                                         ELSE tasks[Delay(m)]
    BY TaskCounts, KindsDiffer DEF Reinitialize
  <2>3. CASE m \in gone
    <3>1. ~lines'[m].repoll /\ ~lines'[m].delay
      BY <1>2, <2>3
    <3>2. tasks'[Repoll(m)] = 0 /\ tasks'[Delay(m)] = 0
      BY <2>1, <2>2, <2>3, TaskCounts
    <3>3. QED
      BY <3>1, <3>2
  <2>4. CASE m \notin gone
    <3>1. lines'[m] = lines[m]
      BY <1>3, <2>4
    <3>2. tasks'[Repoll(m)] = tasks[Repoll(m)] /\ tasks'[Delay(m)] = tasks[Delay(m)]
      BY <2>1, <2>2, <2>4
    <3>3. QED
      BY <3>1, <3>2, TaskCounts
  <2>5. QED
    BY <2>3, <2>4
<1>7. tasks'[Poll] = 1 /\ Kinds \subseteq DOMAIN tasks'
  <2>1. Poll.line \notin gone
    BY TerminalAssumption DEF Poll, NoFd
  <2>2. Poll \in DOMAIN tasks /\ tasks[Poll] = 1 /\ DOMAIN tasks' = DOMAIN tasks
    BY DEF TerminalInv, LinesAgree, Kinds, Reinitialize
  <2>3. tasks'[Poll] = tasks[Poll]
    BY <2>1, <2>2 DEF Reinitialize
  <2>4. QED
    BY <2>2, <2>3 DEF TerminalInv
<1>8. \A k \in DOMAIN tasks' : tasks'[k] \in Nat
  <2> SUFFICES ASSUME NEW k \in DOMAIN tasks PROVE tasks'[k] \in Nat
    BY DEF Reinitialize
  <2>1. CASE k.line \in gone /\ (\/ k = Repoll(k.line) /\ lines[k.line].repoll
                                 \/ k = Delay(k.line) /\ lines[k.line].delay)
    <3>1. tasks'[k] = tasks[k] - 1
      BY <2>1 DEF Reinitialize
    <3>2. tasks[k] = 1
      BY <2>1, TaskCounts
    <3>3. QED
      BY <3>1, <3>2
  <2>2. CASE ~(k.line \in gone /\ (\/ k = Repoll(k.line) /\ lines[k.line].repoll
                                   \/ k = Delay(k.line) /\ lines[k.line].delay))
    BY <2>2 DEF Reinitialize, TerminalInv, TerminalTypeOK
  <2>3. QED
    BY <2>1, <2>2
<1>9. /\ unready' = unready \ {lines[l].fd : l \in gone}
      /\ suspended' = FALSE /\ UNCHANGED <<aborted, write_failed>>
      /\ input' \in [Fd -> Key \cup {AttnKey, NoInput}]
  BY FlushTyped DEF Reinitialize
<1>10. \A m \in Line \ gone : lines[m].fd # NoFd => lines[m].fd \notin {lines[l].fd : l \in gone}
  BY FdsDiffer DEF TerminalInv
<1>11. \A m \in Line : lines'[m].fd # NoFd =>
          /\ m \notin gone
          /\ lines'[m].kbd = "READY" <=> lines'[m].repoll
          /\ lines'[m].kbd = "UNREADY" <=> lines'[m].fd \in unready'
          /\ lines'[m].disp = "UNREADY" <=> lines'[m].delay
  <2> SUFFICES ASSUME NEW m \in Line, lines'[m].fd # NoFd
               PROVE  /\ m \notin gone
                      /\ lines'[m].kbd = "READY" <=> lines'[m].repoll
                      /\ lines'[m].kbd = "UNREADY" <=> lines'[m].fd \in unready'
                      /\ lines'[m].disp = "UNREADY" <=> lines'[m].delay
    OBVIOUS
  <2>1. m \notin gone /\ lines'[m] = lines[m]
    BY <1>2, <1>3
  <2>2. QED
    BY <2>1, <1>9, <1>10 DEF TerminalInv, LinesAgree, Connected
<1>12. \A m \in Line : lines'[m].fd = NoFd => ~lines'[m].repoll /\ ~lines'[m].delay
  BY <1>2, <1>3 DEF TerminalInv, LinesAgree, Connected
<1>13. unready' \subseteq {lines'[m].fd : m \in Line}
  <2>1. unready \subseteq {lines[m].fd : m \in Line}
    BY DEF TerminalInv, LinesAgree
  <2>2. \A m \in Line : lines[m].fd \in unready' => lines'[m].fd = lines[m].fd
    BY <1>3, <1>9
  <2>3. QED
    BY <1>9, <2>1, <2>2
<1>14. LinesAgree'
  BY <1>5, <1>6, <1>7, <1>11, <1>12, <1>13 DEF LinesAgree, Connected
<1>15. TerminalTypeOK'
  BY <1>4, <1>5, <1>8, <1>9 DEF TerminalInv, TerminalTypeOK
<1>16. OwnFd'
  BY <1>2, <1>3 DEF TerminalInv, OwnFd
<1>17. QED
  BY <1>2, <1>3, <1>7, <1>9, <1>14, <1>15, <1>16 DEF TerminalInv, Connected
=============================================================================
