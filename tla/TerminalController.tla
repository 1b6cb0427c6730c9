------------------------- MODULE TerminalController -------------------------
(***************************************************************************)
(* The lines that the SPIM console and the DEC serial device share         *)
(* (terminalcontroller.cc): for each line a keyboard and a display, each   *)
(* READY or UNREADY, and the tasks queued on the clock that bring them     *)
(* back.  A device extends this module with its registers and interrupts:  *)
(* the operators below are the methods it overrides and calls.             *)
(*                                                                         *)
(* The character held in keyboard_char is left out: no state depends on it *)
(* but through the attention key.                                          *)
(*                                                                         *)
(* tasks counts, for each kind of task, those on the clock that are still  *)
(* needed; cancel() takes one away, because a cancelled task does nothing  *)
(* when it runs.  When a task runs is left open: Clock settles that every  *)
(* queued task runs in the end.                                            *)
(***************************************************************************)
EXTENDS Integers, FiniteSets

CONSTANTS Line,        \* lines that the device serves
          Fd,          \* host file descriptors
          FdOf,        \* descriptor opened for each line, NoFd for "off"
          Key,         \* characters a user types, other than the next one
          AttnKey,     \* Control-underscore, 0x1f
          NoInput      \* nothing to read on a descriptor

NoFd == -1

ASSUME TerminalAssumption ==
    /\ Line \subseteq Nat
    /\ Fd \subseteq Nat
    /\ FdOf \in [Line -> Fd \cup {NoFd}]
    /\ AttnKey \notin Key \cup {NoInput}
    /\ NoInput \notin Key

VARIABLES lines,       \* LineState of each line
          unready,     \* unready_keyboards, a set of descriptors
          max_fd,      \* cache of the largest descriptor + 1
          tasks,       \* needed tasks on the clock, of each kind
          input,       \* external: the next character a read would return
          suspended,   \* the terminals are the inspector's
          aborted,     \* an assertion of the program has failed
          write_failed \* history: it was the one on the result of write

programVars == <<suspended, aborted, write_failed>>
terminalVars == <<lines, unready, max_fd, tasks, input, programVars>>

Poll == [kind |-> "KeyboardPoll", line |-> NoFd]
Repoll(l) == [kind |-> "KeyboardRepoll", line |-> l]
Delay(l) == [kind |-> "DisplayDelay", line |-> l]

Connected(l) == lines[l].fd # NoFd

LargestFd(ls) ==
    LET fds == {ls[l].fd : l \in Line} \ {NoFd}
    IN  IF fds = {} THEN NoFd
        ELSE 1 + (CHOOSE f \in fds : \A g \in fds : g <= f)

(* The controller after its constructor and connect_terminal on the lines  *)
(* of on; a terminal that cannot be prepared leaves its line disconnected. *)
InitTerminals(on, otherTasks) ==
    /\ lines = [l \in Line |->
                  [fd |-> IF l \in on THEN FdOf[l] ELSE NoFd,
                   kbd |-> "UNREADY", disp |-> "READY",
                   repoll |-> FALSE, delay |-> FALSE]]
    /\ unready = {FdOf[l] : l \in on} \ {NoFd}
    /\ max_fd = LargestFd(lines)
    /\ tasks = [k \in {Poll} \cup {Repoll(l) : l \in Line} \cup {Delay(l) : l \in Line}
                         \cup otherTasks |->
                  IF k \in {Poll} \cup otherTasks THEN 1 ELSE 0]
    /\ input = [f \in Fd |-> NoInput]
    /\ suspended = FALSE /\ aborted = FALSE /\ write_failed = FALSE

(* A failed assertion ends the program. *)
Abort ==
    /\ aborted' = TRUE
    /\ UNCHANGED <<lines, unready, max_fd, tasks, input, suspended, write_failed>>

(* The host does not take a character at once: the descriptors are opened   *)
(* O_NONBLOCK, and unready_display asserts that write took it.              *)
WriteFails ==
    /\ aborted' = TRUE /\ write_failed' = TRUE
    /\ UNCHANGED <<lines, unready, max_fd, tasks, input, suspended>>

-----------------------------------------------------------------------------
(* ready_display, run by a DisplayDelay *)
ReadyDisplayAsserts(l) ==
    Connected(l) /\ lines[l].disp = "UNREADY" /\ lines[l].delay

ReadyDisplay(l) ==
    /\ lines' = [lines EXCEPT ![l].delay = FALSE, ![l].disp = "READY"]
    /\ tasks' = [tasks EXCEPT ![Delay(l)] = @ - 1]
    /\ UNCHANGED <<unready, max_fd, input, programVars>>

(* Faulty variant: the task that makes the display ready is not queued. *)
UnreadyDisplayNoTask(l) ==
    /\ lines' = [lines EXCEPT ![l].disp = "UNREADY"]
    /\ UNCHANGED <<tasks, unready, max_fd, input, programVars>>

(* unready_display: what the guest writes to a display that is not ready   *)
(* is ignored.                                                             *)
UnreadyDisplay(l) ==
    IF lines[l].disp = "UNREADY" THEN UNCHANGED terminalVars
    ELSE \/ WriteFails
         \/ IF lines[l].delay THEN Abort
            ELSE /\ lines' = [lines EXCEPT ![l].delay = TRUE, ![l].disp = "UNREADY"]
                 /\ tasks' = [tasks EXCEPT ![Delay(l)] = @ + 1]
                 /\ UNCHANGED <<unready, max_fd, input, programVars>>

-----------------------------------------------------------------------------
UnreadyKeyboardAsserts(l) == lines[l].kbd = "READY" /\ lines[l].repoll

(* Faulty variant: the queued KeyboardRepoll is not cancelled. *)
UnreadyKeyboardNoCancel(l) ==
    /\ lines' = [lines EXCEPT ![l].repoll = FALSE, ![l].kbd = "UNREADY"]
    /\ unready' = unready \cup {lines[l].fd}
    /\ UNCHANGED <<tasks, max_fd, input, programVars>>

(* Faulty variant: the descriptor is not given back to poll_keyboards. *)
UnreadyKeyboardNotPolled(l) ==
    /\ lines' = [lines EXCEPT ![l].repoll = FALSE, ![l].kbd = "UNREADY"]
    /\ tasks' = [tasks EXCEPT ![Repoll(l)] = @ - 1]
    /\ UNCHANGED <<unready, max_fd, input, programVars>>

(* unready_keyboard *)
UnreadyKeyboard(l) ==
    /\ lines' = [lines EXCEPT ![l].repoll = FALSE, ![l].kbd = "UNREADY"]
    /\ unready' = unready \cup {lines[l].fd}
    /\ tasks' = [tasks EXCEPT ![Repoll(l)] = @ - 1]
    /\ UNCHANGED <<max_fd, input, programVars>>

(* ready_keyboard on the lines of ls: read takes what is waiting on their  *)
(* descriptors.  The attention key leaves a NUL for the guest.             *)
ReadyKeyboards(ls) ==
    /\ lines' = [l \in Line |->
                   IF l \in ls
                     THEN [lines[l] EXCEPT !.kbd = "READY", !.repoll = TRUE]
                     ELSE lines[l]]
    /\ unready' = unready \ {lines[l].fd : l \in ls}
    /\ input' = [f \in Fd |-> IF \E l \in ls : lines[l].fd = f THEN NoInput ELSE input[f]]
    /\ UNCHANGED <<max_fd, programVars>>

AttnRead(ls) == \E l \in ls : input[lines[l].fd] = AttnKey

(* repoll_keyboard, run by a KeyboardRepoll, which queues the next one *)
RepollAsserts(l) == Connected(l) /\ lines[l].kbd = "READY"

(* Faulty variant: the repoll does not queue the next one. *)
RepollOnce(l) == ReadyKeyboards({l}) /\ tasks' = [tasks EXCEPT ![Repoll(l)] = @ - 1]

RepollKeyboard(l) == ReadyKeyboards({l}) /\ UNCHANGED tasks

(* poll_keyboards, run by the KeyboardPoll, which queues the next one.     *)
(* select looks at the descriptors below max_fd; when it fails it leaves   *)
(* the set as it was.                                                      *)
ToRead == {f \in unready : f < max_fd}

Selected == {{f \in ToRead : input[f] # NoInput}, ToRead}

LinesOn(fds) == {l \in Line : lines[l].fd \in fds}

PollAsserts(ls) == \A l \in ls : ~lines[l].repoll /\ lines[l].kbd = "UNREADY"

PollKeyboards(ls) ==
    /\ ReadyKeyboards(ls)
    /\ tasks' = [k \in DOMAIN tasks |->
                   IF \E l \in ls : k = Repoll(l) THEN tasks[k] + 1 ELSE tasks[k]]

-----------------------------------------------------------------------------
Removed(ls, gone) ==
    [l \in Line |-> IF l \in gone
                      THEN [ls[l] EXCEPT !.fd = NoFd, !.repoll = FALSE, !.delay = FALSE]
                      ELSE ls[l]]

(* tcsetattr with TCSAFLUSH throws away what was typed on a terminal and    *)
(* not yet read; what waits on a descriptor that is not one, or where it    *)
(* fails, stays.                                                            *)
ConnectedFds == {lines[l].fd : l \in Line} \ {NoFd}

Flush(fds) == input' = [f \in Fd |-> IF f \in fds THEN NoInput ELSE input[f]]

(* suspend, where the input of the descriptors of flushed is lost *)
Suspend(flushed) ==
    /\ Flush(flushed)
    /\ suspended' = TRUE
    /\ UNCHANGED <<lines, unready, max_fd, tasks, aborted, write_failed>>

(* Faulty variant: remove_terminal forgets the queued DisplayDelay. *)
ReinitializeNoCancel(gone, flushed) ==
    /\ lines' = [l \in Line |-> IF l \in gone
                                  THEN [lines[l] EXCEPT !.fd = NoFd, !.repoll = FALSE]
                                  ELSE lines[l]]
    /\ unready' = unready \ {lines[l].fd : l \in gone}
    /\ tasks' = [k \in DOMAIN tasks |->
                   IF k.line \in gone /\ k = Repoll(k.line) /\ lines[k.line].repoll
                     THEN tasks[k] - 1 ELSE tasks[k]]
    /\ max_fd' = LargestFd(lines')
    /\ Flush(flushed)
    /\ suspended' = FALSE
    /\ UNCHANGED <<aborted, write_failed>>

(* Faulty variant: tasks are cancelled that were never queued. *)
ReinitializeCancelAll(gone, flushed) ==
    /\ lines' = Removed(lines, gone)
    /\ unready' = unready \ {lines[l].fd : l \in gone}
    /\ tasks' = [k \in DOMAIN tasks |-> IF k.line \in gone THEN tasks[k] - 1 ELSE tasks[k]]
    /\ max_fd' = LargestFd(lines')
    /\ Flush(flushed)
    /\ suspended' = FALSE
    /\ UNCHANGED <<aborted, write_failed>>

(* reinitialize_terminals, where the terminals of gone can no longer be    *)
(* prepared and remove_terminal takes them away.  Both flush.               *)
Reinitialize(gone, flushed) ==
    /\ lines' = Removed(lines, gone)
    /\ unready' = unready \ {lines[l].fd : l \in gone}
    /\ tasks' = [k \in DOMAIN tasks |->
                   IF k.line \in gone /\ (\/ k = Repoll(k.line) /\ lines[k.line].repoll
                                          \/ k = Delay(k.line) /\ lines[k.line].delay)
                     THEN tasks[k] - 1 ELSE tasks[k]]
    /\ max_fd' = LargestFd(lines')
    /\ Flush(flushed)
    /\ suspended' = FALSE
    /\ UNCHANGED <<aborted, write_failed>>

(* external: the user types at the terminal behind a descriptor *)
Type(f, c) ==
    /\ input[f] = NoInput
    /\ input' = [input EXCEPT ![f] = c]
    /\ UNCHANGED <<lines, unready, max_fd, tasks, programVars>>

(* The user does not stay in the inspector for ever. *)
InspectorLeft == []<>(~suspended \/ aborted)

-----------------------------------------------------------------------------
(* Types.                                                                   *)
TerminalTypeOK ==
    /\ lines \in [Line -> [fd : Fd \cup {NoFd}, kbd : {"UNREADY", "READY"},
                           disp : {"UNREADY", "READY"}, repoll : BOOLEAN,
                           delay : BOOLEAN]]
    /\ unready \in SUBSET Fd
    /\ max_fd \in Nat \cup {NoFd}
    /\ \A k \in DOMAIN tasks : tasks[k] \in Nat
    /\ input \in [Fd -> Key \cup {AttnKey, NoInput}]
    /\ suspended \in BOOLEAN /\ aborted \in BOOLEAN /\ write_failed \in BOOLEAN

(* No assertion of terminalcontroller.cc fails but the one that write took  *)
(* its character (terminalcontroller.cc:192), whatever order the guest, the *)
(* tasks, the inspector and the removal of lines come in.                   *)
NoAssertFails == aborted => write_failed

(* The three records of a keyboard agree: its state, the set that           *)
(* poll_keyboards selects on, and its repoll task; so do a display's state  *)
(* and its delay task.  A task pointer is set exactly while its task is on  *)
(* the clock, once, so cancel() never reaches a task already deleted and no *)
(* task runs for a line that was removed.                                   *)
LinesAgree ==
    /\ tasks[Poll] = 1
    /\ \A l \in Line :
         /\ tasks[Repoll(l)] = IF lines[l].repoll THEN 1 ELSE 0
         /\ tasks[Delay(l)] = IF lines[l].delay THEN 1 ELSE 0
         /\ Connected(l) =>
              /\ lines[l].kbd = "READY" <=> lines[l].repoll
              /\ lines[l].kbd = "UNREADY" <=> lines[l].fd \in unready
              /\ lines[l].disp = "UNREADY" <=> lines[l].delay
              /\ lines[l].fd < max_fd
         /\ ~Connected(l) => ~lines[l].repoll /\ ~lines[l].delay
    /\ unready \subseteq {lines[l].fd : l \in Line}
=============================================================================
