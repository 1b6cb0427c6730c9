------------------------------ MODULE Machine -------------------------------
(***************************************************************************)
(* The driver of vmips: vmips::run and the three loops it moves between,   *)
(* the run loop, the debugger's server (debug.cc) and the interactive      *)
(* inspector (interactor.cc).  They share one variable, state, which is    *)
(* also written by the guest (the halt device, a halting exception), by    *)
(* the user (the attention key, the commands) and, between any two steps,  *)
(* by the handler of SIGQUIT.                                              *)
(*                                                                         *)
(* pc names the place in the code; caller is the loop to which vmips::step *)
(* returns.  What the guest, the user and GDB do is left open.             *)
(***************************************************************************)
EXTENDS Naturals

CONSTANT MaxSteps      \* bound: guest instructions counted after a halt

ASSUME MachineAssumption == MaxSteps \in Nat \ {0, 1}

VARIABLES opt_debug,   \* the debugger was asked for
          state,       \* state of the machine
          pc, caller,
          backend_error, \* remotegdb_backend_error
          late,        \* history: instructions begun in state HALT since the
                       \* machine last came to it, but for those asked for at
                       \* the prompt
          stored       \* history: the guest wrote to the halt device

vars == <<opt_debug, state, pc, caller, backend_error, late, stored>>

Locations == {"setup", "setup_exe", "outer", "run", "debug", "server", "accept",
              "target", "getpkt", "putpkt", "session_end", "interact", "prompt",
              "resume", "set_run", "reinitialize", "cpu", "clock", "stepped", "exit"}

(* Places at which the program waits for the user or for GDB. *)
Waiting == {"prompt", "accept", "getpkt", "putpkt"}

Init ==
    /\ opt_debug \in BOOLEAN
    /\ state = "HALT"
    /\ pc = "setup"
    /\ caller = "none"
    /\ backend_error = FALSE
    /\ late = 0
    /\ stored = FALSE

Goto(from, to) == pc = from /\ pc' = to

(* An assignment to state; leaving HALT starts the count of late again. *)
SetState(s) == state' = s /\ late' = IF s = "HALT" THEN late ELSE 0

KeepState == UNCHANGED <<state, late>>

-----------------------------------------------------------------------------
(* vmips::run *)

(* The components are constructed, the handler of SIGQUIT is installed. *)
Setup ==
    /\ \E to \in {"setup_exe", "exit"} : Goto("setup", to)
    /\ KeepState
    /\ UNCHANGED <<opt_debug, caller, backend_error, stored>>

(* setup_exe, and the initial state of the machine. *)
SetupExe ==
    /\ \/ Goto("setup_exe", "exit") /\ KeepState
       \/ Goto("setup_exe", "outer") /\ SetState(IF opt_debug THEN "DEBUG" ELSE "RUN")
    /\ UNCHANGED <<opt_debug, caller, backend_error, stored>>

(* The outer loop and its switch. *)
Outer ==
    /\ \/ state = "HALT" /\ Goto("outer", "exit")
       \/ state = "RUN" /\ Goto("outer", "run")
       \/ state = "DEBUG" /\ Goto("outer", "debug")
       \/ state = "INTERACT" /\ Goto("outer", "interact")
    /\ KeepState
    /\ UNCHANGED <<opt_debug, caller, backend_error, stored>>

(* Faulty variant: the loop is left only for the inspector. *)
RunTestInteract ==
    /\ \/ state # "INTERACT" /\ Goto("run", "cpu") /\ caller' = "run"
       \/ state = "INTERACT" /\ Goto("run", "outer") /\ UNCHANGED caller
    /\ KeepState
    /\ UNCHANGED <<opt_debug, backend_error, stored>>

(* Faulty variant: the loop is left only to halt. *)
RunTestHalt ==
    /\ \/ state # "HALT" /\ Goto("run", "cpu") /\ caller' = "run"
       \/ state = "HALT" /\ Goto("run", "outer") /\ UNCHANGED caller
    /\ KeepState
    /\ UNCHANGED <<opt_debug, backend_error, stored>>

RunTest ==
    /\ \/ state = "RUN" /\ Goto("run", "cpu") /\ caller' = "run"
       \/ state # "RUN" /\ Goto("run", "outer") /\ UNCHANGED caller
    /\ KeepState
    /\ UNCHANGED <<opt_debug, backend_error, stored>>

(* halt_machine_by_signal, between any two steps once it is installed. *)
Sigquit ==
    /\ pc \notin {"setup", "exit"}
    /\ SetState("HALT")
    /\ UNCHANGED <<opt_debug, pc, caller, backend_error, stored>>

-----------------------------------------------------------------------------
(* vmips::step *)

(* cpu->step(): the instruction may store to the halt device or raise an   *)
(* exception that halts the machine.                                       *)
CpuStep ==
    /\ Goto("cpu", "clock")
    /\ LET begun == IF state = "HALT" /\ caller # "prompt" /\ late < MaxSteps
                      THEN late + 1 ELSE late
       IN  \/ state' = state /\ late' = begun /\ UNCHANGED stored
           \/ state' = "HALT" /\ late' = begun /\ stored' \in {stored, TRUE}
    /\ UNCHANGED <<opt_debug, caller, backend_error>>

(* clock->increment_time(): a poll of the keyboards may read the attention *)
(* key.                                                                    *)
ClockStep ==
    /\ Goto("clock", "stepped")
    /\ \/ KeepState
       \/ SetState("INTERACT")
    /\ UNCHANGED <<opt_debug, caller, backend_error, stored>>

(* Faulty variant: target_continue does not look whether the machine halted. *)
SteppedBlind ==
    /\ \/ caller = "run" /\ Goto("stepped", "run") /\ caller' = "none"
       \/ caller = "prompt" /\ Goto("stepped", "prompt") /\ caller' = "none"
       \/ caller = "step" /\ Goto("stepped", "putpkt") /\ caller' = "none"
       \/ caller = "continue" /\ Goto("stepped", "putpkt") /\ caller' = "none"
       \/ caller = "continue" /\ Goto("stepped", "cpu") /\ UNCHANGED caller
    /\ KeepState
    /\ UNCHANGED <<opt_debug, backend_error, stored>>

(* The return of step to its caller; target_continue goes on until the     *)
(* machine is halted or an exception, a breakpoint or SIGINT stops it.     *)
Stepped ==
    /\ \/ caller = "run" /\ Goto("stepped", "run") /\ caller' = "none"
       \/ caller = "prompt" /\ Goto("stepped", "prompt") /\ caller' = "none"
       \/ caller = "step" /\ Goto("stepped", "putpkt") /\ caller' = "none"
       \/ caller = "continue" /\ Goto("stepped", "putpkt") /\ caller' = "none"
       \/ /\ caller = "continue" /\ state # "HALT"
          /\ Goto("stepped", "cpu") /\ UNCHANGED caller
    /\ KeepState
    /\ UNCHANGED <<opt_debug, backend_error, stored>>

-----------------------------------------------------------------------------
(* Debug::serverloop and Debug::targetloop *)

DebugTest ==
    /\ \/ state = "DEBUG" /\ Goto("debug", "server")
       \/ state # "DEBUG" /\ Goto("debug", "outer")
    /\ KeepState
    /\ UNCHANGED <<opt_debug, caller, backend_error, stored>>

ServerTest ==
    /\ \/ state # "HALT" /\ Goto("server", "accept")
       \/ state = "HALT" /\ Goto("server", "debug")
    /\ KeepState
    /\ UNCHANGED <<opt_debug, caller, backend_error, stored>>

Accept ==
    /\ \/ Goto("accept", "target") /\ KeepState
       \/ Goto("accept", "debug") /\ (KeepState \/ SetState("HALT"))
    /\ UNCHANGED <<opt_debug, caller, backend_error, stored>>

TargetTest ==
    /\ \/ state # "HALT" /\ Goto("target", "getpkt")
       \/ state = "HALT" /\ Goto("target", "session_end")
    /\ KeepState
    /\ UNCHANGED <<opt_debug, caller, backend_error, stored>>

(* readchar fails, a write fails or the connection has ended: getpkt and    *)
(* putpkt go on until they see the end of a packet or of the connection.    *)
CommunicationError ==
    /\ pc \in {"getpkt", "putpkt"}
    /\ backend_error' = TRUE
    /\ KeepState
    /\ UNCHANGED <<opt_debug, pc, caller, stored>>

(* getpkt, and the packet's handler as far as it concerns the machine;      *)
(* single_step returns at once when a breakpoint or SIGINT is due.          *)
GetPacket ==
    /\ \/ /\ backend_error /\ Goto("getpkt", "session_end")
          /\ KeepState /\ UNCHANGED caller
       \/ /\ ~backend_error
          /\ \/ Goto("getpkt", "putpkt") /\ SetState("HALT") /\ UNCHANGED caller  \* k
             \/ Goto("getpkt", "putpkt") /\ KeepState /\ UNCHANGED caller
             \/ Goto("getpkt", "cpu") /\ caller' \in {"continue", "step"} /\ KeepState
    /\ UNCHANGED <<opt_debug, backend_error, stored>>

PutPacket ==
    /\ \/ ~backend_error /\ Goto("putpkt", "target")
       \/ backend_error /\ Goto("putpkt", "session_end")
    /\ KeepState
    /\ UNCHANGED <<opt_debug, caller, backend_error, stored>>

(* Faulty variant: the end of a session does not halt the machine. *)
SessionEndGoesOn ==
    /\ Goto("session_end", "server")
    /\ backend_error' = FALSE
    /\ KeepState
    /\ UNCHANGED <<opt_debug, caller, stored>>

SessionEnd ==
    /\ Goto("session_end", "server")
    /\ backend_error' = FALSE
    /\ IF backend_error THEN SetState("HALT") ELSE KeepState
    /\ UNCHANGED <<opt_debug, caller, stored>>

-----------------------------------------------------------------------------
(* vmips::interact and SimpleInteractor::interact *)

InteractTest ==
    /\ \/ state = "INTERACT" /\ Goto("interact", "prompt")
       \/ state # "INTERACT" /\ Goto("interact", "outer")
    /\ KeepState
    /\ UNCHANGED <<opt_debug, caller, backend_error, stored>>

(* Faulty variant: step does not come back to the prompt. *)
CommandStepAway ==
    /\ \/ Goto("prompt", "resume") /\ SetState("RUN") /\ UNCHANGED caller
       \/ Goto("prompt", "resume") /\ SetState("HALT") /\ UNCHANGED caller
       \/ Goto("prompt", "resume") /\ KeepState /\ UNCHANGED caller
       \/ Goto("prompt", "cpu") /\ KeepState /\ UNCHANGED caller
    /\ UNCHANGED <<opt_debug, backend_error, stored>>

(* A command, or the end of the input. *)
Command ==
    /\ \/ Goto("prompt", "resume") /\ SetState("RUN") /\ UNCHANGED caller    \* go
       \/ Goto("prompt", "resume") /\ SetState("HALT") /\ UNCHANGED caller   \* halt
       \/ Goto("prompt", "resume") /\ KeepState /\ UNCHANGED caller          \* EOF
       \/ Goto("prompt", "cpu") /\ KeepState /\ caller' = "prompt"           \* step
    /\ UNCHANGED <<opt_debug, backend_error, stored>>

(* if (state == INTERACT) ... *)
Resume ==
    /\ \/ state = "INTERACT" /\ Goto("resume", "set_run")
       \/ state # "INTERACT" /\ Goto("resume", "reinitialize")
    /\ KeepState
    /\ UNCHANGED <<opt_debug, caller, backend_error, stored>>

(* ... state = RUN *)
SetRun ==
    /\ Goto("set_run", "reinitialize")
    /\ SetState("RUN")
    /\ UNCHANGED <<opt_debug, caller, backend_error, stored>>

ReinitializeTerminals ==
    /\ Goto("reinitialize", "interact")
    /\ KeepState
    /\ UNCHANGED <<opt_debug, caller, backend_error, stored>>

-----------------------------------------------------------------------------
(* What the program does by itself, and what waits for the user or for GDB. *)
Control ==
    \/ Setup \/ SetupExe \/ Outer \/ RunTest \/ CpuStep \/ ClockStep \/ Stepped
    \/ DebugTest \/ ServerTest \/ TargetTest \/ SessionEnd
    \/ InteractTest \/ Resume \/ SetRun \/ ReinitializeTerminals

Next ==
    \/ Control \/ Accept \/ CommunicationError \/ GetPacket \/ PutPacket
    \/ Command \/ Sigquit

Spec == Init /\ [][Next]_vars

(* The program runs on where it does not wait for a command, a connection, *)
(* a packet or its acknowledgement: nothing is assumed of the user, of GDB *)
(* or of signals.                                                          *)
FairSpec == Spec /\ WF_vars(Control)

-----------------------------------------------------------------------------
TypeOK ==
    /\ opt_debug \in BOOLEAN
    /\ state \in {"HALT", "RUN", "DEBUG", "INTERACT"}
    /\ pc \in Locations
    /\ caller \in {"none", "run", "prompt", "continue", "step"}
    /\ caller = "none" <=> pc \notin {"cpu", "clock", "stepped"}
    /\ backend_error \in BOOLEAN
    /\ late \in 0..MaxSteps
    /\ stored \in BOOLEAN

(* An instruction that began after the halt: the loops that may still be on  *)
(* their way out.                                                            *)
OnTheWayOut == {"clock", "stepped", "run", "outer", "putpkt", "target",
                "session_end", "server", "debug", "exit"}

(* While a debugger session lasts the state may be INTERACT, and a session   *)
(* that ends in that state ended because of an error.                        *)
InSession == {"cpu", "clock", "stepped", "putpkt", "target", "getpkt", "session_end"}

(* The inductive invariant behind the next two.                              *)
IInv ==
    /\ TypeOK
    /\ late <= 1
    /\ late = 1 => state = "HALT" /\ pc \in OnTheWayOut /\ caller # "prompt"
    /\ opt_debug =>
         /\ caller \notin {"run", "prompt"}
         /\ pc \notin {"run", "interact", "prompt", "resume", "set_run", "reinitialize"}
         /\ state # "RUN"
         /\ state = "INTERACT" => pc \in InSession
         /\ state = "INTERACT" /\ pc = "session_end" => backend_error

(* However the halt came about, and whichever loop was running, at most one  *)
(* more guest instruction begins before the program leaves or the halt is    *)
(* taken back: each loop looks at state again.                               *)
StopsWithinOneInstruction == late <= 1

(* With the option debug the guest runs only at GDB's command: neither the   *)
(* attention key, which sets the state the inspector waits for, nor a lost   *)
(* connection lets the run loop or the inspector take over.                  *)
DebuggerOwnsMachine ==
    opt_debug => /\ caller \notin {"run", "prompt"}
                 /\ pc \notin {"run", "interact", "prompt"}

(* Control can take a step at every place but those where it waits.  It      *)
(* holds by the case distinctions of the steps; the proofs of liveness take  *)
(* it as a hypothesis, because they do not expand ENABLED.                   *)
StopsOnlyToWait == pc \notin Waiting \cup {"exit"} => ENABLED <<Control>>_vars

(* A halted machine exits, unless the halt is taken back or the program is   *)
(* waiting for the user or GDB.                                              *)
HaltedMachineExits ==
    state = "HALT" ~> pc = "exit" \/ pc \in Waiting \/ state # "HALT"

(* "When the debugger disconnects or detaches from VMIPS, the system will    *)
(* halt and VMIPS will exit" (vmips.texi:805).  Whatever the state of the    *)
(* machine was when the connection failed, the program ends once getpkt or   *)
(* putpkt has noticed, without another session.                              *)
DisconnectEndsProgram == pc = "session_end" /\ backend_error ~> pc = "exit"

(* "You can enter the interactive inspector at any time while the simulation *)
(* is running" (vmips.texi): the attention key, read while the run loop      *)
(* steps, brings the prompt, or the program halts first.                     *)
AttentionBringsPrompt ==
    state = "INTERACT" /\ caller = "run" ~> pc = "prompt" \/ state = "HALT"

(* "Writing a non-zero value to the halt device control word halts the       *)
(* simulation" (vmips.texi:1167).                                            *)
HaltDeviceHalts == stored => state = "HALT"
=============================================================================
