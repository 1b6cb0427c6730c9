--------------------------- MODULE MachineProofs ----------------------------
(***************************************************************************)
(* The properties of Machine, for every bound on the history: the safety   *)
(* properties, then liveness under the fairness of the driver's own steps. *)
(***************************************************************************)
EXTENDS Machine, TLAPS

LEMMA InitIInv == Init => IInv
<1> SUFFICES ASSUME Init PROVE IInv
  OBVIOUS
<1>1. late \in 0..MaxSteps /\ late <= 1 /\ late # 1
  BY MachineAssumption DEF Init
<1>2. QED
  BY <1>1, Zenon DEF Init, IInv, TypeOK, Locations, InSession, OnTheWayOut

LEMMA NextIInv == IInv /\ [Next]_vars => IInv'
<1> SUFFICES ASSUME IInv, [Next]_vars PROVE IInv'
  OBVIOUS
<1> USE MachineAssumption DEF IInv, TypeOK, Locations, InSession, OnTheWayOut, Goto,
        SetState, KeepState
<1>1. CASE Setup
  BY <1>1 DEF Setup
<1>2. CASE SetupExe
  BY <1>2 DEF SetupExe
<1>3. CASE Outer
  BY <1>3 DEF Outer
<1>4. CASE RunTest
  BY <1>4 DEF RunTest
<1>5. CASE CpuStep
  <2>1. pc = "cpu" /\ pc' = "clock" /\ UNCHANGED <<opt_debug, caller, backend_error>>
    BY <1>5 DEF CpuStep
  <2>2. late = 0
    BY <2>1
  <2>3. state' \in {state, "HALT"}
    BY <1>5 DEF CpuStep
  <2>4. stored' \in BOOLEAN
    BY <1>5, Zenon DEF CpuStep
  <2>5. late' = IF state = "HALT" /\ caller # "prompt" THEN 1 ELSE 0
    <3>1. late < MaxSteps /\ late + 1 = 1
      BY <2>2
    <3>2. QED
      BY <1>5, <2>2, <3>1, Zenon DEF CpuStep
  <2>6. late' \in 0..MaxSteps /\ late' <= 1
    BY <2>5
  <2>7. late' = 1 => state' = "HALT" /\ caller # "prompt"
    BY <2>3, <2>5
  <2>8. QED
    BY <2>1, <2>3, <2>4, <2>6, <2>7
<1>6. CASE ClockStep
  BY <1>6 DEF ClockStep
<1>7. CASE Stepped
  BY <1>7 DEF Stepped
<1>8. CASE DebugTest \/ ServerTest \/ TargetTest
  BY <1>8 DEF DebugTest, ServerTest, TargetTest
<1>9. CASE PutPacket
  BY <1>9 DEF PutPacket
<1>10. CASE SessionEnd
  BY <1>10 DEF SessionEnd
<1>11. CASE InteractTest \/ Resume
  BY <1>11 DEF InteractTest, Resume
<1>12. CASE SetRun \/ ReinitializeTerminals
  BY <1>12 DEF SetRun, ReinitializeTerminals
<1>13. CASE Accept
  BY <1>13 DEF Accept
<1>14. CASE GetPacket
  BY <1>14 DEF GetPacket
<1>15. CASE Command
  BY <1>15 DEF Command
<1>16. CASE Sigquit
  BY <1>16 DEF Sigquit
<1>17. CASE CommunicationError
  BY <1>17 DEF CommunicationError
<1>18. CASE UNCHANGED vars
  BY <1>18 DEF vars
<1>19. QED
  BY <1>1, <1>2, <1>3, <1>4, <1>5, <1>6, <1>7, <1>8, <1>9, <1>10, <1>11, <1>12,
     <1>13, <1>14, <1>15, <1>16, <1>17, <1>18 DEF Next, Control

(* Every reachable state of the driver satisfies the invariant that ties     *)
(* state, the place in vmips::run and the history of the halt together.      *)
THEOREM IInvariant == Spec => []IInv
<1>1. QED
  BY InitIInv, NextIInv, PTL DEF Spec

(* The driver of vmips.cc keeps to its states and places.                    *)
THEOREM TypeCorrect == Spec => []TypeOK
<1>1. IInv => TypeOK
  BY DEF IInv
<1>2. QED
  BY <1>1, IInvariant, PTL

(* After a halt at most one more guest instruction begins, from whichever    *)
(* of the loops of vmips::run, debug.cc and the signal handler it came.      *)
THEOREM HaltStopsGuest == Spec => []StopsWithinOneInstruction
<1>1. IInv => StopsWithinOneInstruction
  BY DEF IInv, StopsWithinOneInstruction
<1>2. QED
  BY <1>1, IInvariant, PTL

(* With the option debug, neither the run loop nor the inspector ever runs   *)
(* the guest (vmips.cc:540-553, debug.cc).                                   *)
THEOREM DebuggerInControl == Spec => []DebuggerOwnsMachine
<1>1. IInv => DebuggerOwnsMachine
  BY DEF IInv, DebuggerOwnsMachine
<1>2. QED
  BY <1>1, IInvariant, PTL

-----------------------------------------------------------------------------
(* Liveness.  Each place of the driver has a rank, the number of steps that  *)
(* it is away from the end of the chain at most; a step of Control goes      *)
(* down, and no other step leaves the place.  That Control can take a step   *)
(* is a hypothesis (StopsOnlyToWait), because ENABLED is not expanded here.  *)

Moves == <<Control>>_vars

LEMMA OtherSteps ==
    ASSUME IInv, [Next]_vars, ~Moves, pc \notin Waiting
    PROVE  /\ UNCHANGED <<pc, caller, backend_error>>
           /\ state' \in {state, "HALT"}
<1>1. CASE UNCHANGED vars
  BY <1>1 DEF vars
<1>2. CASE Control /\ vars' = vars
  BY <1>2 DEF vars
<1>3. CASE Sigquit
  BY <1>3 DEF Sigquit, SetState
<1>4. CASE Accept \/ CommunicationError \/ GetPacket \/ PutPacket \/ Command
  BY <1>4 DEF Accept, CommunicationError, GetPacket, PutPacket, Command, Goto, Waiting
<1>5. QED
  BY <1>1, <1>2, <1>3, <1>4 DEF Next, Moves

(* What a halted machine has before it. *)
Ahead == << {"outer", "setup_exe", "set_run"}, {"setup", "run", "debug", "interact"},
            {"server", "reinitialize"}, {"session_end", "resume", "stepped"},
            {"target", "clock"}, {"cpu"} >>

HaltedAt(k) == state = "HALT" /\ pc \in Ahead[k]

Out == pc = "exit" \/ pc \in Waiting \/ state # "HALT"

LEMMA HaltedStays ==
    ASSUME IInv, [Next]_vars, ~Moves, NEW k \in 1..6, HaltedAt(k)
    PROVE  HaltedAt(k)'
<1>1. pc \notin Waiting
  BY DEF HaltedAt, Ahead, Waiting
<1>2. QED
  BY <1>1, OtherSteps DEF HaltedAt

LEMMA HaltedMoves ==
    ASSUME IInv, Moves, NEW k \in 1..6, HaltedAt(k)
    PROVE  Out' \/ \E j \in 1..6 : j < k /\ HaltedAt(j)'
<1> USE DEF HaltedAt, Out, Goto, SetState, KeepState, Waiting, Ahead
<1>1. CASE Setup
  BY <1>1 DEF Setup
<1>2. CASE SetupExe
  BY <1>2 DEF SetupExe
<1>3. CASE Outer
  BY <1>3 DEF Outer
<1>4. CASE RunTest
  BY <1>4 DEF RunTest
<1>5. CASE CpuStep
  BY <1>5 DEF CpuStep
<1>6. CASE ClockStep
  BY <1>6 DEF ClockStep
<1>7. CASE Stepped
  BY <1>7 DEF Stepped
<1>8. CASE DebugTest \/ ServerTest \/ TargetTest
  BY <1>8 DEF DebugTest, ServerTest, TargetTest
<1>9. CASE SessionEnd
  BY <1>9 DEF SessionEnd
<1>10. CASE InteractTest \/ Resume \/ SetRun \/ ReinitializeTerminals
  BY <1>10 DEF InteractTest, Resume, SetRun, ReinitializeTerminals
<1>11. QED
  BY <1>1, <1>2, <1>3, <1>4, <1>5, <1>6, <1>7, <1>8, <1>9, <1>10 DEF Moves, Control


(* A machine that halts, in whichever loop (vmips.cc:540-553, debug.cc,      *)
(* interactor.cc), has the program exit, unless the halt is taken back or    *)
(* the program waits for the user or for GDB.                                *)
THEOREM HaltedExits == FairSpec /\ []StopsOnlyToWait => HaltedMachineExits
<1>1. \A k \in 1..6 : IInv /\ HaltedAt(k) /\ [Next]_vars /\ ~Moves => HaltedAt(k)'
  BY HaltedStays
<1>2. \A k \in 1..6 : IInv /\ HaltedAt(k) /\ Moves =>
          Out' \/ \E j \in 1..6 : j < k /\ HaltedAt(j)'
  BY HaltedMoves
<1>3. \A k \in 1..6 : HaltedAt(k) => pc \notin Waiting \cup {"exit"}
  BY DEF HaltedAt, Ahead, Waiting
<1>4. IInv /\ state = "HALT" => Out \/ HaltedAt(1) \/ HaltedAt(2) \/ HaltedAt(3)
                                    \/ HaltedAt(4) \/ HaltedAt(5) \/ HaltedAt(6)
  BY DEF IInv, TypeOK, Locations, HaltedAt, Out, Ahead, Waiting
<1>5. IInv /\ HaltedAt(1) /\ Moves => Out'
  BY <1>2
<1>6. IInv /\ HaltedAt(2) /\ Moves => Out' \/ HaltedAt(1)'
  BY <1>2
<1>7. IInv /\ HaltedAt(3) /\ Moves => Out' \/ HaltedAt(1)' \/ HaltedAt(2)'
  BY <1>2
<1>8. IInv /\ HaltedAt(4) /\ Moves => Out' \/ HaltedAt(1)' \/ HaltedAt(2)' \/ HaltedAt(3)'
  BY <1>2
<1>9. IInv /\ HaltedAt(5) /\ Moves =>
          Out' \/ HaltedAt(1)' \/ HaltedAt(2)' \/ HaltedAt(3)' \/ HaltedAt(4)'
  BY <1>2
<1>10. IInv /\ HaltedAt(6) /\ Moves =>
          Out' \/ HaltedAt(1)' \/ HaltedAt(2)' \/ HaltedAt(3)' \/ HaltedAt(4)' \/ HaltedAt(5)'
  BY <1>2
<1>11. /\ IInv /\ HaltedAt(1) /\ [Next]_vars /\ ~Moves => HaltedAt(1)'
       /\ IInv /\ HaltedAt(2) /\ [Next]_vars /\ ~Moves => HaltedAt(2)'
       /\ IInv /\ HaltedAt(3) /\ [Next]_vars /\ ~Moves => HaltedAt(3)'
       /\ IInv /\ HaltedAt(4) /\ [Next]_vars /\ ~Moves => HaltedAt(4)'
       /\ IInv /\ HaltedAt(5) /\ [Next]_vars /\ ~Moves => HaltedAt(5)'
       /\ IInv /\ HaltedAt(6) /\ [Next]_vars /\ ~Moves => HaltedAt(6)'
  BY <1>1
<1>12. StopsOnlyToWait /\ (HaltedAt(1) \/ HaltedAt(2) \/ HaltedAt(3) \/ HaltedAt(4)
                               \/ HaltedAt(5) \/ HaltedAt(6)) => ENABLED <<Control>>_vars
  BY <1>3 DEF StopsOnlyToWait
<1>13. Out => pc = "exit" \/ pc \in Waiting \/ state # "HALT"
  BY DEF Out
<1>14. QED
  BY <1>4, <1>5, <1>6, <1>7, <1>8, <1>9, <1>10, <1>11, <1>12, <1>13, IInvariant, PTL
     DEF FairSpec, Spec, HaltedMachineExits, Moves

(* From the end of a session that failed to the end of the program. *)
WayOut == <<"outer", "debug", "server", "session_end">>

Lost(k) == pc = WayOut[k] /\ (IF k = 4 THEN backend_error ELSE state = "HALT")

LEMMA LostStays ==
    ASSUME IInv, [Next]_vars, ~Moves, NEW k \in 1..4, Lost(k)
    PROVE  Lost(k)'
<1>1. pc \notin Waiting
  BY DEF Lost, WayOut, Waiting
<1>2. QED
  BY <1>1, OtherSteps DEF Lost

LEMMA LostMoves ==
    ASSUME Moves, NEW k \in 1..4, Lost(k)
    PROVE  IF k = 1 THEN (pc = "exit")' ELSE Lost(k - 1)'
<1> USE DEF Lost, WayOut, Goto, SetState, KeepState
<1>1. CASE Setup \/ SetupExe \/ Outer \/ RunTest
  BY <1>1 DEF Setup, SetupExe, Outer, RunTest
<1>2. CASE DebugTest \/ ServerTest \/ TargetTest \/ SessionEnd
  BY <1>2 DEF DebugTest, ServerTest, TargetTest, SessionEnd
<1>3. CASE InteractTest \/ Resume \/ SetRun \/ ReinitializeTerminals
  BY <1>3 DEF InteractTest, Resume, SetRun, ReinitializeTerminals
<1>4. CASE CpuStep \/ ClockStep \/ Stepped
  <2>1. pc \in {"cpu", "clock", "stepped"}
    BY <1>4 DEF CpuStep, ClockStep, Stepped
  <2>2. QED
    BY <2>1
<1>5. QED
  BY <1>1, <1>2, <1>3, <1>4 DEF Moves, Control

(* A session that ends because the connection failed ends the program        *)
(* (debug.cc, Debug::targetloop), without another session.                   *)
THEOREM DisconnectExits == FairSpec /\ []StopsOnlyToWait => DisconnectEndsProgram
<1>1. /\ IInv /\ Lost(1) /\ [Next]_vars /\ ~Moves => Lost(1)'
      /\ IInv /\ Lost(2) /\ [Next]_vars /\ ~Moves => Lost(2)'
      /\ IInv /\ Lost(3) /\ [Next]_vars /\ ~Moves => Lost(3)'
      /\ IInv /\ Lost(4) /\ [Next]_vars /\ ~Moves => Lost(4)'
  BY LostStays
<1>2. /\ Lost(1) /\ Moves => (pc = "exit")'
      /\ Lost(2) /\ Moves => Lost(1)'
      /\ Lost(3) /\ Moves => Lost(2)'
      /\ Lost(4) /\ Moves => Lost(3)'
  BY LostMoves
<1>3. StopsOnlyToWait /\ (Lost(1) \/ Lost(2) \/ Lost(3) \/ Lost(4)) => ENABLED <<Control>>_vars
  BY DEF StopsOnlyToWait, Lost, WayOut, Waiting
<1>4. pc = "session_end" /\ backend_error => Lost(4)
  BY DEF Lost, WayOut
<1>5. QED
  BY <1>1, <1>2, <1>3, <1>4, IInvariant, PTL DEF FairSpec, Spec, DisconnectEndsProgram, Moves

(* From the attention key, read in a step of the run loop, to the prompt. *)
WayToPrompt == <<"interact", "outer", "run", "stepped", "clock", "cpu">>

Called(k) == state = "INTERACT" /\ pc = WayToPrompt[k] /\ (k > 3 => caller = "run")

LEMMA CalledStays ==
    ASSUME IInv, [Next]_vars, ~Moves, NEW k \in 1..6, Called(k)
    PROVE  Called(k)' \/ (state = "HALT")'
<1>1. pc \notin Waiting
  BY DEF Called, WayToPrompt, Waiting
<1>2. QED
  BY <1>1, OtherSteps DEF Called

LEMMA CalledMoves ==
    ASSUME Moves, NEW k \in 1..6, Called(k)
    PROVE  (state = "HALT")' \/ IF k = 1 THEN (pc = "prompt")' ELSE Called(k - 1)'
<1> USE DEF Called, WayToPrompt, Goto, SetState, KeepState
<1>1. CASE Setup \/ SetupExe \/ Outer \/ RunTest
  BY <1>1 DEF Setup, SetupExe, Outer, RunTest
<1>2. CASE CpuStep
  <2>1. pc = "cpu" /\ pc' = "clock" /\ caller' = caller
    BY <1>2 DEF CpuStep
  <2>2. state' \in {state, "HALT"}
    BY <1>2 DEF CpuStep
  <2>3. QED
    BY <2>1, <2>2
<1>3. CASE ClockStep \/ Stepped
  BY <1>3 DEF ClockStep, Stepped
<1>4. CASE DebugTest \/ ServerTest \/ TargetTest \/ SessionEnd
  BY <1>4 DEF DebugTest, ServerTest, TargetTest, SessionEnd
<1>5. CASE InteractTest \/ Resume \/ SetRun \/ ReinitializeTerminals
  BY <1>5 DEF InteractTest, Resume, SetRun, ReinitializeTerminals
<1>6. QED
  BY <1>1, <1>2, <1>3, <1>4, <1>5 DEF Moves, Control

(* The attention key that a poll reads while the run loop steps (vmips.cc:362) *)
(* brings the inspector's prompt, unless the machine halts first.            *)
THEOREM AttentionPrompts == FairSpec /\ []StopsOnlyToWait => AttentionBringsPrompt
<1> DEFINE Done == pc = "prompt" \/ state = "HALT"
<1>1. /\ IInv /\ Called(1) /\ [Next]_vars /\ ~Moves => Called(1)' \/ Done'
      /\ IInv /\ Called(2) /\ [Next]_vars /\ ~Moves => Called(2)' \/ Done'
      /\ IInv /\ Called(3) /\ [Next]_vars /\ ~Moves => Called(3)' \/ Done'
      /\ IInv /\ Called(4) /\ [Next]_vars /\ ~Moves => Called(4)' \/ Done'
      /\ IInv /\ Called(5) /\ [Next]_vars /\ ~Moves => Called(5)' \/ Done'
      /\ IInv /\ Called(6) /\ [Next]_vars /\ ~Moves => Called(6)' \/ Done'
  BY CalledStays
<1>2. /\ Called(1) /\ Moves => Done'
      /\ Called(2) /\ Moves => Done' \/ Called(1)'
      /\ Called(3) /\ Moves => Done' \/ Called(2)'
      /\ Called(4) /\ Moves => Done' \/ Called(3)'
      /\ Called(5) /\ Moves => Done' \/ Called(4)'
      /\ Called(6) /\ Moves => Done' \/ Called(5)'
  BY CalledMoves
<1>3. StopsOnlyToWait /\ (Called(1) \/ Called(2) \/ Called(3) \/ Called(4) \/ Called(5) \/ Called(6))
        => ENABLED <<Control>>_vars
  BY DEF StopsOnlyToWait, Called, WayToPrompt, Waiting
<1>4. IInv /\ state = "INTERACT" /\ caller = "run" => Called(4) \/ Called(5) \/ Called(6)
  BY DEF IInv, TypeOK, Called, WayToPrompt
<1>5. QED
  BY <1>1, <1>2, <1>3, <1>4, IInvariant, PTL DEF FairSpec, Spec, AttentionBringsPrompt, Moves

=============================================================================
