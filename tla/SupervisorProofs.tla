-------------------------- MODULE SupervisorProofs --------------------------
(***************************************************************************)
(* Safety of the supervisor for every value of its constants.              *)
(*                                                                         *)
(* Type correctness first; then the inductive invariant Inv, whose parts   *)
(* say in which phase of a run each shared flag may have which value; the  *)
(* invariants of module Supervisor follow from it.  The two about failures *)
(* and exits need a second one, Kept, which holds on top of Inv.           *)
(***************************************************************************)
EXTENDS Supervisor, TLAPS

-----------------------------------------------------------------------------
(* Type correctness. *)

LEMMA TruthValues == \A v : v = FALSE \/ v = TRUE => v \in BOOLEAN
BY Zenon

LEMMA GenerationsWrap ==
    ASSUME NEW g \in 0..(Generations - 1)
    PROVE  (g + 1) % Generations \in 0..(Generations - 1)
BY ConstantsAssumption, SMT DEF ConstantsAssumption

LEMMA NextStateType ==
    ASSUME NEW state \in IdleState, NEW st, NEW over \in BOOLEAN
    PROVE  NextState(state, st, over) \in IdleState
BY DEF NextState, IdleState, IsPresentOrUnknown

(***************************************************************************)
(* The initial values and every step of every thread stay within TypeOK:   *)
(* the worker never reaches an undefined step, the counters their bounds.  *)
(***************************************************************************)
THEOREM TypeCorrect == Spec => []TypeOK
<1>1. Init => TypeOK
  <2>1. 0 \in 0..(Generations - 1) /\ 0 \in 0..MaxBurst /\ 0 \in 0..MaxUnplugs
          /\ 0 \in 0..MaxFaults
    BY ConstantsAssumption DEF ConstantsAssumption
  <2> SUFFICES ASSUME Init PROVE TypeOK
    OBVIOUS
  <2>2. cfg \in Config /\ device \in {"present", "absent"}
    BY ConstantsAssumption DEF Init, ConstantsAssumption
  <2>3. {generation, entryGen, snapGen, firstGen} \subseteq 0..(Generations - 1)
    BY <2>1 DEF Init
  <2> HIDE DEF Config
  <2>4. sm \in IdleState /\ status \in ConsumerStatus /\ reload \in ReloadPhase /\ pc \in PCs
    BY DEF Init, IdleState, ConsumerStatus, ReloadPhase, PCs, Between
  <2> QED BY <2>1, <2>2, <2>3, <2>4 DEF Init, TypeOK
<1>2. TypeOK /\ [Next]_vars => TypeOK'
  <2> SUFFICES ASSUME TypeOK, [Next]_vars PROVE TypeOK'
    OBVIOUS
  <2> USE TruthValues DEF TypeOK, vars, procVars, runVars, signalVars, idleVars, camVars, outVars,
              leakVars, boundVars, quiet, Goto
  <2>0. /\ MaxBurst \in Nat /\ MaxUnplugs \in Nat /\ MaxFaults \in Nat
        /\ 0 \in 0..(Generations - 1)
    BY ConstantsAssumption DEF ConstantsAssumption
  <2>1. CASE AutoTop
    BY <2>1 DEF AutoTop, ReturnFromRun, PCs, Between, Acquire
  <2>2. CASE AutoWait
    BY <2>2 DEF AutoWait, ReturnFromRun, PCs, Between
  <2>3. CASE StartOutput
    BY <2>3, <2>0 DEF StartOutput, ReturnFromRun, PCs, Between, Acquire, Fault
  <2>4. CASE AcquireTop
    BY <2>4 DEF AcquireTop, ReturnFromRun, PCs, Between, Acquire, GiveUpAcquire
  <2>5. CASE AcquireTry
    BY <2>5, <2>0 DEF AcquireTry, ReturnFromRun, PCs, Between, Acquire,
         GiveUpAcquire, Fault, AcquireOk, AcquireContended, AcquireFails
  <2>6. CASE AcquireWait
    BY <2>6, <2>0 DEF AcquireWait, ReturnFromRun, PCs, Between, Acquire,
         GiveUpAcquire, Fault
  <2>7. CASE RegisterToken
    BY <2>7 DEF RegisterToken, PCs, Setup
  <2>8. CASE SpawnListener
    BY <2>8 DEF SpawnListener, PCs, Setup
  <2>9. CASE Arm
    BY <2>9 DEF Arm, PCs, Setup, IdleState, ConsumerStatus, Supervised, Config
  <2>10. CASE EnterLoop
    BY <2>10 DEF EnterLoop, PCs, Loop
  <2>11. CASE LoopTop
    BY <2>11 DEF LoopTop, PCs, Loop
  <2>12. CASE ReapReload
    BY <2>12, GenerationsWrap DEF ReapReload, PCs, Loop, NextGeneration,
         ReloadPhase, ReloadSteps
  <2>13. CASE TickMachine
    BY <2>13, NextStateType DEF TickMachine, PCs, Loop, ResumeActive, GraceAfter,
         ReloadPhase, ReloadSteps
  <2>14. CASE EnterIdleNull
    BY <2>14, <2>0 DEF EnterIdleNull, PCs, Loop, PipelineToNull
  <2>15. CASE EnterIdleClear
    BY <2>15 DEF EnterIdleClear, PCs, Loop
  <2>16. CASE Gate
    BY <2>16, <2>0 DEF Gate, PCs, Loop, Fault
  <2>17. CASE Park
    BY <2>17 DEF Park, PCs, Loop
  <2>18. CASE ProcessFrame
    BY <2>18, <2>0 DEF ProcessFrame, PCs, Loop, Fault
  <2>19. CASE LoopExit
    BY <2>19 DEF LoopExit, PCs, JoinReload, ReloadPhase
  <2>20. CASE Decide
    BY <2>20 DEF Decide, PCs, Closing
  <2>21. CASE RecoverJoin
    BY <2>21 DEF RecoverJoin, PCs, Recovery, JoinReload, ReloadPhase
  <2>22. CASE RecoverNull
    BY <2>22, <2>0 DEF RecoverNull, PCs, Recovery, PipelineToNull
  <2>23. CASE RecoverClear
    BY <2>23 DEF RecoverClear, PCs, Recovery
  <2>24. CASE RetryCheck
    BY <2>24 DEF RetryCheck, PCs, Recovery
  <2>25. CASE RetryReset
    BY <2>25, <2>0 DEF RetryReset, PCs, Recovery, PipelineToNull
  <2>26. CASE RetryStart
    BY <2>26, <2>0 DEF RetryStart, PCs, Recovery, Closing, StartOk, StartFails, Fault, Mishap
  <2>27. CASE RetryAdopt
    BY <2>27 DEF RetryAdopt, PCs, Recovery, GenerationOfAttempt
  <2>28. CASE RetryWait
    BY <2>28 DEF RetryWait, PCs, Recovery
  <2>29. CASE RecoverDone
    BY <2>29, <2>0 DEF RecoverDone, PCs, Loop
  <2>30. CASE StopFlag
    BY <2>30 DEF StopFlag, PCs, Closing
  <2>31. CASE StopSlot
    BY <2>31 DEF StopSlot, PCs, Closing
  <2>32. CASE StopInput
    BY <2>32, <2>0 DEF StopInput, PCs, Closing, PipelineToNull
  <2>33. CASE StopOutput
    BY <2>33 DEF StopOutput, PCs, Closing
  <2>34. CASE Verdict
    BY <2>34 DEF Verdict, PCs, Closing
  <2>35. CASE Finish
    BY <2>35, <2>0 DEF Finish, ReturnFromRun, PCs, Between, IdleState,
         ConsumerStatus, ReloadPhase
  <2>36. CASE ReloadReset
    BY <2>36, <2>0 DEF ReloadReset, PipelineToNull, ReloadPhase, ReloadSteps
  <2>37. CASE ReloadStart
    BY <2>37, <2>0 DEF ReloadStart, StartOk, StartFails, Fault, Mishap, ReloadPhase, ReloadSteps
  <2>38. CASE ReloadReady
    BY <2>38 DEF ReloadReady, ReloadPhase
  <2>39. CASE OrphanReload
    <3>1. orphans' \subseteq {"reset", "start"}
      BY <2>39 DEF OrphanReload
    <3>2. leaked' \in BOOLEAN
      BY <2>39, Zenon DEF OrphanReload
    <3> QED BY <2>39, <3>1, <3>2 DEF OrphanReload
  <2>40. CASE PopMessage
    BY <2>40 DEF PopMessage
  <2>41. CASE OnBusEvent
    BY <2>41, GenerationsWrap DEF OnBusEvent, RaiseInputFailure, LatchError,
         ClearRunning, CloseSlot, NextGeneration
  <2>42. CASE CtrlC
    BY <2>42 DEF CtrlC
  <2>43. CASE Broadcast
    BY <2>43 DEF Broadcast
  <2>44. CASE Unplug
    BY <2>44, <2>0 DEF Unplug
  <2>45. CASE Replug
    BY <2>45 DEF Replug
  <2>46. CASE OutputError
    BY <2>46, <2>0 DEF OutputError, Fault
  <2>47. CASE CameraFrame
    BY <2>47 DEF CameraFrame
  <2>48. CASE GraceElapses
    BY <2>48 DEF GraceElapses
  <2>49. CASE Detect
    BY <2>49 DEF Detect
  <2>50. CASE Exited
    BY <2>50 DEF Exited
  <2>51. CASE UNCHANGED vars
    BY <2>51, SMTT(20)
  <2> QED
    BY <2>1, <2>2, <2>3, <2>4, <2>5, <2>6, <2>7, <2>8, <2>9, <2>10, <2>11, <2>12,
       <2>13, <2>14, <2>15, <2>16, <2>17, <2>18, <2>19, <2>20, <2>21, <2>22, <2>23,
       <2>24, <2>25, <2>26, <2>27, <2>28, <2>29, <2>30, <2>31, <2>32, <2>33, <2>34,
       <2>35, <2>36, <2>37, <2>38, <2>39, <2>40, <2>41, <2>42, <2>43, <2>44, <2>45,
       <2>46, <2>47, <2>48, <2>49, <2>50, <2>51 DEF Next, Worker, Reload, Listener
<1> QED
  BY <1>1, <1>2, PTL DEF Spec

-----------------------------------------------------------------------------
(* The inductive invariant. *)

\* run_chain owns a token exactly from register_token to its return, and the
\* bus listener only lives inside that span.
RunPhase ==
    /\ registered <=> pc \notin Between \union Acquire
    /\ handling # "none" => registered

\* A run that is being closed was told to stop first, whoever closes it; and
\* no new run starts under a Ctrl-C handler that is still at work on a token.
AfterFlag == Closing \ {"stop_flag"}
StopPhase ==
    /\ handling = "closing" => ~running
    /\ ctrlc # "rest" => shutdown
    /\ ctrlc = "closing" =>
         /\ registered => ~running
         /\ pc \notin Acquire
         /\ pc = "auto_top" => cfg.auto
    /\ pc \in AfterFlag => ~running
    /\ pc = "register" => ~slotClosed

\* auto_wait is only reached under device = "auto".
AutoPhase == pc = "auto_wait" => cfg.auto

\* A reload thread exists only inside the worker loop of a run with an idle
\* runtime, and engine_ready is false for as long as it is at work.
ReloadPhases ==
    /\ Reloading => ~engineReady /\ cfg.idle
    /\ pc \in Between \union Acquire \union Setup => ~Reloading
    /\ pc \in {"tick", "machine"} => cfg.idle

\* The grace period is never over while a reload is at work, provided
\* teardown_secs is longer than a reload.
GracePhase ==
    GraceOutlastsReload => (grace \/ pc = "idle_null" => ~Reloading)

Inv == /\ RunPhase /\ StopPhase /\ AutoPhase /\ ReloadPhases /\ GracePhase
       /\ SlotOpenWhileRunning /\ RecoveryOwnsPipeline /\ NoFrameDuringReload

LEMMA InvInductive ==
    ASSUME TypeOK, Inv, [Next]_vars
    PROVE  Inv'
<1> USE DEF Inv, RunPhase, StopPhase, AutoPhase, ReloadPhases, GracePhase, AfterFlag,
            SlotOpenWhileRunning, RecoveryOwnsPipeline, NoFrameDuringReload, Reloading,
            ReloadSteps, Between, Acquire, Setup, Recovery, Closing, Goto
<1> USE DEF vars, procVars, runVars, signalVars, idleVars, camVars, outVars, leakVars,
            boundVars, quiet
<1>1. CASE AutoTop
  BY <1>1 DEF AutoTop, ReturnFromRun
<1>2. CASE AutoWait
  BY <1>2 DEF AutoWait, ReturnFromRun
<1>3. CASE StartOutput
  BY <1>3 DEF StartOutput, ReturnFromRun
<1>4. CASE AcquireTop
  BY <1>4 DEF AcquireTop, GiveUpAcquire, ReturnFromRun
<1>5. CASE AcquireTry
  BY <1>5 DEF AcquireTry, AcquireOk, AcquireContended, AcquireFails, GiveUpAcquire,
       ReturnFromRun
<1>6. CASE AcquireWait
  BY <1>6 DEF AcquireWait, GiveUpAcquire, ReturnFromRun
<1>7. CASE RegisterToken
  BY <1>7 DEF RegisterToken
<1>8. CASE SpawnListener
  BY <1>8 DEF SpawnListener
<1>9. CASE Arm
  BY <1>9 DEF Arm
<1>10. CASE EnterLoop
  BY <1>10 DEF EnterLoop
<1>11. CASE LoopTop
  BY <1>11 DEF LoopTop
<1>12. CASE ReapReload
  BY <1>12 DEF ReapReload
<1>13. CASE TickMachine
  BY <1>13 DEF TickMachine, ResumeActive, GraceAfter, NextState, Edge,
       IsPresentOrUnknown
<1>14. CASE EnterIdleNull
  BY <1>14 DEF EnterIdleNull, PipelineToNull
<1>15. CASE EnterIdleClear
  BY <1>15 DEF EnterIdleClear
<1>16. CASE Gate
  BY <1>16 DEF Gate
<1>17. CASE Park
  BY <1>17 DEF Park
<1>18. CASE ProcessFrame
  BY <1>18 DEF ProcessFrame
<1>19. CASE LoopExit
  BY <1>19 DEF LoopExit, JoinReload
<1>20. CASE Decide
  BY <1>20 DEF Decide
<1>21. CASE RecoverJoin
  BY <1>21 DEF RecoverJoin, JoinReload
<1>22. CASE RecoverNull
  BY <1>22 DEF RecoverNull, PipelineToNull
<1>23. CASE RecoverClear
  BY <1>23 DEF RecoverClear
<1>24. CASE RetryCheck
  BY <1>24 DEF RetryCheck
<1>25. CASE RetryReset
  BY <1>25 DEF RetryReset, PipelineToNull
<1>26. CASE RetryStart
  BY <1>26 DEF RetryStart
<1>27. CASE RetryAdopt
  BY <1>27 DEF RetryAdopt
<1>28. CASE RetryWait
  BY <1>28 DEF RetryWait
<1>29. CASE RecoverDone
  BY <1>29 DEF RecoverDone
<1>30. CASE StopFlag
  BY <1>30 DEF StopFlag
<1>31. CASE StopSlot
  BY <1>31 DEF StopSlot
<1>32. CASE StopInput
  BY <1>32 DEF StopInput, PipelineToNull
<1>33. CASE StopOutput
  BY <1>33 DEF StopOutput
<1>34. CASE Verdict
  BY <1>34 DEF Verdict
<1>35. CASE Finish
  BY <1>35 DEF Finish, ReturnFromRun
<1>36. CASE ReloadReset
  BY <1>36 DEF ReloadReset, PipelineToNull
<1>37. CASE ReloadStart
  BY <1>37 DEF ReloadStart
<1>38. CASE ReloadReady
  BY <1>38 DEF ReloadReady
<1>39. CASE OrphanReload
  BY <1>39 DEF OrphanReload
<1>40. CASE PopMessage
  BY <1>40 DEF PopMessage, Listening
<1>41. CASE OnBusEvent
  BY <1>41 DEF OnBusEvent, RaiseInputFailure, LatchError, ClearRunning, CloseSlot
<1>42. CASE CtrlC
  BY <1>42 DEF CtrlC
<1>43. CASE Broadcast
  BY <1>43 DEF Broadcast
<1>44. CASE Unplug
  BY <1>44 DEF Unplug
<1>45. CASE Replug
  BY <1>45 DEF Replug
<1>46. CASE OutputError
  BY <1>46 DEF OutputError
<1>47. CASE CameraFrame
  BY <1>47 DEF CameraFrame
<1>48. CASE GraceElapses
  BY <1>48 DEF GraceElapses
<1>49. CASE Detect
  BY <1>49 DEF Detect
<1>50. CASE Exited
  BY <1>50 DEF Exited
<1>51. CASE UNCHANGED vars
  BY <1>51
<1> QED
  BY <1>1, <1>2, <1>3, <1>4, <1>5, <1>6, <1>7, <1>8, <1>9, <1>10, <1>11, <1>12, <1>13,
     <1>14, <1>15, <1>16, <1>17, <1>18, <1>19, <1>20, <1>21, <1>22, <1>23, <1>24,
     <1>25, <1>26, <1>27, <1>28, <1>29, <1>30, <1>31, <1>32, <1>33, <1>34, <1>35,
     <1>36, <1>37, <1>38, <1>39, <1>40, <1>41, <1>42, <1>43, <1>44, <1>45, <1>46,
     <1>47, <1>48, <1>49, <1>50, <1>51 DEF Next, Worker, Reload, Listener

LEMMA InvInitially == Init => Inv
BY DEF Init, Inv, RunPhase, StopPhase, AutoPhase, ReloadPhases, GracePhase, AfterFlag,
       SlotOpenWhileRunning, RecoveryOwnsPipeline, NoFrameDuringReload, Reloading,
       ReloadSteps, Between, Acquire, Setup, Recovery, Closing

(***************************************************************************)
(* Inv holds in every reachable state, whatever the configurations, the    *)
(* bounds and the length of the grace period.                              *)
(***************************************************************************)
THEOREM Invariance == Spec => []Inv
<1>1. TypeOK /\ Inv /\ [Next]_vars => Inv'
  BY InvInductive
<1> QED
  BY InvInitially, <1>1, TypeCorrect, PTL DEF Spec

(***************************************************************************)
(* The slot of a run that goes on is never closed, by whichever of the     *)
(* three threads that may close it: frames are never lost silently.        *)
(***************************************************************************)
THEOREM SlotStaysOpen == Spec => []SlotOpenWhileRunning
<1>1. Inv => SlotOpenWhileRunning
  BY DEF Inv
<1> QED
  BY <1>1, Invariance, PTL

(***************************************************************************)
(* Recovery never overlaps a reload: run_process_loop's exit and           *)
(* recover_input join the reload thread before the worker touches the      *)
(* camera.                                                                 *)
(***************************************************************************)
THEOREM RecoveryAlone == Spec => []RecoveryOwnsPipeline
<1>1. Inv => RecoveryOwnsPipeline
  BY DEF Inv
<1> QED
  BY <1>1, Invariance, PTL

(***************************************************************************)
(* active_allowed keeps the worker off the slot while a reload is at work. *)
(***************************************************************************)
THEOREM NoFrameEarly == Spec => []NoFrameDuringReload
<1>1. Inv => NoFrameDuringReload
  BY DEF Inv
<1> QED
  BY <1>1, Invariance, PTL

(***************************************************************************)
(* A grace period longer than any reload is all it takes for the pipeline  *)
(* to have one owner at a time; the run with a shorter one shows that it   *)
(* is needed.                                                              *)
(***************************************************************************)
THEOREM OneOwner ==
    ASSUME GraceOutlastsReload
    PROVE  Spec => []SetStateHasOneOwner
<1>1. Inv => SetStateHasOneOwner
  BY GraceOutlastsReload
  DEF Inv, GracePhase, RecoveryOwnsPipeline, SetStateHasOneOwner, Reloading, ReloadSteps
<1> QED
  BY <1>1, Invariance, PTL

-----------------------------------------------------------------------------
(***************************************************************************)
(* Failures and exits.  Both properties rest on the failure generation     *)
(* telling a new failure from an old one, so they need a counter that does *)
(* not wrap.  The program's has 64 bits and counts the failures of one     *)
(* run; with a counter small enough to wrap, TLC finds both of them        *)
(* violated.  CounterHasRoom is that assumption on a behaviour.            *)
(***************************************************************************)
CounterHasRoom == generation < Generations - 1

\* A generation that was read is never ahead of the counter: the entry of the
\* loop, the snapshot of an attempt, and neither before the loop was entered.
GenerationOrder ==
    /\ entryGen <= generation
    /\ pc \in {"rec_reset", "rec_start", "rec_adopt"} =>
           entryGen <= snapGen /\ snapGen <= generation
    /\ pc \in Between \union Acquire \union Setup => entryGen = 0 /\ firstGen = 0

\* Between the two ends of an attempt the camera is down, and a camera that
\* died before the run was registered has its message waiting.
CameraPhase ==
    /\ pc \in {"rec_clear", "rec_check", "rec_reset", "rec_start", "rec_wait"}
           => input \notin {"playing", "dead"}
    /\ pc = "register" /\ input = "dead" => inBus > 0
    /\ armed => pc \notin Between \union Acquire \union {"listen", "arm"}

\* What a death is noticed by: after a winning attempt the counter is compared
\* with the snapshot the worker is about to adopt.
Noticed ==
    \/ inBus > 0
    \/ handling \in {"input", "stopping"}
    \/ IF pc = "rec_adopt" THEN snapGen < generation ELSE entryGen < generation

DeathSeen ==
    firstGen = 0 /\ input = "dead" /\ registered /\ running
        /\ (armed \/ pc \in {"listen", "arm"}) => Noticed

\* Whatever clears the flag of a run has left its reason first, and a worker
\* that leaves its loop has one, or an error, or a failure to recover from.
Asked == shutdown \/ eos
ReasonToStop ==
    /\ handling \in {"stopping", "closing"} => Asked \/ busError \/ pc = "finish"
    /\ registered /\ ~running => Asked \/ busError \/ pc \in AfterFlag
    /\ pc \in {"loop_exit", "decide"} => result = "error" \/ ~running \/ entryGen < generation
    /\ pc \in Closing \ {"finish"} => result = "error" \/ Asked \/ busError
    /\ pc \in {"finish", "exited"} /\ result = "ok" => Asked

Kept == GenerationOrder /\ CameraPhase /\ DeathSeen /\ ReasonToStop

LEMMA NoWrap ==
    ASSUME TypeOK, CounterHasRoom
    PROVE  NextGeneration = generation + 1 /\ generation + 1 > generation
<1>1. generation \in Nat /\ generation + 1 < Generations /\ Generations \in Nat
  BY ConstantsAssumption DEF TypeOK, CounterHasRoom, ConstantsAssumption
<1> QED BY <1>1 DEF NextGeneration

LEMMA DeathsKept ==
    ASSUME TypeOK, Inv, CounterHasRoom, Kept, [Next]_vars
    PROVE  (GenerationOrder /\ CameraPhase /\ DeathSeen)'
<1> USE DEF Kept, GenerationOrder, CameraPhase, DeathSeen, Noticed, Between, Acquire,
            Setup, Goto
<1> USE DEF vars, procVars, runVars, signalVars, idleVars, camVars, outVars, leakVars,
            boundVars, quiet
<1>0. {generation, entryGen, snapGen, firstGen} \subseteq Nat /\ inBus \in Nat
  BY ConstantsAssumption DEF TypeOK, ConstantsAssumption
<1>a. /\ registered <=> pc \notin Between \union Acquire
      /\ handling # "none" => registered
      /\ handling = "closing" => ~running
      /\ pc \in Recovery => ~Reloading
  BY DEF Inv, RunPhase, StopPhase, RecoveryOwnsPipeline
<1>1. CASE AutoTop
  BY <1>1, <1>0, <1>a DEF AutoTop, ReturnFromRun
<1>2. CASE AutoWait
  BY <1>2, <1>0, <1>a DEF AutoWait, ReturnFromRun
<1>3. CASE StartOutput
  BY <1>3, <1>0, <1>a DEF StartOutput, ReturnFromRun
<1>4. CASE AcquireTop
  BY <1>4, <1>0, <1>a DEF AcquireTop, GiveUpAcquire, ReturnFromRun
<1>5. CASE AcquireTry
  BY <1>5, <1>0, <1>a
  DEF AcquireTry, AcquireOk, AcquireContended, AcquireFails, GiveUpAcquire,
       ReturnFromRun
<1>6. CASE AcquireWait
  BY <1>6, <1>0, <1>a DEF AcquireWait, GiveUpAcquire, ReturnFromRun
<1>7. CASE RegisterToken
  BY <1>7, <1>0, <1>a DEF RegisterToken
<1>8. CASE SpawnListener
  BY <1>8, <1>0, <1>a DEF SpawnListener
<1>9. CASE Arm
  BY <1>9, <1>0, <1>a DEF Arm
<1>10. CASE EnterLoop
  BY <1>10, <1>0, <1>a DEF EnterLoop
<1>11. CASE LoopTop
  BY <1>11, <1>0, <1>a DEF LoopTop, KeepsLooping, Tripped
<1>12. CASE ReapReload
  BY <1>12, <1>0, <1>a, NoWrap DEF ReapReload, HandlesInput
<1>13. CASE TickMachine
  BY <1>13, <1>0, <1>a DEF TickMachine, ResumeActive
<1>14. CASE EnterIdleNull
  BY <1>14, <1>0, <1>a DEF EnterIdleNull, PipelineToNull
<1>15. CASE EnterIdleClear
  BY <1>15, <1>0, <1>a DEF EnterIdleClear
<1>16. CASE Gate
  BY <1>16, <1>0, <1>a DEF Gate
<1>17. CASE Park
  BY <1>17, <1>0, <1>a DEF Park
<1>18. CASE ProcessFrame
  BY <1>18, <1>0, <1>a DEF ProcessFrame
<1>19. CASE LoopExit
  BY <1>19, <1>0, <1>a DEF LoopExit, JoinReload
<1>20. CASE Decide
  BY <1>20, <1>0, <1>a DEF Decide, NextAction, Tripped
<1>21. CASE RecoverJoin
  BY <1>21, <1>0, <1>a DEF RecoverJoin, JoinReload
<1>22. CASE RecoverNull
  BY <1>22, <1>0, <1>a DEF RecoverNull, PipelineToNull
<1>23. CASE RecoverClear
  BY <1>23, <1>0, <1>a DEF RecoverClear
<1>24. CASE RetryCheck
  BY <1>24, <1>0, <1>a DEF RetryCheck
<1>25. CASE RetryReset
  BY <1>25, <1>0, <1>a DEF RetryReset, PipelineToNull
<1>26. CASE RetryStart
  BY <1>26, <1>0, <1>a DEF RetryStart, StartOk, StartFails
<1>27. CASE RetryAdopt
  BY <1>27, <1>0, <1>a DEF RetryAdopt, GenerationOfAttempt
<1>28. CASE RetryWait
  BY <1>28, <1>0, <1>a DEF RetryWait
<1>29. CASE RecoverDone
  BY <1>29, <1>0, <1>a DEF RecoverDone
<1>30. CASE StopFlag
  BY <1>30, <1>0, <1>a DEF StopFlag
<1>31. CASE StopSlot
  BY <1>31, <1>0, <1>a DEF StopSlot
<1>32. CASE StopInput
  BY <1>32, <1>0, <1>a DEF StopInput, PipelineToNull
<1>33. CASE StopOutput
  BY <1>33, <1>0, <1>a DEF StopOutput
<1>34. CASE Verdict
  BY <1>34, <1>0, <1>a DEF Verdict
<1>35. CASE Finish
  BY <1>35, <1>0, <1>a DEF Finish, ReturnFromRun
<1>36. CASE ReloadReset
  BY <1>36, <1>0, <1>a
  DEF ReloadReset, PipelineToNull, Reloading, ReloadSteps, Recovery
<1>37. CASE ReloadStart
  BY <1>37, <1>0, <1>a
  DEF ReloadStart, StartOk, StartFails, Reloading, ReloadSteps, Recovery
<1>38. CASE ReloadReady
  BY <1>38, <1>0, <1>a DEF ReloadReady
<1>39. CASE OrphanReload
  BY <1>39, <1>0, <1>a DEF OrphanReload
<1>40. CASE PopMessage
  BY <1>40, <1>0, <1>a DEF PopMessage, Listening
<1>41. CASE OnBusEvent
  BY <1>41, <1>0, <1>a, NoWrap
  DEF OnBusEvent, RaiseInputFailure, LatchError, ClearRunning, CloseSlot, HandlesInput
<1>42. CASE CtrlC
  BY <1>42, <1>0, <1>a DEF CtrlC
<1>43. CASE Broadcast
  BY <1>43, <1>0, <1>a DEF Broadcast
<1>44. CASE Unplug
  BY <1>44, <1>0, <1>a DEF Unplug
<1>45. CASE Replug
  BY <1>45, <1>0, <1>a DEF Replug
<1>46. CASE OutputError
  BY <1>46, <1>0, <1>a DEF OutputError
<1>47. CASE CameraFrame
  BY <1>47, <1>0, <1>a DEF CameraFrame
<1>48. CASE GraceElapses
  BY <1>48, <1>0, <1>a DEF GraceElapses
<1>49. CASE Detect
  BY <1>49, <1>0, <1>a DEF Detect
<1>50. CASE Exited
  BY <1>50, <1>0, <1>a DEF Exited
<1>51. CASE UNCHANGED vars
  BY <1>51, <1>0, <1>a
<1> QED
  BY <1>1, <1>2, <1>3, <1>4, <1>5, <1>6, <1>7, <1>8, <1>9, <1>10, <1>11, <1>12,
     <1>13, <1>14, <1>15, <1>16, <1>17, <1>18, <1>19, <1>20, <1>21, <1>22, <1>23,
     <1>24, <1>25, <1>26, <1>27, <1>28, <1>29, <1>30, <1>31, <1>32, <1>33, <1>34,
     <1>35, <1>36, <1>37, <1>38, <1>39, <1>40, <1>41, <1>42, <1>43, <1>44, <1>45,
     <1>46, <1>47, <1>48, <1>49, <1>50, <1>51 DEF Next, Worker, Reload, Listener

LEMMA ReasonsKept ==
    ASSUME TypeOK, Inv, CounterHasRoom, Kept, [Next]_vars
    PROVE  ReasonToStop'
<1> USE DEF Kept, ReasonToStop, Asked, Between, Acquire, Setup, AfterFlag, Closing, Goto
<1> USE DEF vars, procVars, runVars, signalVars, idleVars, camVars, outVars, leakVars,
            boundVars, quiet
<1>0. {generation, entryGen} \subseteq Nat
  BY ConstantsAssumption DEF TypeOK, ConstantsAssumption
<1>a. /\ registered <=> pc \notin Between \union Acquire
      /\ handling # "none" => registered
      /\ ctrlc # "rest" => shutdown
      /\ entryGen <= generation
  BY DEF Inv, RunPhase, StopPhase, GenerationOrder
<1>1. CASE AutoTop
  BY <1>1, <1>0, <1>a DEF AutoTop, ReturnFromRun
<1>2. CASE AutoWait
  BY <1>2, <1>0, <1>a DEF AutoWait, ReturnFromRun
<1>3. CASE StartOutput
  BY <1>3, <1>0, <1>a DEF StartOutput, ReturnFromRun
<1>4. CASE AcquireTop
  BY <1>4, <1>0, <1>a DEF AcquireTop, GiveUpAcquire, ReturnFromRun
<1>5. CASE AcquireTry
  BY <1>5, <1>0, <1>a
  DEF AcquireTry, AcquireOk, AcquireContended, AcquireFails, GiveUpAcquire,
       ReturnFromRun
<1>6. CASE AcquireWait
  BY <1>6, <1>0, <1>a DEF AcquireWait, GiveUpAcquire, ReturnFromRun
<1>7. CASE RegisterToken
  BY <1>7, <1>0, <1>a DEF RegisterToken
<1>8. CASE SpawnListener
  BY <1>8, <1>0, <1>a DEF SpawnListener
<1>9. CASE Arm
  BY <1>9, <1>0, <1>a DEF Arm
<1>10. CASE EnterLoop
  BY <1>10, <1>0, <1>a DEF EnterLoop
<1>11. CASE LoopTop
  BY <1>11, <1>0, <1>a DEF LoopTop, KeepsLooping, Tripped
<1>12. CASE ReapReload
  BY <1>12, <1>0, <1>a, NoWrap DEF ReapReload, HandlesInput
<1>13. CASE TickMachine
  BY <1>13, <1>0, <1>a DEF TickMachine, ResumeActive
<1>14. CASE EnterIdleNull
  BY <1>14, <1>0, <1>a DEF EnterIdleNull
<1>15. CASE EnterIdleClear
  BY <1>15, <1>0, <1>a DEF EnterIdleClear
<1>16. CASE Gate
  BY <1>16, <1>0, <1>a DEF Gate
<1>17. CASE Park
  BY <1>17, <1>0, <1>a DEF Park
<1>18. CASE ProcessFrame
  BY <1>18, <1>0, <1>a DEF ProcessFrame
<1>19. CASE LoopExit
  BY <1>19, <1>0, <1>a DEF LoopExit, JoinReload
<1>20. CASE Decide
  BY <1>20, <1>0, <1>a DEF Decide, NextAction, Tripped
<1>21. CASE RecoverJoin
  BY <1>21, <1>0, <1>a DEF RecoverJoin, JoinReload
<1>22. CASE RecoverNull
  BY <1>22, <1>0, <1>a DEF RecoverNull
<1>23. CASE RecoverClear
  BY <1>23, <1>0, <1>a DEF RecoverClear
<1>24. CASE RetryCheck
  BY <1>24, <1>0, <1>a DEF RetryCheck
<1>25. CASE RetryReset
  BY <1>25, <1>0, <1>a DEF RetryReset
<1>26. CASE RetryStart
  BY <1>26, <1>0, <1>a DEF RetryStart
<1>27. CASE RetryAdopt
  BY <1>27, <1>0, <1>a DEF RetryAdopt, GenerationOfAttempt
<1>28. CASE RetryWait
  BY <1>28, <1>0, <1>a DEF RetryWait
<1>29. CASE RecoverDone
  BY <1>29, <1>0, <1>a DEF RecoverDone
<1>30. CASE StopFlag
  BY <1>30, <1>0, <1>a DEF StopFlag
<1>31. CASE StopSlot
  BY <1>31, <1>0, <1>a DEF StopSlot
<1>32. CASE StopInput
  BY <1>32, <1>0, <1>a DEF StopInput
<1>33. CASE StopOutput
  BY <1>33, <1>0, <1>a DEF StopOutput
<1>34. CASE Verdict
  BY <1>34, <1>0, <1>a DEF Verdict
<1>35. CASE Finish
  BY <1>35, <1>0, <1>a DEF Finish, ReturnFromRun
<1>36. CASE ReloadReset
  BY <1>36, <1>0, <1>a DEF ReloadReset
<1>37. CASE ReloadStart
  BY <1>37, <1>0, <1>a DEF ReloadStart
<1>38. CASE ReloadReady
  BY <1>38, <1>0, <1>a DEF ReloadReady
<1>39. CASE OrphanReload
  BY <1>39, <1>0, <1>a DEF OrphanReload
<1>40. CASE PopMessage
  BY <1>40, <1>0, <1>a DEF PopMessage, Listening
<1>41. CASE OnBusEvent
  BY <1>41, <1>0, <1>a, NoWrap
  DEF OnBusEvent, RaiseInputFailure, LatchError, ClearRunning, CloseSlot, HandlesInput
<1>42. CASE CtrlC
  BY <1>42, <1>0, <1>a DEF CtrlC
<1>43. CASE Broadcast
  BY <1>43, <1>0, <1>a DEF Broadcast
<1>44. CASE Unplug
  BY <1>44, <1>0, <1>a DEF Unplug
<1>45. CASE Replug
  BY <1>45, <1>0, <1>a DEF Replug
<1>46. CASE OutputError
  BY <1>46, <1>0, <1>a DEF OutputError
<1>47. CASE CameraFrame
  BY <1>47, <1>0, <1>a DEF CameraFrame
<1>48. CASE GraceElapses
  BY <1>48, <1>0, <1>a DEF GraceElapses
<1>49. CASE Detect
  BY <1>49, <1>0, <1>a DEF Detect
<1>50. CASE Exited
  BY <1>50, <1>0, <1>a DEF Exited
<1>51. CASE UNCHANGED vars
  BY <1>51, <1>0, <1>a
<1> QED
  BY <1>1, <1>2, <1>3, <1>4, <1>5, <1>6, <1>7, <1>8, <1>9, <1>10, <1>11, <1>12,
     <1>13, <1>14, <1>15, <1>16, <1>17, <1>18, <1>19, <1>20, <1>21, <1>22, <1>23,
     <1>24, <1>25, <1>26, <1>27, <1>28, <1>29, <1>30, <1>31, <1>32, <1>33, <1>34,
     <1>35, <1>36, <1>37, <1>38, <1>39, <1>40, <1>41, <1>42, <1>43, <1>44, <1>45,
     <1>46, <1>47, <1>48, <1>49, <1>50, <1>51 DEF Next, Worker, Reload, Listener

LEMMA KeptInitially == Init => Kept
<1> SUFFICES ASSUME Init PROVE Kept
  OBVIOUS
<1>1. GenerationOrder
  BY DEF Init, GenerationOrder
<1>2. CameraPhase /\ DeathSeen /\ ReasonToStop
  BY
  DEF Init, CameraPhase, DeathSeen, ReasonToStop, AfterFlag, Closing, Between, Acquire
<1> QED BY <1>1, <1>2 DEF Kept

(***************************************************************************)
(* Kept holds for as long as the counter has room, whatever the            *)
(* configurations and the number and order of failures.                    *)
(***************************************************************************)
THEOREM Keeping == Spec /\ []CounterHasRoom => []Kept
<1>1. TypeOK /\ Inv /\ CounterHasRoom /\ Kept /\ [Next]_vars => Kept'
  BY DeathsKept, ReasonsKept DEF Kept
<1> QED
  BY KeptInitially, <1>1, TypeCorrect, Invariance, PTL DEF Spec

(***************************************************************************)
(* No failure is swallowed by a recovery: in a run whose loop was entered  *)
(* without one, a dead camera leaves a message or a generation the worker  *)
(* has not adopted, before, during and after every attempt, because        *)
(* retry_reacquire reads the counter before the attempt and not after it.  *)
(***************************************************************************)
THEOREM FailuresAreNoticed ==
    Spec /\ []CounterHasRoom => []RecoveredFailureNotSwallowed
<1>1. TypeOK /\ Inv /\ Kept => RecoveredFailureNotSwallowed
  <2> SUFFICES ASSUME TypeOK, Kept, firstGen = 0, input = "dead", registered, running, armed,
                      ~(inBus > 0), handling \notin {"input", "stopping"}
               PROVE  Tripped
    BY DEF RecoveredFailureNotSwallowed, DeathNoticed
  <2>1. generation \in Nat /\ entryGen \in Nat /\ snapGen \in Nat
    BY ConstantsAssumption DEF TypeOK, ConstantsAssumption
  <2>2. Noticed
    BY DEF Kept, DeathSeen
  <2>3. entryGen < generation
    BY <2>1, <2>2 DEF Noticed, Kept, GenerationOrder
  <2> QED BY <2>1, <2>3 DEF Tripped
<1> QED
  BY <1>1, Keeping, TypeCorrect, Invariance, PTL

(***************************************************************************)
(* The daemon exits cleanly only when Ctrl-C or an end of stream asked it  *)
(* to: an error is latched before the flag it clears, and a worker that    *)
(* leaves its loop for a failure goes to recovery.                         *)
(***************************************************************************)
THEOREM CleanExitsWereAsked == Spec /\ []CounterHasRoom => []CleanExitWasAsked
<1>1. Kept => CleanExitWasAsked
  BY DEF Kept, ReasonToStop, Asked, CleanExitWasAsked
<1> QED
  BY <1>1, Keeping, PTL
=============================================================================
