---------------------------- MODULE PreviewProofs ----------------------------
(***************************************************************************)
(* Safety of the preview's restart workers, for any number of workers,     *)
(* signals and troubles.                                                   *)
(*                                                                         *)
(* The inductive invariant says more than OneWorkerDrives: the flag is     *)
(* raised exactly while a worker drives the pipeline.  Without the other   *)
(* direction nothing would keep a second worker out, and a flag left over  *)
(* by a worker that has gone would keep every later one out.               *)
(***************************************************************************)
EXTENDS Preview, FiniteSetTheorems, TLAPS

Steps == {"off", "target", "reset", "play", "release", "compare", "retake"}

\* The steps between taking restart_in_flight and letting go of it.
DrivingSteps == {"target", "reset", "play", "release"}

Driving(w) == worker[w].at \in DrivingSteps

Types ==
    /\ widget \in {"none", "inert", "live", "dropped"}
    /\ window \in [mapped : BOOLEAN, suspended : BOOLEAN, followed : BOOLEAN]
    /\ running \in BOOLEAN
    /\ flags \in [needs_restart : BOOLEAN, restart_in_flight : BOOLEAN,
                  shutting_down : BOOLEAN, active : BOOLEAN]
    /\ worker \in [Workers -> [at : Steps, target : {"Null", "Playing"}]]
    /\ gtk \in {"idle", "start", "stop", "clear", "retry", "shutdown", "null", "gone"}

\* The flag is raised while somebody drives, and only then.
FlagHasItsWorker == flags.restart_in_flight <=> \E w \in Workers : Driving(w)

AtMostOneDrives == \A v, w \in Workers : Driving(v) /\ Driving(w) => v = w

Inv == Types /\ FlagHasItsWorker /\ AtMostOneDrives

-----------------------------------------------------------------------------

LEMMA TruthValues == \A v : v = FALSE \/ v = TRUE => v \in BOOLEAN
BY Zenon

(***************************************************************************)
(* What the callbacks of the main thread do to the flags and the workers:  *)
(* restart_in_flight stays as it is, or a worker that was off takes it.    *)
(***************************************************************************)
LEMMA SpawnTakesFlag ==
    ASSUME Inv, NEW f \in [needs_restart : BOOLEAN, restart_in_flight : BOOLEAN,
                           shutting_down : BOOLEAN, active : BOOLEAN],
           f.restart_in_flight = flags.restart_in_flight, Spawn(f)
    PROVE  /\ flags' \in [needs_restart : BOOLEAN, restart_in_flight : BOOLEAN,
                          shutting_down : BOOLEAN, active : BOOLEAN]
           /\ worker' \in [Workers -> [at : Steps, target : {"Null", "Playing"}]]
           /\ FlagHasItsWorker' /\ AtMostOneDrives'
<1> USE DEF Inv, Types, FlagHasItsWorker, AtMostOneDrives, Driving, Steps, DrivingSteps
<1>1. CASE f.restart_in_flight
  BY <1>1 DEF Spawn
<1>2. CASE ~f.restart_in_flight
  <2> PICK w \in Workers :
        /\ worker' = [worker EXCEPT ![w] = [at |-> "target", target |-> "Null"]]
        /\ flags' = [f EXCEPT !.restart_in_flight = TRUE]
    BY <1>2 DEF Spawn
  <2>1. \A v \in Workers : ~(worker[v].at \in DrivingSteps)
    BY <1>2
  <2>2. \A v \in Workers : worker'[v] = IF v = w THEN [at |-> "target", target |-> "Null"] ELSE worker[v]
    OBVIOUS
  <2>3. flags'.restart_in_flight = TRUE
    OBVIOUS
  <2> QED BY <2>1, <2>2, <2>3, TruthValues
<1> QED BY <1>1, <1>2

LEMMA InvFirst == Init => Inv
BY TruthValues DEF Init, Off, Inv, Types, FlagHasItsWorker, AtMostOneDrives, Driving, Steps, DrivingSteps

\* A step of worker w that moves it from one place to another, and the flag
\* with it.
LEMMA WorkerMoves ==
    ASSUME Inv, NEW w \in Workers, NEW to \in [at : Steps, target : {"Null", "Playing"}],
           worker' = [worker EXCEPT ![w] = to],
           \/ flags' = flags /\ (Driving(w) <=> to.at \in DrivingSteps)
           \/ /\ flags' = [flags EXCEPT !.restart_in_flight = FALSE]
              /\ Driving(w) /\ to.at \notin DrivingSteps
           \/ /\ flags' = [flags EXCEPT !.restart_in_flight = TRUE]
              /\ ~Driving(w) /\ (to.at \in DrivingSteps <=> ~flags.restart_in_flight)
    PROVE  /\ flags' \in [needs_restart : BOOLEAN, restart_in_flight : BOOLEAN,
                          shutting_down : BOOLEAN, active : BOOLEAN]
           /\ worker' \in [Workers -> [at : Steps, target : {"Null", "Playing"}]]
           /\ FlagHasItsWorker' /\ AtMostOneDrives'
<1> USE DEF Inv, Types, FlagHasItsWorker, AtMostOneDrives, Driving
<1>1. /\ worker'[w] = to
      /\ \A v \in Workers : v # w => worker'[v] = worker[v]
      /\ worker' \in [Workers -> [at : Steps, target : {"Null", "Playing"}]]
  OBVIOUS
<1>2. CASE flags' = flags /\ (Driving(w) <=> to.at \in DrivingSteps)
  <2>1. \A v \in Workers : Driving(v)' <=> Driving(v)
    BY <1>1, <1>2
  <2> QED BY <1>1, <1>2, <2>1
<1>3. CASE /\ flags' = [flags EXCEPT !.restart_in_flight = FALSE]
           /\ Driving(w) /\ to.at \notin DrivingSteps
  <2>1. \A v \in Workers : ~Driving(v)'
    BY <1>1, <1>3
  <2>2. flags'.restart_in_flight = FALSE
    BY <1>3
  <2> QED BY <1>1, <1>3, <2>1, <2>2, TruthValues
<1>4. CASE /\ flags' = [flags EXCEPT !.restart_in_flight = TRUE]
           /\ ~Driving(w) /\ (to.at \in DrivingSteps <=> ~flags.restart_in_flight)
  <2>1. flags'.restart_in_flight = TRUE
    BY <1>4
  <2>2. CASE flags.restart_in_flight
    <3>1. \A v \in Workers : Driving(v)' <=> Driving(v)
      BY <1>1, <1>4, <2>2
    <3> QED BY <1>1, <1>4, <2>1, <2>2, <3>1, TruthValues
  <2>3. CASE ~flags.restart_in_flight
    <3>1. \A v \in Workers : Driving(v)' <=> v = w
      BY <1>1, <1>4, <2>3
    <3> QED BY <1>1, <1>4, <2>1, <3>1, TruthValues
  <2> QED BY <2>2, <2>3
<1> QED BY <1>2, <1>3, <1>4

LEMMA InvStep == Inv /\ [Next]_vars => Inv'
<1> SUFFICES ASSUME Inv, [Next]_vars PROVE Inv'
  OBVIOUS
<1>0. /\ Types /\ FlagHasItsWorker /\ AtMostOneDrives
  BY DEF Inv
<1>q. ASSUME UNCHANGED <<worker, flags>> PROVE FlagHasItsWorker' /\ AtMostOneDrives'
  BY <1>0, <1>q DEF FlagHasItsWorker, AtMostOneDrives, Driving
<1>f. ASSUME UNCHANGED worker, flags'.restart_in_flight = flags.restart_in_flight
      PROVE  FlagHasItsWorker' /\ AtMostOneDrives'
  BY <1>0, <1>f DEF FlagHasItsWorker, AtMostOneDrives, Driving
<1> USE TruthValues DEF Types, vars, history
<1>1. CASE Build
  <2>1. widget' \in {"none", "inert", "live", "dropped"}
    BY <1>1 DEF Build, BuildResult
  <2> QED BY <1>0, <1>1, <1>q, <2>1 DEF Build, Inv
<1>2. CASE Signal
  <2>1. /\ flags'.restart_in_flight = flags.restart_in_flight
        /\ flags' \in [needs_restart : BOOLEAN, restart_in_flight : BOOLEAN,
                       shutting_down : BOOLEAN, active : BOOLEAN]
        /\ running' \in BOOLEAN /\ gtk' \in {"idle", "start", "stop", "clear"}
    <3>1. CASE UNCHANGED <<running, flags, gtk>>
      BY <1>0, <1>2, <3>1 DEF Signal
    <3>2. CASE ~UNCHANGED <<running, flags, gtk>>
      BY <1>0, <1>2, <3>2 DEF Signal, SetActive, ShouldBeActive
    <3> QED BY <3>1, <3>2
  <2>2. window' \in [mapped : BOOLEAN, suspended : BOOLEAN, followed : BOOLEAN]
    BY <1>0, <1>2 DEF Signal
  <2> QED BY <1>0, <1>2, <1>f, <2>1, <2>2 DEF Signal, Inv
<1>3. CASE SpawnForWish
  BY <1>0, <1>3, SpawnTakesFlag DEF SpawnForWish, Inv
<1>4. CASE RetrySpawns
  <2> DEFINE f == IF flags.restart_in_flight THEN flags ELSE [flags EXCEPT !.needs_restart = FALSE]
  <2>1. /\ f \in [needs_restart : BOOLEAN, restart_in_flight : BOOLEAN,
                  shutting_down : BOOLEAN, active : BOOLEAN]
        /\ f.restart_in_flight = flags.restart_in_flight /\ Spawn(f)
    BY <1>0, <1>4 DEF RetrySpawns
  <2> HIDE DEF f
  <2> QED BY <1>0, <1>4, <2>1, SpawnTakesFlag DEF RetrySpawns, Inv
<1>5. CASE ClearMailbox \/ Poll \/ RetryLooks \/ DropStops \/ Prerolls \/ Sample
              \/ StreamBreaks \/ UNCHANGED vars
  BY <1>0, <1>5, <1>q DEF ClearMailbox, Poll, RetryLooks, DropStops, Prerolls, Sample,
                         StreamBreaks, Inv
<1>6. CASE BusWatch \/ Drop \/ DropRaisesFlag
  BY <1>0, <1>6, <1>f DEF BusWatch, Drop, DropRaisesFlag, Inv
<1>7. CASE Worker
  <2> PICK w \in Workers : \/ WorkerReads(w) \/ WorkerResets(w) \/ WorkerPlays(w)
                           \/ WorkerReleases(w) \/ WorkerCompares(w) \/ WorkerRetakes(w)
    BY <1>7 DEF Worker
  <2> DEFINE Goto(step) == [worker[w] EXCEPT !.at = step]
  <2>1. \A step \in Steps : Goto(step) \in [at : Steps, target : {"Null", "Playing"}]
                            /\ Goto(step).at = step
    BY <1>0
  <2>2. \A step : At(w, step) => worker' = [worker EXCEPT ![w] = Goto(step)]
    BY <1>0 DEF At
  <2> HIDE DEF Goto
  <2>3. UNCHANGED <<widget, window, running, gtk>>
    BY DEF WorkerReads, WorkerResets, WorkerPlays, WorkerReleases, WorkerCompares, WorkerRetakes
  <2>4. CASE WorkerReads(w)
    <3>1. [at |-> "reset", target |-> DesiredState(flags)] \in [at : Steps, target : {"Null", "Playing"}]
      BY DEF DesiredState, Steps
    <3> DEFINE to == [at |-> "reset", target |-> DesiredState(flags)]
    <3>2. /\ worker' = [worker EXCEPT ![w] = to] /\ flags' = flags
          /\ Driving(w) /\ to.at \in DrivingSteps
      BY <2>4 DEF WorkerReads, Driving, DrivingSteps
    <3> HIDE DEF to
    <3>3. /\ worker' \in [Workers -> [at : Steps, target : {"Null", "Playing"}]]
          /\ FlagHasItsWorker' /\ AtMostOneDrives'
      BY <3>1, <3>2, WorkerMoves DEF to
    <3> QED BY <1>0, <2>3, <2>4, <3>3 DEF WorkerReads, Inv
  <2>5. CASE WorkerResets(w)
    BY <1>0, <2>1, <2>2, <2>3, <2>5, WorkerMoves DEF WorkerResets, Driving, DrivingSteps, Steps, Inv
  <2>6. CASE WorkerPlays(w)
    BY <1>0, <2>1, <2>2, <2>3, <2>6, WorkerMoves DEF WorkerPlays, Driving, DrivingSteps, Steps, Inv
  <2>7. CASE WorkerReleases(w)
    BY <1>0, <2>1, <2>2, <2>3, <2>7, WorkerMoves DEF WorkerReleases, Driving, DrivingSteps, Steps, Inv
  <2>8. CASE WorkerCompares(w)
    BY <1>0, <2>1, <2>2, <2>3, <2>8, WorkerMoves DEF WorkerCompares, Driving, DrivingSteps, Steps, Inv
  <2>9. CASE WorkerRetakes(w)
    BY <1>0, <2>1, <2>2, <2>3, <2>9, WorkerMoves DEF WorkerRetakes, Driving, DrivingSteps, Steps, Inv
  <2> QED BY <2>4, <2>5, <2>6, <2>7, <2>8, <2>9
<1> QED BY <1>1, <1>2, <1>3, <1>4, <1>5, <1>6, <1>7 DEF Next, Main

LEMMA Invariance == Spec => []Inv
BY InvFirst, InvStep, PTL DEF Spec

(***************************************************************************)
(* Between taking and releasing restart_in_flight there is one worker,     *)
(* however many a storm of signals and retries starts: no two interleave   *)
(* Null and Playing on the pipeline.                                       *)
(***************************************************************************)
THEOREM WorkersTakeTurns == Spec => []OneWorkerDrives
<1> DEFINE D == {w \in Workers : Driving(w)}
<1>1. Inv => OneWorkerDrives
  <2> SUFFICES ASSUME Inv PROVE OneWorkerDrives
    OBVIOUS
  <2>1. Cardinality(D) <= 1
    <3>1. CASE D = {}
      BY <3>1, FS_EmptySet
    <3>2. CASE D # {}
      <4> PICK w \in D : TRUE
        BY <3>2
      <4>1. D = {w}
        BY DEF Inv, AtMostOneDrives
      <4>2. Cardinality({w}) = 1
        BY FS_Singleton
      <4> QED BY <4>1, <4>2
    <3> QED BY <3>1, <3>2
  <2> QED BY <2>1 DEF OneWorkerDrives, Inv, FlagHasItsWorker, Driving, DrivingSteps
<1> QED BY <1>1, Invariance, PTL

(***************************************************************************)
(* The flag is never left raised by a worker that has gone: a restart that *)
(* finds it raised may rely on a worker that will look at the wish again   *)
(* (the compare after release, and retake, in spawn_restart_worker).       *)
(***************************************************************************)
THEOREM FlagIsNeverOrphaned == Spec => []FlagHasItsWorker
<1>1. Inv => FlagHasItsWorker
  BY DEF Inv
<1> QED BY <1>1, Invariance, PTL
==============================================================================
