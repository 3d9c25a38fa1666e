--------------------------- MODULE DetectorProofs ---------------------------
(***************************************************************************)
(* Type correctness of Detector and why a single stale re-read never       *)
(* closes the camera, for any number of lost events and failed re-reads.   *)
(***************************************************************************)
EXTENDS Detector, TLAPS

Kernel == {"wait", "check", "probe", "drain", "reconcile"}

(***************************************************************************)
(* The inductive invariant.  LastIsShared: in the kernel loop the thread's *)
(* copy of the verdict is what the worker reads, and what reconcile        *)
(* compares with.  StreakCounts: absent_streak never counts more re-reads  *)
(* than really said "nobody" in a row; between a re-read that said         *)
(* "somebody" and its reconciliation the streak is still to be cleared.    *)
(***************************************************************************)
LastIsShared ==
    /\ pc = "start" => status = "Unknown" /\ lastStatus = "None" /\ streak = 0
    /\ pc \in Kernel => \/ lastStatus = "None" /\ status = "Unknown"
                        \/ lastStatus \in {"Present", "Absent"} /\ status = lastStatus
    /\ pc \in {"probe", "drain", "reconcile"} => believed = lastStatus

StreakCounts ==
    /\ pc \in Kernel /\ streak > 0 => lastStatus = "Present"
    /\ pc \in {"start", "wait", "check", "probe"} => streak <= zeros
    /\ pc \in {"drain", "reconcile"} /\ reading = 0 => streak + 1 <= zeros

Inv == TypeOK /\ LastIsShared /\ StreakCounts /\ VerdictMatchesCount /\ BlindStaysUnknown

USE DEF Count, NoReading, Confirmations, Reading, Verdict, ConsumerStatus

LEMMA TruthValues == \A v : v = FALSE \/ v = TRUE => v \in BOOLEAN
  BY Zenon

(***************************************************************************)
(* Every step of the detector, the driver, the clock or the supervisor     *)
(* preserves the invariant.                                                *)
(***************************************************************************)
LEMMA InvInductive == Inv /\ [Next]_vars => Inv'
<1> SUFFICES ASSUME Inv, [Next]_vars PROVE Inv'
  OBVIOUS
<1> USE BoundsAssumption DEF Inv, TypeOK, LastIsShared, StreakCounts,
        VerdictMatchesCount, BlindStaysUnknown, Kernel, StatusOf,
        configVars, threadVars, resyncVars, tickVars, driverVars
<1>1. CASE Start
  BY <1>1 DEF Start, Publish, Mode, PCs
<1>2. CASE Wait
  BY <1>2 DEF Wait, FallBack, NoteExternalEvent, ApplyUsage, Publish, KeepVerdict,
     Witnessed, Mode, PCs
<1>3. CASE Check
  BY <1>3, TruthValues DEF Check, ResyncDue, PCs
<1>4. CASE ProbeOk
  BY <1>4, TruthValues DEF ProbeOk, Reread, PCs
<1>5. CASE ProbeFails
  BY <1>5, TruthValues DEF ProbeFails, PCs
<1>6. CASE Drain
  BY <1>6 DEF Drain, NoteExternalEvent, ApplyUsage, Publish, KeepVerdict, Witnessed, PCs
<1>7. CASE Reconcile
  BY <1>7 DEF Reconcile, Confirmed, ApplyUsage, Publish, KeepVerdict, PCs
<1>8. CASE Leave
  BY <1>8 DEF Leave, PCs
<1>9. CASE HeuristicPublishes
  BY <1>9 DEF HeuristicPublishes, Publish
<1>10. CASE Clock
  BY <1>10, TruthValues DEF Clock, IntervalElapses, BackoffElapses
<1>11. CASE Driver
  BY <1>11, TruthValues DEF Driver, ClientChanges, SubscriptionDies
<1>12. CASE Stop
  BY <1>12, TruthValues DEF Stop
<1>13. CASE UNCHANGED vars
  BY <1>13 DEF vars
<1>14. QED
  BY <1>1, <1>2, <1>3, <1>4, <1>5, <1>6, <1>7, <1>8, <1>9, <1>10, <1>11, <1>12, <1>13
  DEF Next, Thread

LEMMA InvInitially == Init => Inv
  BY BoundsAssumption, TruthValues DEF Init, Inv, TypeOK, LastIsShared, StreakCounts,
     VerdictMatchesCount, BlindStaysUnknown, Kernel, PCs, Mode

\* The inductive invariant holds throughout.
THEOREM Invariance == Spec => []Inv
<1>1. Init => Inv
  BY InvInitially
<1>2. Inv /\ [Next]_vars => Inv'
  BY InvInductive
<1>3. QED
  BY <1>1, <1>2, PTL DEF Spec

\* Every reachable state of the detector is well typed.
THEOREM TypeCorrect == Spec => []TypeOK
<1>1. Inv => TypeOK
  BY DEF Inv
<1>2. QED
  BY <1>1, Invariance, PTL

\* The verdict never contradicts the client count while the kernel source runs.
THEOREM CountAgrees == Spec => []VerdictMatchesCount
<1>1. Inv => VerdictMatchesCount
  BY DEF Inv
<1>2. QED
  BY <1>1, Invariance, PTL

\* A strict detector that has lost its subscription, or never had one, says Unknown.
THEOREM StrictIsBlind == Spec => []BlindStaysUnknown
<1>1. Inv => BlindStaysUnknown
  BY DEF Inv
<1>2. QED
  BY <1>1, Invariance, PTL

\* A Present verdict is taken back only on an event that says nobody streams or on
\* two re-reads in a row: at a downgrade of reconcile the streak is one short of the
\* threshold, and StreakCounts turns that into re-reads that took place.
THEOREM EvidenceFirst == Spec => DowngradeNeedsEvidence
<1> DEFINE Downgrade == status = "Present" /\ status' = "Absent" /\ pc # "heuristic"
           Evidence  == \/ pc \in {"wait", "drain"} /\ queued = 0
                        \/ zeros = Confirmations
<1>1. ASSUME Inv, [Next]_vars, Downgrade PROVE Evidence
  <2> USE <1>1 DEF Inv, TypeOK, LastIsShared, StreakCounts, Kernel, StatusOf,
          configVars, threadVars, resyncVars, tickVars, driverVars
  <2>1. CASE Start
    BY <2>1 DEF Start, Publish
  <2>2. CASE Wait
    BY <2>2 DEF Wait, FallBack, ApplyUsage, Publish, KeepVerdict
  <2>3. CASE Drain
    BY <2>3 DEF Drain, ApplyUsage, Publish, KeepVerdict
  <2>4. CASE Reconcile
    BY <2>4 DEF Reconcile, Confirmed, ApplyUsage, Publish, KeepVerdict
  <2>5. CASE Check \/ ProbeOk \/ ProbeFails \/ Leave
    BY <2>5 DEF Check, ProbeOk, ProbeFails, Leave
  <2>6. CASE HeuristicPublishes
    BY <2>6 DEF HeuristicPublishes
  <2>7. CASE Clock \/ Driver \/ Stop
    BY <2>7 DEF Clock, IntervalElapses, BackoffElapses, Driver, ClientChanges,
       SubscriptionDies, Stop
  <2>8. CASE UNCHANGED vars
    BY <2>8 DEF vars
  <2>9. QED
    BY <2>1, <2>2, <2>3, <2>4, <2>5, <2>6, <2>7, <2>8 DEF Next, Thread
<1>2. Inv /\ [Next]_vars => [Downgrade => Evidence]_vars
  BY <1>1
<1>3. QED
  BY <1>2, Invariance, PTL DEF Spec, DowngradeNeedsEvidence
=============================================================================
