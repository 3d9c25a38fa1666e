-------------------------- MODULE HeuristicProofs ---------------------------
(***************************************************************************)
(* Type correctness of Heuristic and why a holder the walk can see is      *)
(* never denied, for queues, balances and numbers of holders of any size.  *)
(***************************************************************************)
EXTENDS Heuristic, FiniteSetTheorems, SequenceTheorems, TLAPS

(***************************************************************************)
(* The inductive invariant.  While the watch exists no IN_IGNORED was      *)
(* queued, so every event read is worth a walk; an empty queue then means  *)
(* that what happened since the last walk is in the batch, if anywhere.    *)
(***************************************************************************)
NoIgnored(events) == \A i \in 1..Len(events) : events[i] # "ignored"

FullQueue == Len(queue) = QueueSize + 1 => queue[Len(queue)] = "overflow"

WatchPhase ==
    /\ pc = "arm" => ~armed /\ queue = <<>>
    /\ pc \in {"poll_start", "poll"} => batch = <<>>
    /\ armed => NoIgnored(queue) /\ NoIgnored(batch)
    /\ pc # "apply" => batch = <<>>
    /\ pc \notin {"poll_start", "poll", "exited"} => errors < ReadErrorBudget

SeenOrPending ==
    armed /\ visible /\ queue = <<>> =>
        /\ pc \in {"read", "decay"} => status # "Absent"
        /\ pc = "apply" => status # "Absent" \/ Rescan(batch)

Inv == TypeOK /\ FullQueue /\ WatchPhase /\ SeenOrPending

LEMMA TruthValues == \A v : v = FALSE \/ v = TRUE => v \in BOOLEAN
  BY Zenon

\* The number of events of a kind in a batch is a natural number.
LEMMA CountType ==
  ASSUME NEW events \in Seq(Event), NEW kind
  PROVE  Count(events, kind) \in Nat
<1>1. IsFiniteSet(1..Len(events))
  BY FS_Interval
<1>2. IsFiniteSet({i \in DOMAIN events : events[i] = kind})
  BY <1>1, FS_Subset
<1>3. QED
  BY <1>2, FS_CardinalityType DEF Count

\* A batch folded into a natural balance leaves a natural balance.
LEMMA FoldedType ==
  ASSUME balance \in Nat, NEW events \in Seq(Event)
  PROVE  Folded(events) \in Nat
<1>1. Count(events, "open") \in Nat /\ Count(events, "close") \in Nat
  BY CountType
<1>2. QED
  BY <1>1 DEF Folded, NetOpens

\* A walk keeps the balance natural and publishes a status; with a holder in sight it
\* never publishes Absent.
LEMMA WalkVerdict ==
  ASSUME NEW opens \in Nat, faults \in Nat, WalkObservePublish(opens)
  PROVE  /\ balance' \in Nat /\ status' \in ConsumerStatus /\ faults' \in Nat
         /\ visible => status' # "Absent"
<1>1. CASE Observe(WalkOutcome, opens) /\ UNCHANGED faults
  BY <1>1 DEF Observe, WalkOutcome, ConsumerStatus
<1>2. CASE faults' = faults + 1 /\ Observe("Unreadable", opens)
  BY <1>2 DEF Observe, ConsumerStatus
<1>3. QED
  BY <1>1, <1>2 DEF WalkObservePublish

\* What the kernel does to the queue: it keeps its length bounded, is never empty
\* after an event, and only NodeRemoved puts an IN_IGNORED there.
LEMMA NotifyKeeps ==
  ASSUME queue \in Seq(Event), Len(queue) <= QueueSize + 1, FullQueue,
         NEW event \in Event, Notify(event)
  PROVE  /\ queue' \in Seq(Event) /\ Len(queue') <= QueueSize + 1 /\ FullQueue'
         /\ armed => queue' # <<>>
         /\ event # "ignored" /\ NoIgnored(queue) => NoIgnored(queue')
         /\ ~armed => queue' = queue
<1> USE ConstantsAssumption DEF FullQueue
<1>0. QueueSize \in Nat \ {0} /\ Len(queue) \in Nat
  OBVIOUS
<1>1. CASE ~armed \/ (Len(queue) < QueueSize /\ Coalesced(event))
              \/ (Len(queue) >= QueueSize /\ Has(queue, "overflow"))
  <2>1. queue' = queue
    BY <1>0, <1>1 DEF Notify
  <2>2. armed => queue # <<>>
    BY <1>0, <1>1 DEF Coalesced
  <2>3. QED
    BY <2>1, <2>2 DEF NoIgnored
<1>2. CASE armed /\ Len(queue) < QueueSize /\ ~Coalesced(event)
  <2>1. queue' = Append(queue, event)
    BY <1>0, <1>2 DEF Notify
  <2>2. QED
    BY <1>0, <1>2, <2>1 DEF NoIgnored
<1>3. CASE armed /\ Len(queue) >= QueueSize /\ ~Has(queue, "overflow")
  <2>1. queue' = Append(queue, "overflow")
    BY <1>0, <1>3 DEF Notify
  <2>2. Len(queue) # QueueSize + 1
    <3>1. Len(queue) = QueueSize + 1 => Len(queue) \in DOMAIN queue /\ queue[Len(queue)] = "overflow"
      BY <1>0
    <3> QED
      BY <1>3, <3>1 DEF Has
  <2>3. "overflow" \in Event /\ "overflow" # "ignored"
    BY DEF Event
  <2>4. QED
    BY <1>0, <1>3, <2>1, <2>2, <2>3 DEF NoIgnored
<1>4. QED
  BY <1>0, <1>1, <1>2, <1>3

(***************************************************************************)
(* Every step of the thread and of the host preserves the invariant.       *)
(***************************************************************************)
LEMMA InvInductive == Inv /\ [Next]_vars => Inv'
<1> SUFFICES ASSUME Inv, [Next]_vars PROVE Inv'
  OBVIOUS
<1> USE ConstantsAssumption DEF Inv, TypeOK, FullQueue, WatchPhase, SeenOrPending, Goto,
        threadVars, hostVars, historyVars
<1>0. <<>> \in Seq(Event) /\ NoIgnored(<<>>)
  BY EmptySeq DEF NoIgnored
<1>1. CASE Arm
  BY <1>1, <1>0, TruthValues DEF Arm, PCs
<1>2. CASE Baseline
  BY <1>2, <1>0, WalkVerdict, TruthValues DEF Baseline, PCs
<1>3. CASE ReadEvents
  <2>1. PICK n \in 0..Len(queue) :
            /\ n = 0 => queue = <<>>
            /\ batch' = SubSeq(queue, 1, n)
            /\ queue' = SubSeq(queue, n + 1, Len(queue))
            /\ quiet' = (quiet /\ ~Rescan(SubSeq(queue, 1, n)))
    BY <1>3 DEF ReadEvents
  <2>2. /\ batch' \in Seq(Event) /\ Len(batch') = n
        /\ \A i \in 1..n : batch'[i] = queue[i]
    BY <2>1, SubSeqProperties, ElementOfSeq
  <2>3. /\ queue' \in Seq(Event) /\ Len(queue') = Len(queue) - n
        /\ \A i \in 1..(Len(queue) - n) : queue'[i] = queue[n + i]
    <3>1. \A i \in (n + 1)..Len(queue) : queue[i] \in Event
      BY ElementOfSeq
    <3>2. QED
      BY <2>1, <3>1, SubSeqProperties
  <2>4. quiet' \in BOOLEAN
    BY <2>1, TruthValues
  <2>5. armed => NoIgnored(batch') /\ NoIgnored(queue')
    BY <2>2, <2>3 DEF NoIgnored
  <2>6. ASSUME armed, visible, queue' = <<>>
        PROVE  status # "Absent" \/ Rescan(batch')
    <3>1. CASE n = 0
      BY <1>3, <2>1, <2>6, <3>1 DEF ReadEvents
    <3>2. CASE n # 0
      <4>1. batch'[1] \in Event /\ batch'[1] # "ignored" /\ 1 \in DOMAIN batch'
        BY <2>2, <2>5, <2>6, <3>2 DEF NoIgnored
      <4>2. QED
        BY <4>1 DEF Rescan, Has, Event
    <3>3. QED
      BY <3>1, <3>2
  <2>7. /\ pc = "read" /\ pc' = "apply" /\ errors' = 0
        /\ UNCHANGED <<status, balance, faults, armed, visible, hidden, blind, stopped,
                       unwatched, discarded>>
    BY <1>3 DEF ReadEvents, KeepVerdict
  <2>8. TypeOK' /\ FullQueue'
    BY <2>2, <2>3, <2>4, <2>7 DEF PCs
  <2>9. WatchPhase' /\ SeenOrPending'
    BY <2>5, <2>6, <2>7
  <2>10. QED
    BY <2>8, <2>9
<1>4. CASE ReadFails
  BY <1>4, <1>0 DEF ReadFails, PCs, ConsumerStatus
<1>5. CASE Apply
  <2>1. CASE Has(batch, "ignored") /\ status' = "Unknown" /\ pc' = "poll_start"
             /\ UNCHANGED <<balance, faults, discarded>>
    BY <1>5, <1>0, <2>1 DEF Apply, PCs, ConsumerStatus
  <2>2. CASE WalkObservePublish(Folded(batch)) /\ pc' = "decay"
             /\ discarded' = (discarded \/ Has(batch, "overflow"))
    BY <1>5, <1>0, <2>2, FoldedType, WalkVerdict, TruthValues DEF Apply, PCs
  <2>3. CASE ~Rescan(batch) /\ KeepVerdict /\ UNCHANGED discarded /\ pc' = "decay"
    BY <1>5, <1>0, <2>3 DEF Apply, KeepVerdict, PCs
  <2>4. QED
    BY <1>5, <2>1, <2>2, <2>3 DEF Apply
<1>6. CASE Decay
  <2>1. CASE WalkObservePublish(0) /\ quiet' = FALSE /\ discarded' = TRUE
    BY <1>6, <1>0, <2>1, WalkVerdict, TruthValues DEF Decay, PCs
  <2>2. CASE KeepVerdict /\ UNCHANGED <<quiet, discarded>>
    BY <1>6, <1>0, <2>2 DEF Decay, KeepVerdict, PCs
  <2>3. QED
    BY <1>6, <2>1, <2>2 DEF Decay
<1>7. CASE PollStart
  BY <1>7, <1>0, TruthValues DEF PollStart, PCs
<1>8. CASE Poll
  BY <1>8, <1>0, WalkVerdict DEF Poll, PCs
<1>9. CASE Leave
  BY <1>9, <1>0 DEF Leave, KeepVerdict, PCs
<1>10. CASE HolderOpens
  <2>1. Notify("open") /\ "open" \in Event
    BY <1>10 DEF HolderOpens, Event
  <2>2. /\ queue' \in Seq(Event) /\ Len(queue') <= QueueSize + 1 /\ FullQueue'
        /\ armed => queue' # <<>>
        /\ NoIgnored(queue) => NoIgnored(queue')
        /\ ~armed => queue' = queue
    BY <2>1, NotifyKeeps
  <2>3. visible' \in BOOLEAN /\ unwatched' \in BOOLEAN /\ hidden' \in Nat
    BY <1>10, TruthValues DEF HolderOpens
  <2>4. QED
    BY <1>10, <2>2, <2>3 DEF HolderOpens
<1>11. CASE HolderCloses
  <2>1. Notify("close") /\ "close" \in Event
    BY <1>11 DEF HolderCloses, Event
  <2>2. /\ queue' \in Seq(Event) /\ Len(queue') <= QueueSize + 1 /\ FullQueue'
        /\ armed => queue' # <<>>
        /\ NoIgnored(queue) => NoIgnored(queue')
        /\ ~armed => queue' = queue
    BY <2>1, NotifyKeeps
  <2>3. visible' \in BOOLEAN /\ hidden' \in Nat
    BY <1>11, TruthValues DEF HolderCloses
  <2>4. QED
    BY <1>11, <2>2, <2>3 DEF HolderCloses
<1>12. CASE NodeRemoved
  <2>1. Notify("ignored") /\ "ignored" \in Event
    BY <1>12 DEF NodeRemoved, Event
  <2>2. queue' \in Seq(Event) /\ Len(queue') <= QueueSize + 1 /\ FullQueue'
    BY <2>1, NotifyKeeps
  <2>3. pc # "arm"
    BY <1>12 DEF NodeRemoved
  <2>4. QED
    BY <1>12, <2>2, <2>3, TruthValues DEF NodeRemoved
<1>13. CASE QuietElapses \/ Stop
  BY <1>13, TruthValues DEF QuietElapses, Stop
<1>14. CASE UNCHANGED vars
  BY <1>14 DEF vars, Rescan, Has, NoIgnored
<1>15. QED
  BY <1>1, <1>2, <1>3, <1>4, <1>5, <1>6, <1>7, <1>8, <1>9, <1>10, <1>11, <1>12, <1>13,
     <1>14 DEF Next, Thread, Host

LEMMA InvInitially == Init => Inv
<1>1. <<>> \in Seq(Event) /\ Len(<<>>) = 0
  BY EmptySeq
<1>2. QED
  BY <1>1, ConstantsAssumption, TruthValues
  DEF Init, Inv, TypeOK, FullQueue, WatchPhase, SeenOrPending, PCs, ConsumerStatus

\* The inductive invariant holds throughout.
THEOREM Invariance == Spec => []Inv
<1>1. Init => Inv
  BY InvInitially
<1>2. Inv /\ [Next]_vars => Inv'
  BY InvInductive
<1>3. QED
  BY <1>1, <1>2, PTL DEF Spec

\* Every reachable state is well typed; in particular the balance never turns negative.
THEOREM TypeCorrect == Spec => []TypeOK
<1>1. Inv => TypeOK
  BY DEF Inv
<1>2. QED
  BY <1>1, Invariance, PTL

\* A holder the walk can see is never denied once its events are read.
THEOREM SeenHolder == Spec => []SeenHolderNotDenied
<1>1. Inv => SeenHolderNotDenied
  BY DEF Inv, SeenOrPending, SeenHolderNotDenied
<1>2. QED
  BY <1>1, Invariance, PTL
=============================================================================
