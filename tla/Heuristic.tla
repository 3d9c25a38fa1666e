----------------------------- MODULE Heuristic ------------------------------
(***************************************************************************)
(* The consumer detector's fallback for loopbacks without client-usage     *)
(* events: run_heuristic_detector of fluxframe-cli/src/idle/detector.rs.   *)
(*                                                                         *)
(* An inotify watch on the device node wakes the thread on every open and  *)
(* close; a walk over /proc/<pid>/fd then looks for a holder.  A holder    *)
(* whose /proc entry may not be read (a sandboxed browser) is invisible to *)
(* the walk, and a balance of opens and closes stands in for it.  When the *)
(* watch cannot be had or is lost, the thread polls /proc instead.         *)
(*                                                                         *)
(* The kernel side: inotify(7) drops an event that is identical to the     *)
(* newest one still queued, and replaces what does not fit into the queue  *)
(* by one overflow event.  Removing the node ends the watch (IN_IGNORED).  *)
(***************************************************************************)
EXTENDS Integers, Sequences, FiniteSets, IdleMachine

CONSTANTS
    ReadErrorBudget,  \* INOTIFY_READ_ERROR_BUDGET
    QueueSize,        \* max_queued_events of inotify
    MaxHidden,        \* bound: opens held by processes the walk may not look into
    MaxBalance,       \* bound: nobody opens the device while the balance is above this
    MaxFaults         \* bound: failing reads and unreadable /proc walks

ASSUME ConstantsAssumption ==
    /\ ReadErrorBudget \in Nat \ {0}
    /\ QueueSize \in Nat \ {0}
    /\ MaxHidden \in Nat
    /\ MaxBalance \in Nat
    /\ MaxFaults \in Nat

VARIABLES
    pc,        \* the detector thread's next step
    status,    \* the verdict the worker reads
    balance,   \* ConsumerPresence::open_balance
    errors,    \* consecutive_read_errors
    quiet,     \* stale_balance_after has elapsed since last_event_at
    batch,     \* the events of this iteration
    queue,     \* the kernel: events the thread has not read
    armed,     \* the kernel: the watch exists
    visible,   \* a process the walk can look into holds the device
    hidden,    \* opens held by processes it cannot look into
    blind,     \* other processes it cannot look into run on this host
    stopped,   \* `running` cleared or `stopped` set
    faults,
    unwatched, \* history: a hidden open happened without a watch
    discarded  \* history: the balance was discarded, by decay or overflow

threadVars == <<pc, status, balance, errors, quiet, batch>>
hostVars   == <<visible, hidden, blind>>
historyVars == <<unwatched, discarded>>
vars == <<threadVars, queue, armed, hostVars, stopped, faults, historyVars>>

Event == {"open", "close", "overflow", "ignored"}
PCs == {"arm", "baseline", "read", "apply", "decay", "poll_start", "poll", "exited"}
Walk == {"External", "CleanAbsent", "UncertainAbsent", "Unreadable"}

-----------------------------------------------------------------------------
(* EventSummary::observe over a batch. *)

Count(events, kind) == Cardinality({i \in DOMAIN events : events[i] = kind})
Has(events, kind)   == \E i \in DOMAIN events : events[i] = kind

NetOpens(events) == Count(events, "open") - Count(events, "close")
\* Fault: opens and closes that cancel out are not looked at.
RescanOnNetChange(events) == NetOpens(events) # 0 \/ Has(events, "overflow")
Rescan(events) == Has(events, "open") \/ Has(events, "close") \/ Has(events, "overflow")

\* Fault: an unreadable process hides the readable ones after it.
WalkOutcomeUnreadableFirst ==
    CASE blind \/ hidden > 0 -> "UncertainAbsent"
      [] ~(blind \/ hidden > 0) /\ visible -> "External"
      [] OTHER -> "CleanAbsent"
\* count_external_consumers: what the walk sees at this moment.
WalkOutcome ==
    CASE visible                          -> "External"
      [] ~visible /\ (blind \/ hidden > 0) -> "UncertainAbsent"
      [] OTHER                            -> "CleanAbsent"

-----------------------------------------------------------------------------
(* ConsumerPresence::observe. *)

\* The balance with a batch folded in; lost events make it worthless.
Folded(events) ==
    IF Has(events, "overflow") THEN 0
    ELSE IF balance + NetOpens(events) > 0 THEN balance + NetOpens(events) ELSE 0

\* The balance and the verdict after a walk, from the balance before it.
Observe(walk, opens) ==
    /\ balance' = CASE walk = "External"    -> 1
                    [] walk = "CleanAbsent" -> 0
                    [] OTHER                -> opens
    /\ status' = CASE walk = "Unreadable"  -> "Unknown"
                   [] walk = "External"    -> "Present"
                   [] walk = "CleanAbsent" -> "Absent"
                   [] OTHER                -> IF opens > 0 THEN "Present" ELSE "Absent"

\* walk_observe_publish; /proc itself may be unreadable.
WalkObservePublish(opens) ==
    \/ Observe(WalkOutcome, opens) /\ UNCHANGED faults
    \/ faults < MaxFaults /\ faults' = faults + 1 /\ Observe("Unreadable", opens)

KeepVerdict == UNCHANGED <<status, balance, faults>>
Goto(step) == pc' = step

-----------------------------------------------------------------------------
(* run_detector_inotify. *)

\* init and watches().add; either may fail.
Arm ==
    /\ pc = "arm"
    /\ \/ armed' = TRUE /\ Goto("baseline") /\ UNCHANGED faults
       \/ faults < MaxFaults /\ faults' = faults + 1 /\ Goto("poll_start") /\ UNCHANGED armed
    /\ UNCHANGED <<status, balance, errors, quiet, batch, queue, hostVars, stopped,
                   historyVars>>

\* Opens of before the watch show only here.
Baseline ==
    /\ pc = "baseline"
    /\ WalkObservePublish(balance)
    /\ quiet' = FALSE
    /\ Goto("read")
    /\ UNCHANGED <<errors, batch, queue, armed, hostVars, stopped, historyVars>>

\* read_event_batch: as many queued events as the buffer takes.
ReadEvents ==
    /\ pc = "read" /\ ~stopped
    /\ \E n \in 0..Len(queue) :
          /\ n = 0 => queue = <<>>                            \* WouldBlock
          /\ batch' = SubSeq(queue, 1, n)
          /\ queue' = SubSeq(queue, n + 1, Len(queue))
          /\ quiet' = (quiet /\ ~Rescan(SubSeq(queue, 1, n)))
    /\ errors' = 0
    /\ Goto("apply")
    /\ KeepVerdict /\ UNCHANGED <<armed, hostVars, stopped, historyVars>>

\* The first failure in a row fails open, the last one gives the watch up.
ReadFails ==
    /\ pc = "read" /\ ~stopped
    /\ faults < MaxFaults
    /\ faults' = faults + 1
    /\ status' = IF errors = 0 THEN "Unknown" ELSE status
    /\ errors' = errors + 1
    /\ IF errors' >= ReadErrorBudget THEN Goto("poll_start") ELSE Goto("apply")
    /\ batch' = <<>>
    /\ UNCHANGED <<balance, quiet, queue, armed, hostVars, stopped, historyVars>>

\* apply_summary: a lost watch ends this source, anything else worth a look is
\* looked at now, after the events were read.
Apply ==
    /\ pc = "apply"
    /\ batch' = <<>>
    /\ \/ /\ Has(batch, "ignored")
          /\ status' = "Unknown"
          /\ Goto("poll_start")
          /\ UNCHANGED <<balance, faults, discarded>>
       \/ /\ ~Has(batch, "ignored") /\ Rescan(batch)
          /\ WalkObservePublish(Folded(batch))
          /\ discarded' = (discarded \/ Has(batch, "overflow"))
          /\ Goto("decay")
       \/ /\ ~Has(batch, "ignored") /\ ~Rescan(batch)
          /\ KeepVerdict /\ UNCHANGED discarded
          /\ Goto("decay")
    /\ UNCHANGED <<errors, quiet, queue, armed, hostVars, stopped, unwatched>>

\* Fault: a balance is good for ever.
NeverStale == FALSE
Stale == balance > 0 /\ quiet                                 \* is_stale

\* decay_if_stale and the walk after it.
Decay ==
    /\ pc = "decay"
    /\ IF Stale THEN WalkObservePublish(0) /\ quiet' = FALSE /\ discarded' = TRUE
                ELSE KeepVerdict /\ UNCHANGED <<quiet, discarded>>
    /\ Goto("read")
    /\ UNCHANGED <<errors, batch, queue, armed, hostVars, stopped, unwatched>>

(* run_detector_polling. *)
PollStart ==
    /\ pc = "poll_start"
    /\ balance' = 0
    /\ armed' = FALSE /\ queue' = <<>>                        \* the Inotify is dropped
    /\ Goto("poll")
    /\ UNCHANGED <<status, errors, quiet, batch, hostVars, stopped, faults,
                   historyVars>>

Poll ==
    /\ pc = "poll" /\ ~stopped
    /\ WalkObservePublish(balance)
    /\ UNCHANGED <<pc, errors, quiet, batch, queue, armed, hostVars, stopped,
                   historyVars>>

Leave ==
    /\ pc \in {"read", "poll"} /\ stopped
    /\ Goto("exited")
    /\ KeepVerdict
    /\ UNCHANGED <<errors, quiet, batch, queue, armed, hostVars, stopped, historyVars>>

-----------------------------------------------------------------------------
(* The host. *)

\* The kernel queues an event for an armed watch: with room unless the newest is the
\* same, and a full queue takes one overflow event and nothing else.
Coalesced(event) == queue # <<>> /\ queue[Len(queue)] = event
Notify(event) ==
    queue' = CASE ~armed -> queue
               [] armed /\ Len(queue) < QueueSize ->
                      IF Coalesced(event) THEN queue ELSE Append(queue, event)
               [] armed /\ Len(queue) >= QueueSize ->
                      IF Has(queue, "overflow") THEN queue ELSE Append(queue, "overflow")

HolderOpens ==
    /\ balance <= MaxBalance
    /\ \/ ~visible /\ visible' = TRUE /\ UNCHANGED <<hidden, unwatched>>
       \/ /\ hidden < MaxHidden
          /\ hidden' = hidden + 1
          /\ unwatched' = (unwatched \/ ~armed)
          /\ UNCHANGED visible
    /\ Notify("open")
    /\ UNCHANGED <<threadVars, armed, blind, stopped, faults, discarded>>

HolderCloses ==
    /\ \/ visible /\ visible' = FALSE /\ UNCHANGED hidden
       \/ hidden > 0 /\ hidden' = hidden - 1 /\ UNCHANGED visible
    /\ Notify("close")
    /\ UNCHANGED <<threadVars, armed, blind, stopped, faults, historyVars>>

\* The node goes away and the watch with it (modprobe -r v4l2loopback).
NodeRemoved ==
    /\ armed
    /\ Notify("ignored")
    /\ armed' = FALSE
    /\ UNCHANGED <<threadVars, hostVars, stopped, faults, historyVars>>

QuietElapses ==
    /\ pc \in {"read", "apply", "decay"} /\ ~quiet
    /\ quiet' = TRUE
    /\ UNCHANGED <<pc, status, balance, errors, batch, queue, armed, hostVars, stopped,
                   faults, historyVars>>

Stop ==
    /\ ~stopped
    /\ stopped' = TRUE
    /\ UNCHANGED <<threadVars, queue, armed, hostVars, faults, historyVars>>

Thread == \/ Arm \/ Baseline \/ ReadEvents \/ ReadFails \/ Apply \/ Decay
          \/ PollStart \/ Poll \/ Leave
Host   == HolderOpens \/ HolderCloses \/ NodeRemoved

Init ==
    /\ pc = "arm"
    /\ status = "Unknown" /\ balance = 0 /\ errors = 0 /\ quiet = FALSE /\ batch = <<>>
    /\ queue = <<>> /\ armed = FALSE
    /\ visible \in BOOLEAN /\ hidden = 0 /\ blind \in BOOLEAN
    /\ stopped = FALSE /\ faults = 0
    /\ unwatched = FALSE /\ discarded = FALSE

Next == Thread \/ Host \/ QuietElapses \/ Stop

Spec == Init /\ [][Next]_vars
\* The thread runs and time passes; nobody has to open or close the device.
FairSpec == Spec /\ WF_vars(Thread) /\ WF_vars(QuietElapses)

-----------------------------------------------------------------------------

\* Type invariant.
TypeOK ==
    /\ pc \in PCs /\ status \in ConsumerStatus
    /\ balance \in Nat /\ errors \in 0..ReadErrorBudget /\ quiet \in BOOLEAN
    /\ batch \in Seq(Event) /\ queue \in Seq(Event) /\ Len(queue) <= QueueSize + 1
    /\ armed \in BOOLEAN /\ visible \in BOOLEAN /\ hidden \in Nat /\ blind \in BOOLEAN
    /\ stopped \in BOOLEAN /\ faults \in Nat
    /\ unwatched \in BOOLEAN /\ discarded \in BOOLEAN

\* The walk comes after the events it answers are off the queue, so an open between
\* the two is seen by one or the other: with nothing left to read, a holder the walk
\* can see is never denied, however opens, closes, coalesced events and overflows of
\* several processes mix.
SeenHolderNotDenied ==
    pc = "read" /\ armed /\ queue = <<>> /\ visible => status # "Absent"

\* Once the last holder is gone for good and the watch is still there, the worker is
\* told, even if closes were coalesced or dropped; a balance that no close pays down
\* decays.  Provided every read and walk worked: see HiccupIsForgotten.
WatchNoticesNobody ==
    <>[](~visible /\ hidden = 0 /\ armed /\ ~stopped /\ faults = 0)
        => <>[](status = "Absent")

\* The same after transient failures: read_event_batch only means to keep "the input
\* pipeline running through a transient inotify hiccup".
HiccupIsForgotten ==
    <>[](~visible /\ hidden = 0 /\ armed /\ ~stopped) => <>[](status = "Absent")

\* The same when polling: run_detector_polling's comment says that "a stale positive
\* balance must not latch `Present` here".
PollingNoticesNobody ==
    <>[](~visible /\ hidden = 0 /\ pc = "poll" /\ ~stopped) => <>[](status = "Absent")

\* A holder the walk can see is found, watched or polled.  (An IN_IGNORED dropped by
\* an overflowing queue would leave the thread with neither.)
HolderIsNoticed ==
    <>[](visible /\ (armed \/ pc = "poll") /\ ~stopped) => <>[](status # "Absent")

\* What the module documentation promises of a holder the walk cannot see: a held
\* open "still wakes to Present, and returns to Absent when it closes".
HeldOpenStaysPresent ==
    pc = "read" /\ armed /\ queue = <<>> /\ hidden > 0 /\ ~unwatched
        => status # "Absent"

\* The same while nothing was discarded: ConsumerPresence relies on inotify counting
\* every open file description.
OpensAreCounted ==
    pc = "read" /\ armed /\ queue = <<>> /\ hidden > 0 /\ ~unwatched /\ ~discarded
        => status # "Absent"
=============================================================================
