------------------------------ MODULE Detector ------------------------------
(***************************************************************************)
(* The consumer detector's authoritative source: run_presence_source and   *)
(* run_detector_client_usage of fluxframe-cli/src/idle/detector.rs with    *)
(* the resync of idle/resync.rs, over fluxframe-gst/src/v4l2_events.rs.    *)
(*                                                                         *)
(* v4l2loopback posts an event with the number of capture clients (0 or 1: *)
(* it hands out one capture slot) whenever that number changes, and keeps  *)
(* only the newest one queued per subscriber.  An event may be lost, so    *)
(* the detector also re-reads the value now and then through a second      *)
(* descriptor; that re-read makes the driver queue an echo for everybody.  *)
(* A verdict of Absent closes the camera `teardown_secs` later.            *)
(*                                                                         *)
(* Left out: what a tick only measures for the log and the metrics line    *)
(* (the census of who holds the node, the state of our own output stream,  *)
(* the age of the last event); nothing reads it back.                      *)
(***************************************************************************)
EXTENDS Naturals, IdleMachine

CONSTANTS
    MaxLost,         \* bound: client-usage events the driver never delivers
    MaxProbeErrors   \* bound: re-reads that fail

ASSUME BoundsAssumption == MaxLost \in Nat /\ MaxProbeErrors \in Nat

Mode  == {"auto", "kernel_event", "inotify", "disabled"}  \* IdlePresenceSource
Count == 0..1                                             \* ClientUsage::count
NoReading == 2                                            \* no event, no reading
Confirmations == 2                                        \* RESYNC_ABSENT_CONFIRMATIONS

VARIABLES
    mode,       \* presence_source
    watched,    \* the sink gave a ConsumerWatch
    resync,     \* resync_interval_secs > 0: ResyncSchedule::Every
    pc,         \* the detector thread's next step
    status,     \* the shared status atomic, as the worker reads it
    lastStatus, \* DetectorState::last_status; "None" before the first verdict
    gauge,      \* Counters::consumer_clients
    streak,     \* ResyncState::absent_streak
    disabled,   \* ResyncState::disabled
    held,       \* ResyncState::backoff_until lies ahead
    due,        \* the resync interval has elapsed since last_tick
    reading,    \* what the probe of this tick returned
    believed,   \* the verdict snapshotted before the probe
    clients,    \* the driver: capture clients that are streaming
    queued,     \* the driver: the event queued on our watch, or NoReading
    dead,       \* the driver: the subscription's descriptor reports an error
    stopped,    \* `running` cleared or `stopped` set
    lost, errors,
    zeros       \* history: re-reads that returned 0 since anything said otherwise

threadVars == <<pc, status, lastStatus, gauge>>
resyncVars == <<streak, disabled, held>>
tickVars   == <<reading, believed>>
driverVars == <<clients, dead, stopped, lost>>
configVars == <<mode, watched, resync>>
vars == <<configVars, threadVars, resyncVars, due, tickVars, driverVars, queued,
          errors, zeros>>

Reading == Count \union {NoReading}
Verdict == ConsumerStatus \union {"None"}
PCs == {"start", "wait", "check", "probe", "drain", "reconcile", "heuristic",
        "parked", "exited"}

-----------------------------------------------------------------------------

\* ClientUsage::attached.
StatusOf(count) == IF count > 0 THEN "Present" ELSE "Absent"

\* publish_if_changed: `status` has no other writer than this thread.
Publish(verdict) == status' = verdict /\ lastStatus' = verdict

\* Fault: the verdict without the count.
PublishOnly(count) == Publish(StatusOf(count)) /\ UNCHANGED gauge
ApplyUsage(count) == gauge' = count /\ Publish(StatusOf(count))

\* Fault: an event is no evidence against a downgrade.
KeepStreak == UNCHANGED streak
NoteExternalEvent == streak' = 0

KeepVerdict == UNCHANGED <<status, lastStatus, gauge>>

\* History: a reading of 1 breaks a run of zeros.
Witnessed(count) == zeros' = IF count > 0 THEN 0 ELSE zeros
Reread(count) ==
    zeros' = IF count > 0 THEN 0 ELSE IF zeros = Confirmations THEN zeros ELSE zeros + 1

-----------------------------------------------------------------------------
(* run_presence_source: which source runs. *)

Start ==
    /\ pc = "start"
    /\ \/ /\ mode = "disabled"
          /\ Publish("Present") /\ pc' = "parked"
       \/ /\ \/ mode = "inotify"
             \/ mode = "auto" /\ ~watched
          /\ pc' = "heuristic" /\ UNCHANGED <<status, lastStatus>>
       \/ /\ mode = "kernel_event" /\ ~watched
          /\ pc' = "parked" /\ UNCHANGED <<status, lastStatus>>
       \/ /\ mode \in {"auto", "kernel_event"} /\ watched
          /\ pc' = "wait" /\ UNCHANGED <<status, lastStatus>>
    /\ UNCHANGED <<configVars, gauge, resyncVars, due, tickVars, driverVars, queued,
                   errors, zeros>>

\* Fault: the last verdict stands.
FallBackSilently ==
    /\ pc' = (IF mode = "kernel_event" THEN "parked" ELSE "heuristic")
    /\ KeepVerdict
\* The subscription died: fail open, then the heuristic or, in strict mode, nothing.
FallBack ==
    /\ pc' = (IF mode = "kernel_event" THEN "parked" ELSE "heuristic")
    /\ Publish("Unknown")
    /\ UNCHANGED gauge

(* The top of the loop: source.wait(timeout), which drains the queue. *)
Wait ==
    /\ pc = "wait"
    /\ \/ /\ stopped
          /\ pc' = "exited"
          /\ KeepVerdict /\ UNCHANGED <<streak, queued, zeros>>
       \/ /\ ~stopped /\ dead
          /\ FallBack
          /\ UNCHANGED <<streak, queued, zeros>>
       \/ /\ ~stopped /\ ~dead /\ queued \in Count
          /\ NoteExternalEvent
          /\ ApplyUsage(queued)
          /\ Witnessed(queued)
          /\ queued' = NoReading /\ pc' = "check"
       \/ /\ ~stopped /\ ~dead /\ queued = NoReading            \* the timeout
          /\ pc' = "check"
          /\ KeepVerdict /\ UNCHANGED <<streak, queued, zeros>>
    /\ UNCHANGED <<configVars, disabled, held, due, tickVars, driverVars, errors>>

\* Fault: only a verdict that keeps the camera closed is re-read.
ResyncDueWhenAbsent == resync /\ ~disabled /\ ~held /\ due /\ lastStatus = "Absent"
\* ResyncState::due.
ResyncDue == resync /\ ~disabled /\ ~held /\ due

\* The re-check of the flags, then resync_tick up to its snapshot of the verdict.
Check ==
    /\ pc = "check"
    /\ \/ stopped /\ pc' = "exited" /\ UNCHANGED <<due, believed>>
       \/ ~stopped /\ ~ResyncDue /\ pc' = "wait" /\ UNCHANGED <<due, believed>>
       \/ /\ ~stopped /\ ResyncDue
          /\ pc' = "probe"
          /\ due' = FALSE
          /\ believed' = lastStatus
    /\ UNCHANGED <<configVars, status, lastStatus, gauge, resyncVars, reading,
                   driverVars, queued, errors, zeros>>

\* A fresh subscription is answered with the current value, and our own watch gets
\* the same event: the echo.
ProbeOk ==
    /\ pc = "probe"
    /\ ~dead
    /\ reading' = clients
    /\ queued' = clients
    /\ Reread(clients)
    /\ held' = FALSE
    /\ pc' = "drain"
    /\ UNCHANGED <<configVars, status, lastStatus, gauge, streak, disabled, due,
                   believed, driverVars, errors>>

\* on_probe_error: a permanent failure ends the re-reads, EBUSY postpones the next
\* one, anything else waits for the next tick.
ProbeFails ==
    /\ pc = "probe"
    /\ dead \/ errors < MaxProbeErrors
    /\ errors' = IF dead THEN errors ELSE errors + 1
    /\ \/ disabled' = TRUE /\ UNCHANGED held
       \/ held' = TRUE /\ UNCHANGED disabled
       \/ UNCHANGED <<disabled, held>>
    /\ believed' = "None"
    /\ pc' = "wait"
    /\ UNCHANGED <<configVars, status, lastStatus, gauge, streak, due, reading,
                   driverVars, queued, zeros>>

\* drain_probe_echo: take the echo off the watch; another value than the probe's is
\* newer, and settles this tick.
Drain ==
    /\ pc = "drain"
    /\ \/ /\ dead \/ queued \in {NoReading, reading}
          /\ pc' = "reconcile"
          /\ queued' = IF dead THEN queued ELSE NoReading
          /\ KeepVerdict /\ UNCHANGED <<streak, tickVars, zeros>>
       \/ /\ ~dead /\ queued \notin {NoReading, reading}
          /\ NoteExternalEvent
          /\ ApplyUsage(queued)
          /\ Witnessed(queued)
          /\ queued' = NoReading
          /\ reading' = NoReading /\ believed' = "None"
          /\ pc' = "wait"
    /\ UNCHANGED <<configVars, disabled, held, due, driverVars, errors>>

-----------------------------------------------------------------------------
(* reconcile: the re-read value against the verdict of before the probe. *)

Confirmed == streak + 1 >= Confirmations

Reconcile ==
    /\ pc = "reconcile"
    /\ LET observed == StatusOf(reading) IN
       \/ /\ believed \notin {"Present", "Absent"}            \* nothing to compare with
          /\ ApplyUsage(reading) /\ UNCHANGED streak
       \/ /\ believed = observed
          /\ streak' = 0 /\ KeepVerdict
       \/ /\ believed = "Absent" /\ observed = "Present"      \* wake at once
          /\ streak' = 0 /\ ApplyUsage(reading)
       \/ /\ believed = "Present" /\ observed = "Absent"      \* a downgrade
          /\ IF Confirmed THEN streak' = 0 /\ ApplyUsage(reading)
                          ELSE streak' = streak + 1 /\ KeepVerdict
    /\ pc' = "wait"
    /\ reading' = NoReading /\ believed' = "None"
    /\ UNCHANGED <<configVars, disabled, held, due, driverVars, queued, errors, zeros>>

\* Fault: the parked thread does not look at the flags.
LeaveHeuristicOnly ==
    /\ pc = "heuristic"
    /\ stopped
    /\ pc' = "exited"
    /\ UNCHANGED <<configVars, status, lastStatus, gauge, resyncVars, due, tickVars,
                   driverVars, queued, errors, zeros>>
\* park_until_stopped, and the heuristic's loops, end with the flags.
Leave ==
    /\ pc \in {"parked", "heuristic"}
    /\ stopped
    /\ pc' = "exited"
    /\ UNCHANGED <<configVars, status, lastStatus, gauge, resyncVars, due, tickVars,
                   driverVars, queued, errors, zeros>>

\* What module Heuristic publishes once it has taken over.
HeuristicPublishes ==
    /\ pc = "heuristic"
    /\ ~stopped
    /\ \E verdict \in ConsumerStatus : Publish(verdict)
    /\ UNCHANGED <<configVars, pc, gauge, resyncVars, due, tickVars, driverVars, queued,
                   errors, zeros>>

-----------------------------------------------------------------------------
(* The driver, the clock and the supervisor. *)

\* A client starts or stops streaming; the event may get lost.
ClientChanges ==
    /\ ~dead
    /\ clients' = 1 - clients
    /\ \/ queued' = (IF watched THEN clients' ELSE NoReading) /\ UNCHANGED lost
       \/ /\ watched /\ lost < MaxLost
          /\ lost' = lost + 1 /\ UNCHANGED queued
    /\ UNCHANGED <<configVars, threadVars, resyncVars, due, tickVars, dead, stopped,
                   errors, zeros>>

\* The device is removed or the module unloaded.
SubscriptionDies ==
    /\ ~dead
    /\ dead' = TRUE
    /\ UNCHANGED <<configVars, threadVars, resyncVars, due, tickVars, clients, stopped,
                   lost, queued, errors, zeros>>

\* The run ends (`running`) or the handle is dropped (`stopped`).
Stop ==
    /\ ~stopped
    /\ stopped' = TRUE
    /\ UNCHANGED <<configVars, threadVars, resyncVars, due, tickVars, clients, dead,
                   lost, queued, errors, zeros>>

IntervalElapses ==
    /\ resync /\ ~due
    /\ due' = TRUE
    /\ UNCHANGED <<configVars, threadVars, resyncVars, tickVars, driverVars, queued,
                   errors, zeros>>

BackoffElapses ==
    /\ held
    /\ held' = FALSE
    /\ UNCHANGED <<configVars, threadVars, streak, disabled, due, tickVars, driverVars,
                   queued, errors, zeros>>

Thread == \/ Start \/ Wait \/ Check \/ ProbeOk \/ ProbeFails \/ Drain \/ Reconcile
          \/ Leave
Clock  == IntervalElapses \/ BackoffElapses
Driver == ClientChanges \/ SubscriptionDies

Init ==
    /\ mode \in Mode /\ watched \in BOOLEAN /\ resync \in BOOLEAN
    /\ pc = "start"
    /\ status = "Unknown" /\ lastStatus = "None" /\ gauge = 0
    /\ streak = 0 /\ disabled = FALSE /\ held = FALSE /\ due = FALSE
    /\ reading = NoReading /\ believed = "None"
    /\ clients \in Count
    /\ queued = (IF watched THEN clients ELSE NoReading)        \* SEND_INITIAL
    /\ dead = FALSE /\ stopped = FALSE
    /\ lost = 0 /\ errors = 0 /\ zeros = 0

Next == Thread \/ HeuristicPublishes \/ Clock \/ Driver \/ Stop

Spec == Init /\ [][Next]_vars

(***************************************************************************)
(* The thread keeps being scheduled and time passes.  Nothing obliges a    *)
(* client to come or go, the driver to fail or the run to end, and a probe *)
(* that keeps failing is bounded by MaxProbeErrors only.                   *)
(***************************************************************************)
FairSpec == Spec /\ WF_vars(Thread) /\ WF_vars(IntervalElapses) /\ WF_vars(BackoffElapses)

-----------------------------------------------------------------------------
(* What the detector promises. *)

\* Type invariant.
TypeOK ==
    /\ mode \in Mode /\ watched \in BOOLEAN /\ resync \in BOOLEAN
    /\ pc \in PCs
    /\ status \in ConsumerStatus /\ lastStatus \in Verdict
    /\ gauge \in Count
    /\ streak \in 0..(Confirmations - 1)
    /\ disabled \in BOOLEAN /\ held \in BOOLEAN /\ due \in BOOLEAN
    /\ reading \in Reading /\ believed \in Verdict
    /\ (pc \in {"drain", "reconcile"} => reading \in Count)
    /\ clients \in Count /\ queued \in Reading
    /\ dead \in BOOLEAN /\ stopped \in BOOLEAN
    /\ lost \in Nat /\ errors \in Nat /\ zeros \in 0..Confirmations

\* While the kernel source runs, the verdict and the client count on the metrics line
\* never contradict each other (the comment of apply_usage), whichever of the event
\* path, the drained echo and the re-read wrote last.
VerdictMatchesCount ==
    pc \in {"wait", "check", "probe", "drain", "reconcile"} /\ status # "Unknown"
        => status = StatusOf(gauge)

\* A Present verdict is only taken back by an event that says nobody streams, or by
\* two re-reads that say so with nothing in between saying otherwise
\* (RESYNC_ABSENT_CONFIRMATIONS): a single stale re-read never closes the camera.
DowngradeNeedsEvidence ==
    [][ status = "Present" /\ status' = "Absent" /\ pc # "heuristic"
            => \/ pc \in {"wait", "drain"} /\ queued = 0
               \/ zeros = Confirmations ]_vars

\* A strict detector without a subscription leaves the worker with Unknown, not with
\* the last verdict: idle never engages on something nobody maintains any more.
BlindStaysUnknown ==
    mode = "kernel_event" /\ pc = "parked" => status = "Unknown"

\* Whatever events were lost, the verdict comes to agree with the driver, as long as
\* re-reads are configured and possible and the clients hold still.
VerdictSettles ==
    \A count \in Count :
        <>[](/\ clients = count /\ ~dead /\ ~stopped /\ resync /\ ~disabled /\ watched
             /\ mode \in {"auto", "kernel_event"})
            => <>[](status = StatusOf(count))

\* The handle's Drop joins the thread, so it ends whatever it is doing.
StopHonoured == stopped ~> (pc = "exited")
=============================================================================
