------------------------------- MODULE Preview -------------------------------
(***************************************************************************)
(* The live preview of the editor (components/preview of fluxframe-gui): a *)
(* GStreamer pipeline that reads the daemon's loopback device, driven by   *)
(* four flags.                                                             *)
(*                                                                         *)
(* Three kinds of threads act.  The window's main thread runs callbacks to *)
(* their end: map, unmap and suspend signals, the polling timer, the retry *)
(* timer, the bus watch, Drop.  A restart worker changes the state of the  *)
(* pipeline.  The streaming thread of the pipeline fills the mailbox.      *)
(* gtk is where the main thread is inside a callback; the other threads    *)
(* may act there.                                                          *)
(*                                                                         *)
(* set_state is one step: GStreamer serialises it, and Null returns after  *)
(* the streaming thread has stopped and the bus was flushed.               *)
(***************************************************************************)
EXTENDS Naturals, FiniteSets

CONSTANTS
    Workers,     \* bound: identities of restart workers alive at once
    MaxWishes,   \* bound: map, unmap, suspend and resume signals
    MaxTroubles  \* bound: starts that fail and streams that break

ASSUME PreviewAssumption ==
    /\ IsFiniteSet(Workers) /\ Workers # {}
    /\ MaxWishes \in Nat
    /\ MaxTroubles \in Nat

VARIABLES
    widget,     \* "none", "inert", "live" or "dropped"
    window,     \* what the window shows: mapped, suspended, and whether the
                \* preview has subscribed to the suspended property
    running,    \* Live::running: timers and bus watch are installed
    flags,      \* RestartFlags
    pipeline,   \* "Null", "Ready" (a failed start), "Starting" (below Playing,
                \* with Playing pending) or "Playing"
    broken,     \* the stream has ended though the pipeline reports none of it
    bus,        \* an Error or Eos is queued on the bus
    worker,     \* each restart worker: its next step and its target
    gtk,        \* rest of the callback the main thread is in, or "idle"
    mailbox,    \* the sample waiting: the activation it was made in (0: none)
    shown,      \* what the stack shows: child and the activation of its sample
    era,        \* history: number of activations
    forgotten,  \* history: an activation has cleared needs_restart, while the
                \* worker that would reset the pipeline had reset it already
    used        \* how much of the bounds is used

vars == <<widget, window, running, flags, pipeline, broken, bus, worker, gtk, mailbox,
          shown, era, forgotten, used>>
history == <<era, forgotten>>

(***************************************************************************)
(* What is streamed.  daemon_info names the output; a daemon too old to    *)
(* report it is taken to write to the legacy device.                       *)
(***************************************************************************)
Outputs == {"unreported", "v4l2", "pipewire", "auto", "fakesink", "unknown"}

TargetFor(output) == IF output \in {"unreported", "v4l2"} THEN "device" ELSE "unavailable"

\* build: inert unless there is a device, GStreamer and every element.
BuildResult(output, gstReady, elements) ==
    IF gstReady /\ TargetFor(output) = "device" /\ elements THEN "live" ELSE "inert"

ShouldBeActive(mapped, suspended) == mapped /\ ~suspended

DesiredState(f) == IF f.active /\ ~f.shutting_down THEN "Playing" ELSE "Null"

ShouldRestart(state, needs_restart, in_flight) ==
    ~in_flight /\ (needs_restart \/ state \notin {"Starting", "Playing"})

Off == [at |-> "off", target |-> "Null"]

Init ==
    /\ widget = "none"
    /\ window = [mapped |-> FALSE, suspended |-> FALSE, followed |-> FALSE]
    /\ running = FALSE
    /\ flags = [needs_restart |-> FALSE, restart_in_flight |-> FALSE,
                shutting_down |-> FALSE, active |-> FALSE]
    /\ pipeline = "Null"
    /\ broken = FALSE
    /\ bus = FALSE
    /\ worker = [w \in Workers |-> Off]
    /\ gtk = "idle"
    /\ mailbox = 0
    /\ shown = [child |-> "placeholder", of |-> 0]
    /\ era = 0
    /\ forgotten = FALSE
    /\ used = [wishes |-> 0, troubles |-> 0]

Build ==
    /\ widget = "none"
    /\ \E output \in Outputs, gstReady \in BOOLEAN, elements \in BOOLEAN :
            widget' = BuildResult(output, gstReady, elements)
    /\ UNCHANGED <<window, running, flags, pipeline, broken, bus, worker, gtk, mailbox,
                   shown, history, used>>

(***************************************************************************)
(* spawn_restart_worker: a worker starts unless one is in flight, which    *)
(* then reads the wish again by itself.                                    *)
(***************************************************************************)
\* Fault: another worker starts whatever is in flight.
SpawnAlways(f) ==
    \E w \in Workers :
        /\ worker[w].at = "off"
        /\ worker' = [worker EXCEPT ![w] = [at |-> "target", target |-> "Null"]]
        /\ flags' = [f EXCEPT !.restart_in_flight = TRUE]

Spawn(f) ==
    IF f.restart_in_flight
    THEN flags' = f /\ UNCHANGED worker
    ELSE \E w \in Workers :
            /\ worker[w].at = "off"
            /\ worker' = [worker EXCEPT ![w] = [at |-> "target", target |-> "Null"]]
            /\ flags' = [f EXCEPT !.restart_in_flight = TRUE]

(***************************************************************************)
(* set_active, called by the signals: nothing if the preview is as wished, *)
(* and otherwise the sources and the flag first, the worker next, and when *)
(* it stops, the mailbox and the placeholder last.                         *)
(***************************************************************************)
SetActive(active) ==
    CASE active /\ ~running ->
            /\ running' = TRUE
            /\ flags' = [flags EXCEPT !.needs_restart = FALSE, !.active = TRUE]
            /\ era' = era + 1
            /\ forgotten' = (broken /\ flags.needs_restart /\ flags.restart_in_flight)
            /\ gtk' = "start"
      [] ~active /\ running ->
            /\ running' = FALSE
            /\ flags' = [flags EXCEPT !.active = FALSE]
            /\ gtk' = "stop"
            /\ UNCHANGED history
      [] active = running -> UNCHANGED <<running, flags, history, gtk>>

\* Map, unmap and the window's suspended property, which is heard of once the
\* first map has subscribed to it.
Signal ==
    /\ widget = "live"
    /\ gtk = "idle"
    /\ used.wishes < MaxWishes
    /\ used' = [used EXCEPT !.wishes = @ + 1]
    /\ \/ window' = [window EXCEPT !.mapped = ~@, !.followed = TRUE]
       \/ window' = [window EXCEPT !.suspended = ~@]
    /\ IF window'.followed
       THEN SetActive(ShouldBeActive(window'.mapped, window'.suspended))
       ELSE UNCHANGED <<running, flags, history, gtk>>
    /\ UNCHANGED <<widget, pipeline, broken, bus, worker, mailbox, shown>>

SpawnForWish ==
    /\ gtk \in {"start", "stop"}
    /\ Spawn(flags)
    /\ gtk' = IF gtk = "start" THEN "idle" ELSE "clear"
    /\ UNCHANGED <<widget, window, running, pipeline, broken, bus, mailbox, shown, history, used>>

\* Fault: the picture of the last sample stays up.
ClearMailboxOnly ==
    /\ gtk = "clear"
    /\ mailbox' = 0
    /\ gtk' = "idle"
    /\ UNCHANGED <<widget, window, running, flags, pipeline, broken, bus, worker, shown, history, used>>

ClearMailbox ==
    /\ gtk = "clear"
    /\ mailbox' = 0
    /\ shown' = [shown EXCEPT !.child = "placeholder"]
    /\ gtk' = "idle"
    /\ UNCHANGED <<widget, window, running, flags, pipeline, broken, bus, worker, history, used>>

(***************************************************************************)
(* The timers and the bus watch, installed while running.                  *)
(***************************************************************************)
Poll ==
    /\ running
    /\ gtk = "idle"
    /\ mailbox' = 0
    /\ shown' = IF flags.needs_restart THEN [shown EXCEPT !.child = "placeholder"]
                ELSE IF mailbox # 0 THEN [child |-> "picture", of |-> mailbox]
                ELSE shown
    /\ UNCHANGED <<widget, window, running, flags, pipeline, broken, bus, worker, gtk, history, used>>

BusWatch ==
    /\ running
    /\ gtk = "idle"
    /\ bus
    /\ bus' = FALSE
    /\ flags' = [flags EXCEPT !.needs_restart = TRUE]
    /\ UNCHANGED <<widget, window, running, pipeline, broken, worker, gtk, mailbox, shown, history, used>>

\* install_retry_timer: look first, ...
RetryLooks ==
    /\ running
    /\ gtk = "idle"
    /\ ShouldRestart(pipeline, flags.needs_restart, flags.restart_in_flight)
    /\ gtk' = "retry"
    /\ UNCHANGED <<widget, window, running, flags, pipeline, broken, bus, worker, mailbox,
                   shown, history, used>>

\* ... then start a worker, and forget the request only if one was started:
\* another may have taken over in between.
RetrySpawns ==
    /\ gtk = "retry"
    /\ Spawn(IF flags.restart_in_flight THEN flags ELSE [flags EXCEPT !.needs_restart = FALSE])
    /\ gtk' = "idle"
    /\ UNCHANGED <<widget, window, running, pipeline, broken, bus, mailbox, shown, history, used>>

(***************************************************************************)
(* Drop: signals and sources go first, then the flags, then the pipeline.  *)
(***************************************************************************)
Drop ==
    /\ widget = "live"
    /\ gtk = "idle"
    /\ widget' = "dropped"
    /\ running' = FALSE
    /\ flags' = [flags EXCEPT !.active = FALSE]
    /\ gtk' = "shutdown"
    /\ UNCHANGED <<window, pipeline, broken, bus, worker, mailbox, shown, history, used>>

DropRaisesFlag ==
    /\ gtk = "shutdown"
    /\ flags' = [flags EXCEPT !.shutting_down = TRUE]
    /\ gtk' = "null"
    /\ UNCHANGED <<widget, window, running, pipeline, broken, bus, worker, mailbox, shown, history, used>>

DropStops ==
    /\ gtk = "null"
    /\ pipeline' = "Null" /\ broken' = FALSE /\ bus' = FALSE
    /\ gtk' = "gone"
    /\ UNCHANGED <<widget, window, running, flags, worker, mailbox, shown, history, used>>

(***************************************************************************)
(* A restart worker.  Read the wish, reset, play if wished, let go of the  *)
(* flag, read the wish again, and start over if it has changed and nobody  *)
(* else has taken the flag.                                                *)
(***************************************************************************)
At(w, step) == worker' = [worker EXCEPT ![w].at = step]

WorkerReads(w) ==
    /\ worker[w].at = "target"
    /\ worker' = [worker EXCEPT ![w] = [at |-> "reset", target |-> DesiredState(flags)]]
    /\ UNCHANGED <<widget, window, running, flags, pipeline, broken, bus, gtk, mailbox, shown, history, used>>

WorkerResets(w) ==
    /\ worker[w].at = "reset"
    /\ pipeline' = "Null" /\ broken' = FALSE /\ bus' = FALSE
    /\ At(w, IF worker[w].target = "Playing" THEN "play" ELSE "release")
    /\ forgotten' = FALSE
    /\ UNCHANGED <<widget, window, running, flags, gtk, mailbox, shown, era, used>>

\* set_state(Playing): done at once, or left pending; a failure is only logged,
\* and posted on the bus.
WorkerPlays(w) ==
    /\ worker[w].at = "play"
    /\ \/ pipeline' \in {"Starting", "Playing"} /\ UNCHANGED <<bus, used>>
       \/ /\ used.troubles < MaxTroubles
          /\ used' = [used EXCEPT !.troubles = @ + 1]
          /\ pipeline' = "Ready" /\ bus' = TRUE
    /\ At(w, "release")
    /\ UNCHANGED <<widget, window, running, flags, broken, gtk, mailbox, shown, history>>

\* Fault: the worker does not look at the wish again.
WorkerLeaves(w) ==
    /\ worker[w].at = "release"
    /\ flags' = [flags EXCEPT !.restart_in_flight = FALSE]
    /\ At(w, "off")
    /\ UNCHANGED <<widget, window, running, pipeline, broken, bus, gtk, mailbox, shown, history, used>>

WorkerReleases(w) ==
    /\ worker[w].at = "release"
    /\ flags' = [flags EXCEPT !.restart_in_flight = FALSE]
    /\ At(w, "compare")
    /\ UNCHANGED <<widget, window, running, pipeline, broken, bus, gtk, mailbox, shown, history, used>>

WorkerCompares(w) ==
    /\ worker[w].at = "compare"
    /\ At(w, IF DesiredState(flags) = worker[w].target THEN "off" ELSE "retake")
    /\ UNCHANGED <<widget, window, running, flags, pipeline, broken, bus, gtk, mailbox, shown, history, used>>

WorkerRetakes(w) ==
    /\ worker[w].at = "retake"
    /\ At(w, IF flags.restart_in_flight THEN "off" ELSE "target")
    /\ flags' = [flags EXCEPT !.restart_in_flight = TRUE]
    /\ UNCHANGED <<widget, window, running, pipeline, broken, bus, gtk, mailbox, shown, history, used>>

Worker ==
    \E w \in Workers :
        \/ WorkerReads(w) \/ WorkerResets(w) \/ WorkerPlays(w)
        \/ WorkerReleases(w) \/ WorkerCompares(w) \/ WorkerRetakes(w)

(***************************************************************************)
(* The streaming thread: it completes a pending start, the appsink         *)
(* callback replaces the sample in the mailbox, and an error or the end of *)
(* the stream, of one that is only starting too, goes to the bus.          *)
(***************************************************************************)
Prerolls ==
    /\ pipeline = "Starting" /\ ~broken
    /\ pipeline' = "Playing"
    /\ UNCHANGED <<widget, window, running, flags, broken, bus, worker, gtk, mailbox, shown,
                   history, used>>

Sample ==
    /\ pipeline = "Playing" /\ ~broken
    /\ mailbox' = era
    /\ UNCHANGED <<widget, window, running, flags, pipeline, broken, bus, worker, gtk, shown, history, used>>

StreamBreaks ==
    /\ pipeline \in {"Starting", "Playing"} /\ ~broken
    /\ used.troubles < MaxTroubles
    /\ used' = [used EXCEPT !.troubles = @ + 1]
    /\ broken' = TRUE /\ bus' = TRUE
    /\ UNCHANGED <<widget, window, running, flags, pipeline, worker, gtk, mailbox, shown, history>>

Main ==
    \/ SpawnForWish
    \/ ClearMailbox
    \/ RetrySpawns
    \/ DropRaisesFlag
    \/ DropStops

Next ==
    \/ Build
    \/ Signal
    \/ Main
    \/ Poll
    \/ BusWatch
    \/ RetryLooks
    \/ Drop
    \/ Worker
    \/ Prerolls
    \/ Sample
    \/ StreamBreaks

\* Threads are scheduled, the main loop dispatches its timers and the bus,
\* a pending start succeeds or fails (the retry timer waits for it for ever),
\* and a stream that plays delivers.  The operator has no obligations.
Fairness ==
    /\ WF_vars(Main)
    /\ WF_vars(Poll)
    /\ WF_vars(BusWatch)
    /\ SF_vars(RetryLooks)
    /\ \A w \in Workers :
        WF_vars(WorkerReads(w) \/ WorkerResets(w) \/ WorkerPlays(w)
                \/ WorkerReleases(w) \/ WorkerCompares(w) \/ WorkerRetakes(w))
    /\ WF_vars(Prerolls)
    /\ WF_vars(Sample)

Spec == Init /\ [][Next]_vars /\ Fairness

(***************************************************************************)
(* What the preview owes its window and the daemon.                        *)
(***************************************************************************)
\* Between taking and releasing restart_in_flight there is one worker: no two
\* interleave Null and Playing on the pipeline (spawn_restart_worker).
OneWorkerDrives ==
    /\ Cardinality({w \in Workers : worker[w].at \in {"target", "reset", "play", "release"}}) <= 1
    /\ (\E w \in Workers : worker[w].at \in {"target", "reset", "play", "release"})
            => flags.restart_in_flight

\* The last wish wins: once the operator and the device have come to rest the
\* pipeline plays, unbroken, if the preview is wanted, and is Null, with the
\* loopback closed so that the daemon may go idle, if it is hidden or dropped.
\* The exception is a restart request that an activation has forgotten: the
\* stream stays broken, in the state it broke in.
LastWishWins ==
    <>[](IF flags.active THEN IF broken THEN forgotten /\ pipeline \in {"Starting", "Playing"}
                                        ELSE pipeline = "Playing"
                         ELSE pipeline = "Null")

\* An active preview ends up showing the picture, of a sample of its own
\* activation, and a hidden one the placeholder; the exception is the same.
PaneFollows ==
    <>[](widget = "live" =>
            IF flags.active THEN forgotten \/ shown = [child |-> "picture", of |-> era]
            ELSE shown.child = "placeholder")

\* "The retry timer needs this flag to know a restart is due" (install_bus_watch):
\* a stream that breaks while the preview is wanted is restarted.  It is not if
\* the pane is hidden and shown again while the worker that started the stream
\* has not let go of restart_in_flight: the new activation clears the request,
\* and the worker finds its target unchanged and leaves.
BrokenStreamIsRestarted == (flags.active /\ broken) ~> (~flags.active \/ ~broken)

\* What the comment in set_active promises, "re-activation does not flash" a
\* stale frame.  It does not hold: the mailbox is emptied before the worker
\* has stopped the stream, which can fill it once more.
NoStaleFlash == shown.child = "picture" => shown.of = era
==============================================================================
