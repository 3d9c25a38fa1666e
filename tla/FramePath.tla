------------------------------ MODULE FramePath ------------------------------
(***************************************************************************)
(* The path of a frame through one run: the camera's appsink callback      *)
(* (input.rs), the slot (slot.rs), the worker's loop over the effect chain *)
(* (run_process_loop, tick_idle and teardown of runtime.rs), the composite *)
(* mailbox and the writer thread (output.rs).  Four threads act: the       *)
(* capture thread, the worker, the reload thread and the writer; Ctrl-C     *)
(* may come once.                                                          *)
(*                                                                         *)
(* Time is left out: consumers come and go and their grace elapses between *)
(* any two ticks, so a tick may change the level or not; a receive may     *)
(* time out whenever the slot is empty, the writer may tick at any moment.  A camera  *)
(* that is lost comes back with the first attempt; the retries, the budget *)
(* and the ways to give up are module Supervisor.                          *)
(***************************************************************************)
EXTENDS Composite

CONSTANTS
    MaxFrames,       \* bound: frames the camera captures
    MaxPauses,       \* bound: times the run enters idle
    MaxFills,        \* bound: times a parked worker times out and fills again
    MaxLosses,       \* bound: times the camera is lost
    MaxMisses,       \* bound: failed inferences
    MaxCommands,     \* bound: control commands that change the mask chain
    MaxPushFailures, \* bound: buffers appsrc refuses
    MaxEvents        \* bound: pauses, losses, misses, commands and refusals together

ASSUME BoundsAssumption ==
    /\ MaxFrames \in Nat
    /\ MaxPauses \in Nat
    /\ MaxFills \in Nat
    /\ MaxLosses \in Nat
    /\ MaxMisses \in Nat
    /\ MaxCommands \in Nat
    /\ MaxPushFailures \in Nat
    /\ MaxEvents \in Nat

VARIABLES
    running,    \* the run's flag: FALSE after Ctrl-C or at the end of the run
    camera,     \* state of the input pipeline: "Null" or "Playing"; "Lost": the
                \* device died and the bus listener has raised the failure
    captured,   \* number of the newest frame the appsink callback has pushed
    slot,       \* LatestFrameSlot: frame (0: empty), dropped, closed
    takes,      \* history: receives that returned a frame, and the newest of them
    pc,         \* the worker's next step
    level,      \* level of the idle state machine: "Active" or "Idle"
    ready,      \* engine_ready
    reload,     \* the reload thread: its next set_state, or "none"
    composite,  \* the composite effect
    cur,        \* the picture process_one_frame is about to push (frame 0: none)
    fallback,   \* WorkerState::prev_fallback and the fallback counter
    result,     \* what run_process_loop returned
    out,        \* OutputPipeline: its state, started, frame_counter, latest
    appsrc,     \* what appsrc was given: newest seq, count, and whether EOS
    writer,     \* the writer thread: next step, its snapshot, last_pushed_seq
    used,       \* what the bounds have left out so far
    ghost       \* history the properties speak about

workerVars == <<pc, level, composite, cur, fallback, result>>
vars == <<running, camera, captured, slot, takes, pc, level, ready, reload,
          composite, cur, fallback, result, out, appsrc, writer, used, ghost>>

(***************************************************************************)
(* latest: what push_frame published last, a placeholder or the live       *)
(* picture of a frame, under the pipeline's own sequence number.           *)
(***************************************************************************)
Nothing == [seq |-> 0, frame |-> 0]

\* Another event of the kind fits into its own bound and the common one.
Within(n, max) ==
        /\ n < max
    /\ used.pauses + used.losses + used.misses + used.commands + used.refusals < MaxEvents

PCs == {"start", "acquire", "loop", "clear", "resume", "fill", "park", "receive", "process",
        "push", "recover",
        "reacquire", "recovered", "closeSlot", "stopInput", "stopOutput", "join", "eos", "outputNull", "ended"}

Init ==
    /\ running = TRUE
    /\ camera = "Null"
    /\ captured = 0
    /\ slot = [frame |-> 0, dropped |-> 0, closed |-> FALSE]
    /\ takes = [newest |-> 0, count |-> 0]
    /\ pc = "start"
    /\ level = "Active"
    /\ ready = TRUE
    /\ reload = "none"
    /\ composite = Prepare(NewComposite(<<Slot("smooth_temporal", TRUE), Slot("feather", FALSE)>>,
                                        <<Slot("blur", TRUE)>>, <<Slot("sharpen", TRUE)>>,
                                        <<Slot("vignette", TRUE)>>))
    /\ cur = [frame |-> 0, picture |-> Raw(0)]
    /\ fallback = [active |-> FALSE, edges |-> 0]
    /\ result = "none"
    /\ out = [state |-> "Null", started |-> FALSE, counter |-> 1, latest |-> Nothing]
    /\ appsrc = [newest |-> 0, frame |-> 0, count |-> 0, eos |-> FALSE]
    /\ writer = [at |-> "off", has |-> Nothing, last |-> 0]
    /\ used = [pauses |-> 0, losses |-> 0, fills |-> 0, misses |-> 0, commands |-> 0, refusals |-> 0]
    /\ ghost = [cut |-> 0, misses |-> 0, enabledAt |-> 0]

(***************************************************************************)
(* The slot.                                                               *)
(***************************************************************************)
SlotPush(s, frame) ==
    IF s.closed THEN s
    ELSE [s EXCEPT !.frame = frame, !.dropped = @ + (IF s.frame # 0 THEN 1 ELSE 0)]

SlotTake(s) == [s EXCEPT !.frame = 0]

\* Fault: the frame captured last before the pause stays in the slot.
SlotNotCleared(s) == s

SlotClear(s) == [s EXCEPT !.frame = 0]

SlotClose(s) == [s EXCEPT !.frame = 0, !.closed = TRUE]

\* recv_timeout handing a frame to the worker.
Take ==
    /\ slot.frame # 0
    /\ slot' = SlotTake(slot)
    /\ takes' = [newest |-> slot.frame, count |-> takes.count + 1]

(***************************************************************************)
(* The capture thread: while the pipeline plays, a sample becomes a frame  *)
(* and goes into the slot.  set_state(Null) returns once it has stopped.   *)
(***************************************************************************)
Capture ==
    /\ camera = "Playing"
    /\ captured < MaxFrames
    /\ captured' = captured + 1
    /\ slot' = SlotPush(slot, captured + 1)
    /\ UNCHANGED <<running, camera, takes, ready, reload, out, appsrc, writer, used, ghost>>
    /\ UNCHANGED workerVars

(***************************************************************************)
(* push_frame: refused before start, and otherwise the new latest under    *)
(* the next sequence number, whatever number the frame carries itself.     *)
(***************************************************************************)
\* Fault: the mailbox keeps the number the frame brought with it.
PublishUnderFrameNumber(o, frame) ==
    IF o.started THEN [o EXCEPT !.latest = [seq |-> frame, frame |-> frame]] ELSE o

Publish(o, frame) ==
    IF o.started
    THEN [o EXCEPT !.latest = [seq |-> o.counter, frame |-> frame], !.counter = @ + 1]
    ELSE o

Placeholder == 0

(***************************************************************************)
(* The worker.  run_chain starts the output before it acquires the camera. *)
(***************************************************************************)
StartOutput ==
    /\ pc = "start"
    /\ \/ /\ out' = [out EXCEPT !.state = "Playing", !.started = TRUE]
          /\ writer' = [writer EXCEPT !.at = "check"]
          /\ pc' = "acquire"
          /\ UNCHANGED result
       \/ /\ out' \in {out, [out EXCEPT !.state = "Playing", !.started = TRUE]}
          /\ result' = "error"
          /\ pc' = "ended"
          /\ UNCHANGED writer
    /\ UNCHANGED <<running, camera, captured, slot, takes, level, ready, reload,
                   composite, cur, fallback, appsrc, used, ghost>>

AcquireInput ==
    /\ pc = "acquire"
    /\ camera' = "Playing"
    /\ pc' = "loop"
    /\ UNCHANGED <<running, captured, slot, takes, level, ready, reload, composite, cur,
                   fallback, result, out, appsrc, writer, used, ghost>>

\* drain_control_commands: between two frames a command turns smooth_temporal
\* on or off, or gives it another factor.
Command ==
    /\ pc = "loop"
    /\ running /\ camera # "Lost"
    /\ Within(used.commands, MaxCommands)
    /\ \/ \E on \in BOOLEAN :
            /\ composite' = [composite EXCEPT !.mask = SetEnabled(@, "smooth_temporal", on)]
            /\ ghost' = IF on /\ ~composite.mask[1].enabled
                        THEN [ghost EXCEPT !.enabledAt = takes.newest] ELSE ghost
       \/ \E live \in BOOLEAN :
            /\ composite' = [composite EXCEPT !.mask = Reconfigure(@, "smooth_temporal", live)]
            /\ UNCHANGED ghost
       \/ /\ composite' = ReplaceSubchain(composite, "mask", <<Slot("smooth_temporal", TRUE),
                                                              Slot("feather", FALSE)>>)
          /\ ghost' = [ghost EXCEPT !.enabledAt = takes.newest]
    /\ used' = [used EXCEPT !.commands = @ + 1]
    /\ UNCHANGED <<running, camera, captured, slot, takes, pc, level, ready, reload, cur,
                   fallback, result, out, appsrc, writer>>

\* The loop's condition: leave it once the run was told to stop.
LeaveLoop ==
    /\ pc = "loop"
    /\ ~running
    /\ reload = "none"           \* an in-flight reload is joined first
    /\ pc' = "closeSlot"
    /\ result' = "stopped"
    /\ UNCHANGED <<running, camera, captured, slot, takes, level, ready, reload, composite,
                   cur, fallback, out, appsrc, writer, used, ghost>>

(***************************************************************************)
(* The camera is lost: the worker leaves its loop for recover_input, which *)
(* publishes a placeholder, takes the pipeline to Null, clears the slot,   *)
(* and clears it again after the pipeline plays, since a first frame may   *)
(* have landed by then.  The loop starts over with a new WorkerState.      *)
(***************************************************************************)
CameraLost ==
    /\ camera = "Playing"
    /\ pc \notin {"start", "acquire"}
    /\ Within(used.losses, MaxLosses)
    /\ camera' = "Lost"
    /\ used' = [used EXCEPT !.losses = @ + 1]
    /\ UNCHANGED <<running, captured, slot, takes, ready, reload, out, appsrc, writer, ghost>>
    /\ UNCHANGED workerVars

Recover ==
    /\ pc = "loop"
    /\ running
    /\ camera = "Lost"
    /\ reload = "none"
    /\ out' = Publish(out, Placeholder)
    /\ pc' = "recover"
    /\ UNCHANGED <<running, camera, captured, slot, takes, level, ready, reload, composite, cur,
                   fallback, result, appsrc, writer, used, ghost>>

RecoverToNull ==
    /\ pc = "recover"
    /\ camera' = "Null"
    /\ slot' = SlotClear(slot)
    /\ pc' = "reacquire"
    /\ UNCHANGED <<running, captured, takes, level, ready, reload, composite, cur, fallback, result,
                   out, appsrc, writer, used, ghost>>

Reacquire ==
    /\ pc = "reacquire"
    /\ camera' = IF running THEN "Playing" ELSE camera
    /\ pc' = "recovered"
    /\ UNCHANGED <<running, captured, slot, takes, level, ready, reload, composite, cur, fallback,
                   result, out, appsrc, writer, used, ghost>>

Recovered ==
    /\ pc = "recovered"
    /\ slot' = SlotClear(slot)
    /\ ghost' = [ghost EXCEPT !.cut = captured]
    /\ fallback' = [fallback EXCEPT !.active = FALSE]
    /\ pc' = "loop"
    /\ UNCHANGED <<running, camera, captured, takes, level, ready, reload, composite, cur, result,
                   out, appsrc, writer, used>>

(***************************************************************************)
(* tick_idle and handle_idle_edge.                                         *)
(***************************************************************************)
\* The edge into idle: the camera goes to Null; the slot is cleared next.
EnterIdle ==
    /\ pc = "loop"
    /\ running /\ camera # "Lost"
    /\ level = "Active"
    /\ Within(used.pauses, MaxPauses)
    /\ level' = "Idle"
    /\ camera' = "Null"
    /\ pc' = "clear"
    /\ used' = [used EXCEPT !.pauses = @ + 1]
    /\ UNCHANGED <<running, captured, slot, takes, ready, reload, composite, cur, fallback,
                   result, out, appsrc, writer, ghost>>

ClearSlot ==
    /\ pc = "clear"
    /\ slot' = SlotClear(slot)
    /\ ghost' = [ghost EXCEPT !.cut = IF camera = "Null" THEN captured ELSE @]
    /\ pc' = "fill"
    /\ UNCHANGED <<running, camera, captured, takes, level, ready, reload, composite, cur,
                   fallback, result, out, appsrc, writer, used>>

\* The edge back: one placeholder at once, and a reload thread unless one is
\* still in flight.
ResumeActive ==
    /\ pc = "loop"
    /\ running /\ camera # "Lost"
    /\ level = "Idle"
    /\ level' = "Active"
    /\ out' = Publish(out, Placeholder)
    /\ pc' = "resume"
    /\ UNCHANGED <<running, camera, captured, slot, takes, ready, reload, composite, cur,
                   fallback, result, appsrc, writer, used, ghost>>

SpawnReload ==
    /\ pc = "resume"
    /\ IF reload = "none"
       THEN ready' = FALSE /\ reload' = "null"
       ELSE UNCHANGED <<ready, reload>>
    /\ pc' = "fill"
    /\ UNCHANGED <<running, camera, captured, slot, takes, level, composite, cur, fallback,
                   result, out, appsrc, writer, used, ghost>>

\* No edge: the level and engine_ready decide between a fill and a frame.
Tick ==
    /\ pc = "loop"
    /\ running /\ camera # "Lost"
    /\ pc' = IF level = "Active" /\ ready THEN "receive" ELSE "fill"
    /\ UNCHANGED <<running, camera, captured, slot, takes, level, ready, reload, composite,
                   cur, fallback, result, out, appsrc, writer, used, ghost>>

\* After an edge the same test decides whether the tick fills at all.
Fill ==
    /\ pc = "fill"
    /\ IF level = "Active" /\ ready
       THEN pc' = "receive" /\ UNCHANGED out
       ELSE pc' = "park" /\ out' = Publish(out, Placeholder)
    /\ UNCHANGED <<running, camera, captured, slot, takes, level, ready, reload, composite,
                   cur, fallback, result, appsrc, writer, used, ghost>>

\* Parked on the slot: a frame that lands there is thrown away, a closed slot
\* and the end of the tick wake the worker too.
Park ==
    /\ pc = "park"
    /\ pc' = "loop"
    /\ \/ Take /\ UNCHANGED used
       \/ /\ slot.frame = 0 /\ slot.closed
          /\ UNCHANGED <<slot, takes, used>>
       \/ /\ slot.frame = 0 /\ ~slot.closed
          /\ used.fills < MaxFills
          /\ used' = [used EXCEPT !.fills = @ + 1]
          /\ UNCHANGED <<slot, takes>>
    /\ UNCHANGED <<running, camera, captured, level, ready, reload, composite, cur,
                   fallback, result, out, appsrc, writer, ghost>>

\* recv_timeout in the Active loop: a frame, or nothing within the poll window.
Receive ==
    /\ pc = "receive"
    /\ \/ /\ Take
          /\ cur' = [frame |-> slot.frame, picture |-> Raw(slot.frame)]
          /\ pc' = "process"
       \/ /\ slot.frame = 0
          /\ pc' = "loop"
          /\ UNCHANGED <<slot, takes, cur>>
    /\ UNCHANGED <<running, camera, captured, level, ready, reload, composite, fallback,
                   result, out, appsrc, writer, used, ghost>>

(***************************************************************************)
(* process_one_frame: the chain, then the fallback edge, then the push.    *)
(***************************************************************************)
Edge(f, active) ==
    [active |-> active, edges |-> f.edges + (IF active /\ ~f.active THEN 1 ELSE 0)]

ProcessFrame ==
    /\ pc = "process"
    /\ \E outcome \in Outcomes :
         LET r == Process(composite, cur.frame, outcome)
         IN  /\ outcome = "miss" => Within(used.misses, MaxMisses)
             /\ used' = [used EXCEPT !.misses = @ + (IF outcome = "miss" THEN 1 ELSE 0)]
             /\ ghost' = [ghost EXCEPT !.misses = IF outcome = "miss" THEN @ + 1 ELSE 0]
             /\ composite' = r.c
             /\ IF r.result = "fatal"
                THEN /\ pc' = "closeSlot"
                     /\ result' = IF outcome = "miss" THEN "inference" ELSE "error"
                     /\ UNCHANGED <<cur, fallback>>
                ELSE /\ pc' = "push"
                     /\ cur' = [cur EXCEPT !.picture = r.picture]
                     /\ fallback' = Edge(fallback, r.result = "fallback")
                     /\ UNCHANGED result
    /\ UNCHANGED <<running, camera, captured, slot, takes, level, ready, reload, out,
                   appsrc, writer>>

PushFrame ==
    /\ pc = "push"
    /\ out' = Publish(out, cur.frame)
    /\ cur' = [frame |-> 0, picture |-> Raw(0)]
    /\ pc' = "loop"
    /\ UNCHANGED <<running, camera, captured, slot, takes, level, ready, reload, composite,
                   fallback, result, appsrc, writer, used, ghost>>

(***************************************************************************)
(* The end of a run: the flag and the slot, then teardown, which stops the *)
(* input before the output.  OutputPipeline::stop joins the writer before  *)
(* it sends the end of the stream.                                         *)
(***************************************************************************)
CloseSlot ==
    /\ pc = "closeSlot"
    /\ running' = FALSE
    /\ slot' = SlotClose(slot)
    /\ pc' = "stopInput"
    /\ UNCHANGED <<camera, captured, takes, level, ready, reload, composite, cur, fallback,
                   result, out, appsrc, writer, used, ghost>>

StopInput ==
    /\ pc = "stopInput"
    /\ camera' = "Null"
    /\ pc' = "stopOutput"
    /\ UNCHANGED <<running, captured, slot, takes, level, ready, reload, composite, cur,
                   fallback, result, out, appsrc, writer, used, ghost>>

StopOutput ==
    /\ pc = "stopOutput"
    /\ out' = [out EXCEPT !.started = FALSE]
    /\ pc' = "join"
    /\ UNCHANGED <<running, camera, captured, slot, takes, level, ready, reload, composite,
                   cur, fallback, result, appsrc, writer, used, ghost>>

\* Fault: the writer is not waited for.
JoinNobody ==
    /\ pc = "join"
    /\ pc' = "eos"
    /\ UNCHANGED <<running, camera, captured, slot, takes, level, ready, reload, composite,
                   cur, fallback, result, out, appsrc, writer, used, ghost>>

JoinWriter ==
    /\ pc = "join"
    /\ writer.at = "off"
    /\ pc' = "eos"
    /\ UNCHANGED <<running, camera, captured, slot, takes, level, ready, reload, composite,
                   cur, fallback, result, out, appsrc, writer, used, ghost>>

EndOfStream ==
    /\ pc = "eos"
    /\ appsrc' = [appsrc EXCEPT !.eos = TRUE]
    /\ pc' = "outputNull"
    /\ UNCHANGED <<running, camera, captured, slot, takes, level, ready, reload, composite,
                   cur, fallback, result, out, writer, used, ghost>>

OutputToNull ==
    /\ pc = "outputNull"
    /\ out' = [out EXCEPT !.state = "Null"]
    /\ pc' = "ended"
    /\ UNCHANGED <<running, camera, captured, slot, takes, level, ready, reload, composite,
                   cur, fallback, result, appsrc, writer, used, ghost>>

(***************************************************************************)
(* The reload thread: reacquire() is Null and then Playing, then the       *)
(* engine counts as ready again.                                           *)
(***************************************************************************)
ReloadNext == [null |-> "play", play |-> "ready", ready |-> "none"]

Reload ==
    /\ reload # "none"
    /\ reload' = ReloadNext[reload]
    /\ camera' = CASE reload = "null" -> "Null"
                   [] reload = "play" -> "Playing"
                   [] reload = "ready" -> camera
    /\ ready' = (ready \/ reload = "ready")
    /\ UNCHANGED <<running, captured, slot, takes, out, appsrc, writer, used, ghost>>
    /\ UNCHANGED workerVars

(***************************************************************************)
(* The writer thread: writer_loop, one step between two shared accesses.   *)
(***************************************************************************)
otherThanWriter == <<running, camera, captured, slot, takes, ready, reload, out, ghost>>

WriterChecks ==
    /\ writer.at = "check"
    /\ writer' = [writer EXCEPT !.at = IF out.started THEN "look" ELSE "off"]
    /\ UNCHANGED <<appsrc, used>>
    /\ UNCHANGED otherThanWriter
    /\ UNCHANGED workerVars

\* Fault: every tick pushes, the last picture again if there is no newer one.
WriterRepeats ==
    /\ writer.at = "look"
    /\ writer' = IF out.latest.seq = 0
                 THEN [writer EXCEPT !.at = "check"]
                 ELSE [writer EXCEPT !.at = "push", !.has = out.latest]
    /\ UNCHANGED <<appsrc, used>>
    /\ UNCHANGED otherThanWriter
    /\ UNCHANGED workerVars

\* Nothing published yet, or what was pushed last: no push this tick.
WriterLooks ==
    /\ writer.at = "look"
    /\ writer' = IF out.latest.seq \in {0, writer.last}
                 THEN [writer EXCEPT !.at = "check"]
                 ELSE [writer EXCEPT !.at = "push", !.has = out.latest]
    /\ UNCHANGED <<appsrc, used>>
    /\ UNCHANGED otherThanWriter
    /\ UNCHANGED workerVars

\* last_pushed_seq moves only with a push appsrc accepted.
Accepted ==
    /\ appsrc' = [appsrc EXCEPT !.newest = writer.has.seq, !.frame = writer.has.frame,
                                !.count = @ + 1]
    /\ writer' = [at |-> "check", has |-> Nothing, last |-> writer.has.seq]
    /\ UNCHANGED used

\* Fault: a refused picture counts as pushed.
RefusedCommits ==
    /\ Within(used.refusals, MaxPushFailures)
    /\ used' = [used EXCEPT !.refusals = @ + 1]
    /\ writer' = [at |-> "check", has |-> Nothing, last |-> writer.has.seq]
    /\ UNCHANGED appsrc

Refused ==
    /\ Within(used.refusals, MaxPushFailures)
    /\ used' = [used EXCEPT !.refusals = @ + 1]
    /\ writer' = [writer EXCEPT !.at = "check", !.has = Nothing]
    /\ UNCHANGED appsrc

WriterPushes ==
    /\ writer.at = "push"
    /\ Accepted \/ Refused
    /\ UNCHANGED otherThanWriter
    /\ UNCHANGED workerVars

(***************************************************************************)
(* Ctrl-C clears the run's flag and then closes its slot.                  *)
(***************************************************************************)
CtrlC ==
    /\ running
    /\ pc \notin {"start", "acquire"}
    /\ running' = FALSE
    /\ UNCHANGED <<camera, captured, slot, takes, ready, reload, out, appsrc, writer, used, ghost>>
    /\ UNCHANGED workerVars

CtrlCClosesSlot ==
    /\ ~running
    /\ ~slot.closed
    /\ slot' = SlotClose(slot)
    /\ UNCHANGED <<running, camera, captured, takes, ready, reload, out, appsrc, writer, used, ghost>>
    /\ UNCHANGED workerVars

(***************************************************************************)
(* The specification.                                                      *)
(***************************************************************************)
Worker ==
    \/ StartOutput
    \/ AcquireInput
    \/ Command
    \/ LeaveLoop
    \/ Recover
    \/ RecoverToNull
    \/ Reacquire
    \/ Recovered
    \/ EnterIdle
    \/ ClearSlot
    \/ ResumeActive
    \/ SpawnReload
    \/ Tick
    \/ Fill
    \/ Park
    \/ Receive
    \/ ProcessFrame
    \/ PushFrame
    \/ CloseSlot
    \/ StopInput
    \/ StopOutput
    \/ JoinWriter
    \/ EndOfStream
    \/ OutputToNull

Writer ==
    \/ WriterChecks
    \/ WriterLooks
    \/ WriterPushes

Next ==
    \/ Worker
    \/ Writer
    \/ Reload
    \/ Capture
    \/ CameraLost
    \/ CtrlC
    \/ CtrlCClosesSlot

\* The threads are scheduled; nobody has to press Ctrl-C, but a handler that
\* has started closes the slot.
Fairness ==
    /\ WF_vars(Writer)
    /\ WF_vars(Worker)
    /\ WF_vars(Reload)
    /\ WF_vars(CtrlCClosesSlot)

Spec == Init /\ [][Next]_vars /\ Fairness

TypeOK ==
    /\ running \in BOOLEAN /\ ready \in BOOLEAN
    /\ camera \in {"Null", "Playing", "Lost"}
    /\ captured \in 0..MaxFrames
    /\ slot \in [frame : 0..MaxFrames, dropped : 0..MaxFrames, closed : BOOLEAN]
    /\ takes \in [newest : 0..MaxFrames, count : 0..MaxFrames]
    /\ pc \in PCs
    /\ level \in {"Active", "Idle"}
    /\ reload \in DOMAIN ReloadNext \union {"none"}
    /\ result \in {"none", "stopped", "inference", "error"}
    /\ out.started \in BOOLEAN /\ out.latest.seq < out.counter
    /\ writer.at \in {"off", "check", "look", "push"}

(***************************************************************************)
(* What the path guarantees.                                               *)
(***************************************************************************)
CameraMailbox == INSTANCE LatestValue WITH
    offered <- captured, shown <- takes.newest, showings <- takes.count, open <- ~slot.closed

OutputMailbox == INSTANCE LatestValue WITH
    offered <- out.counter - 1, shown <- appsrc.newest, showings <- appsrc.count,
    open <- ~appsrc.eos

\* Both hand-overs are latest-value mailboxes: the worker and the loopback see
\* each frame at most once, in order, never one that was not published, and
\* nothing goes to appsrc once the end of the stream was sent (slot.rs, and
\* push_frame, writer_loop and stop of output.rs).
MailboxesKeepLatest == CameraMailbox!Spec /\ OutputMailbox!Spec

\* While the output runs, the picture published last reaches appsrc or is
\* superseded, also when appsrc refuses a buffer: the writer does not count a
\* refused picture as pushed (writer_loop).
LatestReachesSink == <>[](~out.started \/ appsrc.newest = out.counter - 1)

\* A frame captured before the last pause or the last loss of the camera is
\* never processed after it: it would reach the consumer as one picture from
\* another time (handle_idle_edge, recover_input, LatestFrameSlot::clear).
PauseIsFinal == pc \in {"process", "push"} => cur.frame > ghost.cut

\* The picture pushed is made of one frame only, and its background was copied
\* before the foreground effects ran in place (CompositeEffect::process).
OneFramePerComposite ==
    pc = "push" =>
        /\ {cur.picture.foreground.of, cur.picture.background.of, cur.picture.mask.of} = {cur.frame}
        /\ cur.picture.background.by \in {{}, {"blur"}}

\* A run dies of inference exactly when the last FallbackThreshold inferences
\* in a row failed: earlier misses separated by a success do not add up
\* (SegmentationBase::process).
DiesAtThreshold ==
    /\ result = "inference" => ghost.misses >= FallbackThreshold
    /\ ghost.misses >= FallbackThreshold => result = "inference"

\* The mask is never blended with one from before smooth_temporal was last
\* turned on or its sub-chain last replaced (set_enabled_in, replace_chain).
MaskHistoryIsCurrent ==
    pc = "push" => cur.picture.mask.with = 0 \/ cur.picture.mask.with > ghost.enabledAt
==============================================================================
