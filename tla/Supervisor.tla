----------------------------- MODULE Supervisor -----------------------------
(***************************************************************************)
(* The run supervisor of fluxframe-cli: runtime.rs, idle/reload.rs and the *)
(* auto-input loop of commands/run.rs.                                     *)
(*                                                                         *)
(* Five kinds of threads share one camera pipeline:                        *)
(*   - the worker: run_auto -> run_chain -> run_supervised_loop ->         *)
(*     run_process_loop / recover_input, one action per step it takes      *)
(*     between two accesses to shared state (variable pc);                 *)
(*   - the reload thread the worker spawns when a consumer comes back;     *)
(*   - the bus listener, which turns GStreamer messages into an input      *)
(*     failure generation or into the end of the run;                      *)
(*   - the Ctrl-C handler;                                                 *)
(*   - the consumer detector, reduced to the verdict it publishes (its own *)
(*     behaviour is module Detector).                                      *)
(* GStreamer serialises set_state calls on one pipeline, so each of them   *)
(* is one step; going to Null also flushes the pipeline's bus.             *)
(***************************************************************************)
EXTENDS Naturals, IdleMachine

CONSTANTS
    Configs,             \* the configurations a behaviour may start with
    GraceOutlastsReload, \* TRUE: teardown_secs is longer than any reload
    MaxUnplugs,          \* bound: times the camera device disappears
    MaxFaults,           \* bound: chain, output and state-change failures
    MaxMishaps,          \* bound: lost cameras and failures together
    MaxAttempts,         \* bound: reacquire attempts INPUT_RECOVERY_BUDGET allows
    MaxBurst,            \* bound: bus messages one camera loss posts
    Generations          \* values of the generation counter, which wraps (2^64)

(***************************************************************************)
(* A configuration: is the input device "auto", does build_idle_runtime    *)
(* (and the acquire placeholder) come into being, is the input a V4L2      *)
(* camera rather than testsrc.                                             *)
(***************************************************************************)
Config == [auto : BOOLEAN, idle : BOOLEAN, camera : BOOLEAN]

ASSUME ConstantsAssumption ==
    /\ Configs \subseteq Config
    /\ GraceOutlastsReload \in BOOLEAN
    /\ MaxUnplugs \in Nat
    /\ MaxFaults \in Nat
    /\ MaxMishaps \in Nat
    /\ MaxAttempts \in Nat \ {0}
    /\ MaxBurst \in Nat \ {0}
    /\ Generations \in Nat \ {0, 1}

VARIABLES
    cfg,         \* the merged configuration, fixed for the process
    shutdown,    \* SHUTDOWN_REQUESTED
    ctrlc,       \* the Ctrl-C handler: at rest, about to walk the tokens, or between
                 \* a token's flag and its slot
    pc,          \* the worker's next step
    result,      \* what the run (or the process) returns
    registered,  \* the run's token is in REGISTERED_TOKENS
    running,     \* the run's `running` flag
    slotClosed,  \* LatestFrameSlot::closed
    armed,       \* InputFailureSignal::enabled
    busError,    \* the bus_error latch holds an error
    eos,         \* history: an end of stream stopped the run
    generation,  \* InputFailureSignal::generation
    entryGen,    \* entry_generation of the current worker loop
    snapGen,     \* the snapshot retry_reacquire took before this attempt
    firstGen,    \* history: the generation run_supervised_loop started from
    attempts,    \* reacquire attempts of this recovery
    sm,          \* IdleStateMachine::state
    grace,       \* teardown_secs have elapsed since the last transition
    status,      \* the verdict the detector last published
    engineReady, \* IdleRuntime::engine_ready
    reload,      \* the reload thread behind reload_handle
    device,      \* is the camera node there
    input,       \* the input pipeline
    slot,        \* the frame in the slot; stale = captured before the last Null
    inBus,       \* messages waiting on the input pipeline's bus
    outBus,      \* an error waits on the output pipeline's bus
    handling,    \* the bus listener: the message it popped, or how far it has got
    outputUp,    \* the loopback output is started
    orphans,     \* reload threads that outlived their run, by next step
    leaked,      \* a dropped pipeline of an earlier run still holds the camera
    unplugs, faults

procVars   == <<cfg, shutdown, ctrlc>>
runVars    == <<registered, running, slotClosed, armed, busError, eos>>
signalVars == <<generation, entryGen, snapGen, firstGen, attempts>>
idleVars   == <<sm, grace, status, engineReady>>
camVars    == <<device, input, slot, inBus>>
outVars    == <<outputUp, outBus>>
leakVars   == <<orphans, leaked>>
boundVars  == <<unplugs, faults>>
quiet      == <<procVars, outVars, handling, leakVars, boundVars>>
vars == <<procVars, pc, result, runVars, signalVars, idleVars, reload,
          camVars, outVars, handling, leakVars, boundVars>>

-----------------------------------------------------------------------------
(* Where the worker is. *)

Between  == {"auto_top", "auto_wait", "exited"}           \* no run exists
Acquire  == {"out_start", "acq_top", "acq_try", "acq_wait", "register"}
Setup    == {"listen", "arm", "enter"}
Loop     == {"loop", "tick", "machine", "idle_null", "idle_clear", "gate",
             "park", "process"}
Recovery == {"rec_null", "rec_clear", "rec_check", "rec_reset", "rec_start",
             "rec_adopt", "rec_wait", "rec_done"}
Closing  == {"stop_flag", "stop_slot", "stop_input", "stop_output", "verdict",
             "finish"}

PCs == Between \union Acquire \union Setup \union Loop
         \union {"loop_exit", "decide", "rec_join"} \union Recovery \union Closing

ReloadSteps == {"reset", "start", "ready"}  \* the thread is still at work
ReloadPhase == {"none", "completed", "failed"} \union ReloadSteps

(* Definitions whose comment starts with "Fault:" are wrong variants of the *)
(* one that follows; they show what the properties detect.                  *)

NextGeneration == (generation + 1) % Generations  \* AtomicU64::fetch_add

\* Fault: a loop that only leaves on an input failure.
LoopsUntilTripped == generation = entryGen

Reloading == reload \in ReloadSteps
Tripped   == generation # entryGen          \* InputFailureWatch::tripped
KeepsLooping == running /\ ~Tripped         \* run_process_loop's while condition
HandlesInput == armed                       \* InputFailureSignal::handles(Input)
Supervised   == cfg.idle /\ cfg.camera      \* supervised_acquire

-----------------------------------------------------------------------------
(* The camera pipeline.  GStreamer and the kernel, as the code uses them. *)

\* A pipeline dropped while Playing keeps the device: nobody else can open it.
CanOpen == ~cfg.camera \/ (device = "present" /\ ~leaked)

\* set_state(Null): the device is closed, the bus flushed, the frame left in
\* the slot now predates the pipeline's next life.
PipelineToNull ==
    /\ input' = "null"
    /\ inBus' = 0
    /\ slot' = IF slot = "fresh" THEN "stale" ELSE slot

\* One more thing goes wrong.
Mishap == unplugs + faults < MaxMishaps
Fault  == Mishap /\ faults < MaxFaults /\ faults' = faults + 1

\* set_state(Playing) succeeds.
StartOk ==
    /\ CanOpen
    /\ input' = "playing"
    /\ UNCHANGED <<slot, inBus, faults>>

\* set_state(Playing) fails: the source posts an error as well.
StartFails ==
    /\ \/ ~CanOpen /\ UNCHANGED faults
       \/ Fault
    /\ input' = "failed"
    /\ inBus' = IF inBus < MaxBurst THEN inBus + 1 ELSE inBus
    /\ UNCHANGED slot

Goto(step) == pc' = step

-----------------------------------------------------------------------------
(* run_auto and the acquisition half of run_chain: no run registered yet. *)

\* A run that never registered, or has just been torn down, returns r.
ReturnFromRun(r) ==
    /\ result' = r
    /\ Goto(IF r = "error" /\ cfg.auto THEN "auto_wait" ELSE "exited")

\* run_auto's loop head; a fixed device goes straight to its only run.
AutoTop ==
    /\ pc = "auto_top"
    /\ \/ cfg.auto /\ shutdown /\ ReturnFromRun("ok")
       \/ cfg.auto /\ ~shutdown /\ cfg.camera /\ device = "absent"
            /\ Goto("auto_wait") /\ result' = "none"
       \/ (cfg.auto => ~shutdown) /\ (cfg.auto /\ cfg.camera => device = "present")
            /\ Goto("out_start") /\ result' = "none"
    /\ UNCHANGED <<quiet, runVars, signalVars, idleVars, reload, camVars>>

\* wait_serving_control between two runs: cut short by shutdown.
AutoWait ==
    /\ pc = "auto_wait"
    /\ IF shutdown THEN ReturnFromRun("ok") ELSE Goto("auto_top") /\ UNCHANGED result
    /\ UNCHANGED <<quiet, runVars, signalVars, idleVars, reload, camVars>>

\* build_output, prepare_all, output.start: the loopback comes up first.
StartOutput ==
    /\ pc = "out_start"
    /\ \/ /\ Goto("acq_top")
          /\ outputUp' = TRUE
          /\ UNCHANGED <<result, faults>>
       \/ /\ Fault
          /\ \E r \in {"error", "fatal"} : ReturnFromRun(r)
          /\ UNCHANGED outputUp
    /\ UNCHANGED <<procVars, runVars, signalVars, idleVars, reload, camVars, outBus,
                   handling, leakVars, unplugs>>

\* teardown_partial, then return.
GiveUpAcquire(r) == outputUp' = FALSE /\ ReturnFromRun(r)

AcquireTop ==
    /\ pc = "acq_top"
    /\ IF shutdown THEN GiveUpAcquire("ok")
                   ELSE Goto("acq_try") /\ UNCHANGED <<outputUp, result>>
    /\ UNCHANGED <<procVars, runVars, signalVars, idleVars, reload, camVars, outBus,
                   handling, leakVars, boundVars>>

\* A fresh pipeline with a fresh slot and bus, built and started in one shot.
AcquireOk ==
    /\ CanOpen
    /\ input' = "playing"
    /\ slot' = "empty"
    /\ slotClosed' = FALSE
    /\ inBus' = 0
    /\ Goto("register")
    /\ UNCHANGED <<outputUp, result, faults>>

\* The device is busy or gone: contention, retried on the supervised path.
AcquireContended ==
    /\ ~CanOpen
    /\ IF Supervised THEN Goto("acq_wait") /\ UNCHANGED <<outputUp, result>>
                     ELSE GiveUpAcquire("error")
    /\ UNCHANGED <<input, slot, slotClosed, inBus, faults>>

\* Any other failure to build or start: the pipeline is set to Null and the
\* error propagates.
AcquireFails ==
    /\ Fault
    /\ \E r \in {"error", "fatal"} : GiveUpAcquire(r)
    /\ input' = "null"
    /\ UNCHANGED <<slot, slotClosed, inBus>>

AcquireTry ==
    /\ pc = "acq_try"
    /\ AcquireOk \/ AcquireContended \/ AcquireFails
    /\ UNCHANGED <<procVars, registered, running, armed, busError, eos, signalVars,
                   idleVars, reload, device, outBus, handling, leakVars, unplugs>>

\* backoff_after_contention: placeholder, then wait_serving_control.
AcquireWait ==
    /\ pc = "acq_wait"
    /\ \/ Fault /\ GiveUpAcquire("error")
       \/ shutdown /\ GiveUpAcquire("ok") /\ UNCHANGED faults
       \/ ~shutdown /\ Goto("acq_top") /\ UNCHANGED <<outputUp, result, faults>>
    /\ UNCHANGED <<procVars, runVars, signalVars, idleVars, reload, camVars, outBus,
                   handling, leakVars, unplugs>>

-----------------------------------------------------------------------------
(* run_chain's set-up: token, bus listener, idle runtime, armed signal. *)

\* register_token: from here Ctrl-C can reach the run.
RegisterToken ==
    /\ pc = "register"
    /\ Goto("listen")
    /\ registered' = TRUE
    /\ running' = TRUE
    /\ UNCHANGED <<quiet, result, slotClosed, armed, busError, eos, signalVars,
                   idleVars, reload, camVars>>

\* A new signal at generation 0, then build_bus_listener.
SpawnListener ==
    /\ pc = "listen"
    /\ Goto("arm")
    /\ UNCHANGED <<quiet, result, runVars, signalVars, idleVars, reload, camVars>>

\* build_idle_runtime, then InputFailureSignal::arm if there is a placeholder
\* to cover an outage.
Arm ==
    /\ pc = "arm"
    /\ Goto("enter")
    /\ sm' = "Active"
    /\ grace' = FALSE
    /\ status' = "Unknown"
    /\ engineReady' = TRUE
    /\ armed' = Supervised
    /\ UNCHANGED <<quiet, result, registered, running, slotClosed, busError, eos,
                   signalVars, reload, camVars>>

\* run_supervised_loop: entry_generation is snapshotted once.
EnterLoop ==
    /\ pc = "enter"
    /\ Goto("loop")
    /\ entryGen' = generation
    /\ firstGen' = generation
    /\ UNCHANGED <<quiet, result, runVars, generation, snapGen, attempts, idleVars,
                   reload, camVars>>

-----------------------------------------------------------------------------
(* run_process_loop: one iteration, cut where another thread can interfere. *)

LoopTop ==
    /\ pc = "loop"
    /\ Goto(IF KeepsLooping THEN IF cfg.idle THEN "tick" ELSE "process"
                                   ELSE "loop_exit")
    /\ UNCHANGED <<quiet, result, runVars, signalVars, idleVars, reload, camVars>>

\* tick_idle, first half: reap_reload, before the state machine is ticked.  A
\* failed reload goes to the recovery path if that exists, else ends the run.
ReapReload ==
    /\ pc = "tick"
    /\ reload' = IF Reloading THEN reload ELSE "none"
    /\ \/ /\ reload # "failed"
          /\ Goto("machine")
          /\ UNCHANGED <<generation, result>>
       \/ /\ reload = "failed" /\ HandlesInput
          /\ generation' = NextGeneration
          /\ Goto("loop")
          /\ UNCHANGED result
       \/ /\ reload = "failed" /\ ~HandlesInput
          /\ result' = "error"
          /\ Goto("decide")
          /\ UNCHANGED generation
    /\ UNCHANGED <<quiet, runVars, entryGen, snapGen, firstGen, attempts, idleVars,
                   camVars>>

\* Fault: engine_ready is left for the reload thread to clear.
ResumeActiveStillReady ==
    IF Reloading THEN UNCHANGED <<reload, engineReady>>
                 ELSE reload' = "reset" /\ UNCHANGED engineReady

\* handle_idle_edge on ResumeActive: never a second reload over a live one.
ResumeActive ==
    IF Reloading THEN UNCHANGED <<reload, engineReady>>
                 ELSE reload' = "reset" /\ engineReady' = FALSE

\* Fault: the grace timer is not restarted by a transition.
GraceKept(to) == grace
\* Every transition stamps last_transition.
GraceAfter(to) == grace /\ to = sm

\* tick_idle, second half: read the verdict, tick the machine, dispatch the edge.
TickMachine ==
    /\ pc = "machine"
    /\ LET to == NextState(sm, status, grace)
           edge == Edge(sm, to)
       IN /\ sm' = to
          /\ grace' = GraceAfter(to)
          /\ Goto(IF edge = "EnterIdle" THEN "idle_null" ELSE "gate")
          /\ IF edge = "ResumeActive" THEN ResumeActive
                                      ELSE UNCHANGED <<reload, engineReady>>
    /\ UNCHANGED <<quiet, result, runVars, signalVars, status, camVars>>

\* EnterIdle: set_state_null, then slot.clear.
EnterIdleNull ==
    /\ pc = "idle_null"
    /\ Goto("idle_clear")
    /\ PipelineToNull
    /\ UNCHANGED <<quiet, result, runVars, signalVars, idleVars, reload, device>>

EnterIdleClear ==
    /\ pc = "idle_clear"
    /\ Goto("gate")
    /\ slot' = "empty"
    /\ UNCHANGED <<quiet, result, runVars, signalVars, idleVars, reload, device, input,
                   inBus>>

\* active_allowed: real frames, or a placeholder and a park on the slot.
Gate ==
    /\ pc = "gate"
    /\ \/ /\ LevelActive(sm) /\ engineReady
          /\ Goto("process")
          /\ UNCHANGED <<result, faults>>
       \/ /\ ~(LevelActive(sm) /\ engineReady)
          /\ \/ Goto("park") /\ UNCHANGED <<result, faults>>
             \/ Fault /\ result' = "error" /\ Goto("decide")
    /\ UNCHANGED <<procVars, runVars, signalVars, idleVars, reload, camVars, outVars,
                   handling, leakVars, unplugs>>

\* The park takes, and drops, a frame that lands meanwhile.
Park ==
    /\ pc = "park"
    /\ Goto("loop")
    /\ slot' = "empty"
    /\ UNCHANGED <<quiet, result, runVars, signalVars, idleVars, reload, device, input,
                   inBus>>

\* recv_timeout and process_one_frame.
ProcessFrame ==
    /\ pc = "process"
    /\ slot' = "empty"
    /\ \/ Goto("loop") /\ UNCHANGED <<result, faults>>
       \/ slot # "empty" /\ Fault /\ result' = "error" /\ Goto("decide")
    /\ UNCHANGED <<procVars, runVars, signalVars, idleVars, reload, device, input,
                   inBus, outVars, handling, leakVars, unplugs>>

\* Fault: the handle is dropped without a join.
DropReloadHandle == UNCHANGED reload
\* A blocking join: the thread has finished and its outcome is dropped.
JoinReload == ~Reloading /\ reload' = "none"

\* The loop's orderly exit joins the reload thread; an error return does not.
LoopExit ==
    /\ pc = "loop_exit"
    /\ JoinReload
    /\ Goto("decide")
    /\ UNCHANGED <<quiet, result, runVars, signalVars, idleVars, camVars>>

NextAction(isRunning, inputFailed, workerFailed) ==
    CASE workerFailed -> "TeardownAll"
      [] ~workerFailed /\ isRunning /\ inputFailed -> "ReacquireInput"
      [] OTHER -> "Exit"

Decide ==
    /\ pc = "decide"
    /\ Goto(IF NextAction(running, Tripped, result = "error") = "ReacquireInput"
            THEN "rec_join" ELSE "stop_flag")
    /\ UNCHANGED <<quiet, result, runVars, signalVars, idleVars, reload, camVars>>

-----------------------------------------------------------------------------
(* recover_input and retry_reacquire. *)

RecoverJoin ==
    /\ pc = "rec_join"
    /\ JoinReload
    /\ Goto("rec_null")
    /\ UNCHANGED <<quiet, result, runVars, signalVars, idleVars, camVars>>

RecoverNull ==
    /\ pc = "rec_null"
    /\ Goto("rec_clear")
    /\ PipelineToNull
    /\ UNCHANGED <<quiet, result, runVars, signalVars, idleVars, reload, device>>

RecoverClear ==
    /\ pc = "rec_clear"
    /\ Goto("rec_check")
    /\ slot' = "empty"
    /\ attempts' = 0
    /\ UNCHANGED <<quiet, result, runVars, generation, entryGen, snapGen, firstGen,
                   idleVars, reload, device, input, inBus>>

\* Leave if the run is stopping, else snapshot the generation for this attempt.
RetryCheck ==
    /\ pc = "rec_check"
    /\ \/ /\ shutdown \/ ~running
          /\ entryGen' = generation
          /\ Goto("rec_done")
          /\ UNCHANGED <<snapGen, attempts>>
       \/ /\ ~shutdown /\ running
          /\ snapGen' = generation
          /\ attempts' = attempts + 1
          /\ Goto("rec_reset")
          /\ UNCHANGED entryGen
    /\ UNCHANGED <<quiet, result, runVars, generation, firstGen, idleVars, reload,
                   camVars>>

\* InputPipeline::reacquire: Null ...
RetryReset ==
    /\ pc = "rec_reset"
    /\ Goto("rec_start")
    /\ PipelineToNull
    /\ UNCHANGED <<quiet, result, runVars, signalVars, idleVars, reload, device>>

\* ... and Playing.  Failure either exhausts the budget, which ends the run, or
\* backs off.
RetryStart ==
    /\ pc = "rec_start"
    /\ \/ /\ StartOk
          /\ Goto("rec_adopt")
          /\ UNCHANGED result
       \/ /\ StartFails
          /\ \/ attempts < MaxAttempts /\ Goto("rec_wait") /\ UNCHANGED result
             \/ result' = "error" /\ Goto("stop_flag")
    /\ UNCHANGED <<procVars, runVars, signalVars, idleVars, reload, device, outVars,
                   handling, leakVars, unplugs>>

\* Fault: the generation is read after the camera is back.
GenerationAfterAttempt == generation
\* The generation observed immediately before the winning attempt.
GenerationOfAttempt == snapGen

\* Success: the caller adopts the attempt's snapshot as its entry generation.
RetryAdopt ==
    /\ pc = "rec_adopt"
    /\ Goto("rec_done")
    /\ entryGen' = GenerationOfAttempt
    /\ UNCHANGED <<quiet, result, runVars, generation, snapGen, firstGen, attempts,
                   idleVars, reload, camVars>>

RetryWait ==
    /\ pc = "rec_wait"
    /\ \/ shutdown /\ entryGen' = generation /\ Goto("rec_done")
       \/ ~shutdown /\ Goto("rec_check") /\ UNCHANGED entryGen
    /\ UNCHANGED <<quiet, result, runVars, generation, snapGen, firstGen, attempts,
                   idleVars, reload, camVars>>

RecoverDone ==
    /\ pc = "rec_done"
    /\ Goto("loop")
    /\ slot' = "empty"
    /\ snapGen' = 0 /\ attempts' = 0
    /\ UNCHANGED <<quiet, result, runVars, generation, entryGen, firstGen, idleVars,
                   reload, device, input, inBus>>

-----------------------------------------------------------------------------
(* The end of run_chain: flag, slot, teardown, verdict. *)

StopFlag ==
    /\ pc = "stop_flag"
    /\ Goto("stop_slot")
    /\ running' = FALSE
    /\ UNCHANGED <<quiet, result, registered, slotClosed, armed, busError, eos,
                   signalVars, idleVars, reload, camVars>>

StopSlot ==
    /\ pc = "stop_slot"
    /\ Goto("stop_input")
    /\ slotClosed' = TRUE
    /\ slot' = "empty"
    /\ UNCHANGED <<quiet, result, registered, running, armed, busError, eos, signalVars,
                   idleVars, reload, device, input, inBus>>

StopInput ==
    /\ pc = "stop_input"
    /\ Goto("stop_output")
    /\ PipelineToNull
    /\ UNCHANGED <<quiet, result, runVars, signalVars, idleVars, reload, device>>

StopOutput ==
    /\ pc = "stop_output"
    /\ Goto("verdict")
    /\ outputUp' = FALSE
    /\ UNCHANGED <<procVars, result, runVars, signalVars, idleVars, reload, camVars,
                   outBus, handling, leakVars, boundVars>>

\* The latched bus error is taken while the listener is still alive.
Verdict ==
    /\ pc = "verdict"
    /\ Goto("finish")
    /\ result' = IF result = "error" \/ busError THEN "error" ELSE "ok"
    /\ busError' = FALSE
    /\ UNCHANGED <<quiet, registered, running, slotClosed, armed, eos, signalVars,
                   idleVars, reload, camVars>>

\* Everything run_chain owns is dropped: detector and listener are joined, a
\* reload thread still behind its handle is detached and goes on by itself, a
\* pipeline not at Null keeps the camera.
Finish ==
    /\ pc = "finish"
    /\ handling = "none"
    /\ ReturnFromRun(result)
    /\ registered' = FALSE /\ slotClosed' = FALSE /\ armed' = FALSE /\ busError' = FALSE
    /\ generation' = 0 /\ entryGen' = 0 /\ snapGen' = 0 /\ firstGen' = 0 /\ attempts' = 0
    /\ sm' = "Active" /\ grace' = FALSE /\ status' = "Unknown" /\ engineReady' = TRUE
    /\ reload' = "none"
    /\ orphans' = orphans \union ({reload} \intersect {"reset", "start"})
    /\ leaked' = (leaked \/ input = "playing")
    /\ input' = "null" /\ slot' = "empty" /\ inBus' = 0 /\ outBus' = FALSE
    /\ UNCHANGED <<procVars, running, eos, device, outputUp, handling, boundVars>>

Worker ==
    \/ AutoTop \/ AutoWait \/ StartOutput \/ AcquireTop \/ AcquireTry \/ AcquireWait
    \/ RegisterToken \/ SpawnListener \/ Arm \/ EnterLoop
    \/ LoopTop \/ ReapReload \/ TickMachine \/ EnterIdleNull \/ EnterIdleClear
    \/ Gate \/ Park \/ ProcessFrame \/ LoopExit \/ Decide
    \/ RecoverJoin \/ RecoverNull \/ RecoverClear \/ RetryCheck \/ RetryReset
    \/ RetryStart \/ RetryAdopt \/ RetryWait \/ RecoverDone
    \/ StopFlag \/ StopSlot \/ StopInput \/ StopOutput \/ Verdict \/ Finish

-----------------------------------------------------------------------------
(* spawn_reload_thread: reacquire in two steps, then engine_ready. *)

ReloadReset ==
    /\ reload = "reset"
    /\ reload' = "start"
    /\ PipelineToNull
    /\ UNCHANGED <<quiet, pc, result, runVars, signalVars, idleVars, device>>

ReloadStart ==
    /\ reload = "start"
    /\ \/ StartOk /\ reload' = "ready"
       \/ StartFails /\ reload' = "failed"
    /\ UNCHANGED <<procVars, pc, result, runVars, signalVars, idleVars, device, outVars,
                   handling, leakVars, unplugs>>

\* Fault: the thread ends without setting engine_ready.
ReloadReadyUnset ==
    /\ reload = "ready"
    /\ reload' = "completed"
    /\ UNCHANGED <<quiet, pc, result, runVars, signalVars, idleVars, camVars>>

ReloadReady ==
    /\ reload = "ready"
    /\ reload' = "completed"
    /\ engineReady' = TRUE
    /\ UNCHANGED <<quiet, pc, result, runVars, signalVars, sm, grace, status, camVars>>

Reload == ReloadReset \/ ReloadStart \/ ReloadReady

\* A detached thread finishes its reacquire on the pipeline of the dead run,
\* and drops it playing.
OrphanReload ==
    /\ \/ /\ "reset" \in orphans
          /\ orphans' = (orphans \ {"reset"}) \union {"start"}
          /\ UNCHANGED leaked
       \/ /\ "start" \in orphans
          /\ orphans' = orphans \ {"start"}
          /\ leaked' = (leaked \/ (CanOpen /\ input # "playing"))
    /\ UNCHANGED <<procVars, pc, result, runVars, signalVars, idleVars, reload, camVars,
                   outVars, handling, boundVars>>

-----------------------------------------------------------------------------
(* The bus listener: timed_pop_filtered, then on_bus_event. *)

Listening == registered /\ pc # "listen"

PopMessage ==
    /\ Listening
    /\ handling = "none"
    /\ \/ inBus > 0 /\ handling' = "input" /\ inBus' = inBus - 1 /\ UNCHANGED outBus
       \/ outBus /\ handling' = "output" /\ outBus' = FALSE /\ UNCHANGED inBus
    /\ UNCHANGED <<procVars, pc, result, runVars, signalVars, idleVars, reload, device,
                   input, slot, outputUp, leakVars, boundVars>>

\* Fault: the slot is closed on a failure the run survives.
RaiseAndClose ==
    /\ handling = "input" /\ HandlesInput
    /\ handling' = "none"
    /\ generation' = NextGeneration
    /\ slotClosed' = TRUE /\ slot' = "empty"
    /\ UNCHANGED <<running, busError, eos>>

\* Fault: the failure is logged and not raised.
LogOnly ==
    /\ handling = "input" /\ HandlesInput
    /\ handling' = "none"
    /\ UNCHANGED <<generation, running, slotClosed, slot, busError, eos>>

\* An input failure somebody recovers from: raise the signal and touch nothing
\* else.
RaiseInputFailure ==
    /\ handling = "input" /\ HandlesInput
    /\ handling' = "none"
    /\ generation' = NextGeneration
    /\ UNCHANGED <<running, slotClosed, slot, busError, eos>>

\* Fault: the run is stopped and the error forgotten.
LatchNothing ==
    /\ handling \in {"input", "output"} /\ ~(handling = "input" /\ HandlesInput)
    /\ handling' = "stopping"
    /\ UNCHANGED <<running, slotClosed, slot, generation, busError, eos>>

\* Everything else ends the run: an error (not an end of stream) is latched ...
LatchError ==
    /\ handling \in {"input", "output"} /\ ~(handling = "input" /\ HandlesInput)
    /\ handling' = "stopping"
    /\ \/ busError' = TRUE /\ UNCHANGED eos
       \/ handling = "input" /\ eos' = TRUE /\ UNCHANGED busError
    /\ UNCHANGED <<running, slotClosed, slot, generation>>

\* ... the flag is cleared ...
ClearRunning ==
    /\ handling = "stopping"
    /\ handling' = "closing"
    /\ running' = FALSE
    /\ UNCHANGED <<slotClosed, slot, busError, eos, generation>>

\* ... and the slot is closed.
CloseSlot ==
    /\ handling = "closing"
    /\ handling' = "none"
    /\ slotClosed' = TRUE
    /\ slot' = "empty"
    /\ UNCHANGED <<running, busError, eos, generation>>

OnBusEvent ==
    /\ RaiseInputFailure \/ LatchError \/ ClearRunning \/ CloseSlot
    /\ UNCHANGED <<procVars, pc, result, registered, armed, entryGen, snapGen, firstGen,
                   attempts, idleVars, reload, device, input, inBus, outVars, leakVars,
                   boundVars>>

Listener == PopMessage \/ OnBusEvent

-----------------------------------------------------------------------------
(* Ctrl-C.  The handler is installed by run_auto, or by the only run's token. *)

CtrlC ==
    /\ pc # "exited"
    /\ ctrlc = "rest"
    /\ cfg.auto \/ registered
    /\ ctrlc' = "broadcast"
    /\ shutdown' = TRUE
    /\ UNCHANGED <<cfg, pc, result, runVars, signalVars, idleVars, reload, camVars,
                   outVars, handling, leakVars, boundVars>>

\* The walk over the registered tokens: the flag, then the slot.
Broadcast ==
    /\ \/ /\ ctrlc = "broadcast"
          /\ IF registered THEN ctrlc' = "closing" /\ running' = FALSE
                           ELSE ctrlc' = "rest" /\ UNCHANGED running
          /\ UNCHANGED <<slotClosed, slot>>
       \/ /\ ctrlc = "closing"
          /\ ctrlc' = "rest"
          /\ IF registered THEN slotClosed' = TRUE /\ slot' = "empty"
                           ELSE UNCHANGED <<slotClosed, slot>>
          /\ UNCHANGED running
    /\ UNCHANGED <<cfg, shutdown, pc, result, registered, armed, busError, eos,
                   signalVars, idleVars, reload, device, input, inBus, outVars,
                   handling, leakVars, boundVars>>

-----------------------------------------------------------------------------
(* The world: the camera, the loopback, time, the detector's verdict. *)

\* Losing the device kills a playing pipeline, which posts a burst of messages.
Unplug ==
    /\ pc # "exited"
    /\ cfg.camera /\ device = "present" /\ Mishap /\ unplugs < MaxUnplugs
    /\ unplugs' = unplugs + 1
    /\ device' = "absent"
    /\ leaked' = FALSE
    /\ IF input = "playing"
       THEN input' = "dead" /\ \E n \in 1..MaxBurst : inBus' = n
       ELSE UNCHANGED <<input, inBus>>
    /\ UNCHANGED <<procVars, pc, result, runVars, signalVars, idleVars, reload, slot,
                   outVars, handling, orphans, faults>>

Replug ==
    /\ pc # "exited"
    /\ device = "absent"
    /\ device' = "present"
    /\ UNCHANGED <<quiet, pc, result, runVars, signalVars, idleVars, reload, input,
                   slot, inBus>>

OutputError ==
    /\ registered /\ outputUp /\ ~outBus
    /\ Fault
    /\ outBus' = TRUE
    /\ UNCHANGED <<procVars, pc, result, runVars, signalVars, idleVars, reload, camVars,
                   outputUp, handling, leakVars, unplugs>>

\* The appsink callback publishes into the slot.
CameraFrame ==
    /\ input = "playing" /\ ~slotClosed /\ slot # "fresh"
    /\ slot' = "fresh"
    /\ UNCHANGED <<quiet, pc, result, runVars, signalVars, idleVars, reload, device,
                   input, inBus>>

GraceElapses ==
    /\ registered /\ sm = "Cooldown" /\ ~grace
    /\ GraceOutlastsReload => ~Reloading
    /\ grace' = TRUE
    /\ UNCHANGED <<quiet, pc, result, runVars, signalVars, sm, status, engineReady,
                   reload, camVars>>

Detect ==
    /\ registered /\ cfg.idle /\ pc \notin Setup
    /\ \E s \in ConsumerStatus \ {status} : status' = s
    /\ UNCHANGED <<quiet, pc, result, runVars, signalVars, sm, grace, engineReady,
                   reload, camVars>>

\* The process is over.
Exited == pc = "exited" /\ UNCHANGED vars

Init ==
    /\ cfg \in Configs
    /\ shutdown = FALSE /\ ctrlc = "rest"
    /\ pc = "auto_top" /\ result = "none"
    /\ registered = FALSE /\ running = FALSE /\ slotClosed = FALSE /\ armed = FALSE
    /\ busError = FALSE /\ eos = FALSE
    /\ generation = 0 /\ entryGen = 0 /\ snapGen = 0 /\ firstGen = 0 /\ attempts = 0
    /\ sm = "Active" /\ grace = FALSE /\ status = "Unknown" /\ engineReady = TRUE
    /\ reload = "none"
    /\ device \in {"present", "absent"} /\ (~cfg.camera => device = "present")
    /\ input = "null" /\ slot = "empty" /\ inBus = 0
    /\ outputUp = FALSE /\ outBus = FALSE
    /\ handling = "none"
    /\ orphans = {} /\ leaked = FALSE
    /\ unplugs = 0 /\ faults = 0

Next ==
    \/ Worker \/ Reload \/ OrphanReload \/ Listener \/ CtrlC \/ Broadcast
    \/ Unplug \/ Replug \/ OutputError \/ CameraFrame \/ GraceElapses \/ Detect
    \/ Exited

Spec == Init /\ [][Next]_vars

(***************************************************************************)
(* Threads the operating system keeps scheduling and timers that run out.  *)
(* Nothing obliges a user, a cable or a consumer to do anything.           *)
(***************************************************************************)
Fairness ==
    /\ WF_vars(Worker)
    /\ WF_vars(Reload)
    /\ WF_vars(OrphanReload)
    /\ WF_vars(PopMessage) /\ WF_vars(OnBusEvent)
    /\ WF_vars(Broadcast)
    /\ WF_vars(CameraFrame)
    /\ WF_vars(GraceElapses)

FairSpec == Spec /\ Fairness

-----------------------------------------------------------------------------
TypeOK ==
    /\ cfg \in Config
    /\ shutdown \in BOOLEAN /\ ctrlc \in {"rest", "broadcast", "closing"}
    /\ pc \in PCs /\ result \in {"none", "ok", "error", "fatal"}
    /\ registered \in BOOLEAN /\ running \in BOOLEAN /\ slotClosed \in BOOLEAN
    /\ armed \in BOOLEAN /\ busError \in BOOLEAN /\ eos \in BOOLEAN
    /\ {generation, entryGen, snapGen, firstGen} \subseteq 0..(Generations - 1)
    /\ attempts \in Nat
    /\ sm \in IdleState /\ grace \in BOOLEAN /\ status \in ConsumerStatus
    /\ engineReady \in BOOLEAN /\ reload \in ReloadPhase
    /\ device \in {"present", "absent"} /\ input \in {"null", "playing", "dead", "failed"}
    /\ slot \in {"empty", "fresh", "stale"} /\ inBus \in 0..MaxBurst
    /\ outputUp \in BOOLEAN /\ outBus \in BOOLEAN
    /\ handling \in {"none", "input", "output", "stopping", "closing"}
    /\ orphans \subseteq {"reset", "start"} /\ leaked \in BOOLEAN
    /\ unplugs \in 0..MaxUnplugs /\ faults \in 0..MaxFaults

(***************************************************************************)
(* A registered run whose slot is closed is on its way out.  The slot has  *)
(* no reopen, so closing it while the run goes on (on an input failure the *)
(* supervisor recovers from, say) would lose every later frame silently:   *)
(* on_bus_event, the Ctrl-C handler and run_chain clear the flag first.    *)
(***************************************************************************)
SlotOpenWhileRunning == registered /\ slotClosed => ~running

(***************************************************************************)
(* recover_input is the pipeline's only owner: no reload thread is at work *)
(* while the worker drives the camera from Null back to Playing.           *)
(***************************************************************************)
RecoveryOwnsPipeline == pc \in Recovery => ~Reloading

(***************************************************************************)
(* No real frame is pulled and processed between a resume edge and the end *)
(* of the reload it started: engine_ready stays false all that time,       *)
(* whatever the verdict does meanwhile.                                    *)
(***************************************************************************)
NoFrameDuringReload == pc = "process" => ~Reloading

(***************************************************************************)
(* Failures are never swallowed: when the camera of a live, armed run dies,*)
(* a message is still on its way or the worker loop's entry generation is  *)
(* out of date.  It holds from the first recovery on; firstGen = 0 leaves  *)
(* out the window between arm() and the first snapshot (see                *)
(* FailureNeverSwallowed).                                                 *)
(***************************************************************************)
DeathNoticed ==
    input = "dead" /\ registered /\ running /\ armed =>
        inBus > 0 \/ handling \in {"input", "stopping"} \/ Tripped \/ pc = "enter"
RecoveredFailureNotSwallowed == firstGen = 0 => DeathNoticed

(***************************************************************************)
(* The same without the proviso: what run_supervised_loop's comment asks   *)
(* of the generation ("a genuinely new failure ... would be swallowed,     *)
(* leaving the worker spinning").  The code snapshots after arm().         *)
(***************************************************************************)
FailureNeverSwallowed == DeathNoticed

(***************************************************************************)
(* Two threads never have a state change of the same pipeline pending:     *)
(* the worker is not about to drive the camera (idle entry, recovery)      *)
(* while a reload thread has its own set_state calls ahead of it.          *)
(***************************************************************************)
SetStateHasOneOwner ==
    pc \in {"idle_null"} \union Recovery => reload \notin {"reset", "start"}

(***************************************************************************)
(* No reload thread is left behind by the run that spawned it.             *)
(***************************************************************************)
ReloadDoesNotOutliveRun == orphans = {}

(***************************************************************************)
(* A run told to stop is torn down: neither the joins on the reload thread *)
(* and the bus listener nor a recovery in progress can hold it up forever. *)
(***************************************************************************)
StoppedRunEnds == (registered /\ ~running) ~> ~registered

(***************************************************************************)
(* Ctrl-C ends the process.                                                *)
(***************************************************************************)
ShutdownEnds == shutdown ~> pc = "exited"

(***************************************************************************)
(* A dead camera does not stay dead: the run recovers it or ends.          *)
(***************************************************************************)
DeadCameraHandled ==
    (input = "dead" /\ armed /\ firstGen = 0 /\ pc # "enter") ~> input # "dead"

(***************************************************************************)
(* The daemon exits cleanly only when it was asked to: by Ctrl-C, or by an *)
(* end of stream.  A bus error that stops the run is latched before the    *)
(* flag that lets the worker leave, so run_chain never mistakes it for a   *)
(* clean end.                                                              *)
(***************************************************************************)
CleanExitWasAsked == pc = "exited" /\ result = "ok" => shutdown \/ eos

(***************************************************************************)
(* While a consumer stays attached and the camera stays available, real    *)
(* frames keep reaching the output (or the daemon has exited).             *)
(***************************************************************************)
LiveFrame == ProcessFrame /\ slot = "fresh"
LiveVideoResumes ==
    <>[](status # "Absent" /\ device = "present" /\ ~shutdown)
        => []<>(pc = "exited") \/ []<><<LiveFrame>>_vars

(***************************************************************************)
(* The same for a camera that works: with a consumer attached and the      *)
(* pipeline playing, the placeholder is not all the consumer ever sees.    *)
(* recover_input says engine_ready must not "pin to false for the rest of  *)
(* the run" and idle-mode.md that live video resumes automatically.        *)
(***************************************************************************)
PlayingCameraIsShown ==
    <>[](status # "Absent" /\ input = "playing" /\ registered /\ running)
        => []<><<LiveFrame>>_vars

(***************************************************************************)
(* Once nobody reads the loopback any more the camera is closed, and it    *)
(* stays closed.                                                           *)
(***************************************************************************)
CameraClosedInIdle ==
    <>[](status = "Absent" /\ device = "present") => <>[](input # "playing")
=============================================================================
