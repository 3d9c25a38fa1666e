-------------------------------- MODULE Parts --------------------------------
(***************************************************************************)
(* The parts of the program that run beside the frame loop and know of one *)
(* another only by a call or a counter, each a machine of its own:         *)
(* effects and their configuration, engines, the daemon's search for a     *)
(* camera, the control socket, the reporter, the stage table, the CPU      *)
(* sampler.  A behaviour is one of one machine; the others stand still.    *)
(***************************************************************************)
EXTENDS Integers, FiniteSets

CONSTANTS
    FrameSizes, MaxScenes,                            \* Effects
    MaxWritten,                                       \* Slots
    Interval, BaseDelay, MaxDelay, Errors, MaxTime,   \* AutoInput
    ReportEvery, PollEvery, Heartbeat, AlertAge, Bumped, MaxBumps, MaxClock, \* Reporter
    Stages, RingSize, MaxSamples,                     \* StageTable
    Threads, MainThread, MaxTicks,                    \* CpuSampler
    Limit, Depth, MaxBytes, MaxClients                \* ControlPlane

VARIABLES
    part,  \* the machine that moves
    effect, params, disk, machine, frame, ready, built, blur, scene, box, last, counted,
    slot, table, live, reply,
    at, sidecar, engine, tensors, inferred, sticky,
    step, now, stop, going, began, backoff, until, marks, seen,
    counters, slotDrops, clock, bumps, due, log,
    index, entries, copied, taken,
    names, run, prev, spent, reused, missed, window, sampled,
    client, bytes, listener, channel, plane, executed, past, torn, abandoned, told

effectVars == <<effect, params, disk, machine, frame, ready, built, blur, scene, box, last, counted>>
slotVars   == <<slot, table, live, reply>>
engineVars == <<at, sidecar, engine, tensors, inferred, sticky>>
daemonVars == <<step, now, stop, going, began, backoff, until, marks, seen>>
reportVars == <<counters, slotDrops, clock, bumps, due, log>>
stageVars  == <<index, entries, copied, taken>>
cpuVars    == <<names, run, prev, spent, reused, missed, window, sampled>>
planeVars  == <<client, bytes, listener, channel, plane, executed, past, torn, abandoned, told>>

\* What Config::validate lets through, the constants of the code and bounds that are numbers.
ASSUME FramesAssumption == FrameSizes \subseteq Nat \X Nat
ASSUME DaemonAssumption == Interval \in Nat /\ BaseDelay \in Nat \ {0} /\ MaxDelay \in Nat \ {0}
ASSUME ReporterAssumption == ReportEvery \in Nat /\ PollEvery \in Nat /\ Heartbeat \in Nat \ {0} /\ AlertAge \in Nat
ASSUME StagesAssumption == RingSize \in Nat \ {0}
ASSUME CpuAssumption == MainThread \in Threads /\ IsFiniteSet(Threads)
ASSUME PlaneAssumption == Limit \in Nat /\ Depth \in Nat

Effect   == INSTANCE Effects
Slot     == INSTANCE Slots
Engine   == INSTANCE Engines
Daemon   == INSTANCE AutoInput
Report   == INSTANCE Reporter
Stage    == INSTANCE StageTable
Cpu      == INSTANCE CpuSampler
Plane    == INSTANCE ControlPlane

\* Dropped frames are counted by the slot, and brought over by the worker.
ASSUME BumpedAssumption == Bumped \subseteq Report!Totals \ {"frames_dropped"}

Machines == {"effects", "slots", "engines", "daemon", "reporter", "stages", "cpu", "plane"}

\* Every machine as its code leaves it.
AllBegin ==
    /\ Effect!Init /\ (part # "effects" => effect = "vignette")
    /\ Slot!Init
    /\ Engine!Init
    /\ Daemon!Init
    /\ Report!Init
    /\ Stage!Init
    /\ Cpu!Init
    /\ Plane!Init

Init == part \in Machines /\ AllBegin

Next ==
    /\ UNCHANGED part
    /\ \/ /\ part = "effects" /\ Effect!Next
          /\ UNCHANGED <<slotVars, engineVars, daemonVars, reportVars, stageVars, cpuVars, planeVars>>
       \/ /\ part = "slots" /\ Slot!Next
          /\ UNCHANGED <<effectVars, engineVars, daemonVars, reportVars, stageVars, cpuVars, planeVars>>
       \/ /\ part = "engines" /\ Engine!Next
          /\ UNCHANGED <<effectVars, slotVars, daemonVars, reportVars, stageVars, cpuVars, planeVars>>
       \/ /\ part = "daemon" /\ Daemon!Next
          /\ UNCHANGED <<effectVars, slotVars, engineVars, reportVars, stageVars, cpuVars, planeVars>>
       \/ /\ part = "reporter" /\ Report!Next
          /\ UNCHANGED <<effectVars, slotVars, engineVars, daemonVars, stageVars, cpuVars, planeVars>>
       \/ /\ part = "stages" /\ Stage!Next
          /\ UNCHANGED <<effectVars, slotVars, engineVars, daemonVars, reportVars, cpuVars, planeVars>>
       \/ /\ part = "cpu" /\ Cpu!Next
          /\ UNCHANGED <<effectVars, slotVars, engineVars, daemonVars, reportVars, stageVars, planeVars>>
       \/ /\ part = "plane" /\ Plane!Next
          /\ UNCHANGED <<effectVars, slotVars, engineVars, daemonVars, reportVars, stageVars, cpuVars>>

vars == <<part, effectVars, slotVars, engineVars, daemonVars, reportVars, stageVars, cpuVars, planeVars>>

Spec == Init /\ [][Next]_vars

\* What an effect draws is what its configuration says, and the configuration that is
\* kept, the one that draws and the engine behind it stay one: effects.rs, runtime.rs
\* apply_set, the factories of the backends.
EffectsHold == Effect!EffectsKeepContract /\ Slot!SlotsHold /\ Engine!EnginesHold

\* Outages, retry delays, log lines, stage latencies and CPU shares are what really
\* happened, and answers are those to the client's own commands.
ServicesHold ==
    /\ Daemon!AutoInputHolds
    /\ Report!ReporterHolds
    /\ Stage!StagesHold
    /\ Cpu!CpuHolds
    /\ Plane!ControlPlaneHolds
=============================================================================
