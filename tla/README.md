# FluxFrame in TLA+

FluxFrame turns a physical camera into a virtual one. `fluxframe run` is a daemon that reads a V4L2
camera through GStreamer, runs a chain of effects on each frame (segmentation, mask, background,
foreground, post) and writes the result to a v4l2loopback device. `fluxframe-gui` edits the running
daemon over a control socket.

The pixels are the easy part to get right by looking at them. What is hard is everything around them:
the loopback must stay visible while the camera comes and goes, the camera must be closed while nobody
reads the loopback and be open again when somebody does, edits must reach picture, session and file
alike, and the window must tell the truth about a daemon it only hears of through a socket. This
directory models that, checks it with TLC on small instances and proves the safety part with TLAPS.

Source paths below are relative to `src/crates/`.

## 1. Inventory

| Component | State | Operations | Modelled in |
|---|---|---|---|
| Run supervisor (`fluxframe-cli/src/runtime.rs`, `commands/run.rs`) | run token (`running`, slot), `InputFailureSignal` generation, bus error latch, output and input pipelines, shutdown flag | acquire, supervise, recover in place, tear down, retry under `auto` | `Supervisor` |
| Idle state machine, reload thread (`idle/state.rs`, `idle/reload.rs`) | `IdleState`, last edge, `engine_ready`, reload handle | `tick`, enter idle, `reacquire` | `IdleMachine`, `Supervisor` |
| Bus listener, Ctrl-C handler (`fluxframe-gst/src/bus.rs`, `runtime.rs`) | message queue, registered tokens | classify a message, raise a failure, broadcast a stop | `Supervisor` |
| Consumer detector, kernel events (`idle/detector.rs`, `idle/resync.rs`, `fluxframe-gst/src/v4l2_events.rs`) | published verdict, last reading, absent streak, back-off | wait, drain, probe, reconcile, fall back | `Detector` |
| Consumer detector, inotify and /proc (`idle/detector.rs`) | open balance, read error count, watch | read a batch, walk, decay, poll | `Heuristic` |
| Presets (`preset.rs`, `fluxframe-effects/src/composite/`) | sections with chain and tables; live slots | resolve, build, set, set_chain, set_enabled, normalise | `Preset` |
| Control session (`session.rs`, `persist.rs`, `config_merge.rs`) | loaded configuration, active preset with unsaved edits, list of presets, file | the 13 commands, reload, save, run to run | `Session` |
| Editor window and channel (`fluxframe-gui/src/`, `fluxframe-gui/src/ipc/`) | mirror, baseline, pending requests, worker, reconnect generation, debouncer | edits, answers, dialogs, reconnect; listener; command channel | `Editor` |
| Frame path (`fluxframe-gst/src/output.rs`, `slot.rs`, `input.rs`, the worker loop of `runtime.rs`) | slot, composite mailbox and sequence number, writer thread, level of activity | capture, take, push, go idle, recover, stop | `FramePath`, `LatestValue` |
| Composite effect (`fluxframe-effects/src/composite/`) | mask, failure count, engine, chains with memory | process a frame, replace or switch a chain | `Composite` |
| Effects (`mask_effects/`, `plane_effects/`, `post_effects/`) | configuration; tables, pictures, buffers and history computed from it | configure, prepare, process, reset | `Effects`, `Kernels`, `MaskKernels` |
| Registries and metadata (`fluxframe-core/src/metadata.rs`, `registry_common.rs`) | none | describe, resolve, build | `EffectParams`, `Slots` |
| Compute backends (`fluxframe-effects/src/backend/`, `ml/`) | backend in use, tensor kept, whether it has fallen back | build, prepare, blur, infer, fall back | `Backends`, `Engines` |
| Image processing (`fluxframe-effects/src/processing/`, `wgpu_blur/`) | none | blur, resize, fit, blend, dilate, feather | `Kernels`, `GpuKernels` |
| Control socket (`control/socket.rs`, `ControlPlane` of `runtime.rs`) | connection, line buffer, channel, listener thread | read a line, hand over, time out, answer, drop | `ControlPlane` |
| Device discovery (`fluxframe-gst/src/v4l2.rs`, `v4l2_caps.rs`, `util.rs`) | none | enumerate, classify, pick a camera and a mode | `Devices` |
| Automatic input (`commands/run.rs`) | delay, outage marks, shutdown flag, token | look, run, wait, count outages | `AutoInput` |
| Metrics and reporter (`fluxframe-core/src/metrics.rs`, `metrics_reporter.rs`, `thread_cpu.rs`) | counters, rings, stage table, last line, CPU readings | count, record, snapshot, emit or suppress, sample | `Counters`, `Reporter`, `StageTable`, `CpuSampler` |
| Live preview (`fluxframe-gui/src/components/preview/`) | four flags, mailbox, restart worker | activate, restart, drop | `Preview` |
| Frames and placeholders (`fluxframe-core/src/frame.rs`, `frame_conv.rs`, `idle/placeholder.rs`) | the placeholder's picture, the bytes already converted | copy a camera's rows, convert, render | `Frames` |
| Configuration checks, wire format, widgets, one-shot commands | none that outlives a call | | not modelled, see section 8 |

How they interact:

* One **worker** thread does nearly everything: it pulls frames from a one-element slot, runs the chain,
  pushes to the output, ticks the idle machine and serves control commands between two frames (and
  while it waits for a camera). The others talk to it through atomics: the *bus listener* raises an
  input failure generation or closes the run; the *Ctrl-C handler* closes every registered run; the
  *consumer detector* publishes a verdict; the *reload thread*, spawned when a consumer comes back,
  restarts the camera and stores `engine_ready`. The *metrics reporter* only reads.
* Worker and reload thread both drive **one GStreamer pipeline**. Who may call `set_state` when is a
  matter of joins, of the grace period before idle, and of `engine_ready`.
* The **control listener** handles one connection at a time and passes each command to the worker
  through a bounded channel; it waits five seconds for the answer and then answers itself, while the
  command stays queued.
* The **session** belongs to the process and outlives runs. A run builds its chain from the session;
  a command changes preset and live chain together or not at all.
* The **window** keeps its own copy of the active preset and a baseline, changes the copy when an edit
  is accepted, fetches it again after a chain edit or a switch, and derives the unsaved marker from the
  difference.

### What makes each part correct

* Supervisor: recovery and reload never share the pipeline; no failure is lost between two snapshots of
  a counter; the slot is closed only by a run that stops; a clean exit was asked for; a dead camera is
  dealt with; an attached consumer sees live video and a detached one gets the camera closed; a stopped
  run ends.
* Detectors: a verdict is backed by evidence, is corrected when events are lost, and is not held by a
  blind detector; a holder the walk sees is not denied; an empty device is noticed; drop joins.
* Presets and session: what was accepted can be built again and shows the same; what was refused changed
  nothing; file, list and picture agree; a save survives a reload.
* Editor: the mirror is what the daemon renders, the marker is exact, the link recovers.
* Frame path and composite: each hand-over shows the latest value, once and in order, and nothing after
  its end; no frame from before a pause or a loss, no picture of two frames, no mask from another time.
* Effects, backends, registries: a picture is drawn with the configuration in force, whichever way it got
  there; what is prepared fits what is asked; a fallback happens once and costs no frame.
* Kernels: the fast form computes the definition, at every border and size.
* Frames: a frame holds the rows of the camera's buffer wherever it keeps them; a placeholder is its picture
  in every format and every time.
* Control socket: an answer is the one to the client's own line; every line that says something is answered;
  nothing is carried out twice.
* Automatic input, reporter, stage table, sampler: outages, delays, lines, samples and shares are what
  really happened.
* Preview: the last wish wins, one worker at a time, the pane shows it.

The hazards behind them, each at its line, are in `PROJECT.json`.

## 2. Modules

| Module | What it is |
|---|---|
| `IdleMachine` | `tick` of the idle machine as operators; used by `Supervisor` and both detectors |
| `Supervisor`, `MCSupervisor`, `SupervisorProofs` | worker, reload thread, listener, Ctrl-C |
| `Detector`, `DetectorProofs` | kernel events and resync |
| `Heuristic`, `HeuristicProofs` | inotify, /proc walks, polling |
| `Preset` | presets and chains as values; no state of its own |
| `Session`, `MCSession`, `SessionProofs` | the control session over `Preset`; `SessionProofs` has the lemmas about both |
| `Editor`, `MCEditor`, `EditorProofs` | window, workers, listener, channel, daemon |
| `LatestValue` | what a latest-value mailbox promises; implemented twice by `FramePath` |
| `FramePath`, `FramePathProofs` | camera callback, slot, worker loop, output mailbox, writer; `FramePathProofs` has the lemmas about the kernels too |
| `Composite` | a frame through the composite effect, as operators; extended by `FramePath` |
| `Preview`, `PreviewProofs` | window callbacks, restart worker, streaming thread |
| `Kernels`, `MaskKernels`, `GpuKernels` | pixels and masks, as pure operators |
| `Frames` | a camera's buffer to a frame, a placeholder to a frame, as pure operators |
| `KernelCases` | all small inputs for these, and what the results must be |
| `EffectParams` | parameters, defaults and what `configure` accepts, for every effect |
| `Backends` | CPU and GPU blur, both inference engines, their factories, as operators |
| `Effects`, `Slots`, `Engines` | the life of an effect; its table and its configuration; an engine |
| `Devices`, `DeviceCases` | discovery and choice as operators; all small inputs for them |
| `AutoInput` | run_auto with a clock |
| `ControlPlane` | listener, channel, worker's side, drop |
| `Counters`, `Reporter`, `StageTable`, `CpuSampler` | metrics |
| `Parts`, `PartsProofs` | the eight machines from `Effects` to `CpuSampler` as instances side by side |
| `MCParts` | `Parts` for TLC, with `KernelCases` and `DeviceCases` beside it |

Modules whose constants are numbers and plain sets have no MC module. The modules that are proved about
have one `ASSUME` per group of constants, and the `map` of `PROJECT.json` gives the lines of each definition.

**Supervisor.** The worker is a program counter `pc` whose values are the places between two accesses to
shared state, grouped as in the code: `Between` (run_auto), `Acquire`, `Setup`, `Loop`, `Recovery`,
`Closing`. One action is one such stretch of code; `set_state` is one step because GStreamer serialises
it, and going to Null flushes the bus. The reload thread has its own counter (`ReloadReset`,
`ReloadStart`, `ReloadReady`), and so has the Ctrl-C handler, which clears a token's flag before it
closes its slot. Failure generations wrap modulo `Generations` as the `u64` does. The detector is here
only the verdict it publishes. Outside: the camera may disappear and return, post a burst of messages,
and every fallible call may fail within a budget.

**Detector** and **Heuristic.** One action per blocking point of the thread. The environment is the
driver (one queued event per subscriber, events lost, echo of a re-read) or inotify (an event like the
newest in the queue coalesces with it; a full queue takes one overflow mark and loses what comes until
there is room again; `IN_IGNORED`) and the processes that open and close the device, some of which the walk cannot
look into. `Detector` hands over to the fallback as the code does; what the fallback then does is
`Heuristic`, and `Detector` lets it publish any verdict.

**Preset** and **Session.** A preset is a partial function from section kinds to a chain and its tables;
a live chain is a sequence of slots with parameters and a flag. Every command is one action: the code
applies it start to finish between two frames. Parameter values are opaque; which of them `configure`
refuses and which image opens but does not decode are constants. Global tables are one value, with the
command line as a function over it. A save is atomic because it renames. A file that does not parse or does not
load has the presets of its text and the names of those that are to blame (`blamed`): a save takes the tables of its
own preset out of the text before it parses it (`persist.rs:68-92`), so it goes through, and repairs the file,
if the fault was only there; `save_preset_as` loads the file first and does not. A preset's section has a
mark for its model: a mask without one is refused at every build (`builder.rs:114-120`).

**Editor.** The window's message queue is a FIFO; a worker is a record with a phase, a queue of requests,
the request on the wire and what came back; the listener has its connections in order of service and one
call; the channel is a bounded FIFO whose entries remember whether somebody still waits. A configuration
has three cells, one for each way an edit travels: a debounced parameter mirrored on acceptance, a flag
mirrored and then fetched, a chain only fetched. The reconnect generation is the boolean `tick` and a mark
on the ticks already in the queue: a bump voids both what is scheduled and what has fired. Three variables
are history: `overtaken` and `stalled` name races in which marker or mirror may be wrong, `abandoned` says
that a worker was replaced before the window had its end reported, whose messages are then taken for those
of its successor. The daemon's side is `Session` reduced to the active preset, its unsaved state
and the file; it may refuse any change.

**FramePath** and **Composite.** A frame is a number; a picture records which frame its mask, background
and foreground come from, the set of effects that worked on each and what was mixed in from an earlier mask.
The worker's `pc` goes through the loop of `run_process_loop`: control commands, the idle tick, the receive
with its timeout, the chain, the push. The writer has its check, its look at the mailbox and its push as
separate steps, since Ctrl-C, `stop` and a new frame come in between. `LatestValue` is the abstract
mailbox, and the refinement mappings are `CameraMailbox` (captured, taken, slot open) and `OutputMailbox`
(sequence number, newest buffer taken by appsrc, end of stream not sent); both abstract specifications
are checked as properties of the same run. A preparation that fails aborts the start and drops the
composite, so frames always have the prepared size.

**Preview.** Callbacks of the main thread run to their end; `gtk` is where one is when another thread
acts. The streaming thread completes a start, delivers a sample or breaks; the restart worker reads its
target, resets, plays, releases, compares and retakes, one step each, on flags the window changes meanwhile.
`set_state(Playing)` may return with the state pending (`Starting`), which the retry timer takes for healthy.

**Kernels** and the case modules. Integer code is taken as it is (Q8 weights, truncation, clamping);
floating point is an exact fraction, with a scale where the code multiplies by a constant. One channel
stands for three, except where a channel order is the point. `KernelCases` has one action per kernel
that draws an input and stores the answer, so that every answer is a state; the definitions it compares
with are written from what the operation is, not from how the code goes about it: the window sum added
up anew, the nearest source pixel, the largest connected part. `DeviceCases` does the same for the choice of
a camera, of a mode and of a frame rate.

**Effects, Slots, Engines.** `EffectParams` has, for each effect, what the metadata
offers, what serde fills in and what `configure` refuses; a parameter has the values at, inside and
outside its bounds. `Effects` is one effect in a slot, with what it keeps between frames and with the
backend behind `blur`. `Slots` keeps the table of an effect and its configuration beside each other, which
`set` and a rebuild reach on different ways. A picture in memory has the size it was resized to, and a
frame of another size is refused; `prepared` stays set when a later `prepare` fails. `Engines` loads a model with its sidecar under every
installation, and infers with a failure at any step of a call.

**AutoInput, ControlPlane, Reporter, StageTable, CpuSampler.** One action per stretch of code between
two accesses to what is shared, with a clock of whole units in the first and the third and a ghost that
records what really happened. `ControlPlane` reads a byte at a time, which comes to the same as the
chunks of `fill_buf`: whether a line is too long, torn or whole does not depend on where it was split. The
newline of a line has the mark `silent` when what comes before it is empty, white space only or not UTF-8:
the listener passes over such a line without an answer (`socket.rs:265-268`), and answers any other, with
`invalid command` when it is none. What is left of a torn line, and a last line that the end of the stream
cuts off, may be any of the three (`Senses`).

**Parts** has these machines as named instances. `part` says which one a behaviour is about; the others
stand still, so the states of the run are the sum of the machines' and not their product. They share
nothing the code shares either: what they know of each other is an input of each. **MCParts** adds
behaviours of the kernels, with variables of their own, and the choices of `Devices`; they are for TLC, so
that nothing recursive is within reach of `PartsProofs`.

## 3. Runs

| Run | Configuration | What it shows |
|---|---|---|
| `supervisor_safety` | `Supervisor_safety` | A device named by its path, lost twice, the second time anywhere in the recovery from the first: one owner during recovery, no frame during a reload, no failure that recovery brought along is swallowed, the slot and the exit code are right. |
| `supervisor_serving` | `Supervisor_serving` | Healthy camera, grace period longer than a reload: one owner at all times, live video resumes, the camera is closed in idle. |
| `supervisor_recovery` | `Supervisor_recovery` | `device = "auto"`, one thing going wrong anywhere: a dead camera is dealt with, a stopped run ends. |
| `supervisor_stuck_placeholder` (violation) | `Supervisor_stuck_placeholder` | A failed reload that recovery repairs leaves `engine_ready` false. |
| `detector` | `Detector` | All source modes, with and without subscription and resync, two lost events, two failing probes. |
| `heuristic` | `Heuristic` | Holders of both kinds, coalescing and overflow, failing reads, polling. |
| `session` | `Session` | Four commands, one edit of the file, one restart. |
| `editor` | `Editor` | Two operator actions and one trouble: the mirror is true, the marker exact but for named races, the link recovers. |
| `editor_stale_worker` (violation) | `Editor_stale_worker` | Two reconnects in the queue at once: the handshake of the replaced worker fails late, the requests of its successor are forgotten and carried out all the same, and the connected window shows another preset than the daemon renders. |
| `frame_path` | `FramePath` | Three frames through camera, slot, chain, mailbox and writer, with a pause, a loss, a refused buffer, missed inferences and commands at any moment, two of them at most. |
| `preview` | `Preview` | Four signals of the window, two troubles of the device, and the preview dropped or not. |
| `parts` | `Parts` (module `MCParts`) | The eight machines beside the frame loop, and on all small inputs the choices of `Devices` (`ChoicesExact`) and every kernel, with frames and placeholders among them (`KernelsExact`). `EffectsHold` is the conjunction of the invariants of `Effects`, `Slots` and `Engines`; `ServicesHold` that of the other five machines; its `EveryLineAnswered` is about the lines that say something, were not torn and were read to their newline. `ChoicesExact` also has `StuckIsDisabled`: the places where the listener's thread stops are those `Stuck` names. |

### Bounds, and why they are enough

* `MaxUnplugs = 2` with `MaxAttempts = 2`: a failure during the recovery from a failure is the case the
  generation counter exists for; a third loss meets the state the second one left. `Generations` is 8 in
  the safety runs, more than the failures two bursts can raise, so that a wrap is not mistaken for an
  error; 2^64 failures do not happen. In `supervisor_recovery` it is 4, since at most two are raised.
  `MaxBurst = 1`: a longer burst only raises the generation more often; two make the safety run several
  times larger without a new kind of state. `MaxMishaps` caps losses and failures together.
* `MaxLost = 2`, `MaxProbeErrors = 2`: two absences in a row confirm a downgrade, so both can be hit by
  one loss each; two failed probes reach the second step of the back-off.
* `QueueSize = 2`, `MaxHidden = 2`, `MaxBalance = 2`, `MaxFaults = 2`, `ReadErrorBudget = 2`: a pair of
  events can coalesce, overflow or be split over two batches, the balance can be wrong by one in both
  directions, and the error budget (5 in the code) is used up and not used up.
* `MaxCommands = 4`: edit, toggle, switch and rebuild, or edit, save, switch and reload. `Chains` holds
  an empty one, one effect, two, a duplicate and an effect of another section; `Files` holds a composite,
  a passthrough with an orphaned table, a preset without a mask, one whose mask has no model, no file, a file
  that does not parse, and two files that are spoilt in one preset, one of them so that it does not parse.
* `MaxEvents = 2`, `MaxTroubles = 1`: every race found needs at most two actions of the operator.
  `MaxEvents = 3` without timeouts was explored once (4.3 million states); it is where a replaced worker
  first does harm, so `abandoned` is a condition of both properties and `editor_stale_worker` has
  `MaxEvents = 3`, `MaxTroubles = 2`. `Worker` has four identities and a worker that is gone is forgotten,
  so they are reused. `ChannelDepth = 2` is never reached there; it is in `ControlPlane`. The invariant
  of `EditorProofs` was checked in these bounds, with `MaxTroubles = 2` (2.2 million states), and along eleven
  million simulated states with seven workers and larger budgets, before it was proved.
* `FramePath`: three frames are one before, one during and one after whatever happens; `MaxEvents = 2`
  lets every pair of a pause, a loss, a miss, a command and a refused buffer happen, and
  `FallbackThreshold = 2` is reached by two misses and missed by one.
* `Preview`: four signals show, hide, show and hide again; two troubles are a failed start and a
  stream that breaks, while it plays or before. Two workers suffice for the one that leaves and the one that takes over.
* `KernelCases`: lines of up to four samples with radii up to one more than the line have windows narrower and wider than the
  line; planes of 3 x 3 and masks of 4 x 3 have inner pixels, borders, and parts that meet only further
  down; sides of 1 to 5 scale by less, more and exactly 1. Sample values are the ends and the middle of
  the range, where truncation and clamping differ.
  Camera buffers are up to 24 bytes: two rows of two RGB pixels with a stride above the row and an
  offset, and every size below. Two requests to a placeholder are the one that fills the cache and the
  one that must not be given the other's bytes.
* `Parts`: `FrameSizes` has a frame too small to scale down, one that only halves and one with room; `MaxScenes
  = 2` is before and after a reset; `MaxWritten = 2` one parameter beside another; `MaxDelay` is a doubling
  above the base, and `MaxTime = 10` holds an uptime that resets the delay (8 units) and what comes after;
  `MaxClock = 9` holds a heartbeat and the tick after it; `RingSize = 2` with four samples overwrites; three
  threads with one id reused; `Depth = 2` with five bytes fills the channel and blocks the third command, `Limit
  = 2` has a line that is too long.

`CHECK_DEADLOCK FALSE` stands in the runs whose bounded environment comes to rest: the daemon has ended,
or nobody does anything any more. The supervisor runs check deadlock; a process that has ended stutters
by `Exited`.

## 4. Fairness

Weak fairness goes to what the machine does by itself, never to people, cables or drivers:

* each thread's steps (`Worker`, `Reload`, `Thread`, `WorkerRuns`, `Server`, the window's main loop):
  the operating system keeps scheduling them;
* timers that have been set (`GraceElapses`, `IntervalElapses`, `BackoffElapses`, `QuietElapses`, the
  debounce and reconnect timers within `WindowStep`);
* `CameraFrame`: a camera that plays delivers frames; `PopMessage`: the bus is read; in `Preview` a start that
  is pending succeeds or fails (nothing retries one that hangs: `should_restart` waits while Playing is
  pending), and a stream that plays delivers samples;
* in `FramePath` the handler of a Ctrl-C that has begun (`CtrlCClosesSlot`), not Ctrl-C itself;
* in `Preview` strong fairness for `RetryLooks`: the retry timer stays due while other callbacks occupy the
  main loop, and is dispatched when the loop is free, however often it is occupied again.

No fairness is given to consumers, to the operator, to a camera being plugged in, to failures, to Ctrl-C,
or to the daemon being started again, and properties that need one of them say so in their premise
(`LiveVideoResumes` for a consumer that stays, `SettlesDown` for a daemon that stays up). `Parts` states
safety only and assumes none.

## 5. Proofs

Eight modules hold proofs; every theorem holds for all values of the constants that satisfy the `ASSUME`s, which
are type facts only (and, in `Editor`, that a model value standing for nothing is none of the values, and that
there is a worker; in `Parts`, that delays, the heartbeat and the ring are positive, as validation and the code
have them, that the main thread is a thread, and that drops are counted by the slot and not by hand). Nothing
below bounds the number of events, frames, failures or workers.

* **SupervisorProofs.** `TypeCorrect` is inductive as it stands. The others come from
  `Inv`: five parts say which values of `pc` go with a registered run (`RunPhase`), a cleared flag
  (`StopPhase`), an automatic device (`AutoPhase`) and a reload at work (`ReloadPhases`), and that the
  grace period is not over while one is, if it outlasts a reload (`GracePhase`); then the three
  properties. None of these is inductive
  without the phases: that no reload works during recovery holds because recovery is entered only
  through `RecoverJoin` and left before the tick that spawns the next one. `OneOwner` assumes in
  addition `GraceOutlastsReload`; without it the statement is false (section 7).
  `FailuresAreNoticed` and `CleanExitsWereAsked` rest on a second invariant, `Kept`: a generation that was
  read is not ahead of the counter, the camera is down between the two ends of an attempt, a dead camera
  has its message or an unadopted generation, and whoever is told to stop has a reason. It is inductive
  only while the counter tells a new failure from an old one, so both theorems have the hypothesis
  `[]CounterHasRoom` on the behaviour. The program's counter has 64 bits and counts the failures of one run;
  with one that wraps (`Generations = 2`) TLC finds both properties violated, so the hypothesis is needed.
* **DetectorProofs.** `Inv` adds `LastIsShared` (the thread's last verdict is the published one) and
  `StreakCounts` (the streak never counts more re-reads than said "nobody" in a row, and is only non-zero
  while the verdict is Present). `EvidenceFirst` is an action property proved from it.
* **HeuristicProofs.** `SeenHolder` needs `SeenOrPending`: a holder the walk can see is either reflected
  in the verdict, or something that makes the thread look again is queued, in the batch, or its next
  step. `FullQueue` and `WatchPhase` carry it through overflow and fallback.
* **SessionProofs** begins with presets as values: the shape of every edit, the undo lemmas (`RestoreUndoes`,
  `RevertUndoes`) and the lemmas that each edit keeps a preset buildable (`...Builds`) and keeps the live
  chain its image (`...Follows`). `Inv == TypeOK /\ ActiveBuilds /\ LiveFollowsPreset`. The two properties need each
  other: a command is accepted on the strength of the live chain, and the preset it leaves can be built
  because the live chain had the same effects. `RestartKeepsPicture` follows from
  `LiveFollowsPreset` when no effect is twice in a chain. Refusals and reloads are action properties.
* **FramePathProofs.** `Inv` has a part per piece of shared state: `SlotInOrder` (what waits in the slot is
  newer than what was taken from it), `MailboxInOrder` (a publication has a number of its own, the writer
  pushes only what is newer than its last push and is gone before the end of the stream), `FailuresCounted`
  (the composite's own count is the number of misses in a row, and a run at the threshold is over), and
  `PicturesClean`: with the two properties of the picture, `OldFramesGone` (nothing from before the last cut
  is in the slot or in work, and a smoothed mask remembers nothing from before smoothing was last reset).
  The invariants of the run follow. `MailboxesImplementLatestValue` is the refinement: both mappings take
  initial states to initial states of `LatestValue`, and each action of the frame path to a step of it or
  to a stutter.
  The second half of the module is about the kernels a frame goes through, on frames of any size. Nothing in it
  depends on the machine before it.
  * Blurring. A sliding sum is the difference of two running totals, and a window is the same difference (`SumIsRise`,
    `SlidingSum`), which gives `SlidesAreWindows`, `PlaneBlurred` and `FeatherIsWindow`. A window between `lo` and
    `hi` has its mean there (`WindowBounded`, `BlurKeepsRange`), and a window whose samples are brighter by at most
    m has a rounded mean that is above the cut-off mean of the darker one by at most m + 1 (`MeansCompare`): hence
    `GpuIsBrighter`, two for each pass.
  * Masks and planes. `GrowthIsMaximum` is by the number of passes (`NearOfNear`: near what is near is at most
    one step further). `SharpenKeepsFlat`: the three weights add up to one, so that a flat plane is its own blur.
  * Geometry (`FitsCentred`, `TapsInside`, `ChunksPartition`, `MirrorReverses`, `MixesStayBetween`) follows from what
    a rounded-down quotient is, `QuotientAround`; `CopiesOwnPixel` from the padding of a row.
  * Colours. The rounding and the rounded coefficients of one pixel put it within 0.7 of BT.601 (`CloseTo`,
    `PixelColours`); a pair takes the mean of its two chromas and rounds up again, so it is up to
    0.7 below and 1.2 above the exact mean (`WordColours`), and not within 1 of it. <253, 0, 0> beside
    <253, 0, 2> is above by more than 1; `KernelCases` has that pair among its inputs.
* **PreviewProofs.** `WorkersTakeTurns` is not inductive: nothing in it keeps a second worker out. `Inv` says
  that the flag is raised exactly while a worker drives; its other direction, `FlagIsNeverOrphaned`, is worth
  a theorem of its own, since an orphaned flag would keep every later restart out.
* **EditorProofs** has three layers. `Structure` always holds: types, `Tags` (no two answers, queue entries and
  requests share a tag), `Fitting` (what the window has under a tag is what the worker has under it, and an
  accepted answer has what the request was for), `ChainsFetched` (a new chain is followed by its fetch),
  `Phases` and `Listener` (what a worker's phase, its connection and the listener's call have to do with
  each other). `Mirroring` holds as long as no command was given up on and no worker abandoned: a
  replaced worker has nothing left to say (`OldWorkersDone`, `EndIsOfCurrent`), the channel holds at most the
  command the listener waits for (`ChannelSynchronous`), every request unanswered is in the window's
  book (`InFlight`), and, the heart of it, `Mirrors`: for each part of the preset, either something under way
  will fetch that part again (`Owed`), or the window, once it has read the answers that are on their way,
  shows what the daemon now has (`Shown`). `MirrorIsTrue` is the case in which nothing is under way.
  `Marking` is the layer of the baseline, for `MarkersAreExact`. It holds as long as, in addition, no change was
  sent ahead of the answer to a switch, revert or reload and no link dropped with a change or a fetch under way
  (`overtaken`): `Order` (requests are carried out in the order they were sent, no change comes after an unanswered
  switch, and none before the fetch of the baseline that answers it), `Fresh` (what the window waits for before
  a worker's first snapshot is still in that worker's queue, and is no fetch of the baseline), `Harmless` (a
  command still with the daemon whose worker has given its connection up changes neither settings nor file), and
  `MarkedEnd`: follow the window through the messages in its inbox (`EndIs`), lost session and all; the state it
  ends in has the file of its preset as baseline unless the next request is the fetch of the baseline
  (`NextResync`), and while such a fetch is owed (`Resyncing`) the daemon has no unsaved edits. It is stated of
  the window's *end* and not of its present, since an answer changes the file or the preset when the daemon
  gives it and the window when it is read. A command
  given up on sets `overtaken` as well (`BlurredForGood`), so the theorem needs no word about `stalled`.

* **PartsProofs** proves both invariants of `Parts`: `ServicesKeep` for the five services, `EffectsKeep` for effects,
  tables and engines. No variable is shared, so there is one inductive invariant for each machine, and
  `OneMachineMoves` and `OneOfThreeMoves` say that a step is one of one machine.
  * `PlaneInv` orders the commands of a client: what the stream still holds comes after what the listener holds
    and that after what was sent, carried out or answered (`StreamOrdered`, `HeldOrdered`, `SpentFirst`,
    `CarriedOut`, `BusyLine`), so that an answer is to the line before it and no command is carried out twice.
    `Bounded` says that every command in the channel but the one the listener waits for has been abandoned,
    which `DropWaitsOnlyThen` needs.
  * `DaemonInv` relates the marks of an outage to the ghost of what happened (`Outages`), and bounds the
    delays: `Delays` says that after n failures in a row the delay is the base doubled n times, or the ceiling.
  * `ReportInv` keeps the line that was emitted beside the counters it was read from; `StageInv` is the index and the
    table being one another's inverse (`TableOf`) with each ring the tail of what was recorded (`Sampled`); `CpuInv`
    has the readings, what was run since, and which ids were reused in between (`Accounted`).
  * `EffectInv` says for every effect what its buffers and tables were computed from (`BackendMade`, `BlurInv`,
    `OthersDraw`, `BoxIsFresh`), `EngineInv` that the engine is what the factory built from this installation and sidecar.
  * `SlotInv` adds to the property only that the effect is one of the registries. Its weight is in
    `Catalogue`, which goes through the thirteen effects with parameters: what is offered is fine, the default
    among it, both sets of defaults agree, and a key without a default in the configuration type is a path or
    the only key. `DefaultsAgree` and `OneKeyFilled` follow for any effect of which this is true, and with them
    every command. This is why a `set` on an empty table and a rebuild from that table come to one configuration.
  * The retry delay and the sum of the CPU shares are recursive functions and a percentile is a choice among the orders of a
    ring. What they are for every input is shown of the smallest counterexample, which has none
    (`Smallest`): `DoubledGrows`, `SumOfUnion`, `RolesPartition`, and `IsThePercentile`, for which an order is built by
    inserting one sample after the other (`Inserted`, `SomeOrder`).
  * The levels of `exposure_correct` are the least ones reached, and the counts up to a level grow with it:
    `PercentilesOrdered`, for any histogram.

Only model-checked: all liveness (the prover has no rule for it, and none for `ENABLED`, so `StuckIsDisabled` is in
`ChoicesExact` and not in `ServicesHold`); `ChoicesExact` and `KernelsExact`, which quantify over small inputs.
Of what `KernelsExact` says, the lemmas of `FramePathProofs` and `PartsProofs` prove blur, feather, GPU against CPU,
dilation, sharpening, chunks, mirroring, fits, taps, the bounds of blending, colours, and the copies to and from
the GPU for all sizes; sampling, placeholders, the blocks of pixelate, packing and decoding for the
models, blobs and crops are only model-checked, as are the exact values of a bilinear picture.

## 6. Findings

`runtime.rs:3191`: the placeholder stays after a failed reload that recovery repairs: `engine_ready` is
false and nothing sets it (`supervisor_stuck_placeholder`).

`app.rs:510` (`fluxframe-gui`): messages of a worker do not say which worker they come from. The end of a replaced
worker is taken for the end of its successor, whose pending requests are cleared although they will be
carried out (`editor_stale_worker`).

What else was found is in section 7; any of
it is shown by a configuration with the constants given there.

## 7. Known divergences without a run

These properties stand in the modules, and TLC refutes them with the constants given. The first five are
errors of the code or of its comments; the others follow from them or are limits the code accepts.

| Property | Constants | What happens |
|---|---|---|
| `Supervisor!FailureNeverSwallowed` | `Spec`, `SupervisedOnly`, grace FALSE, `MaxUnplugs` 1, `MaxFaults` 0, `MaxMishaps` 1, `MaxAttempts` 1, `MaxBurst` 1, `Generations` 8 | A camera failure between `arm()` and the snapshot of the generation (`runtime.rs:2301`) is never noticed. |
| `Heuristic!PollingNoticesNobody` | as in `Heuristic.cfg`, `MaxFaults` 0 | Polling latches Present once it has seen a holder (`idle/detector.rs:1430`). |
| `Session!GlobalsFixedAtStart` | as in `Session.cfg` | A reload drops the command line and changes the global tables of the next run (`runtime.rs:536`). |
| `Editor!BaselineIsPersisted` | as in `Editor.cfg`, `MaxTroubles` 0 | An edit that overtakes a resynchronisation counts as saved (`fluxframe-gui/src/app.rs:437`). |
| `Preview!BrokenStreamIsRestarted` | `Workers` of two, `MaxWishes` 3, `MaxTroubles` 1 | A restart request is cleared by a quick hide and show while a worker is under way (`preview/mod.rs:347`), although lines 34-36 and 349-350 say the retry timer will see it. |
| `Preview!NoStaleFlash` | as in `Preview.cfg` | A frame under way when the pane is hidden is put in the emptied mailbox. |
| `Supervisor!ReloadDoesNotOutliveRun` | `Spec`, `SupervisedOnly`, grace TRUE, no unplug, one fault | An error return skips the join; the reload goes on in a dead run. |
| `Supervisor!ShutdownEnds` | `FairSpec`, `SupervisedOnly`, no unplug, no fault | Ctrl-C between the shutdown test and the registration of the token is seen by neither. |
| `Supervisor!SetStateHasOneOwner` | grace FALSE, no unplug, no fault | With a grace period shorter than a reload, entering idle meets a reload at work. |
| `Supervisor!CameraClosedInIdle` | `FairSpec`, grace TRUE, one unplug, `Generations` 4 | Recovery opens the camera in idle and no edge closes it. |
| `Heuristic!HiccupIsForgotten` | one hidden holder, one fault, `FairSpec` | Unknown after a transient failure stays until the next event. |
| `Heuristic!HeldOpenStaysPresent` | one hidden holder, no fault | The balance decays although the holder is still there. |
| `Heuristic!OpensAreCounted` | two hidden holders, no fault | Coalesced opens are counted once. |
| `Session!ChangesApplyNow` | as in `Session.cfg` | With an effect twice in a chain, `set` reaches the first slot only until the chain is rebuilt. |
| `Session!ActivePrepares` | as in `Session.cfg` | An image that opens but does not decode is accepted; every run after it fails, with only read-only commands answered in between. |

Met while reading, and visible in the models' definitions:

* `smooth_temporal` with factor 1: `doc/user/presets-and-effects.md:125` and the help text
  (`mask_effects/smooth_temporal.rs:81`) say the mask freezes; the code keeps the previous raw mask
  (136-166), so the mask is one frame late. Factor 0 leaves the history in place, although it is
  documented to disable the effect.
* `vignette` computes its table in `prepare` only: a live `set` of its strength has no effect before the
  next start, except to or from 0, although `doc/user/control-socket.md:68` says changes apply from the next
  frame. `Effects!DrawnAsConfigured` leaves it out.
* `blur` stores the new downscale factor before its backend is prepared for it
  (`plane_effects/blur.rs:181`); it is latent, because a backend that was prepared once for the whole frame
  can be prepared for less. A radius of 0 still blurs when the factor is above 1; 0 passes are accepted,
  though the metadata starts at 1. With `percentile_low = 0` the low end of `exposure_correct` is level 0, not the darkest pixel that is there.
* The GPU blur rounds where the CPU truncates, so it may be brighter by as much as twice the number of passes.
  The nearest resize may be one source pixel off to the left.
* `inspect_row_layout` (`frame_conv.rs:188-191`) says it prefers the `VideoMeta` over the stride of the caps; it
  takes the larger one. Where the caps' is larger the rows are read from the wrong places or the buffer
  is refused; `KernelCases!SampleExact` excludes that layout. A last row without its padding is refused as well.
* `build_buffer` (`output.rs:974`) pushes packed rows without a `VideoMeta`, and no range check asks for a width
  whose row is a multiple of four bytes; what GStreamer makes of the others is outside this model.
* A model whose layout is `hw` and whose output has two channels is read by its first plane in silence.
  Without a sidecar a model gets a placeholder description of size 1 x 1.
* The reporter compares with the last line it emitted, not with the last tick: a second crossing of the
  silence threshold after a suppressed reset of the age is not reported, though the comment
  (`metrics_reporter.rs:48-52`) says a crossing always is. `Reporter!LastLineIsTrue` states what holds.
* `thread_cpu.rs:77-90`: when `/proc` cannot be read, the time of the baseline moves on and its ticks do
  not, so the next share is too high; `CpuSampler!SharesAreReal` excludes that one reading.
* `process_epoch` (`runtime.rs:1350`) is not the start of the process but of its first outage, which counts
  one millisecond less. The first delay of `acquire_input` is the base even where that is above the ceiling.
  `mark_output_down` keeps the earliest edge, which never matters: there is a live one between two.
* Ctrl-C after the camera is opened and before the token is registered is not heard by the run
  (`runtime.rs:2093`); `AutoInput!CtrlCIsHeard` states that this is the only such moment.
* `ListenerHandle::drop` says the join "completes promptly"; `ControlPlane!DropWaitsOnlyThen` states the two
  cases where it does not: sixteen abandoned commands in the channel, or a client that does not read
  its answer, for the write has no timeout. `write_response` writes nothing when an answer cannot be
  serialised. A line torn for more than 500 ms is lost; if only its newline was left, without an answer.
  A line that is not UTF-8 has no answer either, though one that is not JSON has: a client that waits for one
  answer per line waits for ever. `EveryLineAnswered` exempts both.
* `OutputPipeline::start` (`output.rs:376-381`) leaves `started` set and the pipeline playing when the writer
  thread cannot be spawned, and nothing stops them; the run ends with the error (`FramePath!StartOutput`).
* `ConsumerWatch` must be dropped before the output (`output.rs:219-224`), which the order of the fields sees to.
  `push_frame` (`output.rs:386-389`) and two places of `runtime.rs` (2410, 2571) say a composite is pushed
  again; the writer drops it as a duplicate. `runtime.rs:2232` bounds the time a command waits by the poll;
  the wait it means serves commands itself.
* `daemon_info` is stale after a reload; a preset with a post section and no mask runs as a passthrough,
  where `doc/user/presets-and-effects.md` says it requires one; `image_fill` cannot be added by
  `set_chain` without a table; an operator's edit between the read and the rename of a save is lost; once
  a command takes more than five seconds `MirrorIsTrue` fails, because the window takes the listener's
  timeout for a refusal (`reply.rs`; drop `stalled` from the property to see it).
* The answer to a save marks what the window shows as saved (`reply.rs:212`, `mark_saved` in `state.rs`), and a
  save may be pressed while a reload, revert or switch is unanswered: what is then marked is the configuration
  from before. The fetch that follows puts it right, unless the link drops in between. `MarkerIsExact`
  exempts such a save, as it does such an edit (`overtaken`).

## 8. Not modelled, and why

* Configuration ranges and paths, command-line parsing, logging: tables and formatting, one function per
  key. The wire format's JSON and the limit on an answer's length. Widgets: their events are the operator's
  actions. `check`, `benchmark`: sequential tools.
* GStreamer pipelines as they are built, what a GPU or an inference library computes, and the order in
  which the workers of a parallel loop take their chunks (they share nothing). The shape of the vignette,
  the colours of a letterbox.
* `frame_to_buffer` (`frame_conv.rs`) has no caller; the writer uses `build_buffer`. `ManagedComposite`
  (`idle/managed_composite.rs`) is not wired into the supervisor.
* Time is abstract except in `AutoInput` and `Reporter`: a timer may fire once it is set, and nothing is said
  about how long anything takes except through `GraceOutlastsReload`.
* In the window: the read-only commands, the list of presets and save-as. The handshake is one request
  instead of six. The reporter reads the counters one by one while they change; no property compares two.
* The build with the `ml` feature is assumed by `Session`: without it a composite preset is refused at start.
* Memory orderings weaker than sequential consistency: each atomic is read and written in the order of
  the program. The code uses acquire and release pairs for the flags concerned.
* Still partly modelled: the pick between `device = "auto"` and a path is a choice in `Supervisor`, whose
  runs and `AutoInput`'s are not composed; `Detector` publishes any verdict once the fallback has taken over;
  presets do not follow the effects' internals (`Slots` does, for one effect); binding the socket file.

## 9. Plan

1. `LiveEdit`, an abstract daemon (active preset, unsaved state, file; a command takes effect at once or
   not at all) that `Session` is shown to implement and that `Editor` already assumes.
2. An abstract presence specification ("the verdict is what consumers do, sooner or later") that
   `Detector` and `Heuristic` implement under their assumptions and that replaces the free verdict of
   `Supervisor`.
3. The labelling of blobs, proved for masks of any size as blur, feather and dilation are.
4. Merge of configuration tables.
