------------------------------- MODULE Effects -------------------------------
(***************************************************************************)
(* The life of one effect in its slot of a sub-chain: it is configured     *)
(* before and between frames, prepared for a frame size when a run starts, *)
(* reset when it is switched on again, and given frames.  Modelled are the *)
(* effects that keep something computed from their configuration or from   *)
(* earlier frames: blur (scratch buffers and a backend), image_fill (the   *)
(* decoded picture), vignette (a table of factors) and auto_frame (the     *)
(* smoothed box).  What they compute is module Kernels.                    *)
(***************************************************************************)
EXTENDS EffectParams, Backends, FiniteSets

CONSTANTS
    FrameSizes,  \* the sizes a camera may settle on, as pairs
    MaxScenes    \* bound: how often history is dropped

VARIABLES
    effect,   \* the effect in the slot
    params,   \* its accepted configuration; <<>> before the first one
    disk,     \* what each picture file is: "picture", "text" or "missing"
    machine,  \* the build and its GPU, and the backend that is forced
    frame,    \* the size the effect has been prepared for
    ready,    \* the prepared flag
    built,    \* the configuration the kept table or picture was computed from, and its size
    blur,     \* the blur effect's factor in effect (0: none) and backend
    scene,    \* number of times history has been dropped
    box,      \* the scenes whose boxes are in auto_frame's state (empty: none)
    last,     \* what the last call of process came to
    counted   \* GPU fallbacks counted since the last prepare

vars == <<effect, params, disk, machine, frame, ready, built, blur, scene, box, last, counted>>

\* The effects the slot may hold, each with a configuration to start from.
Starts ==
    [blur       |-> BlurDefault,
     vignette   |-> VignetteDefault,
     image_fill |-> Over([path |-> "a"], ImageFillDefault),
     auto_frame |-> AutoFrameDefault]

\* Values a client sets between frames, some of them out of range.
LiveValues(name) ==
    CASE name = "blur" -> [radius |-> {0, 20}, passes |-> {0, 2}, downscale |-> {1, 2, 8, 9}]
      [] name = "vignette" -> [strength |-> {0, 40, NaN}]
      [] name = "image_fill" -> [path |-> {"a", "b"}, fit |-> {"cover", "contain"}]
      [] name = "auto_frame" -> [smoothing |-> {0, 85}, zoom_max |-> {100, 160, 500}]

Unseen == [result |-> "none", drawn |-> <<>>, from |-> {}]
Dropped(why) == [result |-> why, drawn |-> <<>>, from |-> {}]
Drawn(with, from) == [result |-> "drawn", drawn |-> with, from |-> from]

Machines == [choice : {"auto", "cpu", "wgpu"}, feature : BOOLEAN, gpu : {"none", "rejects", "works"},
             counters : BOOLEAN]

Init ==
    /\ effect \in DOMAIN Starts
    /\ params = Starts[effect]
    /\ disk \in [{"a", "b"} -> {"picture", "text", "missing"}]
    /\ machine \in Machines
    /\ effect # "blur" => machine = [choice |-> "auto", feature |-> FALSE, gpu |-> "none",
                                     counters |-> TRUE]
    /\ effect # "image_fill" => disk = [p \in {"a", "b"} |-> "picture"]
    /\ frame = Unprepared
    /\ ready = FALSE
    /\ built = <<>>
    /\ blur = [down |-> 0, backend |-> CpuBackend]
    /\ scene = 0
    /\ box = {}
    /\ last = Unseen
    /\ counted = 0

environment == <<effect, machine>>

\* A path stands for the file it names.
OnDisk(p) == IF "path" \in DOMAIN p THEN [p EXCEPT !.path = disk[@]] ELSE p

(***************************************************************************)
(* configure between two frames.  The session merges the value into the    *)
(* effect's table; a refused configuration leaves the effect as it was.    *)
(***************************************************************************)
Configure(key, value) ==
    LET merged == [params EXCEPT ![key] = value]
    IN  /\ params' = IF Accepts(effect, OnDisk(merged)) THEN merged ELSE params
        /\ last' = Unseen
        /\ UNCHANGED <<environment, disk, frame, ready, built, blur, scene, box, counted>>

(***************************************************************************)
(* blur.  setup_downscale_buffers brings the buffers and the backend to    *)
(* the factor that is asked for, at most half the shorter side.            *)
(***************************************************************************)
Shorter(dims) == IF dims[1] < dims[2] THEN dims[1] ELSE dims[2]
AtLeastOne(n) == IF n < 1 THEN 1 ELSE n
Bounded(factor, dims) ==
    LET most == AtLeastOne(Shorter(dims) \div 2)
    IN  IF factor > most THEN most ELSE AtLeastOne(factor)

ScaledDown(dims, factor) == <<AtLeastOne(dims[1] \div factor), AtLeastOne(dims[2] \div factor)>>

\* Fault: a factor changed live leaves the backend prepared for the old size.
SetupKeepingBackend(b, dims, factor) ==
    LET desired == Bounded(factor, dims)
        backend == PrepareBackend(b.backend, ScaledDown(dims, desired))
    IN  IF desired = b.down \/ b.down # 0 THEN [ok |-> TRUE, blur |-> [b EXCEPT !.down = desired]]
        ELSE IF backend.ok THEN [ok |-> TRUE, blur |-> [down |-> desired, backend |-> backend.backend]]
        ELSE [ok |-> FALSE, blur |-> [b EXCEPT !.down = desired]]

\* The new factor stands even if the backend then fails to be prepared.
SetupDownscale(b, dims, factor) ==
    LET desired == Bounded(factor, dims)
        backend == PrepareBackend(b.backend, ScaledDown(dims, desired))
    IN  IF desired = b.down THEN [ok |-> TRUE, blur |-> b]
        ELSE IF backend.ok THEN [ok |-> TRUE, blur |-> [down |-> desired, backend |-> backend.backend]]
        ELSE [ok |-> FALSE, blur |-> [b EXCEPT !.down = desired]]

\* A fresh backend, prepared for the whole frame and then for the scaled one.
PrepareBlur(dims) ==
    LET made   == BuildBlur(machine.choice, machine)
        whole  == PrepareBackend(made.backend, dims)
        scaled == SetupDownscale([down |-> 0, backend |-> whole.backend], dims, params.downscale)
    IN  /\ effect = "blur"
        /\ frame' = dims
        /\ IF made.ok /\ whole.ok
           THEN ready' = scaled.ok /\ blur' = scaled.blur
           ELSE ready' = FALSE /\ blur' = [blur EXCEPT !.down = 0]
        /\ counted' = 0
        /\ last' = Unseen
        /\ UNCHANGED <<environment, params, disk, built, scene, box>>

\* The radius that goes with the factor; scaled down it is never 0.
RadiusAt(radius, factor) ==
    IF factor <= 1 THEN radius ELSE AtLeastOne((radius + factor - 1) \div factor)

ProcessBlur(works) ==
    LET setup  == SetupDownscale(blur, frame, params.downscale)
        factor == setup.blur.down
        radius == RadiusAt(params.radius, factor)
        called == BlurOn(setup.blur.backend, ScaledDown(frame, factor), radius, params.passes, works)
    IN  /\ effect = "blur"
        /\ ready
        /\ IF setup.ok
           THEN /\ blur' = [setup.blur EXCEPT !.backend = called.backend]
                /\ counted' = counted + called.counted
                /\ last' = IF called.blurred
                           THEN Drawn([params EXCEPT !.downscale = factor], {}) ELSE Dropped("backend")
           ELSE blur' = setup.blur /\ last' = Dropped("prepare") /\ UNCHANGED counted
        /\ UNCHANGED <<environment, params, disk, frame, ready, built, scene, box>>

(***************************************************************************)
(* image_fill.  configure opens the file and does not decode it.           *)
(***************************************************************************)
Decodes(p) == disk[p.path] = "picture"

\* A later prepare that fails keeps the flag and the old picture, beside the new size.
PreparePicture(dims) ==
    /\ effect = "image_fill"
    /\ frame' = dims
    /\ built' = IF Decodes(params) THEN [of |-> params, size |-> dims] ELSE built
    /\ ready' = (ready \/ Decodes(params))
    /\ last' = Unseen
    /\ UNCHANGED <<environment, params, disk, blur, scene, box, counted>>

\* A picture that is no longer the one configured is loaded again first.
Drifted == built.of # params
Area(dims) == dims[1] * dims[2]

\* A picture with another number of bytes than the plane is refused.
ProcessPicture ==
    /\ effect = "image_fill"
    /\ ready
    /\ built' = IF Drifted /\ Decodes(params) THEN [of |-> params, size |-> frame] ELSE built
    /\ last' = IF Drifted /\ ~Decodes(params) THEN Dropped("picture")
               ELSE IF Area(built'.size) # Area(frame) THEN Dropped("size")
               ELSE Drawn(params, {})
    /\ UNCHANGED <<environment, params, disk, frame, ready, blur, scene, box, counted>>

\* The user's files change while the program runs.
FileChanges(path, kind) ==
    /\ effect = "image_fill"
    /\ disk' = [disk EXCEPT ![path] = kind]
    /\ last' = Unseen
    /\ UNCHANGED <<environment, params, frame, ready, built, blur, scene, box, counted>>

(***************************************************************************)
(* vignette.  prepare alone computes the factors; a strength of 0 skips    *)
(* them.                                                                   *)
(***************************************************************************)
PrepareVignette(dims) ==
    /\ effect = "vignette"
    /\ frame' = dims
    /\ built' = params
    /\ ready' = TRUE
    /\ last' = Unseen
    /\ UNCHANGED <<environment, params, disk, blur, scene, box, counted>>

ProcessVignette ==
    /\ effect = "vignette"
    /\ ready
    /\ last' = Drawn(IF params.strength = 0 THEN params ELSE built, {})
    /\ UNCHANGED <<environment, params, disk, frame, ready, built, blur, scene, box, counted>>

(***************************************************************************)
(* auto_frame.  prepare and reset_state drop the box; a frame without a    *)
(* person keeps the last one.                                              *)
(***************************************************************************)
PrepareAutoFrame(dims) ==
    /\ effect = "auto_frame"
    /\ scene < MaxScenes
    /\ frame' = dims
    /\ ready' = TRUE
    /\ box' = {}
    /\ scene' = scene + 1
    /\ last' = Unseen
    /\ UNCHANGED <<environment, params, disk, built, blur, counted>>

ResetState ==
    /\ effect = "auto_frame"
    /\ scene < MaxScenes
    /\ box' = {}
    /\ scene' = scene + 1
    /\ last' = Unseen
    /\ UNCHANGED <<environment, params, disk, frame, ready, built, blur, counted>>

\* ema_blend: a smoothing of 0 keeps nothing of the box before.
EmaBlend(before, smoothing) == IF smoothing = 0 THEN {scene} ELSE before \cup {scene}

ProcessAutoFrame(seen) ==
    /\ effect = "auto_frame"
    /\ ready
    /\ IF params.zoom_max <= 100 THEN UNCHANGED box
       ELSE IF ~seen THEN UNCHANGED box
       ELSE box' = IF box = {} THEN {scene} ELSE EmaBlend(box, params.smoothing)
    /\ last' = Drawn(params, IF params.zoom_max <= 100 THEN {} ELSE box')
    /\ UNCHANGED <<environment, params, disk, frame, ready, built, blur, scene, counted>>

(***************************************************************************)
(* configure, then prepare, then frames; configure again at any time, and  *)
(* prepare again with every start of a run.                                *)
(***************************************************************************)
LiveSet == \E key \in DOMAIN LiveValues(effect) :
              \E value \in LiveValues(effect)[key] : Configure(key, value)

Next ==
    \/ LiveSet
    \/ \E dims \in FrameSizes :
          PrepareBlur(dims) \/ PreparePicture(dims) \/ PrepareVignette(dims) \/ PrepareAutoFrame(dims)
    \/ \E works \in BOOLEAN : ProcessBlur(works)
    \/ ProcessPicture
    \/ ProcessVignette
    \/ \E seen \in BOOLEAN : ProcessAutoFrame(seen)
    \/ ResetState
    \/ \E path \in DOMAIN disk : \E kind \in {"picture", "text", "missing"} : FileChanges(path, kind)

Spec == Init /\ [][Next]_vars

(***************************************************************************)
(* What the traits promise of an effect.                                   *)
(***************************************************************************)
\* A frame that is drawn is drawn with the configuration in force, whatever was set
\* since prepare.  (vignette draws with the one prepare saw.)
DrawnAsConfigured ==
    last.result = "drawn" /\ effect # "vignette" =>
        last.drawn = IF effect = "blur"
                     THEN [params EXCEPT !.downscale = Bounded(@, frame)] ELSE params

\* Whichever backend is used next, it is prepared for the size it will be given.
BackendFits ==
    effect = "blur" /\ ready =>
        LET dims == ScaledDown(frame, blur.down)
            b    == blur.backend
        IN  /\ ~TooSmall(dims)
            /\ b.kind # "wgpu" => b.cpu = dims
            /\ b.kind # "cpu" /\ ~b.fallen => b.gpu = dims

\* A GPU that fails costs no frame where there are counters, and is given up once.
GpuLosesNoFrame ==
    effect = "blur" =>
        /\ last.result # "prepare"
        /\ last.result = "backend" => machine.choice = "wgpu" /\ ~machine.counters
        /\ ready => counted = IF blur.backend.fallen THEN 1 ELSE 0

\* A picture that cannot be decoded costs frames, and only while it is there; the one drawn
\* has the bytes of the frame, also after a prepare for another size has failed.
PictureFailsAlone ==
    effect = "image_fill" /\ last.result # "none" =>
        /\ (last.result = "picture") = (Drifted /\ ~Decodes(params))
        /\ last.result = "drawn" => Area(built.size) = Area(frame)

\* No frame is framed with a box from before the last prepare or reset.
NoStaleBox == last.from \subseteq {scene}

EffectsKeepContract ==
    /\ DrawnAsConfigured
    /\ BackendFits
    /\ GpuLosesNoFrame
    /\ PictureFailsAlone
    /\ NoStaleBox
=============================================================================
