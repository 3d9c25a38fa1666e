------------------------------ MODULE Composite ------------------------------
(***************************************************************************)
(* The composite effect of fluxframe-effects: what one frame goes through  *)
(* (segmentation, four sub-chains, the alpha blend) and what the control   *)
(* session does to a sub-chain between two frames.  Operators only; the    *)
(* state is a record the worker thread owns (module FramePath).            *)
(*                                                                         *)
(* Pixels are symbolic.  A plane is the frame it was copied from and the   *)
(* set of effects it has been through; a mask is the frame it was inferred *)
(* from, the frame of the mask it was blended with (0: none) and its       *)
(* effects.                                                                *)
(***************************************************************************)
EXTENDS Naturals, Sequences

CONSTANTS
    FallbackThreshold  \* consecutive inference failures the stage tolerates, plus one

\* SegmentationConfig::validate refuses 0.
ASSUME ThresholdAssumption == FallbackThreshold \in Nat \ {0}

Sections == {"mask", "background", "foreground", "post"}

Plane(frame, by) == [of |-> frame, by |-> by]
Mask(frame) == [of |-> frame, with |-> 0, by |-> {}]

(***************************************************************************)
(* A slot of a sub-chain.  live is smooth_temporal's factor being nonzero, *)
(* prev the frame of the raw mask it keeps (0: none).                      *)
(***************************************************************************)
Slot(name, enabled) == [name |-> name, enabled |-> enabled, live |-> TRUE, prev |-> 0]

\* reset_state and prepare of smooth_temporal; the other effects keep nothing.
ResetState(slot) == [slot EXCEPT !.prev = 0]

\* smooth_temporal at work: it blends the mask with the raw one it kept (or
\* keeps it as a seed when it has none); a factor of 0 leaves both alone.
Smooths(slot) == slot.enabled /\ slot.name = "smooth_temporal" /\ slot.live

\* The mask sub-chain: every enabled slot works on what the last one left, so
\* the last one to smooth decides what the mask was blended with.
RunMaskChain(chain, mask) ==
    LET smoothing == {i \in DOMAIN chain : Smooths(chain[i])}
        last == CHOOSE i \in smoothing : \A j \in smoothing : j <= i
        others == {i \in DOMAIN chain : chain[i].enabled /\ chain[i].name # "smooth_temporal"}
    IN  [chain |-> [i \in DOMAIN chain |-> IF i \in smoothing
                                          THEN [chain[i] EXCEPT !.prev = mask.of] ELSE chain[i]],
         mask |-> [mask EXCEPT !.with = IF smoothing = {} THEN @ ELSE chain[last].prev,
                               !.by = @ \union {chain[i].name : i \in others}]]

\* A plane sub-chain: the enabled slots.
RunPlaneChain(chain, plane) ==
    [plane EXCEPT !.by = @ \union {chain[i].name : i \in {j \in DOMAIN chain : chain[j].enabled}}]

(***************************************************************************)
(* The composite: its prepared engine, the failures in a row, the chains.  *)
(***************************************************************************)
NewComposite(mask, background, foreground, post) ==
    [engine |-> FALSE, failures |-> 0, mask |-> mask, background |-> background,
     foreground |-> foreground, post |-> post]

\* prepare: loads the engine, clears the count and prepares every slot, the
\* disabled ones too.  The engine's warm-up run may fail; that is only logged.
Prepare(c) ==
    [c EXCEPT !.engine = TRUE, !.failures = 0,
              !.mask = [i \in DOMAIN @ |-> ResetState(@[i])]]

(***************************************************************************)
(* SegmentationBase::process.  A missing engine is fatal at once; a failed *)
(* inference is tolerated until there have been FallbackThreshold of them  *)
(* in a row; a success forgets them, and an output that does not decode is *)
(* fatal however few there were.  outcome: what the engine does.           *)
(***************************************************************************)
Outcomes == {"ok", "miss", "undecodable"}

\* Fault: the count survives a success.
SegmentNeverForgets(c, outcome) ==
    CASE ~c.engine -> [c |-> c, result |-> "fatal"]
      [] c.engine /\ outcome = "miss" ->
            [c |-> [c EXCEPT !.failures = @ + 1],
             result |-> IF c.failures + 1 >= FallbackThreshold THEN "fatal" ELSE "fallback"]
      [] c.engine /\ outcome # "miss" ->
            [c |-> c, result |-> IF outcome = "undecodable" THEN "fatal" ELSE "ok"]

Segment(c, outcome) ==
    CASE ~c.engine -> [c |-> c, result |-> "fatal"]
      [] c.engine /\ outcome = "miss" ->
            [c |-> [c EXCEPT !.failures = @ + 1],
             result |-> IF c.failures + 1 >= FallbackThreshold THEN "fatal" ELSE "fallback"]
      [] c.engine /\ outcome # "miss" ->
            [c |-> [c EXCEPT !.failures = 0],
             result |-> IF outcome = "undecodable" THEN "fatal" ELSE "ok"]

(***************************************************************************)
(* CompositeEffect::process on the frame numbered frame.  The background   *)
(* is a copy of the frame taken before the foreground chain works on the   *)
(* frame in place; the blend puts the background under the mask.  A frame  *)
(* whose inference failed leaves as it came.                               *)
(***************************************************************************)
Blend(foreground, background, mask, post) ==
    [foreground |-> foreground, background |-> background, mask |-> mask, post |-> post]

Raw(frame) == Blend(Plane(frame, {}), Plane(frame, {}), Mask(frame), {})

\* Fault: the background is copied after the foreground chain ran in place.
LateSnapshot(c, frame, outcome) ==
    LET seg  == Segment(c, outcome)
        run  == RunMaskChain(seg.c.mask, Mask(frame))
        fg   == RunPlaneChain(seg.c.foreground, Plane(frame, {}))
        bg   == RunPlaneChain(seg.c.background, fg)
        post == RunPlaneChain(seg.c.post, Plane(frame, {}))
    IN  IF seg.result # "ok"
        THEN [c |-> seg.c, result |-> seg.result, picture |-> Raw(frame)]
        ELSE [c |-> [seg.c EXCEPT !.mask = run.chain], result |-> "ok",
              picture |-> Blend(fg, bg, run.mask, post.by)]

Process(c, frame, outcome) ==
    LET seg  == Segment(c, outcome)
        run  == RunMaskChain(seg.c.mask, Mask(frame))
        bg   == RunPlaneChain(seg.c.background, Plane(frame, {}))
        fg   == RunPlaneChain(seg.c.foreground, Plane(frame, {}))
        post == RunPlaneChain(seg.c.post, Plane(frame, {}))
    IN  IF seg.result # "ok"
        THEN [c |-> seg.c, result |-> seg.result, picture |-> Raw(frame)]
        ELSE [c |-> [seg.c EXCEPT !.mask = run.chain], result |-> "ok",
              picture |-> Blend(fg, bg, run.mask, post.by)]

(***************************************************************************)
(* Between two frames: set_effect_enabled turns every slot of the name on  *)
(* or off and forgets the history of those it turns on;                    *)
(* reconfigure_named_effect configures the first; replace_subchain         *)
(* prepares the new chain and swaps it in.                                 *)
(***************************************************************************)
\* Fault: an effect that is turned on again goes on from its old history.
EnabledKeepingHistory(chain, name, on) ==
    [i \in DOMAIN chain |-> IF chain[i].name = name THEN [chain[i] EXCEPT !.enabled = on]
                                                    ELSE chain[i]]

SetEnabled(chain, name, on) ==
    [i \in DOMAIN chain |->
        IF chain[i].name # name \/ chain[i].enabled = on THEN chain[i]
        ELSE IF on THEN [ResetState(chain[i]) EXCEPT !.enabled = TRUE]
        ELSE [chain[i] EXCEPT !.enabled = FALSE]]

Reconfigure(chain, name, live) ==
    [i \in DOMAIN chain |->
        IF chain[i].name = name /\ \A j \in 1..(i - 1) : chain[j].name # name
        THEN [chain[i] EXCEPT !.live = live]
        ELSE chain[i]]

ReplaceSubchain(c, section, chain) ==
    [c EXCEPT ![section] = [i \in DOMAIN chain |-> ResetState(chain[i])]]

(***************************************************************************)
(* take_engine and install_engine, the two ends of an engine's unloading;  *)
(* a composite without its engine kills the run with its next frame.       *)
(***************************************************************************)
TakeEngine(c) == [c EXCEPT !.engine = FALSE]
InstallEngine(c) == [c EXCEPT !.engine = TRUE]
==============================================================================
