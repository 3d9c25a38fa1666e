--------------------------- MODULE FramePathProofs ---------------------------
(***************************************************************************)
(* Safety of the frame path for every value of its constants: any number   *)
(* of frames, pauses, losses, missed inferences, commands and refusals,    *)
(* and any threshold.                                                      *)
(*                                                                         *)
(* The inductive invariant Inv has one part per piece of shared state: the *)
(* types, the slot (SlotInOrder), the output mailbox (MailboxInOrder),     *)
(* the counted failures (FailuresCounted) and the frames that must not be  *)
(* seen again (OldFramesGone).  The properties of module FramePath follow  *)
(* from it, and so do the two refinements of LatestValue, step by step.    *)
(*                                                                         *)
(* After the machine the kernels that its frames go through, on frames of  *)
(* any size: blur, feather, growth of a mask, sharpening, the blur on the  *)
(* GPU, chunks, geometry, blending and colours.  Sliding windows and       *)
(* passes are recursive; what is shown of them is shown of the smallest    *)
(* counterexample.                                                         *)
(***************************************************************************)
EXTENDS FramePath, TLAPS, WellFoundedInduction

(***************************************************************************)
(* Types.  A mask chain is what the run starts with and what every command *)
(* leaves: smooth_temporal, then feather.                                  *)
(***************************************************************************)
Names == {"smooth_temporal", "feather", "blur", "sharpen", "vignette"}

Slots == [name : Names, enabled : BOOLEAN, live : BOOLEAN, prev : Nat]

MaskChains == {chain \in [1..2 -> Slots] : /\ chain[1].name = "smooth_temporal"
                                           /\ chain[2].name = "feather"}

\* No command reaches the other three chains, and nothing unloads the engine.
Composites == [engine : {TRUE}, failures : Nat, mask : MaskChains,
               background : {<<Slot("blur", TRUE)>>},
               foreground : {<<Slot("sharpen", TRUE)>>},
               post : {<<Slot("vignette", TRUE)>>}]

Planes == [of : Nat, by : SUBSET Names]
Masks == [of : Nat, with : Nat, by : SUBSET Names]
Pictures == [foreground : Planes, background : Planes, mask : Masks, post : SUBSET Names]

Published == [seq : Nat, frame : Nat]

Types ==
    /\ running \in BOOLEAN /\ ready \in BOOLEAN
    /\ camera \in {"Null", "Playing", "Lost"}
    /\ captured \in 0..MaxFrames
    /\ slot \in [frame : Nat, dropped : Nat, closed : BOOLEAN]
    /\ takes \in [newest : Nat, count : Nat]
    /\ pc \in PCs
    /\ level \in {"Active", "Idle"}
    /\ reload \in {"null", "play", "ready", "none"}
    /\ composite \in Composites
    /\ cur \in [frame : Nat, picture : Pictures]
    /\ fallback \in [active : BOOLEAN, edges : Nat]
    /\ result \in {"none", "stopped", "inference", "error"}
    /\ out \in [state : {"Null", "Playing"}, started : BOOLEAN, counter : Nat, latest : Published]
    /\ appsrc \in [newest : Nat, frame : Nat, count : Nat, eos : BOOLEAN]
    /\ writer \in [at : {"off", "check", "look", "push"}, has : Published, last : Nat]
    /\ used \in [pauses : Nat, losses : Nat, fills : Nat, misses : Nat, commands : Nat,
                 refusals : Nat]
    /\ ghost \in [cut : Nat, misses : Nat, enabledAt : Nat]

\* What waits in the slot is newer than what was taken from it, nothing waits
\* in a closed slot, and every capture is dropped or taken at most once.
SlotInOrder ==
    /\ slot.frame <= captured
    /\ takes.newest <= captured
    /\ takes.count <= takes.newest
    /\ slot.dropped <= captured
    /\ slot.frame # 0 => takes.newest < slot.frame /\ slot.dropped < captured
    /\ slot.closed => slot.frame = 0

\* The mailbox holds the newest publication; the writer pushes only what is
\* newer than its last push, and it is gone before the end of the stream.
MailboxInOrder ==
    /\ out.counter = out.latest.seq + 1
    /\ writer.last = appsrc.newest
    /\ appsrc.newest <= out.latest.seq
    /\ appsrc.count <= appsrc.newest
    /\ writer.at = "push" => /\ appsrc.newest < writer.has.seq
                             /\ writer.has.seq <= out.latest.seq
    /\ pc \in {"start", "eos", "outputNull", "ended"} => writer.at = "off"
    /\ appsrc.eos => pc \in {"outputNull", "ended"}

Ending == {"closeSlot", "stopInput", "stopOutput", "join", "eos", "outputNull", "ended"}

\* The composite's own count is the number of misses in a row, and the run is
\* over as soon as it reaches the threshold.
FailuresCounted ==
    /\ composite.failures = ghost.misses
    /\ ghost.misses >= FallbackThreshold <=> result = "inference"
    /\ pc \notin Ending => result = "none"

\* Nothing from before a cut waits or is worked on, the frame in work is newer
\* than what smooth_temporal may remember, and its picture is one frame's.
OldFramesGone ==
    /\ ghost.cut <= captured
    /\ slot.frame # 0 => slot.frame > ghost.cut
    /\ ghost.enabledAt <= takes.newest
    /\ composite.mask[1].enabled /\ composite.mask[1].prev # 0
           => composite.mask[1].prev > ghost.enabledAt
    /\ pc \in {"process", "push"} => cur.frame > ghost.cut
    /\ pc = "process" => cur.frame > ghost.enabledAt /\ cur.picture = Raw(cur.frame)

\* OldFramesGone with the two properties of the picture: one invariant, since
\* the picture is pushed one step after it is made.
PicturesClean == OldFramesGone /\ OneFramePerComposite /\ MaskHistoryIsCurrent

Inv == Types /\ SlotInOrder /\ MailboxInOrder /\ FailuresCounted /\ PicturesClean

-----------------------------------------------------------------------------
(* The operators of the composite on what the run gives them. *)

LEMMA TruthValues == \A v : v = FALSE \/ v = TRUE => v \in BOOLEAN
BY Zenon

LEMMA RawPicture ==
    ASSUME NEW frame \in Nat
    PROVE  Raw(frame) \in Pictures
BY DEF Raw, Blend, Plane, Mask, Pictures, Planes, Masks

LEMMA FirstChain == <<Slot("smooth_temporal", TRUE), Slot("feather", FALSE)>> \in MaskChains
<1>1. Slot("smooth_temporal", TRUE) \in Slots /\ Slot("feather", FALSE) \in Slots
  BY TruthValues DEF Slot, Slots, Names
<1>2. \A a, b \in Slots : a.name = "smooth_temporal" /\ b.name = "feather" => <<a, b>> \in MaskChains
  BY DEF MaskChains
<1>3. /\ Slot("smooth_temporal", TRUE).name = "smooth_temporal"
      /\ Slot("feather", FALSE).name = "feather"
  BY DEF Slot
<1> QED BY <1>1, <1>2, <1>3

LEMMA ResetChain ==
    ASSUME NEW chain \in MaskChains
    PROVE  /\ [i \in DOMAIN chain |-> ResetState(chain[i])] \in MaskChains
           /\ [i \in DOMAIN chain |-> ResetState(chain[i])][1] = [chain[1] EXCEPT !.prev = 0]
BY DEF MaskChains, Slots, ResetState

\* What a mask chain does to its own slots and to the mask of a frame.
LEMMA MaskChainRun ==
    ASSUME NEW chain \in MaskChains, NEW frame \in Nat
    PROVE  LET run == RunMaskChain(chain, Mask(frame))
           IN  /\ run.chain \in MaskChains
               /\ run.chain[1] = IF Smooths(chain[1]) THEN [chain[1] EXCEPT !.prev = frame]
                                                      ELSE chain[1]
               /\ run.mask \in Masks
               /\ run.mask.of = frame
               /\ run.mask.with = IF Smooths(chain[1]) THEN chain[1].prev ELSE 0
<1> DEFINE smoothing == {i \in DOMAIN chain : Smooths(chain[i])}
           last == CHOOSE i \in smoothing : \A j \in smoothing : j <= i
           others == {i \in DOMAIN chain : chain[i].enabled /\ chain[i].name # "smooth_temporal"}
           names == {chain[i].name : i \in others}
           run == RunMaskChain(chain, Mask(frame))
<1>1. chain \in [1..2 -> Slots] /\ chain[1].name = "smooth_temporal" /\ chain[2].name = "feather"
  BY DEF MaskChains
<1>2. smoothing = IF Smooths(chain[1]) THEN {1} ELSE {}
  BY <1>1 DEF Smooths
<1>3. smoothing # {} => last = 1
  BY <1>2
<1>4. names \in SUBSET Names
  BY <1>1 DEF Slots
<1>5. run = [chain |-> [i \in DOMAIN chain |-> IF i \in smoothing
                                              THEN [chain[i] EXCEPT !.prev = frame] ELSE chain[i]],
             mask |-> [Mask(frame) EXCEPT !.with = IF smoothing = {} THEN @ ELSE chain[last].prev,
                                          !.by = @ \union names]]
  BY DEF RunMaskChain, Mask
<1> HIDE DEF smoothing, last, others, names, run
<1>6. run.chain \in MaskChains /\ run.chain[1] = IF Smooths(chain[1]) THEN [chain[1] EXCEPT !.prev = frame]
                                                                   ELSE chain[1]
  BY <1>1, <1>2, <1>5 DEF MaskChains, Slots
<1>7. run.mask \in Masks /\ run.mask.of = frame
        /\ run.mask.with = IF Smooths(chain[1]) THEN chain[1].prev ELSE 0
  <2>1. Mask(frame) = [of |-> frame, with |-> 0, by |-> {}]
    BY DEF Mask
  <2>2. chain[1].prev \in Nat
    BY <1>1 DEF Slots
  <2>3. ({} \union names) \in SUBSET Names
    BY <1>4
  <2>4. run.mask = [Mask(frame) EXCEPT !.with = IF smoothing = {} THEN @ ELSE chain[last].prev,
                                       !.by = @ \union names]
    BY <1>5, Zenon
  <2>5. run.mask = [of |-> frame, with |-> IF smoothing = {} THEN 0 ELSE chain[last].prev,
                    by |-> {} \union names]
    BY <2>4 DEF Mask
  <2>6. (IF smoothing = {} THEN 0 ELSE chain[last].prev)
            = (IF Smooths(chain[1]) THEN chain[1].prev ELSE 0)
    BY <1>2, <1>3
  <2> QED BY <2>2, <2>3, <2>5, <2>6 DEF Masks
<1> QED BY <1>6, <1>7 DEF run

LEMMA PlaneChainRun ==
    ASSUME NEW name \in Names, NEW frame \in Nat
    PROVE  RunPlaneChain(<<Slot(name, TRUE)>>, Plane(frame, {})) = Plane(frame, {name})
<1> DEFINE chain == <<Slot(name, TRUE)>>
<1>1. DOMAIN chain = {1} /\ chain[1] = Slot(name, TRUE)
  OBVIOUS
<1>2. {j \in DOMAIN chain : chain[j].enabled} = {1}
  BY <1>1 DEF Slot
<1>3. {chain[i].name : i \in {j \in DOMAIN chain : chain[j].enabled}} = {name}
  BY <1>1, <1>2 DEF Slot
<1>4. RunPlaneChain(chain, Plane(frame, {})) = [Plane(frame, {}) EXCEPT !.by = {} \union {name}]
  BY <1>3 DEF RunPlaneChain, Plane
<1>5. {} \union {name} = {name}
  OBVIOUS
<1> QED BY <1>4, <1>5 DEF Plane

\* The commands of a control session on a mask chain.
LEMMA ChainCommands ==
    ASSUME NEW chain \in MaskChains, NEW v \in BOOLEAN
    PROVE  /\ SetEnabled(chain, "smooth_temporal", v) \in MaskChains
           /\ SetEnabled(chain, "smooth_temporal", v)[1] =
                 IF v /\ ~chain[1].enabled THEN [chain[1] EXCEPT !.prev = 0, !.enabled = TRUE]
                 ELSE [chain[1] EXCEPT !.enabled = v]
           /\ Reconfigure(chain, "smooth_temporal", v) \in MaskChains
           /\ Reconfigure(chain, "smooth_temporal", v)[1] = [chain[1] EXCEPT !.live = v]
<1>1. chain \in [1..2 -> Slots] /\ chain[1].name = "smooth_temporal" /\ chain[2].name = "feather"
  BY DEF MaskChains
<1> DEFINE set == SetEnabled(chain, "smooth_temporal", v)
           one == IF v /\ ~chain[1].enabled THEN [chain[1] EXCEPT !.prev = 0, !.enabled = TRUE]
                  ELSE [chain[1] EXCEPT !.enabled = v]
<1>2. one \in Slots /\ one.name = "smooth_temporal" /\ chain[2] \in Slots
  BY <1>1, TruthValues DEF Slots
<1>3. DOMAIN set = 1..2 /\ set[1] = one /\ set[2] = chain[2] /\ set = [i \in 1..2 |-> set[i]]
  <2>1. chain[1].enabled = v => [chain[1] EXCEPT !.enabled = v] = chain[1]
    BY <1>1 DEF Slots
  <2>2. [ResetState(chain[1]) EXCEPT !.enabled = TRUE]
            = [chain[1] EXCEPT !.prev = 0, !.enabled = TRUE]
    BY <1>1 DEF ResetState, Slots
  <2>3. chain[1].enabled \in BOOLEAN
    BY <1>1 DEF Slots
  <2>4. DOMAIN set = 1..2 /\ set[2] = chain[2] /\ set = [i \in 1..2 |-> set[i]]
    BY <1>1 DEF SetEnabled
  <2>5. set[1] = IF chain[1].enabled = v THEN chain[1]
                 ELSE IF v THEN [ResetState(chain[1]) EXCEPT !.enabled = TRUE]
                 ELSE [chain[1] EXCEPT !.enabled = FALSE]
    BY <1>1 DEF SetEnabled
  <2>6. CASE v = TRUE
    BY <2>6, <2>1, <2>2, <2>3, <2>4, <2>5
  <2>7. CASE v = FALSE
    BY <2>7, <2>1, <2>3, <2>4, <2>5
  <2> QED BY <2>6, <2>7
<1>4. Reconfigure(chain, "smooth_temporal", v) \in MaskChains
  BY <1>1 DEF Reconfigure, MaskChains, Slots
<1>5. Reconfigure(chain, "smooth_temporal", v)[1] = [chain[1] EXCEPT !.live = v]
  BY <1>1 DEF Reconfigure, Slots
<1>6. set \in MaskChains /\ set[1] = one
  <2> HIDE DEF one, set
  <2> QED BY <1>1, <1>2, <1>3 DEF MaskChains
<1> QED BY <1>4, <1>5, <1>6

LEMMA SegmentRun ==
    ASSUME NEW c \in Composites, NEW outcome \in Outcomes
    PROVE  LET seg == Segment(c, outcome)
           IN  /\ seg.c = [c EXCEPT !.failures = IF outcome = "miss" THEN @ + 1 ELSE 0]
               /\ seg.result = IF outcome = "miss"
                               THEN IF c.failures + 1 >= FallbackThreshold THEN "fatal" ELSE "fallback"
                               ELSE IF outcome = "undecodable" THEN "fatal" ELSE "ok"
<1>1. c.engine = TRUE
  BY DEF Composites
<1>2. CASE outcome = "miss"
  BY <1>1, <1>2 DEF Segment
<1>3. CASE outcome # "miss"
  BY <1>1, <1>3 DEF Segment
<1> QED BY <1>2, <1>3

\* One frame through the composite: the outcome of its segmentation decides
\* between a blended picture, the frame as it came, and the end of the run.
LEMMA ProcessRun ==
    ASSUME NEW c \in Composites, NEW frame \in Nat, NEW outcome \in Outcomes
    PROVE  LET r == Process(c, frame, outcome)
               run == RunMaskChain(c.mask, Mask(frame))
           IN  /\ r.c \in Composites
               /\ r.c.failures = IF outcome = "miss" THEN c.failures + 1 ELSE 0
               /\ r.c.mask = IF outcome = "ok" THEN run.chain ELSE c.mask
               /\ r.result = IF outcome = "miss"
                             THEN IF c.failures + 1 >= FallbackThreshold THEN "fatal" ELSE "fallback"
                             ELSE IF outcome = "undecodable" THEN "fatal" ELSE "ok"
               /\ r.picture = IF outcome = "ok"
                              THEN Blend(Plane(frame, {"sharpen"}), Plane(frame, {"blur"}), run.mask,
                                         {"vignette"})
                              ELSE Raw(frame)
               /\ r.picture \in Pictures
<1> DEFINE r == Process(c, frame, outcome)
           run == RunMaskChain(c.mask, Mask(frame))
           seg == Segment(c, outcome)
<1>1. /\ c.mask \in MaskChains /\ c.failures \in Nat
      /\ c.background = <<Slot("blur", TRUE)>> /\ c.foreground = <<Slot("sharpen", TRUE)>>
      /\ c.post = <<Slot("vignette", TRUE)>>
  BY DEF Composites
<1>2. /\ seg.c = [c EXCEPT !.failures = IF outcome = "miss" THEN @ + 1 ELSE 0]
      /\ seg.result = IF outcome = "miss"
                      THEN IF c.failures + 1 >= FallbackThreshold THEN "fatal" ELSE "fallback"
                      ELSE IF outcome = "undecodable" THEN "fatal" ELSE "ok"
  BY SegmentRun
<1>3. /\ seg.c \in Composites /\ seg.c.mask = c.mask /\ seg.c.background = c.background
      /\ seg.c.foreground = c.foreground /\ seg.c.post = c.post
      /\ seg.c.failures = IF outcome = "miss" THEN c.failures + 1 ELSE 0
  <2> DEFINE n == IF outcome = "miss" THEN c.failures + 1 ELSE 0
  <2>1. n \in Nat
    BY <1>1
  <2>2. seg.c = [c EXCEPT !.failures = n]
    BY <1>2
  <2> HIDE DEF n, seg
  <2>3. /\ seg.c \in Composites /\ seg.c.mask = c.mask /\ seg.c.background = c.background
        /\ seg.c.foreground = c.foreground /\ seg.c.post = c.post /\ seg.c.failures = n
    BY <2>1, <2>2 DEF Composites
  <2> QED BY <2>3 DEF n
<1>4. run.chain \in MaskChains /\ run.mask \in Masks
  BY <1>1, MaskChainRun
<1>5. /\ RunPlaneChain(c.background, Plane(frame, {})) = Plane(frame, {"blur"})
      /\ RunPlaneChain(c.foreground, Plane(frame, {})) = Plane(frame, {"sharpen"})
      /\ RunPlaneChain(c.post, Plane(frame, {})) = Plane(frame, {"vignette"})
  <2>1. ASSUME NEW name \in Names
        PROVE  RunPlaneChain(<<Slot(name, TRUE)>>, Plane(frame, {})) = Plane(frame, {name})
    BY PlaneChainRun
  <2>2. "blur" \in Names /\ "sharpen" \in Names /\ "vignette" \in Names
    BY DEF Names
  <2> QED BY <1>1, <2>1, <2>2, Zenon
<1>6. seg.result = "ok" <=> outcome = "ok"
  BY <1>2 DEF Outcomes
<1>7. /\ r.result = seg.result
      /\ r.c = IF outcome = "ok" THEN [seg.c EXCEPT !.mask = run.chain] ELSE seg.c
      /\ r.picture = IF outcome = "ok"
                     THEN Blend(Plane(frame, {"sharpen"}), Plane(frame, {"blur"}), run.mask,
                                Plane(frame, {"vignette"}).by)
                     ELSE Raw(frame)
  <2> HIDE DEF seg, run
  <2>1. r = IF seg.result # "ok"
            THEN [c |-> seg.c, result |-> seg.result, picture |-> Raw(frame)]
            ELSE [c |-> [seg.c EXCEPT !.mask = run.chain], result |-> "ok",
                  picture |-> Blend(Plane(frame, {"sharpen"}), Plane(frame, {"blur"}), run.mask,
                                    Plane(frame, {"vignette"}).by)]
    BY <1>3, <1>5 DEF Process, seg, run
  <2> HIDE DEF r
  <2> QED BY <2>1, <1>6
<1>8. Plane(frame, {"vignette"}).by = {"vignette"}
  BY DEF Plane
<1>9. Blend(Plane(frame, {"sharpen"}), Plane(frame, {"blur"}), run.mask, {"vignette"}) \in Pictures
  <2>1. ASSUME NEW name \in Names
        PROVE  {name} \in SUBSET Names /\ Plane(frame, {name}) \in Planes
    <3>1. {name} \in SUBSET Names
      OBVIOUS
    <3> QED BY <3>1 DEF Plane, Planes
  <2>2. /\ Plane(frame, {"sharpen"}) \in Planes /\ Plane(frame, {"blur"}) \in Planes
        /\ {"vignette"} \in SUBSET Names
    BY <2>1 DEF Names
  <2> QED BY <1>4, <2>2 DEF Blend, Pictures
<1>10. [seg.c EXCEPT !.mask = run.chain] \in Composites
          /\ [seg.c EXCEPT !.mask = run.chain].mask = run.chain
          /\ [seg.c EXCEPT !.mask = run.chain].failures = seg.c.failures
  BY <1>3, <1>4 DEF Composites
<1> HIDE DEF r, run, seg
<1> QED BY <1>2, <1>3, <1>7, <1>8, <1>9, <1>10, RawPicture DEF r, run

-----------------------------------------------------------------------------
(* Types. *)

LEMMA TypesFirst == Init => Types
<1> SUFFICES ASSUME Init PROVE Types
  OBVIOUS
<1>1. composite \in Composites
  <2> DEFINE chain == <<Slot("smooth_temporal", TRUE), Slot("feather", FALSE)>>
             fresh == [i \in DOMAIN chain |-> ResetState(chain[i])]
  <2>1. fresh \in MaskChains
    BY FirstChain, ResetChain
  <2> HIDE DEF chain, fresh
  <2>2. composite = [engine |-> TRUE, failures |-> 0, mask |-> fresh,
                     background |-> <<Slot("blur", TRUE)>>, foreground |-> <<Slot("sharpen", TRUE)>>,
                     post |-> <<Slot("vignette", TRUE)>>]
    BY DEF Init, Prepare, NewComposite, chain, fresh
  <2> QED BY <2>1, <2>2 DEF Composites
<1>2. cur \in [frame : Nat, picture : Pictures]
  BY RawPicture DEF Init
<1> QED BY <1>1, <1>2, TruthValues, BoundsAssumption DEF Init, Types, PCs, Nothing, Published, BoundsAssumption

LEMMA TypesStep == Types /\ [Next]_vars => Types'
<1> SUFFICES ASSUME Types, [Next]_vars PROVE Types'
  OBVIOUS
<1> USE TruthValues DEF Types, vars, workerVars
<1>1. CASE StartOutput
  BY <1>1 DEF StartOutput, PCs
<1>2. CASE AcquireInput
  BY <1>2 DEF AcquireInput, PCs
<1>3. CASE Command
  <2>1. composite.mask \in MaskChains
    BY DEF Composites
  <2>2. \E chain \in MaskChains : composite' = [composite EXCEPT !.mask = chain]
    <3>1. CASE \E on \in BOOLEAN :
                 composite' = [composite EXCEPT !.mask = SetEnabled(@, "smooth_temporal", on)]
      BY <3>1, <2>1, ChainCommands
    <3>2. CASE \E live \in BOOLEAN :
                 composite' = [composite EXCEPT !.mask = Reconfigure(@, "smooth_temporal", live)]
      BY <3>2, <2>1, ChainCommands
    <3>3. CASE composite' = ReplaceSubchain(composite, "mask", <<Slot("smooth_temporal", TRUE),
                                                               Slot("feather", FALSE)>>)
      BY <3>3, FirstChain, ResetChain DEF ReplaceSubchain, Composites
    <3> QED BY <1>3, <3>1, <3>2, <3>3 DEF Command
  <2>3. composite' \in Composites
    BY <2>2 DEF Composites
  <2>4. ghost' \in [cut : Nat, misses : Nat, enabledAt : Nat]
    BY <1>3 DEF Command
  <2> QED BY <1>3, <2>3, <2>4 DEF Command
<1>4. CASE LeaveLoop
  BY <1>4 DEF LeaveLoop, PCs
<1>5. CASE Recover
  BY <1>5 DEF Recover, PCs, Publish, Placeholder, Published
<1>6. CASE RecoverToNull
  BY <1>6 DEF RecoverToNull, PCs, SlotClear
<1>7. CASE Reacquire
  BY <1>7 DEF Reacquire, PCs
<1>8. CASE Recovered
  BY <1>8 DEF Recovered, PCs, SlotClear
<1>9. CASE EnterIdle
  BY <1>9 DEF EnterIdle, PCs
<1>10. CASE ClearSlot
  BY <1>10 DEF ClearSlot, PCs, SlotClear
<1>11. CASE ResumeActive
  BY <1>11 DEF ResumeActive, PCs, Publish, Placeholder, Published
<1>12. CASE SpawnReload
  BY <1>12 DEF SpawnReload, PCs
<1>13. CASE Tick
  BY <1>13 DEF Tick, PCs
<1>14. CASE Fill
  BY <1>14 DEF Fill, PCs, Publish, Placeholder, Published
<1>15. CASE Park
  BY <1>15 DEF Park, PCs, Take, SlotTake
<1>16. CASE Receive
  <2>1. CASE slot.frame # 0 /\ Take
    <3>1. Raw(slot.frame) \in Pictures
      BY RawPicture
    <3> QED BY <1>16, <2>1, <3>1 DEF Receive, PCs, Take, SlotTake
  <2>2. CASE ~Take
    BY <1>16, <2>2 DEF Receive, PCs
  <2> QED BY <2>1, <2>2 DEF Take
<1>17. CASE ProcessFrame
  <2> PICK outcome \in Outcomes :
         LET r == Process(composite, cur.frame, outcome)
         IN  /\ used' = [used EXCEPT !.misses = @ + (IF outcome = "miss" THEN 1 ELSE 0)]
             /\ ghost' = [ghost EXCEPT !.misses = IF outcome = "miss" THEN @ + 1 ELSE 0]
             /\ composite' = r.c
             /\ IF r.result = "fatal"
                THEN /\ pc' = "closeSlot"
                     /\ result' = IF outcome = "miss" THEN "inference" ELSE "error"
                     /\ UNCHANGED <<cur, fallback>>
                ELSE /\ pc' = "push"
                     /\ cur' = [cur EXCEPT !.picture = r.picture]
                     /\ fallback' = Edge(fallback, r.result = "fallback")
                     /\ UNCHANGED result
    BY <1>17 DEF ProcessFrame
  <2> DEFINE r == Process(composite, cur.frame, outcome)
  <2>1. r.c \in Composites /\ r.picture \in Pictures
    BY ProcessRun
  <2> HIDE DEF r
  <2>2. used' \in [pauses : Nat, losses : Nat, fills : Nat, misses : Nat, commands : Nat,
                   refusals : Nat]
    OBVIOUS
  <2>3. ghost' \in [cut : Nat, misses : Nat, enabledAt : Nat]
    OBVIOUS
  <2>4. fallback' \in [active : BOOLEAN, edges : Nat]
    <3>1. (r.result = "fallback") \in BOOLEAN
      BY Zenon
    <3> QED BY <3>1 DEF Edge, r
  <2>5. cur' \in [frame : Nat, picture : Pictures] /\ composite' \in Composites
    BY <2>1 DEF r
  <2>6. pc' \in PCs /\ result' \in {"none", "stopped", "inference", "error"}
    BY DEF PCs
  <2>7. UNCHANGED <<running, camera, captured, slot, takes, level, ready, reload, out, appsrc, writer>>
    BY <1>17 DEF ProcessFrame
  <2> QED BY <2>2, <2>3, <2>4, <2>5, <2>6, <2>7
<1>18. CASE PushFrame
  BY <1>18, RawPicture DEF PushFrame, PCs, Publish, Published
<1>19. CASE CloseSlot
  BY <1>19 DEF CloseSlot, PCs, SlotClose
<1>20. CASE StopInput
  BY <1>20 DEF StopInput, PCs
<1>21. CASE StopOutput
  BY <1>21 DEF StopOutput, PCs
<1>22. CASE JoinWriter
  BY <1>22 DEF JoinWriter, PCs
<1>23. CASE EndOfStream
  BY <1>23 DEF EndOfStream, PCs
<1>24. CASE OutputToNull
  BY <1>24 DEF OutputToNull, PCs
<1>25. CASE WriterChecks
  BY <1>25 DEF WriterChecks, otherThanWriter
<1>26. CASE WriterLooks
  BY <1>26 DEF WriterLooks, otherThanWriter
<1>27. CASE WriterPushes
  BY <1>27 DEF WriterPushes, otherThanWriter, Accepted, Refused, Nothing, Published
<1>28. CASE Reload
  BY <1>28 DEF Reload, ReloadNext
<1>29. CASE Capture
  <2>1. captured' = captured + 1 /\ captured' \in 0..MaxFrames
    BY <1>29, BoundsAssumption DEF Capture, BoundsAssumption
  <2>2. slot' \in [frame : Nat, dropped : Nat, closed : BOOLEAN]
    <3>1. slot' = SlotPush(slot, captured + 1)
      BY <1>29 DEF Capture
    <3>2. CASE slot.closed
      BY <3>1, <3>2 DEF SlotPush
    <3>3. CASE ~slot.closed /\ slot.frame = 0
      BY <3>1, <3>3, <2>1 DEF SlotPush
    <3>4. CASE ~slot.closed /\ slot.frame # 0
      BY <3>1, <3>4, <2>1 DEF SlotPush
    <3> QED BY <3>2, <3>3, <3>4
  <2> QED BY <1>29, <2>1, <2>2 DEF Capture
<1>30. CASE CameraLost
  BY <1>30 DEF CameraLost
<1>31. CASE CtrlC
  BY <1>31 DEF CtrlC
<1>32. CASE CtrlCClosesSlot
  BY <1>32 DEF CtrlCClosesSlot, SlotClose
<1>33. CASE UNCHANGED vars
  BY <1>33
<1> QED
  BY <1>1, <1>2, <1>3, <1>4, <1>5, <1>6, <1>7, <1>8, <1>9, <1>10, <1>11, <1>12, <1>13, <1>14, <1>15, <1>16, <1>17, <1>18, <1>19, <1>20, <1>21, <1>22, <1>23, <1>24, <1>25, <1>26, <1>27, <1>28, <1>29, <1>30, <1>31, <1>32, <1>33
  DEF Next, Worker, Writer

-----------------------------------------------------------------------------
(***************************************************************************)
(* The two hand-overs.  Every step of the program does one of four things  *)
(* to the slot and its takes, and one of four to the mailbox, appsrc and   *)
(* the writer; the invariants and the refinements follow from that.        *)
(***************************************************************************)

LEMMA SlotSteps ==
    ASSUME [Next]_vars
    PROVE  \/ UNCHANGED <<captured, slot, takes>>
           \/ captured' = captured + 1 /\ slot' = SlotPush(slot, captured + 1) /\ UNCHANGED takes
           \/ Take /\ pc \in {"park", "receive"} /\ UNCHANGED captured
           \/ slot' \in {SlotClear(slot), SlotClose(slot)} /\ UNCHANGED <<captured, takes>>
<1> USE DEF vars, workerVars
<1>1. CASE Capture
  BY <1>1 DEF Capture
<1>2. CASE Park \/ Receive
  BY <1>2 DEF Park, Receive
<1>3. CASE RecoverToNull \/ Recovered \/ ClearSlot \/ CloseSlot \/ CtrlCClosesSlot
  BY <1>3 DEF RecoverToNull, Recovered, ClearSlot, CloseSlot, CtrlCClosesSlot
<1>4. CASE Writer
  BY <1>4 DEF Writer, WriterChecks, WriterLooks, WriterPushes, otherThanWriter
<1>5. CASE Reload \/ CameraLost \/ CtrlC \/ UNCHANGED vars
  BY <1>5 DEF Reload, CameraLost, CtrlC
<1>6. CASE StartOutput \/ AcquireInput \/ Command \/ LeaveLoop \/ Recover \/ Reacquire \/ EnterIdle
  BY <1>6 DEF StartOutput, AcquireInput, Command, LeaveLoop, Recover, Reacquire, EnterIdle
<1>7. CASE ResumeActive \/ SpawnReload \/ Tick \/ Fill \/ ProcessFrame \/ PushFrame
  BY <1>7 DEF ResumeActive, SpawnReload, Tick, Fill, ProcessFrame, PushFrame
<1>8. CASE StopInput \/ StopOutput \/ JoinWriter \/ EndOfStream \/ OutputToNull
  BY <1>8 DEF StopInput, StopOutput, JoinWriter, EndOfStream, OutputToNull
<1> QED
  BY <1>1, <1>2, <1>3, <1>4, <1>5, <1>6, <1>7, <1>8 DEF Next, Worker

LEMMA SlotStep == Types /\ SlotInOrder /\ [Next]_vars => SlotInOrder'
<1> SUFFICES ASSUME Types, SlotInOrder, [Next]_vars PROVE SlotInOrder'
  OBVIOUS
<1> USE DEF SlotInOrder
<1>0. /\ captured \in Nat
      /\ slot \in [frame : Nat, dropped : Nat, closed : BOOLEAN]
      /\ takes \in [newest : Nat, count : Nat]
  BY BoundsAssumption DEF Types, BoundsAssumption
<1>1. CASE UNCHANGED <<captured, slot, takes>>
  BY <1>1
<1>2. CASE captured' = captured + 1 /\ slot' = SlotPush(slot, captured + 1) /\ UNCHANGED takes
  <2>1. CASE slot.closed
    BY <1>0, <1>2, <2>1 DEF SlotPush
  <2>2. CASE ~slot.closed /\ slot.frame = 0
    BY <1>0, <1>2, <2>2 DEF SlotPush
  <2>3. CASE ~slot.closed /\ slot.frame # 0
    BY <1>0, <1>2, <2>3 DEF SlotPush
  <2> QED BY <2>1, <2>2, <2>3
<1>3. CASE Take /\ UNCHANGED captured
  BY <1>0, <1>3 DEF Take, SlotTake
<1>4. CASE slot' \in {SlotClear(slot), SlotClose(slot)} /\ UNCHANGED <<captured, takes>>
  <2>1. CASE slot' = SlotClear(slot)
    BY <1>0, <1>4, <2>1 DEF SlotClear
  <2>2. CASE slot' = SlotClose(slot)
    BY <1>0, <1>4, <2>2 DEF SlotClose
  <2> QED BY <1>4, <2>1, <2>2
<1> QED BY <1>1, <1>2, <1>3, <1>4, SlotSteps

\* Steps of the worker at which the writer may not be at work any more.
Silent == {"start", "eos", "outputNull", "ended"}

LEMMA MailboxSteps ==
    ASSUME [Next]_vars
    PROVE  \/ UNCHANGED <<pc, out, appsrc, writer>>
           \/ /\ pc \notin Silent /\ pc' \notin Silent
              /\ out' \in {out, Publish(out, Placeholder), Publish(out, cur.frame)}
              /\ UNCHANGED <<appsrc, writer>>
           \/ writer.at = "push" /\ (Accepted \/ Refused) /\ UNCHANGED <<pc, out>>
           \/ WriterChecks \/ WriterLooks
           \/ StartOutput \/ StopOutput \/ JoinWriter \/ EndOfStream \/ OutputToNull
<1> USE DEF vars, workerVars, Silent
<1>1. CASE Recover \/ ResumeActive \/ Fill \/ PushFrame
  BY <1>1 DEF Recover, ResumeActive, Fill, PushFrame
<1>2. CASE WriterPushes
  BY <1>2 DEF WriterPushes, otherThanWriter
<1>3. CASE Reload \/ Capture \/ CameraLost \/ CtrlC \/ CtrlCClosesSlot \/ UNCHANGED vars
  BY <1>3 DEF Reload, Capture, CameraLost, CtrlC, CtrlCClosesSlot
<1>4. CASE AcquireInput \/ Command \/ LeaveLoop \/ RecoverToNull \/ Reacquire \/ Recovered
  BY <1>4 DEF AcquireInput, Command, LeaveLoop, RecoverToNull, Reacquire, Recovered
<1>5. CASE EnterIdle \/ ClearSlot \/ SpawnReload \/ Tick \/ Park \/ Receive \/ ProcessFrame
  BY <1>5 DEF EnterIdle, ClearSlot, SpawnReload, Tick, Park, Receive, ProcessFrame
<1>6. CASE CloseSlot \/ StopInput
  BY <1>6 DEF CloseSlot, StopInput
<1>7. CASE StartOutput \/ StopOutput \/ JoinWriter \/ EndOfStream \/ OutputToNull
  BY <1>7
<1>8. CASE WriterChecks \/ WriterLooks
  BY <1>8
<1> QED
  BY <1>1, <1>2, <1>3, <1>4, <1>5, <1>6, <1>7, <1>8 DEF Next, Worker, Writer

\* A publication, made while the output runs, is one number further; refused
\* otherwise.
LEMMA Publication ==
    ASSUME Types, NEW frame \in Nat
    PROVE  \/ Publish(out, frame) = out
           \/ /\ Publish(out, frame).counter = out.counter + 1
              /\ Publish(out, frame).latest.seq = out.counter
BY DEF Types, Publish, Published

LEMMA MailboxStep == Types /\ Types' /\ MailboxInOrder /\ [Next]_vars => MailboxInOrder'
<1> SUFFICES ASSUME Types, Types', MailboxInOrder, [Next]_vars PROVE MailboxInOrder'
  OBVIOUS
<1> USE DEF MailboxInOrder
<1>0. /\ out \in [state : {"Null", "Playing"}, started : BOOLEAN, counter : Nat, latest : Published]
      /\ appsrc \in [newest : Nat, frame : Nat, count : Nat, eos : BOOLEAN]
      /\ writer \in [at : {"off", "check", "look", "push"}, has : Published, last : Nat]
      /\ out.latest.seq \in Nat /\ writer.has.seq \in Nat /\ cur.frame \in Nat /\ Placeholder \in Nat
  BY DEF Types, Published, Placeholder
<1>1. CASE UNCHANGED <<pc, out, appsrc, writer>>
  BY <1>1
<1>2. CASE /\ pc \notin Silent /\ pc' \notin Silent
           /\ out' \in {out, Publish(out, Placeholder), Publish(out, cur.frame)}
           /\ UNCHANGED <<appsrc, writer>>
  <2>1. \/ out' = out
        \/ out'.counter = out.counter + 1 /\ out'.latest.seq = out.counter
    BY <1>0, <1>2, Publication
  <2> QED BY <1>0, <1>2, <2>1 DEF Silent
<1>3. CASE writer.at = "push" /\ Accepted /\ UNCHANGED <<pc, out>>
  BY <1>0, <1>3 DEF Accepted
<1>4. CASE writer.at = "push" /\ Refused /\ UNCHANGED <<pc, out>>
  BY <1>0, <1>4 DEF Refused
<1>5. CASE WriterChecks
  BY <1>0, <1>5 DEF WriterChecks, otherThanWriter, workerVars
<1>6. CASE WriterLooks
  BY <1>0, <1>6 DEF WriterLooks, otherThanWriter, workerVars
<1>7. CASE StartOutput
  <2>1. pc = "start" /\ writer.at = "off" /\ ~appsrc.eos /\ UNCHANGED appsrc
    BY <1>7 DEF StartOutput
  <2>2. out'.counter = out.counter /\ out'.latest = out.latest
    <3>1. out' = out \/ out' = [out EXCEPT !.state = "Playing", !.started = TRUE]
      BY <1>7 DEF StartOutput
    <3>2. LET o == [out EXCEPT !.state = "Playing", !.started = TRUE]
          IN  o.counter = out.counter /\ o.latest = out.latest
      BY <1>0
    <3> QED BY <3>1, <3>2
  <2>3. /\ writer'.last = writer.last /\ writer'.at # "push"
        /\ pc' = "ended" => writer'.at = "off"
        /\ pc' \in {"acquire", "ended"}
    BY <1>0, <1>7, <2>1 DEF StartOutput
  <2> QED BY <2>1, <2>2, <2>3
<1>8. CASE StopOutput
  BY <1>0, <1>8 DEF StopOutput
<1>9. CASE JoinWriter
  BY <1>0, <1>9 DEF JoinWriter
<1>10. CASE EndOfStream
  BY <1>0, <1>10 DEF EndOfStream
<1>11. CASE OutputToNull
  BY <1>0, <1>11 DEF OutputToNull
<1> QED
  BY <1>1, <1>2, <1>3, <1>4, <1>5, <1>6, <1>7, <1>8, <1>9, <1>10, <1>11, MailboxSteps

-----------------------------------------------------------------------------
(* The failures in a row, and the frames that must not come back. *)

LEMMA FailuresStep == Types /\ FailuresCounted /\ [Next]_vars => FailuresCounted'
<1> SUFFICES ASSUME Types, FailuresCounted, [Next]_vars PROVE FailuresCounted'
  OBVIOUS
<1> USE DEF FailuresCounted, Ending, vars, workerVars
<1>0. composite \in Composites /\ ghost \in [cut : Nat, misses : Nat, enabledAt : Nat]
  BY DEF Types
<1>1. CASE ProcessFrame
  <2> PICK outcome \in Outcomes :
         LET r == Process(composite, cur.frame, outcome)
         IN  /\ ghost' = [ghost EXCEPT !.misses = IF outcome = "miss" THEN @ + 1 ELSE 0]
             /\ composite' = r.c
             /\ IF r.result = "fatal"
                THEN /\ pc' = "closeSlot"
                     /\ result' = IF outcome = "miss" THEN "inference" ELSE "error"
                ELSE pc' = "push" /\ UNCHANGED result
    BY <1>1 DEF ProcessFrame
  <2> DEFINE r == Process(composite, cur.frame, outcome)
  <2>1. /\ r.c.failures = IF outcome = "miss" THEN composite.failures + 1 ELSE 0
        /\ r.result = IF outcome = "miss"
                      THEN IF composite.failures + 1 >= FallbackThreshold THEN "fatal" ELSE "fallback"
                      ELSE IF outcome = "undecodable" THEN "fatal" ELSE "ok"
    BY <1>0, ProcessRun DEF Types
  <2>2. result = "none" /\ ~(ghost.misses >= FallbackThreshold)
    BY <1>1 DEF ProcessFrame
  <2>3. FallbackThreshold \in Nat \ {0}
    BY ThresholdAssumption DEF ThresholdAssumption
  <2>4. ghost'.misses = IF outcome = "miss" THEN ghost.misses + 1 ELSE 0
    BY <1>0
  <2> HIDE DEF r
  <2>5. CASE outcome = "miss"
    BY <1>0, <2>1, <2>2, <2>3, <2>4, <2>5 DEF r
  <2>6. CASE outcome # "miss"
    BY <1>0, <2>1, <2>2, <2>3, <2>4, <2>6 DEF r
  <2> QED BY <2>5, <2>6
<1>2. CASE Command
  <2>1. composite'.failures = composite.failures
    BY <1>0, <1>2 DEF Command, Composites, ReplaceSubchain
  <2>2. ghost'.misses = ghost.misses
    BY <1>0, <1>2 DEF Command
  <2> QED BY <1>2, <2>1, <2>2 DEF Command
<1>3. CASE Recovered \/ ClearSlot
  BY <1>0, <1>3 DEF Recovered, ClearSlot
<1>4. CASE StartOutput \/ LeaveLoop
  BY <1>4, ThresholdAssumption DEF StartOutput, LeaveLoop, ThresholdAssumption
<1>5. CASE AcquireInput \/ Recover \/ RecoverToNull \/ Reacquire \/ EnterIdle
  BY <1>5 DEF AcquireInput, Recover, RecoverToNull, Reacquire, EnterIdle
<1>6. CASE ResumeActive \/ SpawnReload \/ Tick \/ Fill \/ Park \/ Receive \/ PushFrame
  BY <1>6 DEF ResumeActive, SpawnReload, Tick, Fill, Park, Receive, PushFrame
<1>7. CASE CloseSlot \/ StopInput \/ StopOutput \/ JoinWriter \/ EndOfStream \/ OutputToNull
  BY <1>7 DEF CloseSlot, StopInput, StopOutput, JoinWriter, EndOfStream, OutputToNull
<1>8. CASE Writer
  BY <1>8 DEF Writer, WriterChecks, WriterLooks, WriterPushes, otherThanWriter
<1>9. CASE Reload \/ Capture \/ CameraLost \/ CtrlC \/ CtrlCClosesSlot \/ UNCHANGED vars
  BY <1>9 DEF Reload, Capture, CameraLost, CtrlC, CtrlCClosesSlot
<1> QED
  BY <1>1, <1>2, <1>3, <1>4, <1>5, <1>6, <1>7, <1>8, <1>9 DEF Next, Worker

\* What a picture is made of once the composite has worked on a frame.
LEMMA PictureOfOneFrame ==
    ASSUME NEW c \in Composites, NEW frame \in Nat, NEW outcome \in Outcomes
    PROVE  LET p == Process(c, frame, outcome).picture
           IN  /\ {p.foreground.of, p.background.of, p.mask.of} = {frame}
               /\ p.background.by \in {{}, {"blur"}}
               /\ p.mask.with = IF outcome = "ok" /\ Smooths(c.mask[1]) THEN c.mask[1].prev ELSE 0
<1> DEFINE p == Process(c, frame, outcome).picture
           run == RunMaskChain(c.mask, Mask(frame))
<1>1. c.mask \in MaskChains
  BY DEF Composites
<1>2. run.mask.of = frame /\ run.mask.with = IF Smooths(c.mask[1]) THEN c.mask[1].prev ELSE 0
  BY <1>1, MaskChainRun
<1>3. p = IF outcome = "ok"
          THEN Blend(Plane(frame, {"sharpen"}), Plane(frame, {"blur"}), run.mask, {"vignette"})
          ELSE Raw(frame)
  BY ProcessRun
<1> HIDE DEF p, run
<1>4. /\ p.foreground.of = frame /\ p.background.of = frame /\ p.mask.of = frame
      /\ p.background.by = IF outcome = "ok" THEN {"blur"} ELSE {}
      /\ p.mask.with = IF outcome = "ok" /\ Smooths(c.mask[1]) THEN c.mask[1].prev ELSE 0
  <2>1. CASE outcome = "ok"
    <3>1. /\ p.foreground = Plane(frame, {"sharpen"}) /\ p.background = Plane(frame, {"blur"})
          /\ p.mask = run.mask
      BY <1>3, <2>1 DEF Blend
    <3> QED BY <1>2, <2>1, <3>1 DEF Plane
  <2>2. CASE outcome # "ok"
    <3>1. /\ p.foreground = Plane(frame, {}) /\ p.background = Plane(frame, {})
          /\ p.mask = Mask(frame)
      BY <1>3, <2>2 DEF Blend, Raw
    <3> QED BY <2>2, <3>1 DEF Plane, Mask
  <2> QED BY <2>1, <2>2
<1>5. {p.foreground.of, p.background.of, p.mask.of} = {frame}
  BY <1>4
<1>6. p.background.by \in {{}, {"blur"}}
  BY <1>4
<1> QED BY <1>4, <1>5, <1>6 DEF p

LEMMA PicturesStep ==
    Types /\ SlotInOrder /\ PicturesClean /\ [Next]_vars => PicturesClean'
<1> SUFFICES ASSUME Types, SlotInOrder, PicturesClean, [Next]_vars PROVE PicturesClean'
  OBVIOUS
<1> USE DEF PicturesClean, OldFramesGone, OneFramePerComposite, MaskHistoryIsCurrent, vars, workerVars
<1>0. /\ composite \in Composites /\ composite.mask \in MaskChains
      /\ ghost \in [cut : Nat, misses : Nat, enabledAt : Nat]
      /\ captured \in Nat
      /\ slot \in [frame : Nat, dropped : Nat, closed : BOOLEAN]
      /\ takes \in [newest : Nat, count : Nat]
      /\ cur \in [frame : Nat, picture : Pictures]
      /\ takes.newest <= captured
      /\ slot.frame # 0 => takes.newest < slot.frame
  <2>1. captured \in Nat
    BY BoundsAssumption DEF Types, BoundsAssumption
  <2> QED BY <2>1 DEF Types, Composites, SlotInOrder
<1>1. CASE ProcessFrame
  <2> PICK outcome \in Outcomes :
         LET r == Process(composite, cur.frame, outcome)
         IN  /\ ghost' = [ghost EXCEPT !.misses = IF outcome = "miss" THEN @ + 1 ELSE 0]
             /\ composite' = r.c
             /\ IF r.result = "fatal"
                THEN pc' = "closeSlot" /\ UNCHANGED cur
                ELSE pc' = "push" /\ cur' = [cur EXCEPT !.picture = r.picture]
    BY <1>1 DEF ProcessFrame
  <2> DEFINE r == Process(composite, cur.frame, outcome)
             run == RunMaskChain(composite.mask, Mask(cur.frame))
             p == r.picture
             first == composite.mask[1]
  <2>1. r.c.mask = IF outcome = "ok" THEN run.chain ELSE composite.mask
    BY <1>0, ProcessRun
  <2>2. run.chain[1] = IF Smooths(first) THEN [first EXCEPT !.prev = cur.frame] ELSE first
    BY <1>0, MaskChainRun
  <2>3. /\ {p.foreground.of, p.background.of, p.mask.of} = {cur.frame}
        /\ p.background.by \in {{}, {"blur"}}
        /\ p.mask.with = IF outcome = "ok" /\ Smooths(first) THEN first.prev ELSE 0
    BY <1>0, PictureOfOneFrame
  <2>4. first \in Slots
    BY <1>0 DEF MaskChains
  <2>5. /\ pc = "process" /\ cur.frame > ghost.cut /\ cur.frame > ghost.enabledAt
        /\ UNCHANGED <<captured, slot, takes>>
    BY <1>1 DEF ProcessFrame
  <2>6. ghost'.cut = ghost.cut /\ ghost'.enabledAt = ghost.enabledAt
    BY <1>0
  <2>7. composite'.mask[1] \in {first, [first EXCEPT !.prev = cur.frame]}
    BY <2>1, <2>2 DEF r
  <2>8. composite'.mask[1].enabled /\ composite'.mask[1].prev # 0
            => composite'.mask[1].prev > ghost'.enabledAt
    <3>1. CASE composite'.mask[1] = first
      BY <2>6, <3>1
    <3>2. CASE composite'.mask[1] = [first EXCEPT !.prev = cur.frame]
      BY <2>4, <2>5, <2>6, <3>2
    <3> QED BY <2>7, <3>1, <3>2
  <2>9. pc' = "push" => cur'.picture = p /\ cur'.frame = cur.frame
    BY <1>0 DEF r
  <2>10. Smooths(first) => first.prev = 0 \/ first.prev > ghost.enabledAt
    BY DEF Smooths
  <2>11. pc' \in {"closeSlot", "push"}
    BY DEF r
  <2> HIDE DEF r, run, p, first
  <2> QED BY <1>0, <2>3, <2>5, <2>6, <2>8, <2>9, <2>10, <2>11
<1>2. CASE Command
  <2> DEFINE first == composite.mask[1]
  <2>1. first \in Slots /\ pc = "loop"
    BY <1>0, <1>2 DEF MaskChains, Command
  <2>2. /\ ghost'.cut = ghost.cut /\ ghost'.enabledAt \in {ghost.enabledAt, takes.newest}
        /\ composite'.mask[1].enabled /\ composite'.mask[1].prev # 0
            => composite'.mask[1].prev > ghost'.enabledAt
    <3>1. CASE \E on \in BOOLEAN :
            /\ composite' = [composite EXCEPT !.mask = SetEnabled(@, "smooth_temporal", on)]
            /\ ghost' = IF on /\ ~composite.mask[1].enabled
                        THEN [ghost EXCEPT !.enabledAt = takes.newest] ELSE ghost
      <4> PICK on \in BOOLEAN :
            /\ composite' = [composite EXCEPT !.mask = SetEnabled(@, "smooth_temporal", on)]
            /\ ghost' = IF on /\ ~first.enabled
                        THEN [ghost EXCEPT !.enabledAt = takes.newest] ELSE ghost
        BY <3>1
      <4>1. composite'.mask[1] = IF on /\ ~first.enabled
                                 THEN [first EXCEPT !.prev = 0, !.enabled = TRUE]
                                 ELSE [first EXCEPT !.enabled = on]
        BY <1>0, ChainCommands DEF Composites
      <4> HIDE DEF first
      <4>2. CASE on /\ ~first.enabled
        <5>1. composite'.mask[1].prev = 0
          <6>1. composite'.mask[1] = [first EXCEPT !.prev = 0, !.enabled = TRUE]
            BY <4>1, <4>2
          <6> QED BY <2>1, <6>1 DEF Slots
        <5>2. ghost' = [ghost EXCEPT !.enabledAt = takes.newest]
          BY <4>2
        <5> QED BY <1>0, <5>1, <5>2
      <4>3. CASE on /\ first.enabled
        <5>1. composite'.mask[1] = [first EXCEPT !.enabled = on]
          BY <4>1, <4>3
        <5>2. composite'.mask[1].prev = first.prev
          BY <2>1, <5>1 DEF Slots
        <5>3. ghost' = ghost
          BY <4>3
        <5> QED BY <4>3, <5>2, <5>3 DEF first
      <4>4. CASE ~on
        BY <1>0, <2>1, <4>1, <4>4 DEF Slots
      <4> QED BY <4>2, <4>3, <4>4
    <3>2. CASE \E live \in BOOLEAN :
            /\ composite' = [composite EXCEPT !.mask = Reconfigure(@, "smooth_temporal", live)]
            /\ UNCHANGED ghost
      <4> PICK live \in BOOLEAN :
            composite' = [composite EXCEPT !.mask = Reconfigure(@, "smooth_temporal", live)]
        BY <3>2
      <4>1. composite'.mask[1] = [first EXCEPT !.live = live]
        BY <1>0, ChainCommands DEF Composites
      <4> QED BY <2>1, <3>2, <4>1 DEF Slots
    <3>3. CASE /\ composite' = ReplaceSubchain(composite, "mask", <<Slot("smooth_temporal", TRUE),
                                                                   Slot("feather", FALSE)>>)
               /\ ghost' = [ghost EXCEPT !.enabledAt = takes.newest]
      <4>1. composite'.mask[1] = [<<Slot("smooth_temporal", TRUE), Slot("feather", FALSE)>>[1]
                                     EXCEPT !.prev = 0]
        BY <1>0, <3>3, FirstChain, ResetChain DEF ReplaceSubchain, Composites
      <4>2. composite'.mask[1].prev = 0
        BY <4>1 DEF Slot
      <4> QED BY <1>0, <3>3, <4>2
    <3> QED BY <1>2, <3>1, <3>2, <3>3 DEF Command
  <2> QED BY <1>0, <1>2, <2>1, <2>2 DEF Command
<1>3. CASE Capture
  <2>1. slot' = slot \/ slot'.frame = captured + 1
    BY <1>0, <1>3 DEF Capture, SlotPush
  <2> QED BY <1>0, <1>3, <2>1 DEF Capture
<1>4. CASE Receive
  BY <1>0, <1>4 DEF Receive, Take, SlotTake
<1>5. CASE Park
  BY <1>0, <1>5 DEF Park, Take, SlotTake
<1>6. CASE RecoverToNull \/ CloseSlot
  BY <1>0, <1>6 DEF RecoverToNull, CloseSlot, SlotClear, SlotClose
<1>7. CASE CtrlCClosesSlot
  BY <1>0, <1>7 DEF CtrlCClosesSlot, SlotClose
<1>8. CASE Recovered
  BY <1>0, <1>8 DEF Recovered, SlotClear
<1>9. CASE ClearSlot
  BY <1>0, <1>9 DEF ClearSlot, SlotClear
<1>10. CASE StartOutput \/ AcquireInput \/ LeaveLoop \/ Recover \/ Reacquire \/ EnterIdle
  BY <1>0, <1>10 DEF StartOutput, AcquireInput, LeaveLoop, Recover, Reacquire, EnterIdle
<1>11. CASE ResumeActive \/ SpawnReload \/ Tick \/ Fill \/ PushFrame
  BY <1>0, <1>11 DEF ResumeActive, SpawnReload, Tick, Fill, PushFrame
<1>12. CASE StopInput \/ StopOutput \/ JoinWriter \/ EndOfStream \/ OutputToNull
  BY <1>0, <1>12 DEF StopInput, StopOutput, JoinWriter, EndOfStream, OutputToNull
<1>13. CASE Writer
  BY <1>0, <1>13 DEF Writer, WriterChecks, WriterLooks, WriterPushes, otherThanWriter
<1>14. CASE Reload \/ CameraLost \/ CtrlC \/ UNCHANGED vars
  BY <1>0, <1>14 DEF Reload, CameraLost, CtrlC
<1> QED
  BY <1>1, <1>2, <1>3, <1>4, <1>5, <1>6, <1>7, <1>8, <1>9, <1>10, <1>11, <1>12, <1>13, <1>14
  DEF Next, Worker

-----------------------------------------------------------------------------
(* The invariant, and what follows from it. *)

LEMMA Initially == Init => SlotInOrder /\ MailboxInOrder /\ FailuresCounted /\ PicturesClean
<1> SUFFICES ASSUME Init
             PROVE  SlotInOrder /\ MailboxInOrder /\ FailuresCounted /\ PicturesClean
  OBVIOUS
<1> USE DEF Init
<1>1. composite.failures = 0 /\ composite.mask[1].prev = 0
  <2> DEFINE chain == <<Slot("smooth_temporal", TRUE), Slot("feather", FALSE)>>
             fresh == [i \in DOMAIN chain |-> ResetState(chain[i])]
  <2>1. fresh[1] = [chain[1] EXCEPT !.prev = 0]
    BY FirstChain, ResetChain
  <2>2. fresh[1].prev = 0
    BY <2>1 DEF Slot
  <2> HIDE DEF chain, fresh
  <2>3. composite = [engine |-> TRUE, failures |-> 0, mask |-> fresh,
                     background |-> <<Slot("blur", TRUE)>>, foreground |-> <<Slot("sharpen", TRUE)>>,
                     post |-> <<Slot("vignette", TRUE)>>]
    BY DEF Prepare, NewComposite, chain, fresh
  <2> QED BY <2>2, <2>3
<1>2. SlotInOrder
  BY DEF SlotInOrder
<1>3. MailboxInOrder
  BY DEF MailboxInOrder, Nothing
<1>4. FailuresCounted
  BY <1>1, ThresholdAssumption DEF FailuresCounted, Ending, ThresholdAssumption
<1>5. PicturesClean
  BY <1>1 DEF PicturesClean, OldFramesGone, OneFramePerComposite, MaskHistoryIsCurrent
<1> QED BY <1>2, <1>3, <1>4, <1>5

LEMMA Invariance == Spec => []Inv
<1>1. Init => Inv
  BY Initially, TypesFirst DEF Inv
<1>2. Inv /\ [Next]_vars => Inv'
  BY TypesStep, SlotStep, MailboxStep, FailuresStep, PicturesStep DEF Inv
<1> QED BY <1>1, <1>2, PTL DEF Spec

(***************************************************************************)
(* Type correctness: every counter keeps to its bound, since what is       *)
(* dropped or taken was captured, in every interleaving of callback, worker*)
(* and writer.                                                             *)
(***************************************************************************)
THEOREM TypeCorrect == Spec => []TypeOK
<1>1. Inv => TypeOK
  <2> SUFFICES ASSUME Inv PROVE TypeOK
    OBVIOUS
  <2> USE DEF Inv
  <2>1. captured \in 0..MaxFrames /\ MaxFrames \in Nat
    BY BoundsAssumption DEF Types, BoundsAssumption
  <2>2. slot \in [frame : 0..MaxFrames, dropped : 0..MaxFrames, closed : BOOLEAN]
    BY <2>1 DEF Types, SlotInOrder
  <2>3. takes \in [newest : 0..MaxFrames, count : 0..MaxFrames]
    BY <2>1 DEF Types, SlotInOrder
  <2>4. out.started \in BOOLEAN /\ out.latest.seq < out.counter
    BY DEF Types, MailboxInOrder, Published
  <2>5. writer.at \in {"off", "check", "look", "push"} /\ reload \in DOMAIN ReloadNext \union {"none"}
    BY DEF Types, ReloadNext
  <2> QED BY <2>1, <2>2, <2>3, <2>4, <2>5 DEF Types, TypeOK
<1> QED BY <1>1, Invariance, PTL

(***************************************************************************)
(* No frame captured before the last pause or loss is processed after it,  *)
(* whatever the callback, the reload thread and the two clears of recovery *)
(* do in between: the slot holds nothing that old once a cut is made.      *)
(***************************************************************************)
THEOREM PausesAreFinal == Spec => []PauseIsFinal
<1>1. Inv => PauseIsFinal
  BY DEF Inv, PicturesClean, OldFramesGone, PauseIsFinal
<1> QED BY <1>1, Invariance, PTL

(***************************************************************************)
(* Every picture pushed is made of one frame, with a background copied     *)
(* before the foreground effects ran.                                      *)
(***************************************************************************)
THEOREM PicturesAreOfOneFrame == Spec => []OneFramePerComposite
<1>1. Inv => OneFramePerComposite
  BY DEF Inv, PicturesClean
<1> QED BY <1>1, Invariance, PTL

(***************************************************************************)
(* smooth_temporal never blends a mask with one from before it was last    *)
(* turned on or its chain last replaced.                                   *)
(***************************************************************************)
THEOREM MaskHistoriesAreCurrent == Spec => []MaskHistoryIsCurrent
<1>1. Inv => MaskHistoryIsCurrent
  BY DEF Inv, PicturesClean
<1> QED BY <1>1, Invariance, PTL

(***************************************************************************)
(* For every threshold a run dies of inference exactly when that many      *)
(* inferences in a row have failed: neither pauses, recoveries nor chain   *)
(* edits between them add to the count or clear it.                        *)
(***************************************************************************)
THEOREM RunsDieAtThreshold == Spec => []DiesAtThreshold
<1>1. Inv => DiesAtThreshold
  BY DEF Inv, FailuresCounted, DiesAtThreshold
<1> QED BY <1>1, Invariance, PTL

(***************************************************************************)
(* The refinements: the initial state maps to an empty mailbox, and every  *)
(* step of the five threads maps to one step of LatestValue or to none.    *)
(***************************************************************************)
LEMMA CameraStep ==
    Types /\ SlotInOrder /\ [Next]_vars => [CameraMailbox!Next]_(CameraMailbox!vars)
<1> SUFFICES ASSUME Types, SlotInOrder, [Next]_vars
             PROVE  CameraMailbox!Next \/ UNCHANGED CameraMailbox!vars
  OBVIOUS
<1> USE DEF CameraMailbox!Next, CameraMailbox!vars, CameraMailbox!Offer, CameraMailbox!Show,
            CameraMailbox!Close
<1>0. /\ captured \in Nat
      /\ slot \in [frame : Nat, dropped : Nat, closed : BOOLEAN]
      /\ takes \in [newest : Nat, count : Nat]
  BY BoundsAssumption DEF Types, BoundsAssumption
<1>1. CASE UNCHANGED <<captured, slot, takes>>
  BY <1>1
<1>2. CASE captured' = captured + 1 /\ slot' = SlotPush(slot, captured + 1) /\ UNCHANGED takes
  <2>1. slot'.closed = slot.closed
    BY <1>0, <1>2 DEF SlotPush
  <2> QED BY <1>2, <2>1
<1>3. CASE Take /\ UNCHANGED captured
  <2>1. ~slot.closed /\ slot'.closed = slot.closed
    BY <1>0, <1>3 DEF Take, SlotTake, SlotInOrder
  <2>2. slot.frame \in (takes.newest + 1)..captured
    BY <1>0, <1>3 DEF Take, SlotInOrder
  <2> QED BY <1>3, <2>1, <2>2 DEF Take
<1>4. CASE slot' = SlotClear(slot) /\ UNCHANGED <<captured, takes>>
  <2>1. slot'.closed = slot.closed
    BY <1>0, <1>4 DEF SlotClear
  <2> QED BY <1>4, <2>1
<1>5. CASE slot' = SlotClose(slot) /\ UNCHANGED <<captured, takes>>
  <2>1. slot'.closed = TRUE
    BY <1>0, <1>5 DEF SlotClose
  <2> QED BY <1>5, <2>1
<1> QED BY <1>1, <1>2, <1>3, <1>4, <1>5, SlotSteps

LEMMA OutputStep ==
    Types /\ MailboxInOrder /\ [Next]_vars => [OutputMailbox!Next]_(OutputMailbox!vars)
<1> SUFFICES ASSUME Types, MailboxInOrder, [Next]_vars
             PROVE  OutputMailbox!Next \/ UNCHANGED OutputMailbox!vars
  OBVIOUS
<1> USE DEF OutputMailbox!Next, OutputMailbox!vars, OutputMailbox!Offer, OutputMailbox!Show,
            OutputMailbox!Close
<1>0. /\ out \in [state : {"Null", "Playing"}, started : BOOLEAN, counter : Nat, latest : Published]
      /\ appsrc \in [newest : Nat, frame : Nat, count : Nat, eos : BOOLEAN]
      /\ writer \in [at : {"off", "check", "look", "push"}, has : Published, last : Nat]
      /\ out.latest.seq \in Nat /\ writer.has.seq \in Nat /\ cur.frame \in Nat /\ Placeholder \in Nat
  BY DEF Types, Published, Placeholder
<1>1. CASE UNCHANGED appsrc /\ out'.counter = out.counter
  BY <1>1
<1>2. CASE UNCHANGED <<pc, out, appsrc, writer>>
  BY <1>2
<1>3. CASE out' \in {out, Publish(out, Placeholder), Publish(out, cur.frame)} /\ UNCHANGED appsrc
  <2>1. out' = out \/ out'.counter = out.counter + 1
    BY <1>0, <1>3, Publication
  <2> QED BY <1>0, <1>3, <2>1
<1>4. CASE writer.at = "push" /\ Accepted /\ UNCHANGED <<pc, out>>
  <2>1. /\ appsrc'.newest = writer.has.seq /\ appsrc'.count = appsrc.count + 1
        /\ appsrc'.eos = appsrc.eos
    BY <1>0, <1>4 DEF Accepted
  <2>2. ~appsrc.eos
    BY <1>4 DEF MailboxInOrder
  <2>3. writer.has.seq \in (appsrc.newest + 1)..(out.counter - 1)
    BY <1>0, <1>4 DEF MailboxInOrder
  <2> QED BY <1>4, <2>1, <2>2, <2>3
<1>5. CASE writer.at = "push" /\ Refused /\ UNCHANGED <<pc, out>>
  BY <1>5, <1>1 DEF Refused
<1>6. CASE WriterChecks \/ WriterLooks
  BY <1>6, <1>1 DEF WriterChecks, WriterLooks, otherThanWriter
<1>7. CASE StartOutput \/ StopOutput \/ JoinWriter \/ OutputToNull
  <2>1. UNCHANGED appsrc /\ out'.counter = out.counter
    BY <1>0, <1>7 DEF StartOutput, StopOutput, JoinWriter, OutputToNull
  <2> QED BY <2>1, <1>1
<1>8. CASE EndOfStream
  <2>1. /\ appsrc'.newest = appsrc.newest /\ appsrc'.count = appsrc.count
        /\ appsrc'.eos = TRUE /\ out' = out
    BY <1>0, <1>8 DEF EndOfStream
  <2> QED BY <2>1
<1> QED BY <1>2, <1>3, <1>4, <1>5, <1>6, <1>7, <1>8, MailboxSteps

(***************************************************************************)
(* The slot and the composite mailbox are latest-value mailboxes: for any  *)
(* number of frames each is delivered at most once, in order, and nothing  *)
(* reaches appsrc after the end of the stream.                             *)
(***************************************************************************)
THEOREM MailboxesImplementLatestValue == Spec => MailboxesKeepLatest
<1>1. Init => CameraMailbox!Init
  BY DEF Init, CameraMailbox!Init
<1>2. Init => OutputMailbox!Init
  BY DEF Init, OutputMailbox!Init
<1>3. Inv => Types /\ SlotInOrder /\ MailboxInOrder
  BY DEF Inv
<1>4. Spec => CameraMailbox!Spec
  BY <1>1, <1>3, Invariance, CameraStep, PTL DEF Spec, CameraMailbox!Spec
<1>5. Spec => OutputMailbox!Spec
  BY <1>2, <1>3, Invariance, OutputStep, PTL DEF Spec, OutputMailbox!Spec
<1> QED BY <1>4, <1>5 DEF MailboxesKeepLatest

-----------------------------------------------------------------------------
(* The kernels on lines of any length, with windows of any radius. *)

\* A set of numbers has a smallest one: what stands for induction here.
LEMMA Smallest == ASSUME NEW T \in SUBSET Nat, T # {} PROVE \E n \in T : \A m \in T : n <= m
<1>1. \E R : IsWellFoundedOn(R, Nat) /\ \A x, y \in Nat : x < y => <<x, y>> \in R
  <2> DEFINE R == OpToRel(<, Nat)
  <2>1. IsWellFoundedOn(R, Nat) BY NatLessThanWellFounded
  <2>2. \A x, y \in Nat : x < y => <<x, y>> \in R BY DEF OpToRel
  <2> HIDE DEF R
  <2> QED BY <2>1, <2>2
<1>2. PICK R : IsWellFoundedOn(R, Nat) /\ \A x, y \in Nat : x < y => <<x, y>> \in R BY <1>1
<1>0. T \subseteq Nat OBVIOUS
<1>0a. IsWellFoundedOn(R, Nat) BY <1>2
<1>3a. \E n \in T : \A m \in T : ~ (<<m, n>> \in R) BY <1>0, <1>0a, WFMin
<1>3. PICK n \in T : \A m \in T : ~ (<<m, n>> \in R) BY <1>3a
<1>4. \A m \in T : ~ (m < n) BY <1>2, <1>3
<1> QED BY <1>4, <1>3

\* The kernels, for CPU and GPU.
Pixel == INSTANCE GpuKernels

\* What Max and Min give for two numbers.
LEMMA OfTwo == \A a, b \in Int : Pixel!Max({a, b}) = (IF a >= b THEN a ELSE b) /\ Pixel!Min({a, b}) = (IF a <= b THEN a ELSE b)
<1> SUFFICES ASSUME NEW a \in Int, NEW b \in Int
             PROVE Pixel!Max({a, b}) = (IF a >= b THEN a ELSE b) /\ Pixel!Min({a, b}) = (IF a <= b THEN a ELSE b)
  OBVIOUS
<1>1. \E m \in {a, b} : \A k \in {a, b} : m >= k BY SMT
<1>2. \E m \in {a, b} : \A k \in {a, b} : m <= k BY SMT
<1>3. Pixel!Max({a, b}) \in {a, b} /\ \A k \in {a, b} : Pixel!Max({a, b}) >= k BY <1>1 DEF Pixel!Max
<1>4. Pixel!Min({a, b}) \in {a, b} /\ \A k \in {a, b} : Pixel!Min({a, b}) <= k BY <1>2 DEF Pixel!Min
<1> QED BY <1>3, <1>4

\* Clamping is being kept between the limits.
LEMMA Clamped == \A v, lo, hi \in Int : lo <= hi => Pixel!Clamp(v, lo, hi) = IF v < lo THEN lo ELSE IF v > hi THEN hi ELSE v
<1> SUFFICES ASSUME NEW v \in Int, NEW lo \in Int, NEW hi \in Int, lo <= hi
             PROVE Pixel!Clamp(v, lo, hi) = IF v < lo THEN lo ELSE IF v > hi THEN hi ELSE v
  OBVIOUS
<1>1. Pixel!Min({v, hi}) = IF v <= hi THEN v ELSE hi BY OfTwo
<1>2. PICK m \in Int : m = Pixel!Min({v, hi}) BY <1>1
<1>3. Pixel!Max({lo, m}) = IF lo >= m THEN lo ELSE m BY OfTwo
<1> QED BY <1>1, <1>2, <1>3 DEF Pixel!Clamp

\* H is a running total of f over from..to.
Totals(H, f, from, to) ==
    H \in [(from - 1)..to -> Int] /\ \A i \in from..to : H[i] = H[i - 1] + f[i]

\* Every line of numbers has a running total.
LEMMA TotalsExist == ASSUME NEW from \in Int, NEW to \in Int, from - 1 <= to, NEW f, \A i \in from..to : f[i] \in Int
                     PROVE \E H : Totals(H, f, from, to)
<1> DEFINE T == {n \in Nat : from - 1 + n <= to /\ ~ \E H : Totals(H, f, from, from - 1 + n)}
<1>1. SUFFICES T = {}
  <2>1. PICK n \in Nat : to = from - 1 + n BY SMT
  <2> QED BY <2>1
<1>2. SUFFICES ASSUME T # {} PROVE FALSE OBVIOUS
<1>3. PICK n \in T : \A k \in T : n <= k BY <1>2, Smallest
<1>4. n \in Nat /\ from - 1 + n <= to /\ ~ \E H : Totals(H, f, from, from - 1 + n) OBVIOUS
<1>5. CASE n = 0
  <2> DEFINE H == [i \in (from - 1)..(from - 1) |-> 0]
  <2>1. Totals(H, f, from, from - 1) BY SMT DEF Totals
  <2> QED BY <1>4, <1>5, <2>1
<1>6. CASE n # 0
  <2>1. n - 1 \in Nat /\ n - 1 \notin T BY <1>3, <1>4, <1>6
  <2>2. PICK t \in Int : t = from - 1 + n /\ t <= to /\ t >= from BY <1>4, <1>6
  <2>3. \E G : Totals(G, f, from, t - 1)
    <3>1. from - 1 + (n - 1) = t - 1 /\ from - 1 + (n - 1) <= to BY <1>4, <2>2
    <3> QED BY <2>1, <3>1
  <2>4. PICK G : Totals(G, f, from, t - 1) BY <2>3
  <2> DEFINE H == [i \in (from - 1)..t |-> IF i = t THEN G[t - 1] + f[t] ELSE G[i]]
  <2>5. f[t] \in Int BY <2>2
  <2>6. H \in [(from - 1)..t -> Int] BY <2>2, <2>4, <2>5 DEF Totals
  <2>7. \A i \in from..t : H[i] = H[i - 1] + f[i] BY <2>2, <2>4, <2>5 DEF Totals
  <2>8. Totals(H, f, from, t) BY <2>6, <2>7 DEF Totals
  <2> QED BY <1>4, <2>2, <2>8
<1> QED BY <1>5, <1>6

\* Two running totals of the same line rise alike.
LEMMA TotalsRise == ASSUME NEW from \in Int, NEW to \in Int, from - 1 <= to, NEW f, \A i \in from..to : f[i] \in Int,
                           NEW G, NEW H, Totals(G, f, from, to), Totals(H, f, from, to)
                    PROVE \A i \in (from - 1)..to : G[i] - G[from - 1] = H[i] - H[from - 1]
<1> DEFINE T == {n \in Nat : from - 1 + n <= to /\ G[from - 1 + n] - G[from - 1] # H[from - 1 + n] - H[from - 1]}
<1>1. SUFFICES T = {}
  <2> SUFFICES ASSUME NEW i \in (from - 1)..to PROVE G[i] - G[from - 1] = H[i] - H[from - 1] OBVIOUS
  <2>1. PICK n \in Nat : i = from - 1 + n BY SMT
  <2>2. n \notin T BY <1>1
  <2> QED BY <2>1, <2>2
<1>2. SUFFICES ASSUME T # {} PROVE FALSE OBVIOUS
<1>3. PICK n \in T : \A k \in T : n <= k BY <1>2, Smallest
<1>4. PICK t \in (from - 1)..to : t = from - 1 + n /\ G[t] - G[from - 1] # H[t] - H[from - 1] BY SMT
<1>5. n # 0 /\ n \in Nat /\ t >= from
  <2>1. CASE n = 0
    <3>1. t = from - 1 BY <1>4, <2>1
    <3>2. G[from - 1] \in Int /\ H[from - 1] \in Int BY DEF Totals
    <3> QED BY <1>4, <3>1, <3>2
  <2>2. n \in Nat OBVIOUS
  <2> QED BY <1>4, <2>1, <2>2
<1>6. n - 1 \in Nat /\ n - 1 \notin T BY <1>3, <1>5
<1>7. from - 1 + (n - 1) = t - 1 BY <1>4, <1>5
<1>8. G[t - 1] - G[from - 1] = H[t - 1] - H[from - 1] BY <1>4, <1>5, <1>6, <1>7
<1>9. G[t] = G[t - 1] + f[t] /\ H[t] = H[t - 1] + f[t] BY <1>4, <1>5 DEF Totals
<1>10. G[t - 1] \in Int /\ H[t - 1] \in Int /\ f[t] \in Int /\ G[from - 1] \in Int /\ H[from - 1] \in Int BY <1>4, <1>5 DEF Totals
<1> QED BY <1>4, <1>8, <1>9, <1>10

\* A sum is what a running total rises by.
LEMMA SumIsRise == ASSUME NEW from \in Int, NEW to \in Int, from - 1 <= to, NEW f, \A i \in from..to : f[i] \in Int,
                          NEW H, Totals(H, f, from, to)
                   PROVE Pixel!SumOver(f, from, to) = H[to] - H[from - 1]
<1> DEFINE sum == CHOOSE s : s = [i \in (from - 1)..to |-> IF i < from THEN 0 ELSE s[i - 1] + f[i]]
<1> DEFINE rise == [i \in (from - 1)..to |-> H[i] - H[from - 1]]
<1>1. rise = [i \in (from - 1)..to |-> IF i < from THEN 0 ELSE rise[i - 1] + f[i]]
  <2> SUFFICES ASSUME NEW i \in (from - 1)..to PROVE rise[i] = IF i < from THEN 0 ELSE rise[i - 1] + f[i] OBVIOUS
  <2>0. H[from - 1] \in Int /\ H[i] \in Int BY DEF Totals
  <2>1. CASE i < from
    <3>1. i = from - 1 BY <2>1
    <3> QED BY <2>0, <2>1, <3>1
  <2>2. CASE i >= from
    <3>1. i - 1 \in (from - 1)..to /\ i \in from..to BY <2>2
    <3>2. H[i] = H[i - 1] + f[i] /\ H[i - 1] \in Int /\ f[i] \in Int BY <3>1 DEF Totals
    <3> QED BY <2>0, <2>2, <3>1, <3>2
  <2> QED BY <2>1, <2>2
<1>2. sum = [i \in (from - 1)..to |-> IF i < from THEN 0 ELSE sum[i - 1] + f[i]]
  <2> HIDE DEF rise
  <2>1. \E s : s = [i \in (from - 1)..to |-> IF i < from THEN 0 ELSE s[i - 1] + f[i]] BY <1>1
  <2> QED BY <2>1
<1>3. Pixel!Max({from - 1, to}) = to BY OfTwo
<1>4. Pixel!SumOver(f, from, to) = sum[to] BY <1>3 DEF Pixel!SumOver
<1> HIDE DEF sum, rise
<1>5. \A i \in (from - 1)..to : sum[i] = H[i] - H[from - 1]
  <2> DEFINE T == {n \in Nat : from - 1 + n <= to /\ sum[from - 1 + n] # H[from - 1 + n] - H[from - 1]}
  <2>1. SUFFICES T = {}
    <3> SUFFICES ASSUME NEW i \in (from - 1)..to PROVE sum[i] = H[i] - H[from - 1] OBVIOUS
    <3>1. PICK n \in Nat : i = from - 1 + n BY SMT
    <3>2. n \notin T BY <2>1
    <3> QED BY <3>1, <3>2
  <2>2. SUFFICES ASSUME T # {} PROVE FALSE OBVIOUS
  <2>3. PICK n \in T : \A k \in T : n <= k BY <2>2, Smallest
  <2>4. PICK t \in (from - 1)..to : t = from - 1 + n /\ sum[t] # H[t] - H[from - 1] BY SMT
  <2>5. H[from - 1] \in Int /\ H[t] \in Int BY DEF Totals
  <2>6. sum[t] = IF t < from THEN 0 ELSE sum[t - 1] + f[t] BY <1>2
  <2>7. t >= from
    <3>1. CASE t < from
      <4>1. t = from - 1 BY <3>1
      <4> QED BY <2>4, <2>5, <2>6, <3>1, <4>1
    <3> QED BY <3>1
  <2>8. n # 0 /\ n \in Nat BY <2>4, <2>7
  <2>9. n - 1 \in Nat /\ n - 1 \notin T
    <3> HIDE DEF T
    <3>1. n - 1 \in Nat BY <2>8
    <3>2. n \in T /\ \A k \in T : n <= k BY <2>3
    <3>3. n - 1 \in T => FALSE BY <2>8, <3>1, <3>2
    <3> QED BY <3>1, <3>3
  <2>10. from - 1 + (n - 1) = t - 1 BY <2>4, <2>8
  <2>11. sum[t - 1] = H[t - 1] - H[from - 1] BY <2>4, <2>7, <2>9, <2>10
  <2>12. H[t] = H[t - 1] + f[t] /\ H[t - 1] \in Int /\ f[t] \in Int BY <2>4, <2>7 DEF Totals
  <2> QED BY <2>4, <2>5, <2>6, <2>7, <2>11, <2>12
<1> QED BY <1>4, <1>5

-----------------------------------------------------------------------------
(* Blurring. *)

\* The line with its edges repeated outwards, read at any position.
Edged(line, n, i) == line[Pixel!Clamp(i, 0, n - 1)]

\* Where an edged line reads: its own samples inside, the nearest one outside.
LEMMA EdgedReads == ASSUME NEW n \in Nat \ {0}, NEW line, \A i \in 0..(n - 1) : line[i] \in Int
                    PROVE \A i \in Int : /\ Edged(line, n, i) \in Int
                                         /\ i <= 0 => Edged(line, n, i) = line[0]
                                         /\ i >= 0 => Edged(line, n, i) = line[Pixel!Min({i, n - 1})]
                                         /\ i <= n - 1 => Edged(line, n, i) = line[Pixel!Max({0, i})]
<1> SUFFICES ASSUME NEW i \in Int
             PROVE /\ Edged(line, n, i) \in Int
                   /\ i <= 0 => Edged(line, n, i) = line[0]
                   /\ i >= 0 => Edged(line, n, i) = line[Pixel!Min({i, n - 1})]
                   /\ i <= n - 1 => Edged(line, n, i) = line[Pixel!Max({0, i})]
  OBVIOUS
<1>1. n \in Int /\ n - 1 >= 0 OBVIOUS
<1>2. PICK c : c = Pixel!Clamp(i, 0, n - 1) OBVIOUS
<1>3. c = IF i < 0 THEN 0 ELSE IF i > n - 1 THEN n - 1 ELSE i BY <1>1, <1>2, Clamped
<1>4. Pixel!Min({i, n - 1}) = (IF i <= n - 1 THEN i ELSE n - 1) /\ Pixel!Max({0, i}) = (IF 0 >= i THEN 0 ELSE i)
  <2>1. PICK b \in Int : b = n - 1 BY <1>1
  <2>2. Pixel!Min({i, b}) = IF i <= b THEN i ELSE b BY OfTwo
  <2>3. Pixel!Max({0, i}) = IF 0 >= i THEN 0 ELSE i BY OfTwo
  <2> QED BY <2>1, <2>2, <2>3
<1>5. c \in 0..(n - 1) BY <1>1, <1>3
<1>6. i <= 0 => c = 0 BY <1>1, <1>3
<1>7. i >= 0 => c = Pixel!Min({i, n - 1}) BY <1>1, <1>3, <1>4
<1>8. i <= n - 1 => c = Pixel!Max({0, i}) BY <1>1, <1>3, <1>4
<1> QED BY <1>2, <1>5, <1>6, <1>7, <1>8 DEF Edged

\* The running total of a line, from the first window's left end to one past the last one's right end.
Run(H, line, n, r) == Totals(H, [i \in (-r)..(n + r) |-> Edged(line, n, i)], -r, n + r)

\* There is one for every line and radius.
LEMMA RunExists == ASSUME NEW n \in Nat \ {0}, NEW r \in Nat, NEW line, \A i \in 0..(n - 1) : line[i] \in Int
                   PROVE \E H : Run(H, line, n, r)
<1>1. \A i \in (-r)..(n + r) : [j \in (-r)..(n + r) |-> Edged(line, n, j)][i] \in Int
  <2>1. \A i \in Int : Edged(line, n, i) \in Int BY EdgedReads
  <2> QED BY <2>1
<1>2. -r \in Int /\ n + r \in Int /\ -r - 1 <= n + r OBVIOUS
<1> QED BY <1>1, <1>2, TotalsExist DEF Run

\* What a running total of a line is.
LEMMA RunIs == ASSUME NEW n \in Nat \ {0}, NEW r \in Nat, NEW line, NEW H, Run(H, line, n, r)
               PROVE /\ \A i \in (-r - 1)..(n + r) : H[i] \in Int
                     /\ \A i \in (-r)..(n + r) : H[i] = H[i - 1] + Edged(line, n, i)
<1>1. H \in [(-r - 1)..(n + r) -> Int] BY DEF Run, Totals
<1>2. \A i \in (-r)..(n + r) : H[i] = H[i - 1] + [j \in (-r)..(n + r) |-> Edged(line, n, j)][i] BY DEF Run, Totals
<1> QED BY <1>1, <1>2

\* The sum of a window is what the running total rises by over it.
LEMMA WindowIsRise == ASSUME NEW n \in Nat \ {0}, NEW r \in Nat, NEW line, \A i \in 0..(n - 1) : line[i] \in Int,
                             NEW H, Run(H, line, n, r), NEW x \in 0..(n - 1)
                      PROVE Pixel!WindowSum(line, n, r, x) = H[x + r] - H[x - 1 - r]
<1> DEFINE f == [k \in (-r)..r |-> line[Pixel!Clamp(x + k, 0, n - 1)]]
<1> DEFINE G == [k \in (-r - 1)..r |-> H[x + k]]
<1>1. \A k \in (-r)..r : f[k] = Edged(line, n, x + k) BY DEF Edged
<1>2. \A k \in (-r)..r : f[k] \in Int
  <2>1. \A i \in Int : Edged(line, n, i) \in Int BY EdgedReads
  <2>2. \A k \in (-r)..r : x + k \in Int OBVIOUS
  <2> HIDE DEF f
  <2> QED BY <1>1, <2>1, <2>2
<1>3. G \in [(-r - 1)..r -> Int]
  <2>1. \A k \in (-r - 1)..r : H[x + k] \in Int
    <3> SUFFICES ASSUME NEW k \in (-r - 1)..r PROVE H[x + k] \in Int OBVIOUS
    <3>1. x + k \in (-r - 1)..(n - 1 + r) OBVIOUS
    <3> QED BY <3>1, RunIs
  <2> QED BY <2>1
<1>4. \A k \in (-r)..r : G[k] = G[k - 1] + f[k]
  <2> SUFFICES ASSUME NEW k \in (-r)..r PROVE G[k] = G[k - 1] + f[k] OBVIOUS
  <2>1. x + k \in (-r)..(n - 1 + r) /\ k - 1 \in (-r - 1)..r /\ x + (k - 1) = x + k - 1 OBVIOUS
  <2>2. H[x + k] = H[x + k - 1] + Edged(line, n, x + k) BY <2>1, RunIs
  <2>3. G[k] = H[x + k] /\ G[k - 1] = H[x + k - 1] BY <2>1
  <2> QED BY <1>1, <2>2, <2>3
<1>5. Totals(G, f, -r, r) BY <1>3, <1>4 DEF Totals
<1>6. Pixel!WindowSum(line, n, r, x) = Pixel!SumOver(f, -r, r) BY DEF Pixel!WindowSum
<1>8. -r \in Int /\ r \in Int /\ -r - 1 <= r OBVIOUS
<1>9. G[r] = H[x + r] /\ G[-r - 1] = H[x - 1 - r]
  <2>1. r \in (-r - 1)..r /\ -r - 1 \in (-r - 1)..r /\ x + (-r - 1) = x - 1 - r OBVIOUS
  <2> QED BY <2>1
<1> HIDE DEF f, G
<1>7. Pixel!SumOver(f, -r, r) = G[r] - G[-r - 1] BY <1>2, <1>5, <1>8, SumIsRise
<1> QED BY <1>6, <1>7, <1>9

\* Left of the line the running total rises by the first sample at every step.
LEMMA LeftEdge == ASSUME NEW n \in Nat \ {0}, NEW r \in Nat, NEW line, \A i \in 0..(n - 1) : line[i] \in Int,
                         NEW H, Run(H, line, n, r)
                  PROVE H[0] - H[-r - 1] = line[0] * (r + 1)
<1> DEFINE f == [i \in (-r)..0 |-> line[0]]
<1> DEFINE G == [i \in (-r - 1)..0 |-> line[0] * (i + r + 1)]
<1> DEFINE K == [i \in (-r - 1)..0 |-> H[i]]
<1>0. line[0] \in Int /\ -r \in Int /\ -r - 1 <= 0 OBVIOUS
<1>1. \A i \in (-r)..0 : f[i] \in Int BY <1>0
<1>2. Totals(G, f, -r, 0)
  <2>1. G \in [(-r - 1)..0 -> Int] BY <1>0
  <2>2. \A i \in (-r)..0 : G[i] = G[i - 1] + f[i]
    <3> SUFFICES ASSUME NEW i \in (-r)..0 PROVE G[i] = G[i - 1] + f[i] OBVIOUS
    <3>1. i - 1 \in (-r - 1)..0 /\ i \in (-r - 1)..0 OBVIOUS
    <3>2. G[i] = line[0] * (i + r + 1) /\ G[i - 1] = line[0] * (i - 1 + r + 1) /\ f[i] = line[0] BY <3>1
    <3> HIDE DEF G, f
    <3>3. PICK a \in Int : a = line[0] BY <1>0
    <3>4. PICK b \in Int : b = i + r OBVIOUS
    <3>5. a * (b + 1) = a * b + a OBVIOUS
    <3>6. i - 1 + r + 1 = b /\ i + r + 1 = b + 1 BY <3>4
    <3> QED BY <3>2, <3>3, <3>5, <3>6
  <2> HIDE DEF G, f
  <2> QED BY <2>1, <2>2 DEF Totals
<1>3. Totals(K, f, -r, 0)
  <2>1. \A i \in (-r - 1)..0 : K[i] \in Int
    <3> SUFFICES ASSUME NEW i \in (-r - 1)..0 PROVE K[i] \in Int OBVIOUS
    <3>1. i \in (-r - 1)..(n - 1 + r) OBVIOUS
    <3> QED BY <3>1, RunIs
  <2>2. \A i \in (-r)..0 : K[i] = K[i - 1] + f[i]
    <3> SUFFICES ASSUME NEW i \in (-r)..0 PROVE K[i] = K[i - 1] + f[i] OBVIOUS
    <3>1. i \in (-r)..(n - 1 + r) /\ i - 1 \in (-r - 1)..0 /\ i \in (-r - 1)..0 OBVIOUS
    <3>2. H[i] = H[i - 1] + Edged(line, n, i) BY <3>1, RunIs
    <3>3. Edged(line, n, i) = line[0]
      <4>1. \A j \in Int : j <= 0 => Edged(line, n, j) = line[0] BY EdgedReads
      <4>2. i \in Int /\ i <= 0 OBVIOUS
      <4> QED BY <4>1, <4>2
    <3> QED BY <3>1, <3>2, <3>3
  <2>3. K \in [(-r - 1)..0 -> Int] BY <2>1
  <2> HIDE DEF K, f
  <2> QED BY <2>2, <2>3 DEF Totals
<1>4. K[0] = H[0] /\ K[-r - 1] = H[-r - 1] /\ 0 \in (-r - 1)..0
  <2>1. 0 \in (-r - 1)..0 /\ -r - 1 \in (-r - 1)..0 OBVIOUS
  <2> QED BY <2>1
<1>5. G[0] = line[0] * (r + 1) /\ G[-r - 1] = 0
  <2>1. 0 \in (-r - 1)..0 /\ -r - 1 \in (-r - 1)..0 /\ 0 + r + 1 = r + 1 /\ -r - 1 + r + 1 = 0 OBVIOUS
  <2>2. line[0] * 0 = 0 BY <1>0
  <2> QED BY <2>1, <2>2
<1>7. line[0] * (r + 1) \in Int BY <1>0
<1> HIDE DEF G, K, f
<1>6. G[0] - G[-r - 1] = K[0] - K[-r - 1] BY <1>0, <1>1, <1>2, <1>3, <1>4, TotalsRise
<1> QED BY <1>4, <1>5, <1>6, <1>7

\* The sum that the first loop over k collects.
Collected(line, n, r, from) == Pixel!SumOver([k \in from..r |-> line[Pixel!Min({k, n - 1})]], from, r)

\* Right of the first sample the running total rises by the sums the loops over k collect.
LEMMA RightOfFirst == ASSUME NEW n \in Nat \ {0}, NEW r \in Nat, NEW line, \A i \in 0..(n - 1) : line[i] \in Int,
                             NEW H, Run(H, line, n, r)
                      PROVE \A from \in {0, 1} : Collected(line, n, r, from) = H[r] - H[from - 1]
<1> TAKE from \in {0, 1}
<1> DEFINE f == [k \in from..r |-> line[Pixel!Min({k, n - 1})]]
<1> DEFINE K == [i \in (from - 1)..r |-> H[i]]
<1>0. from \in Int /\ r \in Int /\ from - 1 <= r OBVIOUS
<1>1. \A i \in from..r : f[i] = Edged(line, n, i) /\ f[i] \in Int
  <2>1. \A j \in Int : Edged(line, n, j) \in Int /\ (j >= 0 => Edged(line, n, j) = line[Pixel!Min({j, n - 1})])
    BY EdgedReads
  <2> SUFFICES ASSUME NEW i \in from..r PROVE f[i] = Edged(line, n, i) /\ f[i] \in Int OBVIOUS
  <2>2. i \in Int /\ i >= 0 OBVIOUS
  <2>3. Edged(line, n, i) \in Int /\ Edged(line, n, i) = line[Pixel!Min({i, n - 1})] BY <2>1, <2>2
  <2> QED BY <2>3
<1>2. \A i \in (from - 1)..r : K[i] \in Int
  <2> SUFFICES ASSUME NEW i \in (from - 1)..r PROVE K[i] \in Int OBVIOUS
  <2>1. i \in (-r - 1)..(n - 1 + r) OBVIOUS
  <2> QED BY <2>1, RunIs
<1>3. \A i \in from..r : K[i] = K[i - 1] + f[i]
  <2> SUFFICES ASSUME NEW i \in from..r PROVE K[i] = K[i - 1] + f[i] OBVIOUS
  <2>1. i \in (-r)..(n - 1 + r) /\ i - 1 \in (from - 1)..r /\ i \in (from - 1)..r OBVIOUS
  <2>2. H[i] = H[i - 1] + Edged(line, n, i) BY <2>1, RunIs
  <2> QED BY <1>1, <2>1, <2>2
<1>4. K \in [(from - 1)..r -> Int] BY <1>2
<1>6. K[r] = H[r] /\ K[from - 1] = H[from - 1]
  <2>1. r \in (from - 1)..r /\ from - 1 \in (from - 1)..r OBVIOUS
  <2> QED BY <2>1
<1> HIDE DEF K
<1>5. Totals(K, f, from, r) BY <1>3, <1>4 DEF Totals
<1> HIDE DEF f
<1>7. Pixel!SumOver(f, from, r) = K[r] - K[from - 1] BY <1>0, <1>1, <1>5, SumIsRise
<1> QED BY <1>6, <1>7 DEF f, Collected


\* A sum that slides along a line up to m: the sample that enters is added, the one that leaves taken off.
Slid(line, n, r, m, first) ==
    CHOOSE s : s = [x \in 0..m |->
        IF x = 0 THEN first ELSE s[x - 1] + line[Pixel!Min({x + r, n - 1})] - line[Pixel!Max({0, x - 1 - r})]]

\* A sum that slides along a line is that of the window, if it starts with the first one's.
LEMMA SlidingSum ==
    ASSUME NEW n \in Nat \ {0}, NEW r \in Nat, NEW line, \A i \in 0..(n - 1) : line[i] \in Int,
           NEW H, Run(H, line, n, r), NEW m \in {n - 1, n}, NEW first, first = H[r] - H[-r - 1]
    PROVE  \A x \in 0..m : Slid(line, n, r, m, first)[x] = H[x + r] - H[x - 1 - r]
<1> DEFINE sum == Slid(line, n, r, m, first)
<1> DEFINE W == [x \in 0..m |-> H[x + r] - H[x - 1 - r]]
<1>m. m \in Nat /\ m <= n OBVIOUS
<1>1. \A x \in 0..m : x # 0 => W[x] = W[x - 1] + line[Pixel!Min({x + r, n - 1})] - line[Pixel!Max({0, x - 1 - r})]
  <2> SUFFICES ASSUME NEW x \in 0..m, x # 0
               PROVE W[x] = W[x - 1] + line[Pixel!Min({x + r, n - 1})] - line[Pixel!Max({0, x - 1 - r})]
    OBVIOUS
  <2>1. x \in 1..n /\ x - 1 \in 0..m BY <1>m
  <2>2. x - 1 + r \in (-r)..(n + r) /\ x + r \in (-r)..(n + r) /\ x - 1 - r \in (-r)..(n + r) BY <2>1
  <2>3. W[x] = H[x + r] - H[x - 1 - r] /\ W[x - 1] = H[x - 1 + r] - H[x - 1 - 1 - r] BY <2>1
  <2>4. H[x + r] = H[x + r - 1] + Edged(line, n, x + r) BY <2>2, RunIs
  <2>5. H[x - 1 - r] = H[x - 1 - r - 1] + Edged(line, n, x - 1 - r) BY <2>2, RunIs
  <2>6. Edged(line, n, x + r) = line[Pixel!Min({x + r, n - 1})] /\ Edged(line, n, x + r) \in Int
    <3>1. \A j \in Int : Edged(line, n, j) \in Int /\ (j >= 0 => Edged(line, n, j) = line[Pixel!Min({j, n - 1})])
      BY EdgedReads
    <3>2. x + r \in Int /\ x + r >= 0 BY <2>1
    <3> QED BY <3>1, <3>2
  <2>7. Edged(line, n, x - 1 - r) = line[Pixel!Max({0, x - 1 - r})] /\ Edged(line, n, x - 1 - r) \in Int
    <3>1. \A j \in Int : Edged(line, n, j) \in Int /\ (j <= n - 1 => Edged(line, n, j) = line[Pixel!Max({0, j})])
      BY EdgedReads
    <3>2. x - 1 - r \in Int /\ x - 1 - r <= n - 1 BY <2>1
    <3> QED BY <3>1, <3>2
  <2>8. x + r - 1 = x - 1 + r /\ x - 1 - r - 1 = x - 1 - 1 - r BY <2>1
  <2>9. H[x + r] \in Int /\ H[x - 1 - r] \in Int /\ H[x - 1 + r] \in Int /\ H[x - 1 - 1 - r] \in Int
    <3>1. {x + r, x - 1 - r, x - 1 + r, x - 1 - 1 - r} \subseteq (-r - 1)..(n + r) BY <2>1
    <3>2. \A i \in (-r - 1)..(n + r) : H[i] \in Int BY RunIs
    <3> QED BY <3>1, <3>2
  <2> HIDE DEF W
  <2> QED BY <2>3, <2>4, <2>5, <2>6, <2>7, <2>8, <2>9
<1>2. W[0] = first
  <2>1. 0 \in 0..m /\ 0 + r = r /\ 0 - 1 - r = -r - 1 BY <1>m
  <2> QED BY <2>1
<1>3. W = [x \in 0..m |-> IF x = 0 THEN first ELSE W[x - 1] + line[Pixel!Min({x + r, n - 1})] - line[Pixel!Max({0, x - 1 - r})]]
  <2>1. \A x \in 0..m : W[x] = IF x = 0 THEN first ELSE W[x - 1] + line[Pixel!Min({x + r, n - 1})] - line[Pixel!Max({0, x - 1 - r})]
    BY <1>1, <1>2
  <2> QED BY <2>1
<1>4. \A x \in 0..m : W[x] = H[x + r] - H[x - 1 - r] OBVIOUS
<1> HIDE DEF W
<1>5. sum = [x \in 0..m |-> IF x = 0 THEN first ELSE sum[x - 1] + line[Pixel!Min({x + r, n - 1})] - line[Pixel!Max({0, x - 1 - r})]]
  <2>1. \E s : s = [x \in 0..m |-> IF x = 0 THEN first ELSE s[x - 1] + line[Pixel!Min({x + r, n - 1})] - line[Pixel!Max({0, x - 1 - r})]]
    BY <1>3
  <2> QED BY <2>1 DEF Slid
<1> HIDE DEF sum
<1>6. \A x \in 0..m : sum[x] = W[x]
  <2> DEFINE T == {x \in 0..m : sum[x] # W[x]}
  <2> SUFFICES ASSUME T # {} PROVE FALSE OBVIOUS
  <2>1. T \in SUBSET Nat BY <1>m
  <2>2. PICK x \in T : \A k \in T : x <= k BY <2>1, Smallest
  <2>3. x \in 0..m /\ sum[x] # W[x] OBVIOUS
  <2>4. x # 0
    <3>1. 0 \in 0..m BY <1>m
    <3> QED BY <1>3, <1>5, <2>3, <3>1
  <2>5. x - 1 \in 0..m /\ x - 1 \notin T
    <3>1. x - 1 \in 0..m BY <1>m, <2>3, <2>4
    <3> HIDE DEF T
    <3> QED BY <1>m, <2>2, <2>3, <3>1
  <2>6. sum[x - 1] = W[x - 1] BY <2>5
  <2> HIDE DEF T
  <2>7. sum[x] = sum[x - 1] + line[Pixel!Min({x + r, n - 1})] - line[Pixel!Max({0, x - 1 - r})] BY <1>5, <2>3, <2>4
  <2>8. W[x] = W[x - 1] + line[Pixel!Min({x + r, n - 1})] - line[Pixel!Max({0, x - 1 - r})] BY <1>3, <2>3, <2>4
  <2> QED BY <2>3, <2>6, <2>7, <2>8
<1> QED BY <1>4, <1>6 DEF sum

\* The running total and its values where the two first windows begin, meet and end.
LEMMA FirstWindow == ASSUME NEW n \in Nat \ {0}, NEW r \in Nat, NEW line, \A i \in 0..(n - 1) : line[i] \in Int,
                            NEW H, Run(H, line, n, r)
                     PROVE /\ line[0] * r + Pixel!SumOver([k \in 0..r |-> line[Pixel!Min({k, n - 1})]], 0, r) = H[r] - H[-r - 1]
                           /\ line[0] * (r + 1) + Pixel!SumOver([k \in 1..r |-> line[Pixel!Min({k, n - 1})]], 1, r) = H[r] - H[-r - 1]
<1>0. \A from \in {0, 1} : Collected(line, n, r, from) = H[r] - H[from - 1]
  BY RightOfFirst
<1>1. H[0] - H[-r - 1] = line[0] * (r + 1) BY LeftEdge
<1>2. Pixel!SumOver([k \in 0..r |-> line[Pixel!Min({k, n - 1})]], 0, r) = H[r] - H[0 - 1] BY <1>0 DEF Collected
<1>3. Pixel!SumOver([k \in 1..r |-> line[Pixel!Min({k, n - 1})]], 1, r) = H[r] - H[1 - 1] BY <1>0 DEF Collected
<1>4. H[0] = H[0 - 1] + Edged(line, n, 0)
  <2>1. 0 \in (-r)..(n + r) OBVIOUS
  <2> QED BY <2>1, RunIs
<1>5. Edged(line, n, 0) = line[0]
  <2>1. \A j \in Int : j <= 0 => Edged(line, n, j) = line[0] BY EdgedReads
  <2> QED BY <2>1
<1>6. H[0] \in Int /\ H[0 - 1] \in Int /\ H[-r - 1] \in Int /\ H[r] \in Int /\ line[0] \in Int
  <2>1. {0, 0 - 1, -r - 1, r} \subseteq (-r - 1)..(n + r) OBVIOUS
  <2>2. \A i \in (-r - 1)..(n + r) : H[i] \in Int BY RunIs
  <2>3. 0 \in 0..(n - 1) OBVIOUS
  <2> QED BY <2>1, <2>2, <2>3
<1>7. line[0] * (r + 1) = line[0] * r + line[0] /\ line[0] * r \in Int BY <1>6
<1>8. H[1 - 1] = H[0]
  <2>1. 1 - 1 = 0 OBVIOUS
  <2> QED BY <2>1
<1>9. PICK a \in Int : a = line[0] * r /\ line[0] * (r + 1) = a + line[0] BY <1>7
<1>10. a + (H[r] - H[0 - 1]) = H[r] - H[-r - 1]
  <2>1. PICK p \in Int, q \in Int, s \in Int, t \in Int : p = H[r] /\ q = H[0 - 1] /\ s = H[-r - 1] /\ t = H[0] BY <1>6
  <2>2. t - s = a + line[0] BY <1>1, <1>9, <2>1
  <2>3. t = q + line[0] BY <1>4, <1>5, <2>1
  <2>4. a + (p - q) = p - s BY <1>6, <2>2, <2>3
  <2> QED BY <2>1, <2>4
<1>11. a + line[0] + (H[r] - H[0]) = H[r] - H[-r - 1] BY <1>1, <1>6, <1>9
<1> QED BY <1>2, <1>3, <1>8, <1>9, <1>10, <1>11

(***************************************************************************)
(* The sum that box_blur_rgb slides along a line, and the one feather      *)
(* does, are the sums of the windows, however long the line and however    *)
(* wide the window: narrower than the line, wider, or one sample.          *)
(***************************************************************************)
LEMMA SlidesAreWindows ==
    ASSUME NEW n \in Nat \ {0}, NEW r \in Nat, NEW line, \A i \in 0..(n - 1) : line[i] \in Int
    PROVE  \A x \in 0..(n - 1) : /\ Pixel!Slide(line, n, r)[x] = Pixel!WindowSum(line, n, r, x)
                                 /\ Pixel!FeatherSlide(line, n, r)[x] = Pixel!WindowSum(line, n, r, x)
<1>1. PICK H : Run(H, line, n, r) BY RunExists
<1>2. \A x \in 0..(n - 1) : Pixel!WindowSum(line, n, r, x) = H[x + r] - H[x - 1 - r] BY <1>1, WindowIsRise
<1>3. \A x \in 0..(n - 1) : Pixel!Slide(line, n, r)[x] = H[x + r] - H[x - 1 - r]
  <2> DEFINE first == line[0] * r + Pixel!SumOver([k \in 0..r |-> line[Pixel!Min({k, n - 1})]], 0, r)
             sum == Slid(line, n, r, n - 1, first)
  <2>1. first = H[r] - H[-r - 1] BY <1>1, FirstWindow
  <2>2. Pixel!Slide(line, n, r) = sum BY DEF Pixel!Slide, Slid
  <2> HIDE DEF first
  <2>3. \A x \in 0..(n - 1) : sum[x] = H[x + r] - H[x - 1 - r] BY <1>1, <2>1, SlidingSum
  <2> QED BY <2>2, <2>3
<1>4. \A x \in 0..(n - 1) : Pixel!FeatherSlide(line, n, r)[x] = H[x + r] - H[x - 1 - r]
  <2> DEFINE first == line[0] * (r + 1) + Pixel!SumOver([k \in 1..r |-> line[Pixel!Min({k, n - 1})]], 1, r)
             sum == Slid(line, n, r, n, first)
  <2>1. first = H[r] - H[-r - 1] BY <1>1, FirstWindow
  <2>2. Pixel!FeatherSlide(line, n, r) = [x \in 0..(n - 1) |-> sum[x]] BY DEF Pixel!FeatherSlide, Slid
  <2> HIDE DEF first
  <2>3. \A x \in 0..n : sum[x] = H[x + r] - H[x - 1 - r] BY <1>1, <2>1, SlidingSum
  <2> HIDE DEF sum
  <2>4. \A x \in 0..(n - 1) : x \in 0..n OBVIOUS
  <2> QED BY <2>2, <2>3, <2>4
<1> QED BY <1>2, <1>3, <1>4

\* A line of numbers between lo and hi has sums between so many times lo and hi.
LEMMA RiseBounded ==
    ASSUME NEW from \in Int, NEW to \in Int, from - 1 <= to, NEW lo \in Int, NEW hi \in Int,
           NEW f, \A i \in from..to : f[i] \in lo..hi, NEW H, Totals(H, f, from, to)
    PROVE  lo * (to - from + 1) <= H[to] - H[from - 1] /\ H[to] - H[from - 1] <= hi * (to - from + 1)
<1> DEFINE Between(n) == lo * n <= H[from - 1 + n] - H[from - 1] /\ H[from - 1 + n] - H[from - 1] <= hi * n
           T == {n \in Nat : from - 1 + n <= to /\ ~Between(n)}
<1>h. \A i \in (from - 1)..to : H[i] \in Int BY DEF Totals
<1>1. T = {}
  <2> SUFFICES ASSUME T # {} PROVE FALSE OBVIOUS
  <2>1. PICK n \in T : \A k \in T : n <= k BY Smallest
  <2>2. n \in Nat /\ from - 1 + n <= to /\ ~Between(n) OBVIOUS
  <2>3. n # 0
    <3>1. CASE n = 0
      <4>1. from - 1 + n = from - 1 /\ H[from - 1] \in Int BY <1>h, <3>1
      <4>2. lo * n = 0 /\ hi * n = 0 BY <3>1
      <4> QED BY <2>2, <4>1, <4>2
    <3> QED BY <3>1
  <2>4. n - 1 \in Nat /\ n - 1 \notin T
    <3>1. n - 1 \in Nat BY <2>2, <2>3
    <3> HIDE DEF T
    <3> QED BY <2>1, <2>2, <3>1
  <2>5. Between(n - 1)
    <3>1. from - 1 + (n - 1) <= to BY <2>2
    <3> HIDE DEF Between
    <3> QED BY <2>4, <3>1
  <2>6. PICK t \in from..to : t = from - 1 + n BY <2>2, <2>3
  <2>7. H[t] = H[t - 1] + f[t] /\ f[t] \in lo..hi BY <2>6 DEF Totals
  <2>8. from - 1 + (n - 1) = t - 1 BY <2>2, <2>6
  <2>9. H[t] \in Int /\ H[t - 1] \in Int /\ H[from - 1] \in Int BY <1>h, <2>6
  <2>10. lo * (n - 1) <= H[t - 1] - H[from - 1] /\ H[t - 1] - H[from - 1] <= hi * (n - 1) BY <2>5, <2>8
  <2>11. PICK a \in Int, b \in Int : a = lo * (n - 1) /\ b = hi * (n - 1) BY <2>2
  <2>12. lo * n = a + lo /\ hi * n = b + hi BY <2>2, <2>11
  <2>13. lo * n <= H[t] - H[from - 1] BY <2>7, <2>9, <2>10, <2>11, <2>12
  <2>14. H[t] - H[from - 1] <= hi * n BY <2>7, <2>9, <2>10, <2>11, <2>12
  <2> QED BY <2>2, <2>6, <2>13, <2>14
<1>2. PICK n \in Nat : n = to - from + 1 BY SMT
<1>3. from - 1 + n = to BY <1>2
<1>4. Between(n)
  <2> HIDE DEF Between
  <2> QED BY <1>1, <1>3
<1> QED BY <1>2, <1>3, <1>4

\* The sum of a window of samples between lo and hi.
LEMMA WindowBounded ==
    ASSUME NEW n \in Nat \ {0}, NEW r \in Nat, NEW lo \in Int, NEW hi \in Int,
           NEW line, \A i \in 0..(n - 1) : line[i] \in lo..hi, NEW x \in 0..(n - 1)
    PROVE  LET s == Pixel!WindowSum(line, n, r, x)
           IN  s \in Int /\ lo * (2 * r + 1) <= s /\ s <= hi * (2 * r + 1)
<1> DEFINE f == [k \in (-r)..r |-> line[Pixel!Clamp(x + k, 0, n - 1)]]
<1>1. \A k \in (-r)..r : f[k] \in lo..hi
  <2> SUFFICES ASSUME NEW k \in (-r)..r PROVE line[Pixel!Clamp(x + k, 0, n - 1)] \in lo..hi OBVIOUS
  <2>1. PICK b \in Int, j \in Int : b = n - 1 /\ j = x + k /\ 0 <= b OBVIOUS
  <2>2. Pixel!Clamp(j, 0, b) = IF j < 0 THEN 0 ELSE IF j > b THEN b ELSE j BY <2>1, Clamped
  <2>3. Pixel!Clamp(j, 0, b) \in 0..b BY <2>1, <2>2
  <2> QED BY <2>1, <2>3
<1>2. -r \in Int /\ r \in Int /\ -r - 1 <= r OBVIOUS
<1>3. \A k \in (-r)..r : f[k] \in Int BY <1>1
<1>4. Pixel!WindowSum(line, n, r, x) = Pixel!SumOver(f, -r, r) BY DEF Pixel!WindowSum
<1> HIDE DEF f
<1>5. PICK H : Totals(H, f, -r, r) BY <1>2, <1>3, TotalsExist
<1>6. Pixel!SumOver(f, -r, r) = H[r] - H[-r - 1] BY <1>2, <1>3, <1>5, SumIsRise
<1>7. lo * (r - (-r) + 1) <= H[r] - H[-r - 1] /\ H[r] - H[-r - 1] <= hi * (r - (-r) + 1) BY <1>1, <1>2, <1>5, RiseBounded
<1>8. r - (-r) + 1 = 2 * r + 1 OBVIOUS
<1>9. H[r] \in Int /\ H[-r - 1] \in Int
  <2>1. r \in (-r - 1)..r /\ -r - 1 \in (-r - 1)..r OBVIOUS
  <2> QED BY <1>5, <2>1 DEF Totals
<1> QED BY <1>4, <1>6, <1>7, <1>8, <1>9

\* A quotient is between what the number is between, so many times.
LEMMA QuotientBetween == ASSUME NEW s \in Int, NEW d \in Nat \ {0}, NEW lo \in Int, NEW hi \in Int, lo * d <= s, s <= hi * d
                         PROVE s \div d \in lo..hi
<1>1. PICK q \in Int, m \in Int : q = s \div d /\ s = d * q + m /\ 0 <= m /\ m <= d - 1
  <2>1. s \div d \in Int /\ s = d * (s \div d) + (s % d) /\ s % d \in 0..(d - 1) OBVIOUS
  <2> QED BY <2>1
<1>2. CASE q < lo
  <2>1. PICK e \in Nat : lo = q + 1 + e BY <1>2
  <2>2. lo * d = d * q + d + d * e /\ d * e \in Nat BY <2>1
  <2>3. PICK a \in Int, b \in Nat : a = d * q /\ b = d * e BY <2>2
  <2> QED BY <1>1, <2>2, <2>3
<1>3. CASE q > hi
  <2>1. PICK e \in Nat : q = hi + 1 + e BY <1>3
  <2>2. d * q = hi * d + d + d * e /\ d * e \in Nat BY <2>1
  <2>3. PICK a \in Int, b \in Nat : a = hi * d /\ b = d * e BY <2>2
  <2> QED BY <1>1, <2>2, <2>3
<1> QED BY <1>1, <1>2, <1>3

\* Planes of samples between lo and hi.
PlanesOf(w, h, lo, hi) == [0..(h - 1) -> [0..(w - 1) -> lo..hi]]

\* Every sample is the mean of its window along the row, cut off.
MeansCut(made, img, w, h, r) ==
    \A y \in 0..(h - 1), x \in 0..(w - 1) : made[y][x] = Pixel!WindowSum(img[y], w, r, x) \div (2 * r + 1)

\* Lines blurred hold the means of the windows, which no sample leaves.
LEMMA LinesBlurred ==
    ASSUME NEW w \in Nat \ {0}, NEW h \in Nat, NEW r \in Nat, NEW lo \in Int, NEW hi \in Int, NEW img \in PlanesOf(w, h, lo, hi)
    PROVE  Pixel!BlurLines(img, w, r) \in PlanesOf(w, h, lo, hi) /\ MeansCut(Pixel!BlurLines(img, w, r), img, w, h, r)
<1> DEFINE Mean(y, x) == Pixel!WindowSum(img[y], w, r, x) \div (2 * r + 1)
<1>1. DOMAIN img = 0..(h - 1) /\ \A y \in 0..(h - 1), x \in 0..(w - 1) : img[y][x] \in lo..hi BY DEF PlanesOf
<1>2. \A y \in 0..(h - 1), x \in 0..(w - 1) : Pixel!Slide(img[y], w, r)[x] = Pixel!WindowSum(img[y], w, r, x)
  <2> SUFFICES ASSUME NEW y \in 0..(h - 1)
               PROVE \A x \in 0..(w - 1) : Pixel!Slide(img[y], w, r)[x] = Pixel!WindowSum(img[y], w, r, x)
    OBVIOUS
  <2>1. \A x \in 0..(w - 1) : img[y][x] \in Int BY <1>1
  <2> QED BY <2>1, SlidesAreWindows
<1>3. \A y \in 0..(h - 1), x \in 0..(w - 1) : Mean(y, x) \in lo..hi
  <2> SUFFICES ASSUME NEW y \in 0..(h - 1), NEW x \in 0..(w - 1) PROVE Mean(y, x) \in lo..hi OBVIOUS
  <2>1. \A i \in 0..(w - 1) : img[y][i] \in lo..hi BY <1>1
  <2>2. PICK s : s = Pixel!WindowSum(img[y], w, r, x) OBVIOUS
  <2>3. s \in Int /\ lo * (2 * r + 1) <= s /\ s <= hi * (2 * r + 1) BY <2>1, <2>2, WindowBounded
  <2>4. 2 * r + 1 \in Nat \ {0} OBVIOUS
  <2>5. s \div (2 * r + 1) \in lo..hi BY <2>3, <2>4, QuotientBetween
  <2> QED BY <2>2, <2>5
<1>4. Pixel!BlurLines(img, w, r) = [y \in 0..(h - 1) |-> [x \in 0..(w - 1) |-> Pixel!Slide(img[y], w, r)[x] \div (2 * r + 1)]]
  BY <1>1 DEF Pixel!BlurLines
<1>5. \A y \in 0..(h - 1), x \in 0..(w - 1) : Pixel!BlurLines(img, w, r)[y][x] = Mean(y, x) BY <1>2, <1>4
<1>6. Pixel!BlurLines(img, w, r) \in PlanesOf(w, h, lo, hi)
  <2>1. \A y \in 0..(h - 1), x \in 0..(w - 1) : Pixel!Slide(img[y], w, r)[x] \div (2 * r + 1) \in lo..hi BY <1>2, <1>3
  <2> QED BY <1>4, <2>1 DEF PlanesOf
<1>7. MeansCut(Pixel!BlurLines(img, w, r), img, w, h, r) BY <1>5 DEF MeansCut
<1> QED BY <1>6, <1>7

\* A transposed plane holds the samples with row and column swapped.
LEMMA TransposedPlane ==
    ASSUME NEW w \in Nat, NEW h \in Nat, NEW lo \in Int, NEW hi \in Int, NEW img \in PlanesOf(w, h, lo, hi)
    PROVE  /\ Pixel!Transposed(img, w, h) \in PlanesOf(h, w, lo, hi)
           /\ \A x \in 0..(w - 1) : Pixel!Transposed(img, w, h)[x] = [y \in 0..(h - 1) |-> img[y][x]]
BY DEF Pixel!Transposed, PlanesOf

\* One pass of the blur, on the CPU.
CpuPass(img, w, h, r) == Pixel!BlurColumns(Pixel!BlurLines(img, w, r), w, h, r)

\* Every sample is the mean down the column of the means along the rows, all cut off.
MeansOfMeans(made, img, w, h, r) ==
    \A y \in 0..(h - 1), x \in 0..(w - 1) :
        made[y][x] = Pixel!WindowSum([v \in 0..(h - 1) |-> Pixel!WindowSum(img[v], w, r, x) \div (2 * r + 1)], h, r, y)
                         \div (2 * r + 1)

(***************************************************************************)
(* One pass of box_blur_rgb: the mean down the column of the means along   *)
(* the rows, cut off at each; no sample leaves the range of the plane.     *)
(***************************************************************************)
LEMMA PlaneBlurred ==
    ASSUME NEW w \in Nat \ {0}, NEW h \in Nat \ {0}, NEW r \in Nat, NEW lo \in Int, NEW hi \in Int,
           NEW img \in PlanesOf(w, h, lo, hi)
    PROVE  CpuPass(img, w, h, r) \in PlanesOf(w, h, lo, hi) /\ MeansOfMeans(CpuPass(img, w, h, r), img, w, h, r)
<1> DEFINE Mean(v, x) == Pixel!WindowSum(img[v], w, r, x) \div (2 * r + 1)
<1>0. w \in Nat /\ h \in Nat OBVIOUS
<1>1. PICK a : a = Pixel!BlurLines(img, w, r) OBVIOUS
<1>2. a \in PlanesOf(w, h, lo, hi) /\ \A y \in 0..(h - 1), x \in 0..(w - 1) : a[y][x] = Mean(y, x)
  <2>1. a \in PlanesOf(w, h, lo, hi) /\ MeansCut(a, img, w, h, r) BY <1>1, LinesBlurred
  <2> QED BY <2>1 DEF MeansCut
<1>3. PICK b : b = Pixel!Transposed(a, w, h) OBVIOUS
<1>4. b \in PlanesOf(h, w, lo, hi) /\ \A x \in 0..(w - 1) : b[x] = [y \in 0..(h - 1) |-> a[y][x]] BY <1>2, <1>3, TransposedPlane
<1>5. \A x \in 0..(w - 1) : b[x] = [v \in 0..(h - 1) |-> Mean(v, x)] BY <1>2, <1>4
<1>6. PICK c : c = Pixel!BlurLines(b, h, r) OBVIOUS
<1>7. c \in PlanesOf(h, w, lo, hi) /\ \A x \in 0..(w - 1), y \in 0..(h - 1) : c[x][y] = Pixel!WindowSum(b[x], h, r, y) \div (2 * r + 1)
  <2>1. c \in PlanesOf(h, w, lo, hi) /\ MeansCut(c, b, h, w, r) BY <1>0, <1>4, <1>6, LinesBlurred
  <2> QED BY <2>1 DEF MeansCut
<1>8. PICK d : d = Pixel!Transposed(c, h, w) OBVIOUS
<1>9. d \in PlanesOf(w, h, lo, hi) /\ \A y \in 0..(h - 1) : d[y] = [x \in 0..(w - 1) |-> c[x][y]]
  <2>1. \A p \in PlanesOf(h, w, lo, hi) :
           /\ Pixel!Transposed(p, h, w) \in PlanesOf(w, h, lo, hi)
           /\ \A y \in 0..(h - 1) : Pixel!Transposed(p, h, w)[y] = [x \in 0..(w - 1) |-> p[x][y]]
    BY DEF Pixel!Transposed, PlanesOf
  <2> QED BY <1>7, <1>8, <2>1
<1>10. Pixel!BlurColumns(a, w, h, r) = d BY <1>3, <1>6, <1>8 DEF Pixel!BlurColumns
<1>11. \A y \in 0..(h - 1), x \in 0..(w - 1) : d[y][x] = Pixel!WindowSum([v \in 0..(h - 1) |-> Mean(v, x)], h, r, y) \div (2 * r + 1)
  <2> SUFFICES ASSUME NEW y \in 0..(h - 1), NEW x \in 0..(w - 1)
               PROVE d[y][x] = Pixel!WindowSum([v \in 0..(h - 1) |-> Mean(v, x)], h, r, y) \div (2 * r + 1)
    OBVIOUS
  <2>1. d[y][x] = c[x][y] BY <1>9
  <2>2. c[x][y] = Pixel!WindowSum(b[x], h, r, y) \div (2 * r + 1) BY <1>7
  <2>3. b[x] = [v \in 0..(h - 1) |-> Mean(v, x)] BY <1>5
  <2> QED BY <2>1, <2>2, <2>3
<1>12. CpuPass(img, w, h, r) = d BY <1>1, <1>10 DEF CpuPass
<1>13. MeansOfMeans(d, img, w, h, r) BY <1>11 DEF MeansOfMeans
<1> QED BY <1>9, <1>12, <1>13

\* The values of P that step F gives from p on, n times.
Repeated(a, P, F, p, n) ==
    a \in [0..n -> P] /\ \A k \in 0..n : a[k] = IF k = 0 THEN p ELSE F[a[k - 1]]

\* A step on P can be repeated from any p of P, any number of times.
LEMMA Repeats == ASSUME NEW P, NEW F \in [P -> P], NEW p \in P, NEW n \in Nat
                 PROVE \E a : Repeated(a, P, F, p, n)
<1> DEFINE T == {m \in Nat : ~ \E a : Repeated(a, P, F, p, m)}
<1> SUFFICES ASSUME T # {} PROVE FALSE OBVIOUS
<1>1. PICK m \in T : \A k \in T : m <= k BY Smallest
<1>2. m \in Nat /\ ~ \E a : Repeated(a, P, F, p, m) OBVIOUS
<1>3. m # 0
  <2> DEFINE a == [k \in 0..0 |-> p]
  <2>1. Repeated(a, P, F, p, 0) BY DEF Repeated
  <2> HIDE DEF a
  <2> QED BY <1>2, <2>1
<1>4. m - 1 \in Nat /\ m - 1 \notin T
  <2>1. m - 1 \in Nat BY <1>2, <1>3
  <2> HIDE DEF T
  <2> QED BY <1>1, <1>2, <2>1
<1>5. PICK b : Repeated(b, P, F, p, m - 1) BY <1>4
<1> DEFINE a == [k \in 0..m |-> IF k = 0 THEN p ELSE F[b[k - 1]]]
<1>6. \A k \in 0..m : k # 0 => k - 1 \in 0..(m - 1) BY <1>2, <1>4
<1>7. \A k \in 0..m : a[k] \in P BY <1>5, <1>6 DEF Repeated
<1>8. \A k \in 0..(m - 1) : a[k] = b[k] BY <1>2, <1>4, <1>5 DEF Repeated
<1>9. \A k \in 0..m : a[k] = IF k = 0 THEN p ELSE F[b[k - 1]] OBVIOUS
<1>10. a \in [0..m -> P] BY <1>7
<1> HIDE DEF a
<1>11. \A k \in 0..m : a[k] = IF k = 0 THEN p ELSE F[a[k - 1]] BY <1>6, <1>8, <1>9
<1> QED BY <1>2, <1>10, <1>11 DEF Repeated

\* One pass of the blur, on the GPU.
GpuPass(img, w, h, r) == Pixel!ShadeColumn(Pixel!ShadeRow(img, w, h, r), w, h, r)

\* The frames that box_blur_rgb goes through.
Blurs(a, img, w, h, r, passes) ==
    /\ Pixel!BoxBlur(img, w, h, r, passes) = IF r = 0 THEN img ELSE a[passes]
    /\ \A k \in 0..passes : a[k] = IF k = 0 THEN img ELSE CpuPass(a[k - 1], w, h, r)

\* They exist, for any number of passes.
LEMMA CpuPasses ==
    ASSUME NEW w \in Nat \ {0}, NEW h \in Nat \ {0}, NEW r \in Nat, NEW passes \in Nat, NEW lo \in Int, NEW hi \in Int,
           NEW img \in PlanesOf(w, h, lo, hi)
    PROVE  \E a : Blurs(a, img, w, h, r, passes)
<1> DEFINE P == PlanesOf(w, h, lo, hi)
           Pass(p) == CpuPass(p, w, h, r)
           Passes(a) == a = [k \in 0..passes |-> IF k = 0 THEN img ELSE Pass(a[k - 1])]
           after == CHOOSE a : Passes(a)
<1>1. \A p \in P : Pass(p) \in P BY PlaneBlurred
<1>2. Pixel!BoxBlur(img, w, h, r, passes) = IF r = 0 THEN img ELSE after[passes] BY DEF Pixel!BoxBlur, CpuPass
<1> HIDE DEF P, Pass
<1>i. img \in P BY DEF P
<1>3. Passes(after)
  <2> DEFINE F == [p \in P |-> Pass(p)]
  <2>1. F \in [P -> P] BY <1>1
  <2> HIDE DEF F
  <2>2. PICK a : Repeated(a, P, F, img, passes) BY <1>i, <2>1, Repeats
  <2>3. \A k \in 0..passes : k # 0 => a[k - 1] \in P
    <3>1. \A k \in 0..passes : k # 0 => k - 1 \in 0..passes OBVIOUS
    <3> QED BY <2>2, <3>1 DEF Repeated
  <2>4. \A k \in 0..passes : a[k] = IF k = 0 THEN img ELSE Pass(a[k - 1]) BY <2>2, <2>3 DEF F, Repeated
  <2>5. a = [k \in 0..passes |-> a[k]] BY <2>2 DEF Repeated
  <2>6. Passes(a) BY <2>4, <2>5
  <2> HIDE DEF Passes
  <2> QED BY <2>6
<1> HIDE DEF after
<1>4. \A k \in 0..passes : after[k] = IF k = 0 THEN img ELSE Pass(after[k - 1]) BY <1>3
<1>5. Blurs(after, img, w, h, r, passes) BY <1>2, <1>4 DEF Pass, Blurs
<1> QED BY <1>5

(***************************************************************************)
(* The frame that box_blur_rgb leaves has no sample outside the range of   *)
(* the one it was given, however many passes: a flat frame stays as it is, *)
(* and bytes stay bytes.                                                   *)
(***************************************************************************)
LEMMA BlurKeepsRange ==
    ASSUME NEW w \in Nat \ {0}, NEW h \in Nat \ {0}, NEW r \in Nat, NEW passes \in Nat, NEW lo \in Int, NEW hi \in Int,
           NEW img \in PlanesOf(w, h, lo, hi)
    PROVE  Pixel!BoxBlur(img, w, h, r, passes) \in PlanesOf(w, h, lo, hi)
<1>0. PICK after : Blurs(after, img, w, h, r, passes) BY CpuPasses
<1>1. /\ Pixel!BoxBlur(img, w, h, r, passes) = IF r = 0 THEN img ELSE after[passes]
      /\ \A k \in 0..passes : after[k] = IF k = 0 THEN img ELSE CpuPass(after[k - 1], w, h, r)
  BY <1>0 DEF Blurs
<1>2. \A p \in PlanesOf(w, h, lo, hi) : CpuPass(p, w, h, r) \in PlanesOf(w, h, lo, hi) BY PlaneBlurred
<1>3. \A k \in 0..passes : after[k] \in PlanesOf(w, h, lo, hi)
  <2> DEFINE T == {k \in 0..passes : after[k] \notin PlanesOf(w, h, lo, hi)}
  <2> SUFFICES ASSUME T # {} PROVE FALSE OBVIOUS
  <2>1. T \in SUBSET Nat OBVIOUS
  <2>2. PICK k \in T : \A j \in T : k <= j BY <2>1, Smallest
  <2>3. k \in 0..passes /\ after[k] \notin PlanesOf(w, h, lo, hi) OBVIOUS
  <2>4. after[k] = IF k = 0 THEN img ELSE CpuPass(after[k - 1], w, h, r) BY <1>1, <2>3
  <2>5. k # 0 BY <2>3, <2>4
  <2>6. k - 1 \in 0..passes /\ k - 1 \notin T
    <3>1. k - 1 \in 0..passes BY <2>3, <2>5
    <3> HIDE DEF T
    <3> QED BY <2>2, <2>3, <3>1
  <2>7. after[k - 1] \in PlanesOf(w, h, lo, hi) BY <2>6
  <2> QED BY <1>2, <2>3, <2>4, <2>5, <2>7
<1>4. passes \in 0..passes OBVIOUS
<1> QED BY <1>1, <1>3, <1>4

(***************************************************************************)
(* feather: the sum down the column of the sums along the rows, which the  *)
(* code divides by the size of the window.                                 *)
(***************************************************************************)
LEMMA FeatherIsWindow ==
    ASSUME NEW w \in Nat \ {0}, NEW h \in Nat \ {0}, NEW r \in Nat \ {0}, NEW lo \in Int, NEW hi \in Int,
           NEW img \in PlanesOf(w, h, lo, hi)
    PROVE  \A y \in 0..(h - 1), x \in 0..(w - 1) :
              Pixel!Feather(img, w, h, r)[y][x] =
                  Pixel!WindowSum([v \in 0..(h - 1) |-> Pixel!WindowSum(img[v], w, r, x)], h, r, y)
<1> DEFINE Across(v, x) == Pixel!WindowSum(img[v], w, r, x)
           rows == [v \in 0..(h - 1) |-> Pixel!FeatherSlide(img[v], w, r)]
           turned == Pixel!Transposed(rows, w, h)
           columns == [x \in 0..(w - 1) |-> Pixel!FeatherSlide(turned[x], h, r)]
<1>0. r \in Nat /\ h \in Nat /\ w \in Nat OBVIOUS
<1>1. \A v \in 0..(h - 1), x \in 0..(w - 1) : rows[v][x] = Across(v, x) /\ Across(v, x) \in Int
  <2> SUFFICES ASSUME NEW v \in 0..(h - 1)
               PROVE \A x \in 0..(w - 1) : Pixel!FeatherSlide(img[v], w, r)[x] = Across(v, x) /\ Across(v, x) \in Int
    OBVIOUS
  <2>1. \A x \in 0..(w - 1) : img[v][x] \in lo..hi BY DEF PlanesOf
  <2>2. \A x \in 0..(w - 1) : img[v][x] \in Int BY <2>1
  <2>3. \A x \in 0..(w - 1) : Pixel!FeatherSlide(img[v], w, r)[x] = Across(v, x) BY <1>0, <2>2, SlidesAreWindows
  <2>4. \A x \in 0..(w - 1) : Across(v, x) \in Int BY <1>0, <2>1, WindowBounded
  <2> QED BY <2>3, <2>4
<1>2. \A x \in 0..(w - 1) : turned[x] = [v \in 0..(h - 1) |-> rows[v][x]] BY DEF Pixel!Transposed
<1> HIDE DEF rows, turned
<1>3. \A x \in 0..(w - 1) : turned[x] = [v \in 0..(h - 1) |-> Across(v, x)]
  <2> SUFFICES ASSUME NEW x \in 0..(w - 1) PROVE turned[x] = [v \in 0..(h - 1) |-> Across(v, x)] OBVIOUS
  <2>1. \A v \in 0..(h - 1) : rows[v][x] = Across(v, x) BY <1>1
  <2> HIDE DEF Across
  <2> QED BY <1>2, <2>1
<1>4. \A x \in 0..(w - 1), y \in 0..(h - 1) : columns[x][y] = Pixel!WindowSum(turned[x], h, r, y)
  <2> SUFFICES ASSUME NEW x \in 0..(w - 1)
               PROVE \A y \in 0..(h - 1) : Pixel!FeatherSlide(turned[x], h, r)[y] = Pixel!WindowSum(turned[x], h, r, y)
    OBVIOUS
  <2>1. \A y \in 0..(h - 1) : turned[x][y] \in Int BY <1>1, <1>3
  <2> QED BY <1>0, <2>1, SlidesAreWindows
<1>5. Pixel!Feather(img, w, h, r) = Pixel!Transposed(columns, h, w) BY DEF Pixel!Feather, rows, turned
<1>6. \A y \in 0..(h - 1), x \in 0..(w - 1) : Pixel!Transposed(columns, h, w)[y][x] = columns[x][y] BY DEF Pixel!Transposed
<1> HIDE DEF columns
<1> SUFFICES ASSUME NEW y \in 0..(h - 1), NEW x \in 0..(w - 1)
             PROVE Pixel!Feather(img, w, h, r)[y][x] = Pixel!WindowSum([v \in 0..(h - 1) |-> Across(v, x)], h, r, y)
  OBVIOUS
<1>7. turned[x] = [v \in 0..(h - 1) |-> Across(v, x)] BY <1>3
<1>8. columns[x][y] = Pixel!WindowSum(turned[x], h, r, y) BY <1>4
<1> QED BY <1>5, <1>6, <1>7, <1>8

-----------------------------------------------------------------------------
(* Chunks, geometry and colours. *)

\* Multiples of d are ordered as what they are multiples of.
LEMMA MultiplesOrdered == ASSUME NEW d \in Nat \ {0}, NEW a \in Int, NEW b \in Int PROVE a * d < b * d => a < b
<1> SUFFICES ASSUME a * d < b * d, ~ (a < b) PROVE FALSE OBVIOUS
<1>1. PICK e \in Nat : a = b + e BY SMT
<1>2. a * d = b * d + e * d /\ e * d \in Nat /\ b * d \in Int BY <1>1
<1> QED BY <1>2

\* The quotient rounded down, as a multiple below the number and one above it.
LEMMA QuotientAround == ASSUME NEW s \in Int, NEW d \in Nat \ {0}
                        PROVE s \div d \in Int /\ (s \div d) * d <= s /\ s < (s \div d + 1) * d
<1>1. PICK q \in Int, m \in Int : q = s \div d /\ s = d * q + m /\ 0 <= m /\ m <= d - 1
  <2>1. s \div d \in Int /\ s = d * (s \div d) + (s % d) /\ s % d \in 0..(d - 1) OBVIOUS
  <2> QED BY <2>1
<1>2. PICK a \in Int : a = d * q /\ q * d = a /\ (q + 1) * d = a + d OBVIOUS
<1> QED BY <1>1, <1>2

(***************************************************************************)
(* parallel.rs, of any buffer in chunks of any length: every element is in *)
(* one chunk and no other, no chunk reaches out of the buffer, and the row *)
(* index for_each_row_mut hands out is that of the row the chunk is.       *)
(***************************************************************************)
LEMMA ChunksPartition ==
    ASSUME NEW n \in Nat, NEW len \in Nat \ {0}
    PROVE  /\ \A i \in 0..(n - 1) : \E c \in Pixel!Chunks(n, len) :
                  i \in c.from..c.to /\ \A d \in Pixel!Chunks(n, len) : i \in d.from..d.to => d = c
           /\ \A c \in Pixel!Chunks(n, len) : /\ c.from <= c.to /\ c.from..c.to \subseteq 0..(n - 1)
                                              /\ c.from = Pixel!RowOf(c, len) * len
<1> DEFINE Chunk(k) == [from |-> k * len, to |-> Pixel!Min({(k + 1) * len, n}) - 1]
<1>1. PICK top \in Int : top = (n + len - 1) \div len /\ top * len <= n + len - 1 /\ n + len - 1 < (top + 1) * len
  BY QuotientAround
<1>2. Pixel!Chunks(n, len) = {Chunk(k) : k \in 0..(top - 1)} BY <1>1 DEF Pixel!Chunks
<1>3. top * len \in Int /\ (top + 1) * len = top * len + len /\ n <= top * len /\ top * len <= n + len - 1
  <2>1. top * len \in Int /\ (top + 1) * len = top * len + len BY <1>1
  <2> QED BY <1>1, <2>1
<1>4. \A k \in Nat : k * len \in Nat /\ (k + 1) * len \in Nat /\ (k + 1) * len = k * len + len OBVIOUS
<1>5. \A k \in Nat : /\ Chunk(k).from = k * len
                     /\ Chunk(k).to = (IF (k + 1) * len <= n THEN (k + 1) * len ELSE n) - 1
  <2> SUFFICES ASSUME NEW k \in Nat
               PROVE Pixel!Min({(k + 1) * len, n}) = IF (k + 1) * len <= n THEN (k + 1) * len ELSE n
    OBVIOUS
  <2>1. PICK e \in Nat : e = (k + 1) * len BY <1>4
  <2>2. Pixel!Min({e, n}) = IF e <= n THEN e ELSE n BY OfTwo
  <2> QED BY <2>1, <2>2
<1> HIDE DEF Chunk
<1>6. \A k \in 0..(top - 1) : k * len <= n - 1
  <2> SUFFICES ASSUME NEW k \in 0..(top - 1) PROVE k * len <= n - 1 OBVIOUS
  <2>0. top \in Int BY <1>1
  <2>1. PICK e \in Nat : top = k + 1 + e BY <2>0
  <2>2. top * len = k * len + len + e * len /\ e * len \in Nat /\ k * len \in Int BY <2>1
  <2> QED BY <1>3, <2>2
<1>7. ASSUME NEW i \in 0..(n - 1)
      PROVE  \E c \in Pixel!Chunks(n, len) : i \in c.from..c.to /\ \A d \in Pixel!Chunks(n, len) : i \in d.from..d.to => d = c
  <2>1. PICK k \in Int : k * len <= i /\ i < (k + 1) * len
    <3>1. i \in Int OBVIOUS
    <3> QED BY <3>1, QuotientAround
  <2>2. k \in Nat
    <3>1. 0 * len < (k + 1) * len BY <2>1
    <3>2. 0 < k + 1 BY <3>1, MultiplesOrdered
    <3> QED BY <3>2
  <2>3. k < top
    <3>1. k * len < top * len
      <4>1. k * len \in Int BY <2>2
      <4> QED BY <1>3, <2>1, <4>1
    <3> QED BY <1>1, <3>1, MultiplesOrdered
  <2>4. k \in 0..(top - 1) /\ Chunk(k) \in Pixel!Chunks(n, len) BY <1>1, <1>2, <2>2, <2>3
  <2>5. i \in Chunk(k).from..Chunk(k).to BY <1>4, <1>5, <2>1, <2>2
  <2>6. \A d \in Pixel!Chunks(n, len) : i \in d.from..d.to => d = Chunk(k)
    <3> SUFFICES ASSUME NEW j \in 0..(top - 1), i \in Chunk(j).from..Chunk(j).to PROVE j = k BY <1>2
    <3>1. j \in Nat BY <1>1
    <3>2. j * len <= i /\ i < (j + 1) * len BY <1>4, <1>5, <3>1
    <3>3. j * len < (k + 1) * len /\ k * len < (j + 1) * len BY <1>4, <2>1, <2>2, <3>1, <3>2
    <3>4. j < k + 1 /\ k < j + 1 BY <2>2, <3>1, <3>3, MultiplesOrdered
    <3> QED BY <2>2, <3>1, <3>4
  <2> QED BY <2>4, <2>5, <2>6
<1>8. ASSUME NEW c \in Pixel!Chunks(n, len)
      PROVE  c.from <= c.to /\ c.from..c.to \subseteq 0..(n - 1) /\ c.from = Pixel!RowOf(c, len) * len
  <2>1. PICK k \in 0..(top - 1) : c = Chunk(k) BY <1>2
  <2>2. k \in Nat BY <1>1
  <2>3. c.from = k * len /\ c.from <= c.to /\ c.to <= n - 1 /\ c.from \in Nat /\ c.to \in Int BY <1>4, <1>5, <1>6, <2>1, <2>2
  <2>4. PICK q \in Int : q = c.from \div len /\ q * len <= c.from /\ c.from < (q + 1) * len BY <2>3, QuotientAround
  <2>5. q = k
    <3>1. k * len < (q + 1) * len BY <2>3, <2>4
    <3>2. q * len < (k + 1) * len
      <4>1. q * len \in Int BY <2>4
      <4> QED BY <1>4, <2>2, <2>3, <2>4, <4>1
    <3>3. k < q + 1 /\ q < k + 1 BY <2>2, <2>4, <3>1, <3>2, MultiplesOrdered
    <3> QED BY <2>2, <2>4, <3>3
  <2> QED BY <2>3, <2>4, <2>5 DEF Pixel!RowOf
<1> QED BY <1>7, <1>8

\* flip_h: the swaps from both ends leave the row backwards, the middle of an odd one too.
LEMMA MirrorReverses ==
    ASSUME NEW n \in Nat, NEW row PROVE \A x \in 0..(n - 1) : Pixel!FlipRow(row, n)[x] = row[n - 1 - x]
<1> SUFFICES ASSUME NEW x \in 0..(n - 1) PROVE Pixel!FlipRow(row, n)[x] = row[n - 1 - x] OBVIOUS
<1>1. Pixel!FlipRow(row, n)[x] = IF n >= 2 /\ (x < n \div 2 \/ x >= n - n \div 2) THEN row[n - 1 - x] ELSE row[x]
  BY DEF Pixel!FlipRow
<1>2. CASE n >= 2 /\ (x < n \div 2 \/ x >= n - n \div 2) BY <1>1, <1>2
<1>3. CASE ~ (n >= 2 /\ (x < n \div 2 \/ x >= n - n \div 2))
  <2>1. x = n - 1 - x BY <1>3
  <2> QED BY <1>1, <1>3, <2>1
<1> QED BY <1>2, <1>3

\* A product with a weight is ordered as what is weighed.
LEMMA WeighedOrdered == ASSUME NEW a \in Int, NEW b \in Int, NEW k \in Nat, a <= b PROVE a * k <= b * k /\ a * k \in Int /\ b * k \in Int
<1>1. PICK e \in Nat : b = a + e BY SMT
<1>2. b * k = a * k + e * k /\ e * k \in Nat /\ a * k \in Int BY <1>1
<1> QED BY <1>2

\* Two samples mixed with the weights one - a and a are between one times the limits they are between.
LEMMA MixedBetween ==
    ASSUME NEW lo \in Int, NEW hi \in Int, NEW p \in lo..hi, NEW q \in lo..hi, NEW one \in Nat, NEW a \in 0..one
    PROVE  p * (one - a) + q * a \in (lo * one)..(hi * one)
<1>1. PICK b \in Nat : b = one - a BY SMT
<1>2. lo * b <= p * b /\ p * b <= hi * b /\ p * b \in Int /\ lo * b \in Int /\ hi * b \in Int BY WeighedOrdered
<1>3. lo * a <= q * a /\ q * a <= hi * a /\ q * a \in Int /\ lo * a \in Int /\ hi * a \in Int BY WeighedOrdered
<1>4. lo * one = lo * b + lo * a /\ hi * one = hi * b + hi * a
  <2>1. one = b + a BY <1>1
  <2> QED BY <2>1
<1>5. lo * one \in Int /\ hi * one \in Int OBVIOUS
<1> QED BY <1>1, <1>2, <1>3, <1>4, <1>5

(***************************************************************************)
(* blend_q8 and one sample of resize_rgb_bilinear: a rounded mix is never  *)
(* outside the samples it mixes, and a blend reaches each of its two.      *)
(***************************************************************************)
LEMMA MixesStayBetween ==
    ASSUME NEW lo \in Int, NEW hi \in Int, NEW p \in lo..hi, NEW q \in lo..hi, NEW s \in lo..hi, NEW t \in lo..hi,
           NEW right \in 0..256, NEW below \in 0..256
    PROVE  /\ Pixel!Mix(p, q, s, t, right, below) \in lo..hi
           /\ Pixel!BlendPixel(p, q, right) \in lo..hi
           /\ Pixel!BlendPixel(p, q, 0) = q /\ Pixel!BlendPixel(p, q, 256) = p
<1>1. PICK a \in Int : a = p * (256 - right) + q * right /\ a \in (lo * 256)..(hi * 256) BY MixedBetween
<1>2. PICK b \in Int : b = s * (256 - right) + t * right /\ b \in (lo * 256)..(hi * 256) BY MixedBetween
<1>3. PICK c \in Int : c = a * (256 - below) + b * below /\ c \in (lo * 256 * 256)..(hi * 256 * 256)
  <2>1. PICK l \in Int, u \in Int : l = lo * 256 /\ u = hi * 256 OBVIOUS
  <2>2. a \in l..u /\ b \in l..u BY <1>1, <1>2, <2>1
  <2>3. a * (256 - below) + b * below \in (l * 256)..(u * 256) BY <2>2, MixedBetween
  <2> QED BY <2>1, <2>3
<1>4. Pixel!Mix(p, q, s, t, right, below) = (c + 32768) \div 65536 BY <1>1, <1>2, <1>3 DEF Pixel!Mix
<1>5. (c + 32768) \div 65536 \in lo..hi BY <1>3
<1>6. PICK e \in Int : e = q * (256 - right) + p * right /\ e \in (lo * 256)..(hi * 256) BY MixedBetween
<1>7. Pixel!BlendPixel(p, q, right) = (e + 128) \div 256
  <2>1. p * right + q * (256 - right) = e BY <1>6
  <2> QED BY <2>1 DEF Pixel!BlendPixel
<1>8. (e + 128) \div 256 \in lo..hi BY <1>6
<1>9. Pixel!BlendPixel(p, q, 0) = q BY DEF Pixel!BlendPixel
<1>10. Pixel!BlendPixel(p, q, 256) = p BY DEF Pixel!BlendPixel
<1> QED BY <1>4, <1>5, <1>7, <1>8, <1>9, <1>10

(***************************************************************************)
(* The nearest sample of resize_rgb_nearest, and the two of a bilinear     *)
(* tap, exist at every position of every size; the nearest never moves     *)
(* backwards, and the weight of the second is between none and all of it.  *)
(***************************************************************************)
LEMMA TapsInside ==
    ASSUME NEW src \in Nat \ {0}, NEW dst \in Nat \ {0}, NEW d \in 0..(dst - 1)
    PROVE  /\ Pixel!NearestTap(src, dst, d) \in 0..(src - 1)
           /\ d > 0 => Pixel!NearestTap(src, dst, d - 1) <= Pixel!NearestTap(src, dst, d)
           /\ LET tap == Pixel!AxisTaps(src, dst)[d]
              IN  /\ tap.i0 \in 0..(src - 1)
                  /\ tap.i1 \in {tap.i0} \cup {tap.i0 + 1}
                  /\ tap.i1 \in 0..(src - 1)
                  /\ tap.w >= 0
                  /\ tap.i1 # tap.i0 => tap.w < 2 * dst
<1>1. PICK stride \in Nat : stride = (src * 65536) \div dst
  <2>1. src * 65536 \in Nat OBVIOUS
  <2>2. (src * 65536) \div dst \in Int /\ src * 65536 < ((src * 65536) \div dst + 1) * dst BY <2>1, QuotientAround
  <2>3. 0 * dst < ((src * 65536) \div dst + 1) * dst BY <2>1, <2>2
  <2>4. 0 < (src * 65536) \div dst + 1 BY <2>2, <2>3, MultiplesOrdered
  <2> QED BY <2>2, <2>4
<1>2. \A k \in Nat : k * stride \in Nat BY <1>1
<1>2a. \A a \in Nat : a \div 65536 \in Nat OBVIOUS
<1>3. \A k \in Nat : LET e == (k * stride) \div 65536
                     IN  Pixel!NearestTap(src, dst, k) = IF e <= src - 1 THEN e ELSE src - 1
  <2> SUFFICES ASSUME NEW k \in Nat
               PROVE LET e == (k * stride) \div 65536 IN Pixel!NearestTap(src, dst, k) = IF e <= src - 1 THEN e ELSE src - 1
    OBVIOUS
  <2>0. PICK a \in Nat : a = k * stride BY <1>2
  <2>1. PICK e \in Int, b \in Int : e = a \div 65536 /\ b = src - 1 BY <1>2a
  <2>2. Pixel!Min({e, b}) = IF e <= b THEN e ELSE b BY OfTwo, Zenon
  <2>3. Pixel!NearestTap(src, dst, k) = Pixel!Min({e, b})
    <3>1. PICK q : q = (k * stride) \div 65536 /\ q = e BY <2>0, <2>1, SMT
    <3>2. PICK r : r = src - 1 /\ r = b BY <2>1, SMT
    <3>3. Pixel!NearestTap(src, dst, k) = Pixel!Min({q, r}) BY <1>1, <3>1, <3>2 DEF Pixel!NearestTap
    <3>4. q = e /\ r = b BY <3>1, <3>2, SMT
    <3> QED BY <3>3, <3>4, Zenon
  <2>4. e = (k * stride) \div 65536 BY <2>0, <2>1
  <2> QED BY <2>1, <2>2, <2>3, <2>4
<1>4. Pixel!NearestTap(src, dst, d) \in 0..(src - 1)
  <2>1. d \in Nat OBVIOUS
  <2>2. PICK e \in Nat : e = (d * stride) \div 65536 BY <1>2, <1>2a, <2>1
  <2>3. Pixel!NearestTap(src, dst, d) = IF e <= src - 1 THEN e ELSE src - 1 BY <1>3, <2>1, <2>2
  <2> QED BY <2>3
<1>5. d > 0 => Pixel!NearestTap(src, dst, d - 1) <= Pixel!NearestTap(src, dst, d)
  <2> SUFFICES ASSUME d > 0 PROVE Pixel!NearestTap(src, dst, d - 1) <= Pixel!NearestTap(src, dst, d) OBVIOUS
  <2>1. d \in Nat /\ d - 1 \in Nat OBVIOUS
  <2>2a. (d - 1) * stride \in Nat /\ d * stride \in Nat BY <1>2, <2>1
  <2>2. PICK a \in Nat, b \in Nat : a = (d - 1) * stride /\ b = d * stride BY <2>2a
  <2>3. b = a + stride BY <1>1, <2>1, <2>2
  <2>4. a \div 65536 <= b \div 65536 BY <1>1, <2>2, <2>3
  <2>5. Pixel!NearestTap(src, dst, d - 1) = IF a \div 65536 <= src - 1 THEN a \div 65536 ELSE src - 1 BY <1>3, <2>1, <2>2
  <2>6. Pixel!NearestTap(src, dst, d) = IF b \div 65536 <= src - 1 THEN b \div 65536 ELSE src - 1 BY <1>3, <2>1, <2>2
  <2>7. PICK u \in Int, v \in Int : u = a \div 65536 /\ v = b \div 65536 BY <2>2
  <2> QED BY <2>4, <2>5, <2>6, <2>7
<1>6. PICK pos \in Nat : pos = Pixel!Max({0, (2 * d + 1) * src - dst})
  <2>1. PICK e \in Int : e = (2 * d + 1) * src - dst BY SMT
  <2>2. Pixel!Max({0, e}) = IF 0 >= e THEN 0 ELSE e BY OfTwo
  <2> QED BY <2>1, <2>2
<1>t. PICK two \in Nat \ {0} : two = 2 * dst OBVIOUS
<1>7. PICK i0 \in Int : i0 = Pixel!Min({pos \div two, src - 1}) /\ i0 \in 0..(src - 1) /\ i0 * two <= pos
                        /\ (i0 = src - 1 \/ pos < (i0 + 1) * two)
  <2>0. pos \div two \in Int /\ (pos \div two) * two <= pos /\ pos < (pos \div two + 1) * two
    <3>1. pos \in Int OBVIOUS
    <3> QED BY <3>1, QuotientAround, Zenon
  <2>1. PICK q \in Int : q = pos \div two /\ q * two <= pos /\ pos < (q + 1) * two BY <2>0, Zenon
  <2>2. q >= 0
    <3>1. 0 * two < (q + 1) * two BY <2>1
    <3>2. 0 < q + 1 BY <3>1, MultiplesOrdered
    <3> QED BY <3>2
  <2>l. PICK b \in Int : b = src - 1 /\ b >= 0 OBVIOUS
  <2>3. Pixel!Min({q, b}) = IF q <= b THEN q ELSE b BY OfTwo, Zenon
  <2>4. CASE q <= b BY <2>1, <2>2, <2>l, <2>3, <2>4
  <2>5. CASE q > b
    <3>1. b * two <= q * two /\ b * two \in Int /\ q * two \in Int BY <2>5, WeighedOrdered
    <3>2. b * two <= pos BY <2>1, <3>1
    <3> QED BY <2>1, <2>l, <2>3, <2>5, <3>2
  <2>6. q <= b \/ q > b OBVIOUS
  <2> QED BY <2>4, <2>5, <2>6, Zenon
<1>8. Pixel!AxisTaps(src, dst)[d] = [i0 |-> i0, i1 |-> Pixel!Min({i0 + 1, src - 1}), w |-> pos - i0 * 2 * dst]
  BY <1>6, <1>7, <1>t DEF Pixel!AxisTaps
<1>9. Pixel!Min({i0 + 1, src - 1}) = IF i0 = src - 1 THEN i0 ELSE i0 + 1
  <2>1. PICK a \in Int, b \in Int : a = i0 + 1 /\ b = src - 1 BY <1>7
  <2>2. Pixel!Min({a, b}) = IF a <= b THEN a ELSE b BY OfTwo
  <2> QED BY <1>7, <2>1, <2>2
<1>10. i0 * 2 * dst = i0 * two /\ (i0 + 1) * two = i0 * two + two /\ i0 * two \in Int BY <1>t
<1>w. PICK w \in Int : w = pos - i0 * 2 * dst /\ w >= 0 /\ (i0 # src - 1 => w < 2 * dst)
  <2>1. PICK w \in Int : w = pos - i0 * two BY <1>10
  <2> QED BY <1>7, <1>10, <1>t, <2>1
<1>1i. PICK i1 \in Int : i1 = (IF i0 = src - 1 THEN i0 ELSE i0 + 1) /\ i1 \in 0..(src - 1) BY <1>7
<1>11. Pixel!AxisTaps(src, dst)[d] = [i0 |-> i0, i1 |-> i1, w |-> w] BY <1>8, <1>9, <1>w, <1>1i
<1>12. LET tap == Pixel!AxisTaps(src, dst)[d]
       IN  /\ tap.i0 \in 0..(src - 1) /\ tap.i1 \in {tap.i0} \cup {tap.i0 + 1} /\ tap.i1 \in 0..(src - 1)
           /\ tap.w >= 0 /\ (tap.i1 # tap.i0 => tap.w < 2 * dst)
  BY <1>7, <1>11, <1>w, <1>1i
<1> QED BY <1>4, <1>5, <1>12

\* What Max gives for a set of numbers that is bounded.
LEMMA MaxOf == ASSUME NEW hi \in Nat, NEW S \in SUBSET (0..hi), S # {} PROVE Pixel!Max(S) \in S /\ \A k \in S : Pixel!Max(S) >= k
<1> DEFINE T == {n \in Nat : hi - n \in S}
<1>1. T # {}
  <2>1. PICK k \in S : k \in 0..hi OBVIOUS
  <2>2. hi - k \in Nat /\ hi - (hi - k) = k BY <2>1
  <2> QED BY <2>2
<1>2. T \in SUBSET Nat OBVIOUS
<1>3. PICK n \in T : \A m \in T : n <= m BY <1>1, <1>2, Smallest
<1>4. n \in Nat /\ hi - n \in S OBVIOUS
<1>5. \A k \in S : hi - n >= k
  <2> SUFFICES ASSUME NEW k \in S PROVE hi - n >= k OBVIOUS
  <2>1. k \in 0..hi /\ hi - k \in Nat /\ hi - (hi - k) = k OBVIOUS
  <2>2. hi - k \in T BY <2>1
  <2> HIDE DEF T
  <2>3. n <= hi - k BY <1>3, <2>2
  <2> QED BY <1>4, <2>1, <2>3
<1>6. \E m \in S : \A k \in S : m >= k BY <1>4, <1>5
<1> QED BY <1>6 DEF Pixel!Max

(***************************************************************************)
(* fit.rs and fit_letterbox, of any sizes: the picture that is put into    *)
(* the destination is inside it, the one the destination is cut out of is  *)
(* not smaller, and what is left over is the same on both sides, but for   *)
(* one pixel.                                                              *)
(***************************************************************************)
LEMMA FitsCentred ==
    ASSUME NEW sw \in Nat \ {0}, NEW sh \in Nat \ {0}, NEW dw \in Nat \ {0}, NEW dh \in Nat \ {0}
    PROVE  LET box1   == Pixel!FitLetterbox(sw, sh, dw, dh)
               put   == Pixel!FitContain(sw, sh, dw, dh)
               cover == Pixel!FitCover(sw, sh, dw, dh)
           IN  /\ box1.w \in 0..dw /\ box1.x >= 0 /\ dw - box1.w - 2 * box1.x \in {0, 1}
               /\ box1.h \in 0..dh /\ box1.y >= 0 /\ dh - box1.h - 2 * box1.y \in {0, 1}
               /\ put.w \in 1..dw /\ put.x >= 0 /\ dw - put.w - 2 * put.x \in {0, 1}
               /\ put.h \in 1..dh /\ put.y >= 0 /\ dh - put.h - 2 * put.y \in {0, 1}
               /\ cover.w >= dw /\ cover.x >= 0 /\ cover.w - dw - 2 * cover.x \in {0, 1}
               /\ cover.h >= dh /\ cover.y >= 0 /\ cover.h - dh - 2 * cover.y \in {0, 1}
<1>h. \A a \in Nat : a \div 2 >= 0 /\ a - 2 * (a \div 2) \in {0, 1} OBVIOUS
<1>q. \A a \in Int, d \in Nat \ {0} : a \div d \in Int BY QuotientAround
<1>r. \A a, c, d \in Nat \ {0}, b \in Nat \ {0} : a * b <= c * d => Pixel!Rounded(a * b, d) \in 0..c
  <2> SUFFICES ASSUME NEW a \in Nat \ {0}, NEW b \in Nat \ {0}, NEW c \in Nat \ {0}, NEW d \in Nat \ {0}, a * b <= c * d
               PROVE Pixel!Rounded(a * b, d) \in 0..c
    OBVIOUS
  <2>1. PICK e \in Nat, f \in Nat : e = a * b /\ f = c * d /\ e <= f
    <3>1. a * b \in Nat /\ c * d \in Nat OBVIOUS
    <3> QED BY <3>1
  <2>2. PICK s \in Nat, two \in Nat \ {0} : s = 2 * e + d /\ two = 2 * d OBVIOUS
  <2>3. PICK q \in Int : q = s \div two /\ q * two <= s /\ s < (q + 1) * two
    <3>1. s \in Int OBVIOUS
    <3>2. s \div two \in Int /\ (s \div two) * two <= s /\ s < (s \div two + 1) * two BY <3>1, QuotientAround, Zenon
    <3> QED BY <3>2, Zenon
  <2>4. c * two = 2 * f /\ (c + 1) * two = 2 * f + two
    <3>1. c * (2 * d) = 2 * (c * d) /\ (c + 1) * (2 * d) = 2 * (c * d) + 2 * d OBVIOUS
    <3> QED BY <2>1, <2>2, <3>1
  <2>5. q * two < (c + 1) * two
    <3>1. q * two \in Int BY <2>3
    <3> QED BY <2>1, <2>2, <2>3, <2>4, <3>1
  <2>6. q < c + 1 BY <2>3, <2>5, MultiplesOrdered
  <2>7. 0 * two < (q + 1) * two BY <2>3
  <2>8. 0 < q + 1 BY <2>3, <2>7, MultiplesOrdered
  <2>9. Pixel!Rounded(a * b, d) = q BY <2>1, <2>2, <2>3 DEF Pixel!Rounded
  <2> QED BY <2>3, <2>6, <2>8, <2>9
<1>1. PICK iw \in 0..dw, ih \in 0..dh :
         Pixel!FitLetterbox(sw, sh, dw, dh) = [w |-> iw, h |-> ih, x |-> (dw - iw) \div 2, y |-> (dh - ih) \div 2]
  <2>1. CASE dw * sh <= dh * sw
    <3>1. sh * dw <= dh * sw BY <2>1
    <3>2. Pixel!Rounded(sh * dw, sw) \in 0..dh BY <1>r, <3>1
    <3>3. dw \in 0..dw OBVIOUS
    <3>4. Pixel!FitLetterbox(sw, sh, dw, dh) = [w |-> dw, h |-> Pixel!Rounded(sh * dw, sw),
                                                x |-> (dw - dw) \div 2, y |-> (dh - Pixel!Rounded(sh * dw, sw)) \div 2]
      BY <2>1 DEF Pixel!FitLetterbox
    <3> QED BY <3>2, <3>3, <3>4
  <2>2. CASE ~ (dw * sh <= dh * sw)
    <3>1. sw * dh <= dw * sh
      <4>1. PICK a \in Int, b \in Int : a = dw * sh /\ b = dh * sw OBVIOUS
      <4>2. sw * dh = dh * sw OBVIOUS
      <4> QED BY <2>2, <4>1, <4>2
    <3>2. Pixel!Rounded(sw * dh, sh) \in 0..dw BY <1>r, <3>1
    <3>3. dh \in 0..dh OBVIOUS
    <3>4. Pixel!FitLetterbox(sw, sh, dw, dh) = [w |-> Pixel!Rounded(sw * dh, sh), h |-> dh,
                                                x |-> (dw - Pixel!Rounded(sw * dh, sh)) \div 2, y |-> (dh - dh) \div 2]
      BY <2>2 DEF Pixel!FitLetterbox
    <3> QED BY <3>2, <3>3, <3>4
  <2> QED BY <2>1, <2>2
<1>c. \A a, d \in Nat \ {0}, v \in Int : Pixel!Clamp(v, 1, d) \in 1..d
  <2> TAKE a, d \in Nat \ {0}, v \in Int
  <2>1. 1 \in Int /\ d \in Int /\ 1 <= d OBVIOUS
  <2>2. Pixel!Clamp(v, 1, d) = IF v < 1 THEN 1 ELSE IF v > d THEN d ELSE v BY <2>1, Clamped
  <2> QED BY <2>2
<1>2. PICK pw \in 1..dw, ph \in 1..dh :
         Pixel!FitContain(sw, sh, dw, dh) = [w |-> pw, h |-> ph, x |-> (dw - pw) \div 2, y |-> (dh - ph) \div 2]
  <2>1. PICK u \in Int, v \in Int : u = (sw * dh) \div sh /\ v = (sh * dw) \div sw
    <3>1. sw * dh \in Int /\ sh * dw \in Int OBVIOUS
    <3> QED BY <1>q, <3>1, Zenon
  <2>2. PICK a \in Int, b \in Int :
           /\ a = IF dw * sh <= dh * sw THEN dw ELSE u
           /\ b = IF dw * sh <= dh * sw THEN v ELSE dh
    OBVIOUS
  <2>3. PICK pw \in 1..dw, ph \in 1..dh : pw = Pixel!Clamp(a, 1, dw) /\ ph = Pixel!Clamp(b, 1, dh) BY <1>c
  <2>4. Pixel!FitContain(sw, sh, dw, dh) = [w |-> pw, h |-> ph, x |-> (dw - pw) \div 2, y |-> (dh - ph) \div 2]
    BY <2>1, <2>2, <2>3, Zenon DEF Pixel!FitContain
  <2> QED BY <2>4
<1>m. \A d \in Nat, v \in Int : Pixel!Max({v, d}) \in Nat /\ Pixel!Max({v, d}) >= d
  <2> TAKE d \in Nat, v \in Int
  <2>1. Pixel!Max({v, d}) = IF v >= d THEN v ELSE d BY OfTwo
  <2> QED BY <2>1
<1>3. PICK cw \in Nat, ch \in Nat : /\ cw >= dw /\ ch >= dh
                                    /\ Pixel!FitCover(sw, sh, dw, dh) = [w |-> cw, h |-> ch, x |-> (cw - dw) \div 2, y |-> (ch - dh) \div 2]
  <2>1. PICK u \in Int, v \in Int : u = Pixel!CeilDiv(sw * dh, sh) /\ v = Pixel!CeilDiv(sh * dw, sw)
    <3>1. sw * dh + sh - 1 \in Int /\ sh * dw + sw - 1 \in Int OBVIOUS
    <3>2. (sw * dh + sh - 1) \div sh \in Int /\ (sh * dw + sw - 1) \div sw \in Int BY <1>q, <3>1, Zenon
    <3> QED BY <3>2, Zenon DEF Pixel!CeilDiv
  <2>2. PICK a \in Int, b \in Int :
           /\ a = IF dw * sh >= dh * sw THEN dw ELSE u
           /\ b = IF dw * sh >= dh * sw THEN v ELSE dh
    OBVIOUS
  <2>3. PICK cw \in Nat, ch \in Nat : cw = Pixel!Max({a, dw}) /\ ch = Pixel!Max({b, dh}) /\ cw >= dw /\ ch >= dh BY <1>m
  <2>4. Pixel!FitCover(sw, sh, dw, dh) = [w |-> cw, h |-> ch, x |-> (cw - dw) \div 2, y |-> (ch - dh) \div 2]
    BY <2>1, <2>2, <2>3, Zenon DEF Pixel!FitCover
  <2> QED BY <2>3, <2>4
<1> QED BY <1>h, <1>1, <1>2, <1>3

\* The positions of a line of n that up to r steps from x reach.
Near(x, r, n) == Pixel!Max({0, x - r})..Pixel!Min({x + r, n - 1})

\* They are the positions of the line whose distance from x is r or less.
LEMMA NearIs == ASSUME NEW n \in Nat \ {0}, NEW r \in Nat, NEW x \in 0..(n - 1)
                PROVE Near(x, r, n) = {u \in 0..(n - 1) : x - r <= u /\ u <= x + r}
<1>1. PICK a \in Int, b \in Int, c \in Int : a = x - r /\ b = x + r /\ c = n - 1 OBVIOUS
<1>2. Pixel!Max({0, a}) = (IF 0 >= a THEN 0 ELSE a) /\ Pixel!Min({b, c}) = (IF b <= c THEN b ELSE c)
  <2>1. Pixel!Max({0, a}) = IF 0 >= a THEN 0 ELSE a BY OfTwo
  <2>2. Pixel!Min({b, c}) = IF b <= c THEN b ELSE c BY OfTwo
  <2> QED BY <2>1, <2>2
<1>3. Near(x, r, n) = Pixel!Max({0, a})..Pixel!Min({b, c}) BY <1>1 DEF Near
<1>4. \A u : u \in Pixel!Max({0, a})..Pixel!Min({b, c}) <=> u \in 0..(n - 1) /\ x - r <= u /\ u <= x + r BY <1>1, <1>2
<1> QED BY <1>3, <1>4

\* The samples of a plane up to r steps from a position, along both axes.
Around(img, w, h, r, x, y) == {img[v][u] : u \in Near(x, r, w), v \in Near(y, r, h)}

\* What is one step and then r steps away is up to r + 1 steps away, and the other way round.
LEMMA NearOfNear == ASSUME NEW n \in Nat \ {0}, NEW r \in Nat, NEW x \in 0..(n - 1)
                    PROVE \A z : z \in Near(x, r + 1, n) <=> \E u \in Near(x, 1, n) : z \in Near(u, r, n)
<1>1. \A k \in Nat, t \in 0..(n - 1) : Near(t, k, n) = {u \in 0..(n - 1) : t - k <= u /\ u <= t + k} BY NearIs
<1>2. Near(x, 1, n) \subseteq 0..(n - 1) BY <1>1
<1>3. ASSUME NEW u \in Near(x, 1, n), NEW z \in Near(u, r, n) PROVE z \in Near(x, r + 1, n)
  <2>1. u \in 0..(n - 1) /\ x - 1 <= u /\ u <= x + 1 BY <1>1
  <2>2. z \in 0..(n - 1) /\ u - r <= z /\ z <= u + r BY <1>1, <2>1
  <2>3. x - (r + 1) <= z /\ z <= x + (r + 1) BY <2>1, <2>2
  <2>4. Near(x, r + 1, n) = {v \in 0..(n - 1) : x - (r + 1) <= v /\ v <= x + (r + 1)} BY <1>1
  <2> QED BY <2>2, <2>3, <2>4
<1>4. ASSUME NEW z \in Near(x, r + 1, n) PROVE \E u \in Near(x, 1, n) : z \in Near(u, r, n)
  <2>1. Near(x, r + 1, n) = {v \in 0..(n - 1) : x - (r + 1) <= v /\ v <= x + (r + 1)} BY <1>1
  <2>2. z \in 0..(n - 1) /\ x - (r + 1) <= z /\ z <= x + (r + 1) BY <2>1
  <2>3. PICK u \in 0..(n - 1) : u = IF z < x THEN x - 1 ELSE IF z > x THEN x + 1 ELSE x BY <2>2
  <2>4. u \in Near(x, 1, n)
    <3>1. Near(x, 1, n) = {v \in 0..(n - 1) : x - 1 <= v /\ v <= x + 1} BY <1>1
    <3> QED BY <2>3, <3>1
  <2>5. u - r <= z /\ z <= u + r BY <2>2, <2>3
  <2>6. z \in Near(u, r, n) BY <1>1, <2>2, <2>5
  <2> QED BY <2>4, <2>6
<1> QED BY <1>3, <1>4

\* The samples around a position are samples, the one at the position among them.
LEMMA AroundIs ==
    ASSUME NEW w \in Nat \ {0}, NEW h \in Nat \ {0}, NEW hi \in Nat, NEW img \in PlanesOf(w, h, 0, hi), NEW r \in Nat,
           NEW x \in 0..(w - 1), NEW y \in 0..(h - 1)
    PROVE  Around(img, w, h, r, x, y) \subseteq 0..hi /\ img[y][x] \in Around(img, w, h, r, x, y)
<1>1. Near(x, r, w) = {u \in 0..(w - 1) : x - r <= u /\ u <= x + r} BY NearIs
<1>2. Near(y, r, h) = {v \in 0..(h - 1) : y - r <= v /\ v <= y + r} BY NearIs
<1>3. x \in Near(x, r, w) /\ y \in Near(y, r, h) BY <1>1, <1>2
<1>4. Near(x, r, w) \subseteq 0..(w - 1) /\ Near(y, r, h) \subseteq 0..(h - 1) BY <1>1, <1>2
<1>5. \A u \in 0..(w - 1), v \in 0..(h - 1) : img[v][u] \in 0..hi BY DEF PlanesOf
<1> QED BY <1>3, <1>4, <1>5 DEF Around

\* A plane in which everything has grown by r steps.
Grown(grown, img, w, h, hi, r) ==
    /\ grown \in PlanesOf(w, h, 0, hi)
    /\ \A y \in 0..(h - 1), x \in 0..(w - 1) : grown[y][x] = Pixel!Max(Around(img, w, h, r, x, y))

\* Every plane has grown by none.
LEMMA GrownByNone ==
    ASSUME NEW w \in Nat \ {0}, NEW h \in Nat \ {0}, NEW hi \in Nat, NEW img \in PlanesOf(w, h, 0, hi)
    PROVE  Grown(img, img, w, h, hi, 0)
<1> SUFFICES ASSUME NEW y \in 0..(h - 1), NEW x \in 0..(w - 1) PROVE img[y][x] = Pixel!Max(Around(img, w, h, 0, x, y))
  BY DEF Grown
<1>1. Near(x, 0, w) = {u \in 0..(w - 1) : x - 0 <= u /\ u <= x + 0} BY NearIs
<1>2. Near(y, 0, h) = {v \in 0..(h - 1) : y - 0 <= v /\ v <= y + 0} BY NearIs
<1>3. Near(x, 0, w) = {x} /\ Near(y, 0, h) = {y} BY <1>1, <1>2
<1>4. Around(img, w, h, 0, x, y) = {img[y][x]} BY <1>3 DEF Around
<1>5. img[y][x] \in 0..hi BY DEF PlanesOf
<1>6. Pixel!Max({img[y][x]}) \in {img[y][x]} BY <1>5, MaxOf
<1> QED BY <1>4, <1>6

\* One pass of dilate over what has grown by r steps is what has grown by r + 1.
LEMMA GrownOnce ==
    ASSUME NEW w \in Nat \ {0}, NEW h \in Nat \ {0}, NEW hi \in Nat, NEW img \in PlanesOf(w, h, 0, hi), NEW r \in Nat,
           NEW grown, Grown(grown, img, w, h, hi, r)
    PROVE  Grown(Pixel!DilateOnce(grown, w, h), img, w, h, hi, r + 1)
<1>g. /\ grown \in PlanesOf(w, h, 0, hi)
      /\ \A y \in 0..(h - 1), x \in 0..(w - 1) : grown[y][x] = Pixel!Max(Around(img, w, h, r, x, y))
  BY DEF Grown
<1> DEFINE S(x, y) == {0} \cup {grown[v][u] : v \in Near(y, 1, h), u \in Near(x, 1, w)}
<1>1. Pixel!DilateOnce(grown, w, h) = [y \in 0..(h - 1) |-> [x \in 0..(w - 1) |-> Pixel!Max(S(x, y))]]
  BY DEF Pixel!DilateOnce, Near
<1>2. ASSUME NEW x \in 0..(w - 1), NEW y \in 0..(h - 1)
      PROVE  Pixel!Max(S(x, y)) \in 0..hi /\ Pixel!Max(S(x, y)) = Pixel!Max(Around(img, w, h, r + 1, x, y))
  <2>a. r + 1 \in Nat /\ 1 \in Nat OBVIOUS
  <2>n. Near(x, 1, w) \subseteq 0..(w - 1) /\ Near(y, 1, h) \subseteq 0..(h - 1) /\ x \in Near(x, 1, w) /\ y \in Near(y, 1, h)
    <3>1. Near(x, 1, w) = {u \in 0..(w - 1) : x - 1 <= u /\ u <= x + 1} BY NearIs
    <3>2. Near(y, 1, h) = {v \in 0..(h - 1) : y - 1 <= v /\ v <= y + 1} BY NearIs
    <3> QED BY <3>1, <3>2
  <2>1. \A u \in Near(x, 1, w), v \in Near(y, 1, h) : grown[v][u] \in 0..hi BY <1>g, <2>n DEF PlanesOf
  <2> DEFINE Z == S(x, y)
  <2>2. /\ Z \subseteq 0..hi /\ 0 \in Z
        /\ \A u \in Near(x, 1, w), v \in Near(y, 1, h) : grown[v][u] \in Z
        /\ \A k \in Z : k # 0 => \E u \in Near(x, 1, w), v \in Near(y, 1, h) : k = grown[v][u]
    BY <2>1
  <2> HIDE DEF Z
  <2>3. PICK m : m = Pixel!Max(Z) /\ m \in Z /\ \A k \in Z : m >= k BY <2>2, MaxOf
  <2>4. PICK A : A = Around(img, w, h, r + 1, x, y) /\ A \subseteq 0..hi /\ A # {} BY <2>a, AroundIs
  <2>5. PICK b : b = Pixel!Max(A) /\ b \in A /\ \A k \in A : b >= k BY <2>4, MaxOf
  <2>6. ASSUME NEW u \in Near(x, 1, w), NEW v \in Near(y, 1, h)
        PROVE  /\ grown[v][u] \in Around(img, w, h, r, u, v) /\ \A k \in Around(img, w, h, r, u, v) : grown[v][u] >= k
               /\ Around(img, w, h, r, u, v) \subseteq A
    <3>1. u \in 0..(w - 1) /\ v \in 0..(h - 1) BY <2>n
    <3>2. Around(img, w, h, r, u, v) \subseteq 0..hi /\ Around(img, w, h, r, u, v) # {} BY <3>1, AroundIs
    <3>3. grown[v][u] = Pixel!Max(Around(img, w, h, r, u, v)) BY <1>g, <3>1
    <3>4. grown[v][u] \in Around(img, w, h, r, u, v) /\ \A k \in Around(img, w, h, r, u, v) : grown[v][u] >= k
      BY <3>2, <3>3, MaxOf
    <3>5. Near(u, r, w) \subseteq Near(x, r + 1, w) BY NearOfNear
    <3>6. Near(v, r, h) \subseteq Near(y, r + 1, h) BY NearOfNear
    <3>7. Around(img, w, h, r, u, v) \subseteq A BY <2>4, <3>5, <3>6 DEF Around
    <3> QED BY <3>4, <3>7
  <2>7. \A k \in A : m >= k
    <3> SUFFICES ASSUME NEW k \in A PROVE m >= k OBVIOUS
    <3>1. PICK s \in Near(x, r + 1, w), t \in Near(y, r + 1, h) : k = img[t][s] BY <2>4 DEF Around
    <3>2. PICK u \in Near(x, 1, w) : s \in Near(u, r, w) BY NearOfNear
    <3>3. PICK v \in Near(y, 1, h) : t \in Near(v, r, h) BY NearOfNear
    <3>4. k \in Around(img, w, h, r, u, v) BY <3>1, <3>2, <3>3 DEF Around
    <3>5. grown[v][u] >= k BY <2>6, <3>4
    <3>6. grown[v][u] \in Z BY <2>2
    <3>7. m >= grown[v][u] BY <2>3, <3>6
    <3>8. m \in 0..hi /\ grown[v][u] \in 0..hi /\ k \in 0..hi BY <2>1, <2>2, <2>3, <2>4
    <3> QED BY <3>5, <3>7, <3>8
  <2>8. m \in A
    <3>1. CASE \E u \in Near(x, 1, w), v \in Near(y, 1, h) : m = grown[v][u] BY <2>6, <3>1
    <3>2. CASE m = 0
      <4>1. b \in 0..hi /\ m >= b BY <2>4, <2>5, <2>7
      <4>2. b = m BY <3>2, <4>1
      <4> QED BY <2>5, <4>2
    <3> QED BY <2>2, <2>3, <3>1, <3>2
  <2> HIDE DEF S
  <2>9. m >= b /\ b >= m /\ m \in 0..hi /\ b \in 0..hi BY <2>4, <2>5, <2>7, <2>8
  <2>10. m = b BY <2>9
  <2> QED BY <2>3, <2>4, <2>5, <2>9, <2>10 DEF Z
<1> HIDE DEF S
<1>3. Pixel!DilateOnce(grown, w, h) \in PlanesOf(w, h, 0, hi)
  <2>1. \A y \in 0..(h - 1), x \in 0..(w - 1) : Pixel!Max(S(x, y)) \in 0..hi BY <1>2
  <2> QED BY <1>1, <2>1 DEF PlanesOf
<1>4. \A y \in 0..(h - 1), x \in 0..(w - 1) :
         Pixel!DilateOnce(grown, w, h)[y][x] = Pixel!Max(Around(img, w, h, r + 1, x, y))
  BY <1>1, <1>2
<1> QED BY <1>3, <1>4 DEF Grown

(***************************************************************************)
(* dilate: so many passes of the 3 x 3 maximum are one maximum over what   *)
(* is up to so many steps away along both axes, at the edges too.          *)
(***************************************************************************)
LEMMA GrowthIsMaximum ==
    ASSUME NEW w \in Nat \ {0}, NEW h \in Nat \ {0}, NEW hi \in Nat, NEW img \in PlanesOf(w, h, 0, hi), NEW iterations \in Nat
    PROVE  \A y \in 0..(h - 1), x \in 0..(w - 1) :
              Pixel!Dilate(img, w, h, iterations)[y][x] = Pixel!Max(Around(img, w, h, iterations, x, y))
<1> DEFINE P == PlanesOf(w, h, 0, hi)
           Once(p) == Pixel!DilateOnce(p, w, h)
           Passes(a) == a = [k \in 0..iterations |-> IF k = 0 THEN img ELSE Once(a[k - 1])]
           after == CHOOSE a : Passes(a)
<1>1. Pixel!Dilate(img, w, h, iterations) = after[iterations] BY DEF Pixel!Dilate
<1>2. \A p \in P : Once(p) \in P
  <2> SUFFICES ASSUME NEW p \in P PROVE Once(p) \in P OBVIOUS
  <2>1. Grown(p, p, w, h, hi, 0) BY GrownByNone
  <2>2. Grown(Once(p), p, w, h, hi, 0 + 1) BY <2>1, GrownOnce
  <2> QED BY <2>2 DEF Grown
<1>3. Grown(img, img, w, h, hi, 0) BY GrownByNone
<1>4. \A p : \A k \in Nat : Grown(p, img, w, h, hi, k) => Grown(Once(p), img, w, h, hi, k + 1) BY GrownOnce
<1>5. img \in P OBVIOUS
<1> HIDE DEF P, Once
<1>6. Passes(after)
  <2> DEFINE F == [p \in P |-> Once(p)]
  <2>1. F \in [P -> P] BY <1>2
  <2> HIDE DEF F
  <2>2. PICK a : Repeated(a, P, F, img, iterations) BY <1>5, <2>1, Repeats
  <2>3. \A k \in 0..iterations : k # 0 => a[k - 1] \in P
    <3>1. \A k \in 0..iterations : k # 0 => k - 1 \in 0..iterations OBVIOUS
    <3> QED BY <2>2, <3>1 DEF Repeated
  <2>4. \A k \in 0..iterations : a[k] = IF k = 0 THEN img ELSE Once(a[k - 1]) BY <2>2, <2>3 DEF F, Repeated
  <2>5. a = [k \in 0..iterations |-> a[k]] BY <2>2 DEF Repeated
  <2>6. Passes(a) BY <2>4, <2>5
  <2> HIDE DEF Passes
  <2> QED BY <2>6
<1> HIDE DEF after
<1>7. \A k \in 0..iterations : Grown(after[k], img, w, h, hi, k)
  <2> DEFINE T == {k \in 0..iterations : ~Grown(after[k], img, w, h, hi, k)}
  <2> SUFFICES ASSUME T # {} PROVE FALSE OBVIOUS
  <2>1. T \in SUBSET Nat OBVIOUS
  <2>2. PICK k \in T : \A j \in T : k <= j BY <2>1, Smallest
  <2>3. k \in 0..iterations /\ ~Grown(after[k], img, w, h, hi, k) OBVIOUS
  <2>4. after[k] = IF k = 0 THEN img ELSE Once(after[k - 1]) BY <1>6, <2>3
  <2>5. k # 0 BY <1>3, <2>3, <2>4
  <2>6. k - 1 \in 0..iterations /\ k - 1 \notin T
    <3>1. k - 1 \in 0..iterations BY <2>3, <2>5
    <3> HIDE DEF T
    <3> QED BY <2>2, <2>3, <3>1
  <2>7. Grown(after[k - 1], img, w, h, hi, k - 1) BY <2>6
  <2>8. k - 1 \in Nat /\ (k - 1) + 1 = k BY <2>3, <2>5
  <2>9. Grown(Once(after[k - 1]), img, w, h, hi, (k - 1) + 1) BY <1>4, <2>7, <2>8
  <2>10. Grown(after[k], img, w, h, hi, k) BY <2>4, <2>5, <2>8, <2>9
  <2> QED BY <2>3, <2>10
<1>8. iterations \in 0..iterations OBVIOUS
<1>9. Grown(after[iterations], img, w, h, hi, iterations) BY <1>7, <1>8
<1> QED BY <1>1, <1>9 DEF Grown

-----------------------------------------------------------------------------
(* The blur on the GPU beside the one on the CPU. *)

\* Every pixel of a frame is drawn by one invocation, and no other invocation draws.
LEMMA ShadedIsFrame == ASSUME NEW w \in Nat, NEW h \in Nat PROVE Pixel!Shaded(w, h) = (0..(w - 1)) \X (0..(h - 1))
<1>1. \A n \in Nat : 8 * ((n + 8 - 1) \div 8) \in Int /\ 8 * ((n + 8 - 1) \div 8) >= n OBVIOUS
<1>2. PICK a \in Int, b \in Int : a = 8 * ((w + 8 - 1) \div 8) /\ b = 8 * ((h + 8 - 1) \div 8) /\ a >= w /\ b >= h BY <1>1
<1>3. Pixel!Shaded(w, h) = {gid \in (0..(a - 1)) \X (0..(b - 1)) : gid[1] < w /\ gid[2] < h}
  BY <1>2 DEF Pixel!Shaded, Pixel!Invocations, Pixel!WorkgroupSize, Pixel!CeilDiv
<1> QED BY <1>2, <1>3

\* The quotient rounded to nearest is the one rounded down or the next.
LEMMA RoundedIs == ASSUME NEW s \in Int, NEW d \in Nat \ {0}
                   PROVE Pixel!Rounded(s, d) \in Int /\ Pixel!Rounded(s, d) - s \div d \in {0, 1} /\ s \div d \in Int
<1>1. PICK q \in Int : q = s \div d /\ q * d <= s /\ s < (q + 1) * d BY QuotientAround
<1>2. PICK two \in Nat \ {0}, t \in Int : two = 2 * d /\ t = 2 * s + d OBVIOUS
<1>3. PICK p \in Int : p = t \div two /\ p * two <= t /\ t < (p + 1) * two
  <2>1. t \div two \in Int /\ (t \div two) * two <= t /\ t < (t \div two + 1) * two BY QuotientAround, Zenon
  <2> QED BY <2>1, Zenon
<1>4. Pixel!Rounded(s, d) = p BY <1>2, <1>3 DEF Pixel!Rounded
<1>5. PICK a \in Int : a = q * d /\ (q + 1) * d = a + d /\ q * two = 2 * a /\ (q + 2) * two = 2 * a + 4 * d
  <2>1. (q + 1) * d = q * d + d /\ q * (2 * d) = 2 * (q * d) /\ (q + 2) * (2 * d) = 2 * (q * d) + 4 * d /\ q * d \in Int OBVIOUS
  <2> QED BY <1>2, <2>1
<1>6. PICK b \in Int : b = p * two /\ (p + 1) * two = b + two
  <2>1. (p + 1) * two = p * two + two /\ p * two \in Int OBVIOUS
  <2> QED BY <2>1
<1>7. q * two < (p + 1) * two BY <1>1, <1>2, <1>3, <1>5, <1>6
<1>8. p * two < (q + 2) * two BY <1>1, <1>2, <1>3, <1>5, <1>6
<1>9. q < p + 1 /\ p < q + 2
  <2>1. q + 2 \in Int /\ p + 1 \in Int OBVIOUS
  <2> QED BY <1>7, <1>8, <2>1, MultiplesOrdered
<1> QED BY <1>1, <1>4, <1>9

\* Rounded to nearest, a number between so many times lo and hi stays between.
LEMMA RoundedBetween == ASSUME NEW s \in Int, NEW d \in Nat \ {0}, NEW lo \in Int, NEW hi \in Int, lo * d <= s, s <= hi * d
                        PROVE Pixel!Rounded(s, d) \in lo..hi
<1>1. PICK two \in Nat \ {0}, t \in Int : two = 2 * d /\ t = 2 * s + d OBVIOUS
<1>2. PICK p \in Int : p = t \div two /\ p * two <= t /\ t < (p + 1) * two
  <2>1. t \div two \in Int /\ (t \div two) * two <= t /\ t < (t \div two + 1) * two BY QuotientAround, Zenon
  <2> QED BY <2>1, Zenon
<1>3. Pixel!Rounded(s, d) = p BY <1>1, <1>2 DEF Pixel!Rounded
<1>4. PICK a \in Int, b \in Int : a = lo * d /\ b = hi * d /\ lo * two = 2 * a /\ (hi + 1) * two = 2 * b + 2 * d
  <2>1. lo * (2 * d) = 2 * (lo * d) /\ (hi + 1) * (2 * d) = 2 * (hi * d) + 2 * d /\ lo * d \in Int /\ hi * d \in Int OBVIOUS
  <2> QED BY <1>1, <2>1
<1>5. PICK c \in Int : c = p * two /\ (p + 1) * two = c + two
  <2>1. (p + 1) * two = p * two + two /\ p * two \in Int OBVIOUS
  <2> QED BY <2>1
<1>6. lo * two < (p + 1) * two BY <1>1, <1>2, <1>4, <1>5
<1>7. p * two < (hi + 1) * two BY <1>1, <1>2, <1>4, <1>5
<1>8. lo < p + 1 /\ p < hi + 1
  <2>1. hi + 1 \in Int /\ p + 1 \in Int OBVIOUS
  <2> QED BY <1>6, <1>7, <2>1, MultiplesOrdered
<1> QED BY <1>2, <1>3, <1>8

\* A line that is brighter by at most m has windows that are brighter by at most m a sample.
LEMMA WindowsCompare ==
    ASSUME NEW n \in Nat \ {0}, NEW r \in Nat, NEW m \in Nat, NEW dark, NEW bright,
           \A i \in 0..(n - 1) : dark[i] \in Int /\ bright[i] \in Int /\ bright[i] - dark[i] \in 0..m,
           NEW x \in 0..(n - 1)
    PROVE  LET d == Pixel!WindowSum(dark, n, r, x)
               b == Pixel!WindowSum(bright, n, r, x)
           IN  d \in Int /\ b \in Int /\ d <= b /\ b <= d + m * (2 * r + 1)
<1> DEFINE At(k) == Pixel!Clamp(x + k, 0, n - 1)
           f == [k \in (-r)..r |-> dark[At(k)]]
           g == [k \in (-r)..r |-> bright[At(k)]]
           e == [k \in (-r)..r |-> bright[At(k)] - dark[At(k)]]
<1>1. \A k \in (-r)..r : At(k) \in 0..(n - 1)
  <2> SUFFICES ASSUME NEW k \in (-r)..r PROVE At(k) \in 0..(n - 1) OBVIOUS
  <2>1. PICK b \in Int, j \in Int : b = n - 1 /\ j = x + k /\ 0 <= b OBVIOUS
  <2>2. Pixel!Clamp(j, 0, b) = IF j < 0 THEN 0 ELSE IF j > b THEN b ELSE j BY <2>1, Clamped
  <2>3. Pixel!Clamp(j, 0, b) \in 0..b BY <2>1, <2>2
  <2> QED BY <2>1, <2>3
<1> HIDE DEF At
<1>2. \A k \in (-r)..r : f[k] \in Int /\ g[k] \in Int /\ e[k] \in 0..m /\ e[k] = g[k] - f[k] BY <1>1
<1>3. -r \in Int /\ r \in Int /\ -r - 1 <= r OBVIOUS
<1>4. Pixel!WindowSum(dark, n, r, x) = Pixel!SumOver(f, -r, r) /\ Pixel!WindowSum(bright, n, r, x) = Pixel!SumOver(g, -r, r)
  BY DEF Pixel!WindowSum, At
<1> HIDE DEF f, g, e
<1>5. PICK F : Totals(F, f, -r, r) BY <1>2, <1>3, TotalsExist
<1>6. PICK G : Totals(G, g, -r, r) BY <1>2, <1>3, TotalsExist
<1> DEFINE E == [i \in (-r - 1)..r |-> G[i] - F[i]]
<1>7. Totals(E, e, -r, r)
  <2>1. \A i \in (-r - 1)..r : F[i] \in Int /\ G[i] \in Int BY <1>5, <1>6 DEF Totals
  <2>2. E \in [(-r - 1)..r -> Int] BY <2>1
  <2>3. \A i \in (-r)..r : E[i] = E[i - 1] + e[i]
    <3> SUFFICES ASSUME NEW i \in (-r)..r PROVE E[i] = E[i - 1] + e[i] OBVIOUS
    <3>1. F[i] = F[i - 1] + f[i] /\ G[i] = G[i - 1] + g[i] BY <1>5, <1>6 DEF Totals
    <3>2. i \in (-r - 1)..r /\ i - 1 \in (-r - 1)..r OBVIOUS
    <3>3. E[i] = G[i] - F[i] /\ E[i - 1] = G[i - 1] - F[i - 1] BY <3>2
    <3>4. F[i - 1] \in Int /\ G[i - 1] \in Int BY <2>1, <3>2
    <3> HIDE DEF E
    <3> QED BY <1>2, <3>1, <3>3, <3>4
  <2> HIDE DEF E
  <2> QED BY <2>2, <2>3 DEF Totals
<1>8. r \in (-r - 1)..r /\ -r - 1 \in (-r - 1)..r OBVIOUS
<1>9. E[r] = G[r] - F[r] /\ E[-r - 1] = G[-r - 1] - F[-r - 1] BY <1>8
<1> HIDE DEF E
<1>10. 0 * (r - (-r) + 1) <= E[r] - E[-r - 1] /\ E[r] - E[-r - 1] <= m * (r - (-r) + 1)
  <2>1. 0 \in Int /\ m \in Int OBVIOUS
  <2> QED BY <1>2, <1>3, <1>7, <2>1, RiseBounded
<1>11. r - (-r) + 1 = 2 * r + 1 /\ 0 * (r - (-r) + 1) = 0 OBVIOUS
<1>12. PICK t \in Int : t = m * (2 * r + 1) OBVIOUS
<1>13. Pixel!SumOver(f, -r, r) = F[r] - F[-r - 1] BY <1>2, <1>3, <1>5, SumIsRise
<1>14. Pixel!SumOver(g, -r, r) = G[r] - G[-r - 1] BY <1>2, <1>3, <1>6, SumIsRise
<1>15. F[r] \in Int /\ F[-r - 1] \in Int /\ G[r] \in Int /\ G[-r - 1] \in Int BY <1>5, <1>6, <1>8 DEF Totals
<1> QED BY <1>4, <1>9, <1>10, <1>11, <1>12, <1>13, <1>14, <1>15

\* The rounded mean of a brighter window and the cut-off mean of a darker one.
LEMMA MeansCompare ==
    ASSUME NEW n \in Nat \ {0}, NEW r \in Nat, NEW m \in Nat, NEW dark, NEW bright,
           \A i \in 0..(n - 1) : dark[i] \in Int /\ bright[i] \in Int /\ bright[i] - dark[i] \in 0..m,
           NEW x \in 0..(n - 1)
    PROVE  Pixel!Rounded(Pixel!WindowSum(bright, n, r, x), 2 * r + 1) - Pixel!WindowSum(dark, n, r, x) \div (2 * r + 1)
              \in 0..(m + 1)
<1>1. PICK d \in Int, b \in Int, s \in Nat \ {0} :
         /\ d = Pixel!WindowSum(dark, n, r, x) /\ b = Pixel!WindowSum(bright, n, r, x) /\ s = 2 * r + 1
         /\ d <= b /\ b <= d + m * s
  <2>1. 2 * r + 1 \in Nat \ {0} OBVIOUS
  <2> QED BY <2>1, WindowsCompare
<1>2. PICK p \in Int : p = d \div s /\ p * s <= d /\ d < (p + 1) * s BY QuotientAround
<1>3. PICK q \in Int : q = b \div s /\ q * s <= b /\ b < (q + 1) * s BY QuotientAround
<1>4. p * s < (q + 1) * s
  <2>1. p * s \in Int /\ (q + 1) * s \in Int OBVIOUS
  <2> QED BY <1>1, <1>2, <1>3, <2>1
<1>5. q * s < (p + 1 + m) * s
  <2>1. (p + 1 + m) * s = (p + 1) * s + m * s /\ (p + 1) * s \in Int /\ m * s \in Int /\ q * s \in Int OBVIOUS
  <2>2. PICK a \in Int, e \in Int, f \in Int : a = (p + 1) * s /\ e = m * s /\ f = q * s BY <2>1
  <2>3. f < a + e BY <1>1, <1>2, <1>3, <2>2
  <2> QED BY <2>1, <2>2, <2>3
<1>6. p < q + 1 /\ q < p + 1 + m
  <2>1. q + 1 \in Int /\ p + 1 + m \in Int OBVIOUS
  <2> QED BY <1>4, <1>5, <2>1, MultiplesOrdered
<1>7. Pixel!Rounded(b, s) \in Int /\ Pixel!Rounded(b, s) - q \in {0, 1} BY <1>3, RoundedIs
<1> QED BY <1>1, <1>2, <1>6, <1>7

\* Every sample of a frame is the rounded mean of its window along the row.
MeansAlong(made, tex, w, h, r) ==
    \A y \in 0..(h - 1), x \in 0..(w - 1) : made[y][x] = Pixel!Rounded(Pixel!WindowSum(tex[y], w, r, x), 2 * r + 1)

\* A pass of the shader over the rows keeps the range and rounds the means of the windows.
LEMMA RowsShaded ==
    ASSUME NEW w \in Nat \ {0}, NEW h \in Nat \ {0}, NEW r \in Nat, NEW lo \in Int, NEW hi \in Int,
           NEW tex \in PlanesOf(w, h, lo, hi)
    PROVE  Pixel!ShadeRow(tex, w, h, r) \in PlanesOf(w, h, lo, hi) /\ MeansAlong(Pixel!ShadeRow(tex, w, h, r), tex, w, h, r)
<1> DEFINE Mean(y, x) == Pixel!Rounded(Pixel!WindowSum(tex[y], w, r, x), 2 * r + 1)
<1>1. \A y \in 0..(h - 1), x \in 0..(w - 1) : <<x, y>> \in Pixel!Shaded(w, h)
  <2>1. Pixel!Shaded(w, h) = (0..(w - 1)) \X (0..(h - 1)) BY ShadedIsFrame
  <2> QED BY <2>1
<1>2. Pixel!ShadeRow(tex, w, h, r) = [y \in 0..(h - 1) |-> [x \in 0..(w - 1) |-> Mean(y, x)]]
  <2>1. Pixel!ShadeRow(tex, w, h, r) =
           [y \in 0..(h - 1) |-> [x \in 0..(w - 1) |-> IF <<x, y>> \in Pixel!Shaded(w, h) THEN Mean(y, x) ELSE -1]]
    BY DEF Pixel!ShadeRow
  <2> HIDE DEF Mean
  <2> QED BY <1>1, <2>1
<1>3. \A y \in 0..(h - 1), x \in 0..(w - 1) : Mean(y, x) \in lo..hi
  <2> SUFFICES ASSUME NEW y \in 0..(h - 1), NEW x \in 0..(w - 1) PROVE Mean(y, x) \in lo..hi OBVIOUS
  <2>1. \A i \in 0..(w - 1) : tex[y][i] \in lo..hi BY DEF PlanesOf
  <2>2. PICK s : s = Pixel!WindowSum(tex[y], w, r, x) OBVIOUS
  <2>3. s \in Int /\ lo * (2 * r + 1) <= s /\ s <= hi * (2 * r + 1) BY <2>1, <2>2, WindowBounded
  <2>4. 2 * r + 1 \in Nat \ {0} OBVIOUS
  <2>5. Pixel!Rounded(s, 2 * r + 1) \in lo..hi BY <2>3, <2>4, RoundedBetween
  <2> QED BY <2>2, <2>5
<1> HIDE DEF Mean
<1>4. Pixel!ShadeRow(tex, w, h, r) \in PlanesOf(w, h, lo, hi) BY <1>2, <1>3 DEF PlanesOf
<1>5. \A y \in 0..(h - 1), x \in 0..(w - 1) : Pixel!ShadeRow(tex, w, h, r)[y][x] = Mean(y, x) BY <1>2
<1>6. MeansAlong(Pixel!ShadeRow(tex, w, h, r), tex, w, h, r) BY <1>5 DEF Mean, MeansAlong
<1> QED BY <1>4, <1>6

\* The samples of a plane down a column.
Column(img, h, x) == [v \in 0..(h - 1) |-> img[v][x]]

\* Every sample of a frame is the rounded mean of its window down the column.
MeansDown(made, tex, w, h, r) ==
    \A y \in 0..(h - 1), x \in 0..(w - 1) : made[y][x] = Pixel!Rounded(Pixel!WindowSum(Column(tex, h, x), h, r, y), 2 * r + 1)

\* The same of a pass down the columns.
LEMMA ColumnsShaded ==
    ASSUME NEW w \in Nat \ {0}, NEW h \in Nat \ {0}, NEW r \in Nat, NEW lo \in Int, NEW hi \in Int,
           NEW tex \in PlanesOf(w, h, lo, hi)
    PROVE  Pixel!ShadeColumn(tex, w, h, r) \in PlanesOf(w, h, lo, hi) /\ MeansDown(Pixel!ShadeColumn(tex, w, h, r), tex, w, h, r)
<1> DEFINE turned == Pixel!Transposed(tex, w, h)
           Mean(y, x) == Pixel!Rounded(Pixel!WindowSum(turned[x], h, r, y), 2 * r + 1)
<1>1. \A y \in 0..(h - 1), x \in 0..(w - 1) : <<x, y>> \in Pixel!Shaded(w, h)
  <2>1. Pixel!Shaded(w, h) = (0..(w - 1)) \X (0..(h - 1)) BY ShadedIsFrame
  <2> QED BY <2>1
<1>t. /\ turned \in PlanesOf(h, w, lo, hi)
      /\ \A x \in 0..(w - 1) : turned[x] = Column(tex, h, x)
  BY DEF Pixel!Transposed, PlanesOf, Column
<1>2. Pixel!ShadeColumn(tex, w, h, r) = [y \in 0..(h - 1) |-> [x \in 0..(w - 1) |-> Mean(y, x)]]
  <2>1. Pixel!ShadeColumn(tex, w, h, r) =
           [y \in 0..(h - 1) |-> [x \in 0..(w - 1) |-> IF <<x, y>> \in Pixel!Shaded(w, h) THEN Mean(y, x) ELSE -1]]
    BY DEF Pixel!ShadeColumn
  <2> HIDE DEF Mean
  <2> QED BY <1>1, <2>1
<1> HIDE DEF turned
<1>3. \A y \in 0..(h - 1), x \in 0..(w - 1) : Mean(y, x) \in lo..hi
  <2> SUFFICES ASSUME NEW y \in 0..(h - 1), NEW x \in 0..(w - 1) PROVE Mean(y, x) \in lo..hi OBVIOUS
  <2>1. \A i \in 0..(h - 1) : turned[x][i] \in lo..hi BY <1>t DEF PlanesOf
  <2>2. PICK s : s = Pixel!WindowSum(turned[x], h, r, y) OBVIOUS
  <2>3. s \in Int /\ lo * (2 * r + 1) <= s /\ s <= hi * (2 * r + 1) BY <2>1, <2>2, WindowBounded
  <2>4. 2 * r + 1 \in Nat \ {0} OBVIOUS
  <2>5. Pixel!Rounded(s, 2 * r + 1) \in lo..hi BY <2>3, <2>4, RoundedBetween
  <2> QED BY <2>2, <2>5
<1> HIDE DEF Mean
<1>4. Pixel!ShadeColumn(tex, w, h, r) \in PlanesOf(w, h, lo, hi) BY <1>2, <1>3 DEF PlanesOf
<1>5. ASSUME NEW y \in 0..(h - 1), NEW x \in 0..(w - 1)
      PROVE  Pixel!ShadeColumn(tex, w, h, r)[y][x] =
                 Pixel!Rounded(Pixel!WindowSum(Column(tex, h, x), h, r, y), 2 * r + 1)
  <2>1. Pixel!ShadeColumn(tex, w, h, r)[y][x] = Mean(y, x) BY <1>2
  <2>2. turned[x] = Column(tex, h, x) BY <1>t
  <2> QED BY <2>1, <2>2 DEF Mean
<1> QED BY <1>4, <1>5 DEF MeansDown

\* The frame on the GPU is brighter than the one on the CPU by m at most.
Brighter(bright, dark, w, h, m) ==
    \A y \in 0..(h - 1), x \in 0..(w - 1) : bright[y][x] - dark[y][x] \in 0..m

\* One pass makes it brighter by two more at most.
LEMMA PassesCompare ==
    ASSUME NEW w \in Nat \ {0}, NEW h \in Nat \ {0}, NEW r \in Nat, NEW lo \in Int, NEW hi \in Int, NEW m \in Nat,
           NEW dark \in PlanesOf(w, h, lo, hi), NEW bright \in PlanesOf(w, h, lo, hi), Brighter(bright, dark, w, h, m)
    PROVE  /\ CpuPass(dark, w, h, r) \in PlanesOf(w, h, lo, hi) /\ GpuPass(bright, w, h, r) \in PlanesOf(w, h, lo, hi)
           /\ Brighter(GpuPass(bright, w, h, r), CpuPass(dark, w, h, r), w, h, m + 2)
<1> DEFINE Cut(v, x) == Pixel!WindowSum(dark[v], w, r, x) \div (2 * r + 1)
<1>1. /\ CpuPass(dark, w, h, r) \in PlanesOf(w, h, lo, hi)
      /\ \A y \in 0..(h - 1), x \in 0..(w - 1) :
            CpuPass(dark, w, h, r)[y][x] = Pixel!WindowSum([v \in 0..(h - 1) |-> Cut(v, x)], h, r, y) \div (2 * r + 1)
  <2>1. CpuPass(dark, w, h, r) \in PlanesOf(w, h, lo, hi) /\ MeansOfMeans(CpuPass(dark, w, h, r), dark, w, h, r) BY PlaneBlurred
  <2> QED BY <2>1 DEF MeansOfMeans
<1>2. PICK a : a = Pixel!ShadeRow(bright, w, h, r) OBVIOUS
<1>3. /\ a \in PlanesOf(w, h, lo, hi)
      /\ \A y \in 0..(h - 1), x \in 0..(w - 1) : a[y][x] = Pixel!Rounded(Pixel!WindowSum(bright[y], w, r, x), 2 * r + 1)
  <2>1. Pixel!ShadeRow(bright, w, h, r) \in PlanesOf(w, h, lo, hi) /\ MeansAlong(Pixel!ShadeRow(bright, w, h, r), bright, w, h, r)
    BY RowsShaded
  <2> QED BY <1>2, <2>1 DEF MeansAlong
<1>4. /\ GpuPass(bright, w, h, r) \in PlanesOf(w, h, lo, hi)
      /\ \A y \in 0..(h - 1), x \in 0..(w - 1) :
            GpuPass(bright, w, h, r)[y][x] =
                Pixel!Rounded(Pixel!WindowSum(Column(a, h, x), h, r, y), 2 * r + 1)
  <2>1. GpuPass(bright, w, h, r) = Pixel!ShadeColumn(a, w, h, r) BY <1>2 DEF GpuPass
  <2>2. Pixel!ShadeColumn(a, w, h, r) \in PlanesOf(w, h, lo, hi) /\ MeansDown(Pixel!ShadeColumn(a, w, h, r), a, w, h, r)
    BY <1>3, ColumnsShaded
  <2> QED BY <2>1, <2>2 DEF MeansDown
<1>d. \A v \in 0..(h - 1), x \in 0..(w - 1) : dark[v][x] \in Int /\ bright[v][x] \in Int /\ a[v][x] \in Int
  <2>1. \A p \in PlanesOf(w, h, lo, hi) : \A v \in 0..(h - 1), x \in 0..(w - 1) : p[v][x] \in Int BY DEF PlanesOf
  <2> QED BY <1>3, <2>1
<1>c. \A v \in 0..(h - 1), x \in 0..(w - 1) : Cut(v, x) \in Int
  <2>2. Pixel!BlurLines(dark, w, r) \in PlanesOf(w, h, lo, hi) /\ MeansCut(Pixel!BlurLines(dark, w, r), dark, w, h, r)
    BY LinesBlurred
  <2>1. \A v \in 0..(h - 1), x \in 0..(w - 1) : Pixel!BlurLines(dark, w, r)[v][x] = Cut(v, x) BY <2>2 DEF MeansCut
  <2>3. \A v \in 0..(h - 1), x \in 0..(w - 1) : Pixel!BlurLines(dark, w, r)[v][x] \in Int BY <2>2 DEF PlanesOf
  <2> HIDE DEF Cut
  <2> QED BY <2>1, <2>3
<1>5. \A v \in 0..(h - 1), x \in 0..(w - 1) : a[v][x] - Cut(v, x) \in 0..(m + 1)
  <2> SUFFICES ASSUME NEW v \in 0..(h - 1), NEW x \in 0..(w - 1) PROVE a[v][x] - Cut(v, x) \in 0..(m + 1) OBVIOUS
  <2>1. \A i \in 0..(w - 1) : dark[v][i] \in Int /\ bright[v][i] \in Int /\ bright[v][i] - dark[v][i] \in 0..m
    BY <1>d DEF Brighter
  <2>2. Pixel!Rounded(Pixel!WindowSum(bright[v], w, r, x), 2 * r + 1) - Pixel!WindowSum(dark[v], w, r, x) \div (2 * r + 1)
           \in 0..(m + 1)
    BY <2>1, MeansCompare
  <2> QED BY <1>3, <2>2
<1> HIDE DEF Cut
<1>6. ASSUME NEW y \in 0..(h - 1), NEW x \in 0..(w - 1)
      PROVE  GpuPass(bright, w, h, r)[y][x] - CpuPass(dark, w, h, r)[y][x] \in 0..(m + 2)
  <2> DEFINE c == [v \in 0..(h - 1) |-> Cut(v, x)]
             b == [v \in 0..(h - 1) |-> a[v][x]]
  <2>1. \A v \in 0..(h - 1) : c[v] \in Int /\ b[v] \in Int /\ b[v] - c[v] \in 0..(m + 1) BY <1>c, <1>d, <1>5
  <2>2. GpuPass(bright, w, h, r)[y][x] = Pixel!Rounded(Pixel!WindowSum(b, h, r, y), 2 * r + 1) BY <1>4 DEF Column
  <2>3. CpuPass(dark, w, h, r)[y][x] = Pixel!WindowSum(c, h, r, y) \div (2 * r + 1) BY <1>1
  <2> HIDE DEF c, b
  <2>4. m + 1 \in Nat /\ (m + 1) + 1 = m + 2 OBVIOUS
  <2>5. Pixel!Rounded(Pixel!WindowSum(b, h, r, y), 2 * r + 1) - Pixel!WindowSum(c, h, r, y) \div (2 * r + 1) \in 0..((m + 1) + 1)
    BY <2>1, <2>4, MeansCompare
  <2> QED BY <2>2, <2>3, <2>4, <2>5
<1>7. Brighter(GpuPass(bright, w, h, r), CpuPass(dark, w, h, r), w, h, m + 2) BY <1>6 DEF Brighter
<1> QED BY <1>1, <1>4, <1>7

\* The frames that dispatch_blur goes through.
Dispatches(a, img, w, h, r, passes) ==
    /\ Pixel!GpuBlur(img, w, h, r, passes) = IF r = 0 \/ passes = 0 THEN img ELSE a[passes]
    /\ \A k \in 0..passes : a[k] = IF k = 0 THEN img ELSE GpuPass(a[k - 1], w, h, r)

\* They exist, for any number of passes.
LEMMA GpuPasses ==
    ASSUME NEW w \in Nat \ {0}, NEW h \in Nat \ {0}, NEW r \in Nat, NEW passes \in Nat, NEW lo \in Int, NEW hi \in Int,
           NEW img \in PlanesOf(w, h, lo, hi)
    PROVE  \E a : Dispatches(a, img, w, h, r, passes)
<1> DEFINE P == PlanesOf(w, h, lo, hi)
           Pass(p) == GpuPass(p, w, h, r)
           Passes(a) == a = [k \in 0..passes |-> IF k = 0 THEN img ELSE Pass(a[k - 1])]
           after == CHOOSE a : Passes(a)
<1>1. \A p \in P : Pass(p) \in P
  <2> SUFFICES ASSUME NEW p \in P PROVE Pass(p) \in P OBVIOUS
  <2>1. \A y \in 0..(h - 1), x \in 0..(w - 1) : p[y][x] \in Int BY DEF PlanesOf
  <2>2. Brighter(p, p, w, h, 0) BY <2>1 DEF Brighter
  <2>3. 0 \in Nat OBVIOUS
  <2> QED BY <2>2, <2>3, PassesCompare
<1>2. Pixel!GpuBlur(img, w, h, r, passes) = IF r = 0 \/ passes = 0 THEN img ELSE after[passes]
  BY DEF Pixel!GpuBlur, Pixel!Dispatched, GpuPass
<1> HIDE DEF P, Pass
<1>i. img \in P BY DEF P
<1>3. Passes(after)
  <2> DEFINE F == [p \in P |-> Pass(p)]
  <2>1. F \in [P -> P] BY <1>1
  <2> HIDE DEF F
  <2>2. PICK a : Repeated(a, P, F, img, passes) BY <1>i, <2>1, Repeats
  <2>3. \A k \in 0..passes : k # 0 => a[k - 1] \in P
    <3>1. \A k \in 0..passes : k # 0 => k - 1 \in 0..passes OBVIOUS
    <3> QED BY <2>2, <3>1 DEF Repeated
  <2>4. \A k \in 0..passes : a[k] = IF k = 0 THEN img ELSE Pass(a[k - 1]) BY <2>2, <2>3 DEF F, Repeated
  <2>5. a = [k \in 0..passes |-> a[k]] BY <2>2 DEF Repeated
  <2>6. Passes(a) BY <2>4, <2>5
  <2> HIDE DEF Passes
  <2> QED BY <2>6
<1> HIDE DEF after
<1>4. \A k \in 0..passes : after[k] = IF k = 0 THEN img ELSE Pass(after[k - 1]) BY <1>3
<1>5. Dispatches(after, img, w, h, r, passes) BY <1>2, <1>4 DEF Pass, Dispatches
<1> QED BY <1>5

(***************************************************************************)
(* The frame blurred on the GPU, whose every half pass rounds to nearest,  *)
(* is nowhere darker than the one blurred on the CPU, whose every half     *)
(* pass cuts off, and is brighter by two a pass at most: the drift that a  *)
(* switch of backend shows does not depend on the size of the frame or on  *)
(* the radius.                                                             *)
(***************************************************************************)
LEMMA GpuIsBrighter ==
    ASSUME NEW w \in Nat \ {0}, NEW h \in Nat \ {0}, NEW r \in Nat, NEW passes \in Nat, NEW lo \in Int, NEW hi \in Int,
           NEW img \in PlanesOf(w, h, lo, hi)
    PROVE  /\ Pixel!GpuBlur(img, w, h, r, passes) \in PlanesOf(w, h, lo, hi)
           /\ Brighter(Pixel!GpuBlur(img, w, h, r, passes), Pixel!BoxBlur(img, w, h, r, passes), w, h, 2 * passes)
<1>1. PICK cpu : Blurs(cpu, img, w, h, r, passes) BY CpuPasses
<1>2. PICK gpu : Dispatches(gpu, img, w, h, r, passes) BY GpuPasses
<1> DEFINE P == PlanesOf(w, h, lo, hi)
           Close(k) == cpu[k] \in P /\ gpu[k] \in P /\ Brighter(gpu[k], cpu[k], w, h, 2 * k)
<1>3. \A p \in P : \A m \in Nat : Brighter(p, p, w, h, m)
  <2> SUFFICES ASSUME NEW p \in P, NEW m \in Nat PROVE Brighter(p, p, w, h, m) OBVIOUS
  <2>1. \A y \in 0..(h - 1), x \in 0..(w - 1) : p[y][x] \in Int BY DEF PlanesOf
  <2> QED BY <2>1 DEF Brighter
<1>4. \A c \in P, g \in P : \A m \in Nat :
         Brighter(g, c, w, h, m) =>
             CpuPass(c, w, h, r) \in P /\ GpuPass(g, w, h, r) \in P
             /\ Brighter(GpuPass(g, w, h, r), CpuPass(c, w, h, r), w, h, m + 2)
  <2> SUFFICES ASSUME NEW c \in P, NEW g \in P, NEW m \in Nat, Brighter(g, c, w, h, m)
               PROVE  CpuPass(c, w, h, r) \in P /\ GpuPass(g, w, h, r) \in P
                      /\ Brighter(GpuPass(g, w, h, r), CpuPass(c, w, h, r), w, h, m + 2)
    OBVIOUS
  <2> QED BY PassesCompare
<1>5. \A k \in 0..passes : /\ cpu[k] = IF k = 0 THEN img ELSE CpuPass(cpu[k - 1], w, h, r)
                           /\ gpu[k] = IF k = 0 THEN img ELSE GpuPass(gpu[k - 1], w, h, r)
  BY <1>1, <1>2 DEF Blurs, Dispatches
<1>i. img \in P OBVIOUS
<1> HIDE DEF P
<1>6. \A k \in 0..passes : Close(k)
  <2> DEFINE T == {k \in 0..passes : ~Close(k)}
  <2> SUFFICES ASSUME T # {} PROVE FALSE OBVIOUS
  <2>1. T \in SUBSET Nat OBVIOUS
  <2>2. PICK k \in T : \A j \in T : k <= j BY <2>1, Smallest
  <2>3. k \in 0..passes /\ ~Close(k) OBVIOUS
  <2>4. k # 0
    <3> SUFFICES ASSUME k = 0 PROVE FALSE OBVIOUS
    <3>1. cpu[0] = img /\ gpu[0] = img BY <1>5, <2>3
    <3>2. 2 * 0 \in Nat OBVIOUS
    <3>3. Brighter(img, img, w, h, 2 * 0) BY <1>i, <1>3, <3>2
    <3>4. Close(0) BY <1>i, <3>1, <3>3
    <3> QED BY <2>3, <3>4
  <2>5. k - 1 \in 0..passes /\ Close(k - 1)
    <3>1. k - 1 \in 0..passes /\ ~(k <= k - 1) BY <2>3, <2>4
    <3>2. k - 1 \notin T BY <2>2, <3>1
    <3> QED BY <3>1, <3>2
  <2>6. PICK m \in Nat : m = 2 * (k - 1) /\ m + 2 = 2 * k BY <2>3, <2>5
  <2>7. cpu[k] = CpuPass(cpu[k - 1], w, h, r) /\ gpu[k] = GpuPass(gpu[k - 1], w, h, r) BY <1>5, <2>3, <2>4
  <2>8. cpu[k] \in P /\ gpu[k] \in P /\ Brighter(gpu[k], cpu[k], w, h, m + 2)
    <3>1. cpu[k - 1] \in P /\ gpu[k - 1] \in P /\ Brighter(gpu[k - 1], cpu[k - 1], w, h, m) BY <2>5, <2>6
    <3> QED BY <1>4, <2>7, <3>1
  <2> QED BY <2>3, <2>6, <2>8
<1>7. passes \in 0..passes /\ 2 * passes \in Nat OBVIOUS
<1>8. Pixel!BoxBlur(img, w, h, r, passes) = IF r = 0 THEN img ELSE cpu[passes] BY <1>1 DEF Blurs
<1>9. Pixel!GpuBlur(img, w, h, r, passes) = IF r = 0 \/ passes = 0 THEN img ELSE gpu[passes] BY <1>2 DEF Dispatches
<1>10. CASE r = 0
  <2>1. Brighter(img, img, w, h, 2 * passes) BY <1>i, <1>3, <1>7
  <2> QED BY <1>8, <1>9, <1>10, <1>i, <2>1 DEF P
<1>11. CASE r # 0
  <2>1. Close(passes) BY <1>6, <1>7
  <2>2. passes = 0 => gpu[passes] = img BY <1>5, <1>7
  <2>3. Pixel!GpuBlur(img, w, h, r, passes) = gpu[passes] BY <1>9, <1>11, <2>2
  <2>4. Pixel!BoxBlur(img, w, h, r, passes) = cpu[passes] BY <1>8, <1>11
  <2> QED BY <2>1, <2>3, <2>4 DEF P
<1> QED BY <1>10, <1>11

-----------------------------------------------------------------------------
(* Sharpening, the rows of the staging buffer, and colours. *)

\* The weighted mean of three equal samples is that sample.
LEMMA TapOfFlat == \A v \in Int : Pixel!Tap3(v, v, v) = v
<1> SUFFICES ASSUME NEW v \in Int PROVE Pixel!Tap3(v, v, v) = v OBVIOUS
<1>1. Pixel!Tap3(v, v, v) = (v + 2 * v + v + 2) \div 4 BY DEF Pixel!Tap3
<1> QED BY <1>1

(***************************************************************************)
(* sharpen leaves bytes, however strong it is; no amount leaves the plane  *)
(* alone, and in a flat plane there is nothing to sharpen.                 *)
(***************************************************************************)
LEMMA SharpenKeepsFlat ==
    ASSUME NEW w \in Nat \ {0}, NEW h \in Nat \ {0}, NEW img \in PlanesOf(w, h, 0, 255), NEW amountQ \in Nat
    PROVE  LET sharp == Pixel!Sharpen(img, w, h, amountQ)
           IN  /\ amountQ = 0 => sharp = img
               /\ \A y \in 0..(h - 1), x \in 0..(w - 1) : sharp[y][x] \in 0..255
               /\ \A v \in 0..255 : img \in PlanesOf(w, h, v, v) => sharp = img
<1> DEFINE soft == [y \in 0..(h - 1) |-> Pixel!GaussRow(img[y], w)]
           Soft(x, y) == Pixel!Tap3(soft[Pixel!Max({0, y - 1})][x], soft[y][x], soft[Pixel!Min({y + 1, h - 1})][x])
           Sharp(x, y) == Pixel!Clamp(img[y][x] * 256 + amountQ * (img[y][x] - Soft(x, y)), 0, 255 * 256) \div 256
           sharp == Pixel!Sharpen(img, w, h, amountQ)
<1>1. sharp = [y \in 0..(h - 1) |-> [x \in 0..(w - 1) |-> IF amountQ = 0 THEN img[y][x] ELSE Sharp(x, y)]]
  BY DEF Pixel!Sharpen
<1>2. \A y \in 0..(h - 1), x \in 0..(w - 1) : img[y][x] \in 0..255 /\ img[y][x] \in Int
  <2>1. \A y \in 0..(h - 1), x \in 0..(w - 1) : img[y][x] \in 0..255 BY DEF PlanesOf
  <2>2. \A v \in 0..255 : v \in Int OBVIOUS
  <2> HIDE DEF soft, Soft, Sharp, sharp
  <2> QED BY <2>1, <2>2
<1>n. \A n \in Nat \ {0} : \A x \in 0..(n - 1) : Pixel!Max({0, x - 1}) \in 0..(n - 1) /\ Pixel!Min({x + 1, n - 1}) \in 0..(n - 1)
  <2> SUFFICES ASSUME NEW n \in Nat \ {0}, NEW x \in 0..(n - 1)
               PROVE  Pixel!Max({0, x - 1}) \in 0..(n - 1) /\ Pixel!Min({x + 1, n - 1}) \in 0..(n - 1)
    OBVIOUS
  <2>1. PICK a \in Int, b \in Int, c \in Int : a = x - 1 /\ b = x + 1 /\ c = n - 1 OBVIOUS
  <2>0. 0 \in Int OBVIOUS
  <2>2. Pixel!Max({0, a}) = IF 0 >= a THEN 0 ELSE a BY <2>0, OfTwo, Zenon
  <2>3. Pixel!Min({b, c}) = IF b <= c THEN b ELSE c BY OfTwo, Zenon
  <2> QED BY <2>1, <2>2, <2>3
<1>a. img = [y \in 0..(h - 1) |-> [x \in 0..(w - 1) |-> img[y][x]]] BY DEF PlanesOf
<1> HIDE DEF sharp
<1>i. \A n \in Int, x \in Int : Pixel!Tap3(n, x, n) \in Int BY DEF Pixel!Tap3
<1>3. amountQ = 0 => sharp = img
  <2> SUFFICES ASSUME amountQ = 0 PROVE sharp = img OBVIOUS
  <2> HIDE DEF Sharp
  <2> QED BY <1>1, <1>a
<1>4. \A y \in 0..(h - 1), x \in 0..(w - 1) : soft[y][x] \in Int
  <2> SUFFICES ASSUME NEW y \in 0..(h - 1), NEW x \in 0..(w - 1) PROVE soft[y][x] \in Int OBVIOUS
  <2>1. soft[y][x] = IF w = 1 THEN img[y][x]
                     ELSE Pixel!Tap3(img[y][Pixel!Max({0, x - 1})], img[y][x], img[y][Pixel!Min({x + 1, w - 1})])
    BY DEF Pixel!GaussRow
  <2>2. PICK l \in Int, m \in Int, r \in Int :
           l = img[y][Pixel!Max({0, x - 1})] /\ m = img[y][x] /\ r = img[y][Pixel!Min({x + 1, w - 1})]
    <3>1. Pixel!Max({0, x - 1}) \in 0..(w - 1) /\ Pixel!Min({x + 1, w - 1}) \in 0..(w - 1) BY <1>n
    <3>2. \A i \in 0..(w - 1) : img[y][i] \in Int
      <4> HIDE DEF soft
      <4> QED BY <1>2
    <3> QED BY <3>1, <3>2
  <2>3. Pixel!Tap3(l, m, r) \in Int BY DEF Pixel!Tap3
  <2> HIDE DEF soft
  <2> QED BY <2>1, <2>2, <2>3
<1>5. \A y \in 0..(h - 1), x \in 0..(w - 1) : Soft(x, y) \in Int
  <2> SUFFICES ASSUME NEW y \in 0..(h - 1), NEW x \in 0..(w - 1) PROVE Soft(x, y) \in Int OBVIOUS
  <2>1. PICK l \in Int, m \in Int, r \in Int :
           l = soft[Pixel!Max({0, y - 1})][x] /\ m = soft[y][x] /\ r = soft[Pixel!Min({y + 1, h - 1})][x]
    <3> HIDE DEF soft
    <3> QED BY <1>4, <1>n
  <2>2. Pixel!Tap3(l, m, r) \in Int BY DEF Pixel!Tap3
  <2> HIDE DEF soft
  <2> QED BY <2>1, <2>2
<1>6. \A y \in 0..(h - 1), x \in 0..(w - 1) : Sharp(x, y) \in 0..255
  <2> SUFFICES ASSUME NEW y \in 0..(h - 1), NEW x \in 0..(w - 1) PROVE Sharp(x, y) \in 0..255 OBVIOUS
  <2>1. PICK t \in Int : t = img[y][x] * 256 + amountQ * (img[y][x] - Soft(x, y))
    <3> HIDE DEF Soft
    <3>0. Soft(x, y) \in Int BY <1>5
    <3>0a. img[y][x] \in 0..255 BY <1>2
    <3>1. PICK s \in Int, v \in Int : s = Soft(x, y) /\ v = img[y][x] BY <3>0, <3>0a
    <3>2. v * 256 + amountQ * (v - s) \in Int OBVIOUS
    <3> QED BY <3>1, <3>2
  <2>2. PICK top \in Int : top = 255 * 256 /\ 0 <= top OBVIOUS
  <2>3. Pixel!Clamp(t, 0, top) = IF t < 0 THEN 0 ELSE IF t > top THEN top ELSE t BY <2>2, Clamped
  <2>4. PICK c \in Int : c = Pixel!Clamp(t, 0, top) /\ 0 <= c /\ c <= top BY <2>2, <2>3
  <2>5. c \div 256 \in 0..255 BY <2>2, <2>4
  <2> HIDE DEF Soft
  <2> QED BY <2>1, <2>2, <2>4, <2>5
<1>7. \A v \in 0..255 : img \in PlanesOf(w, h, v, v) => \A y \in 0..(h - 1), x \in 0..(w - 1) : img[y][x] = v /\ Sharp(x, y) = v
  <2> SUFFICES ASSUME NEW v \in 0..255, img \in PlanesOf(w, h, v, v), NEW y \in 0..(h - 1), NEW x \in 0..(w - 1)
               PROVE  img[y][x] = v /\ Sharp(x, y) = v
    OBVIOUS
  <2>1. \A j \in 0..(h - 1), i \in 0..(w - 1) : img[j][i] = v
    <3>1. \A j \in 0..(h - 1), i \in 0..(w - 1) : img[j][i] \in v..v BY DEF PlanesOf
    <3> QED BY <3>1
  <2>2. \A j \in 0..(h - 1), i \in 0..(w - 1) : soft[j][i] = v
    <3> SUFFICES ASSUME NEW j \in 0..(h - 1), NEW i \in 0..(w - 1) PROVE soft[j][i] = v OBVIOUS
    <3>1. soft[j][i] = IF w = 1 THEN img[j][i]
                       ELSE Pixel!Tap3(img[j][Pixel!Max({0, i - 1})], img[j][i], img[j][Pixel!Min({i + 1, w - 1})])
      BY DEF Pixel!GaussRow
    <3> HIDE DEF soft
    <3>2. img[j][Pixel!Max({0, i - 1})] = v /\ img[j][i] = v /\ img[j][Pixel!Min({i + 1, w - 1})] = v BY <1>n, <2>1
    <3>3. Pixel!Tap3(v, v, v) = v BY TapOfFlat
    <3> QED BY <3>1, <3>2, <3>3
  <2> HIDE DEF soft
  <2>3. Soft(x, y) = v
    <3>1. soft[Pixel!Max({0, y - 1})][x] = v /\ soft[y][x] = v /\ soft[Pixel!Min({y + 1, h - 1})][x] = v BY <1>n, <2>2
    <3>2. Pixel!Tap3(v, v, v) = v BY TapOfFlat
    <3> QED BY <3>1, <3>2
  <2> HIDE DEF Soft
  <2>4. PICK t \in Int : t = v * 256 /\ t >= 0 /\ t <= 255 * 256 /\ t \div 256 = v OBVIOUS
  <2>5. img[y][x] * 256 + amountQ * (img[y][x] - Soft(x, y)) = t
    <3>1. amountQ * (v - v) = 0 OBVIOUS
    <3>2. img[y][x] = v BY <2>1
    <3>3. v * 256 + amountQ * (v - v) = v * 256 BY <3>1
    <3> QED BY <2>3, <2>4, <3>2, <3>3
  <2>6. PICK top \in Int : top = 255 * 256 /\ 0 <= top OBVIOUS
  <2>7. Pixel!Clamp(t, 0, top) = t BY <2>4, <2>6, Clamped
  <2> QED BY <2>1, <2>4, <2>5, <2>6, <2>7
<1> HIDE DEF Sharp
<1>8. \A y \in 0..(h - 1), x \in 0..(w - 1) : sharp[y][x] \in 0..255
  <2>1. \A y \in 0..(h - 1), x \in 0..(w - 1) : sharp[y][x] = IF amountQ = 0 THEN img[y][x] ELSE Sharp(x, y) BY <1>1
  <2> QED BY <1>2, <1>6, <2>1
<1>9. \A v \in 0..255 : img \in PlanesOf(w, h, v, v) => sharp = img
  <2> SUFFICES ASSUME NEW v \in 0..255, img \in PlanesOf(w, h, v, v) PROVE sharp = img OBVIOUS
  <2>1. \A y \in 0..(h - 1), x \in 0..(w - 1) : (IF amountQ = 0 THEN img[y][x] ELSE Sharp(x, y)) = img[y][x] BY <1>7
  <2> QED BY <1>1, <1>a, <2>1
<1> QED BY <1>3, <1>8, <1>9 DEF sharp

(***************************************************************************)
(* The bytes of a frame that comes back from the GPU are read from where   *)
(* their own pixels were staged, whatever the width: past the padding of   *)
(* every row before, and inside their own.                                 *)
(***************************************************************************)
LEMMA CopiesOwnPixel ==
    ASSUME NEW w \in Nat \ {0}, NEW h \in Nat \ {0}, NEW x \in 0..(w - 1), NEW y \in 0..(h - 1), NEW c \in 0..2
    PROVE  LET byte == 3 * (y * w + x) + c
               from == Pixel!StripSource(w, byte)
           IN  /\ from = Pixel!Staged(w, x, y, c)
               /\ from < (y + 1) * Pixel!PaddedBytesPerRow(w)
               /\ from < Pixel!StagingBytes(w, h)
               /\ Pixel!UploadSource(4 * (y * w + x) + c) = byte
<1> DEFINE pad == Pixel!PaddedBytesPerRow(w)
<1>1. pad \in Nat /\ pad >= 4 * w
  <2>1. PICK n \in Nat : n = 4 * w OBVIOUS
  <2>2. n % 256 \in 0..255 BY <2>1
  <2>3. pad = IF n % 256 = 0 THEN n ELSE n + (256 - (n % 256)) BY <2>1 DEF Pixel!PaddedBytesPerRow, Pixel!CopyAlignment
  <2> HIDE DEF pad
  <2> QED BY <2>1, <2>2, <2>3
<1> HIDE DEF pad
<1>2. PICK k \in Nat, row \in Nat \ {0}, i \in Nat : /\ row = 3 * w /\ i = 3 * x + c /\ i < row
                                                     /\ k = 3 * (y * w + x) + c /\ k = y * row + i
  <2>1. PICK b \in Nat : b = y * w /\ y * (3 * w) = 3 * b
    <3>1. y * w \in Nat /\ y * (3 * w) = 3 * (y * w) OBVIOUS
    <3> QED BY <3>1
  <2> QED BY <2>1
<1>3. k \div row = y /\ k % row = i
  <2>1. PICK q \in Int, m \in Int : q = k \div row /\ m = k % row /\ k = row * q + m /\ 0 <= m /\ m < row
    <3>1. k \div row \in Int /\ k = row * (k \div row) + (k % row) /\ k % row \in 0..(row - 1) OBVIOUS
    <3> QED BY <3>1
  <2>2. PICK a \in Int, b \in Int : a = q * row /\ b = y * row /\ (q + 1) * row = a + row /\ (y + 1) * row = b + row /\ row * q = a
    OBVIOUS
  <2>3. q * row < (y + 1) * row /\ y * row < (q + 1) * row BY <1>2, <2>1, <2>2
  <2>4. q < y + 1 /\ y < q + 1
    <3>1. q + 1 \in Int /\ y + 1 \in Int OBVIOUS
    <3> QED BY <2>3, <3>1, MultiplesOrdered
  <2>5. q = y BY <2>4
  <2>6. q * row = y * row BY <2>5
  <2>7. m = i BY <1>2, <2>1, <2>2, <2>6
  <2> QED BY <2>1, <2>5, <2>7
<1>4. i \div 3 = x /\ i % 3 = c BY <1>2
<1>5. Pixel!StripSource(w, k) = y * pad + 4 * x + c BY <1>2, <1>3, <1>4 DEF Pixel!StripSource, pad
<1>6. Pixel!Staged(w, x, y, c) = y * pad + 4 * x + c BY DEF Pixel!Staged, pad
<1>7. PICK p \in Nat, s \in Nat : p = y * pad /\ (y + 1) * pad = p + pad /\ s = h * pad /\ s >= p + pad
  <2>1. PICK e \in Nat : h = y + 1 + e BY SMT
  <2>2. h * pad = (y + 1) * pad + e * pad /\ e * pad \in Nat /\ (y + 1) * pad = y * pad + pad /\ y * pad \in Nat BY <1>1, <2>1
  <2> QED BY <1>1, <2>2
<1>8. Pixel!StagingBytes(w, h) = s
  <2>1. pad * h = h * pad BY <1>1
  <2> QED BY <1>7, <2>1 DEF Pixel!StagingBytes, pad
<1>9. PICK n \in Nat : n = y * w + x OBVIOUS
<1>10. Pixel!UploadSource(4 * n + c) = 3 * n + c
  <2>1. (4 * n + c) % 4 = c /\ (4 * n + c) \div 4 = n /\ c # 3 OBVIOUS
  <2> QED BY <2>1 DEF Pixel!UploadSource
<1>11. y * pad + 4 * x + c < (y + 1) * pad /\ y * pad + 4 * x + c < s BY <1>1, <1>7
<1> QED BY <1>2, <1>5, <1>6, <1>8, <1>9, <1>10, <1>11 DEF pad

\* Frames on their way out.
Picture == INSTANCE Frames

\* What is cut off to a byte.
LEMMA CutToByte == \A v \in Int : Picture!Byte256(v) = IF v < 0 THEN 0 ELSE IF v > 255 THEN 255 ELSE v
<1> SUFFICES ASSUME NEW v \in Int PROVE Picture!Byte256(v) = IF v < 0 THEN 0 ELSE IF v > 255 THEN 255 ELSE v OBVIOUS
<1>1. \A a, b \in Int : Picture!Max({a, b}) = (IF a >= b THEN a ELSE b) /\ Picture!Min({a, b}) = (IF a <= b THEN a ELSE b)
  <2> SUFFICES ASSUME NEW a \in Int, NEW b \in Int
               PROVE Picture!Max({a, b}) = (IF a >= b THEN a ELSE b) /\ Picture!Min({a, b}) = (IF a <= b THEN a ELSE b)
    OBVIOUS
  <2>1. CASE a >= b BY <2>1 DEF Picture!Max, Picture!Min
  <2>2. CASE a < b BY <2>2 DEF Picture!Max, Picture!Min
  <2> QED BY <2>1, <2>2
<1>2. Picture!Min({v, 255}) = IF v <= 255 THEN v ELSE 255 BY <1>1
<1>3. PICK m \in Int : m = Picture!Min({v, 255}) BY <1>2
<1>4. Picture!Max({0, m}) = IF 0 >= m THEN 0 ELSE m BY <1>1
<1> QED BY <1>2, <1>3, <1>4 DEF Picture!Byte256, Picture!Clamp

\* A colour, a thousand times its luma and a million times its chroma.
Colour == (0..255) \X (0..255) \X (0..255)
ExactY(c) == 299 * c[1] + 587 * c[2] + 114 * c[3]
ExactCb(c) == 500000 * c[3] - 168736 * c[1] - 331264 * c[2]
ExactCr(c) == 500000 * c[1] - 418688 * c[2] - 81312 * c[3]
Between(e, lo, hi) == lo <= e /\ e <= hi

\* The luma is within 1 of BT.601, the chroma within 0.7, of which 0.2 are the coefficients'.
CloseTo(c, y, cb, cr) ==
    /\ y \in 0..255 /\ cb \in 0..255 /\ cr \in 0..255
    /\ Between(1000 * y - ExactY(c), -1000, 1000)
    /\ Between(1000000 * (cb - 128) - ExactCb(c), -700000, 700000)
    /\ Between(1000000 * (cr - 128) - ExactCr(c), -700000, 700000)
    /\ c[1] = c[2] /\ c[2] = c[3] => y = c[1] /\ cb = 128 /\ cr = 128

\* So is every pixel, whatever its bytes; and a grey has its own luma and no chroma.
LEMMA PixelColours ==
    ASSUME NEW c \in Colour
    PROVE  CloseTo(c, Picture!Luma(c), Picture!Cb(c), Picture!Cr(c))
<1>1. PICK r \in 0..255, g \in 0..255, b \in 0..255 : c[1] = r /\ c[2] = g /\ c[3] = b
  <2>1. c[1] \in 0..255 /\ c[2] \in 0..255 /\ c[3] \in 0..255 BY DEF Colour
  <2> QED BY <2>1
<1>2. PICK y \in Int, u \in Int, v \in Int :
         /\ y = (77 * r + 150 * g + 29 * b + 128) \div 256
         /\ u = (-43 * r - 85 * g + 128 * b + 128) \div 256
         /\ v = (128 * r - 107 * g - 21 * b + 128) \div 256
  OBVIOUS
<1>3. /\ 256 * y <= 77 * r + 150 * g + 29 * b + 128 /\ 77 * r + 150 * g + 29 * b + 128 < 256 * y + 256
      /\ 256 * u <= -43 * r - 85 * g + 128 * b + 128 /\ -43 * r - 85 * g + 128 * b + 128 < 256 * u + 256
      /\ 256 * v <= 128 * r - 107 * g - 21 * b + 128 /\ 128 * r - 107 * g - 21 * b + 128 < 256 * v + 256
  BY <1>2
<1>4. y \in 0..255 /\ u + 128 \in 0..256 /\ v + 128 \in 0..256 BY <1>3
<1>5. /\ Picture!Luma(c) = y
      /\ Picture!Cb(c) = IF u + 128 > 255 THEN 255 ELSE u + 128
      /\ Picture!Cr(c) = IF v + 128 > 255 THEN 255 ELSE v + 128
  BY <1>1, <1>2, <1>4, CutToByte DEF Picture!Luma, Picture!Cb, Picture!Cr
<1>6. PICK k \in Int, m \in Int, n \in Int :
         /\ k = 299 * r + 587 * g + 114 * b /\ m = 500000 * b - 168736 * r - 331264 * g /\ n = 500000 * r - 418688 * g - 81312 * b
         /\ ExactY(c) = k /\ ExactCb(c) = m /\ ExactCr(c) = n
  <2>1. /\ 299 * r + 587 * g + 114 * b \in Int /\ 500000 * b - 168736 * r - 331264 * g \in Int
        /\ 500000 * r - 418688 * g - 81312 * b \in Int
    BY SMT
  <2>2. /\ ExactY(c) = 299 * r + 587 * g + 114 * b /\ ExactCb(c) = 500000 * b - 168736 * r - 331264 * g
        /\ ExactCr(c) = 500000 * r - 418688 * g - 81312 * b
    BY SMT, <1>1 DEF ExactY, ExactCb, ExactCr
  <2> QED BY SMT, <2>1, <2>2
<1>7. -1000 <= 1000 * y - k /\ 1000 * y - k <= 1000 BY SMT, <1>3, <1>6
<1>8. -700000 <= 1000000 * u - m /\ 1000000 * u - m <= 700000 BY SMT, <1>3, <1>6
<1>9. -700000 <= 1000000 * v - n /\ 1000000 * v - n <= 700000 BY SMT, <1>3, <1>6
<1>10. PICK s \in 0..255, t \in 0..255 :
          /\ s = (IF u + 128 > 255 THEN 255 ELSE u + 128) /\ t = (IF v + 128 > 255 THEN 255 ELSE v + 128)
          /\ Picture!Cb(c) = s /\ Picture!Cr(c) = t
  <2>1. (IF u + 128 > 255 THEN 255 ELSE u + 128) \in 0..255 BY <1>4
  <2>2. (IF v + 128 > 255 THEN 255 ELSE v + 128) \in 0..255 BY <1>4
  <2> QED BY <1>5, <2>1, <2>2
<1>11. -700000 <= 1000000 * (s - 128) - m /\ 1000000 * (s - 128) - m <= 700000
  <2>1. u + 128 > 255 => -700000 <= 1000000 * 127 - m BY SMT, <1>3, <1>4, <1>6
  <2> QED BY SMT, <1>8, <1>10, <2>1
<1>12. -700000 <= 1000000 * (t - 128) - n /\ 1000000 * (t - 128) - n <= 700000
  <2>1. v + 128 > 255 => -700000 <= 1000000 * 127 - n BY SMT, <1>3, <1>4, <1>6
  <2> QED BY SMT, <1>9, <1>10, <2>1
<1>13. r = g /\ g = b => y = r /\ s = 128 /\ t = 128
  <2>1. r = g /\ g = b => y = r /\ u = 0 /\ v = 0 BY <1>3
  <2> QED BY <1>10, <2>1
<1>14. Between(1000 * y - k, -1000, 1000) BY SMT, <1>7 DEF Between
<1>15. Between(1000000 * (s - 128) - m, -700000, 700000) BY SMT, <1>11 DEF Between
<1>16. Between(1000000 * (t - 128) - n, -700000, 700000) BY SMT, <1>12 DEF Between
<1> QED BY SMT, <1>1, <1>4, <1>5, <1>6, <1>10, <1>13, <1>14, <1>15, <1>16 DEF CloseTo

(***************************************************************************)
(* The two pixels of a word of rgb_to_yuy2, whatever their bytes: each has *)
(* its own luma, and the chroma they share is less than 0.7 below and less *)
(* than 1.2 above their mean, since it is rounded up once more.  Two greys *)
(* stay exactly the greys they were.                                       *)
(***************************************************************************)
LEMMA WordColours ==
    ASSUME NEW p \in Colour, NEW q \in Colour
    PROVE  LET word == Picture!Yuy2Word(p, q)
           IN  /\ \A i \in 1..4 : word[i] \in 0..255
               /\ Between(1000 * word[1] - ExactY(p), -1000, 1000)
               /\ Between(1000 * word[3] - ExactY(q), -1000, 1000)
               /\ Between(2000000 * (word[2] - 128) - ExactCb(p) - ExactCb(q), -1400000, 2400000)
               /\ Between(2000000 * (word[4] - 128) - ExactCr(p) - ExactCr(q), -1400000, 2400000)
               /\ p[1] = p[2] /\ p[2] = p[3] /\ q[1] = q[2] /\ q[2] = q[3] => word = <<p[1], 128, q[1], 128>>
<1>1. PICK a, b, c : a = Picture!Luma(p) /\ b = Picture!Cb(p) /\ c = Picture!Cr(p) /\ CloseTo(p, a, b, c) BY PixelColours
<1>2. PICK d, e, f : d = Picture!Luma(q) /\ e = Picture!Cb(q) /\ f = Picture!Cr(q) /\ CloseTo(q, d, e, f) BY PixelColours
<1>0. a \in 0..255 /\ b \in 0..255 /\ c \in 0..255 /\ d \in 0..255 /\ e \in 0..255 /\ f \in 0..255
  BY SMT, <1>1, <1>2 DEF CloseTo
<1>3. Picture!Yuy2Word(p, q) = <<a, (b + e + 1) \div 2, d, (c + f + 1) \div 2>> BY SMT, <1>1, <1>2 DEF Picture!Yuy2Word
<1>4. \A m, n \in Int : 2 * ((m + n + 1) \div 2) - m - n \in {0, 1} /\ (m + n + 1) \div 2 \in Int OBVIOUS
<1>5. PICK u \in Int, v \in Int : /\ u = (b + e + 1) \div 2 /\ v = (c + f + 1) \div 2
                                  /\ 2 * u - b - e \in {0, 1} /\ 2 * v - c - f \in {0, 1}
  BY <1>0, <1>4
<1>6. u \in 0..255 /\ v \in 0..255 BY <1>0, <1>5
<1>7. \A i \in Colour : ExactCb(i) \in Int /\ ExactCr(i) \in Int
  <2> SUFFICES ASSUME NEW i \in Colour PROVE ExactCb(i) \in Int /\ ExactCr(i) \in Int OBVIOUS
  <2>1. i[1] \in Int /\ i[2] \in Int /\ i[3] \in Int BY DEF Colour
  <2> QED BY SMT, <2>1 DEF ExactCb, ExactCr
<1>8. PICK k \in Int, l \in Int, m \in Int, n \in Int : k = ExactCb(p) /\ l = ExactCb(q) /\ m = ExactCr(p) /\ n = ExactCr(q)
  BY <1>7
<1>9. /\ -1400000 <= 2000000 * (u - 128) - k - l /\ 2000000 * (u - 128) - k - l <= 2400000
      /\ -1400000 <= 2000000 * (v - 128) - m - n /\ 2000000 * (v - 128) - m - n <= 2400000
  <2>1. /\ -700000 <= 1000000 * (b - 128) - k /\ 1000000 * (b - 128) - k <= 700000
        /\ -700000 <= 1000000 * (c - 128) - m /\ 1000000 * (c - 128) - m <= 700000
    BY SMT, <1>1, <1>8 DEF Between, CloseTo
  <2>2. /\ -700000 <= 1000000 * (e - 128) - l /\ 1000000 * (e - 128) - l <= 700000
        /\ -700000 <= 1000000 * (f - 128) - n /\ 1000000 * (f - 128) - n <= 700000
    BY SMT, <1>2, <1>8 DEF Between, CloseTo
  <2>3. 2 * u = b + e \/ 2 * u = b + e + 1 BY SMT, <1>0, <1>5
  <2>4. 2 * v = c + f \/ 2 * v = c + f + 1 BY SMT, <1>0, <1>5
  <2>5. -1400000 <= 2000000 * (u - 128) - k - l /\ 2000000 * (u - 128) - k - l <= 2400000 BY SMT, <1>0, <2>1, <2>2, <2>3
  <2>6. -1400000 <= 2000000 * (v - 128) - m - n /\ 2000000 * (v - 128) - m - n <= 2400000 BY SMT, <1>0, <2>1, <2>2, <2>4
  <2> QED BY SMT, <2>5, <2>6
<1>10. /\ Between(2000000 * (u - 128) - ExactCb(p) - ExactCb(q), -1400000, 2400000)
       /\ Between(2000000 * (v - 128) - ExactCr(p) - ExactCr(q), -1400000, 2400000)
  BY SMT, <1>8, <1>9 DEF Between
<1>11. (b = 128 /\ e = 128 => u = 128) /\ (c = 128 /\ f = 128 => v = 128) BY <1>0, <1>5
<1>12. PICK word : word = Picture!Yuy2Word(p, q) OBVIOUS
<1>13. word = <<a, u, d, v>> BY SMT, <1>3, <1>5, <1>12
<1>14. word[1] = a /\ word[2] = u /\ word[3] = d /\ word[4] = v BY <1>13
<1>15. \A i \in 1..4 : word[i] \in 0..255 BY <1>0, <1>6, <1>14
<1>16. p[1] = p[2] /\ p[2] = p[3] /\ q[1] = q[2] /\ q[2] = q[3] => word = <<p[1], 128, q[1], 128>>
  BY SMT, <1>1, <1>2, <1>11, <1>13 DEF CloseTo
<1>17. /\ Between(1000 * word[1] - ExactY(p), -1000, 1000)
       /\ Between(1000 * word[3] - ExactY(q), -1000, 1000)
       /\ Between(2000000 * (word[2] - 128) - ExactCb(p) - ExactCb(q), -1400000, 2400000)
       /\ Between(2000000 * (word[4] - 128) - ExactCr(p) - ExactCr(q), -1400000, 2400000)
  BY SMT, <1>1, <1>2, <1>10, <1>14 DEF CloseTo
<1> QED BY SMT, <1>12, <1>15, <1>16, <1>17
==============================================================================
