------------------------------- MODULE MCParts -------------------------------
(***************************************************************************)
(* Parts for TLC: beside the machines, and in behaviours of its own, what  *)
(* is pure, on all small inputs: the kernels that the effects draw with    *)
(* and the choices of a camera and a mode.                                 *)
(***************************************************************************)
EXTENDS Parts

\* A frame too small to scale down, one that only halves, one with room.
SomeSizes == {<<1, 2>>, <<4, 3>>, <<16, 12>>}

VARIABLES input, output, answered

kernelVars == <<input, output, answered>>

Kernel == INSTANCE KernelCases
Device == INSTANCE DeviceCases

MCInit ==
    \/ Init /\ input = [fn |-> "none"] /\ output = <<>> /\ answered = FALSE
    \/ part = "kernels" /\ AllBegin /\ Kernel!Init

MCNext ==
    \/ Next /\ UNCHANGED kernelVars
    \/ part = "kernels" /\ Kernel!Next /\ UNCHANGED vars

MCSpec == MCInit /\ [][MCNext]_<<vars, kernelVars>>

\* The camera and the mode are the best of those there are (v4l2_caps.rs), and the thread
\* of the control socket stops nowhere but where Stuck says (socket.rs).
ChoicesExact ==
    /\ (part = "daemon" /\ Daemon!Init) => Device!DevicesExact  \* of constants: once is enough
    /\ part = "plane" => Plane!StuckIsDisabled

\* The fast form of every kernel over pixels computes its definition, a camera buffer
\* becomes the frame it holds, and a placeholder gives its picture (frame_conv.rs,
\* processing/, placeholder.rs).  The mask is the model's answer, pixel by pixel;
\* largest_blob keeps its largest part and what auto_frame crops contains that
\* (segmentation.rs decode_mask, largest_blob.rs, auto_frame.rs).
KernelsExact == Kernel!PixelsExact /\ Kernel!MasksExact
=============================================================================
