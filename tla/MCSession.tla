----------------------------- MODULE MCSession -----------------------------
(* An instance of Session for TLC: one mask effect without parameters, two  *)
(* plane effects, one of which needs an image, and seven files.             *)
EXTENDS Session, TLC

Plane == {"blur", "fill"}
EffectRegistry == [k \in Kind |->
    IF k \in Planes THEN Plane ELSE IF k = "mask" THEN {"smooth"} ELSE {}]
EffectSchema == "blur" :> {"radius"} @@ "fill" :> {"path", "fit"} @@ "smooth" :> {}
EffectNeeds == "blur" :> {} @@ "fill" :> {"path"} @@ "smooth" :> {}
CorruptImage == {<<"path", "corrupt">>}
OutOfRange == {"radius", "fit", "path"} \X {"bad"} \union {"radius", "fit"} \X {"corrupt"}

\* --output on the command line.
CommandLine == [g \in {"auto", "autoCli", "path", "pathCli", "builtin"} |->
    IF g = "auto" THEN "autoCli" ELSE IF g = "path" THEN "pathCli" ELSE g]

MaskOnly == [chain |-> <<"smooth">>, table |-> None, model |-> TRUE]
Blurred == "mask" :> MaskOnly @@
    "background" :> [chain |-> <<"blur">>,
                     table |-> "blur" :> [params |-> "radius" :> "good", on |-> TRUE], model |-> FALSE]
Filled == "mask" :> MaskOnly @@
    "background" :> [chain |-> <<"fill">>,
                     table |-> "fill" :> [params |-> "path" :> "good", on |-> FALSE], model |-> FALSE]
Plain == "mask" :> MaskOnly
\* No mask: a passthrough, and nobody looks at the table without an effect.
Orphaned == "post" :> [chain |-> <<>>,
                       table |-> "blur" :> [params |-> None, on |-> TRUE], model |-> FALSE]
Maskless == "background" :> [chain |-> <<"blur">>, table |-> None, model |-> FALSE]
Modelless == "mask" :> [MaskOnly EXCEPT !.model = FALSE]

\* Of a file that is broken, the presets are those that its text holds.
Valid(g, presets) == [kind |-> "valid", globals |-> g, presets |-> presets, blamed |-> {}]
NoFile(kind) == [kind |-> kind, globals |-> "builtin", presets |-> None, blamed |-> {}]
Spoilt(kind, presets, n) == [kind |-> kind, globals |-> "auto", presets |-> presets, blamed |-> {n}]
OperatorFiles == {
    Valid("auto", "default" :> Blurred @@ "raw" :> Orphaned),
    Valid("path", "default" :> Plain @@ "raw" :> Maskless),
    Valid("auto", "default" :> Filled @@ "raw" :> Modelless),
    NoFile("broken"), NoFile("absent"),
    Spoilt("broken", "default" :> Plain @@ "raw" :> Maskless, "default"),
    Spoilt("invalid", "default" :> Plain @@ "raw" :> Orphaned, "raw") }

EditChains == {<<>>, <<"blur">>, <<"fill", "blur">>, <<"blur", "blur">>, <<"smooth">>}
=============================================================================
