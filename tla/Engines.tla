------------------------------- MODULE Engines -------------------------------
(***************************************************************************)
(* The inference engine of a segmenter, from the sidecar that describes    *)
(* the model to the tensors of every call, and the one-way fallback        *)
(* between two engines.                                                    *)
(***************************************************************************)
EXTENDS Backends

VARIABLES
    at,        \* the choice and what is installed
    sidecar,   \* the model's .toml file
    engine,    \* what building came to
    tensors,   \* OpenVINO: shape of the kept tensor, and of the one bound
    inferred,  \* the last call: the shape asked for, and the one that was read
    sticky     \* the fallback decorator: given up, and how often counted

vars == <<at, sidecar, engine, tensors, inferred, sticky>>

Unbound == <<>>
NoTensors == [cached |-> Unbound, bound |-> Unbound]
NotAsked == [ok |-> FALSE, shape |-> Unbound, read |-> Unbound]

Installations ==
    [choice : {"auto", "cpu", "openvino"}, openvinoFeature : BOOLEAN, openvinoLibrary : BOOLEAN,
     onnxLibrary : BOOLEAN, model : {"missing", "garbage", "network"}, inputs : {0, 1},
     outputs : {1, 2}, compiles : BOOLEAN]

BareInstallation ==
    [choice |-> "auto", openvinoFeature |-> FALSE, openvinoLibrary |-> FALSE, onnxLibrary |-> TRUE,
     model |-> "network", inputs |-> 1, outputs |-> 1, compiles |-> TRUE]

Minimal == [name |-> "m", width |-> 4, height |-> 4]
With(key, value) == [k \in DOMAIN Minimal \cup {key} |-> IF k = key THEN value ELSE Minimal[k]]
Sidecars ==
    {[state |-> s, table |-> Minimal] : s \in {"missing", "unreadable", "text"}} \cup
    {[state |-> "text", table |-> t] :
        t \in {[name |-> "m", width |-> 4], With("color", "purple"), With("color", "bgr"),
               With("outputIndex", 1), With("width", 0), With("scale", "0"), With("scale", "nan"),
               With("outputType", "category_mask"), With("threshold", 101), With("typo", 1)}}

Init ==
    /\ at = BareInstallation
    /\ sidecar = [state |-> "missing", table |-> Minimal]
    /\ engine = Failed("none")
    /\ tensors = NoTensors
    /\ inferred = NotAsked
    /\ sticky = [fallen |-> FALSE, counted |-> 0]

(***************************************************************************)
(* Building, at the start of a run: the sidecar first, then an engine with  *)
(* its output index.                                                       *)
(***************************************************************************)
Load(installation, file) ==
    /\ at' = installation
    /\ sidecar' = file
    /\ engine' = LET described == LoadSidecar(file)
                 IN  IF described.ok
                     THEN BuildEngine(installation.choice, installation, described.model.outputIndex)
                     ELSE Failed(described.error)
    /\ tensors' = NoTensors
    /\ inferred' = NotAsked
    /\ sticky' = [fallen |-> FALSE, counted |-> 0]

Infer(shape, step) ==
    /\ engine.ok
    /\ IF engine.kind = "openvino"
       THEN LET call == OpenVinoInfer(tensors, shape, step)
            IN  /\ tensors' = call.engine
                /\ inferred' = [ok |-> call.ok, shape |-> shape, read |-> call.read]
       ELSE LET ok == OnnxInfer(1, 1, step, LoadSidecar(sidecar).model.outputIndex, at.outputs)
            IN  /\ inferred' = [ok |-> ok, shape |-> shape, read |-> shape]
                /\ UNCHANGED tensors
    /\ UNCHANGED <<at, sidecar, engine, sticky>>

Fallback(primaryWorks, secondaryWorks) ==
    /\ engine.ok
    /\ LET call == StickyInfer(sticky.fallen, primaryWorks, secondaryWorks)
       IN  sticky' = [fallen |-> call.fallen, counted |-> sticky.counted + call.counted]
    /\ UNCHANGED <<at, sidecar, engine, tensors, inferred>>

Next ==
    \/ \E installation \in Installations, file \in Sidecars :
          /\ installation # BareInstallation => file = [state |-> "text", table |-> With("outputIndex", 1)]
          /\ Load(installation, file)
    \/ \E shape \in {<<1, 4>>, <<1, 8>>} :
          \E step \in {"none", "allocate", "bind", "write", "infer", "read"} : Infer(shape, step)
    \/ \E primary, secondary \in BOOLEAN : Fallback(primary, secondary)

Spec == Init /\ [][Next]_vars

(***************************************************************************)
(* What the factories and the engines promise.                             *)
(***************************************************************************)
\* A forced engine is never replaced by the other, and `auto` only fails when both do.
BuiltAsChosen ==
    engine # Failed("none") /\ LoadSidecar(sidecar).ok =>
        LET index == LoadSidecar(sidecar).model.outputIndex
            onnx  == OnnxLoad(at, index).ok
            openvino == at.openvinoFeature /\ OpenVinoLoad(at, index).ok
        IN  CASE at.choice = "cpu"      -> engine.ok = onnx /\ (engine.ok => engine.kind = "onnx")
              [] at.choice = "openvino" -> engine.ok = openvino /\ (engine.ok => engine.kind = "openvino")
              [] at.choice = "auto"     -> engine.ok = (onnx \/ openvino)

\* A fault of the model is called by the same name whichever engine looks at it.
SameVerdict ==
    LET faulty == at.model # "network" \/ at.inputs = 0
    IN  engine # Failed("none") /\ faulty /\ at.onnxLibrary /\ at.openvinoLibrary /\ at.openvinoFeature
            /\ LoadSidecar(sidecar).ok =>
        engine = OnnxLoad(at, LoadSidecar(sidecar).model.outputIndex)

\* No model is loaded that validate would refuse.
SidecarChecked ==
    engine.ok => /\ sidecar.state # "unreadable"
                 /\ ModelValid(LoadSidecar(sidecar).model)
                 /\ sidecar.state = "text" => ModelFrom(sidecar.table).color \in PixelFormats

\* A result is read from a tensor of the shape that was asked for, whatever failed in
\* the calls before.
ReadsItsOwnTensor == inferred.ok => inferred.read = inferred.shape

\* The fallback is counted when it happens and only then.
FallbackCountedOnce == sticky.counted = IF sticky.fallen THEN 1 ELSE 0

EnginesHold ==
    /\ BuiltAsChosen
    /\ SameVerdict
    /\ SidecarChecked
    /\ ReadsItsOwnTensor
    /\ FallbackCountedOnce
=============================================================================
