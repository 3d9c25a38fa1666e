------------------------------ MODULE Backends ------------------------------
(***************************************************************************)
(* What blurs and what infers: the choice the environment forces, the      *)
(* factories, the one-way fallback from a GPU to the CPU, the CPU and wgpu *)
(* blur backends, and the two inference engines with their model           *)
(* configuration.  Operators only; dimensions are pairs, and what a        *)
(* library or a driver answers is an argument.                             *)
(***************************************************************************)
EXTENDS Integers, Sequences

(***************************************************************************)
(* overrides.rs.  A value of the environment as it reads once trimmed and  *)
(* in lower case; "unset" stands for a variable that is not there.         *)
(***************************************************************************)
Normalised(raw) == IF raw = "" THEN "unset" ELSE raw
ParseInference(raw) ==
    IF Normalised(raw) \in {"cpu", "openvino"} THEN Normalised(raw) ELSE "auto"
ParseBlur(raw) == IF Normalised(raw) \in {"cpu", "wgpu"} THEN Normalised(raw) ELSE "auto"

\* Read at the first use and kept for the life of the process.
Overrides(kept, env) ==
    IF kept # <<>> THEN kept
    ELSE [inference |-> ParseInference(env.inference), blur |-> ParseBlur(env.blur)]

(***************************************************************************)
(* The blur backends: which of the two is there, the size each has been    *)
(* prepared for, and whether the GPU has been given up.                    *)
(***************************************************************************)
Unprepared == <<0, 0>>
CpuBackend == [kind |-> "cpu", fallen |-> FALSE, gpu |-> Unprepared, cpu |-> Unprepared]
WgpuBackend == [CpuBackend EXCEPT !.kind = "wgpu"]
\* wrap_with_fallback: with nowhere to count, the GPU stands alone.
WithFallback(counters) ==
    IF counters THEN [CpuBackend EXCEPT !.kind = "sticky"] ELSE WgpuBackend

Refuse == [ok |-> FALSE]
Made(backend) == [ok |-> TRUE, backend |-> backend]

\* probe: an adapter is found, and gives a device.
Probes(machine) == machine.gpu = "works"

\* build_wgpu_forced: a GPU that was asked for is never replaced silently.
BuildForced(machine) ==
    IF machine.feature /\ Probes(machine) THEN Made(WithFallback(machine.counters)) ELSE Refuse

\* build_blur_backend; auto does not look at the GPU.
BuildBlur(choice, machine) ==
    IF choice = "wgpu" THEN BuildForced(machine) ELSE Made(CpuBackend)

TooSmall(dims) == dims[1] < 2 \/ dims[2] < 2

\* prepare of either backend; the wrapper prepares both, so that the CPU is
\* ready for the frame the GPU loses.
PrepareBackend(backend, dims) ==
    IF TooSmall(dims) THEN Refuse
    ELSE Made([backend EXCEPT
                  !.gpu = IF backend.kind # "cpu" /\ ~backend.fallen THEN dims ELSE @,
                  !.cpu = IF backend.kind # "wgpu" THEN dims ELSE @])

CpuBlurs(backend, dims) == dims = backend.cpu
\* The GPU is not used for a blur that leaves the frame as it is.
WgpuBlurs(backend, dims, radius, passes, works) ==
    dims = backend.gpu /\ (radius = 0 \/ passes = 0 \/ works)

\* blur: [blurred, backend, counted].  The first failure of the GPU gives it up
\* for good, is counted, and the same frame goes to the CPU.
BlurOn(backend, dims, radius, passes, works) ==
    LET onGpu == backend.kind # "cpu" /\ ~backend.fallen
        gpu   == WgpuBlurs(backend, dims, radius, passes, works)
    IN  IF ~onGpu THEN
            [blurred |-> CpuBlurs(backend, dims), backend |-> backend, counted |-> 0]
        ELSE IF gpu \/ backend.kind = "wgpu" THEN
            [blurred |-> gpu, backend |-> backend, counted |-> 0]
        ELSE
            [blurred |-> CpuBlurs(backend, dims),
             backend |-> [backend EXCEPT !.fallen = TRUE, !.gpu = Unprepared], counted |-> 1]

(***************************************************************************)
(* model_config.rs and loader.rs.                                          *)
(***************************************************************************)
DefaultModel(name, width, height) ==
    [name |-> name, width |-> width, height |-> height, layout |-> "nhwc", dtype |-> "f32", color |-> "rgb",
     scale |-> "1/255", zeroPoint |-> 0, outputIndex |-> 0, outputLayout |-> "hw",
     outputType |-> "mask", personClass |-> -1, threshold |-> -1]

\* input_color in any case; a name that is no pixel format refuses the file.
PixelFormats == {"rgb", "rgba", "bgr", "yuy2", "nv12", "gray8"}

\* The required numbers, and what a field left out takes.
ModelFrom(table) ==
    LET default == DefaultModel(table.name, table.width, table.height)
    IN  [f \in DOMAIN default |-> IF f \in DOMAIN table THEN table[f] ELSE default[f]]

\* validate; -1 stands for a value that is not given, hundredths for a threshold.
ModelValid(model) ==
    /\ model.width > 0 /\ model.height > 0
    /\ model.scale \notin {"0", "inf", "nan"}
    /\ model.outputType = "category_mask" => model.personClass # -1
    /\ model.threshold # -1 => model.threshold \in 0..100

\* load: a missing file is told apart from one that cannot be read or used.
LoadModelConfig(file) ==
    CASE file.state = "missing"    -> [ok |-> FALSE, error |-> "ModelNotFound"]
      [] file.state = "unreadable" -> [ok |-> FALSE, error |-> "InvalidModelConfig"]
      [] file.state = "text" ->
            IF /\ {"name", "width", "height"} \subseteq DOMAIN file.table
               /\ DOMAIN file.table \subseteq DOMAIN DefaultModel("", 1, 1)
               /\ ModelFrom(file.table).color \in PixelFormats
               /\ ModelValid(ModelFrom(file.table))
            THEN [ok |-> TRUE, model |-> ModelFrom(file.table)]
            ELSE [ok |-> FALSE, error |-> "InvalidModelConfig"]

\* load_sidecar_or_placeholder: without a sidecar a model of one pixel.
LoadSidecar(file) ==
    IF file.state = "missing" THEN [ok |-> TRUE, model |-> DefaultModel("<unknown>", 1, 1)]
    ELSE LoadModelConfig(file)

(***************************************************************************)
(* The engines.  An installation is what the libraries, the model file and *)
(* the device answer while an engine is being loaded.                      *)
(***************************************************************************)
Failed(error) == [ok |-> FALSE, error |-> error]
Engine(kind)  == [ok |-> TRUE, kind |-> kind]

\* OnnxEngine::load: the first thing that is wrong names the error; the runtime
\* is found missing from the words of the message.
OnnxLoad(at, outputIndex) ==
    IF at.model = "missing" THEN Failed("ModelNotFound")
    ELSE IF ~at.onnxLibrary THEN Failed("BackendUnavailable")
    ELSE IF at.model = "garbage" \/ at.inputs = 0 THEN Failed("ModelLoadFailed")
    ELSE IF outputIndex >= at.outputs THEN Failed("InvalidModelConfig")
    ELSE Engine("onnx")

\* OpenVinoEngine::load; the device may refuse a model both engines can read.
OpenVinoLoad(at, outputIndex) ==
    IF at.model = "missing" THEN Failed("ModelNotFound")
    ELSE IF ~at.openvinoLibrary THEN Failed("BackendUnavailable")
    ELSE IF at.model = "garbage" \/ at.inputs = 0 THEN Failed("ModelLoadFailed")
    ELSE IF outputIndex >= at.outputs THEN Failed("InvalidModelConfig")
    ELSE IF ~at.compiles THEN Failed("ModelLoadFailed")
    ELSE Engine("openvino")

BuildAuto(at, outputIndex) ==
    IF at.openvinoFeature /\ OpenVinoLoad(at, outputIndex).ok THEN Engine("openvino")
    ELSE OnnxLoad(at, outputIndex)

BuildOpenVino(at, outputIndex) ==
    IF at.openvinoFeature THEN OpenVinoLoad(at, outputIndex) ELSE Failed("BackendUnavailable")

BuildEngine(choice, at, outputIndex) ==
    CASE choice = "cpu"      -> OnnxLoad(at, outputIndex)
      [] choice = "openvino" -> BuildOpenVino(at, outputIndex)
      [] choice = "auto"     -> BuildAuto(at, outputIndex)

(***************************************************************************)
(* infer of OpenVinoEngine: the input tensor is kept and bound again only  *)
(* when the shape changes.  cached is its shape (<<>>: none), bound that   *)
(* of the tensor the request reads, step the call that fails.              *)
(***************************************************************************)
NeedsRealloc(cached, shape) == cached # shape

OpenVinoInfer(engine, shape, step) ==
    LET realloc == NeedsRealloc(engine.cached, shape)
        bound   == [cached |-> shape, bound |-> shape]
        kept    == IF realloc THEN bound ELSE engine
    IN  IF realloc /\ step \in {"allocate", "bind"} THEN [ok |-> FALSE, engine |-> engine, read |-> <<>>]
        ELSE IF step \in {"write", "infer", "read"} THEN [ok |-> FALSE, engine |-> kept, read |-> <<>>]
        ELSE [ok |-> TRUE, engine |-> kept, read |-> kept.bound]

\* infer of OnnxEngine builds a tensor for every call.
OnnxInfer(len, elements, step, outputIndex, returned) ==
    len = elements /\ step = "none" /\ outputIndex < returned

\* StickyInferenceFallback: the decorator of the tests; no factory builds it.
StickyInfer(fallen, primaryWorks, secondaryWorks) ==
    IF fallen THEN [inferred |-> secondaryWorks, fallen |-> TRUE, counted |-> 0]
    ELSE IF primaryWorks THEN [inferred |-> TRUE, fallen |-> FALSE, counted |-> 0]
    ELSE [inferred |-> secondaryWorks, fallen |-> TRUE, counted |-> 1]
=============================================================================
