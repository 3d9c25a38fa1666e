------------------------------- MODULE Devices -------------------------------
(***************************************************************************)
(* Which camera is opened, in which mode, and which outputs there are: the *)
(* queries of the kernel and of sysfs, with what they answer as arguments. *)
(* Operators only.                                                         *)
(***************************************************************************)
EXTENDS Integers, Sequences, FiniteSets, SequencesExt

(***************************************************************************)
(* v4l2_caps.rs.  A node of /dev: its name, whether it opens, and the two  *)
(* capability flags that matter.                                           *)
(***************************************************************************)
\* `video` and digits; other entries of /dev are passed over.
IsVideoNode(node) == node.form = "videoN"

ProbeCapture(node) == node.opens /\ node.capture /\ ~node.output

\* enumerate_capture_devices_in: sorted by path, here the order of the numbers.
EnumerateCapture(nodes) ==
    SetToSortSeq({n.path : n \in {m \in nodes : IsVideoNode(m) /\ ProbeCapture(m)}}, <)

NoDevice == -1
\* Fault: the first is taken when all are excluded.
PickAnyInput(candidates, exclude) ==
    LET free == SelectSeq(candidates, LAMBDA c : c \notin exclude)
    IN  IF candidates = <<>> THEN NoDevice ELSE IF free = <<>> THEN candidates[1] ELSE free[1]
PickInput(candidates, exclude) ==
    LET free == SelectSeq(candidates, LAMBDA c : c \notin exclude)
    IN  IF free = <<>> THEN NoDevice ELSE free[1]

\* compute_excludes: the operator's list and the device we publish into.
ComputeExcludes(listed, output) ==
    listed \cup (IF output.kind = "v4l2" THEN {output.path} ELSE {})

(***************************************************************************)
(* detect_native_mode: of the modes of every raw format within the cap,    *)
(* each at its best rate, the best.                                        *)
(***************************************************************************)
Raw == {"YUYV", "NV12", "RGB3", "BGR3", "RGB4", "GREY"}
MaxWidth  == 1920
MaxHeight == 1080
Tolerance == 5

\* Fault: of two rates above the preferred one, the higher.
ChooseHigherFps(a, b, prefer) ==
    IF (a <= prefer) = (b <= prefer) THEN (IF a > b THEN a ELSE b)
    ELSE IF a <= prefer THEN a ELSE b

\* The highest that does not exceed the preferred one, else the lowest.
ChooseBetterFps(a, b, prefer) ==
    CASE a <= prefer /\ b <= prefer -> IF a > b THEN a ELSE b
      [] a > prefer /\ b > prefer   -> IF a < b THEN a ELSE b
      [] a <= prefer /\ b > prefer  -> a
      [] a > prefer /\ b <= prefer  -> b

\* Rates of 0 are no rates; without any, the preferred one is assumed.
PickFps(rates, prefer) ==
    LET some == SelectSeq(rates, LAMBDA r : r # 0)
    IN  IF some = <<>> THEN prefer
        ELSE FoldLeft(LAMBDA best, r : ChooseBetterFps(best, r, prefer), some[1], Tail(some))

Candidates(modes, prefer) ==
    LET usable == SelectSeq(modes, LAMBDA m : /\ m.format \in Raw
                                              /\ m.width <= MaxWidth /\ m.height <= MaxHeight)
    IN  [i \in DOMAIN usable |->
            [width |-> usable[i].width, height |-> usable[i].height, format |-> usable[i].format,
             fps |-> PickFps(usable[i].rates, prefer)]]

FormatPriority(format) ==
    CASE format \in {"YUYV", "NV12"} -> 0
      [] format \in {"RGB3", "BGR3", "RGB4"} -> 1
      [] format = "GREY" -> 2

Distance(a, b) == IF a < b THEN b - a ELSE a - b
Floor(prefer) == IF prefer < Tolerance THEN 0 ELSE prefer - Tolerance

\* a goes before b: larger, then nearer to the rate, then cheaper to convert.
Better(a, b, prefer) ==
    LET area(m) == m.width * m.height
    IN  \/ area(a) > area(b)
        \/ area(a) = area(b) /\ Distance(a.fps, prefer) < Distance(b.fps, prefer)
        \/ /\ area(a) = area(b) /\ Distance(a.fps, prefer) = Distance(b.fps, prefer)
           /\ FormatPriority(a.format) < FormatPriority(b.format)

\* The sorts are stable: of equals, the first.
FirstBest(seq, before(_, _)) ==
    seq[CHOOSE i \in DOMAIN seq :
            /\ \A j \in DOMAIN seq : ~before(seq[j], seq[i])
            /\ \A j \in 1..(i - 1) : \E k \in DOMAIN seq : before(seq[k], seq[j])]

NoMode == [width |-> 0, height |-> 0, format |-> "none", fps |-> 0]
SelectBest(candidates, prefer) ==
    LET fast == SelectSeq(candidates, LAMBDA m : m.fps >= Floor(prefer))
    IN  IF candidates = <<>> THEN NoMode
        ELSE IF fast = <<>> THEN FirstBest(candidates, LAMBDA a, b : a.fps > b.fps)
        ELSE FirstBest(fast, LAMBDA a, b : Better(a, b, prefer))

DetectNativeMode(device, prefer) ==
    IF ~device.opens \/ ~device.lists THEN NoMode
    ELSE SelectBest(Candidates(device.modes, prefer), prefer)

(***************************************************************************)
(* v4l2.rs: what sysfs says of a device, for `list` and `check`, and of    *)
(* the loopback's producer, for the run.                                   *)
(***************************************************************************)
ClassifyDevice(name, modalias) ==
    IF modalias = "v4l2loopback" \/ name \in {"loopback", "fluxframe"} THEN "virtual"
    ELSE IF name = "camera" THEN "input"
    ELSE "unknown"

InspectEntry(entry) ==
    [path |-> entry.path,
     kind |-> ClassifyDevice(IF entry.name = "unreadable" THEN "node" ELSE entry.name, entry.modalias)]

EnumerationStatus(sysfs) ==
    IF sysfs.state # "readable" THEN [status |-> sysfs.state, devices |-> {}]
    ELSE LET found == {InspectEntry(e) : e \in {x \in sysfs.entries : x.video}}
         IN  [status |-> IF found = {} THEN "empty" ELSE "found", devices |-> found]

\* partition: what is not known to be the one is offered as both.
Partition(devices) ==
    [inputs  |-> {d \in devices : d.kind \in {"input", "unknown"}},
     outputs |-> {d \in devices : d.kind \in {"virtual", "unknown"}}]

\* An attribute that is not there is not a producer that has stopped.
ReadLoopbackState(form, attribute) ==
    IF form # "videoN" THEN "unreadable"
    ELSE CASE attribute = "capture" -> "streaming"
           [] attribute = "output" -> "stopped"
           [] attribute = "absent" -> "unreadable"
           [] OTHER -> "unparseable"

(***************************************************************************)
(* util.rs: a device is resolved, must be a character device, and is       *)
(* opened for reading or for writing; the side names the error.            *)
(***************************************************************************)
Unavailable(side) == IF side = "input" THEN "InputDeviceUnavailable" ELSE "OutputDeviceUnavailable"
ValidatePath(file, side) ==
    IF file.resolves /\ file.stats /\ file.charDevice THEN "ok" ELSE Unavailable(side)
CheckAccess(file, side) ==
    IF ValidatePath(file, side) # "ok" THEN ValidatePath(file, side)
    ELSE IF (side = "input" /\ file.readable) \/ (side = "output" /\ file.writable) THEN "ok"
    ELSE Unavailable(side)

\* build_caps: each number has to fit the library's signed 32 bits.
LargestInt == 2147483647
CapsBuild(width, height, fps) == \A v \in {width, height, fps} : v <= LargestInt

(***************************************************************************)
(* runtime.rs: what the configured names stand for.                        *)
(***************************************************************************)
\* auto does not get this far: run_auto has put a path in its place.
ClassifyInput(device) ==
    CASE device = "testsrc" -> "testsrc"
      [] device = "auto" -> "unsupported"
      [] OTHER -> "v4l2"

\* A name in the form [word, suffix], the suffix "" when there is none.
ClassifyOutput(device) ==
    IF device.word = "pipewire" THEN [kind |-> "pipewire", path |-> NoDevice]
    ELSE IF device.word = "/dev/" THEN [kind |-> "v4l2", path |-> device.path]
    ELSE IF device.word \in {"auto", "fakesink"} THEN [kind |-> device.word, path |-> NoDevice]
    ELSE [kind |-> "unsupported", path |-> NoDevice]

\* Only a camera into a loopback, with idle mode on, waits for its camera.
SupervisedAcquire(idle, output, input) ==
    idle /\ ClassifyOutput(output).kind = "v4l2" /\ ClassifyInput(input) = "v4l2"

IsInputContention(error) == error = "InputDeviceUnavailable"

(***************************************************************************)
(* error.rs: the families of errors, which of them may go away by          *)
(* themselves, and which carry a hint for the operator.                    *)
(***************************************************************************)
EffectErrors    == {"InvalidConfig", "PrepareFailed", "ProcessFailed", "Inference"}
InferenceErrors == {"ModelNotFound", "ModelLoadFailed", "InvalidModelConfig", "BackendUnavailable",
                    "InferenceFailed"}
PipelineErrors  == {"MissingElement", "InputDeviceUnavailable", "OutputDeviceUnavailable",
                    "UnsupportedPixelFormat", "CapsNegotiationFailed", "StateChangeFailed",
                    "BusError", "Runtime"}
FluxErrors == EffectErrors \cup InferenceErrors \cup PipelineErrors
                \cup {"Config", "ConfigParse", "Io", "Aggregated"}

IsTransient(error) ==
    error \notin {"MissingElement", "Config", "ConfigParse", "InvalidConfig", "Aggregated"}

\* "if given": the error has room for a hint and may come without one.
HintOf(error) ==
    CASE error \in {"Config", "InvalidConfig"} -> "if given"
      [] error \in {"MissingElement", "InputDeviceUnavailable", "OutputDeviceUnavailable",
                    "BackendUnavailable"} -> "always"
      [] OTHER -> "never"
=============================================================================
