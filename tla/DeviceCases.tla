----------------------------- MODULE DeviceCases -----------------------------
(***************************************************************************)
(* Module Devices on all small inputs, beside what its choices are for.    *)
(***************************************************************************)
EXTENDS Devices

SeqsUpTo(S, n) == UNION {[1..k -> S] : k \in 0..n}
MaxOf(S) == CHOOSE m \in S : \A x \in S : x <= m
MinOf(S) == CHOOSE m \in S : \A x \in S : m <= x

\* The rate of a mode: the highest the operator can use, or the lowest there is,
\* in whatever order the driver lists them.
RatesExact ==
    \A rates \in SeqsUpTo({0, 15, 30, 31, 60}, 3) :
        LET real == {rates[i] : i \in DOMAIN rates} \ {0}
            slow == {r \in real : r <= 30}
        IN  PickFps(rates, 30) = IF real = {} THEN 30 ELSE IF slow = {} THEN MinOf(real) ELSE MaxOf(slow)

SomeModes ==
    [width : {640, 1280}, height : {720, 1080}, format : {"YUYV", "RGB3"}, fps : {10, 25, 30, 60}]

\* The mode: the largest that is fast enough, of those the one nearest to the rate,
\* of those the cheapest to convert; if all are too slow, the fastest.
ModesExact ==
    \A modes \in SeqsUpTo(SomeModes, 2) :
        LET best == SelectBest(modes, 30)
            all  == {modes[i] : i \in DOMAIN modes}
            fast == {m \in all : m.fps >= 25}
        IN  IF all = {} THEN best = NoMode
            ELSE /\ best \in all
                 /\ fast = {} => \A m \in all : m.fps <= best.fps
                 /\ fast # {} =>
                      /\ best \in fast
                      /\ \A m \in fast :
                            LET larger == m.width * m.height - best.width * best.height
                                nearer == Distance(best.fps, 30) - Distance(m.fps, 30)
                            IN  /\ larger <= 0
                                /\ larger = 0 => nearer <= 0
                                /\ larger = 0 /\ nearer = 0 =>
                                       FormatPriority(best.format) <= FormatPriority(m.format)

Nodes ==
    [path : {0, 10}, form : {"videoN"}, opens : BOOLEAN, capture : BOOLEAN, output : BOOLEAN]
        \cup {[path |-> 2, form |-> "mediaN", opens |-> TRUE, capture |-> TRUE, output |-> FALSE],
              [path |-> 5, form |-> "videoN", opens |-> TRUE, capture |-> TRUE, output |-> FALSE]}

\* The camera: the first that captures and does not output, and never the device the
\* program publishes into or one the operator excludes.
PicksExact ==
    \A a, b, c \in Nodes : \A listed \in SUBSET {0, 5} :
        \A output \in {[kind |-> "v4l2", path |-> 10], [kind |-> "pipewire", path |-> NoDevice]} :
            LET nodes == {a, b, c}
                free  == {n.path : n \in {m \in nodes : /\ m.form = "videoN" /\ m.opens
                                                        /\ m.capture /\ ~m.output}}
                            \ (listed \cup {output.path})
            IN  PickInput(EnumerateCapture(nodes), ComputeExcludes(listed, output)) =
                    IF free = {} THEN NoDevice ELSE MinOf(free)

\* `list`: every device is on one of the lists, a virtual one never among the inputs
\* and a camera never among the outputs.
ListsExact ==
    \A name \in {"loopback", "camera", "other", "unreadable"}, modalias \in {"v4l2loopback", "usb", ""} :
        LET device == InspectEntry([path |-> 0, name |-> name, modalias |-> modalias])
            lists  == Partition({device})
        IN  /\ device \in lists.inputs \cup lists.outputs
            /\ name = "loopback" \/ modalias = "v4l2loopback" => device \notin lists.inputs
            /\ name = "camera" /\ modalias # "v4l2loopback" => device \notin lists.outputs

DevicesExact == RatesExact /\ ModesExact /\ PicksExact /\ ListsExact
=============================================================================
