----------------------------- MODULE MaskKernels -----------------------------
(***************************************************************************)
(* What happens to the mask as a whole: the model's tensors and the mask   *)
(* (segmentation.rs), the largest connected blob (largest_blob.rs) and the *)
(* crop that follows the subject (auto_frame.rs).  Operators only; module  *)
(* KernelCases enumerates the inputs.                                      *)
(***************************************************************************)
EXTENDS Integers, Sequences, FiniteSets, SequencesExt

LOCAL INSTANCE Kernels

(***************************************************************************)
(* pack_input: where element k of the model's input comes from, in a frame *)
(* of h * w pixels with three interleaved channels.                        *)
(***************************************************************************)
PackSource(layout, h, w, k) ==
    IF layout = "nhwc" THEN k
    ELSE LET pixels == h * w
             c == k \div pixels
             y == (k % pixels) \div w
             x == k % w
         IN  (y * w + x) * 3 + c

(***************************************************************************)
(* decode_mask: which elements of the model's output make mask pixel i and *)
(* what is done with them, or an error for an output of the wrong length.  *)
(***************************************************************************)
Failure == [ok |-> FALSE]
Reads(how, index) == [ok |-> TRUE, how |-> how, index |-> index]

OneChannel(type, pixels) ==
    Reads(IF type = "logits" THEN "sigmoid" ELSE "copy", [i \in 0..(pixels - 1) |-> <<i>>])

DecodeTwoClass(type, layout, len, pixels) ==
    LET how == IF type = "logits" THEN "softmax" ELSE "last"
    IN  CASE layout = "hw" -> IF len < pixels THEN Failure ELSE OneChannel(type, pixels)
          [] layout = "nhwc" /\ len = 2 * pixels ->
                Reads(how, [i \in 0..(pixels - 1) |-> <<2 * i, 2 * i + 1>>])
          [] layout = "nhwc" /\ len \in pixels..(2 * pixels - 1) -> OneChannel(type, pixels)
          [] layout = "nchw" /\ len = 2 * pixels ->
                Reads(how, [i \in 0..(pixels - 1) |-> <<i, pixels + i>>])
          [] layout = "nchw" /\ len = pixels -> OneChannel(type, pixels)
          [] OTHER -> Failure

DecodeMask(type, layout, len, pixels) ==
    CASE type = "mask" /\ len >= pixels ->
            Reads("copy", [i \in 0..(pixels - 1) |-> <<i>>])
      [] type = "category_mask" /\ len >= pixels ->
            Reads("equals class", [i \in 0..(pixels - 1) |-> <<i>>])
      [] type \in {"mask", "category_mask"} /\ len < pixels -> Failure
      [] type \in {"probabilities", "logits"} -> DecodeTwoClass(type, layout, len, pixels)

\* The pixel and the channel that element k of a tensor of that layout holds.
Holds(layout, channels, pixels, k) ==
    IF layout = "nchw" THEN [pixel |-> k % pixels, channel |-> k \div pixels]
    ELSE [pixel |-> k \div channels, channel |-> k % channels]

(***************************************************************************)
(* largest_blob.rs.  mask is the set of pixels at or above the level, a    *)
(* pixel y * w + x.  Runs in scan order, a run's parent in the union-find  *)
(* forest is a run at or before it; path halving moves no root and is left *)
(* out.                                                                    *)
(***************************************************************************)
Runs(mask, w, h) ==
    FoldLeft(LAMBDA runs, i :
                 LET y == (i - 1) \div w
                     x == (i - 1) % w
                     n == Len(runs)
                 IN  IF i - 1 \notin mask THEN runs
                     ELSE IF n > 0 /\ runs[n].y = y /\ runs[n].x1 = x - 1
                     THEN [runs EXCEPT ![n].x1 = x]
                     ELSE Append(runs, [y |-> y, x0 |-> x, x1 |-> x]),
             <<>>, [i \in 1..(w * h) |-> i])

\* find_root of run i.
Root(parent, i) ==
    LET root[j \in 1..i] == IF parent[j] = j THEN j ELSE root[parent[j]] IN root[i]

\* union_runs: the earlier root stays the root.
Union(parent, a, b) ==
    LET ra == Root(parent, a)
        rb == Root(parent, b)
    IN  IF ra = rb THEN parent ELSE [parent EXCEPT ![Max({ra, rb})] = Min({ra, rb})]

\* The runs of row y, as positions; both rows are walked from left to right.
RowRuns(runs, y) == SelectSeq([i \in 1..Len(runs) |-> i], LAMBDA i : runs[i].y = y)

\* Fault: the walk goes on behind the last run of the row above that overlapped.
LinkSkipping(runs, acc, i) ==
    LET keep    == SelectSeq(acc.left, LAMBDA q : runs[q].x1 >= runs[i].x0)
        overlap == SelectSeq(keep, LAMBDA q : runs[q].x0 <= runs[i].x1)
    IN  [left |-> SubSeq(keep, Len(overlap) + 1, Len(keep)),
         parent |-> FoldLeft(LAMBDA p, q : Union(p, i, q), acc.parent, overlap)]

\* One run of a row: runs of the row above that end before it are behind it for
\* good; those that start before it ends overlap it and stay for its neighbour.
LinkRun(runs, acc, i) ==
    LET keep    == SelectSeq(acc.left, LAMBDA q : runs[q].x1 >= runs[i].x0)
        overlap == SelectSeq(keep, LAMBDA q : runs[q].x0 <= runs[i].x1)
    IN  [left |-> keep,
         parent |-> FoldLeft(LAMBDA p, q : Union(p, i, q), acc.parent, overlap)]

\* Pass 1: every row linked with the row above it.
Linked(runs, h) ==
    FoldLeft(LAMBDA parent, y :
                 LET above == RowRuns(runs, y - 1)
                 IN  FoldLeft(LAMBDA acc, i : LinkRun(runs, acc, i),
                              [left |-> above, parent |-> parent], RowRuns(runs, y)).parent,
             [i \in 1..Len(runs) |-> i], [y \in 1..(h - 1) |-> y])

\* Passes 2 and 3: the sizes by root, the first root of the greatest size, and
\* the pixels of its runs, which are the ones that keep their value.
LargestBlob(mask, w, h) ==
    LET runs   == Runs(mask, w, h)
        parent == Linked(runs, h)
        root   == [i \in 1..Len(runs) |-> Root(parent, i)]
        size   == [i \in 1..Len(runs) |->
                      FoldLeft(LAMBDA n, j : IF root[j] = i THEN n + runs[j].x1 - runs[j].x0 + 1
                                             ELSE n, 0, [j \in 1..Len(runs) |-> j])]
        winner == FoldLeft(LAMBDA best, i : IF size[i] > (IF best = 0 THEN 0 ELSE size[best])
                                            THEN i ELSE best,
                           0, [i \in 1..Len(runs) |-> i])
    IN  UNION {{runs[i].y * w + x : x \in runs[i].x0..runs[i].x1} :
                  i \in {i \in 1..Len(runs) : root[i] = winner}}

\* What it is for: of the 4-connected parts of the mask one of the largest, the
\* one reached first in scan order among equals.
Part(mask, w, start) ==
    LET Near(S) == {q \in mask : \E p \in S :
                       \/ q \in {p - w, p + w}
                       \/ q = p - 1 /\ p % w > 0
                       \/ q = p + 1 /\ q % w > 0}
    IN  FoldLeft(LAMBDA S, step : S \cup Near(S), {start}, [k \in 1..Cardinality(mask) |-> k])

IsLargestPart(kept, mask, w) ==
    LET parts == {Part(mask, w, p) : p \in mask}
        Size(S) == Cardinality(S)
    IN  IF mask = {} THEN kept = {}
        ELSE /\ kept \in parts
             /\ \A other \in parts \ {kept} :
                   \/ Size(other) < Size(kept)
                   \/ Size(other) = Size(kept) /\ Min(kept) < Min(other)

(***************************************************************************)
(* auto_frame.rs.  Lengths are in units of 1/Unit pixel, which makes every *)
(* step below exact for the frames and the parameters that are checked;    *)
(* padding, smoothing and zoom are in percent.                             *)
(***************************************************************************)
Unit == 960

\* extract_bbox: centre and half size of the subject's box; mask is the set of
\* pixels above the threshold.
ExtractBbox(mask, w) ==
    LET minX == Min({p % w : p \in mask})
        maxX == Max({p % w : p \in mask})
        minY == Min({p \div w : p \in mask})
        maxY == Max({p \div w : p \in mask})
    IN  [cx |-> ((minX + maxX + 1) * Unit) \div 2, cy |-> ((minY + maxY + 1) * Unit) \div 2,
         hw |-> ((maxX - minX + 1) * Unit) \div 2, hh |-> ((maxY - minY + 1) * Unit) \div 2]

EmaBlend(prev, current, smoothing) ==
    [k \in DOMAIN prev |-> (prev[k] * smoothing + current[k] * (100 - smoothing)) \div 100]

\* The half size of the crop: padded, extended to the frame's aspect, not
\* smaller than the zoom allows, not larger than the frame.
CropHalf(box, padding, zoom, fw, fh) ==
    LET pw == (box.hw * (100 + padding)) \div 100
        ph == (box.hh * (100 + padding)) \div 100
        wide == 2 * pw * fh > fw * Max({2 * ph, Unit})
        aw == IF wide THEN pw ELSE (ph * fw) \div fh
        ah == IF wide THEN (pw * fh) \div fw ELSE ph
    IN  [w |-> Min({Max({aw, (fw * Unit * 100) \div (2 * zoom)}), (fw * Unit) \div 2}),
         h |-> Min({Max({ah, (fh * Unit * 100) \div (2 * zoom)}), (fh * Unit) \div 2})]

\* compute_crop_rect.
CropRect(box, padding, zoom, fw, fh) ==
    LET half == CropHalf(box, padding, zoom, fw, fh)
        cx == Clamp(box.cx, half.w, fw * Unit - half.w)
        cy == Clamp(box.cy, half.h, fh * Unit - half.h)
        w == Min({Rounded(2 * half.w, Unit), fw})
        h == Min({Rounded(2 * half.h, Unit), fh})
    IN  [w |-> w, h |-> h,
         x |-> Min({Rounded(cx - half.w, Unit), fw - w}),
         y |-> Min({Rounded(cy - half.h, Unit), fh - h})]
==============================================================================
