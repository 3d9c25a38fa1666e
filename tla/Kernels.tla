------------------------------- MODULE Kernels -------------------------------
(***************************************************************************)
(* The pixel kernels of fluxframe-effects (processing/, plane_effects/,    *)
(* post_effects/) as functions on small planes, beside the definitions     *)
(* they have to agree with.  Operators only; module KernelCases enumerates *)
(* the inputs.                                                             *)
(*                                                                         *)
(* Planes have one channel: the code treats the three alike.  A line of n  *)
(* samples is a function on 0..n-1, a plane one on 0..h-1 of lines.        *)
(* Integer code is modelled as it is; where the code computes in f32 or    *)
(* f64, exact fractions stand for it, so its rounding is not covered.      *)
(***************************************************************************)
EXTENDS Integers, Sequences, FiniteSets, FiniteSetsExt

Clamp(v, lo, hi) == Max({lo, Min({v, hi})})

\* Sum of line f over from..to.
SumOver(f, from, to) ==
    LET sum[i \in (from - 1)..to] == IF i < from THEN 0 ELSE sum[i - 1] + f[i]
    IN  sum[Max({from - 1, to})]

\* v / d rounded to nearest, halves up.
Rounded(v, d) == (2 * v + d) \div (2 * d)

(***************************************************************************)
(* parallel.rs.  A buffer of n elements is worked on in chunks; rayon runs *)
(* them in any order once the buffer is large, one after another below.    *)
(***************************************************************************)
Chunks(n, len) ==
    IF len = 0 THEN {}
    ELSE {[from |-> i * len, to |-> Min({(i + 1) * len, n}) - 1] :
             i \in 0..(((n + len - 1) \div len) - 1)}

\* for_each_row_mut: the row index a chunk of a row's length is given.
RowOf(chunk, rowLen) == chunk.from \div rowLen

\* The first bytes of the pixels (3 bytes each) that the chunks' chunks_exact(3) visit.
VisitedPixels(n, len) ==
    UNION {{c.from + 3 * k : k \in {k \in 0..n : c.from + 3 * k + 2 <= c.to}} :
              c \in Chunks(n, len)}

(***************************************************************************)
(* processing/blur.rs: a running sum slides along the line; the edges are  *)
(* repeated outwards.  Slide returns the sums before the division.         *)
(***************************************************************************)
\* Fault: the sample that leaves the window is taken one too late.
SlideLeavingLate(line, n, r) ==
    LET last == n - 1
        sum[x \in 0..last] ==
            IF x = 0
            THEN line[0] * r + SumOver([k \in 0..r |-> line[Min({k, last})]], 0, r)
            ELSE sum[x - 1] + line[Min({x + r, last})] - line[Max({0, x - r})]
    IN  sum

Slide(line, n, r) ==
    LET last == n - 1
        sum[x \in 0..last] ==
            IF x = 0
            THEN line[0] * r + SumOver([k \in 0..r |-> line[Min({k, last})]], 0, r)
            ELSE sum[x - 1] + line[Min({x + r, last})] - line[Max({0, x - 1 - r})]
    IN  sum

\* What a box blur is: the sum of the window around x, edges repeated.
WindowSum(line, n, r, x) ==
    SumOver([k \in (-r)..r |-> line[Clamp(x + k, 0, n - 1)]], -r, r)

Transposed(img, w, h) == [x \in 0..(w - 1) |-> [y \in 0..(h - 1) |-> img[y][x]]]

BlurLines(img, n, r) ==
    [y \in DOMAIN img |->
        LET sum == Slide(img[y], n, r)
        IN  [x \in 0..(n - 1) |-> sum[x] \div (2 * r + 1)]]

\* blur_vertical slides down the columns, which are the lines of the transpose.
BlurColumns(img, w, h, r) == Transposed(BlurLines(Transposed(img, w, h), h, r), h, w)

\* box_blur_rgb: the passes swap the two buffers; no radius or no pass is a copy.
BoxBlur(img, w, h, r, passes) ==
    LET after[k \in 0..passes] ==
            IF k = 0 THEN img ELSE BlurColumns(BlurLines(after[k - 1], w, r), w, h, r)
    IN  IF r = 0 THEN img ELSE after[passes]

(***************************************************************************)
(* feather of processing/mask.rs: the sums of the same window, advanced    *)
(* after each sample is written, rows first and then whole rows at a time. *)
(* The result is (2r + 1)^2 times the feathered mask.                      *)
(***************************************************************************)
FeatherSlide(line, n, r) ==
    LET sum[x \in 0..n] ==
            IF x = 0
            THEN line[0] * (r + 1) + SumOver([k \in 1..r |-> line[Min({k, n - 1})]], 1, r)
            ELSE sum[x - 1] + line[Min({x + r, n - 1})] - line[Max({0, x - 1 - r})]
    IN  [x \in 0..(n - 1) |-> sum[x]]

Feather(img, w, h, r) ==
    LET rows == [y \in 0..(h - 1) |-> FeatherSlide(img[y], w, r)]
    IN  IF r = 0 THEN img
        ELSE Transposed([x \in 0..(w - 1) |-> FeatherSlide(Transposed(rows, w, h)[x], h, r)], h, w)

(***************************************************************************)
(* dilate of processing/mask.rs: each pass takes the maximum of the 3 x 3  *)
(* block, clipped at the edges; never below 0.                             *)
(***************************************************************************)
DilateOnce(img, w, h) ==
    [y \in 0..(h - 1) |-> [x \in 0..(w - 1) |->
        Max({0} \cup {img[v][u] : v \in Max({0, y - 1})..Min({y + 1, h - 1}),
                                  u \in Max({0, x - 1})..Min({x + 1, w - 1})})]]

Dilate(img, w, h, iterations) ==
    LET after[k \in 0..iterations] ==
            IF k = 0 THEN img ELSE DilateOnce(after[k - 1], w, h)
    IN  after[iterations]

\* Binarised: values at the level count as foreground.
Threshold(img, level) ==
    [y \in DOMAIN img |-> [x \in DOMAIN img[y] |-> IF img[y][x] >= level THEN 1 ELSE 0]]

\* Inverted, on a scale of 0..one.
Invert(v, one) == Clamp(one - v, 0, one)

(***************************************************************************)
(* processing/resize.rs.  Output position d reads the two source positions *)
(* around (d + 1/2) * src / dst - 1/2; weights are over 2 * dst.           *)
(***************************************************************************)
AxisTaps(src, dst) ==
    [d \in 0..(dst - 1) |->
        LET at == Max({0, (2 * d + 1) * src - dst})
            i0 == Min({at \div (2 * dst), src - 1})
        IN  [i0 |-> i0, i1 |-> Min({i0 + 1, src - 1}), w |-> at - i0 * 2 * dst]]

\* The weight of i1 in 8.8 fixed point, 0..256.
TapQ8(tap, dst) == (2 * tap.w * 256 + 2 * dst) \div (4 * dst)

\* One sample of resize_rgb_bilinear.
Mix(p00, p01, p10, p11, right, below) ==
    ((p00 * (256 - right) + p01 * right) * (256 - below)
       + (p10 * (256 - right) + p11 * right) * below + 32768) \div 65536

ResizeBilinear(img, sw, sh, dw, dh) ==
    [y \in 0..(dh - 1) |-> [x \in 0..(dw - 1) |->
        LET tx == AxisTaps(sw, dw)[x]
            ty == AxisTaps(sh, dh)[y]
        IN  Mix(img[ty.i0][tx.i0], img[ty.i0][tx.i1], img[ty.i1][tx.i0], img[ty.i1][tx.i1],
                TapQ8(tx, dw), TapQ8(ty, dh))]]

\* resize_mask_bilinear: the same taps without the quantisation, here as the
\* numerator over 4 * dw * dh.
ExactMix(p00, p01, p10, p11, tx, ty, dw, dh) ==
    (p00 * (2 * dw - tx.w) + p01 * tx.w) * (2 * dh - ty.w)
       + (p10 * (2 * dw - tx.w) + p11 * tx.w) * ty.w

\* resize_rgb_nearest: the source column (or row) of position d, by 16.16 steps.
NearestTap(src, dst, d) == Min({(d * ((src * 65536) \div dst)) \div 65536, src - 1})

\* fit_letterbox: the rectangle and its leading pads; the smaller scale decides.
FitLetterbox(sw, sh, dw, dh) ==
    LET byWidth == dw * sh <= dh * sw
        iw == IF byWidth THEN dw ELSE Rounded(sw * dh, sh)
        ih == IF byWidth THEN Rounded(sh * dw, sw) ELSE dh
    IN  [w |-> iw, h |-> ih, x |-> (dw - iw) \div 2, y |-> (dh - ih) \div 2]

(***************************************************************************)
(* processing/fit.rs: how large the source is scaled, and where the        *)
(* destination is cut out of it (cover) or it is put into the destination  *)
(* (contain).                                                              *)
(***************************************************************************)
CeilDiv(a, b) == (a + b - 1) \div b

FitCover(sw, sh, dw, dh) ==
    LET byWidth == dw * sh >= dh * sw
        w == Max({IF byWidth THEN dw ELSE CeilDiv(sw * dh, sh), dw})
        h == Max({IF byWidth THEN CeilDiv(sh * dw, sw) ELSE dh, dh})
    IN  [w |-> w, h |-> h, x |-> (w - dw) \div 2, y |-> (h - dh) \div 2]

FitContain(sw, sh, dw, dh) ==
    LET byWidth == dw * sh <= dh * sw
        w == Clamp(IF byWidth THEN dw ELSE (sw * dh) \div sh, 1, dw)
        h == Clamp(IF byWidth THEN (sh * dw) \div sw ELSE dh, 1, dh)
    IN  [w |-> w, h |-> h, x |-> (dw - w) \div 2, y |-> (dh - h) \div 2]

(***************************************************************************)
(* processing/compose.rs: alpha quantised to 0..256 and a rounded blend.   *)
(* alpha is alpha/unit.                                                    *)
(***************************************************************************)
AlphaQ8(alpha, unit) == Rounded(Clamp(alpha, 0, unit) * 256, unit)
BlendPixel(fg, bg, a) == (fg * a + bg * (256 - a) + 128) \div 256

(***************************************************************************)
(* Plane and post effects.                                                 *)
(***************************************************************************)
\* pixelate: one mean per block, the blocks at the right and lower edge cut off.
Block(img, w, h, block, x, y) ==
    {p \in (0..(w - 1)) \X (0..(h - 1)) :
        p[1] \div block = x \div block /\ p[2] \div block = y \div block}

Pixelate(img, w, h, block) ==
    [y \in 0..(h - 1) |-> [x \in 0..(w - 1) |->
        LET cell == Block(img, w, h, block, x, y)
        IN  MapThenSumSet(LAMBDA p : img[p[2]][p[1]], cell) \div Cardinality(cell)]]

\* mirror: the left half of a row swapped with the right half, from both ends.
FlipRow(row, n) ==
    [x \in 0..(n - 1) |->
        IF n >= 2 /\ (x < n \div 2 \/ x >= n - n \div 2) THEN row[n - 1 - x] ELSE row[x]]

\* sharpen: tap3 along the row (a row of one pixel is copied), then down the
\* columns, and the difference to the original added amount times (8.8).
Tap3(l, m, r) == (l + 2 * m + r + 2) \div 4

GaussRow(row, n) ==
    [x \in 0..(n - 1) |->
        IF n = 1 THEN row[x]
        ELSE Tap3(row[Max({0, x - 1})], row[x], row[Min({x + 1, n - 1})])]

Sharpen(img, w, h, amountQ) ==
    LET blurred == [y \in 0..(h - 1) |-> GaussRow(img[y], w)]
        Soft(x, y) == Tap3(blurred[Max({0, y - 1})][x], blurred[y][x],
                           blurred[Min({y + 1, h - 1})][x])
    IN  [y \in 0..(h - 1) |-> [x \in 0..(w - 1) |->
            IF amountQ = 0 THEN img[y][x]
            ELSE Clamp(img[y][x] * 256 + amountQ * (img[y][x] - Soft(x, y)), 0, 255 * 256) \div 256]]

\* vignette: one byte under a factor m of 0..256.
Darkened(c, m) == (c * m + 128) \div 256

(***************************************************************************)
(* exposure_correct: the two percentiles of a luma histogram, in percent,  *)
(* and what build_lut makes of their distance.  The histogram is a         *)
(* function on the levels that occur, a subset of 0..255.                  *)
(***************************************************************************)
Percentiles(hist, low, high) ==
    LET UpTo(i) == MapThenSumSet(LAMBDA v : hist[v], {v \in DOMAIN hist : v <= i})
        Reaches(t) == {i \in 0..255 : UpTo(i) >= t}
    IN  IF UpTo(255) = 0 THEN [low |-> 0, high |-> 255]
        ELSE [low |-> Min(Reaches(Rounded(UpTo(255) * low, 100))),
              high |-> Min(Reaches(Rounded(UpTo(255) * high, 100)))]

\* saturating_sub keeps the range from going below zero.
LutKind(p) ==
    LET range == Max({0, p.high - p.low})
    IN  CASE range >= 200 -> "unchanged"
          [] range \in 10..199 -> "stretch"
          [] range < 10 -> "gamma only"

\* Where the stretch puts level v, before the gamma, over the range's width.
Stretched(v, p) == Clamp(v - p.low, 0, p.high - p.low)
==============================================================================
