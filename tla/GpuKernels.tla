----------------------------- MODULE GpuKernels -----------------------------
(***************************************************************************)
(* The blur on a GPU (wgpu_blur): the frame goes up with a fourth channel, *)
(* a shader runs once per pixel and axis, back and forth between two       *)
(* textures, and the rows come back padded to the alignment of a copy.     *)
(***************************************************************************)
EXTENDS Kernels

WorkgroupSize == 8
CopyAlignment == 256

\* The invocations of a dispatch, whole workgroups, and those that draw.
Invocations(w, h) ==
    (0..(WorkgroupSize * CeilDiv(w, WorkgroupSize) - 1))
        \X (0..(WorkgroupSize * CeilDiv(h, WorkgroupSize) - 1))
Shaded(w, h) == {gid \in Invocations(w, h) : gid[1] < w /\ gid[2] < h}

(***************************************************************************)
(* blur.wgsl.  A pixel sums up its window, edges repeated, and the texture *)
(* keeps the mean rounded to a byte.  What no invocation writes is -1.     *)
(***************************************************************************)
ShadeRow(tex, w, h, r) ==
    [y \in 0..(h - 1) |-> [x \in 0..(w - 1) |->
        IF <<x, y>> \in Shaded(w, h) THEN Rounded(WindowSum(tex[y], w, r, x), 2 * r + 1) ELSE -1]]

ShadeColumn(tex, w, h, r) ==
    LET turned == Transposed(tex, w, h)
    IN  [y \in 0..(h - 1) |-> [x \in 0..(w - 1) |->
            IF <<x, y>> \in Shaded(w, h)
            THEN Rounded(WindowSum(turned[x], h, r, y), 2 * r + 1) ELSE -1]]

\* dispatch_blur: rows from A to B, columns from B to A.
Dispatched(texA, w, h, r, passes) ==
    LET after[k \in 0..passes] ==
            IF k = 0 THEN texA ELSE ShadeColumn(ShadeRow(after[k - 1], w, h, r), w, h, r)
    IN  after[passes]

GpuBlur(img, w, h, r, passes) ==
    IF r = 0 \/ passes = 0 THEN img ELSE Dispatched(img, w, h, r, passes)

(***************************************************************************)
(* The way up and down, byte by byte: where a byte goes, -1 for the alpha  *)
(* that is filled in; where a byte of the frame is read in the rows.       *)
(***************************************************************************)
PaddedBytesPerRow(w) ==
    IF (4 * w) % CopyAlignment = 0 THEN 4 * w
    ELSE 4 * w + (CopyAlignment - ((4 * w) % CopyAlignment))

\* pad_rgb_to_rgba: what byte k of the upload is a copy of.
UploadSource(k) == IF k % 4 = 3 THEN -1 ELSE 3 * (k \div 4) + (k % 4)

\* copy_texture_to_buffer: where channel c of a pixel is staged.
Staged(w, x, y, c) == y * PaddedBytesPerRow(w) + 4 * x + c

\* strip_rgba_to_rgb: what byte k of the frame is read from.
StripSource(w, k) ==
    LET inRow == k % (3 * w)
    IN  (k \div (3 * w)) * PaddedBytesPerRow(w) + 4 * (inRow \div 3) + (inRow % 3)

StagingBytes(w, h) == PaddedBytesPerRow(w) * h
=============================================================================
