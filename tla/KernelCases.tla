---------------------------- MODULE KernelCases ----------------------------
(***************************************************************************)
(* Every kernel of Kernels, MaskKernels and Frames on all small inputs: a  *)
(* case is picked at the start, one action computes what the code          *)
(* computes, and the invariants compare it with what it is for.            *)
(***************************************************************************)
EXTENDS GpuKernels, MaskKernels, Frames

VARIABLES input, output, answered

vars == <<input, output, answered>>

Asked(fn) == input.fn = fn /\ ~answered
Answer(v) == output' = v /\ answered' = TRUE /\ UNCHANGED input

Byte == {0, 100, 255}
Bit == {0, 1}
Plane(w, h, S) == [0..(h - 1) -> [0..(w - 1) -> S]]
Side == 1..5

(***************************************************************************)
(* The cases.                                                              *)
(***************************************************************************)
LineCases ==
    UNION {[fn : {"line"}, line : [0..(n - 1) -> Byte], n : {n}, r : 0..(n + 1)] : n \in 1..4}
PlaneCases ==
    [fn : {"plane"}, img : Plane(3, 2, {0, 255}), w : {3}, h : {2}, r : 0..2, passes : 0..2]
CopyCases == [fn : {"copy"}, w : {1, 2, 9, 63, 64, 65}, h : 1..2]
ChunkCases  == [fn : {"chunks"}, n : 0..14, len : 0..6]
DilateCases == [fn : {"dilate"}, img : Plane(3, 3, Bit), w : {3}, h : {3}, iterations : 0..2]
ResizeCases ==
    [fn : {"resize"}, img : Plane(2, 2, Byte), w : {2}, h : {2}, dw : 1..3, dh : {1, 4}]
NearestCases == [fn : {"nearest"}, src : 1..8, dst : 1..8]
FitCases    == [fn : {"fit"}, sw : Side, sh : Side, dw : Side, dh : Side]
BlendCases  == [fn : {"blend"}, fg : Byte \cup {1, 254}, bg : Byte, alpha : -1..11]
PixelCases  == [fn : {"pixelate"}, img : Plane(3, 2, Byte), w : {3}, h : {2}, block : 1..3]
FlipCases   == UNION {[fn : {"flip"}, row : [0..(n - 1) -> 0..2], n : {n}] : n \in 0..4}
SharpenCases == [fn : {"sharpen"}, img : Plane(2, 2, Byte), w : {2}, h : {2}, amountQ : {0, 128, 512}]
ExposureCases ==
    [fn : {"exposure"}, at : {S \in SUBSET {0, 3, 100, 255} : Cardinality(S) <= 3},
     often : {1, 7}, low : {0, 1, 20}, high : {50, 99, 100}]
PackCases   == [fn : {"pack"}, layout : {"nhwc", "nchw"}, h : 1..3, w : 1..3]
DecodeCases ==
    [fn : {"decode"}, type : {"mask", "category_mask", "probabilities", "logits"},
     layout : {"hw", "nhwc", "nchw"}, pixels : 1..3, len : 0..8]
BlobCases   == [fn : {"blob"}, mask : SUBSET (0..11), w : {4}, h : {3}]
FrameCases  ==
    [fn : {"frame"}, mask : {{a, b} : a, b \in 0..11}, w : {4}, h : {3},
     padding : {0, 25, 100}, zoom : {100, 200, 400}]
\* A sample is a legal buffer or not: the stride of its VideoMeta may be below the caps'.
SampleCases ==
    [fn : {"sample"}, label : {"Rgb", "Yuy2", "Gray8", "Nv12", "I420"}, w : 1..2, h : 1..2,
     size : 0..24, stride : {-1, 4, 8},
     meta : [present : {FALSE}, stride : {0}, offset : {0}]
                \cup [present : {TRUE}, stride : {-1, 2, 4, 8, 9}, offset : {0, 3}]]
Shade == {0, 1, 127, 128, 254, 255}
ColourCases ==
    [fn : {"colours"}, p : (Shade \X Shade \X Shade) \cup {<<253, 0, 0>>},
     q : {<<0, 0, 0>>, <<255, 255, 255>>, <<255, 0, 0>>, <<253, 0, 2>>, <<0, 0, 255>>, <<10, 200, 90>>}]
Ask == [w : 1..2, h : {1, 2}, format : PixelFormats]
PlaceholderCases ==
    [fn : {"placeholder"}, kind : {"color", "image"}, decodes : BOOLEAN, w : 0..2, h : {1, 2},
     asks : [1..2 -> Ask]]
Colour == <<200, 100, 50>>
\* No two pixels of the image are alike.
Picture(c) ==
    IF c.decodes THEN [i \in 0..(c.w * c.h - 1) |-> <<40 * i, 255 - 50 * i, 10 + i>>] ELSE <<>>

Init ==
    /\ output = <<>>
    /\ answered = FALSE
    /\ \/ input \in LineCases \/ input \in PlaneCases \/ input \in CopyCases \/ input \in ChunkCases
       \/ input \in DilateCases \/ input \in ResizeCases \/ input \in NearestCases
       \/ input \in FitCases \/ input \in BlendCases \/ input \in PixelCases
       \/ input \in FlipCases \/ input \in SharpenCases \/ input \in ExposureCases
       \/ input \in PackCases \/ input \in DecodeCases \/ input \in BlobCases
       \/ input \in FrameCases
       \/ input \in SampleCases \/ input \in ColourCases \/ input \in PlaceholderCases

(***************************************************************************)
(* One action per kernel.                                                  *)
(***************************************************************************)
BlurLine == /\ Asked("line")
            /\ Answer([box |-> Slide(input.line, input.n, input.r),
                       feather |-> FeatherSlide(input.line, input.n, input.r)])

BlurPlane == /\ Asked("plane")
             /\ Answer([blurred |-> BoxBlur(input.img, input.w, input.h, input.r, input.passes),
                        onGpu |-> GpuBlur(input.img, input.w, input.h, input.r, input.passes),
                        feathered |-> Feather(input.img, input.w, input.h, input.r)])

CopyBack == /\ Asked("copy")
            /\ Answer([k \in 0..(3 * input.w * input.h - 1) |-> StripSource(input.w, k)])

Split == /\ Asked("chunks")
         /\ Answer([chunks |-> Chunks(input.n, input.len), pixels |-> VisitedPixels(input.n, input.len)])

Grow == Asked("dilate") /\ Answer(Dilate(input.img, input.w, input.h, input.iterations))

Resize == Asked("resize") /\ Answer(ResizeBilinear(input.img, input.w, input.h, input.dw, input.dh))

ResizeNearest == /\ Asked("nearest")
                 /\ Answer([d \in 0..(input.dst - 1) |-> NearestTap(input.src, input.dst, d)])

Fit == /\ Asked("fit")
       /\ LET in == input
          IN  Answer([letterbox |-> FitLetterbox(in.sw, in.sh, in.dw, in.dh),
                      cover |-> FitCover(in.sw, in.sh, in.dw, in.dh),
                      contain |-> FitContain(in.sw, in.sh, in.dw, in.dh)])

Blend == Asked("blend") /\ Answer(BlendPixel(input.fg, input.bg, AlphaQ8(input.alpha, 10)))

Blocks == Asked("pixelate") /\ Answer(Pixelate(input.img, input.w, input.h, input.block))

Flip == Asked("flip") /\ Answer(FlipRow(input.row, input.n))

Crisp == Asked("sharpen") /\ Answer(Sharpen(input.img, input.w, input.h, input.amountQ))

Expose == /\ Asked("exposure")
          /\ Answer(Percentiles([v \in input.at |-> input.often], input.low, input.high))

Pack == /\ Asked("pack")
        /\ Answer([k \in 0..(3 * input.h * input.w - 1) |-> PackSource(input.layout, input.h, input.w, k)])

Decode == Asked("decode") /\ Answer(DecodeMask(input.type, input.layout, input.len, input.pixels))

KeepBlob == Asked("blob") /\ Answer(LargestBlob(input.mask, input.w, input.h))

Follow == /\ Asked("frame")
          /\ LET box == ExtractBbox(input.mask, input.w)
             IN  Answer([box |-> box,
                         crop |-> CropRect(box, input.padding, input.zoom, input.w, input.h)])

Capture == Asked("sample") /\ Answer(SampleToFrame(input))

Paint == Asked("colours") /\ Answer(Yuy2Word(input.p, input.q))

Show == /\ Asked("placeholder")
        /\ LET built == Build(input.kind, Colour, Picture(input), input.w, input.h)
           IN  Answer(IF built.ok THEN Renders(built, input.asks) ELSE <<>>)

Next == \/ BlurLine \/ BlurPlane \/ CopyBack \/ Split \/ Grow \/ Resize \/ ResizeNearest \/ Fit \/ Blend
        \/ Blocks \/ Flip \/ Crisp \/ Expose \/ Pack \/ Decode \/ KeepBlob \/ Follow
        \/ Capture \/ Paint \/ Show

Spec == Init /\ [][Next]_vars

Answered(fn) == input.fn = fn /\ answered
Pixels(w, h) == (0..(w - 1)) \X (0..(h - 1))

(***************************************************************************)
(* Blurring and growing.                                                   *)
(***************************************************************************)
\* Both sliding sums are the sum of the window, at every position.
WindowsExact ==
    Answered("line") =>
        \A x \in 0..(input.n - 1) :
            LET sum == WindowSum(input.line, input.n, input.r, x)
            IN  output.box[x] = sum /\ output.feather[x] = sum

\* A plane is blurred along both axes; a flat one stays what it is.
PlanesExact ==
    Answered("plane") =>
        LET img  == input.img
            w    == input.w
            h    == input.h
            r    == input.r
            side == 2 * r + 1
            across == [y \in 0..(h - 1) |-> [x \in 0..(w - 1) |-> WindowSum(img[y], w, r, x)]]
            Down(sums, x, y) == WindowSum([v \in 0..(h - 1) |-> sums[v][x]], h, r, y)
            means == [y \in 0..(h - 1) |-> [x \in 0..(w - 1) |-> across[y][x] \div side]]
        IN  /\ r = 0 \/ input.passes = 0 => output.blurred = img
            /\ \A p \in Pixels(w, h) :
                  /\ r > 0 => output.feathered[p[2]][p[1]] = Down(across, p[1], p[2])
                  /\ input.passes = 1 => output.blurred[p[2]][p[1]] = Down(means, p[1], p[2]) \div side
            /\ Cardinality({img[p[2]][p[1]] : p \in Pixels(w, h)}) = 1 => output.blurred = img

\* The GPU blurs what the CPU blurs: it rounds where the CPU cuts off, so it is the
\* brighter by at most one for every axis and pass.
GpuAgrees ==
    Answered("plane") =>
        \A p \in Pixels(input.w, input.h) :
            output.onGpu[p[2]][p[1]] - output.blurred[p[2]][p[1]] \in 0..(2 * input.passes)

\* Every byte of the frame comes back from where its own pixel was staged, inside the
\* buffer and its own row, and every pixel of the frame is drawn once.
CopiesExact ==
    Answered("copy") =>
        LET w == input.w
            h == input.h
        IN  /\ Shaded(w, h) = Pixels(w, h)
            /\ PaddedBytesPerRow(w) % CopyAlignment = 0
            /\ \A p \in Pixels(w, h), c \in 0..2 :
                  LET byte == 3 * (p[2] * w + p[1]) + c
                  IN  /\ output[byte] = Staged(w, p[1], p[2], c)
                      /\ output[byte] < StagingBytes(w, h)
                      /\ output[byte] < (p[2] + 1) * PaddedBytesPerRow(w)
                      /\ UploadSource(4 * (p[2] * w + p[1]) + c) = byte

\* Chunks cover the buffer once; chunks of whole pixels lose no pixel and cut none.
ChunksExact ==
    Answered("chunks") =>
        LET n == input.n
            len == input.len
        IN  /\ len > 0 => \A i \in 0..(n - 1) :
                  Cardinality({c \in output.chunks : i \in c.from..c.to}) = 1
            /\ len > 0 /\ len % 3 = 0 /\ n % 3 = 0 => output.pixels = {3 * k : k \in 0..((n \div 3) - 1)}
            /\ len > 0 /\ n % len = 0 =>
                  {RowOf(c, len) : c \in output.chunks} = 0..((n \div len) - 1)

\* n passes of the 3 x 3 maximum reach n pixels in every direction.
GrowthExact ==
    Answered("dilate") =>
        \A p \in Pixels(input.w, input.h) :
            output[p[2]][p[1]] =
                Max({input.img[v][u] : u \in Max({0, p[1] - input.iterations})..Min({p[1] + input.iterations, input.w - 1}),
                                       v \in Max({0, p[2] - input.iterations})..Min({p[2] + input.iterations, input.h - 1})})

(***************************************************************************)
(* Geometry.                                                               *)
(***************************************************************************)
\* The fixed-point bilinear sample is within 1 of the exact one and never
\* outside the samples it mixes; same size is a copy.
ResizeExact ==
    Answered("resize") =>
        \A p \in Pixels(input.dw, input.dh) :
            LET tx == AxisTaps(input.w, input.dw)[p[1]]
                ty == AxisTaps(input.h, input.dh)[p[2]]
                corner == {input.img[v][u] : u \in {tx.i0, tx.i1}, v \in {ty.i0, ty.i1}}
                one == 4 * input.dw * input.dh
                exact == ExactMix(input.img[ty.i0][tx.i0], input.img[ty.i0][tx.i1],
                                  input.img[ty.i1][tx.i0], input.img[ty.i1][tx.i1],
                                  tx, ty, input.dw, input.dh)
                got == output[p[2]][p[1]]
            IN  /\ got \in Min(corner)..Max(corner)
                /\ got * one - exact \in (-one)..one
                /\ {TapQ8(tx, input.dw), TapQ8(ty, input.dh)} \subseteq 0..256

\* The nearest sample exists, never moves backwards, and is the one below the
\* exact position or, by the truncated step, the one before that.
NearestExact ==
    Answered("nearest") =>
        \A d \in 0..(input.dst - 1) :
            /\ output[d] \in 0..(input.src - 1)
            /\ d > 0 => output[d - 1] <= output[d]
            /\ (d * input.src) \div input.dst - output[d] \in {0, 1}

Inside(r, w, h) == r.x >= 0 /\ r.y >= 0 /\ r.x + r.w <= w /\ r.y + r.h <= h
Centred(pad, inner, outer) == outer - inner - 2 * pad \in {0, 1}

\* Letterbox and contain put the picture inside the destination, cover puts the
\* destination inside the picture, centred in each case; no side is off by a pixel.
FitsExact ==
    Answered("fit") =>
        LET box   == output.letterbox
            cover == output.cover
            put   == output.contain
            dw    == input.dw
            dh    == input.dh
            Off(r) == r.w * input.sh - r.h * input.sw
        IN  /\ Inside(box, dw, dh) /\ Centred(box.x, box.w, dw) /\ Centred(box.y, box.h, dh)
            /\ Inside(put, dw, dh) /\ Centred(put.x, put.w, dw) /\ Centred(put.y, put.h, dh)
            /\ put.w > 0 /\ put.h > 0
            /\ Inside([x |-> cover.x, y |-> cover.y, w |-> dw, h |-> dh], cover.w, cover.h)
            /\ Centred(cover.x, dw, cover.w) /\ Centred(cover.y, dh, cover.h)
            /\ 2 * Off(box) \in (-Max({input.sw, input.sh}))..Max({input.sw, input.sh})
            /\ Off(cover) \in (-Max({input.sw, input.sh}))..Max({input.sw, input.sh})

(***************************************************************************)
(* Colours.                                                                *)
(***************************************************************************)
\* A blend stays between its colours and reaches each of them.
BlendExact ==
    Answered("blend") =>
        /\ output \in Min({input.fg, input.bg})..Max({input.fg, input.bg})
        /\ input.alpha <= 0 => output = input.bg
        /\ input.alpha >= 10 => output = input.fg

\* Pixelating twice shows no more than once, and every block has one colour.
BlocksExact ==
    Answered("pixelate") =>
        /\ Pixelate(output, input.w, input.h, input.block) = output
        /\ \A p, q \in Pixels(input.w, input.h) :
              p[1] \div input.block = q[1] \div input.block /\ p[2] \div input.block = q[2] \div input.block
                  => output[p[2]][p[1]] = output[q[2]][q[1]]

\* The mirrored row is the row backwards, the middle pixel included.
FlipExact ==
    Answered("flip") => \A x \in 0..(input.n - 1) : output[x] = input.row[input.n - 1 - x]

\* A flat plane has nothing to sharpen, and no amount leaves the plane alone.
SharpenExact ==
    Answered("sharpen") =>
        \/ output = input.img
        \/ /\ input.amountQ > 0
           /\ Cardinality({input.img[p[2]][p[1]] : p \in Pixels(input.w, input.h)}) > 1
           /\ \A p \in Pixels(input.w, input.h) : output[p[2]][p[1]] \in 0..255

\* Whatever the two percentiles, the levels found are in order, the division by
\* their distance happens only where it is not 0, and no level leaves the range.
ExposureExact ==
    Answered("exposure") =>
        /\ output.low <= output.high
        /\ LutKind(output) = "stretch" =>
              \A v \in {0, output.low, output.high, 255} :
                  Stretched(v, output) \in 0..(output.high - output.low)

(***************************************************************************)
(* The mask.                                                               *)
(***************************************************************************)
\* Packing moves every byte of the frame to one place of the tensor, and the
\* place is the one its layout names.
PackExact ==
    Answered("pack") =>
        /\ {output[k] : k \in DOMAIN output} = DOMAIN output
        /\ \A k \in DOMAIN output :
              LET place == Holds(input.layout, 3, input.h * input.w, k)
              IN  output[k] = place.pixel * 3 + place.channel

\* A decoded pixel is computed from that pixel's elements, all inside the output,
\* the last one of the last class: whatever layout and length are accepted.  (A
\* flat layout is taken to have one channel.)
DecodeExact ==
    Answered("decode") /\ output.ok =>
            LET channels == IF input.layout # "hw" /\ input.len = 2 * input.pixels
                               /\ input.type \in {"probabilities", "logits"}
                            THEN 2 ELSE 1
            IN  \A i \in 0..(input.pixels - 1) :
                    \A c \in 1..channels :
                        /\ output.index[i][c] \in 0..(input.len - 1)
                        /\ Holds(input.layout, channels, input.pixels, output.index[i][c])
                               = [pixel |-> i, channel |-> c - 1]

\* What is kept is the largest 4-connected part of the mask.
BlobExact == Answered("blob") => IsLargestPart(output, input.mask, input.w)

\* The crop is inside the frame, not smaller than the zoom allows, and contains
\* the subject's box but for the rounding of its sides.
CropExact ==
    Answered("frame") =>
        LET crop == output.crop
            box  == output.box
        IN  /\ Inside(crop, input.w, input.h) /\ crop.w > 0 /\ crop.h > 0
            /\ 2 * (crop.w * input.zoom - input.w * 100) >= -input.zoom
            /\ (crop.x - 1) * Unit <= box.cx - box.hw
            /\ (crop.x + crop.w + 1) * Unit >= box.cx + box.hw
            /\ (crop.y - 1) * Unit <= box.cy - box.hh
            /\ (crop.y + crop.h + 1) * Unit >= box.cy + box.hh

\* The mask is the model's answer, pixel by pixel; what largest_blob keeps of it
\* is its largest part, and what auto_frame crops contains that.
MasksExact == PackExact /\ DecodeExact /\ BlobExact /\ CropExact

(***************************************************************************)
(* Frames.                                                                 *)
(***************************************************************************)
\* A frame holds the rows of the camera's buffer where the buffer says they are, and
\* nothing from outside it; no buffer that holds its rows is refused.  (Of a VideoMeta
\* with a smaller stride than the caps' only the reading inside the buffer is said.)
SampleExact ==
    Answered("sample") =>
        LET row    == input.w * IF input.label = "I420" THEN 0 ELSE BytesPerPixel(input.label)
            own    == IF input.meta.present THEN input.meta.stride ELSE input.stride
            offset == IF input.meta.present THEN input.meta.offset ELSE 0
            legal  == row > 0 /\ input.stride >= row /\ own >= input.stride
        IN  /\ output.ok => \A k \in DOMAIN output.from : output.from[k] \in 0..(input.size - 1)
            /\ output.ok /\ legal =>
                  \A y \in 0..(input.h - 1), x \in 0..(row - 1) :
                      output.from[y * row + x] = offset + y * own + x
            /\ legal /\ input.size >= offset + own * input.h => output.ok

\* The luma of the fixed-point conversion is within 1 of BT.601, the chroma of a pair at most
\* 0.7 below the mean of both and 1.2 above (each is off by up to 0.7, and half a level is
\* rounded up once more), and what is grey stays exactly the grey it was.
ColoursExact ==
    Answered("colours") =>
        LET p == input.p
            q == input.q
            ExactY(c)  == 299 * c[1] + 587 * c[2] + 114 * c[3]
            ExactCb(c) == -168736 * c[1] - 331264 * c[2] + 500000 * c[3]
            ExactCr(c) == 500000 * c[1] - 418688 * c[2] - 81312 * c[3]
            Grey(c) == c[1] = c[2] /\ c[2] = c[3]
        IN  /\ 1000 * output[1] - ExactY(p) \in -1000..1000
            /\ 1000 * output[3] - ExactY(q) \in -1000..1000
            /\ 2000000 * (output[2] - 128) - ExactCb(p) - ExactCb(q) \in -1400000..2400000
            /\ 2000000 * (output[4] - 128) - ExactCr(p) - ExactCr(q) \in -1400000..2400000
            /\ Grey(p) /\ Grey(q) => output = <<p[1], 128, q[1], 128>>

\* However often and in whatever formats a placeholder is asked, each answer is the
\* picture in the format asked for, a valid frame; a size it was not built for, two
\* planes and pairs of an odd width are refused every time.
PlaceholderExact ==
    Answered("placeholder") =>
        \A k \in DOMAIN output :
            LET ask   == input.asks[k]
                got   == output[k]
                Pixel(i) == IF input.kind = "color" THEN Colour ELSE Picture(input)[i]
            IN  /\ got.ok <=> /\ ask.w = input.w /\ ask.h = input.h /\ ask.format # "Nv12"
                              /\ ask.format = "Yuy2" => ask.w % 2 = 0
                /\ got.ok => Valid(got) /\ \A i \in 0..(ask.w * ask.h - 1), c \in 1..3 :
                      CASE ask.format = "Rgb"   -> got.bytes[3 * i + c - 1] = Pixel(i)[c]
                        [] ask.format = "Bgr"   -> got.bytes[3 * i + 3 - c] = Pixel(i)[c]
                        [] ask.format = "Rgba"  -> got.bytes[4 * i + c - 1] = Pixel(i)[c] /\ got.bytes[4 * i + 3] = 255
                        [] ask.format = "Gray8" -> got.bytes[i] = Luma(Pixel(i))
                        [] ask.format = "Yuy2"  ->
                              /\ got.bytes[2 * i] = Luma(Pixel(i))
                              /\ i % 2 = 0 => 2 * got.bytes[2 * i + 1] - Cb(Pixel(i)) - Cb(Pixel(i + 1)) \in {0, 1}
                              /\ i % 2 = 0 => 2 * got.bytes[2 * i + 3] - Cr(Pixel(i)) - Cr(Pixel(i + 1)) \in {0, 1}

\* The kernels of processing/ and of the effects compute what they are for: a
\* sliding window, a fixed-point mix and a split into chunks are faster forms of
\* a definition, and go wrong at edges, for windows wider than the line, and for
\* planes of one pixel.  A frame is the picture it is made from: the camera's rows,
\* wherever the buffer keeps them, and a placeholder in every format, at the second
\* time too.
PixelsExact ==
    /\ WindowsExact /\ PlanesExact /\ GpuAgrees /\ CopiesExact /\ ChunksExact /\ GrowthExact
    /\ ResizeExact /\ NearestExact /\ FitsExact
    /\ BlendExact /\ BlocksExact /\ FlipExact /\ SharpenExact /\ ExposureExact
    /\ SampleExact /\ ColoursExact /\ PlaceholderExact
==============================================================================
