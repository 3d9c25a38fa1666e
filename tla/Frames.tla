------------------------------- MODULE Frames -------------------------------
(***************************************************************************)
(* Bytes on their way in and out of a frame: how the rows of a camera's    *)
(* buffer become a packed frame (frame_conv.rs), and how a placeholder's   *)
(* picture becomes a frame of the output's format, which is computed once  *)
(* and then handed out again (placeholder.rs).  Of a camera's byte only    *)
(* its place in the buffer is kept.                                        *)
(***************************************************************************)
EXTENDS Kernels

PixelFormats == {"Rgb", "Rgba", "Bgr", "Yuy2", "Nv12", "Gray8"}

\* 0 stands for the None of a format with two planes.
BytesPerPixel(format) ==
    [Rgb |-> 3, Rgba |-> 4, Bgr |-> 3, Yuy2 |-> 2, Nv12 |-> 0, Gray8 |-> 1][format]

Refused == [ok |-> FALSE]

(***************************************************************************)
(* sample_to_frame.  A sample has the caps' format, size and stride, the   *)
(* buffer's bytes and perhaps a VideoMeta of its own, which may put the    *)
(* plane behind other data.                                                *)
(***************************************************************************)
\* A stride that does not fit usize counts as packed.
Usable(stride, packedRow) == IF stride >= 0 THEN stride ELSE packedRow

\* What a version that trusts the caps alone would see.
LayoutOfCaps(s, packedRow) ==
    LET stride == Max({Usable(s.stride, packedRow), packedRow})
    IN  [stride |-> stride, offset |-> 0, needsRowCopy |-> stride # packedRow]

\* inspect_row_layout: the largest of the strides that are told.
InspectRowLayout(s, packedRow) ==
    LET own    == IF s.meta.present THEN Usable(s.meta.stride, packedRow) ELSE packedRow
        offset == IF s.meta.present THEN s.meta.offset ELSE 0
        stride == Max({own, Usable(s.stride, packedRow), packedRow})
    IN  [stride |-> stride, offset |-> offset,
         needsRowCopy |-> stride # packedRow \/ offset # 0]

\* Where each byte of the packed frame is taken from.
CopyPacked(size, layout, packedRow, h) ==
    LET expected == packedRow * h
    IN  CASE ~layout.needsRowCopy -> [ok |-> TRUE, from |-> [k \in 0..(expected - 1) |-> k]]
          [] layout.needsRowCopy /\ size < layout.offset + layout.stride * h -> Refused
          [] OTHER -> [ok |-> TRUE,
                       from |-> [k \in 0..(expected - 1) |->
                           layout.offset + (k \div packedRow) * layout.stride + (k % packedRow)]]

SampleToFrame(s) ==
    IF s.label \notin PixelFormats \/ BytesPerPixel(s.label) = 0 THEN Refused
    ELSE LET packedRow == s.w * BytesPerPixel(s.label)
         IN  IF s.size < packedRow * s.h THEN Refused
             ELSE CopyPacked(s.size, InspectRowLayout(s, packedRow), packedRow, s.h)

(***************************************************************************)
(* Colours: BT.601 with coefficients in 256ths, shifted right, which       *)
(* rounds down also below zero.                                            *)
(***************************************************************************)
Byte256(v) == Clamp(v, 0, 255)
Luma(p) == Byte256((77 * p[1] + 150 * p[2] + 29 * p[3] + 128) \div 256)
Cb(p) == Byte256((-43 * p[1] - 85 * p[2] + 128 * p[3] + 128) \div 256 + 128)
Cr(p) == Byte256((128 * p[1] - 107 * p[2] - 21 * p[3] + 128) \div 256 + 128)

\* rgb_to_yuy2: two pixels share their chroma.
Yuy2Word(p, q) == <<Luma(p), (Cb(p) + Cb(q) + 1) \div 2, Luma(q), (Cr(p) + Cr(q) + 1) \div 2>>

\* convert_rgb_to: rgb[i] is the colour of pixel i, row by row.
ConvertRgbTo(rgb, w, h, format) ==
    LET n == w * h
        Bytes(F(_)) == [ok |-> TRUE, bytes |-> [k \in 0..(n * BytesPerPixel(format) - 1) |-> F(k)]]
    IN  CASE format = "Rgb"   -> Bytes(LAMBDA k : rgb[k \div 3][1 + (k % 3)])
          [] format = "Bgr"   -> Bytes(LAMBDA k : rgb[k \div 3][3 - (k % 3)])
          [] format = "Rgba"  -> Bytes(LAMBDA k : IF k % 4 = 3 THEN 255 ELSE rgb[k \div 4][1 + (k % 4)])
          [] format = "Gray8" -> Bytes(LAMBDA k : Luma(rgb[k]))
          [] format = "Yuy2" /\ w % 2 = 0 ->
                Bytes(LAMBDA k : Yuy2Word(rgb[2 * (k \div 4)], rgb[2 * (k \div 4) + 1])[1 + (k % 4)])
          [] OTHER -> Refused

(***************************************************************************)
(* A placeholder: its picture, the size it was built for, and the bytes    *)
(* already converted, under the size and format they are for.              *)
(***************************************************************************)
\* build: a colour, or an image already resized to the output's size; <<>> is one that
\* has no path, does not decode, or comes to a build without the decoder.
Build(kind, colour, image, w, h) ==
    IF w = 0 \/ h = 0 \/ (kind = "image" /\ image = <<>>) THEN Refused
    ELSE [ok |-> TRUE, w |-> w, h |-> h, cache |-> <<>>,
          rgb |-> [i \in 0..(w * h - 1) |-> IF kind = "color" THEN colour ELSE image[i]]]

\* ConvertedCache: an answer is kept, a refusal is not.
GetOrConvert(p, w, h, format) ==
    LET key == <<w, h, format>>
    IN  IF key \in DOMAIN p.cache THEN [p |-> p, got |-> [ok |-> TRUE, bytes |-> p.cache[key]]]
        ELSE LET got == ConvertRgbTo(p.rgb, w, h, format)
             IN  [got |-> got,
                  p |-> IF ~got.ok THEN p
                        ELSE [p EXCEPT !.cache = [k \in DOMAIN p.cache \cup {key} |->
                                  IF k = key THEN got.bytes ELSE p.cache[k]]]]

\* VideoFrame::new_packed, which has no answer for two planes.
NewPacked(bytes, w, h, format) ==
    IF BytesPerPixel(format) = 0 THEN Refused
    ELSE [ok |-> TRUE, bytes |-> bytes, w |-> w, h |-> h, format |-> format,
          stride |-> w * BytesPerPixel(format)]

Render(p, w, h, format) ==
    IF p.w # w \/ p.h # h THEN [p |-> p, got |-> Refused]
    ELSE LET c == GetOrConvert(p, w, h, format)
         IN  [p |-> c.p, got |-> IF c.got.ok THEN NewPacked(c.got.bytes, w, h, format) ELSE Refused]

\* A placeholder asked several times: what it answered each time.
Renders(p, asks) ==
    LET after[k \in 0..Len(asks)] ==
            IF k = 0 THEN [p |-> p, got |-> Refused]
            ELSE Render(after[k - 1].p, asks[k].w, asks[k].h, asks[k].format)
    IN  [k \in 1..Len(asks) |-> after[k].got]

\* VideoFrame::validate, of a frame of one plane.
Valid(frame) ==
    /\ frame.w > 0 /\ frame.h > 0
    /\ frame.format # "Nv12"
    /\ Cardinality(DOMAIN frame.bytes) >= frame.stride * frame.h
=============================================================================
