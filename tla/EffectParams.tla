---------------------------- MODULE EffectParams ----------------------------
(***************************************************************************)
(* What each effect offers to be set (its METADATA, from which the editor  *)
(* builds its controls), what it takes when a parameter is not given (the  *)
(* serde defaults of its configuration) and what its configure accepts;    *)
(* the registries, and the resolution of an effect's table (metadata.rs).  *)
(* Operators only.                                                         *)
(*                                                                         *)
(* Whole numbers stand for themselves, fractions for hundredths.  A table  *)
(* is a partial function from keys to values, empty if there is none.      *)
(***************************************************************************)
EXTENDS Integers, Sequences

\* A number no comparison is true of: not in any range.
NaN == 1000000

Number(default, min, max, step) ==
    [kind |-> "number", default |-> default, min |-> min, max |-> max, step |-> step]
Choice(default, variants) == [kind |-> "enum", default |-> default, variants |-> variants]
Color(default) == [kind |-> "color", default |-> default]
RequiredPath == [kind |-> "path", required |-> TRUE]

\* The values the editor's control for a parameter can send: both ends, the
\* default and a step from it; for a path, whatever file was chosen.
OfferedValues(param) ==
    CASE param.kind = "number" ->
            {param.min, param.max, param.default} \cup
                {v \in {param.default + param.step, param.default - param.step} :
                    v \in param.min..param.max}
      [] param.kind = "enum"  -> param.variants
      [] param.kind = "color" -> {param.default, "another colour"}
      [] param.kind = "path"  -> {"picture", "text", "missing"}

\* helpers.rs reject_out_of_range, and the range tests the others write out.
InRange(v, min, max) == v # NaN /\ v \in min..max

(***************************************************************************)
(* Mask effects.                                                           *)
(***************************************************************************)
SmoothTemporalOffers  == [factor |-> Number(65, 0, 100, 1)]
SmoothTemporalDefault == [factor |-> 65]
SmoothTemporalAccepts(c) == InRange(c.factor, 0, 100)

ThresholdOffers  == [level |-> Number(50, 0, 100, 1)]
ThresholdDefault == [level |-> 50]
ThresholdAccepts(c) == InRange(c.level, 0, 100)

LargestBlobOffers  == [level |-> Number(50, 0, 100, 1)]
LargestBlobDefault == [level |-> 50]
LargestBlobAccepts(c) == InRange(c.level, 0, 100)

DilateOffers  == [iterations |-> Number(1, 0, 32, 1)]
DilateDefault == [iterations |-> 1]
DilateAccepts(c) == c.iterations \in 0..32

FeatherOffers  == [radius |-> Number(7, 0, 64, 1)]
FeatherDefault == [radius |-> 7]
FeatherAccepts(c) == c.radius \in 0..64

(***************************************************************************)
(* Plane effects.                                                          *)
(***************************************************************************)
BlurOffers == [radius |-> Number(20, 0, 256, 1), passes |-> Number(2, 1, 16, 1),
               downscale |-> Number(4, 1, 8, 1)]
BlurDefault == [radius |-> 20, passes |-> 2, downscale |-> 4]

BlurAccepts(c) == c.radius \in 0..256 /\ c.passes \in 0..16 /\ c.downscale \in 1..8

ColorFillOffers  == [rgb |-> Color("grey")]
ColorFillDefault == <<>>                            \* rgb has no serde default
ColorFillAccepts(c) == "rgb" \in DOMAIN c

PixelateOffers  == [block_size |-> Number(16, 2, 256, 1)]
PixelateDefault == [block_size |-> 16]
PixelateAccepts(c) == c.block_size \in 2..256

SharpenOffers  == [amount |-> Number(30, 0, 200, 5)]
SharpenDefault == [amount |-> 30]
SharpenAccepts(c) == InRange(c.amount, 0, 200)

VignetteOffers  == [strength |-> Number(40, 0, 100, 5), inner_radius |-> Number(50, 0, 99, 5)]
VignetteDefault == [strength |-> 40, inner_radius |-> 50]
VignetteAccepts(c) == InRange(c.strength, 0, 100) /\ InRange(c.inner_radius, 0, 99)

ExposureOffers == [target_brightness |-> Number(55, 20, 90, 5),
                   percentile_low |-> Number(5, 0, 20, 1),
                   percentile_high |-> Number(95, 80, 100, 1)]
ExposureDefault == [target_brightness |-> 55, percentile_low |-> 5, percentile_high |-> 95]
ExposureAccepts(c) == /\ InRange(c.target_brightness, 20, 90)
                      /\ InRange(c.percentile_low, 0, 20)
                      /\ InRange(c.percentile_high, 80, 100)

ImageFillOffers == [path |-> RequiredPath, letterbox_rgb |-> Color("black"),
                    fit |-> Choice("cover", {"cover", "stretch", "contain"})]
ImageFillDefault == [fit |-> "cover", letterbox_rgb |-> "black"]   \* path is required
\* check_image_path opens the file and does not decode it.
ImageFillAccepts(c) ==
    "path" \in DOMAIN c /\ c.path # "missing" /\ c.fit \in {"cover", "stretch", "contain"}

(***************************************************************************)
(* Post effects.                                                           *)
(***************************************************************************)
AutoFrameOffers == [threshold |-> Number(50, 0, 100, 5), padding |-> Number(15, 0, 100, 5),
                    smoothing |-> Number(85, 0, 99, 5), zoom_max |-> Number(160, 100, 400, 10)]
AutoFrameDefault == [threshold |-> 50, padding |-> 15, smoothing |-> 85, zoom_max |-> 160]
AutoFrameAccepts(c) == /\ InRange(c.threshold, 0, 100) /\ InRange(c.padding, 0, 100)
                       /\ InRange(c.smoothing, 0, 99) /\ InRange(c.zoom_max, 100, 400)

(***************************************************************************)
(* The registries: which names a section's chain may hold.                 *)
(***************************************************************************)
MaskEffects  == {"passthrough", "largest_blob", "threshold", "dilate", "feather",
                 "smooth_temporal", "invert"}
PlaneEffects == {"passthrough", "blur", "color_fill", "pixelate", "sharpen", "vignette",
                 "exposure_correct", "image_fill"}
PostEffects  == {"passthrough", "auto_frame", "mirror"}

Sections == {"mask", "background", "foreground", "post"}
Registered(section) ==
    CASE section = "mask" -> MaskEffects
      [] section \in {"background", "foreground"} -> PlaneEffects
      [] section = "post" -> PostEffects

\* build_chain: the first unknown name refuses the whole chain.
ChainBuilds(section, names) == \A i \in DOMAIN names : names[i] \in Registered(section)

Plain == {"passthrough", "invert", "mirror"}

Offers(effect) ==
    CASE effect \in Plain -> <<>>
      [] effect = "smooth_temporal" -> SmoothTemporalOffers
      [] effect = "threshold" -> ThresholdOffers
      [] effect = "largest_blob" -> LargestBlobOffers
      [] effect = "dilate" -> DilateOffers
      [] effect = "feather" -> FeatherOffers
      [] effect = "blur" -> BlurOffers
      [] effect = "color_fill" -> ColorFillOffers
      [] effect = "pixelate" -> PixelateOffers
      [] effect = "sharpen" -> SharpenOffers
      [] effect = "vignette" -> VignetteOffers
      [] effect = "exposure_correct" -> ExposureOffers
      [] effect = "image_fill" -> ImageFillOffers
      [] effect = "auto_frame" -> AutoFrameOffers

\* What the configuration type fills in for keys that are not there.
SerdeDefault(effect) ==
    CASE effect \in Plain -> <<>>
      [] effect = "smooth_temporal" -> SmoothTemporalDefault
      [] effect = "threshold" -> ThresholdDefault
      [] effect = "largest_blob" -> LargestBlobDefault
      [] effect = "dilate" -> DilateDefault
      [] effect = "feather" -> FeatherDefault
      [] effect = "blur" -> BlurDefault
      [] effect = "color_fill" -> ColorFillDefault
      [] effect = "pixelate" -> PixelateDefault
      [] effect = "sharpen" -> SharpenDefault
      [] effect = "vignette" -> VignetteDefault
      [] effect = "exposure_correct" -> ExposureDefault
      [] effect = "image_fill" -> ImageFillDefault
      [] effect = "auto_frame" -> AutoFrameDefault

ConfigAccepted(effect, c) ==
    CASE effect \in Plain -> TRUE
      [] effect = "smooth_temporal" -> SmoothTemporalAccepts(c)
      [] effect = "threshold" -> ThresholdAccepts(c)
      [] effect = "largest_blob" -> LargestBlobAccepts(c)
      [] effect = "dilate" -> DilateAccepts(c)
      [] effect = "feather" -> FeatherAccepts(c)
      [] effect = "blur" -> BlurAccepts(c)
      [] effect = "color_fill" -> ColorFillAccepts(c)
      [] effect = "pixelate" -> PixelateAccepts(c)
      [] effect = "sharpen" -> SharpenAccepts(c)
      [] effect = "vignette" -> VignetteAccepts(c)
      [] effect = "exposure_correct" -> ExposureAccepts(c)
      [] effect = "image_fill" -> ImageFillAccepts(c)
      [] effect = "auto_frame" -> AutoFrameAccepts(c)

(***************************************************************************)
(* metadata.rs.                                                            *)
(***************************************************************************)
Refused == [ok |-> FALSE]
Over(table, base) == [k \in DOMAIN table \cup DOMAIN base |->
                         IF k \in DOMAIN table THEN table[k] ELSE base[k]]

\* default_config: every default, or an error that names the required paths.
DefaultConfig(effect) ==
    LET offers == Offers(effect)
        paths  == {p \in DOMAIN offers : offers[p].kind = "path"}
    IN  IF paths # {} THEN Refused
        ELSE [ok |-> TRUE, params |-> [p \in DOMAIN offers |-> offers[p].default]]

\* split_effect_table: the flag, on unless the table says otherwise, and the rest.
SplitTable(table) ==
    LET flag == IF "enabled" \in DOMAIN table THEN table["enabled"] ELSE "true"
    IN  IF flag \notin {"true", "false"} THEN Refused
        ELSE [ok |-> TRUE, enabled |-> flag = "true",
              params |-> [k \in DOMAIN table \ {"enabled"} |-> table[k]]]

\* resolve_effect_params: a table with parameters is taken as it is, one without
\* is replaced by the defaults the effect declares.
Resolve(effect, table) ==
    LET split == SplitTable(table)
    IN  IF ~split.ok \/ DOMAIN split.params # {} THEN split
        ELSE LET defaults == DefaultConfig(effect)
             IN  IF ~defaults.ok THEN Refused
                 ELSE [ok |-> TRUE, enabled |-> split.enabled, params |-> defaults.params]

\* configure: an unknown key is refused, except by the effects without parameters,
\* which look at none; a missing one takes its serde default.
Configured(effect, params) == Over(params, SerdeDefault(effect))
Accepts(effect, params) ==
    \/ effect \in Plain
    \/ DOMAIN params \subseteq DOMAIN Offers(effect) /\ ConfigAccepted(effect, Configured(effect, params))
=============================================================================
