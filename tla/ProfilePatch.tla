---------------------------- MODULE ProfilePatch ----------------------------
(***************************************************************************)
(* The native D185 profile: PatchProfile (internal/profile/d185.go), which *)
(* POST /api/raf/reconvert applies to the camera's base profile, and       *)
(* CameraProfileToUIValues (translate.go), which reads such a profile.     *)
(* The profile ends with numParams words of 32 bits; its first two bytes   *)
(* are numParams.  A word outside the slice makes the Go code panic.       *)
(***************************************************************************)
EXTENDS PresetTranslate

NativeIdx ==
    [exposureBias |-> 5, dynamicRange |-> 6, wideDRange |-> 7, filmSim |-> 8,
     grainEffect |-> 9, colorChrome |-> 10, smoothSkin |-> 11,
     whiteBalance |-> 12, wbShiftR |-> 13, wbShiftB |-> 14, wbColorTemp |-> 15,
     highlight |-> 16, shadow |-> 17, color |-> 18, sharpness |-> 19,
     noiseReduce |-> 20, ccFxBlue |-> 25, clarity |-> 27]
Field == DOMAIN NativeIdx
Tones == {"highlight", "shadow", "color", "sharpness", "clarity"}
Effects == {"colorChrome", "ccFxBlue", "smoothSkin"}

grainToNative ==
    [g \in {GrainOff, GrainWeakSmall, GrainStrongSmall, GrainWeakLarge, GrainStrongLarge} |->
        CASE g = GrainOff -> 1 [] g = GrainWeakSmall -> 2 [] g = GrainStrongSmall -> 3
          [] g = GrainWeakLarge -> 4 [] g = GrainStrongLarge -> 5]
drToNative == <<100, 200, 400>>

\* Deviation: effects are written as the UI has them.
NativeAsUI(f, v) == IF f \in Tones THEN {10 * v} ELSE {v}

\* What a requested value becomes in the profile: {word}, or {} if unknown.
Native(f, v) ==
    LET Known(map) == IF v \in DOMAIN map THEN {map[v]} ELSE {} IN
    CASE f = "dynamicRange" -> Known(drToNative)
      [] f = "grainEffect"  -> Known(grainToNative)
      [] f = "noiseReduce"  -> Known(NREncode)
      [] f \in Effects      -> {v + 1}
      [] f \in Tones        -> {10 * v}
      [] OTHER              -> {v}

numParams(profile) == U16(profile, 1)
\* Deviation: the words are taken to follow a header of fixed length.
FixedOffset(profile) == 2
\* Where the words begin, counted from 0.
Offset(profile) == Len(profile) - 4 * numParams(profile)

\* The slice has a whole word number idx.
HasWord(profile, idx) == idx < numParams(profile) /\ Offset(profile) + 4 * idx >= 0
Word32(profile, idx) == Int32(profile, Offset(profile) + 4 * idx + 1)

\* changes maps the fields that are set to their values.
PatchProfile(profile, changes) ==
    LET words == {f \in DOMAIN changes : Native(f, changes[f]) # {}} IN
    IF Len(profile) < 2 THEN Panic
    ELSE IF \E f \in words : ~HasWord(profile, NativeIdx[f]) THEN Panic
    ELSE [bytes |->
        [i \in 1..Len(profile) |->
            LET at == i - 1 - Offset(profile)
                of == {f \in words : NativeIdx[f] = at \div 4}
            IN  IF of = {} THEN profile[i]
                ELSE LET f == CHOOSE g \in of : TRUE
                         v == CHOOSE w \in Native(f, changes[f]) : TRUE
                     IN  Byte32(v, at % 4)]]

\* The exposure is kept in thousandths, whiteBalance is not read.
CameraProfileToUIValues(profile) ==
    LET P(f) == Word32(profile, NativeIdx[f]) IN
    IF Len(profile) < 2 THEN Panic
    ELSE IF \E f \in Field \ {"whiteBalance"} : ~HasWord(profile, NativeIdx[f]) THEN Panic
    ELSE [PresetDefaults EXCEPT
            !.filmSimulation    = P("filmSim"),
            !.wbShiftR          = P("wbShiftR"),
            !.wbShiftB          = P("wbShiftB"),
            !.highlightTone     = decodeTone(P("highlight")),
            !.shadowTone        = decodeTone(P("shadow")),
            !.color             = decodeTone(P("color")),
            !.sharpness         = decodeTone(P("sharpness")),
            !.noiseReduction    = decodeNR(P("noiseReduce")),
            !.clarity           = decodeTone(P("clarity")),
            !.exposure          = P("exposureBias"),
            !.dRangePriority    = P("wideDRange"),
            !.dynamicRange      = Lookup(drMap, P("dynamicRange"), 0),
            !.grainEffect       = Lookup(grainMap, P("grainEffect"), 0),
            !.colorChrome       = EffectToUI(P("colorChrome")),
            !.smoothSkin        = EffectToUI(P("smoothSkin")),
            !.colorChromeFxBlue = EffectToUI(P("ccFxBlue")),
            !.wbColorTemp       = IF P("wbColorTemp") > 0 THEN P("wbColorTemp") ELSE 6500]
=============================================================================
