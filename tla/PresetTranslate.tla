-------------------------- MODULE PresetTranslate --------------------------
(***************************************************************************)
(* Preset properties D18E-D1A5 to UI values and back                       *)
(* (internal/profile/translate.go, the values of enums.go).  A setting is  *)
(* a RawProp: property, bytes and, when it was read, the decoded value.    *)
(* The UI's float values (tones, mono tint, exposure) move in tenths and   *)
(* are kept as numbers of tenths, on which x10, /10 and round are exact.   *)
(***************************************************************************)
EXTENDS PropCodec, FiniteSetsExt, TLC

MonochromeSims == (6..10) \cup (12..15)
WBColorTemp == 32775

GrainOff         == 0
GrainWeakSmall   == 2
GrainStrongSmall == 3
GrainWeakLarge   == 258
GrainStrongLarge == 259

NRDecode ==
    [w \in {32768, 28672, 16384, 12288, 8192, 4096, 0, 24576, 20480} |->
        CASE w = 32768 -> -4 [] w = 28672 -> -3 [] w = 16384 -> -2 [] w = 12288 -> -1
          [] w = 8192 -> 0 [] w = 4096 -> 1 [] w = 0 -> 2 [] w = 24576 -> 3 [] w = 20480 -> 4]
NREncode ==
    [n \in -4..4 |->
        <<32768, 28672, 16384, 12288, 8192, 4096, 0, 24576, 20480>>[n + 5]]

drMap == [n \in {100, 200, 400} |-> CASE n = 100 -> 1 [] n = 200 -> 2 [] n = 400 -> 3]
grainMap == <<GrainOff, GrainWeakSmall, GrainStrongSmall, GrainWeakLarge, GrainStrongLarge>>

unknownDefaults ==
    [id \in {\hD18E, \hD18F, \hD191, \hD1A1, \hD1A3, \hD1A4, \hD1A5} |->
        CASE id \in {\hD18E, \hD1A5} -> 7 [] id = \hD18F -> 4 [] id = \hD191 -> 0
          [] id = \hD1A1 -> 16384 [] id \in {\hD1A3, \hD1A4} -> 1]

\* A Go map lookup with the value used when the key is not there.
Lookup(map, key, default) == IF key \in DOMAIN map THEN map[key] ELSE default

PresetDefaults ==
    [filmSimulation |-> 0, dynamicRange |-> 0, grainEffect |-> 0,
     smoothSkin |-> 0, colorChrome |-> 0, colorChromeFxBlue |-> 0,
     whiteBalance |-> 0, wbShiftR |-> 0, wbShiftB |-> 0, wbColorTemp |-> 6500,
     highlightTone |-> 0, shadowTone |-> 0, color |-> 0, sharpness |-> 0,
     noiseReduction |-> 0, clarity |-> 0, exposure |-> 0, dRangePriority |-> 0,
     monoWC |-> 0, monoMG |-> 0]

\* The first setting of that ID that holds a number: {it}, or {}.
propVal(settings, id) ==
    LET found == {i \in DOMAIN settings :
                    settings[i].ID = id /\ IsNumber(settings[i].Value)}
    IN  IF found = {} THEN {} ELSE {settings[Min(found)].Value.int}

\* The sentinel of an unset tone is 0.
decodeTone(raw) == IF raw \in {32768, -32768} THEN 0 ELSE raw
\* Deviation: the value keeps the sign that decodePropValue gave it.
SignedNR(raw) == Lookup(NRDecode, raw, 0)
decodeNR(raw) == Lookup(NRDecode, raw % 65536, 0)
\* Effects are 1, 2, 3 in the camera and 0, 1, 2 in the UI.
EffectToUI(v) == IF v > 0 THEN v - 1 ELSE 0

TranslatePresetToUI(settings) ==
    LET Value(id, default, From(_)) ==
            LET v == propVal(settings, id)
            IN  IF v = {} THEN default ELSE From(CHOOSE x \in v : TRUE)
        Plain(id) == Value(id, 0, LAMBDA v : v)
        Tone(id) == Value(id, 0, decodeTone)
        Effect(id) == Value(id, 0, EffectToUI)
        filmSim == Plain(\hD192)
        Mono(id) == IF filmSim \in MonochromeSims THEN Plain(id) ELSE 0
    IN  [filmSimulation    |-> filmSim,
         dynamicRange      |-> Value(\hD190, 0, LAMBDA v : Lookup(drMap, v, 0)),
         grainEffect       |-> Value(\hD195, 0, LAMBDA v : Lookup(grainMap, v, 0)),
         smoothSkin        |-> Effect(\hD198),
         colorChrome       |-> Effect(\hD196),
         colorChromeFxBlue |-> Effect(\hD197),
         monoWC            |-> Mono(\hD193),
         monoMG            |-> Mono(\hD194),
         whiteBalance      |-> Value(\hD199, 0, LAMBDA v : v % 65536),
         wbShiftR          |-> Plain(\hD19A),
         wbShiftB          |-> Plain(\hD19B),
         wbColorTemp       |-> Value(\hD19C, 6500, LAMBDA v : IF v > 0 THEN v ELSE 6500),
         highlightTone     |-> Tone(\hD19D),
         shadowTone        |-> Tone(\hD19E),
         color             |-> Tone(\hD19F),
         sharpness         |-> Tone(\hD1A0),
         noiseReduction    |-> Value(\hD1A1, 0, decodeNR),
         clarity           |-> Tone(\hD1A2),
         \* What no property holds.
         exposure          |-> PresetDefaults.exposure,
         dRangePriority    |-> PresetDefaults.dRangePriority]

-----------------------------------------------------------------------------

RawProp(id, bytes) == <<[ID |-> id, Bytes |-> bytes]>>
Default(id) == RawProp(id, PackU16(Lookup(unknownDefaults, id, 0)))

\* Deviation: the preset that was scanned is not looked at.
Forgotten(id, base) == Default(id)

\* The bytes of the base preset, which are those of its last such setting.
Keep(id, base) ==
    LET of == {i \in DOMAIN base : base[i].ID = id} IN
    IF of = {} THEN Default(id) ELSE RawProp(id, base[Max(of)].Bytes)

\* What becomes of each property, in order: one setting, or none.
PresetParts(values, base) ==
    LET isMono == values.filmSimulation \in MonochromeSims
        Put(id, v) == RawProp(id, PackU16(v % 65536))
        PutIf(cond, id, v) == IF cond THEN Put(id, v) ELSE <<>>
        \* "if x == 0 { x = default }"
        OrElse(v, default) == IF v = 0 THEN default ELSE v
        dr == Lookup(<<100, 200, 400>>, values.dynamicRange, 100)
        grain == CASE values.grainEffect = GrainWeakSmall   -> 2
                   [] values.grainEffect = GrainStrongSmall -> 3
                   [] values.grainEffect = GrainWeakLarge   -> 4
                   [] values.grainEffect = GrainStrongLarge -> 5
                   [] OTHER                                 -> 1
    IN  <<  Keep(\hD18E, base), Keep(\hD18F, base), Put(\hD190, dr), Keep(\hD191, base),
            Put(\hD192, OrElse(values.filmSimulation, 1)),
            PutIf(isMono /\ values.monoWC # 0, \hD193, values.monoWC),
            PutIf(isMono /\ values.monoMG # 0, \hD194, values.monoMG),
            Put(\hD195, grain),
            Put(\hD196, values.colorChrome + 1),
            Put(\hD197, values.colorChromeFxBlue + 1),
            Put(\hD198, values.smoothSkin + 1),
            Put(\hD199, values.whiteBalance),
            PutIf(values.whiteBalance = WBColorTemp /\ values.wbColorTemp > 0,
                  \hD19C, values.wbColorTemp),
            Put(\hD19A, values.wbShiftR), Put(\hD19B, values.wbShiftB),
            Put(\hD19D, values.highlightTone), Put(\hD19E, values.shadowTone),
            PutIf(~isMono, \hD19F, values.color),
            Put(\hD1A0, values.sharpness),
            IF values.noiseReduction \in DOMAIN NREncode
            THEN Put(\hD1A1, NREncode[values.noiseReduction]) ELSE Keep(\hD1A1, base),
            Put(\hD1A2, values.clarity),
            Keep(\hD1A3, base), Keep(\hD1A4, base), Keep(\hD1A5, base)>>

TranslateUIToPresetProps(values, base) == FlattenSeq(PresetParts(values, base))
=============================================================================
