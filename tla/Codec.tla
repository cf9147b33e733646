------------------------------- MODULE Codec -------------------------------
(***************************************************************************)
(* The encodings as one-step systems: a job is one input of one of the     *)
(* functions of PropCodec, PresetTranslate or ProfilePatch, chosen in      *)
(* Init, and one step computes its result.                                 *)
(***************************************************************************)
EXTENDS ProfilePatch

CONSTANTS
    Values,     \* the bytes of property values
    Names,      \* the names of presets, as sequences of runes
    Numbers,    \* the 16-bit values of properties
    Infos,      \* what cameras say of themselves
    Profiles,   \* native profiles, as the camera's bytes
    Edits,      \* requests of a conversion: fields mapped to UI values
    Presets,    \* UI values of presets
    Bases       \* scanned presets: sequences of properties with their bytes

Short(n) == n \in Int /\ -32768 <= n /\ n < 32768
IsText(s) == s \in Seq(Nat) /\ \A i \in DOMAIN s : IsRune(s[i])
\* An array whose length fits a word, strings whose lengths fit a byte.
Packable(info) ==
    /\ \A n \in {"Operations", "Properties"} : info[n] \in Seq(Word) /\ Len(info[n]) < 65536
    /\ \A n \in {"Manufacturer", "Model", "DeviceVersion", "SerialNumber"} :
            IsText(info[n]) /\ Len(Utf16Encode(info[n])) < 255

ASSUME CodecAssumption ==
    /\ Values \subseteq Seq(Byte)
    /\ \A name \in Names : IsText(name)
    /\ \A n \in Numbers : Short(n)
    /\ Infos \subseteq [DOMAIN FieldOf -> Seq(Nat)]
    /\ \A info \in Infos : Packable(info)
    /\ Profiles \subseteq Seq(Byte)
    /\ \A edit \in Edits : DOMAIN edit \subseteq Field /\ \A f \in DOMAIN edit : edit[f] \in Int
    /\ Presets \subseteq [DOMAIN PresetDefaults -> Int]
    /\ Bases \subseteq Seq([ID : Word, Bytes : Seq(Byte)])
    \* Whatever a scan kept, decodePropValue got through.
    /\ \A base \in Bases : \A k \in DOMAIN base : decodePropValue(base[k].Bytes) # Panic

VARIABLES job, result, done
vars == <<job, result, done>>

\* DeviceInfo as a camera packs it (external: the PTP standard).
PackArray(a) ==
    [i \in 1..(4 + 2 * Len(a)) |->
        IF i <= 2 THEN PackU16(Len(a))[i] ELSE IF i <= 4 THEN 0
        ELSE PackU16(a[(i - 3) \div 2])[2 - (i % 2)]]
PackInfo(info) ==
    FlattenSeq(<<
        <<100, 0>>, <<6, 0, 0, 0>>, <<100, 0>>, PackPTPString(info.Model), <<0, 0>>,
        PackArray(info.Operations), PackArray(<<>>), PackArray(info.Properties),
        PackArray(<<14337>>), PackArray(<<>>),
        PackPTPString(info.Manufacturer), PackPTPString(info.Model),
        PackPTPString(info.DeviceVersion), PackPTPString(info.SerialNumber)>>)

\* The jobs.
JobOK ==
    \/ job \in [decode : Values]
    \/ job \in [name : Names]
    \/ job \in [number : Numbers]
    \/ \E info \in Infos :
         \E cut \in 0..Len(PackInfo(info)) : job = [info |-> info, cut |-> cut]
    \/ job \in [profile : Profiles, changes : Edits]
    \/ job \in [ui : Presets, base : Bases]

Init == JobOK /\ result = <<>> /\ done = FALSE

Is(kind) == kind \in DOMAIN job
Finish(value) == done' = TRUE /\ result' = value /\ UNCHANGED job

\* What ReadProp makes of bytes the camera was given.
Read(setting) ==
    [ID |-> setting.ID, Bytes |-> setting.Bytes, Value |-> decodePropValue(setting.Bytes)]

Decode == ~done /\ Is("decode") /\ Finish(decodePropValue(job.decode))
ReadName == ~done /\ Is("name") /\ Finish(decodePropValue(PackPTPString(job.name)))
ReadNumber == ~done /\ Is("number") /\ Finish(decodePropValue(PackI16(job.number)))
ReadInfo == ~done /\ Is("info") /\ Finish(GetDeviceInfo(SubSeq(PackInfo(job.info), 1, job.cut)))
Patch == ~done /\ Is("profile") /\ Finish(PatchProfile(job.profile, job.changes))
Translate == ~done /\ Is("ui") /\ Finish(TranslateUIToPresetProps(job.ui, job.base))

Next == Decode \/ ReadName \/ ReadNumber \/ ReadInfo \/ Patch \/ Translate
Spec == Init /\ [][Next]_vars

Has(kind) == done /\ Is(kind)

-----------------------------------------------------------------------------
(***************************************************************************)
(* decodePropValue reads every value without leaving the slice, but for    *)
(* those that are one byte short of the string their first byte announces: *)
(* its guess admits them (session.go:207), and Str panics on them.         *)
(***************************************************************************)
PanicsOneShort ==
    Has("decode") =>
        LET d == job.decode
        IN  result = Panic <=> Len(d) >= 4 /\ Len(d) = 2 * d[1]

(***************************************************************************)
(* A name that WritePreset packs is read back as that name exactly when it *)
(* has 1 to 254 UTF-16 units: none is a number, more wrap the count byte.  *)
(***************************************************************************)
NamesComeBack ==
    Has("name") => (result = Text(job.name) <=> Len(Utf16Encode(job.name)) \in 1..254)

(***************************************************************************)
(* A 16-bit value is read back with its sign whatever its first byte is:   *)
(* the guess of a string never takes it.                                   *)
(***************************************************************************)
NumbersComeBack == Has("number") => result = Number(job.number)

(***************************************************************************)
(* GetDeviceInfo reads model, operations and properties from their places  *)
(* in the dataset, and panics on one that is cut short anywhere.           *)
(***************************************************************************)
InfoComesBack ==
    Has("info") =>
        result = IF job.cut < Len(PackInfo(job.info)) THEN Panic ELSE job.info

(***************************************************************************)
(* PatchProfile leaves every byte alone that is not in the word of a field *)
(* of the request: the camera's EXIF sentinels and its header survive.     *)
(***************************************************************************)
FirstWord(profile) == Len(profile) - 4 * numParams(profile) + 1
InWordOf(profile, i, f) ==
    i - FirstWord(profile) \in 4 * NativeIdx[f] .. 4 * NativeIdx[f] + 3
PatchKeepsRest ==
    Has("profile") /\ result # Panic =>
        /\ Len(result.bytes) = Len(job.profile)
        /\ \A i \in DOMAIN job.profile :
              (\A f \in DOMAIN job.changes : ~InWordOf(job.profile, i, f))
                => result.bytes[i] = job.profile[i]

(***************************************************************************)
(* What PatchProfile writes, CameraProfileToUIValues reads, in a profile   *)
(* whose words do not lie over their own count: each requested field that  *)
(* fits a word shows the value requested, with the off of an effect below  *)
(* it and no temperature at its default.  The others show theirs, and an   *)
(* unknown dynamic range, grain or noise reduction changes nothing.        *)
(***************************************************************************)
UIName ==
    [exposureBias |-> "exposure", dynamicRange |-> "dynamicRange",
     wideDRange |-> "dRangePriority", filmSim |-> "filmSimulation",
     grainEffect |-> "grainEffect", colorChrome |-> "colorChrome",
     smoothSkin |-> "smoothSkin", wbShiftR |-> "wbShiftR", wbShiftB |-> "wbShiftB",
     wbColorTemp |-> "wbColorTemp", highlight |-> "highlightTone",
     shadow |-> "shadowTone", color |-> "color", sharpness |-> "sharpness",
     noiseReduce |-> "noiseReduction", ccFxBlue |-> "colorChromeFxBlue",
     clarity |-> "clarity"]
Legal(f, v) ==
    CASE f = "dynamicRange" -> v \in 1..3
      [] f = "grainEffect"  -> v \in {0, 2, 3, 258, 259}
      [] f = "noiseReduce"  -> v \in -4..4
      [] OTHER              -> TRUE
Shown(f, v) ==
    CASE f \in Tones       -> 10 * v
      [] f \in Effects     -> IF v > 0 THEN v ELSE 0
      [] f = "wbColorTemp" -> IF v > 0 THEN v ELSE 6500
      [] OTHER             -> v
FitsWord(w) == -2147483647 - 1 <= w /\ w <= 2147483647
PatchReadsBack ==
    Has("profile") /\ CameraProfileToUIValues(job.profile) # Panic
            /\ FirstWord(job.profile) > 2 =>
        LET before == CameraProfileToUIValues(job.profile)
            after == CameraProfileToUIValues(result.bytes)
        IN  \A f \in DOMAIN UIName :
                IF f \in DOMAIN job.changes /\ Legal(f, job.changes[f])
                THEN (\A w \in Native(f, job.changes[f]) : FitsWord(w))
                        => after[UIName[f]] = Shown(f, job.changes[f])
                ELSE after[UIName[f]] = before[UIName[f]]

(***************************************************************************)
(* A preset of values that fit their properties, written from the UI and   *)
(* scanned again, shows these values; those that do not apply (color of a  *)
(* monochrome film, mono tint of a color film, temperature in another      *)
(* mode, what no preset holds) show their defaults.                        *)
(***************************************************************************)
Fits(v) ==
    /\ Short(v.filmSimulation) /\ v.filmSimulation # 0
    /\ v.dynamicRange \in 1..3
    /\ v.grainEffect \in {0, 2, 3, 258, 259}
    /\ v.noiseReduction \in -4..4
    /\ v.whiteBalance \in Word
    /\ v.wbColorTemp > 0 /\ Short(v.wbColorTemp)
    /\ \A n \in {"smoothSkin", "colorChrome", "colorChromeFxBlue"} : v[n] >= 0 /\ Short(v[n] + 1)
    /\ \A n \in {"monoWC", "monoMG", "wbShiftR", "wbShiftB"} : Short(v[n])
    \* -32768 is the sentinel of an unset tone.
    /\ \A n \in {"highlightTone", "shadowTone", "color", "sharpness", "clarity"} :
            v[n] # -32768 /\ Short(v[n])
Applicable(v) ==
    LET mono == v.filmSimulation \in MonochromeSims IN
    [v EXCEPT !.color = IF mono THEN 0 ELSE @,
              !.monoWC = IF mono THEN @ ELSE 0, !.monoMG = IF mono THEN @ ELSE 0,
              !.wbColorTemp = IF v.whiteBalance = WBColorTemp THEN @ ELSE 6500,
              !.exposure = 0, !.dRangePriority = 0]
UIComesBack ==
    Has("ui") /\ Fits(job.ui) =>
        LET scanned == [i \in DOMAIN result |-> Read(result[i])]
        IN  /\ \A i \in DOMAIN scanned : scanned[i].Value # Panic
            /\ TranslatePresetToUI(scanned) = Applicable(job.ui)

(***************************************************************************)
(* Properties the UI does not show are written back as they were scanned,  *)
(* and no property is written twice.                                       *)
(***************************************************************************)
NotShown == {\hD18E, \hD18F, \hD191, \hD1A3, \hD1A4, \hD1A5}
BaseKept ==
    Has("ui") =>
        /\ \A k \in DOMAIN job.base :
              job.base[k].ID \in NotShown /\ (\A l \in DOMAIN job.base : l > k => job.base[l].ID # job.base[k].ID)
                => Contains(result, job.base[k])
        /\ \A i, j \in DOMAIN result : result[i].ID = result[j].ID => i = j
=============================================================================
