------------------------------ MODULE MCCodec ------------------------------
(* Instances of Codec for TLC: the inputs of each function. *)
EXTENDS Codec

CONSTANTS
    Bytes,       \* the bytes that property values are made of
    MaxBytes,    \* bound: their length
    Runes,       \* the runes that names are made of
    MaxRunes,    \* bound: the length of the names made of any of them
    LongNames    \* the lengths of names of one repeated rune

MCValues == BoundedSeq(Bytes, MaxBytes)
Name(r, n) == [i \in 1..n |-> r]
MCNames == BoundedSeq(Runes, MaxRunes) \cup {Name(r, n) : r \in Runes, n \in LongNames}
MCNumbers == {-32768, -32767, -256, -1, 0, 1, 2, 255, 256, 512, 32767}
MCInfos ==
    [Operations : {<<>>, <<4097, 36876>>}, Properties : {<<53637>>, <<53637, 53635, 53644>>},
     Manufacturer : {<<70>>}, Model : {<<>>, <<88, 49>>}, DeviceVersion : {<<49>>},
     SerialNumber : {<<>>, <<65, 128512>>}]

\* A native profile of n words that says it has m, after a header of h bytes.
Native28(n, m, h) ==
    [i \in 1..(h + 4 * n) |->
        IF i = 1 THEN m ELSE IF i = 2 THEN 0
        ELSE IF (i - h - 1) % 4 = 0 THEN (i * 7) % 60 ELSE 0]
MCProfiles == {Native28(29, 29, 6), Native28(29, 29, 2), Native28(24, 24, 5),
               Native28(2, 29, 4), <<29>>}

Asked ==
    [f \in Field |->
        CASE f \in Tones                    -> {-4, 0, 3}
          [] f \in Effects                  -> {-1, 0, 2}
          [] f = "dynamicRange"             -> {0, 1, 3}
          [] f = "grainEffect"              -> {1, 2, 259}
          [] f = "noiseReduce"              -> {-4, 0, 2, 5}
          [] f \in {"wbShiftR", "wbShiftB"} -> {-9, 9}
          [] f = "exposureBias"             -> {-2000, 300}
          [] f = "whiteBalance"             -> {0, 32775}
          [] f = "wbColorTemp"              -> {0, 10000}
          [] OTHER                          -> {1, 12}]
MCEdits ==
    {<<>>} \cup UNION {{f :> v @@ g :> w : v \in Asked[f], w \in Asked[g]} : f, g \in Field}

\* Presets of the UI, with two of the base properties known.
UI(r) == r @@ PresetDefaults
MCPresets ==
    LET Base == [filmSimulation |-> 1, dynamicRange |-> 2] IN
    {UI([filmSimulation |-> s, color |-> c, monoWC |-> w, monoMG |-> g,
         dynamicRange |-> d] @@ Base) :
        s \in {1, 6, 11, 15, 20}, c \in {-40, 15}, w \in {0, -90}, g \in {0, 25}, d \in 1..3}
    \cup {UI([whiteBalance |-> b, wbColorTemp |-> t, wbShiftR |-> r, noiseReduction |-> n] @@ Base) :
        b \in {0, 2, 32769, 32775}, t \in {2500, 10000}, r \in {-9, 9}, n \in -4..5}
    \cup {UI([highlightTone |-> h, clarity |-> c, grainEffect |-> g, colorChrome |-> e,
              smoothSkin |-> k] @@ Base) :
        h \in {-20, 5}, c \in {-50, 50}, g \in {0, 2, 3, 258, 259}, e \in 0..2, k \in 0..2}
MCBases == {<<>>, <<[ID |-> \hD18E, Bytes |-> <<9, 0>>], [ID |-> \hD191, Bytes |-> <<1, 2>>]>>}
=============================================================================
