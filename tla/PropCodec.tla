----------------------------- MODULE PropCodec -----------------------------
(***************************************************************************)
(* How property values and datasets become bytes and come back:            *)
(* internal/util/binary.go, decodePropValue, GetDeviceInfo and the name of *)
(* an ObjectInfo (internal/ptp/session.go).  A byte slice is a sequence of *)
(* bytes, its first one at position 1; a Go string is a sequence of runes. *)
(* A read past the end panics, which net/http turns into a dropped answer. *)
(***************************************************************************)
EXTENDS Integers, Sequences, SequencesExt

Byte == 0..255
Word == 0..65535

U16(d, p) == d[p] + 256 * d[p + 1]
Uint16(v) == v % 65536
Int16(w) == IF w < 32768 THEN w ELSE w - 65536
Int8(b) == IF b < 128 THEN b ELSE b - 256
Int32(d, p) == U16(d, p) + 65536 * d[p + 2] + 16777216 * Int8(d[p + 3])

PackU16(w) == <<w % 256, w \div 256>>
PackI16(v) == PackU16(Uint16(v))
\* Byte k of v as PutUint32 writes it.
Byte32(v, k) == (v \div <<1, 256, 65536, 16777216>>[k + 1]) % 256

-----------------------------------------------------------------------------
(* UTF-16, as unicode/utf16 has it.                                        *)

\* The runes of a string that is valid UTF-8.
IsRune(r) == r \in Nat /\ r < 1114112 /\ ~(55296 <= r /\ r <= 57343)
High(u) == u \in 55296..56319
Low(u) == u \in 56320..57343
Replacement == 65533

Utf16OfRune(r) ==
    IF r < 65536 THEN <<r>>
    ELSE <<55296 + (r - 65536) \div 1024, 56320 + ((r - 65536) % 1024)>>
Utf16Encode(s) == FlattenSeq([i \in DOMAIN s |-> Utf16OfRune(s[i])])

\* A high surrogate takes the low one that follows it.
Paired(u, i) == i >= 1 /\ i < Len(u) /\ High(u[i]) /\ Low(u[i + 1])
RuneAt(u, i) ==
    IF Paired(u, i) THEN 65536 + (u[i] - 55296) * 1024 + (u[i + 1] - 56320)
    ELSE IF High(u[i]) \/ Low(u[i]) THEN Replacement
    ELSE u[i]
Utf16Decode(u) ==
    FlattenSeq([i \in DOMAIN u |-> IF Paired(u, i - 1) THEN <<>> ELSE <<RuneAt(u, i)>>])

-----------------------------------------------------------------------------
(* PTP strings: one byte that counts units, the null included, then these. *)

\* Deviation: the count leaves out the null.
PackUnitsShort(u) ==
    [i \in 1..(3 + 2 * Len(u)) |->
        IF i = 1 THEN Len(u) % 256
        ELSE IF i > 1 + 2 * Len(u) THEN 0
        ELSE PackU16(u[i \div 2])[1 + (i % 2)]]

PackUnits(u) ==
    [i \in 1..(3 + 2 * Len(u)) |->
        IF i = 1 THEN (Len(u) + 1) % 256
        ELSE IF i > 1 + 2 * Len(u) THEN 0
        ELSE PackU16(u[i \div 2])[1 + (i % 2)]]

PackPTPString(s) == IF s = <<>> THEN <<0>> ELSE PackUnits(Utf16Encode(s))

\* Reading a string at p runs past the end of d.
StrOverruns(d, p) == p > Len(d) \/ p + 2 * d[p] > Len(d)

Units(d, p) == [i \in 1..d[p] |-> U16(d, p + 2 * i - 1)]
StripNull(u) == IF u # <<>> /\ u[Len(u)] = 0 THEN Front(u) ELSE u
Str(d, p) == Utf16Decode(StripNull(Units(d, p)))

-----------------------------------------------------------------------------
(* Values of device properties.                                            *)

Number(n) == [int |-> n]
Text(s) == [str |-> s]
\* The "0x..." string of up to 16 bytes, which is a Go string as well.
Hex(d) == [hex |-> SubSeq(d, 1, IF Len(d) < 16 THEN Len(d) ELSE 16)]
Panic == [panic |-> TRUE]

IsNumber(v) == "int" \in DOMAIN v
IsString(v) == DOMAIN v \cap {"str", "hex"} # {}

\* Deviation: a value of one character is not taken for a string.
LongString(d) == Len(d) >= 3 /\ d[1] > 2 /\ Len(d) \in {2 * d[1], 2 * d[1] + 1}

\* "if it looks like a PTP string": its length is right, or one byte short.
LooksLikeString(d) ==
    Len(d) >= 3 /\ d[1] >= 2 /\ Len(d) \in {2 * d[1], 2 * d[1] + 1}

\* Deviation: numbers are read without their sign.
ScalarUnsigned(d) == IF Len(d) = 2 THEN Number(U16(d, 1)) ELSE Hex(d)

Scalar(d) ==
    CASE Len(d) = 1 -> Number(d[1])
      [] Len(d) = 2 -> Number(Int16(U16(d, 1)))
      [] Len(d) = 4 -> Number(Int32(d, 1))
      [] OTHER -> Hex(d)

decodePropValue(d) ==
    IF ~LooksLikeString(d) THEN Scalar(d)
    ELSE IF StrOverruns(d, 1) THEN Panic ELSE Text(Str(d, 1))

-----------------------------------------------------------------------------
(* The DeviceInfo dataset: fourteen fields, read in order.                 *)

Fields == <<"u16", "u32", "u16", "str", "u16", "array", "array", "array",
            "array", "array", "str", "str", "str", "str">>

\* U16Array at p: the count, then as many words.
ArrayLen(d, p) == U16(d, p) + 65536 * U16(d, p + 2)
U16Array(d, p) == [i \in 1..ArrayLen(d, p) |-> U16(d, p + 2 + 2 * i)]

FieldSize(d, p, f) ==
    CASE f = "u16" -> 2
      [] f = "u32" -> 4
      [] f = "str" -> 1 + 2 * d[p]
      [] f = "array" -> IF p + 3 > Len(d) THEN 4 ELSE 4 + 2 * ArrayLen(d, p)

\* Where field k begins; beyond the end of d once a field has overrun it.
FieldAt(d) ==
    LET at[k \in 1..(Len(Fields) + 1)] ==
            IF k = 1 THEN 1
            ELSE LET p == at[k - 1] IN
                 IF p > Len(d) THEN Len(d) + 2 ELSE p + FieldSize(d, p, Fields[k - 1])
    IN  at

\* Deviation: the events are taken for the properties.
FieldOfEvents == [Operations |-> 6, Properties |-> 7, Manufacturer |-> 11,
                  Model |-> 12, DeviceVersion |-> 13, SerialNumber |-> 14]
\* The fields that are kept.
FieldOf == [Operations |-> 6, Properties |-> 8, Manufacturer |-> 11,
            Model |-> 12, DeviceVersion |-> 13, SerialNumber |-> 14]

GetDeviceInfo(d) ==
    LET at == FieldAt(d) IN
    IF at[Len(Fields) + 1] > Len(d) + 1 THEN Panic
    ELSE [n \in DOMAIN FieldOf |->
            IF n \in {"Operations", "Properties"} THEN U16Array(d, at[FieldOf[n]])
            ELSE Str(d, at[FieldOf[n]])]
=============================================================================
