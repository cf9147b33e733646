--------------------------- MODULE ProfileProofs ----------------------------
(***************************************************************************)
(* For native profiles, requests, UI values and scanned presets of any     *)
(* kind: what PatchProfile and TranslateUIToPresetProps write, and what    *)
(* CameraProfileToUIValues and TranslatePresetToUI read of it.             *)
(***************************************************************************)
EXTENDS CodecProofs

-----------------------------------------------------------------------------
(***************************************************************************)
(* The bytes of a patched profile.                                         *)
(***************************************************************************)
\* The fields whose words a request writes.
Written(changes) == {f \in DOMAIN changes : Native(f, changes[f]) # {}}
\* Byte i of the patched profile.
Patched(profile, changes, i) ==
    LET at == i - 1 - Offset(profile)
        of == {f \in Written(changes) : NativeIdx[f] = at \div 4}
    IN  IF of = {} THEN profile[i]
        ELSE LET f == CHOOSE g \in of : TRUE
                 v == CHOOSE w \in Native(f, changes[f]) : TRUE
             IN  Byte32(v, at % 4)

\* PatchProfile, byte by byte.
LEMMA PatchIs ==
    ASSUME NEW profile, NEW changes, PatchProfile(profile, changes) # Panic
    PROVE  /\ ~(Len(profile) < 2)
           /\ PatchProfile(profile, changes).bytes =
                [i \in 1..Len(profile) |-> Patched(profile, changes, i)]
<1> DEFINE b == [i \in 1..Len(profile) |-> Patched(profile, changes, i)]
<1>1. ~(Len(profile) < 2)
  BY DEF PatchProfile
<1>2. PatchProfile(profile, changes) = [bytes |-> b]
  BY DEF PatchProfile, Written, Patched
<1> HIDE DEF b
<1>3. PatchProfile(profile, changes).bytes = b
  BY <1>2
<1> QED BY <1>1, <1>3 DEF b

\* Bytes are naturals.
LEMMA ByteRange == Byte \subseteq Nat
BY DEF Byte

\* The count and the place of the words of a profile are numbers.
LEMMA OffsetType ==
    ASSUME NEW profile \in Seq(Byte), ~(Len(profile) < 2)
    PROVE  numParams(profile) \in Nat /\ Offset(profile) \in Int /\ Len(profile) \in Nat
<1>1. Len(profile) \in Nat
  OBVIOUS
<1>2. 1 \in 1..Len(profile) /\ 1 + 1 \in 1..Len(profile)
  BY <1>1
<1>3. profile[1] \in Byte /\ profile[1 + 1] \in Byte
  BY <1>2, ElementOf
<1>4. profile[1] \in Nat /\ profile[1 + 1] \in Nat
  BY <1>3, ByteRange
<1>5. numParams(profile) \in Nat
  BY <1>4 DEF numParams, U16
<1> QED BY <1>1, <1>5 DEF Offset

\* The words that the daemon knows are the sixth to the twenty-eighth.
LEMMA IndexRange == \A f \in Field : NativeIdx[f] \in Nat /\ 5 <= NativeIdx[f] /\ NativeIdx[f] <= 27
BY DEF Field, NativeIdx

\* A byte of no requested word is the byte of the profile.
LEMMA RestKept ==
    ASSUME NEW profile \in Seq(Byte), NEW changes, DOMAIN changes \subseteq Field,
           PatchProfile(profile, changes) # Panic,
           NEW i \in DOMAIN profile, \A f \in DOMAIN changes : ~InWordOf(profile, i, f)
    PROVE  PatchProfile(profile, changes).bytes[i] = profile[i]
<1> DEFINE at == i - 1 - Offset(profile)
<1>1. Offset(profile) \in Int /\ Len(profile) \in Nat /\ i \in 1..Len(profile)
  <2>1. ~(Len(profile) < 2)
    BY PatchIs
  <2>2. Offset(profile) \in Int /\ Len(profile) \in Nat
    BY <2>1, OffsetType
  <2>3. DOMAIN profile = 1..Len(profile)
    OBVIOUS
  <2> QED BY <2>2, <2>3
<1>2. at \in Int /\ i - FirstWord(profile) = at
  BY <1>1 DEF FirstWord, Offset
<1>3. ASSUME NEW f \in Written(changes) PROVE NativeIdx[f] # at \div 4
  <2>1. f \in DOMAIN changes /\ f \in Field
    BY DEF Written
  <2>2. ~(at \in 4 * NativeIdx[f] .. 4 * NativeIdx[f] + 3)
    BY <1>2, <2>1 DEF InWordOf
  <2>3. NativeIdx[f] \in Int
    BY <2>1, IndexRange
  <2> HIDE DEF at
  <2> DEFINE k == NativeIdx[f]
  <2>4. k \in Int /\ ~(at \in 4 * k .. 4 * k + 3)
    BY <2>2, <2>3
  <2> HIDE DEF k
  <2>5. k # at \div 4
    BY <1>2, <2>4
  <2> QED BY <2>5 DEF k
<1>4. Patched(profile, changes, i) = profile[i]
  BY <1>3 DEF Patched
<1>5. PatchProfile(profile, changes).bytes[i] = Patched(profile, changes, i)
  <2> DEFINE n == Len(profile)
             b == [j \in 1..n |-> Patched(profile, changes, j)]
  <2>1. PatchProfile(profile, changes).bytes = b /\ i \in 1..n
    BY <1>1, PatchIs
  <2> HIDE DEF n
  <2>2. b[i] = Patched(profile, changes, i)
    BY <2>1
  <2> HIDE DEF b
  <2> QED BY <2>1, <2>2
<1> QED BY <1>4, <1>5

(***************************************************************************)
(* For any profile and request: PatchProfile changes no byte outside the   *)
(* words of the fields requested.                                          *)
(***************************************************************************)
THEOREM RestSurvives == Spec => []PatchKeepsRest
<1>1. CodecInv => PatchKeepsRest
  <2> SUFFICES ASSUME CodecInv, Has("profile"), result # Panic
               PROVE  /\ Len(result.bytes) = Len(job.profile)
                      /\ \A i \in DOMAIN job.profile :
                            (\A f \in DOMAIN job.changes : ~InWordOf(job.profile, i, f))
                                => result.bytes[i] = job.profile[i]
    BY DEF PatchKeepsRest
  <2> DEFINE p == job.profile
             c == job.changes
  <2>1. p \in Seq(Byte) /\ DOMAIN c \subseteq Field /\ result = PatchProfile(p, c)
    BY JobKinds, CodecAssumption DEF CodecInv, Computed, Has
  <2> HIDE DEF p, c
  <2>2. Len(result.bytes) = Len(p)
    <3> DEFINE n == Len(p)
               b == [i \in 1..n |-> Patched(p, c, i)]
    <3>1. n \in Nat /\ result.bytes = b
      BY <2>1, PatchIs
    <3> HIDE DEF n
    <3>2. Len(b) = n
      BY <3>1
    <3> QED BY <3>1, <3>2 DEF n
  <2>3. \A i \in DOMAIN p :
           (\A f \in DOMAIN c : ~InWordOf(p, i, f)) => result.bytes[i] = p[i]
    BY <2>1, RestKept
  <2> QED BY <2>2, <2>3 DEF p, c
<1> QED BY <1>1, CodecInvariance, PTL

-----------------------------------------------------------------------------
(***************************************************************************)
(* Its words, and the fields that the UI reads from them.                  *)
(***************************************************************************)
\* A word of 32 bits from its bytes.
LEMMA WordOfBytes ==
    ASSUME NEW w \in Int, FitsWord(w), NEW d, NEW p \in Int,
           d[p] = Byte32(w, 0), d[p + 1] = Byte32(w, 1),
           d[p + 2] = Byte32(w, 2), d[p + 3] = Byte32(w, 3)
    PROVE  Int32(d, p) = w
<1> DEFINE q1 == w \div 256
           q2 == w \div 65536
           q3 == w \div 16777216
           b0 == w % 256
           b1 == q1 % 256
           b2 == q2 % 256
           b3 == q3 % 256
<1>1. /\ Byte32(w, 0) = b0 /\ Byte32(w, 1) = b1 /\ Byte32(w, 2) = b2 /\ Byte32(w, 3) = b3
  <2>1. w \div 1 = w
    OBVIOUS
  <2> QED BY <2>1, SMT DEF Byte32
<1>2. q1 \in Int /\ q2 \in Int /\ q3 \in Int
  BY SMT
<1>3. w = 256 * q1 + b0 /\ b0 \in Int
  BY SMT
<1>4. q1 = 256 * q2 + b1 /\ b1 \in Int
  BY SMT
<1>5. q2 = 256 * q3 + b2 /\ b2 \in Int
  BY SMT
<1>6. -128 <= q3 /\ q3 < 128
  BY SMT DEF FitsWord
<1>7. Int8(b3) = q3
  <2>1. q3 >= 0 => b3 = q3
    BY <1>2, <1>6, SMT
  <2>2. q3 < 0 => b3 = q3 + 256
    BY <1>2, <1>6, SMT
  <2> HIDE DEF b3
  <2> QED BY <1>2, <1>6, <2>1, <2>2, SMT DEF Int8
<1>8. U16(d, p) = b0 + 256 * b1
  BY <1>1 DEF U16
<1>9. Int32(d, p) = U16(d, p) + 65536 * b2 + 16777216 * q3
  BY <1>1, <1>7, SMT DEF Int32
<1> HIDE DEF q1, q2, q3, b0, b1, b2, b3
<1>10. b0 + 256 * b1 + 65536 * b2 + 16777216 * q3 = w
  BY <1>2, <1>3, <1>4, <1>5, SMT
<1> QED BY <1>2, <1>3, <1>4, <1>5, <1>8, <1>9, <1>10, SMT

\* The same bytes are the same word.
LEMMA SameWord ==
    ASSUME NEW c, NEW d, NEW p \in Int,
           d[p] = c[p], d[p + 1] = c[p + 1], d[p + 2] = c[p + 2], d[p + 3] = c[p + 3]
    PROVE  Int32(d, p) = Int32(c, p)
BY SMT DEF Int32, U16

\* Fields have words of their own.
LEMMA IndexInjective == \A f, g \in Field : NativeIdx[f] = NativeIdx[g] => f = g
BY DEF Field, NativeIdx

\* A field and its UI value give one word or none.
LEMMA NativeOne ==
    ASSUME NEW f \in Field, NEW v \in Int
    PROVE  Native(f, v) = {} \/ \E w \in Int : Native(f, v) = {w}
<1>1. CASE f = "dynamicRange"
  <2>1. v \in DOMAIN drToNative => drToNative[v] \in Int
    BY DEF drToNative
  <2>2. Native(f, v) = IF v \in DOMAIN drToNative THEN {drToNative[v]} ELSE {}
    BY <1>1 DEF Native, Effects, Tones
  <2> QED BY <2>1, <2>2
<1>2. CASE f = "grainEffect"
  <2>1. v \in DOMAIN grainToNative => grainToNative[v] \in Int
    BY DEF grainToNative, GrainOff, GrainWeakSmall, GrainStrongSmall, GrainWeakLarge, GrainStrongLarge
  <2>2. Native(f, v) = IF v \in DOMAIN grainToNative THEN {grainToNative[v]} ELSE {}
    BY <1>2 DEF Native, Effects, Tones
  <2> QED BY <2>1, <2>2
<1>3. CASE f = "noiseReduce"
  <2>1. v \in DOMAIN NREncode => NREncode[v] \in Int
    BY DEF NREncode
  <2>2. Native(f, v) = IF v \in DOMAIN NREncode THEN {NREncode[v]} ELSE {}
    BY <1>3 DEF Native, Effects, Tones
  <2> QED BY <2>1, <2>2
<1>4. CASE f \notin {"dynamicRange", "grainEffect", "noiseReduce"}
  BY <1>4 DEF Native
<1> QED BY <1>1, <1>2, <1>3, <1>4

\* The words that both functions of the profile touch are there.
LEMMA AllWords ==
    ASSUME NEW profile \in Seq(Byte), CameraProfileToUIValues(profile) # Panic, FirstWord(profile) > 2
    PROVE  /\ ~(Len(profile) < 2) /\ Len(profile) \in Nat
           /\ numParams(profile) \in Nat /\ numParams(profile) > 27
           /\ Offset(profile) \in Nat /\ Offset(profile) >= 2
           /\ Offset(profile) = Len(profile) - 4 * numParams(profile)
           /\ \A f \in Field : HasWord(profile, NativeIdx[f])
<1> DEFINE n == Len(profile)
           m == numParams(profile)
           o == Offset(profile)
<1>1. ~(n < 2)
  BY DEF CameraProfileToUIValues
<1>2. n \in Nat /\ m \in Nat /\ o \in Int
  BY <1>1, OffsetType
<1>3. o = n - 4 * m /\ FirstWord(profile) = n - 4 * m + 1
  BY DEF Offset, FirstWord
<1>4. HasWord(profile, 27)
  <2>1. "clarity" \in Field \ {"whiteBalance"} /\ NativeIdx["clarity"] = 27
    BY DEF Field, NativeIdx
  <2>2. \A f \in Field \ {"whiteBalance"} : HasWord(profile, NativeIdx[f])
    BY DEF CameraProfileToUIValues
  <2> QED BY <2>1, <2>2
<1>5. 27 < m
  BY <1>4 DEF HasWord
<1>6. FirstWord(profile) > 2
  OBVIOUS
<1>7. o \in Nat /\ o >= 2
  <2> HIDE DEF n, m, o
  <2> QED BY <1>2, <1>3, <1>6
<1>8. ASSUME NEW f \in Field PROVE HasWord(profile, NativeIdx[f])
  <2> DEFINE k == NativeIdx[f]
  <2>1. k \in Nat /\ k <= 27
    BY IndexRange
  <2> HIDE DEF n, m, o, k
  <2>2. k < m /\ o + 4 * k >= 0
    BY <1>2, <1>5, <1>7, <2>1
  <2>3. HasWord(profile, k) <=> k < m /\ o + 4 * k >= 0
    BY DEF HasWord, m, o
  <2> QED BY <2>2, <2>3 DEF k
<1> QED BY <1>1, <1>2, <1>3, <1>5, <1>7, <1>8

\* A byte of the word of f.
LEMMA PatchedByte ==
    ASSUME NEW profile, NEW changes, DOMAIN changes \subseteq Field, Offset(profile) \in Int,
           NEW f \in Field, NEW j \in 0..3, NEW i, i = Offset(profile) + 4 * NativeIdx[f] + 1 + j
    PROVE  Patched(profile, changes, i) =
                IF f \in Written(changes)
                THEN Byte32(CHOOSE w \in Native(f, changes[f]) : TRUE, j)
                ELSE profile[i]
<1> DEFINE o == Offset(profile)
           k == NativeIdx[f]
           at == i - 1 - o
<1>1. o \in Int /\ k \in Nat /\ i = o + 4 * k + 1 + j
  BY IndexRange
<1> HIDE DEF o, k
<1>2. at = 4 * k + j /\ at \div 4 = k /\ at % 4 = j
  <2>1. at = 4 * k + j
    BY <1>1
  <2> HIDE DEF at
  <2>2. at \div 4 = k /\ at % 4 = j
    BY <1>1, <2>1
  <2> QED BY <2>1, <2>2
<1> DEFINE of == {g \in Written(changes) : NativeIdx[g] = at \div 4}
<1> HIDE DEF at
<1>3. of = IF f \in Written(changes) THEN {f} ELSE {}
  <2>1. \A g \in Written(changes) : g \in Field
    BY DEF Written
  <2>2. \A g \in Written(changes) : NativeIdx[g] = at \div 4 <=> g = f
    BY <1>2, <2>1, IndexInjective DEF k
  <2> QED BY <2>2
<1>4. Patched(profile, changes, i) =
        IF of = {} THEN profile[i]
        ELSE LET g == CHOOSE x \in of : TRUE
                 v == CHOOSE w \in Native(g, changes[g]) : TRUE
             IN  Byte32(v, at % 4)
  BY DEF Patched, at, o
<1> DEFINE val(g) == Byte32(CHOOSE w \in Native(g, changes[g]) : TRUE, j)
<1>7. of # {} => Patched(profile, changes, i) = val(CHOOSE x \in of : TRUE)
  BY <1>2, <1>4
<1> HIDE DEF of
<1>5. CASE f \in Written(changes)
  <2>1. of = {f}
    BY <1>3, <1>5
  <2>2. of # {} /\ (CHOOSE x \in of : TRUE) = f
    BY <2>1
  <2>3. Patched(profile, changes, i) = val(f)
    <3> HIDE DEF val
    <3> QED BY <1>7, <2>2
  <2> QED BY <1>5, <2>3
<1>6. CASE f \notin Written(changes)
  BY <1>3, <1>4, <1>6
<1> QED BY <1>5, <1>6

\* PatchProfile, word by word: written ones hold what was encoded, the others what they held.
LEMMA PatchedWords ==
    ASSUME NEW profile \in Seq(Byte), NEW changes, DOMAIN changes \subseteq Field,
           \A f \in DOMAIN changes : changes[f] \in Int,
           CameraProfileToUIValues(profile) # Panic, FirstWord(profile) > 2
    PROVE  LET b == PatchProfile(profile, changes).bytes IN
           /\ PatchProfile(profile, changes) # Panic
           /\ Len(b) = Len(profile) /\ numParams(b) = numParams(profile)
           /\ \A f \in Field : f \notin Written(changes) =>
                 Word32(b, NativeIdx[f]) = Word32(profile, NativeIdx[f])
           /\ \A f \in Written(changes) : \A w \in Native(f, changes[f]) : FitsWord(w) =>
                 Word32(b, NativeIdx[f]) = w
<1> DEFINE n == Len(profile)
           m == numParams(profile)
           o == Offset(profile)
           b == PatchProfile(profile, changes).bytes
<1>1. /\ ~(n < 2) /\ n \in Nat /\ m \in Nat /\ m > 27 /\ o \in Nat /\ o >= 2 /\ o = n - 4 * m
      /\ \A f \in Field : HasWord(profile, NativeIdx[f])
  BY AllWords
<1>2. PatchProfile(profile, changes) # Panic
  <2> DEFINE r == [bytes |->
                    [i \in 1..Len(profile) |->
                        LET at == i - 1 - Offset(profile)
                            of == {f \in {g \in DOMAIN changes : Native(g, changes[g]) # {}} :
                                        NativeIdx[f] = at \div 4}
                        IN  IF of = {} THEN profile[i]
                            ELSE LET f == CHOOSE g \in of : TRUE
                                     v == CHOOSE w \in Native(f, changes[f]) : TRUE
                                 IN  Byte32(v, at % 4)]]
  <2>1. r # Panic
    BY DEF Panic
  <2> HIDE DEF n, m, o
  <2>2. PatchProfile(profile, changes) = r
    BY <1>1 DEF PatchProfile, n
  <2> HIDE DEF r
  <2> QED BY <2>1, <2>2
<1>3. b = [i \in 1..n |-> Patched(profile, changes, i)]
  BY <1>2, PatchIs
<1> HIDE DEF n, m, o, b
<1>4. Len(b) = n /\ \A i \in 1..n : b[i] = Patched(profile, changes, i)
  BY <1>1, <1>3
<1>5. ASSUME NEW i \in 1..2 PROVE b[i] = profile[i]
  <2> DEFINE at == i - 1 - o
  <2>1. at \in Int /\ at < 0 /\ i \in 1..n
    BY <1>1
  <2>2. \A f \in Field : NativeIdx[f] # at \div 4
    <3> HIDE DEF at
    <3>1. at \div 4 < 0
      BY <2>1
    <3>2. \A k \in Nat : k # at \div 4
      BY <2>1, <3>1
    <3> QED BY <3>2, IndexRange
  <2>4. {f \in Written(changes) : NativeIdx[f] = at \div 4} = {}
    BY <2>2 DEF Written
  <2>5. Patched(profile, changes, i) = profile[i]
    BY <2>4 DEF Patched, o
  <2> QED BY <1>4, <2>1, <2>5
<1>6. numParams(b) = m
  <2>1. b[1] = profile[1] /\ b[1 + 1] = profile[1 + 1]
    <3>1. 1 \in 1..2 /\ 1 + 1 \in 1..2
      OBVIOUS
    <3> QED BY <1>5, <3>1
  <2> QED BY <2>1 DEF numParams, U16, m
<1>7. Offset(b) = o
  BY <1>4, <1>6, <1>1 DEF Offset, n
<1>8. ASSUME NEW f \in Field, NEW j \in 0..3
      PROVE  b[(o + 4 * NativeIdx[f] + 1) + j] =
                IF f \in Written(changes)
                THEN Byte32(CHOOSE w \in Native(f, changes[f]) : TRUE, j)
                ELSE profile[(o + 4 * NativeIdx[f] + 1) + j]
  <2> DEFINE k == NativeIdx[f]
             i == (o + 4 * k + 1) + j
  <2>1. k \in Nat /\ k <= 27
    BY IndexRange
  <2> HIDE DEF k
  <2>2. i \in 1..n
    <3>1. n \in Nat /\ m \in Nat /\ m > 27 /\ o \in Nat /\ o >= 2 /\ o = n - 4 * m
      BY <1>1
    <3>2. j \in Int /\ 0 <= j /\ j <= 3
      OBVIOUS
    <3>3. i \in Int /\ 1 <= i /\ i <= n
      BY <2>1, <3>1, <3>2
    <3> HIDE DEF i
    <3> QED BY <3>1, <3>3
  <2>3. i = Offset(profile) + 4 * NativeIdx[f] + 1 + j
    BY DEF k, o
  <2> HIDE DEF i
  <2>4. Offset(profile) \in Int
    BY <1>1 DEF o
  <2>5. Patched(profile, changes, i) =
                IF f \in Written(changes)
                THEN Byte32(CHOOSE w \in Native(f, changes[f]) : TRUE, j)
                ELSE profile[i]
    BY <2>3, <2>4, PatchedByte
  <2> QED BY <1>4, <2>2, <2>5 DEF i, k
<1>10. ASSUME NEW f \in Field, f \notin Written(changes)
       PROVE  Word32(b, NativeIdx[f]) = Word32(profile, NativeIdx[f])
  <2> DEFINE p == o + 4 * NativeIdx[f] + 1
  <2>1. p \in Int
    BY <1>1, IndexRange
  <2>2. \A j \in 0..3 : b[p + j] = profile[p + j]
    BY <1>8, <1>10
  <2>3. Word32(b, NativeIdx[f]) = Int32(b, p) /\ Word32(profile, NativeIdx[f]) = Int32(profile, p)
    BY <1>7 DEF Word32, o
  <2> HIDE DEF p
  <2>4. /\ b[p + 0] = profile[p + 0] /\ b[p + 1] = profile[p + 1]
        /\ b[p + 2] = profile[p + 2] /\ b[p + 3] = profile[p + 3] /\ p + 0 = p
    BY <2>1, <2>2
  <2>5. Int32(b, p) = Int32(profile, p)
    BY <2>1, <2>4, SameWord
  <2> QED BY <2>3, <2>5
<1>11. ASSUME NEW f \in Written(changes), NEW w \in Native(f, changes[f]), FitsWord(w)
       PROVE  Word32(b, NativeIdx[f]) = w
  <2> DEFINE p == o + 4 * NativeIdx[f] + 1
  <2>1. f \in Field /\ changes[f] \in Int
    BY DEF Written
  <2>2. w \in Int /\ (CHOOSE v \in Native(f, changes[f]) : TRUE) = w
    <3>1. PICK x \in Int : Native(f, changes[f]) = {x}
      BY <2>1, NativeOne
    <3> QED BY <3>1
  <2>3. p \in Int
    BY <1>1, <2>1, IndexRange
  <2>4. \A j \in 0..3 : b[p + j] = Byte32(w, j)
    BY <1>8, <2>1, <2>2
  <2>5. Word32(b, NativeIdx[f]) = Int32(b, p)
    BY <1>7 DEF Word32
  <2> HIDE DEF p
  <2>6. /\ b[p + 0] = Byte32(w, 0) /\ b[p + 1] = Byte32(w, 1)
        /\ b[p + 2] = Byte32(w, 2) /\ b[p + 3] = Byte32(w, 3) /\ p + 0 = p
    BY <2>3, <2>4
  <2>7. Int32(b, p) = w
    BY <1>11, <2>2, <2>3, <2>6, WordOfBytes
  <2> QED BY <2>5, <2>7
<1> QED BY <1>2, <1>4, <1>6, <1>10, <1>11 DEF n, m, b

\* What the UI is shown of the word of f.
Seen(f, w) ==
    CASE f \in Tones          -> decodeTone(w)
      [] f \in Effects        -> EffectToUI(w)
      [] f = "noiseReduce"    -> decodeNR(w)
      [] f = "dynamicRange"   -> Lookup(drMap, w, 0)
      [] f = "grainEffect"    -> Lookup(grainMap, w, 0)
      [] f = "wbColorTemp"    -> IF w > 0 THEN w ELSE 6500
      [] OTHER                -> w

\* CameraProfileToUIValues finds all its words.
Whole(profile) ==
    /\ ~(Len(profile) < 2)
    /\ ~(\E f \in Field \ {"whiteBalance"} : ~HasWord(profile, NativeIdx[f]))

\* CameraProfileToUIValues, field by field.
LEMMA SeenWords ==
    ASSUME NEW profile, Whole(profile)
    PROVE  \A f \in DOMAIN UIName :
              CameraProfileToUIValues(profile)[UIName[f]] = Seen(f, Word32(profile, NativeIdx[f]))
<1> DEFINE P(f) == Word32(profile, NativeIdx[f])
           v == CameraProfileToUIValues(profile)
<1>1. v = [PresetDefaults EXCEPT
            !.filmSimulation    = P("filmSim"),
            !.wbShiftR          = P("wbShiftR"),
            !.wbShiftB          = P("wbShiftB"),
            !.highlightTone     = decodeTone(P("highlight")),
            !.shadowTone        = decodeTone(P("shadow")),
            !.color             = decodeTone(P("color")),
            !.sharpness         = decodeTone(P("sharpness")),
            !.noiseReduction    = decodeNR(P("noiseReduce")),
            !.clarity           = decodeTone(P("clarity")),
            !.exposure          = P("exposureBias"),
            !.dRangePriority    = P("wideDRange"),
            !.dynamicRange      = Lookup(drMap, P("dynamicRange"), 0),
            !.grainEffect       = Lookup(grainMap, P("grainEffect"), 0),
            !.colorChrome       = EffectToUI(P("colorChrome")),
            !.smoothSkin        = EffectToUI(P("smoothSkin")),
            !.colorChromeFxBlue = EffectToUI(P("ccFxBlue")),
            !.wbColorTemp       = IF P("wbColorTemp") > 0 THEN P("wbColorTemp") ELSE 6500]
  BY DEF CameraProfileToUIValues, Whole
<1> HIDE DEF P, v
<1>2. /\ v.filmSimulation = P("filmSim") /\ v.wbShiftR = P("wbShiftR") /\ v.wbShiftB = P("wbShiftB")
      /\ v.highlightTone = decodeTone(P("highlight")) /\ v.shadowTone = decodeTone(P("shadow"))
      /\ v.color = decodeTone(P("color")) /\ v.sharpness = decodeTone(P("sharpness"))
      /\ v.noiseReduction = decodeNR(P("noiseReduce")) /\ v.clarity = decodeTone(P("clarity"))
      /\ v.exposure = P("exposureBias") /\ v.dRangePriority = P("wideDRange")
      /\ v.dynamicRange = Lookup(drMap, P("dynamicRange"), 0)
      /\ v.grainEffect = Lookup(grainMap, P("grainEffect"), 0)
      /\ v.colorChrome = EffectToUI(P("colorChrome")) /\ v.smoothSkin = EffectToUI(P("smoothSkin"))
      /\ v.colorChromeFxBlue = EffectToUI(P("ccFxBlue"))
      /\ v.wbColorTemp = IF P("wbColorTemp") > 0 THEN P("wbColorTemp") ELSE 6500
  BY <1>1 DEF PresetDefaults
<1>3. ASSUME NEW f \in DOMAIN UIName PROVE v[UIName[f]] = Seen(f, P(f))
  BY <1>2 DEF Seen, UIName, Tones, Effects
<1> QED BY <1>3 DEF P, v

\* The word written for a legal value is read back as what the UI shows of it.
LEMMA ShownWords ==
    ASSUME NEW f \in DOMAIN UIName, NEW v \in Int, Legal(f, v)
    PROVE  /\ Native(f, v) # {}
           /\ \A w \in Native(f, v) : Seen(f, w) = Shown(f, v)
<1>1. CASE f = "dynamicRange"
  <2>1. v \in 1..3
    BY <1>1 DEF Legal
  <2>2. Native(f, v) = {drToNative[v]}
    BY <1>1, <2>1 DEF Native, Effects, Tones, drToNative
  <2>3. Seen(f, drToNative[v]) = Lookup(drMap, drToNative[v], 0)
    BY <1>1 DEF Seen, Effects, Tones
  <2>4. Shown(f, v) = v
    BY <1>1 DEF Shown, Effects, Tones
  <2>5. Lookup(drMap, drToNative[v], 0) = v
    BY <2>1 DEF Lookup, drMap, drToNative
  <2> QED BY <2>2, <2>3, <2>4, <2>5
<1>2. CASE f = "grainEffect"
  <2>1. v \in {0, 2, 3, 258, 259}
    BY <1>2 DEF Legal
  <2> USE DEF GrainOff, GrainWeakSmall, GrainStrongSmall, GrainWeakLarge, GrainStrongLarge
  <2>2. Native(f, v) = {grainToNative[v]}
    BY <1>2, <2>1 DEF Native, Effects, Tones, grainToNative
  <2>3. Seen(f, grainToNative[v]) = Lookup(grainMap, grainToNative[v], 0)
    BY <1>2 DEF Seen, Effects, Tones
  <2>4. Shown(f, v) = v
    BY <1>2 DEF Shown, Effects, Tones
  <2>5. Lookup(grainMap, grainToNative[v], 0) = v
    BY <2>1 DEF Lookup, grainMap, grainToNative
  <2> QED BY <2>2, <2>3, <2>4, <2>5
<1>3. CASE f = "noiseReduce"
  <2>1. v \in -4..4
    BY <1>3 DEF Legal
  <2>2. Native(f, v) = {NREncode[v]}
    BY <1>3, <2>1 DEF Native, Effects, Tones, NREncode
  <2>3. Seen(f, NREncode[v]) = decodeNR(NREncode[v])
    BY <1>3 DEF Seen, Effects, Tones
  <2>4. Shown(f, v) = v
    BY <1>3 DEF Shown, Effects, Tones
  <2>5. decodeNR(NREncode[v]) = v
    BY <2>1 DEF decodeNR, Lookup, NRDecode, NREncode
  <2> QED BY <2>2, <2>3, <2>4, <2>5
<1>4. CASE f \in Tones
  <2>1. Native(f, v) = {10 * v} /\ Shown(f, v) = 10 * v
    BY <1>4 DEF Native, Shown, Effects, Tones
  <2>2. Seen(f, 10 * v) = decodeTone(10 * v)
    BY <1>4 DEF Seen, Effects, Tones
  <2>3. 10 * v # 32768 /\ 10 * v # -32768
    OBVIOUS
  <2>4. decodeTone(10 * v) = 10 * v
    BY <2>3 DEF decodeTone
  <2> QED BY <2>1, <2>2, <2>4
<1>5. CASE f \in Effects
  <2>1. Native(f, v) = {v + 1} /\ Shown(f, v) = IF v > 0 THEN v ELSE 0
    BY <1>5 DEF Native, Shown, Effects, Tones
  <2>2. Seen(f, v + 1) = EffectToUI(v + 1)
    BY <1>5 DEF Seen, Effects, Tones
  <2>3. EffectToUI(v + 1) = IF v > 0 THEN v ELSE 0
    BY DEF EffectToUI
  <2> QED BY <2>1, <2>2, <2>3
<1>6. CASE f \notin {"dynamicRange", "grainEffect", "noiseReduce"} /\ f \notin Tones /\ f \notin Effects
  <2>1. Native(f, v) = {v}
    BY <1>6 DEF Native
  <2>2. Seen(f, v) = Shown(f, v)
    BY <1>6 DEF Seen, Shown
  <2> QED BY <2>1, <2>2
<1> QED BY <1>1, <1>2, <1>3, <1>4, <1>5, <1>6

\* No word is written for any other value.
LEMMA Unlegal ==
    ASSUME NEW f \in DOMAIN UIName, NEW v \in Int, ~Legal(f, v)
    PROVE  Native(f, v) = {}
<1> USE DEF GrainOff, GrainWeakSmall, GrainStrongSmall, GrainWeakLarge, GrainStrongLarge
<1>1. CASE f = "dynamicRange"
  <2>1. v \notin 1..3
    BY <1>1 DEF Legal
  <2>2. v \notin DOMAIN drToNative
    BY <2>1 DEF drToNative
  <2> QED BY <1>1, <2>2 DEF Native, Effects, Tones
<1>2. CASE f = "grainEffect"
  <2>1. v \notin {0, 2, 3, 258, 259}
    BY <1>2 DEF Legal
  <2>2. v \notin DOMAIN grainToNative
    BY <2>1 DEF grainToNative
  <2> QED BY <1>2, <2>2 DEF Native, Effects, Tones
<1>3. CASE f = "noiseReduce"
  <2>1. v \notin -4..4
    BY <1>3 DEF Legal
  <2>2. v \notin DOMAIN NREncode
    BY <2>1 DEF NREncode
  <2> QED BY <1>3, <2>2 DEF Native, Effects, Tones
<1>4. CASE f \notin {"dynamicRange", "grainEffect", "noiseReduce"}
  BY <1>4 DEF Legal
<1> QED BY <1>1, <1>2, <1>3, <1>4

(***************************************************************************)
(* For any profile whose words CameraProfileToUIValues finds, after the    *)
(* count: each field of a request that PatchProfile encodes is shown as    *)
(* requested, and every other field as before.                             *)
(***************************************************************************)
THEOREM EditsShow == Spec => []PatchReadsBack
<1>1. CodecInv => PatchReadsBack
  <2> SUFFICES ASSUME CodecInv, Has("profile"), CameraProfileToUIValues(job.profile) # Panic,
                      FirstWord(job.profile) > 2,
                      NEW f \in DOMAIN UIName
               PROVE  IF f \in DOMAIN job.changes /\ Legal(f, job.changes[f])
                      THEN (\A w \in Native(f, job.changes[f]) : FitsWord(w))
                              => CameraProfileToUIValues(result.bytes)[UIName[f]] = Shown(f, job.changes[f])
                      ELSE CameraProfileToUIValues(result.bytes)[UIName[f]]
                              = CameraProfileToUIValues(job.profile)[UIName[f]]
    BY DEF PatchReadsBack
  <2> DEFINE p == job.profile
             c == job.changes
             b == result.bytes
  <2>1. /\ p \in Seq(Byte) /\ DOMAIN c \subseteq Field /\ (\A g \in DOMAIN c : c[g] \in Int)
        /\ result = PatchProfile(p, c)
    BY JobKinds, CodecAssumption DEF CodecInv, Computed, Has
  <2>2. CameraProfileToUIValues(p) # Panic /\ FirstWord(p) > 2
    OBVIOUS
  <2> HIDE DEF p, c
  <2>3. /\ Len(b) = Len(p) /\ numParams(b) = numParams(p)
        /\ \A g \in Field : g \notin Written(c) => Word32(b, NativeIdx[g]) = Word32(p, NativeIdx[g])
        /\ \A g \in Written(c) : \A w \in Native(g, c[g]) : FitsWord(w) => Word32(b, NativeIdx[g]) = w
    BY <2>1, <2>2, PatchedWords
  <2> HIDE DEF b
  <2>4. Whole(b) /\ Whole(p)
    <3>1. Offset(b) = Offset(p)
      BY <2>3 DEF Offset
    <3>2. \A g \in Field : HasWord(b, NativeIdx[g])
      BY <2>1, <2>2, <2>3, <3>1, AllWords DEF HasWord
    <3>3. ~(Len(b) < 2)
      BY <2>1, <2>2, <2>3, AllWords
    <3>4. \A g \in Field \ {"whiteBalance"} : HasWord(b, NativeIdx[g])
      BY <3>2
    <3>5. ~(\E g \in Field \ {"whiteBalance"} : ~HasWord(b, NativeIdx[g]))
      BY <3>4
    <3>6. Whole(p)
      BY <2>2 DEF CameraProfileToUIValues, Whole
    <3> QED BY <3>3, <3>5, <3>6 DEF Whole
  <2>5. /\ CameraProfileToUIValues(b)[UIName[f]] = Seen(f, Word32(b, NativeIdx[f]))
        /\ CameraProfileToUIValues(p)[UIName[f]] = Seen(f, Word32(p, NativeIdx[f]))
    BY <2>4, SeenWords
  <2>6. f \in Field
    BY DEF Field, NativeIdx, UIName
  <2>7. CASE f \in DOMAIN c /\ Legal(f, c[f])
    <3>1. Native(f, c[f]) # {} /\ \A w \in Native(f, c[f]) : Seen(f, w) = Shown(f, c[f])
      BY <2>1, <2>7, ShownWords
    <3>2. f \in Written(c)
      BY <2>7, <3>1 DEF Written
    <3>3. ASSUME \A w \in Native(f, c[f]) : FitsWord(w)
          PROVE  CameraProfileToUIValues(b)[UIName[f]] = Shown(f, c[f])
      <4>1. PICK w \in Native(f, c[f]) : TRUE
        BY <3>1
      <4>2. Word32(b, NativeIdx[f]) = w
        BY <2>3, <3>2, <3>3, <4>1
      <4> QED BY <2>5, <3>1, <4>1, <4>2
    <3> QED BY <2>7, <3>3 DEF p, c, b
  <2>8. CASE ~(f \in DOMAIN c /\ Legal(f, c[f]))
    <3>1. f \notin Written(c)
      <4>1. f \in DOMAIN c => Native(f, c[f]) = {}
        BY <2>1, <2>8, Unlegal
      <4> QED BY <4>1 DEF Written
    <3>2. Word32(b, NativeIdx[f]) = Word32(p, NativeIdx[f])
      BY <2>3, <2>6, <3>1
    <3>3. CameraProfileToUIValues(b)[UIName[f]] = CameraProfileToUIValues(p)[UIName[f]]
      BY <2>5, <3>2
    <3> QED BY <2>8, <3>3 DEF p, c, b
  <2> QED BY <2>7, <2>8
<1> QED BY <1>1, CodecInvariance, PTL

-----------------------------------------------------------------------------
(***************************************************************************)
(* The settings of a preset: each property is written once.                *)
(***************************************************************************)
\* A property and its bytes.
RawProps == [ID : Int, Bytes : Seq(Byte)]

\* A part is one setting of its property that a scan gets through, or none.
PartOf(id, p) ==
    p = <<>> \/ \E b \in Seq(Byte) : p = RawProp(id, b) /\ decodePropValue(b) # Panic
\* One part for each property.
OnePart(ids, parts) ==
    /\ Len(parts) = Len(ids)
    /\ \A k \in 1..Len(ids) : PartOf(ids[k], parts[k])
\* No property is named twice.
Distinct(ids) == \A j, k \in 1..Len(ids) : ids[j] = ids[k] => j = k

\* A part is a sequence of at most one setting, of its property.
LEMMA PartType ==
    ASSUME NEW id \in Int, NEW p, PartOf(id, p)
    PROVE  /\ p \in Seq(RawProps)
           /\ p # <<>> => Len(p) = 1 /\ p[1].ID = id /\ decodePropValue(p[1].Bytes) # Panic
<1>1. CASE p = <<>>
  BY <1>1
<1>2. CASE p # <<>>
  <2>1. PICK b \in Seq(Byte) : p = RawProp(id, b) /\ decodePropValue(b) # Panic
    BY <1>2 DEF PartOf
  <2> DEFINE S == Seq(Byte)
             r == [ID |-> id, Bytes |-> b]
  <2>2. p = <<r>>
    BY <2>1 DEF RawProp
  <2>3. r \in RawProps /\ r.ID = id /\ r.Bytes = b
    BY <2>1 DEF RawProps
  <2> HIDE DEF r
  <2> QED BY <2>1, <2>2, <2>3
<1> QED BY <1>1, <1>2

\* Concatenated parts of distinct properties: each setting is there, once, and nothing else is.
LEMMA PartsOnce ==
    ASSUME NEW ids \in Seq(Int), ids # <<>>, Distinct(ids),
           NEW parts \in Seq(Seq(RawProps)), OnePart(ids, parts)
    PROVE  LET w == FlattenSeq(parts) IN
           /\ w \in Seq(RawProps)
           /\ \A k \in 1..Len(ids) : parts[k] # <<>> => \E i \in 1..Len(w) : w[i] = parts[k][1]
           /\ \A i \in 1..Len(w) : \E k \in 1..Len(ids) : parts[k] # <<>> /\ w[i] = parts[k][1]
           /\ \A i, j \in 1..Len(w) : w[i].ID = w[j].ID => i = j
<1> DEFINE w == FlattenSeq(parts)
           n == Len(ids)
<1>1. n \in Nat /\ n >= 1 /\ Len(parts) = n
  BY DEF OnePart
<1>2. w \in Seq(RawProps)
  BY FlattenType
<1>3. parts # <<>>
  BY <1>1
<1>4. PICK e \in [1..(n + 1) -> Nat \ {0}] : Places(e, parts, w)
  <2>1. \E e \in [1..(Len(parts) + 1) -> Nat \ {0}] : Places(e, parts, w)
    BY <1>3, FlattenPlaces
  <2> HIDE DEF w, n
  <2> QED BY <1>1, <2>1
<1> HIDE DEF w
<1>5. ASSUME NEW k \in 1..n
      PROVE  /\ e[k] \in Nat \ {0} /\ e[k + 1] \in Nat \ {0} /\ e[k + 1] <= Len(w) + 1
             /\ parts[k] = <<>> => e[k + 1] = e[k]
             /\ parts[k] # <<>> => e[k + 1] = e[k] + 1 /\ w[e[k]] = parts[k][1] /\ parts[k][1].ID = ids[k]
  <2>1. k \in 1..(n + 1) /\ k + 1 \in 1..(n + 1)
    BY <1>1
  <2>2. e[k] \in Nat \ {0} /\ e[k + 1] \in Nat \ {0}
    BY <2>1
  <2>3. /\ e[k + 1] = e[k] + Len(parts[k]) /\ e[k + 1] <= Len(w) + 1
        /\ \A i \in 1..Len(parts[k]) : w[e[k] - 1 + i] = parts[k][i]
    BY <1>1, <1>4 DEF Places
  <2>4. ids[k] \in Int /\ PartOf(ids[k], parts[k])
    BY DEF OnePart
  <2>5. parts[k] # <<>> => Len(parts[k]) = 1 /\ parts[k][1].ID = ids[k]
    BY <2>4, PartType
  <2>6. CASE parts[k] = <<>>
    BY <2>2, <2>3, <2>6
  <2>7. CASE parts[k] # <<>>
    <3>1. w[e[k] - 1 + 1] = parts[k][1] /\ e[k] - 1 + 1 = e[k]
      BY <2>2, <2>3, <2>5, <2>7
    <3> QED BY <2>2, <2>3, <2>5, <2>7, <3>1
  <2> QED BY <2>6, <2>7
<1>6. ASSUME NEW k \in 1..n, parts[k] # <<>> PROVE \E i \in 1..Len(w) : w[i] = parts[k][1]
  <2>1. e[k] \in 1..Len(w)
    BY <1>2, <1>5, <1>6
  <2> QED BY <1>5, <1>6, <2>1
<1>7. ASSUME NEW i \in 1..Len(w)
      PROVE  \E k \in 1..n : parts[k] # <<>> /\ e[k] = i /\ w[i] = parts[k][1] /\ w[i].ID = ids[k]
  <2> DEFINE T == {m \in 1..(n + 1) : e[m] > i}
  <2>1. n + 1 \in T
    <3>1. e[n + 1] = Len(w) + 1
      BY <1>1, <1>4 DEF Places
    <3> QED BY <1>1, <1>2, <3>1
  <2>2. PICK m \in T : \A l \in T : m <= l
    <3>1. T \subseteq Nat /\ T # {}
      BY <2>1
    <3> HIDE DEF T
    <3> QED BY <3>1, LeastNatural
  <2>3. m # 1
    <3>1. e[1] = 1
      BY <1>4 DEF Places
    <3> QED BY <2>2, <3>1
  <2>4. PICK k \in 1..n : k + 1 = m
    <3>1. m - 1 \in 1..n /\ (m - 1) + 1 = m
      BY <1>1, <2>2, <2>3
    <3> QED BY <3>1
  <2>5. e[k] \in Nat /\ e[k + 1] \in Nat /\ k \in 1..(n + 1)
    BY <1>1, <1>5
  <2>6. e[k] <= i /\ e[k + 1] > i
    <3>1. k \notin T /\ m \in T
      BY <2>2, <2>4
    <3>2. ~(e[k] > i)
      BY <2>5, <3>1
    <3> QED BY <2>4, <2>5, <3>1, <3>2
  <2>7. parts[k] # <<>> /\ e[k + 1] = e[k] + 1
    <3>1. e[k + 1] # e[k]
      BY <2>5, <2>6
    <3> QED BY <1>5, <3>1
  <2>8. e[k] = i
    BY <2>5, <2>6, <2>7
  <2>9. w[i] = parts[k][1] /\ w[i].ID = ids[k]
    BY <1>5, <2>7, <2>8
  <2> QED BY <2>7, <2>8, <2>9
<1>8. ASSUME NEW i \in 1..Len(w), NEW j \in 1..Len(w), w[i].ID = w[j].ID PROVE i = j
  <2>1. PICK k \in 1..n : e[k] = i /\ w[i].ID = ids[k]
    BY <1>7
  <2>2. PICK l \in 1..n : e[l] = j /\ w[j].ID = ids[l]
    BY <1>7
  <2>3. k = l
    BY <1>8, <2>1, <2>2 DEF Distinct
  <2> QED BY <2>1, <2>2, <2>3
<1>9. \A i \in 1..Len(w) : \E k \in 1..n : parts[k] # <<>> /\ w[i] = parts[k][1]
  BY <1>7
<1> QED BY <1>2, <1>6, <1>8, <1>9 DEF w

\* A set of indices that is not empty has a greatest.
LEMMA GreatestOf ==
    ASSUME NEW n \in Nat, NEW T, T \subseteq 1..n, T # {}
    PROVE  Max(T) \in T /\ \A i \in T : i <= Max(T)
<1> DEFINE D == {n - i : i \in T}
<1>1. D \subseteq Nat /\ D # {}
  <2>1. ASSUME NEW i \in T PROVE n - i \in Nat
    <3>1. i \in 1..n
      OBVIOUS
    <3> QED BY <3>1
  <2>2. PICK i \in T : TRUE
    OBVIOUS
  <2>3. n - i \in D
    BY <2>2
  <2> QED BY <2>1, <2>3
<1>2. PICK m \in D : \A d \in D : m <= d
  <2> HIDE DEF D
  <2> QED BY <1>1, LeastNatural
<1>3. PICK j \in T : m = n - j
  BY <1>2
<1>4. ASSUME NEW i \in T PROVE j >= i
  <2>1. n - i \in D
    OBVIOUS
  <2>2. n - j <= n - i
    BY <1>2, <1>3, <2>1
  <2> QED BY <2>2
<1>5. \E x \in T : \A y \in T : x >= y
  BY <1>3, <1>4
<1>6. Max(T) = CHOOSE x \in T : \A y \in T : x >= y
  BY DEF Max
<1>7. Max(T) \in T /\ \A y \in T : Max(T) >= y
  BY <1>5, <1>6
<1> QED BY <1>7

\* A number as 16 bits, their bytes, and what a scan sees of these.
Low16(v) == v % 65536
Bytes16(v) == PackU16(Low16(v))
Sent(v) == Int16(Low16(v))

\* The bytes of any number are read as a number of its low 16 bits, and as itself if it fits.
LEMMA PackedNumber ==
    ASSUME NEW v \in Int
    PROVE  /\ Bytes16(v) \in Seq(Byte)
           /\ decodePropValue(Bytes16(v)) = Number(Sent(v))
           /\ Sent(v) \in Int /\ Low16(Sent(v)) = Low16(v)
           /\ Short(v) => Sent(v) = v
<1> DEFINE w == v % 65536
           n == Int16(w)
<1>1. w \in Nat /\ w <= 65535
  BY SMT
<1>2. Short(v) => n = v
  <2>1. Short(v) => /\ -32768 <= v /\ v <= 32767
                    /\ v >= 0 => w = v
                    /\ v < 0 => w = v + 65536
    <3>1. SUFFICES ASSUME Short(v) PROVE /\ -32768 <= v /\ v <= 32767
                                         /\ v >= 0 => w = v
                                         /\ v < 0 => w = v + 65536
      OBVIOUS
    <3>2. -32768 <= v /\ v <= 32767
      BY <3>1, SMT DEF Short
    <3>3. v >= 0 => w = v
      BY <3>2, SMT
    <3>4. v < 0 => w = v + 65536
      BY <3>2, SMT
    <3> QED BY <3>2, <3>3, <3>4
  <2> HIDE DEF w
  <2> QED BY <1>1, <2>1, SMT DEF Int16
<1> HIDE DEF w
<1>3. n \in Int /\ Short(n)
  BY <1>1, SMT DEF Int16, Short
<1>4. n % 65536 = w
  <2>1. CASE w < 32768
    <3>1. n = w
      BY <2>1, <1>1, SMT DEF Int16
    <3> QED BY <1>1, <3>1, SMT
  <2>2. CASE ~(w < 32768)
    <3>1. n = w - 65536
      BY <2>2, <1>1, SMT DEF Int16
    <3> QED BY <1>1, <3>1, SMT
  <2> QED BY <2>1, <2>2
<1> HIDE DEF n
<1>5. PackI16(n) = PackU16(w)
  BY <1>4 DEF PackI16, Uint16
<1>6. decodePropValue(PackU16(w)) = Number(n)
  BY <1>3, <1>5, NumberRoundTrip
<1>7. PackU16(w) \in Seq(Byte)
  <2> DEFINE lo == w % 256
             hi == w \div 256
  <2>1. lo \in Byte /\ hi \in Byte
    BY <1>1, SMT DEF Byte
  <2>2. PackU16(w) = <<lo, hi>>
    BY DEF PackU16
  <2> HIDE DEF lo, hi
  <2> QED BY <2>1, <2>2
<1> QED BY <1>2, <1>3, <1>4, <1>6, <1>7 DEF n, w, Sent, Bytes16, Low16

\* The default of a property that the scan did not hold is a word.
LEMMA DefaultWord ==
    ASSUME NEW id
    PROVE  \E v \in Int : Lookup(unknownDefaults, id, 0) = Low16(v)
<1> DEFINE d == Lookup(unknownDefaults, id, 0)
<1>1. d \in Nat /\ d <= 16384
  <2> DEFINE U == DOMAIN unknownDefaults
  <2>1. CASE id \notin U
    <3>1. d = 0
      BY <2>1 DEF Lookup
    <3> QED BY <3>1
  <2>2. CASE id \in U
    <3>1. d = unknownDefaults[id]
      BY <2>2 DEF Lookup
    <3>2. unknownDefaults[id] \in {7, 4, 0, 16384, 1}
      BY <2>2 DEF unknownDefaults
    <3> QED BY <3>1, <3>2
  <2> QED BY <2>1, <2>2
<1> HIDE DEF d
<1>2. d = d % 65536
  BY <1>1, SMT
<1>3. d \in Int /\ d = Low16(d)
  BY <1>1, <1>2 DEF Low16
<1>4. \E v \in Int : d = Low16(v)
  BY <1>3
<1> QED BY <1>4 DEF d

\* Scanned presets.
Base ==
    {base \in Seq([ID : Word, Bytes : Seq(Byte)]) :
        \A k \in DOMAIN base : decodePropValue(base[k].Bytes) # Panic}
Held(base, id) == {i \in DOMAIN base : base[i].ID = id}

\* Keep writes the last scanned bytes of a property, or packs its default.
LEMMA Kept ==
    ASSUME NEW base \in Base, NEW id
    PROVE  \E b \in Seq(Byte) :
              /\ Keep(id, base) = RawProp(id, b)
              /\ Held(base, id) # {} => \E k \in Held(base, id) :
                    b = base[k].Bytes /\ \A l \in Held(base, id) : l <= k
              /\ Held(base, id) = {} => \E v \in Int : b = Bytes16(v)
<1>1. CASE Held(base, id) = {}
  <2>1. PICK v \in Int : Lookup(unknownDefaults, id, 0) = Low16(v)
    BY DefaultWord
  <2>2. Keep(id, base) = RawProp(id, Bytes16(v))
    BY <1>1, <2>1 DEF Keep, Held, Default, Bytes16
  <2>3. Bytes16(v) \in Seq(Byte)
    BY PackedNumber
  <2> QED BY <1>1, <2>2, <2>3
<1>2. CASE Held(base, id) # {}
  <2> DEFINE H == Held(base, id)
             k == Max(H)
  <2>1. Len(base) \in Nat /\ H \subseteq 1..Len(base)
    BY DEF Held, Base
  <2>2. k \in H /\ \A l \in H : l <= k
    <3> HIDE DEF H
    <3> QED BY <1>2, <2>1, GreatestOf DEF H
  <2>3. Keep(id, base) = RawProp(id, base[k].Bytes)
    BY <1>2 DEF Keep, Held
  <2> HIDE DEF k
  <2>4. base[k].Bytes \in Seq(Byte)
    <3> DEFINE S == Seq(Byte)
               R == [ID : Word, Bytes : S]
    <3>1. base \in Seq(R) /\ k \in 1..Len(base)
      BY <2>1, <2>2 DEF Base
    <3> HIDE DEF R
    <3>2. base[k] \in R
      BY <3>1
    <3> HIDE DEF S
    <3>3. base[k].Bytes \in S
      BY <3>2 DEF R
    <3> QED BY <3>3 DEF S
  <2> QED BY <1>2, <2>2, <2>3, <2>4
<1> QED BY <1>1, <1>2

\* The properties of a preset in the order TranslateUIToPresetProps writes them.
PartIDs ==
    <<\hD18E, \hD18F, \hD190, \hD191, \hD192, \hD193, \hD194, \hD195, \hD196, \hD197, \hD198,
      \hD199, \hD19C, \hD19A, \hD19B, \hD19D, \hD19E, \hD19F, \hD1A0, \hD1A1, \hD1A2, \hD1A3,
      \hD1A4, \hD1A5>>

\* The twenty-four parts are of distinct properties.
LEMMA PartIDsDistinct ==
    /\ PartIDs \in Seq(Int) /\ Len(PartIDs) = 24 /\ Distinct(PartIDs)
    /\ \A k \in 1..24 : PartIDs[k] \in Int
<1>1. PartIDs \in Seq(Int) /\ Len(PartIDs) = 24
  BY DEF PartIDs
<1>2. ASSUME NEW j \in 1..24, NEW k \in 1..24, PartIDs[j] = PartIDs[k] PROVE j = k
  <2> DEFINE place(x) == CASE x = \hD19C -> 13 [] x = \hD19A -> 14 [] x = \hD19B -> 15
                           [] x < \hD19A -> x - 53645 [] OTHER -> x - 53645
  <2>1. ASSUME NEW i \in 1..24 PROVE place(PartIDs[i]) = i
    BY DEF PartIDs
  <2> HIDE DEF place
  <2> QED BY <1>2, <2>1
<1>3. \A k \in 1..24 : PartIDs[k] \in Int
  BY DEF PartIDs
<1> QED BY <1>1, <1>2, <1>3 DEF Distinct

\* A number packed as a property, always or on a condition.
Put(id, v) == RawProp(id, Bytes16(v))
PutIf(cond, id, v) == IF cond THEN Put(id, v) ELSE <<>>

\* A value that is packed is a part.
LEMMA PutPart == ASSUME NEW id, NEW v \in Int PROVE PartOf(id, Put(id, v))
<1> DEFINE b == Bytes16(v)
<1>1. b \in Seq(Byte) /\ decodePropValue(b) = Number(Sent(v))
  BY PackedNumber
<1>2. Put(id, v) = RawProp(id, b)
  BY DEF Put
<1> HIDE DEF b
<1>3. decodePropValue(b) # Panic
  BY <1>1 DEF Number, Panic
<1> QED BY <1>1, <1>2, <1>3 DEF PartOf

\* A property that is kept is a part.
LEMMA KeepPart == ASSUME NEW base \in Base, NEW id PROVE PartOf(id, Keep(id, base))
<1>1. PICK b \in Seq(Byte) :
            /\ Keep(id, base) = RawProp(id, b)
            /\ Held(base, id) # {} => \E k \in Held(base, id) : b = base[k].Bytes
            /\ Held(base, id) = {} => \E v \in Int : b = Bytes16(v)
  BY Kept
<1>2. CASE Held(base, id) = {}
  <2>1. PICK v \in Int : b = Bytes16(v)
    BY <1>1, <1>2
  <2>2. Keep(id, base) = Put(id, v)
    BY <1>1, <2>1 DEF Put
  <2> QED BY <2>2, PutPart
<1>3. CASE Held(base, id) # {}
  <2>1. PICK k \in Held(base, id) : b = base[k].Bytes
    BY <1>1, <1>3
  <2>2. decodePropValue(b) # Panic
    BY <2>1 DEF Held, Base
  <2> QED BY <1>1, <2>2 DEF PartOf
<1> QED BY <1>2, <1>3

\* A value that is packed under a condition is a part.
LEMMA PutIfPart == ASSUME NEW id, NEW cond, NEW v \in Int PROVE PartOf(id, PutIf(cond, id, v))
BY PutPart DEF PartOf, PutIf

\* The parts P of a preset, one by one.
Listed(P, v, base) ==
    LET mono == v.filmSimulation \in MonochromeSims IN
    /\ Len(P) = 24
    /\ P[1] = Keep(\hD18E, base) /\ P[2] = Keep(\hD18F, base) /\ P[4] = Keep(\hD191, base)
    /\ P[22] = Keep(\hD1A3, base) /\ P[23] = Keep(\hD1A4, base) /\ P[24] = Keep(\hD1A5, base)
    /\ P[3] = Put(\hD190, Lookup(<<100, 200, 400>>, v.dynamicRange, 100))
    /\ P[5] = Put(\hD192, IF v.filmSimulation = 0 THEN 1 ELSE v.filmSimulation)
    /\ P[6] = PutIf(mono /\ v.monoWC # 0, \hD193, v.monoWC)
    /\ P[7] = PutIf(mono /\ v.monoMG # 0, \hD194, v.monoMG)
    /\ P[8] = Put(\hD195, CASE v.grainEffect = GrainWeakSmall   -> 2
                            [] v.grainEffect = GrainStrongSmall -> 3
                            [] v.grainEffect = GrainWeakLarge   -> 4
                            [] v.grainEffect = GrainStrongLarge -> 5
                            [] OTHER                            -> 1)
    /\ P[9] = Put(\hD196, v.colorChrome + 1)
    /\ P[10] = Put(\hD197, v.colorChromeFxBlue + 1)
    /\ P[11] = Put(\hD198, v.smoothSkin + 1)
    /\ P[12] = Put(\hD199, v.whiteBalance)
    /\ P[13] = PutIf(v.whiteBalance = WBColorTemp /\ v.wbColorTemp > 0, \hD19C, v.wbColorTemp)
    /\ P[14] = Put(\hD19A, v.wbShiftR) /\ P[15] = Put(\hD19B, v.wbShiftB)
    /\ P[16] = Put(\hD19D, v.highlightTone) /\ P[17] = Put(\hD19E, v.shadowTone)
    /\ P[18] = PutIf(~mono, \hD19F, v.color)
    /\ P[19] = Put(\hD1A0, v.sharpness)
    /\ P[20] = IF v.noiseReduction \in DOMAIN NREncode
               THEN Put(\hD1A1, NREncode[v.noiseReduction]) ELSE Keep(\hD1A1, base)
    /\ P[21] = Put(\hD1A2, v.clarity)

\* The parts of TranslateUIToPresetProps are those listed.
LEMMA PartsAre == ASSUME NEW v, NEW base PROVE Listed(PresetParts(v, base), v, base)
BY DEF Listed, PresetParts, Put, PutIf, Bytes16, Low16

\* Its parts are of their properties.
LEMMA PartsOfPreset ==
    ASSUME NEW v \in [DOMAIN PresetDefaults -> Int], NEW base \in Base
    PROVE  OnePart(PartIDs, PresetParts(v, base)) /\ PresetParts(v, base) \in Seq(Seq(RawProps))
<1> DEFINE P == PresetParts(v, base)
<1>1. /\ v.filmSimulation \in Int /\ v.dynamicRange \in Int /\ v.grainEffect \in Int
      /\ v.smoothSkin \in Int /\ v.colorChrome \in Int /\ v.colorChromeFxBlue \in Int
      /\ v.whiteBalance \in Int /\ v.wbShiftR \in Int /\ v.wbShiftB \in Int /\ v.wbColorTemp \in Int
      /\ v.highlightTone \in Int /\ v.shadowTone \in Int /\ v.color \in Int /\ v.sharpness \in Int
      /\ v.noiseReduction \in Int /\ v.clarity \in Int /\ v.monoWC \in Int /\ v.monoMG \in Int
  BY DEF PresetDefaults
<1>2. Lookup(<<100, 200, 400>>, v.dynamicRange, 100) \in Int
  BY DEF Lookup
<1>3. (CASE v.grainEffect = GrainWeakSmall   -> 2
         [] v.grainEffect = GrainStrongSmall -> 3
         [] v.grainEffect = GrainWeakLarge   -> 4
         [] v.grainEffect = GrainStrongLarge -> 5
         [] OTHER                            -> 1) \in Int
  OBVIOUS
<1>4. v.noiseReduction \in DOMAIN NREncode => NREncode[v.noiseReduction] \in Int
  BY DEF NREncode
<1>5. Listed(P, v, base)
  BY PartsAre
<1>6. P = [k \in 1..24 |-> P[k]]
  BY DEF PresetParts
<1> HIDE DEF P
<1>7. \A id : \A w \in Int : PartOf(id, Put(id, w))
  BY PutPart
<1>8. \A id : PartOf(id, Keep(id, base))
  BY KeepPart
<1> HIDE DEF PartOf, Put, PutIf, Keep
<1>9. \A id, cond : \A w \in Int : PartOf(id, PutIf(cond, id, w))
  BY PutIfPart
<1>10. ASSUME NEW k \in 1..24 PROVE PartOf(PartIDs[k], P[k])
  <2>1. PartOf(\hD18E, P[1])
    BY <1>5, <1>8 DEF Listed
  <2>2. PartOf(\hD18F, P[2])
    BY <1>5, <1>8 DEF Listed
  <2>3. PartOf(\hD190, P[3])
    BY <1>2, <1>5, <1>7 DEF Listed
  <2>4. PartOf(\hD191, P[4])
    BY <1>5, <1>8 DEF Listed
  <2>5. PartOf(\hD192, P[5])
    <3> DEFINE film == IF v.filmSimulation = 0 THEN 1 ELSE v.filmSimulation
    <3>1. film \in Int
      BY <1>1
    <3>2. P[5] = Put(\hD192, film)
      BY <1>5 DEF Listed
    <3> HIDE DEF film
    <3> QED BY <1>7, <3>1, <3>2
  <2>6. PartOf(\hD193, P[6])
    <3>1. \E cond : P[6] = PutIf(cond, \hD193, v.monoWC)
      BY <1>5 DEF Listed
    <3> QED BY <1>1, <1>9, <3>1
  <2>7. PartOf(\hD194, P[7])
    <3>1. \E cond : P[7] = PutIf(cond, \hD194, v.monoMG)
      BY <1>5 DEF Listed
    <3> QED BY <1>1, <1>9, <3>1
  <2>8. PartOf(\hD195, P[8])
    BY <1>3, <1>5, <1>7 DEF Listed
  <2>9. PartOf(\hD196, P[9])
    <3>1. P[9] = Put(\hD196, v.colorChrome + 1)
      BY <1>5 DEF Listed
    <3> QED BY <1>1, <1>7, <3>1
  <2>10. PartOf(\hD197, P[10])
    <3>1. P[10] = Put(\hD197, v.colorChromeFxBlue + 1)
      BY <1>5 DEF Listed
    <3> QED BY <1>1, <1>7, <3>1
  <2>11. PartOf(\hD198, P[11])
    <3>1. P[11] = Put(\hD198, v.smoothSkin + 1)
      BY <1>5 DEF Listed
    <3> QED BY <1>1, <1>7, <3>1
  <2>12. PartOf(\hD199, P[12])
    <3>1. P[12] = Put(\hD199, v.whiteBalance)
      BY <1>5 DEF Listed
    <3> QED BY <1>1, <1>7, <3>1
  <2>13. PartOf(\hD19C, P[13])
    <3>1. \E cond : P[13] = PutIf(cond, \hD19C, v.wbColorTemp)
      BY <1>5 DEF Listed
    <3> QED BY <1>1, <1>9, <3>1
  <2>14. PartOf(\hD19A, P[14])
    <3>1. P[14] = Put(\hD19A, v.wbShiftR)
      BY <1>5 DEF Listed
    <3> QED BY <1>1, <1>7, <3>1
  <2>15. PartOf(\hD19B, P[15])
    <3>1. P[15] = Put(\hD19B, v.wbShiftB)
      BY <1>5 DEF Listed
    <3> QED BY <1>1, <1>7, <3>1
  <2>16. PartOf(\hD19D, P[16])
    <3>1. P[16] = Put(\hD19D, v.highlightTone)
      BY <1>5 DEF Listed
    <3> QED BY <1>1, <1>7, <3>1
  <2>17. PartOf(\hD19E, P[17])
    <3>1. P[17] = Put(\hD19E, v.shadowTone)
      BY <1>5 DEF Listed
    <3> QED BY <1>1, <1>7, <3>1
  <2>18. PartOf(\hD19F, P[18])
    <3>1. \E cond : P[18] = PutIf(cond, \hD19F, v.color)
      BY <1>5 DEF Listed
    <3> QED BY <1>1, <1>9, <3>1
  <2>19. PartOf(\hD1A0, P[19])
    <3>1. P[19] = Put(\hD1A0, v.sharpness)
      BY <1>5 DEF Listed
    <3> QED BY <1>1, <1>7, <3>1
  <2>20. PartOf(\hD1A1, P[20])
    <3>1. CASE v.noiseReduction \in DOMAIN NREncode
      BY <1>4, <1>5, <1>7, <3>1 DEF Listed
    <3>2. CASE v.noiseReduction \notin DOMAIN NREncode
      BY <1>5, <1>8, <3>2 DEF Listed
    <3> QED BY <3>1, <3>2
  <2>21. PartOf(\hD1A2, P[21])
    <3>1. P[21] = Put(\hD1A2, v.clarity)
      BY <1>5 DEF Listed
    <3> QED BY <1>1, <1>7, <3>1
  <2>22. PartOf(\hD1A3, P[22])
    BY <1>5, <1>8 DEF Listed
  <2>23. PartOf(\hD1A4, P[23])
    BY <1>5, <1>8 DEF Listed
  <2>24. PartOf(\hD1A5, P[24])
    BY <1>5, <1>8 DEF Listed
  <2> QED BY <2>1, <2>2, <2>3, <2>4, <2>5, <2>6, <2>7, <2>8, <2>9, <2>10, <2>11,
             <2>12, <2>13, <2>14, <2>15, <2>16, <2>17, <2>18, <2>19, <2>20, <2>21, <2>22,
             <2>23, <2>24 DEF PartIDs
<1>11. Len(P) = 24
  BY <1>5 DEF Listed
<1>12. OnePart(PartIDs, P)
  BY <1>10, <1>11, PartIDsDistinct DEF OnePart
<1>13. P \in Seq(Seq(RawProps))
  <2> DEFINE S == Seq(RawProps)
  <2>1. ASSUME NEW k \in 1..24 PROVE P[k] \in S
    <3>1. PartIDs[k] \in Int
      BY PartIDsDistinct
    <3> QED BY <1>10, <3>1, PartType
  <2> HIDE DEF S
  <2> QED BY <1>6, <2>1 DEF S
<1> QED BY <1>12, <1>13 DEF P

\* Its parts, and nothing else, make a preset w.
MadeOf(w, P) ==
    /\ \A k \in 1..24 : P[k] # <<>> => \E i \in 1..Len(w) : w[i] = P[k][1]
    /\ \A i \in 1..Len(w) : \E k \in 1..24 : P[k] # <<>> /\ w[i] = P[k][1]
    /\ \A i, j \in 1..Len(w) : w[i].ID = w[j].ID => i = j

\* What TranslateUIToPresetProps returns is made of its parts.
LEMMA WrittenParts ==
    ASSUME NEW v \in [DOMAIN PresetDefaults -> Int], NEW base \in Base
    PROVE  /\ TranslateUIToPresetProps(v, base) \in Seq(RawProps)
           /\ MadeOf(TranslateUIToPresetProps(v, base), PresetParts(v, base))
<1> DEFINE P == PresetParts(v, base)
           w == FlattenSeq(P)
<1>1. OnePart(PartIDs, P) /\ P \in Seq(Seq(RawProps))
  BY PartsOfPreset
<1>2. w = TranslateUIToPresetProps(v, base)
  BY DEF TranslateUIToPresetProps
<1> HIDE DEF P
<1>3. PartIDs \in Seq(Int) /\ Len(PartIDs) = 24 /\ Distinct(PartIDs)
  BY PartIDsDistinct
<1>4. PartIDs # <<>>
  BY DEF PartIDs
<1>5. /\ w \in Seq(RawProps)
      /\ \A k \in 1..Len(PartIDs) : P[k] # <<>> => \E i \in 1..Len(w) : w[i] = P[k][1]
      /\ \A i \in 1..Len(w) : \E k \in 1..Len(PartIDs) : P[k] # <<>> /\ w[i] = P[k][1]
      /\ \A i, j \in 1..Len(w) : w[i].ID = w[j].ID => i = j
  BY <1>1, <1>3, <1>4, PartsOnce
<1> HIDE DEF w
<1>6. w \in Seq(RawProps) /\ MadeOf(w, P)
  BY <1>3, <1>5 DEF MadeOf
<1> QED BY <1>2, <1>6 DEF P

\* A scanned property is its identifier and its bytes.
LEMMA BaseOf ==
    ASSUME NEW base \in Base, NEW k \in DOMAIN base
    PROVE  base[k].Bytes \in Seq(Byte) /\ base[k] = [ID |-> base[k].ID, Bytes |-> base[k].Bytes]
<1> DEFINE S == Seq(Byte)
           R == [ID : Word, Bytes : S]
<1>1. base \in Seq(R) /\ k \in 1..Len(base)
  BY DEF Base
<1> HIDE DEF R
<1>2. base[k] \in R
  BY <1>1
<1> HIDE DEF S
<1>3. base[k].Bytes \in S /\ base[k] = [ID |-> base[k].ID, Bytes |-> base[k].Bytes]
  BY <1>2 DEF R
<1> QED BY <1>3 DEF S

(***************************************************************************)
(* For any UI values and scanned base: TranslateUIToPresetProps writes     *)
(* back the properties the UI does not show as they were scanned, and      *)
(* writes no property twice.                                               *)
(***************************************************************************)
THEOREM PresetsKept == Spec => []BaseKept
<1>1. CodecInv => BaseKept
  <2> SUFFICES ASSUME CodecInv, Has("ui")
               PROVE  /\ \A k \in DOMAIN job.base :
                            job.base[k].ID \in NotShown
                                  /\ (\A l \in DOMAIN job.base : l > k => job.base[l].ID # job.base[k].ID)
                              => Contains(result, job.base[k])
                      /\ \A i, j \in DOMAIN result : result[i].ID = result[j].ID => i = j
    BY DEF BaseKept
  <2> DEFINE v == job.ui
             base == job.base
             w == result
             P == PresetParts(v, base)
  <2>1. v \in [DOMAIN PresetDefaults -> Int] /\ base \in Base /\ w = TranslateUIToPresetProps(v, base)
    BY JobKinds, CodecAssumption DEF CodecInv, Computed, Has, Base
  <2> HIDE DEF v, base
  <2>2. w \in Seq(RawProps) /\ MadeOf(w, P) /\ Listed(P, v, base)
    BY <2>1, WrittenParts, PartsAre
  <2> HIDE DEF w, P
  <2>3. DOMAIN w = 1..Len(w)
    BY <2>2
  <2>4. ASSUME NEW k \in DOMAIN base, base[k].ID \in NotShown,
               \A l \in DOMAIN base : l > k => base[l].ID # base[k].ID
        PROVE  Contains(w, base[k])
    <3> DEFINE id == base[k].ID
    <3>1. PICK m \in 1..24 : P[m] = Keep(id, base)
      <4>1. P[1] = Keep(\hD18E, base) /\ P[2] = Keep(\hD18F, base) /\ P[4] = Keep(\hD191, base)
        BY <2>2 DEF Listed
      <4>2. P[22] = Keep(\hD1A3, base) /\ P[23] = Keep(\hD1A4, base) /\ P[24] = Keep(\hD1A5, base)
        BY <2>2 DEF Listed
      <4>3. \/ id = \hD18E \/ id = \hD18F \/ id = \hD191
            \/ id = \hD1A3 \/ id = \hD1A4 \/ id = \hD1A5
        BY <2>4 DEF NotShown
      <4> HIDE DEF id
      <4> QED BY <4>1, <4>2, <4>3
    <3>2. k \in Held(base, id)
      BY <2>4 DEF Held
    <3>3. PICK b \in Seq(Byte) : /\ P[m] = RawProp(id, b)
                                 /\ \E h \in Held(base, id) :
                                       b = base[h].Bytes /\ \A l \in Held(base, id) : l <= h
      <4> HIDE DEF id
      <4> QED BY <2>1, <3>1, <3>2, Kept
    <3>4. PICK h \in Held(base, id) : b = base[h].Bytes /\ \A l \in Held(base, id) : l <= h
      BY <3>3
    <3>5. h = k
      <4>1. h \in DOMAIN base /\ base[h].ID = id /\ k <= h
        BY <3>2, <3>4 DEF Held
      <4>2. ~(h > k)
        BY <2>4, <4>1
      <4>3. h \in Nat /\ k \in Nat
        BY <2>1, <4>1 DEF Base
      <4> QED BY <4>1, <4>2, <4>3
    <3>6. P[m] = <<base[k]>>
      BY <2>1, <2>4, <3>3, <3>4, <3>5, BaseOf DEF RawProp
    <3>7. P[m] # <<>> /\ P[m][1] = base[k]
      BY <3>6
    <3>8. \E i \in 1..Len(w) : w[i] = base[k]
      BY <2>2, <3>1, <3>7 DEF MadeOf
    <3> QED BY <3>8 DEF Contains
  <2>5. \A i, j \in DOMAIN w : w[i].ID = w[j].ID => i = j
    BY <2>2, <2>3 DEF MadeOf
  <2> QED BY <2>4, <2>5 DEF base, w
<1> QED BY <1>1, CodecInvariance, PTL

-----------------------------------------------------------------------------
(***************************************************************************)
(* A preset, scanned and shown again.                                      *)
(***************************************************************************)
\* What a scan of w sees.
Scan(w) == [i \in DOMAIN w |-> Read(w[i])]

\* Part k of P is the setting of property id, whose bytes decode to n.
Sets(P, k, id, n) == \E b : P[k] = RawProp(id, b) /\ decodePropValue(b) = Number(n)

\* What propVal finds of property id in s: n, or nothing.
Found(s, id, n) == propVal(s, id) = {n}
Missing(s, id) == propVal(s, id) = {}

\* The value of property id, when its part is the one setting p.
LEMMA ValueOf ==
    ASSUME NEW w \in Seq(RawProps), NEW P, NEW k \in 1..24, NEW id, NEW n,
           MadeOf(w, P), Sets(P, k, id, n)
    PROVE  Found(Scan(w), id, n)
<1> DEFINE s == Scan(w)
           found == {i \in DOMAIN s : s[i].ID = id /\ IsNumber(s[i].Value)}
<1>0. PICK b : P[k] = RawProp(id, b) /\ decodePropValue(b) = Number(n)
  BY DEF Sets
<1>1. P[k] # <<>> /\ P[k][1] = [ID |-> id, Bytes |-> b]
  BY <1>0 DEF RawProp
<1>2. PICK i \in 1..Len(w) : w[i] = [ID |-> id, Bytes |-> b]
  BY <1>1 DEF MadeOf
<1>3. /\ DOMAIN s = 1..Len(w)
      /\ \A j \in 1..Len(w) : s[j].ID = w[j].ID /\ s[j].Value = decodePropValue(w[j].Bytes)
  BY DEF Scan, Read
<1> HIDE DEF s
<1>4. s[i].ID = id /\ s[i].Value = Number(n)
  BY <1>0, <1>2, <1>3
<1>5. IsNumber(s[i].Value) /\ s[i].Value.int = n
  BY <1>4 DEF IsNumber, Number
<1>6. \A j \in 1..Len(w) : s[j].ID = id => j = i
  BY <1>2, <1>3 DEF MadeOf
<1>7. found = {i}
  BY <1>3, <1>4, <1>5, <1>6
<1>8. Min(found) = i
  <2>1. i \in Int /\ i <= i
    OBVIOUS
  <2>2. Min(found) = CHOOSE x \in {i} : \A y \in {i} : x <= y
    BY <1>7 DEF Min
  <2> HIDE DEF found
  <2> QED BY <2>1, <2>2
<1>9. found # {}
  BY <1>7
<1>10. propVal(s, id) = {s[Min(found)].Value.int}
  BY <1>9 DEF propVal
<1> HIDE DEF found
<1>11. propVal(s, id) = {n}
  BY <1>5, <1>8, <1>10
<1> QED BY <1>11 DEF s, Found

\* There is none when no part is of that property.
LEMMA NoValueOf ==
    ASSUME NEW w \in Seq(RawProps), NEW P, NEW k \in 1..24, NEW id,
           MadeOf(w, P), OnePart(PartIDs, P), PartIDs[k] = id, P[k] = <<>>
    PROVE  Missing(Scan(w), id)
<1> DEFINE s == Scan(w)
<1>1. DOMAIN s = 1..Len(w) /\ \A j \in 1..Len(w) : s[j].ID = w[j].ID
  BY DEF Scan, Read
<1> HIDE DEF s
<1>2. ASSUME NEW i \in 1..Len(w), w[i].ID = id PROVE FALSE
  <2>1. PICK l \in 1..24 : P[l] # <<>> /\ w[i] = P[l][1]
    BY DEF MadeOf
  <2>2. PartIDs[l] \in Int /\ PartOf(PartIDs[l], P[l])
    BY PartIDsDistinct DEF OnePart
  <2>3. w[i].ID = PartIDs[l]
    BY <2>1, <2>2, PartType
  <2>4. l = k
    BY <1>2, <2>3, PartIDsDistinct DEF Distinct
  <2> QED BY <2>1, <2>4
<1>3. {i \in DOMAIN s : s[i].ID = id /\ IsNumber(s[i].Value)} = {}
  BY <1>1, <1>2
<1>4. propVal(s, id) = {}
  BY <1>3 DEF propVal
<1> QED BY <1>4 DEF s, Missing

\* The value that propVal finds of a property that was packed.
LEMMA PutValue ==
    ASSUME NEW w \in Seq(RawProps), NEW P, NEW k \in 1..24, NEW id, NEW v \in Int,
           MadeOf(w, P), P[k] = Put(id, v)
    PROVE  Found(Scan(w), id, Sent(v))
<1> DEFINE b == Bytes16(v)
           n == Sent(v)
<1>1. decodePropValue(b) = Number(n) /\ P[k] = RawProp(id, b)
  BY PackedNumber DEF Put
<1> HIDE DEF b, n
<1>2. Sets(P, k, id, n)
  BY <1>1 DEF Sets
<1>3. Found(Scan(w), id, n)
  BY <1>2, ValueOf
<1> QED BY <1>3 DEF n

\* A scan gets through every setting of such a preset.
LEMMA NoPanic ==
    ASSUME NEW w, NEW P, MadeOf(w, P), OnePart(PartIDs, P)
    PROVE  \A i \in 1..Len(w) : decodePropValue(w[i].Bytes) # Panic
<1> SUFFICES ASSUME NEW i \in 1..Len(w) PROVE decodePropValue(w[i].Bytes) # Panic
  OBVIOUS
<1>1. PICK k \in 1..24 : P[k] # <<>> /\ w[i] = P[k][1]
  BY DEF MadeOf
<1>2. PartIDs[k] \in Int /\ PartOf(PartIDs[k], P[k])
  BY PartIDsDistinct DEF OnePart
<1>3. decodePropValue(P[k][1].Bytes) # Panic
  BY <1>1, <1>2, PartType
<1> QED BY <1>1, <1>3

\* The element of a singleton.
One(S) == CHOOSE x \in S : TRUE
\* The one element of a singleton.
LEMMA OneIs == \A x : One({x}) = x
BY DEF One

\* The fields of u that TranslatePresetToUI fills in from the values of a scan s.
PlainOf(s, id) == IF propVal(s, id) = {} THEN 0 ELSE One(propVal(s, id))
EffectOf(s, id) == IF propVal(s, id) = {} THEN 0 ELSE EffectToUI(One(propVal(s, id)))
ToneOf(s, id) == IF propVal(s, id) = {} THEN 0 ELSE decodeTone(One(propVal(s, id)))
UIOf(u, s) ==
    LET Mono(id) == IF u.filmSimulation \in MonochromeSims THEN PlainOf(s, id) ELSE 0
        v(id) == propVal(s, id)
    IN
    /\ DOMAIN u = DOMAIN PresetDefaults /\ u = [n \in DOMAIN u |-> u[n]]
    /\ u.exposure = 0 /\ u.dRangePriority = 0
    /\ u.filmSimulation = PlainOf(s, \hD192)
    /\ u.monoWC = Mono(\hD193) /\ u.monoMG = Mono(\hD194)
    /\ u.wbShiftR = PlainOf(s, \hD19A) /\ u.wbShiftB = PlainOf(s, \hD19B)
    /\ u.smoothSkin = EffectOf(s, \hD198) /\ u.colorChrome = EffectOf(s, \hD196)
    /\ u.colorChromeFxBlue = EffectOf(s, \hD197)
    /\ u.dynamicRange = IF v(\hD190) = {} THEN 0 ELSE Lookup(drMap, One(v(\hD190)), 0)
    /\ u.grainEffect = IF v(\hD195) = {} THEN 0 ELSE Lookup(grainMap, One(v(\hD195)), 0)
    /\ u.whiteBalance = IF v(\hD199) = {} THEN 0 ELSE One(v(\hD199)) % 65536
    /\ u.noiseReduction = IF v(\hD1A1) = {} THEN 0 ELSE decodeNR(One(v(\hD1A1)))
    /\ u.wbColorTemp = IF v(\hD19C) = {} THEN 6500
                       ELSE IF One(v(\hD19C)) > 0 THEN One(v(\hD19C)) ELSE 6500
    /\ u.highlightTone = ToneOf(s, \hD19D) /\ u.shadowTone = ToneOf(s, \hD19E)
    /\ u.color = ToneOf(s, \hD19F) /\ u.sharpness = ToneOf(s, \hD1A0) /\ u.clarity = ToneOf(s, \hD1A2)

\* The fields of a property that was found.
LEMMA Valued ==
    ASSUME NEW s, NEW id, NEW n, Found(s, id, n)
    PROVE  /\ propVal(s, id) # {} /\ One(propVal(s, id)) = n
           /\ PlainOf(s, id) = n /\ EffectOf(s, id) = EffectToUI(n) /\ ToneOf(s, id) = decodeTone(n)
<1>1. propVal(s, id) # {} /\ One(propVal(s, id)) = n
  BY OneIs DEF Found
<1> QED BY <1>1 DEF PlainOf, EffectOf, ToneOf

\* The fields of a property that was not.
LEMMA Unvalued ==
    ASSUME NEW s, NEW id, Missing(s, id)
    PROVE  propVal(s, id) = {} /\ PlainOf(s, id) = 0 /\ EffectOf(s, id) = 0 /\ ToneOf(s, id) = 0
BY DEF Missing, PlainOf, EffectOf, ToneOf

\* TranslatePresetToUI fills in its record so.
LEMMA UIFields == ASSUME NEW s PROVE UIOf(TranslatePresetToUI(s), s)
<1> DEFINE u == TranslatePresetToUI(s)
<1>1. /\ DOMAIN u = DOMAIN PresetDefaults /\ u = [n \in DOMAIN u |-> u[n]]
      /\ u.exposure = 0 /\ u.dRangePriority = 0
  BY DEF TranslatePresetToUI, PresetDefaults
<1>2. /\ u.filmSimulation = PlainOf(s, \hD192)
      /\ u.monoWC = IF u.filmSimulation \in MonochromeSims THEN PlainOf(s, \hD193) ELSE 0
      /\ u.monoMG = IF u.filmSimulation \in MonochromeSims THEN PlainOf(s, \hD194) ELSE 0
      /\ u.wbShiftR = PlainOf(s, \hD19A) /\ u.wbShiftB = PlainOf(s, \hD19B)
  BY DEF TranslatePresetToUI, One, PlainOf
<1>3. /\ u.smoothSkin = EffectOf(s, \hD198) /\ u.colorChrome = EffectOf(s, \hD196)
      /\ u.colorChromeFxBlue = EffectOf(s, \hD197)
  BY DEF TranslatePresetToUI, One, EffectOf
<1>4. LET v(id) == propVal(s, id) IN
      /\ u.dynamicRange = IF v(\hD190) = {} THEN 0 ELSE Lookup(drMap, One(v(\hD190)), 0)
      /\ u.grainEffect = IF v(\hD195) = {} THEN 0 ELSE Lookup(grainMap, One(v(\hD195)), 0)
      /\ u.whiteBalance = IF v(\hD199) = {} THEN 0 ELSE One(v(\hD199)) % 65536
      /\ u.noiseReduction = IF v(\hD1A1) = {} THEN 0 ELSE decodeNR(One(v(\hD1A1)))
      /\ u.wbColorTemp = IF v(\hD19C) = {} THEN 6500
                         ELSE IF One(v(\hD19C)) > 0 THEN One(v(\hD19C)) ELSE 6500
  BY DEF TranslatePresetToUI, One
<1>5. /\ u.highlightTone = ToneOf(s, \hD19D) /\ u.shadowTone = ToneOf(s, \hD19E)
      /\ u.color = ToneOf(s, \hD19F) /\ u.sharpness = ToneOf(s, \hD1A0) /\ u.clarity = ToneOf(s, \hD1A2)
  BY DEF TranslatePresetToUI, One, ToneOf
<1> HIDE DEF u
<1>6. UIOf(u, s)
  BY <1>1, <1>2, <1>3, <1>4, <1>5 DEF UIOf
<1> QED BY <1>6 DEF u

\* Each table gives back what the other was asked for.
LEMMA Tables ==
    /\ \A d \in 1..3 : /\ Short(Lookup(<<100, 200, 400>>, d, 100))
                       /\ Lookup(drMap, Lookup(<<100, 200, 400>>, d, 100), 0) = d
    /\ \A n \in -4..4 : \A w \in Int :
          Low16(w) = Low16(NREncode[n]) => decodeNR(w) = n
    /\ \A b \in Word : Low16(b) = b
    /\ \A n \in Int : n >= 0 => EffectToUI(n + 1) = n
    /\ \A n \in Int : n # -32768 /\ Short(n) => decodeTone(n) = n
<1>1. ASSUME NEW d \in 1..3
      PROVE  /\ Short(Lookup(<<100, 200, 400>>, d, 100))
             /\ Lookup(drMap, Lookup(<<100, 200, 400>>, d, 100), 0) = d
  <2>1. \/ d = 1 /\ Lookup(<<100, 200, 400>>, d, 100) = 100
        \/ d = 2 /\ Lookup(<<100, 200, 400>>, d, 100) = 200
        \/ d = 3 /\ Lookup(<<100, 200, 400>>, d, 100) = 400
    BY DEF Lookup
  <2>2. Lookup(drMap, 100, 0) = 1 /\ Lookup(drMap, 200, 0) = 2 /\ Lookup(drMap, 400, 0) = 3
    BY DEF Lookup, drMap
  <2>3. Short(100) /\ Short(200) /\ Short(400)
    BY DEF Short
  <2> QED BY <2>1, <2>2, <2>3
<1>2. ASSUME NEW n \in -4..4, NEW w \in Int, Low16(w) = Low16(NREncode[n])
      PROVE  decodeNR(w) = n
  <2>1. decodeNR(NREncode[n]) = n
    BY DEF decodeNR, Lookup, NRDecode, NREncode
  <2> QED BY <1>2, <2>1 DEF decodeNR, Low16
<1>3. ASSUME NEW b \in Word PROVE Low16(b) = b
  BY WordRange, SMT DEF Low16
<1>4. ASSUME NEW n \in Int, n >= 0 PROVE EffectToUI(n + 1) = n
  BY <1>4 DEF EffectToUI
<1>5. ASSUME NEW n \in Int, n # -32768, Short(n) PROVE decodeTone(n) = n
  BY <1>5, SMT DEF decodeTone, Short
<1> QED BY <1>1, <1>2, <1>3, <1>4, <1>5

\* Each grain the UI knows has a number of its own.
LEMMA GrainTable ==
    ASSUME NEW g \in {0, 2, 3, 258, 259}
    PROVE  LET n == CASE g = GrainWeakSmall   -> 2
                      [] g = GrainStrongSmall -> 3
                      [] g = GrainWeakLarge   -> 4
                      [] g = GrainStrongLarge -> 5
                      [] OTHER                -> 1
           IN  n \in Int /\ Short(n) /\ Lookup(grainMap, n, 0) = g
<1> USE DEF GrainOff, GrainWeakSmall, GrainStrongSmall, GrainWeakLarge, GrainStrongLarge
<1> DEFINE n == CASE g = GrainWeakSmall   -> 2
                  [] g = GrainStrongSmall -> 3
                  [] g = GrainWeakLarge   -> 4
                  [] g = GrainStrongLarge -> 5
                  [] OTHER                -> 1
<1>1. \/ g = 0 /\ n = 1
      \/ g = 2 /\ n = 2
      \/ g = 3 /\ n = 3
      \/ g = 258 /\ n = 4
      \/ g = 259 /\ n = 5
  OBVIOUS
<1> HIDE DEF n
<1>2. n \in 1..5 /\ Lookup(grainMap, n, 0) = g
  BY <1>1 DEF Lookup, grainMap
<1>3. n \in Int /\ Short(n)
  BY <1>2 DEF Short
<1> QED BY <1>2, <1>3 DEF n

\* A written preset, scanned and translated, shows its values.
LEMMA PresetShown ==
    ASSUME NEW v \in [DOMAIN PresetDefaults -> Int], Fits(v), NEW base \in Base
    PROVE  TranslatePresetToUI(Scan(TranslateUIToPresetProps(v, base))) = Applicable(v)
<1> DEFINE w == TranslateUIToPresetProps(v, base)
           P == PresetParts(v, base)
           s == Scan(w)
           u == TranslatePresetToUI(s)
           a == Applicable(v)
           mono == v.filmSimulation \in MonochromeSims
<1>1. /\ v.filmSimulation \in Int /\ v.dynamicRange \in Int /\ v.grainEffect \in Int
      /\ v.smoothSkin \in Int /\ v.colorChrome \in Int /\ v.colorChromeFxBlue \in Int
      /\ v.whiteBalance \in Int /\ v.wbShiftR \in Int /\ v.wbShiftB \in Int /\ v.wbColorTemp \in Int
      /\ v.highlightTone \in Int /\ v.shadowTone \in Int /\ v.color \in Int /\ v.sharpness \in Int
      /\ v.noiseReduction \in Int /\ v.clarity \in Int /\ v.monoWC \in Int /\ v.monoMG \in Int
  BY DEF PresetDefaults
<1>2. /\ w \in Seq(RawProps) /\ MadeOf(w, P) /\ OnePart(PartIDs, P) /\ Listed(P, v, base)
  BY WrittenParts, PartsOfPreset, PartsAre
<1>3. UIOf(u, s)
  BY UIFields
<1> HIDE DEF w, P, u
<1>4. ASSUME NEW k \in 1..24, NEW id, NEW n \in Int, P[k] = Put(id, n)
      PROVE  /\ Found(s, id, Sent(n))
             /\ Short(n) => Found(s, id, n)
  <2>1. Found(s, id, Sent(n))
    BY <1>2, <1>4, PutValue
  <2>2. Short(n) => Sent(n) = n
    BY PackedNumber
  <2> HIDE DEF s
  <2> QED BY <2>1, <2>2
<1>5. ASSUME NEW k \in 1..24, NEW id, PartIDs[k] = id, P[k] = <<>> PROVE Missing(s, id)
  BY <1>2, <1>5, NoValueOf
<1>6. PartIDs[6] = \hD193 /\ PartIDs[7] = \hD194 /\ PartIDs[13] = \hD19C /\ PartIDs[18] = \hD19F
  BY DEF PartIDs
<1> HIDE DEF s
<1>7. u.filmSimulation = v.filmSimulation
  <2>1. Short(v.filmSimulation) /\ v.filmSimulation # 0
    BY DEF Fits
  <2>2. P[5] = Put(\hD192, v.filmSimulation)
    BY <1>2, <2>1 DEF Listed
  <2>3. Found(s, \hD192, v.filmSimulation)
    BY <1>1, <1>4, <2>1, <2>2
  <2>4. PlainOf(s, \hD192) = v.filmSimulation
    BY <2>3, Valued
  <2> QED BY <1>3, <2>4 DEF UIOf
<1>8. u.monoWC = IF mono THEN v.monoWC ELSE 0
  <2>1. P[6] = PutIf(mono /\ v.monoWC # 0, \hD193, v.monoWC)
    BY <1>2 DEF Listed
  <2>2. mono => PlainOf(s, \hD193) = v.monoWC
    <3>1. CASE mono /\ v.monoWC # 0
      <4>1. Short(v.monoWC) /\ P[6] = Put(\hD193, v.monoWC)
        BY <2>1, <3>1 DEF Fits, PutIf
      <4>2. Found(s, \hD193, v.monoWC)
        BY <1>1, <1>4, <4>1
      <4> QED BY <4>2, Valued
    <3>2. CASE v.monoWC = 0
      <4>1. P[6] = <<>>
        BY <2>1, <3>2 DEF PutIf
      <4>2. Missing(s, \hD193)
        BY <1>5, <1>6, <4>1
      <4> QED BY <3>2, <4>2, Unvalued
    <3> QED BY <3>1, <3>2
  <2>3. u.monoWC = IF u.filmSimulation \in MonochromeSims THEN PlainOf(s, \hD193) ELSE 0
    BY <1>3 DEF UIOf
  <2> QED BY <1>7, <2>2, <2>3
<1>9. u.monoMG = IF mono THEN v.monoMG ELSE 0
  <2>1. P[7] = PutIf(mono /\ v.monoMG # 0, \hD194, v.monoMG)
    BY <1>2 DEF Listed
  <2>2. mono => PlainOf(s, \hD194) = v.monoMG
    <3>1. CASE mono /\ v.monoMG # 0
      <4>1. Short(v.monoMG) /\ P[7] = Put(\hD194, v.monoMG)
        BY <2>1, <3>1 DEF Fits, PutIf
      <4>2. Found(s, \hD194, v.monoMG)
        BY <1>1, <1>4, <4>1
      <4> QED BY <4>2, Valued
    <3>2. CASE v.monoMG = 0
      <4>1. P[7] = <<>>
        BY <2>1, <3>2 DEF PutIf
      <4>2. Missing(s, \hD194)
        BY <1>5, <1>6, <4>1
      <4> QED BY <3>2, <4>2, Unvalued
    <3> QED BY <3>1, <3>2
  <2>3. u.monoMG = IF u.filmSimulation \in MonochromeSims THEN PlainOf(s, \hD194) ELSE 0
    BY <1>3 DEF UIOf
  <2> QED BY <1>7, <2>2, <2>3
<1>10. u.wbShiftR = v.wbShiftR /\ u.wbShiftB = v.wbShiftB
  <2>1. Short(v.wbShiftR) /\ Short(v.wbShiftB)
    BY DEF Fits
  <2>2. P[14] = Put(\hD19A, v.wbShiftR) /\ P[15] = Put(\hD19B, v.wbShiftB)
    BY <1>2 DEF Listed
  <2>3. Found(s, \hD19A, v.wbShiftR)
    BY <1>1, <1>4, <2>1, <2>2
  <2>4. Found(s, \hD19B, v.wbShiftB)
    BY <1>1, <1>4, <2>1, <2>2
  <2>5. PlainOf(s, \hD19A) = v.wbShiftR /\ PlainOf(s, \hD19B) = v.wbShiftB
    BY <2>3, <2>4, Valued
  <2> QED BY <1>3, <2>5 DEF UIOf
<1>11. ASSUME NEW k \in 1..24, NEW id, NEW n \in Int, n >= 0, Short(n + 1), P[k] = Put(id, n + 1)
       PROVE  EffectOf(s, id) = n
  <2>1. n + 1 \in Int
    OBVIOUS
  <2>2. Found(s, id, n + 1)
    BY <1>4, <1>11, <2>1
  <2>3. EffectToUI(n + 1) = n
    BY <1>11, Tables
  <2> QED BY <2>2, <2>3, Valued
<1>12. /\ u.smoothSkin = v.smoothSkin /\ u.colorChrome = v.colorChrome
       /\ u.colorChromeFxBlue = v.colorChromeFxBlue
  <2>1. /\ v.smoothSkin >= 0 /\ Short(v.smoothSkin + 1)
        /\ v.colorChrome >= 0 /\ Short(v.colorChrome + 1)
        /\ v.colorChromeFxBlue >= 0 /\ Short(v.colorChromeFxBlue + 1)
    BY DEF Fits
  <2>2. /\ P[9] = Put(\hD196, v.colorChrome + 1) /\ P[10] = Put(\hD197, v.colorChromeFxBlue + 1)
        /\ P[11] = Put(\hD198, v.smoothSkin + 1)
    BY <1>2 DEF Listed
  <2>3. EffectOf(s, \hD196) = v.colorChrome
    BY <1>1, <1>11, <2>1, <2>2
  <2>4. EffectOf(s, \hD197) = v.colorChromeFxBlue
    BY <1>1, <1>11, <2>1, <2>2
  <2>5. EffectOf(s, \hD198) = v.smoothSkin
    BY <1>1, <1>11, <2>1, <2>2
  <2> QED BY <1>3, <2>3, <2>4, <2>5 DEF UIOf
<1>13. u.dynamicRange = v.dynamicRange
  <2> DEFINE n == Lookup(<<100, 200, 400>>, v.dynamicRange, 100)
  <2>1. n \in Int /\ Short(n) /\ Lookup(drMap, n, 0) = v.dynamicRange
    BY Tables DEF Fits, Short
  <2>2. P[3] = Put(\hD190, n)
    BY <1>2 DEF Listed
  <2> HIDE DEF n
  <2>3. Found(s, \hD190, n)
    BY <1>4, <2>1, <2>2
  <2>4. u.dynamicRange = IF propVal(s, \hD190) = {} THEN 0 ELSE Lookup(drMap, One(propVal(s, \hD190)), 0)
    BY <1>3 DEF UIOf
  <2> QED BY <2>1, <2>3, <2>4, Valued
<1>14. u.grainEffect = v.grainEffect
  <2> DEFINE n == CASE v.grainEffect = GrainWeakSmall   -> 2
                    [] v.grainEffect = GrainStrongSmall -> 3
                    [] v.grainEffect = GrainWeakLarge   -> 4
                    [] v.grainEffect = GrainStrongLarge -> 5
                    [] OTHER                            -> 1
  <2>1. n \in Int /\ Short(n) /\ Lookup(grainMap, n, 0) = v.grainEffect
    <3>1. v.grainEffect \in {0, 2, 3, 258, 259}
      BY DEF Fits
    <3> QED BY <3>1, GrainTable
  <2>2. P[8] = Put(\hD195, n)
    BY <1>2 DEF Listed
  <2> HIDE DEF n
  <2>3. Found(s, \hD195, n)
    BY <1>4, <2>1, <2>2
  <2>4. u.grainEffect = IF propVal(s, \hD195) = {} THEN 0 ELSE Lookup(grainMap, One(propVal(s, \hD195)), 0)
    BY <1>3 DEF UIOf
  <2> QED BY <2>1, <2>3, <2>4, Valued
<1>15. u.whiteBalance = v.whiteBalance
  <2> DEFINE n == Sent(v.whiteBalance)
  <2>1. P[12] = Put(\hD199, v.whiteBalance)
    BY <1>2 DEF Listed
  <2>2. Found(s, \hD199, n)
    BY <1>1, <1>4, <2>1
  <2>3. Low16(n) = v.whiteBalance
    <3>1. v.whiteBalance \in Word
      BY DEF Fits
    <3>2. Low16(v.whiteBalance) = v.whiteBalance
      BY <3>1, Tables
    <3> QED BY <1>1, <3>2, PackedNumber
  <2> HIDE DEF n
  <2>4. u.whiteBalance = IF propVal(s, \hD199) = {} THEN 0 ELSE Low16(One(propVal(s, \hD199)))
    BY <1>3 DEF UIOf, Low16
  <2> QED BY <2>2, <2>3, <2>4, Valued
<1>16. u.noiseReduction = v.noiseReduction
  <2> DEFINE e == NREncode[v.noiseReduction]
             n == Sent(e)
  <2>1. v.noiseReduction \in -4..4 /\ v.noiseReduction \in DOMAIN NREncode /\ e \in Int
    BY DEF Fits, NREncode
  <2>2. P[20] = Put(\hD1A1, e)
    BY <1>2, <2>1 DEF Listed
  <2>3. Found(s, \hD1A1, n)
    <3> HIDE DEF e
    <3> QED BY <1>4, <2>1, <2>2
  <2>4. n \in Int /\ Low16(n) = Low16(e)
    <3> HIDE DEF e
    <3> QED BY <2>1, PackedNumber
  <2> HIDE DEF n
  <2>5. decodeNR(n) = v.noiseReduction
    BY <2>1, <2>4, Tables
  <2>6. u.noiseReduction = IF propVal(s, \hD1A1) = {} THEN 0 ELSE decodeNR(One(propVal(s, \hD1A1)))
    BY <1>3 DEF UIOf
  <2> QED BY <2>3, <2>5, <2>6, Valued
<1>17. u.wbColorTemp = IF v.whiteBalance = WBColorTemp THEN v.wbColorTemp ELSE 6500
  <2>1. v.wbColorTemp > 0 /\ Short(v.wbColorTemp)
    BY DEF Fits
  <2>2. P[13] = PutIf(v.whiteBalance = WBColorTemp /\ v.wbColorTemp > 0, \hD19C, v.wbColorTemp)
    BY <1>2 DEF Listed
  <2>3. u.wbColorTemp = IF propVal(s, \hD19C) = {} THEN 6500
                        ELSE IF One(propVal(s, \hD19C)) > 0 THEN One(propVal(s, \hD19C)) ELSE 6500
    BY <1>3 DEF UIOf
  <2>4. CASE v.whiteBalance = WBColorTemp
    <3>1. P[13] = Put(\hD19C, v.wbColorTemp)
      BY <2>1, <2>2, <2>4 DEF PutIf
    <3>2. Found(s, \hD19C, v.wbColorTemp)
      BY <1>1, <1>4, <2>1, <3>1
    <3> QED BY <2>1, <2>3, <2>4, <3>2, Valued
  <2>5. CASE v.whiteBalance # WBColorTemp
    <3>1. P[13] = <<>>
      BY <2>2, <2>5 DEF PutIf
    <3>2. Missing(s, \hD19C)
      BY <1>5, <1>6, <3>1
    <3> QED BY <2>3, <2>5, <3>2, Unvalued
  <2> QED BY <2>4, <2>5
<1>18. ASSUME NEW k \in 1..24, NEW id, NEW n \in Int, n # -32768, Short(n), P[k] = Put(id, n)
       PROVE  ToneOf(s, id) = n
  <2>1. Found(s, id, n)
    BY <1>4, <1>18
  <2>2. decodeTone(n) = n
    BY <1>18, Tables
  <2> QED BY <2>1, <2>2, Valued
<1>19. /\ u.highlightTone = v.highlightTone /\ u.shadowTone = v.shadowTone
       /\ u.sharpness = v.sharpness /\ u.clarity = v.clarity
  <2>1. /\ v.highlightTone # -32768 /\ Short(v.highlightTone)
        /\ v.shadowTone # -32768 /\ Short(v.shadowTone)
        /\ v.sharpness # -32768 /\ Short(v.sharpness)
        /\ v.clarity # -32768 /\ Short(v.clarity)
    BY DEF Fits
  <2>2. /\ P[16] = Put(\hD19D, v.highlightTone) /\ P[17] = Put(\hD19E, v.shadowTone)
        /\ P[19] = Put(\hD1A0, v.sharpness) /\ P[21] = Put(\hD1A2, v.clarity)
    BY <1>2 DEF Listed
  <2>3. ToneOf(s, \hD19D) = v.highlightTone
    BY <1>1, <1>18, <2>1, <2>2
  <2>4. ToneOf(s, \hD19E) = v.shadowTone
    BY <1>1, <1>18, <2>1, <2>2
  <2>5. ToneOf(s, \hD1A0) = v.sharpness
    BY <1>1, <1>18, <2>1, <2>2
  <2>6. ToneOf(s, \hD1A2) = v.clarity
    BY <1>1, <1>18, <2>1, <2>2
  <2> QED BY <1>3, <2>3, <2>4, <2>5, <2>6 DEF UIOf
<1>20. u.color = IF mono THEN 0 ELSE v.color
  <2>1. v.color # -32768 /\ Short(v.color)
    BY DEF Fits
  <2>2. P[18] = PutIf(~mono, \hD19F, v.color)
    BY <1>2 DEF Listed
  <2>3. CASE mono
    <3>1. P[18] = <<>>
      BY <2>2, <2>3 DEF PutIf
    <3>2. Missing(s, \hD19F)
      BY <1>5, <1>6, <3>1
    <3>3. ToneOf(s, \hD19F) = 0
      BY <3>2, Unvalued
    <3> QED BY <1>3, <2>3, <3>3 DEF UIOf
  <2>4. CASE ~mono
    <3>1. P[18] = Put(\hD19F, v.color)
      BY <2>2, <2>4 DEF PutIf
    <3>2. ToneOf(s, \hD19F) = v.color
      BY <1>1, <1>18, <2>1, <3>1
    <3> QED BY <1>3, <2>4, <3>2 DEF UIOf
  <2> QED BY <2>3, <2>4
<1>21. /\ u.exposure = 0 /\ u.dRangePriority = 0
       /\ DOMAIN u = DOMAIN PresetDefaults /\ u = [n \in DOMAIN u |-> u[n]]
  BY <1>3 DEF UIOf
<1>22. a \in [DOMAIN PresetDefaults -> Int]
  <2> DEFINE D == DOMAIN PresetDefaults
             c == IF mono THEN 0 ELSE v.color
             m == IF mono THEN v.monoWC ELSE 0
             g == IF mono THEN v.monoMG ELSE 0
             t == IF v.whiteBalance = WBColorTemp THEN v.wbColorTemp ELSE 6500
  <2>1. c \in Int /\ m \in Int /\ g \in Int /\ t \in Int
    BY <1>1
  <2>2. a = [v EXCEPT !.color = c, !.monoWC = m, !.monoMG = g, !.wbColorTemp = t,
                      !.exposure = 0, !.dRangePriority = 0]
    BY DEF Applicable, PresetDefaults
  <2>3. v \in [D -> Int]
    OBVIOUS
  <2> HIDE DEF D, c, m, g, t
  <2>4. \A f \in [D -> Int], x \in Int, k \in STRING : [f EXCEPT ![k] = x] \in [D -> Int]
    OBVIOUS
  <2> DEFINE a1 == [v EXCEPT !.color = c]
             a2 == [a1 EXCEPT !.monoWC = m]
             a3 == [a2 EXCEPT !.monoMG = g]
             a4 == [a3 EXCEPT !.wbColorTemp = t]
             a5 == [a4 EXCEPT !.exposure = 0]
             a6 == [a5 EXCEPT !.dRangePriority = 0]
  <2>5. a = a6
    BY <2>2
  <2>6. a1 \in [D -> Int]
    BY <2>1, <2>3, <2>4
  <2> HIDE DEF a1
  <2>7. a2 \in [D -> Int]
    BY <2>1, <2>4, <2>6
  <2> HIDE DEF a2
  <2>8. a3 \in [D -> Int]
    BY <2>1, <2>4, <2>7
  <2> HIDE DEF a3
  <2>9. a4 \in [D -> Int]
    BY <2>1, <2>4, <2>8
  <2> HIDE DEF a4
  <2>10. a5 \in [D -> Int]
    BY <2>4, <2>9
  <2> HIDE DEF a5
  <2>11. a6 \in [D -> Int]
    BY <2>4, <2>10
  <2> QED BY <2>5, <2>11 DEF D
<1>23. /\ a.color = (IF mono THEN 0 ELSE v.color)
       /\ a.monoWC = (IF mono THEN v.monoWC ELSE 0)
       /\ a.monoMG = (IF mono THEN v.monoMG ELSE 0)
       /\ a.wbColorTemp = (IF v.whiteBalance = WBColorTemp THEN v.wbColorTemp ELSE 6500)
       /\ a.exposure = 0 /\ a.dRangePriority = 0
  BY DEF Applicable, PresetDefaults
<1>24. /\ a.filmSimulation = v.filmSimulation /\ a.dynamicRange = v.dynamicRange
       /\ a.grainEffect = v.grainEffect /\ a.smoothSkin = v.smoothSkin
       /\ a.colorChrome = v.colorChrome /\ a.colorChromeFxBlue = v.colorChromeFxBlue
       /\ a.whiteBalance = v.whiteBalance /\ a.wbShiftR = v.wbShiftR /\ a.wbShiftB = v.wbShiftB
       /\ a.highlightTone = v.highlightTone /\ a.shadowTone = v.shadowTone
       /\ a.sharpness = v.sharpness /\ a.noiseReduction = v.noiseReduction /\ a.clarity = v.clarity
  BY DEF Applicable, PresetDefaults
<1> HIDE DEF a
<1>25. /\ u.color = a.color /\ u.monoWC = a.monoWC /\ u.monoMG = a.monoMG
       /\ u.wbColorTemp = a.wbColorTemp /\ u.exposure = a.exposure
       /\ u.dRangePriority = a.dRangePriority
  BY <1>8, <1>9, <1>17, <1>20, <1>21, <1>23
<1>26. /\ u.filmSimulation = a.filmSimulation /\ u.dynamicRange = a.dynamicRange
       /\ u.grainEffect = a.grainEffect /\ u.smoothSkin = a.smoothSkin
       /\ u.colorChrome = a.colorChrome /\ u.colorChromeFxBlue = a.colorChromeFxBlue
       /\ u.whiteBalance = a.whiteBalance /\ u.wbShiftR = a.wbShiftR /\ u.wbShiftB = a.wbShiftB
  BY <1>7, <1>10, <1>12, <1>13, <1>14, <1>15, <1>24
<1>27. /\ u.highlightTone = a.highlightTone /\ u.shadowTone = a.shadowTone
       /\ u.sharpness = a.sharpness /\ u.noiseReduction = a.noiseReduction /\ u.clarity = a.clarity
  BY <1>16, <1>19, <1>24
<1>28. \A n \in DOMAIN PresetDefaults : u[n] = a[n]
  BY <1>25, <1>26, <1>27 DEF PresetDefaults
<1>29. u = a
  BY <1>21, <1>22, <1>28
<1> QED BY <1>29 DEF u, s, w, a

(***************************************************************************)
(* For any UI values that fit their properties and any base: a scan reads  *)
(* every property TranslateUIToPresetProps writes, and TranslatePresetToUI *)
(* shows the applicable values of what it read.                            *)
(***************************************************************************)
THEOREM PresetsComeBack == Spec => []UIComesBack
<1>1. CodecInv => UIComesBack
  <2> SUFFICES ASSUME CodecInv, Has("ui"), Fits(job.ui)
               PROVE  LET scanned == [i \in DOMAIN result |-> Read(result[i])]
                      IN  /\ \A i \in DOMAIN scanned : scanned[i].Value # Panic
                          /\ TranslatePresetToUI(scanned) = Applicable(job.ui)
    BY DEF UIComesBack
  <2> DEFINE v == job.ui
             base == job.base
             w == TranslateUIToPresetProps(v, base)
  <2>1. v \in [DOMAIN PresetDefaults -> Int] /\ base \in Base /\ result = w /\ Fits(v)
    BY JobKinds, CodecAssumption DEF CodecInv, Computed, Has, Base
  <2>2. Scan(result) = [i \in DOMAIN result |-> Read(result[i])]
    BY DEF Scan
  <2> HIDE DEF v, base
  <2>3. /\ w \in Seq(RawProps) /\ MadeOf(w, PresetParts(v, base))
        /\ OnePart(PartIDs, PresetParts(v, base))
    BY <2>1, WrittenParts, PartsOfPreset
  <2>4. TranslatePresetToUI(Scan(w)) = Applicable(v)
    BY <2>1, PresetShown
  <2> HIDE DEF w
  <2>5. \A i \in 1..Len(w) : decodePropValue(w[i].Bytes) # Panic
    BY <2>3, NoPanic
  <2>6. ASSUME NEW i \in DOMAIN Scan(w) PROVE Scan(w)[i].Value # Panic
    <3>1. i \in 1..Len(w)
      BY <2>3 DEF Scan
    <3> QED BY <2>5, <3>1 DEF Scan, Read
  <2> QED BY <2>1, <2>2, <2>4, <2>6 DEF v
<1> QED BY <1>1, CodecInvariance, PTL

=============================================================================
