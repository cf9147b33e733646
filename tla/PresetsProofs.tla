--------------------------- MODULE PresetsProofs ---------------------------
(***************************************************************************)
(* For any number of slots, settings, values and calls: what a scan of the *)
(* presets collects and leaves, and what a write of one changes.           *)
(***************************************************************************)
EXTENDS Presets, SequenceTheorems, TLAPS

NameValue == {Panic} \cup {Unnamed(s) : s \in Slot} \cup {decodePropValue(d) : d \in Seq(Byte)}
Entry == [slot : Slot, name : NameValue, settings : Seq(Setting)]

(***************************************************************************)
(* What the step says of the locals.                                       *)
(***************************************************************************)
Typed ==
    /\ TypeOK /\ presets \in Seq(Entry)
    /\ reading \in [name : NameValue, settings : Seq(Setting)]
    /\ warnings \subseteq Nat

Steps ==
    /\ pc \in ScanSteps => call = ScanCall
    /\ pc \in WriteSteps => call \in Writes /\ presets = <<>>
    /\ pc # "idle" => how = "none"
    /\ pc = "ReadSlot" => at = 1 /\ presets = <<>>
    /\ pc = "ReadSetting" => k \in Prop
    /\ pc \in {"WriteSelect", "WriteName"} => k = 1
    /\ pc \in {"WriteSetting", "VerifySetting"} => k \in DOMAIN call.settings
    /\ pc \in {"Select", "ReadName", "ReadSetting"} => Len(presets) < at

\* The slot that the scan will select at its end.
Chosen ==
    /\ pc = "ReadSlot" => cam.slot = start /\ failed = {}
    /\ pc \in ScanSteps \ {"ReadSlot"} /\ synced =>
          origSlot = IF Failed("ReadSlot") THEN 1 ELSE start

\* While answers are true, the selected slot is the one the step works on.
Selected ==
    synced =>
        /\ pc \in {"ReadName", "ReadSetting"} => cam.slot = at
        /\ pc \in WriteSteps \ {"WriteSelect"} /\ StaysInSlot => cam.slot = call.slot

\* The order in which slots and settings are collected.
Ordered ==
    /\ pc \in {"Select", "ReadName", "ReadSetting"} =>
          \A i \in DOMAIN presets : presets[i].slot < at
    /\ pc = "ReadSetting" =>
          \A i \in DOMAIN reading.settings : reading.settings[i].ID < k

(***************************************************************************)
(* As long as no command has failed, nothing has been left out.            *)
(***************************************************************************)
Settings(s, n) == [q \in 1..n |-> [ID |-> q, Bytes |-> cam.val[s][q]]]
Whole(e, s) ==
    /\ e.slot = s
    /\ IsString(decodePropValue(cam.name[s])) => e.name = decodePropValue(cam.name[s])
    /\ e.settings = Settings(s, LastProp)
SoFar ==
    pc \in {"Select", "ReadName", "ReadSetting"} /\ synced /\ failed = {} =>
        /\ Len(presets) = at - 1 /\ \A s \in 1..(at - 1) : Whole(presets[s], s)
        /\ pc = "ReadSetting" =>
              /\ IsString(decodePropValue(cam.name[at]))
                    => reading.name = decodePropValue(cam.name[at])
              /\ reading.settings = Settings(at, k - 1)
AllFound ==
    pc = "Restore" /\ synced /\ failed = {} =>
        DOMAIN presets = Slot /\ \A s \in Slot : Whole(presets[s], s)

(***************************************************************************)
(* What has been written is accepted or warned of, and what has been       *)
(* verified is in the camera.                                              *)
(***************************************************************************)
Accepted(i) == i \in warnings \/ call.settings[i].ID \in written
Verified(i) ==
    \/ i \in warnings
    \/ [step |-> "VerifySetting", of |-> i] \in failed
    \/ Len(cam.val[call.slot][call.settings[i].ID]) # Len(call.settings[i].Bytes)
    \/ InCamera(i)
NameVerified ==
    ~Failed("VerifyName") /\ IsString(decodePropValue(cam.name[call.slot]))
        => decodePropValue(cam.name[call.slot]) = Text(call.name)
Verifying ==
    /\ pc = "WriteSetting" => \A i \in 1..(k - 1) : Accepted(i)
    /\ pc \in {"VerifyName", "VerifySetting"} => \A i \in DOMAIN call.settings : Accepted(i)
    /\ pc = "VerifySetting" /\ synced /\ StaysInSlot =>
          NameVerified /\ \A i \in 1..(k - 1) : Verified(i)

Inv ==
    /\ Typed /\ Steps /\ Chosen /\ Selected /\ Ordered /\ SoFar /\ AllFound /\ Verifying
    /\ SlotRestored /\ ScanTrue /\ ScanWhole /\ VerifiedWrite

-----------------------------------------------------------------------------
(* The codec: bytes, and what becomes of a slot number.                    *)

LEMMA PackBytes ==
    ASSUME NEW w \in Nat, w < 65536
    PROVE  /\ PackU16(w) \in Seq(Byte) /\ Len(PackU16(w)) = 2
           /\ U16(PackU16(w), 1) = w
<1>1. w % 256 \in Byte /\ w \div 256 \in Byte /\ (w % 256) + 256 * (w \div 256) = w
  BY DEF Byte
<1> DEFINE a == w % 256
           b == w \div 256
<1> HIDE DEF a, b
<1>2. PackU16(w) = <<a, b>>
  BY DEF PackU16, a, b
<1>3. a \in Byte /\ b \in Byte /\ a + 256 * b = w
  BY <1>1 DEF a, b
<1> QED BY <1>2, <1>3 DEF U16

LEMMA PackInjective ==
    ASSUME NEW v \in Nat, v < 65536, NEW w \in Nat, w < 65536, PackU16(v) = PackU16(w)
    PROVE  v = w
BY PackBytes

LEMMA SlotsAreSmall == \A s \in Slot : s \in Nat /\ s < 32768 /\ s < 65536
BY PresetsAssumption DEF Slot

\* A slot that is read is a number and comes back as it is.
LEMMA SlotDecodes ==
    ASSUME NEW w \in Nat, w < 32768
    PROVE  /\ decodePropValue(PackU16(w)) = Number(w)
           /\ IsNumber(Number(w)) /\ Uint16(Number(w).int) = w
<1> DEFINE d == PackU16(w)
<1>1. Len(d) = 2 /\ U16(d, 1) = w
  BY PackBytes
<1> HIDE DEF d
<1>2. ~LooksLikeString(d)
  BY <1>1 DEF LooksLikeString
<1>3. Scalar(d) = Number(Int16(U16(d, 1)))
  BY <1>1 DEF Scalar
<1>4. Int16(U16(d, 1)) = w
  BY <1>1 DEF Int16
<1>5. decodePropValue(d) = Number(w)
  BY <1>2, <1>3, <1>4 DEF decodePropValue
<1>6. IsNumber(Number(w)) /\ Number(w).int = w
  BY DEF IsNumber, Number
<1>7. Uint16(w) = w
  BY DEF Uint16
<1> QED BY <1>5, <1>6, <1>7 DEF d

-----------------------------------------------------------------------------
(* One command.                                                            *)

LEMMA ExchangeFacts ==
    ASSUME TypeOK, NEW o \in Outcome, NEW did \in BOOLEAN, Exchange(o, did)
    PROVE  /\ synced' \in BOOLEAN /\ (synced' => synced)
           /\ synced' /\ o = "ok" => did
<1>1. plugged \in BOOLEAN /\ synced \in BOOLEAN
  BY DEF TypeOK
<1>2. CASE ~plugged
  BY <1>1, <1>2 DEF Exchange, EndsAs
<1>3. CASE plugged /\ ~synced
  BY <1>1, <1>3 DEF Exchange, EndsAs
<1>4. CASE plugged /\ synced
  BY <1>1, <1>4 DEF Exchange, EndsAs
<1> QED BY <1>1, <1>2, <1>3, <1>4

LEMMA ShownBytes ==
    ASSUME cam \in Camera, NEW p \in 0..(LastProp + 1)
    PROVE  Shown(p) \in Seq(Byte)
<1>1. CASE p = PresetSlot
  BY <1>1, PackBytes, SlotsAreSmall, PresetsAssumption DEF Shown, Camera, PresetSlot, PresetName
<1>2. CASE p = PresetName
  BY <1>2, PresetsAssumption DEF Shown, Camera, PresetSlot, PresetName
<1>3. CASE p \in Prop
  BY <1>3, PresetsAssumption DEF Shown, Camera, PresetSlot, PresetName, Prop
<1> QED BY <1>1, <1>2, <1>3, PresetsAssumption DEF PresetSlot, PresetName, Prop

LEMMA ReadFacts ==
    ASSUME TypeOK, NEW p \in 0..(LastProp + 1), NEW d, ReadProp(p, d)
    PROVE  /\ synced' \in BOOLEAN /\ (synced' => synced)
           /\ synced' => d = <<>> \/ d = Shown(p)
           /\ d \in Seq(Byte)
<1>1. PICK o \in Outcome, did \in BOOLEAN :
         /\ Exchange(o, did)
         /\ IF o # "ok" THEN d = <<>> ELSE d \in IF synced THEN {Shown(p)} ELSE Stray
  BY DEF ReadProp
<1>2. synced' \in BOOLEAN /\ (synced' => synced)
  BY <1>1, ExchangeFacts
<1>3. d \in Seq(Byte)
  <2>1. cam \in Camera /\ Stray \subseteq Seq(Byte) /\ <<>> \in Seq(Byte)
    BY PresetsAssumption DEF TypeOK
  <2>2. Shown(p) \in Seq(Byte)
    BY <2>1, ShownBytes
  <2> QED BY <1>1, <2>1, <2>2
<1> QED BY <1>1, <1>2, <1>3

LEMMA Properties ==
    /\ PresetSlot # PresetName /\ PresetSlot \notin Prop /\ PresetName \notin Prop
    /\ \A p \in Prop : p # PresetSlot /\ p # PresetName
    /\ \A p \in Prop \cup {PresetSlot, PresetName} : p \in 0..(LastProp + 1)
    /\ \A p \in 0..LastProp : p \in Prop \/ p = PresetSlot
BY PresetsAssumption DEF PresetSlot, PresetName, Prop

LEMMA TakenSlot ==
    ASSUME cam \in Camera, NEW d, NEW c \in Taken(PresetSlot, d)
    PROVE  /\ c \in Camera /\ c.name = cam.name /\ c.val = cam.val
           /\ c.slot \in Slot /\ d = PackU16(c.slot)
<1>1. c \in TakesSlot(d)
  BY Properties DEF Taken
<1>2. PICK s \in {n \in Slot : d = PackU16(n)} : c = [cam EXCEPT !.slot = s]
  BY <1>1 DEF TakesSlot
<1>3. s \in Slot /\ d = PackU16(s)
  BY <1>2
<1> QED BY <1>2, <1>3 DEF Camera

LEMMA TakenName ==
    ASSUME cam \in Camera, NEW d \in Seq(Byte), NEW c \in Taken(PresetName, d)
    PROVE  /\ c \in Camera /\ c.slot = cam.slot /\ c.val = cam.val
           /\ c.name = [cam.name EXCEPT ![cam.slot] = d]
<1>1. c \in TakesName(d)
  BY Properties DEF Taken
<1>2. c = [cam EXCEPT !.name[cam.slot] = d]
  BY <1>1 DEF TakesName
<1> QED BY <1>2 DEF Camera

LEMMA TakenSetting ==
    ASSUME cam \in Camera, NEW p \in Prop, NEW d \in Data, NEW c \in Taken(p, d)
    PROVE  /\ c \in Camera /\ c.slot = cam.slot /\ c.name = cam.name
           /\ \A s \in Slot \ {cam.slot} : c.val[s] = cam.val[s]
<1> DEFINE set == [cam EXCEPT !.val[cam.slot][p] = d]
<1>1. c \in TakesSetting(p, d)
  BY Properties DEF Taken
<1>2. c \in {set} \cup Adjusted(set, p)
  BY <1>1 DEF TakesSetting
<1>3. /\ set \in Camera /\ set.slot = cam.slot /\ set.name = cam.name
      /\ \A s \in Slot \ {cam.slot} : set.val[s] = cam.val[s]
  BY DEF Camera
<1> HIDE DEF set
<1>4. ASSUME c \in Adjusted(set, p)
      PROVE  /\ c \in Camera /\ c.slot = cam.slot /\ c.name = cam.name
             /\ \A s \in Slot \ {cam.slot} : c.val[s] = cam.val[s]
  <2>1. PICK x \in {q \in Prop : <<p, q>> \in Adjusts} \X Data :
           c = [set EXCEPT !.val[set.slot][x[1]] = x[2]]
    BY <1>4 DEF Adjusted
  <2>2. x[1] \in Prop /\ x[2] \in Data
    BY <2>1
  <2>3. cam.slot \in Slot
    BY DEF Camera
  <2> QED BY <1>3, <2>1, <2>2, <2>3 DEF Camera
<1> QED BY <1>2, <1>3, <1>4

LEMMA WriteFacts ==
    ASSUME TypeOK, NEW p, NEW d, NEW o \in Outcome, WriteProp(p, d, o)
    PROVE  /\ synced' \in BOOLEAN /\ (synced' => synced)
           /\ cam' = cam \/ cam' \in Taken(p, d)
           /\ synced' /\ o = "ok" => cam' \in Taken(p, d)
BY ExchangeFacts DEF WriteProp

\* A client's list has settings, with data of the camera's, and the slot.
LEMMA WritesTypes ==
    ASSUME NEW w \in Writes
    PROVE  /\ w.slot \in Slot /\ w.slot # 0 /\ w # ScanCall
           /\ PackPTPString(w.name) \in Seq(Byte)
           /\ w.settings \in Seq(Setting) /\ DOMAIN w.settings = 1..Len(w.settings)
           /\ Len(w.settings) \in Nat
           /\ \A i \in DOMAIN w.settings :
                 /\ w.settings[i].ID \in 0..LastProp
                 /\ w.settings[i].ID # PresetSlot =>
                       w.settings[i].ID \in Prop /\ w.settings[i].Bytes \in Data
<1>1. w.slot \in Slot /\ w.settings \in Seq(Setting) /\ PackPTPString(w.name) \in Seq(Byte)
  BY PresetsAssumption
<1>2. w.slot # 0 /\ w # ScanCall
  BY <1>1, PresetsAssumption DEF Slot, ScanCall
<1>3. ASSUME NEW i \in DOMAIN w.settings
      PROVE  /\ w.settings[i].ID \in 0..LastProp
             /\ w.settings[i].ID # PresetSlot =>
                   w.settings[i].ID \in Prop /\ w.settings[i].Bytes \in Data
  <2>1. w.settings[i] \in Setting
    BY <1>1
  <2>2. w.settings[i].ID \in 0..LastProp
    BY <2>1 DEF Setting
  <2>3. w.settings[i].ID # PresetSlot => w.settings[i].ID \in Prop
    BY <2>2, PresetsAssumption DEF PresetSlot, Prop
  <2>4. w.settings[i].ID \in Prop => w.settings[i].Bytes \in Data
    BY PresetsAssumption
  <2> QED BY <2>2, <2>3, <2>4
<1> QED BY <1>1, <1>2, <1>3

LEMMA NumbersAreInts ==
    ASSUME NEW d \in Seq(Byte), IsNumber(decodePropValue(d))
    PROVE  Uint16(decodePropValue(d).int) \in Nat
<1> SUFFICES decodePropValue(d).int \in Int
  BY DEF Uint16
<1>1. \A b \in Byte : b \in Int /\ Int8(b) \in Int
  BY DEF Byte, Int8
<1>2. \A v, w \in Int : Int16(v + 256 * w) \in Int
  BY DEF Int16
<1>3. decodePropValue(d) = Scalar(d)
  <2>1. ~IsNumber(Panic) /\ ~IsNumber(Text(Str(d, 1)))
    BY DEF IsNumber, Panic, Text
  <2> QED BY <2>1 DEF decodePropValue
<1>4. ~IsNumber(Hex(d))
  BY DEF IsNumber, Hex
<1>5. \A n : Number(n).int = n
  BY DEF Number
<1> DEFINE n == Len(d)
<1>0. \A i \in 1..n : d[i] \in Byte
  OBVIOUS
<1>S. Scalar(d) = CASE n = 1 -> Number(d[1])
                    [] n = 2 -> Number(Int16(U16(d, 1)))
                    [] n = 4 -> Number(Int32(d, 1))
                    [] OTHER -> Hex(d)
  BY DEF Scalar
<1> HIDE DEF n
<1>6. CASE n = 1
  <2>1. d[1] \in Byte /\ Scalar(d) = Number(d[1])
    BY <1>0, <1>S, <1>6
  <2> QED BY <1>1, <1>3, <1>5, <2>1
<1>7. CASE n = 2
  <2>1. d[1] \in Byte /\ d[2] \in Byte /\ Scalar(d) = Number(Int16(U16(d, 1)))
    BY <1>0, <1>S, <1>7
  <2>2. U16(d, 1) = d[1] + 256 * d[2]
    BY DEF U16
  <2>3. Int16(U16(d, 1)) \in Int
    BY <1>1, <1>2, <2>1, <2>2
  <2> QED BY <1>3, <1>5, <2>1, <2>3
<1>8. CASE n = 4
  <2>1. d[1] \in Byte /\ d[2] \in Byte /\ d[3] \in Byte /\ d[4] \in Byte
    BY <1>0, <1>8
  <2>2. Scalar(d) = Number(Int32(d, 1))
    BY <1>S, <1>8
  <2>3. U16(d, 1) \in Int /\ d[3] \in Int /\ Int8(d[4]) \in Int
    <3>1. U16(d, 1) = d[1] + 256 * d[2]
      BY DEF U16
    <3>2. d[1] \in Int /\ d[2] \in Int /\ d[3] \in Int /\ Int8(d[4]) \in Int
      BY <1>1, <2>1
    <3> QED BY <3>1, <3>2
  <2>4. Int32(d, 1) \in Int
    BY <2>3, SMT DEF Int32
  <2> QED BY <1>3, <1>5, <2>2, <2>4
<1>9. CASE n \notin {1, 2, 4}
  BY <1>3, <1>4, <1>9, <1>S
<1> QED BY <1>6, <1>7, <1>8, <1>9

-----------------------------------------------------------------------------
(* The types, and what the steps say of the locals.                        *)

Base == Typed /\ Steps

LEMMA CallFrame ==
    ASSUME Base
    PROVE  /\ cam \in Camera /\ cam.slot \in Slot /\ synced \in BOOLEAN
           /\ Len(presets) \in Nat /\ at \in Slot /\ k \in Nat
BY DEF Base, Typed, TypeOK, Camera

LEMMA AskedIs ==
    ASSUME Base, pc \in ReadSteps
    PROVE  /\ Asked \in 0..(LastProp + 1)
           /\ pc = "ReadSlot" => Asked = PresetSlot
           /\ pc \in {"ReadName", "VerifyName"} => Asked = PresetName
           /\ pc = "ReadSetting" => Asked = k /\ k \in Prop
           /\ pc = "VerifySetting" => Asked = call.settings[k].ID
<1>1. pc = "VerifySetting" => call.settings[k].ID \in 0..LastProp
  BY WritesTypes DEF Base, Steps, WriteSteps
<1>2. pc = "ReadSetting" => k \in Prop
  BY DEF Base, Steps
<1> QED BY <1>1, <1>2, Properties, PresetsAssumption DEF Asked, ReadSteps

LEMMA NoteTypes ==
    ASSUME Base, pc # "idle", NEW bad, NEW of \in Nat, Note(bad, of)
    PROVE  failed' \subseteq [step : ScanSteps \cup WriteSteps, of : Nat]
<1>1. [step |-> pc, of |-> of] \in [step : ScanSteps \cup WriteSteps, of : Nat]
  BY DEF Base, Typed, TypeOK
<1> QED BY <1>1 DEF Base, Typed, TypeOK, Note

LEMMA InitBase == Init => Base
<1> SUFFICES ASSUME Init PROVE Base
  OBVIOUS
<1>1. cam \in Camera /\ cam.slot \in Slot /\ start \in Slot
  BY PresetsAssumption DEF Init, Camera
<1>2. /\ 1 \in Slot /\ 0 \in 0..MaxCalls
  BY PresetsAssumption DEF Slot
<1>3. /\ presets \in Seq(Entry) /\ Len(presets) <= LastSlot
      /\ reading \in [name : NameValue, settings : Seq(Setting)]
  BY PresetsAssumption DEF Init, NoReading, NameValue
<1>4. Steps
  BY DEF Init, Steps, ScanSteps, WriteSteps
<1> QED BY <1>1, <1>2, <1>3, <1>4 DEF Init, Base, Typed, TypeOK

\* The types of what both kinds of call leave alone, and of what they share.
LEMMA BeginBase ==
    ASSUME Base, BeginScan \/ \E w \in Writes : BeginWrite(w)
    PROVE  Base'
<1>1. PICK c \in Writes \cup {ScanCall} : Begin(c)
  BY DEF BeginScan, BeginWrite
<1>2. /\ 1 \in Slot /\ calls' \in 0..MaxCalls
  BY <1>1, PresetsAssumption DEF Begin, Slot, Base, Typed, TypeOK
<1>3. /\ presets' \in Seq(Entry) /\ Len(presets') = 0 /\ presets' = <<>>
      /\ reading' \in [name : NameValue, settings : Seq(Setting)]
  BY <1>1 DEF Begin, Clear, NoReading, NameValue
<1>4. cam' \in Camera /\ start' \in Slot
  BY <1>1 DEF Begin, Base, Typed, TypeOK, Camera
<1>5. pc' \in {"idle", "ReadSlot", "WriteSelect"} /\ how' \in {"none", "done"}
  BY DEF BeginScan, BeginWrite
<1>6. TypeOK'
  BY <1>1, <1>2, <1>3, <1>4, <1>5, PresetsAssumption
  DEF Begin, Clear, Base, Typed, TypeOK, ScanSteps, WriteSteps
<1>7. Steps'
  <2>1. CASE BeginScan
    BY <1>3, <2>1 DEF BeginScan, Begin, Clear, Steps, ScanSteps, WriteSteps
  <2>2. CASE \E w \in Writes : BeginWrite(w)
    BY <1>3, <2>2 DEF BeginWrite, Begin, Clear, Steps, ScanSteps, WriteSteps
  <2> QED BY <2>1, <2>2
<1> QED BY <1>1, <1>3, <1>6, <1>7 DEF Base, Typed, Begin, Clear

LEMMA NextSlotFacts ==
    ASSUME Base, NextSlot
    PROVE  /\ at' \in Slot /\ how' = how /\ calls' = calls
           /\ \/ at < LastSlot /\ at' = at + 1 /\ pc' = "Select"
              \/ at = LastSlot /\ at' = at /\ pc' = "Restore"
BY PresetsAssumption DEF Base, Typed, TypeOK, NextSlot, Go, Slot

LEMMA ScanFrame ==
    ASSUME Base, Scan
    PROVE  /\ pc \in ScanSteps /\ call = ScanCall /\ call' = call /\ how = "none"
           /\ UNCHANGED <<listed, plugged, written, warnings, start, call>>
<1>1. CASE ReadSlot
  BY <1>1 DEF ReadSlot, ScanSteps, Base, Steps
<1>2. CASE Select
  BY <1>2 DEF Select, ScanSteps, Base, Steps
<1>3. CASE ReadName
  BY <1>3 DEF ReadName, ScanSteps, Base, Steps
<1>4. CASE ReadSetting
  BY <1>4 DEF ReadSetting, ScanSteps, Base, Steps
<1>5. CASE Restore
  BY <1>5 DEF Restore, ScanSteps, local, Base, Steps
<1> QED BY <1>1, <1>2, <1>3, <1>4, <1>5 DEF Scan

LEMMA ScanBase ==
    ASSUME Base, Scan
    PROVE  Base'
<1>1. /\ pc \in ScanSteps /\ call = ScanCall /\ call' = call /\ how = "none"
      /\ UNCHANGED <<listed, plugged, written, warnings, start, call>>
  BY ScanFrame
<1>2. CASE ReadSlot
  <2>1. PICK d \in Stray \cup {<<>>, Shown(PresetSlot)} :
           /\ ReadProp(PresetSlot, d)
           /\ origSlot' = IF d # <<>> /\ IsNumber(decodePropValue(d))
                         THEN Uint16(decodePropValue(d).int) ELSE 1
           /\ Note(d = <<>>, 0)
    BY <1>2 DEF ReadSlot
  <2>2. synced' \in BOOLEAN /\ d \in Seq(Byte)
    BY <2>1, ReadFacts, Properties DEF Base, Typed
  <2>3. origSlot' \in Nat
    BY <2>1, <2>2, NumbersAreInts
  <2>4. failed' \subseteq [step : ScanSteps \cup WriteSteps, of : Nat]
    BY <1>1, <2>1, NoteTypes DEF ScanSteps
  <2>5. TypeOK'
    BY <1>1, <1>2, <2>2, <2>3, <2>4 DEF ReadSlot, Go, Base, Typed, TypeOK, ScanSteps
  <2>6. Steps'
    <3>1. Len(presets') < at'
      BY <1>2 DEF ReadSlot, Base, Steps
    <3> QED BY <1>1, <1>2, <3>1 DEF ReadSlot, Go, Steps, ScanSteps, WriteSteps
  <2> QED BY <1>1, <1>2, <2>5, <2>6 DEF ReadSlot, Base, Typed
<1>3. CASE Select
  <2>1. PICK o \in Outcome :
           /\ WriteProp(PresetSlot, PackU16(at), o) /\ Note(o # "ok", 0)
           /\ CASE o = "ok"            -> Go("ReadName") /\ UNCHANGED at
                [] o # "ok" /\ at = 1  -> Go("Restore") /\ UNCHANGED at
                [] o # "ok" /\ at # 1  -> NextSlot
    BY <1>3 DEF Select
  <2>2. synced' \in BOOLEAN /\ cam' \in Camera
    BY <2>1, WriteFacts, TakenSlot, CallFrame DEF Base, Typed
  <2>3. failed' \subseteq [step : ScanSteps \cup WriteSteps, of : Nat]
    BY <1>1, <2>1, NoteTypes DEF ScanSteps
  <2>4. /\ at' \in Slot /\ how' = how /\ calls' = calls
        /\ pc' \in {"ReadName", "Restore", "Select"}
        /\ pc' = "ReadName" => at' = at
        /\ pc' = "Select" => at' = at + 1
    <3>1. CASE o = "ok"
      BY <2>1, <3>1, CallFrame DEF Go
    <3>2. CASE o # "ok" /\ at = 1
      BY <2>1, <3>2, CallFrame DEF Go
    <3>3. CASE o # "ok" /\ at # 1
      BY <2>1, <3>3, NextSlotFacts
    <3> QED BY <3>1, <3>2, <3>3
  <2>5. /\ presets' = presets /\ reading' = reading /\ k' = k /\ origSlot' = origSlot
        /\ pc = "Select"
    BY <1>3 DEF Select
  <2>6. TypeOK'
    BY <1>1, <2>2, <2>3, <2>4, <2>5 DEF Base, Typed, TypeOK, ScanSteps
  <2>7. Len(presets) < at /\ Len(presets') < at'
    <3>1. Len(presets) < at /\ Len(presets) \in Nat /\ at \in Nat
      BY <2>5, CallFrame, SlotsAreSmall DEF Base, Steps
    <3>2. CASE at' = at
      BY <2>5, <3>1, <3>2
    <3>3. CASE at' = at + 1
      BY <2>5, <3>1, <3>3
    <3>4. at' = at \/ at' = at + 1
      BY <2>1, NextSlotFacts DEF Go
    <3> QED BY <3>1, <3>2, <3>3, <3>4
  <2>8. Steps'
    BY <1>1, <2>4, <2>7 DEF Steps, ScanSteps, WriteSteps
  <2> QED BY <1>1, <2>5, <2>6, <2>8 DEF Base, Typed
<1>4. CASE ReadName
  <2>1. PICK d \in Stray \cup {<<>>, Shown(PresetName)} :
           /\ ReadProp(PresetName, d)
           /\ reading' = [name |-> NameOf(d), settings |-> <<>>]
           /\ Note(d = <<>>, 0)
    BY <1>4 DEF ReadName
  <2>2. synced' \in BOOLEAN /\ d \in Seq(Byte)
    BY <2>1, ReadFacts, Properties DEF Base, Typed
  <2>3. failed' \subseteq [step : ScanSteps \cup WriteSteps, of : Nat]
    BY <1>1, <2>1, NoteTypes DEF ScanSteps
  <2>4. NameOf(d) \in NameValue
    BY <2>2, CallFrame DEF NameOf, NameValue
  <2>5. /\ reading' \in [name : NameValue, settings : Seq(Setting)]
        /\ reading'.settings \in Seq(Setting)
    BY <2>1, <2>4
  <2>6. 1 \in Prop
    BY PresetsAssumption DEF Prop
  <2>7. TypeOK'
    BY <1>1, <1>4, <2>2, <2>3, <2>5 DEF ReadName, Go, Base, Typed, TypeOK, ScanSteps
  <2>8. Steps'
    BY <1>1, <1>4, <2>6 DEF ReadName, Go, Base, Steps, ScanSteps, WriteSteps
  <2> QED BY <1>1, <1>4, <2>5, <2>7, <2>8 DEF ReadName, Base, Typed
<1>5. CASE ReadSetting
  <2> DEFINE grown(d) == IF d = <<>> THEN reading.settings
                         ELSE Append(reading.settings, [ID |-> k, Bytes |-> d])
  <2>1. PICK d \in Stray \cup {<<>>, Shown(k)} :
           /\ ReadProp(k, d) /\ Note(d = <<>>, 0)
           /\ IF k < LastProp
              THEN /\ k' = k + 1 /\ reading' = [reading EXCEPT !.settings = grown(d)]
                   /\ Go("ReadSetting") /\ UNCHANGED <<at, presets>>
              ELSE /\ presets' = Append(presets, [slot |-> at, name |-> reading.name,
                                                  settings |-> grown(d)])
                   /\ k' = 1 /\ reading' = NoReading /\ NextSlot
    BY <1>5 DEF ReadSetting
  <2>2. k \in Prop /\ Len(presets) < at /\ Len(presets) \in Nat /\ at \in Slot
    BY <1>5, CallFrame DEF ReadSetting, Base, Steps
  <2>3. synced' \in BOOLEAN /\ d \in Seq(Byte)
    BY <2>1, <2>2, ReadFacts, Properties DEF Base, Typed
  <2>4. failed' \subseteq [step : ScanSteps \cup WriteSteps, of : Nat]
    BY <1>1, <2>1, NoteTypes DEF ScanSteps
  <2>5. grown(d) \in Seq(Setting)
    <3>1. [ID |-> k, Bytes |-> d] \in Setting /\ reading.settings \in Seq(Setting)
      BY <2>2, <2>3, PresetsAssumption DEF Setting, Prop, Base, Typed
    <3> QED BY <3>1
  <2> HIDE DEF grown
  <2>6. /\ listed' = listed /\ plugged' = plugged /\ cam' = cam /\ origSlot' = origSlot
        /\ pc = "ReadSetting"
    BY <1>5 DEF ReadSetting
  <2>7. CASE k < LastProp
    <3>1. /\ k' = k + 1 /\ k' \in Prop /\ k' \in Nat \ {0}
          /\ reading' = [reading EXCEPT !.settings = grown(d)]
          /\ pc' = "ReadSetting" /\ how' = how /\ calls' = calls
          /\ at' = at /\ presets' = presets
      BY <2>1, <2>2, <2>7, PresetsAssumption DEF Go, Prop
    <3>2. /\ reading' \in [name : NameValue, settings : Seq(Setting)]
          /\ reading'.settings \in Seq(Setting)
      BY <2>5, <3>1 DEF Base, Typed
    <3>3. TypeOK'
      BY <1>1, <2>3, <2>4, <2>6, <3>1, <3>2 DEF Base, Typed, TypeOK, ScanSteps
    <3>4. Steps'
      BY <1>1, <2>2, <3>1 DEF Steps, ScanSteps, WriteSteps
    <3> QED BY <1>1, <3>1, <3>2, <3>3, <3>4 DEF Base, Typed
  <2>8. CASE ~(k < LastProp)
    <3>1. /\ k' = 1 /\ reading' = NoReading /\ NextSlot
          /\ presets' = Append(presets, [slot |-> at, name |-> reading.name,
                                         settings |-> grown(d)])
      BY <2>1, <2>8
    <3>2. [slot |-> at, name |-> reading.name, settings |-> grown(d)] \in Entry
      BY <2>2, <2>5 DEF Entry, Base, Typed
    <3>3. presets' \in Seq(Entry) /\ Len(presets') = Len(presets) + 1
      BY <3>1, <3>2, AppendProperties DEF Base, Typed
    <3>4. /\ reading' \in [name : NameValue, settings : Seq(Setting)]
          /\ reading'.settings \in Seq(Setting)
      BY <3>1 DEF NoReading, NameValue
    <3>5. /\ at' \in Slot /\ how' = how /\ calls' = calls
          /\ pc' \in {"Select", "Restore"} /\ Len(presets') <= LastSlot
          /\ pc' = "Select" => Len(presets') < at'
      <4>1. at \in Nat /\ at <= LastSlot /\ LastSlot \in Nat
        BY <2>2, PresetsAssumption DEF Slot
      <4>2. /\ at' \in Slot /\ how' = how /\ calls' = calls
            /\ \/ at < LastSlot /\ at' = at + 1 /\ pc' = "Select"
               \/ at = LastSlot /\ at' = at /\ pc' = "Restore"
        BY <3>1, NextSlotFacts
      <4> DEFINE n == Len(presets)
                 m == Len(presets')
      <4>3. n \in Nat /\ n < at /\ m = n + 1
        BY <2>2, <3>3
      <4> HIDE DEF n, m
      <4>4. m <= LastSlot /\ (at' = at + 1 => m < at')
        BY <4>1, <4>3
      <4> QED BY <4>2, <4>4 DEF m
    <3>6. TypeOK'
      BY <1>1, <2>3, <2>4, <2>6, <3>1, <3>4, <3>5 DEF Base, Typed, TypeOK, ScanSteps
    <3>7. Steps'
      BY <1>1, <3>5 DEF Steps, ScanSteps, WriteSteps
    <3> QED BY <1>1, <3>3, <3>4, <3>6, <3>7 DEF Base, Typed
  <2> QED BY <2>7, <2>8
<1>6. CASE Restore
  <2>1. PICK o \in Outcome : WriteProp(PresetSlot, PackU16(origSlot), o) /\ Note(o # "ok", 0)
    BY <1>6 DEF Restore
  <2>2. synced' \in BOOLEAN /\ cam' \in Camera
    BY <2>1, WriteFacts, TakenSlot, CallFrame DEF Base, Typed
  <2>3. failed' \subseteq [step : ScanSteps \cup WriteSteps, of : Nat]
    BY <1>1, <2>1, NoteTypes DEF ScanSteps
  <2>4. TypeOK'
    BY <1>1, <1>6, <2>2, <2>3 DEF Restore, Return, local, Base, Typed, TypeOK
  <2>5. Steps'
    BY <1>6 DEF Restore, Return, Steps, ScanSteps, WriteSteps
  <2> QED BY <1>6, <2>4, <2>5 DEF Restore, local, Base, Typed
<1> QED BY <1>2, <1>3, <1>4, <1>5, <1>6 DEF Scan

LEMMA VerifyFromFacts ==
    ASSUME Base, call \in Writes, NEW j \in Nat \ {0}, VerifyFrom(j)
    PROVE  /\ calls' = calls /\ k' \in Nat \ {0}
           /\ \/ /\ pc' = "idle" /\ how' = "done"
                 /\ \A i \in j..Len(call.settings) : call.settings[i].ID \notin written
              \/ /\ pc' = "VerifySetting" /\ how' = how
                 /\ k' \in DOMAIN call.settings /\ k' >= j
                 /\ \A i \in j..(k' - 1) : call.settings[i].ID \notin written
<1>1. /\ DOMAIN call.settings = 1..Len(call.settings) /\ Len(call.settings) \in Nat
      /\ k \in Nat \ {0}
  BY WritesTypes DEF Base, Typed, TypeOK
<1> DEFINE n == Len(call.settings)
<1>2. CASE ToVerify(j) = {} /\ Return("done") /\ UNCHANGED k
  BY <1>1, <1>2 DEF ToVerify, Return
<1>3. CASE /\ k' \in ToVerify(j) /\ \A i \in ToVerify(j) : k' <= i
           /\ Go("VerifySetting")
  <2>0. n \in Nat
    BY <1>1
  <2>1. k' \in j..n /\ call.settings[k'].ID \in written
    BY <1>3 DEF ToVerify
  <2>2. ASSUME NEW i \in j..(k' - 1), call.settings[i].ID \in written PROVE FALSE
    <3> HIDE DEF n
    <3>1. i \in j..n /\ ~(k' <= i)
      BY <2>0, <2>1
    <3>2. i \in ToVerify(j)
      BY <2>2, <3>1 DEF ToVerify, n
    <3> QED BY <1>3, <3>1, <3>2
  <2>3. k' \in 1..n /\ k' \in Nat \ {0} /\ k' >= j
    <3> HIDE DEF n
    <3> QED BY <2>0, <2>1
  <2> QED BY <1>1, <1>3, <2>2, <2>3 DEF Go
<1> QED BY <1>2, <1>3 DEF VerifyFrom

LEMMA WriteFrame ==
    ASSUME Base, Write
    PROVE  /\ pc \in WriteSteps /\ call \in Writes /\ presets = <<>> /\ how = "none"
           /\ UNCHANGED <<listed, plugged, at, origSlot, reading, presets, start, call>>
<1>1. CASE WriteSelect
  BY <1>1 DEF WriteSelect, WriteSteps, local, Base, Steps
<1>2. CASE WriteName
  BY <1>2 DEF WriteName, WriteSteps, local, Base, Steps
<1>3. CASE WriteSetting
  BY <1>3 DEF WriteSetting, WriteSteps, Base, Steps
<1>4. CASE VerifyName
  BY <1>4 DEF VerifyName, WriteSteps, Base, Steps
<1>5. CASE VerifySetting
  BY <1>5 DEF VerifySetting, WriteSteps, Base, Steps
<1> QED BY <1>1, <1>2, <1>3, <1>4, <1>5 DEF Write

LEMMA WriteBase ==
    ASSUME Base, Write
    PROVE  Base'
<1>1. /\ pc \in WriteSteps /\ call \in Writes /\ presets = <<>> /\ how = "none"
      /\ UNCHANGED <<listed, plugged, at, origSlot, reading, presets, start, call>>
  BY WriteFrame
<1>2. /\ call.slot \in Slot /\ call.settings \in Seq(Setting)
      /\ DOMAIN call.settings = 1..Len(call.settings) /\ Len(call.settings) \in Nat
      /\ PackPTPString(call.name) \in Seq(Byte)
  BY <1>1, WritesTypes
<1>3. CASE WriteSelect
  <2>1. PICK o \in Outcome :
           /\ WriteProp(PresetSlot, PackU16(call.slot), o)
           /\ IF o = "ok" THEN Go("WriteName") ELSE Return("error")
    BY <1>3 DEF WriteSelect
  <2>2. synced' \in BOOLEAN /\ cam' \in Camera
    BY <2>1, WriteFacts, TakenSlot, CallFrame DEF Base, Typed
  <2>3. /\ calls' = calls
        /\ \/ pc' = "WriteName" /\ how' = "none"
           \/ pc' = "idle" /\ how' = "error"
    BY <1>1, <2>1 DEF Go, Return
  <2>4. TypeOK'
    BY <1>1, <1>3, <2>2, <2>3 DEF WriteSelect, local, Base, Typed, TypeOK, WriteSteps
  <2>5. k = 1 /\ k' = k
    BY <1>3 DEF WriteSelect, local, Base, Steps
  <2>6. Steps'
    BY <1>1, <2>3, <2>5 DEF Steps, ScanSteps, WriteSteps
  <2> QED BY <1>3, <2>4, <2>6 DEF WriteSelect, local, Base, Typed
<1>4. CASE WriteName
  <2>1. PICK o \in Outcome :
           /\ WriteProp(PresetName, PackPTPString(call.name), o)
           /\ IF o # "ok" THEN Return("error")
              ELSE IF call.settings = <<>> THEN Go("VerifyName") ELSE Go("WriteSetting")
    BY <1>4 DEF WriteName
  <2>2. synced' \in BOOLEAN /\ cam' \in Camera
    BY <1>2, <2>1, WriteFacts, TakenName, CallFrame DEF Base, Typed
  <2>3. /\ calls' = calls
        /\ \/ pc' = "WriteSetting" /\ how' = "none" /\ call.settings # <<>>
           \/ pc' = "VerifyName" /\ how' = "none"
           \/ pc' = "idle" /\ how' = "error"
    BY <1>1, <2>1 DEF Go, Return
  <2>4. TypeOK'
    BY <1>1, <1>4, <2>2, <2>3 DEF WriteName, local, Base, Typed, TypeOK, WriteSteps
  <2>5. pc' = "WriteSetting" => k' \in DOMAIN call.settings
    <3>1. k' = 1 /\ call' = call
      BY <1>4 DEF WriteName, local, Base, Steps
    <3>2. ASSUME call.settings # <<>> PROVE 1 \in DOMAIN call.settings
      BY <1>2, <3>2, EmptySeq
    <3> QED BY <2>3, <3>1, <3>2
  <2>6. Steps'
    BY <1>1, <2>3, <2>5 DEF Steps, ScanSteps, WriteSteps
  <2> QED BY <1>4, <2>4, <2>6 DEF WriteName, local, Base, Typed
<1>5. CASE WriteSetting
  <2>1. PICK o \in Outcome :
           /\ WriteProp(call.settings[k].ID, call.settings[k].Bytes, o)
           /\ written' = IF o = "ok" THEN written \cup {call.settings[k].ID} ELSE written
           /\ warnings' = IF o = "ok" THEN warnings ELSE warnings \cup {k}
    BY <1>5 DEF WriteSetting
  <2>2. /\ k \in DOMAIN call.settings /\ k \in Nat \ {0} /\ pc = "WriteSetting"
        /\ failed' = failed
    BY <1>2, <1>5 DEF WriteSetting, Base, Steps
  <2>3. /\ call.settings[k].ID \in 0..LastProp
        /\ \/ call.settings[k].ID = PresetSlot
           \/ (call.settings[k].ID \in Prop /\ call.settings[k].Bytes \in Data)
    <3> DEFINE p == call.settings[k].ID
               d == call.settings[k].Bytes
    <3>1. p \in 0..LastProp /\ (p # PresetSlot => p \in Prop /\ d \in Data)
      BY <1>1, <2>2, WritesTypes
    <3> HIDE DEF p, d
    <3>2. p \in 0..LastProp /\ (p = PresetSlot \/ (p \in Prop /\ d \in Data))
      BY <3>1
    <3> QED BY <3>2 DEF p, d
  <2>4. synced' \in BOOLEAN /\ cam' \in Camera
    <3>1. /\ synced' \in BOOLEAN /\ cam \in Camera
          /\ cam' = cam \/ cam' \in Taken(call.settings[k].ID, call.settings[k].Bytes)
      BY <2>1, WriteFacts, CallFrame DEF Base, Typed
    <3> QED BY <2>3, <3>1, TakenSlot, TakenSetting
  <2>5. /\ written' \subseteq 0..LastProp /\ warnings' \subseteq Nat
    BY <2>1, <2>2, <2>3 DEF Base, Typed, TypeOK
  <2>6. /\ how' = how /\ calls' = calls /\ k' \in Nat \ {0}
        /\ \/ pc' = "WriteSetting" /\ k' \in DOMAIN call.settings
           \/ pc' = "VerifyName"
    <3> DEFINE n == Len(call.settings)
    <3>1. n \in Nat /\ k \in 1..n
      BY <1>2, <2>2
    <3>2. IF k < n THEN k' = k + 1 /\ Go("WriteSetting") ELSE k' = 1 /\ Go("VerifyName")
      BY <1>5 DEF WriteSetting
    <3>3. DOMAIN call.settings = 1..n
      BY <1>2
    <3> HIDE DEF n
    <3> QED BY <3>1, <3>2, <3>3 DEF Go
  <2>7. TypeOK'
    BY <1>1, <2>2, <2>4, <2>5, <2>6 DEF Base, Typed, TypeOK, WriteSteps
  <2>8. Steps'
    BY <1>1, <2>6 DEF Steps, ScanSteps, WriteSteps
  <2> QED BY <1>1, <2>5, <2>7, <2>8 DEF Base, Typed
<1>6. CASE VerifyName
  <2>1. PICK d \in Stray \cup {<<>>, Shown(PresetName)} :
           /\ ReadProp(PresetName, d) /\ Note(d = <<>>, 0)
           /\ (Return("error") /\ UNCHANGED k) \/ VerifyFrom(1)
    BY <1>6 DEF VerifyName
  <2>2. synced' \in BOOLEAN
    BY <2>1, ReadFacts, Properties DEF Base, Typed
  <2>3. failed' \subseteq [step : ScanSteps \cup WriteSteps, of : Nat]
    BY <1>1, <2>1, NoteTypes DEF WriteSteps
  <2>4. /\ calls' = calls /\ k' \in Nat \ {0}
        /\ \/ pc' = "idle" /\ how' \in {"error", "done"}
           \/ pc' = "VerifySetting" /\ how' = "none" /\ k' \in DOMAIN call.settings
    BY <1>1, <2>1, VerifyFromFacts DEF Return, Base, Typed, TypeOK
  <2>5. TypeOK'
    BY <1>1, <1>6, <2>2, <2>3, <2>4 DEF VerifyName, Base, Typed, TypeOK, WriteSteps
  <2>6. Steps'
    BY <1>1, <2>4 DEF Steps, ScanSteps, WriteSteps
  <2> QED BY <1>6, <2>5, <2>6 DEF VerifyName, Base, Typed
<1>7. CASE VerifySetting
  <2>1. PICK d \in Stray \cup {<<>>, Shown(call.settings[k].ID)} :
           /\ ReadProp(call.settings[k].ID, d) /\ Note(d = <<>>, k)
           /\ (Return("error") /\ UNCHANGED k) \/ VerifyFrom(k + 1)
    BY <1>7 DEF VerifySetting
  <2>2. /\ k \in DOMAIN call.settings /\ k \in Nat \ {0}
        /\ call.settings[k].ID \in 0..(LastProp + 1)
    <3>1. k \in DOMAIN call.settings /\ k \in Nat \ {0}
      BY <1>2, <1>7 DEF VerifySetting, Base, Steps
    <3>2. call.settings[k].ID \in 0..LastProp
      BY <1>1, <3>1, WritesTypes
    <3> QED BY <3>1, <3>2, PresetsAssumption
  <2>3. synced' \in BOOLEAN
    BY <2>1, <2>2, ReadFacts DEF Base, Typed
  <2>4. failed' \subseteq [step : ScanSteps \cup WriteSteps, of : Nat]
    BY <1>1, <2>1, <2>2, NoteTypes DEF WriteSteps
  <2>5. /\ calls' = calls /\ k' \in Nat \ {0}
        /\ \/ pc' = "idle" /\ how' \in {"error", "done"}
           \/ pc' = "VerifySetting" /\ how' = "none" /\ k' \in DOMAIN call.settings
    <3>1. k + 1 \in Nat \ {0}
      BY <2>2
    <3> QED BY <1>1, <2>1, <2>2, <3>1, VerifyFromFacts DEF Return
  <2>6. TypeOK'
    BY <1>1, <1>7, <2>3, <2>4, <2>5 DEF VerifySetting, Base, Typed, TypeOK, WriteSteps
  <2>7. Steps'
    BY <1>1, <2>5 DEF Steps, ScanSteps, WriteSteps
  <2> QED BY <1>7, <2>6, <2>7 DEF VerifySetting, Base, Typed
<1> QED BY <1>3, <1>4, <1>5, <1>6, <1>7 DEF Write

LEMMA NextBase ==
    ASSUME Base, [Next]_vars
    PROVE  Base'
<1>1. CASE Overrun
  <2>1. PICK d : ReadProp(Asked, d)
    BY <1>1 DEF Overrun
  <2>2. synced' \in BOOLEAN
    BY <1>1, <2>1, ReadFacts, AskedIs DEF Overrun, Base, Typed
  <2>3. TypeOK'
    BY <1>1, <2>2 DEF Overrun, Return, local, Base, Typed, TypeOK
  <2>4. Steps'
    BY <1>1 DEF Overrun, Return, Steps, ScanSteps, WriteSteps
  <2> QED BY <1>1, <2>3, <2>4 DEF Overrun, local, Base, Typed
<1>2. CASE Unplug
  BY <1>2 DEF Unplug, local, Base, Typed, TypeOK, Steps
<1>3. CASE Reconnect
  <2>1. cam' \in Camera
    BY <1>3, CallFrame DEF Reconnect, Camera
  <2>2. /\ 1 \in Slot
    BY PresetsAssumption DEF Slot
  <2>3. /\ presets' \in Seq(Entry) /\ Len(presets') = 0
        /\ reading' \in [name : NameValue, settings : Seq(Setting)]
        /\ reading'.settings \in Seq(Setting)
    BY <1>3 DEF Reconnect, Clear, NoReading, NameValue
  <2>4. TypeOK'
    BY <1>3, <2>1, <2>2, <2>3, PresetsAssumption DEF Reconnect, Clear, Base, Typed, TypeOK
  <2>5. Steps'
    BY <1>3 DEF Reconnect, Steps, ScanSteps, WriteSteps
  <2> QED BY <1>3, <2>3, <2>4, <2>5 DEF Reconnect, Clear, Base, Typed
<1>4. CASE UNCHANGED vars
  BY <1>4 DEF vars, local, Base, Typed, TypeOK, Steps
<1> QED BY <1>1, <1>2, <1>3, <1>4, BeginBase, ScanBase, WriteBase DEF Next

-----------------------------------------------------------------------------
(* The selected slot: what the scan gives back, what each step works on.   *)

LEMMA NoteFails ==
    ASSUME NEW bad \in BOOLEAN, NEW of, Note(bad, of), NEW step
    PROVE  Failed(step)' <=> (Failed(step) \/ (bad /\ pc = step))
<1>1. CASE bad
  <2>1. failed' = failed \cup {[step |-> pc, of |-> of]}
    BY <1>1 DEF Note
  <2>2. [step |-> pc, of |-> of].step = pc
    OBVIOUS
  <2>3. (\E f \in failed' : f.step = step) <=> ((\E f \in failed : f.step = step) \/ pc = step)
    BY <2>1, <2>2, Zenon
  <2> QED BY <1>1, <2>3, Zenon DEF Failed
<1>2. CASE ~bad
  BY <1>2 DEF Note, Failed
<1> QED BY <1>1, <1>2

\* A slot that is selected, while answers are true.
LEMMA SelectsSlot ==
    ASSUME Base, NEW s \in Nat, s < 65536, NEW o \in Outcome,
           WriteProp(PresetSlot, PackU16(s), o)
    PROVE  /\ synced' => synced
           /\ cam'.name = cam.name /\ cam'.val = cam.val
           /\ synced' /\ o = "ok" => cam'.slot = s
<1>1. /\ synced' => synced
      /\ cam' = cam \/ cam' \in Taken(PresetSlot, PackU16(s))
      /\ synced' /\ o = "ok" => cam' \in Taken(PresetSlot, PackU16(s))
  BY WriteFacts DEF Base, Typed
<1>2. cam \in Camera
  BY CallFrame
<1>3. ASSUME cam' \in Taken(PresetSlot, PackU16(s))
      PROVE  cam'.name = cam.name /\ cam'.val = cam.val /\ cam'.slot = s
  <2>1. /\ cam'.name = cam.name /\ cam'.val = cam.val
        /\ cam'.slot \in Slot /\ PackU16(s) = PackU16(cam'.slot)
    BY <1>2, <1>3, TakenSlot
  <2>2. s = cam'.slot
    BY <2>1, PackInjective, SlotsAreSmall
  <2> QED BY <2>1, <2>2
<1> QED BY <1>1, <1>3

LEMMA InitSlots == Init => Chosen /\ SlotRestored
BY DEF Init, Chosen, SlotRestored, Ended, ScanSteps

LEMMA NextSlots ==
    ASSUME Base, Chosen, SlotRestored, [Next]_vars
    PROVE  Chosen' /\ SlotRestored'
<1>1. CASE BeginScan
  <2>1. /\ cam' = cam /\ start' = cam.slot /\ failed' = {} /\ pc' \in {"idle", "ReadSlot"}
    BY <1>1 DEF BeginScan, Begin, Clear
  <2>2. ~Failed("ReadSlot")' /\ ~Failed("Restore")'
    BY <2>1 DEF Failed
  <2> QED BY <2>1, <2>2 DEF Chosen, SlotRestored, ScanSteps
<1>2. CASE \E w \in Writes : BeginWrite(w)
  <2>1. pc' = "WriteSelect"
    BY <1>2 DEF BeginWrite
  <2> QED BY <2>1 DEF Chosen, SlotRestored, Ended, ScanSteps
<1>3. CASE ReadSlot
  <2>1. PICK d \in Stray \cup {<<>>, Shown(PresetSlot)} :
           /\ ReadProp(PresetSlot, d)
           /\ origSlot' = IF d # <<>> /\ IsNumber(decodePropValue(d))
                         THEN Uint16(decodePropValue(d).int) ELSE 1
           /\ Note(d = <<>>, 0)
    BY <1>3 DEF ReadSlot
  <2>2. /\ pc = "ReadSlot" /\ pc' = "Select" /\ start' = start
    BY <1>3 DEF ReadSlot, Go
  <2>3. cam.slot = start /\ ~Failed("ReadSlot")
    BY <2>2 DEF Chosen, Failed
  <2>4. Failed("ReadSlot")' <=> d = <<>>
    BY <2>1, <2>2, <2>3, NoteFails
  <2>5. synced' => d = <<>> \/ d = PackU16(cam.slot)
    BY <2>1, ReadFacts, Properties DEF Base, Typed, Shown
  <2>6. /\ decodePropValue(PackU16(cam.slot)) = Number(cam.slot)
        /\ IsNumber(Number(cam.slot)) /\ Uint16(Number(cam.slot).int) = cam.slot
    BY SlotDecodes, SlotsAreSmall, CallFrame
  <2>7. synced' => origSlot' = IF Failed("ReadSlot")' THEN 1 ELSE start
    BY <2>1, <2>3, <2>4, <2>5, <2>6
  <2> QED BY <2>2, <2>7 DEF Chosen, SlotRestored, Ended
<1>4. CASE Select \/ ReadName \/ ReadSetting
  <2>1. /\ pc \in ScanSteps \ {"ReadSlot"} /\ pc' \notin {"idle", "ReadSlot"}
        /\ origSlot' = origSlot /\ start' = start
        /\ \E bad \in BOOLEAN : Note(bad, 0)
        /\ synced' => synced
    <3>1. CASE Select
      <4>1. PICK o \in Outcome :
               /\ WriteProp(PresetSlot, PackU16(at), o) /\ Note(o # "ok", 0)
               /\ CASE o = "ok"            -> Go("ReadName") /\ UNCHANGED at
                    [] o # "ok" /\ at = 1  -> Go("Restore") /\ UNCHANGED at
                    [] o # "ok" /\ at # 1  -> NextSlot
        BY <3>1 DEF Select
      <4>2. synced' => synced
        BY <4>1, WriteFacts DEF Base, Typed
      <4>3. pc' \in {"ReadName", "Restore", "Select"}
        BY <4>1 DEF Go, NextSlot
      <4> QED BY <3>1, <4>1, <4>2, <4>3 DEF Select, ScanSteps
    <3>2. CASE ReadName
      <4>1. PICK d : ReadProp(PresetName, d) /\ Note(d = <<>>, 0)
        BY <3>2 DEF ReadName
      <4>2. synced' => synced
        BY <4>1, ReadFacts, Properties DEF Base, Typed
      <4> QED BY <3>2, <4>1, <4>2 DEF ReadName, Go, ScanSteps
    <3>3. CASE ReadSetting
      <4>1. PICK d : ReadProp(k, d) /\ Note(d = <<>>, 0)
        BY <3>3 DEF ReadSetting
      <4>2. k \in Prop
        BY <3>3 DEF ReadSetting, Base, Steps
      <4>3. synced' => synced
        BY <4>1, <4>2, ReadFacts, Properties DEF Base, Typed
      <4>4. pc' \in {"ReadSetting", "Select", "Restore"}
        BY <3>3 DEF ReadSetting, Go, NextSlot
      <4> QED BY <3>3, <4>1, <4>3, <4>4 DEF ReadSetting, ScanSteps
    <3> QED BY <1>4, <3>1, <3>2, <3>3
  <2>2. Failed("ReadSlot")' <=> Failed("ReadSlot")
    BY <2>1, NoteFails
  <2> QED BY <2>1, <2>2 DEF Chosen, SlotRestored, Ended
<1>5. CASE Restore
  <2>1. PICK o \in Outcome : WriteProp(PresetSlot, PackU16(origSlot), o) /\ Note(o # "ok", 0)
    BY <1>5 DEF Restore
  <2>2. pc = "Restore" /\ pc' = "idle" /\ start' = start
    BY <1>5 DEF Restore, Return
  <2>3. /\ Failed("ReadSlot")' <=> Failed("ReadSlot")
        /\ o # "ok" => Failed("Restore")'
    <3>1. \A step : Failed(step)' <=> (Failed(step) \/ (o # "ok" /\ pc = step))
      BY <2>1, NoteFails
    <3> QED BY <2>2, <3>1
  <2>4. ASSUME synced', o = "ok"
        PROVE  cam'.slot = IF Failed("ReadSlot") THEN 1 ELSE start
    <3>1. synced
      BY <2>1, <2>4, WriteFacts DEF Base, Typed
    <3>2. origSlot = IF Failed("ReadSlot") THEN 1 ELSE start
      BY <2>2, <3>1 DEF Chosen, ScanSteps
    <3>3. origSlot \in Nat /\ origSlot < 65536
      BY <3>2, SlotsAreSmall DEF Base, Typed, TypeOK
    <3> QED BY <2>1, <2>4, <3>2, <3>3, SelectsSlot
  <2> QED BY <2>2, <2>3, <2>4 DEF Chosen, SlotRestored, ScanSteps
<1>6. CASE Write
  <2>1. pc \in WriteSteps /\ call \in Writes /\ call' = call
    BY <1>6, WriteFrame
  <2>2. pc' \notin ScanSteps /\ call' # ScanCall
    <3>1. pc' \in WriteSteps \cup {"idle"}
      BY <1>6 DEF Write, WriteSelect, WriteName, WriteSetting, VerifyName, VerifySetting,
                  VerifyFrom, Go, Return, WriteSteps
    <3> QED BY <2>1, <3>1, WritesTypes DEF ScanSteps, WriteSteps
  <2> QED BY <2>2 DEF Chosen, SlotRestored, Ended, ScanSteps
<1>7. CASE Overrun
  BY <1>7 DEF Overrun, Return, Chosen, SlotRestored, Ended, ScanSteps
<1>8. CASE Unplug
  BY <1>8 DEF Unplug, local, Chosen, SlotRestored, Ended, Failed
<1>9. CASE Reconnect
  BY <1>9 DEF Reconnect, Chosen, SlotRestored, Ended, ScanSteps
<1>10. CASE UNCHANGED vars
  BY <1>10 DEF vars, local, Chosen, SlotRestored, Ended, Failed
<1> QED BY <1>1, <1>2, <1>3, <1>4, <1>5, <1>6, <1>7, <1>8, <1>9, <1>10 DEF Next, Scan

LEMMA ScanKeeps ==
    ASSUME Base, Scan
    PROVE  (synced' => synced) /\ cam'.name = cam.name /\ cam'.val = cam.val
<1>1. CASE ReadSlot \/ ReadName \/ ReadSetting
  <2>1. PICK p \in 0..(LastProp + 1) : \E d : ReadProp(p, d)
    <3>1. pc = "ReadSetting" => k \in Prop
      BY DEF Base, Steps
    <3> QED BY <1>1, <3>1, Properties DEF ReadSlot, ReadName, ReadSetting
  <2>2. cam' = cam
    BY <1>1 DEF ReadSlot, ReadName, ReadSetting
  <2> QED BY <2>1, <2>2, ReadFacts DEF Base, Typed
<1>2. CASE Select \/ Restore
  <2>1. PICK o \in Outcome : \E d : WriteProp(PresetSlot, d, o)
    BY <1>2 DEF Select, Restore
  <2>2. PICK d : WriteProp(PresetSlot, d, o)
    BY <2>1
  <2>3. /\ synced' => synced
        /\ cam' = cam \/ cam' \in Taken(PresetSlot, d)
    BY <2>2, WriteFacts DEF Base, Typed
  <2> QED BY <2>3, TakenSlot, CallFrame
<1> QED BY <1>1, <1>2 DEF Scan

\* What a write does to the camera, while it stays in its slot.
LEMMA WriteKeeps ==
    ASSUME Base, Selected, Write, synced, StaysInSlot
    PROVE  /\ \A s \in Slot \ {call.slot} : KeepsPreset(s)
           /\ ~WriteSelect => cam'.slot = call.slot
<1>1. call \in Writes /\ call.slot \in Slot /\ cam \in Camera
  BY WriteFrame, WritesTypes, CallFrame
<1>2. CASE WriteSelect
  <2>1. PICK o \in Outcome : WriteProp(PresetSlot, PackU16(call.slot), o)
    BY <1>2 DEF WriteSelect
  <2>2. cam'.name = cam.name /\ cam'.val = cam.val
    BY <1>1, <2>1, SelectsSlot, SlotsAreSmall
  <2> QED BY <1>2, <2>2 DEF KeepsPreset
<1>3. ~WriteSelect => cam.slot = call.slot
  BY DEF Selected, Write, WriteName, WriteSetting, VerifyName, VerifySetting, WriteSteps
<1>4. CASE WriteName
  <2>0. cam.slot = call.slot
    BY <1>4 DEF WriteName, Selected, WriteSteps
  <2>1. PICK o \in Outcome : WriteProp(PresetName, PackPTPString(call.name), o)
    BY <1>4 DEF WriteName
  <2>2. cam' = cam \/ cam' \in Taken(PresetName, PackPTPString(call.name))
    BY <2>1, WriteFacts DEF Base, Typed
  <2>3. /\ cam'.slot = cam.slot /\ cam'.val = cam.val
        /\ \A s \in Slot \ {cam.slot} : cam'.name[s] = cam.name[s]
    <3>1. PackPTPString(call.name) \in Seq(Byte)
      BY <1>1, WritesTypes
    <3>2. CASE cam' = cam
      BY <3>2
    <3>3. CASE cam' \in Taken(PresetName, PackPTPString(call.name))
      <4>1. /\ cam'.slot = cam.slot /\ cam'.val = cam.val
            /\ cam'.name = [cam.name EXCEPT ![cam.slot] = PackPTPString(call.name)]
        BY <1>1, <3>1, <3>3, TakenName
      <4> QED BY <1>1, <4>1 DEF Camera
    <3> QED BY <2>2, <3>2, <3>3
  <2> QED BY <2>0, <2>3 DEF KeepsPreset
<1>5. CASE WriteSetting
  <2>0. cam.slot = call.slot
    BY <1>5 DEF WriteSetting, Selected, WriteSteps
  <2> DEFINE p == call.settings[k].ID
             d == call.settings[k].Bytes
  <2>1. PICK o \in Outcome : WriteProp(p, d, o)
    BY <1>5 DEF WriteSetting
  <2>2. cam' = cam \/ cam' \in Taken(p, d)
    BY <2>1, WriteFacts DEF Base, Typed
  <2>3. p \in Prop /\ d \in Data
    <3>1. k \in DOMAIN call.settings
      BY <1>5 DEF WriteSetting, Base, Steps
    <3> QED BY <1>1, <3>1, WritesTypes DEF StaysInSlot
  <2> HIDE DEF p, d
  <2>4. /\ cam'.slot = cam.slot /\ cam'.name = cam.name
        /\ \A s \in Slot \ {cam.slot} : cam'.val[s] = cam.val[s]
    BY <1>1, <2>2, <2>3, TakenSetting
  <2> QED BY <2>0, <2>4 DEF KeepsPreset
<1>6. CASE VerifyName \/ VerifySetting
  <2>1. cam' = cam
    BY <1>6 DEF VerifyName, VerifySetting
  <2>2. ~WriteSelect
    BY <1>6 DEF VerifyName, VerifySetting, WriteSelect
  <2> QED BY <1>3, <2>1, <2>2 DEF KeepsPreset
<1> QED BY <1>2, <1>4, <1>5, <1>6 DEF Write

LEMMA WriteSyncs ==
    ASSUME Base, Write
    PROVE  synced' => synced
<1>1. CASE WriteSelect \/ WriteName \/ WriteSetting
  <2>1. PICK o \in Outcome : \E p, d : WriteProp(p, d, o)
    <3>1. CASE WriteSelect
      BY <3>1 DEF WriteSelect
    <3>2. CASE WriteName
      BY <3>2 DEF WriteName
    <3>3. CASE WriteSetting
      BY <3>3 DEF WriteSetting
    <3> QED BY <1>1, <3>1, <3>2, <3>3
  <2> QED BY <2>1, WriteFacts DEF Base, Typed
<1>2. CASE VerifyName \/ VerifySetting
  <2>1. PICK p \in 0..(LastProp + 1) : \E d : ReadProp(p, d)
    <3>1. CASE VerifyName
      BY <3>1, Properties DEF VerifyName
    <3>2. CASE VerifySetting
      <4>1. call.settings[k].ID \in 0..LastProp
        BY <3>2, WritesTypes DEF VerifySetting, Base, Steps, WriteSteps
      <4>2. call.settings[k].ID \in 0..(LastProp + 1)
        BY <4>1, PresetsAssumption
      <4> QED BY <3>2, <4>2 DEF VerifySetting
    <3> QED BY <1>2, <3>1, <3>2
  <2> QED BY <2>1, ReadFacts DEF Base, Typed
<1> QED BY <1>1, <1>2 DEF Write

LEMMA NextSelected ==
    ASSUME Base, Selected, [Next]_vars
    PROVE  Selected'
<1>1. CASE BeginScan \/ \E w \in Writes : BeginWrite(w)
  BY <1>1 DEF BeginScan, BeginWrite, Selected, WriteSteps
<1>2. CASE Scan
  <2>1. pc' \notin WriteSteps
    BY <1>2 DEF Scan, ReadSlot, Select, ReadName, ReadSetting, Restore, NextSlot, Go, Return,
                WriteSteps
  <2>2. synced' => synced
    BY <1>2, ScanKeeps
  <2>3. ASSUME synced', pc' \in {"ReadName", "ReadSetting"}
        PROVE  cam'.slot = at'
    <3>1. CASE Select
      <4>1. PICK o \in Outcome :
               /\ WriteProp(PresetSlot, PackU16(at), o)
               /\ CASE o = "ok"            -> Go("ReadName") /\ UNCHANGED at
                    [] o # "ok" /\ at = 1  -> Go("Restore") /\ UNCHANGED at
                    [] o # "ok" /\ at # 1  -> NextSlot
        BY <3>1 DEF Select
      <4>2. o = "ok" /\ at' = at
        BY <2>3, <4>1 DEF Go, NextSlot
      <4> QED BY <2>3, <4>1, <4>2, SelectsSlot, SlotsAreSmall, CallFrame
    <3>2. CASE ReadName
      BY <2>2, <2>3, <3>2 DEF ReadName, Selected
    <3>3. CASE ReadSetting
      BY <2>2, <2>3, <3>3 DEF ReadSetting, NextSlot, Go, Selected
    <3>4. ~ReadSlot /\ ~Restore
      BY <2>3 DEF ReadSlot, Restore, Go, Return
    <3> QED BY <1>2, <3>1, <3>2, <3>3, <3>4 DEF Scan
  <2> QED BY <2>1, <2>3 DEF Selected
<1>3. CASE Write
  <2>1. /\ pc' \in {"idle", "WriteName", "WriteSetting", "VerifyName", "VerifySetting"}
        /\ call' = call
    <3>1. pc' \in {"idle", "WriteName", "WriteSetting", "VerifyName", "VerifySetting"}
      BY <1>3 DEF Write, WriteSelect, WriteName, WriteSetting, VerifyName, VerifySetting,
                  VerifyFrom, Go, Return
    <3> QED BY <1>3, <3>1, WriteFrame
  <2>2. ASSUME synced', StaysInSlot', pc' # "idle"
        PROVE  cam'.slot = call.slot
    <3>1. synced /\ StaysInSlot
      BY <1>3, <2>1, <2>2, WriteSyncs DEF StaysInSlot
    <3>2. CASE WriteSelect
      <4>1. PICK o \in Outcome :
               /\ WriteProp(PresetSlot, PackU16(call.slot), o)
               /\ IF o = "ok" THEN Go("WriteName") ELSE Return("error")
        BY <3>2 DEF WriteSelect
      <4>2. o = "ok"
        BY <2>2, <4>1 DEF Return
      <4>3. call.slot \in Slot
        BY <1>3, WriteFrame, WritesTypes
      <4> QED BY <2>2, <4>1, <4>2, <4>3, SelectsSlot, SlotsAreSmall
    <3>3. CASE ~WriteSelect
      BY <1>3, <3>1, <3>3, WriteKeeps
    <3> QED BY <3>2, <3>3
  <2> QED BY <2>1, <2>2 DEF Selected, WriteSteps
<1>4. CASE Overrun
  BY <1>4 DEF Overrun, Return, Selected, WriteSteps
<1>5. CASE Unplug
  BY <1>5 DEF Unplug, local, Selected, StaysInSlot
<1>6. CASE Reconnect
  BY <1>6 DEF Reconnect, Selected, WriteSteps
<1>7. CASE UNCHANGED vars
  BY <1>7 DEF vars, local, Selected, StaysInSlot
<1> QED BY <1>1, <1>2, <1>3, <1>4, <1>5, <1>6, <1>7 DEF Next

LEMMA StepKeeps ==
    ASSUME Base, Selected, [Next]_vars
    PROVE  /\ pc \in ScanSteps => \A s \in Slot : KeepsPreset(s)
           /\ pc \in WriteSteps /\ synced /\ StaysInSlot =>
                \A s \in Slot \ {call.slot} : KeepsPreset(s)
<1>1. CASE Scan
  <2>1. pc \in ScanSteps /\ pc \notin WriteSteps
    BY <1>1, ScanFrame DEF ScanSteps, WriteSteps
  <2> QED BY <1>1, <2>1, ScanKeeps DEF KeepsPreset
<1>2. CASE Write
  <2>1. pc \in WriteSteps /\ pc \notin ScanSteps
    BY <1>2, WriteFrame DEF ScanSteps, WriteSteps
  <2> QED BY <1>2, <2>1, WriteKeeps
<1>3. CASE ~Scan /\ ~Write
  <2>1. pc = "idle" \/ cam' = cam
    BY <1>3 DEF Next, BeginScan, BeginWrite, Begin, Overrun, Unplug, Reconnect, vars
  <2> QED BY <2>1 DEF KeepsPreset, ScanSteps, WriteSteps
<1> QED BY <1>1, <1>2, <1>3

-----------------------------------------------------------------------------
(* What the scan collects is the camera's.                                 *)

LEMMA CollectedMore ==
    ASSUME Base, NEW s, NEW name, NEW settings \in Seq(Setting), NEW d \in Seq(Byte),
           Collected(s, name, settings), pc = "ReadSetting", d = cam.val[s][k],
           \A i \in DOMAIN settings : settings[i].ID < k
    PROVE  Collected(s, name, Append(settings, [ID |-> k, Bytes |-> d]))
<1> DEFINE e == [ID |-> k, Bytes |-> d]
           more == Append(settings, e)
           n == Len(settings)
<1>1. e \in Setting /\ e.ID = k /\ e.Bytes = d
  BY PresetsAssumption DEF Base, Steps, Setting, Prop
<1>2. /\ n \in Nat /\ Len(more) = n + 1 /\ more[n + 1] = e
      /\ \A i \in 1..n : more[i] = settings[i]
  BY <1>1, AppendProperties
<1>3. DOMAIN more = 1..(n + 1) /\ DOMAIN settings = 1..n
  BY <1>1, <1>2, AppendProperties
<1>4. /\ name \in {Unnamed(s), decodePropValue(cam.name[s])}
      /\ \A i \in 1..n : settings[i].Bytes = cam.val[s][settings[i].ID]
      /\ \A i \in 1..n : i > 1 => settings[i - 1].ID < settings[i].ID
      /\ \A i \in 1..n : settings[i].ID < k
  BY <1>3, Zenon DEF Collected
<1> HIDE DEF e, more, n
<1>5. ASSUME NEW i \in 1..(n + 1)
      PROVE  more[i].Bytes = cam.val[s][more[i].ID] /\ (i > 1 => more[i - 1].ID < more[i].ID)
  <2>1. CASE i = n + 1
    <3>1. more[i].Bytes = cam.val[s][more[i].ID]
      BY <1>1, <1>2, <2>1
    <3>2. ASSUME i > 1 PROVE more[i - 1].ID < more[i].ID
      <4>1. i - 1 = n /\ n \in 1..n
        BY <1>2, <2>1, <3>2
      <4>2. more[n] = settings[n] /\ settings[n].ID < k
        BY <1>2, <1>4, <4>1, Zenon
      <4>3. more[i].ID = k
        BY <1>1, <1>2, <2>1
      <4> QED BY <4>1, <4>2, <4>3
    <3> QED BY <3>1, <3>2
  <2>2. CASE i # n + 1
    <3>1. i \in 1..n
      BY <1>2, <2>2
    <3>2. more[i] = settings[i] /\ settings[i].Bytes = cam.val[s][settings[i].ID]
      BY <1>2, <1>4, <3>1, Zenon
    <3>3. ASSUME i > 1 PROVE more[i - 1].ID < more[i].ID
      <4>1. i - 1 \in 1..n
        BY <1>2, <3>1, <3>3
      <4>2. more[i - 1] = settings[i - 1]
        BY <1>2, <4>1
      <4>3. settings[i - 1].ID < settings[i].ID
        BY <1>4, <3>1, <3>3, Zenon
      <4> QED BY <3>2, <4>2, <4>3
    <3> QED BY <3>2, <3>3
  <2> QED BY <2>1, <2>2
<1>6. Collected(s, name, more)
  BY <1>3, <1>4, <1>5 DEF Collected
<1> QED BY <1>6 DEF more, e

\* What a reading step of the scan reads, while answers are true.
LEMMA NameRead ==
    ASSUME Base, Selected, ReadName
    PROVE  /\ pc' = "ReadSetting" /\ k' = 1 /\ reading'.settings = <<>>
           /\ UNCHANGED <<at, presets, start, call>>
           /\ synced' => /\ synced
                         /\ reading'.name \in {Unnamed(at), decodePropValue(cam.name[at])}
                         /\ ~Failed("ReadName")' /\ IsString(decodePropValue(cam.name[at]))
                               => reading'.name = decodePropValue(cam.name[at])
<1>1. PICK d \in Stray \cup {<<>>, Shown(PresetName)} :
         /\ ReadProp(PresetName, d)
         /\ reading' = [name |-> NameOf(d), settings |-> <<>>]
         /\ Note(d = <<>>, 0)
  BY DEF ReadName
<1>2. synced' => synced /\ (d = <<>> \/ d = Shown(PresetName))
  BY <1>1, ReadFacts, Properties DEF Base, Typed
<1>3. pc = "ReadName"
  BY DEF ReadName
<1>4. d = <<>> => Failed("ReadName")'
  BY <1>1, <1>3, NoteFails
<1>5. synced => Shown(PresetName) = cam.name[at]
  BY <1>3, Properties DEF Selected, Shown
<1>6. NameOf(d) = IF d # <<>> /\ IsString(decodePropValue(d)) THEN decodePropValue(d)
                  ELSE Unnamed(at)
  BY DEF NameOf
<1>7. reading'.name = NameOf(d) /\ reading'.settings = <<>>
  BY <1>1
<1>8. /\ pc' = "ReadSetting" /\ k' = 1 /\ UNCHANGED <<at, presets, start, call>>
  BY DEF ReadName, Go
<1> QED BY <1>2, <1>4, <1>5, <1>6, <1>7, <1>8

\* The settings of the slot after ReadSetting has read the data d.
Grown(d) ==
    IF d = <<>> THEN reading.settings ELSE Append(reading.settings, [ID |-> k, Bytes |-> d])

LEMMA SettingRead ==
    ASSUME Base, Selected, ReadSetting
    PROVE  \E d \in Seq(Byte) :
              /\ synced' => /\ synced
                            /\ d = <<>> \/ d = cam.val[at][k]
                            /\ d = <<>> => failed' # {}
              /\ k \in Prop
              /\ \/ /\ k < LastProp /\ k' = k + 1 /\ pc' = "ReadSetting"
                    /\ reading' = [reading EXCEPT !.settings = Grown(d)]
                    /\ UNCHANGED <<at, presets>>
                 \/ /\ k = LastProp
                    /\ presets' = Append(presets, [slot |-> at, name |-> reading.name,
                                                   settings |-> Grown(d)])
                    /\ \/ at < LastSlot /\ at' = at + 1 /\ pc' = "Select"
                       \/ at = LastSlot /\ at' = at /\ pc' = "Restore"
<1>1. PICK d \in Stray \cup {<<>>, Shown(k)} :
         /\ ReadProp(k, d) /\ Note(d = <<>>, 0)
         /\ IF k < LastProp
            THEN /\ k' = k + 1 /\ reading' = [reading EXCEPT !.settings = Grown(d)]
                 /\ Go("ReadSetting") /\ UNCHANGED <<at, presets>>
            ELSE /\ presets' = Append(presets, [slot |-> at, name |-> reading.name,
                                                settings |-> Grown(d)])
                 /\ k' = 1 /\ reading' = NoReading /\ NextSlot
  BY DEF ReadSetting, Grown
<1>2. k \in Prop /\ pc = "ReadSetting"
  BY DEF ReadSetting, Base, Steps
<1>3. d \in Seq(Byte) /\ (synced' => synced /\ (d = <<>> \/ d = Shown(k)))
  BY <1>1, <1>2, ReadFacts, Properties DEF Base, Typed
<1>4. synced => Shown(k) = cam.val[at][k]
  BY <1>2, Properties DEF Selected, Shown
<1>5. d = <<>> => failed' # {}
  BY <1>1 DEF Note
<1>6. k < LastProp \/ k = LastProp
  BY <1>2, PresetsAssumption DEF Prop
<1>7. CASE k < LastProp
  <2>1. /\ k' = k + 1 /\ pc' = "ReadSetting"
        /\ reading' = [reading EXCEPT !.settings = Grown(d)] /\ UNCHANGED <<at, presets>>
    BY <1>1, <1>7 DEF Go
  <2> QED BY <1>2, <1>3, <1>4, <1>5, <1>7, <2>1
<1>8. CASE k = LastProp
  <2>1. ~(k < LastProp)
    BY <1>8, PresetsAssumption
  <2>2. /\ presets' = Append(presets, [slot |-> at, name |-> reading.name,
                                       settings |-> Grown(d)])
        /\ NextSlot
    BY <1>1, <2>1
  <2> QED BY <1>2, <1>3, <1>4, <1>5, <1>8, <2>2, NextSlotFacts
<1> QED BY <1>6, <1>7, <1>8

EntriesTrue ==
    \A i \in DOMAIN presets :
        /\ Collected(presets[i].slot, presets[i].name, presets[i].settings)
        /\ i > 1 => presets[i - 1].slot < presets[i].slot

LEMMA EntriesKept ==
    ASSUME EntriesTrue, cam'.name = cam.name, cam'.val = cam.val, presets' = presets
    PROVE  EntriesTrue'
BY DEF EntriesTrue, Collected

LEMMA NumbersOfEntries ==
    /\ \A s \in Seq(Entry) : \A i \in DOMAIN s : s[i].slot \in Nat
    /\ \A s \in Seq(Setting) : \A i \in DOMAIN s : s[i].ID \in Nat
<1>1. ASSUME NEW s \in Seq(Entry), NEW i \in DOMAIN s PROVE s[i].slot \in Nat
  <2>1. s[i] \in Entry
    OBVIOUS
  <2>2. s[i].slot \in Slot
    BY <2>1 DEF Entry
  <2> QED BY <2>2, SlotsAreSmall
<1>2. ASSUME NEW s \in Seq(Setting), NEW i \in DOMAIN s PROVE s[i].ID \in Nat
  <2>1. s[i] \in Setting
    OBVIOUS
  <2>2. s[i].ID \in 0..LastProp
    BY <2>1 DEF Setting
  <2> QED BY <2>2, PresetsAssumption
<1> QED BY <1>1, <1>2

\* The scan appends the slot it is at, which is behind all others.
LEMMA SlotAppended ==
    ASSUME Base, NEW e \in Entry, e.slot = at, presets' = Append(presets, e),
           \A i \in DOMAIN presets : presets[i].slot < at
    PROVE  \A i \in DOMAIN presets' : presets'[i].slot <= at /\ presets'[i].slot \in Nat
<1> DEFINE n == Len(presets)
<1>1. presets \in Seq(Entry) /\ at \in Nat
  BY CallFrame, SlotsAreSmall DEF Base, Typed
<1>2. /\ n \in Nat /\ presets'[n + 1] = e /\ \A i \in 1..n : presets'[i] = presets[i]
      /\ DOMAIN presets' = 1..(n + 1) /\ DOMAIN presets = 1..n
  BY <1>1, AppendProperties
<1>3. \A i \in 1..n : presets[i].slot \in Nat
  BY <1>1, <1>2, NumbersOfEntries
<1> HIDE DEF n
<1>4. ASSUME NEW i \in 1..(n + 1) PROVE presets'[i].slot <= at /\ presets'[i].slot \in Nat
  <2>1. CASE i = n + 1
    BY <1>1, <1>2, <2>1
  <2>2. CASE i # n + 1
    <3>1. i \in 1..n
      BY <1>2, <2>2
    <3>2. presets'[i] = presets[i] /\ presets[i].slot < at /\ presets[i].slot \in Nat
      BY <1>2, <1>3, <3>1, Zenon
    <3> QED BY <1>1, <3>2
  <2> QED BY <2>1, <2>2
<1> QED BY <1>2, <1>4

LEMMA EntryAppended ==
    ASSUME Base, EntriesTrue, NEW e \in Entry, e.slot = at,
           Collected(e.slot, e.name, e.settings),
           cam'.name = cam.name, cam'.val = cam.val, presets' = Append(presets, e),
           \A i \in DOMAIN presets : presets[i].slot < at
    PROVE  EntriesTrue'
<1> DEFINE n == Len(presets)
<1>1. presets \in Seq(Entry)
  BY DEF Base, Typed
<1>2. /\ n \in Nat /\ presets'[n + 1] = e /\ \A i \in 1..n : presets'[i] = presets[i]
      /\ DOMAIN presets' = 1..(n + 1) /\ DOMAIN presets = 1..n
  BY <1>1, AppendProperties
<1> HIDE DEF n
<1>3. /\ \A i \in 1..n : Collected(presets[i].slot, presets[i].name, presets[i].settings)
      /\ \A i \in 1..n : i > 1 => presets[i - 1].slot < presets[i].slot
      /\ \A i \in 1..n : presets[i].slot < at
      /\ \A i \in 1..n : presets[i].slot \in Nat
      /\ at \in Nat
  <2>1. \A i \in 1..n : presets[i].slot \in Nat
    BY <1>1, <1>2, NumbersOfEntries
  <2>2. at \in Nat
    BY CallFrame, SlotsAreSmall
  <2> QED BY <1>2, <2>1, <2>2, Zenon DEF EntriesTrue
<1>4. ASSUME NEW i \in 1..(n + 1)
      PROVE  /\ Collected(presets'[i].slot, presets'[i].name, presets'[i].settings)
             /\ i > 1 => presets'[i - 1].slot < presets'[i].slot
  <2>1. CASE i = n + 1
    <3>1. presets'[i] = e
      BY <1>2, <2>1
    <3>2. ASSUME i > 1 PROVE presets'[i - 1].slot < at
      <4>1. i - 1 = n /\ n \in 1..n
        BY <1>2, <2>1, <3>2
      <4>2. presets'[n] = presets[n] /\ presets[n].slot < at
        BY <1>2, <1>3, <4>1, Zenon
      <4> QED BY <4>1, <4>2
    <3> QED BY <3>1, <3>2, Zenon
  <2>2. CASE i # n + 1
    <3>1. i \in 1..n
      BY <1>2, <2>2
    <3>2. /\ presets'[i] = presets[i] /\ presets[i].slot < at /\ presets[i].slot \in Nat
          /\ Collected(presets[i].slot, presets[i].name, presets[i].settings)
      BY <1>2, <1>3, <3>1, Zenon
    <3>3. ASSUME i > 1 PROVE presets'[i - 1].slot < presets'[i].slot
      <4>1. i - 1 \in 1..n
        BY <1>2, <3>1, <3>3
      <4>2. presets'[i - 1] = presets[i - 1]
        BY <1>2, <4>1, Zenon
      <4>3. presets[i - 1].slot < presets[i].slot
        BY <1>3, <3>1, <3>3, Zenon
      <4> QED BY <3>2, <4>2, <4>3
    <3> QED BY <3>2, <3>3, Zenon
  <2> QED BY <2>1, <2>2
<1>5. EntriesTrue'
  <2>1. \A i \in DOMAIN presets' :
           /\ Collected(presets'[i].slot, presets'[i].name, presets'[i].settings)
           /\ i > 1 => presets'[i - 1].slot < presets'[i].slot
    BY <1>2, <1>4, Zenon
  <2> QED BY <2>1 DEF EntriesTrue, Collected
<1> QED BY <1>5

LEMMA InitScanTrue == Init => Ordered /\ ScanTrue
<1> SUFFICES ASSUME Init PROVE Ordered /\ ScanTrue
  OBVIOUS
<1>1. DOMAIN presets = {} /\ pc = "idle"
  BY DEF Init
<1> QED BY <1>1 DEF Ordered, ScanTrue

LEMMA NextScanTrue ==
    ASSUME Base, Selected, Ordered, ScanTrue, [Next]_vars
    PROVE  Ordered' /\ ScanTrue'
<1>1. synced => EntriesTrue
  BY DEF ScanTrue, EntriesTrue
<1>2. SUFFICES
        /\ Ordered'
        /\ synced' => EntriesTrue' /\ (pc' = "ReadSetting" => Collected(at, reading.name, reading.settings)')
  BY DEF ScanTrue, EntriesTrue
<1>3. ASSUME presets' = <<>>, pc' \notin {"ReadName", "ReadSetting"}
      PROVE  Ordered' /\ EntriesTrue'
  <2>1. DOMAIN presets' = {}
    BY <1>3
  <2> QED BY <1>3, <2>1 DEF Ordered, EntriesTrue
<1>4. CASE BeginScan \/ \E w \in Writes : BeginWrite(w)
  <2>1. presets' = <<>> /\ pc' \in {"idle", "ReadSlot", "WriteSelect"}
    BY <1>4 DEF BeginScan, BeginWrite, Begin, Clear
  <2> QED BY <1>3, <2>1
<1>5. CASE ReadSlot
  <2>1. presets' = <<>> /\ pc' = "Select"
    BY <1>5 DEF ReadSlot, Go, Base, Steps
  <2> QED BY <1>3, <2>1
<1>6. CASE Select
  <2>1. /\ pc = "Select" /\ presets' = presets
        /\ pc' \in {"ReadName", "Restore", "Select"} /\ at' >= at
    <3>1. at \in Nat
      BY CallFrame, SlotsAreSmall
    <3>2. NextSlot => at' >= at /\ pc' \in {"Restore", "Select"}
      BY <3>1, NextSlotFacts
    <3>3. CASE NextSlot
      BY <1>6, <3>2, <3>3 DEF Select
    <3>4. CASE ~NextSlot
      <4>1. /\ pc = "Select" /\ presets' = presets
            /\ pc' \in {"ReadName", "Restore"} /\ at' = at
        BY <1>6, <3>4 DEF Select, Go
      <4> QED BY <3>1, <4>1
    <3> QED BY <3>3, <3>4
  <2>2. (synced' => synced) /\ cam'.name = cam.name /\ cam'.val = cam.val
    BY <1>6, ScanKeeps DEF Scan
  <2>3. Ordered'
    <3>1. \A i \in DOMAIN presets : presets[i].slot < at /\ presets[i].slot \in Nat
      <4>1. presets \in Seq(Entry)
        BY DEF Base, Typed
      <4> QED BY <2>1, <4>1, NumbersOfEntries DEF Ordered
    <3>2. at \in Nat /\ at' \in Nat
      BY <1>6, ScanBase, CallFrame, SlotsAreSmall DEF Scan, Base, Typed, TypeOK
    <3>3. \A i \in DOMAIN presets : presets[i].slot < at'
      BY <2>1, <3>1, <3>2
    <3> QED BY <2>1, <3>3 DEF Ordered
  <2> QED BY <1>1, <2>1, <2>2, <2>3, EntriesKept
<1>7. CASE ReadName
  <2>1. /\ pc' = "ReadSetting" /\ k' = 1 /\ reading'.settings = <<>>
        /\ at' = at /\ presets' = presets
        /\ synced' => /\ synced
                      /\ reading'.name \in {Unnamed(at), decodePropValue(cam.name[at])}
    BY <1>7, NameRead
  <2>2. cam' = cam /\ pc = "ReadName"
    BY <1>7 DEF ReadName
  <2>3. DOMAIN (reading'.settings) = {}
    BY <2>1
  <2>4. Ordered'
    BY <2>1, <2>2, <2>3 DEF Ordered
  <2>5. synced' => Collected(at, reading.name, reading.settings)'
    BY <2>1, <2>2, <2>3 DEF Collected
  <2> QED BY <1>1, <2>1, <2>2, <2>4, <2>5, EntriesKept
<1>8. CASE ReadSetting
  <2>1. PICK d \in Seq(Byte) :
           /\ synced' => synced /\ (d = <<>> \/ d = cam.val[at][k])
           /\ k \in Prop
           /\ \/ /\ k < LastProp /\ k' = k + 1 /\ pc' = "ReadSetting"
                 /\ reading' = [reading EXCEPT !.settings = Grown(d)]
                 /\ UNCHANGED <<at, presets>>
              \/ /\ k = LastProp
                 /\ presets' = Append(presets, [slot |-> at, name |-> reading.name,
                                                settings |-> Grown(d)])
                 /\ \/ at < LastSlot /\ at' = at + 1 /\ pc' = "Select"
                    \/ at = LastSlot /\ at' = at /\ pc' = "Restore"
    BY <1>8, SettingRead
  <2>2. cam' = cam /\ pc = "ReadSetting"
    BY <1>8 DEF ReadSetting
  <2>3. /\ reading.settings \in Seq(Setting) /\ reading.name \in NameValue
        /\ at \in Slot /\ at \in Nat /\ LastProp \in Nat /\ k \in Nat
    BY CallFrame, SlotsAreSmall, PresetsAssumption DEF Base, Typed
  <2>4. \A i \in DOMAIN reading.settings : reading.settings[i].ID < k
    BY <2>2 DEF Ordered
  <2>5. synced' => Collected(at, reading.name, Grown(d))
    <3>1. synced => Collected(at, reading.name, reading.settings)
      BY <2>2 DEF ScanTrue
    <3>2. CASE d = <<>>
      BY <2>1, <3>1, <3>2 DEF Grown
    <3>3. CASE d # <<>>
      BY <2>1, <2>2, <2>3, <2>4, <3>1, <3>3, CollectedMore DEF Grown
    <3> QED BY <3>2, <3>3
  <2>6. Grown(d) \in Seq(Setting) /\ \A i \in DOMAIN Grown(d) : Grown(d)[i].ID < k + 1
    <3> DEFINE n == Len(reading.settings)
               e == [ID |-> k, Bytes |-> d]
    <3>1. e \in Setting /\ e.ID = k
      BY <2>1, PresetsAssumption DEF Setting, Prop
    <3>2. \A i \in DOMAIN reading.settings : reading.settings[i].ID \in Nat
      BY <2>3, NumbersOfEntries
    <3>3. CASE d = <<>>
      BY <2>3, <2>4, <3>2, <3>3 DEF Grown
    <3>4. CASE d # <<>>
      <4> DEFINE more == Append(reading.settings, e)
      <4>1. /\ more \in Seq(Setting) /\ DOMAIN more = 1..(n + 1) /\ n \in Nat
            /\ more[n + 1] = e /\ \A i \in 1..n : more[i] = reading.settings[i]
            /\ DOMAIN reading.settings = 1..n
        BY <2>3, <3>1, AppendProperties
      <4>2. Grown(d) = more
        BY <3>4 DEF Grown
      <4> HIDE DEF more, n, e
      <4>3. ASSUME NEW i \in 1..(n + 1) PROVE more[i].ID < k + 1
        <5>1. CASE i = n + 1
          BY <2>3, <3>1, <4>1, <5>1
        <5>2. CASE i # n + 1
          <6>1. i \in 1..n
            BY <4>1, <5>2
          <6>2. /\ more[i] = reading.settings[i] /\ reading.settings[i].ID < k
                /\ reading.settings[i].ID \in Nat
            BY <2>4, <3>2, <4>1, <6>1, Zenon
          <6> QED BY <2>3, <6>2
        <5> QED BY <5>1, <5>2
      <4> QED BY <4>1, <4>2, <4>3
    <3> QED BY <3>3, <3>4
  <2>7. CASE k < LastProp
    <3>1. /\ k' = k + 1 /\ pc' = "ReadSetting" /\ at' = at /\ presets' = presets
          /\ reading'.settings = Grown(d) /\ reading'.name = reading.name
      BY <2>1, <2>3, <2>7 DEF Base, Typed
    <3>2. Ordered'
      BY <2>2, <2>6, <3>1 DEF Ordered
    <3>3. synced' => Collected(at, reading.name, reading.settings)'
      BY <2>2, <2>5, <3>1 DEF Collected
    <3> QED BY <1>1, <2>1, <2>2, <3>1, <3>2, <3>3, EntriesKept
  <2>8. CASE ~(k < LastProp)
    <3> DEFINE e == [slot |-> at, name |-> reading.name, settings |-> Grown(d)]
    <3>1. /\ presets' = Append(presets, e)
          /\ \/ at' = at + 1 /\ pc' = "Select"
             \/ at' = at /\ pc' = "Restore"
      BY <2>1, <2>8
    <3>2. e \in Entry /\ e.slot = at /\ e.name = reading.name /\ e.settings = Grown(d)
      BY <2>3, <2>6 DEF Entry
    <3> HIDE DEF e
    <3>3. \A i \in DOMAIN presets : presets[i].slot < at
      BY <2>2 DEF Ordered
    <3>4. synced' => EntriesTrue'
      BY <1>1, <2>1, <2>2, <2>5, <3>1, <3>2, <3>3, EntryAppended
    <3>5. \A i \in DOMAIN presets' : presets'[i].slot <= at /\ presets'[i].slot \in Nat
      BY <3>1, <3>2, <3>3, SlotAppended
    <3>6. Ordered'
      BY <2>3, <3>1, <3>5 DEF Ordered
    <3> QED BY <3>1, <3>4, <3>6
  <2> QED BY <2>7, <2>8
<1>9. CASE Restore
  <2>1. pc' = "idle" /\ presets' = presets
    BY <1>9 DEF Restore, Return, local
  <2>2. (synced' => synced) /\ cam'.name = cam.name /\ cam'.val = cam.val
    BY <1>9, ScanKeeps DEF Scan
  <2> QED BY <1>1, <2>1, <2>2, EntriesKept DEF Ordered
<1>10. CASE Write
  <2>1. presets' = <<>>
    BY <1>10, WriteFrame
  <2>2. pc' \notin {"Select", "ReadName", "ReadSetting"}
    BY <1>10 DEF Write, WriteSelect, WriteName, WriteSetting, VerifyName, VerifySetting,
                 VerifyFrom, Go, Return
  <2> QED BY <1>3, <2>1, <2>2
<1>11. CASE Overrun
  <2>1. pc' = "idle" /\ presets' = presets /\ cam' = cam
    BY <1>11 DEF Overrun, Return, local
  <2>2. synced' => synced
    <3>1. PICK d : ReadProp(Asked, d)
      BY <1>11 DEF Overrun
    <3> QED BY <1>11, <3>1, ReadFacts, AskedIs DEF Overrun, Base, Typed
  <2> QED BY <1>1, <2>1, <2>2, EntriesKept DEF Ordered
<1>12. CASE Reconnect
  <2>1. presets' = <<>> /\ pc' = "idle"
    BY <1>12 DEF Reconnect, Clear
  <2> QED BY <1>3, <2>1
<1>13. CASE Unplug \/ UNCHANGED vars
  BY <1>13 DEF Unplug, vars, local, Ordered, ScanTrue, Collected, EntriesTrue
<1> QED BY <1>4, <1>5, <1>6, <1>7, <1>8, <1>9, <1>10, <1>11, <1>12, <1>13 DEF Next, Scan

-----------------------------------------------------------------------------
(* A scan in which no command fails leaves nothing out.                    *)

LEMMA SettingsMore ==
    ASSUME cam \in Camera, NEW s \in Slot, NEW j \in Prop
    PROVE  Append(Settings(s, j - 1), [ID |-> j, Bytes |-> cam.val[s][j]]) = Settings(s, j)
<1> DEFINE e(q) == [ID |-> q, Bytes |-> cam.val[s][q]]
           f == Settings(s, j - 1)
           g == Settings(s, j)
           h == Append(f, e(j))
<1>1. j \in Nat \ {0} /\ j <= LastProp /\ LastProp \in Nat
  BY PresetsAssumption DEF Prop
<1>2. \A q \in 1..j : e(q) \in Setting
  <2>1. ASSUME NEW q \in 1..j PROVE e(q) \in Setting
    <3>1. q \in Prop /\ q \in 0..LastProp
      BY <1>1 DEF Prop
    <3>2. cam.val[s][q] \in Seq(Byte)
      BY <3>1, PresetsAssumption DEF Camera
    <3> QED BY <3>1, <3>2 DEF Setting
  <2> QED BY <2>1
<1>3. f \in [1..(j - 1) -> Setting] /\ g \in [1..j -> Setting]
  <2>1. f = [q \in 1..(j - 1) |-> e(q)] /\ g = [q \in 1..j |-> e(q)]
    BY DEF Settings
  <2>2. \A q \in 1..(j - 1) : q \in 1..j
    BY <1>1
  <2> HIDE DEF f, g, e
  <2> QED BY <1>2, <2>1, <2>2
<1>4. /\ \A q \in 1..(j - 1) : f[q] = e(q)
      /\ \A q \in 1..j : g[q] = e(q)
  BY DEF Settings
<1> HIDE DEF f, g, e
<1>5. f \in Seq(Setting) /\ Len(f) = j - 1 /\ g \in Seq(Setting) /\ Len(g) = j
  BY <1>1, <1>3
<1>6. e(j) \in Setting
  BY <1>1, <1>2
<1>7. /\ h \in Seq(Setting) /\ Len(h) = j
      /\ \A i \in 1..(j - 1) : h[i] = f[i]
      /\ h[j] = e(j)
  BY <1>1, <1>5, <1>6, AppendProperties
<1> HIDE DEF h
<1>8. \A i \in 1..j : h[i] = g[i]
  <2>1. ASSUME NEW i \in 1..j PROVE h[i] = g[i]
    <3>1. i = j \/ i \in 1..(j - 1)
      BY <1>1
    <3>2. CASE i = j
      BY <1>4, <1>7, <3>2
    <3>3. CASE i \in 1..(j - 1)
      BY <1>4, <1>7, <3>3
    <3> QED BY <3>1, <3>2, <3>3
  <2> QED BY <2>1
<1>9. h = g
  BY <1>5, <1>7, <1>8, SeqEqual
<1> QED BY <1>9 DEF h, g, e, f

LEMMA InitWhole == Init => SoFar /\ AllFound /\ ScanWhole
BY DEF Init, SoFar, AllFound, ScanWhole, Ended

LEMMA NextWhole ==
    ASSUME Base, Selected, SoFar, AllFound, ScanWhole, [Next]_vars
    PROVE  SoFar' /\ AllFound' /\ ScanWhole'
<1>1. CASE BeginScan \/ \E w \in Writes : BeginWrite(w)
  <2>1. /\ pc' \in {"idle", "ReadSlot", "WriteSelect"}
        /\ pc' = "idle" => ~listed'
    BY <1>1 DEF BeginScan, BeginWrite, Begin
  <2> QED BY <2>1 DEF SoFar, AllFound, ScanWhole, Ended
<1>2. CASE Scan
  <2>1. (synced' => synced) /\ cam'.name = cam.name /\ cam'.val = cam.val
    BY <1>2, ScanKeeps
  <2>2. \A e, s : Whole(e, s)' <=> Whole(e, s)
    BY <2>1 DEF Whole, Settings
  <2>3. failed' = {} => failed = {}
    BY <1>2 DEF Scan, ReadSlot, Select, ReadName, ReadSetting, Restore, Note
  <2>4. CASE ReadSlot
    <3>1. /\ pc' = "Select" /\ presets' = <<>> /\ at' = 1
      BY <2>4 DEF ReadSlot, Go, Base, Steps
    <3>2. Len(presets') = at' - 1 /\ 1..(at' - 1) = {}
      BY <3>1
    <3> QED BY <3>1, <3>2 DEF SoFar, AllFound, ScanWhole, Ended
  <2>5. CASE Select
    <3>1. PICK o \in Outcome :
             /\ Note(o # "ok", 0)
             /\ CASE o = "ok"            -> Go("ReadName") /\ UNCHANGED at
                  [] o # "ok" /\ at = 1  -> Go("Restore") /\ UNCHANGED at
                  [] o # "ok" /\ at # 1  -> NextSlot
      BY <2>5 DEF Select
    <3>2. pc = "Select" /\ presets' = presets
      BY <2>5 DEF Select
    <3>3. pc' # "idle"
      BY <3>1 DEF Go, NextSlot
    <3>4. CASE o = "ok"
      <4>1. pc' = "ReadName" /\ at' = at
        BY <3>1, <3>4 DEF Go
      <4> QED BY <2>1, <2>2, <2>3, <3>2, <4>1 DEF SoFar, AllFound, ScanWhole, Ended
    <3>5. CASE o # "ok"
      <4>1. failed' # {}
        BY <3>1, <3>5 DEF Note
      <4> QED BY <4>1 DEF SoFar, AllFound, ScanWhole
    <3> QED BY <3>4, <3>5
  <2>6. CASE ReadName
    <3>1. /\ pc' = "ReadSetting" /\ k' = 1 /\ reading'.settings = <<>>
          /\ at' = at /\ presets' = presets
          /\ synced' /\ ~Failed("ReadName")' /\ IsString(decodePropValue(cam.name[at]))
                => reading'.name = decodePropValue(cam.name[at])
      BY <2>6, NameRead
    <3>2. pc = "ReadName"
      BY <2>6 DEF ReadName
    <3>3. failed' = {} => ~Failed("ReadName")'
      BY DEF Failed
    <3>4. reading'.settings = Settings(at, k - 1)'
      <4>1. 1..(k' - 1) = {}
        BY <3>1
      <4>2. Settings(at, k - 1)' = <<>>
        BY <4>1 DEF Settings
      <4> QED BY <3>1, <4>2
    <3>5. ASSUME synced', failed' = {}
          PROVE  /\ Len(presets) = at - 1 /\ \A s \in 1..(at - 1) : Whole(presets[s], s)
                 /\ IsString(decodePropValue(cam.name[at]))
                       => reading'.name = decodePropValue(cam.name[at])
      BY <2>1, <2>3, <3>1, <3>2, <3>3, <3>5 DEF SoFar
    <3> QED BY <2>1, <2>2, <3>1, <3>4, <3>5 DEF SoFar, AllFound, ScanWhole, Ended
  <2>7. CASE ReadSetting
    <3>1. PICK d \in Seq(Byte) :
             /\ synced' => /\ synced
                           /\ d = <<>> \/ d = cam.val[at][k]
                           /\ d = <<>> => failed' # {}
             /\ k \in Prop
             /\ \/ /\ k < LastProp /\ k' = k + 1 /\ pc' = "ReadSetting"
                   /\ reading' = [reading EXCEPT !.settings = Grown(d)]
                   /\ UNCHANGED <<at, presets>>
                \/ /\ k = LastProp
                   /\ presets' = Append(presets, [slot |-> at, name |-> reading.name,
                                                  settings |-> Grown(d)])
                   /\ \/ at < LastSlot /\ at' = at + 1 /\ pc' = "Select"
                      \/ at = LastSlot /\ at' = at /\ pc' = "Restore"
      BY <2>7, SettingRead
    <3>2. pc = "ReadSetting" /\ cam' = cam /\ pc' # "idle"
      BY <2>7 DEF ReadSetting, Go, NextSlot
    <3>3. CASE ~synced' \/ failed' # {}
      BY <3>3 DEF SoFar, AllFound, ScanWhole
    <3>4. CASE synced' /\ failed' = {}
      <4>1. /\ Len(presets) = at - 1 /\ \A s \in 1..(at - 1) : Whole(presets[s], s)
            /\ IsString(decodePropValue(cam.name[at]))
                  => reading.name = decodePropValue(cam.name[at])
            /\ reading.settings = Settings(at, k - 1)
        BY <2>1, <2>3, <3>2, <3>4 DEF SoFar
      <4>2. Grown(d) = Settings(at, k)
        <5>1. d = cam.val[at][k] /\ d # <<>>
          BY <3>1, <3>4
        <5>2. Append(Settings(at, k - 1), [ID |-> k, Bytes |-> cam.val[at][k]]) = Settings(at, k)
          BY <3>1, SettingsMore, CallFrame
        <5> QED BY <4>1, <5>1, <5>2 DEF Grown
      <4>3. /\ at \in Nat \ {0} /\ k \in Nat /\ LastProp \in Nat /\ LastSlot \in Nat
            /\ presets \in Seq(Entry) /\ reading.settings \in Seq(Setting)
            /\ reading.name \in NameValue /\ at \in Slot
        BY CallFrame, PresetsAssumption DEF Base, Typed, Slot
      <4>4. CASE k < LastProp
        <5>1. /\ k' = k + 1 /\ pc' = "ReadSetting" /\ at' = at /\ presets' = presets
              /\ reading'.settings = Grown(d) /\ reading'.name = reading.name
          BY <3>1, <4>3, <4>4 DEF Base, Typed
        <5>2. k' - 1 = k
          BY <4>3, <5>1
        <5>3. reading'.settings = Settings(at, k - 1)'
          BY <3>2, <4>2, <5>1, <5>2 DEF Settings
        <5> QED BY <2>2, <3>2, <4>1, <5>1, <5>3 DEF SoFar, AllFound, ScanWhole, Ended
      <4>5. CASE ~(k < LastProp)
        <5> DEFINE e == [slot |-> at, name |-> reading.name, settings |-> Grown(d)]
                   n == Len(presets)
        <5>1. /\ presets' = Append(presets, e) /\ k = LastProp
              /\ \/ at < LastSlot /\ at' = at + 1 /\ pc' = "Select"
                 \/ at = LastSlot /\ at' = at /\ pc' = "Restore"
          BY <3>1, <4>5
        <5>2. Whole(e, at)
          BY <4>1, <4>2, <5>1 DEF Whole
        <5>3. e \in Entry
          <6>1. Grown(d) \in Seq(Setting)
            <7>1. [ID |-> k, Bytes |-> d] \in Setting
              BY <3>1, PresetsAssumption DEF Setting, Prop
            <7> QED BY <4>3, <7>1 DEF Grown
          <6> QED BY <4>3, <6>1 DEF Entry
        <5> HIDE DEF e
        <5>4. /\ n \in Nat /\ n = at - 1 /\ Len(presets') = n + 1 /\ presets'[n + 1] = e
              /\ \A i \in 1..n : presets'[i] = presets[i]
              /\ DOMAIN presets' = 1..(n + 1)
          BY <4>1, <4>3, <5>1, <5>3, AppendProperties
        <5> DEFINE m == Len(presets')
        <5>5. m = at /\ DOMAIN presets' = 1..at
          BY <4>3, <5>4
        <5>6. \A s \in 1..at : Whole(presets[s], s)'
          <6>1. ASSUME NEW s \in 1..at PROVE Whole(presets'[s], s)
            <7> HIDE DEF n
            <7>1. CASE s = at
              BY <4>3, <5>2, <5>4, <7>1
            <7>2. CASE s # at
              <8>1. s \in 1..n /\ s \in 1..(at - 1)
                BY <4>3, <5>4, <7>2
              <8>2. presets'[s] = presets[s] /\ Whole(presets[s], s)
                BY <4>1, <5>4, <8>1, Zenon
              <8> QED BY <8>2
            <7> QED BY <7>1, <7>2
          <6> QED BY <2>2, <6>1
        <5> HIDE DEF n, m
        <5>7. CASE at' = at + 1 /\ pc' = "Select"
          <6>1. at' - 1 = at
            BY <4>3, <5>7
          <6> QED BY <5>5, <5>6, <5>7, <6>1 DEF SoFar, AllFound, ScanWhole, Ended, m
        <5>8. CASE at = LastSlot /\ pc' = "Restore"
          BY <5>5, <5>6, <5>8 DEF SoFar, AllFound, ScanWhole, Ended, Slot
        <5> QED BY <5>1, <5>7, <5>8
      <4> QED BY <4>4, <4>5
    <3> QED BY <3>3, <3>4
  <2>8. CASE Restore
    <3>1. pc = "Restore" /\ pc' = "idle" /\ presets' = presets
      BY <2>8 DEF Restore, Return, local
    <3>2. ASSUME synced', failed' = {}
          PROVE  DOMAIN presets = Slot /\ \A s \in Slot : Whole(presets[s], s)'
      BY <2>1, <2>2, <2>3, <3>1, <3>2 DEF AllFound
    <3> QED BY <3>1, <3>2 DEF SoFar, AllFound, ScanWhole, Whole, Settings, Prop
  <2> QED BY <1>2, <2>4, <2>5, <2>6, <2>7, <2>8 DEF Scan
<1>3. CASE Write
  <2>1. pc' \in WriteSteps \cup {"idle"}
    BY <1>3 DEF Write, WriteSelect, WriteName, WriteSetting, VerifyName, VerifySetting,
                VerifyFrom, Go, Return, WriteSteps
  <2>2. call' # ScanCall
    BY <1>3, WriteFrame, WritesTypes
  <2> QED BY <2>1, <2>2 DEF SoFar, AllFound, ScanWhole, Ended, WriteSteps
<1>4. CASE Overrun
  BY <1>4 DEF Overrun, Return, SoFar, AllFound, ScanWhole, Ended
<1>5. CASE Reconnect
  BY <1>5 DEF Reconnect, SoFar, AllFound, ScanWhole, Ended
<1>6. CASE Unplug \/ UNCHANGED vars
  <2>1. UNCHANGED <<cam, pc, call, at, k, reading, presets, how, listed, failed, synced>>
    BY <1>6 DEF Unplug, vars, local
  <2>2. SoFar'
    BY <2>1 DEF SoFar, Whole, Settings
  <2>3. AllFound'
    BY <2>1 DEF AllFound, Whole, Settings
  <2>4. ScanWhole'
    BY <2>1 DEF ScanWhole, Ended
  <2> QED BY <2>2, <2>3, <2>4
<1> QED BY <1>1, <1>2, <1>3, <1>4, <1>5, <1>6 DEF Next

-----------------------------------------------------------------------------
(* What a write has verified is in the camera.                             *)

AllVerified == NameVerified /\ \A i \in DOMAIN call.settings : Verified(i)

\* The settings from the j-th up to the next to verify are warned of.
LEMMA VerifyOn ==
    ASSUME Base, call \in Writes, call' = call, NEW j \in Nat \ {0}, VerifyFrom(j),
           UNCHANGED <<cam, written, warnings>>,
           \A i \in DOMAIN call.settings : Accepted(i),
           StaysInSlot /\ synced' => NameVerified' /\ \A i \in 1..(j - 1) : Verified(i)'
    PROVE  Verifying' /\ VerifiedWrite'
<1> DEFINE n == Len(call.settings)
<1>1. n \in Nat /\ DOMAIN call.settings = 1..n /\ DOMAIN (call.settings)' = 1..n
  BY WritesTypes
<1>2. \A i \in DOMAIN call.settings : Accepted(i)'
  BY DEF Accepted
<1>3. (StaysInSlot)' <=> StaysInSlot
  BY DEF StaysInSlot
<1> HIDE DEF n
<1>4. \A i \in 1..n : call.settings[i].ID \notin written => Verified(i)'
  <2>1. ASSUME NEW i \in 1..n, call.settings[i].ID \notin written PROVE Verified(i)'
    <3>1. i \in warnings
      BY <1>1, <2>1 DEF Accepted
    <3> QED BY <3>1 DEF Verified
  <2> QED BY <2>1
<1>5. CASE /\ pc' = "idle" /\ how' = "done"
           /\ \A i \in j..n : call.settings[i].ID \notin written
  <2>1. ASSUME synced', StaysInSlot, NEW i \in 1..n PROVE Verified(i)'
    <3>1. i \in j..n \/ i \in 1..(j - 1)
      BY <1>1
    <3>2. CASE i \in j..n
      BY <1>4, <1>5, <3>2
    <3>3. CASE i \in 1..(j - 1)
      BY <2>1, <3>3
    <3> QED BY <3>1, <3>2, <3>3
  <2>2. synced' /\ StaysInSlot => AllVerified'
    BY <1>1, <2>1 DEF AllVerified
  <2>3. VerifiedWrite'
    <3>1. synced' /\ (StaysInSlot)' => AllVerified'
      BY <1>3, <2>2
    <3>2. VerifiedWrite' <=> (Ended("write", "done")' /\ synced' /\ (StaysInSlot)' => AllVerified')
      BY DEF VerifiedWrite, AllVerified, NameVerified, Verified
    <3> QED BY <3>1, <3>2
  <2> QED BY <1>5, <2>3 DEF Verifying
<1>6. CASE /\ pc' = "VerifySetting" /\ k' \in DOMAIN call.settings /\ k' >= j
           /\ \A i \in j..(k' - 1) : call.settings[i].ID \notin written
  <2>1. k' \in 1..n
    BY <1>1, <1>6
  <2>2. ASSUME synced', StaysInSlot, NEW i \in 1..(k' - 1) PROVE Verified(i)'
    <3>1. (i \in j..(k' - 1) \/ i \in 1..(j - 1)) /\ i \in 1..n
      <4> DEFINE m == k'
      <4>1. m \in 1..n /\ i \in 1..(m - 1)
        BY <2>1
      <4> HIDE DEF m
      <4>2. (i \in j..(m - 1) \/ i \in 1..(j - 1)) /\ i \in 1..n
        BY <1>1, <4>1
      <4> QED BY <4>2 DEF m
    <3>2. CASE i \in j..(k' - 1)
      BY <1>4, <1>6, <3>1, <3>2
    <3>3. CASE i \in 1..(j - 1)
      BY <2>2, <3>3
    <3> QED BY <3>1, <3>2, <3>3
  <2>3. VerifiedWrite'
    BY <1>6 DEF VerifiedWrite, Ended
  <2> QED BY <1>2, <1>3, <1>6, <2>2, <2>3 DEF Verifying
<1> QED BY <1>5, <1>6, VerifyFromFacts DEF n

LEMMA InitVerified == Init => Verifying /\ VerifiedWrite
BY DEF Init, Verifying, VerifiedWrite, Ended

LEMMA NextVerified ==
    ASSUME Base, Selected, Verifying, VerifiedWrite, [Next]_vars
    PROVE  Verifying' /\ VerifiedWrite'
<1>1. CASE BeginScan \/ \E w \in Writes : BeginWrite(w)
  <2>1. /\ pc' \in {"idle", "ReadSlot", "WriteSelect"}
        /\ pc' = "idle" => call' = ScanCall
    BY <1>1 DEF BeginScan, BeginWrite, Begin
  <2> QED BY <2>1 DEF Verifying, VerifiedWrite, Ended
<1>2. CASE Scan
  <2>1. call' = ScanCall
    BY <1>2, ScanFrame
  <2>2. pc' \in ScanSteps \cup {"idle"}
    BY <1>2 DEF Scan, ReadSlot, Select, ReadName, ReadSetting, Restore, NextSlot, Go, Return,
                ScanSteps
  <2> QED BY <2>1, <2>2 DEF Verifying, VerifiedWrite, Ended, ScanSteps
<1>3. CASE Write
  <2>1. call \in Writes /\ call' = call /\ (synced' => synced)
    BY <1>3, WriteFrame, WriteSyncs
  <2>2. CASE WriteSelect
    <3>1. pc' = "WriteName" \/ (pc' = "idle" /\ how' = "error")
      BY <2>2 DEF WriteSelect, Go, Return
    <3> QED BY <3>1 DEF Verifying, VerifiedWrite, Ended
  <2>3. CASE WriteName
    <3>1. \/ pc' = "idle" /\ how' = "error"
          \/ pc' = "WriteSetting" /\ k' = 1
          \/ pc' = "VerifyName" /\ call.settings = <<>>
      BY <2>3 DEF WriteName, Go, Return, local, Base, Steps
    <3>2. CASE pc' = "idle" /\ how' = "error"
      BY <3>2 DEF Verifying, VerifiedWrite, Ended
    <3>3. CASE pc' = "WriteSetting" /\ k' = 1
      <4>1. 1..(k' - 1) = {}
        BY <3>3
      <4> QED BY <3>3, <4>1 DEF Verifying, VerifiedWrite, Ended
    <3>4. CASE pc' = "VerifyName" /\ call.settings = <<>>
      <4>1. DOMAIN (call.settings)' = {}
        BY <2>1, <3>4
      <4> QED BY <3>4, <4>1 DEF Verifying, VerifiedWrite, Ended
    <3> QED BY <3>1, <3>2, <3>3, <3>4
  <2>4. CASE WriteSetting
    <3>1. PICK o \in Outcome :
             /\ written' = IF o = "ok" THEN written \cup {call.settings[k].ID} ELSE written
             /\ warnings' = IF o = "ok" THEN warnings ELSE warnings \cup {k}
      BY <2>4 DEF WriteSetting
    <3> DEFINE n == Len(call.settings)
    <3>2. /\ n \in Nat /\ DOMAIN call.settings = 1..n /\ DOMAIN (call.settings)' = 1..n
          /\ k \in 1..n /\ pc = "WriteSetting"
      BY <2>1, <2>4, WritesTypes DEF WriteSetting, Base, Steps
    <3>3. IF k < n THEN k' = k + 1 /\ pc' = "WriteSetting" ELSE k' = 1 /\ pc' = "VerifyName"
      BY <2>4 DEF WriteSetting, Go
    <3> HIDE DEF n
    <3>4. \A i \in 1..k : Accepted(i)'
      <4>1. ASSUME NEW i \in 1..k PROVE Accepted(i)'
        <5>1. CASE i = k
          BY <2>1, <3>1, <5>1 DEF Accepted
        <5>2. CASE i # k
          <6>1. i \in 1..(k - 1)
            BY <3>2, <5>2
          <6>2. Accepted(i)
            BY <3>2, <6>1 DEF Verifying
          <6> QED BY <2>1, <3>1, <6>2 DEF Accepted
        <5> QED BY <5>1, <5>2
      <4> QED BY <4>1
    <3>5. CASE k < n
      <4>1. k' - 1 = k /\ pc' = "WriteSetting"
        BY <3>2, <3>3, <3>5
      <4> QED BY <3>4, <4>1 DEF Verifying, VerifiedWrite, Ended
    <3>6. CASE ~(k < n)
      <4>1. pc' = "VerifyName" /\ k = n
        BY <3>2, <3>3, <3>6
      <4> QED BY <3>2, <3>4, <4>1 DEF Verifying, VerifiedWrite, Ended
    <3> QED BY <3>5, <3>6
  <2>5. CASE VerifyName
    <3>1. PICK d \in Stray \cup {<<>>, Shown(PresetName)} :
             /\ ReadProp(PresetName, d) /\ Note(d = <<>>, 0)
             /\ IF d # <<>> /\ IsString(decodePropValue(d)) /\ decodePropValue(d) # Text(call.name)
                THEN Return("error") /\ UNCHANGED k ELSE VerifyFrom(1)
      BY <2>5 DEF VerifyName
    <3>2. pc = "VerifyName" /\ UNCHANGED <<cam, written, warnings>>
      BY <2>5 DEF VerifyName
    <3>3. CASE /\ d # <<>> /\ IsString(decodePropValue(d))
               /\ decodePropValue(d) # Text(call.name)
      BY <3>1, <3>3 DEF Return, Verifying, VerifiedWrite, Ended
    <3>4. CASE ~(/\ d # <<>> /\ IsString(decodePropValue(d))
                 /\ decodePropValue(d) # Text(call.name))
      <4>1. VerifyFrom(1)
        BY <3>1, <3>4
      <4>2. \A i \in DOMAIN call.settings : Accepted(i)
        BY <3>2 DEF Verifying
      <4>3. ASSUME synced', StaysInSlot PROVE NameVerified'
        <5>1. d = <<>> \/ d = Shown(PresetName)
          BY <3>1, <4>3, ReadFacts, Properties DEF Base, Typed
        <5>2. cam.slot = call.slot
          BY <2>1, <3>2, <4>3 DEF Selected, WriteSteps
        <5>3. CASE d = <<>>
          <6>1. Failed("VerifyName")'
            BY <3>1, <3>2, <5>3, NoteFails
          <6> QED BY <6>1 DEF NameVerified
        <5>4. CASE d # <<>>
          <6>1. d = cam.name[call.slot]
            BY <5>1, <5>2, <5>4, Properties DEF Shown
          <6> QED BY <2>1, <3>2, <3>4, <5>4, <6>1 DEF NameVerified
        <5> QED BY <5>3, <5>4
      <4>4. 1..(1 - 1) = {}
        OBVIOUS
      <4> QED BY <2>1, <3>2, <4>1, <4>2, <4>3, <4>4, VerifyOn
    <3> QED BY <3>3, <3>4
  <2>6. CASE VerifySetting
    <3>1. PICK d \in Stray \cup {<<>>, Shown(call.settings[k].ID)} :
             /\ ReadProp(call.settings[k].ID, d) /\ Note(d = <<>>, k)
             /\ IF d # <<>> /\ Differs(call.settings[k], d)
                THEN Return("error") /\ UNCHANGED k ELSE VerifyFrom(k + 1)
      BY <2>6 DEF VerifySetting
    <3>2. pc = "VerifySetting" /\ UNCHANGED <<cam, written, warnings>>
      BY <2>6 DEF VerifySetting
    <3>3. k \in DOMAIN call.settings /\ k \in Nat \ {0}
      BY <3>2 DEF Base, Steps, Typed, TypeOK
    <3>4. CASE d # <<>> /\ Differs(call.settings[k], d)
      BY <3>1, <3>4 DEF Return, Verifying, VerifiedWrite, Ended
    <3>5. CASE ~(d # <<>> /\ Differs(call.settings[k], d))
      <4>1. VerifyFrom(k + 1) /\ k + 1 \in Nat \ {0} /\ (k + 1) - 1 = k
        BY <3>1, <3>3, <3>5
      <4>2. \A i \in DOMAIN call.settings : Accepted(i)
        BY <3>2 DEF Verifying
      <4>3. failed \subseteq failed' /\ (Failed("VerifyName") => Failed("VerifyName")')
        BY <3>1 DEF Note, Failed
      <4>4. ASSUME synced', StaysInSlot
            PROVE  NameVerified' /\ \A i \in 1..k : Verified(i)'
        <5>1. NameVerified /\ \A i \in 1..(k - 1) : Verified(i)
          BY <2>1, <3>2, <4>4 DEF Verifying
        <5>2. NameVerified'
          BY <2>1, <3>2, <4>3, <5>1 DEF NameVerified
        <5>3. ASSUME NEW i \in 1..(k - 1) PROVE Verified(i)'
          <6>1. Verified(i)
            BY <5>1
          <6> QED BY <2>1, <3>2, <4>3, <6>1 DEF Verified, InCamera
        <5>4. Verified(k)
              \/ [step |-> "VerifySetting", of |-> k] \in failed'
          <6>1. CASE d = <<>>
            BY <3>1, <3>2, <6>1 DEF Note
          <6>2. CASE d # <<>>
            <7>1. call.settings[k].ID \in Prop
              BY <2>1, <3>3, <4>4, WritesTypes DEF StaysInSlot
            <7>2. d = Shown(call.settings[k].ID)
              BY <3>1, <4>4, <6>2, <7>1, ReadFacts, Properties DEF Base, Typed
            <7>3. cam.slot = call.slot
              BY <2>1, <3>2, <4>4 DEF Selected, WriteSteps
            <7>4. d = cam.val[call.slot][call.settings[k].ID]
              BY <7>1, <7>2, <7>3, Properties DEF Shown
            <7>5. Len(call.settings[k].Bytes) # Len(d) \/ call.settings[k].Bytes = d
              BY <3>5, <6>2 DEF Differs
            <7> QED BY <7>4, <7>5 DEF Verified, InCamera
          <6> QED BY <6>1, <6>2
        <5>5. \A i \in 1..k : i = k \/ i \in 1..(k - 1)
          BY <3>3
        <5>6. \A i \in {k} : Verified(i)'
          BY <2>1, <3>2, <4>3, <5>4 DEF Verified, InCamera
        <5> QED BY <5>2, <5>3, <5>5, <5>6
      <4> QED BY <2>1, <3>2, <4>1, <4>2, <4>4, VerifyOn
    <3> QED BY <3>4, <3>5
  <2> QED BY <1>3, <2>2, <2>3, <2>4, <2>5, <2>6 DEF Write
<1>4. CASE Overrun
  BY <1>4 DEF Overrun, Return, Verifying, VerifiedWrite, Ended
<1>5. CASE Reconnect
  BY <1>5 DEF Reconnect, Verifying, VerifiedWrite, Ended
<1>6. CASE Unplug \/ UNCHANGED vars
  <2>1. UNCHANGED <<cam, pc, call, k, written, warnings, how, failed, synced>>
    BY <1>6 DEF Unplug, vars, local
  <2>2. Verifying'
    BY <2>1 DEF Verifying, Accepted, Verified, NameVerified, InCamera, StaysInSlot, Failed
  <2>3. VerifiedWrite'
    BY <2>1 DEF VerifiedWrite, Ended, InCamera, StaysInSlot, Failed
  <2> QED BY <2>2, <2>3
<1> QED BY <1>1, <1>2, <1>3, <1>4, <1>5, <1>6 DEF Next

-----------------------------------------------------------------------------
(* The theorems.                                                           *)

(***************************************************************************)
(* The inductive invariant of ScanPresets and WritePreset                  *)
(* (session.go:284-392).                                                   *)
(***************************************************************************)
THEOREM PresetsInvariant == Spec => []Inv
<1>1. Init => Inv
  BY InitBase, InitSlots, InitScanTrue, InitWhole, InitVerified
  DEF Inv, Base, Init, Selected, WriteSteps
<1>2. Inv /\ [Next]_vars => Inv'
  BY NextBase, NextSlots, NextSelected, NextScanTrue, NextWhole, NextVerified DEF Inv, Base
<1> QED BY <1>1, <1>2, PTL DEF Spec

(***************************************************************************)
(* Type correctness: in particular no slot past the last is scanned and no *)
(* setting past the last is written.                                       *)
(***************************************************************************)
THEOREM TypeCorrect == Spec => []TypeOK
<1>1. Inv => TypeOK
  BY DEF Inv, Typed
<1> QED BY <1>1, PresetsInvariant, PTL

(***************************************************************************)
(* A scan gives back the slot that it found, or the first if it could not  *)
(* read it (session.go:291-298, 335), for any number of slots.             *)
(***************************************************************************)
THEOREM SlotGivenBack == Spec => []SlotRestored
<1>1. Inv => SlotRestored
  BY DEF Inv
<1> QED BY <1>1, PresetsInvariant, PTL

(***************************************************************************)
(* Whatever a scan collects for a slot is what the camera holds for this   *)
(* slot, however many other slots and settings fail (session.go:302-332).  *)
(***************************************************************************)
THEOREM ScanIsTrue == Spec => []ScanTrue
<1>1. Inv => ScanTrue
  BY DEF Inv
<1> QED BY <1>1, PresetsInvariant, PTL

(***************************************************************************)
(* A scan in which no command fails reports every slot with every setting  *)
(* (session.go:302-332).                                                   *)
(***************************************************************************)
THEOREM ScanIsWhole == Spec => []ScanWhole
<1>1. Inv => ScanWhole
  BY DEF Inv
<1> QED BY <1>1, PresetsInvariant, PTL

(***************************************************************************)
(* A write that returns without error has in the camera what it did not    *)
(* warn of and could read back (session.go:354-388), whatever settings do  *)
(* to each other.                                                          *)
(***************************************************************************)
THEOREM WriteIsVerified == Spec => []VerifiedWrite
<1>1. Inv => VerifiedWrite
  BY DEF Inv
<1> QED BY <1>1, PresetsInvariant, PTL

(***************************************************************************)
(* No scan changes a preset, and a write only the one of its slot          *)
(* (session.go:302-337, 343-362), in every single step.                    *)
(***************************************************************************)
THEOREM OthersKept == Spec => OtherPresetsKept
<1>1. Inv /\ [Next]_vars =>
        [/\ pc \in ScanSteps => \A s \in Slot : KeepsPreset(s)
         /\ pc \in WriteSteps /\ synced /\ StaysInSlot =>
              \A s \in Slot \ {call.slot} : KeepsPreset(s)]_vars
  BY StepKeeps DEF Inv, Base
<1> QED BY <1>1, PresetsInvariant, PTL DEF Spec, OtherPresetsKept
=============================================================================
