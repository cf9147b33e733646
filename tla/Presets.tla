------------------------------ MODULE Presets ------------------------------
(***************************************************************************)
(* GET /api/presets and PUT /api/presets/{slot}: ScanPresets and           *)
(* WritePreset of internal/ptp/session.go over an open session.  The       *)
(* camera shows one preset slot at a time, so both select a slot and then  *)
(* read or write the properties of whatever slot is selected.  An action   *)
(* is one PTP command with the Go code up to the next, under the mutex.    *)
(* The bytes of a property are decoded as PropCodec has it.                *)
(***************************************************************************)
EXTENDS PropCodec, PTPCall, FiniteSets

CONSTANTS
    LastSlot,      \* the slots are 1..LastSlot (7 in the code)
    LastProp,      \* the settings are 1..LastProp (D18E to D1A5 in the code)
    Data,          \* the bytes a setting may hold
    NameData,      \* the bytes a slot's name may be, besides the written ones
    Content,       \* the presets the camera begins with
    Writes,        \* the presets clients write: [slot, name, settings]
    Adjusts,       \* pairs <<p, q>>: setting p may make the camera set q
    Stray,         \* what an answer that is not the command's own may bring
    MaxCalls       \* bound: calls

Slot == 1..LastSlot
Prop == 1..LastProp
\* Besides the settings, a client's list may name the slot property itself.
PresetSlot == 0
PresetName == LastProp + 1
Setting == [ID : 0..LastProp, Bytes : Seq(Byte)]

ASSUME PresetsAssumption ==
    /\ LastSlot \in Nat \ {0} /\ LastSlot < 32768 /\ LastProp \in Nat \ {0}
    /\ Data \subseteq Seq(Byte) /\ NameData \subseteq Seq(Byte)
    /\ Content \in [slot : Slot, name : [Slot -> NameData], val : [Slot -> [Prop -> Data]]]
    /\ Writes \subseteq [slot : Slot, name : Seq(Nat), settings : Seq(Setting)]
    /\ \A w \in Writes :
         /\ PackPTPString(w.name) \in Seq(Byte)
         /\ \A i \in DOMAIN w.settings :
              w.settings[i].ID \in Prop => w.settings[i].Bytes \in Data
    /\ Adjusts \subseteq Prop \X Prop
    /\ Stray \subseteq Seq(Byte) /\ MaxCalls \in Nat

VARIABLES
    listed,      \* SupportedProperties is empty or has D18C
    plugged,
    cam,         \* the camera: the selected slot, names and settings
    pc, call,
    \* ScanPresets
    at, k, origSlot, reading, presets,
    \* WritePreset
    written, warnings,
    how,         \* how the last call ended
    calls,       \* the calls so far, for the bound
    \* history, read by properties only
    start,       \* the slot that was selected when the call began
    failed       \* the commands of the call that did not succeed

local == <<at, k, origSlot, reading, presets, written, warnings>>
vars == <<listed, plugged, synced, cam, pc, call, local, how, calls, start, failed>>

ReadSteps  == {"ReadSlot", "ReadName", "ReadSetting", "VerifyName", "VerifySetting"}
ScanSteps  == {"ReadSlot", "Select", "ReadName", "ReadSetting", "Restore"}
WriteSteps == {"WriteSelect", "WriteName", "WriteSetting", "VerifyName", "VerifySetting"}

ScanCall == [slot |-> 0, name |-> <<>>, settings |-> <<>>]
NoReading == [name |-> Panic, settings |-> <<>>]
Unnamed(s) == [unnamed |-> s]

Camera == [slot : Slot, name : [Slot -> Seq(Byte)], val : [Slot -> [Prop -> Data]]]

TypeOK ==
    /\ listed \in BOOLEAN /\ plugged \in BOOLEAN /\ synced \in BOOLEAN
    /\ cam \in Camera
    /\ pc \in {"idle"} \cup ScanSteps \cup WriteSteps
    /\ call \in Writes \cup {ScanCall}
    /\ at \in Slot /\ k \in Nat \ {0} /\ origSlot \in Nat
    /\ reading.settings \in Seq(Setting)
    /\ Len(presets) <= LastSlot
    /\ written \subseteq 0..LastProp /\ warnings \subseteq Nat
    /\ how \in {"none", "done", "error", "panic"} /\ calls \in 0..MaxCalls
    /\ start \in Slot /\ failed \subseteq [step : ScanSteps \cup WriteSteps, of : Nat]

Init ==
    /\ listed \in BOOLEAN /\ plugged = TRUE /\ synced = TRUE
    /\ cam = Content /\ pc = "idle" /\ call = ScanCall
    /\ at = 1 /\ k = 1 /\ origSlot = 1 /\ reading = NoReading /\ presets = <<>>
    /\ written = {} /\ warnings = {} /\ how = "none" /\ calls = 0
    /\ start = Content.slot /\ failed = {}

-----------------------------------------------------------------------------
(* One command: how it ends, and whether the camera carried it out.        *)

Exchange(o, did) == EndsAs(plugged, o, did, TRUE)

\* What the camera shows of a property.
Shown(p) ==
    CASE p = PresetSlot -> PackU16(cam.slot)
      [] p = PresetName -> cam.name[cam.slot]
      [] OTHER          -> cam.val[cam.slot][p]

(***************************************************************************)
(* ReadProp(p, d): the data, or <<>> for nil: an error, another response   *)
(* code and an answer without data are the same to the callers.            *)
(***************************************************************************)
ReadProp(p, d) ==
    \E o \in Outcome, did \in BOOLEAN :
        /\ Exchange(o, did)
        /\ IF o # "ok" THEN d = <<>>
           ELSE d \in IF synced THEN {Shown(p)} ELSE Stray

\* The camera after it takes the value d: of its slot, its name, a setting.
TakesSlot(d) == {[cam EXCEPT !.slot = s] : s \in {n \in Slot : d = PackU16(n)}}
TakesName(d) == {[cam EXCEPT !.name[cam.slot] = d]}
Adjusted(c, p) ==
    {[c EXCEPT !.val[c.slot][x[1]] = x[2]] : x \in {q \in Prop : <<p, q>> \in Adjusts} \X Data}
TakesSetting(p, d) ==
    LET c == [cam EXCEPT !.val[cam.slot][p] = d] IN {c} \cup Adjusted(c, p)

Taken(p, d) ==
    CASE p = PresetSlot -> TakesSlot(d)
      [] p = PresetName -> TakesName(d)
      [] OTHER          -> TakesSetting(p, d)

WriteProp(p, d, o) ==
    \E did \in BOOLEAN :
        /\ Exchange(o, did)
        /\ IF did THEN cam' \in Taken(p, d) ELSE UNCHANGED cam

\* For the properties: the command of this step, on setting number of, failed.
Note(bad, of) ==
    failed' = IF bad THEN failed \cup {[step |-> pc, of |-> of]} ELSE failed

Clear ==
    /\ at' = 1 /\ k' = 1 /\ origSlot' = 1 /\ reading' = NoReading
    /\ presets' = <<>> /\ written' = {} /\ warnings' = {} /\ failed' = {}

Return(end) == pc' = "idle" /\ how' = end /\ UNCHANGED calls
Go(step) == pc' = step /\ UNCHANGED <<how, calls>>

-----------------------------------------------------------------------------
(* The calls.                                                              *)

Begin(c) ==
    /\ pc = "idle" /\ call' = c
    /\ calls < MaxCalls /\ calls' = calls + 1
    /\ Clear /\ start' = cam.slot
    /\ UNCHANGED <<listed, plugged, synced, cam>>

\* "Camera does not support preset properties (D18C)": no presets, no error.
BeginScan ==
    /\ Begin(ScanCall)
    /\ IF listed THEN pc' = "ReadSlot" /\ how' = "none" ELSE pc' = "idle" /\ how' = "done"

\* handlePresetSlot refuses a slot outside 1..7 before this.
BeginWrite(w) == Begin(w) /\ pc' = "WriteSelect" /\ how' = "none"

-----------------------------------------------------------------------------
(* ScanPresets                                                             *)

ReadSlot ==
    /\ pc = "ReadSlot"
    /\ \E d \in Stray \cup {<<>>, Shown(PresetSlot)} :
          /\ ReadProp(PresetSlot, d) /\ decodePropValue(d) # Panic
          /\ origSlot' = IF d # <<>> /\ IsNumber(decodePropValue(d))
                         THEN Uint16(decodePropValue(d).int) ELSE 1
          /\ Note(d = <<>>, 0)
    /\ Go("Select")
    /\ UNCHANGED <<listed, plugged, cam, call, at, k, reading, presets,
                   written, warnings, start>>

\* Deviations: one slot too many, one too few.
NextSlotPast ==
    IF at <= LastSlot THEN at' = at + 1 /\ Go("Select") ELSE Go("Restore") /\ UNCHANGED at
NextSlotShort ==
    IF at + 1 < LastSlot THEN at' = at + 1 /\ Go("Select") ELSE Go("Restore") /\ UNCHANGED at
NextSlot ==
    IF at < LastSlot THEN at' = at + 1 /\ Go("Select") ELSE Go("Restore") /\ UNCHANGED at

\* Deviation: a slot that cannot be selected is read all the same.
SelectAnyway ==
    /\ pc = "Select"
    /\ \E o \in Outcome : WriteProp(PresetSlot, PackU16(at), o) /\ Note(o # "ok", 0)
    /\ Go("ReadName")
    /\ UNCHANGED <<listed, plugged, call, at, k, origSlot, reading, presets,
                   written, warnings, start>>

\* Deviation: a slot that cannot be selected is tried again.
SelectAgain ==
    /\ pc = "Select"
    /\ \E o \in Outcome :
          /\ WriteProp(PresetSlot, PackU16(at), o) /\ Note(o # "ok", 0)
          /\ Go(IF o = "ok" THEN "ReadName" ELSE "Select")
    /\ UNCHANGED <<listed, plugged, call, at, k, origSlot, reading, presets,
                   written, warnings, start>>

\* Slots that cannot be selected are left out; without the first, all are.
Select ==
    /\ pc = "Select"
    /\ \E o \in Outcome :
          /\ WriteProp(PresetSlot, PackU16(at), o) /\ Note(o # "ok", 0)
          /\ CASE o = "ok"            -> Go("ReadName") /\ UNCHANGED at
               [] o # "ok" /\ at = 1  -> Go("Restore") /\ UNCHANGED at
               [] o # "ok" /\ at # 1  -> NextSlot
    /\ UNCHANGED <<listed, plugged, call, k, origSlot, reading, presets,
                   written, warnings, start>>

NameOf(d) ==
    IF d # <<>> /\ IsString(decodePropValue(d)) THEN decodePropValue(d) ELSE Unnamed(at)

ReadName ==
    /\ pc = "ReadName"
    /\ \E d \in Stray \cup {<<>>, Shown(PresetName)} :
          /\ ReadProp(PresetName, d) /\ decodePropValue(d) # Panic
          /\ reading' = [name |-> NameOf(d), settings |-> <<>>]
          /\ Note(d = <<>>, 0)
    /\ k' = 1 /\ Go("ReadSetting")
    /\ UNCHANGED <<listed, plugged, cam, call, at, origSlot, presets,
                   written, warnings, start>>

\* A setting that cannot be read is left out.
ReadSetting ==
    /\ pc = "ReadSetting"
    /\ \E d \in Stray \cup {<<>>, Shown(k)} :
          LET settings == IF d = <<>> THEN reading.settings
                          ELSE Append(reading.settings, [ID |-> k, Bytes |-> d])
          IN  /\ ReadProp(k, d) /\ decodePropValue(d) # Panic
              /\ Note(d = <<>>, 0)
              /\ IF k < LastProp
                 THEN /\ k' = k + 1 /\ reading' = [reading EXCEPT !.settings = settings]
                      /\ Go("ReadSetting") /\ UNCHANGED <<at, presets>>
                 ELSE /\ presets' = Append(presets, [slot |-> at, name |-> reading.name,
                                                     settings |-> settings])
                      /\ k' = 1 /\ reading' = NoReading /\ NextSlot
    /\ UNCHANGED <<listed, plugged, cam, call, origSlot, written, warnings, start>>

\* Deviation: the last slot that was scanned is written back.
RestoreLast ==
    /\ pc = "Restore"
    /\ \E o \in Outcome : WriteProp(PresetSlot, PackU16(at), o) /\ Note(o # "ok", 0)
    /\ Return("done")
    /\ UNCHANGED <<listed, plugged, call, local, start>>

\* Its result is ignored.
Restore ==
    /\ pc = "Restore"
    /\ \E o \in Outcome : WriteProp(PresetSlot, PackU16(origSlot), o) /\ Note(o # "ok", 0)
    /\ Return("done")
    /\ UNCHANGED <<listed, plugged, call, local, start>>

-----------------------------------------------------------------------------
(* WritePreset                                                             *)

\* Deviation: the preset is written whether or not its slot is selected.
WriteSelectAnyway ==
    /\ pc = "WriteSelect"
    /\ \E o \in Outcome : WriteProp(PresetSlot, PackU16(call.slot), o)
    /\ Go("WriteName")
    /\ UNCHANGED <<listed, plugged, call, local, start, failed>>

WriteSelect ==
    /\ pc = "WriteSelect"
    /\ \E o \in Outcome :
          /\ WriteProp(PresetSlot, PackU16(call.slot), o)
          /\ IF o = "ok" THEN Go("WriteName") ELSE Return("error")
    /\ UNCHANGED <<listed, plugged, call, local, start, failed>>

WriteName ==
    /\ pc = "WriteName"
    /\ \E o \in Outcome :
          /\ WriteProp(PresetName, PackPTPString(call.name), o)
          /\ IF o # "ok" THEN Return("error")
             ELSE IF call.settings = <<>> THEN Go("VerifyName") ELSE Go("WriteSetting")
    /\ UNCHANGED <<listed, plugged, call, local, start, failed>>

\* A rejected setting is a warning.
WriteSetting ==
    /\ pc = "WriteSetting"
    /\ \E o \in Outcome :
          /\ WriteProp(call.settings[k].ID, call.settings[k].Bytes, o)
          /\ written' = IF o = "ok" THEN written \cup {call.settings[k].ID} ELSE written
          /\ warnings' = IF o = "ok" THEN warnings ELSE warnings \cup {k}
    /\ IF k < Len(call.settings) THEN k' = k + 1 /\ Go("WriteSetting")
                                 ELSE k' = 1 /\ Go("VerifyName")
    /\ UNCHANGED <<listed, plugged, call, at, origSlot, reading, presets,
                   start, failed>>

\* The settings still to verify from the j-th on: those that were accepted.
ToVerify(j) ==
    {i \in j..Len(call.settings) : call.settings[i].ID \in written}
VerifyFrom(j) ==
    \/ ToVerify(j) = {} /\ Return("done") /\ UNCHANGED k
    \/ /\ k' \in ToVerify(j) /\ \A i \in ToVerify(j) : k' <= i
       /\ Go("VerifySetting")

\* A name that is read as a number or not at all is not compared.
VerifyName ==
    /\ pc = "VerifyName"
    /\ \E d \in Stray \cup {<<>>, Shown(PresetName)} :
          LET v == decodePropValue(d) IN
          /\ ReadProp(PresetName, d) /\ v # Panic /\ Note(d = <<>>, 0)
          /\ IF d # <<>> /\ IsString(v) /\ v # Text(call.name)
             THEN Return("error") /\ UNCHANGED k ELSE VerifyFrom(1)
    /\ UNCHANGED <<listed, plugged, cam, call, at, origSlot, reading, presets,
                   written, warnings, start>>

\* Deviation: a difference in length is an error, one in the bytes is not.
DiffersAtOnce(s, d) == Len(s.Bytes) # Len(d)
\* Bytes of another length are not compared.
Differs(s, d) == Len(s.Bytes) = Len(d) /\ s.Bytes # d

VerifySetting ==
    /\ pc = "VerifySetting"
    /\ \E d \in Stray \cup {<<>>, Shown(call.settings[k].ID)} :
          /\ ReadProp(call.settings[k].ID, d) /\ decodePropValue(d) # Panic
          /\ Note(d = <<>>, k)
          /\ IF d # <<>> /\ Differs(call.settings[k], d)
             THEN Return("error") /\ UNCHANGED k ELSE VerifyFrom(k + 1)
    /\ UNCHANGED <<listed, plugged, cam, call, at, origSlot, reading, presets,
                   written, warnings, start>>

-----------------------------------------------------------------------------

\* The property that a reading step reads.
Asked ==
    CASE pc = "ReadSlot"                      -> PresetSlot
      [] pc \in {"ReadName", "VerifyName"}    -> PresetName
      [] pc = "ReadSetting"                   -> k
      [] OTHER                                -> call.settings[k].ID

\* decodePropValue panics: the handler's deferred unlock runs, no more code.
Overrun ==
    /\ pc \in ReadSteps
    /\ \E d \in Stray \cup {Shown(Asked)} :
          ReadProp(Asked, d) /\ decodePropValue(d) = Panic
    /\ Return("panic")
    /\ UNCHANGED <<listed, plugged, cam, call, local, start, failed>>

Unplug ==
    /\ plugged /\ plugged' = FALSE
    /\ UNCHANGED <<listed, synced, cam, pc, call, local, how, calls, start, failed>>

\* A disconnect, a connect and whatever the user did at the camera meanwhile.
Reconnect ==
    /\ pc = "idle" /\ (~plugged \/ ~synced)
    /\ plugged' = TRUE /\ synced' = TRUE
    /\ \E s \in Slot : cam' = [cam EXCEPT !.slot = s]
    /\ how' = "none" /\ Clear
    /\ UNCHANGED <<listed, pc, call, calls, start>>

Scan == ReadSlot \/ Select \/ ReadName \/ ReadSetting \/ Restore
Write == WriteSelect \/ WriteName \/ WriteSetting \/ VerifyName \/ VerifySetting

Next ==
    \/ BeginScan \/ (\E w \in Writes : BeginWrite(w))
    \/ Scan \/ Write \/ Overrun
    \/ Unplug \/ Reconnect

Spec == Init /\ [][Next]_vars

\* The goroutine runs on, and every command ends (PTPTransport's CallEnds).
FairSpec == Spec /\ WF_vars(Scan \/ Write \/ Overrun)

-----------------------------------------------------------------------------
Failed(step) == \E f \in failed : f.step = step
Ended(c, end) == pc = "idle" /\ how = end /\ (call = ScanCall) = (c = "scan")

(***************************************************************************)
(* A scan leaves the slot selected that it found (session.go:291, 334), if *)
(* the restoring write succeeds; when the slot could not be read at first  *)
(* it selects slot 1 instead, and a panic leaves the slot of the value.    *)
(***************************************************************************)
SlotRestored ==
    Ended("scan", "done") /\ synced /\ ~Failed("Restore") =>
        cam.slot = IF Failed("ReadSlot") THEN 1 ELSE start

(***************************************************************************)
(* While answers are the commands' own, whatever the scan has collected    *)
(* for a slot is what the camera holds for this slot and no other, in the  *)
(* order of slots and settings, although other slots and settings of it    *)
(* could not be selected or read.                                          *)
(***************************************************************************)
Collected(s, name, settings) ==
    /\ name \in {Unnamed(s), decodePropValue(cam.name[s])}
    /\ \A i \in DOMAIN settings :
          /\ settings[i].Bytes = cam.val[s][settings[i].ID]
          /\ i > 1 => settings[i - 1].ID < settings[i].ID
ScanTrue ==
    synced =>
        /\ \A i \in DOMAIN presets :
              /\ Collected(presets[i].slot, presets[i].name, presets[i].settings)
              /\ i > 1 => presets[i - 1].slot < presets[i].slot
        /\ pc = "ReadSetting" => Collected(at, reading.name, reading.settings)

(***************************************************************************)
(* A scan in which no command fails reports every slot, with its name if   *)
(* it has a readable one and with all its settings.                        *)
(***************************************************************************)
ScanWhole ==
    Ended("scan", "done") /\ synced /\ listed /\ failed = {} =>
        /\ DOMAIN presets = Slot
        /\ \A s \in Slot :
              /\ presets[s].slot = s
              /\ IsString(decodePropValue(cam.name[s]))
                    => presets[s].name = decodePropValue(cam.name[s])
              /\ presets[s].settings = [q \in Prop |-> [ID |-> q, Bytes |-> cam.val[s][q]]]

(***************************************************************************)
(* A scan changes no preset, and a write only that of its own slot, also   *)
(* when it fails half-way: while answers are true and unless the client's  *)
(* own list of settings selects another slot.                              *)
(***************************************************************************)
KeepsPreset(s) == cam'.name[s] = cam.name[s] /\ cam'.val[s] = cam.val[s]
StaysInSlot == \A i \in DOMAIN call.settings : call.settings[i].ID # PresetSlot
OtherPresetsKept ==
    [][/\ pc \in ScanSteps => \A s \in Slot : KeepsPreset(s)
       /\ pc \in WriteSteps /\ synced /\ StaysInSlot =>
            \A s \in Slot \ {call.slot} : KeepsPreset(s)]_vars

(***************************************************************************)
(* A write that returns without error has its name and every setting that  *)
(* it does not warn of in the camera, also when a later setting changed an *)
(* earlier one; but for what could not be read back, a name that is read   *)
(* as a number and values that the camera holds in another length.         *)
(***************************************************************************)
InCamera(i) ==
    cam.val[call.slot][call.settings[i].ID] = call.settings[i].Bytes
VerifiedWrite ==
    Ended("write", "done") /\ synced /\ StaysInSlot =>
        /\ ~Failed("VerifyName") /\ IsString(decodePropValue(cam.name[call.slot]))
              => decodePropValue(cam.name[call.slot]) = Text(call.name)
        /\ \A i \in DOMAIN call.settings :
              \/ i \in warnings
              \/ [step |-> "VerifySetting", of |-> i] \in failed
              \/ Len(cam.val[call.slot][call.settings[i].ID]) # Len(call.settings[i].Bytes)
              \/ InCamera(i)

(***************************************************************************)
(* Both calls end and release the mutex, whichever commands fail.          *)
(***************************************************************************)
PresetCallEnds == (pc # "idle") ~> (pc = "idle")
=============================================================================
