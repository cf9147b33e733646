------------------------ MODULE CameraSessionProofs ------------------------
(***************************************************************************)
(* Safety of CameraSession for any RAFs, edits, handles and bounds.        *)
(***************************************************************************)
EXTENDS CameraSession, TLAPS

-----------------------------------------------------------------------------
(* What Exchange says of the channel, and what Continue and Return leave.  *)

(***************************************************************************)
(* What the program counter says of the locals: an upload has its RAF,     *)
(* sleeping leaves a poll to make, and a download has its handle.          *)
(***************************************************************************)
LocalShape ==
    /\ pc \in UploadSteps => call.to = "load" /\ call.raf \in RAFs
    /\ pc = "Sleep" => polls < MaxPolls
    /\ pc \in {"GetObject", "DeleteObject"} => target \in Handles

LEMMA ExchangeFacts ==
  ASSUME StructType,
         NEW o \in Outcome, NEW did \in BOOLEAN, NEW able \in BOOLEAN,
         Exchange(o, did, able)
  PROVE  /\ synced' \in BOOLEAN
         /\ did => able
         /\ synced' => synced
         /\ o = "ok" => link = "live" /\ (synced' => did)
         /\ (o = "code" /\ synced) => ~did
  <1>1. CASE link = "dead" /\ o = "err" /\ ~did /\ UNCHANGED synced
    BY <1>1 DEF StructType
  <1>2. CASE /\ link = "live" /\ synced
             /\ \/ o = "ok" /\ did /\ able /\ synced' = TRUE
                \/ o = "code" /\ ~did /\ synced' = TRUE
                \/ o = "err" /\ (did => able) /\ synced' \in BOOLEAN
    BY <1>2
  <1>3. CASE link = "live" /\ ~synced /\ (did => able) /\ UNCHANGED synced
    BY <1>3 DEF StructType
  <1>4. \/ link = "dead" /\ o = "err" /\ ~did /\ UNCHANGED synced
        \/ /\ link = "live" /\ synced
           /\ \/ o = "ok" /\ did /\ able /\ synced' = TRUE
              \/ o = "code" /\ ~did /\ synced' = TRUE
              \/ o = "err" /\ (did => able) /\ synced' \in BOOLEAN
        \/ link = "live" /\ ~synced /\ (did => able) /\ UNCHANGED synced
    BY DEF Exchange, EndsAs, StructType
  <1>5. QED
    BY <1>1, <1>2, <1>3, <1>4

LEMMA NoCallType == NoCall \in Call
  BY DEF NoCall, Call

LEMMA ZeroType == 0 \in 0..MaxPolls /\ 0 \in 0..MaxConversions
  BY SessionAssumption

LEMMA IdleIsAStep == "idle" \in Steps
  BY DEF Steps

LEMMA ReturnType == Return => LocalType'
  BY NoCallType, ZeroType, IdleIsAStep DEF Return, LocalType

LEMMA ContinueType ==
  ASSUME LocalType, NEW step \in Steps, Continue(step)
  PROVE  LocalType'
  BY DEF Continue, LocalType, localVars

LEMMA InitType == Init => TypeOK
  <1> SUFFICES ASSUME Init PROVE TypeOK
    OBVIOUS
  <1>1. StructType
    BY DEF Init, StructType, AllProps
  <1>2. LocalType
    BY NoCallType, ZeroType, IdleIsAStep DEF Init, LocalType
  <1>3. CameraType
    <2>1. cam \in Device
      BY DEF Init, Device, Modes
    <2>2. obj \in [Handles -> Job \cup {RafObject, Nil}]
      BY DEF Init
    <2>3. QED
      BY <2>1, <2>2, ZeroType DEF Init, CameraType
  <1>4. QED
    BY <1>1, <1>2, <1>3 DEF TypeOK

\* What an action that leaves the locals, or the camera, alone does to them.
LEMMA KeepLocals == LocalType /\ UNCHANGED <<pc, localVars>> => LocalType'
  BY DEF LocalType, localVars

LEMMA KeepCamera == CameraType /\ UNCHANGED <<cam, storeVars, delivered>> => CameraType'
  BY DEF CameraType, storeVars

LEMMA CloseAndFailType ==
  ASSUME TypeOK, CloseAndFail, synced' \in BOOLEAN
  PROVE  StructType' /\ LocalType'
  BY ReturnType DEF CloseAndFail, TypeOK, StructType, structVars

LEMMA OpenedType ==
  ASSUME TypeOK, Opened, synced' \in BOOLEAN
  PROVE  StructType' /\ LocalType'
  <1>1. "GetDeviceInfo" \in Steps
    BY DEF Steps
  <1>2. QED
    BY <1>1, ContinueType DEF Opened, TypeOK, StructType

\* Opening or closing the session changes one field of the camera.
LEMMA SessionFieldType ==
  ASSUME CameraType, NEW b \in BOOLEAN,
         cam' = [cam EXCEPT !.session = b], UNCHANGED <<storeVars, delivered>>
  PROVE  CameraType'
  BY DEF CameraType, Device, storeVars

LEMMA CamBooleans ==
  ASSUME CameraType
  PROVE  InSession \in BOOLEAN /\ (~cam.session) \in BOOLEAN /\ CanConvert \in BOOLEAN
         /\ cam.session \in BOOLEAN
  BY DEF CameraType, Device, InSession, CanConvert

LEMMA BeginType ==
  ASSUME LocalType, NEW to \in Conversions \cup {"connect"}, NEW r \in RAFs \cup {Nil},
         NEW p \in Profile \cup {Nil}, NEW step \in Steps, Begin(to, r, p, step)
  PROVE  LocalType'
  <1>1. call' \in Call
    BY DEF Begin, Call
  <1>2. QED
    BY <1>1 DEF Begin, LocalType

LEMMA ConnectOpensType == TypeOK /\ ConnectOpens => TypeOK'
  <1> SUFFICES ASSUME TypeOK, ConnectOpens PROVE TypeOK'
    OBVIOUS
  <1>1. StructType'
    BY DEF ConnectOpens, TypeOK, StructType, structVars
  <1>2. LocalType'
    <2>1. "OpenSession" \in Steps
      BY DEF Steps, OpeningSteps
    <2>2. QED
      BY <2>1, BeginType DEF ConnectOpens, TypeOK
  <1>3. CameraType'
    BY KeepCamera DEF ConnectOpens, TypeOK
  <1>4. QED
    BY <1>1, <1>2, <1>3 DEF TypeOK

LEMMA DisconnectCallType == TypeOK /\ DisconnectCall => TypeOK'
  <1> SUFFICES ASSUME TypeOK, DisconnectCall PROVE TypeOK'
    OBVIOUS
  <1>1. synced' \in BOOLEAN /\ CameraType'
    <2>1. CASE UNCHANGED <<synced, cam>>
      BY <2>1, KeepCamera DEF DisconnectCall, TypeOK, StructType
    <2>2. CASE \E o \in Outcome, did \in BOOLEAN :
                  /\ Exchange(o, did, InSession)
                  /\ cam' = [cam EXCEPT !.session = @ /\ ~did]
      <3>1. PICK o \in Outcome, did \in BOOLEAN :
                  /\ Exchange(o, did, InSession)
                  /\ cam' = [cam EXCEPT !.session = @ /\ ~did]
        BY <2>2
      <3>2. (cam.session /\ ~did) \in BOOLEAN
        BY CamBooleans DEF TypeOK
      <3>3. synced' \in BOOLEAN
        BY <3>1, CamBooleans, ExchangeFacts DEF TypeOK
      <3>4. CameraType'
        BY <3>1, <3>2, SessionFieldType DEF DisconnectCall, TypeOK
      <3>5. QED
        BY <3>3, <3>4
    <2>3. QED
      BY <2>1, <2>2 DEF DisconnectCall
  <1>2. StructType'
    BY <1>1 DEF DisconnectCall, Forget, TypeOK, StructType
  <1>3. LocalType'
    BY KeepLocals DEF DisconnectCall, TypeOK
  <1>4. QED
    BY <1>1, <1>2, <1>3 DEF TypeOK

LEMMA OpenSessionType == TypeOK /\ OpenSession => TypeOK'
  <1> SUFFICES ASSUME TypeOK, OpenSession PROVE TypeOK'
    OBVIOUS
  <1>1. PICK o \in Outcome, did \in BOOLEAN :
          /\ Exchange(o, did, ~cam.session)
          /\ cam' = [cam EXCEPT !.session = @ \/ did]
          /\ \/ o = "ok" /\ Opened
             \/ /\ o = "code" /\ (synced => cam.session)
                /\ Continue("CloseStale")
                /\ UNCHANGED <<link, structVars>>
             \/ o # "ok" /\ CloseAndFail
    BY DEF OpenSession
  <1>2. synced' \in BOOLEAN
    BY <1>1, CamBooleans, ExchangeFacts DEF TypeOK
  <1>3. CameraType'
    <2>1. (cam.session \/ did) \in BOOLEAN
      BY CamBooleans DEF TypeOK
    <2>2. QED
      BY <1>1, <2>1, SessionFieldType DEF OpenSession, TypeOK
  <1>4. StructType' /\ LocalType'
    <2>1. CASE Opened
      BY <2>1, <1>2, OpenedType
    <2>2. CASE Continue("CloseStale") /\ UNCHANGED <<link, structVars>>
      <3>1. "CloseStale" \in Steps
        BY DEF Steps, OpeningSteps
      <3>2. QED
        BY <2>2, <1>2, <3>1, ContinueType DEF TypeOK, StructType, structVars
    <2>3. CASE CloseAndFail
      BY <2>3, <1>2, CloseAndFailType
    <2>4. QED
      BY <1>1, <2>1, <2>2, <2>3
  <1>5. QED
    BY <1>3, <1>4 DEF TypeOK

LEMMA CloseStaleType == TypeOK /\ CloseStale => TypeOK'
  <1> SUFFICES ASSUME TypeOK, CloseStale PROVE TypeOK'
    OBVIOUS
  <1>1. PICK o \in Outcome, did \in BOOLEAN :
          /\ Exchange(o, did, InSession)
          /\ cam' = [cam EXCEPT !.session = @ /\ ~did]
    BY DEF CloseStale
  <1>2. synced' \in BOOLEAN
    BY <1>1, CamBooleans, ExchangeFacts DEF TypeOK
  <1>3. CameraType'
    <2>1. (cam.session /\ ~did) \in BOOLEAN
      BY CamBooleans DEF TypeOK
    <2>2. QED
      BY <1>1, <2>1, SessionFieldType DEF CloseStale, TypeOK
  <1>4. "Reset" \in Steps
    BY DEF Steps, OpeningSteps
  <1>5. StructType' /\ LocalType'
    BY <1>2, <1>4, ContinueType DEF CloseStale, TypeOK, StructType, structVars
  <1>6. QED
    BY <1>3, <1>5 DEF TypeOK

LEMMA ResetType == TypeOK /\ Reset => TypeOK'
  <1> SUFFICES ASSUME TypeOK, Reset PROVE TypeOK'
    OBVIOUS
  <1>1. CameraType'
    BY KeepCamera DEF Reset, TypeOK
  <1>2. synced' \in BOOLEAN
    BY DEF Reset, TypeOK, StructType
  <1>3. "OpenRetry" \in Steps
    BY DEF Steps, OpeningSteps
  <1>4. StructType' /\ LocalType'
    BY <1>2, <1>3, ContinueType, CloseAndFailType
       DEF Reset, TypeOK, StructType, structVars
  <1>5. QED
    BY <1>1, <1>4 DEF TypeOK

LEMMA OpenRetryType == TypeOK /\ OpenRetry => TypeOK'
  <1> SUFFICES ASSUME TypeOK, OpenRetry PROVE TypeOK'
    OBVIOUS
  <1>1. PICK o \in Outcome, did \in BOOLEAN :
          /\ Exchange(o, did, ~cam.session)
          /\ cam' = [cam EXCEPT !.session = @ \/ did]
          /\ \/ o = "ok" /\ Opened
             \/ o # "ok" /\ CloseAndFail
    BY DEF OpenRetry
  <1>2. synced' \in BOOLEAN
    BY <1>1, CamBooleans, ExchangeFacts DEF TypeOK
  <1>3. CameraType'
    <2>1. (cam.session \/ did) \in BOOLEAN
      BY CamBooleans DEF TypeOK
    <2>2. QED
      BY <1>1, <2>1, SessionFieldType DEF OpenRetry, TypeOK
  <1>4. StructType' /\ LocalType'
    BY <1>1, <1>2, OpenedType, CloseAndFailType
  <1>5. QED
    BY <1>3, <1>4 DEF TypeOK

LEMMA GetDeviceInfoType == TypeOK /\ GetDeviceInfo => TypeOK'
  <1> SUFFICES ASSUME TypeOK, GetDeviceInfo PROVE TypeOK'
    OBVIOUS
  <1>1. PICK o \in Outcome, did \in BOOLEAN :
          /\ Exchange(o, did, TRUE)
          /\ \/ /\ o = "ok" /\ Return
                /\ \E read \in IF did THEN {PropsOf(cam.mode)} ELSE SUBSET AllProps :
                      supported' = supported \cup read
             \/ o = "ok" /\ ~did /\ Return /\ UNCHANGED supported
             \/ o # "ok" /\ Return /\ UNCHANGED supported
    BY DEF GetDeviceInfo
  <1>2. synced' \in BOOLEAN
    BY <1>1, ExchangeFacts DEF TypeOK
  <1>3. supported' \in SUBSET AllProps
    BY <1>1 DEF PropsOf, AllProps, TypeOK, StructType
  <1>4. StructType'
    BY <1>2, <1>3 DEF GetDeviceInfo, TypeOK, StructType
  <1>5. LocalType'
    BY <1>1, ReturnType
  <1>6. CameraType'
    BY KeepCamera DEF GetDeviceInfo, TypeOK
  <1>7. QED
    BY <1>4, <1>5, <1>6 DEF TypeOK

-----------------------------------------------------------------------------
(* The upload and the conversion.                                          *)

LEMMA BaseOfType == \A r \in RAFs : BaseOf(r) \in Profile
  BY DEF BaseOf, Profile

LEMMA CallsType ==
  ASSUME TypeOK,
         \/ \E r \in RAFs : LoadCall(r)
         \/ \E e \in Edits : ReconvertCall(e)
         \/ \E p \in Profile : ReconvertRawCall(p)
  PROVE  TypeOK'
  <1>1. "SendObjectInfo" \in Steps /\ "SetProfile" \in Steps
    BY DEF Steps, UploadSteps, ConvertSteps
  <1>2. {"load", "reconvert", "reconvertRaw"} \subseteq Conversions
    BY DEF Conversions
  <1>3. UNCHANGED <<linkVars, structVars, cam, storeVars, delivered>>
    BY DEF LoadCall, ReconvertCall, ReconvertRawCall
  <1>4. LocalType'
    <2>1. CASE \E r \in RAFs : LoadCall(r)
      BY <2>1, <1>1, <1>2, BeginType DEF LoadCall, TypeOK
    <2>2. ASSUME NEW e \in Edits, ReconvertCall(e) PROVE LocalType'
      <3>1. PatchProfile(baseProfile, e) \in Profile
        BY <2>2 DEF PatchProfile, Profile, TypeOK, StructType, ReconvertCall
      <3>2. QED
        BY <2>2, <3>1, <1>1, <1>2, BeginType DEF ReconvertCall, TypeOK
    <2>3. CASE \E p \in Profile : ReconvertRawCall(p)
      BY <2>3, <1>1, <1>2, BeginType DEF ReconvertRawCall, TypeOK
    <2>4. QED
      BY <2>1, <2>2, <2>3
  <1>5. StructType' /\ CameraType'
    BY <1>3, KeepCamera DEF TypeOK, StructType, linkVars, structVars
  <1>6. QED
    BY <1>4, <1>5 DEF TypeOK

LEMMA ThenOrFailType ==
  ASSUME LocalType, NEW o, NEW step \in Steps, ThenOrFail(o, step)
  PROVE  LocalType'
  BY ReturnType, ContinueType DEF ThenOrFail

\* The struct fields stay and the channel keeps its type.
LEMMA KeepStruct ==
  ASSUME StructType, synced' \in BOOLEAN, UNCHANGED <<link, structVars>>
  PROVE  StructType'
  BY DEF StructType, structVars

LEMMA SendObjectInfoType == TypeOK /\ SendObjectInfo => TypeOK'
  <1> SUFFICES ASSUME TypeOK, SendObjectInfo PROVE TypeOK'
    OBVIOUS
  <1>1. PICK o \in Outcome, did \in BOOLEAN :
          /\ Exchange(o, did, CanConvert)
          /\ ThenOrFail(o, "SendObject2")
    BY DEF SendObjectInfo
  <1>2. synced' \in BOOLEAN
    BY <1>1, CamBooleans, ExchangeFacts DEF TypeOK
  <1>3. "SendObject2" \in Steps
    BY DEF Steps, UploadSteps
  <1>4. QED
    BY <1>1, <1>2, <1>3, ThenOrFailType, KeepStruct, KeepCamera
       DEF SendObjectInfo, TypeOK

LEMMA SendObject2Type == TypeOK /\ LocalShape /\ SendObject2 => TypeOK'
  <1> SUFFICES ASSUME TypeOK, LocalShape, SendObject2 PROVE TypeOK'
    OBVIOUS
  <1>a. call.raf \in RAFs
    BY DEF SendObject2, LocalShape, UploadSteps
  <1>1. PICK o \in Outcome, did \in BOOLEAN :
          /\ Exchange(o, did, CanConvert)
          /\ \/ did /\ unread' = TRUE /\ \E h \in Handles : Uploaded(call.raf, h)
             \/ ~did /\ UNCHANGED <<cam, obj, unread>>
          /\ ThenOrFail(o, "GetProfile")
    BY DEF SendObject2
  <1>2. synced' \in BOOLEAN
    BY <1>1, CamBooleans, ExchangeFacts DEF TypeOK
  <1>3. "GetProfile" \in Steps
    BY DEF Steps, UploadSteps
  <1>4. LocalType'
    BY <1>1, <1>3, ThenOrFailType DEF TypeOK
  <1>5. cam' \in Device /\ obj' \in [Handles -> Job \cup {RafObject, Nil}]
    <2>1. CASE UNCHANGED <<cam, obj>>
      BY <2>1 DEF TypeOK, CameraType
    <2>2. ASSUME NEW h \in Handles, Uploaded(call.raf, h)
          PROVE  cam' \in Device /\ obj' \in [Handles -> Job \cup {RafObject, Nil}]
      <3>1. cam' \in Device
        BY <1>a, <2>2, BaseOfType DEF Uploaded, TypeOK, CameraType, Device
      <3>2. obj' \in [Handles -> Job \cup {RafObject, Nil}]
        BY <2>2 DEF Uploaded, TypeOK, CameraType
      <3>3. QED
        BY <3>1, <3>2
    <2>3. QED
      BY <1>1, <2>1, <2>2
  <1>6. CameraType'
    BY <1>1, <1>5 DEF SendObject2, TypeOK, CameraType
  <1>7. StructType'
    BY <1>2, KeepStruct DEF SendObject2, TypeOK
  <1>8. QED
    BY <1>4, <1>6, <1>7 DEF TypeOK

LEMMA GetProfileType == TypeOK /\ LocalShape /\ GetProfile => TypeOK'
  <1> SUFFICES ASSUME TypeOK, LocalShape, GetProfile PROVE TypeOK'
    OBVIOUS
  <1>1. PICK o \in Outcome, did \in BOOLEAN, p \in Profile \cup {Nil} :
          /\ Exchange(o, did, CanConvert)
          /\ did => p = cam.d185
          /\ \/ /\ o = "ok" /\ p # Nil
                /\ baseProfile' = p /\ rafLoaded' = TRUE /\ unread' = FALSE
                /\ Begin(call.to, call.raf, p, "SetProfile")
             \/ /\ o # "ok" \/ p = Nil
                /\ Return
                /\ UNCHANGED <<baseProfile, rafLoaded, unread>>
    BY DEF GetProfile, NewBase
  <1>2. synced' \in BOOLEAN
    BY <1>1, CamBooleans, ExchangeFacts DEF TypeOK
  <1>3. StructType'
    BY <1>1, <1>2 DEF GetProfile, TypeOK, StructType
  <1>4. CameraType'
    BY <1>1 DEF GetProfile, TypeOK, CameraType
  <1>5. LocalType'
    <2>1. call.to \in Conversions \cup {"connect"} /\ call.raf \in RAFs \cup {Nil}
      BY DEF GetProfile, LocalShape, UploadSteps, Conversions
    <2>2. "SetProfile" \in Steps
      BY DEF Steps, ConvertSteps
    <2>3. QED
      BY <1>1, <2>1, <2>2, BeginType, ReturnType DEF TypeOK
  <1>6. QED
    BY <1>3, <1>4, <1>5 DEF TypeOK

LEMMA SetProfileType == TypeOK /\ SetProfile => TypeOK'
  <1> SUFFICES ASSUME TypeOK, SetProfile PROVE TypeOK'
    OBVIOUS
  <1>1. PICK o \in Outcome, did \in BOOLEAN :
          /\ Exchange(o, did, CanConvert)
          /\ cam' = IF did THEN [cam EXCEPT !.d185 = Sent] ELSE cam
          /\ ThenOrFail(o, "Snapshot")
    BY DEF SetProfile
  <1>2. synced' \in BOOLEAN
    BY <1>1, CamBooleans, ExchangeFacts DEF TypeOK
  <1>3. Sent \in Profile \cup {Nil}
    BY DEF Sent, Call, TypeOK, LocalType
  <1>4. CameraType'
    BY <1>1, <1>3 DEF SetProfile, TypeOK, CameraType, Device, storeVars
  <1>5. "Snapshot" \in Steps
    BY DEF Steps, ConvertSteps
  <1>6. QED
    BY <1>1, <1>2, <1>4, <1>5, ThenOrFailType, KeepStruct DEF SetProfile, TypeOK

LEMMA ListingType == \A did \in BOOLEAN : Listing(did) \subseteq SUBSET Handles
  BY DEF Listing, Listed

LEMMA SnapshotType == TypeOK /\ Snapshot => TypeOK'
  <1> SUFFICES ASSUME TypeOK, Snapshot PROVE TypeOK'
    OBVIOUS
  <1>1. PICK o \in Outcome, did \in BOOLEAN :
          /\ Exchange(o, did, InSession)
          /\ \/ /\ skip' \in IF o = "ok" THEN Listing(did) ELSE {{}}
                /\ snapOK' = (o = "ok") /\ late' = (running # {})
                /\ pc' = "Trigger"
                /\ UNCHANGED <<call, polls, target, jpeg, own>>
             \/ o = "ok" /\ ~did /\ Return
    BY DEF Snapshot
  <1>2. synced' \in BOOLEAN
    BY <1>1, CamBooleans, ExchangeFacts DEF TypeOK
  <1>3. "Trigger" \in Steps
    BY DEF Steps, ConvertSteps
  <1>4. CASE Return
    BY <1>4, <1>2, ReturnType, KeepStruct, KeepCamera DEF Snapshot, TypeOK
  <1>5. CASE /\ skip' \in IF o = "ok" THEN Listing(did) ELSE {{}}
             /\ snapOK' = (o = "ok") /\ late' = (running # {})
             /\ pc' = "Trigger"
             /\ UNCHANGED <<call, polls, target, jpeg, own>>
    <2>1. skip' \in SUBSET Handles
      BY <1>5, ListingType
    <2>2. LocalType'
      BY <1>5, <2>1, <1>3 DEF TypeOK, LocalType
    <2>3. QED
      BY <1>2, <2>2, KeepStruct, KeepCamera DEF Snapshot, TypeOK
  <1>6. QED
    BY <1>1, <1>4, <1>5

LEMMA StartedType ==
  ASSUME CameraType, Started, cam.raf # Nil, cam.d185 # Nil, nconv < MaxConversions
  PROVE  /\ nconv' \in 1..MaxConversions
         /\ running' \in SUBSET Job
  <1>1. nconv + 1 \in 1..MaxConversions
    BY SessionAssumption DEF CameraType
  <1>2. cam.raf \in RAFs /\ cam.d185 \in Profile
    BY DEF CameraType, Device
  <1>3. [conv |-> nconv + 1, raf |-> cam.raf, prof |-> cam.d185] \in Job
    BY <1>1, <1>2 DEF Job
  <1>4. QED
    BY <1>1, <1>3 DEF Started, CameraType

LEMMA TriggerType == TypeOK /\ Trigger => TypeOK'
  <1> SUFFICES ASSUME TypeOK, Trigger PROVE TypeOK'
    OBVIOUS
  <1> DEFINE Able == CanConvert /\ cam.raf # Nil /\ cam.d185 # Nil
                        /\ nconv < MaxConversions
  <1>1. PICK o \in Outcome, did \in BOOLEAN :
          /\ Exchange(o, did, Able)
          /\ \/ did /\ Started
             \/ ~did /\ UNCHANGED <<running, nconv>>
          /\ \/ /\ o = "ok"
                /\ own' = IF did THEN nconv + 1 ELSE 0
                /\ pc' = "Poll"
                /\ UNCHANGED <<call, skip, polls, target, jpeg, snapOK, late>>
             \/ o # "ok" /\ Return
    BY DEF Trigger
  <1>2. synced' \in BOOLEAN /\ (did => Able)
    <2>1. Able \in BOOLEAN
      OBVIOUS
    <2> HIDE DEF Able
    <2>2. QED
      BY <1>1, <2>1, ExchangeFacts DEF TypeOK
  <1>3. /\ nconv' \in 0..MaxConversions
        /\ did => nconv' = nconv + 1
        /\ running' \in SUBSET Job
    <2>1. CASE did /\ Started
      BY <2>1, <1>2, StartedType, SessionAssumption DEF TypeOK, Started
    <2>2. CASE ~did /\ UNCHANGED <<running, nconv>>
      BY <2>2 DEF TypeOK, CameraType
    <2>3. QED
      BY <1>1, <2>1, <2>2
  <1>4. CameraType'
    BY <1>3 DEF Trigger, TypeOK, CameraType
  <1>5. LocalType'
    <2>1. CASE Return
      BY <2>1, ReturnType
    <2>2. CASE /\ own' = IF did THEN nconv + 1 ELSE 0
               /\ pc' = "Poll"
               /\ UNCHANGED <<call, skip, polls, target, jpeg, snapOK, late>>
      <3>1. own' \in 0..MaxConversions
        BY <2>2, <1>3, ZeroType
      <3>2. "Poll" \in Steps
        BY DEF Steps, ResultSteps
      <3>3. QED
        BY <2>2, <3>1, <3>2 DEF TypeOK, LocalType
    <2>3. QED
      BY <1>1, <2>1, <2>2
  <1>6. QED
    BY <1>2, <1>4, <1>5, KeepStruct DEF Trigger, TypeOK

-----------------------------------------------------------------------------
(* waitForResult.                                                          *)

LEMMA PollType == TypeOK /\ Poll => TypeOK'
  <1> SUFFICES ASSUME TypeOK, Poll PROVE TypeOK'
    OBVIOUS
  <1>1. PICK o \in Outcome, did \in BOOLEAN :
          /\ Exchange(o, did, InSession)
          /\ \/ (o # "ok" \/ ~did) /\ Return
             \/ /\ o = "ok"
                /\ \E list \in Listing(did) :
                      \/ Fresh(list) = {} /\ Continue("Sleep")
                      \/ /\ target' \in Fresh(list)
                         /\ pc' = "GetObject"
                         /\ UNCHANGED <<call, skip, polls, jpeg, own, snapOK, late>>
    BY DEF Poll
  <1>2. synced' \in BOOLEAN
    BY <1>1, CamBooleans, ExchangeFacts DEF TypeOK
  <1>3. "Sleep" \in Steps /\ "GetObject" \in Steps
    BY DEF Steps, ResultSteps
  <1>4. LocalType'
    <2>1. CASE Return
      BY <2>1, ReturnType
    <2>2. CASE Continue("Sleep")
      BY <2>2, <1>3, ContinueType DEF TypeOK
    <2>3. ASSUME NEW list \in Listing(did), target' \in Fresh(list), pc' = "GetObject",
                 UNCHANGED <<call, skip, polls, jpeg, own, snapOK, late>>
          PROVE  LocalType'
      <3>1. target' \in Handles
        BY <2>3, ListingType DEF Fresh
      <3>2. QED
        BY <2>3, <3>1, <1>3 DEF TypeOK, LocalType
    <2>4. QED
      BY <1>1, <2>1, <2>2, <2>3
  <1>5. QED
    BY <1>2, <1>4, KeepStruct, KeepCamera DEF Poll, TypeOK

LEMMA SleepType == TypeOK /\ LocalShape /\ Sleep => TypeOK'
  <1> SUFFICES ASSUME TypeOK, LocalShape, Sleep PROVE TypeOK'
    OBVIOUS
  <1>1. polls' \in 0..MaxPolls
    BY SessionAssumption DEF Sleep, LocalShape, TypeOK, LocalType
  <1>2. "Poll" \in Steps
    BY DEF Steps, ResultSteps
  <1>3. LocalType'
    BY <1>1, <1>2 DEF Sleep, TypeOK, LocalType
  <1>4. StructType'
    BY DEF Sleep, TypeOK, StructType, linkVars, structVars
  <1>5. QED
    BY <1>3, <1>4, KeepCamera DEF Sleep, TypeOK

LEMMA DeadlineType == TypeOK /\ Deadline => TypeOK'
  <1> SUFFICES ASSUME TypeOK, Deadline PROVE TypeOK'
    OBVIOUS
  <1>1. StructType'
    BY DEF Deadline, TypeOK, StructType, linkVars, structVars
  <1>2. QED
    BY <1>1, ReturnType, KeepCamera DEF Deadline, TypeOK

LEMMA GetObjectType == TypeOK /\ LocalShape /\ GetObject => TypeOK'
  <1> SUFFICES ASSUME TypeOK, LocalShape, GetObject PROVE TypeOK'
    OBVIOUS
  <1> DEFINE Able == InSession /\ obj[target] # Nil
  <1>1. PICK o \in Outcome, did \in BOOLEAN :
          /\ Exchange(o, did, Able)
          /\ \/ /\ o = "ok"
                /\ jpeg' = IF did THEN obj[target] ELSE Nil
                /\ pc' = "DeleteObject"
                /\ UNCHANGED <<call, skip, polls, target, own, snapOK, late>>
             \/ o # "ok" /\ Return
    BY DEF GetObject
  <1>2. synced' \in BOOLEAN
    <2>1. Able \in BOOLEAN
      OBVIOUS
    <2> HIDE DEF Able
    <2>2. QED
      BY <1>1, <2>1, ExchangeFacts DEF TypeOK
  <1>3. obj[target] \in Job \cup {RafObject, Nil}
    BY DEF GetObject, LocalShape, TypeOK, CameraType
  <1>4. "DeleteObject" \in Steps
    BY DEF Steps, ResultSteps
  <1>5. LocalType'
    BY <1>1, <1>3, <1>4, ReturnType DEF TypeOK, LocalType
  <1>6. QED
    BY <1>2, <1>5, KeepStruct, KeepCamera DEF GetObject, TypeOK

LEMMA DeleteObjectType == TypeOK /\ DeleteObject => TypeOK'
  <1> SUFFICES ASSUME TypeOK, DeleteObject PROVE TypeOK'
    OBVIOUS
  <1> DEFINE Able == InSession /\ obj[target] # Nil
  <1>1. PICK o \in Outcome, did \in BOOLEAN :
          /\ Exchange(o, did, Able)
          /\ \/ /\ did
                /\ obj' = [obj EXCEPT ![target] = Nil]
                /\ cam' = IF obj[target] = RafObject
                          THEN [cam EXCEPT !.raf = Nil, !.d185 = Nil] ELSE cam
             \/ ~did /\ UNCHANGED <<obj, cam>>
    BY DEF DeleteObject
  <1>2. synced' \in BOOLEAN
    <2>1. Able \in BOOLEAN
      OBVIOUS
    <2> HIDE DEF Able
    <2>2. QED
      BY <1>1, <2>1, ExchangeFacts DEF TypeOK
  <1>3. cam' \in Device /\ obj' \in [Handles -> Job \cup {RafObject, Nil}]
    BY <1>1 DEF TypeOK, CameraType, Device
  <1>4. delivered' \in SUBSET (1..MaxConversions)
    <2>1. jpeg \in Job => jpeg.conv \in 1..MaxConversions
      BY DEF Job
    <2>2. QED
      BY <2>1 DEF DeleteObject, TypeOK, LocalType, CameraType
  <1>5. CameraType'
    BY <1>3, <1>4 DEF DeleteObject, TypeOK, CameraType
  <1>6. LocalType'
    BY ReturnType DEF DeleteObject
  <1>7. StructType'
    BY <1>2, KeepStruct DEF DeleteObject, TypeOK
  <1>8. QED
    BY <1>5, <1>6, <1>7 DEF TypeOK

-----------------------------------------------------------------------------
(* The environment.                                                        *)

LEMMA EnvironmentType == TypeOK /\ Environment => TypeOK'
  <1> SUFFICES ASSUME TypeOK, Environment PROVE TypeOK'
    OBVIOUS
  <1>1. CASE FinishConversion
    <2>1. obj' \in [Handles -> Job \cup {RafObject, Nil}] /\ running' \in SUBSET Job
      BY <1>1 DEF FinishConversion, TypeOK, CameraType
    <2>2. CameraType'
      BY <1>1, <2>1 DEF FinishConversion, TypeOK, CameraType
    <2>3. StructType'
      BY <1>1 DEF FinishConversion, TypeOK, StructType, linkVars, structVars
    <2>4. QED
      BY <1>1, <2>2, <2>3, KeepLocals DEF FinishConversion, TypeOK
  <1>2. CASE Unplug
    <2>1. cam' \in Device /\ obj' \in [Handles -> Job \cup {RafObject, Nil}]
      BY <1>2 DEF Unplug, TypeOK, CameraType, Device
    <2>2. CameraType'
      BY <1>2, <2>1 DEF Unplug, TypeOK, CameraType
    <2>3. StructType'
      BY <1>2 DEF Unplug, TypeOK, StructType, structVars
    <2>4. QED
      BY <1>2, <2>2, <2>3, KeepLocals DEF Unplug, TypeOK
  <1>3. CASE Plug
    <2>1. CameraType'
      BY <1>3 DEF Plug, TypeOK, CameraType, Device, storeVars
    <2>2. StructType'
      BY <1>3 DEF Plug, TypeOK, StructType, linkVars, structVars
    <2>3. QED
      BY <1>3, <2>1, <2>2, KeepLocals DEF Plug, TypeOK
  <1>4. CASE Restart
    <2>1. StructType'
      BY <1>4 DEF Restart, TypeOK, StructType, AllProps
    <2>2. LocalType'
      BY <1>4, NoCallType, ZeroType, IdleIsAStep DEF Restart, LocalType
    <2>3. QED
      BY <1>4, <2>1, <2>2, KeepCamera DEF Restart, TypeOK
  <1>5. QED
    BY <1>1, <1>2, <1>3, <1>4 DEF Environment

-----------------------------------------------------------------------------
(* The types are an invariant.                                             *)

\* The order of the steps gives the locals their shape.
LEMMA ShapeStep ==
  ASSUME TypeOK, LocalShape, [Next]_vars
  PROVE  LocalShape'
  <1> USE DEF LocalShape, UploadSteps
  <1>1. CASE Handler
    <2>1. pc' \in {"OpenSession", "SendObjectInfo", "SetProfile"} \/ UNCHANGED <<pc, localVars>>
      BY <1>1 DEF Handler, ConnectOpens, DisconnectCall, LoadCall, ReconvertCall,
                  ReconvertRawCall, Begin
    <2>2. ASSUME NEW r \in RAFs, LoadCall(r) PROVE call'.to = "load" /\ call'.raf \in RAFs
      BY <2>2 DEF LoadCall, Begin
    <2>3. pc' = "SendObjectInfo" => \E r \in RAFs : LoadCall(r)
      BY <1>1 DEF Handler, ConnectOpens, DisconnectCall, ReconvertCall, ReconvertRawCall,
                  Begin, Ready
    <2>4. QED
      BY <2>1, <2>2, <2>3 DEF localVars
  <1>2. CASE OpenSession \/ CloseStale \/ Reset \/ OpenRetry \/ GetDeviceInfo
    <2>1. pc' \in {"idle", "CloseStale", "Reset", "OpenRetry", "GetDeviceInfo"}
      BY <1>2 DEF OpenSession, CloseStale, Reset, OpenRetry, GetDeviceInfo,
                  Opened, Continue, CloseAndFail, Return
    <2>2. QED
      BY <2>1
  <1>3. CASE SendObjectInfo \/ SendObject2
    <2>1. pc' = "idle" \/ (pc' \in {"SendObject2", "GetProfile"} /\ call' = call)
      BY <1>3 DEF SendObjectInfo, SendObject2, ThenOrFail, Continue, Return, localVars
    <2>2. QED
      BY <1>3, <2>1 DEF SendObjectInfo, SendObject2
  <1>4. CASE GetProfile \/ SetProfile \/ Snapshot \/ Trigger
    <2>1. pc' \in {"idle", "SetProfile", "Snapshot", "Trigger", "Poll"}
      BY <1>4 DEF GetProfile, SetProfile, Snapshot, Trigger, ThenOrFail, Begin,
                  Continue, Return
    <2>2. QED
      BY <2>1
  <1>5. CASE Poll
    <2>1. \/ pc' = "idle"
          \/ pc' = "Sleep" /\ polls' = polls
          \/ pc' = "GetObject" /\ target' \in Handles
      BY <1>5, ListingType DEF Poll, Continue, Return, Fresh, localVars
    <2>2. QED
      BY <1>5, <2>1 DEF Poll
  <1>6. CASE Sleep \/ Deadline \/ GetObject \/ DeleteObject
    <2>1. pc' \in {"idle", "Poll"} \/ (pc' = "DeleteObject" /\ target' = target)
      BY <1>6 DEF Sleep, Deadline, GetObject, DeleteObject, Return
    <2>2. pc' = "DeleteObject" => pc = "GetObject"
      BY <1>6 DEF Sleep, Deadline, GetObject, DeleteObject, Return
    <2>3. QED
      BY <2>1, <2>2
  <1>7. CASE Environment
    <2>1. pc' = "idle" \/ UNCHANGED <<pc, localVars>>
      BY <1>7 DEF Environment, FinishConversion, Unplug, Plug, Restart
    <2>2. QED
      BY <2>1 DEF localVars
  <1>8. CASE UNCHANGED vars
    BY <1>8 DEF vars, localVars
  <1>9. QED
    BY <1>1, <1>2, <1>3, <1>4, <1>5, <1>6, <1>7, <1>8 DEF Next, Operation

LEMMA TypeStep ==
  ASSUME TypeOK, LocalShape, [Next]_vars
  PROVE  TypeOK'
  <1>1. CASE Handler
    BY <1>1, ConnectOpensType, DisconnectCallType, CallsType DEF Handler
  <1>2. CASE Operation
    BY <1>2, OpenSessionType, CloseStaleType, ResetType, OpenRetryType,
       GetDeviceInfoType, SendObjectInfoType, SendObject2Type, GetProfileType,
       SetProfileType, SnapshotType, TriggerType, PollType, SleepType, DeadlineType,
       GetObjectType, DeleteObjectType
       DEF Operation
  <1>3. CASE Environment
    BY <1>3, EnvironmentType
  <1>4. CASE UNCHANGED vars
    BY <1>4 DEF vars, linkVars, structVars, localVars, storeVars,
                TypeOK, StructType, LocalType, CameraType
  <1>5. QED
    BY <1>1, <1>2, <1>3, <1>4 DEF Next

(***************************************************************************)
(* Every variable of the session keeps its type.                           *)
(***************************************************************************)
THEOREM TypeCorrect == Spec => []TypeOK
  <1>1. Init => LocalShape
    BY DEF Init, LocalShape, UploadSteps
  <1>2. TypeOK /\ LocalShape /\ [Next]_vars => TypeOK' /\ LocalShape'
    BY TypeStep, ShapeStep
  <1>3. QED
    BY <1>1, <1>2, InitType, PTL DEF Spec

\* The same with the shape of the locals, for the proofs below.
LEMMA ShapeInvariant == Spec => []LocalShape
  <1>1. Init => LocalShape
    BY DEF Init, LocalShape, UploadSteps
  <1>2. TypeOK /\ LocalShape /\ [Next]_vars => TypeOK' /\ LocalShape'
    BY TypeStep, ShapeStep
  <1>3. QED
    BY <1>1, <1>2, InitType, PTL DEF Spec

-----------------------------------------------------------------------------
(* The Camera struct agrees with itself and with the camera.               *)

LEMMA AgreesStep ==
  ASSUME TypeOK, SessionAgrees, [Next]_vars
  PROVE  SessionAgrees'
  <1> USE DEF SessionAgrees, OpeningSteps
  <1>1. CASE Handler
    <2>1. CASE ConnectOpens
      BY <2>1 DEF ConnectOpens, Ready, Begin, structVars
    <2>2. CASE DisconnectCall
      BY <2>2 DEF DisconnectCall, Ready, Forget
    <2>3. CASE ~(ConnectOpens \/ DisconnectCall)
      <3>1. /\ pc = "idle" /\ pc' \in {"SendObjectInfo", "SetProfile"}
            /\ UNCHANGED <<linkVars, structVars>>
        BY <1>1, <2>3 DEF Handler, LoadCall, ReconvertCall, ReconvertRawCall, Begin, Ready
      <3>2. QED
        BY <3>1 DEF linkVars, structVars
    <2>4. QED
      BY <2>1, <2>2, <2>3
  <1>2. CASE OpenSession \/ CloseStale \/ Reset \/ OpenRetry
    <2>1. pc \in OpeningSteps
      BY <1>2 DEF OpenSession, CloseStale, Reset, OpenRetry
    <2>2. CASE Opened
      <3>1. link # "none"
        <4>1. CASE OpenSession \/ OpenRetry
          BY <4>1 DEF OpenSession, OpenRetry, Exchange
        <4>2. CASE CloseStale
          BY <4>2 DEF CloseStale, Exchange
        <4>3. CASE Reset
          BY <2>2, <4>3 DEF Reset, Opened, Continue, CloseAndFail, Return
        <4>4. QED
          BY <1>2, <4>1, <4>2, <4>3
      <3>2. QED
        BY <2>1, <2>2, <3>1 DEF Opened, Continue
    <2>3. CASE CloseAndFail
      BY <2>1, <2>3 DEF CloseAndFail, Return, structVars
    <2>4. CASE pc' \in OpeningSteps /\ UNCHANGED <<link, structVars>>
      BY <2>1, <2>4 DEF structVars
    <2>5. QED
      BY <1>2, <2>2, <2>3, <2>4
         DEF OpenSession, CloseStale, Reset, OpenRetry, Continue
  <1>3. CASE GetDeviceInfo
    BY <1>3 DEF GetDeviceInfo, Return
  <1>4. CASE GetProfile
    <2>1. pc = "GetProfile" /\ pc' \in {"idle", "SetProfile"}
      BY <1>4 DEF GetProfile, Begin, Return
    <2>2. UNCHANGED <<link, sessionOpen>>
      BY <1>4 DEF GetProfile
    <2>3. \/ UNCHANGED <<baseProfile, rafLoaded>>
          \/ baseProfile' # Nil /\ rafLoaded' /\ link # "none"
      BY <1>4 DEF GetProfile, NewBase, Exchange, EndsAs, Outcome
    <2>4. QED
      BY <2>1, <2>2, <2>3
  <1>5. CASE \/ SendObjectInfo \/ SendObject2 \/ SetProfile \/ Snapshot \/ Trigger
             \/ Poll \/ Sleep \/ Deadline \/ GetObject \/ DeleteObject
    <2>1. pc \notin OpeningSteps /\ pc' \notin OpeningSteps
      BY <1>5 DEF SendObjectInfo, SendObject2, SetProfile, Snapshot, Trigger,
                  Poll, Sleep, Deadline, GetObject, DeleteObject,
                  ThenOrFail, Continue, Return
    <2>2. UNCHANGED <<link, structVars>>
      BY <1>5 DEF SendObjectInfo, SendObject2, SetProfile, Snapshot, Trigger,
                  Poll, Sleep, Deadline, GetObject, DeleteObject, linkVars
    <2>3. QED
      BY <2>1, <2>2 DEF structVars
  <1>6. CASE Environment
    <2>1. CASE FinishConversion \/ Plug
      <3>1. UNCHANGED <<linkVars, structVars, pc>>
        BY <2>1 DEF FinishConversion, Plug
      <3>2. QED
        BY <3>1 DEF linkVars, structVars
    <2>2. CASE Unplug
      <3>1. link' = "none" <=> link = "none"
        BY <2>2 DEF Unplug
      <3>2. QED
        BY <2>2, <3>1 DEF Unplug, structVars
    <2>3. CASE Restart
      BY <2>3 DEF Restart
    <2>4. QED
      BY <1>6, <2>1, <2>2, <2>3 DEF Environment
  <1>7. CASE UNCHANGED vars
    BY <1>7 DEF vars, linkVars, structVars
  <1>8. QED
    BY <1>1, <1>2, <1>3, <1>4, <1>5, <1>6, <1>7 DEF Next, Operation

(***************************************************************************)
(* Outside Connect an open handle has a session, a loaded RAF implies it,  *)
(* and the RAFLoaded flag and the base profile come and go together.       *)
(***************************************************************************)
THEOREM SessionAgreement == Spec => []SessionAgrees
  <1>1. Init => SessionAgrees
    BY DEF Init, SessionAgrees, OpeningSteps
  <1>2. TypeOK /\ SessionAgrees /\ [Next]_vars => SessionAgrees'
    BY AgreesStep
  <1>3. QED
    BY <1>1, <1>2, TypeCorrect, PTL DEF Spec

\* Steps that touch neither the session flags nor the camera's session.
LEMMA TruthKept ==
  ASSUME SessionTruth, UNCHANGED sessionOpen, synced' => synced,
         link' = "live" => link = "live", cam'.session = cam.session
  PROVE  SessionTruth'
  BY DEF SessionTruth

LEMMA TruthStep ==
  ASSUME TypeOK, SessionAgrees, SessionTruth, [Next]_vars
  PROVE  SessionTruth'
  <1>1. CASE ConnectOpens
    BY <1>1 DEF ConnectOpens, structVars, SessionAgrees, SessionTruth
  <1>2. CASE DisconnectCall
    BY <1>2 DEF DisconnectCall, Forget, SessionTruth
  <1>3. CASE \/ \E r \in RAFs : LoadCall(r)
             \/ \E e \in Edits : ReconvertCall(e)
             \/ \E p \in Profile : ReconvertRawCall(p)
    BY <1>3, TruthKept DEF LoadCall, ReconvertCall, ReconvertRawCall, linkVars, structVars
  <1>4. CASE OpenSession
    <2>1. PICK o \in Outcome, did \in BOOLEAN :
            /\ Exchange(o, did, ~cam.session)
            /\ cam' = [cam EXCEPT !.session = @ \/ did]
            /\ \/ o = "ok" /\ Opened
               \/ Continue("CloseStale") /\ UNCHANGED <<link, structVars>>
               \/ CloseAndFail
      BY <1>4 DEF OpenSession
    <2>2. CASE o = "ok" /\ Opened
      <3>1. synced' => did
        BY <2>1, <2>2, CamBooleans, ExchangeFacts DEF TypeOK
      <3>2. QED
        BY <2>1, <3>1 DEF SessionTruth, TypeOK, CameraType, Device
    <2>3. CASE Continue("CloseStale") /\ UNCHANGED <<link, structVars>>
      BY <1>4, <2>3 DEF OpenSession, structVars, SessionAgrees, OpeningSteps, SessionTruth
    <2>4. CASE CloseAndFail
      BY <2>4 DEF CloseAndFail, SessionTruth
    <2>5. QED
      BY <2>1, <2>2, <2>3, <2>4
  <1>5. CASE CloseStale \/ Reset
    <2>1. ~sessionOpen' \/ link' = "none"
      BY <1>5 DEF CloseStale, Reset, CloseAndFail, structVars, SessionAgrees, OpeningSteps
    <2>2. QED
      BY <2>1 DEF SessionTruth
  <1>6. CASE OpenRetry
    <2>1. PICK o \in Outcome, did \in BOOLEAN :
            /\ Exchange(o, did, ~cam.session)
            /\ cam' = [cam EXCEPT !.session = @ \/ did]
            /\ \/ o = "ok" /\ Opened
               \/ CloseAndFail
      BY <1>6 DEF OpenRetry
    <2>2. CASE o = "ok" /\ Opened
      <3>1. synced' => did
        BY <2>1, <2>2, CamBooleans, ExchangeFacts DEF TypeOK
      <3>2. QED
        BY <2>1, <3>1 DEF SessionTruth, TypeOK, CameraType, Device
    <2>3. CASE CloseAndFail
      BY <2>3 DEF CloseAndFail, SessionTruth
    <2>4. QED
      BY <2>1, <2>2, <2>3
  <1>7. CASE \/ GetDeviceInfo \/ SendObjectInfo \/ SendObject2 \/ GetProfile
             \/ SetProfile \/ Snapshot \/ Trigger
             \/ Poll \/ Sleep \/ Deadline \/ GetObject \/ DeleteObject
    <2>1. UNCHANGED <<link, sessionOpen>>
      BY <1>7 DEF GetDeviceInfo, SendObjectInfo, SendObject2, GetProfile, SetProfile,
                  Snapshot, Trigger, Poll, Sleep, Deadline, GetObject, DeleteObject,
                  linkVars, structVars
    <2>2. cam'.session = cam.session
      BY <1>7 DEF GetDeviceInfo, SendObjectInfo, SendObject2, GetProfile, SetProfile,
                  Snapshot, Trigger, Poll, Sleep, Deadline, GetObject, DeleteObject,
                  Uploaded, TypeOK, CameraType, Device
    <2>3. synced' => synced
      BY <1>7 DEF GetDeviceInfo, SendObjectInfo, SendObject2, GetProfile, SetProfile,
                  Snapshot, Trigger, Poll, Sleep, Deadline, GetObject, DeleteObject,
                  Exchange, EndsAs, linkVars
    <2>4. QED
      BY <2>1, <2>2, <2>3, TruthKept
  <1>8. CASE FinishConversion
    BY <1>8, TruthKept DEF FinishConversion, linkVars, structVars
  <1>9. CASE Unplug
    BY <1>9 DEF Unplug, SessionTruth
  <1>10. CASE Plug
    BY <1>10, TruthKept DEF Plug, linkVars, structVars, TypeOK, CameraType, Device
  <1>11. CASE Restart
    BY <1>11 DEF Restart, SessionTruth
  <1>12. CASE UNCHANGED vars
    BY <1>12, TruthKept DEF vars, linkVars, structVars
  <1>13. QED
    BY <1>1, <1>2, <1>3, <1>4, <1>5, <1>6, <1>7, <1>8, <1>9, <1>10, <1>11, <1>12
       DEF Next, Handler, Operation, Environment

(***************************************************************************)
(* While the camera is there and every answer was its own, an open session *)
(* in the daemon is an open session in the camera.                         *)
(***************************************************************************)
THEOREM SessionTruthfulness == Spec => []SessionTruth
  <1>1. Init => SessionTruth
    BY DEF Init, SessionTruth
  <1>2. TypeOK /\ SessionAgrees /\ SessionTruth /\ [Next]_vars => SessionTruth'
    BY TruthStep
  <1>3. QED
    BY <1>1, <1>2, TypeCorrect, SessionAgreement, PTL DEF Spec
=============================================================================
