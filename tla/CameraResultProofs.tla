----------------------- MODULE CameraResultProofs -----------------------
(***************************************************************************)
(* The JPEG a conversion call returns: that it is a result, that it was    *)
(* not handed out before, and that it is the call's own.                   *)
(***************************************************************************)
EXTENDS CameraSessionProofs

-----------------------------------------------------------------------------
(* The inductive invariant.                                                *)

\* The camera is there and every answer so far was the command's own.
Kept == link = "live" /\ synced

\* Conversions are numbered in the order they start.
Numbered ==
    /\ \A j \in running : j.conv \in 1..nconv
    /\ \A h \in Handles : obj[h] \in Job => obj[h].conv \in 1..nconv
    /\ delivered \subseteq 1..nconv

\* A conversion that runs is one, has left no object and was not delivered.
RunningApart ==
    /\ \A j, k \in running : j.conv = k.conv => j = k
    /\ \A j \in running, h \in Handles : obj[h] \in Job => obj[h].conv # j.conv
    /\ \A j \in running : j.conv \notin delivered

\* So is the conversion whose JPEG the daemon holds.
JpegDone ==
    jpeg \in Job => jpeg.conv \in 1..nconv /\ \A j \in running : j.conv # jpeg.conv

\* After the snapshot, an object outside the skip set is an undelivered result.
Undelivered(h) == obj[h] = Nil \/ (obj[h] \in Job /\ obj[h].conv \notin delivered)
Skipping ==
    (Kept /\ snapOK /\ pc \in {"Trigger"} \cup ResultSteps)
        => \A h \in Handles \ skip : Undelivered(h)

\* The handle chosen for download is outside the skip set and has its object.
TargetChosen ==
    (Kept /\ snapOK /\ pc \in {"GetObject", "DeleteObject"})
        => target \in Handles \ skip /\ obj[target] # Nil

JpegUndelivered ==
    (pc = "DeleteObject" /\ Informed) => jpeg \in Job /\ jpeg.conv \notin delivered

\* The camera's workspace and register are what the call has set them to.
LoadAsked == cam.raf = call.raf /\ call.prof = BaseOf(call.raf)
Requested ==
    Kept =>
        /\ pc = "GetProfile" => cam.raf = call.raf /\ cam.d185 = BaseOf(call.raf)
        /\ pc \in ConvertSteps /\ call.to = "load" => LoadAsked
        /\ pc \in {"Snapshot", "Trigger"} => cam.d185 = call.prof

\* A job of the call in progress.
Mine(j) ==
    /\ j.conv = own
    /\ j.prof = call.prof
    /\ call.to = "load" => j.raf = call.raf /\ j.prof = BaseOf(call.raf)

\* With nothing running at the snapshot, whatever is new is the call's own.
OnlyMine ==
    (Kept /\ snapOK /\ ~late) =>
        /\ pc = "Trigger" => running = {} /\ \A h \in Handles \ skip : obj[h] = Nil
        /\ pc \in ResultSteps =>
              /\ \A j \in running : Mine(j)
              /\ \A h \in Handles \ skip : obj[h] \in Job => Mine(obj[h])

JpegMine == (pc = "DeleteObject" /\ Informed /\ ~late) => Mine(jpeg)

\* From SetProfile on, the Camera struct says that a RAF is loaded.
RafThere == pc \in ConvertSteps \cup ResultSteps => rafLoaded

\* The loaded RAF is the one whose profile was read, unless an upload came since.
Workspace == (Kept /\ rafLoaded /\ ~unread) => cam.raf \in {baseProfile.raf, Nil}

\* With nothing running at the snapshot, whatever is new is of that RAF.
OnlyLoaded ==
    (Kept /\ snapOK /\ ~late /\ ~unread /\ pc \in ResultSteps) =>
        /\ \A j \in running : j.raf = baseProfile.raf
        /\ \A h \in Handles \ skip : obj[h] \in Job => obj[h].raf = baseProfile.raf

StoreInv == Numbered /\ RunningApart /\ JpegDone
CallInv == Skipping /\ TargetChosen /\ JpegUndelivered /\ Requested /\ OnlyMine /\ JpegMine
LoadedInv == RafThere /\ Workspace /\ OnlyLoaded /\ ConvertsLoadedRaf
ResultInv == StoreInv /\ CallInv /\ LoadedInv

-----------------------------------------------------------------------------
(* The camera's store: StoreInv.                                           *)

LEMMA ConvIsPositive == \A j \in Job : j.conv \in 1..MaxConversions
  BY DEF Job

LEMMA NilIsNoJob == Nil \notin Job
  BY SessionAssumption

LEMMA StoreKept ==
  ASSUME StoreInv, UNCHANGED <<obj, running, nconv, delivered>>,
         jpeg' = jpeg \/ jpeg' = Nil
  PROVE  StoreInv'
  BY NilIsNoJob DEF StoreInv, Numbered, RunningApart, JpegDone

\* A step that adds no job to the store keeps the bookkeeping.
LEMMA StoreShrinks ==
  ASSUME StoreInv, running' \subseteq running, nconv' = nconv,
         \A h \in Handles : obj'[h] \in Job => obj'[h] = obj[h],
         delivered' \subseteq delivered \cup {j.conv : j \in {jpeg} \cap Job},
         jpeg' = jpeg \/ jpeg' = Nil
  PROVE  StoreInv'
  <1> USE NilIsNoJob DEF StoreInv, Numbered, RunningApart, JpegDone
  <1>1. Numbered'
    OBVIOUS
  <1>2. RunningApart'
    OBVIOUS
  <1>3. JpegDone'
    OBVIOUS
  <1>4. QED
    BY <1>1, <1>2, <1>3

LEMMA TriggerStore ==
  ASSUME TypeOK, StoreInv, Started, UNCHANGED <<obj, delivered>>,
         jpeg' = jpeg \/ jpeg' = Nil
  PROVE  StoreInv'
  <1> DEFINE new == [conv |-> nconv + 1, raf |-> cam.raf, prof |-> cam.d185]
  <1>1. nconv \in Nat /\ nconv' = nconv + 1 /\ running' = running \cup {new}
        /\ new.conv = nconv + 1
    BY SessionAssumption DEF Started, TypeOK, CameraType
  <1> HIDE DEF new
  <1>2. \A i \in 1..nconv : i \in 1..(nconv + 1) /\ i # nconv + 1
    BY <1>1
  <1>3. Numbered'
    BY <1>1, <1>2 DEF StoreInv, Numbered
  <1>4. RunningApart'
    BY <1>1, <1>2 DEF StoreInv, Numbered, RunningApart
  <1>5. JpegDone'
    BY <1>1, <1>2, NilIsNoJob DEF StoreInv, JpegDone
  <1>6. QED
    BY <1>3, <1>4, <1>5 DEF StoreInv

LEMMA FinishStore ==
  ASSUME TypeOK, StoreInv, FinishConversion
  PROVE  StoreInv'
  <1>1. PICK job \in running, h \in Handles :
          /\ obj[h] = Nil
          /\ obj' = [obj EXCEPT ![h] = job]
          /\ running' = running \ {job}
    BY DEF FinishConversion
  <1>2. \A k \in Handles : obj'[k] = job \/ obj'[k] = obj[k]
    BY <1>1 DEF TypeOK, CameraType
  <1>3. UNCHANGED <<nconv, delivered, jpeg>>
    BY DEF FinishConversion, localVars
  <1>4. Numbered'
    BY <1>1, <1>2, <1>3 DEF StoreInv, Numbered
  <1>5. RunningApart'
    BY <1>1, <1>2, <1>3 DEF StoreInv, RunningApart
  <1>6. JpegDone'
    BY <1>1, <1>3 DEF StoreInv, JpegDone
  <1>7. QED
    BY <1>4, <1>5, <1>6 DEF StoreInv

LEMMA StoreStep ==
  ASSUME TypeOK, LocalShape, StoreInv, [Next]_vars
  PROVE  StoreInv'
  <1>1. CASE Handler
    BY <1>1, StoreKept DEF Handler, ConnectOpens, DisconnectCall, LoadCall, ReconvertCall,
                           ReconvertRawCall, Begin, localVars, storeVars
  <1>2. CASE OpenSession \/ CloseStale \/ Reset \/ OpenRetry \/ GetDeviceInfo
    <2>1. UNCHANGED <<storeVars, delivered>>
      BY <1>2 DEF OpenSession, CloseStale, Reset, OpenRetry, GetDeviceInfo
    <2>2. jpeg' = jpeg \/ jpeg' = Nil
      BY <1>2 DEF OpenSession, CloseStale, Reset, OpenRetry, GetDeviceInfo,
                  Opened, CloseAndFail, Continue, Return, localVars
    <2>3. QED
      BY <2>1, <2>2, StoreKept DEF storeVars
  <1>3. CASE SendObjectInfo \/ GetProfile \/ SetProfile \/ Snapshot
    <2>1. UNCHANGED <<obj, running, nconv, delivered>>
      BY <1>3 DEF SendObjectInfo, GetProfile, SetProfile, Snapshot, storeVars
    <2>2. jpeg' = jpeg \/ jpeg' = Nil
      BY <1>3 DEF SendObjectInfo, GetProfile, SetProfile, Snapshot,
                  ThenOrFail, Begin, Continue, Return, localVars
    <2>3. QED
      BY <2>1, <2>2, StoreKept DEF storeVars
  <1>4. CASE SendObject2
    <2>1. jpeg' = jpeg \/ jpeg' = Nil
      BY <1>4 DEF SendObject2, ThenOrFail, Continue, Return, localVars
    <2>2. UNCHANGED <<running, nconv, delivered>>
      BY <1>4 DEF SendObject2
    <2>3. CASE UNCHANGED obj
      BY <2>1, <2>2, <2>3, StoreShrinks
    <2>4. ASSUME NEW h \in Handles, Uploaded(call.raf, h) PROVE StoreInv'
      <3>1. \A k \in Handles : obj'[k] \in Job => obj'[k] = obj[k]
        BY <2>4, SessionAssumption DEF Uploaded
      <3>2. QED
        BY <2>1, <2>2, <3>1, StoreShrinks
    <2>5. QED
      BY <1>4, <2>3, <2>4 DEF SendObject2
  <1>5. CASE Trigger
    <2>1. jpeg' = jpeg \/ jpeg' = Nil
      BY <1>5 DEF Trigger, Return
    <2>2. UNCHANGED <<obj, delivered>> /\ (Started \/ UNCHANGED <<running, nconv>>)
      BY <1>5 DEF Trigger
    <2>3. QED
      BY <2>1, <2>2, TriggerStore, StoreKept
  <1>6. CASE Poll \/ Sleep \/ Deadline
    <2>1. UNCHANGED <<storeVars, delivered>>
      BY <1>6 DEF Poll, Sleep, Deadline
    <2>2. jpeg' = jpeg \/ jpeg' = Nil
      BY <1>6 DEF Poll, Sleep, Deadline, Continue, Return, localVars
    <2>3. QED
      BY <2>1, <2>2, StoreKept DEF storeVars
  <1>7. CASE GetObject
    <2>1. UNCHANGED <<storeVars, delivered>>
      BY <1>7 DEF GetObject
    <2>2. jpeg' = obj[target] \/ jpeg' = Nil
      BY <1>7 DEF GetObject, Return
    <2>3. target \in Handles
      BY <1>7 DEF GetObject, LocalShape
    <2>4. QED
      BY <2>1, <2>2, <2>3, NilIsNoJob
         DEF StoreInv, Numbered, RunningApart, JpegDone, storeVars
  <1>8. CASE DeleteObject
    <2>1. target \in Handles
      BY <1>8 DEF DeleteObject, LocalShape
    <2>2. \A h \in Handles : obj'[h] \in Job => obj'[h] = obj[h]
      BY <1>8, <2>1, NilIsNoJob DEF DeleteObject, TypeOK, CameraType
    <2>3. delivered' \subseteq delivered \cup {j.conv : j \in {jpeg} \cap Job}
      BY <1>8 DEF DeleteObject, TypeOK, LocalType
    <2>4. UNCHANGED <<running, nconv>> /\ jpeg' = Nil
      BY <1>8 DEF DeleteObject, Return
    <2>5. QED
      BY <2>2, <2>3, <2>4, StoreShrinks
  <1>9. CASE FinishConversion
    BY <1>9, FinishStore
  <1>10. CASE Unplug
    <2>1. \A h \in Handles : obj'[h] \in Job => obj'[h] = obj[h]
      BY <1>10, NilIsNoJob DEF Unplug
    <2>2. running' \subseteq running /\ UNCHANGED <<nconv, delivered, jpeg>>
      BY <1>10 DEF Unplug, localVars
    <2>3. QED
      BY <2>1, <2>2, StoreShrinks
  <1>11. CASE Plug \/ Restart
    BY <1>11, StoreKept DEF Plug, Restart, localVars, storeVars
  <1>12. CASE UNCHANGED vars
    BY <1>12, StoreKept DEF vars, localVars, storeVars
  <1>13. QED
    BY <1>1, <1>2, <1>3, <1>4, <1>5, <1>6, <1>7, <1>8, <1>9, <1>10, <1>11, <1>12
       DEF Next, Operation, Environment

-----------------------------------------------------------------------------
(* The call in progress: CallInv.                                          *)

\* The steps at which CallInv says something.
Busy == {"GetProfile"} \cup ConvertSteps \cup ResultSteps

LEMMA QuietStep == pc' \notin Busy => CallInv'
  BY DEF Busy, CallInv, Skipping, TargetChosen, JpegUndelivered, Requested, OnlyMine,
         JpegMine, ConvertSteps, ResultSteps

LEMMA CallKept ==
  ASSUME CallInv, UNCHANGED <<pc, localVars, storeVars, delivered>>,
         link' = link, synced' = synced, cam'.raf = cam.raf, cam'.d185 = cam.d185
  PROVE  CallInv'
  BY DEF CallInv, Skipping, TargetChosen, JpegUndelivered, Requested, OnlyMine,
         JpegMine, Kept, Informed, Undelivered, LoadAsked, Mine, localVars, storeVars

\* The handlers: a reconvert starts with SetProfile and asks for no RAF.
LEMMA HandlerCall ==
  ASSUME CallInv, Handler
  PROVE  CallInv'
  <1>1. CASE ConnectOpens \/ DisconnectCall \/ \E r \in RAFs : LoadCall(r)
    <2>1. pc' \notin Busy
      BY <1>1 DEF ConnectOpens, DisconnectCall, LoadCall, Begin, Ready, Busy,
                  ConvertSteps, ResultSteps
    <2>2. QED
      BY <2>1, QuietStep
  <1>2. CASE \/ \E e \in Edits : ReconvertCall(e)
             \/ \E p \in Profile : ReconvertRawCall(p)
    <2>1. pc' = "SetProfile" /\ call'.to # "load"
      BY <1>2 DEF ReconvertCall, ReconvertRawCall, Begin
    <2>2. QED
      BY <2>1 DEF CallInv, Skipping, TargetChosen, JpegUndelivered, Requested, OnlyMine,
                  JpegMine, ConvertSteps, ResultSteps
  <1>3. QED
    BY <1>1, <1>2 DEF Handler

LEMMA SendObject2Call ==
  ASSUME TypeOK, SendObject2
  PROVE  CallInv'
  <1>1. PICK o \in Outcome, did \in BOOLEAN :
          /\ Exchange(o, did, CanConvert)
          /\ \/ did /\ \E h \in Handles : Uploaded(call.raf, h)
             \/ ~did /\ UNCHANGED <<cam, obj, unread>>
          /\ ThenOrFail(o, "GetProfile")
    BY DEF SendObject2
  <1>2. CASE o # "ok"
    <2>1. pc' \notin Busy
      BY <1>1, <1>2 DEF ThenOrFail, Return, Busy, ConvertSteps, ResultSteps
    <2>2. QED
      BY <2>1, QuietStep
  <1>3. CASE o = "ok"
    <2>1. pc' = "GetProfile" /\ call' = call
      BY <1>1, <1>3 DEF ThenOrFail, Continue, localVars
    <2>2. Kept' => cam'.raf = call.raf /\ cam'.d185 = BaseOf(call.raf)
      <3>1. Kept' => did
        BY <1>1, <1>3, CamBooleans, ExchangeFacts DEF Kept, TypeOK
      <3>2. QED
        BY <1>1, <3>1 DEF Uploaded, TypeOK, CameraType, Device
    <2>3. QED
      BY <2>1, <2>2 DEF CallInv, Skipping, TargetChosen, JpegUndelivered, Requested,
                        OnlyMine, JpegMine, ConvertSteps, ResultSteps
  <1>4. QED
    BY <1>2, <1>3

LEMMA GetProfileCall ==
  ASSUME TypeOK, LocalShape, CallInv, GetProfile
  PROVE  CallInv'
  <1>1. PICK o \in Outcome, did \in BOOLEAN, p \in Profile \cup {Nil} :
          /\ Exchange(o, did, CanConvert)
          /\ did => p = cam.d185
          /\ \/ /\ o = "ok" /\ p # Nil
                /\ baseProfile' = p /\ rafLoaded' = TRUE
                /\ Begin(call.to, call.raf, p, "SetProfile")
             \/ /\ o # "ok" \/ p = Nil
                /\ Return
                /\ UNCHANGED <<baseProfile, rafLoaded>>
    BY DEF GetProfile, NewBase
  <1>2. CASE Return
    <2>1. pc' \notin Busy
      BY <1>2 DEF Return, Busy, ConvertSteps, ResultSteps
    <2>2. QED
      BY <2>1, QuietStep
  <1>3. CASE o = "ok" /\ Begin(call.to, call.raf, p, "SetProfile")
    <2>1. pc' = "SetProfile" /\ call'.raf = call.raf /\ call'.prof = p
      BY <1>3 DEF Begin
    <2>2. Kept' => Kept /\ did
      <3>1. link' = link
        BY DEF GetProfile
      <3>2. QED
        BY <1>1, <1>3, <3>1, CamBooleans, ExchangeFacts DEF Kept, TypeOK
    <2>3. Kept' => cam'.raf = call'.raf /\ call'.prof = BaseOf(call'.raf)
      BY <1>1, <2>1, <2>2 DEF GetProfile, CallInv, Requested
    <2>4. QED
      BY <2>1, <2>3 DEF CallInv, Skipping, TargetChosen, JpegUndelivered, Requested,
                        OnlyMine, JpegMine, LoadAsked, ConvertSteps, ResultSteps
  <1>4. QED
    BY <1>1, <1>2, <1>3

LEMMA SetProfileCall ==
  ASSUME TypeOK, CallInv, SetProfile
  PROVE  CallInv'
  <1>1. PICK o \in Outcome, did \in BOOLEAN :
          /\ Exchange(o, did, CanConvert)
          /\ cam' = IF did THEN [cam EXCEPT !.d185 = Sent] ELSE cam
          /\ ThenOrFail(o, "Snapshot")
    BY DEF SetProfile
  <1>2. CASE o # "ok"
    <2>1. pc' \notin Busy
      BY <1>1, <1>2 DEF ThenOrFail, Return, Busy, ConvertSteps, ResultSteps
    <2>2. QED
      BY <2>1, QuietStep
  <1>3. CASE o = "ok"
    <2>1. pc' = "Snapshot" /\ call' = call
      BY <1>1, <1>3 DEF ThenOrFail, Continue, localVars
    <2>2. Kept' => Kept /\ did
      <3>1. link' = link
        BY DEF SetProfile
      <3>2. QED
        BY <1>1, <1>3, <3>1, CamBooleans, ExchangeFacts DEF Kept, TypeOK
    <2>3. Kept' => cam'.d185 = call.prof /\ cam'.raf = cam.raf
      BY <1>1, <2>2 DEF Sent, TypeOK, CameraType, Device
    <2>4. Kept' /\ call.to = "load" => cam.raf = call.raf /\ call.prof = BaseOf(call.raf)
      BY <2>2 DEF SetProfile, CallInv, Requested, LoadAsked, ConvertSteps
    <2>5. QED
      BY <2>1, <2>3, <2>4 DEF CallInv, Skipping, TargetChosen, JpegUndelivered,
         Requested, OnlyMine, JpegMine, LoadAsked, ConvertSteps, ResultSteps
  <1>4. QED
    BY <1>2, <1>3

LEMMA SnapshotCall ==
  ASSUME TypeOK, CallInv, Snapshot
  PROVE  CallInv'
  <1>1. PICK o \in Outcome, did \in BOOLEAN :
          /\ Exchange(o, did, InSession)
          /\ \/ /\ skip' \in IF o = "ok" THEN Listing(did) ELSE {{}}
                /\ snapOK' = (o = "ok") /\ late' = (running # {})
                /\ pc' = "Trigger"
                /\ UNCHANGED <<call, polls, target, jpeg, own>>
             \/ o = "ok" /\ ~did /\ Return
    BY DEF Snapshot
  <1>2. pc = "Snapshot" /\ UNCHANGED <<link, cam, obj, running, delivered>>
    BY DEF Snapshot, storeVars
  <1>3. CASE Return
    <2>1. pc' \notin Busy
      BY <1>3 DEF Return, Busy, ConvertSteps, ResultSteps
    <2>2. QED
      BY <2>1, QuietStep
  <1>4. CASE /\ skip' \in IF o = "ok" THEN Listing(did) ELSE {{}}
             /\ snapOK' = (o = "ok") /\ late' = (running # {})
             /\ pc' = "Trigger"
             /\ UNCHANGED <<call, polls, target, jpeg, own>>
    <2>1. Kept' => Kept
      BY <1>1, <1>2, CamBooleans, ExchangeFacts DEF Kept, TypeOK
    <2>2. Kept' /\ snapOK' => \A h \in Handles \ skip' : obj'[h] = Nil
      <3>1. Kept' /\ snapOK' => o = "ok" /\ did
        BY <1>1, <1>4, CamBooleans, ExchangeFacts DEF Kept, TypeOK
      <3>2. Kept' /\ snapOK' => skip' = Listed
        BY <1>4, <3>1 DEF Listing
      <3>3. QED
        BY <1>2, <3>2 DEF Listed
    <2>3. Requested'
      BY <1>2, <1>4, <2>1 DEF CallInv, Requested, LoadAsked, ConvertSteps
    <2>4. QED
      BY <1>2, <1>4, <2>2, <2>3 DEF CallInv, Skipping, TargetChosen, JpegUndelivered,
         OnlyMine, JpegMine, Undelivered, ResultSteps
  <1>5. QED
    BY <1>1, <1>3, <1>4

LEMMA TriggerCall ==
  ASSUME TypeOK, CallInv, Trigger
  PROVE  CallInv'
  <1> DEFINE Able == CanConvert /\ cam.raf # Nil /\ cam.d185 # Nil
                        /\ nconv < MaxConversions
  <1> DEFINE new == [conv |-> nconv + 1, raf |-> cam.raf, prof |-> cam.d185]
  <1>1. PICK o \in Outcome, did \in BOOLEAN :
          /\ Exchange(o, did, Able)
          /\ \/ did /\ running' = running \cup {new}
             \/ ~did /\ UNCHANGED <<running, nconv>>
          /\ \/ /\ o = "ok"
                /\ own' = IF did THEN nconv + 1 ELSE 0
                /\ pc' = "Poll"
                /\ UNCHANGED <<call, skip, polls, target, jpeg, snapOK, late>>
             \/ o # "ok" /\ Return
    BY DEF Trigger, Started
  <1>2. new.conv = nconv + 1 /\ new.raf = cam.raf /\ new.prof = cam.d185
    OBVIOUS
  <1> HIDE DEF new
  <1>3. CASE Return
    <2>1. pc' \notin Busy
      BY <1>3 DEF Return, Busy, ConvertSteps, ResultSteps
    <2>2. QED
      BY <2>1, QuietStep
  <1>4. CASE /\ o = "ok"
             /\ own' = IF did THEN nconv + 1 ELSE 0
             /\ pc' = "Poll"
             /\ UNCHANGED <<call, skip, polls, target, jpeg, snapOK, late>>
    <2>1. pc = "Trigger" /\ UNCHANGED <<link, cam, obj, delivered>>
      BY DEF Trigger
    <2>2. Kept' => Kept /\ did
      <3>1. Able \in BOOLEAN
        OBVIOUS
      <3> HIDE DEF Able
      <3>2. QED
        BY <1>1, <1>4, <2>1, <3>1, ExchangeFacts DEF Kept, TypeOK
    <2>3. Skipping'
      BY <1>4, <2>1, <2>2 DEF CallInv, Skipping, Undelivered
    <2>4. OnlyMine'
      <3>1. SUFFICES ASSUME Kept', snapOK', ~late'
                     PROVE  /\ \A j \in running' : Mine(j)'
                            /\ \A h \in Handles \ skip' : obj'[h] = Nil
        BY <1>4, NilIsNoJob DEF OnlyMine
      <3>2. Kept /\ did /\ snapOK /\ ~late
        BY <1>4, <2>2, <3>1
      <3>3. running = {} /\ \A h \in Handles \ skip : obj[h] = Nil
        BY <2>1, <3>2 DEF CallInv, OnlyMine
      <3>4. running' = {new}
        BY <1>1, <3>2, <3>3
      <3>5. /\ cam.d185 = call.prof
            /\ call.to = "load" => cam.raf = call.raf /\ call.prof = BaseOf(call.raf)
        BY <2>1, <3>2 DEF CallInv, Requested, LoadAsked, ConvertSteps
      <3>6. ASSUME NEW j \in running' PROVE Mine(j)'
        BY <1>2, <1>4, <2>1, <3>2, <3>4, <3>5 DEF Mine
      <3>7. QED
        BY <1>4, <2>1, <3>3, <3>6
    <2>5. QED
      BY <1>4, <2>3, <2>4 DEF CallInv, TargetChosen, JpegUndelivered, Requested,
         JpegMine, ConvertSteps
  <1>5. QED
    BY <1>1, <1>3, <1>4

LEMMA PollCall ==
  ASSUME TypeOK, CallInv, Poll
  PROVE  CallInv'
  <1>1. PICK o \in Outcome, did \in BOOLEAN :
          /\ Exchange(o, did, InSession)
          /\ \/ (o # "ok" \/ ~did) /\ Return
             \/ /\ o = "ok"
                /\ \E list \in Listing(did) :
                      \/ Fresh(list) = {} /\ Continue("Sleep")
                      \/ /\ target' \in Fresh(list)
                         /\ pc' = "GetObject"
                         /\ UNCHANGED <<call, skip, polls, jpeg, own, snapOK, late>>
    BY DEF Poll
  <1>2. pc = "Poll" /\ UNCHANGED <<link, cam, obj, running, delivered>>
    BY DEF Poll, storeVars
  <1>3. CASE Return
    <2>1. pc' \notin Busy
      BY <1>3 DEF Return, Busy, ConvertSteps, ResultSteps
    <2>2. QED
      BY <2>1, QuietStep
  <1>4. ASSUME o = "ok", NEW list \in Listing(did),
               \/ Fresh(list) = {} /\ Continue("Sleep")
               \/ /\ target' \in Fresh(list)
                  /\ pc' = "GetObject"
                  /\ UNCHANGED <<call, skip, polls, jpeg, own, snapOK, late>>
        PROVE  CallInv'
    <2>1. Kept' => Kept /\ did
      BY <1>1, <1>2, <1>4, CamBooleans, ExchangeFacts DEF Kept, TypeOK
    <2>2. pc' \in {"Sleep", "GetObject"} /\ UNCHANGED <<call, skip, own, snapOK, late>>
      BY <1>4 DEF Continue, localVars
    <2>3. Skipping'
      BY <1>2, <2>1, <2>2 DEF CallInv, Skipping, Undelivered, ResultSteps
    <2>4. OnlyMine'
      <3>1. SUFFICES ASSUME Kept', snapOK', ~late'
                     PROVE  /\ \A j \in running' : Mine(j)'
                            /\ \A h \in Handles \ skip' : obj'[h] \in Job => Mine(obj[h])'
        BY <2>2 DEF OnlyMine
      <3>2. /\ \A j \in running : Mine(j)
            /\ \A h \in Handles \ skip : obj[h] \in Job => Mine(obj[h])
        BY <1>2, <2>1, <2>2, <3>1 DEF CallInv, OnlyMine, ResultSteps
      <3>3. QED
        BY <1>2, <2>2, <3>2 DEF Mine
    <2>5. TargetChosen'
      <3>1. SUFFICES ASSUME Kept', pc' = "GetObject"
                     PROVE  target' \in Handles \ skip' /\ obj'[target'] # Nil
        BY <2>2 DEF TargetChosen
      <3>2. list = Listed /\ target' \in Fresh(list)
        BY <1>4, <2>1, <3>1 DEF Listing, Continue
      <3>3. QED
        BY <1>2, <2>2, <3>2 DEF Listed, Fresh
    <2>6. QED
      BY <2>2, <2>3, <2>4, <2>5 DEF CallInv, JpegUndelivered, Requested, JpegMine,
                                    ConvertSteps
  <1>5. QED
    BY <1>1, <1>3, <1>4

LEMMA SleepCall ==
  ASSUME CallInv, Sleep
  PROVE  CallInv'
  <1>1. /\ pc = "Sleep" /\ pc' = "Poll"
        /\ UNCHANGED <<link, synced, call, skip, own, snapOK, late, cam, obj, running,
                       delivered>>
    BY DEF Sleep, linkVars, storeVars
  <1>2. Skipping' /\ OnlyMine'
    BY <1>1 DEF CallInv, Skipping, OnlyMine, Kept, Undelivered, Mine, ResultSteps
  <1>3. QED
    BY <1>1, <1>2 DEF CallInv, TargetChosen, JpegUndelivered, Requested, JpegMine,
                      ConvertSteps

LEMMA GetObjectCall ==
  ASSUME TypeOK, CallInv, GetObject
  PROVE  CallInv'
  <1> DEFINE Able == InSession /\ obj[target] # Nil
  <1>1. PICK o \in Outcome, did \in BOOLEAN :
          /\ Exchange(o, did, Able)
          /\ \/ /\ o = "ok"
                /\ jpeg' = IF did THEN obj[target] ELSE Nil
                /\ pc' = "DeleteObject"
                /\ UNCHANGED <<call, skip, polls, target, own, snapOK, late>>
             \/ o # "ok" /\ Return
    BY DEF GetObject
  <1>2. pc = "GetObject" /\ UNCHANGED <<link, cam, obj, running, delivered>>
    BY DEF GetObject, storeVars
  <1>3. CASE Return
    <2>1. pc' \notin Busy
      BY <1>3 DEF Return, Busy, ConvertSteps, ResultSteps
    <2>2. QED
      BY <2>1, QuietStep
  <1>4. CASE /\ o = "ok"
             /\ jpeg' = IF did THEN obj[target] ELSE Nil
             /\ pc' = "DeleteObject"
             /\ UNCHANGED <<call, skip, polls, target, own, snapOK, late>>
    <2>1. synced' => Kept /\ did
      <3>1. Able \in BOOLEAN
        OBVIOUS
      <3> HIDE DEF Able
      <3>2. QED
        BY <1>1, <1>4, <3>1, ExchangeFacts DEF Kept, TypeOK
    <2>2. Kept' => Kept
      BY <2>1 DEF Kept
    <2>3. Skipping' /\ TargetChosen'
      BY <1>2, <1>4, <2>2 DEF CallInv, Skipping, TargetChosen, Undelivered, ResultSteps
    <2>4. OnlyMine'
      <3>1. SUFFICES ASSUME Kept', snapOK', ~late'
                     PROVE  /\ \A j \in running' : Mine(j)'
                            /\ \A h \in Handles \ skip' : obj'[h] \in Job => Mine(obj[h])'
        BY <1>4 DEF OnlyMine
      <3>2. /\ \A j \in running : Mine(j)
            /\ \A h \in Handles \ skip : obj[h] \in Job => Mine(obj[h])
        BY <1>2, <1>4, <2>2, <3>1 DEF CallInv, OnlyMine, ResultSteps
      <3>3. QED
        BY <1>2, <1>4, <3>2 DEF Mine
    <2>5. JpegUndelivered'
      BY <1>2, <1>4, <2>1
         DEF CallInv, JpegUndelivered, Informed, Skipping, TargetChosen, Undelivered,
             ResultSteps
    <2>6. JpegMine'
      <3>1. SUFFICES ASSUME synced', snapOK', ~late' PROVE Mine(jpeg)'
        BY DEF JpegMine, Informed
      <3>2. obj[target] \in Job /\ target \in Handles \ skip
        BY <1>2, <1>4, <2>1, <3>1 DEF CallInv, Skipping, TargetChosen, Undelivered,
                                      ResultSteps
      <3>3. Mine(obj[target])
        BY <1>2, <1>4, <2>1, <3>1, <3>2 DEF CallInv, OnlyMine, ResultSteps
      <3>4. QED
        BY <1>4, <2>1, <3>1, <3>3 DEF Mine
    <2>7. QED
      BY <1>4, <2>3, <2>4, <2>5, <2>6 DEF CallInv, Requested, ConvertSteps
  <1>5. QED
    BY <1>1, <1>3, <1>4

LEMMA FinishCall ==
  ASSUME TypeOK, StoreInv, CallInv, FinishConversion
  PROVE  CallInv'
  <1>1. PICK job \in running, h \in Handles :
          /\ obj[h] = Nil
          /\ obj' = [obj EXCEPT ![h] = job]
          /\ running' = running \ {job}
    BY DEF FinishConversion
  <1>2. \A k \in Handles : obj'[k] = obj[k] \/ (k = h /\ obj'[k] = job)
    BY <1>1 DEF TypeOK, CameraType
  <1>3. UNCHANGED <<link, synced, pc, cam, delivered, call, skip, target, jpeg, own,
                    snapOK, late>>
    BY DEF FinishConversion, linkVars, localVars
  <1>4. job \in Job /\ job.conv \notin delivered
    BY <1>1 DEF TypeOK, CameraType, StoreInv, RunningApart
  <1>5. Skipping' /\ TargetChosen'
    BY <1>1, <1>2, <1>3, <1>4, NilIsNoJob
       DEF CallInv, Skipping, TargetChosen, Undelivered, Kept
  <1>6. JpegUndelivered' /\ Requested' /\ JpegMine'
    BY <1>3 DEF CallInv, JpegUndelivered, Requested, JpegMine, Informed, Kept, LoadAsked,
                Mine
  <1>7. OnlyMine'
    BY <1>1, <1>2, <1>3, <1>4 DEF CallInv, OnlyMine, Kept, Mine, ResultSteps
  <1>8. QED
    BY <1>5, <1>6, <1>7 DEF CallInv

LEMMA CallStep ==
  ASSUME TypeOK, LocalShape, StoreInv, CallInv, [Next]_vars
  PROVE  CallInv'
  <1>1. CASE Handler
    BY <1>1, HandlerCall
  <1>2. CASE \/ OpenSession \/ CloseStale \/ Reset \/ OpenRetry \/ GetDeviceInfo
             \/ SendObjectInfo \/ Deadline \/ DeleteObject
    <2>1. pc' \in {"idle", "CloseStale", "Reset", "OpenRetry", "GetDeviceInfo",
                   "SendObject2"}
      BY <1>2 DEF OpenSession, CloseStale, Reset, OpenRetry, GetDeviceInfo,
                  SendObjectInfo, Deadline, DeleteObject,
                  ThenOrFail, Opened, CloseAndFail, Continue, Return
    <2>2. QED
      BY <2>1, QuietStep DEF Busy, ConvertSteps, ResultSteps
  <1>3. CASE SendObject2 \/ GetProfile \/ SetProfile \/ Snapshot \/ Trigger
    BY <1>3, SendObject2Call, GetProfileCall, SetProfileCall, SnapshotCall, TriggerCall
  <1>4. CASE Poll \/ Sleep \/ GetObject
    BY <1>4, PollCall, SleepCall, GetObjectCall
  <1>5. CASE FinishConversion
    BY <1>5, FinishCall
  <1>6. CASE Unplug
    <2>1. ~Kept'
      BY <1>6 DEF Unplug, Kept
    <2>2. UNCHANGED <<synced, pc, call, jpeg, own, snapOK, late, delivered>>
      BY <1>6 DEF Unplug, localVars
    <2>3. QED
      BY <2>1, <2>2 DEF CallInv, Skipping, TargetChosen, JpegUndelivered, Requested,
                        OnlyMine, JpegMine, Informed, Mine
  <1>7. CASE Plug
    <2>1. cam'.raf = cam.raf /\ cam'.d185 = cam.d185
      BY <1>7 DEF Plug, TypeOK, CameraType, Device
    <2>2. UNCHANGED <<link, synced, pc, localVars, storeVars, delivered>>
      BY <1>7 DEF Plug, linkVars
    <2>3. QED
      BY <2>1, <2>2, CallKept
  <1>8. CASE Restart
    BY <1>8, QuietStep DEF Restart, Busy, ConvertSteps, ResultSteps
  <1>9. CASE UNCHANGED vars
    BY <1>9, CallKept DEF vars, linkVars
  <1>10. QED
    BY <1>1, <1>2, <1>3, <1>4, <1>5, <1>6, <1>7, <1>8, <1>9
       DEF Next, Operation, Environment

-----------------------------------------------------------------------------
(* The RAF that is loaded: LoadedInv.                                      *)

LEMMA ThereStep ==
  ASSUME RafThere, [Next]_vars
  PROVE  RafThere'
  <1> USE DEF RafThere, ConvertSteps, ResultSteps
  <1>1. CASE Handler
    BY <1>1 DEF Handler, ConnectOpens, DisconnectCall, LoadCall, ReconvertCall,
                ReconvertRawCall, Begin, Ready, structVars
  <1>2. CASE \/ OpenSession \/ CloseStale \/ Reset \/ OpenRetry \/ GetDeviceInfo
             \/ SendObjectInfo \/ SendObject2
    <2>1. pc' \in {"idle", "CloseStale", "Reset", "OpenRetry", "GetDeviceInfo",
                   "SendObject2", "GetProfile"}
      BY <1>2 DEF OpenSession, CloseStale, Reset, OpenRetry, GetDeviceInfo,
                  SendObjectInfo, SendObject2,
                  ThenOrFail, Opened, CloseAndFail, Continue, Return
    <2>2. QED
      BY <2>1
  <1>3. CASE GetProfile
    BY <1>3 DEF GetProfile, Begin, Return
  <1>4. CASE \/ SetProfile \/ Snapshot \/ Trigger
             \/ Poll \/ Sleep \/ Deadline \/ GetObject \/ DeleteObject
    <2>1. pc \in ConvertSteps \cup ResultSteps /\ rafLoaded' = rafLoaded
      BY <1>4 DEF SetProfile, Snapshot, Trigger, Poll, Sleep, Deadline, GetObject,
                  DeleteObject, structVars
    <2>2. QED
      BY <2>1
  <1>5. CASE Environment
    BY <1>5 DEF Environment, FinishConversion, Unplug, Plug, Restart, structVars
  <1>6. CASE UNCHANGED vars
    BY <1>6 DEF vars, structVars
  <1>7. QED
    BY <1>1, <1>2, <1>3, <1>4, <1>5, <1>6 DEF Next, Operation

\* A step that neither loads a RAF nor uploads one keeps the workspace or clears it.
LEMMA WorkspaceKept ==
  ASSUME Workspace, Kept' => Kept, UNCHANGED <<rafLoaded, baseProfile, unread>>,
         cam'.raf \in {cam.raf, Nil}
  PROVE  Workspace'
  BY DEF Workspace

LEMMA WorkspaceStep ==
  ASSUME TypeOK, LocalShape, SessionAgrees, CallInv, Workspace, [Next]_vars
  PROVE  Workspace'
  <1>1. CASE ConnectOpens
    BY <1>1 DEF ConnectOpens, structVars, SessionAgrees, Workspace
  <1>2. CASE DisconnectCall \/ Restart
    BY <1>2 DEF DisconnectCall, Forget, Restart, Workspace
  <1>3. CASE OpenSession \/ CloseStale \/ Reset \/ OpenRetry
    <2>1. UNCHANGED rafLoaded
      BY <1>3 DEF OpenSession, CloseStale, Reset, OpenRetry, Opened, CloseAndFail,
                  structVars
    <2>2. ~rafLoaded
      BY <1>3 DEF OpenSession, CloseStale, Reset, OpenRetry, SessionAgrees, OpeningSteps
    <2>3. QED
      BY <2>1, <2>2 DEF Workspace
  <1>4. CASE SendObject2
    <2>1. UNCHANGED <<link, rafLoaded, baseProfile>>
      BY <1>4 DEF SendObject2, structVars
    <2>2. (synced' => synced) /\ (unread' = TRUE \/ UNCHANGED <<cam, unread>>)
      BY <1>4 DEF SendObject2, Exchange, EndsAs
    <2>3. QED
      BY <2>1, <2>2 DEF Workspace, Kept
  <1>5. CASE GetProfile
    <2>1. PICK o \in Outcome, did \in BOOLEAN, p \in Profile \cup {Nil} :
            /\ Exchange(o, did, CanConvert)
            /\ did => p = cam.d185
            /\ \/ o = "ok" /\ baseProfile' = p /\ unread' = FALSE
               \/ UNCHANGED <<baseProfile, rafLoaded, unread>>
      BY <1>5 DEF GetProfile, NewBase
    <2>2. pc = "GetProfile" /\ UNCHANGED <<link, cam>>
      BY <1>5 DEF GetProfile
    <2>3. (Kept' => Kept) /\ (o = "ok" => (Kept' => did))
      BY <2>1, <2>2, CamBooleans, ExchangeFacts DEF Kept, TypeOK
    <2>4. CASE UNCHANGED <<baseProfile, rafLoaded, unread>>
      BY <2>2, <2>3, <2>4, WorkspaceKept
    <2>5. CASE o = "ok" /\ baseProfile' = p /\ unread' = FALSE
      <3>1. Kept' => cam.raf = call.raf /\ p = BaseOf(call.raf)
        BY <2>1, <2>2, <2>3, <2>5 DEF CallInv, Requested
      <3>2. BaseOf(call.raf).raf = call.raf
        BY DEF BaseOf
      <3>3. QED
        BY <2>2, <2>5, <3>1, <3>2 DEF Workspace
    <2>6. QED
      BY <2>1, <2>4, <2>5
  <1>6. CASE \/ \E r \in RAFs : LoadCall(r)
             \/ \E e \in Edits : ReconvertCall(e)
             \/ \E p \in Profile : ReconvertRawCall(p)
             \/ GetDeviceInfo \/ SendObjectInfo \/ SetProfile \/ Snapshot \/ Trigger
             \/ Poll \/ Sleep \/ Deadline \/ GetObject \/ DeleteObject
             \/ FinishConversion \/ Plug \/ UNCHANGED vars
    <2>1. UNCHANGED <<link, rafLoaded, baseProfile, unread>>
      BY <1>6 DEF LoadCall, ReconvertCall, ReconvertRawCall, GetDeviceInfo,
                  SendObjectInfo, SetProfile, Snapshot, Trigger, Poll, Sleep, Deadline,
                  GetObject, DeleteObject, FinishConversion, Plug, vars,
                  linkVars, structVars, storeVars
    <2>2. synced' => synced
      BY <1>6 DEF LoadCall, ReconvertCall, ReconvertRawCall, GetDeviceInfo,
                  SendObjectInfo, SetProfile, Snapshot, Trigger, Poll, Sleep, Deadline,
                  GetObject, DeleteObject, FinishConversion, Plug, vars,
                  linkVars, Exchange, EndsAs
    <2>3. cam'.raf \in {cam.raf, Nil}
      BY <1>6 DEF LoadCall, ReconvertCall, ReconvertRawCall, GetDeviceInfo,
                  SendObjectInfo, SetProfile, Snapshot, Trigger, Poll, Sleep, Deadline,
                  GetObject, DeleteObject, FinishConversion, Plug, vars,
                  TypeOK, CameraType, Device
    <2>4. QED
      BY <2>1, <2>2, <2>3, WorkspaceKept DEF Kept
  <1>7. CASE Unplug
    BY <1>7 DEF Unplug, Workspace, Kept
  <1>8. QED
    BY <1>1, <1>2, <1>3, <1>4, <1>5, <1>6, <1>7
       DEF Next, Handler, Operation, Environment

\* From Poll on, waiting changes neither the struct nor the locals OnlyLoaded reads.
LEMMA WaitLoaded ==
  ASSUME OnlyLoaded, pc \in ResultSteps, Kept' => Kept,
         UNCHANGED <<skip, snapOK, late, baseProfile, unread, obj, running>>
  PROVE  OnlyLoaded'
  BY DEF OnlyLoaded

LEMMA TriggerLoaded ==
  ASSUME TypeOK, CallInv, RafThere, Workspace, Trigger
  PROVE  OnlyLoaded'
  <1> DEFINE Able == CanConvert /\ cam.raf # Nil /\ cam.d185 # Nil
                        /\ nconv < MaxConversions
  <1> DEFINE new == [conv |-> nconv + 1, raf |-> cam.raf, prof |-> cam.d185]
  <1>1. PICK o \in Outcome, did \in BOOLEAN :
          /\ Exchange(o, did, Able)
          /\ \/ did /\ running' = running \cup {new}
             \/ ~did /\ UNCHANGED <<running, nconv>>
          /\ \/ o = "ok" /\ UNCHANGED <<skip, snapOK, late>>
             \/ o # "ok" /\ Return
    BY DEF Trigger, Started
  <1>2. pc = "Trigger" /\ UNCHANGED <<link, obj, baseProfile, rafLoaded, unread>>
    BY DEF Trigger, structVars
  <1>3. new.raf = cam.raf
    OBVIOUS
  <1> HIDE DEF new
  <1>4. SUFFICES ASSUME Kept', snapOK', ~late', ~unread', pc' \in ResultSteps
                 PROVE  /\ \A j \in running' : j.raf = baseProfile.raf
                        /\ \A h \in Handles \ skip' : obj'[h] = Nil
    BY <1>2, NilIsNoJob DEF OnlyLoaded
  <1>5. o = "ok" /\ UNCHANGED <<skip, snapOK, late>>
    BY <1>1, <1>4 DEF Return, ResultSteps
  <1>6. Kept /\ did /\ Able
    <2>1. Able \in BOOLEAN
      OBVIOUS
    <2> HIDE DEF Able
    <2>2. QED
      BY <1>1, <1>2, <1>4, <1>5, <2>1, ExchangeFacts DEF Kept, TypeOK
  <1>7. running = {} /\ \A h \in Handles \ skip : obj[h] = Nil
    BY <1>2, <1>4, <1>5, <1>6 DEF CallInv, OnlyMine
  <1>8. cam.raf = baseProfile.raf
    BY <1>2, <1>4, <1>6 DEF RafThere, Workspace, ConvertSteps
  <1>9. QED
    BY <1>1, <1>2, <1>3, <1>5, <1>6, <1>7, <1>8

LEMMA LoadedStep ==
  ASSUME TypeOK, LocalShape, CallInv, RafThere, Workspace, OnlyLoaded,
         ConvertsLoadedRaf, [Next]_vars
  PROVE  OnlyLoaded' /\ ConvertsLoadedRaf'
  <1>1. CASE \/ Handler \/ OpenSession \/ CloseStale \/ Reset \/ OpenRetry
             \/ GetDeviceInfo \/ SendObjectInfo \/ SendObject2 \/ GetProfile
             \/ SetProfile \/ Snapshot \/ Deadline \/ DeleteObject \/ Restart
    <2>1. pc' \notin ResultSteps
      BY <1>1 DEF Handler, ConnectOpens, DisconnectCall, LoadCall, ReconvertCall,
                  ReconvertRawCall, Begin, Ready, OpenSession, CloseStale, Reset,
                  OpenRetry, GetDeviceInfo, SendObjectInfo, SendObject2, GetProfile,
                  SetProfile, Snapshot, Deadline, DeleteObject, Restart, ThenOrFail,
                  Opened, CloseAndFail, Continue, Return, ResultSteps
    <2>2. QED
      BY <2>1 DEF OnlyLoaded, ConvertsLoadedRaf, ResultSteps
  <1>2. CASE Trigger
    <2>1. pc' # "DeleteObject"
      BY <1>2 DEF Trigger, Return
    <2>2. QED
      BY <1>2, <2>1, TriggerLoaded DEF ConvertsLoadedRaf
  <1>3. CASE Poll
    <2>1. /\ pc \in ResultSteps /\ pc' # "DeleteObject"
          /\ \/ pc' = "idle"
             \/ UNCHANGED <<skip, snapOK, late>>
      BY <1>3 DEF Poll, Continue, Return, localVars, ResultSteps
    <2>2. UNCHANGED <<link, baseProfile, unread, obj, running>> /\ (synced' => synced)
      BY <1>3 DEF Poll, structVars, storeVars, Exchange, EndsAs
    <2>3. CASE pc' = "idle"
      BY <2>3 DEF OnlyLoaded, ConvertsLoadedRaf, ResultSteps
    <2>4. CASE UNCHANGED <<skip, snapOK, late>>
      BY <2>1, <2>2, <2>4, WaitLoaded DEF Kept, ConvertsLoadedRaf
    <2>5. QED
      BY <2>1, <2>3, <2>4
  <1>4. CASE Sleep
    <2>1. /\ pc \in ResultSteps /\ pc' = "Poll"
          /\ UNCHANGED <<link, synced, skip, snapOK, late, baseProfile, unread, obj,
                         running>>
      BY <1>4 DEF Sleep, linkVars, structVars, storeVars, ResultSteps
    <2>2. QED
      BY <2>1, WaitLoaded DEF Kept, ConvertsLoadedRaf
  <1>5. CASE GetObject
    <2> DEFINE Able == InSession /\ obj[target] # Nil
    <2>1. PICK o \in Outcome, did \in BOOLEAN :
            /\ Exchange(o, did, Able)
            /\ \/ /\ o = "ok"
                  /\ jpeg' = IF did THEN obj[target] ELSE Nil
                  /\ UNCHANGED <<skip, snapOK, late>>
               \/ pc' = "idle"
      BY <1>5 DEF GetObject, Return
    <2>2. pc = "GetObject" /\ UNCHANGED <<link, baseProfile, unread, obj, running>>
      BY <1>5 DEF GetObject, structVars, storeVars
    <2>3. CASE pc' = "idle"
      BY <2>3 DEF OnlyLoaded, ConvertsLoadedRaf, ResultSteps
    <2>4. CASE /\ o = "ok"
               /\ jpeg' = IF did THEN obj[target] ELSE Nil
               /\ UNCHANGED <<skip, snapOK, late>>
      <3>1. synced' => Kept /\ did
        <4>1. Able \in BOOLEAN
          OBVIOUS
        <4> HIDE DEF Able
        <4>2. QED
          BY <2>1, <2>4, <4>1, ExchangeFacts DEF Kept, TypeOK
      <3>2. OnlyLoaded'
        BY <2>2, <2>4, <3>1, WaitLoaded DEF Kept, ResultSteps
      <3>3. ConvertsLoadedRaf'
        <4>1. SUFFICES ASSUME synced', snapOK', ~late', ~unread'
                       PROVE  jpeg'.raf = baseProfile'.raf
          BY DEF ConvertsLoadedRaf, Informed
        <4>2. obj[target] \in Job /\ target \in Handles \ skip
          BY <2>2, <2>4, <3>1, <4>1 DEF CallInv, Skipping, TargetChosen, Undelivered,
                                        ResultSteps
        <4>3. obj[target].raf = baseProfile.raf
          BY <2>2, <2>4, <3>1, <4>1, <4>2 DEF OnlyLoaded, ResultSteps
        <4>4. QED
          BY <2>2, <2>4, <3>1, <4>1, <4>3
      <3>4. QED
        BY <3>2, <3>3
    <2>5. QED
      BY <2>1, <2>3, <2>4
  <1>6. CASE FinishConversion
    <2>1. PICK job \in running, h \in Handles :
            obj' = [obj EXCEPT ![h] = job] /\ running' = running \ {job}
      BY <1>6 DEF FinishConversion
    <2>2. \A k \in Handles : obj'[k] = obj[k] \/ obj'[k] = job
      BY <2>1 DEF TypeOK, CameraType
    <2>3. UNCHANGED <<link, synced, pc, skip, snapOK, late, jpeg, baseProfile, unread>>
      BY <1>6 DEF FinishConversion, linkVars, structVars, localVars
    <2>4. QED
      BY <2>1, <2>2, <2>3 DEF OnlyLoaded, ConvertsLoadedRaf, Kept, Informed
  <1>7. CASE Unplug
    <2>1. UNCHANGED <<synced, pc, snapOK, late, jpeg, baseProfile, unread>> /\ ~Kept'
      BY <1>7 DEF Unplug, Kept, structVars, localVars
    <2>2. QED
      BY <2>1 DEF OnlyLoaded, ConvertsLoadedRaf, Informed
  <1>8. CASE Plug \/ UNCHANGED vars
    <2>1. UNCHANGED <<link, synced, pc, skip, snapOK, late, jpeg, baseProfile, unread,
                      obj, running>>
      BY <1>8 DEF Plug, vars, linkVars, structVars, localVars, storeVars
    <2>2. QED
      BY <2>1 DEF OnlyLoaded, ConvertsLoadedRaf, Kept, Informed
  <1>9. QED
    BY <1>1, <1>2, <1>3, <1>4, <1>5, <1>6, <1>7, <1>8
       DEF Next, Operation, Environment

-----------------------------------------------------------------------------
(* The theorems.                                                           *)

(***************************************************************************)
(* The camera's store and the locals of the call in progress keep in step: *)
(* what waitForResult skips, picks, downloads and returns is what the call *)
(* itself knew of, started and asked for, as far as its answers were true. *)
(***************************************************************************)
THEOREM ResultInvariant == Spec => []ResultInv
  <1>1. Init => ResultInv
    <2>1. SUFFICES ASSUME Init PROVE ResultInv
      OBVIOUS
    <2>2. StoreInv
      BY <2>1, NilIsNoJob DEF Init, StoreInv, Numbered, RunningApart, JpegDone
    <2>3. CallInv
      BY <2>1 DEF Init, CallInv, Skipping, TargetChosen, JpegUndelivered, Requested,
                  OnlyMine, JpegMine, ConvertSteps, ResultSteps
    <2>4. LoadedInv
      BY <2>1 DEF Init, LoadedInv, RafThere, Workspace, OnlyLoaded, ConvertsLoadedRaf,
                  ConvertSteps, ResultSteps
    <2>5. QED
      BY <2>2, <2>3, <2>4 DEF ResultInv
  <1>2. TypeOK /\ LocalShape /\ SessionAgrees /\ ResultInv /\ [Next]_vars => ResultInv'
    BY StoreStep, CallStep, ThereStep, WorkspaceStep, LoadedStep DEF ResultInv, LoadedInv
  <1>3. QED
    BY <1>1, <1>2, TypeCorrect, ShapeInvariant, SessionAgreement, PTL DEF Spec

(***************************************************************************)
(* With a successful snapshot and true answers, what waitForResult         *)
(* downloads and deletes is a result, never the uploaded RAF.              *)
(***************************************************************************)
THEOREM ResultsOnly == Spec => []TargetIsAResult
  <1>1. TypeOK /\ ResultInv => TargetIsAResult
    BY DEF ResultInv, CallInv, Skipping, TargetChosen, Undelivered, TargetIsAResult,
           Informed, Kept, ResultSteps
  <1>2. QED
    BY <1>1, TypeCorrect, ResultInvariant, PTL

(***************************************************************************)
(* A JPEG handed out once is not handed out again.                         *)
(***************************************************************************)
THEOREM NoRedelivery == Spec => []NeverRedelivered
  <1>1. ResultInv => NeverRedelivered
    BY DEF ResultInv, CallInv, JpegUndelivered, NeverRedelivered
  <1>2. QED
    BY <1>1, ResultInvariant, PTL

(***************************************************************************)
(* With nothing running at the snapshot, the JPEG of a call is that of the *)
(* conversion it started, of the RAF and with the profile it asked for.    *)
(***************************************************************************)
THEOREM ResultIsOwn == Spec => []OwnResult
  <1>1. ResultInv => OwnResult
    BY DEF ResultInv, CallInv, JpegUndelivered, JpegMine, Mine, Informed, OwnResult
  <1>2. QED
    BY <1>1, ResultInvariant, PTL

(***************************************************************************)
(* The RAF a call converts is the one whose profile BaseProfile caches,    *)
(* over any calls and failures, unless an upload went through without its  *)
(* profile being read.                                                     *)
(***************************************************************************)
THEOREM LoadedRafOnly == Spec => []ConvertsLoadedRaf
  <1>1. ResultInv => ConvertsLoadedRaf
    BY DEF ResultInv, LoadedInv
  <1>2. QED
    BY <1>1, ResultInvariant, PTL
=============================================================================
