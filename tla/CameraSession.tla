--------------------------- MODULE CameraSession ---------------------------
(***************************************************************************)
(* The PTP session with one camera (internal/ptp/session.go), driven by    *)
(* the handlers of internal/api/server.go that change its state: connect,  *)
(* disconnect, RAF load, reconvert and reconvert-raw.  The server's mutex  *)
(* admits one camera operation at a time, so the operation in progress is  *)
(* one program counter and its local variables.                            *)
(*                                                                         *)
(* An action of the daemon is one PTP command together with the Go code    *)
(* that runs up to the next command, so that an unplug, a restart of the   *)
(* daemon or a conversion that ends inside the camera can fall between any *)
(* two commands.  The camera is external: it is modelled from what the     *)
(* code expects of it.                                                     *)
(***************************************************************************)
EXTENDS Naturals, FiniteSets, PTPCall

CONSTANTS
    RAFs,            \* the RAW files clients upload
    Edits,           \* the parameter changes clients ask for
    Handles,         \* PTP object handles
    Nil,             \* Go's nil, and "no object"
    RafObject,       \* the object an upload leaves in the camera
    MaxPolls,        \* bound: polls of GetObjectHandles before the deadline
    MaxConversions   \* bound: conversions the camera starts

(***************************************************************************)
(* A D185 profile is the native profile the camera computes for a RAF,     *)
(* carrying at most one edit.                                              *)
(***************************************************************************)
Profile == [raf : RAFs, edit : Edits \cup {Nil}]
BaseOf(r) == [raf |-> r, edit |-> Nil]

\* A conversion the camera runs, and the JPEG it leaves when it ends.
Job == [conv : 1..MaxConversions, raf : RAFs, prof : Profile]

ASSUME SessionAssumption ==
    /\ MaxPolls \in Nat \ {0} /\ MaxConversions \in Nat
    /\ Nil \notin RAFs \cup Edits \cup Handles \cup Profile \cup Job
    /\ RafObject \notin Job \cup {Nil}

\* Each conversion leaves at most one object, and the upload one more.
ASSUME HandlesAssumption ==
    IsFiniteSet(Handles) /\ Cardinality(Handles) > MaxConversions

VARIABLES
    \* Transport: "none" is dev == nil; "dead" is an open handle whose camera is gone
    link,
    \* Camera struct
    sessionOpen, supported, baseProfile, rafLoaded,
    \* the operation that holds the mutex: its next command and its locals
    pc, call, skip, polls, target, jpeg,
    \* the camera: device state, object store, conversions in progress
    cam, obj, running,
    \* history, read by properties only
    nconv, own, snapOK, late, delivered,
    unread   \* an upload has replaced the workspace since the profile was read

linkVars   == <<link, synced>>
structVars == <<sessionOpen, supported, baseProfile, rafLoaded>>
localVars  == <<call, skip, polls, target, jpeg, own, snapOK, late>>
storeVars  == <<obj, running, nconv, unread>>
vars == <<linkVars, structVars, pc, localVars, cam, storeVars, delivered>>

Modes == {"rawConv", "standard"}
\* Of the device properties, these handlers ask only for D185.
AllProps == {"RawConvProfile"}
PropsOf(mode) == IF mode = "rawConv" THEN AllProps ELSE {}

Conversions == {"load", "reconvert", "reconvertRaw"}
Call == [to : Conversions \cup {"connect", "disconnect", "none"},
         raf : RAFs \cup {Nil}, prof : Profile \cup {Nil}]
NoCall == [to |-> "none", raf |-> Nil, prof |-> Nil]

OpeningSteps == {"OpenSession", "CloseStale", "Reset", "OpenRetry"}
UploadSteps  == {"SendObjectInfo", "SendObject2", "GetProfile"}
ConvertSteps == {"SetProfile", "Snapshot", "Trigger"}
ResultSteps  == {"Poll", "Sleep", "GetObject", "DeleteObject"}
Steps == {"idle", "GetDeviceInfo"} \cup OpeningSteps \cup UploadSteps
            \cup ConvertSteps \cup ResultSteps

Device == [plugged : BOOLEAN, mode : Modes, session : BOOLEAN,
           raf : RAFs \cup {Nil}, d185 : Profile \cup {Nil}]

StructType ==
    /\ link \in {"none", "live", "dead"}
    /\ synced \in BOOLEAN
    /\ sessionOpen \in BOOLEAN
    /\ supported \in SUBSET AllProps
    /\ baseProfile \in Profile \cup {Nil}
    /\ rafLoaded \in BOOLEAN

LocalType ==
    /\ pc \in Steps
    /\ call \in Call
    /\ skip \in SUBSET Handles
    /\ polls \in 0..MaxPolls
    /\ target \in Handles \cup {Nil}
    /\ jpeg \in Job \cup {RafObject, Nil}
    /\ own \in 0..MaxConversions
    /\ snapOK \in BOOLEAN
    /\ late \in BOOLEAN

CameraType ==
    /\ cam \in Device
    /\ obj \in [Handles -> Job \cup {RafObject, Nil}]
    /\ running \in SUBSET Job
    /\ nconv \in 0..MaxConversions
    /\ delivered \in SUBSET (1..MaxConversions)
    /\ unread \in BOOLEAN

\* Every variable has its type.
TypeOK == StructType /\ LocalType /\ CameraType

Init ==
    /\ link = "none" /\ synced = TRUE
    /\ sessionOpen = FALSE /\ supported = {}
    /\ baseProfile = Nil /\ rafLoaded = FALSE
    /\ pc = "idle" /\ call = NoCall
    /\ skip = {} /\ polls = 0 /\ target = Nil /\ jpeg = Nil
    /\ cam \in [plugged : BOOLEAN, mode : Modes, session : {FALSE},
                raf : {Nil}, d185 : {Nil}]
    /\ obj = [h \in Handles |-> Nil]
    /\ running = {}
    /\ nconv = 0 /\ own = 0 /\ snapOK = FALSE /\ late = FALSE
    /\ delivered = {} /\ unread = FALSE

-----------------------------------------------------------------------------
(* One PTP command, as SendCommand and SendDataCommand report it.          *)

(***************************************************************************)
(* The command ends with outcome o; did tells whether the camera carried   *)
(* it out, which it can only do in a state where it is able to.            *)
(***************************************************************************)
Exchange(o, did, able) == link # "none" /\ EndsAs(link = "live", o, did, able)

InSession == cam.session
CanConvert == cam.session /\ cam.mode = "rawConv"
Listed == {h \in Handles : obj[h] # Nil}

\* The operation goes on with its next command.
Continue(step) == pc' = step /\ UNCHANGED localVars

\* The operation returns, with a result or an error; its locals are gone.
Return ==
    /\ pc' = "idle" /\ call' = NoCall
    /\ skip' = {} /\ polls' = 0 /\ target' = Nil /\ jpeg' = Nil
    /\ own' = 0 /\ snapOK' = FALSE /\ late' = FALSE

\* Transport.Close, on the way out of a failed Connect.
CloseAndFail == link' = "none" /\ Return /\ UNCHANGED structVars

-----------------------------------------------------------------------------
(* The handlers take the mutex and check what they check before the camera *)
(* is touched.  Requests that change nothing are left out: connect on an   *)
(* open handle, connect without a camera, the 503 and 409 refusals.        *)

Ready == pc = "idle"

Begin(to, r, p, step) ==
    /\ call' = [to |-> to, raf |-> r, prof |-> p]
    /\ pc' = step
    /\ UNCHANGED <<skip, polls, target, jpeg, own, snapOK, late>>

\* Claiming the interface may or may not flush what the camera had queued.
ConnectOpens ==
    /\ Ready /\ link = "none" /\ cam.plugged
    /\ Begin("connect", Nil, Nil, "OpenSession")
    /\ link' = "live" /\ synced' \in {synced, TRUE}
    /\ UNCHANGED <<structVars, cam, storeVars, delivered>>

LoadCall(r) ==
    /\ Ready /\ link # "none"
    /\ Begin("load", r, Nil, "SendObjectInfo")
    /\ UNCHANGED <<linkVars, structVars, cam, storeVars, delivered>>

\* Deviation: the patch lands in the wrong field.
PatchWrongField(base, e) == [base EXCEPT !.raf = e]

PatchProfile(base, e) == [base EXCEPT !.edit = e]

\* handleRAFReconvert patches the cached profile, under the mutex.
ReconvertCall(e) ==
    /\ Ready /\ link # "none" /\ rafLoaded /\ baseProfile # Nil
    /\ Begin("reconvert", Nil, PatchProfile(baseProfile, e), "SetProfile")
    /\ UNCHANGED <<linkVars, structVars, cam, storeVars, delivered>>

\* handleRAFReconvertRaw sends whatever profile the client had at hand.
ReconvertRawCall(p) ==
    /\ Ready /\ link # "none" /\ rafLoaded /\ baseProfile # Nil
    /\ Begin("reconvertRaw", Nil, p, "SetProfile")
    /\ UNCHANGED <<linkVars, structVars, cam, storeVars, delivered>>

\* Deviations: Disconnect forgets one half of the Camera struct only.
ForgetSessionOnly == sessionOpen' = FALSE /\ UNCHANGED <<rafLoaded, baseProfile>>
ForgetRafOnly == UNCHANGED sessionOpen /\ rafLoaded' = FALSE /\ baseProfile' = Nil

\* What Disconnect clears; SupportedProperties is not part of it.
Forget == sessionOpen' = FALSE /\ rafLoaded' = FALSE /\ baseProfile' = Nil

\* Camera.Disconnect: CloseSession if one is open, its result ignored.
DisconnectCall ==
    /\ Ready
    /\ \/ ~sessionOpen /\ UNCHANGED <<synced, cam>>
       \/ /\ sessionOpen
          /\ \E o \in Outcome, did \in BOOLEAN :
                /\ Exchange(o, did, InSession)
                /\ cam' = [cam EXCEPT !.session = @ /\ ~did]
    /\ link' = "none"
    /\ Forget /\ UNCHANGED supported
    /\ UNCHANGED <<pc, localVars, storeVars, delivered>>

-----------------------------------------------------------------------------
(* Connect: OpenSession, the recovery of a stale session, GetDeviceInfo.   *)

Opened ==
    /\ sessionOpen' = TRUE
    /\ Continue("GetDeviceInfo")
    /\ UNCHANGED <<link, supported, baseProfile, rafLoaded>>

OpenSession ==
    /\ pc = "OpenSession"
    /\ \E o \in Outcome, did \in BOOLEAN :
          /\ Exchange(o, did, ~cam.session)
          /\ cam' = [cam EXCEPT !.session = @ \/ did]
          /\ \/ o = "ok" /\ Opened
             \/ /\ o = "code" /\ (synced => cam.session)  \* SessionAlreadyOpen
                /\ Continue("CloseStale")
                /\ UNCHANGED <<link, structVars>>
             \/ o # "ok" /\ CloseAndFail
    /\ UNCHANGED <<storeVars, delivered>>

\* The result of closing the stale session is ignored.
CloseStale ==
    /\ pc = "CloseStale"
    /\ \E o \in Outcome, did \in BOOLEAN :
          /\ Exchange(o, did, InSession)
          /\ cam' = [cam EXCEPT !.session = @ /\ ~did]
    /\ Continue("Reset")
    /\ UNCHANGED <<link, structVars, storeVars, delivered>>

\* Transport.Reset releases the interface and claims it again.
Reset ==
    /\ pc = "Reset"
    /\ \/ /\ link = "live"
          /\ synced' \in {synced, TRUE}
          /\ Continue("OpenRetry")
          /\ UNCHANGED <<link, structVars>>
       \/ CloseAndFail /\ UNCHANGED synced
    /\ UNCHANGED <<cam, storeVars, delivered>>

OpenRetry ==
    /\ pc = "OpenRetry"
    /\ \E o \in Outcome, did \in BOOLEAN :
          /\ Exchange(o, did, ~cam.session)
          /\ cam' = [cam EXCEPT !.session = @ \/ did]
          /\ \/ o = "ok" /\ Opened
             \/ o # "ok" /\ CloseAndFail
    /\ UNCHANGED <<storeVars, delivered>>

(***************************************************************************)
(* GetDeviceInfo only ever adds to SupportedProperties, and its failure is *)
(* not fatal.  An OK answer that is not its own carries other data, or     *)
(* none, on which the parser panics: net/http recovers, the deferred       *)
(* Unlock runs, and the connection stays as it is.                         *)
(***************************************************************************)
GetDeviceInfo ==
    /\ pc = "GetDeviceInfo"
    /\ \E o \in Outcome, did \in BOOLEAN :
          /\ Exchange(o, did, TRUE)
          /\ \/ /\ o = "ok" /\ Return
                /\ \E read \in IF did THEN {PropsOf(cam.mode)} ELSE SUBSET AllProps :
                      supported' = supported \cup read
             \/ o = "ok" /\ ~did /\ Return /\ UNCHANGED supported
             \/ o # "ok" /\ Return /\ UNCHANGED supported
    /\ UNCHANGED <<link, sessionOpen, baseProfile, rafLoaded, cam, storeVars,
                   delivered>>

-----------------------------------------------------------------------------
(* LoadRAFStream: upload the RAF and read the profile the camera made.     *)

\* Go's "if err != nil { return }; if code != RespOK { return }".
ThenOrFail(o, step) == IF o = "ok" THEN Continue(step) ELSE Return

SendObjectInfo ==
    /\ pc = "SendObjectInfo"
    /\ \E o \in Outcome, did \in BOOLEAN :
          /\ Exchange(o, did, CanConvert)
          /\ ThenOrFail(o, "SendObject2")
    /\ UNCHANGED <<link, structVars, cam, storeVars, delivered>>

\* The upload replaces the RAF object, the workspace and the D185 register.
Uploaded(r, h) ==
    /\ obj[h] \in {Nil, RafObject}
    /\ obj' = [k \in Handles |-> IF k = h THEN RafObject
                                ELSE IF obj[k] = RafObject THEN Nil ELSE obj[k]]
    /\ cam' = [cam EXCEPT !.raf = r, !.d185 = BaseOf(r)]

SendObject2 ==
    /\ pc = "SendObject2"
    /\ \E o \in Outcome, did \in BOOLEAN :
          /\ Exchange(o, did, CanConvert)
          /\ \/ did /\ unread' = TRUE /\ \E h \in Handles : Uploaded(call.raf, h)
             \/ ~did /\ UNCHANGED <<cam, obj, unread>>
          /\ ThenOrFail(o, "GetProfile")
    /\ UNCHANGED <<link, structVars, running, nconv, delivered>>

\* Deviation: the base profile is read only once.
FirstBase(p) == IF baseProfile = Nil THEN p ELSE baseProfile

\* What GetProfile read becomes BaseProfile.
NewBase(p) == p

\* An empty D185 is an error; any other value becomes the base profile.
GetProfile ==
    /\ pc = "GetProfile"
    /\ \E o \in Outcome, did \in BOOLEAN, p \in Profile \cup {Nil} :
          /\ Exchange(o, did, CanConvert)
          /\ did => p = cam.d185
          /\ \/ /\ o = "ok" /\ p # Nil
                /\ baseProfile' = NewBase(p) /\ rafLoaded' = TRUE /\ unread' = FALSE
                /\ Begin(call.to, call.raf, p, "SetProfile")
             \/ /\ o # "ok" \/ p = Nil
                /\ Return
                /\ UNCHANGED <<baseProfile, rafLoaded, unread>>
    /\ UNCHANGED <<link, sessionOpen, supported, cam, obj, running, nconv, delivered>>

-----------------------------------------------------------------------------
(* The conversion, common to LoadRAFStream and Reconvert.                  *)

\* Deviation: the cached profile is sent, whatever the call asked for.
SentBase == baseProfile

\* The payload of SetProfile.
Sent == call.prof

SetProfile ==
    /\ pc = "SetProfile"
    /\ \E o \in Outcome, did \in BOOLEAN :
          /\ Exchange(o, did, CanConvert)
          /\ cam' = IF did THEN [cam EXCEPT !.d185 = Sent] ELSE cam
          /\ ThenOrFail(o, "Snapshot")
    /\ UNCHANGED <<link, structVars, storeVars, delivered>>

\* What GetObjectHandles lists: everything in the store.  The data of another
\* command's answer may read as no handles or as any.
Listing(did) == IF did THEN {Listed} ELSE {{}, Handles}

(***************************************************************************)
(* snapshotHandles: a failure is silent and gives the empty set.  A count  *)
(* that is not one, in an answer to another command, may wrap the uint32   *)
(* offset: the slice expression panics, and net/http ends the call.        *)
(***************************************************************************)
Snapshot ==
    /\ pc = "Snapshot"
    /\ \E o \in Outcome, did \in BOOLEAN :
          /\ Exchange(o, did, InSession)
          /\ \/ /\ skip' \in IF o = "ok" THEN Listing(did) ELSE {{}}
                /\ snapOK' = (o = "ok") /\ late' = (running # {})
                /\ pc' = "Trigger"
                /\ UNCHANGED <<call, polls, target, jpeg, own>>
             \/ o = "ok" /\ ~did /\ Return
    /\ UNCHANGED <<link, structVars, cam, storeVars, delivered>>

\* The camera starts converting its workspace with the register's profile.
Started ==
    /\ nconv' = nconv + 1
    /\ running' = running \cup
         {[conv |-> nconv + 1, raf |-> cam.raf, prof |-> cam.d185]}

Trigger ==
    /\ pc = "Trigger"
    /\ \E o \in Outcome, did \in BOOLEAN :
          /\ Exchange(o, did, CanConvert /\ cam.raf # Nil /\ cam.d185 # Nil
                              /\ nconv < MaxConversions)
          /\ \/ did /\ Started
             \/ ~did /\ UNCHANGED <<running, nconv>>
          /\ \/ /\ o = "ok"
                /\ own' = IF did THEN nconv + 1 ELSE 0
                /\ pc' = "Poll"
                /\ UNCHANGED <<call, skip, polls, target, jpeg, snapOK, late>>
             \/ o # "ok" /\ Return
    /\ UNCHANGED <<link, structVars, cam, obj, unread, delivered>>

-----------------------------------------------------------------------------
(* waitForResult.                                                          *)

\* Deviation: nothing is skipped.
AnyHandle(list) == list

\* The handles waitForResult takes for the new result.
Fresh(list) == list \ skip

\* The first listed handle that is not in the skip set, in the camera's order;
\* another command's data may end the call in the same panic.
Poll ==
    /\ pc = "Poll" /\ polls < MaxPolls
    /\ \E o \in Outcome, did \in BOOLEAN :
          /\ Exchange(o, did, InSession)
          /\ \/ (o # "ok" \/ ~did) /\ Return
             \/ /\ o = "ok"
                /\ \E list \in Listing(did) :
                      \/ Fresh(list) = {} /\ Continue("Sleep")
                      \/ /\ target' \in Fresh(list)
                         /\ pc' = "GetObject"
                         /\ UNCHANGED <<call, skip, polls, jpeg, own, snapOK, late>>
    /\ UNCHANGED <<link, structVars, cam, storeVars, delivered>>

\* Deviation: the time spent waiting is not counted.
SleepUncounted ==
    /\ pc = "Sleep"
    /\ Continue("Poll")
    /\ UNCHANGED <<linkVars, structVars, cam, storeVars, delivered>>

Sleep ==
    /\ pc = "Sleep"
    /\ polls' = polls + 1
    /\ pc' = "Poll"
    /\ UNCHANGED <<call, skip, target, jpeg, own, snapOK, late>>
    /\ UNCHANGED <<linkVars, structVars, cam, storeVars, delivered>>

\* The deadline is looked at between polls, never before the first.
Deadline ==
    /\ pc = "Poll" /\ polls > 0
    /\ Return
    /\ UNCHANGED <<linkVars, structVars, cam, storeVars, delivered>>

GetObject ==
    /\ pc = "GetObject"
    /\ \E o \in Outcome, did \in BOOLEAN :
          /\ Exchange(o, did, InSession /\ obj[target] # Nil)
          /\ \/ /\ o = "ok"
                /\ jpeg' = IF did THEN obj[target] ELSE Nil
                /\ pc' = "DeleteObject"
                /\ UNCHANGED <<call, skip, polls, target, own, snapOK, late>>
             \/ o # "ok" /\ Return
    /\ UNCHANGED <<link, structVars, cam, storeVars, delivered>>

\* A failed delete is only logged: the JPEG is returned all the same.
DeleteObject ==
    /\ pc = "DeleteObject"
    /\ \E o \in Outcome, did \in BOOLEAN :
          /\ Exchange(o, did, InSession /\ obj[target] # Nil)
          /\ \/ /\ did
                /\ obj' = [obj EXCEPT ![target] = Nil]
                /\ cam' = IF obj[target] = RafObject
                          THEN [cam EXCEPT !.raf = Nil, !.d185 = Nil] ELSE cam
             \/ ~did /\ UNCHANGED <<obj, cam>>
    /\ delivered' = delivered \cup
                      (IF jpeg \in {Nil, RafObject} THEN {} ELSE {jpeg.conv})
    /\ Return
    /\ UNCHANGED <<link, structVars, running, nconv, unread>>

-----------------------------------------------------------------------------
(* The camera, the cable and procd.                                        *)

FinishConversion ==
    /\ \E job \in running, h \in Handles :
          /\ obj[h] = Nil
          /\ obj' = [obj EXCEPT ![h] = job]
          /\ running' = running \ {job}
    /\ UNCHANGED <<linkVars, structVars, pc, localVars, cam, nconv, unread, delivered>>

\* The session ends with the cable; the workspace may or may not survive.
Unplug ==
    /\ cam.plugged
    /\ link' = IF link = "live" THEN "dead" ELSE link
    /\ \/ /\ cam' = [cam EXCEPT !.plugged = FALSE, !.session = FALSE]
          /\ UNCHANGED obj
       \/ /\ cam' = [cam EXCEPT !.plugged = FALSE, !.session = FALSE,
                               !.raf = Nil, !.d185 = Nil]
          /\ obj' = [h \in Handles |-> Nil]
    /\ running' = {}
    /\ UNCHANGED <<synced, structVars, pc, localVars, nconv, unread, delivered>>

\* Plugged in again, perhaps after a change of its USB mode.
Plug ==
    /\ ~cam.plugged
    /\ \E mode \in Modes : cam' = [cam EXCEPT !.plugged = TRUE, !.mode = mode]
    /\ UNCHANGED <<linkVars, structVars, pc, localVars, storeVars, delivered>>

\* procd respawns the daemon: a new Camera struct, the camera as it was.
Restart ==
    /\ link' = "none" /\ synced' \in {synced, FALSE}
    /\ sessionOpen' = FALSE /\ supported' = {}
    /\ baseProfile' = Nil /\ rafLoaded' = FALSE
    /\ pc' = "idle" /\ call' = NoCall
    /\ skip' = {} /\ polls' = 0 /\ target' = Nil /\ jpeg' = Nil
    /\ own' = 0 /\ snapOK' = FALSE /\ late' = FALSE
    /\ UNCHANGED <<cam, storeVars, delivered>>

-----------------------------------------------------------------------------
Handler ==
    \/ ConnectOpens \/ DisconnectCall
    \/ \E r \in RAFs : LoadCall(r)
    \/ \E e \in Edits : ReconvertCall(e)
    \/ \E p \in Profile : ReconvertRawCall(p)

\* The steps of the operation in progress.
Operation ==
    \/ OpenSession \/ CloseStale \/ Reset \/ OpenRetry \/ GetDeviceInfo
    \/ SendObjectInfo \/ SendObject2 \/ GetProfile
    \/ SetProfile \/ Snapshot \/ Trigger
    \/ Poll \/ Sleep \/ Deadline \/ GetObject \/ DeleteObject

Environment == FinishConversion \/ Unplug \/ Plug \/ Restart

Next == Handler \/ Operation \/ Environment

Spec == Init /\ [][Next]_vars

\* The behaviours in which no command is given up: every answer is its own.
TrueSpec == Init /\ [][Next /\ synced']_vars

(***************************************************************************)
(* The goroutine that holds the mutex runs on, and each of its commands    *)
(* ends: recv has a timeout, and a write to a live endpoint goes through.  *)
(***************************************************************************)
FairSpec == Spec /\ WF_vars(Operation)

-----------------------------------------------------------------------------
(* Properties of the Camera struct.                                        *)

(***************************************************************************)
(* The handlers test only Connected() and RAFLoaded; this is what they     *)
(* thereby know: an open handle outside Connect has a session, a loaded    *)
(* RAF implies that session, and the flag and the profile come together.   *)
(***************************************************************************)
SessionAgrees ==
    /\ sessionOpen => link # "none"
    /\ (link # "none" /\ pc \notin OpeningSteps) => sessionOpen
    /\ pc \in OpeningSteps => ~sessionOpen
    /\ rafLoaded => sessionOpen
    /\ rafLoaded <=> baseProfile # Nil

(***************************************************************************)
(* While the camera is there and no answer has gone astray, sessionOpen is *)
(* the truth: the camera does have a session.  Connect, the stale-session  *)
(* recovery, Disconnect and restarts keep the two in step.                 *)
(***************************************************************************)
SessionTruth == (sessionOpen /\ synced /\ link = "live") => cam.session

-----------------------------------------------------------------------------
(* Properties of the result that waitForResult returns and deletes.  They  *)
(* assume that the snapshot before Trigger succeeded, the last one also    *)
(* that no earlier conversion was running then: without these they fail.   *)

\* What waitForResult holds is based on true answers.
Informed == snapOK /\ synced

(***************************************************************************)
(* The object downloaded and then deleted is a conversion's result: never  *)
(* the uploaded RAF, on which every later reconvert depends.               *)
(***************************************************************************)
TargetIsAResult ==
    (pc \in {"GetObject", "DeleteObject"} /\ Informed /\ link = "live")
        => obj[target] \in Job

(***************************************************************************)
(* A JPEG handed to a client once is not handed out again, though its      *)
(* DeleteObject may have failed and left it in the camera's store.         *)
(***************************************************************************)
NeverRedelivered ==
    (pc = "DeleteObject" /\ Informed /\ jpeg \in Job) => jpeg.conv \notin delivered

(***************************************************************************)
(* The JPEG of a call is that of the conversion the call started, with the *)
(* profile the call asked for and, for a load, the RAF it uploaded.        *)
(***************************************************************************)
OwnResult ==
    (pc = "DeleteObject" /\ Informed /\ ~late) =>
        /\ jpeg \in Job
        /\ jpeg.conv = own
        /\ jpeg.prof = call.prof
        /\ call.to = "load" => jpeg.raf = call.raf /\ jpeg.prof = BaseOf(call.raf)

(***************************************************************************)
(* The JPEG of any conversion call is of the RAF whose profile BaseProfile *)
(* caches, which is what RAFLoaded means to the handlers, over any calls   *)
(* in between; unless an upload went through whose profile was not read.   *)
(***************************************************************************)
ConvertsLoadedRaf ==
    (pc = "DeleteObject" /\ Informed /\ ~late /\ ~unread) => jpeg.raf = baseProfile.raf

(***************************************************************************)
(* The operation that holds the mutex ends: polling stops at the deadline, *)
(* and every early return releases the mutex.                              *)
(***************************************************************************)
OperationEnds == (pc # "idle") ~> (pc = "idle")

-----------------------------------------------------------------------------
(* What the comments and the README say, and the code does not keep.       *)

(***************************************************************************)
(* "WaitForResult will skip [the pre-existing handles, which include the   *)
(* uploaded RAF] and only return the newly-created JPEG": with the answers *)
(* all true, the RAF itself is never returned, and then deleted.           *)
(***************************************************************************)
OnlyJPEGs == (pc = "DeleteObject" /\ synced) => jpeg # RafObject

(***************************************************************************)
(* "waitForResult only returns the newly-created JPEG from THIS            *)
(* conversion", here even assuming that the snapshot succeeded.            *)
(***************************************************************************)
FromThisConversion == (pc = "DeleteObject" /\ Informed) => jpeg.conv = own

(***************************************************************************)
(* The rawConversion flag of /api/connect says what mode the camera is in. *)
(***************************************************************************)
ModeFlagTrue ==
    (pc = "idle" /\ link = "live" /\ synced /\ "RawConvProfile" \in supported)
        => cam.mode = "rawConv"
=============================================================================
