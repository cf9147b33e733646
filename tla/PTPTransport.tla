---------------------------- MODULE PTPTransport ----------------------------
(***************************************************************************)
(* The bulk-USB transport (internal/ptp/transport.go): SendCommand,        *)
(* SendDataCommand and SendDataCommandFromReader over the OUT and IN pipes *)
(* of one camera, which answers in its own time.  An action is one USB     *)
(* transfer and the Go code up to the next one.  The caller serialises the *)
(* calls.  Transaction IDs are left out: the code writes them into every   *)
(* container and compares none.                                            *)
(***************************************************************************)
EXTENDS Naturals, Sequences

CONSTANTS
    MaxCalls,       \* bound: calls in a behaviour, which also name the calls
    MaxFragments,   \* bound: reads that the longest DATA container takes
    OutBuffer       \* containers the camera's OUT endpoint takes in advance

ASSUME TransportAssumption ==
    MaxCalls \in Nat /\ MaxFragments \in Nat /\ OutBuffer \in Nat \ {0}

VARIABLES
    link,      \* "none": closed; "live"; "dead": open, the camera is gone
    pc, call,  \* the call in progress
    part,      \* recv's data, while a container is not complete
    data,      \* SendCommand's data: the call it answers, 0 if there is none
    out, in,   \* the two pipes: containers going out, reads coming in
    expects,   \* camera: the call whose DATA phase it waits for, or 0
    ans,       \* camera: what it has still to send
    \* history, read by properties only
    ncalls, done, clean, result

hostVars   == <<pc, call, part, data>>
cameraVars == <<expects, ans>>
vars == <<link, hostVars, out, in, cameraVars, ncalls, done, clean, result>>

Kinds == {"command", "data", "stream"}
Ids == 1..MaxCalls
NoCall == [id |-> 0, kind |-> "none"]

\* What one read returns: a whole container or a part of one.
Fragment == [id : Ids, type : {"DATA", "RESPONSE"}, ok : BOOLEAN,
             first : BOOLEAN, last : BOOLEAN]
Container == [id : Ids, kind : Kinds, phase : {"COMMAND", "DATA"}, full : BOOLEAN]
NoPart == [id |-> 0, type |-> "none", ok |-> FALSE, first |-> FALSE, last |-> FALSE]

TypeOK ==
    /\ link \in {"none", "live", "dead"}
    /\ pc \in {"idle", "sendCommand", "sendData", "recv", "recvResponse"}
    /\ call \in [id : Ids, kind : Kinds] \cup {NoCall}
    /\ part \in Fragment \cup {NoPart}
    /\ data \in 0..MaxCalls
    /\ out \in Seq(Container) /\ Len(out) <= OutBuffer
    /\ in \in Seq(Fragment) /\ ans \in Seq(Fragment)
    /\ expects \in 0..MaxCalls /\ ncalls \in 0..MaxCalls
    /\ done \in BOOLEAN /\ clean \in BOOLEAN
    /\ result \in [id : 0..MaxCalls, outcome : {"none", "ok", "code", "err"},
                   from : 0..MaxCalls, data : 0..MaxCalls]

NoResult == [id |-> 0, outcome |-> "none", from |-> 0, data |-> 0]

Init ==
    /\ link = "none" /\ pc = "idle" /\ call = NoCall
    /\ part = NoPart /\ data = 0
    /\ out = <<>> /\ in = <<>> /\ expects = 0 /\ ans = <<>>
    /\ ncalls = 0 /\ done = FALSE /\ clean = TRUE /\ result = NoResult

\* Nothing is on its way between the daemon and the camera.
Quiet == out = <<>> /\ in = <<>> /\ ans = <<>> /\ expects = 0

-----------------------------------------------------------------------------
(* The calls.                                                              *)

Begin(kind) ==
    /\ pc = "idle" /\ link # "none" /\ ncalls < MaxCalls
    /\ ncalls' = ncalls + 1
    /\ call' = [id |-> ncalls + 1, kind |-> kind]
    /\ pc' = "sendCommand" /\ done' = FALSE
    /\ UNCHANGED <<link, part, data, out, in, cameraVars, clean, result>>

\* The call returns; from names the call whose RESPONSE it took.
Return(outcome, from) ==
    /\ result' = [id |-> call.id, outcome |-> outcome, from |-> from, data |-> data]
    /\ pc' = "idle" /\ call' = NoCall /\ part' = NoPart /\ data' = 0
    /\ done' = FALSE
    /\ clean' = (clean /\ (outcome = "err" => Quiet'))

Goto(step) == pc' = step /\ UNCHANGED <<call, done, clean, result>>

\* Deviation: the write does not wait.
WriteAlways(c) == link = "live" /\ out' = Append(out, c)

\* A blocking write: epOut.Write waits until the endpoint has room.
Write(c) == link = "live" /\ Len(out) < OutBuffer /\ out' = Append(out, c)

CommandPhase == [id |-> call.id, kind |-> call.kind, phase |-> "COMMAND", full |-> TRUE]

SendCommandPhase ==
    /\ pc = "sendCommand"
    /\ UNCHANGED <<link, in, cameraVars, ncalls>>
    /\ \/ /\ Write(CommandPhase)
          /\ Goto(IF call.kind = "command" THEN "recv" ELSE "sendData")
          /\ UNCHANGED <<part, data>>
       \/ link = "dead" /\ UNCHANGED out /\ Return("err", 0)

DataPhase(full) ==
    [id |-> call.id, kind |-> call.kind, phase |-> "DATA", full |-> full]

(***************************************************************************)
(* SendDataCommandFromReader sends what the reader gives, even when it     *)
(* ends before the length the header declares; and a chunk that is not     *)
(* taken in time, or a read error, ends the call in mid-container.         *)
(***************************************************************************)
SendDataPhase ==
    /\ pc = "sendData"
    /\ UNCHANGED <<link, in, cameraVars, ncalls>>
    /\ \/ /\ \E full \in {TRUE} \cup {call.kind # "stream"} : Write(DataPhase(full))
          /\ Goto("recv")
          /\ UNCHANGED <<part, data>>
       \/ /\ call.kind = "stream" /\ link = "live"
          /\ UNCHANGED out \/ Write(DataPhase(FALSE))
          /\ Return("err", 0)
       \/ link = "dead" /\ UNCHANGED out /\ Return("err", 0)

(***************************************************************************)
(* epOut.Write fails, or writes less than it was given, with the camera    *)
(* still there: a stalled endpoint, a transfer cut short.  None, a part or *)
(* all of the container is in the endpoint.  Part of a COMMAND, which is   *)
(* one packet, is no container at all.                                     *)
(***************************************************************************)
WriteFails ==
    /\ link = "live"
    /\ \/ pc = "sendCommand" /\ (UNCHANGED out \/ Write(CommandPhase))
       \/ /\ pc = "sendData" /\ call.kind = "data"
          /\ UNCHANGED out \/ \E full \in BOOLEAN : Write(DataPhase(full))
    /\ UNCHANGED <<link, in, cameraVars, ncalls>>
    /\ Return("err", 0)

-----------------------------------------------------------------------------
(* recv, and what the calls do with the container it returns.              *)

Receiving == pc \in {"recv", "recvResponse"}

\* Deviation: the call returns once it has its data.
GotEarly(id, type, ok) ==
    \/ type = "DATA" /\ Return("ok", id)
    \/ type = "RESPONSE" /\ Return(IF ok THEN "ok" ELSE "code", id)
    \/ type = "other" /\ Return("err", 0)

(***************************************************************************)
(* Only SendCommand takes a DATA container, and only before the RESPONSE;  *)
(* any other container than a RESPONSE is an error where one is expected.  *)
(***************************************************************************)
Got(id, type, ok) ==
    LET takesData == pc = "recv" /\ call.kind = "command" /\ type = "DATA"
    IN  \/ /\ takesData
           /\ data' = id /\ part' = NoPart
           /\ Goto("recvResponse")
        \/ type = "RESPONSE" /\ Return(IF ok THEN "ok" ELSE "code", id)
        \/ ~takesData /\ type # "RESPONSE" /\ Return("err", 0)

\* Bytes without a header: their length and their type are arbitrary.
GotJunk(id) ==
    \E type \in {"DATA", "RESPONSE", "other"}, ok \in BOOLEAN : Got(id, type, ok)

ReadOn(p) == part' = p /\ UNCHANGED data /\ Goto(pc)

\* The first read of a container, or the rest of one that was given up.
FirstRead ==
    /\ Receiving /\ part = NoPart /\ in # <<>>
    /\ in' = Tail(in) /\ UNCHANGED <<link, out, cameraVars, ncalls>>
    /\ LET f == Head(in) IN
          \/ f.first /\ f.last /\ Got(f.id, f.type, f.ok)
          \/ ~(f.first /\ f.last) /\ ReadOn(f)
          \/ ~f.first /\ GotJunk(f.id)

\* Deviation: the first read is taken for the whole container.
NoReassembly ==
    /\ Receiving /\ part # NoPart
    /\ UNCHANGED <<link, in, out, cameraVars, ncalls>>
    /\ Got(part.id, part.type, part.ok)

\* The reads that complete the container, up to the length it declares.
Continuation ==
    /\ Receiving /\ part # NoPart /\ in # <<>>
    /\ in' = Tail(in) /\ UNCHANGED <<link, out, cameraVars, ncalls>>
    /\ LET f == Head(in) IN
          \/ part.first /\ f.last /\ Got(part.id, part.type, part.ok)
          \/ (part.first => ~f.last) /\ ReadOn(part)
          \/ ~part.first /\ GotJunk(part.id)

\* The read is cancelled; of a transfer under way, what had come is lost.
Torn(pipe) == <<[Head(pipe) EXCEPT !.first = FALSE]>> \o Tail(pipe)

\* Deviation: the continuation reads have no timeout.
FirstReadTimeout ==
    /\ Receiving /\ link = "live" /\ part = NoPart
    /\ in = <<>> /\ UNCHANGED <<link, out, in, cameraVars, ncalls>>
    /\ Return("err", 0)

RecvTimeout ==
    /\ Receiving /\ link = "live"
    /\ \/ in = <<>> /\ UNCHANGED in
       \/ in # <<>> /\ Head(in).type = "DATA" /\ in' = Torn(in)
    /\ UNCHANGED <<link, out, cameraVars, ncalls>>
    /\ Return("err", 0)

RecvDead ==
    /\ Receiving /\ link = "dead"
    /\ UNCHANGED <<link, out, in, cameraVars, ncalls>>
    /\ Return("err", 0)

-----------------------------------------------------------------------------
(* Opening and closing.                                                    *)

\* Claiming the interface may or may not discard what waits to be read.
Claimed == in' \in {in, <<>>} /\ clean' = (clean \/ Quiet')

Connect ==
    /\ pc = "idle" /\ link = "none"
    /\ link' = "live" /\ UNCHANGED <<out, cameraVars>> /\ Claimed
    /\ UNCHANGED <<hostVars, ncalls, done, result>>

\* A Reset that fails is followed by Close.
Reset ==
    /\ pc = "idle" /\ link = "live"
    /\ UNCHANGED <<link, out, cameraVars>> /\ Claimed
    /\ UNCHANGED <<hostVars, ncalls, done, result>>

Close ==
    /\ pc = "idle" /\ link # "none" /\ link' = "none"
    /\ UNCHANGED <<hostVars, out, in, cameraVars, ncalls, done, clean, result>>

-----------------------------------------------------------------------------
(* The camera, the cable and procd.                                        *)

\* A DATA container of n reads, if n > 0, then the RESPONSE.
Answer(id, n, ok) ==
    [k \in 1..n |-> [id |-> id, type |-> "DATA", ok |-> ok,
                     first |-> k = 1, last |-> k = n]]
    \o <<[id |-> id, type |-> "RESPONSE", ok |-> ok, first |-> TRUE, last |-> TRUE]>>

Answers(id, n, ok) ==
    /\ ans' = Answer(id, n, ok)
    /\ expects' = 0
    /\ done' = (done \/ (ok /\ id = call.id))

Waits(id) == expects' = id /\ UNCHANGED <<ans, done>>

(***************************************************************************)
(* It takes one container at a time, after its last answer has gone.  A    *)
(* COMMAND in place of a DATA phase ends that transaction or is taken for  *)
(* its data, and an incomplete DATA phase is refused or waited out.        *)
(***************************************************************************)
CameraTakes ==
    /\ link # "dead" /\ out # <<>> /\ ans = <<>>
    /\ out' = Tail(out)
    /\ LET c == Head(out) IN
          \/ /\ c.phase = "COMMAND" /\ c.kind = "command"
             /\ \E ok \in BOOLEAN, n \in 0..MaxFragments : Answers(c.id, n, ok)
          \/ c.phase = "COMMAND" /\ c.kind # "command" /\ Waits(c.id)
          \/ c.phase = "COMMAND" /\ expects # 0 /\ Waits(expects)
          \/ c.phase = "DATA" /\ c.id = expects /\ c.full
             /\ \E ok \in BOOLEAN : Answers(c.id, 0, ok)
          \/ /\ c.phase = "DATA" /\ ~(c.id = expects /\ c.full)
             /\ \/ expects # 0 /\ Answers(expects, 0, FALSE)
                \/ Waits(expects)
    /\ UNCHANGED <<link, hostVars, in, ncalls, clean, result>>

CameraSends ==
    /\ link # "dead" /\ ans # <<>>
    /\ in' = Append(in, Head(ans)) /\ ans' = Tail(ans)
    /\ UNCHANGED <<link, hostVars, out, expects, ncalls, done, clean, result>>

Unplug ==
    /\ link # "dead" /\ link' = IF link = "live" THEN "dead" ELSE link
    /\ out' = <<>> /\ in' = <<>> /\ expects' = 0 /\ ans' = <<>>
    /\ UNCHANGED <<hostVars, ncalls, done, clean, result>>

\* The daemon dies in mid-call, or is stopped, and procd starts it again.
Restart ==
    /\ link # "none" /\ link' = "none"
    /\ UNCHANGED <<out, in, cameraVars, ncalls>>
    /\ \/ pc # "idle" /\ Return("err", 0)
       \/ pc = "idle" /\ UNCHANGED <<hostVars, done, clean, result>>

-----------------------------------------------------------------------------
Host ==
    \/ SendCommandPhase \/ SendDataPhase
    \/ FirstRead \/ Continuation \/ RecvTimeout \/ RecvDead

Camera == CameraTakes \/ CameraSends

Next ==
    \/ \E kind \in Kinds : Begin(kind)
    \/ Host \/ WriteFails \/ Camera
    \/ Connect \/ Reset \/ Close \/ Unplug \/ Restart

Spec == Init /\ [][Next]_vars

(***************************************************************************)
(* The goroutine runs on; reads have timeouts, but the writes of send have *)
(* none, so that a call ends only if the camera goes on taking containers. *)
(* That a write fails (WriteFails) is possible and never counted on.       *)
(***************************************************************************)
FairSpec == Spec /\ WF_vars(Host) /\ WF_vars(CameraTakes) /\ WF_vars(CameraSends)

-----------------------------------------------------------------------------
(***************************************************************************)
(* While no call has been given up with its answer under way, what is on   *)
(* its way belongs to the call in progress: SendCommand may do without     *)
(* comparing transaction IDs.                                              *)
(***************************************************************************)
InFlight ==
    {out[k].id : k \in DOMAIN out} \cup {in[k].id : k \in DOMAIN in}
    \cup {ans[k].id : k \in DOMAIN ans} \cup ({expects} \ {0})
OnlyOwnInFlight == clean => InFlight \subseteq {call.id}

(***************************************************************************)
(* A call that returns an answer on a clean channel returns its own, and   *)
(* with it its own data, complete.                                         *)
(***************************************************************************)
Answered == result.outcome \in {"ok", "code"}
Returns == pc # "idle" /\ pc' = "idle"
OwnAnswerWhileClean ==
    [][ (Returns /\ clean /\ Answered')
            => result'.from = call.id /\ result'.data \in {0, call.id} ]_vars

(***************************************************************************)
(* The transport implements the channel: each call ends in one of the ways *)
(* that CameraSession and Presets take the commands of the code to end.    *)
(***************************************************************************)
Channel == INSTANCE PTPChannel WITH
    live <- link = "live", busy <- pc # "idle", synced <- clean, outcome <- result.outcome
ImplementsChannel == Channel!Spec

(***************************************************************************)
(* Every call returns, so the mutex of the server is released.             *)
(***************************************************************************)
CallEnds == (pc # "idle") ~> (pc = "idle")

=============================================================================
