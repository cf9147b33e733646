------------------------- MODULE PTPTransportProofs -------------------------
(***************************************************************************)
(* For any number of calls, fragments and containers in the endpoint: the  *)
(* types, that a clean channel carries the call in progress and nothing    *)
(* else, that a call then returns its own answer, and that the transport   *)
(* implements PTPChannel.                                                  *)
(***************************************************************************)
EXTENDS PTPTransport, SequenceTheorems, TLAPS

(***************************************************************************)
(* What is left of the answer to call id: the DATA container, of which a   *)
(* first read may have been taken, then the RESPONSE.                      *)
(***************************************************************************)
DataRead(id, ok, first, last) ==
    [id |-> id, type |-> "DATA", ok |-> ok, first |-> first, last |-> last]
Response(id, ok) ==
    [id |-> id, type |-> "RESPONSE", ok |-> ok, first |-> TRUE, last |-> TRUE]
Remains(s, started, id, ok) ==
    /\ s # <<>> /\ s[Len(s)] = Response(id, ok)
    /\ \A k \in 1..(Len(s) - 1) :
          s[k] = DataRead(id, ok, k = 1 /\ ~started, k = Len(s) - 1)

\* What the locals of the calls hold, whatever is on its way.
Locals ==
    /\ pc = "idle" <=> call = NoCall
    /\ pc = "idle" => ~done
    /\ pc # "idle" => link # "none"
    /\ pc \in {"idle", "sendCommand", "sendData"} => part = NoPart
    /\ pc # "recvResponse" => data = 0
    /\ pc = "sendData" => call.kind # "command"

(***************************************************************************)
(* A call in progress on a clean channel is in one of three situations.    *)
(* The cable was pulled: nothing is left of it.                            *)
(***************************************************************************)
Gone == link = "dead" /\ Quiet

\* It is being sent: the camera has yet to take its last container.
Asked ==
    /\ in = <<>> /\ ans = <<>> /\ ~done /\ part = NoPart
    /\ pc \in {"sendData", "recv"}
    /\ \A k \in DOMAIN out : out[k].id = call.id /\ out[k].kind = call.kind
    /\ \/ /\ expects = 0 /\ out # <<>> /\ out[1].phase = "COMMAND"
          /\ Len(out) # 1 => /\ Len(out) = 2 /\ out[2].phase = "DATA"
                             /\ call.kind # "command" /\ pc = "recv"
       \/ /\ expects = call.id /\ call.kind # "command"
          /\ out # <<>> => Len(out) = 1 /\ out[1].phase = "DATA" /\ pc = "recv"

\* The camera has taken all of it and its answer is on its way.
Answering ==
    /\ out = <<>> /\ expects = 0 /\ Receiving
    /\ Remains(in \o ans, part # NoPart, call.id, done)
    /\ call.kind # "command" => Len(in \o ans) = 1
    /\ pc = "recvResponse" => data = call.id /\ part = NoPart /\ Len(in \o ans) = 1
    /\ part # NoPart => /\ part = DataRead(call.id, done, TRUE, FALSE)
                        /\ Len(in \o ans) >= 2

CleanChannel ==
    clean => IF pc \in {"idle", "sendCommand"} THEN Quiet /\ ~done
             ELSE Gone \/ Asked \/ Answering

Inv == TypeOK /\ Locals /\ CleanChannel

-----------------------------------------------------------------------------
(* What is left of an answer, as it is sent and read.                      *)

\* Sending moves a read from the one end to the other of what is left.
LEMMA SendingKeeps ==
    ASSUME NEW S, NEW s \in Seq(S), NEW t \in Seq(S), t # <<>>
    PROVE  /\ Append(s, Head(t)) \in Seq(S) /\ Tail(t) \in Seq(S)
           /\ Append(s, Head(t)) \o Tail(t) = s \o t
<1>1. /\ Head(t) \in S /\ Tail(t) \in Seq(S) /\ Len(Tail(t)) = Len(t) - 1
      /\ \A i \in 1..Len(Tail(t)) : Tail(t)[i] = t[i + 1]
  BY HeadTailProperties
<1>2. Head(t) = t[1]
  OBVIOUS
<1> DEFINE a == Append(s, Head(t))
<1>3. /\ a \in Seq(S) /\ Len(a) = Len(s) + 1 /\ a[Len(s) + 1] = t[1]
      /\ \A i \in 1..Len(s) : a[i] = s[i]
  BY <1>1, <1>2, AppendProperties
<1> HIDE DEF a
<1>4. /\ a \o Tail(t) \in Seq(S) /\ Len(a \o Tail(t)) = Len(a) + Len(Tail(t))
      /\ \A i \in 1..(Len(a) + Len(Tail(t))) :
            (a \o Tail(t))[i] = IF i <= Len(a) THEN a[i] ELSE Tail(t)[i - Len(a)]
  BY <1>1, <1>3, ConcatProperties
<1>5. /\ s \o t \in Seq(S) /\ Len(s \o t) = Len(s) + Len(t)
      /\ \A i \in 1..(Len(s) + Len(t)) :
            (s \o t)[i] = IF i <= Len(s) THEN s[i] ELSE t[i - Len(s)]
  BY ConcatProperties
<1>6. Len(s) \in Nat /\ Len(t) \in Nat \ {0}
  BY EmptySeq
<1>7. Len(a \o Tail(t)) = Len(s \o t)
  BY <1>1, <1>3, <1>4, <1>5, <1>6
<1>8. ASSUME NEW i \in 1..Len(a \o Tail(t)) PROVE (a \o Tail(t))[i] = (s \o t)[i]
  <2>1. CASE i <= Len(s)
    BY <1>3, <1>4, <1>5, <1>6, <1>7, <2>1
  <2>2. CASE i = Len(s) + 1
    BY <1>3, <1>4, <1>5, <1>6, <1>7, <2>2
  <2>3. CASE i > Len(s) + 1
    <3>1. /\ i - Len(a) \in 1..Len(Tail(t)) /\ i - Len(a) + 1 = i - Len(s)
          /\ i \in 1..(Len(s) + Len(t))
      BY <1>1, <1>3, <1>4, <1>6, <1>7, <2>3
    <3>2. Tail(t)[i - Len(a)] = t[i - Len(s)]
      BY <1>1, <3>1
    <3> QED BY <1>3, <1>4, <1>5, <1>6, <2>3, <3>1, <3>2
  <2> QED BY <1>4, <1>6, <1>3, <1>1, <2>1, <2>2, <2>3
<1>9. a \o Tail(t) = s \o t
  BY <1>4, <1>5, <1>7, <1>8, SeqEqual
<1> QED BY <1>1, <1>3, <1>9 DEF a

\* Reading takes the head of what is left.
LEMMA ReadingTakes ==
    ASSUME NEW S, NEW s \in Seq(S), NEW t \in Seq(S), s # <<>>
    PROVE  /\ s \o t \in Seq(S) /\ Len(s \o t) \in Nat \ {0}
           /\ Head(s) = (s \o t)[1] /\ Head(s) \in S
           /\ Tail(s) \in Seq(S) /\ Tail(s) \o t \in Seq(S)
           /\ Len(Tail(s) \o t) = Len(s \o t) - 1
           /\ \A i \in 1..(Len(s \o t) - 1) : (Tail(s) \o t)[i] = (s \o t)[i + 1]
<1>1. /\ Head(s) \in S /\ Tail(s) \in Seq(S) /\ Len(Tail(s)) = Len(s) - 1
      /\ \A i \in 1..Len(Tail(s)) : Tail(s)[i] = s[i + 1]
  BY HeadTailProperties
<1>2. Len(s) \in Nat \ {0} /\ Len(t) \in Nat
  BY EmptySeq
<1>3. /\ s \o t \in Seq(S) /\ Len(s \o t) = Len(s) + Len(t)
      /\ \A i \in 1..(Len(s) + Len(t)) :
            (s \o t)[i] = IF i <= Len(s) THEN s[i] ELSE t[i - Len(s)]
  BY ConcatProperties
<1>4. /\ Tail(s) \o t \in Seq(S) /\ Len(Tail(s) \o t) = Len(Tail(s)) + Len(t)
      /\ \A i \in 1..(Len(Tail(s)) + Len(t)) :
            (Tail(s) \o t)[i] = IF i <= Len(Tail(s)) THEN Tail(s)[i]
                               ELSE t[i - Len(Tail(s))]
  BY <1>1, ConcatProperties
<1>5. Head(s) = s[1]
  OBVIOUS
<1>6. (s \o t)[1] = s[1]
  BY <1>2, <1>3
<1>7. ASSUME NEW i \in 1..(Len(s \o t) - 1) PROVE (Tail(s) \o t)[i] = (s \o t)[i + 1]
  <2>1. i \in 1..(Len(Tail(s)) + Len(t)) /\ i + 1 \in 1..(Len(s) + Len(t))
    BY <1>1, <1>2, <1>3
  <2>2. CASE i <= Len(Tail(s))
    BY <1>1, <1>2, <1>3, <1>4, <2>1, <2>2
  <2>3. CASE ~(i <= Len(Tail(s)))
    <3>1. i - Len(Tail(s)) = (i + 1) - Len(s) /\ ~(i + 1 <= Len(s))
      BY <1>1, <1>2, <2>1, <2>3
    <3> QED BY <1>3, <1>4, <2>1, <2>3, <3>1
  <2> QED BY <2>2, <2>3
<1> QED BY <1>1, <1>2, <1>3, <1>4, <1>5, <1>6, <1>7

\* The camera begins with the whole of it.
LEMMA AnswerRemains ==
    ASSUME NEW id \in Ids, NEW n \in Nat, NEW ok \in BOOLEAN
    PROVE  /\ Answer(id, n, ok) \in Seq(Fragment)
           /\ Len(Answer(id, n, ok)) = n + 1
           /\ Remains(Answer(id, n, ok), FALSE, id, ok)
<1> DEFINE d == [k \in 1..n |-> DataRead(id, ok, k = 1, k = n)]
           r == Response(id, ok)
           a == d \o <<r>>
<1>1. d \in Seq(Fragment) /\ Len(d) = n
  <2>1. d \in [1..n -> Fragment]
    BY DEF Fragment, DataRead
  <2> QED BY <2>1
<1>2. <<r>> \in Seq(Fragment) /\ Len(<<r>>) = 1 /\ <<r>>[1] = r
  BY DEF Fragment, Response
<1>3. \A k \in 1..n : d[k] = DataRead(id, ok, k = 1, k = n)
  OBVIOUS
<1>4. Answer(id, n, ok) = a
  BY DEF Answer, DataRead, Response
<1> HIDE DEF d, r
<1>5. /\ a \in Seq(Fragment) /\ Len(a) = n + 1
      /\ \A i \in 1..(n + 1) : a[i] = IF i <= n THEN d[i] ELSE <<r>>[i - n]
  BY <1>1, <1>2, ConcatProperties
<1> HIDE DEF a
<1>6. \A k \in 1..n : a[k] = DataRead(id, ok, k = 1, k = n)
  BY <1>3, <1>5
<1>7. a[n + 1] = r
  BY <1>2, <1>5
<1>8. a # <<>> /\ a[Len(a)] = Response(id, ok)
  BY <1>5, <1>7 DEF r
<1>9. ASSUME NEW k \in 1..(Len(a) - 1)
      PROVE  a[k] = DataRead(id, ok, k = 1 /\ ~FALSE, k = Len(a) - 1)
  <2>1. k \in 1..n /\ (k = 1 /\ ~FALSE) = (k = 1) /\ (k = Len(a) - 1) = (k = n)
    BY <1>5
  <2> QED BY <1>6, <2>1
<1> QED BY <1>4, <1>5, <1>8, <1>9 DEF Remains

\* The first of what is left, and what is left after it.
LEMMA RemainsHead ==
    ASSUME NEW s \in Seq(Fragment), NEW b \in BOOLEAN, NEW id, NEW ok, Remains(s, b, id, ok)
    PROVE  /\ Len(s) \in Nat \ {0}
           /\ Len(s) = 1 => s[1] = Response(id, ok)
           /\ Len(s) # 1 => s[1] = DataRead(id, ok, ~b, Len(s) = 2)
<1>1. Len(s) \in Nat \ {0}
  BY EmptySeq DEF Remains
<1>2. CASE Len(s) = 1
  BY <1>2 DEF Remains
<1>3. CASE Len(s) = 2
  BY <1>3 DEF Remains, DataRead
<1>4. CASE Len(s) \notin {1, 2}
  <2>0. \A n \in Nat \ {0} : n \notin {1, 2} => 1 \in 1..(n - 1) /\ ~(1 = n - 1)
    OBVIOUS
  <2>1. 1 \in 1..(Len(s) - 1) /\ ~(1 = Len(s) - 1) /\ Len(s) # 2 /\ Len(s) # 1
    BY <1>1, <1>4, <2>0, Zenon
  <2>2. s[1] = DataRead(id, ok, 1 = 1 /\ ~b, 1 = Len(s) - 1)
    BY <2>1 DEF Remains
  <2>3. (1 = 1 /\ ~b) = ~b /\ (1 = Len(s) - 1) = (Len(s) = 2)
    BY <2>1, Zenon
  <2> QED BY <2>1, <2>2, <2>3
<1> QED BY <1>1, <1>2, <1>3, <1>4

LEMMA RemainsTail ==
    ASSUME NEW s \in Seq(Fragment), NEW b \in BOOLEAN, NEW id, NEW ok, Remains(s, b, id, ok),
           NEW t \in Seq(Fragment), Len(s) # 1, Len(t) = Len(s) - 1,
           \A i \in 1..(Len(s) - 1) : t[i] = s[i + 1]
    PROVE  /\ Remains(t, TRUE, id, ok)
           /\ Len(s) = 2 => Remains(t, FALSE, id, ok)
<1>1. Len(s) \in Nat \ {0, 1} /\ Len(t) \in Nat
  BY EmptySeq DEF Remains
<1>2. t # <<>> /\ t[Len(t)] = Response(id, ok)
  BY <1>1 DEF Remains
<1>3. ASSUME NEW k \in 1..(Len(t) - 1)
      PROVE  t[k] = DataRead(id, ok, k = 1 /\ ~TRUE, k = Len(t) - 1)
  <2>1. /\ k + 1 \in 1..(Len(s) - 1) /\ t[k] = s[k + 1]
        /\ (k + 1 = 1 /\ ~b) = (k = 1 /\ ~TRUE) /\ (k + 1 = Len(s) - 1) = (k = Len(t) - 1)
    BY <1>1
  <2>2. s[k + 1] = DataRead(id, ok, k + 1 = 1 /\ ~b, k + 1 = Len(s) - 1)
    BY <2>1 DEF Remains
  <2> QED BY <2>1, <2>2
<1>4. Remains(t, TRUE, id, ok)
  BY <1>2, <1>3 DEF Remains
<1>5. Len(s) = 2 => Remains(t, FALSE, id, ok)
  BY <1>1, <1>2 DEF Remains
<1> QED BY <1>4, <1>5

-----------------------------------------------------------------------------
(* The types, one step per action.                                         *)

HostTypes ==
    /\ pc \in {"idle", "sendCommand", "sendData", "recv", "recvResponse"}
    /\ call \in [id : Ids, kind : Kinds] \cup {NoCall}
    /\ part \in Fragment \cup {NoPart}
    /\ data \in 0..MaxCalls
    /\ done \in BOOLEAN /\ clean \in BOOLEAN
    /\ result \in [id : 0..MaxCalls, outcome : {"none", "ok", "code", "err"},
                   from : 0..MaxCalls, data : 0..MaxCalls]

PipeTypes ==
    /\ out \in Seq(Container) /\ Len(out) <= OutBuffer
    /\ in \in Seq(Fragment) /\ ans \in Seq(Fragment)
    /\ expects \in 0..MaxCalls

LEMMA TypeParts ==
    TypeOK <=> /\ link \in {"none", "live", "dead"} /\ ncalls \in 0..MaxCalls
               /\ HostTypes /\ PipeTypes
BY DEF TypeOK, HostTypes, PipeTypes

LEMMA CallTypes ==
    ASSUME TypeOK
    PROVE  /\ call.id \in 0..MaxCalls
           /\ call # NoCall => call.id \in Ids /\ call.kind \in Kinds
           /\ \A f \in Fragment : /\ f.id \in Ids /\ f.id \in 0..MaxCalls /\ f # NoPart
                                 /\ f.type \in {"DATA", "RESPONSE"} /\ f.ok \in BOOLEAN
                                 /\ f.first \in BOOLEAN /\ f.last \in BOOLEAN
BY TransportAssumption DEF TypeOK, NoCall, Ids, Fragment, NoPart

LEMMA ReturnTypes ==
    ASSUME TypeOK, NEW o \in {"ok", "code", "err"}, NEW f \in 0..MaxCalls, Return(o, f)
    PROVE  HostTypes'
<1>1. result' \in [id : 0..MaxCalls, outcome : {"none", "ok", "code", "err"},
                  from : 0..MaxCalls, data : 0..MaxCalls]
  BY CallTypes DEF Return, TypeOK
<1>2. 0 \in 0..MaxCalls
  BY TransportAssumption
<1>3. clean' \in BOOLEAN
  BY DEF Return
<1> QED BY <1>1, <1>2, <1>3 DEF Return, HostTypes

LEMMA GotTypes ==
    ASSUME TypeOK, NEW id \in Ids, NEW type, NEW ok \in BOOLEAN, Got(id, type, ok)
    PROVE  HostTypes'
<1>1. id \in 0..MaxCalls /\ 0 \in 0..MaxCalls
  BY TransportAssumption DEF Ids
<1>2. CASE \E o \in {"ok", "code", "err"}, f \in 0..MaxCalls : Return(o, f)
  BY <1>2, ReturnTypes
<1>3. CASE data' = id /\ part' = NoPart /\ Goto("recvResponse")
  BY <1>1, <1>3 DEF Goto, HostTypes, TypeOK
<1> QED BY <1>1, <1>2, <1>3 DEF Got

\* A container that goes into the endpoint, one that the camera takes out of it.
LEMMA WriteTypes ==
    ASSUME TypeOK, NEW c \in Container, Write(c)
    PROVE  out' \in Seq(Container) /\ Len(out') <= OutBuffer
BY TransportAssumption DEF TypeOK, Write

LEMMA ReadTypes ==
    ASSUME TypeOK, in # <<>>
    PROVE  Head(in) \in Fragment /\ Tail(in) \in Seq(Fragment)
BY HeadTailProperties DEF TypeOK

LEMMA TornTypes ==
    ASSUME TypeOK, in # <<>>
    PROVE  Torn(in) \in Seq(Fragment) /\ Torn(in) # <<>>
<1>1. Head(in) \in Fragment /\ Tail(in) \in Seq(Fragment)
  BY ReadTypes
<1>2. [Head(in) EXCEPT !.first = FALSE] \in Fragment
  BY <1>1 DEF Fragment
<1> DEFINE h == <<[Head(in) EXCEPT !.first = FALSE]>>
<1>3. h \in Seq(Fragment) /\ Len(h) = 1
  BY <1>2
<1>4. Torn(in) = h \o Tail(in)
  BY DEF Torn
<1> HIDE DEF h
<1>5. h \o Tail(in) \in Seq(Fragment) /\ Len(h \o Tail(in)) = Len(h) + Len(Tail(in))
  BY <1>1, <1>3, ConcatProperties
<1>6. Len(Tail(in)) \in Nat
  BY <1>1
<1> QED BY <1>3, <1>4, <1>5, <1>6, EmptySeq

LEMMA SendTypes ==
    ASSUME TypeOK, Locals, SendCommandPhase \/ SendDataPhase \/ WriteFails
    PROVE  TypeOK'
<1>1. /\ link' = link /\ ncalls' = ncalls /\ in' = in /\ ans' = ans /\ expects' = expects
  BY DEF SendCommandPhase, SendDataPhase, WriteFails, cameraVars
<1>2. call.id \in Ids /\ call.kind \in Kinds
  BY CallTypes DEF Locals, SendCommandPhase, SendDataPhase, WriteFails
<1>3. out' \in Seq(Container) /\ Len(out') <= OutBuffer
  <2>1. CASE UNCHANGED out
    BY <2>1 DEF TypeOK
  <2>2. CASE \E c \in Container : Write(c)
    BY <2>2, WriteTypes
  <2>3. CommandPhase \in Container
    BY <1>2 DEF Container, CommandPhase
  <2>4. \A full \in BOOLEAN : DataPhase(full) \in Container
    BY <1>2 DEF Container, DataPhase
  <2>5. {TRUE} \cup {call.kind # "stream"} \subseteq BOOLEAN
    OBVIOUS
  <2> QED BY <2>1, <2>2, <2>3, <2>4, <2>5 DEF SendCommandPhase, SendDataPhase, WriteFails
<1>4. HostTypes'
  <2>1. 0 \in 0..MaxCalls
    BY TransportAssumption
  <2>2. CASE Return("err", 0)
    BY <2>1, <2>2, ReturnTypes
  <2>3. CASE UNCHANGED <<part, data>> /\ \E s \in {"sendData", "recv"} : Goto(s)
    BY <2>3 DEF Goto, HostTypes, TypeOK
  <2> QED BY <2>2, <2>3 DEF SendCommandPhase, SendDataPhase, WriteFails
<1> QED BY <1>1, <1>3, <1>4, TypeParts DEF TypeOK, HostTypes, PipeTypes

LEMMA ReceiveTypes ==
    ASSUME TypeOK, FirstRead \/ Continuation \/ RecvTimeout \/ RecvDead
    PROVE  TypeOK'
<1>1. /\ link' = link /\ ncalls' = ncalls /\ out' = out /\ ans' = ans /\ expects' = expects
  BY DEF FirstRead, Continuation, RecvTimeout, RecvDead, cameraVars
<1>2. in' \in Seq(Fragment)
  BY ReadTypes, TornTypes DEF FirstRead, Continuation, RecvTimeout, RecvDead, TypeOK
<1>3. HostTypes'
  <2>1. CASE FirstRead
    <3> DEFINE f == Head(in)
    <3>1. f \in Fragment /\ f.id \in Ids /\ f.ok \in BOOLEAN
      BY <2>1, ReadTypes, CallTypes DEF FirstRead
    <3>2. CASE \E type : \E ok \in BOOLEAN : Got(f.id, type, ok)
      BY <3>1, <3>2, GotTypes
    <3>3. CASE ReadOn(f)
      BY <2>1, <3>1, <3>3 DEF ReadOn, Goto, HostTypes, TypeOK
    <3>4. Got(f.id, f.type, f.ok) \/ ReadOn(f) \/ GotJunk(f.id)
      BY <2>1 DEF FirstRead
    <3> HIDE DEF f
    <3>5. CASE GotJunk(f.id)
      BY <3>2, <3>5 DEF GotJunk
    <3> QED BY <3>1, <3>2, <3>3, <3>4, <3>5
  <2>2. CASE Continuation
    <3>1. part \in Fragment /\ part.id \in Ids /\ part.ok \in BOOLEAN
      BY <2>2, CallTypes DEF Continuation, TypeOK
    <3>2. CASE \E type : \E ok \in BOOLEAN : Got(part.id, type, ok)
      BY <3>1, <3>2, GotTypes
    <3>3. CASE ReadOn(part)
      BY <3>1, <3>3 DEF ReadOn, Goto, HostTypes, TypeOK
    <3>4. Got(part.id, part.type, part.ok) \/ ReadOn(part) \/ GotJunk(part.id)
      BY <2>2 DEF Continuation
    <3>5. CASE GotJunk(part.id)
      BY <3>2, <3>5 DEF GotJunk
    <3> QED BY <3>1, <3>2, <3>3, <3>4, <3>5
  <2>3. CASE RecvTimeout \/ RecvDead
    <3>1. 0 \in 0..MaxCalls /\ Return("err", 0)
      BY <2>3, TransportAssumption DEF RecvTimeout, RecvDead
    <3> QED BY <3>1, ReturnTypes
  <2> QED BY <2>1, <2>2, <2>3
<1> QED BY <1>1, <1>2, <1>3, TypeParts DEF TypeOK, HostTypes, PipeTypes

LEMMA CameraTakesTypes ==
    ASSUME TypeOK, CameraTakes
    PROVE  TypeOK'
<1>1. /\ out' \in Seq(Container) /\ Head(out) \in Container /\ Len(out') <= OutBuffer
  BY HeadTailProperties, TransportAssumption DEF CameraTakes, TypeOK
<1>2. Head(out).id \in Ids
  BY <1>1 DEF Container
<1>3. \A id \in Ids : id \in 0..MaxCalls
  BY TransportAssumption DEF Ids
<1>4. 0 \in 0..MaxCalls
  BY TransportAssumption
<1>5. expects # 0 => expects \in Ids
  BY TransportAssumption DEF TypeOK, Ids
<1>6. CASE \E id \in Ids, n \in Nat, ok \in BOOLEAN : Answers(id, n, ok)
  <2>1. ans' \in Seq(Fragment) /\ expects' = 0 /\ done' \in BOOLEAN
    BY <1>6, AnswerRemains DEF Answers
  <2> QED BY <1>1, <1>4, <2>1 DEF CameraTakes, hostVars, TypeOK
<1>7. CASE \E id \in 0..MaxCalls : Waits(id)
  BY <1>1, <1>7 DEF Waits, CameraTakes, hostVars, TypeOK
<1>8. \A n \in 0..MaxFragments : n \in Nat
  BY TransportAssumption
<1> DEFINE c == Head(out)
<1>9. \/ /\ c.phase = "COMMAND" /\ c.kind = "command"
         /\ \E ok \in BOOLEAN, n \in 0..MaxFragments : Answers(c.id, n, ok)
      \/ c.phase = "COMMAND" /\ c.kind # "command" /\ Waits(c.id)
      \/ c.phase = "COMMAND" /\ expects # 0 /\ Waits(expects)
      \/ c.phase = "DATA" /\ c.id = expects /\ c.full
         /\ \E ok \in BOOLEAN : Answers(c.id, 0, ok)
      \/ /\ c.phase = "DATA" /\ ~(c.id = expects /\ c.full)
         /\ \/ expects # 0 /\ Answers(expects, 0, FALSE)
            \/ Waits(expects)
  BY DEF CameraTakes
<1> HIDE DEF c
<1>10. expects \in 0..MaxCalls
  BY DEF TypeOK
<1>11. c.id \in Ids
  BY <1>2 DEF c
<1> QED BY <1>3, <1>5, <1>6, <1>7, <1>8, <1>9, <1>10, <1>11

LEMMA NextTypes ==
    ASSUME TypeOK, Locals, [Next]_vars
    PROVE  TypeOK'
<1>1. ASSUME NEW kind \in Kinds, Begin(kind) PROVE TypeOK'
  <2>1. ncalls + 1 \in Ids /\ ncalls' \in 0..MaxCalls
    BY <1>1, TransportAssumption DEF Begin, TypeOK, Ids
  <2>2. call' \in [id : Ids, kind : Kinds]
    BY <1>1, <2>1 DEF Begin
  <2> QED BY <1>1, <2>1, <2>2 DEF Begin, TypeOK, cameraVars
<1>2. CASE CameraSends
  BY <1>2, SendingKeeps DEF CameraSends, TypeOK, hostVars
<1>3. CASE Connect \/ Reset
  <2>1. <<>> \in Seq(Fragment)
    OBVIOUS
  <2>2. in' \in Seq(Fragment) /\ clean' \in BOOLEAN
    BY <1>3, <2>1 DEF Connect, Reset, Claimed, TypeOK
  <2> QED BY <1>3, <2>2 DEF Connect, Reset, cameraVars, hostVars, TypeOK
<1>4. CASE Close
  BY <1>4 DEF Close, TypeOK, cameraVars, hostVars
<1>5. CASE Unplug
  <2>1. <<>> \in Seq(Fragment) /\ <<>> \in Seq(Container) /\ Len(<<>>) <= OutBuffer
    BY TransportAssumption
  <2>2. 0 \in 0..MaxCalls
    BY TransportAssumption
  <2> QED BY <1>5, <2>1, <2>2 DEF Unplug, TypeOK, hostVars
<1>6. CASE Restart
  <2>1. 0 \in 0..MaxCalls
    BY TransportAssumption
  <2>2. HostTypes'
    BY <1>6, <2>1, ReturnTypes DEF Restart, HostTypes, TypeOK, hostVars
  <2> QED BY <1>6, <2>2, TypeParts DEF Restart, TypeOK, HostTypes, PipeTypes, cameraVars
<1>7. CASE UNCHANGED vars
  BY <1>7 DEF vars, TypeOK, hostVars, cameraVars
<1> QED
  BY <1>1, <1>2, <1>3, <1>4, <1>5, <1>6, <1>7, SendTypes, ReceiveTypes, CameraTakesTypes
  DEF Next, Host, Camera

-----------------------------------------------------------------------------
(* The invariant, one step per action.                                     *)

\* A call that returns leaves nothing behind, unless the channel is not clean.
LEMMA ReturnKeeps ==
    ASSUME NEW o, NEW f, Return(o, f), o = "err" \/ (clean => Quiet')
    PROVE  Locals' /\ CleanChannel'
<1>1. pc' = "idle" /\ call' = NoCall /\ part' = NoPart /\ data' = 0 /\ done' = FALSE
  BY DEF Return
<1>2. clean' => Quiet'
  BY DEF Return
<1> QED BY <1>1, <1>2 DEF Locals, CleanChannel

LEMMA AppendToOne ==
    ASSUME NEW S, NEW s \in Seq(S), NEW e \in S
    PROVE  Len(s) = 1 =>
           /\ Append(s, e) \in Seq(S) /\ Append(s, e) # <<>> /\ Len(Append(s, e)) = 2
           /\ Append(s, e)[1] = s[1] /\ Append(s, e)[2] = e
<1> DEFINE n == Len(s)
           a == Append(s, e)
<1>1. /\ a \in Seq(S) /\ a # <<>> /\ Len(a) = n + 1 /\ a[n + 1] = e
      /\ \A i \in 1..n : a[i] = s[i]
  BY AppendProperties
<1> HIDE DEF n, a
<1>2. n = 1 => /\ a \in Seq(S) /\ a # <<>> /\ Len(a) = 2
               /\ a[1] = s[1] /\ a[2] = e
  BY <1>1
<1> QED BY <1>2 DEF n, a

LEMMA SendKeeps ==
    ASSUME Inv, SendCommandPhase \/ SendDataPhase
    PROVE  Locals' /\ CleanChannel'
<1>1. CASE Return("err", 0)
  BY <1>1, ReturnKeeps
<1>2. /\ in' = in /\ ans' = ans /\ expects' = expects /\ link' = link
  BY DEF SendCommandPhase, SendDataPhase, cameraVars
<1>3. call # NoCall /\ call.kind \in Kinds
  BY CallTypes DEF Inv, Locals, SendCommandPhase, SendDataPhase
<1>4. ASSUME SendCommandPhase, UNCHANGED <<part, data>>,
             Write(CommandPhase),
             Goto(IF call.kind = "command" THEN "recv" ELSE "sendData")
      PROVE  Locals' /\ CleanChannel'
  <2> DEFINE c == CommandPhase
  <2>1. Locals'
    BY <1>2, <1>3, <1>4 DEF Locals, Inv, Goto, SendCommandPhase
  <2>2. ASSUME clean PROVE Asked'
    <3>1. Quiet /\ ~done /\ part = NoPart
      BY <2>2, <1>4 DEF Inv, CleanChannel, SendCommandPhase, Locals
    <3>2. out' = <<c>>
      BY <1>4, <3>1 DEF Write, Quiet
    <3>3. c.id = call.id /\ c.kind = call.kind /\ c.phase = "COMMAND"
      BY DEF CommandPhase
    <3> HIDE DEF c
    <3> QED BY <1>2, <1>4, <3>1, <3>2, <3>3 DEF Asked, Quiet, Goto
  <2> QED BY <1>4, <2>1, <2>2 DEF CleanChannel, Goto
<1>5. ASSUME SendDataPhase, UNCHANGED <<part, data>>, NEW full \in BOOLEAN,
             Write(DataPhase(full)), Goto("recv")
      PROVE  Locals' /\ CleanChannel'
  <2> DEFINE c == DataPhase(full)
  <2>1. Locals'
    BY <1>2, <1>3, <1>5 DEF Locals, Inv, Goto, SendDataPhase
  <2>2. ASSUME clean PROVE Asked'
    <3>0. c \in Container
      BY <1>3, CallTypes DEF Inv, DataPhase, Container
    <3>1. c.id = call.id /\ c.kind = call.kind /\ c.phase = "DATA"
      BY DEF DataPhase
    <3>2. pc = "sendData" /\ link = "live" /\ out' = Append(out, c)
      BY <1>5 DEF SendDataPhase, Write
    <3> HIDE DEF c
    <3>3. Asked /\ call.kind # "command"
      BY <2>2, <3>2 DEF Inv, CleanChannel, Locals, Gone, Answering, Receiving
    <3>4. out \in Seq(Container) /\ Len(out) \in Nat
      BY DEF Inv, TypeOK
    <3>5. CASE out = <<>>
      <4>1. out' = <<c>>
        BY <3>2, <3>5
      <4> QED BY <1>2, <1>5, <3>1, <3>3, <3>5, <4>1 DEF Asked, Goto
    <3>6. CASE out # <<>>
      <4>1. Len(out) = 1 /\ expects = 0
        BY <3>2, <3>3, <3>6 DEF Asked
      <4>2. out' # <<>> /\ Len(out') = 2 /\ out' \in Seq(Container) /\ out'[1] = out[1] /\ out'[2] = c
        BY <3>0, <3>2, <3>4, <4>1, AppendToOne
      <4>3. \A k \in DOMAIN out' : out'[k].id = call.id /\ out'[k].kind = call.kind
        BY <3>1, <3>3, <3>4, <4>1, <4>2 DEF Asked
      <4>4. out' # <<>> /\ out'[1].phase = "COMMAND" /\ out'[2].phase = "DATA"
        <5>1. call.id # 0
          BY <1>3, CallTypes, TransportAssumption DEF Inv, Ids
        <5> QED BY <3>1, <3>3, <4>1, <4>2, <5>1 DEF Asked
      <4>5. call' = call /\ done' = done /\ pc' = "recv" /\ part' = part
        BY <1>5 DEF Goto
      <4> QED BY <1>2, <3>3, <4>1, <4>2, <4>3, <4>4, <4>5 DEF Asked
    <3> QED BY <3>5, <3>6
  <2> QED BY <1>5, <2>1, <2>2 DEF CleanChannel, Goto
<1>6. {TRUE} \cup {call.kind # "stream"} \subseteq BOOLEAN
  OBVIOUS
<1>7. CASE SendCommandPhase
  BY <1>1, <1>4, <1>7 DEF SendCommandPhase
<1>8. CASE SendDataPhase
  BY <1>1, <1>5, <1>6, <1>8 DEF SendDataPhase
<1> QED BY <1>7, <1>8

(***************************************************************************)
(* A read on a clean channel is one of the answer to the call in progress: *)
(* a part of its DATA container, the end of it, or its RESPONSE.           *)
(***************************************************************************)
Left == in \o ans

LEMMA CleanRead ==
    ASSUME Inv, clean, FirstRead \/ Continuation
    PROVE  /\ Answering /\ Len(Left) \in Nat \ {0}
           /\ in' = Tail(in) /\ UNCHANGED <<link, out, cameraVars, ncalls>>
           /\ \/ /\ Len(Left) > 2 /\ pc = "recv"
                 /\ ReadOn(DataRead(call.id, done, TRUE, FALSE))
              \/ /\ Len(Left) = 2 /\ pc = "recv" /\ call.kind = "command"
                 /\ data' = call.id /\ part' = NoPart /\ Goto("recvResponse")
              \/ /\ Len(Left) = 1 /\ data \in {0, call.id}
                 /\ pc = "recvResponse" => data = call.id
                 /\ Return(IF done THEN "ok" ELSE "code", call.id)
<1> DEFINE s == in \o ans
           f == Head(in)
           b == part # NoPart
<1>1. /\ s \in Seq(Fragment) /\ Len(s) \in Nat \ {0} /\ f = s[1] /\ f \in Fragment
      /\ in' = Tail(in) /\ UNCHANGED <<link, out, cameraVars, ncalls>> /\ Receiving /\ in # <<>>
  BY ReadingTakes DEF FirstRead, Continuation, Inv, TypeOK
<1>2. Answering
  BY <1>1 DEF Inv, CleanChannel, Receiving, Gone, Asked, Quiet
<1>3. Remains(s, b, call.id, done) /\ b \in BOOLEAN
  BY <1>2 DEF Answering
<1> HIDE DEF s, f, b
<1>4. /\ Len(s) = 1 => f = Response(call.id, done)
      /\ Len(s) # 1 => f = DataRead(call.id, done, ~b, Len(s) = 2)
  BY <1>1, <1>3, RemainsHead
<1>5. done \in BOOLEAN
  BY DEF Inv, TypeOK
<1>6. CASE Len(s) = 1
  <2>1. f = Response(call.id, done) /\ part = NoPart
    BY <1>2, <1>4, <1>6 DEF Answering, s
  <2>2. /\ f.id = call.id /\ f.type = "RESPONSE" /\ f.ok = done
        /\ f.first = TRUE /\ f.last = TRUE
    BY <2>1 DEF Response
  <2>3. \/ f.first /\ f.last /\ Got(f.id, f.type, f.ok)
        \/ ~(f.first /\ f.last) /\ ReadOn(f)
        \/ ~f.first /\ GotJunk(f.id)
    BY <2>1 DEF FirstRead, Continuation, f
  <2>4. Got(call.id, "RESPONSE", done)
    BY <2>2, <2>3
  <2>5. Return(IF done THEN "ok" ELSE "code", call.id)
    BY <2>4 DEF Got
  <2>6. data \in {0, call.id} /\ (pc = "recvResponse" => data = call.id)
    BY <1>1, <1>2 DEF Answering, Inv, Locals, Receiving
  <2> QED BY <1>1, <1>2, <1>6, <2>5, <2>6 DEF Left, s
<1>7. CASE Len(s) # 1
  <2>1. f = DataRead(call.id, done, ~b, Len(s) = 2)
    BY <1>4, <1>7
  <2>2. pc = "recv" /\ call.kind = "command"
    BY <1>1, <1>2, <1>7 DEF Answering, Receiving, s
  <2>3. /\ f.id = call.id /\ f.type = "DATA" /\ f.ok = done
        /\ f.first = ~b /\ f.last = (Len(s) = 2)
    BY <2>1 DEF DataRead
  <2>4. \/ Len(s) = 2 /\ Got(call.id, "DATA", done)
        \/ Len(s) # 2 /\ ReadOn(DataRead(call.id, done, TRUE, FALSE))
    <3>1. CASE part = NoPart
      <4>1. f.first = TRUE
        BY <2>3, <3>1 DEF b
      <4>2. \/ f.first /\ f.last /\ Got(f.id, f.type, f.ok)
            \/ ~(f.first /\ f.last) /\ ReadOn(f)
            \/ ~f.first /\ GotJunk(f.id)
        BY <3>1 DEF FirstRead, Continuation, f
      <4>3. CASE Len(s) = 2
        BY <2>3, <4>1, <4>2, <4>3
      <4>4. CASE Len(s) # 2
        <5>1. f = DataRead(call.id, done, TRUE, FALSE)
          BY <2>1, <3>1, <4>4 DEF b
        <5>2. ReadOn(f)
          BY <2>3, <4>1, <4>2, <4>4
        <5> QED BY <4>4, <5>1, <5>2
      <4> QED BY <4>3, <4>4
    <3>2. CASE part # NoPart
      <4>1. part = DataRead(call.id, done, TRUE, FALSE)
        BY <1>2, <3>2 DEF Answering
      <4>2. /\ part.id = call.id /\ part.type = "DATA" /\ part.ok = done
            /\ part.first = TRUE
        BY <4>1 DEF DataRead
      <4>3. \/ part.first /\ f.last /\ Got(part.id, part.type, part.ok)
            \/ (part.first => ~f.last) /\ ReadOn(part)
            \/ ~part.first /\ GotJunk(part.id)
        BY <3>2 DEF FirstRead, Continuation, f
      <4>4. CASE Len(s) = 2
        BY <2>3, <4>2, <4>3, <4>4
      <4>5. CASE Len(s) # 2
        <5>1. ReadOn(part)
          BY <2>3, <4>2, <4>3, <4>5
        <5> QED BY <4>1, <4>5, <5>1
      <4> QED BY <4>4, <4>5
    <3> QED BY <3>1, <3>2
  <2>5. ASSUME Got(call.id, "DATA", done)
        PROVE  data' = call.id /\ part' = NoPart /\ Goto("recvResponse")
    BY <2>2, <2>5 DEF Got
  <2>6. \A n \in Nat \ {0} : n # 1 => n = 2 \/ n > 2
    OBVIOUS
  <2>7. Len(s) = 2 \/ (Len(s) # 2 /\ Len(s) > 2)
    BY <1>1, <1>7, <2>6
  <2>8. Left = s
    BY DEF Left, s
  <2> QED BY <1>1, <1>2, <2>2, <2>4, <2>5, <2>7, <2>8
<1> QED BY <1>6, <1>7

LEMMA ReceiveKeeps ==
    ASSUME Inv, FirstRead \/ Continuation
    PROVE  Locals' /\ CleanChannel'
<1>1. ASSUME NEW o, NEW id, Return(o, id), clean PROVE Quiet'
  <2>1. /\ Answering /\ Len(Left) \in Nat \ {0} /\ in' = Tail(in)
        /\ UNCHANGED <<out, cameraVars>>
    BY <1>1, CleanRead
  <2>2. Len(Left) = 1 /\ in \in Seq(Fragment) /\ ans \in Seq(Fragment) /\ in # <<>>
    BY <1>1, CleanRead DEF Return, ReadOn, Goto, FirstRead, Continuation, Inv, TypeOK, Receiving
  <2>3. Len(Tail(in) \o ans) = 0 /\ Tail(in) \in Seq(Fragment)
    BY <2>2, ReadingTakes DEF Left
  <2>4. Tail(in) = <<>> /\ ans = <<>>
    BY <2>2, <2>3, ConcatEqualIffEmpty, ConcatProperties
  <2> QED BY <2>1, <2>4 DEF Quiet, Answering, cameraVars
<1>2. CASE \E o, id : Return(o, id)
  <2>1. PICK o, id : Return(o, id)
    BY <1>2
  <2>2. clean => Quiet'
    BY <1>1, <2>1
  <2> QED BY <2>1, <2>2, ReturnKeeps
<1>3. CASE ~\E o, id : Return(o, id)
  <2>1. /\ link' = link /\ call' = call /\ done' = done /\ clean' = clean /\ call # NoCall
        /\ \/ pc' = pc /\ data' = data
           \/ pc' = "recvResponse"
    BY <1>3 DEF FirstRead, Continuation, Got, GotJunk, ReadOn, Goto, Inv, Locals, Receiving
  <2>2. Locals'
    BY <2>1 DEF Inv, Locals, FirstRead, Continuation, Receiving
  <2>3. ASSUME clean PROVE Answering'
    <3> DEFINE s == in \o ans
               t == Tail(in) \o ans
    <3>1. /\ Answering /\ Len(s) \in Nat \ {0} /\ in' = Tail(in)
          /\ out' = out /\ ans' = ans /\ expects' = expects
          /\ \/ /\ Len(s) > 2 /\ pc = "recv"
                /\ ReadOn(DataRead(call.id, done, TRUE, FALSE))
             \/ /\ Len(s) = 2 /\ pc = "recv" /\ call.kind = "command"
                /\ data' = call.id /\ part' = NoPart /\ Goto("recvResponse")
      BY <2>3, <1>3, CleanRead DEF Left, cameraVars
    <3>2. in \in Seq(Fragment) /\ ans \in Seq(Fragment) /\ in # <<>>
      BY DEF Inv, TypeOK, FirstRead, Continuation
    <3>3. /\ s \in Seq(Fragment) /\ t \in Seq(Fragment) /\ Len(t) = Len(s) - 1
          /\ \A i \in 1..(Len(s) - 1) : t[i] = s[i + 1]
      BY <3>2, ReadingTakes
    <3>4. (in \o ans)' = t
      BY <3>1
    <3>5. Remains(s, part # NoPart, call.id, done) /\ (part # NoPart) \in BOOLEAN
      BY <3>1 DEF Answering
    <3>6. call.kind # "command" => Len(s) = 1
      BY <3>1 DEF Answering
    <3> HIDE DEF s, t
    <3>0. \A n \in Nat \ {0} : (n = 2 => n # 1) /\ (n > 2 => n \notin {1, 2} /\ n - 1 >= 2)
      OBVIOUS
    <3>7. Len(s) # 1 /\ (Len(s) > 2 => Len(s) # 2 /\ Len(t) >= 2)
      BY <3>0, <3>1, <3>3, Zenon
    <3>8. Remains(t, TRUE, call.id, done) /\ (Len(s) = 2 => Remains(t, FALSE, call.id, done))
      BY <3>3, <3>5, <3>7, RemainsTail
    <3>9. CASE Len(s) = 2
      <4>1. /\ data' = call.id /\ part' = NoPart /\ pc' = "recvResponse" /\ Len(t) = 1
        BY <3>1, <3>3, <3>9 DEF Goto
      <4>2. Remains(t, FALSE, call.id, done) /\ (part # NoPart)' = FALSE
        BY <3>8, <3>9, <4>1
      <4>3. out' = <<>> /\ expects' = 0
        BY <3>1 DEF Answering
      <4> QED BY <2>1, <3>4, <3>6, <3>7, <4>1, <4>2, <4>3 DEF Answering, Receiving
    <3>10. CASE Len(s) > 2
      <4>1. /\ part' = DataRead(call.id, done, TRUE, FALSE) /\ pc' = "recv" /\ Len(t) >= 2
        BY <3>1, <3>7, <3>10, Zenon DEF ReadOn, Goto
      <4>2. part' # NoPart
        BY <4>1 DEF DataRead, NoPart
      <4>3. Remains(t, TRUE, call.id, done) /\ (part # NoPart)' = TRUE
        BY <3>8, <4>2
      <4>4. out' = <<>> /\ expects' = 0
        BY <3>1 DEF Answering
      <4> QED BY <2>1, <3>4, <3>6, <3>7, <4>1, <4>2, <4>3, <4>4 DEF Answering, Receiving
    <3> QED BY <3>1, <3>9, <3>10
  <2> QED BY <2>1, <2>2, <2>3 DEF CleanChannel, FirstRead, Continuation, Receiving
<1> QED BY <1>2, <1>3

LEMMA CameraTakesKeeps ==
    ASSUME Inv, CameraTakes
    PROVE  Locals' /\ CleanChannel'
<1> DEFINE c == Head(out)
<1>1. /\ link' = link /\ pc' = pc /\ call' = call /\ part' = part /\ data' = data
      /\ in' = in /\ clean' = clean /\ out' = Tail(out) /\ out # <<>> /\ ans = <<>>
      /\ link # "dead"
  BY DEF CameraTakes, hostVars
<1>2. /\ out \in Seq(Container) /\ c \in Container /\ c = out[1] /\ c.id \in Ids
      /\ c.phase \in {"COMMAND", "DATA"} /\ c.full \in BOOLEAN
      /\ out' \in Seq(Container) /\ Len(out') = Len(out) - 1
      /\ \A k \in 1..(Len(out) - 1) : out'[k] = out[k + 1]
  <2>1. c \in Container
    BY <1>1, HeadTailProperties DEF Inv, TypeOK
  <2> QED BY <1>1, <2>1, HeadTailProperties DEF Inv, TypeOK, Container
<1>3. \/ /\ c.phase = "COMMAND" /\ c.kind = "command"
         /\ \E ok \in BOOLEAN, n \in 0..MaxFragments : Answers(c.id, n, ok)
      \/ c.phase = "COMMAND" /\ c.kind # "command" /\ Waits(c.id)
      \/ c.phase = "COMMAND" /\ expects # 0 /\ Waits(expects)
      \/ c.phase = "DATA" /\ c.id = expects /\ c.full
         /\ \E ok \in BOOLEAN : Answers(c.id, 0, ok)
      \/ /\ c.phase = "DATA" /\ ~(c.id = expects /\ c.full)
         /\ \/ expects # 0 /\ Answers(expects, 0, FALSE)
            \/ Waits(expects)
  BY DEF CameraTakes
<1> HIDE DEF c
<1>4. 0 \notin Ids /\ (pc = "idle" => call.id = 0)
  BY TransportAssumption DEF Ids, Inv, Locals, NoCall
<1>5. Locals'
  <2>1. \/ \E id \in Ids : \E n, ok : Answers(id, n, ok)
        \/ \E id, n : Answers(id, n, FALSE)
        \/ done' = done
    BY <1>2, <1>3 DEF Waits
  <2>2. pc = "idle" => done' = FALSE
    <3> SUFFICES ASSUME pc = "idle" PROVE done' = FALSE
      OBVIOUS
    <3>1. done = FALSE /\ \A id \in Ids : id # call.id
      BY <1>4 DEF Inv, Locals, TypeOK
    <3> QED BY <2>1, <3>1 DEF Answers
  <2> QED BY <1>1, <2>2 DEF Inv, Locals
<1>6. ASSUME clean PROVE Asked' \/ Answering'
  <2>1. Asked /\ pc \in {"sendData", "recv"}
    BY <1>1, <1>6 DEF Inv, CleanChannel, Gone, Quiet, Asked, Answering
  <2>2. c.id = call.id /\ c.kind = call.kind /\ call.id \in Ids
    BY <1>2, <2>1 DEF Asked
  <2>3. Locals /\ pc' = pc /\ call' = call /\ part' = NoPart /\ in' = <<>> /\ done = FALSE
    BY <1>1, <2>1 DEF Asked, Inv, TypeOK
  <2>4. ASSUME NEW n \in Nat, NEW ok \in BOOLEAN, Answers(call.id, n, ok),
               out' = <<>>, pc = "recv", call.kind # "command" => n = 0
        PROVE  Answering'
    <3>1. done' = ok
      BY <2>3, <2>4 DEF Answers
    <3>2. ans' = Answer(call.id, n, ok) /\ expects' = 0
      BY <2>4 DEF Answers
    <3>3. /\ ans' \in Seq(Fragment) /\ Len(ans') = n + 1
          /\ Remains(ans', FALSE, call.id, ok)
      BY <2>2, <3>2, AnswerRemains
    <3>4. (in \o ans)' = ans'
      BY <2>3, <3>3
    <3>5. (part # NoPart)' = FALSE /\ pc' = "recv"
      BY <2>3, <2>4
    <3>6. call.kind # "command" => Len(ans') = 1
      BY <2>4, <3>3
    <3> QED BY <2>3, <2>4, <3>1, <3>2, <3>3, <3>4, <3>5, <3>6 DEF Answering, Receiving
  <2>5. ASSUME Waits(call.id), call.kind # "command",
               out' # <<>> => Len(out') = 1 /\ out'[1].phase = "DATA" /\ pc = "recv"
        PROVE  Asked'
    <3>1. expects' = call.id /\ ans' = <<>> /\ done' = FALSE
      BY <1>1, <2>3, <2>5 DEF Waits
    <3>2. \A k \in DOMAIN out' : out'[k].id = call.id /\ out'[k].kind = call.kind
      <4>1. \A k \in DOMAIN out : out[k].id = call.id /\ out[k].kind = call.kind
        BY <2>1 DEF Asked
      <4>2. ASSUME NEW k \in DOMAIN out'
            PROVE  out'[k].id = call.id /\ out'[k].kind = call.kind
        <5>1. /\ Len(out) \in Nat /\ DOMAIN out = 1..Len(out)
              /\ DOMAIN out' = 1..(Len(out) - 1)
          BY <1>2
        <5>2. k \in 1..(Len(out) - 1) /\ k + 1 \in DOMAIN out
          BY <5>1
        <5>3. out'[k] = out[k + 1]
          BY <1>2, <5>2
        <5> QED BY <4>1, <5>2, <5>3
      <4> QED BY <4>2
    <3> QED BY <2>1, <2>3, <2>5, <3>1, <3>2 DEF Asked
  <2>6. Len(out) = 1 => out' = <<>>
    BY <1>2
  <2>7. CASE c.phase = "COMMAND"
    <3>1. expects = 0
      BY <1>1, <1>2, <2>1, <2>7 DEF Asked
    <3>2. Len(out) # 1 => /\ Len(out) = 2 /\ out[2].phase = "DATA"
                         /\ call.kind # "command" /\ pc = "recv"
      BY <1>4, <2>1, <2>2, <3>1 DEF Asked
    <3>3. CASE call.kind = "command"
      <4>1. PICK ok \in BOOLEAN, n \in 0..MaxFragments : Answers(call.id, n, ok)
        BY <1>3, <2>2, <2>7, <3>1, <3>3
      <4>2. n \in Nat /\ out' = <<>> /\ pc = "recv"
        BY <2>1, <2>3, <2>6, <3>2, <3>3, TransportAssumption DEF Locals
      <4> QED BY <2>4, <3>3, <4>1, <4>2
    <3>4. CASE call.kind # "command"
      <4>1. Waits(call.id)
        BY <1>3, <2>2, <2>7, <3>1, <3>4
      <4>2. Len(out) = 2 => Len(out') = 1 /\ out'[1] = out[2]
        BY <1>2
      <4> QED BY <2>5, <2>6, <3>2, <3>4, <4>1, <4>2
    <3> QED BY <3>3, <3>4
  <2>8. CASE c.phase = "DATA"
    <3>1. expects = call.id /\ call.kind # "command" /\ Len(out) = 1 /\ pc = "recv"
      BY <1>1, <1>2, <2>1, <2>8 DEF Asked
    <3>2. out' = <<>>
      BY <2>6, <3>1
    <3>3. \/ \E ok \in BOOLEAN : Answers(call.id, 0, ok)
          \/ Waits(call.id)
      BY <1>3, <2>2, <2>8, <3>1
    <3> QED BY <2>4, <2>5, <3>1, <3>2, <3>3
  <2> QED BY <1>2, <2>7, <2>8
<1> QED BY <1>1, <1>5, <1>6 DEF CleanChannel, Inv, Quiet

LEMMA NextKeeps ==
    ASSUME Inv, [Next]_vars
    PROVE  Locals' /\ CleanChannel'
<1>1. ASSUME NEW kind \in Kinds, Begin(kind) PROVE Locals' /\ CleanChannel'
  <2>1. call' # NoCall
    BY <1>1, TransportAssumption DEF Begin, NoCall, Inv, TypeOK
  <2>2. Locals'
    BY <1>1, <2>1 DEF Begin, Inv, Locals
  <2> QED BY <1>1, <2>2 DEF Begin, Inv, CleanChannel, Quiet, cameraVars
<1>2. CASE CameraSends
  <2>1. Locals'
    BY <1>2 DEF CameraSends, Inv, Locals, hostVars
  <2>2. ASSUME clean PROVE Answering'
    <3>1. Answering
      BY <1>2, <2>2 DEF CameraSends, Inv, CleanChannel, Quiet, Gone, Asked
    <3>2. in \in Seq(Fragment) /\ ans \in Seq(Fragment) /\ ans # <<>>
      BY <1>2 DEF CameraSends, Inv, TypeOK
    <3>3. (in \o ans)' = in \o ans
      BY <1>2, <3>2, SendingKeeps DEF CameraSends
    <3> QED BY <1>2, <3>1, <3>3 DEF CameraSends, Answering, Receiving, hostVars
  <2>3. pc' = pc /\ clean' = clean
    BY <1>2 DEF CameraSends, hostVars
  <2>4. clean => pc \notin {"idle", "sendCommand"}
    BY <1>2 DEF CameraSends, Inv, CleanChannel, Quiet
  <2> QED BY <2>1, <2>2, <2>3, <2>4 DEF CleanChannel
<1>3. CASE Connect \/ Reset
  <2>1. Locals' /\ pc' = "idle" /\ ~done'
    BY <1>3 DEF Connect, Reset, Inv, Locals, hostVars
  <2>2. clean => Quiet'
    BY <1>3 DEF Connect, Reset, Claimed, Inv, CleanChannel, Quiet, cameraVars
  <2> QED BY <1>3, <2>1, <2>2 DEF Connect, Reset, Claimed, CleanChannel
<1>4. CASE Close
  BY <1>4 DEF Close, Inv, Locals, CleanChannel, Quiet, hostVars, cameraVars
<1>5. CASE Unplug
  <2>1. Locals'
    BY <1>5 DEF Unplug, Inv, Locals, hostVars
  <2>2. pc # "idle" => Gone'
    BY <1>5 DEF Unplug, Gone, Quiet, Inv, Locals, TypeOK
  <2> QED BY <1>5, <2>1, <2>2 DEF Unplug, Inv, CleanChannel, Quiet, hostVars
<1>6. CASE Restart
  <2>1. CASE Return("err", 0)
    BY <2>1, ReturnKeeps
  <2>2. CASE pc = "idle" /\ UNCHANGED <<hostVars, done, clean, result>>
    BY <1>6, <2>2 DEF Restart, Inv, Locals, CleanChannel, Quiet, hostVars, cameraVars
  <2> QED BY <1>6, <2>1, <2>2 DEF Restart
<1>7. CASE RecvTimeout \/ RecvDead \/ WriteFails
  BY <1>7, ReturnKeeps DEF RecvTimeout, RecvDead, WriteFails
<1>8. CASE UNCHANGED vars
  BY <1>8 DEF vars, hostVars, cameraVars, Inv, Locals, CleanChannel, Quiet, Gone, Asked,
              Answering, Receiving
<1> QED
  BY <1>1, <1>2, <1>3, <1>4, <1>5, <1>6, <1>7, <1>8,
     SendKeeps, ReceiveKeeps, CameraTakesKeeps DEF Next, Host, Camera

LEMMA InitInv == Init => Inv
<1> SUFFICES ASSUME Init PROVE Inv
  OBVIOUS
<1>1. TypeOK
  <2>1. /\ <<>> \in Seq(Container) /\ <<>> \in Seq(Fragment) /\ Len(<<>>) <= OutBuffer
        /\ 0 \in 0..MaxCalls
    BY TransportAssumption
  <2> QED BY <2>1 DEF Init, TypeOK, NoResult
<1> QED BY <1>1 DEF Init, Inv, Locals, CleanChannel, Quiet

(***************************************************************************)
(* The invariant: what is on its way on a clean channel is what is left of *)
(* the call in progress (transport.go:206-395).                            *)
(***************************************************************************)
THEOREM TransportInvariant == Spec => []Inv
<1>1. Inv /\ [Next]_vars => Inv'
  BY NextTypes, NextKeeps DEF Inv
<1> QED BY InitInv, <1>1, PTL DEF Spec

(***************************************************************************)
(* Every variable keeps its type; at most OutBuffer containers wait in the *)
(* OUT endpoint (send, transport.go:206-224).                              *)
(***************************************************************************)
THEOREM TypeCorrect == Spec => []TypeOK
<1>1. Inv => TypeOK
  BY DEF Inv
<1> QED BY <1>1, TransportInvariant, PTL

(***************************************************************************)
(* While no call has been given up with its answer under way, no container *)
(* or read of another call is on its way: SendCommand may do without       *)
(* comparing transaction IDs (transport.go:260-295).                       *)
(***************************************************************************)
THEOREM OnlyOwnUnderWay == Spec => []OnlyOwnInFlight
<1>1. Inv => OnlyOwnInFlight
  <2> SUFFICES ASSUME Inv, clean PROVE InFlight \subseteq {call.id}
    BY DEF OnlyOwnInFlight
  <2>1. CASE Quiet
    BY <2>1 DEF Quiet, InFlight
  <2>2. CASE Asked
    BY <2>2 DEF Asked, InFlight
  <2>3. CASE Answering
    <3>1. /\ in \in Seq(Fragment) /\ ans \in Seq(Fragment) /\ out = <<>> /\ expects = 0
          /\ Remains(in \o ans, part # NoPart, call.id, done)
      BY <2>3 DEF Inv, TypeOK, Answering
    <3> DEFINE s == in \o ans
    <3>2. /\ s \in Seq(Fragment) /\ Len(s) = Len(in) + Len(ans)
          /\ \A i \in 1..(Len(in) + Len(ans)) :
                s[i] = IF i <= Len(in) THEN in[i] ELSE ans[i - Len(in)]
      BY <3>1, ConcatProperties
    <3>3. Remains(s, part # NoPart, call.id, done)
      BY <3>1
    <3> HIDE DEF s
    <3>4. ASSUME NEW k \in 1..Len(s) PROVE s[k].id = call.id
      <4>1. k = Len(s) \/ k \in 1..(Len(s) - 1)
        BY <3>2
      <4>2. CASE k = Len(s)
        BY <3>3, <4>2 DEF Remains, Response
      <4>3. CASE k \in 1..(Len(s) - 1)
        <5>1. \A first, last : DataRead(call.id, done, first, last).id = call.id
          BY DEF DataRead
        <5> DEFINE first == k = 1 /\ ~(part # NoPart)
                   last == k = Len(s) - 1
        <5>2. s[k] = DataRead(call.id, done, first, last)
          BY <3>3, <4>3 DEF Remains
        <5> HIDE DEF first, last
        <5> QED BY <5>1, <5>2
      <4> QED BY <4>1, <4>2, <4>3
    <3>5. ASSUME NEW k \in DOMAIN in PROVE in[k].id = call.id
      <4>1. k \in 1..(Len(in) + Len(ans)) /\ k <= Len(in)
        BY <3>1
      <4> QED BY <3>2, <3>4, <4>1
    <3>6. ASSUME NEW k \in DOMAIN ans PROVE ans[k].id = call.id
      <4>1. /\ k + Len(in) \in 1..(Len(in) + Len(ans)) /\ ~(k + Len(in) <= Len(in))
            /\ (k + Len(in)) - Len(in) = k
        BY <3>1
      <4> QED BY <3>2, <3>4, <4>1
    <3> QED BY <3>1, <3>5, <3>6 DEF InFlight
  <2> QED BY <2>1, <2>2, <2>3 DEF Inv, CleanChannel, Gone
<1> QED BY <1>1, TransportInvariant, PTL

-----------------------------------------------------------------------------
(* What a step does to a caller.                                           *)

\* The ways in which a call ends: given up, or with its own answer if clean.
LEMMA CallReturns ==
    ASSUME Inv, [Next]_vars, Returns
    PROVE  \/ Return("err", 0)
           \/ /\ \E o \in {"ok", "code"} : \E f : Return(o, f)
              /\ clean => /\ Return(IF done THEN "ok" ELSE "code", call.id)
                          /\ data \in {0, call.id}
<1>1. \/ Return("err", 0) \/ FirstRead \/ Continuation
  BY DEF Returns, Next, Host, Camera, Begin, SendCommandPhase, SendDataPhase, WriteFails, RecvTimeout,
         RecvDead, CameraTakes, CameraSends, Connect, Reset, Close, Unplug, Restart,
         Goto, vars, hostVars
<1>2. CASE FirstRead \/ Continuation
  <2>1. \E o \in {"ok", "code", "err"} : \E f : Return(o, f) /\ (o = "err" => f = 0)
    BY <1>2 DEF FirstRead, Continuation, Got, GotJunk, ReadOn, Goto, Returns, Receiving
  <2>2. clean => /\ Return(IF done THEN "ok" ELSE "code", call.id)
                 /\ data \in {0, call.id}
    BY <1>2, CleanRead DEF Returns, ReadOn, Goto
  <2> QED BY <2>1, <2>2
<1> QED BY <1>1, <1>2

(***************************************************************************)
(* On a clean channel a call that returns an answer returns its own, with  *)
(* its own data (recv and SendCommand, transport.go:227-295).              *)
(***************************************************************************)
THEOREM AnswersAreOwn == Spec => OwnAnswerWhileClean
<1>1. Inv /\ [Next]_vars =>
        [(Returns /\ clean /\ Answered')
            => result'.from = call.id /\ result'.data \in {0, call.id}]_vars
  <2> SUFFICES ASSUME Inv, [Next]_vars, Returns, clean, Answered'
               PROVE  result'.from = call.id /\ result'.data \in {0, call.id}
    OBVIOUS
  <2>1. ~Return("err", 0)
    BY DEF Answered, Return
  <2>2. Return(IF done THEN "ok" ELSE "code", call.id) /\ data \in {0, call.id}
    BY <2>1, CallReturns
  <2> QED BY <2>2 DEF Return
<1> QED BY <1>1, TransportInvariant, PTL DEF Spec, OwnAnswerWhileClean

(***************************************************************************)
(* A camera that is gone has nothing on its way: Unplug empties both pipes *)
(* and nothing is written to a dead handle.                                *)
(***************************************************************************)
Silent == link = "dead" => Quiet

\* Only these steps leave the link dead, and they leave or make it quiet.
LEMMA SilentKept ==
    ASSUME Inv, Silent, [Next]_vars
    PROVE  Silent'
<1> SUFFICES ASSUME link' = "dead" PROVE Quiet'
  BY DEF Silent
<1>1. CASE link # "dead"
  <2>1. Unplug
    BY <1>1 DEF Next, Host, Camera, Begin, SendCommandPhase, SendDataPhase, WriteFails, FirstRead, Continuation,
                RecvTimeout, RecvDead, CameraTakes, CameraSends, Connect, Reset, Close, Restart, vars
  <2> QED BY <2>1 DEF Unplug, Quiet
<1>2. CASE link = "dead"
  <2>1. Quiet
    BY <1>2 DEF Silent
  <2>2. UNCHANGED <<out, in, cameraVars>>
    BY <1>2, <2>1
    DEF Quiet, Next, Host, Camera, Begin, SendCommandPhase, SendDataPhase, WriteFails, Write, FirstRead, Continuation,
        RecvTimeout, RecvDead, CameraTakes, CameraSends, Connect, Reset, Close, Unplug, Restart,
        cameraVars, vars
  <2> QED BY <2>1, <2>2 DEF Quiet, cameraVars
<1> QED BY <1>1, <1>2

\* A call that returns leaves the handle as it is, unless the daemon stops.
LEMMA ReturnOnLink ==
    ASSUME Inv, Silent, [Next]_vars, Returns
    PROVE  \/ Return("err", 0) /\ link' = "none"
           \/ /\ link' = link /\ link \in {"live", "dead"}
              /\ Return("err", 0) \/ link = "live"
<1>1. link \in {"live", "dead"}
  BY DEF Inv, Locals, TypeOK, Returns
<1>2. CASE Restart
  BY <1>2 DEF Restart, Returns
<1>3. CASE SendCommandPhase \/ SendDataPhase \/ WriteFails \/ RecvTimeout \/ RecvDead
  BY <1>1, <1>3
  DEF SendCommandPhase, SendDataPhase, WriteFails, RecvTimeout, RecvDead, Goto, Returns
<1>4. CASE FirstRead \/ Continuation
  <2>1. link' = link /\ in # <<>>
    BY <1>4 DEF FirstRead, Continuation
  <2> QED BY <1>1, <2>1 DEF Silent, Quiet
<1> QED
  BY <1>2, <1>3, <1>4 DEF Returns, Next, Host, Camera, Begin, CameraTakes, CameraSends,
         Connect, Reset, Close, Unplug, vars, hostVars

\* A call that returns is the end of one of the channel.
LEMMA ReturnIsEnd ==
    ASSUME Inv, Silent, [Next]_vars, Returns
    PROVE  Channel!End \/ Channel!Die
<1>1. done \in BOOLEAN /\ clean \in BOOLEAN
  BY DEF Inv, TypeOK
<1>2. Silent'
  BY SilentKept
<1>3. pc # "idle" /\ pc' = "idle"
  BY DEF Returns
<1>4. CASE Return("err", 0) /\ link' = "none"
  BY <1>1, <1>3, <1>4 DEF Return, Channel!Die
<1>5. CASE Return("err", 0) /\ link' = link /\ link = "live"
  <2>1. /\ done' = FALSE /\ result'.outcome = "err"
        /\ clean' \in BOOLEAN /\ (~clean => clean' = clean)
    BY <1>1, <1>5 DEF Return
  <2>2. Channel!EndsAs(TRUE, "err", done, TRUE)
    BY <1>1, <2>1 DEF Channel!EndsAs
  <2> QED BY <1>3, <1>5, <2>1, <2>2 DEF Channel!End, Channel!Outcome
<1>6. CASE Return("err", 0) /\ link' = link /\ link = "dead"
  <2>1. done' = FALSE /\ result'.outcome = "err" /\ clean' = clean
    BY <1>1, <1>2, <1>6 DEF Return, Silent
  <2>2. ~done => Channel!EndsAs(FALSE, "err", done, TRUE)
    BY <1>1, <2>1 DEF Channel!EndsAs
  <2>3. Channel!EndsAs(TRUE, "err", done, TRUE)
    BY <1>1, <2>1 DEF Channel!EndsAs
  <2> QED BY <1>1, <1>3, <1>6, <2>1, <2>2, <2>3 DEF Channel!End, Channel!Outcome
<1>7. CASE ~Return("err", 0) /\ link' = link /\ link = "live"
  <2>1. PICK o \in {"ok", "code"} : \E f : Return(o, f)
    BY <1>7, CallReturns
  <2>2. clean => Return(IF done THEN "ok" ELSE "code", call.id)
    BY <1>7, CallReturns
  <2>3. done' = FALSE /\ result'.outcome = o /\ clean' = clean /\ (clean => (o = "ok" <=> done))
    BY <1>1, <2>1, <2>2 DEF Return
  <2>4. Channel!EndsAs(TRUE, o, done, TRUE)
    BY <1>1, <2>1, <2>3 DEF Channel!EndsAs
  <2> QED BY <1>3, <1>7, <2>1, <2>3, <2>4 DEF Channel!End, Channel!Outcome
<1> QED BY <1>4, <1>5, <1>6, <1>7, ReturnOnLink

(***************************************************************************)
(* The transport implements PTPChannel: one command at a time, which ends  *)
(* as CameraSession and Presets take every command to end.  An answer says *)
(* what became of it until a call is given up with its answer under way,   *)
(* and a camera that is gone answers nothing.                              *)
(***************************************************************************)
THEOREM TransportImplementsChannel == Spec => ImplementsChannel
<1> DEFINE view == <<link = "live", pc # "idle", done, clean, result.outcome>>
<1>1. Init => Channel!Init
  BY DEF Init, Channel!Init, NoResult
<1>2. Inv /\ Silent /\ [Next]_vars => [Channel!Next]_view
  <2> SUFFICES ASSUME Inv, Silent, [Next]_vars
               PROVE  Channel!Next \/ UNCHANGED view
    OBVIOUS
  <2>1. done \in BOOLEAN /\ clean \in BOOLEAN /\ link \in {"none", "live", "dead"}
    BY DEF Inv, TypeOK
  <2>2. CASE Returns
    BY <2>2, ReturnIsEnd DEF Channel!Next
  <2>3. CASE \E kind \in Kinds : Begin(kind)
    BY <2>3 DEF Begin, Channel!Next, Channel!Call
  <2>4. CASE CameraTakes
    <3>1. UNCHANGED <<link, pc, clean, result>> /\ link # "dead"
      BY <2>4 DEF CameraTakes, hostVars
    <3>2. done' # done => pc # "idle" /\ ~done /\ done' = TRUE
      BY <2>1, <2>4, CameraTakesKeeps, CameraTakesTypes DEF CameraTakes, Answers, Waits, Inv, Locals, hostVars, TypeOK
    <3>3. pc # "idle" => link # "none"
      BY DEF Inv, Locals
    <3> QED BY <2>1, <3>1, <3>2, <3>3 DEF Channel!Next, Channel!CarryOut
  <2>5. CASE Connect \/ Reset
    BY <2>1, <2>5 DEF Connect, Reset, Claimed, hostVars, Channel!Next, Channel!Reopen
  <2>6. CASE CameraSends \/ UNCHANGED vars
    BY <2>6 DEF CameraSends, vars, hostVars
  <2>7. CASE Close \/ Unplug \/ (Restart /\ ~Returns)
    <3>1. link' # "live" /\ UNCHANGED <<pc, done, clean, result>>
      BY <2>7 DEF Close, Unplug, Restart, Returns, Return, hostVars
    <3> QED BY <3>1 DEF Channel!Next, Channel!Lose
  <2>8. CASE Host /\ ~Returns
    <3>1. link' = link
      BY <2>8 DEF Host, SendCommandPhase, SendDataPhase, FirstRead, Continuation, RecvTimeout, RecvDead
    <3>2. CASE UNCHANGED <<pc, done, clean, result>>
      BY <3>1, <3>2
    <3>3. CASE \E step \in {"recv", "sendData", "recvResponse"} : Goto(step) /\ pc # "idle"
      BY <3>1, <3>3 DEF Goto
    <3> QED
      BY <2>8, <3>2, <3>3
      DEF Host, Returns, SendCommandPhase, SendDataPhase, FirstRead, Continuation,
          RecvTimeout, RecvDead, Got, GotJunk, ReadOn, Receiving, Return, hostVars
  <2>9. WriteFails => Returns
    BY DEF WriteFails, Return, Returns
  <2> QED BY <2>2, <2>3, <2>4, <2>5, <2>6, <2>7, <2>8, <2>9 DEF Next, Camera
<1>3. Init => Silent
  BY DEF Init, Silent
<1>4. Spec => []Silent
  <2>1. Inv /\ Silent /\ [Next]_vars => Silent'
    BY SilentKept
  <2> QED BY <1>3, <2>1, TransportInvariant, PTL DEF Spec
<1> QED BY <1>1, <1>2, <1>4, TransportInvariant, PTL DEF Spec, ImplementsChannel, Channel!Spec
=============================================================================
