----------------------------- MODULE RafListing -----------------------------
(***************************************************************************)
(* GET /api/files: ListRAFFiles of internal/ptp/session.go, a walk through *)
(* the folders of the camera's cards.  An action is one PTP command with   *)
(* the Go code up to the next, under the mutex; nothing is kept from one   *)
(* call to the next, so a behaviour is one call.  The camera is external:  *)
(* it answers anything, and the history keeps what it answered; that these *)
(* are the answers to the commands is PTPChannel's promise.                *)
(***************************************************************************)
EXTENDS Naturals, Sequences, FiniteSets

CONSTANTS
    Handle,        \* the handles the camera may name
    Storage,       \* its storages; a storage stands for its root, parent 0
    Nowhere,       \* no folder
    MaxDirDepth,   \* 5 in the code
    MaxStorages,   \* bound: storages in an answer
    MaxKids        \* bound: handles in an answer

Folder == Storage \cup Handle

ASSUME ListingAssumption ==
    /\ Storage \cap Handle = {} /\ Nowhere \notin Folder
    /\ MaxDirDepth \in Nat /\ MaxStorages \in Nat /\ MaxKids \in Nat

VARIABLES
    pc, how,
    todo,       \* storageIDs from the one in hand on
    asked,      \* the folder of the next GetObjectHandles
    stack,      \* the calls of listRAFsInDir: the handles each has left
    seen, files,
    \* history, read by properties only
    cards,      \* the storages the camera has named
    kids,       \* the handles it has named in each folder
    kind,       \* what it has said of each handle
    listed,     \* folders it has listed
    skipped     \* folders that failed or were too deep

vars == <<pc, how, todo, asked, stack, seen, files, cards, kids, kind, listed, skipped>>

Kind == {"dir", "raf", "other"}

\* The camera lists a folder in any order: a call keeps a set of handles.
TypeOK ==
    /\ pc \in {"storages", "list", "info", "ended"}
    /\ how \in {"none", "done", "error", "panic"}
    /\ todo \in Seq(Storage) /\ asked \in Folder \cup {Nowhere}
    /\ stack \in Seq(SUBSET Handle) /\ Len(stack) <= MaxDirDepth + 1
    /\ seen \subseteq Handle /\ files \in Seq(Handle)
    /\ cards \subseteq Storage /\ kids \in [Folder -> SUBSET Handle]
    /\ listed \subseteq Folder /\ skipped \subseteq Folder
    /\ kind \in [Handle -> Kind \cup {"unasked", "failed"}]

Init ==
    /\ pc = "storages" /\ how = "none"
    /\ todo = <<>> /\ asked = Nowhere /\ stack = <<>> /\ seen = {} /\ files = <<>>
    /\ kids = [f \in Folder |-> {}] /\ kind = [h \in Handle |-> "unasked"]
    /\ cards = {} /\ listed = {} /\ skipped = {}

-----------------------------------------------------------------------------
Return(end) == pc' = "ended" /\ how' = end

\* The first storage that is left is listed, from depth 0.
NextStorage(left) ==
    IF left = <<>>
    THEN Return("done") /\ asked' = Nowhere /\ todo' = left
    ELSE /\ pc' = "list" /\ UNCHANGED how
         /\ asked' = Head(left) /\ todo' = Tail(left)

GetStorageIDs ==
    /\ pc = "storages"
    /\ \/ \E n \in 0..MaxStorages : \E ids \in [1..n -> Storage] :
            NextStorage(ids) /\ cards' = {ids[i] : i \in 1..n}
       \/ (Return("error") \/ Return("panic")) /\ UNCHANGED <<todo, asked, cards>>
    /\ UNCHANGED <<stack, seen, files, kids, kind, listed, skipped>>

\* Deviation: only the innermost call goes on; its callers are forgotten.
ResumeInnermost(calls, known) ==
    LET top == Len(calls) IN
    IF top > 0 /\ calls[top] \ known # {}
    THEN /\ stack' = [i \in 1..top |-> calls[i] \ known]
         /\ pc' = "info" /\ asked' = Nowhere /\ UNCHANGED <<how, todo>>
    ELSE stack' = <<>> /\ NextStorage(todo)
\* Deviation: seen handles are not passed over.
ResumeUnseen(calls, known) ==
    LET Busy == {i \in DOMAIN calls : calls[i] # {}} IN
    IF Busy = {} THEN stack' = <<>> /\ NextStorage(todo)
    ELSE /\ \E top \in Busy :
              /\ \A i \in Busy : i <= top
              /\ stack' = [i \in 1..top |-> calls[i]]
         /\ pc' = "info" /\ asked' = Nowhere /\ UNCHANGED <<how, todo>>

(***************************************************************************)
(* The loops go on to the next command: calls without an unseen handle     *)
(* return, and after the last of them comes the next storage.              *)
(***************************************************************************)
Resume(calls, known) ==
    LET Busy == {i \in DOMAIN calls : calls[i] \ known # {}} IN
    IF Busy = {} THEN stack' = <<>> /\ NextStorage(todo)
    ELSE /\ \E top \in Busy :
              /\ \A i \in Busy : i <= top
              /\ stack' = [i \in 1..top |-> calls[i] \ known]
         /\ pc' = "info" /\ asked' = Nowhere /\ UNCHANGED <<how, todo>>

\* Deviation: when a folder cannot be listed the walk begins anew.
GetObjectHandlesAnew ==
    /\ pc = "list"
    /\ \/ \E hs \in SUBSET Handle :
            /\ Cardinality(hs) <= MaxKids
            /\ kids' = [kids EXCEPT ![asked] = @ \cup hs] /\ listed' = listed \cup {asked}
            /\ Resume(Append(stack, hs), seen)
       \/ /\ pc' = "storages" /\ todo' = <<>> /\ asked' = Nowhere /\ stack' = <<>>
          /\ UNCHANGED <<how, kids, listed>>
    /\ UNCHANGED <<seen, files, cards, kind, skipped>>

\* A folder that cannot be listed is passed over.
GetObjectHandles ==
    /\ pc = "list"
    /\ \/ \E hs \in SUBSET Handle :
            /\ Cardinality(hs) <= MaxKids
            /\ kids' = [kids EXCEPT ![asked] = @ \cup hs] /\ listed' = listed \cup {asked}
            /\ Resume(Append(stack, hs), seen) /\ UNCHANGED skipped
       \/ /\ skipped' = skipped \cup {asked}
          /\ Resume(stack, seen) /\ UNCHANGED <<kids, listed>>
    /\ UNCHANGED <<seen, files, cards, kind>>

\* Deviation: the depth is not compared.
EnterAlways(h) ==
    /\ stack' = [stack EXCEPT ![Len(stack)] = @ \ {h}]
    /\ pc' = "list" /\ asked' = h /\ UNCHANGED <<how, todo, skipped>>

\* listRAFsInDir of a folder that was found; it returns at once if too deep.
Enter(h) ==
    IF Len(stack) > MaxDirDepth
    THEN skipped' = skipped \cup {h} /\ Resume(stack, seen \cup {h})
    ELSE /\ stack' = [stack EXCEPT ![Len(stack)] = @ \ {h}]
         /\ pc' = "list" /\ asked' = h /\ UNCHANGED <<how, todo, skipped>>

\* A handle without information is passed over, and stays seen.
GetObjectInfo ==
    /\ pc = "info"
    /\ \E h \in stack[Len(stack)] :
          /\ seen' = seen \cup {h}
          /\ \E a \in Kind \cup {"failed"} :
                /\ kind' = [kind EXCEPT ![h] = a]
                /\ files' = IF a = "raf" THEN Append(files, h) ELSE files
                /\ IF a = "dir" THEN Enter(h)
                   ELSE Resume(stack, seen \cup {h}) /\ UNCHANGED skipped
    /\ UNCHANGED <<cards, kids, listed>>

\* An ObjectInfo of 52 bytes, or with a file name cut short: Str panics.
ShortName ==
    /\ pc = "info" /\ Return("panic")
    /\ \E h \in stack[Len(stack)] : seen' = seen \cup {h}
    /\ UNCHANGED <<todo, asked, stack, files, cards, kids, kind, listed, skipped>>

Next == GetStorageIDs \/ GetObjectHandles \/ GetObjectInfo \/ ShortName

Spec == Init /\ [][Next]_vars

\* The goroutine runs on, and every command ends (PTPTransport's CallEnds).
FairSpec == Spec /\ WF_vars(Next)

-----------------------------------------------------------------------------
(***************************************************************************)
(* No file is listed twice (session.go:786), though folders and storages   *)
(* share handles and a folder may be named inside itself.                  *)
(***************************************************************************)
ListedOnce == \A i, j \in DOMAIN files : files[i] = files[j] => i = j

(***************************************************************************)
(* The list that is returned is complete (session.go:751): every storage   *)
(* that the camera named, and every handle that it named in any folder, is *)
(* a listed RAF, another file, a folder that was walked in its turn, or    *)
(* one of the failures and too deep folders that are passed over; and      *)
(* nothing but RAFs is listed.                                             *)
(***************************************************************************)
Named == UNION {kids[f] : f \in Folder}
Walked(f) == f \in skipped \/ (f \in listed /\ kids[f] \subseteq seen)
Accounted(h) ==
    CASE kind[h] = "raf" -> \E i \in DOMAIN files : files[i] = h
      [] kind[h] = "dir" -> Walked(h)
      [] OTHER           -> kind[h] \in {"other", "failed"}
EveryRafListed ==
    /\ how = "done" => (\A f \in cards : Walked(f)) /\ (\A h \in Named : Accounted(h))
    /\ \A i \in DOMAIN files : kind[files[i]] = "raf"

(***************************************************************************)
(* A folder is entered at most once in a call, so a walk through folders   *)
(* that contain each other asks no more than one question of each kind per *)
(* handle, holding the mutex no longer than that.                          *)
(***************************************************************************)
AskedOnce ==
    [][/\ (pc = "list" /\ asked \in Handle) =>
            kind[asked] = "dir" /\ asked' # asked
       /\ \A h \in Handle : kind[h] # "unasked" => kind'[h] = kind[h]]_vars

\* The walk ends and releases the mutex, whatever fails.
ListingEnds == <>(pc = "ended")
=============================================================================
