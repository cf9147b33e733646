----------------------------- MODULE RafUpload -----------------------------
(***************************************************************************)
(* POST /api/raf/load (handleRAFLoad in internal/api/server.go) as net/http *)
(* runs it: one goroutine per request.  Every request saves the RAW file   *)
(* under the same name before it takes the server's mutex, and reads it    *)
(* back, under the mutex, to stream it to the camera.  An action is one    *)
(* system call on that file, together with the Go code around it that      *)
(* other requests cannot tell apart.                                       *)
(***************************************************************************)
EXTENDS Naturals, Sequences, FiniteSets

CONSTANTS
    Clients,   \* the requests that can be under way at once
    Size,      \* X-File-Size of each of them, in chunks
    Inodes,    \* the files the directory can hold
    Nil        \* no inode, no holder

ASSUME UploadAssumption ==
    /\ Size \in [Clients -> Nat \ {0}]
    /\ IsFiniteSet(Clients) /\ IsFiniteSet(Inodes)
    /\ Cardinality(Inodes) > Cardinality(Clients)
    /\ Nil \notin Clients \cup Inodes

VARIABLES
    path,        \* the inode behind rafCachePath, or Nil
    file,        \* what each inode holds
    pc, fd, off, \* of each request: its step, open file and offset
    sent,        \* of each request: the chunks streamed to the camera
    mutex,       \* the request that holds Server.mu, or Nil
    connected,   \* camera.Connected(), which other handlers change
    \* history, read by properties only
    alone,       \* of each request: no other was under way meanwhile
    stale        \* the cache file is one that a killed daemon or a panic left

request == <<pc, fd, off, sent>>
vars == <<path, file, request, mutex, connected, alone, stale>>

Chunk == [of : Clients, nr : Nat \ {0}]
\* What a write beyond the end of a truncated file leaves before it.
Hole == [of |-> Nil, nr |-> 0]

RAF(c) == [k \in 1..Size[c] |-> [of |-> c, nr |-> k]]

TypeOK ==
    /\ path \in Inodes \cup {Nil}
    /\ file \in [Inodes -> Seq(Chunk \cup {Hole})]
    /\ pc \in [Clients -> {"idle", "copy", "lock", "send", "sent"}]
    /\ fd \in [Clients -> Inodes \cup {Nil}]
    /\ off \in [Clients -> Nat] /\ \A c \in Clients : off[c] <= Size[c]
    /\ sent \in [Clients -> Seq(Chunk \cup {Hole})]
    /\ mutex \in Clients \cup {Nil}
    /\ connected \in BOOLEAN
    /\ alone \in [Clients -> BOOLEAN] /\ stale \in BOOLEAN

Init ==
    /\ path = Nil /\ file = [i \in Inodes |-> <<>>]
    /\ pc = [c \in Clients |-> "idle"] /\ fd = [c \in Clients |-> Nil]
    /\ off = [c \in Clients |-> 0] /\ sent = [c \in Clients |-> <<>>]
    /\ mutex = Nil /\ connected \in BOOLEAN
    /\ alone = [c \in Clients |-> TRUE] /\ stale = FALSE

UnderWay(c) == pc[c] # "idle"
Idle == \A c \in Clients : ~UnderWay(c)

\* An inode is gone once no name and no open file refers to it.
Free(i) == i # path /\ \A c \in Clients : fd[c] # i
Reclaim == file' = [i \in Inodes |-> IF Free(i)' THEN <<>> ELSE file[i]]

-----------------------------------------------------------------------------
(* The request's own file operations.                                      *)

\* os.Remove of the name; whoever has the file open goes on with it.
RemoveCache == path' = Nil /\ stale' = FALSE

Return(c) ==
    /\ pc' = [pc EXCEPT ![c] = "idle"] /\ fd' = [fd EXCEPT ![c] = Nil]
    /\ off' = [off EXCEPT ![c] = 0] /\ sent' = [sent EXCEPT ![c] = <<>>]
    /\ alone' = [alone EXCEPT ![c] = TRUE]
    /\ Reclaim

\* os.Create truncates the file of that name, if there is one.  Which free
\* inode a new one gets makes no difference: nothing compares inodes.
Created == IF path = Nil THEN CHOOSE i \in Inodes : Free(i) ELSE path

CreateCache(c) ==
    /\ pc[c] = "idle"
    /\ path' = Created /\ file' = [file EXCEPT ![Created] = <<>>]
    /\ fd' = [fd EXCEPT ![c] = Created]
    /\ pc' = [pc EXCEPT ![c] = "copy"]
    /\ alone' = [d \in Clients |-> IF d = c THEN Idle
                                  ELSE alone[d] /\ ~UnderWay(d)]
    /\ stale' = FALSE
    /\ UNCHANGED <<off, sent, mutex, connected>>

\* write(2) at the descriptor's offset, whatever others did to the file.
WriteAt(content, k, chunk) ==
    [j \in 1..(IF k > Len(content) THEN k ELSE Len(content)) |->
        IF j = k THEN chunk ELSE IF j <= Len(content) THEN content[j] ELSE Hole]

\* Deviation: no LimitReader at the declared size.
CopyUnlimited(c) ==
    /\ pc[c] = "copy"
    /\ file' = [file EXCEPT ![fd[c]] =
                  WriteAt(@, off[c] + 1, [of |-> c, nr |-> off[c] + 1])]
    /\ off' = [off EXCEPT ![c] = @ + 1]
    /\ UNCHANGED <<path, pc, fd, sent, mutex, connected, alone, stale>>

CopyChunk(c) ==
    /\ pc[c] = "copy" /\ off[c] < Size[c]
    /\ file' = [file EXCEPT ![fd[c]] =
                  WriteAt(@, off[c] + 1, [of |-> c, nr |-> off[c] + 1])]
    /\ off' = [off EXCEPT ![c] = @ + 1]
    /\ UNCHANGED <<path, pc, fd, sent, mutex, connected, alone, stale>>

\* Deviation: a body that ends early is not noticed.
AnyLength(c) == TRUE

\* "written == rafSize"
Complete(c) == off[c] = Size[c]

Copied(c) ==
    /\ pc[c] = "copy" /\ Complete(c)
    /\ pc' = [pc EXCEPT ![c] = "lock"] /\ fd' = [fd EXCEPT ![c] = Nil]
    /\ off' = [off EXCEPT ![c] = 0]
    /\ UNCHANGED <<path, sent, mutex, connected, alone, stale>>
    /\ Reclaim

\* The body ends early, or the disk is full: "saving RAF: wrote %d of %d".
CopyFails(c) ==
    /\ pc[c] = "copy" /\ off[c] < Size[c]
    /\ RemoveCache /\ Return(c)
    /\ UNCHANGED <<mutex, connected>>

-----------------------------------------------------------------------------
(* Under the mutex.                                                        *)

\* Deviation: the refusal leaves the file.
RefuseOnly(c) ==
    /\ pc[c] = "lock" /\ mutex = Nil /\ ~connected
    /\ UNCHANGED <<path, stale, mutex, connected>> /\ Return(c)

\* Locked, and no camera: 503 after the cached file is removed.
NotConnected(c) ==
    /\ pc[c] = "lock" /\ mutex = Nil /\ ~connected
    /\ RemoveCache /\ Return(c)
    /\ UNCHANGED <<mutex, connected>>

\* Another request has removed the file: "opening cached RAF", 500.
NotOpened(c) ==
    /\ pc[c] = "lock" /\ mutex = Nil /\ connected /\ path = Nil
    /\ RemoveCache /\ Return(c)
    /\ UNCHANGED <<mutex, connected>>

Opened(c) ==
    /\ pc[c] = "lock" /\ mutex = Nil /\ connected /\ path # Nil
    /\ mutex' = c
    /\ fd' = [fd EXCEPT ![c] = path] /\ pc' = [pc EXCEPT ![c] = "send"]
    /\ UNCHANGED <<path, file, off, sent, connected, alone, stale>>

Acquire(c) == NotConnected(c) \/ NotOpened(c) \/ Opened(c)

\* SendDataCommandFromReader reads up to Size from wherever the file now is.
More(c) == off[c] < Size[c] /\ off[c] < Len(file[fd[c]])

SendChunk(c) ==
    /\ pc[c] = "send" /\ More(c)
    /\ sent' = [sent EXCEPT ![c] = Append(@, file[fd[c]][off[c] + 1])]
    /\ off' = [off EXCEPT ![c] = @ + 1]
    /\ UNCHANGED <<path, file, pc, fd, mutex, connected, alone, stale>>

\* The reader ends, which is not an error even before Size is reached.
SendEnds(c) ==
    /\ pc[c] = "send" /\ ~More(c)
    /\ pc' = [pc EXCEPT ![c] = "sent"]
    /\ UNCHANGED <<path, file, fd, off, sent, mutex, connected, alone, stale>>

\* Deviation: the mutex is not released on this way out.
FinishLocked(c) ==
    /\ pc[c] \in {"send", "sent"}
    /\ RemoveCache /\ Return(c)
    /\ UNCHANGED <<mutex, connected>>

\* LoadRAFStream returns, after the conversion or an error at any command.
Finish(c) ==
    /\ pc[c] \in {"send", "sent"}
    /\ RemoveCache /\ Return(c)
    /\ mutex' = Nil
    /\ UNCHANGED connected

(***************************************************************************)
(* LoadRAFStream panics, after the upload: snapshotHandles reads a count   *)
(* that wraps its uint32 offset out of another command's answer.  net/http *)
(* recovers it and the deferred Unlock runs; os.Remove is not deferred.    *)
(***************************************************************************)
Panics(c) ==
    /\ pc[c] = "sent"
    /\ UNCHANGED <<path, connected>> /\ Return(c)
    /\ stale' = (stale \/ path = fd[c])
    /\ mutex' = Nil

-----------------------------------------------------------------------------
\* /api/connect and /api/disconnect, which hold the mutex meanwhile.
ChangeConnection ==
    /\ mutex = Nil /\ connected' = ~connected
    /\ UNCHANGED <<path, file, request, mutex, alone, stale>>

\* procd respawns a daemon that was killed; the file stays.
Restart ==
    /\ pc' = [c \in Clients |-> "idle"] /\ fd' = [c \in Clients |-> Nil]
    /\ off' = [c \in Clients |-> 0] /\ sent' = [c \in Clients |-> <<>>]
    /\ mutex' = Nil /\ connected' = FALSE
    /\ alone' = [c \in Clients |-> TRUE] /\ stale' = (path # Nil)
    /\ UNCHANGED path /\ Reclaim

Copying(c) == CreateCache(c) \/ CopyChunk(c) \/ Copied(c) \/ CopyFails(c)
Sending(c) == SendChunk(c) \/ SendEnds(c) \/ Finish(c) \/ Panics(c)

Next ==
    \/ \E c \in Clients : Copying(c) \/ Acquire(c) \/ Sending(c)
    \/ ChangeConnection \/ Restart

Spec == Init /\ [][Next]_vars

(***************************************************************************)
(* sync.Mutex starves no waiter, and a camera operation ends               *)
(* (CameraSession's OperationEnds).  Nothing is assumed of the clients: a request may    *)
(* stay in "copy" for ever, which is less than the server's ReadTimeout of *)
(* 30 minutes gives.                                                       *)
(***************************************************************************)
FairSpec ==
    Spec /\ \A c \in Clients : SF_vars(Acquire(c)) /\ WF_vars(Sending(c))

-----------------------------------------------------------------------------
(***************************************************************************)
(* A request with no other one under way streams its own RAF, all of it,   *)
(* even over a file that an earlier daemon left.                           *)
(***************************************************************************)
OwnBytesAlone ==
    \A c \in Clients : (pc[c] = "sent" /\ alone[c]) => sent[c] = RAF(c)

(***************************************************************************)
(* The cache file does not outlive the requests: whatever the interleaving *)
(* of their creates and removes, a request that returns leaves none, and a *)
(* file that is found with no request under way is one that a killed       *)
(* daemon, or a request that panicked while it held it, left.              *)
(***************************************************************************)
NoFileLeft == Idle /\ path # Nil => stale

(***************************************************************************)
(* A request that has saved its file is answered: clients that stall while *)
(* they upload cannot keep it from the mutex.                              *)
(***************************************************************************)
SavedRequestEnds ==
    \A c \in Clients : (pc[c] \in {"lock", "send", "sent"}) ~> (pc[c] = "idle")

(***************************************************************************)
(* "size must be the exact byte length of the RAF" (SendRAFStream): what   *)
(* the reader gives is as long as what SendObjectInfo declared.            *)
(***************************************************************************)
ExactLength == \A c \in Clients : pc[c] = "sent" => Len(sent[c]) = Size[c]
=============================================================================
