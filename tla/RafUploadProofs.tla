-------------------------- MODULE RafUploadProofs --------------------------
(***************************************************************************)
(* For any number of requests with files of any length: the types, that a  *)
(* request on its own streams its own RAF, and that no file is left.       *)
(***************************************************************************)
EXTENDS RafUpload, FiniteSetTheorems, TLAPS

Content == Seq(Chunk \cup {Hole})

\* What has been written or sent of c's RAF after n chunks.
Prefix(c, n) == [k \in 1..n |-> [of |-> c, nr |-> k]]

(***************************************************************************)
(* A request that is alone really is, and the file, its offset and what it *)
(* has sent are as far as its step says.                                   *)
(***************************************************************************)
Lone(c) == UnderWay(c) /\ alone[c]
LoneFile(c) ==
    /\ \A d \in Clients : UnderWay(d) => d = c
    /\ pc[c] = "copy" => /\ path # Nil /\ fd[c] = path
                         /\ file[path] = Prefix(c, off[c]) /\ sent[c] = <<>>
    /\ pc[c] = "lock" => /\ path # Nil /\ file[path] = RAF(c)
                         /\ off[c] = 0 /\ sent[c] = <<>>
    /\ pc[c] = "send" => /\ path # Nil /\ fd[c] = path /\ file[path] = RAF(c)
                         /\ sent[c] = Prefix(c, off[c])
    /\ pc[c] = "sent" => sent[c] = RAF(c)

(***************************************************************************)
(* Requests that are not under way have nothing open; those that read or   *)
(* write have.                                                             *)
(***************************************************************************)
Descriptors ==
    \A c \in Clients :
        /\ pc[c] \in {"copy", "send"} => fd[c] # Nil
        /\ pc[c] = "idle" => off[c] = 0 /\ sent[c] = <<>>
        /\ pc[c] = "copy" => sent[c] = <<>>
        /\ pc[c] = "lock" => off[c] = 0 /\ sent[c] = <<>>

(***************************************************************************)
(* A cache file that is not stale is some request's, which has yet to      *)
(* remove it: the one that reads it, if that request has the mutex.        *)
(***************************************************************************)
Owner(c) == UnderWay(c) /\ (pc[c] \in {"send", "sent"} => fd[c] = path)
Owned == (path # Nil /\ ~stale) => \E c \in Clients : Owner(c)

Inv ==
    /\ TypeOK /\ Descriptors /\ Owned
    /\ \A c \in Clients : Lone(c) => LoneFile(c)

-----------------------------------------------------------------------------
(***************************************************************************)
(* There is always a free inode for os.Create: the requests hold at most   *)
(* one each.                                                               *)
(***************************************************************************)
LEMMA CreatedIsInode ==
    ASSUME TypeOK
    PROVE  Created \in Inodes /\ (path = Nil => Free(Created))
<1>1. CASE path # Nil
  BY <1>1 DEF Created, TypeOK
<1>2. CASE path = Nil
  <2> DEFINE Open == {fd[c] : c \in Clients}
  <2>1. /\ IsFiniteSet(Clients) /\ IsFiniteSet(Inodes)
        /\ Cardinality(Inodes) > Cardinality(Clients)
    BY UploadAssumption
  <2>2. IsFiniteSet(Open) /\ Cardinality(Open) <= Cardinality(Clients)
    <3> DEFINE F == [c \in Clients |-> fd[c]]
    <3>1. F \in Surjection(Clients, Open)
      BY DEF Surjection
    <3> QED BY <2>1, <3>1, FS_Surjection
  <2>3. ~(Inodes \subseteq Open)
    <3> SUFFICES ASSUME Inodes \subseteq Open PROVE FALSE
      OBVIOUS
    <3>1. Cardinality(Inodes) <= Cardinality(Open)
      BY <2>2, FS_Subset
    <3>2. /\ Cardinality(Inodes) \in Nat /\ Cardinality(Open) \in Nat
          /\ Cardinality(Clients) \in Nat
      BY <2>1, <2>2, FS_CardinalityType
    <3> QED BY <2>1, <2>2, <3>1, <3>2
  <2>4. PICK i \in Inodes : i \notin Open
    BY <2>3
  <2>5. Free(i)
    BY <1>2, <2>4, UploadAssumption DEF Free, UploadAssumption
  <2>6. Created = CHOOSE j \in Inodes : Free(j)
    BY <1>2 DEF Created
  <2> QED BY <2>5, <2>6
<1> QED BY <1>1, <1>2

\* What write(2) leaves in the file, and what a prefix grows to.
LEMMA WriteAtType ==
    ASSUME NEW content \in Content, NEW k \in Nat \ {0}, NEW chunk \in Chunk
    PROVE  WriteAt(content, k, chunk) \in Content
<1>1. Len(content) \in Nat /\ \A j \in 1..Len(content) : content[j] \in Chunk \cup {Hole}
  BY DEF Content
<1> DEFINE n == IF k > Len(content) THEN k ELSE Len(content)
<1>2. n \in Nat
  BY <1>1
<1>3. WriteAt(content, k, chunk) \in [1..n -> Chunk \cup {Hole}]
  BY <1>1 DEF WriteAt
<1> QED BY <1>2, <1>3 DEF Content

LEMMA PrefixGrows ==
    ASSUME NEW c \in Clients, NEW n \in Nat
    PROVE  /\ WriteAt(Prefix(c, n), n + 1, [of |-> c, nr |-> n + 1]) = Prefix(c, n + 1)
           /\ Append(Prefix(c, n), [of |-> c, nr |-> n + 1]) = Prefix(c, n + 1)
<1>1. Prefix(c, n) \in Seq(Chunk) /\ Len(Prefix(c, n)) = n
  <2>1. Prefix(c, n) \in [1..n -> Chunk]
    BY DEF Prefix, Chunk
  <2> QED BY <2>1 DEF Prefix
<1>2. WriteAt(Prefix(c, n), n + 1, [of |-> c, nr |-> n + 1]) = Prefix(c, n + 1)
  BY <1>1 DEF WriteAt, Prefix
<1>3. Append(Prefix(c, n), [of |-> c, nr |-> n + 1]) = Prefix(c, n + 1)
  BY <1>1 DEF Prefix
<1> QED BY <1>2, <1>3

LEMMA Sizes == \A c \in Clients : Size[c] \in Nat /\ Size[c] > 0
BY UploadAssumption

LEMMA InitInv == Init => Inv
<1> SUFFICES ASSUME Init PROVE Inv
  OBVIOUS
<1>1. TypeOK
  <2>1. <<>> \in Seq(Chunk \cup {Hole})
    OBVIOUS
  <2>2. file \in [Inodes -> Seq(Chunk \cup {Hole})] /\ sent \in [Clients -> Seq(Chunk \cup {Hole})]
    BY <2>1 DEF Init
  <2>3. off \in [Clients -> Nat] /\ \A c \in Clients : off[c] <= Size[c]
    BY Sizes DEF Init
  <2> QED BY <2>2, <2>3 DEF Init, TypeOK
<1> QED
  BY <1>1, UploadAssumption DEF Init, Inv, Descriptors, Owned, Lone, UnderWay

-----------------------------------------------------------------------------
LEMMA ReclaimType ==
    ASSUME file \in [Inodes -> Content], Reclaim
    PROVE  file' \in [Inodes -> Content]
<1>1. <<>> \in Content
  BY DEF Content
<1> QED BY <1>1 DEF Reclaim

LEMMA ReturnType ==
    ASSUME TypeOK, NEW c \in Clients, Return(c)
    PROVE  /\ file' \in [Inodes -> Content]
           /\ pc' \in [Clients -> {"idle", "copy", "lock", "send", "sent"}]
           /\ fd' \in [Clients -> Inodes \cup {Nil}]
           /\ off' \in [Clients -> Nat] /\ \A d \in Clients : off'[d] <= Size[d]
           /\ sent' \in [Clients -> Content]
           /\ alone' \in [Clients -> BOOLEAN]
<1>1. file' \in [Inodes -> Content]
  BY ReclaimType DEF Return, TypeOK, Content
<1>2. <<>> \in Content
  BY DEF Content
<1>3. /\ off' \in [Clients -> Nat] /\ \A d \in Clients : off'[d] <= Size[d]
  BY Sizes DEF Return, TypeOK
<1> QED BY <1>1, <1>2, <1>3 DEF Return, TypeOK, Content

(***************************************************************************)
(* Types, one step per action.                                             *)
(***************************************************************************)
LEMMA TypeStep == TypeOK /\ Descriptors /\ [Next]_vars => TypeOK'
<1> SUFFICES ASSUME TypeOK, Descriptors, [Next]_vars PROVE TypeOK'
  OBVIOUS
<1>0. <<>> \in Content /\ Content = Seq(Chunk \cup {Hole})
  BY DEF Content
<1>1. ASSUME NEW c \in Clients, CreateCache(c) PROVE TypeOK'
  <2>1. Created \in Inodes
    BY CreatedIsInode
  <2>2. file' = [file EXCEPT ![Created] = <<>>]
    BY <1>1 DEF CreateCache
  <2>3. file' \in [Inodes -> Content]
    BY <1>0, <2>2 DEF TypeOK
  <2>4. alone' \in [Clients -> BOOLEAN]
    <3>1. alone' = [d \in Clients |-> IF d = c THEN Idle
                                     ELSE alone[d] /\ ~UnderWay(d)]
      BY <1>1 DEF CreateCache
    <3>2. Idle \in BOOLEAN /\ \A d \in Clients : (alone[d] /\ ~UnderWay(d)) \in BOOLEAN
      BY DEF Idle
    <3> QED BY <3>1, <3>2
  <2>5. /\ path' \in Inodes \cup {Nil} /\ fd' \in [Clients -> Inodes \cup {Nil}]
        /\ pc' \in [Clients -> {"idle", "copy", "lock", "send", "sent"}]
        /\ stale' = FALSE /\ UNCHANGED <<off, sent, mutex, connected>>
    BY <1>1, <2>1 DEF CreateCache, TypeOK
  <2> QED BY <1>0, <2>3, <2>4, <2>5 DEF TypeOK
<1>2. ASSUME NEW c \in Clients, CopyChunk(c) PROVE TypeOK'
  <2> DEFINE chunk == [of |-> c, nr |-> off[c] + 1]
  <2>1. /\ off[c] \in Nat /\ Size[c] \in Nat /\ off[c] < Size[c] /\ chunk \in Chunk
    BY <1>2, Sizes DEF CopyChunk, TypeOK, Chunk
  <2>2. WriteAt(file[fd[c]], off[c] + 1, chunk) \in Content
    <3>1. fd[c] \in Inodes
      BY <1>2 DEF CopyChunk, Descriptors, TypeOK
    <3>2. file[fd[c]] \in Content /\ off[c] + 1 \in Nat \ {0}
      BY <1>0, <2>1, <3>1 DEF TypeOK
    <3> HIDE DEF chunk
    <3> QED BY <2>1, <3>2, WriteAtType
  <2>3. file' = [file EXCEPT ![fd[c]] = WriteAt(file[fd[c]], off[c] + 1, chunk)]
    BY <1>2 DEF CopyChunk
  <2>4. file' \in [Inodes -> Content]
    BY <1>0, <2>2, <2>3 DEF TypeOK
  <2>5. off' \in [Clients -> Nat] /\ \A d \in Clients : off'[d] <= Size[d]
    BY <1>2, <2>1 DEF CopyChunk, TypeOK
  <2>6. UNCHANGED <<path, pc, fd, sent, mutex, connected, alone, stale>>
    BY <1>2 DEF CopyChunk
  <2> QED BY <1>0, <2>4, <2>5, <2>6 DEF TypeOK
<1>3. ASSUME NEW c \in Clients, Copied(c) PROVE TypeOK'
  <2>1. file' \in [Inodes -> Content]
    BY <1>0, <1>3, ReclaimType DEF Copied, TypeOK
  <2>2. off' \in [Clients -> Nat] /\ \A d \in Clients : off'[d] <= Size[d]
    BY <1>3, Sizes DEF Copied, TypeOK
  <2>3. /\ pc' \in [Clients -> {"idle", "copy", "lock", "send", "sent"}]
        /\ fd' \in [Clients -> Inodes \cup {Nil}]
        /\ UNCHANGED <<path, sent, mutex, connected, alone, stale>>
    BY <1>3 DEF Copied, TypeOK
  <2> QED BY <1>0, <2>1, <2>2, <2>3 DEF TypeOK
<1>4. ASSUME NEW c \in Clients,
             CopyFails(c) \/ NotConnected(c) \/ NotOpened(c) \/ Finish(c) \/ Panics(c)
      PROVE  TypeOK'
  <2>1. /\ Return(c) /\ path' \in {path, Nil} /\ stale' \in BOOLEAN
        /\ mutex' \in {mutex, Nil} /\ connected' = connected
    BY <1>4 DEF CopyFails, NotConnected, NotOpened, Finish, Panics, RemoveCache, TypeOK
  <2> QED BY <1>0, <2>1, ReturnType DEF TypeOK
<1>5. ASSUME NEW c \in Clients, Opened(c) PROVE TypeOK'
  BY <1>5 DEF Opened, TypeOK
<1>6. ASSUME NEW c \in Clients, SendChunk(c) PROVE TypeOK'
  <2>1. fd[c] \in Inodes \cup {Nil} /\ off[c] \in Nat /\ Size[c] \in Nat
    BY Sizes DEF TypeOK
  <2>2. off' \in [Clients -> Nat] /\ \A d \in Clients : off'[d] <= Size[d]
    BY <1>6, <2>1 DEF SendChunk, More, TypeOK
  <2>3. sent' = [sent EXCEPT ![c] = Append(@, file[fd[c]][off[c] + 1])]
    BY <1>6 DEF SendChunk
  <2>4. UNCHANGED <<path, file, pc, fd, mutex, connected, alone, stale>>
    BY <1>6 DEF SendChunk
  <2>5. fd[c] \in Inodes
    BY <1>6, <2>1 DEF SendChunk, Descriptors
  <2>6. file[fd[c]] \in Content /\ off[c] + 1 \in 1..Len(file[fd[c]])
    BY <1>0, <1>6, <2>1, <2>5 DEF SendChunk, More, TypeOK, Content
  <2>7. file[fd[c]][off[c] + 1] \in Chunk \cup {Hole}
    BY <2>6 DEF Content
  <2>8. sent' \in [Clients -> Content]
    BY <1>0, <2>3, <2>7 DEF TypeOK, Content
  <2> QED BY <1>0, <2>2, <2>4, <2>8 DEF TypeOK
<1>7. ASSUME NEW c \in Clients, SendEnds(c) PROVE TypeOK'
  BY <1>7 DEF SendEnds, TypeOK
<1>8. CASE ChangeConnection
  BY <1>8 DEF ChangeConnection, TypeOK, request
<1>9. CASE Restart
  <2>1. file' \in [Inodes -> Content]
    BY <1>0, <1>9, ReclaimType DEF Restart, TypeOK
  <2>2. off' \in [Clients -> Nat] /\ \A d \in Clients : off'[d] <= Size[d]
    BY <1>9, Sizes DEF Restart
  <2> QED BY <1>0, <1>9, <2>1, <2>2 DEF Restart, TypeOK
<1>10. CASE UNCHANGED vars
  BY <1>10 DEF vars, request, TypeOK
<1> QED
  BY <1>1, <1>2, <1>3, <1>4, <1>5, <1>6, <1>7, <1>8, <1>9, <1>10
  DEF Next, Copying, Acquire, Sending

-----------------------------------------------------------------------------
LEMMA ReturnLeaves ==
    ASSUME TypeOK, NEW c \in Clients, Return(c)
    PROVE  /\ pc'[c] = "idle" /\ off'[c] = 0 /\ sent'[c] = <<>> /\ fd'[c] = Nil
           /\ \A d \in Clients \ {c} :
                /\ pc'[d] = pc[d] /\ off'[d] = off[d] /\ sent'[d] = sent[d]
                /\ fd'[d] = fd[d] /\ alone'[d] = alone[d]
BY DEF Return, TypeOK

(***************************************************************************)
(* Requests open and close their descriptors with their steps.             *)
(***************************************************************************)
LEMMA DescriptorStep == TypeOK /\ Descriptors /\ [Next]_vars => Descriptors'
<1> SUFFICES ASSUME TypeOK, Descriptors, [Next]_vars PROVE Descriptors'
  OBVIOUS
<1>1. ASSUME NEW c \in Clients, CreateCache(c) PROVE Descriptors'
  <2>1. Created \in Inodes /\ Created # Nil
    BY CreatedIsInode, UploadAssumption
  <2> QED BY <1>1, <2>1 DEF CreateCache, Descriptors, TypeOK
<1>2. ASSUME NEW c \in Clients, CopyChunk(c) PROVE Descriptors'
  BY <1>2 DEF CopyChunk, Descriptors, TypeOK
<1>3. ASSUME NEW c \in Clients, Copied(c) PROVE Descriptors'
  BY <1>3 DEF Copied, Descriptors, TypeOK
<1>4. ASSUME NEW c \in Clients,
             CopyFails(c) \/ NotConnected(c) \/ NotOpened(c) \/ Finish(c) \/ Panics(c)
      PROVE  Descriptors'
  <2>1. Return(c)
    BY <1>4 DEF CopyFails, NotConnected, NotOpened, Finish, Panics
  <2> QED BY <2>1, ReturnLeaves DEF Descriptors
<1>5. ASSUME NEW c \in Clients, Opened(c) PROVE Descriptors'
  BY <1>5 DEF Opened, Descriptors, TypeOK
<1>6. ASSUME NEW c \in Clients, SendChunk(c) \/ SendEnds(c) PROVE Descriptors'
  BY <1>6 DEF SendChunk, SendEnds, Descriptors, TypeOK
<1>7. CASE ChangeConnection \/ UNCHANGED vars
  BY <1>7 DEF ChangeConnection, vars, request, Descriptors
<1>8. CASE Restart
  BY <1>8 DEF Restart, Descriptors
<1> QED
  BY <1>1, <1>2, <1>3, <1>4, <1>5, <1>6, <1>7, <1>8 DEF Next, Copying, Acquire, Sending

(***************************************************************************)
(* Every return removes the file, and a panic that leaves one whose owner  *)
(* the request was makes it stale; if the request was not the owner,       *)
(* another one is.                                                         *)
(***************************************************************************)
LEMMA OwnedStep == TypeOK /\ Owned /\ [Next]_vars => Owned'
<1> SUFFICES ASSUME TypeOK, Owned, [Next]_vars PROVE Owned'
  OBVIOUS
<1>1. ASSUME NEW c \in Clients, CreateCache(c) PROVE Owned'
  <2>1. Owner(c)'
    BY <1>1 DEF CreateCache, Owner, UnderWay, TypeOK
  <2> QED BY <2>1 DEF Owned
<1>2. ASSUME NEW c \in Clients, Opened(c) PROVE Owned'
  <2>1. Owner(c)'
    BY <1>2 DEF Opened, Owner, UnderWay, TypeOK
  <2> QED BY <2>1 DEF Owned
<1>3. ASSUME NEW c \in Clients, CopyChunk(c) \/ Copied(c) \/ SendChunk(c) \/ SendEnds(c)
      PROVE  Owned'
  <2>1. path' = path /\ stale' = stale
    BY <1>3 DEF CopyChunk, Copied, SendChunk, SendEnds
  <2>2. ASSUME NEW d \in Clients, Owner(d) PROVE Owner(d)'
    BY <1>3, <2>2 DEF CopyChunk, Copied, SendChunk, SendEnds, Owner, UnderWay, TypeOK
  <2> QED BY <2>1, <2>2 DEF Owned
<1>4. ASSUME NEW c \in Clients, CopyFails(c) \/ NotConnected(c) \/ NotOpened(c) \/ Finish(c)
      PROVE  Owned'
  BY <1>4 DEF CopyFails, NotConnected, NotOpened, Finish, RemoveCache, Owned
<1>5. ASSUME NEW c \in Clients, Panics(c) PROVE Owned'
  <2> SUFFICES ASSUME path' # Nil, ~stale' PROVE \E d \in Clients : Owner(d)'
    BY DEF Owned
  <2>1. /\ path' = path /\ ~stale /\ path # fd[c]
        /\ pc[c] = "sent" /\ Return(c)
    BY <1>5 DEF Panics
  <2>2. PICK d \in Clients : Owner(d)
    BY <2>1 DEF Owned
  <2>3. d # c
    BY <2>1, <2>2 DEF Owner
  <2>4. Owner(d)'
    BY <2>1, <2>2, <2>3, ReturnLeaves DEF Owner, UnderWay
  <2> QED BY <2>4
<1>6. CASE ChangeConnection \/ UNCHANGED vars
  BY <1>6 DEF ChangeConnection, vars, request, Owned, Owner, UnderWay
<1>7. CASE Restart
  BY <1>7 DEF Restart, Owned
<1> QED
  BY <1>1, <1>2, <1>3, <1>4, <1>5, <1>6, <1>7 DEF Next, Copying, Acquire, Sending

-----------------------------------------------------------------------------
\* A file that has a name is not reclaimed.
LEMMA NamedStays ==
    ASSUME TypeOK, path # Nil, path' = path, Reclaim
    PROVE  file'[path] = file[path]
BY DEF Reclaim, Free, TypeOK

(***************************************************************************)
(* A request that is alone: only its own steps touch its file.             *)
(***************************************************************************)
LEMMA LoneStep ==
    ASSUME TypeOK, Descriptors, [Next]_vars,
           \A c \in Clients : Lone(c) => LoneFile(c)
    PROVE  \A c \in Clients : Lone(c)' => LoneFile(c)'
<1> SUFFICES ASSUME NEW c \in Clients, Lone(c)'
             PROVE  LoneFile(c)'
  OBVIOUS
<1>0. Size[c] \in Nat /\ off[c] \in Nat /\ off[c] <= Size[c]
  BY Sizes DEF TypeOK
<1>1. ASSUME NEW d \in Clients \ {c}, Copying(d) \/ Acquire(d) \/ Sending(d)
      PROVE  FALSE
  <2>1. CASE CreateCache(d)
    BY <2>1 DEF CreateCache, Lone, UnderWay, TypeOK
  <2>2. CASE ~CreateCache(d)
    <3>1. pc[d] # "idle"
      BY <1>1, <2>2 DEF Copying, Acquire, Sending, CopyChunk, Copied, CopyFails,
                   NotConnected, NotOpened, Opened, SendChunk, SendEnds, Finish, Panics
    <3>2. pc'[c] = pc[c] /\ alone'[c] = alone[c]
      <4>1. CASE Return(d)
        BY <4>1, ReturnLeaves
      <4>2. CASE ~Return(d)
        BY <1>1, <2>2, <4>2
        DEF Copying, Acquire, Sending, CopyChunk, Copied, CopyFails, NotConnected,
            NotOpened, Opened, SendChunk, SendEnds, Finish, Panics, TypeOK
      <4> QED BY <4>1, <4>2
    <3>3. Lone(c)
      BY <3>2 DEF Lone, UnderWay
    <3> QED BY <3>1, <3>3 DEF LoneFile, UnderWay
  <2> QED BY <2>1, <2>2
<1>2. CASE CreateCache(c)
  <2>1. Created \in Inodes /\ Created # Nil
    BY CreatedIsInode, UploadAssumption
  <2>2. /\ path' = Created /\ file'[Created] = <<>> /\ fd'[c] = Created
        /\ pc'[c] = "copy" /\ off'[c] = 0 /\ sent'[c] = <<>> /\ Idle
        /\ \A d \in Clients \ {c} : pc'[d] = pc[d]
    BY <1>2, <2>1 DEF CreateCache, Lone, TypeOK, Descriptors
  <2>3. Prefix(c, 0) = <<>>
    BY DEF Prefix
  <2> QED BY <2>1, <2>2, <2>3 DEF LoneFile, UnderWay, Idle
<1>3. ASSUME Copying(c) \/ Acquire(c) \/ Sending(c), ~CreateCache(c)
      PROVE  LoneFile(c)'
  <2>1. ~Return(c)
    BY ReturnLeaves DEF Lone, UnderWay
  <2>2. CASE CopyChunk(c)
    <3>1. Lone(c) /\ pc[c] = "copy" /\ pc' = pc /\ path' = path /\ fd' = fd /\ sent' = sent
      BY <2>2 DEF CopyChunk, Lone, UnderWay
    <3>2. /\ path \in Inodes /\ fd[c] = path /\ file[path] = Prefix(c, off[c])
          /\ sent[c] = <<>> /\ \A d \in Clients : UnderWay(d) => d = c
      BY <3>1 DEF LoneFile, TypeOK
    <3>3. off'[c] = off[c] + 1
      BY <2>2 DEF CopyChunk, TypeOK
    <3>4. file'[path] = Prefix(c, off[c] + 1)
      BY <1>0, <2>2, <3>2, PrefixGrows DEF CopyChunk, TypeOK
    <3> QED BY <3>1, <3>2, <3>3, <3>4, UploadAssumption DEF LoneFile, UnderWay
  <2>3. CASE Copied(c)
    <3>1. /\ Lone(c) /\ pc[c] = "copy" /\ pc'[c] = "lock" /\ path' = path /\ sent' = sent
          /\ off[c] = Size[c] /\ off'[c] = 0
          /\ \A d \in Clients \ {c} : pc'[d] = pc[d]
      BY <2>3 DEF Copied, Lone, UnderWay, Complete, TypeOK
    <3>2. /\ path # Nil /\ file[path] = Prefix(c, off[c]) /\ sent[c] = <<>>
          /\ \A d \in Clients : UnderWay(d) => d = c
      BY <3>1 DEF LoneFile
    <3>3. file'[path] = file[path]
      BY <2>3, <3>1, <3>2, NamedStays DEF Copied
    <3>4. file'[path] = RAF(c)
      BY <3>1, <3>2, <3>3 DEF Prefix, RAF
    <3> QED BY <3>1, <3>2, <3>4 DEF LoneFile, UnderWay
  <2>4. CASE Opened(c)
    <3>1. /\ Lone(c) /\ pc[c] = "lock" /\ pc'[c] = "send" /\ path' = path /\ sent' = sent
          /\ file' = file /\ off' = off /\ fd'[c] = path /\ path # Nil
          /\ \A d \in Clients \ {c} : pc'[d] = pc[d]
      BY <2>4 DEF Opened, Lone, UnderWay, TypeOK
    <3>2. Prefix(c, 0) = <<>>
      BY DEF Prefix
    <3> QED BY <3>1, <3>2 DEF LoneFile, UnderWay
  <2>5. CASE SendChunk(c)
    <3>1. /\ Lone(c) /\ pc[c] = "send" /\ pc' = pc /\ path' = path /\ fd' = fd
          /\ file' = file /\ off'[c] = off[c] + 1 /\ off[c] < Size[c]
          /\ sent'[c] = Append(sent[c], file[fd[c]][off[c] + 1])
      BY <2>5 DEF SendChunk, Lone, UnderWay, More, TypeOK
    <3>2. /\ path # Nil /\ fd[c] = path /\ file[path] = RAF(c)
          /\ sent[c] = Prefix(c, off[c]) /\ \A d \in Clients : UnderWay(d) => d = c
      BY <3>1 DEF LoneFile
    <3>3. RAF(c)[off[c] + 1] = [of |-> c, nr |-> off[c] + 1]
      BY <1>0, <3>1 DEF RAF
    <3>4. sent'[c] = Prefix(c, off[c] + 1)
      BY <1>0, <3>1, <3>2, <3>3, PrefixGrows
    <3> QED BY <3>1, <3>2, <3>4 DEF LoneFile, UnderWay
  <2>6. CASE SendEnds(c)
    <3>1. /\ Lone(c) /\ pc[c] = "send" /\ pc'[c] = "sent" /\ sent' = sent
          /\ ~(off[c] < Size[c] /\ off[c] < Len(file[fd[c]]))
          /\ \A d \in Clients \ {c} : pc'[d] = pc[d]
      BY <2>6 DEF SendEnds, Lone, UnderWay, More, TypeOK
    <3>2. /\ fd[c] = path /\ file[path] = RAF(c)
          /\ sent[c] = Prefix(c, off[c]) /\ \A d \in Clients : UnderWay(d) => d = c
      BY <3>1 DEF LoneFile
    <3>3. Len(RAF(c)) = Size[c]
      BY <1>0 DEF RAF
    <3>4. off[c] = Size[c]
      BY <1>0, <3>1, <3>2, <3>3
    <3>5. sent'[c] = RAF(c)
      BY <3>1, <3>2, <3>4 DEF Prefix, RAF
    <3> QED BY <3>1, <3>2, <3>5 DEF LoneFile, UnderWay
  <2> QED
    BY <1>3, <2>1, <2>2, <2>3, <2>4, <2>5, <2>6
    DEF Copying, Acquire, Sending, CopyFails, NotConnected, NotOpened, Finish, Panics
<1>4. CASE ChangeConnection \/ UNCHANGED vars
  BY <1>4 DEF ChangeConnection, vars, request, Lone, LoneFile, UnderWay
<1>5. CASE Restart
  BY <1>5 DEF Restart, Lone, UnderWay
<1> QED BY <1>1, <1>2, <1>3, <1>4, <1>5 DEF Next

-----------------------------------------------------------------------------
(***************************************************************************)
(* The inductive invariant of the upload (server.go:252-318).              *)
(***************************************************************************)
THEOREM UploadInvariant == Spec => []Inv
<1>1. Inv /\ [Next]_vars => Inv'
  BY TypeStep, DescriptorStep, OwnedStep, LoneStep DEF Inv
<1> QED BY InitInv, <1>1, PTL DEF Spec

(***************************************************************************)
(* Type correctness: no request writes past its declared size, which is    *)
(* what LimitReader is for.                                                *)
(***************************************************************************)
THEOREM TypeCorrect == Spec => []TypeOK
<1>1. Inv => TypeOK
  BY DEF Inv
<1> QED BY <1>1, UploadInvariant, PTL

(***************************************************************************)
(* A request that no other one meets streams its own RAF, all of it.       *)
(***************************************************************************)
THEOREM AloneOwnBytes == Spec => []OwnBytesAlone
<1>1. Inv => OwnBytesAlone
  BY DEF Inv, OwnBytesAlone, Lone, LoneFile, UnderWay
<1> QED BY <1>1, UploadInvariant, PTL

(***************************************************************************)
(* However requests interleave, the file outlives them only when a killed  *)
(* daemon, or a panic in LoadRAFStream, has left it: it has an owner else, *)
(* and an owner is under way.                                              *)
(***************************************************************************)
THEOREM FileRemoved == Spec => []NoFileLeft
<1>1. Inv => NoFileLeft
  BY DEF Inv, Owned, Owner, NoFileLeft, Idle
<1> QED BY <1>1, UploadInvariant, PTL
=============================================================================
