-------------------------- MODULE RafListingProofs --------------------------
(***************************************************************************)
(* For any handles, storages and bounds: the types of the listing, that it *)
(* lists no file twice, and that the list it returns is complete.          *)
(***************************************************************************)
EXTENDS RafListing, TLAPS

Held(h, calls) == \E i \in DOMAIN calls : h \in calls[i]
Left(s, ids) == \E i \in DOMAIN ids : ids[i] = s

(***************************************************************************)
(* Where the walk stands: the calls, the storages left and the folder that *)
(* is asked for fit the program counter.                                   *)
(***************************************************************************)
Standing ==
    /\ (how = "none") = (pc # "ended")
    /\ pc = "storages" => cards = {} /\ todo = <<>> /\ stack = <<>>
    /\ pc = "list" => asked \in Folder /\ Len(stack) <= MaxDirDepth
    /\ pc = "list" /\ asked \in Handle => kind[asked] = "dir"
    /\ pc # "list" => asked = Nowhere
    /\ pc = "info" => /\ Len(stack) > 0 /\ stack[Len(stack)] # {}
                      /\ \A i \in DOMAIN stack : stack[i] \cap seen = {}
    /\ how = "done" => stack = <<>> /\ todo = <<>>

(***************************************************************************)
(* What remains to be done is remembered: a named handle is seen or held   *)
(* by a call, a named storage is left, a found folder walked or asked for. *)
(***************************************************************************)
Remembered ==
    /\ \A f \in Folder : \A h \in kids[f] : h \in seen \/ Held(h, stack)
    /\ \A s \in cards : s \in listed \/ s \in skipped \/ s = asked \/ Left(s, todo)
    /\ \A h \in Handle : kind[h] = "dir" => h \in listed \/ h \in skipped \/ h = asked

(***************************************************************************)
(* The marks and the list say what the camera said.                        *)
(***************************************************************************)
Marked ==
    /\ \A h \in Handle : kind[h] # "unasked" => h \in seen
    /\ how # "panic" => \A h \in seen : kind[h] # "unasked"
FilesExact ==
    /\ \A h \in Handle : kind[h] = "raf" => \E i \in DOMAIN files : files[i] = h
    /\ \A i \in DOMAIN files : kind[files[i]] = "raf"

Inv == TypeOK /\ Standing /\ Remembered /\ Marked /\ FilesExact /\ ListedOnce

-----------------------------------------------------------------------------
(***************************************************************************)
(* How NextStorage leaves the walk.                                        *)
(***************************************************************************)
LEMMA NextStorageFacts ==
    ASSUME NEW left \in Seq(Storage), NextStorage(left)
    PROVE  /\ todo' \in Seq(Storage)
           /\ \A s : Left(s, left) => s = asked' \/ Left(s, todo')
           /\ \/ pc' = "list" /\ how' = how /\ asked' \in Storage
              \/ pc' = "ended" /\ how' = "done" /\ asked' = Nowhere /\ todo' = <<>>
<1>1. CASE left = <<>>
  BY <1>1 DEF NextStorage, Return, Left
<1>2. CASE left # <<>>
  <2>1. /\ pc' = "list" /\ how' = how /\ asked' = left[1] /\ todo' = Tail(left)
    BY <1>2 DEF NextStorage
  <2>2. /\ left[1] \in Storage /\ Tail(left) \in Seq(Storage)
        /\ Len(left) \in Nat /\ DOMAIN left = 1..Len(left)
        /\ DOMAIN Tail(left) = 1..(Len(left) - 1)
        /\ \A i \in 1..(Len(left) - 1) : Tail(left)[i] = left[i + 1]
    BY <1>2
  <2>3. ASSUME NEW i \in DOMAIN left, i # 1
        PROVE  i - 1 \in DOMAIN Tail(left) /\ Tail(left)[i - 1] = left[i]
    BY <2>2, <2>3
  <2> QED BY <2>1, <2>2, <2>3 DEF Left
<1> QED BY <1>1, <1>2

(***************************************************************************)
(* How Resume leaves it: no handle that is neither seen nor held is lost,  *)
(* and the calls that go on hold unseen handles only.                      *)
(***************************************************************************)
Resumed ==
    \/ /\ pc' = "info" /\ how' = how /\ asked' = Nowhere
       /\ Len(stack') > 0 /\ stack'[Len(stack')] # {}
    \/ pc' = "list" /\ how' = how /\ stack' = <<>> /\ asked' \in Storage
    \/ /\ pc' = "ended" /\ how' = "done" /\ stack' = <<>>
       /\ asked' = Nowhere /\ todo' = <<>>

LEMMA ResumeFacts ==
    ASSUME NEW calls \in Seq(SUBSET Handle), NEW known,
           todo \in Seq(Storage), Resume(calls, known)
    PROVE  /\ stack' \in Seq(SUBSET Handle) /\ Len(stack') <= Len(calls)
           /\ todo' \in Seq(Storage)
           /\ \A i \in DOMAIN stack' : stack'[i] \cap known = {}
           /\ \A h : Held(h, calls) => h \in known \/ Held(h, stack')
           /\ \A s : Left(s, todo) => s = asked' \/ Left(s, todo')
           /\ Resumed
<1> DEFINE Busy == {i \in DOMAIN calls : calls[i] \ known # {}}
<1>1. CASE Busy = {}
  <2>1. stack' = <<>> /\ NextStorage(todo)
    BY <1>1 DEF Resume
  <2>2. \A h : Held(h, calls) => h \in known
    BY <1>1 DEF Held
  <2>3. Len(calls) \in Nat
    OBVIOUS
  <2> QED BY <2>1, <2>2, <2>3, NextStorageFacts DEF Resumed
<1>2. CASE Busy # {}
  <2>1. PICK top \in Busy :
          /\ \A i \in Busy : i <= top
          /\ stack' = [i \in 1..top |-> calls[i] \ known]
    BY <1>2 DEF Resume
  <2>2. /\ pc' = "info" /\ asked' = Nowhere /\ how' = how /\ todo' = todo
    BY <1>2 DEF Resume
  <2>3. top \in 1..Len(calls) /\ Len(calls) \in Nat /\ calls[top] \ known # {}
    OBVIOUS
  <2>4. /\ stack' \in Seq(SUBSET Handle) /\ Len(stack') = top
        /\ DOMAIN stack' = 1..top
        /\ \A i \in 1..top : stack'[i] = calls[i] \ known
    BY <2>1, <2>3
  <2>5. stack'[top] # {}
    <3>1. top \in 1..top
      BY <2>3
    <3>2. stack'[top] = calls[top] \ known
      BY <2>4, <3>1
    <3> QED BY <2>3, <3>2
  <2>6. \A h : Held(h, calls) => h \in known \/ Held(h, stack')
    <3> SUFFICES ASSUME NEW h, NEW i \in DOMAIN calls, h \in calls[i], h \notin known
                 PROVE  Held(h, stack')
      BY DEF Held
    <3>1. i \in Busy
      OBVIOUS
    <3>2. i \in 1..top
      BY <2>1, <2>3, <3>1
    <3> QED BY <2>4, <3>2 DEF Held
  <2> QED BY <2>2, <2>3, <2>4, <2>5, <2>6 DEF Resumed
<1> QED BY <1>1, <1>2

-----------------------------------------------------------------------------
LEMMA InitInv == Init => Inv
<1> SUFFICES ASSUME Init PROVE Inv
  OBVIOUS
<1>1. TypeOK
  BY ListingAssumption DEF Init, TypeOK
<1>2. Standing /\ Marked /\ FilesExact /\ ListedOnce
  BY ListingAssumption DEF Init, Standing, Marked, FilesExact, ListedOnce
<1>3. Remembered
  BY DEF Init, Remembered
<1> QED BY <1>1, <1>2, <1>3 DEF Inv

LEMMA StorageStep ==
    ASSUME Inv, GetStorageIDs
    PROVE  Inv'
<1> USE DEF GetStorageIDs
<1>1. /\ UNCHANGED <<stack, seen, files, kids, kind, listed, skipped>>
      /\ pc = "storages"
  OBVIOUS
<1>2. CASE \E n \in 0..MaxStorages : \E ids \in [1..n -> Storage] :
              NextStorage(ids) /\ cards' = {ids[i] : i \in 1..n}
  <2>0. PICK n \in 0..MaxStorages :
              \E ids \in [1..n -> Storage] :
                  NextStorage(ids) /\ cards' = {ids[i] : i \in 1..n}
    BY <1>2
  <2>1. PICK ids \in [1..n -> Storage] :
              NextStorage(ids) /\ cards' = {ids[i] : i \in 1..n}
    BY <2>0
  <2>2. ids \in Seq(Storage) /\ n \in Nat /\ DOMAIN ids = 1..n
    BY <2>0, <2>1, ListingAssumption
  <2>3. /\ todo' \in Seq(Storage)
        /\ \A s : Left(s, ids) => s = asked' \/ Left(s, todo')
        /\ \/ pc' = "list" /\ how' = how /\ asked' \in Storage
           \/ pc' = "ended" /\ how' = "done" /\ asked' = Nowhere /\ todo' = <<>>
    BY <2>1, <2>2, NextStorageFacts
  <2>4. cards' \subseteq Storage /\ \A s \in cards' : Left(s, ids)
    BY <2>1, <2>2 DEF Left
  <2>5. stack = <<>> /\ how = "none"
    BY <1>1 DEF Inv, Standing
  <2>6. TypeOK'
    BY <1>1, <2>3, <2>4 DEF Inv, TypeOK, Folder
  <2>7. Standing'
    BY <1>1, <2>3, <2>5, ListingAssumption DEF Inv, Standing, Folder
  <2>8. Remembered'
    <3>1. \A f \in Folder : \A h \in kids'[f] : h \in seen' \/ Held(h, stack')
      BY <1>1 DEF Inv, Remembered
    <3>2. \A s \in cards' : s = asked' \/ Left(s, todo')
      BY <2>3, <2>4
    <3>3. \A h \in Handle : kind'[h] = "dir" => h \in listed' \/ h \in skipped' \/ h = asked'
      BY <1>1, ListingAssumption DEF Inv, Standing, Remembered, Folder
    <3> QED BY <3>1, <3>2, <3>3 DEF Remembered
  <2>9. Marked' /\ FilesExact' /\ ListedOnce'
    BY <1>1, <2>3, <2>5 DEF Inv, Marked, FilesExact, ListedOnce
  <2> QED BY <2>6, <2>7, <2>8, <2>9 DEF Inv
<1>3. CASE (Return("error") \/ Return("panic")) /\ UNCHANGED <<todo, asked, cards>>
  BY <1>1, <1>3
  DEF Return, Inv, TypeOK, Standing, Remembered, Marked, FilesExact, ListedOnce, Folder
<1> QED BY <1>2, <1>3

(***************************************************************************)
(* What each command may disturb, one lemma per part of the invariant.     *)
(***************************************************************************)
LEMMA ListStep ==
    ASSUME Inv, GetObjectHandles
    PROVE  Inv'
<1>1. /\ pc = "list" /\ how = "none" /\ asked \in Folder
      /\ UNCHANGED <<seen, files, cards, kind>>
      /\ stack \in Seq(SUBSET Handle) /\ Len(stack) <= MaxDirDepth
      /\ todo \in Seq(Storage) /\ Len(stack) \in Nat /\ MaxDirDepth \in Nat
  BY ListingAssumption DEF GetObjectHandles, Inv, TypeOK, Standing
<1>2. CASE \E hs \in SUBSET Handle :
              /\ Cardinality(hs) <= MaxKids
              /\ kids' = [kids EXCEPT ![asked] = @ \cup hs] /\ listed' = listed \cup {asked}
              /\ Resume(Append(stack, hs), seen) /\ UNCHANGED skipped
  <2>1. PICK hs \in SUBSET Handle :
              /\ kids' = [kids EXCEPT ![asked] = @ \cup hs] /\ listed' = listed \cup {asked}
              /\ Resume(Append(stack, hs), seen) /\ UNCHANGED skipped
    BY <1>2
  <2> DEFINE calls == Append(stack, hs)
  <2>2. /\ calls \in Seq(SUBSET Handle) /\ Len(calls) <= MaxDirDepth + 1
        /\ \A h : Held(h, stack) => Held(h, calls)
        /\ \A h \in hs : Held(h, calls)
    <3>1. /\ calls \in Seq(SUBSET Handle) /\ Len(calls) = Len(stack) + 1
          /\ DOMAIN calls = 1..(Len(stack) + 1) /\ DOMAIN stack = 1..Len(stack)
          /\ calls[Len(stack) + 1] = hs
          /\ \A i \in 1..Len(stack) : calls[i] = stack[i]
      BY <1>1
    <3>2. Len(stack) + 1 \in DOMAIN calls /\ DOMAIN stack \subseteq DOMAIN calls
      BY <1>1, <3>1
    <3> HIDE DEF calls
    <3>3. \A h : Held(h, stack) => Held(h, calls)
      BY <3>1, <3>2 DEF Held
    <3>4. \A h \in hs : Held(h, calls)
      BY <3>1, <3>2 DEF Held
    <3> QED BY <1>1, <3>1, <3>3, <3>4
  <2>3. Resume(calls, seen)
    BY <2>1
  <2> HIDE DEF calls
  <2>4. /\ stack' \in Seq(SUBSET Handle) /\ Len(stack') <= Len(calls)
        /\ todo' \in Seq(Storage)
        /\ \A i \in DOMAIN stack' : stack'[i] \cap seen = {}
        /\ \A h : Held(h, calls) => h \in seen \/ Held(h, stack')
        /\ \A s : Left(s, todo) => s = asked' \/ Left(s, todo')
        /\ Resumed
    BY <2>2, <2>3, <1>1, ResumeFacts
  <2>5. TypeOK'
    BY <1>1, <2>1, <2>2, <2>4 DEF Inv, TypeOK, Resumed, Folder
  <2>6. Standing'
    BY <1>1, <2>4, ListingAssumption DEF Inv, Standing, Resumed, Folder
  <2>7. Remembered'
    <3>1. \A f \in Folder : \A h \in kids'[f] : h \in seen' \/ Held(h, stack')
      BY <1>1, <2>1, <2>2, <2>4 DEF Inv, TypeOK, Remembered
    <3>2. /\ \A s \in cards' : s \in listed' \/ s \in skipped' \/ s = asked' \/ Left(s, todo')
          /\ \A h \in Handle : kind'[h] = "dir" => h \in listed' \/ h \in skipped' \/ h = asked'
      BY <1>1, <2>1, <2>4 DEF Inv, Remembered
    <3> QED BY <3>1, <3>2 DEF Remembered
  <2>8. Marked' /\ FilesExact' /\ ListedOnce'
    BY <1>1, <2>4 DEF Inv, Marked, FilesExact, ListedOnce, Resumed
  <2> QED BY <2>5, <2>6, <2>7, <2>8 DEF Inv
<1>3. CASE /\ skipped' = skipped \cup {asked}
           /\ Resume(stack, seen) /\ UNCHANGED <<kids, listed>>
  <2>4. /\ stack' \in Seq(SUBSET Handle) /\ Len(stack') <= Len(stack)
        /\ todo' \in Seq(Storage)
        /\ \A i \in DOMAIN stack' : stack'[i] \cap seen = {}
        /\ \A h : Held(h, stack) => h \in seen \/ Held(h, stack')
        /\ \A s : Left(s, todo) => s = asked' \/ Left(s, todo')
        /\ Resumed
    BY <1>3, <1>1, ResumeFacts
  <2>5. TypeOK'
    BY <1>1, <1>3, <2>4 DEF Inv, TypeOK, Resumed, Folder
  <2>6. Standing'
    BY <1>1, <2>4, ListingAssumption DEF Inv, Standing, Resumed, Folder
  <2>7. Remembered'
    BY <1>1, <1>3, <2>4 DEF Inv, Remembered
  <2>8. Marked' /\ FilesExact' /\ ListedOnce'
    BY <1>1, <2>4 DEF Inv, Marked, FilesExact, ListedOnce, Resumed
  <2> QED BY <2>5, <2>6, <2>7, <2>8 DEF Inv
<1> QED BY <1>2, <1>3 DEF GetObjectHandles

LEMMA InfoStep ==
    ASSUME Inv, GetObjectInfo
    PROVE  Inv'
<1>1. PICK h \in stack[Len(stack)] :
          /\ seen' = seen \cup {h}
          /\ \E a \in Kind \cup {"failed"} :
                /\ kind' = [kind EXCEPT ![h] = a]
                /\ files' = IF a = "raf" THEN Append(files, h) ELSE files
                /\ IF a = "dir" THEN Enter(h)
                   ELSE Resume(stack, seen \cup {h}) /\ UNCHANGED skipped
  BY DEF GetObjectInfo
<1>2. PICK a \in Kind \cup {"failed"} :
                /\ kind' = [kind EXCEPT ![h] = a]
                /\ files' = IF a = "raf" THEN Append(files, h) ELSE files
                /\ IF a = "dir" THEN Enter(h)
                   ELSE Resume(stack, seen \cup {h}) /\ UNCHANGED skipped
  BY <1>1
<1>3. /\ pc = "info" /\ how = "none" /\ asked = Nowhere
      /\ UNCHANGED <<cards, kids, listed>>
      /\ stack \in Seq(SUBSET Handle) /\ Len(stack) <= MaxDirDepth + 1
      /\ Len(stack) \in Nat /\ Len(stack) > 0 /\ MaxDirDepth \in Nat
      /\ todo \in Seq(Storage) /\ h \in Handle /\ h \notin seen
  BY ListingAssumption DEF GetObjectInfo, Inv, TypeOK, Standing
<1>4. Marked' \/ how' = "panic"
  BY <1>1, <1>2, <1>3 DEF Inv, TypeOK, Marked, Kind
<1>5. /\ files' \in Seq(Handle) /\ kind' \in [Handle -> Kind \cup {"unasked", "failed"}]
      /\ kind[h] = "unasked" /\ kind'[h] = a /\ seen' \subseteq Handle
      /\ \A g \in Handle : g # h => kind'[g] = kind[g]
  BY <1>1, <1>2, <1>3 DEF Inv, TypeOK, Marked, Kind
<1>6. FilesExact' /\ ListedOnce'
  <2>0. /\ files \in Seq(Handle) /\ Len(files) \in Nat /\ DOMAIN files = 1..Len(files)
        /\ \A i \in DOMAIN files : files[i] # h /\ files[i] \in Handle
    BY <1>3, <1>5 DEF Inv, TypeOK, FilesExact
  <2>1. CASE a = "raf"
    <3>1. /\ DOMAIN files' = 1..(Len(files) + 1) /\ files'[Len(files) + 1] = h
          /\ \A i \in DOMAIN files : files'[i] = files[i]
      BY <1>2, <1>3, <2>0, <2>1
    <3>2. FilesExact'
      BY <1>5, <2>0, <2>1, <3>1 DEF Inv, FilesExact
    <3>3. ListedOnce'
      BY <2>0, <3>1 DEF Inv, ListedOnce
    <3> QED BY <3>2, <3>3
  <2>2. CASE a # "raf"
    <3>1. files' = files
      BY <1>2, <2>2
    <3> QED BY <1>5, <2>0, <2>2, <3>1 DEF Inv, FilesExact, ListedOnce
  <2> QED BY <2>1, <2>2
<1>7. ASSUME Resume(stack, seen \cup {h}), skipped' \in SUBSET Folder,
             skipped \subseteq skipped', a = "dir" => h \in skipped'
      PROVE  Inv'
  <2>4. /\ stack' \in Seq(SUBSET Handle) /\ Len(stack') <= Len(stack)
        /\ todo' \in Seq(Storage)
        /\ \A i \in DOMAIN stack' : stack'[i] \cap (seen \cup {h}) = {}
        /\ \A g : Held(g, stack) => g \in seen \cup {h} \/ Held(g, stack')
        /\ \A s : Left(s, todo) => s = asked' \/ Left(s, todo')
        /\ Resumed
    BY <1>7, <1>3, ResumeFacts
  <2>5. TypeOK'
    BY <1>1, <1>3, <1>5, <1>7, <2>4 DEF Inv, TypeOK, Resumed, Folder
  <2>6. Standing'
    BY <1>1, <1>3, <2>4, ListingAssumption DEF Inv, Standing, Resumed, Folder
  <2>7. Remembered'
    <3>1. \A f \in Folder : \A g \in kids'[f] : g \in seen' \/ Held(g, stack')
      BY <1>1, <1>3, <2>4 DEF Inv, Remembered
    <3>2. \A s \in cards' : s \in listed' \/ s \in skipped' \/ s = asked' \/ Left(s, todo')
      BY <1>3, <1>7, <2>4, ListingAssumption DEF Inv, TypeOK, Remembered, Folder
    <3>3. \A g \in Handle : kind'[g] = "dir" => g \in listed' \/ g \in skipped' \/ g = asked'
      BY <1>3, <1>5, <1>7, ListingAssumption DEF Inv, Remembered, Folder
    <3> QED BY <3>1, <3>2, <3>3 DEF Remembered
  <2>8. how' # "panic"
    BY <1>3, <2>4 DEF Resumed
  <2> QED BY <1>4, <1>6, <2>5, <2>6, <2>7, <2>8 DEF Inv
<1>8. CASE a # "dir"
  BY <1>2, <1>7, <1>8 DEF Inv, TypeOK
<1>9. CASE a = "dir" /\ Len(stack) > MaxDirDepth
  BY <1>2, <1>3, <1>7, <1>9 DEF Inv, TypeOK, Enter, Folder
<1>10. CASE a = "dir" /\ ~(Len(stack) > MaxDirDepth)
  <2>1. /\ stack' = [stack EXCEPT ![Len(stack)] = @ \ {h}]
        /\ pc' = "list" /\ asked' = h /\ UNCHANGED <<how, todo, skipped>>
    BY <1>2, <1>10 DEF Enter
  <2>2. /\ stack' \in Seq(SUBSET Handle) /\ Len(stack') = Len(stack)
        /\ DOMAIN stack' = DOMAIN stack
        /\ \A i \in DOMAIN stack : stack[i] \subseteq stack'[i] \cup {h}
    BY <1>3, <2>1
  <2>3. TypeOK'
    BY <1>1, <1>3, <1>5, <2>1, <2>2 DEF Inv, TypeOK, Folder
  <2>4. Standing'
    BY <1>3, <1>5, <1>10, <2>1, <2>2 DEF Standing, Folder
  <2>5. Remembered'
    BY <1>1, <1>3, <1>5, <2>1, <2>2, ListingAssumption
    DEF Inv, TypeOK, Remembered, Held, Folder
  <2> QED BY <1>3, <1>4, <1>6, <2>1, <2>3, <2>4, <2>5 DEF Inv
<1> QED BY <1>8, <1>9, <1>10

LEMMA ShortStep ==
    ASSUME Inv, ShortName
    PROVE  Inv'
<1>1. PICK h \in stack[Len(stack)] : seen' = seen \cup {h}
  BY DEF ShortName
<1>2. /\ pc = "info" /\ pc' = "ended" /\ how' = "panic" /\ asked = Nowhere
      /\ UNCHANGED <<todo, asked, stack, files, cards, kids, kind, listed, skipped>>
      /\ h \in Handle
  BY <1>1 DEF ShortName, Return, Inv, TypeOK, Standing
<1> QED
  BY <1>1, <1>2
  DEF Inv, TypeOK, Standing, Remembered, Marked, FilesExact, ListedOnce

LEMMA StutterStep ==
    ASSUME Inv, UNCHANGED vars
    PROVE  Inv'
BY DEF Inv, TypeOK, Standing, Remembered, Held, Left, Marked, FilesExact,
       ListedOnce, vars

-----------------------------------------------------------------------------
(***************************************************************************)
(* The inductive invariant of the listing (session.go:752-857).            *)
(***************************************************************************)
THEOREM ListingInvariant == Spec => []Inv
<1>1. Inv /\ [Next]_vars => Inv'
  BY StorageStep, ListStep, InfoStep, ShortStep, StutterStep DEF Next
<1> QED BY InitInv, <1>1, PTL DEF Spec

(***************************************************************************)
(* Type correctness: in particular the depth limit bounds the recursion.   *)
(***************************************************************************)
THEOREM TypeCorrect == Spec => []TypeOK
<1>1. Inv => TypeOK
  BY DEF Inv
<1> QED BY <1>1, ListingInvariant, PTL

(***************************************************************************)
(* No file is listed twice, whatever the folders and storages share.       *)
(***************************************************************************)
THEOREM NoneTwice == Spec => []ListedOnce
<1>1. Inv => ListedOnce
  BY DEF Inv
<1> QED BY <1>1, ListingInvariant, PTL

(***************************************************************************)
(* The list that is returned is complete, as EveryRafListed states it.     *)
(***************************************************************************)
THEOREM NoneForgotten == Spec => []EveryRafListed
<1>1. Inv => EveryRafListed
  <2> SUFFICES ASSUME Inv PROVE EveryRafListed
    OBVIOUS
  <2>1. \A i \in DOMAIN files : kind[files[i]] = "raf"
    BY DEF Inv, FilesExact
  <2>2. ASSUME how = "done"
        PROVE  (\A f \in cards : Walked(f)) /\ (\A h \in Named : Accounted(h))
    <3>1. /\ stack = <<>> /\ todo = <<>> /\ asked = Nowhere
          /\ cards \subseteq Folder
      BY <2>2 DEF Inv, Standing, TypeOK, Folder
    <3>2. \A f \in Folder : kids[f] \subseteq seen
      BY <3>1 DEF Inv, Remembered, Held
    <3>3. \A f \in cards : Walked(f)
      BY <3>1, <3>2, ListingAssumption DEF Inv, Remembered, Left, Walked
    <3>4. ASSUME NEW h \in Named
          PROVE  Accounted(h)
      <4>1. h \in Handle /\ h \in seen
        BY <3>2 DEF Inv, TypeOK, Named
      <4>2. kind[h] \in Kind \cup {"failed"}
        BY <2>2, <4>1 DEF Inv, TypeOK, Marked
      <4>3. CASE kind[h] = "raf"
        BY <4>1, <4>3 DEF Accounted, Inv, FilesExact
      <4>4. CASE kind[h] = "dir"
        BY <3>1, <3>2, <4>1, <4>4, ListingAssumption DEF Accounted, Walked, Inv, Remembered, Folder
      <4>5. CASE kind[h] \in {"other", "failed"}
        BY <4>5 DEF Accounted
      <4> QED BY <4>2, <4>3, <4>4, <4>5 DEF Kind
    <3> QED BY <3>3, <3>4
  <2> QED BY <2>1, <2>2 DEF EveryRafListed
<1> QED BY <1>1, ListingInvariant, PTL

(***************************************************************************)
(* Nothing is asked twice in a walk (but for a storage that is named       *)
(* twice): a folder asked for is not asked for again, and what the camera  *)
(* said of a handle stands.                                                *)
(***************************************************************************)
LEMMA AskedStep ==
    ASSUME Inv, [Next]_vars
    PROVE  /\ pc = "list" /\ asked \in Handle /\ vars' # vars =>
                kind[asked] = "dir" /\ asked' # asked
           /\ \A h \in Handle : kind[h] # "unasked" => kind'[h] = kind[h]
<1>1. CASE GetStorageIDs \/ ShortName
  BY <1>1 DEF GetStorageIDs, ShortName
<1>2. CASE GetObjectHandles
  <2>1. /\ pc = "list" /\ asked \in Folder /\ kind' = kind
        /\ stack \in Seq(SUBSET Handle) /\ todo \in Seq(Storage)
    BY <1>2 DEF GetObjectHandles, Inv, TypeOK, Standing
  <2>2. \/ \E hs \in SUBSET Handle : Resume(Append(stack, hs), seen)
        \/ Resume(stack, seen)
    BY <1>2 DEF GetObjectHandles
  <2>3. \A hs \in SUBSET Handle : Append(stack, hs) \in Seq(SUBSET Handle)
    BY <2>1
  <2>4. Resumed
    BY <2>1, <2>2, <2>3, ResumeFacts
  <2>5. asked \in Handle => asked' # asked
    BY <2>4, ListingAssumption DEF Resumed, Folder
  <2> QED BY <2>1, <2>5 DEF Inv, Standing
<1>3. CASE GetObjectInfo
  <2>1. pc = "info"
    BY <1>3 DEF GetObjectInfo
  <2>2. PICK h \in stack[Len(stack)], a \in Kind \cup {"failed"} :
            kind' = [kind EXCEPT ![h] = a]
    BY <1>3 DEF GetObjectInfo
  <2>3. h \in Handle /\ h \notin seen /\ kind \in [Handle -> Kind \cup {"unasked", "failed"}]
    BY <2>1, <2>2 DEF Inv, TypeOK, Standing
  <2>4. kind[h] = "unasked"
    BY <2>3 DEF Inv, Marked
  <2> QED BY <2>1, <2>2, <2>3, <2>4
<1>4. CASE UNCHANGED vars
  BY <1>4 DEF vars
<1> QED BY <1>1, <1>2, <1>3, <1>4 DEF Next

THEOREM NoneAskedTwice == Spec => AskedOnce
<1>1. Inv /\ [Next]_vars =>
        [/\ (pc = "list" /\ asked \in Handle) => kind[asked] = "dir" /\ asked' # asked
         /\ \A h \in Handle : kind[h] # "unasked" => kind'[h] = kind[h]]_vars
  BY AskedStep
<1> QED BY <1>1, ListingInvariant, PTL DEF Spec, AskedOnce
=============================================================================
