----------------------------- MODULE PTPChannel -----------------------------
(***************************************************************************)
(* What Transport promises its callers: one command at a time, over a      *)
(* handle that is live as long as it is open and the camera is there, and  *)
(* an end that says what became of the command as PTPCall has it.          *)
(***************************************************************************)
EXTENDS PTPCall

VARIABLES live, busy, done, outcome

Init ==
    live = FALSE /\ busy = FALSE /\ done = FALSE /\ synced = TRUE /\ outcome = "none"

Call == ~busy /\ busy' = TRUE /\ done' = FALSE /\ UNCHANGED <<live, synced, outcome>>

\* The camera carries out the command of the call in progress.
CarryOut ==
    live /\ busy /\ ~done /\ done' = TRUE /\ UNCHANGED <<live, busy, synced, outcome>>

\* The call ends; or it failed just before the cable was pulled.
End ==
    /\ busy /\ busy' = FALSE /\ done' = FALSE /\ outcome' \in Outcome /\ UNCHANGED live
    /\ \/ EndsAs(live, outcome', done, TRUE)
       \/ ~live /\ done /\ outcome' = "err" /\ EndsAs(TRUE, "err", done, TRUE)

\* The daemon stops in mid-call.
Die ==
    /\ busy /\ busy' = FALSE /\ done' = FALSE /\ outcome' = "err" /\ live' = FALSE
    /\ synced' \in {synced, FALSE}

\* The handle is closed, or the cable pulled.
Lose == live' = FALSE /\ UNCHANGED <<busy, done, synced, outcome>>

\* Connect and Reset may flush what was on its way.
Reopen ==
    /\ ~busy /\ live' = TRUE /\ synced' \in {synced, TRUE}
    /\ UNCHANGED <<busy, done, outcome>>

Next == Call \/ CarryOut \/ End \/ Die \/ Lose \/ Reopen

Spec == Init /\ [][Next]_<<live, busy, done, synced, outcome>>
=============================================================================
