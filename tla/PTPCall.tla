------------------------------ MODULE PTPCall ------------------------------
(***************************************************************************)
(* How a call of the transport may end, and what its end says.  A command  *)
(* comes back as "ok" (RespOK), "code" (another response code) or "err" (a *)
(* Go error: write failure, timeout, wrong container), and did tells       *)
(* whether the camera carried it out.  A timeout leaves did open, and the  *)
(* answer may still come: since no transaction ID is compared, from then   *)
(* on the answer to a command says nothing about it.  PTPChannel is the    *)
(* system that PTPTransport implements; CameraSession and Presets take     *)
(* each command as one such end.                                           *)
(***************************************************************************)

VARIABLE synced     \* no answer to a command that was given up is still to come

Outcome == {"ok", "code", "err"}

\* The camera is there if live, and does what it is able to do.
EndsAs(live, o, did, able) ==
    \/ ~live /\ o = "err" /\ ~did /\ UNCHANGED synced
    \/ /\ live /\ synced
       /\ \/ o = "ok" /\ did /\ able /\ synced' = TRUE
          \/ o = "code" /\ ~did /\ synced' = TRUE
          \/ o = "err" /\ (did => able) /\ synced' \in BOOLEAN
    \/ live /\ ~synced /\ (did => able) /\ UNCHANGED synced
=============================================================================
