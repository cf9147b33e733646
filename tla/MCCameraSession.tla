-------------------------- MODULE MCCameraSession --------------------------
(***************************************************************************)
(* CameraSession for TLC.  RAFs, edits and handles are interchangeable, so *)
(* the safety runs use them as symmetry sets; liveness runs may not.       *)
(***************************************************************************)
EXTENDS CameraSession, TLC

Symmetry == Permutations(RAFs) \cup Permutations(Handles)
=============================================================================
