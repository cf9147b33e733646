---------------------------- MODULE MCRafUpload ----------------------------
(***************************************************************************)
(* RafUpload for TLC: clients whose files differ in length.                *)
(***************************************************************************)
EXTENDS RafUpload, TLC

CONSTANTS c1, c2, c3

TwoSizes == c1 :> 2 @@ c2 :> 1
ThreeSizes == c1 :> 2 @@ c2 :> 1 @@ c3 :> 1
=============================================================================
