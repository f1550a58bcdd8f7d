------------------------------ MODULE MCPanel ------------------------------
(***************************************************************************)
(* One panel: the values of the bounds are in the .cfg files.              *)
(***************************************************************************)
EXTENDS Panel
=============================================================================
