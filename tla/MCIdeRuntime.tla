---------------------------- MODULE MCIdeRuntime ----------------------------
(***************************************************************************)
(* The IDE's runtime: the values of the bounds are in the .cfg file.       *)
(***************************************************************************)
EXTENDS IdeRuntime
=============================================================================
