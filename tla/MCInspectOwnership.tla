------------------------- MODULE MCInspectOwnership -------------------------
(* InspectOwnership for model checking; the configurations give the constants. *)
EXTENDS InspectOwnership
=============================================================================
