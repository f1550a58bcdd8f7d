------------------------ MODULE MCWindowCoordinator ------------------------
(* Constants for model checking WindowCoordinator. *)
EXTENDS WindowCoordinator

AllFaults == PossibleFaults
AbortFaults == {"abort"}
=============================================================================
