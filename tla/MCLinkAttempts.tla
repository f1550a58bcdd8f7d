--------------------------- MODULE MCLinkAttempts --------------------------
(* LinkAttempts for model checking; the configuration gives the constants. *)
EXTENDS LinkAttempts
=============================================================================
