------------------------- MODULE MCBackgroundRouter -------------------------
(* BackgroundRouter for model checking; the configuration gives the        *)
(* constants.  Channels are interchangeable, and so are windows.           *)
EXTENDS BackgroundRouter, TLC

Symmetry == Permutations(Channels) \cup Permutations(Windows)
=============================================================================
