----------------------------- MODULE WindowLink -----------------------------
(***************************************************************************)
(* What one browser window's link promises, without the panels, clients,   *)
(* promises and timers that provide it: a mapping is kept in session       *)
(* storage, the running extension holds it in memory, and the window is    *)
(* online only while it holds one.  WindowCoordinator implements this.     *)
(***************************************************************************)
CONSTANTS
  Links,    \* the mappings (endpoint, bridge instance, token) ever granted
  NoLink    \* the absence of a mapping

VARIABLES
  stored,   \* the mapping in session storage, or NoLink
  held,     \* the mapping the extension acts on, or NoLink
  online    \* the panels are told that the window is linked

linkVars == <<stored, held, online>>

LinkInit ==
  /\ stored \in Links \cup {NoLink}
  /\ held = NoLink
  /\ online = FALSE

\* Storage changes only while the extension holds no mapping: a mapping in
\* use is never overwritten or erased under the window that uses it.
Store ==
  /\ held = NoLink
  /\ stored' \in Links \cup {NoLink}
  /\ UNCHANGED <<held, online>>

\* The extension starts to hold exactly what storage holds.
Adopt ==
  /\ held = NoLink
  /\ stored # NoLink
  /\ held' = stored
  /\ online' \in BOOLEAN
  /\ UNCHANGED stored

\* The extension lets go of the mapping; storage is cleaned up separately.
Forget ==
  /\ held' = NoLink
  /\ online' = FALSE
  /\ UNCHANGED stored

GoOnline ==
  /\ held # NoLink
  /\ online' = TRUE
  /\ UNCHANGED <<stored, held>>

GoOffline ==
  /\ online' = FALSE
  /\ UNCHANGED <<stored, held>>

LinkNext == Store \/ Adopt \/ Forget \/ GoOnline \/ GoOffline

LinkSpec == LinkInit /\ [][LinkNext]_linkVars
=============================================================================
