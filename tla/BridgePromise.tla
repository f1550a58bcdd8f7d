---------------------------- MODULE BridgePromise ---------------------------
(***************************************************************************)
(* What a bridge promises to its clients, without the sockets, handshakes, *)
(* heartbeats and clock that provide it: a client takes part only with a   *)
(* credential that is honoured at that moment; a credential that once is   *)
(* not honoured never is again; one that its client gives back goes with   *)
(* the client; and when the bridge is over, so is everything it granted.   *)
(* BridgeServer implements this.                                           *)
(***************************************************************************)
CONSTANTS
  Clients,
  Credentials,  \* records of a token and the role it is for
  Nobody        \* the credential of a client that does not take part

VARIABLES
  phase,     \* "new", "open" or "over"
  granted,   \* the credentials that clients were ever given
  honoured,  \* those that a client may take part with
  returned,  \* those that were given back
  member     \* the credential with which each client takes part

promiseVars == <<phase, granted, honoured, returned, member>>

PromiseInit ==
  /\ phase = "new"
  /\ granted = {} /\ honoured = {} /\ returned = {}
  /\ member = [c \in Clients |-> Nobody]

\* Every credential has a token of its own.
New(credential) ==
  credential \in Credentials /\ \A old \in granted : old.token # credential.token

\* A bridge opens with a credential for its IDE, the only one of that role.
Open ==
  /\ phase = "new"
  /\ phase' = "open"
  /\ \E credential \in Credentials :
       /\ New(credential) /\ credential.role = "ide"
       /\ granted' = {credential} /\ honoured' = {credential}
  /\ UNCHANGED <<returned, member>>

\* A browser is linked.  At most one older browser loses its credential to it,
\* and never the IDE.
Grant ==
  /\ phase = "open"
  /\ \E credential \in Credentials :
       /\ New(credential) /\ credential.role = "browser"
       /\ granted' = granted \cup {credential}
       /\ credential \in honoured' /\ honoured' \subseteq honoured \cup {credential}
  /\ \A lost, other \in honoured \ honoured' : lost = other /\ lost.role = "browser"
  /\ UNCHANGED <<phase, returned, member>>

\* Credentials grow old; none comes back.
Expire ==
  /\ honoured' \subseteq honoured
  /\ UNCHANGED <<phase, granted, returned, member>>

Join(c) ==
  /\ phase = "open" /\ member[c] = Nobody
  /\ \E credential \in honoured : member' = [member EXCEPT ![c] = credential]
  /\ UNCHANGED <<phase, granted, honoured, returned>>

\* Clients leave or are lost, and may come back.
Leave ==
  /\ \E gone \in SUBSET Clients :
       member' = [c \in Clients |-> IF c \in gone THEN Nobody ELSE member[c]]
  /\ UNCHANGED <<phase, granted, honoured, returned>>

\* A client gives its credential back, if it still takes part or no longer.
GiveBack(c) ==
  /\ \E credential \in granted :
       /\ member[c] \in {credential, Nobody}
       /\ honoured' = honoured \ {credential}
       /\ returned' = returned \cup {credential}
  /\ member' = [member EXCEPT ![c] = Nobody]
  /\ UNCHANGED <<phase, granted>>

Close ==
  /\ phase = "open"
  /\ phase' = "over"
  /\ honoured' = {} /\ member' = [c \in Clients |-> Nobody]
  /\ UNCHANGED <<granted, returned>>

PromiseNext ==
  \/ Open \/ Grant \/ Expire \/ Leave \/ Close
  \/ \E c \in Clients : Join(c) \/ GiveBack(c)

PromiseSpec == PromiseInit /\ [][PromiseNext]_promiseVars
=============================================================================
