---------------------------- MODULE BridgeServer ---------------------------
(***************************************************************************)
(* The loopback bridge: its sockets, the closure handleConnection keeps    *)
(* for each, the client registry, the heartbeat, and the start and stop    *)
(* that BridgeManager drives.  The LinkAuthenticator is the detailed one.  *)
(*                                                                         *)
(* An action is one event handler.  terminate() only destroys a socket: a  *)
(* frame that was already received may still be delivered before the close *)
(* event, and the handler's own flag "closing" is not set by it.           *)
(***************************************************************************)
EXTENDS LinkAuthenticator

CONSTANTS
  Conns,     \* sockets that may be open at the same time
  MaxTime,   \* bound on the clock
  MaxTokens  \* bound on the tokens ever issued

ASSUME BridgeAssumption ==
  /\ IsFiniteSet(Conns)
  /\ MaxTime \in Nat \ {0}
  /\ MaxTokens \in Nat

VARIABLES
  server,    \* "idle", "starting", "running", "closing" or "stopped"
  stopping,  \* stop() has been called and its body has not run
  conn,      \* the sockets and the closures of their handlers
  registry,  \* missed pongs of the registered clients, NotRegistered for others
  counts,    \* the client counts last announced
  auth,      \* the LinkAuthenticator
  now,       \* its clock
  issued,    \* roles of the tokens issued so far; a token is its position
  known,     \* tokens that reached a client
  unlinked   \* history: tokens of the clients that sent unlink

vars == <<server, stopping, conn, registry, counts, auth, now, issued, known, unlinked>>

NoToken == 0

NotRegistered == 99

\* socket: "none" is a free slot, "closing" is closed or destroyed here with
\* its close event still to come.
Connection ==
  [socket        : {"none", "open", "closing"},
   closing       : BOOLEAN,
   linkAttempted : BOOLEAN,
   token         : 0 .. MaxTokens,       \* NoToken: not registered
   role          : ClientRole,
   timer         : BOOLEAN]              \* the handshake timer

NoConnection ==
  [socket |-> "none", closing |-> FALSE, linkAttempted |-> FALSE,
   token |-> NoToken, role |-> "browser", timer |-> FALSE]

Registered == {c \in Conns : registry[c] # NotRegistered}

CountByRole(reg, cs) ==
  [role \in ClientRole |->
     Cardinality({c \in Conns : reg[c] # NotRegistered /\ cs[c].role = role})]

TypeOK ==
  /\ server \in {"idle", "starting", "running", "closing", "stopped"}
  /\ stopping \in BOOLEAN
  /\ conn \in [Conns -> Connection]
  /\ registry \in [Conns -> {0, 1, 2, NotRegistered}]
  /\ counts \in [ClientRole -> 0 .. Cardinality(Conns)]
  /\ auth \in Authenticator
  /\ now \in 1 .. MaxTime
  /\ issued \in Seq(ClientRole) /\ Len(issued) <= MaxTokens
  /\ known \subseteq DOMAIN issued
  /\ unlinked \subseteq known

Init ==
  /\ server = "idle" /\ stopping = FALSE
  /\ conn = [c \in Conns |-> NoConnection]
  /\ registry = [c \in Conns |-> NotRegistered]
  /\ counts = [role \in ClientRole |-> 0]
  /\ auth = NewAuthenticator
  /\ now = 1
  /\ issued = << >> /\ known = {} /\ unlinked = {}

NextToken == Len(issued) + 1

CanIssue == Len(issued) < MaxTokens

-----------------------------------------------------------------------------
(* Lifecycle *)

Start ==
  /\ server = "idle" /\ ~ stopping
  /\ server' = "starting"
  /\ UNCHANGED <<stopping, conn, registry, counts, auth, now, issued, known, unlinked>>

\* The server listens; BridgeManager issues the IDE's token in the same turn.
Listening ==
  /\ server = "starting" /\ CanIssue
  /\ server' = "running"
  /\ auth' = IssueToken(auth, "ide", NextToken, now)
  /\ issued' = Append(issued, "ide")
  /\ known' = known \cup {NextToken}
  /\ UNCHANGED <<stopping, conn, registry, counts, now, unlinked>>

ListenFails ==
  /\ server = "starting"
  /\ server' = "idle"
  /\ UNCHANGED <<stopping, conn, registry, counts, auth, now, issued, known, unlinked>>

Stop ==
  /\ server \in {"starting", "running"} /\ ~ stopping
  /\ stopping' = TRUE
  /\ UNCHANGED <<server, conn, registry, counts, auth, now, issued, known, unlinked>>

\* Mutant: stop waits for the clients to leave by themselves.
StopBodyLeavesSockets ==
  /\ stopping /\ server # "starting"
  /\ stopping' = FALSE
  /\ server' = IF server = "running" THEN "closing" ELSE server
  /\ registry' = [c \in Conns |-> NotRegistered]
  /\ counts' = [role \in ClientRole |-> 0]
  /\ auth' = RevokeAll(auth)
  /\ UNCHANGED <<conn, now, issued, known, unlinked>>

\* The body of stop(), once a pending start has settled.
StopBody ==
  /\ stopping /\ server # "starting"
  /\ stopping' = FALSE
  /\ server' = IF server = "running" THEN "closing" ELSE server
  /\ registry' = [c \in Conns |-> NotRegistered]
  /\ counts' = [role \in ClientRole |-> 0]
  /\ auth' = RevokeAll(auth)
  /\ conn' = [c \in Conns |->
                [conn[c] EXCEPT
                   !.timer = FALSE,
                   !.socket = IF @ = "open" THEN "closing" ELSE @]]
  /\ UNCHANGED <<now, issued, known, unlinked>>

\* Mutant: the manager trusts the server to have revoked every token.
ServerClosedOnly ==
  /\ server = "closing"
  /\ \A c \in Conns : conn[c].socket = "none"
  /\ server' = "stopped"
  /\ UNCHANGED <<stopping, conn, registry, counts, auth, now, issued, known, unlinked>>

\* The last socket is gone, stop() resolves and BridgeManager revokes again.
ServerClosed ==
  /\ server = "closing"
  /\ \A c \in Conns : conn[c].socket = "none"
  /\ server' = "stopped"
  /\ auth' = RevokeAll(auth)
  /\ UNCHANGED <<stopping, conn, registry, counts, now, issued, known, unlinked>>

-----------------------------------------------------------------------------
(* Sockets *)

Connect(c) ==
  /\ server = "running" /\ conn[c].socket = "none"
  /\ conn' = [conn EXCEPT ![c] = [NoConnection EXCEPT !.socket = "open", !.timer = TRUE]]
  /\ UNCHANGED <<server, stopping, registry, counts, auth, now, issued, known, unlinked>>

\* A message that reaches the part of the handler behind "if (closing) return".
Receives(c) == conn[c].socket # "none" /\ ~ conn[c].closing

\* closeConnection
Close(connection) ==
  [connection EXCEPT !.closing = TRUE, !.timer = FALSE, !.socket = "closing"]

CloseConnection(c) == conn' = [conn EXCEPT ![c] = Close(@)]

\* Mutant: an accepted link ends the handshake timer, as hello does.
LinkRequestClearsTimer(c, right) ==
  /\ Receives(c) /\ CanIssue
  /\ ~ conn[c].linkAttempted /\ conn[c].token = NoToken
  /\ LET attempt == AttemptLink(auth, right, "browser", NextToken, now) IN
       /\ attempt.answer = "accepted"
       /\ auth' = attempt.auth
       /\ conn' = [conn EXCEPT ![c] = [@ EXCEPT !.linkAttempted = TRUE, !.timer = FALSE]]
       /\ issued' = Append(issued, "browser")
       /\ known' = known \cup {NextToken}
  /\ UNCHANGED <<server, stopping, registry, counts, now, unlinked>>

LinkRequest(c, right) ==
  /\ Receives(c) /\ CanIssue
  /\ LET attempt == AttemptLink(auth, right, "browser", NextToken, now) IN
     IF conn[c].linkAttempted \/ conn[c].token # NoToken
       THEN /\ CloseConnection(c)
            /\ UNCHANGED <<auth, issued, known>>
       ELSE /\ auth' = attempt.auth
            /\ IF attempt.answer = "accepted"
                 THEN /\ conn' = [conn EXCEPT ![c].linkAttempted = TRUE]
                      /\ issued' = Append(issued, "browser")
                      /\ known' = IF conn[c].socket = "open"
                                    THEN known \cup {NextToken} ELSE known
                 ELSE /\ conn' = [conn EXCEPT ![c] = [Close(@) EXCEPT !.linkAttempted = TRUE]]
                      /\ UNCHANGED <<issued, known>>
  /\ UNCHANGED <<server, stopping, registry, counts, now, unlinked>>

\* Mutant: hello leaves the handshake timer running.
HelloKeepsTimer(c, token, role) ==
  /\ Receives(c) /\ conn[c].token = NoToken
  /\ auth' = PruneExpiredTokens(auth, now)
  /\ IF Accepts(auth, role, token, now)
       THEN /\ conn' = [conn EXCEPT ![c] = [@ EXCEPT !.token = token, !.role = role]]
            /\ registry' = [registry EXCEPT ![c] = 0]
            /\ counts' = CountByRole(registry', conn')
       ELSE /\ CloseConnection(c)
            /\ UNCHANGED <<registry, counts>>
  /\ UNCHANGED <<server, stopping, now, issued, known, unlinked>>

\* hello with a token the client was given, for the right or the wrong role.
Hello(c, token, role) ==
  /\ Receives(c) /\ conn[c].token = NoToken
  /\ auth' = PruneExpiredTokens(auth, now)
  /\ IF Accepts(auth, role, token, now)
       THEN /\ conn' = [conn EXCEPT ![c] = [@ EXCEPT !.timer = FALSE, !.token = token,
                                                     !.role = role]]
            /\ registry' = [registry EXCEPT ![c] = 0]
            /\ counts' = CountByRole(registry', conn')
       ELSE /\ CloseConnection(c)
            /\ UNCHANGED <<registry, counts>>
  /\ UNCHANGED <<server, stopping, now, issued, known, unlinked>>

\* Every other message that closes the connection: malformed, out of order, not
\* allowed for the role, a second hello, another bridge's instance.  A
\* registration stays until the close event.
BadMessage(c) ==
  /\ Receives(c)
  /\ CloseConnection(c)
  /\ UNCHANGED <<server, stopping, registry, counts, auth, now, issued, known, unlinked>>

\* Mutant: unlink only disconnects.
UnlinkKeepsToken(c) ==
  /\ Receives(c) /\ conn[c].token # NoToken
  /\ registry' = [registry EXCEPT ![c] = NotRegistered]
  /\ unlinked' = unlinked \cup {conn[c].token}
  /\ conn' = [conn EXCEPT ![c] = [Close(@) EXCEPT !.token = NoToken]]
  /\ counts' = CountByRole(registry', conn)
  /\ UNCHANGED <<server, stopping, auth, now, issued, known>>

Unlink(c) ==
  /\ Receives(c) /\ conn[c].token # NoToken
  /\ registry' = [registry EXCEPT ![c] = NotRegistered]
  /\ auth' = RevokeToken(auth, conn[c].token)
  /\ unlinked' = unlinked \cup {conn[c].token}
  /\ conn' = [conn EXCEPT ![c] = [Close(@) EXCEPT !.token = NoToken]]
  /\ counts' = IF c \in Registered THEN CountByRole(registry', conn) ELSE counts
  /\ UNCHANGED <<server, stopping, now, issued, known>>

Pong(c) ==
  /\ Receives(c) /\ conn[c].token # NoToken
  /\ registry' = [registry EXCEPT ![c] = IF @ = NotRegistered THEN @ ELSE 0]
  /\ UNCHANGED <<server, stopping, conn, counts, auth, now, issued, known, unlinked>>

\* The socket's error event, or a send to it that fails: terminate().
SocketFails(c) ==
  /\ conn[c].socket = "open"
  /\ conn' = [conn EXCEPT ![c].socket = "closing"]
  /\ UNCHANGED <<server, stopping, registry, counts, auth, now, issued, known, unlinked>>

\* Mutant: the close event leaves the registration to the heartbeat.
SocketClosesQuietly(c) ==
  /\ conn[c].socket # "none"
  /\ conn' = [conn EXCEPT ![c] = NoConnection]
  /\ UNCHANGED <<server, stopping, registry, counts, auth, now, issued, known, unlinked>>

\* The close event: the closure lets its registration go.
SocketCloses(c) ==
  /\ conn[c].socket # "none"
  /\ conn' = [conn EXCEPT ![c] = NoConnection]
  /\ registry' = [registry EXCEPT ![c] = NotRegistered]
  /\ counts' = IF c \in Registered THEN CountByRole(registry', conn) ELSE counts
  /\ UNCHANGED <<server, stopping, auth, now, issued, known, unlinked>>

HandshakeTimeout(c) ==
  /\ conn[c].timer
  /\ conn' = [conn EXCEPT ![c] = [@ EXCEPT !.timer = FALSE, !.socket = "closing"]]
  /\ UNCHANGED <<server, stopping, registry, counts, auth, now, issued, known, unlinked>>

-----------------------------------------------------------------------------
(* Timers *)

Evicted == {c \in Registered : registry[c] >= 2}

\* Mutant: the evicted clients are not announced.
HeartbeatIsSilent ==
  /\ server = "running" /\ Registered # {}
  /\ registry' = [c \in Conns |->
                    CASE c \in Evicted -> NotRegistered
                      [] c \in Registered \ Evicted -> registry[c] + 1
                      [] c \notin Registered -> NotRegistered]
  /\ conn' = [c \in Conns |->
                IF c \in Evicted THEN [conn[c] EXCEPT !.socket = "closing"] ELSE conn[c]]
  /\ UNCHANGED <<server, stopping, counts, auth, now, issued, known, unlinked>>

\* Mutant: a ping counts as missed only when the previous one was answered.
HeartbeatNeverEvicts ==
  /\ server = "running" /\ Registered # {}
  /\ registry' = [c \in Conns |-> IF registry[c] = 0 THEN 1 ELSE registry[c]]
  /\ UNCHANGED <<server, stopping, conn, counts, auth, now, issued, known, unlinked>>

\* One tick of the heartbeat over registry.all().
Heartbeat ==
  /\ server = "running" /\ Registered # {}
  /\ registry' = [c \in Conns |->
                    CASE c \in Evicted -> NotRegistered
                      [] c \in Registered \ Evicted -> registry[c] + 1
                      [] c \notin Registered -> NotRegistered]
  /\ conn' = [c \in Conns |->
                IF c \in Evicted THEN [conn[c] EXCEPT !.socket = "closing"] ELSE conn[c]]
  /\ counts' = IF Evicted # {} THEN CountByRole(registry', conn) ELSE counts
  /\ UNCHANGED <<server, stopping, auth, now, issued, known, unlinked>>

Tick ==
  /\ now < MaxTime
  /\ now' = now + 1
  /\ UNCHANGED <<server, stopping, conn, registry, counts, auth, issued, known, unlinked>>

-----------------------------------------------------------------------------

Message(c) ==
  \/ \E right \in BOOLEAN : LinkRequest(c, right)
  \/ \E token \in known, role \in ClientRole : Hello(c, token, role)
  \/ BadMessage(c)
  \/ Unlink(c)
  \/ Pong(c)

SocketEvent(c) ==
  Connect(c) \/ SocketFails(c) \/ SocketCloses(c) \/ HandshakeTimeout(c)

\* The rest of a stop() that need not wait runs before any other event.
StopPending == stopping /\ server # "starting"

Next ==
  \/ StopBody
  \/ /\ ~ StopPending
     /\ \/ Start \/ Listening \/ ListenFails \/ Stop \/ ServerClosed
        \/ \E c \in Conns : Message(c) \/ SocketEvent(c)
        \/ Heartbeat
        \/ Tick

Spec == Init /\ [][Next]_vars

\* Timers fire; the close event of a socket that was closed or destroyed comes
\* (the ws library destroys a socket whose peer does not answer the close).
Fairness ==
  /\ WF_vars(StopBody)
  /\ WF_vars(~ StopPending /\ Heartbeat)
  /\ \A c \in Conns :
       /\ WF_vars(~ StopPending /\ HandshakeTimeout(c))
       /\ WF_vars(~ StopPending /\ conn[c].socket = "closing" /\ SocketCloses(c))
  /\ WF_vars(~ StopPending /\ ServerClosed)

FairSpec == Spec /\ Fairness

-----------------------------------------------------------------------------
(* Properties *)

\* The client counts that the status bar shows are those of the registry after
\* every handler: no path that adds, evicts, unlinks or clears forgets to
\* announce it (notifyClientCounts).
CountsAreCurrent == counts = CountByRole(registry, conn)

\* Nobody is routed to, pinged or counted whose connection has gone: an entry
\* of the registry belongs to a socket whose close event is still to come and
\* whose handler holds the registration, and that no handshake timer is about
\* to terminate.
NoGhostClients ==
  \A c \in Registered :
    conn[c].socket # "none" /\ conn[c].token # NoToken /\ ~ conn[c].timer

\* Stopping is final: from the moment stop() runs, frames that were already
\* received register nobody, and once it has resolved no token is honoured
\* ("Stopping the bridge revokes every token for that instance").
StoppedServesNobody ==
  /\ server \in {"closing", "stopped"} => Registered = {}
  /\ server = "stopped" => auth.tokens = {}

\* To its clients the bridge is what BridgePromise describes: a connection is a
\* registered client only with a token that is honoured for its role at that
\* moment; a token that expired, was evicted, unlinked or revoked is never
\* honoured again; unlink takes the registration and the token in one step; a
\* new link never costs the IDE its token; and stop takes everything at once,
\* whatever frames are still under way (handleConnection, LinkAuthenticator).
Credential(token) == [token |-> token, role |-> issued[token]]

Phase ==
  IF server \in {"idle", "starting"} THEN "new"
  ELSE IF server = "running" THEN "open" ELSE "over"

Granted == {Credential(token) : token \in known}

HonouredNow ==
  {Credential(token) :
     token \in {t \in known : Accepts(auth, issued[t], t, now)}}

Returned == {Credential(token) : token \in unlinked}

Nobody == [token |-> NoToken, role |-> "browser"]

Member(c) ==
  IF c \in Registered THEN [token |-> conn[c].token, role |-> conn[c].role] ELSE Nobody

Members == [c \in Conns |-> Member(c)]

Promise ==
  INSTANCE BridgePromise WITH
    Clients <- Conns,
    Credentials <- [token : 1 .. MaxTokens, role : ClientRole],
    phase <- Phase,
    granted <- Granted,
    honoured <- HonouredNow,
    returned <- Returned,
    member <- Members

ImplementsBridgePromise == Promise!PromiseSpec

\* "Unauthenticated connections have ten seconds to complete the handshake": a
\* socket registers or goes, whatever its client sends or leaves out.
HandshakeEnds ==
  \A c \in Conns :
    conn[c].socket = "open" ~> (c \in Registered \/ conn[c].socket = "none")

\* A client that stops answering pings leaves the registry.
SilentClientLeaves ==
  \A c \in Conns : (<>[][~ Pong(c)]_vars) => []<>(c \notin Registered)

\* A requested stop completes, unless the server never finishes starting.
StopCompletes == (server = "running" /\ stopping) ~> server = "stopped"

=============================================================================
