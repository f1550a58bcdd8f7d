------------------------- MODULE WindowCoordinator -------------------------
(***************************************************************************)
(* The WindowConnectionCoordinator of the extension's background: the      *)
(* record of ONE browser window, the promise chain that serialises its     *)
(* storage operations, and the BrowserBridgeClient whose socket its panels *)
(* share.                                                                  *)
(*                                                                         *)
(* JavaScript runs each handler to completion, so an action is one         *)
(* callback: everything between two awaits.  A callback that outlives the  *)
(* state it was created in carries "live": its captured generation (and    *)
(* token, for a save) is still the record's.  A generation only grows, so  *)
(* "record.generation === generation" is false for ever once it has been   *)
(* invalidated; the flag carries exactly that and keeps the model finite.  *)
(***************************************************************************)
EXTENDS Naturals, Sequences, FiniteSets

CONSTANTS
  Panels,       \* DevTools panels of the window (a source and its tab)
  Links,        \* credentials a bridge may grant
  NoLink,
  MaxAttempts,  \* RECONNECT_MAX_ATTEMPTS
  MaxQueue,     \* bound on the storage operations a user step may pile up
  Faults        \* which of PossibleFaults may happen

PossibleFaults == {"store", "open", "send", "abort", "restart"}

ASSUME ConstantsAssumption ==
  /\ NoLink \notin Links
  /\ MaxAttempts \in Nat \ {0}
  /\ MaxQueue \in Nat \ {0}
  /\ Faults \subseteq PossibleFaults

VARIABLES
  w,          \* the WindowRecord and the window's storage queue
  store,      \* browser session storage for this window
  granted,    \* the tokens the bridge still honours
  forgotten,  \* history: the links the user or the bridge had this window drop
  disposed,   \* WindowConnectionCoordinator.disposed
  survived    \* history: the removal of what storage holds failed, was called
              \* off or was lost

vars == <<w, store, granted, forgotten, disposed, survived>>

-----------------------------------------------------------------------------
(* Types *)

MaybeLink == Links \cup {NoLink}

ConnectionState ==
  {"notLinked", "linking", "linked", "reconnecting", "offline", "rateLimited",
   "error"}

\* A client: where its socket is ("absent": record.client is undefined;
\* "idle": a client without a socket), and which credentials it uses: "link"
\* while it only has a PIN, "fresh" once the bridge granted credentials that it
\* has not authenticated with, "stored" when a lost socket may be retried.
SocketPhase == {"opening", "requested", "greeted", "ready", "failed"}

Client ==
  [phase : SocketPhase \cup {"absent", "idle"},
   mode  : {"none", "link", "fresh", "stored"},
   cred  : MaybeLink,
   live  : BOOLEAN]

NoClient == [phase |-> "absent", mode |-> "none", cred |-> NoLink, live |-> FALSE]

\* A queued storage operation with the continuation that waits for it.
OpKind == {"link", "unlink", "remove", "reject", "load", "save"}

StoreOp == [kind : OpKind, live : BOOLEAN, aborted : BOOLEAN, link : MaybeLink]

Op(kind, live, link) ==
  [kind |-> kind, live |-> live, aborted |-> FALSE, link |-> link]

Pending == [kind : {"none", "code", "credentials"}, link : MaybeLink]

NoPending == [kind |-> "none", link |-> NoLink]

WindowRecord ==
  [present   : BOOLEAN,            \* the record is in the coordinator's map
   panels    : SUBSET Panels,
   state     : ConnectionState,
   client    : Client,
   connected : BOOLEAN,
   link      : MaybeLink,
   pending   : Pending,
   writing   : BOOLEAN,            \* credentialsWritePending
   timer     : {"none", "armed", "stale"},
   attempts  : 0..MaxAttempts,
   orphans   : Nat,                \* clients replaced while their socket lives
   queue     : Seq(StoreOp),
   head      : {"waiting", "running", "done", "failed"}]  \* of Head(queue)

TypeOK ==
  /\ w \in WindowRecord
  /\ store \in MaybeLink
  /\ granted \subseteq Links
  /\ forgotten \subseteq Links
  /\ disposed \in BOOLEAN
  /\ survived \in BOOLEAN

\* A record that recordFor creates; the queue belongs to the coordinator and
\* outlives the records.
FreshRecord(q, head) ==
  [present |-> TRUE, panels |-> {}, state |-> "notLinked",
   client |-> NoClient, connected |-> FALSE, link |-> NoLink,
   pending |-> NoPending, writing |-> FALSE, timer |-> "none",
   attempts |-> 0, orphans |-> 0, queue |-> q, head |-> head]

Init ==
  /\ w = [FreshRecord(<< >>, "waiting") EXCEPT !.present = FALSE]
  /\ store \in MaybeLink
  /\ granted = {store} \ {NoLink}
  /\ forgotten = {}
  /\ disposed = FALSE
  /\ survived = FALSE

-----------------------------------------------------------------------------
(* The coordinator's private methods, on the record *)

SetState(r, s) == [r EXCEPT !.state = s]

RecordFor(r) == [r EXCEPT !.present = TRUE]

Enqueue(r, op) == [r EXCEPT !.queue = Append(@, op)]

Outdated(q) == [i \in DOMAIN q |-> [q[i] EXCEPT !.live = FALSE]]

\* "++record.generation": no continuation created so far is current any more.
BumpGeneration(r) ==
  [r EXCEPT !.queue = Outdated(@), !.client = [@ EXCEPT !.live = FALSE]]

\* Mutant: the generation is not bumped.
InvalidateTimerOnly(r) == [r EXCEPT !.timer = "none"]

\* Mutant: the reconnect timer is not cancelled.
InvalidateKeepsTimer(r) == BumpGeneration(r)

Invalidate(r) == [BumpGeneration(r) EXCEPT !.timer = "none"]

WithoutToken(q) ==
  [i \in DOMAIN q |->
     IF q[i].kind = "save" THEN [q[i] EXCEPT !.live = FALSE] ELSE q[i]]

\* disconnectClient, and revokeClient on the record's side: the socket is
\* detached and closed before the handler returns, the token is gone.
DropClient(r) ==
  [r EXCEPT !.client = NoClient, !.connected = FALSE,
            !.queue = WithoutToken(@),
            !.timer = IF @ = "armed" THEN "stale" ELSE @]

\* revokeClient on the bridge's side: client.unlink() sends the unlink message
\* only over an authenticated socket.
TokensAfterRevoke(r) ==
  IF r.client.phase = "ready" THEN granted \ {r.client.cred} ELSE granted

HasSocket(r) == r.client.phase \in SocketPhase

\* The client reports "connecting" or "linking".
OnConnecting(r) ==
  IF r.state = "reconnecting" THEN r ELSE SetState(r, "linking")

OpenOutcomes ==
  IF "open" \in Faults THEN {"opens", "createThrows", "startThrows"} ELSE {"opens"}

\* openClient by a caller whose generation is current.
OpenClient(r, mode, cred, outcome) ==
  CASE outcome = "createThrows" ->
         [r EXCEPT !.connected = FALSE, !.state = "error"]
    [] outcome = "startThrows" -> SetState(DropClient(OnConnecting(r)), "error")
    [] outcome = "opens" ->
         OnConnecting(
           [r EXCEPT !.orphans = @ + (IF HasSocket(r) THEN 1 ELSE 0),
                     !.client = [phase |-> "opening", mode |-> mode,
                                 cred |-> cred, live |-> TRUE],
                     !.connected = FALSE])

StopStoredReconnect(r) ==
  [DropClient(Invalidate(r)) EXCEPT
     !.pending = NoPending, !.writing = FALSE, !.attempts = 0, !.state = "offline"]

StopTerminalAttempt(r, s) ==
  [DropClient(Invalidate(r)) EXCEPT
     !.pending = NoPending, !.writing = FALSE, !.attempts = 0, !.state = s]

CanScheduleReconnect(r) ==
  /\ r.timer = "none"
  /\ r.panels # {}
  /\ r.link # NoLink
  /\ r.client.phase # "absent"
  /\ r.client.live

\* Mutant: attempts are not counted.
ScheduleReconnectForEver(r) ==
  IF CanScheduleReconnect(r)
    THEN [r EXCEPT !.state = "reconnecting", !.timer = "armed"] ELSE r

ScheduleReconnect(r) ==
  CASE ~ CanScheduleReconnect(r) -> r
    [] CanScheduleReconnect(r) /\ r.attempts >= MaxAttempts -> StopStoredReconnect(r)
    [] CanScheduleReconnect(r) /\ r.attempts < MaxAttempts ->
         [r EXCEPT !.state = "reconnecting", !.attempts = @ + 1, !.timer = "armed"]

\* Mutant: the link stays in memory while its removal is queued.
RejectAuthenticationKeepsLink(r) ==
  Enqueue(
    [DropClient(Invalidate(r)) EXCEPT
       !.pending = NoPending, !.writing = FALSE, !.attempts = 0, !.state = "offline"],
    Op("reject", TRUE, NoLink))

RejectAuthentication(r) ==
  Enqueue(
    [DropClient(Invalidate(r)) EXCEPT
       !.link = NoLink, !.pending = NoPending, !.writing = FALSE,
       !.attempts = 0, !.state = "offline"],
    Op("reject", TRUE, NoLink))

\* Mutant: the old client is not revoked.
ForgetLinkKeepsClient(r, s) ==
  [Invalidate(r) EXCEPT
     !.link = NoLink, !.pending = NoPending, !.writing = FALSE,
     !.attempts = 0, !.state = s]

\* What linkWindow, unlinkWindow, removeWindow and cancelWindowOperation share.
ForgetLink(r, s) ==
  [DropClient(Invalidate(r)) EXCEPT
     !.link = NoLink, !.pending = NoPending, !.writing = FALSE,
     !.attempts = 0, !.state = s]

\* Every link this window could still come back to.
Mentioned ==
  ({w.link, w.pending.link, w.client.cred, store}
     \cup {w.queue[i].link : i \in DOMAIN w.queue}) \ {NoLink}

QueueHasRoom == Len(w.queue) < MaxQueue

-----------------------------------------------------------------------------
(* Commands from the panels and the browser *)

LinkWindow ==
  /\ ~ disposed /\ QueueHasRoom
  /\ w' = Enqueue(ForgetLink(RecordFor(w), "linking"), Op("link", TRUE, NoLink))
  /\ granted' = TokensAfterRevoke(w)
  /\ UNCHANGED <<store, forgotten, disposed, survived>>

\* Mutant: the mapping is dropped from memory only.
UnlinkWindowInMemory ==
  /\ ~ disposed /\ QueueHasRoom
  /\ w' = IF w.present THEN ForgetLink(w, "notLinked") ELSE w
  /\ granted' = TokensAfterRevoke(w)
  /\ forgotten' = forgotten \cup Mentioned
  /\ UNCHANGED <<store, disposed, survived>>

UnlinkWindow ==
  /\ ~ disposed /\ QueueHasRoom
  /\ w' = IF w.present
            THEN Enqueue(ForgetLink(w, "notLinked"), Op("unlink", TRUE, NoLink))
            ELSE Enqueue(w, Op("unlink", FALSE, NoLink))
  /\ granted' = TokensAfterRevoke(w)
  /\ forgotten' = forgotten \cup Mentioned
  /\ UNCHANGED <<store, disposed, survived>>

\* Mutant: the abort rejects the command's promise and leaves the window alone.
AbortCommandRejectsOnly(i) ==
  /\ "abort" \in Faults
  /\ w.queue[i].kind \in {"link", "unlink"}
  /\ ~ w.queue[i].aborted
  /\ w' = [w EXCEPT !.queue[i].aborted = TRUE]
  /\ UNCHANGED <<store, granted, forgotten, disposed, survived>>

\* The panel's port closes: its command's signal aborts, once, while the
\* command still waits for storage.
AbortCommand(i) ==
  /\ "abort" \in Faults
  /\ w.queue[i].kind \in {"link", "unlink"}
  /\ ~ w.queue[i].aborted
  /\ LET r == [w EXCEPT !.queue[i].aborted = TRUE]
     IN  IF w.queue[i].live
           THEN /\ w' = ForgetLink(r, "notLinked")
                /\ granted' = TokensAfterRevoke(w)
           ELSE /\ w' = r
                /\ UNCHANGED granted
  /\ UNCHANGED <<store, forgotten, disposed, survived>>

ActivateFirstPanel(r, outcome) ==
  CASE r.client.phase # "absent" ->
         IF r.state \notin {"linked", "linking", "reconnecting"}
           THEN ScheduleReconnect(r) ELSE r
    [] r.client.phase = "absent" /\ r.pending.kind = "code" ->
         OpenClient(SetState(r, "linking"), "link", NoLink, outcome)
    [] r.client.phase = "absent" /\ r.pending.kind = "credentials" ->
         OpenClient(SetState(r, "linking"), "stored", r.pending.link, outcome)
    [] r.client.phase = "absent" /\ r.pending.kind = "none" /\ r.link # NoLink ->
         OpenClient(SetState(BumpGeneration(r), "linking"), "stored", r.link, outcome)
    [] r.client.phase = "absent" /\ r.pending.kind = "none" /\ r.link = NoLink ->
         IF r.state = "linking"
           THEN r
           ELSE Enqueue(BumpGeneration(r), Op("load", TRUE, NoLink))

RegisterPanel(p) ==
  /\ ~ disposed /\ QueueHasRoom
  /\ p \notin w.panels
  /\ LET r == [RecordFor(w) EXCEPT !.panels = @ \cup {p}]
     IN  IF w.panels = {}
           THEN \E outcome \in OpenOutcomes : w' = ActivateFirstPanel(r, outcome)
           ELSE w' = r
  /\ UNCHANGED <<store, granted, forgotten, disposed, survived>>

\* Mutant: any closing panel invalidates, not only the last one.
DisposeRegistrationInvalidates(p) ==
  /\ p \in w.panels
  /\ LET r == Invalidate([w EXCEPT !.panels = @ \ {p}])
         closed == [DropClient(r) EXCEPT !.attempts = 0]
     IN  w' = IF r.panels # {}
                THEN r
                ELSE IF r.link # NoLink
                       THEN SetState(closed, "offline")
                       ELSE [closed EXCEPT !.pending = NoPending, !.writing = FALSE,
                                           !.state = "notLinked"]
  /\ UNCHANGED <<store, granted, forgotten, disposed, survived>>

DisposeRegistration(p) ==
  /\ p \in w.panels
  /\ LET r == [w EXCEPT !.panels = @ \ {p}]
         closed == [DropClient(Invalidate(r)) EXCEPT !.attempts = 0]
     IN  w' = IF r.panels # {}
                THEN r
                ELSE IF r.link # NoLink
                       THEN SetState(closed, "offline")
                       ELSE [closed EXCEPT !.pending = NoPending, !.writing = FALSE,
                                           !.state = "notLinked"]
  /\ UNCHANGED <<store, granted, forgotten, disposed, survived>>

\* client.sendInspect throws inside publishInspect.
PublishThrows ==
  /\ "send" \in Faults
  /\ ~ disposed
  /\ w.state = "linked" /\ w.connected /\ w.client.phase # "absent" /\ w.panels # {}
  /\ w' = SetState(w, "error")
  /\ UNCHANGED <<store, granted, forgotten, disposed, survived>>

RemoveWindow ==
  /\ QueueHasRoom
  /\ LET r == ForgetLink(w, "notLinked")
     IN  w' = Enqueue([FreshRecord(r.queue, r.head) EXCEPT !.present = FALSE,
                                                          !.orphans = r.orphans],
                      Op("remove", FALSE, NoLink))
  /\ granted' = TokensAfterRevoke(w)
  /\ forgotten' = forgotten \cup Mentioned
  /\ UNCHANGED <<store, disposed, survived>>

\* dispose(): records.clear() leaves only the queue; a save that is not known to
\* have landed is followed by a removal.
DisposeCoordinator ==
  /\ ~ disposed
  /\ disposed' = TRUE
  /\ LET r == DropClient(Invalidate(w))
         cleared == [FreshRecord(r.queue, r.head) EXCEPT !.present = FALSE,
                                                         !.orphans = r.orphans]
     IN  w' = IF w.writing /\ w.link = NoLink
                THEN Enqueue(cleared, Op("remove", FALSE, NoLink))
                ELSE cleared
  /\ UNCHANGED <<store, granted, forgotten, survived>>

Removes(op) == op.kind \notin {"load", "save"}

\* The browser stops and later restarts the background worker: memory, sockets
\* and queued operations are gone, session storage is not.
Restart ==
  /\ "restart" \in Faults
  /\ w' = [FreshRecord(<< >>, "waiting") EXCEPT !.present = FALSE]
  /\ disposed' = FALSE
  /\ survived' = (survived \/ \E i \in DOMAIN w.queue : Removes(w.queue[i]))
  /\ UNCHANGED <<store, granted, forgotten>>

-----------------------------------------------------------------------------
(* The storage queue *)

HeadOp == Head(w.queue)

Dequeue(r) == [r EXCEPT !.queue = Tail(@), !.head = "waiting"]

\* The operation decides, when its turn comes, that it must not run.
StoreSkips(op) ==
  \/ op.kind \in {"link", "unlink"} /\ op.aborted
  \/ op.kind = "save" /\ ~ op.live

StoreStart ==
  /\ w.queue # << >> /\ w.head = "waiting"
  /\ w' = IF StoreSkips(HeadOp) THEN Dequeue(w) ELSE [w EXCEPT !.head = "running"]
  /\ survived' = (survived \/ (StoreSkips(HeadOp) /\ Removes(HeadOp)))
  /\ UNCHANGED <<store, granted, forgotten, disposed>>

\* Session storage performs the operation.
StoreApply ==
  /\ w.queue # << >> /\ w.head = "running"
  /\ store' = CASE HeadOp.kind = "load" -> store
                [] HeadOp.kind = "save" -> HeadOp.link
                [] HeadOp.kind \notin {"load", "save"} -> NoLink
  /\ w' = IF HeadOp.kind = "load"
            THEN [w EXCEPT !.head = "done", !.queue[1].link = store]
            ELSE [w EXCEPT !.head = "done"]
  /\ survived' = (survived /\ HeadOp.kind = "load")
  /\ UNCHANGED <<granted, forgotten, disposed>>

StoreFails ==
  /\ "store" \in Faults
  /\ w.queue # << >> /\ w.head = "running"
  /\ w' = [w EXCEPT !.head = "failed"]
  /\ survived' = (survived \/ Removes(HeadOp))
  /\ UNCHANGED <<store, granted, forgotten, disposed>>

\* The rest of linkWindow.
LinkCleared(r, outcome) ==
  LET next == [r EXCEPT !.pending = [kind |-> "code", link |-> NoLink]]
  IN  IF r.panels = {} THEN next ELSE OpenClient(next, "link", NoLink, outcome)

\* The rest of loadStoredLink.
LinkLoaded(r, link, outcome) ==
  CASE r.panels = {} -> r
    [] r.panels # {} /\ link = NoLink -> SetState(r, "notLinked")
    [] r.panels # {} /\ link # NoLink ->
         OpenClient([r EXCEPT !.link = link, !.state = "linking"], "stored", link, outcome)

\* The rest of persistCredentials.
CredentialsSaved(r, link) ==
  LET saved == [r EXCEPT !.writing = FALSE, !.link = link, !.pending = NoPending]
  IN  CASE saved.connected -> SetState(saved, "linked")
        [] ~ saved.connected /\ saved.panels # {} -> ScheduleReconnect(saved)
        [] ~ saved.connected /\ saved.panels = {} -> saved

CredentialsLost(r) ==
  Enqueue(
    SetState(DropClient([r EXCEPT !.writing = FALSE, !.pending = NoPending]), "error"),
    Op("remove", FALSE, NoLink))

\* The operation's promise settles: the continuation runs if it is current.
StoreSettles ==
  /\ w.queue # << >> /\ w.head \in {"done", "failed"}
  /\ LET op == HeadOp
         r  == Dequeue(w)
     IN  CASE ~ op.live \/ op.aborted -> w' = r
           [] op.live /\ ~ op.aborted /\ w.head = "failed" ->
                w' = IF op.kind = "save" THEN CredentialsLost(r) ELSE SetState(r, "error")
           [] op.live /\ ~ op.aborted /\ w.head = "done" ->
                \E outcome \in OpenOutcomes :
                  w' = CASE op.kind = "link" -> LinkCleared(r, outcome)
                         [] op.kind = "load" -> LinkLoaded(r, op.link, outcome)
                         [] op.kind = "save" -> CredentialsSaved(r, op.link)
                         [] op.kind \notin {"link", "load", "save"} -> r
  /\ UNCHANGED <<store, granted, forgotten, disposed, survived>>

-----------------------------------------------------------------------------
(* The client's socket.  A callback of a client whose generation is not the
   record's changes the client only. *)

Phase(r, phase) == [r EXCEPT !.client = [@ EXCEPT !.phase = phase]]

\* "open": a PIN is sent as linkRequest, saved credentials as hello.
SocketOpens ==
  /\ w.client.phase = "opening"
  /\ w' = IF w.client.mode = "link"
            THEN LET r == Phase(w, "requested")
                 IN  IF w.client.live THEN OnConnecting(r) ELSE r
            ELSE Phase(w, "greeted")
  /\ UNCHANGED <<store, granted, forgotten, disposed, survived>>

\* linkAccepted: a token that was never seen before; hello is sent with it.
LinkAccepted(l) ==
  /\ w.client.phase = "requested"
  /\ l \in Links \ Mentioned
  /\ w' = [w EXCEPT !.client = [@ EXCEPT !.phase = "greeted", !.mode = "fresh",
                                         !.cred = l]]
  /\ granted' = granted \cup {l}
  /\ forgotten' = forgotten \ {l}
  /\ UNCHANGED <<store, disposed, survived>>

\* An error answers the linkRequest: stopForProtocolError, then the
\* coordinator's handlers for "error" and for the code.
LinkRefused(s) ==
  /\ w.client.phase = "requested"
  /\ w' = IF w.client.live
            THEN StopTerminalAttempt(w, s)
            ELSE Phase(w, "idle")
  /\ UNCHANGED <<store, granted, forgotten, disposed, survived>>

\* persistCredentials up to its await.
PersistCredentials(r, link) ==
  IF r.writing \/ r.pending.kind # "code"
    THEN r
    ELSE Enqueue(
           [r EXCEPT !.pending = [kind |-> "credentials", link |-> link],
                     !.writing = TRUE],
           Op("save", TRUE, link))

\* Mutant: "linked" is announced before the credentials are durable.
OnConnectedEarly(r) ==
  [r EXCEPT !.connected = TRUE, !.attempts = 0, !.timer = "none",
            !.state = IF r.link # NoLink \/ r.pending.kind = "credentials"
                        THEN "linked" ELSE @]

OnConnected(r) ==
  [r EXCEPT !.connected = TRUE, !.attempts = 0, !.timer = "none",
            !.state = IF r.link # NoLink /\ ~ r.writing THEN "linked" ELSE @]

\* authenticated: onCredentials first when the credentials are new, then the
\* state "connected".
Authenticated ==
  /\ w.client.phase = "greeted"
  /\ w.client.cred \in granted
  /\ LET r == [w EXCEPT !.client = [@ EXCEPT !.phase = "ready", !.mode = "stored"]]
         told == IF w.client.mode = "fresh" THEN PersistCredentials(r, w.client.cred)
                                            ELSE r
     IN  w' = IF w.client.live THEN OnConnected(told) ELSE r
  /\ UNCHANGED <<store, granted, forgotten, disposed, survived>>

\* auth.tokenRejected or auth.instanceChanged answers the hello.
AuthenticationRefused ==
  /\ w.client.phase = "greeted"
  /\ w.client.cred \notin granted
  /\ w' = IF w.client.live THEN RejectAuthentication(w) ELSE Phase(w, "idle")
  /\ forgotten' = forgotten \cup ({w.client.cred} \cap Links)
  /\ UNCHANGED <<store, granted, disposed, survived>>

\* The socket's error event, or a fatal error of the bridge once linked: the
\* client is in state "error" until the close event that follows.  A message
\* that is invalid or that no step of the client waits for is left out: this
\* repository's bridge sends none.
SocketFails ==
  /\ HasSocket(w) /\ w.client.phase # "failed"
  /\ LET r == Phase(w, "failed")
     IN  w' = IF w.client.live
                THEN [r EXCEPT !.connected = FALSE, !.state = "error"] ELSE r
  /\ UNCHANGED <<store, granted, forgotten, disposed, survived>>

OnDisconnected(r0) ==
  LET r == [r0 EXCEPT !.connected = FALSE]
  IN  CASE r.pending.kind = "code" -> StopTerminalAttempt(r, "error")
        [] r.pending.kind = "credentials" /\ r.writing -> SetState(r, "offline")
        [] r.pending.kind # "code" /\ ~ (r.pending.kind = "credentials" /\ r.writing) ->
             IF r.panels # {} /\ r.link # NoLink
               THEN ScheduleReconnect(r)
               ELSE SetState(r, IF r.link # NoLink THEN "offline" ELSE "notLinked")

\* The close event: retried by the coordinator when the credentials have
\* authenticated before, link.unreachable otherwise.
SocketCloses ==
  /\ HasSocket(w)
  /\ LET r == Phase(w, "idle")
     IN  w' = CASE ~ w.client.live -> r
                [] w.client.live /\ w.client.mode = "stored" -> OnDisconnected(r)
                [] w.client.live /\ w.client.mode # "stored" ->
                     StopTerminalAttempt(r, "error")
  /\ UNCHANGED <<store, granted, forgotten, disposed, survived>>

\* The reconnect timer fires: client.connect replaces whatever socket is left.
TimerFires ==
  /\ w.timer # "none"
  /\ LET r == [w EXCEPT !.timer = "none"]
         started == OnConnecting(
           [r EXCEPT !.client = [@ EXCEPT !.phase = "opening", !.mode = "stored",
                                          !.cred = w.link]])
         thrown == ScheduleReconnect(SetState(Phase(started, "idle"), "error"))
     IN  IF w.timer = "armed" /\ w.client.phase # "absent" /\ w.client.live
              /\ w.link # NoLink
           THEN \/ w' = started
                \/ "open" \in Faults /\ w' = thrown
           ELSE w' = r
  /\ UNCHANGED <<store, granted, forgotten, disposed, survived>>

\* The bridge expires, evicts or revokes a token, or is replaced.
BridgeForgets(l) ==
  /\ l \in granted
  /\ granted' = granted \ {l}
  /\ UNCHANGED <<w, store, forgotten, disposed, survived>>

-----------------------------------------------------------------------------

UserStep ==
  \/ LinkWindow
  \/ UnlinkWindow
  \/ \E i \in DOMAIN w.queue : AbortCommand(i)
  \/ \E p \in Panels : RegisterPanel(p)
  \/ \E p \in Panels : DisposeRegistration(p)
  \/ PublishThrows
  \/ RemoveWindow
  \/ DisposeCoordinator
  \/ Restart

StoreStep == StoreApply \/ StoreFails \/ StoreSettles

\* Steps of a socket that is still waiting for an answer.
HandshakeStep ==
  \/ SocketOpens
  \/ \E l \in Links : LinkAccepted(l)
  \/ \E s \in {"rateLimited", "error"} : LinkRefused(s)
  \/ Authenticated
  \/ AuthenticationRefused
  \/ SocketFails
  \/ SocketCloses

\* Promise jobs run before any other event: an operation that has reached the
\* head of the queue starts before a message, a click or a timer is handled.
StartPending == w.queue # << >> /\ w.head = "waiting"

Next ==
  \/ StoreStart
  \/ /\ ~ StartPending
     /\ \/ UserStep
        \/ StoreStep
        \/ HandshakeStep
        \/ TimerFires
        \/ \E l \in Links : BridgeForgets(l)

Spec == Init /\ [][Next]_vars

\* Storage answers; a socket that is not ready opens, is answered or closes (the
\* browser's connect timeout, the bridge's handshake timer, the close event that
\* follows an error event); a timer fires.
Fairness ==
  /\ WF_vars(StoreStart)
  /\ WF_vars(~ StartPending /\ StoreStep)
  /\ WF_vars(~ StartPending /\ w.client.phase # "ready" /\ HandshakeStep)
  /\ WF_vars(~ StartPending /\ TimerFires)

FairSpec == Spec /\ Fairness
-----------------------------------------------------------------------------
(* Properties *)

\* No client of the window is replaced while its socket lives: however panel
\* commands, storage answers and socket events interleave, the panels of one
\* window share one socket and no other socket outlives them (openClient and
\* every path that leads to it).
OneSocketPerWindow == w.orphans = 0

\* A client exists only while a panel is registered: the final panel's
\* disposeRegistration closes the socket, and no late storage answer reopens it.
ClientNeedsPanel == w.client.phase # "absent" => w.panels # {}

\* The generation captured by the record's client is the record's: no path
\* bumps the generation and keeps the client, whose close event would then be
\* ignored and leave the window linked to a dead socket.
ClientIsHeard == w.client.phase # "absent" => w.client.live

\* "linked" is announced to the panels only when an inspection would be
\* delivered: the socket is authenticated with the link the record holds and
\* that link is durable (persistCredentials, handleClientState).
LinkedMeansServing ==
  w.state = "linked" =>
    /\ w.client.phase = "ready"
    /\ w.connected
    /\ w.link # NoLink
    /\ w.client.cred = w.link
    /\ store = w.link
    /\ ~ w.writing

\* The link in memory is the stored link: no removal or save queued by an older
\* command, an aborted command or a rejected authentication reaches storage
\* after the record took the link over.
LinkIsStored == w.link # NoLink => store = w.link

\* An armed reconnect timer belongs to a window that will use it: panels are
\* open, a client and a link exist, the state says so.
TimerHasPurpose ==
  w.timer # "none" =>
    /\ w.timer = "armed"
    /\ w.client.phase # "absent" /\ w.client.live
    /\ w.link # NoLink
    /\ w.panels # {}

\* While the panels show progress something is under way that will end it: a
\* storage operation that will be heard, a socket, a timer, or a code waiting
\* for the first panel.
ProgressIsPending ==
  w.state \in {"linking", "reconnecting"} =>
    \/ \E i \in DOMAIN w.queue :
         w.queue[i].live /\ w.queue[i].kind \in {"link", "load", "save"}
    \/ HasSocket(w)
    \/ w.timer = "armed"
    \/ w.panels = {} /\ w.pending.kind = "code"

\* A link that the user unlinked, that went with its window or that the bridge
\* rejected is held again only where its removal from storage did not happen:
\* no late answer and no queued save brings it back.
ForgottenStaysForgotten == w.link \in forgotten => survived /\ store = w.link

\* Storage keeps no forgotten link once every operation queued for the window
\* has run ("Unlink ... deletes the local mapping").
UnlinkDeletesMapping == w.queue = << >> => store \notin forgotten

\* Once the user leaves the window alone, "linking" and "reconnecting" end.
SettlesWhenLeftAlone ==
  (<>[][~ UserStep]_vars) =>
    []<>(w.state \notin {"linking", "reconnecting"} \/ w.panels = {})

\* The coordinator implements the abstract link of one window.
AbstractLink ==
  INSTANCE WindowLink WITH stored <- store, held <- w.link,
                           online <- (w.state = "linked")

ImplementsWindowLink == AbstractLink!LinkSpec

-----------------------------------------------------------------------------
(* The inductive strengthening of OneSocketPerWindow, ClientNeedsPanel,
   ClientIsHeard and LinkIsStored, on a record r and the stored link s *)

\* A continuation that will establish a link or take one over.
Adopting(op) == op.live /\ op.kind \in {"link", "load"}

\* A continuation that will open a client, adopt or keep a link.
Establishing(op) == op.live /\ op.kind \in {"link", "load", "save"}

NoneAdopting(r) == \A i \in DOMAIN r.queue : ~ Adopting(r.queue[i])

NoneEstablishing(r) == \A i \in DOMAIN r.queue : ~ Establishing(r.queue[i])

\* The i-th operation of the queue cannot change storage any more.
Harmless(r, i) ==
  \/ r.queue[i].kind = "load"
  \/ i = 1 /\ r.head \in {"done", "failed"}
  \/ ~ (i = 1 /\ r.head = "running") /\ StoreSkips(r.queue[i])

ClientIsOwned(r) ==
  /\ r.client.phase # "absent" => r.panels # {} /\ r.client.live /\ NoneAdopting(r)
  /\ ~ r.present => r.client.phase = "absent" /\ r.link = NoLink /\ NoneEstablishing(r)

OneEstablishing(r) ==
  \A i, j \in DOMAIN r.queue :
    Establishing(r.queue[i]) /\ Establishing(r.queue[j]) => i = j

PendingIsExclusive(r) ==
  r.pending.kind # "none" => r.link = NoLink /\ NoneAdopting(r)

SaveIsWriting(r) ==
  \A i \in DOMAIN r.queue :
    r.queue[i].live /\ r.queue[i].kind = "save" => r.writing

LinkIsSettled(r, s) ==
  r.link # NoLink =>
    /\ s = r.link
    /\ NoneEstablishing(r)
    /\ \A i \in DOMAIN r.queue : Harmless(r, i)

NothingAfterEstablishing(r) ==
  \A i, j \in DOMAIN r.queue :
    i < j /\ r.queue[i].live /\ r.queue[i].kind \in {"load", "save"} => Harmless(r, j)

HeadIsApplied(r, s) ==
  /\ r.queue = << >> => r.head = "waiting"
  /\ r.queue # << >> /\ r.head = "done" /\ r.queue[1].kind \in {"load", "save"} =>
       r.queue[1].link = s

Consistent(r, s) ==
  /\ r \in WindowRecord
  /\ r.orphans = 0
  /\ ClientIsOwned(r)
  /\ OneEstablishing(r)
  /\ PendingIsExclusive(r)
  /\ SaveIsWriting(r)
  /\ LinkIsSettled(r, s)
  /\ NothingAfterEstablishing(r)
  /\ HeadIsApplied(r, s)

\* OneSocketPerWindow needs that nothing which opens a client is still on its
\* way while one exists, LinkIsStored that nothing queued behind the adopted
\* link can still overwrite or erase it.
IInv == TypeOK /\ Consistent(w, store)

=============================================================================
