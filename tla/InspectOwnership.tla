-------------------------- MODULE InspectOwnership --------------------------
(***************************************************************************)
(* Inspect mode of ONE tab: the BackgroundInspectCoordinator that queues    *)
(* the enable and disable operations of the panels' sessions, the lease    *)
(* port through which the page's content script and the background learn   *)
(* of each other's end, and the page that captures clicks.                 *)
(*                                                                         *)
(* The background router keeps one live session per tab and hands it one   *)
(* request at a time; the operations of sessions that have gone may still  *)
(* be in the queue.                                                        *)
(***************************************************************************)
EXTENDS Naturals, Sequences, FiniteSets

CONSTANTS
  Sessions,   \* BackgroundInspectSession objects; one is reused when forgotten
  NoSession,
  Ports,      \* content lease ports; one is reused when both ends are done
  NoPort,
  MaxQueue,   \* bound on the coordinator's queue
  MayNavigate \* whether the document may be replaced

ASSUME InspectAssumption ==
  /\ NoSession \notin Sessions
  /\ NoPort \notin Ports
  /\ MaxQueue \in Nat \ {0}
  /\ MayNavigate \in BOOLEAN

VARIABLES
  tab,      \* TabInspectState, the tab's lease and the invalidated owners
  session,  \* the live session of the tab's panel
  request,  \* where its panel's request stands
  told,     \* the panel was told that inspect mode is on, and not otherwise since
  page,     \* the document: content script, click capture, its lease connection
  port      \* the lease ports

vars == <<tab, session, request, told, page, port>>

Operation == [session : Sessions, enabled : BOOLEAN]

\* Where the head of the queue stands: its script or message is on the way to
\* the page, or the answer is on the way back.
Stage ==
  {"waiting", "injecting", "injected", "messaging", "answered", "unanswered",
   "undoing", "undone", "notUndone"}

\* "lost": an enable whose page has gone, which the panel knows of already;
\* "granted" and "settled": the router looks the tab up again before it answers.
Request == {"none", "enable", "lost", "disable", "granted", "settled"}

\* A port is "connecting" until the background's connect event, "gone" when the
\* page closed it before that; afterwards one end may have closed it with the
\* other end's disconnect event still to come.
PortState ==
  {"free", "connecting", "gone", "open", "closedByPage", "closedByBackground"}

TabInspectState ==
  [owner : Sessions \cup {NoSession}, releasing : Sessions \cup {NoSession},
   invalidated : SUBSET Sessions, lease : Ports \cup {NoPort},
   queue : Seq(Operation), stage : Stage]

TypeOK ==
  /\ tab \in TabInspectState
  /\ Len(tab.queue) <= MaxQueue
  /\ session \in Sessions \cup {NoSession}
  /\ request \in Request
  /\ told \in BOOLEAN
  /\ page \in [scripted : BOOLEAN, capturing : BOOLEAN, lease : Ports \cup {NoPort}]
  /\ port \in [Ports -> PortState]

NoPage == [scripted |-> FALSE, capturing |-> FALSE, lease |-> NoPort]

Init ==
  /\ tab = [owner |-> NoSession, releasing |-> NoSession, invalidated |-> {},
            lease |-> NoPort, queue |-> << >>, stage |-> "waiting"]
  /\ session = NoSession
  /\ request = "none"
  /\ told = FALSE
  /\ page = NoPage
  /\ port = [p \in Ports |-> "free"]

-----------------------------------------------------------------------------
(* The two ends of a lease port *)

\* The page disconnects its port, or its document goes.
PageCloses(ports, p) ==
  [q \in Ports |->
     IF q # p THEN ports[q]
     ELSE IF ports[q] = "connecting" THEN "gone"
     ELSE IF ports[q] = "open" THEN "closedByPage"
     ELSE "free"]

\* The background disconnects a port and no longer listens to it.
BackgroundCloses(ports, p) ==
  [q \in Ports |->
     IF q # p THEN ports[q]
     ELSE IF ports[q] \in {"connecting", "open"} THEN "closedByBackground"
     ELSE "free"]

-----------------------------------------------------------------------------
(* BackgroundInspectCoordinator.setEnabled *)

HeadOp == Head(tab.queue)

Queued(t, s, enabled) ==
  [t EXCEPT !.queue = Append(@, [session |-> s, enabled |-> enabled])]

Claim(s) ==
  /\ tab' = Queued([tab EXCEPT !.owner = s, !.releasing = NoSession,
                               !.invalidated = @ \ {s}], s, TRUE)
  /\ UNCHANGED port

\* A disable that was not confirmed may be asked for again.
MayRetry(s) == tab.owner = NoSession /\ tab.releasing = s

\* Mutant: the lease is left to the message that the queue will send.
ReleaseKeepsLease(s) ==
  \/ /\ tab.owner = s
     /\ tab' = Queued([tab EXCEPT !.owner = NoSession, !.releasing = s], s, FALSE)
     /\ UNCHANGED port
  \/ /\ tab.owner # s
     /\ tab' = IF MayRetry(s) THEN Queued(tab, s, FALSE) ELSE tab
     /\ UNCHANGED port

\* Disabling ends the ownership and the lease at once; the page is told later.
Release(s) ==
  \/ /\ tab.owner = s
     /\ tab' = Queued([tab EXCEPT !.owner = NoSession, !.releasing = s,
                                  !.lease = NoPort], s, FALSE)
     /\ port' = BackgroundCloses(port, tab.lease)
  \/ /\ tab.owner # s
     /\ tab' = IF MayRetry(s) THEN Queued(tab, s, FALSE) ELSE tab
     /\ UNCHANGED port

-----------------------------------------------------------------------------
(* The session *)

Forgotten(s) ==
  /\ s \notin {tab.owner, tab.releasing}
  /\ \A i \in DOMAIN tab.queue : tab.queue[i].session # s

QueueHasRoom == Len(tab.queue) < MaxQueue

\* The router activates a panel port for the tab.
OpenSession(s) ==
  /\ session = NoSession /\ Forgotten(s)
  /\ session' = s
  /\ tab' = [tab EXCEPT !.invalidated = @ \ {s}]
  /\ UNCHANGED <<request, told, page, port>>

\* The panel asks; it does not ask for what it was told it has.
AskEnable ==
  /\ session # NoSession /\ request = "none" /\ ~ told /\ QueueHasRoom
  /\ Claim(session)
  /\ request' = "enable"
  /\ UNCHANGED <<session, told, page>>

AskDisable ==
  /\ session # NoSession /\ request = "none" /\ QueueHasRoom
  /\ Release(session)
  /\ request' = IF tab' = tab THEN "settled" ELSE "disable"
  /\ told' = FALSE
  /\ UNCHANGED <<session, page>>

\* retire or disconnect: the panel, its port or its binding goes.
CloseSession ==
  /\ session # NoSession /\ QueueHasRoom
  /\ Release(session)
  /\ session' = NoSession
  /\ request' = "none"
  /\ told' = FALSE
  /\ UNCHANGED page

\* The router's second look at the tab is over. A panel that has learnt of the
\* loss before it reads a success does not believe it: it asks to disable.
Answered ==
  /\ request \in {"granted", "settled"}
  /\ told' = (request = "granted")
  /\ request' = "none"
  /\ UNCHANGED <<tab, session, page, port>>

-----------------------------------------------------------------------------
(* The head of the queue *)

\* The operation's promise settles; a result for a session that has gone is
\* dropped (finishRequest).
Settle(t, ok) ==
  /\ tab' = [t EXCEPT !.queue = Tail(@), !.stage = "waiting"]
  /\ request' = IF HeadOp.session # session THEN request
                  ELSE IF request = "enable" /\ ok THEN "granted" ELSE "settled"
  /\ UNCHANGED <<told, session>>

Proceed(stage) ==
  /\ tab' = [tab EXCEPT !.stage = stage]
  /\ UNCHANGED <<session, request, told>>

StartOperation ==
  /\ tab.queue # << >> /\ tab.stage = "waiting"
  /\ IF HeadOp.enabled
       THEN IF tab.owner = HeadOp.session THEN Proceed("injecting") ELSE Settle(tab, TRUE)
       ELSE IF tab.owner = NoSession /\ tab.releasing = HeadOp.session
              THEN Proceed("messaging") ELSE Settle(tab, TRUE)
  /\ UNCHANGED <<page, port>>

\* Mutant: a failed enable keeps what it had claimed.
EnableFailsQuietly ==
  /\ Settle(tab, FALSE)
  /\ UNCHANGED port

\* The catch of enableForCurrentOwner.
EnableFails ==
  LET s == HeadOp.session
      invalidated == tab.owner = NoSession /\ s \in tab.invalidated
  IN
  \/ /\ tab.owner = s
     /\ tab' = [tab EXCEPT !.owner = NoSession, !.releasing = s, !.lease = NoPort,
                           !.stage = "undoing"]
     /\ port' = BackgroundCloses(port, tab.lease)
     /\ UNCHANGED <<session, request, told>>
  \/ /\ tab.owner # s /\ invalidated
     /\ tab' = [tab EXCEPT !.releasing = s, !.stage = "undoing"]
     /\ UNCHANGED <<port, session, request, told>>
  \/ /\ tab.owner # s /\ ~ invalidated
     /\ Settle(tab, FALSE)
     /\ UNCHANGED port

\* The page is protected, or it went before the script's result arrived.
InjectionFails ==
  /\ tab.stage = "injecting" \/ (tab.stage = "injected" /\ ~ page.scripted)
  /\ EnableFails
  /\ UNCHANGED page

InjectionReturns ==
  /\ tab.stage = "injected"
  /\ IF tab.owner = HeadOp.session THEN Proceed("messaging") ELSE Settle(tab, TRUE)
  /\ UNCHANGED <<page, port>>

EnableReturns ==
  /\ tab.stage = "answered" /\ HeadOp.enabled
  /\ IF tab.owner # HeadOp.session /\ HeadOp.session \in tab.invalidated
       THEN EnableFails
       ELSE Settle(tab, TRUE) /\ UNCHANGED port
  /\ UNCHANGED page

EnableIsRefused ==
  /\ tab.stage = "unanswered" /\ HeadOp.enabled
  /\ EnableFails
  /\ UNCHANGED page

LetGo(t) ==
  IF t.owner = NoSession /\ t.releasing = HeadOp.session
    THEN [t EXCEPT !.releasing = NoSession] ELSE t

DisableReturns ==
  /\ tab.stage \in {"answered", "unanswered"} /\ ~ HeadOp.enabled
  /\ IF tab.stage = "answered" THEN Settle(LetGo(tab), TRUE) ELSE Settle(tab, FALSE)
  /\ UNCHANGED <<page, port>>

UndoReturns ==
  /\ tab.stage \in {"undone", "notUndone"}
  /\ Settle(IF tab.stage = "undone" THEN LetGo(tab) ELSE tab, FALSE)
  /\ UNCHANGED <<page, port>>

-----------------------------------------------------------------------------
(* The page *)

ScriptRuns ==
  /\ tab.stage = "injecting"
  /\ page' = [page EXCEPT !.scripted = TRUE]
  /\ Proceed("injected")
  /\ UNCHANGED port

\* ContentInspectLease.enable: a lease that is still open is replaced.
\* Where connecting the port throws, which the runtime swallows, the extension
\* is gone and with it everything else here: that is left out.
PageEnables(p) ==
  /\ tab.stage = "messaging" /\ HeadOp.enabled /\ page.scripted
  /\ port[p] = "free"
  /\ page' = [page EXCEPT !.capturing = TRUE, !.lease = p]
  /\ port' = [PageCloses(port, page.lease) EXCEPT ![p] = "connecting"]
  /\ Proceed("answered")

\* ContentInspectLease.disable, for the operation or for a failed enable.
PageDisables ==
  /\ \/ tab.stage = "messaging" /\ ~ HeadOp.enabled
     \/ tab.stage = "undoing"
  /\ page.scripted
  /\ page' = [page EXCEPT !.capturing = FALSE, !.lease = NoPort]
  /\ port' = PageCloses(port, page.lease)
  /\ Proceed(IF tab.stage = "undoing" THEN "undone" ELSE "answered")

\* No content script receives the message.
NobodyAnswers ==
  /\ tab.stage \in {"messaging", "undoing"}
  /\ ~ page.scripted
  /\ Proceed(IF tab.stage = "undoing" THEN "notUndone" ELSE "unanswered")
  /\ UNCHANGED <<page, port>>

\* The document is replaced, with or without the answer it still owed.
Navigate ==
  /\ MayNavigate /\ page.scripted
  /\ page' = NoPage
  /\ port' = PageCloses(port, page.lease)
  /\ \/ UNCHANGED tab
     \/ tab.stage = "answered" /\ tab' = [tab EXCEPT !.stage = "unanswered"]
     \/ tab.stage = "undone" /\ tab' = [tab EXCEPT !.stage = "notUndone"]
  /\ UNCHANGED <<session, request, told>>

\* Mutant: the page goes on capturing when its lease ends.
PageLosesLeaseQuietly(p) ==
  /\ port[p] = "closedByBackground"
  /\ page' = IF page.lease = p THEN [page EXCEPT !.lease = NoPort] ELSE page
  /\ port' = [port EXCEPT ![p] = "free"]
  /\ UNCHANGED <<tab, session, request, told>>

\* The page's disconnect event: the background let the lease go.
PageLosesLease(p) ==
  /\ port[p] = "closedByBackground"
  /\ page' = IF page.lease = p
               THEN [page EXCEPT !.capturing = FALSE, !.lease = NoPort] ELSE page
  /\ port' = [port EXCEPT ![p] = "free"]
  /\ UNCHANGED <<tab, session, request, told>>

-----------------------------------------------------------------------------
(* Lease events in the background *)

\* attachContentLease: nobody's lease is turned away, an older one replaced.
LeaseConnects(p) ==
  /\ port[p] \in {"connecting", "gone"}
  /\ LET arrived == [port EXCEPT ![p] = IF @ = "connecting" THEN "open" ELSE "closedByPage"]
     IN  IF tab.owner = NoSession
           THEN /\ port' = BackgroundCloses(arrived, p)
                /\ UNCHANGED tab
           ELSE /\ port' = IF tab.lease = NoPort THEN arrived
                             ELSE BackgroundCloses(arrived, tab.lease)
                /\ tab' = [tab EXCEPT !.lease = p]
  /\ UNCHANGED <<session, request, told, page>>

\* Mutant: a panel that waits for an answer is not notified.
NotifyLossWhenIdle(s) ==
  /\ told' = (told /\ ~ (session = s /\ request = "none"))
  /\ UNCHANGED request

\* handleInvalidation: the panel resets its toggle.
NotifyLoss(s) ==
  IF session = s
    THEN /\ told' = FALSE
         /\ request' = IF request = "enable" THEN "lost"
                         ELSE IF request = "granted" THEN "settled" ELSE request
    ELSE UNCHANGED <<told, request>>

\* Mutant: the owner learns of the loss only from its next request.
LeaseDisconnectsQuietly(p) ==
  /\ port[p] = "closedByPage"
  /\ port' = [port EXCEPT ![p] = "free"]
  /\ tab' = IF tab.lease = p THEN [tab EXCEPT !.lease = NoPort] ELSE tab
  /\ UNCHANGED <<session, request, told, page>>

\* onUnexpectedDisconnect: the owner loses the tab and its panel is notified.
LeaseDisconnects(p) ==
  /\ port[p] = "closedByPage"
  /\ port' = [port EXCEPT ![p] = "free"]
  /\ IF tab.lease = p /\ tab.owner # NoSession
       THEN /\ tab' = [tab EXCEPT !.lease = NoPort, !.owner = NoSession,
                                  !.releasing = NoSession,
                                  !.invalidated = @ \cup {tab.owner}]
            /\ NotifyLoss(tab.owner)
       ELSE /\ tab' = IF tab.lease = p THEN [tab EXCEPT !.lease = NoPort] ELSE tab
            /\ UNCHANGED <<told, request>>
  /\ UNCHANGED <<session, page>>

-----------------------------------------------------------------------------

SessionStep ==
  (\E s \in Sessions : OpenSession(s)) \/ AskEnable \/ AskDisable \/ CloseSession

Answer ==
  \/ Answered
  \/ InjectionFails \/ InjectionReturns
  \/ EnableReturns \/ EnableIsRefused \/ DisableReturns \/ UndoReturns

PageStep ==
  \/ ScriptRuns
  \/ \E p \in Ports : PageEnables(p)
  \/ PageDisables
  \/ NobodyAnswers

LeaseStep ==
  \E p \in Ports : PageLosesLease(p) \/ LeaseConnects(p) \/ LeaseDisconnects(p)

\* An operation that reaches the head of the queue starts before other events.
StartPending == tab.queue # << >> /\ tab.stage = "waiting"

Next ==
  \/ StartOperation
  \/ /\ ~ StartPending
     /\ SessionStep \/ Answer \/ PageStep \/ Navigate \/ LeaseStep

Spec == Init /\ [][Next]_vars

\* Scripts run, messages are answered, port events are delivered.
Fairness ==
  /\ WF_vars(StartOperation)
  /\ WF_vars(~ StartPending /\ (Answer \/ PageStep))
  /\ \A p \in Ports :
       WF_vars(~ StartPending
               /\ (PageLosesLease(p) \/ LeaseConnects(p) \/ LeaseDisconnects(p)))

FairSpec == Spec /\ Fairness

-----------------------------------------------------------------------------
(* Properties *)

\* The page never captures clicks without a lease that one of its ends watches:
\* it holds a port, and that port is registered for an owner, about to be
\* registered, or closed with the page's disconnect event on its way.
CaptureIsLeased ==
  page.capturing =>
    /\ page.lease # NoPort
    /\ \/ port[page.lease] \in {"connecting", "closedByBackground"}
       \/ port[page.lease] = "open" /\ tab.lease = page.lease /\ tab.owner # NoSession

\* A panel that shows inspect mode as on owns the tab: whatever took the
\* ownership away has notified it or refused its request.
BeliefIsOwned == told => session # NoSession /\ tab.owner = session

\* Nobody holds inspect mode behind the user's back: the owner of the tab is the
\* live session, and its panel shows inspect mode or waits to be told.
OwnerIsShown ==
  tab.owner # NoSession =>
    tab.owner = session /\ (told \/ request \in {"enable", "granted"})

\* "Closing or reloading DevTools releases inspect ownership for that tab": a
\* page without an owner stops capturing.
CaptureEnds ==
  tab.owner = NoSession ~> (~ page.capturing \/ tab.owner # NoSession)

\* A panel does not go on showing inspect mode for a page that does not capture,
\* even if its document went before the background saw the lease.
BeliefBecomesTrue == told ~> (page.capturing \/ ~ told)

\* "does not let an old port disable a newer owner for the same tab": in a
\* document that stays, an owner keeps the tab until its session closes, its
\* panel asks to disable or the script cannot be injected.
NewerOwnerKeepsTab ==
  [][ tab.owner # NoSession /\ tab'.owner # tab.owner =>
        session' # session \/ request' = "disable" \/ InjectionFails ]_vars

=============================================================================
