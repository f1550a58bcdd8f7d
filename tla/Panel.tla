------------------------------- MODULE Panel -------------------------------
(***************************************************************************)
(* The DevTools panel: PanelController, whose operations wait for the      *)
(* inspect mode to go off before they ask the background anything;         *)
(* PanelInspectController, whose one reconcile loop brings the page to     *)
(* what the checkbox says, whatever the user clicks meanwhile; the port to *)
(* the background; and the view, which shows what it was last told.        *)
(*                                                                         *)
(* A step is one run of the panel's event loop, or one of the background,  *)
(* which is reduced to what it owes the panel.  Left out: the text of the  *)
(* code box and of the error line.                                         *)
(***************************************************************************)
EXTENDS Naturals, Sequences

CONSTANTS
  MaxOperations, \* bound: operations and port losses stop when it is reached
  MaxInbox       \* bound: messages on their way to the panel before another
                 \* notice or window state is posted

ASSUME PanelAssumption == MaxOperations \in Nat /\ MaxInbox \in Nat \ {0}

(* "offline" stands for linking, reconnecting and offline, which the panel *)
(* treats alike; "error" for rateLimited and error.                        *)
States == {"notLinked", "connected", "offline", "error"}

VARIABLES
  p,        \* the fields of PanelController
  i,        \* the fields of PanelInspectController
  ops,      \* the operations under way, superseded ones included
  view,     \* what the user sees and can use
  port,     \* there is a connection to the background
  recovery, \* ensurePanelPort waits for its panelReady message
  request,  \* the inspect request that the background has not carried out
  answer,   \* its answer, not posted yet
  inbox,    \* messages on their way to the panel, oldest first
  owns,     \* this panel owns the inspect mode of the page
  window    \* the state of the browser window's link

local == <<p, i, ops, view>>
channel == <<port, recovery, request, answer, inbox, owns, window>>
vars == <<p, i, ops, view, port, recovery, request, answer, inbox, owns, window>>

-----------------------------------------------------------------------------
Panels == [open: BOOLEAN, state: States, intent: BOOLEAN, changing: BOOLEAN,
           busy: BOOLEAN, generation: Nat]

(* The field enabled of the code is always equal to desired.  loop is the  *)
(* request that the reconcile loop waits for; waiting, that a click or a   *)
(* window state waits for the loop and renders after it.                   *)
Inspects == [desired: BOOLEAN, remote: BOOLEAN, inFlight: BOOLEAN,
             disablePending: BOOLEAN, loop: {"idle", "enable", "disable"},
             waiting: BOOLEAN]

Stages == {"clipboard", "disabling", "command", "ok", "refused", "failed"}
Operations == [kind: {"paste", "link", "change", "unlink"}, stage: Stages,
               generation: Nat]

Views == [linkForm: BOOLEAN, change: BOOLEAN, unlink: BOOLEAN,
          inspect: BOOLEAN, checked: BOOLEAN]

Messages == {"granted", "denied", "invalidated"} \cup States

(* Mutant: the pending disable survives the reset.                         *)
OffUnlessPending(j) == [j EXCEPT !.desired = FALSE, !.remote = FALSE]

(* Nothing is requested, and nothing believed, of the page.                *)
Off(j) == [j EXCEPT !.desired = FALSE, !.remote = FALSE, !.disablePending = FALSE]
NoInspect == [desired |-> FALSE, remote |-> FALSE, inFlight |-> FALSE,
              disablePending |-> FALSE, loop |-> "idle", waiting |-> FALSE]

(* PanelInspectController.disable, up to its call of reconcile.            *)
Disabled(j) ==
  [j EXCEPT !.desired = FALSE,
            !.disablePending = j.remote \/ j.inFlight \/ j.disablePending]

(* What the loop does next when no request is out.                         *)
LoopStep(j) ==
  IF j.desired
  THEN IF j.remote /\ ~j.disablePending THEN "idle" ELSE "enable"
  ELSE IF j.remote \/ j.disablePending THEN "disable" ELSE "idle"

Rendered(q, j) ==
  LET inspectDisabled == q.busy \/ q.changing \/ q.state # "connected"
  IN  [linkForm |-> ~q.busy /\ (q.changing \/ q.state \in {"notLinked", "error"}),
       change   |-> q.intent /\ ~q.busy,
       unlink   |-> q.intent /\ ~q.busy /\ q.state # "notLinked",
       inspect  |-> q.intent /\ ~inspectDisabled,
       checked  |-> ~inspectDisabled /\ j.desired]

Current(q, o) == q.open /\ q.generation = o.generation
Operation(kind, stage, q) ==
  [kind |-> kind, stage |-> stage, generation |-> q.generation]

-----------------------------------------------------------------------------
(* The reconcile promise settles: everything that awaited it goes on.      *)

Disabling(os) == {o \in os : o.stage = "disabling"}
Resumes(q, os, kind) == \E o \in Disabling(os) : o.kind = kind /\ Current(q, o)

Resumed(q, os) ==
  [q EXCEPT
     !.changing = (@ /\ ~Resumes(q, os, "link")) \/ Resumes(q, os, "change"),
     !.intent = @ \/ Resumes(q, os, "link"),
     !.state = IF Resumes(q, os, "link") THEN "offline" ELSE @,
     !.busy = @ \/ Resumes(q, os, "link") \/ Resumes(q, os, "unlink")]

ResumedOperations(q, os) ==
  (os \ Disabling(os)) \cup
    {[o EXCEPT !.stage = "command"] :
       o \in {o \in Disabling(os) : Current(q, o) /\ o.kind # "change"}}

Settles(q, j, os, v) ==
  /\ p' = Resumed(q, os)
  /\ i' = [j EXCEPT !.loop = "idle", !.inFlight = FALSE, !.waiting = FALSE]
  /\ ops' = ResumedOperations(q, os)
  /\ view' = IF j.waiting \/ \E o \in Disabling(os) : Current(q, o)
             THEN Rendered(p', i') ELSE v
  /\ UNCHANGED request

(* The loop goes round: it sends the next request, or is done.             *)
Loops(q, j, os, v) ==
  \/ /\ LoopStep(j) = "idle"
     /\ Settles(q, j, os, v)
  \/ /\ LoopStep(j) # "idle"
     /\ i' = [j EXCEPT !.loop = LoopStep(j), !.inFlight = LoopStep(j) = "enable"]
     /\ request' = LoopStep(j)
     /\ p' = q /\ ops' = os /\ view' = v

(* reconcile: one loop at a time, shared by all that ask for it.           *)
Reconcile(q, j, os, v) ==
  IF j.loop = "idle"
  THEN Loops(q, j, os, v)
  ELSE p' = q /\ i' = j /\ ops' = os /\ view' = v /\ UNCHANGED request

-----------------------------------------------------------------------------
(* The user.                                                               *)

NextGeneration(q) == [q EXCEPT !.generation = @ + 1]
MayOperate == p.open /\ p.generation < MaxOperations

SetInspectEnabled ==
  /\ p.open /\ view.inspect
  /\ LET enabled == ~view.checked
         shown   == [view EXCEPT !.checked = enabled]
         refused == enabled /\ (p.state # "connected" \/ p.busy \/ p.changing)
         j       == IF enabled THEN [i EXCEPT !.desired = TRUE] ELSE Disabled(i)
     IN  \/ /\ refused
            /\ view' = Rendered(p, i)
            /\ UNCHANGED <<p, i, ops, request>>
         \/ /\ ~refused
            /\ Reconcile(p, [j EXCEPT !.waiting = TRUE], ops, shown)
  /\ UNCHANGED <<port, recovery, answer, inbox, owns, window>>

(* The text of the box changed; only what is shown is brought up to date.  *)
LinkCodeChanged ==
  /\ p.open /\ view.linkForm
  /\ view' = Rendered(p, i)
  /\ UNCHANGED <<p, i, ops, channel>>

(* The operations that wait for the inspect mode to go off.                *)
StartOperation(kind, q, os) ==
  LET next == NextGeneration(q)
  IN  Reconcile(next, Disabled(i), os \cup {Operation(kind, "disabling", next)}, view)

InvalidCode ==
  /\ p' = [p EXCEPT !.state = "error"]
  /\ view' = Rendered(p', i)

(* link: a code that does not parse is refused at once.                    *)
Link(os) ==
  /\ ~p.busy
  /\ \/ StartOperation("link", p, os)
     \/ InvalidCode /\ ops' = os /\ UNCHANGED <<i, request>>

PressLink ==
  /\ MayOperate /\ view.linkForm
  /\ Link(ops)
  /\ UNCHANGED <<port, recovery, answer, inbox, owns, window>>

PasteAndLink ==
  /\ MayOperate /\ view.linkForm /\ ~p.busy
  /\ p' = NextGeneration(p)
  /\ ops' = ops \cup {Operation("paste", "clipboard", p')}
  /\ view' = Rendered(p', i)
  /\ UNCHANGED <<i, channel>>

ClipboardRead(o) ==
  /\ o.stage = "clipboard"
  /\ IF ~Current(p, o)
     THEN ops' = ops \ {o} /\ UNCHANGED <<p, i, view, request>>
     ELSE \/ InvalidCode /\ ops' = ops \ {o} /\ UNCHANGED <<i, request>>
          \/ p.generation < MaxOperations /\ Link(ops \ {o})
  /\ UNCHANGED <<port, recovery, answer, inbox, owns, window>>

ChangeIde ==
  /\ MayOperate /\ view.change
  /\ StartOperation("change", [p EXCEPT !.busy = FALSE], ops)
  /\ UNCHANGED <<port, recovery, answer, inbox, owns, window>>

Unlink ==
  /\ MayOperate /\ view.unlink /\ ~p.busy
  /\ StartOperation("unlink", p, ops)
  /\ UNCHANGED <<port, recovery, answer, inbox, owns, window>>

(* Mutant: the answer to a superseded command is taken for the current one. *)
AnyCommandAnswered(o) ==
  /\ o.stage \in {"ok", "refused", "failed"}
  /\ ops' = ops \ {o}
  /\ p' = [p EXCEPT !.busy = FALSE, !.state = IF o.stage = "ok" THEN @ ELSE "error"]
  /\ view' = Rendered(p', i)
  /\ UNCHANGED <<i, channel>>

(* The background's answer to link or unlink.  A link that is refused for  *)
(* another reason than a busy or stale panel forgets the link.             *)
CommandAnswered(o) ==
  /\ o.stage \in {"ok", "refused", "failed"}
  /\ ops' = ops \ {o}
  /\ \/ ~Current(p, o) /\ UNCHANGED <<p, view>>
     \/ /\ Current(p, o)
        /\ p' = [p EXCEPT
                   !.busy = FALSE,
                   !.changing = @ /\ ~(o.kind = "unlink" /\ o.stage = "ok"),
                   !.intent = @ /\ ~(o.kind = "unlink" /\ o.stage = "ok")
                                /\ ~(o.kind = "link" /\ o.stage = "refused"),
                   !.state = IF o.stage # "ok" THEN "error"
                             ELSE IF o.kind = "unlink" THEN "notLinked" ELSE @]
        /\ view' = Rendered(p', i)
  /\ UNCHANGED <<i, channel>>

-----------------------------------------------------------------------------
(* What the port brings.                                                   *)

(* Mutant: the loop ends with its first answer.                            *)
InspectGrantedOnce ==
  Settles(p, [i EXCEPT !.remote = i.loop = "enable"], ops, view)

(* handleMessage: the answer that the loop waits for.                      *)
InspectGranted ==
  LET enabled == [i EXCEPT !.remote = TRUE, !.disablePending = ~i.desired]
      disabled == [i EXCEPT !.remote = FALSE, !.disablePending = FALSE]
      answered == IF i.loop = "enable" THEN enabled ELSE disabled
  IN  Loops(p, [answered EXCEPT !.loop = "idle", !.inFlight = FALSE], ops, view)

(* The loop throws, and everything that awaited it calls                   *)
(* handleTransportDisconnect before it goes on.                            *)
InspectDenied == Settles(p, Off(i), ops, view)

(* Mutant: the notice resets the controller but is not shown.              *)
InvalidatedQuietly == i' = Off(i) /\ UNCHANGED <<p, ops, view, request>>

(* The document went away.  A request under way stays under way.           *)
Invalidated ==
  /\ i' = Off(i)
  /\ view' = Rendered(p, i')
  /\ UNCHANGED <<p, ops, request>>

(* Mutant: a state that makes inspecting impossible is only shown.         *)
ShowWindowState(s) ==
  LET q == [p EXCEPT !.state = s, !.intent = s # "notLinked" /\ (s # "error" \/ @)]
  IN  p' = q /\ view' = Rendered(q, i) /\ UNCHANGED <<i, ops, request>>

HandleWindowState(s) ==
  LET intent == IF s = "notLinked" THEN FALSE ELSE s # "error" \/ p.intent
      q == [p EXCEPT !.state = s, !.intent = intent]
  IN  \/ /\ s = "connected"
         /\ p' = q
         /\ view' = Rendered(q, i)
         /\ UNCHANGED <<i, ops, request>>
      \/ /\ s # "connected"
         /\ Reconcile(q, [Disabled(i) EXCEPT !.waiting = TRUE], ops, view)

HandleMessage ==
  /\ p.open /\ inbox # <<>>
  /\ inbox' = Tail(inbox)
  /\ \/ Head(inbox) = "granted" /\ InspectGranted
     \/ Head(inbox) = "denied" /\ InspectDenied
     \/ Head(inbox) = "invalidated" /\ Invalidated
     \/ \E s \in States : Head(inbox) = s /\ HandleWindowState(s)
  /\ UNCHANGED <<port, recovery, answer, owns, window>>

-----------------------------------------------------------------------------
(* The port is lost and found.                                             *)

(* PanelController.handleTransportDisconnect, and what follows it when the *)
(* loop's request is rejected: no operation is current any more.           *)
TransportDisconnect ==
  /\ p' = [NextGeneration(p) EXCEPT
             !.busy = FALSE, !.changing = FALSE,
             !.state = IF p.intent THEN "offline" ELSE @]
  /\ i' = NoInspect
  /\ ops' = ops \ Disabling(ops)
  /\ view' = Rendered(p', i')

Disconnected ==
  /\ port' = FALSE
  /\ request' = "none" /\ answer' = "none" /\ inbox' = <<>>
  /\ owns' = FALSE

PortLost ==
  /\ MayOperate /\ port
  /\ Disconnected
  /\ TransportDisconnect
  /\ recovery' = TRUE
  /\ UNCHANGED window

(* ensurePanelPort: the background registers the panel's port and tells it *)
(* the state of the window.                                                *)
RecoveryConnects ==
  /\ p.open /\ recovery
  /\ recovery' = FALSE /\ port' = TRUE
  /\ inbox' = Append(inbox, window)
  /\ UNCHANGED <<local, request, answer, owns, window>>

RecoveryFails ==
  /\ MayOperate /\ recovery
  /\ recovery' = FALSE
  /\ TransportDisconnect
  /\ UNCHANGED <<port, request, answer, inbox, owns, window>>

(* The panel is closed.  Its last disable goes out on a port that is       *)
(* closed right after it.                                                  *)
Dispose ==
  /\ p.open
  /\ p' = [NextGeneration(p) EXCEPT !.open = FALSE]
  /\ i' = NoInspect /\ ops' = {}
  /\ Disconnected
  /\ recovery' = FALSE
  /\ UNCHANGED <<view, window>>

-----------------------------------------------------------------------------
(* The background, as BackgroundRouter and InspectOwnership have it: a     *)
(* request that is denied leaves this panel without the page.              *)

CarryOut ==
  /\ request # "none"
  /\ request' = "none"
  /\ \/ answer' = "granted" /\ owns' = (request = "enable")
     \/ answer' = "denied" /\ owns' = FALSE
  /\ UNCHANGED <<local, port, recovery, inbox, window>>

PostAnswer ==
  /\ answer # "none"
  /\ inbox' = Append(inbox, answer) /\ answer' = "none"
  /\ UNCHANGED <<local, port, recovery, request, owns, window>>

(* The page's document goes away: the panel is told at once, which may be  *)
(* before it is told that its request was granted.                         *)
DocumentGone ==
  /\ owns /\ Len(inbox) < MaxInbox
  /\ owns' = FALSE
  /\ inbox' = Append(inbox, "invalidated")
  /\ answer' \in {answer, IF answer = "granted" THEN "denied" ELSE answer}
  /\ UNCHANGED <<local, port, recovery, request, window>>

(* The panel's activation is replaced, and another panel may take the page *)
(* over: what has been carried out is denied, the owner is not told.       *)
Retire ==
  /\ port
  /\ owns \/ answer = "granted"
  /\ owns' = FALSE
  /\ answer' = IF answer = "none" THEN "none" ELSE "denied"
  /\ UNCHANGED <<local, port, recovery, request, inbox, window>>

Posted(s) == IF port THEN Append(inbox, s) ELSE inbox

WindowChanges(s) ==
  /\ p.open /\ Len(inbox) < MaxInbox
  /\ window' = s
  /\ inbox' = Posted(s)
  /\ UNCHANGED <<local, port, recovery, request, answer, owns>>

(* The background carries a command out; its answer takes its own way.     *)
RunCommand(o) ==
  /\ o.stage = "command"
  /\ \E outcome \in {"ok", "refused", "failed"} :
       /\ ops' = (ops \ {o}) \cup {[o EXCEPT !.stage = outcome]}
       /\ \/ outcome # "ok" /\ UNCHANGED <<window, inbox>>
          \/ /\ outcome = "ok"
             /\ window' = IF o.kind = "unlink" THEN "notLinked" ELSE "connected"
             /\ inbox' = Posted(window')
  /\ UNCHANGED <<p, i, view, port, recovery, request, answer, owns>>

-----------------------------------------------------------------------------
Init ==
  /\ p = [open |-> TRUE, state |-> "notLinked", intent |-> FALSE,
          changing |-> FALSE, busy |-> FALSE, generation |-> 0]
  /\ i = NoInspect
  /\ ops = {}
  /\ view = Rendered(p, i)
  /\ port = FALSE /\ recovery = TRUE
  /\ request = "none" /\ answer = "none" /\ inbox = <<>>
  /\ owns = FALSE
  /\ window \in States

UserStep ==
  SetInspectEnabled \/ LinkCodeChanged \/ PressLink \/ PasteAndLink
    \/ ChangeIde \/ Unlink \/ Dispose

PanelStep ==
  \/ HandleMessage \/ RecoveryConnects \/ RecoveryFails
  \/ \E o \in ops : ClipboardRead(o) \/ CommandAnswered(o)

BackgroundStep ==
  \/ CarryOut \/ PostAnswer \/ DocumentGone \/ Retire \/ PortLost
  \/ \E s \in States : WindowChanges(s)
  \/ \E o \in ops : RunCommand(o)

Next == UserStep \/ PanelStep \/ BackgroundStep

(* The browser delivers what was posted, and the background answers.  The  *)
(* user, the page and the network owe nothing.                             *)
Fairness ==
  WF_vars(HandleMessage) /\ WF_vars(CarryOut) /\ WF_vars(PostAnswer)

Spec == Init /\ [][Next]_vars /\ Fairness

-----------------------------------------------------------------------------
TypeOK ==
  /\ p \in Panels /\ i \in Inspects /\ ops \subseteq Operations
  /\ view \in Views
  /\ port \in BOOLEAN /\ recovery \in BOOLEAN
  /\ request \in {"none", "enable", "disable"}
  /\ answer \in {"none", "granted", "denied"}
  /\ inbox \in Seq(Messages)
  /\ owns \in BOOLEAN /\ window \in States

(* When the reconcile loop is done, by whatever way it ended and whatever  *)
(* came in between, the controller believes of the page what the checkbox  *)
(* asks for, and owes it no disable.                                       *)
SettledInspectAgrees ==
  i.loop = "idle" => i.desired = i.remote /\ ~i.disablePending /\ ~i.inFlight

(* A panel whose inspect mode is off, and that waits for nothing, does not *)
(* own the page: no late grant, lost port or denied disable leaves a page  *)
(* inspecting behind the user's back.  A closed panel is such a panel.     *)
NeverLeftInspecting == i.loop = "idle" /\ ~i.desired => ~owns

ViewIsRendered == i.loop = "idle" => view = Rendered(p, i)

BusyMeansWaiting ==
  p.busy <=> \E o \in ops :
               Current(p, o) /\ o.stage \in {"command", "ok", "refused", "failed"}

(* Every way through the panel ends with a render: once nothing is waited  *)
(* for, the user sees and can use what the state says.  And the panel is   *)
(* busy exactly while a command of its latest operation is out: an answer  *)
(* that comes late, or never, blocks nothing else.                         *)
SettledViewIsCurrent == p.open => ViewIsRendered /\ BusyMeansWaiting

(* A panel that is told, or that learns by unlinking, that its window is   *)
(* not linked stops inspecting the page, even when the user turned the     *)
(* inspect mode on while the unlinking was under way.                      *)
UnlinkedPanelStopsInspecting ==
  p.state = "notLinked" ~> (~owns \/ p.state # "notLinked")

(* docs/mvp-usage.md: inspect mode is reset when the window changes IDE.   *)
ChangingIdeStopsInspecting == p.changing /\ i.loop = "idle" => ~owns
=============================================================================
