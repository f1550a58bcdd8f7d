----------------------- MODULE InspectOwnershipProofs -----------------------
(***************************************************************************)
(* Proofs about InspectOwnership, for any sessions, ports and queue bound: *)
(* what the panel believes and what the background holds agree, and the    *)
(* page captures only while an end of its lease watches it.                *)
(*                                                                         *)
(* The first needs to know where the live session's operation stands: it   *)
(* is the last of the queue, since only the live session appends. The      *)
(* second needs both ends of every port.                                   *)
(***************************************************************************)
EXTENDS InspectOwnership, SequenceTheorems, TLAPS

ActiveHasOperation == tab.stage # "waiting" => tab.queue # << >>

Undoing == tab.stage \in {"undoing", "undone", "notUndone"}

\* Only the live session appends, and it waits for its answer.
LiveOperationIsLast ==
  session # NoSession =>
    \A i \in 1 .. Len(tab.queue) :
      tab.queue[i].session = session =>
        /\ i = Len(tab.queue)
        /\ request \in (IF tab.queue[i].enabled THEN {"enable", "lost"} ELSE {"disable"})

RequestIsLive ==
  /\ request # "none" => session # NoSession /\ ~ told
  /\ told => session # NoSession

ClaimIsOwned ==
  /\ request = "granted" => tab.owner = session
  /\ request = "enable" =>
       tab.owner = session \/ (Undoing /\ HeadOp.session = session)

UndoingHasNoOwner == Undoing => tab.owner # HeadOp.session

OwnershipInv ==
  /\ TypeOK
  /\ ActiveHasOperation
  /\ LiveOperationIsLast
  /\ RequestIsLive
  /\ ClaimIsOwned
  /\ UndoingHasNoOwner
  /\ BeliefIsOwned
  /\ OwnerIsShown

\* The background holds one open port, for an owner; the page's is not closed by it.
LeaseInv ==
  /\ tab.lease # NoPort =>
       tab.owner # NoSession /\ port[tab.lease] \in {"open", "closedByPage"}
  /\ \A p \in Ports : port[p] = "open" => tab.lease = p
  /\ page.lease # NoPort =>
       port[page.lease] \in {"connecting", "open", "closedByBackground"}
  /\ page.capturing => page.lease # NoPort

-----------------------------------------------------------------------------
(* Queues and ports *)

LEMMA AppendFacts ==
  ASSUME NEW q \in Seq(Operation), NEW op \in Operation
  PROVE  /\ Append(q, op) \in Seq(Operation)
         /\ Append(q, op) # << >>
         /\ Len(q) \in Nat
         /\ Len(Append(q, op)) = Len(q) + 1
         /\ \A i \in 1 .. Len(q) : Append(q, op)[i] = q[i]
         /\ Append(q, op)[Len(q) + 1] = op
         /\ q # << >> => Head(Append(q, op)) = Head(q)
BY AppendProperties, LenProperties, HeadTailAppend

LEMMA TailFacts ==
  ASSUME NEW q \in Seq(Operation), q # << >>
  PROVE  /\ Head(q) \in Operation /\ Head(q) = q[1]
         /\ Tail(q) \in Seq(Operation)
         /\ Len(q) \in Nat \ {0}
         /\ Len(Tail(q)) = Len(q) - 1
         /\ \A i \in 1 .. Len(Tail(q)) : Tail(q)[i] = q[i + 1]
BY HeadTailProperties, LenProperties, EmptySeq

LEMMA PageClosesType ==
  ASSUME NEW ports \in [Ports -> PortState], NEW p
  PROVE  PageCloses(ports, p) \in [Ports -> PortState]
BY DEF PageCloses, PortState

LEMMA BackgroundClosesType ==
  ASSUME NEW ports \in [Ports -> PortState], NEW p
  PROVE  BackgroundCloses(ports, p) \in [Ports -> PortState]
BY DEF BackgroundCloses, PortState

-----------------------------------------------------------------------------
(* Types *)

LEMMA QueuedType ==
  ASSUME NEW t \in TabInspectState, NEW s \in Sessions, NEW enabled \in BOOLEAN
  PROVE  /\ Queued(t, s, enabled) \in TabInspectState
         /\ Len(Queued(t, s, enabled).queue) = Len(t.queue) + 1
         /\ Queued(t, s, enabled).queue # << >>
         /\ Queued(t, s, enabled) = [t EXCEPT !.queue = Append(t.queue, [session |-> s, enabled |-> enabled])]
<1> DEFINE op == [session |-> s, enabled |-> enabled]
<1>1. op \in Operation /\ t.queue \in Seq(Operation)
  BY DEF Operation, TabInspectState
<1>2. /\ Append(t.queue, op) \in Seq(Operation) /\ Append(t.queue, op) # << >>
      /\ Len(Append(t.queue, op)) = Len(t.queue) + 1
  BY <1>1, AppendFacts
<1>3. Queued(t, s, enabled) = [t EXCEPT !.queue = Append(t.queue, op)]
  BY DEF Queued
<1> HIDE DEF op
<1>4. QED BY <1>2, <1>3 DEF TabInspectState, op

LEMMA ReleaseType ==
  ASSUME TypeOK, NEW s \in Sessions, QueueHasRoom, Release(s)
  PROVE  /\ tab' \in TabInspectState /\ Len(tab'.queue) <= MaxQueue
         /\ ActiveHasOperation => ActiveHasOperation'
         /\ port' \in [Ports -> PortState]
<1>1. tab \in TabInspectState /\ Len(tab.queue) \in Nat /\ MaxQueue \in Nat
  BY LenProperties, InspectAssumption DEF TypeOK, TabInspectState
<1>2. CASE tab.owner = s
  <2> DEFINE t == [tab EXCEPT !.owner = NoSession, !.releasing = s, !.lease = NoPort]
  <2>1. t \in TabInspectState /\ t.queue = tab.queue
    BY <1>1 DEF TabInspectState
  <2>2. tab' = Queued(t, s, FALSE) /\ port' = BackgroundCloses(port, tab.lease)
    BY <1>2 DEF Release
  <2> HIDE DEF t
  <2>3. tab' \in TabInspectState /\ Len(tab'.queue) = Len(tab.queue) + 1 /\ tab'.queue # << >>
    BY <2>1, <2>2, QueuedType
  <2>4. port' \in [Ports -> PortState]
    BY <2>2, BackgroundClosesType DEF TypeOK
  <2>5. QED BY <1>1, <2>3, <2>4 DEF QueueHasRoom, ActiveHasOperation
<1>3. CASE tab.owner # s
  <2>1. tab' \in {tab, Queued(tab, s, FALSE)} /\ port' = port
    BY <1>3 DEF Release
  <2>2. /\ Queued(tab, s, FALSE) \in TabInspectState
        /\ Len(Queued(tab, s, FALSE).queue) = Len(tab.queue) + 1
        /\ Queued(tab, s, FALSE).queue # << >>
    BY <1>1, QueuedType
  <2>3. tab' \in TabInspectState /\ Len(tab'.queue) \in {Len(tab.queue), Len(tab.queue) + 1}
    BY <1>1, <2>1, <2>2
  <2>4. tab' = tab \/ tab'.queue # << >>
    BY <2>1, <2>2
  <2>5. QED BY <1>1, <2>1, <2>3, <2>4 DEF TypeOK, QueueHasRoom, ActiveHasOperation
<1>4. QED BY <1>2, <1>3

\* The tab after an operation has settled, or after its stage has moved.
LEMMA SettleType ==
  ASSUME TypeOK, tab.queue # << >>, NEW t \in TabInspectState, t.queue = tab.queue,
         NEW ok \in BOOLEAN, Settle(t, ok)
  PROVE  /\ tab' \in TabInspectState /\ Len(tab'.queue) <= MaxQueue
         /\ tab'.stage # "waiting" => tab'.queue = tab.queue
         /\ request' \in Request /\ told' = told /\ session' = session
<1>1. Tail(t.queue) \in Seq(Operation) /\ Len(Tail(t.queue)) = Len(t.queue) - 1
      /\ Len(t.queue) \in Nat
  BY TailFacts DEF TabInspectState
<1>2. tab' = [t EXCEPT !.queue = Tail(t.queue), !.stage = "waiting"]
  BY DEF Settle
<1>3. tab' \in TabInspectState /\ tab'.queue = Tail(t.queue) /\ tab'.stage = "waiting"
  BY <1>1, <1>2 DEF TabInspectState, Stage
<1>4. QED BY <1>1, <1>3, InspectAssumption DEF TypeOK, Settle, Request

LEMMA ProceedType ==
  ASSUME TypeOK, NEW stage \in Stage, Proceed(stage)
  PROVE  /\ tab' \in TabInspectState /\ Len(tab'.queue) <= MaxQueue
         /\ tab'.stage # "waiting" => tab'.queue = tab.queue
         /\ request' \in Request /\ told' = told /\ session' = session
BY DEF TypeOK, Proceed, TabInspectState

LEMMA EnableFailsType ==
  ASSUME TypeOK, tab.queue # << >>, EnableFails
  PROVE  /\ tab' \in TabInspectState /\ Len(tab'.queue) <= MaxQueue
         /\ tab'.stage # "waiting" => tab'.queue = tab.queue
         /\ request' \in Request /\ told' = told /\ session' = session
         /\ port' \in [Ports -> PortState]
<1>1. HeadOp \in Operation
  BY TailFacts DEF HeadOp, TypeOK, TabInspectState
<1>2. HeadOp.session \in Sessions
  BY <1>1 DEF Operation
<1> HIDE DEF HeadOp
<1>3. CASE tab.owner = HeadOp.session
  <2>1. tab' = [tab EXCEPT !.owner = NoSession, !.releasing = HeadOp.session,
                           !.lease = NoPort, !.stage = "undoing"]
        /\ port' = BackgroundCloses(port, tab.lease) /\ UNCHANGED <<session, request, told>>
    BY <1>3 DEF EnableFails
  <2>2. QED BY <1>2, <2>1, BackgroundClosesType DEF TypeOK, TabInspectState, Stage
<1>4. CASE tab.owner = NoSession /\ HeadOp.session \in tab.invalidated /\ tab.owner # HeadOp.session
  <2>1. tab' = [tab EXCEPT !.releasing = HeadOp.session, !.stage = "undoing"]
        /\ UNCHANGED <<port, session, request, told>>
    BY <1>4 DEF EnableFails
  <2>2. QED BY <1>2, <2>1 DEF TypeOK, TabInspectState, Stage
<1>5. CASE tab.owner # HeadOp.session /\ ~ (tab.owner = NoSession /\ HeadOp.session \in tab.invalidated)
  <2>1. Settle(tab, FALSE) /\ port' = port
    BY <1>5 DEF EnableFails
  <2>2. QED BY <2>1, SettleType DEF TypeOK
<1>6. QED BY <1>3, <1>4, <1>5

LEMMA TypeStep ==
  ASSUME TypeOK, ActiveHasOperation, [Next]_vars
  PROVE  TypeOK' /\ ActiveHasOperation'
<1> USE DEF TypeOK, ActiveHasOperation
<1>1. CASE UNCHANGED vars
  BY <1>1 DEF vars
<1>2. CASE StartOperation
  <2>1. /\ tab.queue # << >> /\ tab \in TabInspectState
        /\ Proceed("injecting") \/ Proceed("messaging") \/ Settle(tab, TRUE)
        /\ UNCHANGED <<page, port>>
    BY <1>2 DEF StartOperation
  <2>2. QED BY <2>1, SettleType, ProceedType DEF Stage
<1>3. ASSUME NEW s \in Sessions, OpenSession(s) PROVE TypeOK' /\ ActiveHasOperation'
  BY <1>3 DEF OpenSession, TabInspectState
<1>4. CASE AskEnable
  <2> DEFINE t == [tab EXCEPT !.owner = session, !.releasing = NoSession,
                              !.invalidated = @ \ {session}]
  <2>1. session \in Sessions /\ t \in TabInspectState /\ t.queue = tab.queue
    BY <1>4 DEF AskEnable, TabInspectState
  <2>2. tab' = Queued(t, session, TRUE)
    BY <1>4 DEF AskEnable, Claim
  <2> HIDE DEF t
  <2>3. tab' \in TabInspectState /\ Len(tab'.queue) = Len(tab.queue) + 1 /\ tab'.queue # << >>
    BY <2>1, <2>2, QueuedType
  <2>4. Len(tab.queue) \in Nat /\ MaxQueue \in Nat
    BY LenProperties, InspectAssumption DEF TabInspectState
  <2>5. /\ Len(tab.queue) < MaxQueue /\ request' = "enable"
        /\ UNCHANGED <<session, told, page, port>>
    BY <1>4 DEF AskEnable, Claim, QueueHasRoom
  <2>6. QED BY <2>3, <2>4, <2>5 DEF Request
<1>5. CASE AskDisable
  <2>1. session \in Sessions /\ QueueHasRoom /\ Release(session)
    BY <1>5 DEF AskDisable
  <2>2. QED BY <1>5, <2>1, ReleaseType DEF AskDisable, Request
<1>6. CASE CloseSession
  <2>1. session \in Sessions /\ QueueHasRoom /\ Release(session)
    BY <1>6 DEF CloseSession
  <2>2. QED BY <1>6, <2>1, ReleaseType DEF CloseSession, Request
<1>7. CASE Answered
  BY <1>7 DEF Answered, Request
<1>8. CASE InjectionFails
  BY <1>8, EnableFailsType DEF InjectionFails
<1>9. CASE InjectionReturns
  <2>1. /\ tab.queue # << >> /\ tab \in TabInspectState
        /\ Proceed("messaging") \/ Settle(tab, TRUE)
        /\ UNCHANGED <<page, port>>
    BY <1>9 DEF InjectionReturns
  <2>2. QED BY <2>1, SettleType, ProceedType DEF Stage
<1>10. CASE EnableReturns
  <2>1. /\ tab.queue # << >> /\ tab \in TabInspectState
        /\ EnableFails \/ (Settle(tab, TRUE) /\ UNCHANGED port)
        /\ UNCHANGED page
    BY <1>10 DEF EnableReturns
  <2>2. QED BY <2>1, SettleType, EnableFailsType
<1>11. CASE EnableIsRefused
  BY <1>11, EnableFailsType DEF EnableIsRefused
<1>12. CASE DisableReturns \/ UndoReturns
  <2>1. LetGo(tab) \in TabInspectState /\ LetGo(tab).queue = tab.queue
    BY DEF LetGo, TabInspectState
  <2>2. /\ tab.queue # << >> /\ UNCHANGED <<page, port>>
        /\ \E t \in {tab, LetGo(tab)}, ok \in BOOLEAN : Settle(t, ok)
    BY <1>12 DEF DisableReturns, UndoReturns
  <2>3. PICK t \in {tab, LetGo(tab)}, ok \in BOOLEAN : Settle(t, ok)
    BY <2>2
  <2>4. t \in TabInspectState /\ t.queue = tab.queue
    BY <2>1
  <2>5. QED BY <2>2, <2>3, <2>4, SettleType
<1>13. CASE ScriptRuns
  BY <1>13, ProceedType DEF ScriptRuns, Stage
<1>14. ASSUME NEW p \in Ports, PageEnables(p) PROVE TypeOK' /\ ActiveHasOperation'
  <2>1. port' \in [Ports -> PortState]
    BY <1>14, PageClosesType DEF PageEnables, PortState
  <2>2. QED BY <1>14, <2>1, ProceedType DEF PageEnables, Stage
<1>15. CASE PageDisables
  <2>1. /\ Proceed("undone") \/ Proceed("answered")
        /\ port' \in [Ports -> PortState] /\ tab.stage # "waiting"
    BY <1>15, PageClosesType DEF PageDisables
  <2>2. QED BY <1>15, <2>1, ProceedType DEF PageDisables, Stage
<1>16. CASE NobodyAnswers
  <2>1. /\ Proceed("notUndone") \/ Proceed("unanswered")
        /\ tab.stage # "waiting"
    BY <1>16 DEF NobodyAnswers
  <2>2. QED BY <1>16, <2>1, ProceedType DEF NobodyAnswers, Stage
<1>17. CASE Navigate
  BY <1>17, PageClosesType DEF Navigate, NoPage, TabInspectState, Stage
<1>18. ASSUME NEW p \in Ports, PageLosesLease(p) PROVE TypeOK' /\ ActiveHasOperation'
  BY <1>18 DEF PageLosesLease, PortState
<1>19. ASSUME NEW p \in Ports, LeaseConnects(p) PROVE TypeOK' /\ ActiveHasOperation'
  <2> DEFINE arrived == [port EXCEPT ![p] = IF @ = "connecting" THEN "open" ELSE "closedByPage"]
  <2>1. arrived \in [Ports -> PortState]
    BY DEF PortState
  <2>2. /\ tab' \in {tab, [tab EXCEPT !.lease = p]}
        /\ \/ port' = arrived \/ port' = BackgroundCloses(arrived, p)
           \/ port' = BackgroundCloses(arrived, tab.lease)
        /\ UNCHANGED <<session, request, told, page>>
    BY <1>19 DEF LeaseConnects
  <2> HIDE DEF arrived
  <2>3. port' \in [Ports -> PortState]
    BY <2>1, <2>2, BackgroundClosesType
  <2>4. QED BY <2>2, <2>3 DEF TabInspectState
<1>20. ASSUME NEW p \in Ports, LeaseDisconnects(p) PROVE TypeOK' /\ ActiveHasOperation'
  <2>1. tab' \in TabInspectState /\ tab'.queue = tab.queue /\ tab'.stage = tab.stage
    <3>1. CASE tab.lease = p /\ tab.owner # NoSession
      <4>1. /\ tab.owner \in Sessions
            /\ tab' = [tab EXCEPT !.lease = NoPort, !.owner = NoSession, !.releasing = NoSession,
                                  !.invalidated = tab.invalidated \cup {tab.owner}]
        BY <1>20, <3>1 DEF LeaseDisconnects, TabInspectState
      <4>2. QED BY <4>1 DEF TabInspectState
    <3>2. CASE ~ (tab.lease = p /\ tab.owner # NoSession)
      BY <1>20, <3>2 DEF LeaseDisconnects, TabInspectState
    <3>3. QED BY <3>1, <3>2
  <2>2. request' \in Request /\ told' \in BOOLEAN
    BY <1>20 DEF LeaseDisconnects, NotifyLoss, Request
  <2>3. QED BY <1>20, <2>1, <2>2 DEF LeaseDisconnects, PortState
<1>21. QED
  BY <1>1, <1>2, <1>3, <1>4, <1>5, <1>6, <1>7, <1>8, <1>9, <1>10, <1>11, <1>12, <1>13,
     <1>14, <1>15, <1>16, <1>17, <1>18, <1>19, <1>20
     DEF Next, SessionStep, Answer, PageStep, LeaseStep

-----------------------------------------------------------------------------
(* The lease *)

\* What the queue does to a tab's owner and lease: nothing, or the owner goes
\* and the background closes its end.
LeaseKept == tab'.owner = tab.owner /\ tab'.lease = tab.lease /\ port' = port

LeaseLetGo ==
  /\ tab'.owner = NoSession /\ tab'.lease = NoPort
  /\ port' = BackgroundCloses(port, tab.lease)

LEMMA SettleKeeps ==
  ASSUME NEW t \in TabInspectState, t.owner = tab.owner, t.lease = tab.lease,
         NEW ok \in BOOLEAN, Settle(t, ok)
  PROVE  tab'.owner = tab.owner /\ tab'.lease = tab.lease
BY DEF Settle, TabInspectState

LEMMA ProceedKeeps ==
  ASSUME TypeOK, NEW stage \in Stage, Proceed(stage)
  PROVE  tab'.owner = tab.owner /\ tab'.lease = tab.lease
BY DEF Proceed, TypeOK, TabInspectState

LEMMA ReleaseLease ==
  ASSUME TypeOK, NEW s \in Sessions, Release(s)
  PROVE  LeaseKept \/ LeaseLetGo
<1>1. tab \in TabInspectState
  BY DEF TypeOK
<1>2. CASE tab.owner = s
  <2> DEFINE t == [tab EXCEPT !.owner = NoSession, !.releasing = s, !.lease = NoPort]
  <2>1. t \in TabInspectState /\ t.owner = NoSession /\ t.lease = NoPort
    BY <1>1 DEF TabInspectState
  <2>2. tab' = Queued(t, s, FALSE) /\ port' = BackgroundCloses(port, tab.lease)
    BY <1>2 DEF Release
  <2> HIDE DEF t
  <2>3. QED BY <2>1, <2>2 DEF LeaseLetGo, Queued, TabInspectState
<1>3. CASE tab.owner # s
  <2>1. tab' \in {tab, Queued(tab, s, FALSE)} /\ port' = port
    BY <1>3 DEF Release
  <2>2. QED BY <1>1, <2>1 DEF LeaseKept, Queued, TabInspectState
<1>4. QED BY <1>2, <1>3

LEMMA EnableFailsLease ==
  ASSUME TypeOK, EnableFails
  PROVE  LeaseKept \/ LeaseLetGo
<1>1. tab \in TabInspectState
  BY DEF TypeOK
<1>2. CASE Settle(tab, FALSE) /\ port' = port
  BY <1>1, <1>2, SettleKeeps DEF LeaseKept
<1>3. CASE tab' = [tab EXCEPT !.releasing = HeadOp.session, !.stage = "undoing"] /\ port' = port
  BY <1>1, <1>3 DEF LeaseKept, TabInspectState
<1>4. CASE /\ tab' = [tab EXCEPT !.owner = NoSession, !.releasing = HeadOp.session,
                                 !.lease = NoPort, !.stage = "undoing"]
           /\ port' = BackgroundCloses(port, tab.lease)
  BY <1>1, <1>4 DEF LeaseLetGo, TabInspectState
<1>5. QED BY <1>2, <1>3, <1>4 DEF EnableFails

LEMMA KeptOrLetGo ==
  ASSUME TypeOK, LeaseInv, LeaseKept \/ LeaseLetGo, page' = page
  PROVE  LeaseInv'
BY InspectAssumption DEF TypeOK, TabInspectState, LeaseInv, LeaseKept, LeaseLetGo, BackgroundCloses

LEMMA PageClosesKeeps ==
  ASSUME TypeOK, LeaseInv, NEW ports, ports = PageCloses(port, page.lease)
  PROVE  /\ DOMAIN ports = Ports
         /\ tab.lease # NoPort => ports[tab.lease] \in {"open", "closedByPage"}
         /\ \A q \in Ports : ports[q] = "open" => tab.lease = q
<1>1. /\ DOMAIN ports = Ports
      /\ \A q \in Ports :
           ports[q] = IF q # page.lease THEN port[q]
                      ELSE IF port[q] = "connecting" THEN "gone"
                      ELSE IF port[q] = "open" THEN "closedByPage" ELSE "free"
  BY DEF PageCloses
<1>2. tab.lease \in Ports \cup {NoPort} /\ page.lease \in Ports \cup {NoPort}
  BY DEF TypeOK, TabInspectState
<1>3. QED BY <1>1, <1>2, InspectAssumption DEF LeaseInv

LEMMA LeaseStepInv ==
  ASSUME TypeOK, LeaseInv, [Next]_vars
  PROVE  LeaseInv'
<1>1. CASE UNCHANGED vars
  BY <1>1 DEF vars, LeaseInv
<1>2. CASE StartOperation
  <2>1. /\ tab \in TabInspectState
        /\ Proceed("injecting") \/ Proceed("messaging") \/ Settle(tab, TRUE)
        /\ UNCHANGED <<page, port>>
    BY <1>2 DEF StartOperation, TypeOK
  <2>2. QED BY <2>1, SettleKeeps, ProceedKeeps, KeptOrLetGo DEF Stage, LeaseKept
<1>3. ASSUME NEW s \in Sessions, OpenSession(s) PROVE LeaseInv'
  BY <1>3, KeptOrLetGo DEF OpenSession, TypeOK, TabInspectState, LeaseKept
<1>4. CASE AskEnable
  <2>1. session \in Sessions /\ tab'.owner = session /\ tab'.lease = tab.lease
        /\ UNCHANGED <<page, port>>
    BY <1>4 DEF AskEnable, Claim, Queued, TypeOK, TabInspectState
  <2>2. QED BY <2>1, InspectAssumption DEF LeaseInv
<1>5. CASE AskDisable \/ CloseSession
  <2>1. session \in Sessions /\ Release(session) /\ page' = page
    BY <1>5 DEF AskDisable, CloseSession, TypeOK
  <2>2. QED BY <2>1, ReleaseLease, KeptOrLetGo
<1>6. CASE Answered
  BY <1>6, KeptOrLetGo DEF Answered, LeaseKept
<1>7. CASE InjectionFails \/ EnableIsRefused
  BY <1>7, EnableFailsLease, KeptOrLetGo DEF InjectionFails, EnableIsRefused
<1>8. CASE InjectionReturns
  <2>1. /\ tab \in TabInspectState
        /\ Proceed("messaging") \/ Settle(tab, TRUE)
        /\ UNCHANGED <<page, port>>
    BY <1>8 DEF InjectionReturns, TypeOK
  <2>2. tab'.owner = tab.owner /\ tab'.lease = tab.lease
    BY <2>1, SettleKeeps, ProceedKeeps DEF Stage
  <2>3. QED BY <2>1, <2>2, KeptOrLetGo DEF LeaseKept
<1>9. CASE EnableReturns
  <2>1. /\ tab \in TabInspectState /\ page' = page
        /\ EnableFails \/ (Settle(tab, TRUE) /\ port' = port)
    BY <1>9 DEF EnableReturns, TypeOK
  <2>2. QED BY <2>1, SettleKeeps, EnableFailsLease, KeptOrLetGo DEF LeaseKept
<1>10. CASE DisableReturns \/ UndoReturns
  <2>1. /\ LetGo(tab) \in TabInspectState /\ LetGo(tab).owner = tab.owner
        /\ LetGo(tab).lease = tab.lease /\ tab \in TabInspectState
    BY DEF LetGo, TypeOK, TabInspectState
  <2>2. /\ UNCHANGED <<page, port>>
        /\ \E t \in {tab, LetGo(tab)}, ok \in BOOLEAN : Settle(t, ok)
    BY <1>10 DEF DisableReturns, UndoReturns
  <2>3. PICK t \in {tab, LetGo(tab)}, ok \in BOOLEAN : Settle(t, ok)
    BY <2>2
  <2>4. t \in TabInspectState /\ t.owner = tab.owner /\ t.lease = tab.lease
    BY <2>1
  <2>5. QED BY <2>2, <2>3, <2>4, SettleKeeps, KeptOrLetGo DEF LeaseKept
<1>11. CASE ScriptRuns
  <2>1. /\ Proceed("injected") /\ port' = port
        /\ page' = [page EXCEPT !.scripted = TRUE]
    BY <1>11 DEF ScriptRuns
  <2>2. QED BY <2>1, ProceedKeeps DEF LeaseInv, Stage, TypeOK
<1>12. ASSUME NEW p \in Ports, PageEnables(p) PROVE LeaseInv'
  <2>1. tab'.owner = tab.owner /\ tab'.lease = tab.lease
    BY <1>12, ProceedKeeps DEF PageEnables, Stage
  <2> DEFINE closed == PageCloses(port, page.lease)
  <2>2. /\ port[p] = "free" /\ port' = [closed EXCEPT ![p] = "connecting"]
        /\ page' = [page EXCEPT !.capturing = TRUE, !.lease = p]
    BY <1>12 DEF PageEnables
  <2>3. page'.lease = p /\ tab.lease # p
    BY <2>2, InspectAssumption DEF LeaseInv, TypeOK
  <2> HIDE DEF closed
  <2>4. /\ DOMAIN closed = Ports
        /\ tab.lease # NoPort => closed[tab.lease] \in {"open", "closedByPage"}
        /\ \A q \in Ports : closed[q] = "open" => tab.lease = q
    BY PageClosesKeeps DEF closed
  <2>5. port'[p] = "connecting" /\ \A q \in Ports : q # p => port'[q] = closed[q]
    BY <2>2, <2>4
  <2>6. QED BY <2>1, <2>3, <2>4, <2>5, InspectAssumption DEF LeaseInv, TypeOK, TabInspectState
<1>13. CASE PageDisables
  <2>1. Proceed("undone") \/ Proceed("answered")
    BY <1>13 DEF PageDisables
  <2>2. tab'.owner = tab.owner /\ tab'.lease = tab.lease
    BY <2>1, ProceedKeeps DEF Stage
  <2>3. /\ port' = PageCloses(port, page.lease)
        /\ page' = [page EXCEPT !.capturing = FALSE, !.lease = NoPort]
    BY <1>13 DEF PageDisables
  <2>4. page'.capturing = FALSE /\ page'.lease = NoPort
    BY <2>3 DEF TypeOK
  <2>5. QED BY <2>2, <2>3, <2>4, PageClosesKeeps DEF LeaseInv
<1>14. CASE NobodyAnswers
  <2>1. Proceed("notUndone") \/ Proceed("unanswered")
    BY <1>14 DEF NobodyAnswers
  <2>2. QED BY <1>14, <2>1, ProceedKeeps, KeptOrLetGo DEF NobodyAnswers, Stage, LeaseKept
<1>15. CASE Navigate
  <2>1. tab'.owner = tab.owner /\ tab'.lease = tab.lease
    BY <1>15 DEF Navigate, TypeOK, TabInspectState
  <2>2. port' = PageCloses(port, page.lease) /\ page'.capturing = FALSE /\ page'.lease = NoPort
    BY <1>15 DEF Navigate, NoPage
  <2>3. QED BY <2>1, <2>2, PageClosesKeeps DEF LeaseInv
<1>16. ASSUME NEW p \in Ports, PageLosesLease(p) PROVE LeaseInv'
  BY <1>16, InspectAssumption DEF PageLosesLease, LeaseInv, TypeOK
<1>17. ASSUME NEW p \in Ports, LeaseConnects(p) PROVE LeaseInv'
  <2> DEFINE arrived == [port EXCEPT ![p] = IF @ = "connecting" THEN "open" ELSE "closedByPage"]
  <2>1. CASE tab.owner = NoSession
    <3>1. tab' = tab /\ page' = page /\ port' = BackgroundCloses(arrived, p)
      BY <1>17, <2>1 DEF LeaseConnects
    <3>2. QED
      BY <1>17, <2>1, <3>1 DEF LeaseConnects, BackgroundCloses, LeaseInv, TypeOK
  <2>2. CASE tab.owner # NoSession /\ tab.lease = NoPort
    <3>1. tab' = [tab EXCEPT !.lease = p] /\ page' = page /\ port' = arrived
      BY <1>17, <2>2 DEF LeaseConnects
    <3>2. tab'.owner = tab.owner /\ tab'.lease = p
      BY <3>1 DEF TypeOK, TabInspectState
    <3>3. QED
      BY <1>17, <2>2, <3>1, <3>2, InspectAssumption DEF LeaseConnects, LeaseInv, TypeOK
  <2>3. CASE tab.owner # NoSession /\ tab.lease # NoPort
    <3>1. /\ tab' = [tab EXCEPT !.lease = p] /\ page' = page
          /\ port' = BackgroundCloses(arrived, tab.lease)
      BY <1>17, <2>3 DEF LeaseConnects
    <3>2. tab'.owner = tab.owner /\ tab'.lease = p
      BY <3>1 DEF TypeOK, TabInspectState
    <3>3. QED
      BY <1>17, <2>3, <3>1, <3>2, InspectAssumption
         DEF LeaseConnects, BackgroundCloses, LeaseInv, TypeOK
  <2>4. QED BY <2>1, <2>2, <2>3
<1>18. ASSUME NEW p \in Ports, LeaseDisconnects(p) PROVE LeaseInv'
  <2>1. /\ port[p] = "closedByPage" /\ port' = [port EXCEPT ![p] = "free"] /\ page' = page
        /\ IF tab.lease = p THEN tab'.lease = NoPort
           ELSE tab'.lease = tab.lease /\ tab'.owner = tab.owner
    BY <1>18 DEF LeaseDisconnects, TypeOK, TabInspectState
  <2>2. QED BY <2>1, InspectAssumption DEF LeaseInv, TypeOK
<1>19. QED
  BY <1>1, <1>2, <1>3, <1>4, <1>5, <1>6, <1>7, <1>8, <1>9, <1>10, <1>11, <1>12, <1>13,
     <1>14, <1>15, <1>16, <1>17, <1>18
     DEF Next, SessionStep, Answer, PageStep, LeaseStep

-----------------------------------------------------------------------------
(* The ownership *)

LEMMA HeadFacts ==
  ASSUME TypeOK, tab.queue # << >>
  PROVE  /\ HeadOp \in Operation /\ HeadOp.session \in Sessions /\ HeadOp.enabled \in BOOLEAN
         /\ HeadOp = tab.queue[1] /\ Len(tab.queue) \in Nat \ {0}
         /\ 1 \in 1 .. Len(tab.queue)
<1>1. HeadOp \in Operation /\ HeadOp = tab.queue[1] /\ Len(tab.queue) \in Nat \ {0}
  BY TailFacts DEF HeadOp, TypeOK, TabInspectState
<1>2. QED BY <1>1 DEF Operation

\* The head of the queue is the live session's only while it waits.
LEMMA LiveHead ==
  ASSUME OwnershipInv, tab.queue # << >>, session # NoSession, HeadOp.session = session
  PROVE  /\ Len(tab.queue) = 1 /\ ~ told
         /\ request \in (IF HeadOp.enabled THEN {"enable", "lost"} ELSE {"disable"})
<1>1. /\ HeadOp = tab.queue[1] /\ 1 \in 1 .. Len(tab.queue)
  BY HeadFacts DEF OwnershipInv
<1>2. /\ 1 = Len(tab.queue)
      /\ request \in (IF tab.queue[1].enabled THEN {"enable", "lost"} ELSE {"disable"})
  BY <1>1 DEF OwnershipInv, LiveOperationIsLast
<1>3. request # "none"
  BY <1>2
<1>4. QED BY <1>1, <1>2, <1>3 DEF OwnershipInv, RequestIsLive

\* Steps that only move the head on.
LEMMA QuietStep ==
  ASSUME OwnershipInv, TypeOK', ActiveHasOperation', UNCHANGED <<session, request, told>>,
         tab'.owner = tab.owner, tab'.queue = tab.queue, Undoing' <=> Undoing
  PROVE  OwnershipInv'
BY DEF OwnershipInv, LiveOperationIsLast, RequestIsLive, ClaimIsOwned, UndoingHasNoOwner,
       HeadOp, BeliefIsOwned, OwnerIsShown

LEMMA ProceedOwnership ==
  ASSUME OwnershipInv, TypeOK', ActiveHasOperation', NEW stage \in Stage, Proceed(stage),
         stage \in {"undone", "notUndone"} <=> Undoing, stage # "undoing"
  PROVE  OwnershipInv'
<1>1. tab \in TabInspectState
  BY DEF OwnershipInv, TypeOK
<1>2. /\ tab'.owner = tab.owner /\ tab'.queue = tab.queue /\ tab'.stage = stage
      /\ UNCHANGED <<session, request, told>>
  BY <1>1 DEF Proceed, TabInspectState
<1>3. Undoing' <=> Undoing
  BY <1>2 DEF Undoing
<1>4. QED BY <1>2, <1>3, QuietStep

LEMMA SettleOwnership ==
  ASSUME OwnershipInv, TypeOK', ActiveHasOperation', tab.queue # << >>,
         NEW t \in TabInspectState, t.owner = tab.owner, t.queue = tab.queue,
         NEW ok \in BOOLEAN, Settle(t, ok),
         ok => ~ Undoing,
         ~ ok => tab.owner # HeadOp.session \/ ~ HeadOp.enabled
  PROVE  OwnershipInv'
<1>1. /\ tab'.owner = tab.owner /\ tab'.queue = Tail(tab.queue) /\ tab'.stage = "waiting"
      /\ told' = told /\ session' = session
      /\ request' = IF HeadOp.session # session THEN request
                    ELSE IF request = "enable" /\ ok THEN "granted" ELSE "settled"
  BY DEF Settle, TabInspectState
<1>2. /\ Tail(tab.queue) \in Seq(Operation)
      /\ Len(Tail(tab.queue)) = Len(tab.queue) - 1 /\ Len(tab.queue) \in Nat \ {0}
      /\ \A i \in 1 .. Len(Tail(tab.queue)) : Tail(tab.queue)[i] = tab.queue[i + 1]
      /\ HeadOp.session \in Sessions
  BY TailFacts, HeadFacts DEF OwnershipInv, TypeOK, TabInspectState
<1>3. ~ Undoing'
  BY <1>1 DEF Undoing
<1>4. CASE HeadOp.session # session
  <2>1. request' = request
    BY <1>1, <1>4
  <2>2. LiveOperationIsLast'
    <3>1. SUFFICES ASSUME session # NoSession, NEW i \in 1 .. Len(Tail(tab.queue)),
                          Tail(tab.queue)[i].session = session
                   PROVE  /\ i = Len(Tail(tab.queue))
                          /\ request \in (IF Tail(tab.queue)[i].enabled
                                            THEN {"enable", "lost"} ELSE {"disable"})
      BY <1>1, <2>1 DEF LiveOperationIsLast
    <3>2. i + 1 \in 1 .. Len(tab.queue) /\ Tail(tab.queue)[i] = tab.queue[i + 1]
      BY <1>2
    <3>3. /\ i + 1 = Len(tab.queue)
          /\ request \in (IF tab.queue[i + 1].enabled THEN {"enable", "lost"} ELSE {"disable"})
      BY <3>1, <3>2 DEF OwnershipInv, LiveOperationIsLast
    <3>4. QED BY <1>2, <3>2, <3>3
  <2>3. ClaimIsOwned'
    BY <1>1, <1>4, <2>1 DEF OwnershipInv, ClaimIsOwned
  <2>4. QED
    BY <1>1, <1>3, <2>1, <2>2, <2>3
       DEF OwnershipInv, RequestIsLive, UndoingHasNoOwner, BeliefIsOwned, OwnerIsShown
<1>5. CASE HeadOp.session = session
  <2>1. session # NoSession
    BY <1>2, <1>5, InspectAssumption
  <2>2. /\ Len(tab.queue) = 1 /\ ~ told
        /\ request \in (IF HeadOp.enabled THEN {"enable", "lost"} ELSE {"disable"})
    BY <1>5, <2>1, LiveHead
  <2>3. LiveOperationIsLast'
    BY <1>1, <1>2, <2>2 DEF LiveOperationIsLast
  <2>4. CASE request = "enable" /\ ok
    <3>1. tab.owner = session /\ request' = "granted"
      BY <1>1, <1>5, <2>4 DEF OwnershipInv, ClaimIsOwned
    <3>2. QED
      BY <1>1, <1>3, <2>1, <2>2, <2>3, <3>1
         DEF OwnershipInv, RequestIsLive, ClaimIsOwned, UndoingHasNoOwner, BeliefIsOwned, OwnerIsShown
  <2>5. CASE ~ (request = "enable" /\ ok)
    <3>1. request' = "settled"
      BY <1>1, <1>5, <2>5
    <3>2. tab.owner = NoSession
      BY <1>5, <2>2, <2>5 DEF OwnershipInv, OwnerIsShown
    <3>3. QED
      BY <1>1, <1>3, <2>1, <2>2, <2>3, <3>1, <3>2
         DEF OwnershipInv, RequestIsLive, ClaimIsOwned, UndoingHasNoOwner, BeliefIsOwned, OwnerIsShown
  <2>6. QED BY <2>4, <2>5
<1>6. QED BY <1>4, <1>5

LEMMA EnableFailsOwnership ==
  ASSUME OwnershipInv, TypeOK', ActiveHasOperation', tab.queue # << >>, ~ Undoing, EnableFails
  PROVE  OwnershipInv'
<1>1. tab \in TabInspectState /\ HeadOp.session \in Sessions /\ HeadOp.session # NoSession
  BY HeadFacts, InspectAssumption DEF OwnershipInv, TypeOK
<1>2. CASE tab.owner = HeadOp.session
  <2>1. /\ tab'.owner = NoSession /\ tab'.queue = tab.queue
        /\ UNCHANGED <<session, request, told>> /\ tab'.stage = "undoing"
    BY <1>1, <1>2 DEF EnableFails, TabInspectState
  <2>2. session = HeadOp.session /\ session # NoSession
    BY <1>1, <1>2 DEF OwnershipInv, OwnerIsShown
  <2>3. ~ told /\ request # "granted"
    BY <2>2, LiveHead
  <2>4. HeadOp' = HeadOp /\ Undoing'
    BY <2>1 DEF HeadOp, Undoing
  <2>5. LiveOperationIsLast'
    BY <2>1 DEF OwnershipInv, LiveOperationIsLast
  <2>6. QED
    BY <1>1, <2>1, <2>2, <2>3, <2>4, <2>5
       DEF OwnershipInv, RequestIsLive, ClaimIsOwned, UndoingHasNoOwner, BeliefIsOwned, OwnerIsShown
<1>3. CASE tab.owner # HeadOp.session /\ tab.owner = NoSession /\ HeadOp.session \in tab.invalidated
  <2>1. /\ tab'.owner = NoSession /\ tab'.queue = tab.queue
        /\ UNCHANGED <<session, request, told>> /\ tab'.stage = "undoing"
    BY <1>1, <1>3 DEF EnableFails, TabInspectState
  <2>2. request # "enable" /\ request # "granted"
    BY <1>3 DEF OwnershipInv, ClaimIsOwned, RequestIsLive
  <2>3. HeadOp' = HeadOp
    BY <2>1 DEF HeadOp
  <2>4. LiveOperationIsLast'
    BY <2>1 DEF OwnershipInv, LiveOperationIsLast
  <2>5. QED
    BY <1>1, <1>3, <2>1, <2>2, <2>3, <2>4
       DEF OwnershipInv, RequestIsLive, ClaimIsOwned, UndoingHasNoOwner, BeliefIsOwned, OwnerIsShown
<1>4. CASE tab.owner # HeadOp.session /\ ~ (tab.owner = NoSession /\ HeadOp.session \in tab.invalidated)
  <2>1. Settle(tab, FALSE)
    BY <1>4 DEF EnableFails
  <2>2. QED BY <1>1, <1>4, <2>1, SettleOwnership
<1>5. QED BY <1>2, <1>3, <1>4

\* The live session, which waits for no answer, puts an operation in the queue.
LEMMA AppendOwnership ==
  ASSUME OwnershipInv, session \in Sessions, request = "none", NEW enabled \in BOOLEAN,
         NEW op, op = [session |-> session, enabled |-> enabled],
         tab'.queue = Append(tab.queue, op), tab'.stage = tab.stage
  PROVE  /\ \A i \in 1 .. Len(tab'.queue) : tab'.queue[i].session = session =>
              i = Len(tab'.queue) /\ tab'.queue[i].enabled = enabled
         /\ Undoing' => Undoing /\ HeadOp' = HeadOp /\ HeadOp.session # session
<1>1. tab.queue \in Seq(Operation) /\ op \in Operation
  BY DEF OwnershipInv, TypeOK, TabInspectState, Operation
<1>2. /\ Len(tab.queue) \in Nat /\ Len(tab'.queue) = Len(tab.queue) + 1
      /\ \A i \in 1 .. Len(tab.queue) : tab'.queue[i] = tab.queue[i]
      /\ tab'.queue[Len(tab.queue) + 1] = op
      /\ tab.queue # << >> => Head(tab'.queue) = Head(tab.queue)
  BY <1>1, AppendFacts
<1>3. session # NoSession
  BY InspectAssumption
<1>4. \A i \in 1 .. Len(tab.queue) : tab.queue[i].session # session
  BY <1>3 DEF OwnershipInv, LiveOperationIsLast
<1>5. \A i \in 1 .. Len(tab'.queue) :
        i \in 1 .. Len(tab.queue) \/ i = Len(tab.queue) + 1
  BY <1>2
<1>6. ASSUME Undoing' PROVE Undoing /\ HeadOp' = HeadOp /\ HeadOp.session # session
  <2>1. Undoing /\ tab.stage # "waiting" /\ tab.queue # << >>
    BY <1>6 DEF Undoing, OwnershipInv, ActiveHasOperation
  <2>2. HeadOp = tab.queue[1] /\ 1 \in 1 .. Len(tab.queue)
    BY <2>1, HeadFacts DEF OwnershipInv
  <2>3. QED BY <1>2, <1>4, <2>1, <2>2 DEF HeadOp
<1>7. QED BY <1>2, <1>4, <1>5, <1>6

LEMMA ReleaseUnowns ==
  ASSUME OwnershipInv, session \in Sessions, Release(session)
  PROVE  tab'.owner = NoSession
<1>1. tab \in TabInspectState
  BY DEF OwnershipInv, TypeOK
<1>2. CASE tab.owner = session
  <2> DEFINE t == [tab EXCEPT !.owner = NoSession, !.releasing = session, !.lease = NoPort]
  <2>1. t \in TabInspectState /\ t.owner = NoSession
    BY <1>1 DEF TabInspectState
  <2>2. tab' = Queued(t, session, FALSE)
    BY <1>2 DEF Release
  <2> HIDE DEF t
  <2>3. QED BY <2>1, <2>2 DEF Queued, TabInspectState
<1>3. CASE tab.owner # session
  <2>1. tab' \in {tab, Queued(tab, session, FALSE)} /\ tab.owner = NoSession
    BY <1>3 DEF Release, OwnershipInv, OwnerIsShown
  <2>2. QED BY <1>1, <2>1 DEF Queued, TabInspectState
<1>4. QED BY <1>2, <1>3

LEMMA ReleaseAppends ==
  ASSUME OwnershipInv, session \in Sessions, Release(session)
  PROVE  tab' = tab \/ (tab'.queue = Append(tab.queue, [session |-> session, enabled |-> FALSE])
                        /\ tab'.stage = tab.stage)
<1>1. tab \in TabInspectState
  BY DEF OwnershipInv, TypeOK
<1>2. CASE tab.owner = session
  <2> DEFINE t == [tab EXCEPT !.owner = NoSession, !.releasing = session, !.lease = NoPort]
  <2>1. t \in TabInspectState /\ t.queue = tab.queue /\ t.stage = tab.stage
    BY <1>1 DEF TabInspectState
  <2>2. tab' = Queued(t, session, FALSE)
    BY <1>2 DEF Release
  <2> HIDE DEF t
  <2>3. QED BY <2>1, <2>2 DEF Queued, TabInspectState
<1>3. CASE tab.owner # session
  BY <1>1, <1>3 DEF Release, Queued, TabInspectState
<1>4. QED BY <1>2, <1>3

LEMMA OwnershipStep ==
  ASSUME OwnershipInv, [Next]_vars
  PROVE  OwnershipInv'
<1>0. TypeOK /\ ActiveHasOperation /\ TypeOK' /\ ActiveHasOperation' /\ tab \in TabInspectState
  BY TypeStep DEF OwnershipInv, TypeOK
<1>1. CASE UNCHANGED vars
  BY <1>0, <1>1, QuietStep DEF vars, Undoing
<1>2. CASE StartOperation
  <2>1. /\ tab.queue # << >> /\ ~ Undoing
        /\ Proceed("injecting") \/ Proceed("messaging") \/ Settle(tab, TRUE)
    BY <1>2 DEF StartOperation, Undoing
  <2>2. QED BY <1>0, <2>1, SettleOwnership, ProceedOwnership DEF Stage
<1>3. ASSUME NEW s \in Sessions, OpenSession(s) PROVE OwnershipInv'
  <2>1. /\ session = NoSession /\ session' = s /\ tab'.owner = tab.owner
        /\ tab'.queue = tab.queue /\ tab'.stage = tab.stage
        /\ UNCHANGED <<request, told>>
        /\ \A i \in DOMAIN tab.queue : tab.queue[i].session # s
    BY <1>0, <1>3 DEF OpenSession, Forgotten, TabInspectState
  <2>2. tab.owner = NoSession /\ request = "none" /\ ~ told /\ s # NoSession
    BY <2>1, InspectAssumption DEF OwnershipInv, OwnerIsShown, RequestIsLive
  <2>3. LiveOperationIsLast'
    <3>1. DOMAIN tab.queue = 1 .. Len(tab.queue)
      BY <1>0, LenProperties DEF TabInspectState
    <3>2. QED BY <2>1, <3>1 DEF LiveOperationIsLast
  <2>4. UndoingHasNoOwner'
    BY <2>1 DEF OwnershipInv, UndoingHasNoOwner, Undoing, HeadOp
  <2>5. QED
    BY <1>0, <2>1, <2>2, <2>3, <2>4
       DEF OwnershipInv, RequestIsLive, ClaimIsOwned, BeliefIsOwned, OwnerIsShown
<1>4. CASE AskEnable
  <2>1. /\ session \in Sessions /\ session # NoSession /\ request = "none" /\ ~ told
        /\ request' = "enable" /\ UNCHANGED <<session, told>>
    BY <1>0, <1>4 DEF AskEnable, TypeOK
  <2>2. /\ tab'.owner = session /\ tab'.stage = tab.stage
        /\ tab'.queue = Append(tab.queue, [session |-> session, enabled |-> TRUE])
    BY <1>0, <1>4 DEF AskEnable, Claim, Queued, TabInspectState
  <2>3. /\ \A i \in 1 .. Len(tab'.queue) : tab'.queue[i].session = session =>
             i = Len(tab'.queue) /\ tab'.queue[i].enabled = TRUE
        /\ Undoing' => Undoing /\ HeadOp' = HeadOp /\ HeadOp.session # session
    BY <2>1, <2>2, AppendOwnership
  <2>4. LiveOperationIsLast'
    BY <2>1, <2>3 DEF LiveOperationIsLast
  <2>5. QED
    BY <1>0, <2>1, <2>2, <2>3, <2>4
       DEF OwnershipInv, RequestIsLive, ClaimIsOwned, UndoingHasNoOwner, BeliefIsOwned, OwnerIsShown
<1>5. CASE AskDisable
  <2>1. /\ session \in Sessions /\ session # NoSession /\ request = "none" /\ Release(session)
        /\ request' = IF tab' = tab THEN "settled" ELSE "disable"
        /\ told' = FALSE /\ session' = session
    BY <1>0, <1>5 DEF AskDisable, TypeOK
  <2>2. /\ tab'.owner = NoSession
        /\ tab' = tab \/ (tab'.queue = Append(tab.queue, [session |-> session, enabled |-> FALSE])
                          /\ tab'.stage = tab.stage)
    BY <2>1, ReleaseUnowns, ReleaseAppends
  <2>3. LiveOperationIsLast' /\ UndoingHasNoOwner'
    <3>1. CASE tab' = tab
      <4>1. \A i \in 1 .. Len(tab.queue) : tab.queue[i].session # session
        BY <2>1 DEF OwnershipInv, LiveOperationIsLast
      <4>2. QED BY <2>1, <3>1, <4>1
              DEF OwnershipInv, LiveOperationIsLast, UndoingHasNoOwner, Undoing, HeadOp
    <3>2. CASE tab' # tab
      <4>1. /\ \A i \in 1 .. Len(tab'.queue) : tab'.queue[i].session = session =>
                 i = Len(tab'.queue) /\ tab'.queue[i].enabled = FALSE
            /\ Undoing' => Undoing /\ HeadOp' = HeadOp
        BY <2>1, <2>2, <3>2, AppendOwnership
      <4>2. Undoing' => HeadOp.session # NoSession
        BY <4>1, HeadFacts, InspectAssumption DEF OwnershipInv, ActiveHasOperation, Undoing
      <4>3. QED BY <2>1, <2>2, <3>2, <4>1, <4>2 DEF LiveOperationIsLast, UndoingHasNoOwner
    <3>3. QED BY <3>1, <3>2
  <2>4. QED
    BY <1>0, <2>1, <2>2, <2>3
       DEF OwnershipInv, RequestIsLive, ClaimIsOwned, BeliefIsOwned, OwnerIsShown
<1>6. CASE CloseSession
  <2>1. /\ session \in Sessions /\ Release(session)
        /\ session' = NoSession /\ request' = "none" /\ told' = FALSE
    BY <1>0, <1>6 DEF CloseSession, TypeOK
  <2>2. TypeOK'
    BY <1>0
  <2>3. UndoingHasNoOwner'
    <3>1. tab'.owner = NoSession
      BY <2>1, ReleaseUnowns
    <3>2. Undoing' => tab'.queue # << >>
      BY <1>0 DEF Undoing, ActiveHasOperation
    <3>3. Undoing' => HeadOp'.session \in Sessions
      BY <2>2, <3>2, TailFacts DEF HeadOp, TypeOK, TabInspectState, Operation
    <3>4. QED BY <3>1, <3>3, InspectAssumption DEF UndoingHasNoOwner
  <2>4. tab'.owner = NoSession
    BY <2>1, ReleaseUnowns
  <2>5. QED
    BY <1>0, <2>1, <2>3, <2>4
       DEF OwnershipInv, LiveOperationIsLast, RequestIsLive, ClaimIsOwned, BeliefIsOwned, OwnerIsShown
<1>7. CASE Answered
  <2>1. /\ request \in {"granted", "settled"} /\ told' = (request = "granted")
        /\ request' = "none" /\ UNCHANGED <<tab, session>>
    BY <1>7 DEF Answered
  <2>2. session # NoSession /\ ~ told
    BY <2>1 DEF OwnershipInv, RequestIsLive
  <2>3. \A i \in 1 .. Len(tab.queue) : tab.queue[i].session # session
    BY <2>1, <2>2 DEF OwnershipInv, LiveOperationIsLast
  <2>4. LiveOperationIsLast' /\ UndoingHasNoOwner'
    BY <2>1, <2>3 DEF OwnershipInv, LiveOperationIsLast, UndoingHasNoOwner, Undoing, HeadOp
  <2>5. CASE request = "granted"
    BY <1>0, <2>1, <2>2, <2>4, <2>5
       DEF OwnershipInv, RequestIsLive, ClaimIsOwned, BeliefIsOwned, OwnerIsShown
  <2>6. CASE request = "settled"
    BY <1>0, <2>1, <2>2, <2>4, <2>6
       DEF OwnershipInv, RequestIsLive, ClaimIsOwned, BeliefIsOwned, OwnerIsShown
  <2>7. QED BY <2>1, <2>5, <2>6
<1>8. CASE InjectionFails \/ EnableIsRefused
  <2>1. tab.queue # << >> /\ ~ Undoing /\ EnableFails
    BY <1>0, <1>8 DEF InjectionFails, EnableIsRefused, Undoing, ActiveHasOperation
  <2>2. QED BY <1>0, <2>1, EnableFailsOwnership
<1>9. CASE InjectionReturns
  <2>1. /\ tab.queue # << >> /\ ~ Undoing
        /\ Proceed("messaging") \/ Settle(tab, TRUE)
    BY <1>0, <1>9 DEF InjectionReturns, Undoing, ActiveHasOperation
  <2>2. QED BY <1>0, <2>1, SettleOwnership, ProceedOwnership DEF Stage
<1>10. CASE EnableReturns
  <2>1. /\ tab.queue # << >> /\ ~ Undoing
        /\ EnableFails \/ Settle(tab, TRUE)
    BY <1>0, <1>10 DEF EnableReturns, Undoing, ActiveHasOperation
  <2>2. QED BY <1>0, <2>1, SettleOwnership, EnableFailsOwnership
<1>11. CASE DisableReturns
  <2>1. LetGo(tab) \in TabInspectState /\ LetGo(tab).owner = tab.owner /\ LetGo(tab).queue = tab.queue
    BY <1>0 DEF LetGo, TabInspectState
  <2>2. /\ tab.queue # << >> /\ ~ Undoing /\ ~ HeadOp.enabled
        /\ Settle(LetGo(tab), TRUE) \/ Settle(tab, FALSE)
    BY <1>0, <1>11 DEF DisableReturns, Undoing, ActiveHasOperation
  <2>3. QED BY <1>0, <2>1, <2>2, SettleOwnership
<1>12. CASE UndoReturns
  <2>1. LetGo(tab) \in TabInspectState /\ LetGo(tab).owner = tab.owner /\ LetGo(tab).queue = tab.queue
    BY <1>0 DEF LetGo, TabInspectState
  <2>2. /\ tab.queue # << >> /\ Undoing
        /\ Settle(LetGo(tab), FALSE) \/ Settle(tab, FALSE)
    BY <1>0, <1>12 DEF UndoReturns, Undoing, ActiveHasOperation
  <2>3. tab.owner # HeadOp.session
    BY <1>12 DEF OwnershipInv, UndoingHasNoOwner, UndoReturns, Undoing
  <2>4. QED BY <1>0, <2>1, <2>2, <2>3, SettleOwnership
<1>13. CASE ScriptRuns
  BY <1>0, <1>13, ProceedOwnership DEF ScriptRuns, Stage, Undoing
<1>14. ASSUME NEW p \in Ports, PageEnables(p) PROVE OwnershipInv'
  BY <1>0, <1>14, ProceedOwnership DEF PageEnables, Stage, Undoing
<1>15. CASE PageDisables \/ NobodyAnswers
  <2>1. \/ tab.stage = "messaging" /\ (Proceed("answered") \/ Proceed("unanswered"))
        \/ tab.stage = "undoing" /\ (Proceed("undone") \/ Proceed("notUndone"))
    BY <1>15 DEF PageDisables, NobodyAnswers
  <2>2. QED BY <1>0, <2>1, ProceedOwnership DEF Stage, Undoing
<1>16. CASE Navigate
  <2>1. /\ tab'.owner = tab.owner /\ tab'.queue = tab.queue
        /\ \/ tab'.stage = tab.stage
           \/ tab.stage = "answered" /\ tab'.stage = "unanswered"
           \/ tab.stage = "undone" /\ tab'.stage = "notUndone"
        /\ UNCHANGED <<session, request, told>>
    BY <1>0, <1>16 DEF Navigate, TabInspectState
  <2>2. QED BY <1>0, <2>1, QuietStep DEF Undoing
<1>17. ASSUME NEW p \in Ports, PageLosesLease(p) \/ LeaseConnects(p) PROVE OwnershipInv'
  <2>1. tab' \in {tab, [tab EXCEPT !.lease = p]} /\ UNCHANGED <<session, request, told>>
    BY <1>17 DEF PageLosesLease, LeaseConnects
  <2>2. tab'.owner = tab.owner /\ tab'.queue = tab.queue /\ tab'.stage = tab.stage
    BY <1>0, <2>1 DEF TabInspectState
  <2>3. QED BY <1>0, <2>1, <2>2, QuietStep DEF Undoing
<1>18. ASSUME NEW p \in Ports, LeaseDisconnects(p) PROVE OwnershipInv'
  <2>1. CASE tab.lease = p /\ tab.owner # NoSession
    <3>1. /\ tab'.owner = NoSession /\ tab'.queue = tab.queue /\ tab'.stage = tab.stage
          /\ session' = session /\ session = tab.owner /\ NotifyLoss(tab.owner)
      BY <1>0, <1>18, <2>1 DEF LeaseDisconnects, TabInspectState, OwnershipInv, OwnerIsShown
    <3>2. /\ told' = FALSE
          /\ request' = IF request = "enable" THEN "lost"
                        ELSE IF request = "granted" THEN "settled" ELSE request
      BY <3>1 DEF NotifyLoss
    <3>3. LiveOperationIsLast'
      BY <3>1, <3>2 DEF OwnershipInv, LiveOperationIsLast
    <3>4. UndoingHasNoOwner'
      <4>1. Undoing' => HeadOp' = HeadOp /\ HeadOp.session # NoSession
        BY <1>0, <3>1, HeadFacts, InspectAssumption DEF Undoing, HeadOp, ActiveHasOperation
      <4>2. QED BY <3>1, <4>1 DEF UndoingHasNoOwner
    <3>5. QED
      BY <1>0, <2>1, <3>1, <3>2, <3>3, <3>4
         DEF OwnershipInv, RequestIsLive, ClaimIsOwned, BeliefIsOwned, OwnerIsShown
  <2>2. CASE ~ (tab.lease = p /\ tab.owner # NoSession)
    <3>1. tab' \in {tab, [tab EXCEPT !.lease = NoPort]} /\ UNCHANGED <<session, request, told>>
      BY <1>18, <2>2 DEF LeaseDisconnects
    <3>2. tab'.owner = tab.owner /\ tab'.queue = tab.queue /\ tab'.stage = tab.stage
      BY <1>0, <3>1 DEF TabInspectState
    <3>3. QED BY <1>0, <3>1, <3>2, QuietStep DEF Undoing
  <2>3. QED BY <2>1, <2>2
<1>19. QED
  BY <1>1, <1>2, <1>3, <1>4, <1>5, <1>6, <1>7, <1>8, <1>9, <1>10, <1>11, <1>12, <1>13,
     <1>14, <1>15, <1>16, <1>17, <1>18
     DEF Next, SessionStep, Answer, PageStep, LeaseStep

-----------------------------------------------------------------------------
(* The theorems *)

LEMMA InitInv == Init => OwnershipInv /\ LeaseInv
<1>1. << >> \in Seq(Operation) /\ Len(<< >>) = 0
  BY EmptySeq
<1> SUFFICES ASSUME Init PROVE OwnershipInv /\ LeaseInv
  OBVIOUS
<1>2. TypeOK
  <2>1. tab \in TabInspectState /\ Len(tab.queue) <= MaxQueue
    BY <1>1, InspectAssumption DEF Init, TabInspectState, Stage
  <2>2. /\ page \in [scripted : BOOLEAN, capturing : BOOLEAN, lease : Ports \cup {NoPort}]
        /\ port \in [Ports -> PortState]
    BY DEF Init, NoPage, PortState
  <2>3. QED BY <2>1, <2>2 DEF Init, TypeOK, Request
<1>3. QED
  BY <1>2 DEF Init, NoPage, OwnershipInv, LeaseInv, ActiveHasOperation, LiveOperationIsLast,
              RequestIsLive, ClaimIsOwned, UndoingHasNoOwner, Undoing, BeliefIsOwned, OwnerIsShown

LEMMA InductiveInv == Spec => [](OwnershipInv /\ LeaseInv)
<1>1. OwnershipInv /\ LeaseInv /\ [Next]_vars => (OwnershipInv /\ LeaseInv)'
  BY OwnershipStep, LeaseStepInv DEF OwnershipInv
<1>2. QED BY InitInv, <1>1, PTL DEF Spec

\* Every variable keeps its type; the queue stays within its bound.
THEOREM InspectTypeCorrect == Spec => []TypeOK
<1>1. OwnershipInv => TypeOK
  BY DEF OwnershipInv
<1>2. QED BY InductiveInv, <1>1, PTL

\* What the background last told a live panel about inspect mode is so.
THEOREM BeliefOwned == Spec => []BeliefIsOwned
<1>1. OwnershipInv => BeliefIsOwned
  BY DEF OwnershipInv
<1>2. QED BY InductiveInv, <1>1, PTL

\* Whoever owns inspect mode is live and shows it, or is about to be told.
THEOREM OwnerShown == Spec => []OwnerIsShown
<1>1. OwnershipInv => OwnerIsShown
  BY DEF OwnershipInv
<1>2. QED BY InductiveInv, <1>1, PTL

\* The page never captures without a lease one of whose ends watches it.
THEOREM CaptureLeased == Spec => []CaptureIsLeased
<1>1. OwnershipInv /\ LeaseInv => CaptureIsLeased
  BY InspectAssumption DEF OwnershipInv, TypeOK, LeaseInv, CaptureIsLeased
<1>2. QED BY InductiveInv, <1>1, PTL

=============================================================================
