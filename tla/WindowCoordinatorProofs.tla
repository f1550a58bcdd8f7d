---------------------- MODULE WindowCoordinatorProofs ----------------------
(***************************************************************************)
(* Proofs that the coordinator keeps IInv, for every set of panels and     *)
(* links and whatever faults happen, and the safety properties it implies. *)
(* Every helper of the coordinator either lets the window's state fade (it *)
(* drops a claim: a client, a link, a pending operation's continuation) or *)
(* adds one claim where none is left; lemma Fading covers the former, the  *)
(* lemmas on Enqueue, Dequeue and OpenClient the latter.                   *)
(*                                                                         *)
(* A second invariant, PromisesKept, is inductive relative to IInv.  Its   *)
(* part Orderly is about what the panels are told: who is still to end a   *)
(* "linking" or "reconnecting", and what stands behind a "linked".  Its    *)
(* part Remembers is about links the window was made to drop: what is left *)
(* of them in the queue, the client and the storage.  With both,           *)
(* the coordinator implements WindowLink.                                  *)
(***************************************************************************)
EXTENDS WindowCoordinator, SequenceTheorems, TLAPS

-----------------------------------------------------------------------------
(* Types of the helpers *)

LEMMA Empties ==
  NoPending \in Pending /\ NoLink \in MaybeLink /\ 0 \in 0 .. MaxAttempts
BY ConstantsAssumption DEF Pending, NoPending, MaybeLink

LEMMA OutdatedType ==
  ASSUME NEW q \in Seq(StoreOp)
  PROVE  /\ Outdated(q) \in Seq(StoreOp)
         /\ Len(Outdated(q)) = Len(q)
         /\ \A i \in DOMAIN q : Outdated(q)[i] = [q[i] EXCEPT !.live = FALSE]
<1>1. /\ DOMAIN q = 1 .. Len(q) /\ Len(q) \in Nat
      /\ \A i \in 1 .. Len(q) : q[i] \in StoreOp
  BY ElementOfSeq, LenProperties
<1>2. \A i \in 1 .. Len(q) : [q[i] EXCEPT !.live = FALSE] \in StoreOp
  BY <1>1 DEF StoreOp
<1>3. Outdated(q) = [i \in 1 .. Len(q) |-> [q[i] EXCEPT !.live = FALSE]]
  BY <1>1 DEF Outdated
<1> HIDE DEF Outdated
<1>4. Outdated(q) \in Seq(StoreOp) /\ Len(Outdated(q)) = Len(q)
  BY <1>1, <1>2, <1>3, SeqDef, LenProperties
<1> QED BY <1>1, <1>3, <1>4

LEMMA WithoutTokenType ==
  ASSUME NEW q \in Seq(StoreOp)
  PROVE  /\ WithoutToken(q) \in Seq(StoreOp)
         /\ Len(WithoutToken(q)) = Len(q)
         /\ \A i \in DOMAIN q :
              WithoutToken(q)[i] = IF q[i].kind = "save"
                                     THEN [q[i] EXCEPT !.live = FALSE] ELSE q[i]
<1>1. /\ DOMAIN q = 1 .. Len(q) /\ Len(q) \in Nat
      /\ \A i \in 1 .. Len(q) : q[i] \in StoreOp
  BY ElementOfSeq, LenProperties
<1> DEFINE Elem(i) == IF q[i].kind = "save" THEN [q[i] EXCEPT !.live = FALSE] ELSE q[i]
<1>2. \A i \in 1 .. Len(q) : Elem(i) \in StoreOp
  BY <1>1 DEF StoreOp
<1>3. WithoutToken(q) = [i \in 1 .. Len(q) |-> Elem(i)]
  BY <1>1 DEF WithoutToken
<1> HIDE DEF WithoutToken, Elem
<1>4. WithoutToken(q) \in Seq(StoreOp) /\ Len(WithoutToken(q)) = Len(q)
  BY <1>1, <1>2, <1>3, SeqDef, LenProperties
<1> QED BY <1>1, <1>3, <1>4 DEF Elem

LEMMA OpType ==
  ASSUME NEW kind \in OpKind, NEW live \in BOOLEAN, NEW link \in MaybeLink
  PROVE  Op(kind, live, link) \in StoreOp
BY DEF Op, StoreOp

LEMMA EnqueueType ==
  ASSUME NEW r \in WindowRecord, NEW op \in StoreOp
  PROVE  Enqueue(r, op) \in WindowRecord
<1>1. Append(r.queue, op) \in Seq(StoreOp)
  BY AppendProperties DEF WindowRecord
<1> QED BY <1>1 DEF Enqueue, WindowRecord

LEMMA DequeueType ==
  ASSUME NEW r \in WindowRecord, r.queue # << >>
  PROVE  Dequeue(r) \in WindowRecord
<1>1. Tail(r.queue) \in Seq(StoreOp)
  BY HeadTailProperties DEF WindowRecord
<1> QED BY <1>1 DEF Dequeue, WindowRecord

LEMMA BumpGenerationType ==
  ASSUME NEW r \in WindowRecord
  PROVE  BumpGeneration(r) \in WindowRecord
BY OutdatedType DEF BumpGeneration, WindowRecord, Client

LEMMA InvalidateType ==
  ASSUME NEW r \in WindowRecord
  PROVE  Invalidate(r) \in WindowRecord
BY BumpGenerationType DEF Invalidate, WindowRecord

LEMMA DropClientType ==
  ASSUME NEW r \in WindowRecord
  PROVE  DropClient(r) \in WindowRecord
BY WithoutTokenType DEF DropClient, WindowRecord, Client, NoClient, MaybeLink

LEMMA SetStateType ==
  ASSUME NEW r \in WindowRecord, NEW s \in ConnectionState
  PROVE  SetState(r, s) \in WindowRecord
BY DEF SetState, WindowRecord

LEMMA OnConnectingType ==
  ASSUME NEW r \in WindowRecord
  PROVE  OnConnecting(r) \in WindowRecord
BY DEF OnConnecting, SetState, WindowRecord, ConnectionState

LEMMA OpenClientType ==
  ASSUME NEW r \in WindowRecord, NEW mode \in {"link", "stored"},
         NEW cred \in MaybeLink, NEW outcome \in OpenOutcomes
  PROVE  OpenClient(r, mode, cred, outcome) \in WindowRecord
<1>1. outcome \in {"opens", "createThrows", "startThrows"}
  BY DEF OpenOutcomes
<1>2. CASE outcome = "createThrows"
  BY <1>2 DEF OpenClient, WindowRecord, ConnectionState
<1>3. CASE outcome = "startThrows"
  <2>1. DropClient(OnConnecting(r)) \in WindowRecord
    BY OnConnectingType, DropClientType
  <2>2. SetState(DropClient(OnConnecting(r)), "error") \in WindowRecord
    BY <2>1, SetStateType DEF ConnectionState
  <2> QED BY <1>3, <2>2 DEF OpenClient
<1>4. CASE outcome = "opens"
  <2> DEFINE n == r.orphans + (IF HasSocket(r) THEN 1 ELSE 0)
             c == [phase |-> "opening", mode |-> mode, cred |-> cred, live |-> TRUE]
             opened == [r EXCEPT !.orphans = n, !.client = c, !.connected = FALSE]
  <2>a. n \in Nat
    BY DEF WindowRecord
  <2>b. c \in Client
    BY DEF Client, SocketPhase
  <2> HIDE DEF n, c
  <2>1. opened \in WindowRecord
    BY <2>a, <2>b DEF WindowRecord
  <2> USE DEF n, c
  <2>2. OpenClient(r, mode, cred, outcome) = OnConnecting(opened)
    BY <1>4 DEF OpenClient
  <2> HIDE DEF opened
  <2> QED BY <2>1, <2>2, OnConnectingType
<1> QED BY <1>1, <1>2, <1>3, <1>4

-----------------------------------------------------------------------------
(* Helpers that only let the window's state fade *)

\* The same operations, some of them no longer heard or now aborted.
FadedQueue(q2, q) ==
  /\ DOMAIN q2 = DOMAIN q
  /\ \A i \in DOMAIN q :
       /\ q2[i].kind = q[i].kind
       /\ q2[i].link = q[i].link
       /\ q[i].aborted => q2[i].aborted
       /\ q2[i].live => q[i].live

Faded(r2, r) ==
  /\ r2 \in WindowRecord
  /\ FadedQueue(r2.queue, r.queue)
  /\ r2.head = r.head
  /\ r2.orphans = r.orphans
  /\ r2.link \in {r.link, NoLink}
  /\ r2.client.phase # "absent" =>
       r.client.phase # "absent" /\ r2.client.live /\ r2.panels # {}
  /\ r2.pending.kind # "none" => r.pending.kind # "none"
  /\ r.present => r2.present
  /\ \/ r2.writing = r.writing
     \/ NoneEstablishing(r2)

LEMMA FadingHarmless ==
  ASSUME NEW r \in WindowRecord, NEW r2 \in WindowRecord,
         FadedQueue(r2.queue, r.queue), r2.head = r.head,
         NEW i \in DOMAIN r.queue, Harmless(r, i)
  PROVE  Harmless(r2, i)
BY DEF FadedQueue, Harmless, StoreSkips

LEMMA Fading ==
  ASSUME NEW r, NEW s, NEW r2, Consistent(r, s), Faded(r2, r)
  PROVE  Consistent(r2, s)
<1>0. r \in WindowRecord /\ r2 \in WindowRecord
  BY DEF Consistent, Faded
<1>1. r2.orphans = 0
  BY DEF Consistent, Faded
<1>2. /\ NoneAdopting(r) => NoneAdopting(r2)
      /\ NoneEstablishing(r) => NoneEstablishing(r2)
  BY DEF NoneAdopting, NoneEstablishing, Adopting, Establishing, Faded, FadedQueue
<1>3. ClientIsOwned(r2)
  BY <1>2 DEF Consistent, ClientIsOwned, Faded
<1>4. OneEstablishing(r2)
  BY DEF Consistent, OneEstablishing, Establishing, Faded, FadedQueue
<1>5. PendingIsExclusive(r2)
  BY <1>2 DEF Consistent, PendingIsExclusive, Faded
<1>6. SaveIsWriting(r2)
  BY DEF Consistent, SaveIsWriting, NoneEstablishing, Establishing, Faded, FadedQueue
<1>7. LinkIsSettled(r2, s)
  BY <1>0, <1>2, FadingHarmless DEF Consistent, LinkIsSettled, Faded, FadedQueue
<1>8. NothingAfterEstablishing(r2)
  BY <1>0, FadingHarmless DEF Consistent, NothingAfterEstablishing, Faded, FadedQueue
<1>9. HeadIsApplied(r2, s)
  <2>1. /\ DOMAIN r.queue = 1 .. Len(r.queue) /\ Len(r.queue) \in Nat
        /\ DOMAIN r2.queue = 1 .. Len(r2.queue) /\ Len(r2.queue) \in Nat
        /\ r.queue \in Seq(StoreOp) /\ r2.queue \in Seq(StoreOp)
    BY <1>0, LenProperties DEF WindowRecord
  <2>2. Len(r2.queue) = Len(r.queue)
    BY <2>1 DEF Faded, FadedQueue
  <2>3. /\ r2.queue # << >> => r.queue # << >> /\ 1 \in DOMAIN r.queue
        /\ r2.queue = << >> => r.queue = << >>
    BY <2>1, <2>2, EmptySeq
  <2> QED BY <2>3 DEF Consistent, HeadIsApplied, Faded, FadedQueue
<1> QED BY <1>0, <1>1, <1>3, <1>4, <1>5, <1>6, <1>7, <1>8, <1>9 DEF Consistent

LEMMA SetStateFades ==
  ASSUME NEW r, NEW s, Consistent(r, s), NEW state \in ConnectionState
  PROVE  Consistent(SetState(r, state), s)
<1>1. r \in WindowRecord /\ SetState(r, state) \in WindowRecord
  BY SetStateType DEF Consistent
<1>2. Faded(SetState(r, state), r)
  BY <1>1 DEF Faded, FadedQueue, Consistent, ClientIsOwned, SetState, WindowRecord
<1> QED BY <1>2, Fading

LEMMA OnConnectingFades ==
  ASSUME NEW r, NEW s, Consistent(r, s)
  PROVE  Consistent(OnConnecting(r), s)
BY SetStateFades DEF OnConnecting, ConnectionState

\* What is left once the generation is bumped: no operation will be heard.
LEMMA BumpedGeneration ==
  ASSUME NEW r \in WindowRecord
  PROVE  LET d == BumpGeneration(r) IN
         /\ d \in WindowRecord
         /\ FadedQueue(d.queue, r.queue)
         /\ NoneEstablishing(d)
         /\ NoneAdopting(d)
         /\ d.client.phase = r.client.phase
         /\ \A f \in DOMAIN r \ {"queue", "client"} : d[f] = r[f]
<1> DEFINE d == BumpGeneration(r)
<1>1. d \in WindowRecord
  BY BumpGenerationType
<1>2. d.queue = Outdated(r.queue) /\ r.queue \in Seq(StoreOp)
  BY DEF BumpGeneration, WindowRecord
<1>3. /\ DOMAIN d.queue = DOMAIN r.queue
      /\ \A i \in DOMAIN r.queue : d.queue[i] = [r.queue[i] EXCEPT !.live = FALSE]
  BY <1>2 DEF Outdated
<1>4. \A i \in DOMAIN r.queue : r.queue[i] \in StoreOp
  BY <1>2, ElementOfSeq, LenProperties
<1>5. FadedQueue(d.queue, r.queue) /\ \A i \in DOMAIN d.queue : ~ d.queue[i].live
  BY <1>3, <1>4 DEF FadedQueue, StoreOp
<1>6. NoneEstablishing(d) /\ NoneAdopting(d)
  BY <1>5 DEF NoneEstablishing, NoneAdopting, Establishing, Adopting
<1>7. d.client.phase = r.client.phase
  BY DEF BumpGeneration, WindowRecord, Client
<1>8. \A f \in DOMAIN r \ {"queue", "client"} : d[f] = r[f]
  BY DEF BumpGeneration, WindowRecord
<1> QED BY <1>1, <1>5, <1>6, <1>7, <1>8

LEMMA DroppedClient ==
  ASSUME NEW r \in WindowRecord
  PROVE  LET d == DropClient(r) IN
         /\ d \in WindowRecord
         /\ FadedQueue(d.queue, r.queue)
         /\ NoneEstablishing(r) => NoneEstablishing(d)
         /\ d.client = NoClient
         /\ ~ d.connected
         /\ r.timer = "none" => d.timer = "none"
         /\ \A f \in DOMAIN r \ {"queue", "client", "connected", "timer"} : d[f] = r[f]
<1> DEFINE d == DropClient(r)
<1>1. d \in WindowRecord
  BY DropClientType
<1>2. d.queue = WithoutToken(r.queue) /\ r.queue \in Seq(StoreOp)
  BY DEF DropClient, WindowRecord
<1>3. /\ DOMAIN d.queue = DOMAIN r.queue
      /\ \A i \in DOMAIN r.queue :
           d.queue[i] = IF r.queue[i].kind = "save"
                          THEN [r.queue[i] EXCEPT !.live = FALSE] ELSE r.queue[i]
  BY <1>2 DEF WithoutToken
<1>4. \A i \in DOMAIN r.queue : r.queue[i] \in StoreOp
  BY <1>2, ElementOfSeq, LenProperties
<1>5. FadedQueue(d.queue, r.queue)
  BY <1>3, <1>4 DEF FadedQueue, StoreOp
<1>6. NoneEstablishing(r) => NoneEstablishing(d)
  BY <1>5 DEF NoneEstablishing, Establishing, FadedQueue
<1>7. d.client = NoClient /\ ~ d.connected /\ (r.timer = "none" => d.timer = "none")
  BY DEF DropClient, WindowRecord
<1>8. \A f \in DOMAIN r \ {"queue", "client", "connected", "timer"} : d[f] = r[f]
  BY DEF DropClient, WindowRecord
<1> QED BY <1>1, <1>5, <1>6, <1>7, <1>8

\* What invalidate followed by the loss of the client leaves.
LEMMA Cleared ==
  ASSUME NEW r \in WindowRecord
  PROVE  LET d == DropClient(Invalidate(r)) IN
         /\ d \in WindowRecord
         /\ FadedQueue(d.queue, r.queue)
         /\ NoneEstablishing(d)
         /\ d.client = NoClient
         /\ ~ d.connected /\ d.timer = "none"
         /\ \A f \in {"head", "orphans", "link", "pending", "panels", "present",
                      "writing", "attempts"} : d[f] = r[f]
<1> DEFINE b == BumpGeneration(r)
           v == Invalidate(r)
           d == DropClient(v)
<1>1. /\ b \in WindowRecord /\ FadedQueue(b.queue, r.queue) /\ NoneEstablishing(b)
      /\ \A f \in DOMAIN r \ {"queue", "client"} : b[f] = r[f]
  BY BumpedGeneration
<1>2. v = [b EXCEPT !.timer = "none"]
  BY DEF Invalidate
<1> HIDE DEF b, v
<1>3. /\ v \in WindowRecord /\ v.queue = b.queue /\ v.timer = "none"
      /\ \A f \in DOMAIN b \ {"timer"} : v[f] = b[f]
  BY <1>1, <1>2 DEF WindowRecord
<1>4. NoneEstablishing(v)
  BY <1>1, <1>3 DEF NoneEstablishing
<1>5. /\ d \in WindowRecord /\ FadedQueue(d.queue, v.queue) /\ NoneEstablishing(d)
      /\ d.client = NoClient /\ ~ d.connected /\ d.timer = "none"
      /\ \A f \in DOMAIN v \ {"queue", "client", "connected", "timer"} : d[f] = v[f]
  BY <1>3, <1>4, DroppedClient
<1>6. FadedQueue(d.queue, r.queue)
  BY <1>1, <1>3, <1>5 DEF FadedQueue
<1> HIDE DEF d
<1> DEFINE Kept == {"head", "orphans", "link", "pending", "panels", "present",
                    "writing", "attempts"}
<1>7. \A f \in Kept : d[f] = v[f]
  <2>1. Kept \subseteq DOMAIN v \ {"queue", "client", "connected", "timer"}
    BY <1>3 DEF WindowRecord
  <2>2. QED BY <1>5, <2>1
<1>8. \A f \in Kept : v[f] = b[f]
  <2>1. Kept \subseteq DOMAIN b \ {"timer"}
    BY <1>1 DEF WindowRecord
  <2>2. QED BY <1>3, <2>1
<1>9. \A f \in Kept : b[f] = r[f]
  <2>1. Kept \subseteq DOMAIN r \ {"queue", "client"}
    BY DEF WindowRecord
  <2>2. QED BY <1>1, <2>1
<1>10. \A f \in Kept : d[f] = r[f]
  BY <1>7, <1>8, <1>9
<1> QED BY <1>5, <1>6, <1>10 DEF v, d

LEMMA DropClientFades ==
  ASSUME NEW r, NEW s, Consistent(r, s)
  PROVE  Consistent(DropClient(r), s)
<1>1. r \in WindowRecord
  BY DEF Consistent
<1> DEFINE d == DropClient(r)
<1>2. /\ d \in WindowRecord /\ FadedQueue(d.queue, r.queue)
      /\ d.client = NoClient
      /\ \A f \in DOMAIN r \ {"queue", "client", "connected", "timer"} : d[f] = r[f]
  BY <1>1, DroppedClient
<1> HIDE DEF d
<1>3. Faded(d, r)
  BY <1>1, <1>2 DEF Faded, NoClient, WindowRecord
<1> QED BY <1>3, Fading DEF d

LEMMA StopTerminalAttemptFades ==
  ASSUME NEW r, NEW s, Consistent(r, s), NEW state \in ConnectionState
  PROVE  Consistent(StopTerminalAttempt(r, state), s)
<1>1. r \in WindowRecord
  BY DEF Consistent
<1> DEFINE d == DropClient(Invalidate(r))
           e == StopTerminalAttempt(r, state)
<1>2. /\ d \in WindowRecord /\ FadedQueue(d.queue, r.queue)
      /\ NoneEstablishing(d) /\ d.client = NoClient
      /\ \A f \in {"head", "orphans", "link", "pending", "panels", "present",
                   "writing", "attempts"} : d[f] = r[f]
  BY <1>1, Cleared
<1>3. e = [d EXCEPT !.pending = NoPending, !.writing = FALSE, !.attempts = 0,
                    !.state = state]
  BY DEF StopTerminalAttempt
<1> HIDE DEF d, e
<1>4. e \in WindowRecord
  BY <1>2, <1>3, Empties DEF WindowRecord
<1>5. NoneEstablishing(e)
  BY <1>2, <1>3 DEF NoneEstablishing, WindowRecord
<1>6. Faded(e, r)
  BY <1>2, <1>3, <1>4, <1>5 DEF Faded, NoClient, NoPending, WindowRecord
<1> QED BY <1>6, Fading DEF e

LEMMA StopStoredReconnectFades ==
  ASSUME NEW r, NEW s, Consistent(r, s)
  PROVE  Consistent(StopStoredReconnect(r), s)
<1>1. StopStoredReconnect(r) = StopTerminalAttempt(r, "offline")
  BY DEF StopStoredReconnect, StopTerminalAttempt
<1> QED BY <1>1, StopTerminalAttemptFades DEF ConnectionState

LEMMA ScheduleReconnectFades ==
  ASSUME NEW r, NEW s, Consistent(r, s)
  PROVE  Consistent(ScheduleReconnect(r), s)
<1>1. r \in WindowRecord
  BY DEF Consistent
<1>2. CASE ~ CanScheduleReconnect(r)
  BY <1>2 DEF ScheduleReconnect
<1>3. CASE CanScheduleReconnect(r) /\ r.attempts >= MaxAttempts
  <2>1. ScheduleReconnect(r) = StopStoredReconnect(r)
    BY <1>1, <1>3, ConstantsAssumption DEF ScheduleReconnect, WindowRecord
  <2> QED BY <2>1, StopStoredReconnectFades
<1>4. CASE CanScheduleReconnect(r) /\ r.attempts < MaxAttempts
  <2> DEFINE e == [r EXCEPT !.state = "reconnecting", !.attempts = @ + 1,
                            !.timer = "armed"]
  <2>1. ScheduleReconnect(r) = e
    BY <1>1, <1>4, ConstantsAssumption DEF ScheduleReconnect, WindowRecord
  <2>2. e \in WindowRecord
    <3>1. r.attempts + 1 \in 0 .. MaxAttempts
      BY <1>1, <1>4, ConstantsAssumption DEF WindowRecord
    <3>2. "reconnecting" \in ConnectionState
      BY DEF ConnectionState
    <3> QED BY <1>1, <3>1, <3>2 DEF WindowRecord
  <2>3. Faded(e, r)
    BY <1>1, <2>2 DEF Faded, FadedQueue, Consistent, ClientIsOwned, WindowRecord
  <2> QED BY <2>1, <2>3, Fading
<1>5. r.attempts \in Nat /\ MaxAttempts \in Nat
  BY <1>1, ConstantsAssumption DEF WindowRecord
<1> QED BY <1>2, <1>3, <1>4, <1>5

\* Forgetting the link leaves no claim at all: no client, no link, no pending
\* link, no continuation.
LEMMA ForgetLinkFades ==
  ASSUME NEW r, NEW s, Consistent(r, s), NEW state \in ConnectionState
  PROVE  LET e == ForgetLink(r, state) IN
         /\ Consistent(e, s)
         /\ NoneEstablishing(e)
         /\ e.client = NoClient
         /\ e.link = NoLink
         /\ e.pending = NoPending
         /\ e.present = r.present
<1>1. r \in WindowRecord
  BY DEF Consistent
<1> DEFINE d == DropClient(Invalidate(r))
           e == ForgetLink(r, state)
<1>2. /\ d \in WindowRecord /\ FadedQueue(d.queue, r.queue)
      /\ NoneEstablishing(d) /\ d.client = NoClient
      /\ \A f \in {"head", "orphans", "link", "pending", "panels", "present",
                   "writing", "attempts"} : d[f] = r[f]
  BY <1>1, Cleared
<1>3. e = [d EXCEPT !.link = NoLink, !.pending = NoPending, !.writing = FALSE,
                    !.attempts = 0, !.state = state]
  BY DEF ForgetLink
<1> HIDE DEF d, e
<1>4. e \in WindowRecord
  BY <1>2, <1>3, Empties DEF WindowRecord
<1>5. NoneEstablishing(e)
  BY <1>2, <1>3 DEF NoneEstablishing, WindowRecord
<1>6. e.client = NoClient /\ e.link = NoLink /\ e.pending = NoPending
      /\ e.present = r.present
  BY <1>2, <1>3 DEF WindowRecord
<1>7. Faded(e, r)
  BY <1>2, <1>3, <1>4, <1>5 DEF Faded, NoClient, NoPending, WindowRecord
<1> QED BY <1>5, <1>6, <1>7, Fading DEF e

-----------------------------------------------------------------------------
(* Helpers that add a claim, or take the head's turn *)

LEMMA Enqueueing ==
  ASSUME NEW r, NEW s, Consistent(r, s), NEW op \in StoreOp,
         NoneEstablishing(r), r.link = NoLink,
         Establishing(op) => r.present,
         Adopting(op) => r.client.phase = "absent" /\ r.pending.kind = "none",
         op.live /\ op.kind = "save" => r.writing
  PROVE  Consistent(Enqueue(r, op), s)
<1> DEFINE e == Enqueue(r, op)
           n == Len(r.queue)
<1>1. r \in WindowRecord /\ e \in WindowRecord
  BY EnqueueType DEF Consistent
<1>2. /\ r.queue \in Seq(StoreOp) /\ n \in Nat
      /\ DOMAIN r.queue = 1 .. n
  BY <1>1, LenProperties DEF WindowRecord
<1>3. /\ e.queue = Append(r.queue, op)
      /\ \A f \in DOMAIN r \ {"queue"} : e[f] = r[f]
  BY <1>1 DEF Enqueue, WindowRecord
<1>4. /\ DOMAIN e.queue = 1 .. n + 1
      /\ \A i \in 1 .. n : e.queue[i] = r.queue[i]
      /\ e.queue[n + 1] = op
  BY <1>2, <1>3, AppendProperties, LenProperties
<1> HIDE DEF e, n
<1>5. NoneAdopting(r)
  BY DEF NoneAdopting, NoneEstablishing, Adopting, Establishing
<1>6. /\ Adopting(op) \/ NoneAdopting(e)
      /\ Establishing(op) \/ NoneEstablishing(e)
  BY <1>2, <1>4, <1>5 DEF NoneAdopting, NoneEstablishing, Adopting, Establishing
<1>7. ClientIsOwned(e)
  BY <1>1, <1>3, <1>6 DEF ClientIsOwned, Consistent, WindowRecord
<1>8. OneEstablishing(e)
  BY <1>2, <1>4 DEF OneEstablishing, NoneEstablishing
<1>9. PendingIsExclusive(e)
  BY <1>1, <1>3, <1>6 DEF PendingIsExclusive, Consistent, WindowRecord
<1>10. SaveIsWriting(e)
  BY <1>1, <1>2, <1>3, <1>4 DEF SaveIsWriting, NoneEstablishing, Establishing, WindowRecord
<1>11. LinkIsSettled(e, s)
  BY <1>1, <1>3 DEF LinkIsSettled, WindowRecord
<1>12. NothingAfterEstablishing(e)
  BY <1>2, <1>4 DEF NothingAfterEstablishing, NoneEstablishing, Establishing
<1>13. HeadIsApplied(e, s)
  <2>1. e.head = r.head /\ e.queue # << >>
    BY <1>1, <1>3, <1>2, AppendProperties DEF WindowRecord
  <2>2. CASE n = 0
    <3>1. r.queue = << >>
      BY <1>2, <2>2, EmptySeq DEF n
    <3> QED BY <2>1, <3>1 DEF HeadIsApplied, Consistent
  <2>3. CASE n > 0
    <3>1. e.queue[1] = r.queue[1] /\ r.queue # << >>
      BY <1>2, <1>4, <2>3, EmptySeq DEF n
    <3> QED BY <2>1, <3>1 DEF HeadIsApplied, Consistent
  <2> QED BY <1>2, <2>2, <2>3
<1>14. e.orphans = 0
  BY <1>1, <1>3 DEF Consistent, WindowRecord
<1> QED BY <1>1, <1>7, <1>8, <1>9, <1>10, <1>11, <1>12, <1>13, <1>14 DEF Consistent, e

\* The head leaves the queue: at most one operation establishes anything, and
\* nothing behind an adopted link touches storage.
LEMMA Dequeueing ==
  ASSUME NEW r, NEW s, Consistent(r, s), r.queue # << >>
  PROVE  LET e == Dequeue(r) IN
         /\ Consistent(e, s)
         /\ Head(r.queue) = r.queue[1] /\ Head(r.queue) \in StoreOp
         /\ Establishing(Head(r.queue)) => NoneEstablishing(e)
         /\ Head(r.queue).live /\ Head(r.queue).kind \in {"load", "save"} =>
              \A i \in DOMAIN e.queue : Harmless(e, i)
         /\ \A f \in DOMAIN r \ {"queue", "head"} : e[f] = r[f]
<1> DEFINE e == Dequeue(r)
           n == Len(r.queue)
<1>1. r \in WindowRecord /\ e \in WindowRecord
  BY DequeueType DEF Consistent
<1>2. /\ r.queue \in Seq(StoreOp) /\ n \in Nat \ {0}
      /\ DOMAIN r.queue = 1 .. n
  BY <1>1, LenProperties, EmptySeq DEF WindowRecord
<1>3. /\ e.queue = Tail(r.queue) /\ e.head = "waiting"
      /\ \A f \in DOMAIN r \ {"queue", "head"} : e[f] = r[f]
  BY <1>1 DEF Dequeue, WindowRecord
<1>4. /\ DOMAIN e.queue = 1 .. n - 1
      /\ \A i \in 1 .. n - 1 : e.queue[i] = r.queue[i + 1]
      /\ Head(r.queue) = r.queue[1] /\ Head(r.queue) \in StoreOp
  BY <1>2, <1>3, HeadTailProperties, LenProperties
<1> HIDE DEF e, n
<1>5. \A i \in DOMAIN e.queue : i + 1 \in DOMAIN r.queue /\ e.queue[i] = r.queue[i + 1]
  BY <1>2, <1>4
<1>6. /\ NoneAdopting(r) => NoneAdopting(e)
      /\ NoneEstablishing(r) => NoneEstablishing(e)
  BY <1>5 DEF NoneAdopting, NoneEstablishing
<1>7. \A i \in DOMAIN e.queue : Harmless(r, i + 1) => Harmless(e, i)
  BY <1>2, <1>3, <1>4, <1>5 DEF Harmless
<1>8. 1 \in DOMAIN r.queue /\ \A i \in DOMAIN e.queue : i \in Nat /\ 1 < i + 1
  BY <1>2, <1>4
<1>9. ClientIsOwned(e)
  BY <1>1, <1>3, <1>6 DEF ClientIsOwned, Consistent, WindowRecord
<1>10. OneEstablishing(e)
  BY <1>5, <1>8 DEF OneEstablishing, Consistent
<1>11. PendingIsExclusive(e)
  BY <1>1, <1>3, <1>6 DEF PendingIsExclusive, Consistent, WindowRecord
<1>12. SaveIsWriting(e)
  BY <1>1, <1>3, <1>5 DEF SaveIsWriting, Consistent, WindowRecord
<1>13. LinkIsSettled(e, s)
  BY <1>1, <1>3, <1>5, <1>6, <1>7 DEF LinkIsSettled, Consistent, WindowRecord
<1>14. NothingAfterEstablishing(e)
  BY <1>5, <1>7, <1>8 DEF NothingAfterEstablishing, Consistent
<1>15. HeadIsApplied(e, s)
  BY <1>3 DEF HeadIsApplied
<1>16. e.orphans = 0
  BY <1>1, <1>3 DEF Consistent, WindowRecord
<1>17. Consistent(e, s)
  BY <1>1, <1>9, <1>10, <1>11, <1>12, <1>13, <1>14, <1>15, <1>16 DEF Consistent
<1>18. Establishing(Head(r.queue)) => NoneEstablishing(e)
  BY <1>4, <1>5, <1>8 DEF NoneEstablishing, OneEstablishing, Consistent
<1>19. Head(r.queue).live /\ Head(r.queue).kind \in {"load", "save"} =>
         \A i \in DOMAIN e.queue : Harmless(e, i)
  BY <1>4, <1>5, <1>7, <1>8 DEF NothingAfterEstablishing, Consistent
<1> QED BY <1>3, <1>4, <1>17, <1>18, <1>19 DEF e

\* A client is opened only where none exists, so no socket is orphaned.
LEMMA OpeningClient ==
  ASSUME NEW r, NEW s, Consistent(r, s),
         NEW mode \in {"link", "stored"}, NEW cred \in MaybeLink,
         NEW outcome \in OpenOutcomes,
         r.client.phase = "absent", r.panels # {}, r.present, NoneAdopting(r)
  PROVE  Consistent(OpenClient(r, mode, cred, outcome), s)
<1>0. r \in WindowRecord
  BY DEF Consistent
<1>1. outcome \in {"opens", "createThrows", "startThrows"}
  BY DEF OpenOutcomes
<1>2. CASE outcome = "createThrows"
  <2> DEFINE e == [r EXCEPT !.connected = FALSE, !.state = "error"]
  <2>1. e \in WindowRecord
    BY <1>0 DEF WindowRecord, ConnectionState
  <2>2. Faded(e, r)
    BY <1>0, <2>1 DEF Faded, FadedQueue, WindowRecord
  <2> QED BY <1>2, <2>2, Fading DEF OpenClient
<1>3. CASE outcome = "startThrows"
  <2>1. OpenClient(r, mode, cred, outcome) = SetState(DropClient(OnConnecting(r)), "error")
    BY <1>3 DEF OpenClient
  <2> QED BY <2>1, OnConnectingFades, DropClientFades, SetStateFades DEF ConnectionState
<1>4. CASE outcome = "opens"
  <2> DEFINE c == [phase |-> "opening", mode |-> mode, cred |-> cred, live |-> TRUE]
             e == [r EXCEPT !.orphans = 0, !.client = c, !.connected = FALSE]
  <2>1. OpenClient(r, mode, cred, outcome) = OnConnecting(e)
    <3>1. r.orphans + (IF HasSocket(r) THEN 1 ELSE 0) = 0
      BY DEF HasSocket, SocketPhase, Consistent
    <3> QED BY <1>4, <3>1 DEF OpenClient
  <2>2. c \in Client /\ c.phase # "absent" /\ c.live
    BY DEF Client, SocketPhase
  <2> HIDE DEF c
  <2>3. e \in WindowRecord
    BY <1>0, <2>2 DEF WindowRecord
  <2>4. /\ e.client = c /\ e.orphans = 0
        /\ \A f \in DOMAIN r \ {"client", "connected", "orphans"} : e[f] = r[f]
    BY <1>0 DEF WindowRecord
  <2> HIDE DEF e
  <2>5. e.queue = r.queue /\ e.head = r.head /\ e.panels = r.panels
        /\ e.link = r.link /\ e.pending = r.pending /\ e.writing = r.writing
        /\ e.present = r.present
    BY <1>0, <2>4 DEF WindowRecord
  <2>6. ClientIsOwned(e)
    BY <2>2, <2>4, <2>5 DEF ClientIsOwned, NoneAdopting
  <2>7. OneEstablishing(e) /\ SaveIsWriting(e)
    BY <2>5 DEF OneEstablishing, SaveIsWriting, Consistent
  <2>8. PendingIsExclusive(e) /\ LinkIsSettled(e, s)
    BY <2>5 DEF PendingIsExclusive, LinkIsSettled, Consistent, NoneAdopting,
                NoneEstablishing, Harmless
  <2>9. NothingAfterEstablishing(e) /\ HeadIsApplied(e, s)
    BY <2>5 DEF NothingAfterEstablishing, HeadIsApplied, Consistent, Harmless
  <2>10. Consistent(e, s)
    BY <2>3, <2>4, <2>6, <2>7, <2>8, <2>9 DEF Consistent
  <2> QED BY <2>1, <2>10, OnConnectingFades
<1> QED BY <1>1, <1>2, <1>3, <1>4

LEMMA RejectAuthenticationConsistent ==
  ASSUME NEW r, NEW s, Consistent(r, s)
  PROVE  Consistent(RejectAuthentication(r), s)
<1> DEFINE e == ForgetLink(r, "offline")
           op == Op("reject", TRUE, NoLink)
<1>1. RejectAuthentication(r) = Enqueue(e, op)
  BY DEF RejectAuthentication, ForgetLink
<1>2. Consistent(e, s) /\ NoneEstablishing(e) /\ e.link = NoLink
  BY ForgetLinkFades DEF ConnectionState
<1>3. op \in StoreOp /\ ~ Establishing(op) /\ ~ Adopting(op) /\ op.kind # "save"
  BY Empties DEF Op, StoreOp, OpKind, Establishing, Adopting
<1> HIDE DEF e, op
<1> QED BY <1>1, <1>2, <1>3, Enqueueing

LEMMA ActivateFirstPanelConsistent ==
  ASSUME NEW r, NEW s, Consistent(r, s), NEW outcome \in OpenOutcomes,
         r.client.phase = "absent", r.panels # {}, r.present
  PROVE  Consistent(ActivateFirstPanel(r, outcome), s)
<1>0. r \in WindowRecord
  BY DEF Consistent
<1> DEFINE l == SetState(r, "linking")
<1>1. /\ Consistent(l, s)
      /\ l.client.phase = "absent" /\ l.panels # {} /\ l.present
      /\ NoneAdopting(r) => NoneAdopting(l)
  BY <1>0, SetStateFades DEF SetState, WindowRecord, ConnectionState, NoneAdopting
<1> HIDE DEF l
<1>2. r.pending.kind \in {"none", "code", "credentials"} /\ r.pending.link \in MaybeLink
      /\ r.link \in MaybeLink /\ NoLink \in MaybeLink
  BY <1>0, Empties DEF WindowRecord, Pending
<1>3. CASE r.pending.kind = "code"
  <2>1. NoneAdopting(l)
    BY <1>1, <1>3 DEF Consistent, PendingIsExclusive
  <2>2. ActivateFirstPanel(r, outcome) = OpenClient(l, "link", NoLink, outcome)
    BY <1>3 DEF ActivateFirstPanel, l
  <2> QED BY <1>1, <1>2, <2>1, <2>2, OpeningClient
<1>4. CASE r.pending.kind = "credentials"
  <2>1. NoneAdopting(l)
    BY <1>1, <1>4 DEF Consistent, PendingIsExclusive
  <2>2. ActivateFirstPanel(r, outcome) = OpenClient(l, "stored", r.pending.link, outcome)
    BY <1>4 DEF ActivateFirstPanel, l
  <2> QED BY <1>1, <1>2, <2>1, <2>2, OpeningClient
<1> DEFINE b == BumpGeneration(r)
<1>5. /\ Consistent(b, s) /\ NoneEstablishing(b) /\ NoneAdopting(b)
      /\ b.client.phase = "absent" /\ b.panels # {} /\ b.present /\ b.link = r.link
      /\ b.pending = r.pending
  <2>1. /\ b \in WindowRecord /\ FadedQueue(b.queue, r.queue)
        /\ NoneEstablishing(b) /\ NoneAdopting(b)
        /\ b.client.phase = r.client.phase
        /\ \A f \in DOMAIN r \ {"queue", "client"} : b[f] = r[f]
    BY <1>0, BumpedGeneration
  <2> HIDE DEF b
  <2>2. /\ b.panels = r.panels /\ b.present = r.present /\ b.link = r.link
        /\ b.head = r.head /\ b.orphans = r.orphans /\ b.pending = r.pending
        /\ b.writing = r.writing
    BY <1>0, <2>1 DEF WindowRecord
  <2>3. Faded(b, r)
    BY <2>1, <2>2 DEF Faded
  <2> QED BY <2>1, <2>2, <2>3, Fading
<1> HIDE DEF b
<1>6. CASE r.pending.kind = "none" /\ r.link # NoLink
  <2> DEFINE m == SetState(b, "linking")
  <2>1. /\ Consistent(m, s) /\ NoneAdopting(m)
        /\ m.client.phase = "absent" /\ m.panels # {} /\ m.present
    <3>1. b \in WindowRecord
      BY <1>5 DEF Consistent
    <3>2. Consistent(m, s)
      BY <1>5, SetStateFades DEF ConnectionState
    <3>3. /\ m.client = b.client /\ m.panels = b.panels /\ m.present = b.present
          /\ m.queue = b.queue
      BY <3>1 DEF SetState, WindowRecord
    <3> QED BY <1>5, <3>2, <3>3 DEF NoneAdopting
  <2>2. ActivateFirstPanel(r, outcome) = OpenClient(m, "stored", r.link, outcome)
    BY <1>6 DEF ActivateFirstPanel, b
  <2> HIDE DEF m
  <2> QED BY <1>2, <2>1, <2>2, OpeningClient
<1>7. CASE r.pending.kind = "none" /\ r.link = NoLink
  <2>1. CASE r.state = "linking"
    BY <1>7, <2>1 DEF ActivateFirstPanel
  <2>2. CASE r.state # "linking"
    <3> DEFINE op == Op("load", TRUE, NoLink)
    <3>1. op \in StoreOp /\ op.kind = "load"
      BY Empties DEF Op, StoreOp, OpKind
    <3>2. ActivateFirstPanel(r, outcome) = Enqueue(b, op)
      BY <1>7, <2>2 DEF ActivateFirstPanel, b
    <3> HIDE DEF op
    <3> QED BY <1>5, <1>7, <3>1, <3>2, Enqueueing
  <2> QED BY <2>1, <2>2
<1> QED BY <1>2, <1>3, <1>4, <1>6, <1>7

\* The callbacks of a live client keep it live: they touch its phase, mode and
\* credentials, and what the panels are told.
LEMMA ClientFades ==
  ASSUME NEW r, NEW s, Consistent(r, s), r.client.phase # "absent",
         NEW c \in Client, c.phase # "absent", c.live = r.client.live
  PROVE  Consistent([r EXCEPT !.client = c], s)
<1> DEFINE e == [r EXCEPT !.client = c]
<1>1. r \in WindowRecord /\ e \in WindowRecord
  BY DEF Consistent, WindowRecord
<1>2. Faded(e, r)
  BY <1>1 DEF Faded, FadedQueue, Consistent, ClientIsOwned, WindowRecord
<1> QED BY <1>2, Fading

LEMMA PhaseFades ==
  ASSUME NEW r, NEW s, Consistent(r, s), r.client.phase # "absent",
         NEW phase \in SocketPhase \cup {"idle"}
  PROVE  /\ Consistent(Phase(r, phase), s)
         /\ \A f \in DOMAIN r \ {"client"} : Phase(r, phase)[f] = r[f]
         /\ Phase(r, phase).client.phase = phase
         /\ Phase(r, phase).client.live = r.client.live
<1> DEFINE c == [r.client EXCEPT !.phase = phase]
<1>1. r \in WindowRecord /\ r.client \in Client
  BY DEF Consistent, WindowRecord
<1>2. c \in Client /\ c.phase = phase /\ c.phase # "absent" /\ c.live = r.client.live
  BY <1>1 DEF Client, SocketPhase
<1>3. Phase(r, phase) = [r EXCEPT !.client = c]
  BY DEF Phase
<1> HIDE DEF c
<1> QED BY <1>1, <1>2, <1>3, ClientFades DEF WindowRecord

LEMMA OnDisconnectedConsistent ==
  ASSUME NEW r, NEW s, Consistent(r, s)
  PROVE  Consistent(OnDisconnected(r), s)
<1> DEFINE e == [r EXCEPT !.connected = FALSE]
<1>1. r \in WindowRecord /\ e \in WindowRecord
  BY DEF Consistent, WindowRecord
<1>2. Faded(e, r)
  BY <1>1 DEF Faded, FadedQueue, Consistent, ClientIsOwned, WindowRecord
<1>3. Consistent(e, s)
  BY <1>2, Fading
<1>4. OnDisconnected(r) \in
        {StopTerminalAttempt(e, "error"), SetState(e, "offline"), ScheduleReconnect(e),
         SetState(e, "notLinked")}
  BY DEF OnDisconnected
<1> QED BY <1>3, <1>4, StopTerminalAttemptFades, SetStateFades, ScheduleReconnectFades
        DEF ConnectionState

LEMMA OnConnectedConsistent ==
  ASSUME NEW r, NEW s, Consistent(r, s)
  PROVE  Consistent(OnConnected(r), s)
<1> DEFINE st == IF r.link # NoLink /\ ~ r.writing THEN "linked" ELSE r.state
           e == [r EXCEPT !.connected = TRUE, !.attempts = 0, !.timer = "none",
                          !.state = st]
<1>1. r \in WindowRecord
  BY DEF Consistent
<1>2. st \in ConnectionState
  BY <1>1 DEF WindowRecord, ConnectionState
<1>3. OnConnected(r) = e
  BY <1>1 DEF OnConnected, WindowRecord
<1> HIDE DEF st
<1>4. e \in WindowRecord
  BY <1>1, <1>2, Empties DEF WindowRecord
<1>5. Faded(e, r)
  BY <1>1, <1>4 DEF Faded, FadedQueue, Consistent, ClientIsOwned, WindowRecord
<1> QED BY <1>3, <1>5, Fading

\* Credentials become pending and their save is queued only when nothing else
\* is on its way: no link is held and no older save will be heard.
LEMMA PersistCredentialsConsistent ==
  ASSUME NEW r, NEW s, Consistent(r, s), r.client.phase # "absent", NEW link \in MaybeLink
  PROVE  Consistent(PersistCredentials(r, link), s)
<1>1. r \in WindowRecord
  BY DEF Consistent
<1>2. CASE r.writing \/ r.pending.kind # "code"
  BY <1>2 DEF PersistCredentials
<1>3. CASE ~ r.writing /\ r.pending.kind = "code"
  <2> DEFINE e == [r EXCEPT !.pending = [kind |-> "credentials", link |-> link],
                            !.writing = TRUE]
             op == Op("save", TRUE, link)
  <2>1. PersistCredentials(r, link) = Enqueue(e, op)
    BY <1>3 DEF PersistCredentials
  <2>2. e \in WindowRecord
    BY <1>1 DEF WindowRecord, Pending
  <2>3. NoneEstablishing(r)
    BY <1>3 DEF Consistent, PendingIsExclusive, NoneAdopting, SaveIsWriting,
                NoneEstablishing, Establishing, Adopting
  <2>4. /\ e.queue = r.queue /\ e.link = r.link /\ e.client = r.client
        /\ e.present = r.present /\ e.head = r.head /\ e.orphans = r.orphans
        /\ e.panels = r.panels /\ e.writing = TRUE
    BY <1>1 DEF WindowRecord
  <2> HIDE DEF e
  <2>5. NoneEstablishing(e)
    BY <2>3, <2>4 DEF NoneEstablishing
  <2>6. Faded(e, r)
    BY <1>3, <2>2, <2>4, <2>5 DEF Faded, FadedQueue, Consistent, ClientIsOwned
  <2>7. Consistent(e, s) /\ e.link = NoLink /\ e.present
    BY <1>3, <2>4, <2>6, Fading DEF Consistent, PendingIsExclusive, ClientIsOwned
  <2>8. op \in StoreOp /\ ~ Adopting(op)
    BY DEF Op, StoreOp, OpKind, Adopting
  <2> HIDE DEF op
  <2> QED BY <2>1, <2>4, <2>5, <2>7, <2>8, Enqueueing
<1> QED BY <1>1, <1>2, <1>3 DEF WindowRecord

-----------------------------------------------------------------------------
(* The continuations of storage operations *)

LEMMA LinkClearedConsistent ==
  ASSUME NEW r, NEW s, Consistent(r, s), NEW outcome \in OpenOutcomes,
         NoneEstablishing(r), r.link = NoLink, r.client.phase = "absent", r.present
  PROVE  Consistent(LinkCleared(r, outcome), s)
<1> DEFINE e == [r EXCEPT !.pending = [kind |-> "code", link |-> NoLink]]
<1>1. r \in WindowRecord
  BY DEF Consistent
<1>2. e \in WindowRecord
  BY <1>1, Empties DEF WindowRecord, Pending
<1>3. /\ e.queue = r.queue /\ e.link = r.link /\ e.client = r.client
      /\ e.present = r.present /\ e.head = r.head /\ e.orphans = r.orphans
      /\ e.panels = r.panels /\ e.writing = r.writing
  BY <1>1 DEF WindowRecord
<1> HIDE DEF e
<1>4. NoneEstablishing(e) /\ NoneAdopting(e)
  BY <1>3 DEF NoneEstablishing, NoneAdopting, Establishing, Adopting
<1>5. Consistent(e, s)
  BY <1>2, <1>3, <1>4 DEF Consistent, ClientIsOwned, OneEstablishing, NoneEstablishing,
       PendingIsExclusive, SaveIsWriting, LinkIsSettled, NothingAfterEstablishing,
       HeadIsApplied, Harmless
<1>6. LinkCleared(r, outcome) =
        IF r.panels = {} THEN e ELSE OpenClient(e, "link", NoLink, outcome)
  BY DEF LinkCleared, e
<1> QED BY <1>3, <1>4, <1>5, <1>6, OpeningClient, Empties

\* A record takes a link over only from storage, when nothing is queued that
\* could change storage.
LEMMA LinkLoadedConsistent ==
  ASSUME NEW r, NEW s, Consistent(r, s), NEW outcome \in OpenOutcomes,
         NEW link \in MaybeLink, NoneEstablishing(r), r.client.phase = "absent",
         r.present, r.pending.kind = "none", link # NoLink => link = s,
         \A i \in DOMAIN r.queue : Harmless(r, i)
  PROVE  Consistent(LinkLoaded(r, link, outcome), s)
<1>1. r \in WindowRecord
  BY DEF Consistent
<1>2. CASE r.panels = {}
  BY <1>2 DEF LinkLoaded
<1>3. CASE r.panels # {} /\ link = NoLink
  <2>1. LinkLoaded(r, link, outcome) = SetState(r, "notLinked")
    BY <1>3 DEF LinkLoaded
  <2> QED BY <2>1, SetStateFades DEF ConnectionState
<1>4. CASE r.panels # {} /\ link # NoLink
  <2> DEFINE e == [r EXCEPT !.link = link, !.state = "linking"]
  <2>1. e \in WindowRecord
    BY <1>1 DEF WindowRecord, ConnectionState
  <2>2. /\ e.queue = r.queue /\ e.link = link /\ e.client = r.client
        /\ e.present = r.present /\ e.head = r.head /\ e.orphans = r.orphans
        /\ e.panels = r.panels /\ e.writing = r.writing /\ e.pending = r.pending
    BY <1>1 DEF WindowRecord
  <2>3. LinkLoaded(r, link, outcome) = OpenClient(e, "stored", link, outcome)
    BY <1>4 DEF LinkLoaded
  <2> HIDE DEF e
  <2>4. NoneEstablishing(e) /\ NoneAdopting(e)
    BY <2>2 DEF NoneEstablishing, NoneAdopting, Establishing, Adopting
  <2>5. Consistent(e, s)
    BY <1>4, <2>1, <2>2, <2>4 DEF Consistent, ClientIsOwned, OneEstablishing,
         NoneEstablishing, PendingIsExclusive, SaveIsWriting, LinkIsSettled,
         NothingAfterEstablishing, HeadIsApplied, Harmless
  <2> QED BY <1>4, <2>2, <2>3, <2>4, <2>5, OpeningClient
<1> QED BY <1>2, <1>3, <1>4

LEMMA CredentialsSavedConsistent ==
  ASSUME NEW r, NEW s, Consistent(r, s), NEW link \in MaybeLink,
         NoneEstablishing(r), r.present, link # NoLink => link = s,
         \A i \in DOMAIN r.queue : Harmless(r, i)
  PROVE  Consistent(CredentialsSaved(r, link), s)
<1> DEFINE e == [r EXCEPT !.writing = FALSE, !.link = link, !.pending = NoPending]
<1>1. r \in WindowRecord
  BY DEF Consistent
<1>2. e \in WindowRecord
  BY <1>1, Empties DEF WindowRecord
<1>3. /\ e.queue = r.queue /\ e.link = link /\ e.client = r.client
      /\ e.present = r.present /\ e.head = r.head /\ e.orphans = r.orphans
      /\ e.panels = r.panels /\ e.writing = FALSE /\ e.pending = NoPending
  BY <1>1 DEF WindowRecord
<1> HIDE DEF e
<1>4. NoneEstablishing(e) /\ NoneAdopting(e)
  BY <1>3 DEF NoneEstablishing, NoneAdopting, Establishing, Adopting
<1>5. Consistent(e, s)
  BY <1>2, <1>3, <1>4 DEF Consistent, ClientIsOwned, OneEstablishing, NoneEstablishing,
       Establishing, NoPending, PendingIsExclusive, SaveIsWriting, LinkIsSettled,
       NothingAfterEstablishing, HeadIsApplied, Harmless
<1>6. CredentialsSaved(r, link) \in {SetState(e, "linked"), ScheduleReconnect(e), e}
  <2>1. e.connected \in BOOLEAN
    BY <1>2 DEF WindowRecord
  <2> QED BY <2>1 DEF CredentialsSaved, e
<1> QED BY <1>5, <1>6, SetStateFades, ScheduleReconnectFades DEF ConnectionState

LEMMA CredentialsLostConsistent ==
  ASSUME NEW r, NEW s, Consistent(r, s), NoneEstablishing(r), r.link = NoLink, r.present
  PROVE  Consistent(CredentialsLost(r), s)
<1> DEFINE e == [r EXCEPT !.writing = FALSE, !.pending = NoPending]
           d == DropClient(e)
           t == SetState(d, "error")
           op == Op("remove", FALSE, NoLink)
<1>1. r \in WindowRecord /\ e \in WindowRecord
  BY Empties DEF Consistent, WindowRecord
<1>2. e.queue = r.queue /\ e.link = NoLink
  BY <1>1 DEF WindowRecord
<1>3. NoneEstablishing(e)
  BY <1>2 DEF NoneEstablishing
<1>4. Faded(e, r)
  BY <1>1, <1>3 DEF Faded, FadedQueue, Consistent, ClientIsOwned, WindowRecord, NoPending
<1>5. Consistent(e, s)
  BY <1>4, Fading
<1> HIDE DEF e
<1>6. d \in WindowRecord /\ Consistent(d, s) /\ NoneEstablishing(d) /\ d.link = NoLink
  BY <1>1, <1>2, <1>3, <1>5, DroppedClient, DropClientFades DEF WindowRecord
<1> HIDE DEF d
<1>7. Consistent(t, s) /\ NoneEstablishing(t) /\ t.link = NoLink
  BY <1>6, SetStateFades DEF SetState, ConnectionState, NoneEstablishing, WindowRecord
<1>8. op \in StoreOp /\ ~ op.live
  BY Empties DEF Op, StoreOp, OpKind
<1>9. CredentialsLost(r) = Enqueue(t, op)
  BY DEF CredentialsLost, t, d, e, Op
<1> HIDE DEF t, op
<1> QED BY <1>7, <1>8, <1>9, Enqueueing DEF Establishing, Adopting

-----------------------------------------------------------------------------
(* The steps *)

\* What remains to be shown of an action once IInv holds before it.
LEMMA Rebuild ==
  ASSUME Consistent(w', store'), store' \in MaybeLink, granted' \subseteq Links,
         forgotten' \subseteq Links, disposed' \in BOOLEAN, survived' \in BOOLEAN
  PROVE  IInv'
BY DEF IInv, TypeOK, Consistent

LEMMA MentionedType ==
  ASSUME IInv
  PROVE  Mentioned \subseteq Links
<1>1. w \in WindowRecord /\ store \in MaybeLink
  BY DEF IInv, TypeOK
<1>2. w.link \in MaybeLink /\ w.pending.link \in MaybeLink /\ w.client.cred \in MaybeLink
  BY <1>1 DEF WindowRecord, Pending, Client
<1>3. \A i \in DOMAIN w.queue : w.queue[i].link \in MaybeLink
  <2>1. w.queue \in Seq(StoreOp)
    BY <1>1 DEF WindowRecord
  <2>2. \A i \in DOMAIN w.queue : w.queue[i] \in StoreOp
    BY <2>1, ElementOfSeq, LenProperties
  <2> QED BY <2>2 DEF StoreOp
<1> QED BY <1>1, <1>2, <1>3 DEF Mentioned, MaybeLink

LEMMA RevokedType ==
  ASSUME IInv, NEW r
  PROVE  TokensAfterRevoke(r) \subseteq Links
BY DEF IInv, TypeOK, TokensAfterRevoke

LEMMA RecordForConsistent ==
  ASSUME NEW r, NEW s, Consistent(r, s)
  PROVE  Consistent(RecordFor(r), s) /\ RecordFor(r).present
<1>1. r \in WindowRecord /\ RecordFor(r) \in WindowRecord /\ RecordFor(r).present
  BY DEF Consistent, WindowRecord, RecordFor
<1>2. Faded(RecordFor(r), r)
  BY <1>1 DEF Faded, FadedQueue, Consistent, ClientIsOwned, WindowRecord, RecordFor
<1> QED BY <1>1, <1>2, Fading

LEMMA LinkWindowStep ==
  ASSUME IInv, LinkWindow
  PROVE  IInv'
<1> DEFINE e == ForgetLink(RecordFor(w), "linking")
           op == Op("link", TRUE, NoLink)
<1>1. w' = Enqueue(e, op) /\ granted' = TokensAfterRevoke(w)
      /\ UNCHANGED <<store, forgotten, disposed, survived>>
  BY DEF LinkWindow
<1>2. Consistent(w, store)
  BY DEF IInv
<1>3. /\ Consistent(e, store) /\ NoneEstablishing(e) /\ e.client = NoClient
      /\ e.link = NoLink /\ e.pending = NoPending /\ e.present
  BY <1>2, RecordForConsistent, ForgetLinkFades DEF ConnectionState
<1>4. op \in StoreOp /\ op.kind = "link"
  BY Empties DEF Op, StoreOp, OpKind
<1> HIDE DEF e, op
<1>5. Consistent(Enqueue(e, op), store)
  BY <1>3, <1>4, Enqueueing DEF NoClient, NoPending
<1> QED BY <1>1, <1>5, Rebuild, RevokedType DEF IInv, TypeOK

LEMMA UnlinkWindowStep ==
  ASSUME IInv, UnlinkWindow
  PROVE  IInv'
<1> DEFINE e == ForgetLink(w, "notLinked")
           op == Op("unlink", w.present, NoLink)
<1>0. w \in WindowRecord
  BY DEF IInv, TypeOK
<1>1. /\ w' = IF w.present THEN Enqueue(e, op) ELSE Enqueue(w, op)
      /\ granted' = TokensAfterRevoke(w) /\ forgotten' = forgotten \cup Mentioned
      /\ UNCHANGED <<store, disposed, survived>>
  BY <1>0 DEF UnlinkWindow, WindowRecord
<1>2. Consistent(w, store)
  BY DEF IInv
<1>3. Consistent(e, store) /\ NoneEstablishing(e) /\ e.link = NoLink
  BY <1>2, ForgetLinkFades DEF ConnectionState
<1>4. op \in StoreOp /\ op.kind = "unlink"
  BY <1>0, Empties DEF Op, StoreOp, OpKind, WindowRecord
<1> HIDE DEF e, op
<1>5. w.present => Consistent(Enqueue(e, op), store)
  BY <1>3, <1>4, Enqueueing DEF Establishing, Adopting
<1>6. ~ w.present => Consistent(Enqueue(w, op), store)
  BY <1>2, <1>4, Enqueueing DEF Establishing, Adopting, Consistent, ClientIsOwned
<1> QED BY <1>1, <1>5, <1>6, Rebuild, RevokedType, MentionedType DEF IInv, TypeOK

LEMMA AbortCommandStep ==
  ASSUME IInv, NEW i \in DOMAIN w.queue, AbortCommand(i)
  PROVE  IInv'
<1> DEFINE r == [w EXCEPT !.queue[i].aborted = TRUE]
           o == [w.queue[i] EXCEPT !.aborted = TRUE]
           q == [w.queue EXCEPT ![i] = o]
<1>1. w \in WindowRecord /\ Consistent(w, store)
  BY DEF IInv, Consistent
<1>2. /\ w.queue \in Seq(StoreOp) /\ i \in 1 .. Len(w.queue)
      /\ DOMAIN w.queue = 1 .. Len(w.queue)
  BY <1>1, LenProperties DEF WindowRecord
<1>3. \A j \in 1 .. Len(w.queue) : w.queue[j] \in StoreOp
  BY <1>2, ElementOfSeq
<1>4. o \in StoreOp /\ o = [w.queue[i] EXCEPT !.aborted = TRUE]
  BY <1>2, <1>3 DEF StoreOp
<1>5. r = [w EXCEPT !.queue = q]
  BY <1>1 DEF WindowRecord
<1>6. o.aborted /\ o.kind = w.queue[i].kind /\ o.link = w.queue[i].link
      /\ o.live = w.queue[i].live
  BY <1>2, <1>3 DEF StoreOp
<1> HIDE DEF o
<1>7. /\ q \in Seq(StoreOp) /\ DOMAIN q = DOMAIN w.queue
      /\ \A j \in DOMAIN q : q[j] = IF j = i THEN o ELSE w.queue[j]
  BY <1>2, <1>4, ExceptSeq, LenProperties
<1> HIDE DEF q
<1>8. FadedQueue(q, w.queue)
  BY <1>2, <1>6, <1>7 DEF FadedQueue
<1> HIDE DEF r
<1>9. r \in WindowRecord /\ Faded(r, w)
  BY <1>1, <1>5, <1>7, <1>8 DEF Faded, WindowRecord, Consistent, ClientIsOwned
<1>10. Consistent(r, store)
  BY <1>1, <1>9, Fading
<1>11. Consistent(ForgetLink(r, "notLinked"), store)
  BY <1>10, ForgetLinkFades DEF ConnectionState
<1>12. /\ \/ w' = ForgetLink(r, "notLinked") /\ granted' = TokensAfterRevoke(w)
          \/ w' = r /\ UNCHANGED granted
       /\ UNCHANGED <<store, forgotten, disposed, survived>>
  BY DEF AbortCommand, r
<1> QED BY <1>10, <1>11, <1>12, Rebuild, RevokedType DEF IInv, TypeOK

LEMMA RegisterPanelStep ==
  ASSUME IInv, NEW p \in Panels, RegisterPanel(p)
  PROVE  IInv'
<1> DEFINE r == [RecordFor(w) EXCEPT !.panels = @ \cup {p}]
<1>1. w \in WindowRecord /\ Consistent(w, store)
  BY DEF IInv, Consistent
<1>2. r \in WindowRecord /\ r.present /\ r.panels # {}
      /\ r.panels = w.panels \cup {p} /\ r.client = w.client
  BY <1>1 DEF RecordFor, WindowRecord
<1>3. Faded(r, w)
  BY <1>1, <1>2 DEF Faded, FadedQueue, RecordFor, WindowRecord, Consistent, ClientIsOwned
<1>4. Consistent(r, store)
  BY <1>1, <1>3, Fading
<1>5. w.panels = {} => r.client.phase = "absent"
  BY <1>1, <1>2 DEF Consistent, ClientIsOwned
<1>6. /\ \/ /\ w.panels = {}
            /\ \E outcome \in OpenOutcomes : w' = ActivateFirstPanel(r, outcome)
         \/ w' = r
      /\ UNCHANGED <<store, granted, forgotten, disposed, survived>>
  BY DEF RegisterPanel
<1> HIDE DEF r
<1>7. Consistent(w', store)
  BY <1>2, <1>4, <1>5, <1>6, ActivateFirstPanelConsistent
<1> QED BY <1>6, <1>7, Rebuild DEF IInv, TypeOK

LEMMA DisposeRegistrationStep ==
  ASSUME IInv, NEW p \in Panels, DisposeRegistration(p)
  PROVE  IInv'
<1> DEFINE r == [w EXCEPT !.panels = @ \ {p}]
           d == DropClient(Invalidate(r))
           closed == [d EXCEPT !.attempts = 0]
           empty == [closed EXCEPT !.pending = NoPending, !.writing = FALSE,
                                   !.state = "notLinked"]
<1>1. w \in WindowRecord /\ Consistent(w, store)
  BY DEF IInv, Consistent
<1>2. /\ r \in WindowRecord /\ r.panels = w.panels \ {p}
      /\ \A f \in DOMAIN w \ {"panels"} : r[f] = w[f]
  BY <1>1 DEF WindowRecord
<1>3. /\ UNCHANGED <<store, granted, forgotten, disposed, survived>>
      /\ w' = IF r.panels # {} THEN r
              ELSE IF r.link # NoLink THEN SetState(closed, "offline") ELSE empty
  BY DEF DisposeRegistration
<1> HIDE DEF r
<1>4. r.panels # {} => Consistent(r, store)
  <2>1. ASSUME r.panels # {}
        PROVE  Faded(r, w)
    BY <1>1, <1>2, <2>1 DEF Faded, FadedQueue, WindowRecord, Consistent, ClientIsOwned
  <2> QED BY <1>1, <2>1, Fading
<1>5. /\ d \in WindowRecord /\ FadedQueue(d.queue, r.queue)
      /\ NoneEstablishing(d) /\ d.client = NoClient
      /\ \A f \in {"head", "orphans", "link", "pending", "panels", "present",
                   "writing", "attempts"} : d[f] = r[f]
  BY <1>2, Cleared
<1> HIDE DEF d
<1>6. closed \in WindowRecord /\ NoneEstablishing(closed) /\ Faded(closed, w)
  <2>1. closed \in WindowRecord
    BY <1>5, Empties DEF WindowRecord
  <2>2. NoneEstablishing(closed)
    BY <1>5 DEF NoneEstablishing, WindowRecord
  <2>3. /\ closed.queue = d.queue /\ closed.client = d.client
        /\ \A f \in {"head", "orphans", "link", "pending", "present", "writing"} :
             closed[f] = d[f]
    BY <1>5 DEF WindowRecord
  <2>4. r.queue = w.queue /\ r.head = w.head /\ r.orphans = w.orphans
        /\ r.link = w.link /\ r.pending = w.pending /\ r.present = w.present
    BY <1>1, <1>2 DEF WindowRecord
  <2> HIDE DEF closed
  <2> QED BY <1>5, <2>1, <2>2, <2>3, <2>4 DEF Faded, NoClient
<1>7. Consistent(closed, store)
  BY <1>1, <1>6, Fading
<1>8. Consistent(SetState(closed, "offline"), store)
  BY <1>7, SetStateFades DEF ConnectionState
<1> HIDE DEF closed
<1>9. empty \in WindowRecord /\ NoneEstablishing(empty)
  BY <1>6, Empties DEF WindowRecord, NoneEstablishing, ConnectionState
<1>10. Faded(empty, closed)
  BY <1>6, <1>7, <1>9 DEF Faded, FadedQueue, WindowRecord, NoPending, Consistent,
                          ClientIsOwned
<1>11. Consistent(empty, store)
  BY <1>7, <1>10, Fading
<1> QED BY <1>3, <1>4, <1>8, <1>11, Rebuild DEF IInv, TypeOK

LEMMA PublishThrowsStep ==
  ASSUME IInv, PublishThrows
  PROVE  IInv'
<1>1. Consistent(SetState(w, "error"), store)
  BY SetStateFades DEF IInv, ConnectionState
<1> QED BY <1>1, Rebuild DEF PublishThrows, IInv, TypeOK

\* records.delete and records.clear leave the storage queue only.
LEMMA ForgottenRecord ==
  ASSUME NEW r, NEW s, Consistent(r, s), NoneEstablishing(r)
  PROVE  LET e == [FreshRecord(r.queue, r.head) EXCEPT !.present = FALSE,
                                                       !.orphans = r.orphans]
         IN  Consistent(e, s) /\ NoneEstablishing(e) /\ e.link = NoLink
<1> DEFINE e == [FreshRecord(r.queue, r.head) EXCEPT !.present = FALSE,
                                                     !.orphans = r.orphans]
<1>1. r \in WindowRecord /\ NoClient \in Client
  BY Empties DEF Consistent, Client, NoClient
<1>2. /\ e.queue = r.queue /\ e.head = r.head /\ e.client = NoClient
      /\ e.link = NoLink /\ e.pending = NoPending /\ e.orphans = r.orphans
      /\ ~ e.present
  BY <1>1 DEF FreshRecord
<1>3. e \in WindowRecord
  BY <1>1, Empties DEF FreshRecord, WindowRecord, ConnectionState
<1> HIDE DEF e
<1>4. NoneEstablishing(e) /\ NoneAdopting(e)
  BY <1>2 DEF NoneEstablishing, NoneAdopting, Establishing, Adopting
<1>5. Consistent(e, s)
  BY <1>2, <1>3, <1>4 DEF Consistent, ClientIsOwned, OneEstablishing, NoneEstablishing,
       Establishing, NoPending, NoClient, PendingIsExclusive, SaveIsWriting,
       LinkIsSettled, NothingAfterEstablishing, HeadIsApplied, Harmless
<1> QED BY <1>2, <1>4, <1>5 DEF e

LEMMA RemoveWindowStep ==
  ASSUME IInv, RemoveWindow
  PROVE  IInv'
<1> DEFINE r == ForgetLink(w, "notLinked")
           e == [FreshRecord(r.queue, r.head) EXCEPT !.present = FALSE,
                                                     !.orphans = r.orphans]
           op == Op("remove", FALSE, NoLink)
<1>1. /\ w' = Enqueue(e, op)
      /\ granted' = TokensAfterRevoke(w) /\ forgotten' = forgotten \cup Mentioned
      /\ UNCHANGED <<store, disposed, survived>>
  BY DEF RemoveWindow
<1>2. Consistent(r, store) /\ NoneEstablishing(r)
  BY ForgetLinkFades DEF IInv, ConnectionState
<1> HIDE DEF r
<1>3. Consistent(e, store) /\ NoneEstablishing(e) /\ e.link = NoLink
  BY <1>2, ForgottenRecord
<1>4. op \in StoreOp /\ ~ op.live
  BY Empties DEF Op, StoreOp, OpKind
<1> HIDE DEF e, op
<1>5. Consistent(Enqueue(e, op), store)
  BY <1>3, <1>4, Enqueueing DEF Establishing, Adopting
<1> QED BY <1>1, <1>5, Rebuild, RevokedType, MentionedType DEF IInv, TypeOK

LEMMA DisposeCoordinatorStep ==
  ASSUME IInv, DisposeCoordinator
  PROVE  IInv'
<1> DEFINE r == DropClient(Invalidate(w))
           e == [FreshRecord(r.queue, r.head) EXCEPT !.present = FALSE,
                                                     !.orphans = r.orphans]
           op == Op("remove", FALSE, NoLink)
<1>1. /\ w' = Enqueue(e, op) \/ w' = e
      /\ disposed' = TRUE /\ UNCHANGED <<store, granted, forgotten, survived>>
  BY DEF DisposeCoordinator
<1>2. w \in WindowRecord /\ Consistent(w, store)
  BY DEF IInv, Consistent
<1>3. /\ r \in WindowRecord /\ FadedQueue(r.queue, w.queue)
      /\ NoneEstablishing(r) /\ r.client = NoClient
      /\ \A f \in {"head", "orphans", "link", "pending", "panels", "present",
                   "writing", "attempts"} : r[f] = w[f]
  BY <1>2, Cleared
<1> HIDE DEF r
<1>4. Faded(r, w)
  BY <1>2, <1>3 DEF Faded, NoClient
<1>5. Consistent(r, store)
  BY <1>2, <1>4, Fading
<1>6. Consistent(e, store) /\ NoneEstablishing(e) /\ e.link = NoLink
  BY <1>3, <1>5, ForgottenRecord
<1>7. op \in StoreOp /\ ~ op.live
  BY Empties DEF Op, StoreOp, OpKind
<1> HIDE DEF e, op
<1>8. Consistent(Enqueue(e, op), store)
  BY <1>6, <1>7, Enqueueing DEF Establishing, Adopting
<1> QED BY <1>1, <1>6, <1>8, Rebuild DEF IInv, TypeOK

\* A coordinator without records or queued operations.
LEMMA EmptyRecord ==
  ASSUME NEW s
  PROVE  Consistent([FreshRecord(<< >>, "waiting") EXCEPT !.present = FALSE], s)
<1> DEFINE e == [FreshRecord(<< >>, "waiting") EXCEPT !.present = FALSE]
<1>1. << >> \in Seq(StoreOp) /\ DOMAIN << >> = {} /\ NoClient \in Client
  BY EmptySeq, Empties DEF Client, NoClient
<1>2. /\ e.queue = << >> /\ e.head = "waiting" /\ e.client = NoClient
      /\ e.link = NoLink /\ e.pending = NoPending /\ e.orphans = 0 /\ ~ e.present
  BY DEF FreshRecord
<1>3. e \in WindowRecord
  BY <1>1, Empties DEF FreshRecord, WindowRecord, ConnectionState
<1> HIDE DEF e
<1>4. NoneEstablishing(e) /\ NoneAdopting(e)
  BY <1>1, <1>2 DEF NoneEstablishing, NoneAdopting
<1>5. Consistent(e, s)
  BY <1>1, <1>2, <1>3, <1>4 DEF Consistent, ClientIsOwned, OneEstablishing, NoPending,
       NoClient, PendingIsExclusive, SaveIsWriting, LinkIsSettled,
       NothingAfterEstablishing, HeadIsApplied
<1> QED BY <1>5 DEF e

LEMMA RestartStep ==
  ASSUME IInv, Restart
  PROVE  IInv'
BY EmptyRecord, Rebuild DEF Restart, IInv, TypeOK

LEMMA StoreStartStep ==
  ASSUME IInv, StoreStart
  PROVE  IInv'
<1>1. w \in WindowRecord /\ Consistent(w, store)
  BY DEF IInv, Consistent
<1>2. /\ w.queue # << >> /\ w.head = "waiting" /\ survived' \in BOOLEAN
      /\ UNCHANGED <<store, granted, forgotten, disposed>>
  BY DEF StoreStart, IInv, TypeOK
<1>3. CASE StoreSkips(HeadOp)
  <2>1. Consistent(w', store)
    BY <1>1, <1>2, <1>3, Dequeueing DEF StoreStart
  <2> QED BY <1>2, <2>1, Rebuild DEF IInv, TypeOK
<1>4. CASE ~ StoreSkips(HeadOp)
  <2> DEFINE e == [w EXCEPT !.head = "running"]
  <2>1. e \in WindowRecord /\ e.head = "running"
        /\ \A f \in DOMAIN w \ {"head"} : e[f] = w[f]
    BY <1>1 DEF WindowRecord
  <2>2. /\ e.queue = w.queue /\ e.link = w.link /\ e.client = w.client
        /\ e.present = w.present /\ e.orphans = w.orphans /\ e.pending = w.pending
        /\ e.panels = w.panels /\ e.writing = w.writing
    BY <1>1, <2>1 DEF WindowRecord
  <2>3. w' = e
    BY <1>4 DEF StoreStart
  <2> HIDE DEF e
  <2>4. HeadOp = w.queue[1] /\ w.queue[1].kind \in OpKind
    BY <1>1, <1>2, Dequeueing DEF HeadOp, StoreOp
  <2>5. \A i \in DOMAIN w.queue : i # 1 => (Harmless(w, i) => Harmless(e, i))
    BY <1>2, <2>1, <2>2 DEF Harmless
  <2>6. Harmless(w, 1) => Harmless(e, 1)
    BY <1>2, <1>4, <2>1, <2>2, <2>4 DEF Harmless
  <2>7. LinkIsSettled(e, store)
    BY <1>1, <2>2, <2>5, <2>6 DEF Consistent, LinkIsSettled, NoneEstablishing
  <2>8. NothingAfterEstablishing(e)
    BY <1>1, <2>2, <2>5, <2>6 DEF Consistent, NothingAfterEstablishing
  <2>9. ClientIsOwned(e) /\ OneEstablishing(e) /\ PendingIsExclusive(e) /\ SaveIsWriting(e)
    BY <1>1, <2>2 DEF Consistent, ClientIsOwned, OneEstablishing, PendingIsExclusive,
                      SaveIsWriting, NoneAdopting, NoneEstablishing
  <2>10. HeadIsApplied(e, store)
    BY <1>2, <2>1, <2>2 DEF HeadIsApplied
  <2>11. Consistent(w', store)
    BY <1>1, <2>1, <2>2, <2>3, <2>7, <2>8, <2>9, <2>10 DEF Consistent
  <2> QED BY <1>2, <2>11, Rebuild DEF IInv, TypeOK
<1> QED BY <1>3, <1>4

\* While a link is held only a load can reach storage, and a load learns what
\* storage holds at that instant.
LEMMA StoreApplyStep ==
  ASSUME IInv, StoreApply
  PROVE  IInv'
<1> DEFINE o == IF HeadOp.kind = "load" THEN [w.queue[1] EXCEPT !.link = store]
                                        ELSE w.queue[1]
           q == [w.queue EXCEPT ![1] = o]
           e == [w EXCEPT !.head = "done", !.queue = q]
<1>1. w \in WindowRecord /\ Consistent(w, store)
  BY DEF IInv, Consistent
<1>2. /\ w.queue # << >> /\ w.head = "running" /\ survived' \in BOOLEAN
      /\ UNCHANGED <<granted, forgotten, disposed>>
  BY DEF StoreApply, IInv, TypeOK
<1>3. /\ w.queue \in Seq(StoreOp) /\ DOMAIN w.queue = 1 .. Len(w.queue)
      /\ Len(w.queue) \in Nat \ {0} /\ 1 \in 1 .. Len(w.queue)
  BY <1>1, <1>2, LenProperties, EmptySeq DEF WindowRecord
<1>4. HeadOp = w.queue[1] /\ w.queue[1] \in StoreOp
  BY <1>1, <1>2, Dequeueing DEF HeadOp
<1>5. /\ o \in StoreOp /\ o.kind = HeadOp.kind /\ o.live = HeadOp.live
      /\ o.aborted = HeadOp.aborted
      /\ o.link = IF HeadOp.kind = "load" THEN store ELSE HeadOp.link
  <2>1. store \in MaybeLink
    BY DEF IInv, TypeOK
  <2> QED BY <1>4, <2>1 DEF StoreOp
<1>6. w' = e
  <2>1. CASE HeadOp.kind = "load"
    BY <1>1, <1>4, <2>1 DEF StoreApply, WindowRecord
  <2>2. CASE HeadOp.kind # "load"
    <3>1. q = w.queue
      BY <1>3, <2>2
    <3> QED BY <1>1, <2>2, <3>1 DEF StoreApply, WindowRecord
  <2> QED BY <2>1, <2>2
<1> HIDE DEF o
<1>7. /\ q \in Seq(StoreOp) /\ DOMAIN q = DOMAIN w.queue /\ q[1] = o
      /\ \A i \in DOMAIN q : i # 1 => q[i] = w.queue[i]
  BY <1>3, <1>5, ExceptSeq, LenProperties
<1>8. q # << >>
  BY <1>3, <1>7, EmptySeq
<1> HIDE DEF q
<1>9. /\ e \in WindowRecord /\ e.head = "done" /\ e.queue = q
      /\ e.link = w.link /\ e.client = w.client
      /\ e.present = w.present /\ e.orphans = w.orphans /\ e.pending = w.pending
      /\ e.panels = w.panels /\ e.writing = w.writing
  BY <1>1, <1>7 DEF WindowRecord
<1> HIDE DEF e
<1>10. \A i \in DOMAIN q : q[i].kind = w.queue[i].kind /\ q[i].live = w.queue[i].live
                           /\ q[i].aborted = w.queue[i].aborted
  BY <1>4, <1>5, <1>7
<1>11. /\ NoneAdopting(w) => NoneAdopting(e)
       /\ NoneEstablishing(w) => NoneEstablishing(e)
  BY <1>7, <1>9, <1>10 DEF NoneAdopting, NoneEstablishing, Adopting, Establishing
<1>12. \A i \in DOMAIN q : Harmless(w, i) => Harmless(e, i)
  BY <1>2, <1>9, <1>10 DEF Harmless, StoreSkips
<1>13. store' = CASE HeadOp.kind = "load" -> store
                  [] HeadOp.kind = "save" -> HeadOp.link
                  [] HeadOp.kind \notin {"load", "save"} -> NoLink
  BY DEF StoreApply
<1>14. LinkIsSettled(e, store')
  <2>1. ASSUME w.link # NoLink
        PROVE  store' = store /\ \A i \in DOMAIN q : Harmless(e, i)
    <3>1. \A i \in DOMAIN q : Harmless(w, i)
      BY <1>1, <1>7, <2>1 DEF Consistent, LinkIsSettled
    <3>2. HeadOp.kind = "load"
      BY <1>2, <1>3, <1>4, <1>7, <3>1 DEF Harmless
    <3> QED BY <1>12, <1>13, <3>1, <3>2
  <2> QED BY <1>1, <1>9, <1>11, <2>1 DEF Consistent, LinkIsSettled
<1>15. NothingAfterEstablishing(e)
  BY <1>1, <1>7, <1>9, <1>10, <1>12 DEF Consistent, NothingAfterEstablishing
<1>16. ClientIsOwned(e) /\ PendingIsExclusive(e)
  BY <1>1, <1>9, <1>11 DEF Consistent, ClientIsOwned, PendingIsExclusive
<1>17. OneEstablishing(e) /\ SaveIsWriting(e)
  BY <1>1, <1>7, <1>9, <1>10 DEF Consistent, OneEstablishing, SaveIsWriting, Establishing
<1>18. HeadIsApplied(e, store')
  BY <1>5, <1>7, <1>8, <1>9, <1>13 DEF HeadIsApplied
<1>19. Consistent(w', store')
  BY <1>1, <1>6, <1>9, <1>14, <1>15, <1>16, <1>17, <1>18 DEF Consistent
<1>20. store' \in MaybeLink
  <2>1. HeadOp.link \in MaybeLink /\ store \in MaybeLink
    BY <1>4 DEF StoreOp, IInv, TypeOK
  <2> QED BY <1>13, <2>1, Empties
<1> QED BY <1>2, <1>19, <1>20, Rebuild DEF IInv, TypeOK

LEMMA StoreFailsStep ==
  ASSUME IInv, StoreFails
  PROVE  IInv'
<1> DEFINE e == [w EXCEPT !.head = "failed"]
<1>1. w \in WindowRecord /\ Consistent(w, store)
  BY DEF IInv, Consistent
<1>2. w' = e /\ w.queue # << >> /\ w.head = "running"
      /\ survived' \in BOOLEAN /\ UNCHANGED <<store, granted, forgotten, disposed>>
  BY DEF StoreFails, IInv, TypeOK
<1>3. /\ e \in WindowRecord /\ e.head = "failed" /\ e.queue = w.queue
      /\ e.link = w.link /\ e.client = w.client
      /\ e.present = w.present /\ e.orphans = w.orphans /\ e.pending = w.pending
      /\ e.panels = w.panels /\ e.writing = w.writing
  BY <1>1 DEF WindowRecord
<1> HIDE DEF e
<1>4. \A i \in DOMAIN w.queue : Harmless(w, i) => Harmless(e, i)
  BY <1>2, <1>3 DEF Harmless
<1>5. LinkIsSettled(e, store) /\ NothingAfterEstablishing(e)
  BY <1>1, <1>3, <1>4 DEF Consistent, LinkIsSettled, NothingAfterEstablishing,
                          NoneEstablishing
<1>6. ClientIsOwned(e) /\ OneEstablishing(e) /\ PendingIsExclusive(e) /\ SaveIsWriting(e)
  BY <1>1, <1>3 DEF Consistent, ClientIsOwned, OneEstablishing, PendingIsExclusive,
                    SaveIsWriting, NoneAdopting, NoneEstablishing
<1>7. HeadIsApplied(e, store)
  BY <1>2, <1>3 DEF HeadIsApplied
<1>8. Consistent(e, store)
  BY <1>1, <1>3, <1>5, <1>6, <1>7 DEF Consistent
<1> QED BY <1>2, <1>8, Rebuild DEF IInv, TypeOK

\* The continuation of a live operation finds no client, no other live
\* operation and, after a load or a save, storage as the operation left it.
LEMMA StoreSettlesStep ==
  ASSUME IInv, StoreSettles
  PROVE  IInv'
<1> DEFINE op == HeadOp
           r  == Dequeue(w)
<1>1. w \in WindowRecord /\ Consistent(w, store)
  BY DEF IInv, Consistent
<1>2. w.queue # << >> /\ w.head \in {"done", "failed"}
      /\ UNCHANGED <<store, granted, forgotten, disposed, survived>>
  BY DEF StoreSettles
<1>3. /\ Consistent(r, store)
      /\ op = w.queue[1] /\ op \in StoreOp
      /\ Establishing(op) => NoneEstablishing(r)
      /\ op.live /\ op.kind \in {"load", "save"} =>
           \A i \in DOMAIN r.queue : Harmless(r, i)
      /\ \A f \in DOMAIN w \ {"queue", "head"} : r[f] = w[f]
  BY <1>1, <1>2, Dequeueing DEF HeadOp
<1>4. CASE ~ op.live \/ op.aborted
  BY <1>2, <1>3, <1>4, Rebuild DEF StoreSettles, IInv, TypeOK
<1>5. /\ r.link = w.link /\ r.client = w.client /\ r.pending = w.pending
      /\ r.present = w.present
  BY <1>1, <1>3 DEF WindowRecord
<1>6. 1 \in DOMAIN w.queue
  BY <1>1, <1>2, LenProperties, EmptySeq DEF WindowRecord
<1>7. op.live /\ op.kind \in {"link", "load", "save"} =>
        NoneEstablishing(r) /\ r.link = NoLink /\ r.present
  BY <1>1, <1>3, <1>5, <1>6 DEF Consistent, LinkIsSettled, ClientIsOwned,
                                NoneEstablishing, Establishing
<1>8. op.live /\ op.kind \in {"link", "load"} =>
        r.client.phase = "absent" /\ r.pending.kind = "none"
  BY <1>1, <1>3, <1>5, <1>6 DEF Consistent, ClientIsOwned, PendingIsExclusive,
                                NoneAdopting, Adopting
<1>9. CASE op.live /\ ~ op.aborted /\ w.head = "failed"
  <2>1. w' \in {CredentialsLost(r), SetState(r, "error")}
        /\ (w' # SetState(r, "error") => op.kind = "save")
    BY <1>9 DEF StoreSettles
  <2> HIDE DEF r, op
  <2>2. Consistent(w', store)
    BY <1>3, <1>7, <1>9, <2>1, CredentialsLostConsistent, SetStateFades DEF ConnectionState
  <2> QED BY <1>2, <2>2, Rebuild DEF IInv, TypeOK
<1>10. CASE op.live /\ ~ op.aborted /\ w.head = "done"
  <2> PICK outcome \in OpenOutcomes :
        w' = CASE op.kind = "link" -> LinkCleared(r, outcome)
               [] op.kind = "load" -> LinkLoaded(r, op.link, outcome)
               [] op.kind = "save" -> CredentialsSaved(r, op.link)
               [] op.kind \notin {"link", "load", "save"} -> r
    BY <1>10 DEF StoreSettles
  <2>1. op.kind \in {"load", "save"} => op.link = store
    BY <1>1, <1>2, <1>3, <1>10 DEF Consistent, HeadIsApplied
  <2>2. op.link \in MaybeLink
    BY <1>3 DEF StoreOp
  <2> HIDE DEF r, op
  <2>3. op.kind = "link" => Consistent(LinkCleared(r, outcome), store)
    BY <1>3, <1>7, <1>8, <1>10, LinkClearedConsistent
  <2>4. op.kind = "load" => Consistent(LinkLoaded(r, op.link, outcome), store)
    BY <1>3, <1>7, <1>8, <1>10, <2>1, <2>2, LinkLoadedConsistent
  <2>5. op.kind = "save" => Consistent(CredentialsSaved(r, op.link), store)
    BY <1>3, <1>7, <1>10, <2>1, <2>2, CredentialsSavedConsistent
  <2>6. Consistent(w', store)
    BY <1>3, <2>3, <2>4, <2>5
  <2> QED BY <1>2, <2>6, Rebuild DEF IInv, TypeOK
<1>11. op.live \in BOOLEAN /\ op.aborted \in BOOLEAN
  BY <1>3 DEF StoreOp
<1> QED BY <1>2, <1>4, <1>9, <1>10, <1>11

LEMMA SocketOpensStep ==
  ASSUME IInv, SocketOpens
  PROVE  IInv'
<1>1. Consistent(w, store) /\ w.client.phase # "absent"
      /\ UNCHANGED <<store, granted, forgotten, disposed, survived>>
  BY DEF IInv, SocketOpens
<1>2. /\ Consistent(Phase(w, "requested"), store)
      /\ Consistent(Phase(w, "greeted"), store)
  BY <1>1, PhaseFades DEF SocketPhase
<1>3. w' \in {Phase(w, "requested"), Phase(w, "greeted"),
              OnConnecting(Phase(w, "requested"))}
  BY DEF SocketOpens
<1>4. Consistent(w', store)
  BY <1>2, <1>3, OnConnectingFades
<1> QED BY <1>1, <1>4, Rebuild DEF IInv, TypeOK

LEMMA LinkAcceptedStep ==
  ASSUME IInv, NEW l \in Links, LinkAccepted(l)
  PROVE  IInv'
<1> DEFINE c == [w.client EXCEPT !.phase = "greeted", !.mode = "fresh", !.cred = l]
<1>1. w \in WindowRecord /\ Consistent(w, store) /\ w.client.phase # "absent"
      /\ w.client \in Client
  BY DEF IInv, Consistent, LinkAccepted, WindowRecord
<1>2. c \in Client /\ c.phase # "absent" /\ c.live = w.client.live
  BY <1>1 DEF Client, SocketPhase, MaybeLink
<1>3. w' = [w EXCEPT !.client = c] /\ granted' = granted \cup {l}
      /\ forgotten' = forgotten \ {l} /\ UNCHANGED <<store, disposed, survived>>
  BY DEF LinkAccepted
<1> HIDE DEF c
<1>4. Consistent(w', store)
  BY <1>1, <1>2, <1>3, ClientFades
<1> QED BY <1>3, <1>4, Rebuild DEF IInv, TypeOK

LEMMA LinkRefusedStep ==
  ASSUME IInv, NEW s \in {"rateLimited", "error"}, LinkRefused(s)
  PROVE  IInv'
<1>1. Consistent(w, store) /\ w.client.phase # "absent"
      /\ UNCHANGED <<store, granted, forgotten, disposed, survived>>
  BY DEF IInv, LinkRefused
<1>2. w' \in {StopTerminalAttempt(w, s), Phase(w, "idle")}
  BY DEF LinkRefused
<1>3. Consistent(w', store)
  BY <1>1, <1>2, StopTerminalAttemptFades, PhaseFades DEF ConnectionState
<1> QED BY <1>1, <1>3, Rebuild DEF IInv, TypeOK

LEMMA AuthenticatedStep ==
  ASSUME IInv, Authenticated
  PROVE  IInv'
<1> DEFINE c == [w.client EXCEPT !.phase = "ready", !.mode = "stored"]
           r == [w EXCEPT !.client = c]
           told == IF w.client.mode = "fresh" THEN PersistCredentials(r, w.client.cred)
                                              ELSE r
<1>1. w \in WindowRecord /\ Consistent(w, store) /\ w.client.phase # "absent"
      /\ w.client \in Client /\ w.client.cred \in MaybeLink
      /\ UNCHANGED <<store, granted, forgotten, disposed, survived>>
  BY DEF IInv, Consistent, Authenticated, WindowRecord, Client
<1>2. c \in Client /\ c.phase # "absent" /\ c.live = w.client.live
  BY <1>1 DEF Client, SocketPhase
<1>3. w' \in {OnConnected(told), r}
  BY DEF Authenticated
<1> HIDE DEF c
<1>4. Consistent(r, store) /\ r.client.phase # "absent"
  BY <1>1, <1>2, ClientFades DEF WindowRecord
<1> HIDE DEF r
<1>5. Consistent(told, store)
  BY <1>1, <1>4, PersistCredentialsConsistent
<1> HIDE DEF told
<1>6. Consistent(w', store)
  BY <1>3, <1>4, <1>5, OnConnectedConsistent
<1> QED BY <1>1, <1>6, Rebuild DEF IInv, TypeOK

LEMMA AuthenticationRefusedStep ==
  ASSUME IInv, AuthenticationRefused
  PROVE  IInv'
<1>1. Consistent(w, store) /\ w.client.phase # "absent"
      /\ UNCHANGED <<store, granted, disposed, survived>>
      /\ forgotten' = forgotten \cup ({w.client.cred} \cap Links)
  BY DEF IInv, AuthenticationRefused
<1>2. w' \in {RejectAuthentication(w), Phase(w, "idle")}
  BY DEF AuthenticationRefused
<1>3. Consistent(w', store)
  BY <1>1, <1>2, RejectAuthenticationConsistent, PhaseFades
<1> QED BY <1>1, <1>3, Rebuild DEF IInv, TypeOK

LEMMA SocketFailsStep ==
  ASSUME IInv, SocketFails
  PROVE  IInv'
<1> DEFINE r == Phase(w, "failed")
           e == [r EXCEPT !.connected = FALSE, !.state = "error"]
<1>1. Consistent(w, store) /\ w.client.phase # "absent"
      /\ UNCHANGED <<store, granted, forgotten, disposed, survived>>
  BY DEF IInv, SocketFails, HasSocket, SocketPhase
<1>2. Consistent(r, store)
  BY <1>1, PhaseFades DEF SocketPhase
<1>3. w' \in {e, r}
  BY DEF SocketFails
<1> HIDE DEF r
<1>4. r \in WindowRecord /\ e \in WindowRecord
  BY <1>2 DEF Consistent, WindowRecord, ConnectionState
<1>5. Faded(e, r)
  BY <1>2, <1>4 DEF Faded, FadedQueue, Consistent, ClientIsOwned, WindowRecord
<1>6. Consistent(e, store)
  BY <1>2, <1>5, Fading
<1> QED BY <1>1, <1>2, <1>3, <1>6, Rebuild DEF IInv, TypeOK

LEMMA SocketClosesStep ==
  ASSUME IInv, SocketCloses
  PROVE  IInv'
<1> DEFINE r == Phase(w, "idle")
<1>1. Consistent(w, store) /\ w.client.phase # "absent"
      /\ UNCHANGED <<store, granted, forgotten, disposed, survived>>
  BY DEF IInv, SocketCloses, HasSocket, SocketPhase
<1>2. Consistent(r, store)
  BY <1>1, PhaseFades
<1>3. w' \in {r, OnDisconnected(r), StopTerminalAttempt(r, "error")}
  <2>1. w.client.live \in BOOLEAN
    BY <1>1 DEF Consistent, WindowRecord, Client
  <2> QED BY <2>1 DEF SocketCloses
<1> HIDE DEF r
<1>4. Consistent(w', store)
  BY <1>2, <1>3, OnDisconnectedConsistent, StopTerminalAttemptFades DEF ConnectionState
<1> QED BY <1>1, <1>4, Rebuild DEF IInv, TypeOK

LEMMA TimerFiresStep ==
  ASSUME IInv, TimerFires
  PROVE  IInv'
<1> DEFINE r == [w EXCEPT !.timer = "none"]
           c == [r.client EXCEPT !.phase = "opening", !.mode = "stored", !.cred = w.link]
           started == OnConnecting([r EXCEPT !.client = c])
           thrown == ScheduleReconnect(SetState(Phase(started, "idle"), "error"))
<1>1. w \in WindowRecord /\ Consistent(w, store)
  BY DEF IInv, Consistent
<1>2. r \in WindowRecord /\ r.client = w.client /\ r.client \in Client /\ w.link \in MaybeLink
  BY <1>1 DEF WindowRecord
<1>3. Faded(r, w)
  BY <1>1, <1>2 DEF Faded, FadedQueue, Consistent, ClientIsOwned, WindowRecord
<1>4. Consistent(r, store)
  BY <1>1, <1>3, Fading
<1>5. c \in Client /\ c.phase # "absent" /\ c.live = r.client.live
  BY <1>2 DEF Client, SocketPhase
<1>6. /\ \/ w.client.phase # "absent" /\ w' \in {started, thrown}
         \/ w' = r
      /\ UNCHANGED <<store, granted, forgotten, disposed, survived>>
  BY DEF TimerFires
<1> HIDE DEF c, r
<1>7. ASSUME w.client.phase # "absent"
      PROVE  Consistent(started, store) /\ started.client.phase # "absent"
  <2> DEFINE e == [r EXCEPT !.client = c]
  <2>1. Consistent(e, store)
    BY <1>2, <1>4, <1>5, <1>7, ClientFades
  <2>2. e.client.phase # "absent" /\ e \in WindowRecord
    BY <1>2, <1>5 DEF WindowRecord
  <2> HIDE DEF e
  <2>3. OnConnecting(e).client = e.client
    BY <2>2 DEF OnConnecting, SetState, WindowRecord
  <2> QED BY <2>1, <2>2, <2>3, OnConnectingFades DEF e
<1> HIDE DEF started
<1>8. ASSUME w.client.phase # "absent"
      PROVE  Consistent(thrown, store)
  <2>1. Consistent(Phase(started, "idle"), store)
    BY <1>7, <1>8, PhaseFades
  <2> QED BY <2>1, SetStateFades, ScheduleReconnectFades DEF ConnectionState
<1> HIDE DEF thrown
<1>9. Consistent(w', store)
  BY <1>4, <1>6, <1>7, <1>8
<1> QED BY <1>6, <1>9, Rebuild DEF IInv, TypeOK

LEMMA BridgeForgetsStep ==
  ASSUME IInv, NEW l \in Links, BridgeForgets(l)
  PROVE  IInv'
<1>1. Consistent(w', store')
  BY DEF BridgeForgets, IInv
<1> QED BY <1>1, Rebuild DEF BridgeForgets, IInv, TypeOK

-----------------------------------------------------------------------------
(* The theorems *)

\* IInv is inductive, whatever the panels, the links, the retry limit, the
\* length of the storage queue and the faults are.
THEOREM Inductive == Spec => []IInv
<1>1. Init => IInv
  <2> SUFFICES ASSUME Init
               PROVE  IInv
    OBVIOUS
  <2>1. Consistent(w, store)
    BY EmptyRecord DEF Init
  <2> QED BY <2>1 DEF Init, IInv, TypeOK, Consistent, MaybeLink
<1>2. IInv /\ [Next]_vars => IInv'
  <2> SUFFICES ASSUME IInv, [Next]_vars
               PROVE  IInv'
    OBVIOUS
  <2>1. CASE StoreStart
    BY <2>1, StoreStartStep
  <2>2. CASE UserStep
    BY <2>2, LinkWindowStep, UnlinkWindowStep, AbortCommandStep, RegisterPanelStep,
       DisposeRegistrationStep, PublishThrowsStep, RemoveWindowStep,
       DisposeCoordinatorStep, RestartStep DEF UserStep
  <2>3. CASE StoreStep
    BY <2>3, StoreApplyStep, StoreFailsStep, StoreSettlesStep DEF StoreStep
  <2>4. CASE HandshakeStep
    BY <2>4, SocketOpensStep, LinkAcceptedStep, LinkRefusedStep, AuthenticatedStep,
       AuthenticationRefusedStep, SocketFailsStep, SocketClosesStep DEF HandshakeStep
  <2>5. CASE TimerFires
    BY <2>5, TimerFiresStep
  <2>6. CASE \E l \in Links : BridgeForgets(l)
    BY <2>6, BridgeForgetsStep
  <2>7. CASE UNCHANGED vars
    BY <2>7, Rebuild DEF vars, IInv, TypeOK
  <2> QED BY <2>1, <2>2, <2>3, <2>4, <2>5, <2>6, <2>7 DEF Next
<1> QED BY <1>1, <1>2, PTL DEF Spec

\* Every variable has its type: no step leaves the retry counter's range or
\* queues anything but a storage operation.
THEOREM TypeCorrect == Spec => []TypeOK
<1>1. IInv => TypeOK
  BY DEF IInv
<1> QED BY <1>1, Inductive, PTL

\* openClient never replaces a client whose socket lives (the coordinator's one
\* shared socket per window).
THEOREM OneSocket == Spec => []OneSocketPerWindow
<1>1. IInv => OneSocketPerWindow
  BY DEF IInv, Consistent, OneSocketPerWindow
<1> QED BY <1>1, Inductive, PTL

\* No client outlives the last panel, whatever answers are still on their way.
THEOREM ClientHasPanel == Spec => []ClientNeedsPanel
<1>1. IInv => ClientNeedsPanel
  BY DEF IInv, Consistent, ClientIsOwned, ClientNeedsPanel
<1> QED BY <1>1, Inductive, PTL

\* The record's client is never one whose callbacks would be ignored.
THEOREM ClientHeard == Spec => []ClientIsHeard
<1>1. IInv => ClientIsHeard
  BY DEF IInv, Consistent, ClientIsOwned, ClientIsHeard
<1> QED BY <1>1, Inductive, PTL

\* A link in memory is the link in session storage.
THEOREM LinkStored == Spec => []LinkIsStored
<1>1. IInv => LinkIsStored
  BY DEF IInv, Consistent, LinkIsSettled, LinkIsStored
<1> QED BY <1>1, Inductive, PTL

-----------------------------------------------------------------------------
(* What the panels are told: the second inductive invariant *)

\* A continuation that will be heard still has what it was started for.
Supported(op, c, panels) ==
  /\ ~ op.aborted
  /\ op.kind = "load" => panels # {}
  /\ op.kind = "save" =>
       c.phase \in {"ready", "failed", "idle"} /\ c.cred = op.link /\ op.link # NoLink

\* A continuation that adopts what is stored has no removal behind it.
QueueFits(q, c, panels) ==
  \A i \in DOMAIN q : Establishing(q[i]) =>
    /\ Supported(q[i], c, panels)
    /\ q[i].kind # "link" => \A j \in DOMAIN q : i < j => ~ Removes(q[j])

\* A client works for the record's link; a timer or "linked" has reason.
ClientFits(c, connected, timer, link, state, writing) ==
  /\ connected => c.phase = "ready"
  /\ c.phase # "absent" /\ link # NoLink => c.cred = link
  /\ c.phase = "requested" => link = NoLink
  /\ c.phase = "opening" /\ c.mode = "link" => link = NoLink
  /\ timer # "none" => timer = "armed" /\ c.phase # "absent" /\ link # NoLink /\ ~ connected
  /\ state = "linked" => connected /\ link # NoLink /\ ~ writing

\* The cases of ProgressIsPending.
Progressing(r) ==
  r.state \in {"linking", "reconnecting"} =>
    \/ ~ NoneEstablishing(r)
    \/ HasSocket(r)
    \/ r.timer = "armed"
    \/ r.panels = {} /\ r.pending.kind = "code"

Fits(r) ==
  /\ QueueFits(r.queue, r.client, r.panels)
  /\ ClientFits(r.client, r.connected, r.timer, r.link, r.state, r.writing)

Orderly(r) == Fits(r) /\ Progressing(r)

\* A removal that is queued and has neither failed nor been called off.
RemovalQueued(q, head) ==
  \E j \in DOMAIN q : Removes(q[j]) /\ (j = 1 => head \in {"waiting", "running"})

\* The save of a forgotten link will be skipped, or its effect removed.
SavesRecalled(q, head, fgt) ==
  \A i \in DOMAIN q : q[i].kind = "save" /\ q[i].link \in fgt =>
    /\ ~ q[i].live
    /\ i = 1 /\ head = "running" => \E j \in DOMAIN q : 1 < j /\ Removes(q[j])

\* s is the stored link, fgt what is forgotten, srv whether a removal was missed.
Remembers(q, head, link, c, s, fgt, srv) ==
  /\ s \in fgt => srv \/ RemovalQueued(q, head)
  /\ SavesRecalled(q, head, fgt)
  /\ link \in fgt => srv
  /\ c.mode = "fresh" => c.phase # "absent" /\ c.cred \notin fgt

PromisesKept ==
  /\ Orderly(w)
  /\ Remembers(w.queue, w.head, w.link, w.client, store, forgotten, survived)

\* Without a client, a timer or a continuation there is nothing to promise.
Quiet(r) ==
  /\ NoneEstablishing(r) /\ r.client.phase = "absent" /\ ~ r.connected
  /\ r.timer = "none"
  /\ r.state \notin {"linked", "linking", "reconnecting"}

LEMMA QuietOrderly ==
  ASSUME NEW r, Quiet(r)
  PROVE  Orderly(r)
<1>1. QueueFits(r.queue, r.client, r.panels)
  BY DEF Quiet, QueueFits, NoneEstablishing
<1>2. ClientFits(r.client, r.connected, r.timer, r.link, r.state, r.writing)
  BY DEF Quiet, ClientFits
<1> QED BY <1>1, <1>2 DEF Orderly, Fits, Progressing, Quiet

-----------------------------------------------------------------------------
(* What the methods leave *)

LEMMA ForgetLinkLeaves ==
  ASSUME NEW r \in WindowRecord, NEW state \in ConnectionState
  PROVE  LET e == ForgetLink(r, state) IN
         /\ e \in WindowRecord /\ FadedQueue(e.queue, r.queue) /\ NoneEstablishing(e)
         /\ e.client = NoClient /\ ~ e.connected /\ e.timer = "none" /\ e.link = NoLink
         /\ e.state = state /\ e.head = r.head /\ e.panels = r.panels
         /\ e.pending = NoPending
<1> DEFINE d == DropClient(Invalidate(r))
           e == ForgetLink(r, state)
<1>1. /\ d \in WindowRecord /\ FadedQueue(d.queue, r.queue)
      /\ NoneEstablishing(d) /\ d.client = NoClient
      /\ ~ d.connected /\ d.timer = "none"
      /\ \A f \in {"head", "orphans", "link", "pending", "panels", "present",
                   "writing", "attempts"} : d[f] = r[f]
  BY Cleared
<1>2. e = [d EXCEPT !.link = NoLink, !.pending = NoPending, !.writing = FALSE,
                    !.attempts = 0, !.state = state]
  BY DEF ForgetLink
<1> HIDE DEF d
<1>3. /\ e \in WindowRecord /\ e.queue = d.queue /\ e.client = d.client
      /\ e.connected = d.connected /\ e.timer = d.timer /\ e.link = NoLink
      /\ e.state = state /\ e.head = d.head /\ e.panels = d.panels /\ e.pending = NoPending
  BY <1>1, <1>2, Empties DEF WindowRecord
<1> HIDE DEF e
<1>4. NoneEstablishing(e)
  BY <1>1, <1>3 DEF NoneEstablishing
<1> QED BY <1>1, <1>3, <1>4 DEF e

LEMMA StopTerminalAttemptLeaves ==
  ASSUME NEW r \in WindowRecord, NEW state \in ConnectionState
  PROVE  LET e == StopTerminalAttempt(r, state) IN
         /\ e \in WindowRecord /\ FadedQueue(e.queue, r.queue) /\ NoneEstablishing(e)
         /\ e.client = NoClient /\ ~ e.connected /\ e.timer = "none" /\ e.link = r.link
         /\ e.state = state /\ e.head = r.head
<1> DEFINE d == DropClient(Invalidate(r))
           e == StopTerminalAttempt(r, state)
<1>1. /\ d \in WindowRecord /\ FadedQueue(d.queue, r.queue)
      /\ NoneEstablishing(d) /\ d.client = NoClient
      /\ ~ d.connected /\ d.timer = "none"
      /\ \A f \in {"head", "orphans", "link", "pending", "panels", "present",
                   "writing", "attempts"} : d[f] = r[f]
  BY Cleared
<1>2. e = [d EXCEPT !.pending = NoPending, !.writing = FALSE, !.attempts = 0,
                    !.state = state]
  BY DEF StopTerminalAttempt
<1> HIDE DEF d
<1>3. /\ e \in WindowRecord /\ e.queue = d.queue /\ e.client = d.client
      /\ e.connected = d.connected /\ e.timer = d.timer /\ e.link = d.link
      /\ e.state = state /\ e.head = d.head
  BY <1>1, <1>2, Empties DEF WindowRecord
<1> HIDE DEF e
<1>4. NoneEstablishing(e)
  BY <1>1, <1>3 DEF NoneEstablishing
<1> QED BY <1>1, <1>3, <1>4 DEF e

\* A client and its continuation that go with the last claim leave quiet.
LEMMA StoppedIsQuiet ==
  ASSUME NEW r \in WindowRecord, NEW state \in ConnectionState,
         state \notin {"linked", "linking", "reconnecting"}
  PROVE  Quiet(ForgetLink(r, state)) /\ Quiet(StopTerminalAttempt(r, state))
BY ForgetLinkLeaves, StopTerminalAttemptLeaves DEF Quiet, NoClient

LEMMA EnqueueOrderly ==
  ASSUME NEW r \in WindowRecord, NEW op \in StoreOp, NoneEstablishing(r),
         ClientFits(r.client, r.connected, r.timer, r.link, r.state, r.writing),
         Establishing(op) => Supported(op, r.client, r.panels),
         Establishing(op) \/ Progressing(r)
  PROVE  Orderly(Enqueue(r, op))
<1> DEFINE e == Enqueue(r, op)
           n == Len(r.queue)
<1>1. /\ r.queue \in Seq(StoreOp) /\ n \in Nat /\ DOMAIN r.queue = 1 .. n
  BY LenProperties DEF WindowRecord
<1>2. /\ e.queue = Append(r.queue, op)
      /\ e.client = r.client /\ e.connected = r.connected /\ e.timer = r.timer
      /\ e.link = r.link /\ e.state = r.state /\ e.writing = r.writing
      /\ e.panels = r.panels /\ e.pending = r.pending
  BY DEF Enqueue, WindowRecord
<1>3. /\ DOMAIN e.queue = 1 .. n + 1
      /\ \A i \in 1 .. n : e.queue[i] = r.queue[i]
      /\ e.queue[n + 1] = op
  BY <1>1, <1>2, AppendProperties, LenProperties
<1> HIDE DEF e, n
<1>4. \A i \in 1 .. n : ~ Establishing(e.queue[i])
  BY <1>1, <1>3 DEF NoneEstablishing
<1>5. QueueFits(e.queue, e.client, e.panels)
  <2> SUFFICES ASSUME NEW i \in DOMAIN e.queue, Establishing(e.queue[i])
               PROVE  /\ Supported(e.queue[i], e.client, e.panels)
                      /\ \A j \in DOMAIN e.queue : i < j => ~ Removes(e.queue[j])
    BY DEF QueueFits
  <2>1. i = n + 1 /\ \A j \in DOMAIN e.queue : ~ (i < j)
    BY <1>1, <1>3, <1>4
  <2> QED BY <1>2, <1>3, <2>1
<1>6. Progressing(e)
  <2>1. n + 1 \in DOMAIN e.queue /\ e.queue[n + 1] = op
    BY <1>1, <1>3
  <2>2. Establishing(op) => ~ NoneEstablishing(e)
    BY <2>1 DEF NoneEstablishing
  <2>3. Establishing(op) => Progressing(e)
    BY <2>2 DEF Progressing
  <2>4. Progressing(r) => Progressing(e)
    BY <1>2 DEF Progressing, HasSocket
  <2> QED BY <2>3, <2>4
<1> QED BY <1>2, <1>5, <1>6 DEF Orderly, Fits, e

\* A quiet window queues a removal and stays quiet.
LEMMA QuietEnqueue ==
  ASSUME NEW r \in WindowRecord, NEW op \in StoreOp, Quiet(r), ~ Establishing(op)
  PROVE  Orderly(Enqueue(r, op))
BY EnqueueOrderly, QuietOrderly DEF Quiet, Orderly, Fits

-----------------------------------------------------------------------------
(* What is forgotten *)

\* A step that only lets operations, the link and new credentials go.
Recedes(e, r) ==
  /\ FadedQueue(e.queue, r.queue)
  /\ e.head = r.head
  /\ e.link \in {r.link, NoLink}
  /\ e.client.mode = "fresh" =>
       /\ r.client.mode = "fresh" /\ e.client.cred = r.client.cred
       /\ r.client.phase # "absent" => e.client.phase # "absent"

RemembersAll(r, s, fgt, srv) ==
  Remembers(r.queue, r.head, r.link, r.client, s, fgt, srv)

LEMMA RecedingRemembers ==
  ASSUME NEW r, NEW e, Recedes(e, r), NEW s, NEW fgt \in SUBSET Links, NEW srv,
         RemembersAll(r, s, fgt, srv)
  PROVE  RemembersAll(e, s, fgt, srv)
<1>1. NoLink \notin fgt
  BY ConstantsAssumption
<1>2. RemovalQueued(r.queue, r.head) => RemovalQueued(e.queue, e.head)
  BY DEF RemovalQueued, Removes, Recedes, FadedQueue
<1>3. SavesRecalled(e.queue, e.head, fgt)
  BY DEF SavesRecalled, Removes, Recedes, FadedQueue, RemembersAll, Remembers
<1> QED BY <1>1, <1>2, <1>3 DEF Recedes, RemembersAll, Remembers

LEMMA RecedingTrans ==
  ASSUME NEW r, NEW e, NEW d, Recedes(e, r), Recedes(d, e)
  PROVE  Recedes(d, r)
BY DEF Recedes, FadedQueue

\* A queued operation takes no removal away; a save must not be of a
\* forgotten link.
LEMMA EnqueueRemembers ==
  ASSUME NEW r \in WindowRecord, NEW op \in StoreOp, NEW s, NEW fgt, NEW srv,
         RemembersAll(r, s, fgt, srv), op.kind = "save" => op.link \notin fgt
  PROVE  RemembersAll(Enqueue(r, op), s, fgt, srv)
<1> DEFINE e == Enqueue(r, op)
           n == Len(r.queue)
<1>1. /\ r.queue \in Seq(StoreOp) /\ n \in Nat /\ DOMAIN r.queue = 1 .. n
  BY LenProperties DEF WindowRecord
<1>2. /\ e.queue = Append(r.queue, op)
      /\ e.client = r.client /\ e.head = r.head /\ e.link = r.link
  BY DEF Enqueue, WindowRecord
<1>3. /\ DOMAIN e.queue = 1 .. n + 1
      /\ \A i \in 1 .. n : e.queue[i] = r.queue[i]
      /\ e.queue[n + 1] = op
  BY <1>1, <1>2, AppendProperties, LenProperties
<1> HIDE DEF e, n
<1>4. \A j \in DOMAIN r.queue : j \in DOMAIN e.queue /\ e.queue[j] = r.queue[j]
  BY <1>1, <1>3
<1>5. RemovalQueued(r.queue, r.head) => RemovalQueued(e.queue, e.head)
  BY <1>2, <1>4 DEF RemovalQueued
<1>6. SavesRecalled(e.queue, e.head, fgt)
  <2> SUFFICES ASSUME NEW i \in DOMAIN e.queue, e.queue[i].kind = "save",
                      e.queue[i].link \in fgt
               PROVE  /\ ~ e.queue[i].live
                      /\ i = 1 /\ e.head = "running" =>
                           \E j \in DOMAIN e.queue : 1 < j /\ Removes(e.queue[j])
    BY DEF SavesRecalled
  <2>1. i \in DOMAIN r.queue /\ e.queue[i] = r.queue[i]
    BY <1>1, <1>3
  <2>2. /\ ~ r.queue[i].live
        /\ i = 1 /\ r.head = "running" =>
             \E j \in DOMAIN r.queue : 1 < j /\ Removes(r.queue[j])
    BY <2>1 DEF SavesRecalled, RemembersAll, Remembers
  <2> QED BY <1>2, <1>4, <2>1, <2>2
<1> QED BY <1>2, <1>5, <1>6 DEF RemembersAll, Remembers, e

\* Whatever is forgotten together with a queued removal: no save is heard any
\* more and the removal runs after the one that is running.
LEMMA ForgetRemembers ==
  ASSUME NEW r \in WindowRecord, NEW op \in StoreOp, NEW s, NEW srv,
         NEW fgt \in SUBSET Links,
         NoneEstablishing(r), r.link = NoLink, r.client.mode # "fresh",
         r.queue = << >> => r.head = "waiting", Removes(op)
  PROVE  RemembersAll(Enqueue(r, op), s, fgt, srv)
<1> DEFINE e == Enqueue(r, op)
           n == Len(r.queue)
<1>0. NoLink \notin fgt
  BY ConstantsAssumption
<1>1. /\ r.queue \in Seq(StoreOp) /\ n \in Nat /\ DOMAIN r.queue = 1 .. n
      /\ r.queue = << >> <=> n = 0
  BY LenProperties, EmptySeq DEF WindowRecord
<1>2. /\ e.queue = Append(r.queue, op)
      /\ e.client = r.client /\ e.head = r.head /\ e.link = r.link
  BY DEF Enqueue, WindowRecord
<1>3. /\ DOMAIN e.queue = 1 .. n + 1
      /\ \A i \in 1 .. n : e.queue[i] = r.queue[i]
      /\ e.queue[n + 1] = op
  BY <1>1, <1>2, AppendProperties, LenProperties
<1> HIDE DEF e, n
<1>4. n + 1 \in DOMAIN e.queue /\ Removes(e.queue[n + 1])
  BY <1>1, <1>3
<1>5. RemovalQueued(e.queue, e.head)
  <2>1. n + 1 = 1 => e.head \in {"waiting", "running"}
    BY <1>1, <1>2
  <2> QED BY <1>4, <2>1 DEF RemovalQueued
<1>6. SavesRecalled(e.queue, e.head, fgt)
  <2> SUFFICES ASSUME NEW i \in DOMAIN e.queue, e.queue[i].kind = "save"
               PROVE  /\ ~ e.queue[i].live
                      /\ i = 1 => \E j \in DOMAIN e.queue : 1 < j /\ Removes(e.queue[j])
    BY DEF SavesRecalled
  <2>1. i \in 1 .. n /\ e.queue[i] = r.queue[i]
    BY <1>1, <1>3 DEF Removes
  <2>2. ~ e.queue[i].live
    <3>1. r.queue[i] \in StoreOp /\ i \in DOMAIN r.queue
      BY <1>1, <2>1, ElementOfSeq
    <3> QED BY <2>1, <3>1 DEF NoneEstablishing, Establishing, StoreOp
  <2>3. 1 < n + 1
    BY <1>1, <2>1
  <2> QED BY <1>4, <2>2, <2>3
<1> QED BY <1>0, <1>2, <1>5, <1>6 DEF RemembersAll, Remembers, e

\* The head leaves: a removal that leaves has run, or it is recorded as missed.
LEMMA DequeueRemembers ==
  ASSUME NEW r \in WindowRecord, r.queue # << >>, NEW s, NEW fgt,
         NEW srv \in BOOLEAN, NEW srv2 \in BOOLEAN,
         RemembersAll(r, s, fgt, srv), srv => srv2,
         r.head \in {"done", "failed"} \/ (Removes(Head(r.queue)) => srv2)
  PROVE  RemembersAll(Dequeue(r), s, fgt, srv2)
<1> DEFINE e == Dequeue(r)
           n == Len(r.queue)
<1>1. /\ r.queue \in Seq(StoreOp) /\ n \in Nat \ {0} /\ DOMAIN r.queue = 1 .. n
  BY LenProperties, EmptySeq DEF WindowRecord
<1>2. /\ e.queue = Tail(r.queue) /\ e.head = "waiting"
      /\ e.client = r.client /\ e.link = r.link
  BY DEF Dequeue, WindowRecord
<1>3. /\ DOMAIN e.queue = 1 .. n - 1
      /\ \A i \in 1 .. n - 1 : e.queue[i] = r.queue[i + 1]
      /\ Head(r.queue) = r.queue[1]
  BY <1>1, <1>2, HeadTailProperties, LenProperties
<1> HIDE DEF e, n
<1>4. RemovalQueued(r.queue, r.head) => srv2 \/ RemovalQueued(e.queue, e.head)
  <2> SUFFICES ASSUME NEW j \in DOMAIN r.queue, Removes(r.queue[j]),
                      j = 1 => r.head \in {"waiting", "running"}
               PROVE  srv2 \/ RemovalQueued(e.queue, e.head)
    BY DEF RemovalQueued
  <2>1. CASE j = 1
    BY <1>3, <2>1
  <2>2. CASE j # 1
    <3>1. j - 1 \in DOMAIN e.queue /\ e.queue[j - 1] = r.queue[j]
      BY <1>1, <1>3, <2>2
    <3> QED BY <1>2, <3>1 DEF RemovalQueued
  <2> QED BY <2>1, <2>2
<1>5. SavesRecalled(e.queue, e.head, fgt)
  <2>1. \A i \in DOMAIN e.queue : i + 1 \in DOMAIN r.queue /\ e.queue[i] = r.queue[i + 1]
    BY <1>1, <1>3
  <2> QED BY <1>2, <2>1 DEF SavesRecalled, RemembersAll, Remembers
<1> QED BY <1>2, <1>4, <1>5 DEF RemembersAll, Remembers, e

-----------------------------------------------------------------------------
(* What the methods leave of an orderly record *)

LEMMA SameQueueRecedes ==
  ASSUME NEW r, NEW e, e.queue = r.queue, e.head = r.head, e.link \in {r.link, NoLink},
         \/ e.client.mode # "fresh"
         \/ e.client = r.client
  PROVE  Recedes(e, r)
BY DEF Recedes, FadedQueue

\* Nothing is announced that needs more than what fits.
LEMMA SetStateLeaves ==
  ASSUME NEW r \in WindowRecord, Fits(r),
         NEW state \in ConnectionState \ {"linked", "linking", "reconnecting"}
  PROVE  Orderly(SetState(r, state)) /\ Recedes(SetState(r, state), r)
<1> DEFINE e == SetState(r, state)
<1>1. /\ e.queue = r.queue /\ e.client = r.client /\ e.connected = r.connected
      /\ e.timer = r.timer /\ e.link = r.link /\ e.state = state /\ e.writing = r.writing
      /\ e.panels = r.panels /\ e.head = r.head
  BY DEF SetState, WindowRecord
<1> HIDE DEF e
<1>2. Orderly(e)
  BY <1>1 DEF Fits, QueueFits, ClientFits, Orderly, Progressing
<1>3. Recedes(e, r)
  BY <1>1, SameQueueRecedes
<1> QED BY <1>2, <1>3 DEF e

LEMMA StoppedRecedes ==
  ASSUME NEW r \in WindowRecord, NEW state \in ConnectionState
  PROVE  /\ Recedes(ForgetLink(r, state), r)
         /\ Recedes(StopTerminalAttempt(r, state), r)
BY ForgetLinkLeaves, StopTerminalAttemptLeaves DEF Recedes, NoClient

LEMMA OpenClientLeaves ==
  ASSUME NEW r \in WindowRecord, NEW mode \in {"link", "stored"}, NEW cred \in MaybeLink,
         NEW outcome \in OpenOutcomes, NoneEstablishing(r),
         r.client.phase = "absent", r.timer = "none",
         r.link # NoLink => mode = "stored" /\ cred = r.link
  PROVE  LET e == OpenClient(r, mode, cred, outcome)
         IN  Orderly(e) /\ Recedes(e, r)
<1> DEFINE e == OpenClient(r, mode, cred, outcome)
<1>1. outcome \in {"opens", "createThrows", "startThrows"}
  BY DEF OpenOutcomes
<1>2. CASE outcome = "createThrows"
  <2>1. e = [r EXCEPT !.connected = FALSE, !.state = "error"]
    BY <1>2 DEF OpenClient
  <2>2. /\ e.queue = r.queue /\ e.client = r.client /\ ~ e.connected
        /\ e.timer = r.timer /\ e.link = r.link /\ e.state = "error" /\ e.head = r.head
    BY <2>1 DEF WindowRecord
  <2> HIDE DEF e
  <2>3. NoneEstablishing(e)
    BY <2>2 DEF NoneEstablishing
  <2>4. Orderly(e)
    BY <2>2, <2>3, QuietOrderly DEF Quiet
  <2> QED BY <2>2, <2>4, SameQueueRecedes DEF e
<1>3. CASE outcome = "startThrows"
  <2> DEFINE o == OnConnecting(r)
             d == DropClient(o)
  <2>1. /\ o \in WindowRecord /\ o.queue = r.queue /\ o.timer = r.timer
        /\ o.link = r.link /\ o.head = r.head
    BY OnConnectingType DEF OnConnecting, SetState, WindowRecord
  <2> HIDE DEF o
  <2>2. NoneEstablishing(o)
    BY <2>1 DEF NoneEstablishing
  <2>3. /\ d \in WindowRecord /\ FadedQueue(d.queue, o.queue) /\ NoneEstablishing(d)
        /\ d.client = NoClient /\ ~ d.connected /\ d.timer = "none"
        /\ d.link = o.link /\ d.head = o.head
    BY <2>1, <2>2, DroppedClient DEF WindowRecord
  <2>4. e = SetState(d, "error")
    BY <1>3 DEF OpenClient, d, o
  <2> HIDE DEF d
  <2>5. /\ e.queue = d.queue /\ e.client = NoClient /\ ~ e.connected
        /\ e.timer = "none" /\ e.link = d.link /\ e.state = "error" /\ e.head = d.head
    BY <2>3, <2>4 DEF SetState, WindowRecord
  <2> HIDE DEF e
  <2>6. NoneEstablishing(e)
    BY <2>3, <2>5 DEF NoneEstablishing
  <2>7. Orderly(e)
    BY <2>5, <2>6, QuietOrderly DEF Quiet, NoClient
  <2>8. Recedes(e, r)
    BY <2>1, <2>3, <2>5 DEF Recedes, NoClient
  <2> QED BY <2>7, <2>8 DEF e
<1>4. CASE outcome = "opens"
  <2> DEFINE c == [phase |-> "opening", mode |-> mode, cred |-> cred, live |-> TRUE]
             n == r.orphans + (IF HasSocket(r) THEN 1 ELSE 0)
             o == [r EXCEPT !.orphans = n, !.client = c, !.connected = FALSE]
  <2>1. e = OnConnecting(o)
    BY <1>4 DEF OpenClient
  <2>2. /\ o.queue = r.queue /\ o.client = c /\ ~ o.connected
        /\ o.timer = r.timer /\ o.link = r.link /\ o.head = r.head
        /\ o.state = r.state /\ DOMAIN o = DOMAIN r
    BY DEF WindowRecord
  <2>3. c.phase = "opening" /\ c.mode = mode /\ c.cred = cred
    OBVIOUS
  <2> HIDE DEF o, c
  <2>4. /\ e.queue = r.queue /\ e.client = c /\ ~ e.connected
        /\ e.timer = r.timer /\ e.link = r.link /\ e.head = r.head
        /\ e.state \in {"reconnecting", "linking"}
    BY <2>1, <2>2 DEF OnConnecting, SetState, WindowRecord
  <2> HIDE DEF e
  <2>5. NoneEstablishing(e)
    BY <2>4 DEF NoneEstablishing
  <2>6. QueueFits(e.queue, e.client, e.panels)
    BY <2>5 DEF QueueFits, NoneEstablishing
  <2>7. ClientFits(e.client, e.connected, e.timer, e.link, e.state, e.writing)
    BY <2>3, <2>4 DEF ClientFits
  <2>8. Progressing(e)
    BY <2>3, <2>4 DEF Progressing, HasSocket, SocketPhase
  <2>9. Recedes(e, r)
    BY <2>3, <2>4, SameQueueRecedes
  <2> QED BY <2>6, <2>7, <2>8, <2>9 DEF Orderly, Fits, e
<1> QED BY <1>1, <1>2, <1>3, <1>4

\* A client that may be retried: its link is the record's.
LEMMA ScheduleReconnectLeaves ==
  ASSUME NEW r \in WindowRecord, NoneEstablishing(r),
         r.client.phase \in {"ready", "failed", "idle"}, r.client.live,
         r.panels # {}, r.link # NoLink, r.client.cred = r.link, ~ r.connected,
         r.timer \in {"none", "armed"}, r.state = "linked" => r.timer = "none"
  PROVE  LET e == ScheduleReconnect(r)
         IN  Orderly(e) /\ Recedes(e, r)
<1> DEFINE e == ScheduleReconnect(r)
<1>1. r.attempts \in Nat /\ MaxAttempts \in Nat
  BY ConstantsAssumption DEF WindowRecord
<1>2. QueueFits(r.queue, r.client, r.panels)
  BY DEF QueueFits, NoneEstablishing
<1>3. CASE r.timer = "armed"
  <2>1. e = r
    BY <1>3 DEF ScheduleReconnect, CanScheduleReconnect
  <2>2. ClientFits(r.client, r.connected, r.timer, r.link, r.state, r.writing)
    BY <1>3 DEF ClientFits
  <2>3. Progressing(r)
    BY <1>3 DEF Progressing
  <2> HIDE DEF e
  <2> QED BY <1>2, <2>1, <2>2, <2>3, SameQueueRecedes DEF Orderly, Fits, e
<1>4. CASE r.timer = "none" /\ r.attempts >= MaxAttempts
  <2>1. e = StopTerminalAttempt(r, "offline")
    BY <1>1, <1>4 DEF ScheduleReconnect, CanScheduleReconnect, StopStoredReconnect,
                      StopTerminalAttempt
  <2>2. Orderly(StopTerminalAttempt(r, "offline"))
    BY StoppedIsQuiet, QuietOrderly DEF ConnectionState
  <2>3. Recedes(StopTerminalAttempt(r, "offline"), r)
    BY StoppedRecedes DEF ConnectionState
  <2> HIDE DEF e
  <2> QED BY <2>1, <2>2, <2>3 DEF e
<1>5. CASE r.timer = "none" /\ r.attempts < MaxAttempts
  <2>1. e = [r EXCEPT !.state = "reconnecting", !.attempts = @ + 1, !.timer = "armed"]
    BY <1>1, <1>5 DEF ScheduleReconnect, CanScheduleReconnect
  <2>2. /\ e.queue = r.queue /\ e.client = r.client /\ ~ e.connected
        /\ e.timer = "armed" /\ e.link = r.link /\ e.head = r.head
        /\ e.state = "reconnecting" /\ e.panels = r.panels
    BY <2>1 DEF WindowRecord
  <2> HIDE DEF e
  <2>3. ClientFits(e.client, e.connected, e.timer, e.link, e.state, e.writing)
    BY <2>2 DEF ClientFits
  <2>4. Progressing(e)
    BY <2>2 DEF Progressing
  <2> QED BY <1>2, <2>2, <2>3, <2>4, SameQueueRecedes DEF Orderly, Fits, e
<1> QED BY <1>1, <1>3, <1>4, <1>5

\* The head leaves: what it promised is the continuation's to keep.
LEMMA DequeueLeaves ==
  ASSUME NEW r \in WindowRecord, r.queue # << >>, Orderly(r)
  PROVE  LET e == Dequeue(r) IN
         /\ e \in WindowRecord /\ Fits(e)
         /\ ~ Establishing(Head(r.queue)) => Orderly(e)
<1> DEFINE e == Dequeue(r)
           n == Len(r.queue)
<1>1. /\ r.queue \in Seq(StoreOp) /\ n \in Nat \ {0} /\ DOMAIN r.queue = 1 .. n
  BY LenProperties, EmptySeq DEF WindowRecord
<1>2. /\ e.queue = Tail(r.queue) /\ e.client = r.client /\ e.connected = r.connected
      /\ e.timer = r.timer /\ e.link = r.link /\ e.state = r.state /\ e.writing = r.writing
      /\ e.panels = r.panels /\ e.pending = r.pending
  BY DEF Dequeue, WindowRecord
<1>3. /\ DOMAIN e.queue = 1 .. n - 1
      /\ \A i \in 1 .. n - 1 : e.queue[i] = r.queue[i + 1]
      /\ Head(r.queue) = r.queue[1]
  BY <1>1, <1>2, HeadTailProperties, LenProperties
<1>4. e \in WindowRecord
  BY DequeueType
<1> HIDE DEF e, n
<1>5. \A i \in DOMAIN e.queue : i + 1 \in DOMAIN r.queue /\ e.queue[i] = r.queue[i + 1]
  BY <1>1, <1>3
<1>6. QueueFits(e.queue, e.client, e.panels)
  <2> SUFFICES ASSUME NEW i \in DOMAIN e.queue, Establishing(e.queue[i])
               PROVE  /\ Supported(e.queue[i], e.client, e.panels)
                      /\ e.queue[i].kind # "link" =>
                           \A j \in DOMAIN e.queue : i < j => ~ Removes(e.queue[j])
    BY DEF QueueFits
  <2>1. /\ Supported(r.queue[i + 1], r.client, r.panels)
        /\ r.queue[i + 1].kind # "link" =>
             \A j \in DOMAIN r.queue : i + 1 < j => ~ Removes(r.queue[j])
    BY <1>5 DEF QueueFits, Orderly, Fits
  <2>2. \A j \in DOMAIN e.queue : i < j => i + 1 < j + 1
    BY <1>1, <1>3
  <2> QED BY <1>2, <1>5, <2>1, <2>2
<1>7. Fits(e)
  BY <1>2, <1>6 DEF Orderly, Fits
<1>8. ASSUME ~ Establishing(Head(r.queue))
      PROVE  Progressing(e)
  <2>1. NoneEstablishing(e) => NoneEstablishing(r)
    <3> SUFFICES ASSUME NoneEstablishing(e), NEW i \in DOMAIN r.queue
                 PROVE  ~ Establishing(r.queue[i])
      BY DEF NoneEstablishing
    <3>1. CASE i = 1
      BY <1>3, <1>8, <3>1
    <3>2. CASE i # 1
      <4>1. i - 1 \in DOMAIN e.queue /\ e.queue[i - 1] = r.queue[i]
        BY <1>1, <1>3, <3>2
      <4> QED BY <4>1 DEF NoneEstablishing
    <3> QED BY <3>1, <3>2
  <2> QED BY <1>2, <2>1 DEF Orderly, Progressing, HasSocket
<1> QED BY <1>4, <1>7, <1>8 DEF Orderly, e

-----------------------------------------------------------------------------
(* The steps keep what was promised *)

LEMMA Knowing ==
  ASSUME IInv, PromisesKept
  PROVE  /\ w \in WindowRecord /\ Consistent(w, store) /\ Orderly(w) /\ Fits(w)
         /\ RemembersAll(w, store, forgotten, survived)
         /\ forgotten \in SUBSET Links /\ survived \in BOOLEAN /\ store \in MaybeLink
         /\ w.client \in Client
         /\ w.client.phase # "absent" => w.client.live /\ w.panels # {}
         /\ w.client.phase = "absent" =>
              ~ w.connected /\ w.timer = "none" /\ w.state # "linked"
         /\ w.link # NoLink => NoneEstablishing(w)
         /\ w.client.phase \in {"opening", "requested", "greeted"} => NoneEstablishing(w)
         /\ w.client.phase = "absent" /\ NoneAdopting(w) => NoneEstablishing(w)
         /\ w.queue = << >> => w.head = "waiting"
<1>1. /\ w \in WindowRecord /\ Consistent(w, store) /\ Orderly(w) /\ Fits(w)
      /\ RemembersAll(w, store, forgotten, survived)
      /\ forgotten \in SUBSET Links /\ survived \in BOOLEAN /\ store \in MaybeLink
  BY DEF IInv, TypeOK, PromisesKept, Orderly, RemembersAll
<1>2. /\ w.client \in Client
      /\ w.client.phase # "absent" => w.client.live /\ w.panels # {} /\ NoneAdopting(w)
      /\ w.link # NoLink => NoneEstablishing(w)
      /\ w.queue = << >> => w.head = "waiting"
  BY <1>1 DEF WindowRecord, Consistent, ClientIsOwned, LinkIsSettled, HeadIsApplied
<1>3. w.client.phase = "absent" => ~ w.connected /\ w.timer = "none" /\ w.state # "linked"
  BY <1>1 DEF Fits, ClientFits
<1>4. /\ NoneAdopting(w) /\ w.client.phase \notin {"ready", "failed", "idle"} =>
           NoneEstablishing(w)
  BY <1>1 DEF NoneAdopting, NoneEstablishing, Adopting, Establishing, Fits, QueueFits,
              Supported
<1> QED BY <1>1, <1>2, <1>3, <1>4

LEMMA RecedingStep ==
  ASSUME IInv, PromisesKept, Orderly(w'), Recedes(w', w),
         UNCHANGED <<store, forgotten, survived>>
  PROVE  PromisesKept'
BY Knowing, RecedingRemembers DEF PromisesKept, RemembersAll

LEMMA LinkWindowKeeps ==
  ASSUME IInv, PromisesKept, LinkWindow
  PROVE  PromisesKept'
<1> DEFINE r == RecordFor(w)
           e == ForgetLink(r, "linking")
           op == Op("link", TRUE, NoLink)
<1>1. w' = Enqueue(e, op) /\ UNCHANGED <<store, forgotten, survived>>
  BY DEF LinkWindow
<1>2. /\ w \in WindowRecord /\ RemembersAll(w, store, forgotten, survived)
      /\ forgotten \in SUBSET Links
  BY Knowing
<1>3. r \in WindowRecord /\ Recedes(r, w)
  BY <1>2, SameQueueRecedes DEF RecordFor, WindowRecord
<1> HIDE DEF r
<1>4. /\ e \in WindowRecord /\ NoneEstablishing(e) /\ e.client = NoClient
      /\ ~ e.connected /\ e.timer = "none" /\ e.link = NoLink /\ e.state = "linking"
      /\ Recedes(e, r)
  BY <1>3, ForgetLinkLeaves, StoppedRecedes DEF ConnectionState
<1>5. op \in StoreOp /\ op.kind = "link" /\ ~ op.aborted
  BY Empties DEF Op, StoreOp, OpKind
<1> HIDE DEF e
<1>6. ClientFits(e.client, e.connected, e.timer, e.link, e.state, e.writing)
  BY <1>4 DEF ClientFits, NoClient
<1>7. Establishing(op) /\ Supported(op, e.client, e.panels)
  BY DEF Op, Establishing, Supported
<1> HIDE DEF op
<1>8. Orderly(Enqueue(e, op))
  BY <1>4, <1>5, <1>6, <1>7, EnqueueOrderly
<1>9. RemembersAll(Enqueue(e, op), store, forgotten, survived)
  BY <1>2, <1>3, <1>4, <1>5, RecedingRemembers, EnqueueRemembers
<1> QED BY <1>1, <1>8, <1>9 DEF PromisesKept, RemembersAll

\* A window that is forgotten together with its link queues the removal.
LEMMA ForgettingStep ==
  ASSUME IInv, PromisesKept, NEW e \in WindowRecord, Orderly(e), NoneEstablishing(e),
         Fits(e), e.link = NoLink, e.client.mode # "fresh",
         e.queue = << >> => e.head = "waiting",
         NEW op \in StoreOp, Removes(op), ~ Establishing(op),
         w' = Enqueue(e, op), forgotten' \in SUBSET Links,
         UNCHANGED <<store, survived>>
  PROVE  PromisesKept'
<1>1. Orderly(Enqueue(e, op))
  BY EnqueueOrderly DEF Orderly, Fits
<1>2. RemembersAll(Enqueue(e, op), store, forgotten', survived)
  BY ForgetRemembers
<1> QED BY <1>1, <1>2 DEF PromisesKept, RemembersAll

LEMMA EmptyStays ==
  ASSUME NEW r \in WindowRecord, NEW e \in WindowRecord, FadedQueue(e.queue, r.queue),
         e.head = r.head, r.queue = << >> => r.head = "waiting"
  PROVE  e.queue = << >> => e.head = "waiting"
<1>1. /\ r.queue \in Seq(StoreOp) /\ e.queue \in Seq(StoreOp)
      /\ DOMAIN r.queue = 1 .. Len(r.queue) /\ DOMAIN e.queue = 1 .. Len(e.queue)
      /\ Len(r.queue) \in Nat /\ Len(e.queue) \in Nat
  BY LenProperties DEF WindowRecord
<1>2. e.queue = << >> => r.queue = << >>
  BY <1>1, EmptySeq DEF FadedQueue
<1> QED BY <1>2

LEMMA RemovalType ==
  ASSUME NEW kind \in {"unlink", "remove", "reject"}, NEW live \in BOOLEAN
  PROVE  /\ Op(kind, live, NoLink) \in StoreOp
         /\ Removes(Op(kind, live, NoLink)) /\ ~ Establishing(Op(kind, live, NoLink))
BY Empties DEF Op, StoreOp, OpKind, Removes, Establishing

LEMMA UnlinkWindowKeeps ==
  ASSUME IInv, PromisesKept, UnlinkWindow
  PROVE  PromisesKept'
<1> DEFINE e == ForgetLink(w, "notLinked")
           op == Op("unlink", w.present, NoLink)
<1>1. /\ w \in WindowRecord /\ Orderly(w) /\ Fits(w) /\ Consistent(w, store)
      /\ w.queue = << >> => w.head = "waiting"
      /\ RemembersAll(w, store, forgotten, survived)
      /\ forgotten \in SUBSET Links
  BY Knowing
<1>2. w.present \in BOOLEAN
  BY <1>1 DEF WindowRecord
<1>3. /\ w' = IF w.present THEN Enqueue(e, op) ELSE Enqueue(w, op)
      /\ forgotten' = forgotten \cup Mentioned
      /\ UNCHANGED <<store, survived>>
  BY <1>2 DEF UnlinkWindow
<1>4. forgotten' \in SUBSET Links
  BY <1>1, <1>3, MentionedType
<1>5. op \in StoreOp /\ Removes(op) /\ ~ Establishing(op)
  BY <1>2, RemovalType
<1>6. /\ e \in WindowRecord /\ NoneEstablishing(e) /\ e.link = NoLink
      /\ FadedQueue(e.queue, w.queue) /\ e.head = w.head /\ e.client.mode # "fresh"
      /\ Orderly(e) /\ Fits(e)
  <2>1. "notLinked" \in ConnectionState
    BY DEF ConnectionState
  <2>2. Quiet(e)
    BY <1>1, <2>1, StoppedIsQuiet
  <2>3. Orderly(e) /\ Fits(e)
    BY <2>2, QuietOrderly DEF Orderly
  <2>4. /\ e \in WindowRecord /\ NoneEstablishing(e) /\ e.link = NoLink
        /\ FadedQueue(e.queue, w.queue) /\ e.head = w.head /\ e.client = NoClient
    BY <1>1, <2>1, ForgetLinkLeaves
  <2> QED BY <2>3, <2>4 DEF NoClient
<1> HIDE DEF e, op
<1>7. e.queue = << >> => e.head = "waiting"
  BY <1>1, <1>6, EmptyStays
<1>8. CASE w.present
  BY <1>3, <1>4, <1>5, <1>6, <1>7, <1>8, ForgettingStep
<1>9. CASE ~ w.present
  <2>1. NoneEstablishing(w) /\ w.link = NoLink /\ w.client.mode # "fresh"
    BY <1>1, <1>9 DEF Consistent, ClientIsOwned, RemembersAll, Remembers
  <2> QED BY <1>1, <1>3, <1>4, <1>5, <1>9, <2>1, ForgettingStep
<1> QED BY <1>8, <1>9

LEMMA RemoveWindowKeeps ==
  ASSUME IInv, PromisesKept, RemoveWindow
  PROVE  PromisesKept'
<1> DEFINE r == ForgetLink(w, "notLinked")
           e == [FreshRecord(r.queue, r.head) EXCEPT !.present = FALSE,
                                                     !.orphans = r.orphans]
           op == Op("remove", FALSE, NoLink)
<1>1. /\ w \in WindowRecord /\ forgotten \in SUBSET Links
      /\ Consistent(w, store)
      /\ w.queue = << >> => w.head = "waiting"
  BY Knowing
<1>2. /\ w' = Enqueue(e, op) /\ forgotten' = forgotten \cup Mentioned
      /\ UNCHANGED <<store, survived>>
  BY DEF RemoveWindow
<1>3. forgotten' \in SUBSET Links
  BY <1>1, <1>2, MentionedType
<1>4. op \in StoreOp /\ Removes(op) /\ ~ Establishing(op)
  BY RemovalType
<1>5. /\ r \in WindowRecord /\ NoneEstablishing(r) /\ FadedQueue(r.queue, w.queue)
      /\ r.head = w.head /\ Consistent(r, store)
  BY <1>1, ForgetLinkLeaves, ForgetLinkFades DEF ConnectionState
<1> HIDE DEF r
<1>6. Consistent(e, store) /\ NoneEstablishing(e) /\ e.link = NoLink
  BY <1>5, ForgottenRecord
<1>7. /\ e \in WindowRecord /\ e.client = NoClient /\ ~ e.connected /\ e.timer = "none"
      /\ e.state = "notLinked" /\ e.queue = r.queue /\ e.head = r.head
  BY <1>6 DEF Consistent, FreshRecord
<1> HIDE DEF e, op
<1>8. Orderly(e) /\ Fits(e)
  BY <1>6, <1>7, QuietOrderly DEF Quiet, NoClient, Orderly
<1>9. e.queue = << >> => e.head = "waiting"
  BY <1>1, <1>5, <1>7, EmptyStays
<1> QED BY <1>2, <1>3, <1>4, <1>6, <1>7, <1>8, <1>9, ForgettingStep DEF NoClient

LEMMA DisposeCoordinatorKeeps ==
  ASSUME IInv, PromisesKept, DisposeCoordinator
  PROVE  PromisesKept'
<1> DEFINE r == DropClient(Invalidate(w))
           e == [FreshRecord(r.queue, r.head) EXCEPT !.present = FALSE,
                                                     !.orphans = r.orphans]
           op == Op("remove", FALSE, NoLink)
<1>1. /\ w \in WindowRecord /\ forgotten \in SUBSET Links
      /\ RemembersAll(w, store, forgotten, survived)
  BY Knowing
<1>2. w' = Enqueue(e, op) \/ w' = e
  BY DEF DisposeCoordinator
<1>3. UNCHANGED <<store, forgotten, survived>>
  BY DEF DisposeCoordinator
<1>4. op \in StoreOp /\ Removes(op) /\ ~ Establishing(op) /\ op.kind # "save"
  BY RemovalType DEF Removes
<1>5. /\ r \in WindowRecord /\ NoneEstablishing(r) /\ FadedQueue(r.queue, w.queue)
      /\ r.head = w.head
  BY <1>1, Cleared
<1> HIDE DEF r
<1>6. /\ e.client = NoClient /\ ~ e.connected /\ e.timer = "none" /\ e.link = NoLink
      /\ e.state = "notLinked" /\ e.queue = r.queue /\ e.head = r.head
  BY DEF FreshRecord
<1>7. e \in WindowRecord
  <2>1. NoClient \in Client
    BY Empties DEF Client, NoClient
  <2> QED BY <1>5, <2>1, Empties DEF FreshRecord, WindowRecord, ConnectionState
<1> HIDE DEF e, op
<1>8. NoneEstablishing(e)
  BY <1>5, <1>6 DEF NoneEstablishing
<1>9. Orderly(e) /\ Orderly(Enqueue(e, op))
  BY <1>4, <1>6, <1>7, <1>8, QuietOrderly, QuietEnqueue DEF Quiet, NoClient
<1>10. Recedes(e, w)
  BY <1>5, <1>6 DEF Recedes, NoClient
<1>11. RemembersAll(e, store, forgotten, survived)
  BY <1>1, <1>10, RecedingRemembers
<1>12. RemembersAll(Enqueue(e, op), store, forgotten, survived)
  BY <1>4, <1>7, <1>11, EnqueueRemembers
<1> QED BY <1>2, <1>3, <1>9, <1>11, <1>12 DEF PromisesKept, RemembersAll

LEMMA RestartKeeps ==
  ASSUME IInv, PromisesKept, Restart
  PROVE  PromisesKept'
<1> DEFINE e == [FreshRecord(<< >>, "waiting") EXCEPT !.present = FALSE]
<1>1. /\ RemembersAll(w, store, forgotten, survived) /\ NoLink \notin forgotten
  BY Knowing, ConstantsAssumption
<1>2. /\ w' = e /\ UNCHANGED <<store, forgotten>>
      /\ survived' = (survived \/ \E i \in DOMAIN w.queue : Removes(w.queue[i]))
  BY DEF Restart
<1>3. /\ e.client = NoClient /\ ~ e.connected /\ e.timer = "none" /\ e.link = NoLink
      /\ e.state = "notLinked" /\ e.queue = << >>
  BY DEF FreshRecord
<1>4. DOMAIN << >> = {}
  BY EmptySeq
<1> HIDE DEF e
<1>5. NoneEstablishing(e)
  BY <1>3, <1>4 DEF NoneEstablishing
<1>6. Orderly(e)
  BY <1>3, <1>5, QuietOrderly DEF Quiet, NoClient
<1>7. RemembersAll(e, store, forgotten, survived')
  <2>1. SavesRecalled(e.queue, e.head, forgotten)
    BY <1>3, <1>4 DEF SavesRecalled
  <2>2. store \in forgotten => survived'
    BY <1>1, <1>2 DEF RemembersAll, Remembers, RemovalQueued
  <2> QED BY <1>1, <1>3, <2>1, <2>2 DEF RemembersAll, Remembers, NoClient
<1> QED BY <1>2, <1>6, <1>7 DEF PromisesKept, RemembersAll

LEMMA AbortCommandKeeps ==
  ASSUME IInv, PromisesKept, NEW i \in DOMAIN w.queue, AbortCommand(i)
  PROVE  PromisesKept'
<1> DEFINE r == [w EXCEPT !.queue[i].aborted = TRUE]
           o == [w.queue[i] EXCEPT !.aborted = TRUE]
           q == [w.queue EXCEPT ![i] = o]
<1>1. w \in WindowRecord /\ Orderly(w)
  BY Knowing
<1>2. /\ w.queue \in Seq(StoreOp) /\ i \in 1 .. Len(w.queue)
      /\ DOMAIN w.queue = 1 .. Len(w.queue)
  BY <1>1, LenProperties DEF WindowRecord
<1>3. w.queue[i] \in StoreOp /\ w.queue[i].kind \in {"link", "unlink"}
  BY <1>2, ElementOfSeq DEF AbortCommand
<1>4. /\ o \in StoreOp /\ o.aborted /\ o.kind = w.queue[i].kind
      /\ o.link = w.queue[i].link /\ o.live = w.queue[i].live
  BY <1>3 DEF StoreOp
<1>5. r = [w EXCEPT !.queue = q]
  BY <1>1 DEF WindowRecord
<1>6. /\ \/ w.queue[i].live /\ w' = ForgetLink(r, "notLinked")
         \/ ~ w.queue[i].live /\ w' = r
      /\ UNCHANGED <<store, forgotten, survived>>
  BY DEF AbortCommand
<1> HIDE DEF o, r
<1>7. /\ q \in Seq(StoreOp) /\ DOMAIN q = DOMAIN w.queue
      /\ \A j \in DOMAIN q : q[j] = IF j = i THEN o ELSE w.queue[j]
  BY <1>2, <1>4, ExceptSeq, LenProperties
<1> HIDE DEF q
<1>8. FadedQueue(q, w.queue)
  BY <1>2, <1>4, <1>7 DEF FadedQueue
<1>9. /\ r \in WindowRecord /\ r.queue = q /\ r.head = w.head /\ r.client = w.client
      /\ r.connected = w.connected /\ r.timer = w.timer /\ r.link = w.link
      /\ r.state = w.state /\ r.writing = w.writing /\ r.panels = w.panels
      /\ r.pending = w.pending
  BY <1>1, <1>5, <1>7 DEF WindowRecord
<1>10. Recedes(r, w)
  BY <1>8, <1>9 DEF Recedes
<1>11. CASE w.queue[i].live
  <2>1. "notLinked" \in ConnectionState
    BY DEF ConnectionState
  <2>2. Orderly(ForgetLink(r, "notLinked")) /\ Recedes(ForgetLink(r, "notLinked"), r)
    BY <1>9, <2>1, StoppedIsQuiet, StoppedRecedes, QuietOrderly
  <2>3. Recedes(ForgetLink(r, "notLinked"), w)
    BY <1>10, <2>2, RecedingTrans
  <2> QED BY <1>6, <1>11, <2>2, <2>3, RecedingStep
<1>12. CASE ~ w.queue[i].live
  <2>1. /\ \A j \in DOMAIN q : /\ Establishing(q[j]) <=> Establishing(w.queue[j])
                               /\ Establishing(q[j]) => q[j] = w.queue[j]
                               /\ Removes(q[j]) <=> Removes(w.queue[j])
    BY <1>4, <1>7, <1>12 DEF Establishing, Removes
  <2>2. QueueFits(r.queue, r.client, r.panels)
    BY <1>1, <1>7, <1>9, <2>1 DEF Orderly, Fits, QueueFits
  <2>3. NoneEstablishing(r) => NoneEstablishing(w)
    BY <1>7, <1>9, <2>1 DEF NoneEstablishing
  <2>4. Orderly(r)
    BY <1>1, <1>9, <2>2, <2>3 DEF Orderly, Fits, Progressing, HasSocket
  <2> QED BY <1>6, <1>10, <1>12, <2>4, RecedingStep
<1> QED BY <1>11, <1>12

\* The first panel finds no client: it opens one or starts to load.
LEMMA ActivateFirstPanelLeaves ==
  ASSUME NEW r, NEW s, Consistent(r, s), NEW outcome \in OpenOutcomes,
         Fits(r), r.pending.kind # "code" => Progressing(r), r.client.phase = "absent", r.panels # {},
         NEW fgt \in SUBSET Links, NEW srv, RemembersAll(r, s, fgt, srv)
  PROVE  LET e == ActivateFirstPanel(r, outcome)
         IN  Orderly(e) /\ RemembersAll(e, s, fgt, srv)
<1> DEFINE e == ActivateFirstPanel(r, outcome)
<1>1. /\ r \in WindowRecord /\ Fits(r) /\ r.timer = "none" /\ ~ r.connected
      /\ r.state # "linked"
      /\ NoneAdopting(r) => NoneEstablishing(r)
      /\ r.link # NoLink => NoneEstablishing(r)
      /\ r.pending.kind # "none" => r.link = NoLink /\ NoneAdopting(r)
  BY DEF Consistent, PendingIsExclusive, LinkIsSettled, NoneAdopting, NoneEstablishing,
         Adopting, Establishing, Fits, QueueFits, ClientFits, Supported
<1>2. r.pending.kind \in {"none", "code", "credentials"} /\ r.pending.link \in MaybeLink
      /\ r.link \in MaybeLink /\ NoLink \in MaybeLink
  BY <1>1, Empties DEF WindowRecord, Pending
<1>a. "linking" \in ConnectionState
  BY DEF ConnectionState
<1> DEFINE l == SetState(r, "linking")
<1>3. /\ l \in WindowRecord /\ l.client = r.client /\ l.timer = r.timer
      /\ l.link = r.link /\ l.queue = r.queue /\ l.head = r.head
  BY <1>1, <1>a DEF SetState, WindowRecord
<1> HIDE DEF l
<1>4. Recedes(l, r) /\ (NoneEstablishing(r) => NoneEstablishing(l))
  BY <1>3, SameQueueRecedes DEF NoneEstablishing
<1>5. CASE r.pending.kind = "code"
  <2>1. e = OpenClient(l, "link", NoLink, outcome)
    BY <1>5 DEF ActivateFirstPanel, l
  <2>2. Orderly(e) /\ Recedes(e, l)
    BY <1>1, <1>2, <1>3, <1>4, <1>5, <2>1, OpenClientLeaves
  <2> QED BY <1>4, <2>2, RecedingTrans, RecedingRemembers
<1>6. CASE r.pending.kind = "credentials"
  <2>1. e = OpenClient(l, "stored", r.pending.link, outcome)
    BY <1>6 DEF ActivateFirstPanel, l
  <2>2. Orderly(e) /\ Recedes(e, l)
    BY <1>1, <1>2, <1>3, <1>4, <1>6, <2>1, OpenClientLeaves
  <2> QED BY <1>4, <2>2, RecedingTrans, RecedingRemembers
<1> DEFINE b == BumpGeneration(r)
<1>7. /\ b \in WindowRecord /\ FadedQueue(b.queue, r.queue)
      /\ NoneEstablishing(b) /\ b.client.phase = r.client.phase
      /\ \A f \in DOMAIN r \ {"queue", "client"} : b[f] = r[f]
  BY <1>1, BumpedGeneration
<1>8. b.client.mode = r.client.mode /\ b.client.cred = r.client.cred
  BY <1>1 DEF BumpGeneration, WindowRecord, Client
<1> HIDE DEF b
<1>9. /\ b.link = r.link /\ b.head = r.head /\ b.timer = r.timer
      /\ b.connected = r.connected /\ b.state = r.state /\ b.panels = r.panels
  BY <1>1, <1>7 DEF WindowRecord
<1>10. Recedes(b, r)
  BY <1>7, <1>8, <1>9 DEF Recedes
<1>11. CASE r.pending.kind = "none" /\ r.link # NoLink
  <2> DEFINE m == SetState(b, "linking")
  <2>1. e = OpenClient(m, "stored", r.link, outcome)
    BY <1>11 DEF ActivateFirstPanel, b
  <2>2. /\ m \in WindowRecord /\ m.client = b.client /\ m.timer = b.timer
        /\ m.link = b.link /\ m.queue = b.queue /\ m.head = b.head
    BY <1>7, <1>a DEF SetState, WindowRecord
  <2> HIDE DEF m
  <2>3. Recedes(m, b) /\ NoneEstablishing(m)
    BY <1>7, <2>2, SameQueueRecedes DEF NoneEstablishing
  <2>4. Orderly(e) /\ Recedes(e, m)
    BY <1>1, <1>2, <1>7, <1>9, <2>1, <2>2, <2>3, OpenClientLeaves
  <2> QED BY <1>10, <2>3, <2>4, RecedingTrans, RecedingRemembers
<1>12. CASE r.pending.kind = "none" /\ r.link = NoLink /\ r.state = "linking"
  BY <1>12 DEF ActivateFirstPanel, Orderly
<1>13. CASE r.pending.kind = "none" /\ r.link = NoLink /\ r.state # "linking"
  <2> DEFINE op == Op("load", TRUE, NoLink)
  <2>1. e = Enqueue(b, op)
    BY <1>13 DEF ActivateFirstPanel, b
  <2>2. op \in StoreOp /\ op.kind = "load" /\ Establishing(op)
    BY Empties DEF Op, StoreOp, OpKind, Establishing
  <2>3. Supported(op, b.client, b.panels)
    BY <1>9 DEF Supported, Op
  <2> HIDE DEF op
  <2>4. ClientFits(b.client, b.connected, b.timer, b.link, b.state, b.writing)
    BY <1>1, <1>7, <1>9 DEF ClientFits
  <2>5. Orderly(e)
    BY <1>7, <2>1, <2>2, <2>3, <2>4, EnqueueOrderly
  <2>6. RemembersAll(b, s, fgt, srv)
    BY <1>10, RecedingRemembers
  <2> QED BY <1>7, <2>1, <2>2, <2>5, <2>6, EnqueueRemembers
<1> QED BY <1>2, <1>5, <1>6, <1>11, <1>12, <1>13

LEMMA RegisterPanelKeeps ==
  ASSUME IInv, PromisesKept, NEW p \in Panels, RegisterPanel(p)
  PROVE  PromisesKept'
<1> DEFINE r == [RecordFor(w) EXCEPT !.panels = @ \cup {p}]
<1>1. /\ w \in WindowRecord /\ Consistent(w, store) /\ Orderly(w)
      /\ RemembersAll(w, store, forgotten, survived)
      /\ forgotten \in SUBSET Links
      /\ w.client.phase # "absent" => w.client.live /\ w.panels # {}
  BY Knowing
<1>2. /\ r \in WindowRecord /\ r.present /\ r.panels # {}
      /\ r.panels = w.panels \cup {p} /\ r.client = w.client /\ r.queue = w.queue
      /\ r.head = w.head /\ r.link = w.link /\ r.connected = w.connected
      /\ r.timer = w.timer /\ r.state = w.state /\ r.writing = w.writing
      /\ r.pending = w.pending
  BY <1>1 DEF RecordFor, WindowRecord
<1>3. Faded(r, w)
  BY <1>1, <1>2 DEF Faded, FadedQueue, RecordFor, WindowRecord, Consistent, ClientIsOwned
<1>4. Consistent(r, store)
  BY <1>1, <1>3, Fading
<1>5. /\ \/ /\ w.panels = {}
            /\ \E outcome \in OpenOutcomes : w' = ActivateFirstPanel(r, outcome)
         \/ w.panels # {} /\ w' = r
      /\ UNCHANGED <<store, forgotten, survived>>
  BY DEF RegisterPanel
<1> HIDE DEF r
<1>6. QueueFits(r.queue, r.client, r.panels)
  BY <1>1, <1>2 DEF Orderly, Fits, QueueFits, Supported
<1>7. Recedes(r, w)
  BY <1>2, SameQueueRecedes
<1>8. CASE w.panels # {}
  <2>1. Orderly(r)
    BY <1>1, <1>2, <1>6, <1>8 DEF Orderly, Fits, Progressing, HasSocket, NoneEstablishing
  <2> QED BY <1>5, <1>7, <1>8, <2>1, RecedingStep
<1>9. CASE w.panels = {}
  <2>1. PICK outcome \in OpenOutcomes : w' = ActivateFirstPanel(r, outcome)
    BY <1>5, <1>9
  <2>2. Fits(r)
    BY <1>1, <1>2, <1>6 DEF Orderly, Fits
  <2>3. r.pending.kind # "code" => Progressing(r)
    BY <1>1, <1>2, <1>9 DEF Orderly, Progressing, HasSocket, NoneEstablishing
  <2>4. RemembersAll(r, store, forgotten, survived)
    BY <1>1, <1>7, RecedingRemembers
  <2>5. Orderly(w') /\ RemembersAll(w', store, forgotten, survived)
    BY <1>1, <1>2, <1>4, <1>9, <2>1, <2>2, <2>3, <2>4, ActivateFirstPanelLeaves
  <2> QED BY <1>5, <2>5 DEF PromisesKept, RemembersAll
<1> QED BY <1>8, <1>9

LEMMA DisposeRegistrationKeeps ==
  ASSUME IInv, PromisesKept, NEW p \in Panels, DisposeRegistration(p)
  PROVE  PromisesKept'
<1> DEFINE r == [w EXCEPT !.panels = @ \ {p}]
           d == DropClient(Invalidate(r))
           closed == [d EXCEPT !.attempts = 0]
           offline == SetState(closed, "offline")
           empty == [closed EXCEPT !.pending = NoPending, !.writing = FALSE,
                                   !.state = "notLinked"]
<1>1. w \in WindowRecord /\ Orderly(w)
  BY Knowing
<1>2. /\ r \in WindowRecord /\ r.panels = w.panels \ {p} /\ r.client = w.client
      /\ r.queue = w.queue /\ r.head = w.head /\ r.link = w.link
      /\ r.connected = w.connected /\ r.timer = w.timer /\ r.state = w.state
      /\ r.writing = w.writing /\ r.pending = w.pending
  BY <1>1 DEF WindowRecord
<1>3. /\ UNCHANGED <<store, forgotten, survived>> /\ w.panels # {}
      /\ r.panels # {} => w' = r
      /\ r.panels = {} => w' \in {offline, empty}
  BY DEF DisposeRegistration
<1> HIDE DEF r
<1>4. Recedes(r, w)
  BY <1>2, SameQueueRecedes
<1>5. CASE r.panels # {}
  <2>1. QueueFits(r.queue, r.client, r.panels)
    BY <1>1, <1>2, <1>5 DEF Orderly, Fits, QueueFits, Supported
  <2>2. Orderly(r)
    BY <1>1, <1>2, <1>3, <2>1 DEF Orderly, Fits, Progressing, HasSocket, NoneEstablishing
  <2> QED BY <1>3, <1>4, <1>5, <2>2, RecedingStep
<1>6. CASE r.panels = {}
  <2>1. /\ d \in WindowRecord /\ FadedQueue(d.queue, r.queue)
        /\ NoneEstablishing(d) /\ d.client = NoClient /\ ~ d.connected
        /\ d.timer = "none" /\ d.link = r.link /\ d.head = r.head
    BY <1>2, Cleared
  <2> HIDE DEF d
  <2>2. ASSUME NEW e \in {offline, empty}
        PROVE  Orderly(e) /\ Recedes(e, r)
    <3>1. /\ e.queue = d.queue /\ e.client = NoClient /\ ~ e.connected
          /\ e.timer = "none" /\ e.link = r.link /\ e.head = r.head
          /\ e.state \in {"offline", "notLinked"}
      BY <2>1 DEF SetState, WindowRecord
    <3> HIDE DEF offline, empty
    <3>2. NoneEstablishing(e)
      BY <2>1, <3>1 DEF NoneEstablishing
    <3>3. Orderly(e)
      BY <3>1, <3>2, QuietOrderly DEF Quiet, NoClient
    <3> QED BY <2>1, <3>1, <3>3 DEF Recedes, NoClient
  <2> HIDE DEF offline, empty
  <2>3. w' \in {offline, empty}
    BY <1>3, <1>6
  <2> QED BY <1>3, <1>4, <2>2, <2>3, RecedingTrans, RecedingStep
<1> QED BY <1>5, <1>6

LEMMA PublishThrowsKeeps ==
  ASSUME IInv, PromisesKept, PublishThrows
  PROVE  PromisesKept'
<1>1. /\ w' = SetState(w, "error")
      /\ UNCHANGED <<store, forgotten, survived>>
  BY DEF PublishThrows
<1>2. Orderly(SetState(w, "error")) /\ Recedes(SetState(w, "error"), w)
  BY Knowing, SetStateLeaves DEF ConnectionState
<1> QED BY <1>1, <1>2, RecedingStep

LEMMA HeadOfQueue ==
  ASSUME NEW r \in WindowRecord, r.queue # << >>
  PROVE  /\ 1 \in DOMAIN r.queue /\ Head(r.queue) = r.queue[1]
         /\ Head(r.queue) \in StoreOp
         /\ \A i \in DOMAIN r.queue : i # 1 => 1 < i
<1>1. /\ r.queue \in Seq(StoreOp) /\ Len(r.queue) \in Nat \ {0}
      /\ DOMAIN r.queue = 1 .. Len(r.queue)
  BY LenProperties, EmptySeq DEF WindowRecord
<1> QED BY <1>1, HeadTailProperties

LEMMA StoreStartKeeps ==
  ASSUME IInv, PromisesKept, StoreStart
  PROVE  PromisesKept'
<1>1. /\ w \in WindowRecord /\ Orderly(w) /\ Fits(w)
      /\ RemembersAll(w, store, forgotten, survived) /\ survived \in BOOLEAN
  BY Knowing
<1>2. /\ w.queue # << >> /\ w.head = "waiting" /\ UNCHANGED <<store, forgotten>>
      /\ survived' = (survived \/ (StoreSkips(HeadOp) /\ Removes(HeadOp)))
  BY DEF StoreStart
<1>3. 1 \in DOMAIN w.queue /\ HeadOp = w.queue[1] /\ HeadOp = Head(w.queue)
      /\ HeadOp \in StoreOp
  BY <1>1, <1>2, HeadOfQueue DEF HeadOp
<1>4. CASE StoreSkips(HeadOp)
  <2>1. w' = Dequeue(w)
    BY <1>4 DEF StoreStart
  <2>2. ~ Establishing(HeadOp)
    BY <1>1, <1>3, <1>4 DEF StoreSkips, Establishing, Fits, QueueFits, Supported
  <2>3. Orderly(Dequeue(w))
    BY <1>1, <1>2, <1>3, <2>2, DequeueLeaves
  <2>4. RemembersAll(Dequeue(w), store, forgotten, survived')
    <3>1. survived' \in BOOLEAN /\ (survived => survived')
          /\ (Removes(Head(w.queue)) => survived')
      BY <1>1, <1>2, <1>3, <1>4
    <3> QED BY <1>1, <1>2, <3>1, DequeueRemembers
  <2> QED BY <1>2, <2>1, <2>3, <2>4 DEF PromisesKept, RemembersAll
<1>5. CASE ~ StoreSkips(HeadOp)
  <2> DEFINE e == [w EXCEPT !.head = "running"]
  <2>1. w' = e /\ survived' = survived
    BY <1>1, <1>2, <1>5 DEF StoreStart
  <2>2. /\ e.queue = w.queue /\ e.client = w.client /\ e.connected = w.connected
        /\ e.timer = w.timer /\ e.link = w.link /\ e.state = w.state
        /\ e.writing = w.writing /\ e.panels = w.panels /\ e.pending = w.pending
        /\ e.head = "running"
    BY <1>1 DEF WindowRecord
  <2> HIDE DEF e
  <2>3. Orderly(e)
    BY <1>1, <2>2 DEF Orderly, Fits, Progressing, HasSocket, NoneEstablishing
  <2>4. SavesRecalled(e.queue, e.head, forgotten)
    <3>1. \A i \in DOMAIN w.queue :
            w.queue[i].kind = "save" /\ w.queue[i].link \in forgotten =>
              ~ w.queue[i].live /\ i # 1
      BY <1>1, <1>3, <1>5 DEF RemembersAll, Remembers, SavesRecalled, StoreSkips
    <3> QED BY <2>2, <3>1 DEF SavesRecalled
  <2>5. RemovalQueued(w.queue, w.head) => RemovalQueued(e.queue, e.head)
    BY <2>2 DEF RemovalQueued
  <2>6. RemembersAll(e, store, forgotten, survived)
    BY <1>1, <2>2, <2>4, <2>5 DEF RemembersAll, Remembers
  <2> QED BY <1>2, <2>1, <2>3, <2>6 DEF PromisesKept, RemembersAll
<1> QED BY <1>4, <1>5

\* The save of a forgotten link that is already under way has its removal
\* queued behind it.
LEMMA StoreApplyKeeps ==
  ASSUME IInv, PromisesKept, StoreApply
  PROVE  PromisesKept'
<1> DEFINE o == IF HeadOp.kind = "load" THEN [w.queue[1] EXCEPT !.link = store]
                                        ELSE w.queue[1]
           q == [w.queue EXCEPT ![1] = o]
           e == [w EXCEPT !.head = "done", !.queue = q]
<1>1. /\ w \in WindowRecord /\ Orderly(w) /\ Consistent(w, store)
      /\ RemembersAll(w, store, forgotten, survived)
      /\ store \in MaybeLink /\ NoLink \notin forgotten
  BY Knowing, ConstantsAssumption
<1>2. /\ w.queue # << >> /\ w.head = "running" /\ UNCHANGED forgotten
      /\ survived' = (survived /\ HeadOp.kind = "load")
      /\ store' = CASE HeadOp.kind = "load" -> store
                    [] HeadOp.kind = "save" -> HeadOp.link
                    [] HeadOp.kind \notin {"load", "save"} -> NoLink
  BY DEF StoreApply
<1>3. /\ w.queue \in Seq(StoreOp) /\ DOMAIN w.queue = 1 .. Len(w.queue)
      /\ 1 \in 1 .. Len(w.queue)
  BY <1>1, <1>2, LenProperties, HeadOfQueue DEF WindowRecord
<1>4. HeadOp = w.queue[1] /\ w.queue[1] \in StoreOp
  BY <1>1, <1>2, HeadOfQueue DEF HeadOp
<1>5. /\ o \in StoreOp /\ o.kind = HeadOp.kind /\ o.live = HeadOp.live
      /\ o.aborted = HeadOp.aborted
      /\ HeadOp.kind # "load" => o = w.queue[1]
  BY <1>1, <1>4 DEF StoreOp
<1>6. w' = e
  <2>1. CASE HeadOp.kind = "load"
    BY <1>1, <1>4, <2>1 DEF StoreApply, WindowRecord
  <2>2. CASE HeadOp.kind # "load"
    <3>1. q = w.queue
      BY <1>3, <2>2
    <3> QED BY <1>1, <2>2, <3>1 DEF StoreApply, WindowRecord
  <2> QED BY <2>1, <2>2
<1> HIDE DEF o
<1>7. /\ q \in Seq(StoreOp) /\ DOMAIN q = DOMAIN w.queue /\ q[1] = o
      /\ \A i \in DOMAIN q : i # 1 => q[i] = w.queue[i]
  BY <1>3, <1>5, ExceptSeq, LenProperties
<1> HIDE DEF q
<1>8. /\ e.head = "done" /\ e.queue = q /\ e.client = w.client
      /\ e.connected = w.connected /\ e.timer = w.timer /\ e.link = w.link
      /\ e.state = w.state /\ e.writing = w.writing /\ e.panels = w.panels
      /\ e.pending = w.pending
  BY <1>1 DEF WindowRecord
<1> HIDE DEF e
<1>9. \A i \in DOMAIN q :
        /\ q[i].kind = w.queue[i].kind /\ q[i].live = w.queue[i].live
        /\ q[i].aborted = w.queue[i].aborted
        /\ q[i].kind = "save" => q[i].link = w.queue[i].link
  BY <1>4, <1>5, <1>7
<1>10. Orderly(e)
  <2>1. QueueFits(e.queue, e.client, e.panels)
    BY <1>1, <1>7, <1>8, <1>9 DEF Orderly, Fits, QueueFits, Supported, Establishing, Removes
  <2>2. NoneEstablishing(e) => NoneEstablishing(w)
    BY <1>7, <1>8, <1>9 DEF NoneEstablishing, Establishing
  <2> QED BY <1>1, <1>8, <2>1, <2>2 DEF Orderly, Fits, Progressing, HasSocket
<1>11. SavesRecalled(e.queue, e.head, forgotten)
  BY <1>1, <1>7, <1>8, <1>9 DEF SavesRecalled, RemembersAll, Remembers
<1>12. store' \in forgotten => survived' \/ RemovalQueued(e.queue, e.head)
  <2>1. CASE HeadOp.kind = "load"
    <3>1. RemovalQueued(w.queue, w.head) => RemovalQueued(e.queue, e.head)
      BY <1>4, <1>7, <1>8, <1>9, <2>1 DEF RemovalQueued, Removes
    <3> QED BY <1>1, <1>2, <2>1, <3>1 DEF RemembersAll, Remembers
  <2>2. CASE HeadOp.kind = "save"
    <3>1. HeadOp.link \in forgotten =>
            \E j \in DOMAIN w.queue : 1 < j /\ Removes(w.queue[j])
      BY <1>1, <1>2, <1>3, <1>4, <2>2 DEF SavesRecalled, RemembersAll, Remembers
    <3>2. HeadOp.link \in forgotten => RemovalQueued(e.queue, e.head)
      BY <1>7, <1>8, <1>9, <3>1 DEF RemovalQueued, Removes
    <3> QED BY <1>2, <2>2, <3>2
  <2>3. CASE HeadOp.kind \notin {"load", "save"}
    BY <1>1, <1>2, <2>3
  <2> QED BY <2>1, <2>2, <2>3
<1>13. e.link \in forgotten => survived'
  <2>1. w.link # NoLink => HeadOp.kind = "load"
    BY <1>1, <1>2, <1>3, <1>4 DEF Consistent, LinkIsSettled, Harmless
  <2> QED BY <1>1, <1>2, <1>8, <2>1 DEF RemembersAll, Remembers
<1>14. RemembersAll(e, store', forgotten, survived')
  BY <1>1, <1>8, <1>11, <1>12, <1>13 DEF RemembersAll, Remembers
<1> QED BY <1>2, <1>6, <1>10, <1>14 DEF PromisesKept, RemembersAll

LEMMA StoreFailsKeeps ==
  ASSUME IInv, PromisesKept, StoreFails
  PROVE  PromisesKept'
<1> DEFINE e == [w EXCEPT !.head = "failed"]
<1>1. /\ w \in WindowRecord /\ Orderly(w)
      /\ RemembersAll(w, store, forgotten, survived)
  BY Knowing
<1>2. /\ w' = e /\ w.queue # << >> /\ w.head = "running"
      /\ survived' = (survived \/ Removes(HeadOp)) /\ UNCHANGED <<store, forgotten>>
  BY DEF StoreFails
<1>3. HeadOp = w.queue[1]
  BY <1>1, <1>2, HeadOfQueue DEF HeadOp
<1>4. /\ e.queue = w.queue /\ e.client = w.client /\ e.connected = w.connected
      /\ e.timer = w.timer /\ e.link = w.link /\ e.state = w.state
      /\ e.writing = w.writing /\ e.panels = w.panels /\ e.pending = w.pending
      /\ e.head = "failed"
  BY <1>1 DEF WindowRecord
<1> HIDE DEF e
<1>5. Orderly(e)
  BY <1>1, <1>4 DEF Orderly, Fits, Progressing, HasSocket, NoneEstablishing
<1>6. SavesRecalled(e.queue, e.head, forgotten)
  BY <1>1, <1>4 DEF SavesRecalled, RemembersAll, Remembers
<1>7. RemovalQueued(w.queue, w.head) => Removes(HeadOp) \/ RemovalQueued(e.queue, e.head)
  BY <1>3, <1>4 DEF RemovalQueued
<1>8. RemembersAll(e, store, forgotten, survived')
  BY <1>1, <1>2, <1>4, <1>6, <1>7 DEF RemembersAll, Remembers
<1> QED BY <1>2, <1>5, <1>8 DEF PromisesKept, RemembersAll

\* A link the record takes over counts as remembered only if its removal was
\* missed.
LEMMA AdoptingRemembers ==
  ASSUME NEW r, NEW e, NEW s, NEW fgt, NEW srv, RemembersAll(r, s, fgt, srv),
         e.queue = r.queue, e.head = r.head, e.client = r.client,
         e.link \in fgt => srv
  PROVE  RemembersAll(e, s, fgt, srv)
BY DEF RemembersAll, Remembers

LEMMA LinkClearedLeaves ==
  ASSUME NEW r \in WindowRecord, NEW outcome \in OpenOutcomes, Fits(r),
         NoneEstablishing(r), r.client.phase = "absent", r.link = NoLink
  PROVE  LET e == LinkCleared(r, outcome)
         IN  Orderly(e) /\ Recedes(e, r)
<1> DEFINE n == [r EXCEPT !.pending = [kind |-> "code", link |-> NoLink]]
           e == LinkCleared(r, outcome)
<1>1. n \in WindowRecord
  BY Empties DEF WindowRecord, Pending
<1>2. /\ n.queue = r.queue /\ n.client = r.client /\ n.connected = r.connected
      /\ n.timer = r.timer /\ n.link = r.link /\ n.state = r.state
      /\ n.writing = r.writing /\ n.panels = r.panels /\ n.head = r.head
      /\ n.pending.kind = "code"
  BY DEF WindowRecord
<1>3. e = IF r.panels = {} THEN n ELSE OpenClient(n, "link", NoLink, outcome)
  BY DEF LinkCleared
<1> HIDE DEF n, e
<1>4. Recedes(n, r) /\ NoneEstablishing(n)
  BY <1>2, SameQueueRecedes DEF NoneEstablishing
<1>5. CASE r.panels = {}
  <2>1. Orderly(n)
    BY <1>2, <1>5 DEF Fits, Orderly, Progressing
  <2> QED BY <1>3, <1>4, <1>5, <2>1 DEF e
<1>6. CASE r.panels # {}
  <2>1. n.timer = "none"
    BY <1>2 DEF Fits, ClientFits
  <2>2. Orderly(e) /\ Recedes(e, n)
    BY <1>1, <1>2, <1>3, <1>4, <1>6, <2>1, Empties, OpenClientLeaves
  <2> QED BY <1>4, <2>2, RecedingTrans DEF e
<1> QED BY <1>5, <1>6

LEMMA LinkLoadedLeaves ==
  ASSUME NEW r \in WindowRecord, NEW outcome \in OpenOutcomes, NEW link \in MaybeLink,
         Fits(r), NoneEstablishing(r), r.client.phase = "absent", r.panels # {},
         NEW s, NEW fgt \in SUBSET Links, NEW srv, RemembersAll(r, s, fgt, srv),
         link \in fgt => srv
  PROVE  LET e == LinkLoaded(r, link, outcome)
         IN  Orderly(e) /\ RemembersAll(e, s, fgt, srv)
<1> DEFINE e == LinkLoaded(r, link, outcome)
<1>1. CASE link = NoLink
  <2>1. e = SetState(r, "notLinked")
    BY <1>1 DEF LinkLoaded
  <2>2. Orderly(e) /\ Recedes(e, r)
    BY <2>1, SetStateLeaves DEF ConnectionState
  <2> QED BY <2>2, RecedingRemembers
<1>2. CASE link # NoLink
  <2> DEFINE n == [r EXCEPT !.link = link, !.state = "linking"]
  <2>1. e = OpenClient(n, "stored", link, outcome)
    BY <1>2 DEF LinkLoaded
  <2>2. n \in WindowRecord
    BY DEF WindowRecord, ConnectionState
  <2>3. /\ n.queue = r.queue /\ n.client = r.client /\ n.timer = r.timer
        /\ n.link = link /\ n.head = r.head
    BY DEF WindowRecord
  <2> HIDE DEF n
  <2>4. NoneEstablishing(n)
    BY <2>3 DEF NoneEstablishing
  <2>5. n.timer = "none"
    BY <2>3 DEF Fits, ClientFits
  <2>6. Orderly(e) /\ Recedes(e, n)
    BY <2>1, <2>2, <2>3, <2>4, <2>5, OpenClientLeaves
  <2>7. RemembersAll(n, s, fgt, srv)
    BY <2>3, AdoptingRemembers
  <2> QED BY <2>6, <2>7, RecedingRemembers
<1> QED BY <1>1, <1>2

LEMMA CredentialsSavedLeaves ==
  ASSUME NEW r \in WindowRecord, NEW link \in Links,
         Fits(r), NoneEstablishing(r), r.client.phase \in {"ready", "failed", "idle"},
         r.client.cred = link, r.client.live, r.panels # {}, r.link = NoLink,
         NEW s, NEW fgt \in SUBSET Links, NEW srv, RemembersAll(r, s, fgt, srv),
         link \in fgt => srv
  PROVE  LET e == CredentialsSaved(r, link)
         IN  Orderly(e) /\ RemembersAll(e, s, fgt, srv)
<1> DEFINE n == [r EXCEPT !.writing = FALSE, !.link = link, !.pending = NoPending]
           e == CredentialsSaved(r, link)
<1>1. n \in WindowRecord
  BY Empties DEF WindowRecord, MaybeLink
<1>2. /\ n.queue = r.queue /\ n.client = r.client /\ n.connected = r.connected
      /\ n.timer = r.timer /\ n.link = link /\ n.state = r.state
      /\ ~ n.writing /\ n.panels = r.panels /\ n.head = r.head
  BY DEF WindowRecord
<1>3. e = CASE n.connected -> SetState(n, "linked")
            [] ~ n.connected /\ n.panels # {} -> ScheduleReconnect(n)
            [] ~ n.connected /\ n.panels = {} -> n
  BY DEF CredentialsSaved
<1> HIDE DEF n, e
<1>4. n.timer = "none" /\ link # NoLink
  BY <1>2, ConstantsAssumption DEF Fits, ClientFits
<1>5. NoneEstablishing(n) /\ RemembersAll(n, s, fgt, srv)
  BY <1>2, AdoptingRemembers DEF NoneEstablishing
<1>6. CASE n.connected
  <2>1. e = SetState(n, "linked")
    BY <1>3, <1>6
  <2>2. /\ e.queue = n.queue /\ e.client = n.client /\ e.connected = n.connected
        /\ e.timer = n.timer /\ e.link = n.link /\ e.state = "linked"
        /\ ~ e.writing /\ e.head = n.head
    BY <1>1, <1>2, <2>1 DEF SetState, WindowRecord
  <2>3. QueueFits(e.queue, e.client, e.panels)
    BY <1>5, <2>2 DEF NoneEstablishing, QueueFits
  <2>4. ClientFits(e.client, e.connected, e.timer, e.link, e.state, e.writing)
    BY <1>2, <1>4, <1>6, <2>2 DEF ClientFits, Fits
  <2>5. Orderly(e)
    BY <2>2, <2>3, <2>4 DEF Orderly, Fits, Progressing
  <2>6. Recedes(e, n)
    BY <2>2, SameQueueRecedes
  <2> QED BY <1>5, <2>5, <2>6, RecedingRemembers DEF e
<1>7. CASE ~ n.connected
  <2>1. e = ScheduleReconnect(n)
    BY <1>2, <1>3, <1>7
  <2>2. Orderly(e) /\ Recedes(e, n)
    BY <1>1, <1>2, <1>4, <1>5, <1>7, <2>1, ScheduleReconnectLeaves
  <2> QED BY <1>5, <2>2, RecedingRemembers DEF e
<1> QED BY <1>6, <1>7

LEMMA CredentialsLostLeaves ==
  ASSUME NEW r \in WindowRecord, Fits(r), NoneEstablishing(r), r.link = NoLink,
         NEW s, NEW fgt \in SUBSET Links, NEW srv, RemembersAll(r, s, fgt, srv)
  PROVE  Orderly(CredentialsLost(r)) /\ RemembersAll(CredentialsLost(r), s, fgt, srv)
<1> DEFINE n == [r EXCEPT !.writing = FALSE, !.pending = NoPending]
           d == DropClient(n)
           t == SetState(d, "error")
           op == Op("remove", FALSE, NoLink)
<1>1. /\ n \in WindowRecord /\ n.queue = r.queue /\ n.timer = r.timer
      /\ n.link = r.link /\ n.head = r.head
  BY Empties DEF WindowRecord
<1>2. NoneEstablishing(n) /\ n.timer = "none"
  BY <1>1 DEF NoneEstablishing, Fits, ClientFits
<1> HIDE DEF n
<1>3. /\ d \in WindowRecord /\ FadedQueue(d.queue, n.queue) /\ NoneEstablishing(d)
      /\ d.client = NoClient /\ ~ d.connected /\ d.timer = "none"
      /\ d.link = n.link /\ d.head = n.head
  BY <1>1, <1>2, DroppedClient DEF WindowRecord
<1> HIDE DEF d
<1>4. /\ t \in WindowRecord /\ t.queue = d.queue /\ t.client = NoClient
      /\ ~ t.connected /\ t.timer = "none" /\ t.state = "error"
      /\ t.link = d.link /\ t.head = d.head
  BY <1>3 DEF SetState, WindowRecord, ConnectionState
<1>5. CredentialsLost(r) = Enqueue(t, op)
  BY DEF CredentialsLost, t, d, n, Op
<1>6. op \in StoreOp /\ Removes(op) /\ ~ Establishing(op) /\ op.kind # "save"
  BY RemovalType DEF Removes
<1> HIDE DEF t, op
<1>7. NoneEstablishing(t)
  BY <1>3, <1>4 DEF NoneEstablishing
<1>8. Orderly(Enqueue(t, op))
  BY <1>4, <1>6, <1>7, QuietEnqueue DEF Quiet, NoClient
<1>9. Recedes(t, r)
  BY <1>1, <1>3, <1>4 DEF Recedes, NoClient
<1> QED BY <1>4, <1>5, <1>6, <1>8, <1>9, RecedingRemembers, EnqueueRemembers

LEMMA StoreSettlesKeeps ==
  ASSUME IInv, PromisesKept, StoreSettles
  PROVE  PromisesKept'
<1> DEFINE op == HeadOp
           r  == Dequeue(w)
<1>1. /\ w \in WindowRecord /\ Orderly(w) /\ Fits(w) /\ Consistent(w, store)
      /\ RemembersAll(w, store, forgotten, survived)
      /\ forgotten \in SUBSET Links /\ survived \in BOOLEAN
      /\ w.client.phase # "absent" => w.client.live /\ w.panels # {}
  BY Knowing
<1>2. /\ w.queue # << >> /\ w.head \in {"done", "failed"}
      /\ UNCHANGED <<store, forgotten, survived>>
  BY DEF StoreSettles
<1>3. /\ 1 \in DOMAIN w.queue /\ op = w.queue[1] /\ op = Head(w.queue) /\ op \in StoreOp
      /\ \A i \in DOMAIN w.queue : i # 1 => 1 < i
  BY <1>1, <1>2, HeadOfQueue DEF HeadOp
<1>4. /\ r \in WindowRecord /\ Fits(r) /\ (~ Establishing(op) => Orderly(r))
  BY <1>1, <1>2, <1>3, DequeueLeaves
<1>5. RemembersAll(r, store, forgotten, survived)
  BY <1>1, <1>2, DequeueRemembers
<1>6. Establishing(op) => NoneEstablishing(r)
  BY <1>1, <1>2, <1>3, Dequeueing
<1>7. /\ r.link = w.link /\ r.client = w.client /\ r.panels = w.panels
  BY <1>1 DEF Dequeue, WindowRecord
<1>8. Establishing(op) =>
        /\ r.link = NoLink
        /\ op.kind \in {"link", "load"} => r.client.phase = "absent"
        /\ Supported(op, r.client, r.panels)
  BY <1>1, <1>3, <1>7 DEF Consistent, LinkIsSettled, NoneEstablishing, ClientIsOwned,
       NoneAdopting, Adopting, Establishing, Fits, QueueFits
<1>9. op.link \in MaybeLink /\ op.live \in BOOLEAN /\ op.aborted \in BOOLEAN
  BY <1>3 DEF StoreOp
\* What a load or a save hands over is not forgotten.
<1>10. ASSUME op.live, op.kind \in {"load", "save"}, w.head = "done"
       PROVE  op.link \in forgotten => survived
  <2>1. op.link = store
    BY <1>1, <1>2, <1>3, <1>10 DEF Consistent, HeadIsApplied
  <2>2. ~ RemovalQueued(w.queue, w.head)
    BY <1>1, <1>3, <1>10 DEF RemovalQueued, Removes, Fits, QueueFits, Establishing
  <2> QED BY <1>1, <2>1, <2>2 DEF RemembersAll, Remembers
<1>11. CASE ~ op.live \/ op.aborted
  <2>1. w' = r
    BY <1>11 DEF StoreSettles
  <2>2. ~ Establishing(op)
    BY <1>1, <1>3, <1>11 DEF Establishing, Fits, QueueFits, Supported
  <2> QED BY <1>2, <1>4, <1>5, <2>1, <2>2 DEF PromisesKept, RemembersAll
<1>12. CASE op.live /\ ~ op.aborted /\ w.head = "failed"
  <2>1. w' = IF op.kind = "save" THEN CredentialsLost(r) ELSE SetState(r, "error")
    BY <1>12 DEF StoreSettles
  <2> HIDE DEF r, op
  <2>2. CASE op.kind = "save"
    <3>1. Establishing(op)
      BY <1>12, <2>2 DEF Establishing
    <3>2. Orderly(w') /\ RemembersAll(w', store, forgotten, survived)
      BY <1>1, <1>4, <1>5, <1>6, <1>8, <2>1, <2>2, <3>1, CredentialsLostLeaves
    <3> QED BY <1>2, <3>2 DEF PromisesKept, RemembersAll
  <2>3. CASE op.kind # "save"
    <3>1. Orderly(w') /\ Recedes(w', r)
      BY <1>4, <2>1, <2>3, SetStateLeaves DEF ConnectionState
    <3>2. RemembersAll(w', store, forgotten, survived)
      BY <1>1, <1>5, <3>1, RecedingRemembers
    <3> QED BY <1>2, <3>1, <3>2 DEF PromisesKept, RemembersAll
  <2> QED BY <2>2, <2>3
<1>13. CASE op.live /\ ~ op.aborted /\ w.head = "done"
  <2>1. PICK outcome \in OpenOutcomes :
        w' = CASE op.kind = "link" -> LinkCleared(r, outcome)
               [] op.kind = "load" -> LinkLoaded(r, op.link, outcome)
               [] op.kind = "save" -> CredentialsSaved(r, op.link)
               [] op.kind \notin {"link", "load", "save"} -> r
    BY <1>13 DEF StoreSettles
  <2> HIDE DEF r, op
  <2>2. CASE op.kind = "link"
    <3>1. Establishing(op)
      BY <1>13, <2>2 DEF Establishing
    <3>2. Orderly(w') /\ Recedes(w', r)
      BY <1>4, <1>6, <1>8, <2>1, <2>2, <3>1, LinkClearedLeaves
    <3>3. RemembersAll(w', store, forgotten, survived)
      BY <1>1, <1>5, <3>2, RecedingRemembers
    <3> QED BY <1>2, <3>2, <3>3 DEF PromisesKept, RemembersAll
  <2>3. CASE op.kind = "load"
    <3>1. Establishing(op)
      BY <1>13, <2>3 DEF Establishing
    <3>2. r.panels # {}
      BY <1>8, <2>3, <3>1 DEF Supported
    <3>3. Orderly(w') /\ RemembersAll(w', store, forgotten, survived)
      BY <1>1, <1>4, <1>5, <1>6, <1>8, <1>9, <1>10, <1>13, <2>1, <2>3, <3>1, <3>2,
         LinkLoadedLeaves
    <3> QED BY <1>2, <3>3 DEF PromisesKept, RemembersAll
  <2>4. CASE op.kind = "save"
    <3>1. Establishing(op)
      BY <1>13, <2>4 DEF Establishing
    <3>2. /\ r.client.phase \in {"ready", "failed", "idle"} /\ r.client.cred = op.link
          /\ op.link \in Links
      BY <1>8, <1>9, <2>4, <3>1 DEF Supported, MaybeLink
    <3>3. r.client.live /\ r.panels # {}
      BY <1>1, <1>7, <3>2
    <3>4. Orderly(w') /\ RemembersAll(w', store, forgotten, survived)
      BY <1>1, <1>4, <1>5, <1>6, <1>8, <1>10, <1>13, <2>1, <2>4, <3>1, <3>2, <3>3,
         CredentialsSavedLeaves
    <3> QED BY <1>2, <3>4 DEF PromisesKept, RemembersAll
  <2>5. CASE op.kind \notin {"link", "load", "save"}
    <3>1. ~ Establishing(op)
      BY <2>5 DEF Establishing
    <3> QED BY <1>2, <1>4, <1>5, <2>1, <2>5, <3>1 DEF PromisesKept, RemembersAll
  <2> QED BY <2>2, <2>3, <2>4, <2>5
<1> QED BY <1>2, <1>9, <1>11, <1>12, <1>13

LEMMA PhaseLeaves ==
  ASSUME NEW r \in WindowRecord, NEW phase \in SocketPhase \cup {"idle"}
  PROVE  LET e == Phase(r, phase) IN
         /\ e \in WindowRecord /\ Recedes(e, r)
         /\ e.client.phase = phase /\ e.client.mode = r.client.mode
         /\ e.client.cred = r.client.cred /\ e.client.live = r.client.live
         /\ e.queue = r.queue /\ e.connected = r.connected /\ e.timer = r.timer
         /\ e.link = r.link /\ e.state = r.state /\ e.writing = r.writing
         /\ e.panels = r.panels /\ e.head = r.head /\ e.pending = r.pending
<1> DEFINE c == [r.client EXCEPT !.phase = phase]
           e == Phase(r, phase)
<1>1. /\ c \in Client /\ c.phase = phase /\ c.mode = r.client.mode
      /\ c.cred = r.client.cred /\ c.live = r.client.live /\ phase # "absent"
  BY DEF WindowRecord, Client, SocketPhase
<1>2. e = [r EXCEPT !.client = c]
  BY DEF Phase
<1> HIDE DEF c
<1>3. /\ e \in WindowRecord /\ e.client = c
      /\ e.queue = r.queue /\ e.connected = r.connected /\ e.timer = r.timer
      /\ e.link = r.link /\ e.state = r.state /\ e.writing = r.writing
      /\ e.panels = r.panels /\ e.head = r.head /\ e.pending = r.pending
  BY <1>1, <1>2 DEF WindowRecord
<1> HIDE DEF e
<1>4. Recedes(e, r)
  BY <1>1, <1>3 DEF Recedes, FadedQueue
<1> QED BY <1>1, <1>3, <1>4 DEF e

LEMMA SocketOpensKeeps ==
  ASSUME IInv, PromisesKept, SocketOpens
  PROVE  PromisesKept'
<1>1. /\ w \in WindowRecord /\ Fits(w) /\ w.client.live /\ w.client.phase = "opening"
      /\ NoneEstablishing(w)
  BY Knowing DEF SocketOpens
<1>2. UNCHANGED <<store, forgotten, survived>>
  BY DEF SocketOpens
<1>3. w' = IF w.client.mode = "link" THEN OnConnecting(Phase(w, "requested"))
                                     ELSE Phase(w, "greeted")
  <2>1. Phase(w, "requested").client.live = w.client.live
    BY <1>1, PhaseLeaves DEF SocketPhase
  <2> QED BY <1>1 DEF SocketOpens
<1> DEFINE ph == IF w.client.mode = "link" THEN "requested" ELSE "greeted"
           r == Phase(w, ph)
<1>4. /\ r \in WindowRecord /\ Recedes(r, w)
      /\ r.client.phase = ph /\ r.client.mode = w.client.mode
      /\ r.client.cred = w.client.cred
      /\ r.queue = w.queue /\ r.connected = w.connected /\ r.timer = w.timer
      /\ r.link = w.link /\ r.state = w.state /\ r.writing = w.writing
      /\ r.panels = w.panels /\ r.head = w.head
  BY <1>1, PhaseLeaves DEF SocketPhase
<1>5. w' \in {r, SetState(r, "linking")}
  BY <1>3 DEF OnConnecting
<1> HIDE DEF r
<1>6. /\ w'.client = r.client /\ w'.queue = r.queue /\ w'.connected = r.connected
      /\ w'.timer = r.timer /\ w'.link = r.link /\ w'.writing = r.writing
      /\ w'.panels = r.panels /\ w'.head = r.head
      /\ w'.state \in {w.state, "linking"}
  BY <1>4, <1>5 DEF SetState, WindowRecord
<1>7. NoneEstablishing(w')
  BY <1>1, <1>4, <1>6 DEF NoneEstablishing
<1>8. QueueFits(w'.queue, w'.client, w'.panels)
  BY <1>7 DEF NoneEstablishing, QueueFits
<1>9. ClientFits(w'.client, w'.connected, w'.timer, w'.link, w'.state, w'.writing)
  BY <1>1, <1>4, <1>6 DEF Fits, ClientFits
<1>10. Progressing(w')
  BY <1>4, <1>6 DEF Progressing, HasSocket, SocketPhase
<1>11. Recedes(w', w)
  BY <1>4, <1>6 DEF Recedes
<1> QED BY <1>2, <1>8, <1>9, <1>10, <1>11, RecedingStep DEF Orderly, Fits

LEMMA LinkAcceptedKeeps ==
  ASSUME IInv, PromisesKept, NEW l \in Links, LinkAccepted(l)
  PROVE  PromisesKept'
<1> DEFINE c == [w.client EXCEPT !.phase = "greeted", !.mode = "fresh", !.cred = l]
<1>1. /\ w \in WindowRecord /\ Fits(w) /\ w.client.phase = "requested"
      /\ NoneEstablishing(w) /\ RemembersAll(w, store, forgotten, survived)
      /\ w.client \in Client
  BY Knowing DEF LinkAccepted
<1>2. c.phase = "greeted" /\ c.mode = "fresh" /\ c.cred = l
  BY <1>1 DEF Client
<1>3. /\ w' = [w EXCEPT !.client = c] /\ forgotten' = forgotten \ {l}
      /\ UNCHANGED <<store, survived>>
  BY DEF LinkAccepted
<1> HIDE DEF c
<1>4. /\ w'.client = c /\ w'.queue = w.queue /\ w'.connected = w.connected
      /\ w'.timer = w.timer /\ w'.link = w.link /\ w'.writing = w.writing
      /\ w'.panels = w.panels /\ w'.head = w.head /\ w'.state = w.state
  BY <1>1, <1>3 DEF WindowRecord
<1>5. QueueFits(w'.queue, w'.client, w'.panels)
  BY <1>1, <1>4 DEF NoneEstablishing, QueueFits
<1>6. ClientFits(w'.client, w'.connected, w'.timer, w'.link, w'.state, w'.writing)
  BY <1>1, <1>2, <1>4 DEF Fits, ClientFits
<1>7. Progressing(w')
  BY <1>2, <1>4 DEF Progressing, HasSocket, SocketPhase
<1>8. RemembersAll(w', store, forgotten', survived)
  BY <1>1, <1>2, <1>3, <1>4 DEF RemembersAll, Remembers, SavesRecalled
<1> QED BY <1>3, <1>5, <1>6, <1>7, <1>8 DEF PromisesKept, RemembersAll, Orderly, Fits

LEMMA StoppedStep ==
  ASSUME IInv, PromisesKept, NEW r \in WindowRecord, Recedes(r, w),
         NEW state \in ConnectionState \ {"linked", "linking", "reconnecting"},
         w' = StopTerminalAttempt(r, state), UNCHANGED <<store, forgotten, survived>>
  PROVE  PromisesKept'
<1>1. Orderly(w')
  BY StoppedIsQuiet, QuietOrderly
<1>2. Recedes(w', w)
  BY StoppedRecedes, RecedingTrans
<1> QED BY <1>1, <1>2, RecedingStep

LEMMA LinkRefusedKeeps ==
  ASSUME IInv, PromisesKept, NEW s \in {"rateLimited", "error"}, LinkRefused(s)
  PROVE  PromisesKept'
<1>1. w \in WindowRecord /\ w.client.live
  BY Knowing DEF LinkRefused
<1>2. w' = StopTerminalAttempt(w, s) /\ UNCHANGED <<store, forgotten, survived>>
  BY <1>1 DEF LinkRefused
<1>3. Recedes(w, w)
  BY SameQueueRecedes
<1> QED BY <1>1, <1>2, <1>3, StoppedStep DEF ConnectionState

LEMMA AuthenticationRefusedKeeps ==
  ASSUME IInv, PromisesKept, AuthenticationRefused
  PROVE  PromisesKept'
<1> DEFINE e == ForgetLink(w, "offline")
           op == Op("reject", TRUE, NoLink)
<1>1. /\ w \in WindowRecord /\ w.client.live /\ forgotten \in SUBSET Links
      /\ w.queue = << >> => w.head = "waiting"
  BY Knowing DEF AuthenticationRefused
<1>2. /\ w' = RejectAuthentication(w)
      /\ forgotten' = forgotten \cup ({w.client.cred} \cap Links)
      /\ UNCHANGED <<store, survived>>
  BY <1>1 DEF AuthenticationRefused
<1>3. w' = Enqueue(e, op) /\ forgotten' \in SUBSET Links
  BY <1>1, <1>2 DEF RejectAuthentication, ForgetLink
<1>4. op \in StoreOp /\ Removes(op) /\ ~ Establishing(op)
  BY RemovalType
<1>5. "offline" \in ConnectionState
  BY DEF ConnectionState
<1>6. Orderly(e) /\ Fits(e)
  BY <1>1, <1>5, StoppedIsQuiet, QuietOrderly DEF Orderly
<1>7. /\ e \in WindowRecord /\ NoneEstablishing(e) /\ e.link = NoLink
      /\ FadedQueue(e.queue, w.queue) /\ e.head = w.head /\ e.client = NoClient
  BY <1>1, <1>5, ForgetLinkLeaves
<1> HIDE DEF e, op
<1>8. e.queue = << >> => e.head = "waiting"
  BY <1>1, <1>7, EmptyStays
<1> QED BY <1>2, <1>3, <1>4, <1>6, <1>7, <1>8, ForgettingStep DEF NoClient

LEMMA SocketFailsKeeps ==
  ASSUME IInv, PromisesKept, SocketFails
  PROVE  PromisesKept'
<1> DEFINE r == Phase(w, "failed")
           e == [r EXCEPT !.connected = FALSE, !.state = "error"]
<1>1. /\ w \in WindowRecord /\ Fits(w) /\ w.client.live
      /\ w.client.phase # "absent"
      /\ w.client.phase \in {"opening", "requested", "greeted"} => NoneEstablishing(w)
      /\ w.client.phase \in {"opening", "requested", "greeted", "ready"}
  BY Knowing DEF SocketFails, HasSocket, SocketPhase
<1>2. /\ r \in WindowRecord /\ Recedes(r, w)
      /\ r.client.phase = "failed" /\ r.client.cred = w.client.cred
      /\ r.client.live /\ r.queue = w.queue /\ r.timer = w.timer
      /\ r.link = w.link /\ r.writing = w.writing
      /\ r.panels = w.panels /\ r.head = w.head
  BY <1>1, PhaseLeaves DEF SocketPhase
<1>3. w' = e /\ UNCHANGED <<store, forgotten, survived>>
  BY <1>1 DEF SocketFails
<1> HIDE DEF r
<1>4. /\ e.client = r.client /\ e.queue = r.queue /\ ~ e.connected /\ e.timer = r.timer
      /\ e.link = r.link /\ e.writing = r.writing /\ e.panels = r.panels
      /\ e.head = r.head /\ e.state = "error"
  BY <1>2 DEF WindowRecord
<1> HIDE DEF e
<1>5. QueueFits(e.queue, e.client, e.panels)
  BY <1>1, <1>2, <1>4 DEF Fits, QueueFits, Supported, NoneEstablishing
<1>6. ClientFits(e.client, e.connected, e.timer, e.link, e.state, e.writing)
  BY <1>1, <1>2, <1>4 DEF Fits, ClientFits
<1>7. Progressing(e)
  BY <1>4 DEF Progressing
<1>8. Recedes(e, w)
  BY <1>2, <1>4 DEF Recedes
<1> QED BY <1>3, <1>5, <1>6, <1>7, <1>8, RecedingStep DEF Orderly, Fits

\* New credentials are saved by a client that uses them.
LEMMA PersistCredentialsLeaves ==
  ASSUME NEW r \in WindowRecord, NEW link \in Links,
         NoneEstablishing(r), r.client.phase = "ready", r.client.cred = link,
         NEW s, NEW fgt, NEW srv, RemembersAll(r, s, fgt, srv), link \notin fgt
  PROVE  LET e == PersistCredentials(r, link) IN
         /\ e \in WindowRecord /\ QueueFits(e.queue, e.client, e.panels)
         /\ e.client = r.client /\ e.link = r.link /\ e.state = r.state
         /\ RemembersAll(e, s, fgt, srv)
<1> DEFINE m == [r EXCEPT !.pending = [kind |-> "credentials", link |-> link],
                          !.writing = TRUE]
           op == Op("save", TRUE, link)
           e == PersistCredentials(r, link)
<1>1. CASE r.writing \/ r.pending.kind # "code"
  <2>1. e = r
    BY <1>1 DEF PersistCredentials
  <2> QED BY <2>1 DEF NoneEstablishing, QueueFits
<1>2. CASE ~ r.writing /\ r.pending.kind = "code"
  <2>1. e = Enqueue(m, op)
    BY <1>2 DEF PersistCredentials
  <2>2. /\ m \in WindowRecord /\ m.queue = r.queue /\ m.client = r.client
        /\ m.link = r.link /\ m.state = r.state /\ m.head = r.head
        /\ m.panels = r.panels
    BY DEF WindowRecord, Pending, MaybeLink
  <2>3. /\ op \in StoreOp /\ op.kind = "save" /\ op.link = link /\ ~ op.aborted
    BY DEF Op, StoreOp, OpKind, MaybeLink
  <2>4. link # NoLink
    BY ConstantsAssumption
  <2> HIDE DEF m, op
  <2>5. NoneEstablishing(m) /\ RemembersAll(m, s, fgt, srv)
    BY <2>2 DEF NoneEstablishing, RemembersAll
  <2>6. Supported(op, m.client, m.panels)
    BY <2>2, <2>3, <2>4 DEF Supported
  <2>7. QueueFits(Enqueue(m, op).queue, m.client, m.panels)
    <3> DEFINE q == Append(m.queue, op)
               k == Len(m.queue)
    <3>1. /\ DOMAIN q = 1 .. k + 1 /\ k \in Nat
          /\ \A i \in 1 .. k : q[i] = m.queue[i] /\ i \in DOMAIN m.queue
          /\ q[k + 1] = op
      BY <2>2, <2>3, AppendProperties, LenProperties DEF WindowRecord
    <3>2. Enqueue(m, op).queue = q
      BY <2>2 DEF Enqueue, WindowRecord
    <3> HIDE DEF q, k
    <3>3. ASSUME NEW i \in DOMAIN q, Establishing(q[i])
          PROVE  i = k + 1 /\ q[i] = op /\ \A j \in DOMAIN q : ~ (i < j)
      BY <2>5, <3>1, <3>3 DEF NoneEstablishing
    <3> QED BY <2>6, <3>2, <3>3 DEF QueueFits
  <2>8. RemembersAll(e, s, fgt, srv)
    BY <2>1, <2>2, <2>3, <2>5, EnqueueRemembers
  <2>9. /\ e \in WindowRecord /\ e.client = m.client /\ e.link = m.link
        /\ e.state = m.state /\ e.panels = m.panels
    BY <2>1, <2>2, <2>3, EnqueueType DEF Enqueue, WindowRecord
  <2> QED BY <1>2, <2>1, <2>2, <2>7, <2>8, <2>9
<1>3. r.writing \in BOOLEAN
  BY DEF WindowRecord
<1> QED BY <1>1, <1>2, <1>3

LEMMA AuthenticatedKeeps ==
  ASSUME IInv, PromisesKept, Authenticated
  PROVE  PromisesKept'
<1> DEFINE c == [w.client EXCEPT !.phase = "ready", !.mode = "stored"]
           r == [w EXCEPT !.client = c]
           told == IF w.client.mode = "fresh" THEN PersistCredentials(r, w.client.cred)
                                              ELSE r
           st == IF told.link # NoLink /\ ~ told.writing THEN "linked" ELSE told.state
           e == [told EXCEPT !.connected = TRUE, !.attempts = 0, !.timer = "none",
                             !.state = st]
<1>1. /\ w \in WindowRecord /\ Fits(w)
      /\ w.client.live /\ w.client.phase = "greeted" /\ NoneEstablishing(w)
      /\ w.client \in Client /\ RemembersAll(w, store, forgotten, survived)
  BY Knowing DEF Authenticated
<1>2. /\ w.client.cred \in Links /\ UNCHANGED <<store, forgotten, survived>>
  BY DEF Authenticated, IInv, TypeOK
<1>3. c \in Client /\ c.phase = "ready" /\ c.mode = "stored" /\ c.cred = w.client.cred
  BY <1>1 DEF Client, SocketPhase
<1>4. w' = OnConnected(told)
  BY <1>1 DEF Authenticated
<1> HIDE DEF c
<1>5. /\ r \in WindowRecord /\ r.client = c /\ r.queue = w.queue /\ r.link = w.link
      /\ r.state = w.state /\ r.writing = w.writing /\ r.panels = w.panels
      /\ r.head = w.head /\ r.pending = w.pending
  BY <1>1, <1>3 DEF WindowRecord
<1> HIDE DEF r
<1>6. NoneEstablishing(r) /\ RemembersAll(r, store, forgotten, survived)
  BY <1>1, <1>3, <1>5 DEF NoneEstablishing, RemembersAll, Remembers
<1>8. /\ told \in WindowRecord /\ QueueFits(told.queue, told.client, told.panels)
      /\ told.client = c /\ told.link = r.link /\ told.state = r.state
      /\ RemembersAll(told, store, forgotten, survived)
  <2>1. CASE w.client.mode = "fresh"
    <3>1. w.client.cred \notin forgotten
      BY <1>1, <2>1 DEF RemembersAll, Remembers
    <3> QED BY <1>2, <1>3, <1>5, <1>6, <2>1, <3>1, PersistCredentialsLeaves
  <2>2. CASE w.client.mode # "fresh"
    BY <1>5, <1>6, <2>2 DEF NoneEstablishing, QueueFits
  <2> QED BY <2>1, <2>2
<1> HIDE DEF told
<1>9. w' = e
  BY <1>4, <1>8 DEF OnConnected, WindowRecord
<1>10. /\ e.queue = told.queue /\ e.client = c /\ e.connected /\ e.timer = "none"
       /\ e.link = told.link /\ e.state = st /\ e.writing = told.writing
       /\ e.panels = told.panels /\ e.head = told.head
  BY <1>8 DEF WindowRecord
<1> HIDE DEF e
<1>11. w.state # "linked" /\ (w.link # NoLink => w.client.cred = w.link)
  BY <1>1 DEF Fits, ClientFits
<1>12. ClientFits(e.client, e.connected, e.timer, e.link, e.state, e.writing)
  BY <1>3, <1>5, <1>8, <1>10, <1>11 DEF ClientFits
<1>13. QueueFits(e.queue, e.client, e.panels)
  BY <1>8, <1>10
<1>14. Progressing(e)
  BY <1>3, <1>10 DEF Progressing, HasSocket, SocketPhase
<1>15. RemembersAll(e, store, forgotten, survived)
  BY <1>8, <1>10 DEF RemembersAll
<1> QED BY <1>2, <1>9, <1>12, <1>13, <1>14, <1>15 DEF PromisesKept, RemembersAll, Orderly, Fits

LEMMA SocketClosesKeeps ==
  ASSUME IInv, PromisesKept, SocketCloses
  PROVE  PromisesKept'
<1> DEFINE r == Phase(w, "idle")
           d == [r EXCEPT !.connected = FALSE]
<1>1. /\ w \in WindowRecord /\ Fits(w) /\ w.client.live /\ w.panels # {}
      /\ w.client.phase # "absent"
      /\ w.link # NoLink => NoneEstablishing(w)
      /\ w.client.phase \in {"opening", "requested", "greeted"} => NoneEstablishing(w)
      /\ w.client.phase \in {"opening", "requested", "greeted", "ready", "failed"}
  BY Knowing DEF SocketCloses, HasSocket, SocketPhase
<1>2. /\ r \in WindowRecord /\ Recedes(r, w)
      /\ r.client.phase = "idle" /\ r.client.cred = w.client.cred
      /\ r.client.live /\ r.queue = w.queue /\ r.timer = w.timer
      /\ r.link = w.link /\ r.writing = w.writing
      /\ r.panels = w.panels /\ r.head = w.head
      /\ r.state = w.state /\ r.connected = w.connected
  BY <1>1, PhaseLeaves
<1>3. /\ w' \in {StopTerminalAttempt(r, "error"), OnDisconnected(r)}
      /\ UNCHANGED <<store, forgotten, survived>>
  BY <1>1 DEF SocketCloses
<1> HIDE DEF r
<1>4. /\ d \in WindowRecord
      /\ d.client = r.client /\ d.queue = r.queue /\ ~ d.connected /\ d.timer = r.timer
      /\ d.link = r.link /\ d.writing = r.writing /\ d.panels = r.panels
      /\ d.head = r.head /\ d.state = r.state
  BY <1>2 DEF WindowRecord
<1>5. OnDisconnected(r) \in
        {StopTerminalAttempt(d, "error"), SetState(d, "offline"), SetState(d, "notLinked")}
          \cup (IF d.link # NoLink THEN {ScheduleReconnect(d)} ELSE {})
  BY <1>1, <1>2, <1>4 DEF OnDisconnected
<1> HIDE DEF d
<1>6. Recedes(d, w)
  BY <1>2, <1>4 DEF Recedes
<1>7. CASE w' \in {StopTerminalAttempt(r, "error"), StopTerminalAttempt(d, "error")}
  BY <1>2, <1>3, <1>4, <1>6, <1>7, StoppedStep DEF ConnectionState
<1>8. QueueFits(d.queue, d.client, d.panels)
  BY <1>1, <1>2, <1>4 DEF Fits, QueueFits, Supported, NoneEstablishing
<1>9. CASE \E s \in {"offline", "notLinked"} : w' = SetState(d, s)
  <2>1. PICK s \in {"offline", "notLinked"} : w' = SetState(d, s)
    BY <1>9
  <2>2. /\ w'.client = d.client /\ w'.queue = d.queue /\ ~ w'.connected
        /\ w'.timer = d.timer /\ w'.link = d.link /\ w'.writing = d.writing
        /\ w'.panels = d.panels /\ w'.head = d.head /\ w'.state = s
    BY <1>4, <2>1 DEF SetState, WindowRecord
  <2>3. ClientFits(w'.client, w'.connected, w'.timer, w'.link, w'.state, w'.writing)
    BY <1>1, <1>2, <1>4, <2>2 DEF Fits, ClientFits
  <2>4. Orderly(w')
    BY <1>8, <2>2, <2>3 DEF Orderly, Fits, Progressing
  <2>5. Recedes(w', w)
    BY <1>6, <2>2 DEF Recedes
  <2> QED BY <1>3, <2>4, <2>5, RecedingStep
<1>10. CASE d.link # NoLink /\ w' = ScheduleReconnect(d)
  <2>1. NoneEstablishing(d)
    BY <1>1, <1>2, <1>4, <1>10 DEF NoneEstablishing
  <2>2. /\ d.client.cred = d.link /\ d.timer \in {"none", "armed"}
        /\ d.state = "linked" => d.timer = "none"
    BY <1>1, <1>2, <1>4, <1>10 DEF Fits, ClientFits
  <2>3. Orderly(w') /\ Recedes(w', d)
    BY <1>1, <1>2, <1>4, <1>10, <2>1, <2>2, ScheduleReconnectLeaves
  <2> QED BY <1>3, <1>6, <2>3, RecedingTrans, RecedingStep
<1> QED BY <1>3, <1>5, <1>7, <1>9, <1>10

LEMMA TimerFiresKeeps ==
  ASSUME IInv, PromisesKept, TimerFires
  PROVE  PromisesKept'
<1> DEFINE r == [w EXCEPT !.timer = "none"]
           c == [r.client EXCEPT !.phase = "opening", !.mode = "stored", !.cred = w.link]
           n == [r EXCEPT !.client = c]
           started == OnConnecting(n)
           thrown == ScheduleReconnect(SetState(Phase(started, "idle"), "error"))
<1>1. /\ w \in WindowRecord /\ Fits(w) /\ w.client \in Client
      /\ w.client.phase # "absent" => w.client.live /\ w.panels # {}
      /\ w.link # NoLink => NoneEstablishing(w)
  BY Knowing
<1>2. w.timer # "none" /\ UNCHANGED <<store, forgotten, survived>>
  BY DEF TimerFires
<1>3. /\ w.timer = "armed" /\ w.client.phase # "absent" /\ w.client.live
      /\ w.link # NoLink /\ ~ w.connected /\ NoneEstablishing(w) /\ w.panels # {}
  BY <1>1, <1>2 DEF Fits, ClientFits
<1>4. w' \in {started, thrown}
  BY <1>3 DEF TimerFires
<1>5. /\ r \in WindowRecord /\ r.client = w.client /\ r.queue = w.queue
      /\ r.connected = w.connected /\ r.timer = "none" /\ r.link = w.link
      /\ r.state = w.state /\ r.panels = w.panels /\ r.head = w.head
      /\ r.link \in MaybeLink
  BY <1>1 DEF WindowRecord
<1> HIDE DEF r
<1>6. /\ c \in Client /\ c.phase = "opening" /\ c.mode = "stored" /\ c.cred = w.link
      /\ c.live
  BY <1>1, <1>3, <1>5 DEF Client, SocketPhase
<1> HIDE DEF c
<1>7. /\ n \in WindowRecord /\ n.client = c /\ n.queue = w.queue
      /\ ~ n.connected /\ n.timer = "none" /\ n.link = w.link
      /\ n.state = w.state /\ n.panels = w.panels /\ n.head = w.head
  BY <1>3, <1>5, <1>6 DEF WindowRecord
<1> HIDE DEF n
<1>8. /\ started \in WindowRecord /\ started.client = c /\ started.queue = w.queue
      /\ ~ started.connected /\ started.timer = "none" /\ started.link = w.link
      /\ started.panels = w.panels /\ started.head = w.head
      /\ started.state \in {"reconnecting", "linking"}
  BY <1>7, OnConnectingType DEF OnConnecting, SetState, WindowRecord
<1> HIDE DEF started
<1>9. CASE w' = started
  <2>1. QueueFits(w'.queue, w'.client, w'.panels)
    BY <1>3, <1>8, <1>9 DEF NoneEstablishing, QueueFits
  <2>2. ClientFits(w'.client, w'.connected, w'.timer, w'.link, w'.state, w'.writing)
    BY <1>6, <1>8, <1>9 DEF ClientFits
  <2>3. Progressing(w')
    BY <1>6, <1>8, <1>9 DEF Progressing, HasSocket, SocketPhase
  <2>4. Recedes(w', w)
    BY <1>6, <1>8, <1>9, SameQueueRecedes
  <2> QED BY <1>2, <2>1, <2>2, <2>3, <2>4, RecedingStep DEF Orderly, Fits
<1>10. CASE w' = thrown
  <2> DEFINE i == Phase(started, "idle")
             e == SetState(i, "error")
  <2>1. /\ i \in WindowRecord /\ i.client.phase = "idle" /\ i.client.mode = "stored"
        /\ i.client.cred = w.link /\ i.client.live
        /\ i.queue = w.queue /\ ~ i.connected /\ i.timer = "none" /\ i.link = w.link
        /\ i.panels = w.panels /\ i.head = w.head
    BY <1>6, <1>8, PhaseLeaves
  <2> HIDE DEF i
  <2>2. /\ e \in WindowRecord /\ e.client = i.client /\ e.state = "error"
        /\ e.queue = w.queue /\ ~ e.connected /\ e.timer = "none" /\ e.link = w.link
        /\ e.panels = w.panels /\ e.head = w.head
    BY <2>1 DEF SetState, WindowRecord, ConnectionState
  <2>3. thrown = ScheduleReconnect(e)
    BY DEF i
  <2> HIDE DEF e
  <2>4. NoneEstablishing(e)
    BY <1>3, <2>2 DEF NoneEstablishing
  <2>5. Orderly(thrown) /\ Recedes(thrown, e)
    BY <1>3, <2>1, <2>2, <2>3, <2>4, ScheduleReconnectLeaves
  <2>6. Recedes(e, w)
    BY <2>1, <2>2, SameQueueRecedes
  <2> QED BY <1>2, <1>10, <2>5, <2>6, RecedingTrans, RecedingStep
<1> QED BY <1>4, <1>9, <1>10

-----------------------------------------------------------------------------
(* The theorems about the promises *)

\* What the panels are told and what is forgotten: PromisesKept is inductive relative to IInv.
THEOREM PromisesInductive == Spec => []PromisesKept
<1>1. Init => PromisesKept
  <2> SUFFICES ASSUME Init
               PROVE  PromisesKept
    OBVIOUS
  <2>1. /\ w.client = NoClient /\ ~ w.connected /\ w.timer = "none" /\ w.link = NoLink
        /\ w.state = "notLinked" /\ w.queue = << >> /\ forgotten = {}
    BY DEF Init, FreshRecord
  <2>2. NoneEstablishing(w) /\ SavesRecalled(w.queue, w.head, forgotten)
    <3>1. DOMAIN << >> = {}
      BY EmptySeq
    <3> QED BY <2>1, <3>1 DEF NoneEstablishing, SavesRecalled
  <2>3. Orderly(w)
    BY <2>1, <2>2, QuietOrderly DEF Quiet, NoClient
  <2> QED BY <2>1, <2>2, <2>3 DEF PromisesKept, Remembers, NoClient
<1>2. IInv /\ PromisesKept /\ [Next]_vars => PromisesKept'
  <2> SUFFICES ASSUME IInv, PromisesKept, [Next]_vars
               PROVE  PromisesKept'
    OBVIOUS
  <2>1. CASE StoreStart
    BY <2>1, StoreStartKeeps
  <2>2. CASE UserStep
    BY <2>2, LinkWindowKeeps, UnlinkWindowKeeps, AbortCommandKeeps, RegisterPanelKeeps,
       DisposeRegistrationKeeps, PublishThrowsKeeps, RemoveWindowKeeps,
       DisposeCoordinatorKeeps, RestartKeeps DEF UserStep
  <2>3. CASE StoreStep
    BY <2>3, StoreApplyKeeps, StoreFailsKeeps, StoreSettlesKeeps DEF StoreStep
  <2>4. CASE HandshakeStep
    BY <2>4, SocketOpensKeeps, LinkAcceptedKeeps, LinkRefusedKeeps, AuthenticatedKeeps,
       AuthenticationRefusedKeeps, SocketFailsKeeps, SocketClosesKeeps DEF HandshakeStep
  <2>5. CASE TimerFires
    BY <2>5, TimerFiresKeeps
  <2>6. CASE UNCHANGED <<w, store, forgotten, survived>>
    BY <2>6 DEF PromisesKept
  <2>7. ASSUME NEW l \in Links, BridgeForgets(l)
        PROVE  UNCHANGED <<w, store, forgotten, survived>>
    BY <2>7 DEF BridgeForgets
  <2>8. UNCHANGED vars => UNCHANGED <<w, store, forgotten, survived>>
    BY DEF vars
  <2> QED BY <2>1, <2>2, <2>3, <2>4, <2>5, <2>6, <2>7, <2>8 DEF Next
<1> QED BY <1>1, <1>2, Inductive, PTL DEF Spec

\* "linked" is shown only by a window whose socket is authenticated with the
\* link it holds and session storage keeps.
THEOREM LinkedServes == Spec => []LinkedMeansServing
<1>1. IInv /\ PromisesKept => LinkedMeansServing
  BY DEF IInv, Consistent, LinkIsSettled, PromisesKept, Orderly, Fits, ClientFits,
         LinkedMeansServing
<1> QED BY <1>1, Inductive, PromisesInductive, PTL

\* A reconnect timer is never left behind by the window that armed it.
THEOREM TimerPurposeful == Spec => []TimerHasPurpose
<1>1. IInv /\ PromisesKept => TimerHasPurpose
  <2> SUFFICES ASSUME IInv, PromisesKept
               PROVE  TimerHasPurpose
    OBVIOUS
  <2>1. /\ Fits(w)
        /\ w.client.phase # "absent" => w.client.live /\ w.panels # {}
    BY Knowing
  <2> QED BY <2>1 DEF Fits, ClientFits, TimerHasPurpose
<1> QED BY <1>1, Inductive, PromisesInductive, PTL

\* The panels never show progress that nothing will end.
THEOREM ProgressPending == Spec => []ProgressIsPending
<1>1. PromisesKept => ProgressIsPending
  BY DEF PromisesKept, Orderly, Progressing, NoneEstablishing, Establishing,
         ProgressIsPending
<1> QED BY <1>1, PromisesInductive, PTL

\* A forgotten link is held only where its removal from storage was missed.
THEOREM ForgottenForGood == Spec => []ForgottenStaysForgotten
<1>1. IInv /\ PromisesKept => ForgottenStaysForgotten
  <2> SUFFICES ASSUME IInv, PromisesKept, w.link \in forgotten
               PROVE  survived /\ store = w.link
    BY DEF ForgottenStaysForgotten
  <2>1. w.link # NoLink
    BY ConstantsAssumption DEF IInv, TypeOK
  <2> QED BY <2>1 DEF IInv, Consistent, LinkIsSettled, PromisesKept, Remembers
<1> QED BY <1>1, Inductive, PromisesInductive, PTL

-----------------------------------------------------------------------------
(* The refinement of WindowLink *)

\* Storage changes only under a window whose link and state stay.
LEMMA StorageOrWindow ==
  ASSUME IInv, [Next]_vars
  PROVE  \/ UNCHANGED store
         \/ w'.link = w.link /\ w'.state = w.state
<1>1. StoreApply => w'.link = w.link /\ w'.state = w.state
  BY DEF StoreApply, IInv, TypeOK, WindowRecord
<1>2. Next => StoreApply \/ UNCHANGED store
  BY DEF Next, UserStep, StoreStep, HandshakeStep, LinkWindow, UnlinkWindow, AbortCommand,
     RegisterPanel, DisposeRegistration, PublishThrows, RemoveWindow, DisposeCoordinator,
     Restart, StoreStart, StoreFails, StoreSettles, SocketOpens, LinkAccepted,
     LinkRefused, Authenticated, AuthenticationRefused, SocketFails, SocketCloses,
     TimerFires, BridgeForgets
<1> QED BY <1>1, <1>2 DEF vars

\* Every step of the coordinator is a step of the abstract link or leaves it
\* alone: a link in use is never changed under its window, and the window holds
\* only what storage holds.
THEOREM WindowLinkImplemented == Spec => ImplementsWindowLink
<1>1. Init => AbstractLink!LinkInit
  <2> SUFFICES ASSUME Init
               PROVE  AbstractLink!LinkInit
    OBVIOUS
  <2>1. w.link = NoLink /\ w.state = "notLinked" /\ store \in MaybeLink
    BY DEF Init, FreshRecord
  <2> QED BY <2>1 DEF AbstractLink!LinkInit, MaybeLink
<1> DEFINE Sound == IInv /\ PromisesKept
<1>2. Sound /\ Sound' /\ [Next]_vars => [AbstractLink!LinkNext]_(AbstractLink!linkVars)
  <2> SUFFICES ASSUME Sound, Sound', [Next]_vars
               PROVE  AbstractLink!LinkNext \/ UNCHANGED AbstractLink!linkVars
    BY DEF AbstractLink!linkVars
  <2> DEFINE online == w.state = "linked"
  <2>1. /\ w.link # NoLink => store = w.link
        /\ w'.link # NoLink => store' = w'.link
    BY DEF IInv, Consistent, LinkIsSettled
  <2>2. online => w.link # NoLink
    BY DEF PromisesKept, Orderly, Fits, ClientFits
  <2>3. online' => w'.link # NoLink
    BY DEF PromisesKept, Orderly, Fits, ClientFits
  <2>4. store' \in Links \cup {NoLink}
    BY DEF IInv, TypeOK, MaybeLink
  <2>5. CASE store' # store
    <3>1. w.link = NoLink /\ w'.link = w.link /\ w'.state = w.state
      BY <2>1, <2>5, StorageOrWindow
    <3>2. AbstractLink!Store
      BY <2>4, <3>1 DEF AbstractLink!Store
    <3> QED BY <3>2 DEF AbstractLink!LinkNext
  <2>6. CASE store' = store /\ w'.link = w.link
    <3>1. CASE online'
      <4>1. AbstractLink!GoOnline
        BY <2>3, <2>6, <3>1 DEF AbstractLink!GoOnline
      <4> QED BY <4>1 DEF AbstractLink!LinkNext
    <3>2. CASE ~ online'
      <4>1. AbstractLink!GoOffline
        BY <2>6, <3>2 DEF AbstractLink!GoOffline
      <4> QED BY <4>1 DEF AbstractLink!LinkNext
    <3> QED BY <3>1, <3>2
  <2>7. CASE store' = store /\ w'.link # w.link /\ w'.link = NoLink
    <3>1. AbstractLink!Forget
      BY <2>3, <2>7 DEF AbstractLink!Forget
    <3> QED BY <3>1 DEF AbstractLink!LinkNext
  <2>8. CASE store' = store /\ w'.link # w.link /\ w'.link # NoLink
    <3>1. w.link = NoLink /\ store # NoLink /\ w'.link = store
      BY <2>1, <2>8
    <3>2. AbstractLink!Adopt
      BY <2>8, <3>1 DEF AbstractLink!Adopt
    <3> QED BY <3>2 DEF AbstractLink!LinkNext
  <2> QED BY <2>5, <2>6, <2>7, <2>8
<1> HIDE DEF Sound
<1>3. Spec => []Sound
  BY Inductive, PromisesInductive, PTL DEF Sound
<1> QED BY <1>1, <1>2, <1>3, PTL DEF Spec, ImplementsWindowLink, AbstractLink!LinkSpec

=============================================================================
