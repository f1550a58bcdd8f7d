-------------------------- MODULE IdeRuntimeProofs --------------------------
(***************************************************************************)
(* Proofs about IdeRuntime, for any number of requests and ports.          *)
(*                                                                         *)
(* The controller's queue lets one operation at a time call the manager,   *)
(* so the manager has at most one operation of its own under way, and it   *)
(* is the one that the controller's operation waits for.  That is what the *)
(* inductive invariant says, beside what is known of the bridge in every   *)
(* state of the manager.                                                   *)
(***************************************************************************)
EXTENDS IdeRuntime, SequenceTheorems, TLAPS

-----------------------------------------------------------------------------
(* The inductive invariant *)

Idle == \A o \in DOMAIN ops : ops[o].at \in {"queued", "done"}

OpsInOrder ==
  \A j, k \in DOMAIN ops : j < k /\ ops[k].at # "queued" => ops[j].at = "done"

QueuedOpsWait ==
  \A o \in DOMAIN ops : ops[o].at = "queued" => ops[o].result = "waiting" /\ m.last < o

AtRest ==
  /\ m.startPromise = {} /\ m.stopPromise = {} /\ m.restarts = {}
  /\ m.tail = <<>> /\ ~m.running

AwaitsStart(o) ==
  /\ m.startPromise = {o} /\ m.stopPromise = {} /\ m.restarts = {}
  /\ m.tail = <<"start">>
  /\ \/ ~m.running /\ m.state \in {"stopped", "error"} /\ m.last < o
     \/ m.running /\ m.state = "starting" /\ m.last # None

AwaitsStop(o) ==
  /\ m.startPromise = {} /\ m.stopPromise = {o} /\ m.restarts = {}
  /\ m.tail = <<"stop">>
  /\ \/ ~m.running /\ m.state \in {"running", "error"}
     \/ m.running /\ m.state = "stopping"

StartingOp(o) ==
  /\ ops[o].kind = "start" /\ client = NoClient
  /\ \/ ops[o].result = "waiting" /\ AwaitsStart(o)
     \/ ops[o].result = "resolved" /\ AtRest /\ m.state = "running"
     \/ ops[o].result = "rejected" /\ AtRest /\ m.state = "error"

(* An operation that has called stop: a stop, or a start that is undone or *)
(* finds the controller disposed of.                                       *)
StoppingOp(o) ==
  /\ client = NoClient
  /\ \/ ops[o].result = "waiting" /\ AwaitsStop(o)
     \/ ops[o].result # "waiting" /\ AtRest /\ m.state = "stopped"

OneOpAtATime ==
  \A o \in DOMAIN ops :
    /\ ops[o].at = "starting" => StartingOp(o)
    /\ ops[o].at = "undoing" => ops[o].kind = "start" /\ StoppingOp(o)
    /\ ops[o].at = "stopping" => (ops[o].kind = "stop" \/ disposed) /\ StoppingOp(o)

IdleAtRest ==
  Idle => /\ AtRest /\ m.state \in {"stopped", "error", "running"}
          /\ m.state = "running" <=> client # NoClient

(* What the last operation that is done has left behind.                   *)
LastDoneDecides ==
  Idle => \A o \in DOMAIN ops :
            /\ ops[o].at = "done"
            /\ \A k \in DOMAIN ops : k > o => ops[k].at = "queued"
            => /\ ops[o].kind = "stop" => m.state = "stopped"
               /\ ops[o].kind = "start" /\ ~disposed =>
                    (m.state = "running" <=> ops[o].result # "rejected")

(* Nothing is called after dispose, which is itself a stop.                *)
DisposedStopsLast ==
  disposed => ops # <<>> /\ ops[Len(ops)].kind = "stop"

BridgeOfState ==
  /\ m.state = "running" => m.bridge # None
  /\ m.state \in {"stopped", "starting", "error"} => m.bridge = None

RuntimeInv ==
  /\ TypeOK
  /\ m.last <= Len(ops)
  /\ OpsInOrder
  /\ QueuedOpsWait
  /\ OneOpAtATime
  /\ IdleAtRest
  /\ LastDoneDecides
  /\ DisposedStopsLast
  /\ BridgeOfState
  /\ CredentialsMatchBridge
-----------------------------------------------------------------------------
(* The operations of the controller *)

LEMMA OpsFacts ==
  ASSUME TypeOK
  PROVE  /\ Len(ops) \in Nat /\ DOMAIN ops = 1 .. Len(ops)
         /\ \A o \in DOMAIN ops : ops[o] \in Operations
BY LenProperties, ElementOfSeq DEF TypeOK

LEMMA MovedOp ==
  ASSUME TypeOK, NEW o \in DOMAIN ops,
         NEW at \in OperationPoints, NEW result \in Results,
         ops' = [ops EXCEPT ![o] = [kind |-> ops[o].kind, at |-> at, result |-> result]]
  PROVE  /\ ops' \in Seq(Operations)
         /\ Len(ops') = Len(ops) /\ DOMAIN ops' = DOMAIN ops
         /\ ops'[o] = [kind |-> ops[o].kind, at |-> at, result |-> result]
         /\ \A k \in DOMAIN ops : k # o => ops'[k] = ops[k]
<1> DEFINE e == [kind |-> ops[o].kind, at |-> at, result |-> result]
<1>1. /\ ops \in Seq(Operations) /\ DOMAIN ops = 1 .. Len(ops)
      /\ ops[o] \in Operations
  BY OpsFacts DEF TypeOK
<1>2. e \in Operations /\ ops' = [ops EXCEPT ![o] = e]
  BY <1>1 DEF Operations
<1> HIDE DEF e
<1>3. /\ ops' \in Seq(Operations) /\ Len(ops') = Len(ops)
      /\ \A k \in 1 .. Len(ops) : ops'[k] = IF k = o THEN e ELSE ops[k]
  BY <1>1, <1>2, ExceptSeq
<1>4. DOMAIN ops' = 1 .. Len(ops)
  BY <1>3, LenProperties
<1> QED BY <1>1, <1>3, <1>4 DEF e

LEMMA PlacedOp ==
  ASSUME TypeOK, NEW o \in DOMAIN ops, NEW at \in OperationPoints, NEW result \in Results
  PROVE  [[ops[o] EXCEPT !.at = at] EXCEPT !.result = result]
           = [kind |-> ops[o].kind, at |-> at, result |-> result]
<1> DEFINE moved == [ops[o] EXCEPT !.at = at]
<1>1. moved \in Operations /\ moved.kind = ops[o].kind /\ moved.at = at
  BY OpsFacts DEF Operations
<1> HIDE DEF moved
<1>2. [moved EXCEPT !.result = result]
        = [kind |-> moved.kind, at |-> moved.at, result |-> result]
  BY <1>1 DEF Operations
<1> QED BY <1>1, <1>2 DEF moved

LEMMA DoneOp ==
  ASSUME TypeOK, NEW o \in DOMAIN ops, NEW result \in Results, Done(o, result)
  PROVE  /\ ops' \in Seq(Operations)
         /\ Len(ops') = Len(ops) /\ DOMAIN ops' = DOMAIN ops
         /\ ops'[o] = [kind |-> ops[o].kind, at |-> "done", result |-> result]
         /\ \A k \in DOMAIN ops : k # o => ops'[k] = ops[k]
<1>1. ops' = [ops EXCEPT ![o] = [[ops[o] EXCEPT !.at = "done"] EXCEPT !.result = result]]
  BY DEF Done
<1>2. [[ops[o] EXCEPT !.at = "done"] EXCEPT !.result = result]
        = [kind |-> ops[o].kind, at |-> "done", result |-> result]
  BY PlacedOp DEF OperationPoints
<1> QED BY <1>1, <1>2, MovedOp DEF OperationPoints

LEMMA CallingOp ==
  ASSUME TypeOK, NEW o \in DOMAIN ops, NEW mm, NEW at \in OperationPoints,
         Calls(o, mm, at)
  PROVE  LET result == IF Waits(mm, o) THEN "waiting" ELSE "resolved" IN
         /\ m' = mm
         /\ ops' \in Seq(Operations)
         /\ Len(ops') = Len(ops) /\ DOMAIN ops' = DOMAIN ops
         /\ ops'[o] = [kind |-> ops[o].kind, at |-> at, result |-> result]
         /\ \A k \in DOMAIN ops : k # o => ops'[k] = ops[k]
<1> DEFINE result == IF Waits(mm, o) THEN "waiting" ELSE "resolved"
<1>1. ops[o] \in Operations /\ result \in Results
  BY OpsFacts DEF Results
<1>2. ops' = [ops EXCEPT ![o] = [[ops[o] EXCEPT !.at = at] EXCEPT !.result = result]]
  BY DEF Calls
<1>4. m' = mm
  BY DEF Calls
<1> HIDE DEF result
<1>3. [[ops[o] EXCEPT !.at = at] EXCEPT !.result = result]
        = [kind |-> ops[o].kind, at |-> at, result |-> result]
  BY <1>1, PlacedOp
<1>5. ops' = [ops EXCEPT ![o] = [kind |-> ops[o].kind, at |-> at, result |-> result]]
  BY <1>2, <1>3
<1> QED BY <1>1, <1>4, <1>5, MovedOp DEF result

LEMMA SettledOps ==
  ASSUME TypeOK, NEW W, NEW result \in Results
  PROVE  LET os == Settled(ops, W, result) IN
         /\ os \in Seq(Operations)
         /\ Len(os) = Len(ops) /\ DOMAIN os = DOMAIN ops
         /\ \A k \in DOMAIN ops :
              /\ os[k].kind = ops[k].kind /\ os[k].at = ops[k].at
              /\ os[k].result = IF k \in W THEN result ELSE ops[k].result
              /\ k \notin W => os[k] = ops[k]
<1> DEFINE E(k) == IF k \in W THEN [ops[k] EXCEPT !.result = result] ELSE ops[k]
           os == Settled(ops, W, result)
<1>1. /\ Len(ops) \in Nat /\ DOMAIN ops = 1 .. Len(ops)
      /\ \A k \in 1 .. Len(ops) : ops[k] \in Operations
  BY OpsFacts
<1>2. \A k \in 1 .. Len(ops) :
        /\ E(k) \in Operations /\ E(k).kind = ops[k].kind /\ E(k).at = ops[k].at
        /\ E(k).result = IF k \in W THEN result ELSE ops[k].result
        /\ k \notin W => E(k) = ops[k]
  BY <1>1 DEF Operations
<1>3. os = [k \in 1 .. Len(ops) |-> E(k)]
  BY <1>1 DEF Settled
<1> HIDE DEF E, os
<1>4. os \in Seq(Operations) /\ DOMAIN os = 1 .. Len(ops)
  BY <1>1, <1>2, <1>3, SeqDef
<1>5. Len(os) = Len(ops)
  BY <1>1, <1>4, LenProperties
<1> QED BY <1>1, <1>2, <1>3, <1>4, <1>5 DEF os

\* The operation that may begin is the only one that is not done or queued.
LEMMA FirstIsIdle ==
  ASSUME RuntimeInv, NEW o \in DOMAIN ops, First(o)
  PROVE  /\ Idle /\ ops[o].at = "queued"
         /\ \A k \in DOMAIN ops : k < o => ops[k].at = "done"
         /\ \A k \in DOMAIN ops : k > o => ops[k].at = "queued"
<1>1. Len(ops) \in Nat /\ DOMAIN ops = 1 .. Len(ops)
  BY OpsFacts DEF RuntimeInv
<1>2. ops[o].at = "queued" /\ \A k \in DOMAIN ops : k < o => ops[k].at = "done"
  BY <1>1 DEF First
<1>3. \A k \in DOMAIN ops : k > o => ops[k].at = "queued"
  BY <1>1, <1>2 DEF RuntimeInv, OpsInOrder
<1> QED BY <1>1, <1>2, <1>3 DEF Idle

LEMMA ActiveIsAlone ==
  ASSUME RuntimeInv, NEW o \in DOMAIN ops, ops[o].at \notin {"queued", "done"}
  PROVE  /\ \A k \in DOMAIN ops : k < o => ops[k].at = "done"
         /\ \A k \in DOMAIN ops : k > o => ops[k].at = "queued"
BY OpsFacts DEF RuntimeInv, OpsInOrder

\* An operation of the manager is waited for by an operation of the controller.
LEMMA SomeoneWaits ==
  ASSUME RuntimeInv, m.tail # <<>> \/ m.running
  PROVE  \E o \in DOMAIN ops :
           /\ ops[o].at \notin {"queued", "done"} /\ ops[o].result = "waiting"
           /\ \/ ops[o].at = "starting" /\ ops[o].kind = "start" /\ AwaitsStart(o)
              \/ ops[o].at = "undoing" /\ ops[o].kind = "start" /\ AwaitsStop(o)
              \/ ops[o].at = "stopping" /\ AwaitsStop(o)
<1>1. ~ Idle
  BY DEF RuntimeInv, IdleAtRest, AtRest
<1>2. PICK o \in DOMAIN ops : ops[o].at \notin {"queued", "done"}
  BY <1>1 DEF Idle
<1>3. ops[o].at \in {"starting", "undoing", "stopping"}
  BY <1>2, OpsFacts DEF RuntimeInv, Operations, OperationPoints
<1> QED BY <1>2, <1>3 DEF RuntimeInv, OneOpAtATime, StartingOp, StoppingOp, AtRest
-----------------------------------------------------------------------------
(* The user's requests *)

LEMMA QueueKeepsInv ==
  ASSUME RuntimeInv, NEW kind \in {"start", "stop"}, Queue(kind),
         Len(ops) < MaxRequests, ~disposed, disposed' \in BOOLEAN,
         disposed' => kind = "stop",
         UNCHANGED <<m, client, servers>>
  PROVE  RuntimeInv'
<1> DEFINE n == Len(ops)
<1>1. /\ ops \in Seq(Operations) /\ n \in Nat /\ DOMAIN ops = 1 .. n
      /\ Asked(kind) \in Operations
  BY OpsFacts DEF RuntimeInv, TypeOK, Asked, Operations, OperationPoints, Results
<1>2. /\ ops' \in Seq(Operations) /\ Len(ops') = n + 1
      /\ \A k \in 1 .. n : ops'[k] = ops[k]
      /\ ops'[n + 1] = Asked(kind)
  BY <1>1, AppendProperties DEF Queue
<1>3. DOMAIN ops' = 1 .. n + 1
  BY <1>1, <1>2, LenProperties
<1>4. TypeOK' /\ m'.last <= Len(ops')
  BY <1>1, <1>2, RuntimeAssumption DEF RuntimeInv, TypeOK, servers, Managers, Instances, None
<1>5. OpsInOrder' /\ QueuedOpsWait'
  <2>1. m.last \in Nat /\ m.last <= n /\ m' = m
    BY <1>1, RuntimeAssumption DEF RuntimeInv, TypeOK, Managers, Instances, None
  <2>2. OpsInOrder'
    BY <1>1, <1>2, <1>3 DEF RuntimeInv, OpsInOrder, Asked
  <2>3. QueuedOpsWait'
    BY <1>1, <1>2, <1>3, <2>1 DEF RuntimeInv, QueuedOpsWait, Asked
  <2> QED BY <2>2, <2>3
<1>6. OneOpAtATime'
  BY <1>1, <1>2, <1>3 DEF RuntimeInv, OneOpAtATime, StartingOp, StoppingOp, AwaitsStart,
                          AwaitsStop, AtRest, Asked
<1>7. Idle' => Idle
  BY <1>1, <1>2, <1>3 DEF Idle
<1>8. IdleAtRest' /\ LastDoneDecides'
  BY <1>1, <1>2, <1>3, <1>7
     DEF RuntimeInv, IdleAtRest, LastDoneDecides, AtRest, Asked
<1>9. BridgeOfState' /\ CredentialsMatchBridge'
  BY DEF RuntimeInv, BridgeOfState, CredentialsMatchBridge, servers
<1>10. DisposedStopsLast'
  BY <1>1, <1>2, EmptySeq DEF DisposedStopsLast, Asked
<1> QED BY <1>4, <1>5, <1>6, <1>8, <1>9, <1>10 DEF RuntimeInv
-----------------------------------------------------------------------------
(* The controller's operations *)

LEMMA MovedKeepsLast ==
  ASSUME TypeOK, DisposedStopsLast, UNCHANGED disposed,
         ops' \in Seq(Operations), Len(ops') = Len(ops),
         \A k \in DOMAIN ops : ops'[k].kind = ops[k].kind
  PROVE  DisposedStopsLast'
<1>1. /\ ops \in Seq(Operations) /\ Len(ops) \in Nat /\ DOMAIN ops = 1 .. Len(ops)
      /\ ops = <<>> <=> Len(ops) = 0
      /\ ops' = <<>> <=> Len(ops') = 0
  BY OpsFacts, EmptySeq DEF TypeOK
<1>2. ops # <<>> => Len(ops) \in DOMAIN ops
  BY <1>1
<1> QED BY <1>1, <1>2 DEF DisposedStopsLast

\* An operation that ends while the manager is at rest.
LEMMA DoneKeepsInv ==
  ASSUME RuntimeInv, NEW o \in DOMAIN ops, NEW result \in Results, Done(o, result),
         \A k \in DOMAIN ops : k < o => ops[k].at = "done",
         \A k \in DOMAIN ops : k > o => ops[k].at = "queued",
         AtRest', m'.last <= m.last \/ m'.last < o + 1, TypeOK', BridgeOfState', CredentialsMatchBridge',
         m'.state \in {"stopped", "error", "running"},
         m'.state = "running" <=> client' # NoClient,
         UNCHANGED disposed, ops[o].kind = "stop" => m'.state = "stopped",
         ops[o].kind = "start" /\ ~disposed =>
           (m'.state = "running" <=> result # "rejected")
  PROVE  RuntimeInv'
<1>1. /\ Len(ops) \in Nat /\ DOMAIN ops = 1 .. Len(ops)
      /\ m.last \in Nat /\ m'.last \in Nat
  BY OpsFacts, RuntimeAssumption DEF RuntimeInv, TypeOK, Managers, Instances, None
<1>2. /\ Len(ops') = Len(ops) /\ DOMAIN ops' = DOMAIN ops
      /\ ops'[o].at = "done" /\ ops'[o].kind = ops[o].kind /\ ops'[o].result = result
      /\ \A k \in DOMAIN ops : k # o => ops'[k] = ops[k]
  <2>1. TypeOK
    BY DEF RuntimeInv
  <2>2. ops'[o] = [kind |-> ops[o].kind, at |-> "done", result |-> result]
    BY <2>1, DoneOp
  <2>3. /\ Len(ops') = Len(ops) /\ DOMAIN ops' = DOMAIN ops
      /\ \A k \in DOMAIN ops : k # o => ops'[k] = ops[k]
    BY <2>1, DoneOp
  <2> QED BY <2>2, <2>3
<1>3. m'.last <= Len(ops')
  BY <1>1, <1>2 DEF RuntimeInv
<1>4. OpsInOrder'
  BY <1>1, <1>2 DEF OpsInOrder
<1>5. QueuedOpsWait'
  BY <1>1, <1>2 DEF RuntimeInv, QueuedOpsWait
<1>6. OneOpAtATime'
  BY <1>1, <1>2 DEF OneOpAtATime
<1>7. IdleAtRest'
  BY DEF IdleAtRest
<1>8. LastDoneDecides'
  BY <1>1, <1>2 DEF LastDoneDecides
<1>9. DisposedStopsLast'
  BY <1>1, <1>2, MovedKeepsLast DEF RuntimeInv, TypeOK
<1> QED BY <1>3, <1>4, <1>5, <1>6, <1>7, <1>8, <1>9 DEF RuntimeInv

\* An operation that has called the manager waits for it or has its answer.
LEMMA CallKeepsInv ==
  ASSUME RuntimeInv, NEW o \in DOMAIN ops, NEW at \in {"starting", "undoing", "stopping"},
         ops' \in Seq(Operations), Len(ops') = Len(ops), DOMAIN ops' = DOMAIN ops,
         ops'[o].kind = ops[o].kind, ops'[o].at = at,
         \A k \in DOMAIN ops : k # o => ops'[k] = ops[k],
         \A k \in DOMAIN ops : k < o => ops[k].at = "done",
         \A k \in DOMAIN ops : k > o => ops[k].at = "queued",
         m'.last <= m.last \/ m'.last <= o, TypeOK', BridgeOfState', CredentialsMatchBridge',
         UNCHANGED disposed, at = "starting" => StartingOp(o)',
         at = "undoing" => ops[o].kind = "start" /\ StoppingOp(o)',
         at = "stopping" => (ops[o].kind = "stop" \/ disposed) /\ StoppingOp(o)'
  PROVE  RuntimeInv'
<1>1. /\ Len(ops) \in Nat /\ DOMAIN ops = 1 .. Len(ops)
      /\ m.last \in Nat /\ m'.last \in Nat
  BY OpsFacts, RuntimeAssumption DEF RuntimeInv, TypeOK, Managers, Instances, None
<1>2. m'.last <= Len(ops')
  BY <1>1 DEF RuntimeInv
<1>3. OpsInOrder' /\ QueuedOpsWait'
  BY <1>1 DEF RuntimeInv, OpsInOrder, QueuedOpsWait
<1>4. OneOpAtATime'
  <2> SUFFICES ASSUME NEW k \in DOMAIN ops
               PROVE  /\ ops'[k].at = "starting" => StartingOp(k)'
                      /\ ops'[k].at = "undoing" => ops'[k].kind = "start" /\ StoppingOp(k)'
                      /\ ops'[k].at = "stopping" =>
                           (ops'[k].kind = "stop" \/ disposed') /\ StoppingOp(k)'
    BY DEF OneOpAtATime
  <2>1. CASE k = o
    BY <2>1
  <2>2. CASE k # o
    BY <1>1, <2>2
  <2> QED BY <2>1, <2>2
<1>5. ~ Idle'
  BY DEF Idle
<1>6. DisposedStopsLast'
  BY MovedKeepsLast DEF RuntimeInv
<1> QED BY <1>2, <1>3, <1>4, <1>5, <1>6 DEF RuntimeInv, IdleAtRest, LastDoneDecides

LEMMA StopCalled ==
  ASSUME m \in Managers, NEW o \in Callers, ~ HasStop(m), ~ HasStart(m),
         m.tail = <<>>, m.state # "stopped"
  PROVE  /\ StopCall(m, o) \in Managers
         /\ StopCall(m, o).startPromise = m.startPromise
         /\ StopCall(m, o).stopPromise = {o}
         /\ StopCall(m, o).restarts = m.restarts /\ StopCall(m, o).tail = <<"stop">>
         /\ StopCall(m, o).running = m.running /\ StopCall(m, o).state = m.state
         /\ StopCall(m, o).bridge = m.bridge /\ StopCall(m, o).last = m.last
<1> DEFINE tail == <<"stop">>
           called == [m EXCEPT !.stopPromise = {o}, !.tail = tail]
<1>1. /\ tail \in Seq({"start", "stop"}) /\ {o} \in SUBSET Callers
      /\ StopCall(m, o) = called
  BY DEF StopCall
<1> HIDE DEF tail
<1>2. /\ called \in Managers
      /\ called.startPromise = m.startPromise /\ called.stopPromise = {o}
      /\ called.restarts = m.restarts /\ called.tail = tail
      /\ called.running = m.running /\ called.state = m.state
      /\ called.bridge = m.bridge /\ called.last = m.last
  BY <1>1 DEF Managers
<1> HIDE DEF called
<1> QED BY <1>1, <1>2 DEF tail

\* A call of stop, by an operation that is alone and finds the manager at rest.
LEMMA StopCallKeepsInv ==
  ASSUME RuntimeInv, NEW o \in DOMAIN ops, AtRest, m.state \in {"running", "error"},
         \A k \in DOMAIN ops : k < o => ops[k].at = "done",
         \A k \in DOMAIN ops : k > o => ops[k].at = "queued",
         NEW at \in {"undoing", "stopping"},
         at = "undoing" => ops[o].kind = "start",
         at = "stopping" => ops[o].kind = "stop" \/ disposed,
         Calls(o, StopCall(m, o), at), client' = NoClient,
         UNCHANGED <<disposed, servers>>
  PROVE  RuntimeInv'
<1>1. /\ TypeOK /\ m \in Managers /\ o \in Callers
      /\ ~ HasStart(m) /\ ~ HasStop(m) /\ m.tail = <<>>
  BY OpsFacts, RuntimeAssumption
     DEF RuntimeInv, TypeOK, Callers, AtRest, HasStart, HasStop
<1>2. /\ StopCall(m, o) \in Managers
      /\ StopCall(m, o).startPromise = m.startPromise
      /\ StopCall(m, o).stopPromise = {o}
      /\ StopCall(m, o).restarts = m.restarts /\ StopCall(m, o).tail = <<"stop">>
      /\ StopCall(m, o).running = m.running /\ StopCall(m, o).state = m.state
      /\ StopCall(m, o).bridge = m.bridge /\ StopCall(m, o).last = m.last
  BY <1>1, StopCalled DEF AtRest
<1>3. Waits(StopCall(m, o), o) /\ at \in OperationPoints
  BY <1>2 DEF Waits, OperationPoints
<1>4. /\ m' = StopCall(m, o) /\ ops' \in Seq(Operations)
      /\ Len(ops') = Len(ops) /\ DOMAIN ops' = DOMAIN ops
      /\ ops'[o] = [kind |-> ops[o].kind, at |-> at, result |-> "waiting"]
      /\ \A k \in DOMAIN ops : k # o => ops'[k] = ops[k]
  BY <1>1, <1>3, CallingOp
<1>5. TypeOK'
  BY <1>1, <1>2, <1>4 DEF TypeOK, servers
<1>6. BridgeOfState' /\ CredentialsMatchBridge'
  BY <1>2, <1>4 DEF RuntimeInv, BridgeOfState, CredentialsMatchBridge, servers
<1>7. StoppingOp(o)'
  BY <1>2, <1>4 DEF StoppingOp, AwaitsStop, AtRest
<1>8. m'.last <= m.last
  BY <1>1, <1>2, <1>4, RuntimeAssumption DEF Managers, Instances, None
<1> QED BY <1>4, <1>5, <1>6, <1>7, <1>8, CallKeepsInv

LEMMA StartNowKeepsInv ==
  ASSUME RuntimeInv, NEW o \in DOMAIN ops, StartNow(o)
  PROVE  RuntimeInv'
<1>1. /\ Idle /\ ops[o].at = "queued"
      /\ \A k \in DOMAIN ops : k < o => ops[k].at = "done"
      /\ \A k \in DOMAIN ops : k > o => ops[k].at = "queued"
      /\ ops[o].kind = "start"
  BY FirstIsIdle DEF StartNow
<1>2. /\ AtRest /\ m.state \in {"stopped", "error", "running"}
      /\ m.state = "running" <=> client # NoClient
  BY <1>1 DEF RuntimeInv, IdleAtRest
<1>3. TypeOK /\ Len(ops) \in Nat /\ DOMAIN ops = 1 .. Len(ops) /\ o \in Callers
  BY OpsFacts, RuntimeAssumption DEF RuntimeInv, TypeOK, Callers
<1>4. CASE (disposed \/ client # NoClient) /\ Done(o, "resolved") /\ UNCHANGED m
  <2>1. UNCHANGED <<disposed, m, client, servers>> /\ "resolved" \in Results
    BY <1>4 DEF StartNow, Results
  <2>2. TypeOK'
    BY <1>3, <1>4, <2>1, DoneOp DEF TypeOK, servers
  <2>3. /\ AtRest' /\ BridgeOfState' /\ CredentialsMatchBridge' /\ m'.last <= m.last
    BY <1>2, <1>3, <2>1, RuntimeAssumption
       DEF RuntimeInv, AtRest, BridgeOfState, CredentialsMatchBridge, servers,
           TypeOK, Managers, Instances, None
  <2>4. /\ m'.state \in {"stopped", "error", "running"}
        /\ m'.state = "running" <=> client' # NoClient
        /\ ~disposed => m'.state = "running"
    BY <1>2, <1>4, <2>1
  <2> QED BY <1>1, <1>4, <2>1, <2>2, <2>3, <2>4, DoneKeepsInv
<1>5. CASE ~disposed /\ client = NoClient /\ Calls(o, StartCall(m, o), "starting")
  <2>1. UNCHANGED <<disposed, client, servers>>
    BY DEF StartNow
  <2>2. StartCall(m, o) = [m EXCEPT !.startPromise = {o}, !.tail = Append(m.tail, "start")]
    BY <1>2, <1>5 DEF StartCall, HasStart, HasStop, AtRest
  <2>3. /\ m \in Managers /\ Append(m.tail, "start") = <<"start">>
        /\ <<"start">> \in Seq({"start", "stop"})
    BY <1>2, <1>3 DEF TypeOK, AtRest
  <2>4. /\ StartCall(m, o) \in Managers
        /\ StartCall(m, o).startPromise = {o} /\ StartCall(m, o).stopPromise = {}
        /\ StartCall(m, o).restarts = {} /\ StartCall(m, o).tail = <<"start">>
        /\ ~ StartCall(m, o).running /\ StartCall(m, o).state = m.state
        /\ StartCall(m, o).bridge = m.bridge /\ StartCall(m, o).last = m.last
    <3> DEFINE tail == <<"start">>
               called == [m EXCEPT !.startPromise = {o}, !.tail = tail]
    <3>1. tail \in Seq({"start", "stop"}) /\ {o} \in SUBSET Callers /\ StartCall(m, o) = called
      BY <1>3, <2>2, <2>3
    <3> HIDE DEF tail
    <3>2. /\ called \in Managers
          /\ called.startPromise = {o} /\ called.stopPromise = m.stopPromise
          /\ called.restarts = m.restarts /\ called.tail = tail
          /\ called.running = m.running /\ called.state = m.state
          /\ called.bridge = m.bridge /\ called.last = m.last
      BY <2>3, <3>1 DEF Managers
    <3> HIDE DEF called
    <3> QED BY <1>2, <3>1, <3>2 DEF AtRest, tail
  <2>5. /\ m' = StartCall(m, o) /\ ops' \in Seq(Operations)
        /\ Len(ops') = Len(ops) /\ DOMAIN ops' = DOMAIN ops
        /\ ops'[o] = [kind |-> ops[o].kind, at |-> "starting", result |-> "waiting"]
        /\ \A k \in DOMAIN ops : k # o => ops'[k] = ops[k]
    BY <1>3, <1>5, <2>4, CallingOp DEF OperationPoints, Waits
  <2>6. TypeOK'
    BY <1>3, <2>1, <2>4, <2>5 DEF TypeOK, servers
  <2>7. BridgeOfState' /\ CredentialsMatchBridge'
    BY <2>1, <2>4, <2>5, <1>5 DEF RuntimeInv, BridgeOfState, CredentialsMatchBridge, servers
  <2>8. StartingOp(o)'
    BY <1>1, <1>2, <1>5, <2>1, <2>4, <2>5
       DEF StartingOp, AwaitsStart, RuntimeInv, QueuedOpsWait
  <2>9. m'.last <= m.last
    BY <2>3, <2>4, <2>5, RuntimeAssumption DEF Managers, Instances, None
  <2> QED BY <1>1, <2>1, <2>4, <2>5, <2>6, <2>7, <2>8, <2>9, CallKeepsInv
<1> QED BY <1>4, <1>5 DEF StartNow

LEMMA StopNowKeepsInv ==
  ASSUME RuntimeInv, NEW o \in DOMAIN ops, StopNow(o)
  PROVE  RuntimeInv'
<1>1. /\ Idle /\ ops[o].at = "queued"
      /\ \A k \in DOMAIN ops : k < o => ops[k].at = "done"
      /\ \A k \in DOMAIN ops : k > o => ops[k].at = "queued"
      /\ ops[o].kind = "stop"
  BY FirstIsIdle DEF StopNow
<1>2. AtRest /\ m.state \in {"stopped", "error", "running"}
  BY <1>1 DEF RuntimeInv, IdleAtRest
<1>3. /\ client' = NoClient /\ UNCHANGED <<disposed, servers>>
  BY DEF StopNow
<1>4. CASE m.state = "stopped" /\ Done(o, "resolved") /\ UNCHANGED m
  <2>1. TypeOK /\ "resolved" \in Results
    BY DEF RuntimeInv, Results
  <2>2. TypeOK'
    BY <1>3, <1>4, <2>1, DoneOp DEF TypeOK, servers
  <2>3. AtRest' /\ BridgeOfState' /\ CredentialsMatchBridge' /\ m'.last <= m.last
    BY <1>2, <1>3, <1>4, <2>1, RuntimeAssumption
       DEF RuntimeInv, AtRest, BridgeOfState, CredentialsMatchBridge, servers,
           TypeOK, Managers, Instances, None
  <2> QED BY <1>1, <1>2, <1>3, <1>4, <2>1, <2>2, <2>3, DoneKeepsInv
<1>5. CASE m.state # "stopped" /\ Calls(o, StopCall(m, o), "stopping")
  BY <1>1, <1>2, <1>3, <1>5, StopCallKeepsInv
<1> QED BY <1>4, <1>5 DEF StopNow

LEMMA StartedKeepsInv ==
  ASSUME RuntimeInv, NEW o \in DOMAIN ops, Started(o)
  PROVE  RuntimeInv'
<1>1. /\ ops[o].at = "starting" /\ ops[o].kind = "start" /\ ops[o].result = "resolved"
      /\ AtRest /\ m.state = "running" /\ client = NoClient
  BY DEF Started, RuntimeInv, OneOpAtATime, StartingOp
<1>2. /\ \A k \in DOMAIN ops : k < o => ops[k].at = "done"
      /\ \A k \in DOMAIN ops : k > o => ops[k].at = "queued"
  BY <1>1, ActiveIsAlone
<1>3. UNCHANGED <<disposed, servers>>
  BY DEF Started
<1>4. CASE /\ client' = [bridge |-> m.bridge, phase |-> "connecting"]
           /\ Done(o, "resolved") /\ UNCHANGED m
  <2>1. "resolved" \in Results /\ TypeOK /\ m.bridge \in Instances /\ m.last \in Nat
    BY <1>1, RuntimeAssumption
       DEF RuntimeInv, BridgeOfState, TypeOK, Managers, Instances, None, Results
  <2>2. client' \in Clients /\ client' # NoClient /\ client'.bridge = m.bridge
    BY <1>4, <2>1, RuntimeAssumption DEF Clients, Phases, NoClient, Instances, None
  <2>3. TypeOK'
    BY <1>3, <1>4, <2>1, <2>2, DoneOp DEF TypeOK, servers
  <2>4. AtRest' /\ BridgeOfState' /\ CredentialsMatchBridge' /\ m'.last <= m.last
    BY <1>1, <1>3, <1>4, <2>1, <2>2
       DEF RuntimeInv, AtRest, BridgeOfState, CredentialsMatchBridge, servers
  <2> QED BY <1>1, <1>2, <1>3, <1>4, <2>1, <2>2, <2>3, <2>4, DoneKeepsInv
<1>5. CASE /\ Calls(o, StopCall(m, o), IF disposed THEN "stopping" ELSE "undoing")
           /\ UNCHANGED client
  <2>1. CASE disposed
    BY <1>1, <1>2, <1>3, <1>5, <2>1, StopCallKeepsInv
  <2>2. CASE ~ disposed
    BY <1>1, <1>2, <1>3, <1>5, <2>2, StopCallKeepsInv
  <2> QED BY <2>1, <2>2
<1> QED BY <1>4, <1>5 DEF Started

LEMMA EndsKeepsInv ==
  ASSUME RuntimeInv, NEW o \in DOMAIN ops, Ends(o)
  PROVE  RuntimeInv'
<1> DEFINE result == IF ops[o].at = "undoing" THEN "rejected" ELSE ops[o].result
<1>1. /\ ops[o].result # "waiting" /\ ops[o].at # "done"
      /\ ops[o].at \in {"undoing", "stopping"} \/ ops[o].result = "rejected"
      /\ Done(o, result) /\ UNCHANGED <<disposed, m, client, servers>>
  BY DEF Ends
<1>2. /\ ops[o].at \in {"starting", "undoing", "stopping"}
      /\ TypeOK /\ ops[o].result \in Results /\ result \in Results
  BY <1>1, OpsFacts DEF RuntimeInv, QueuedOpsWait, Operations, OperationPoints, Results
<1>3. /\ \A k \in DOMAIN ops : k < o => ops[k].at = "done"
      /\ \A k \in DOMAIN ops : k > o => ops[k].at = "queued"
  BY <1>2, ActiveIsAlone
<1>4. /\ AtRest /\ m.state \in {"stopped", "error"} /\ client = NoClient
      /\ ops[o].kind = "stop" => m.state = "stopped"
      /\ ops[o].kind = "start" /\ ~disposed => result = "rejected"
  BY <1>1, <1>2 DEF RuntimeInv, OneOpAtATime, StartingOp, StoppingOp
<1> HIDE DEF result
<1>5. TypeOK'
  BY <1>1, <1>2, DoneOp DEF TypeOK, servers
<1>6. AtRest' /\ BridgeOfState' /\ CredentialsMatchBridge' /\ m'.last <= m.last
  BY <1>1, <1>2, <1>4, RuntimeAssumption
     DEF RuntimeInv, AtRest, BridgeOfState, CredentialsMatchBridge, servers,
         TypeOK, Managers, Instances, None
<1> QED BY <1>1, <1>2, <1>3, <1>4, <1>5, <1>6, DoneKeepsInv

-----------------------------------------------------------------------------
(* The manager's operations *)

\* The operation of the manager that is under way makes progress; the one that
\* waits for it has its answer, or waits on.
LEMMA ManagerKeepsInv ==
  ASSUME RuntimeInv, NEW o \in DOMAIN ops, NEW result \in Results,
         ops[o].at \in {"starting", "undoing", "stopping"},
         ops' = ops \/ ops' = Settled(ops, {o}, result),
         m' \in Managers, m'.last <= m.last \/ m'.last <= o,
         UNCHANGED <<disposed, client>>,
         listening' \subseteq Instances, honoured' \subseteq Instances,
         expired' = expired,
         BridgeOfState', CredentialsMatchBridge',
         ops[o].at = "starting" => StartingOp(o)',
         ops[o].at \in {"undoing", "stopping"} => StoppingOp(o)'
  PROVE  RuntimeInv'
<1>1. /\ TypeOK
      /\ ops[o].at = "undoing" => ops[o].kind = "start"
      /\ ops[o].at = "stopping" => ops[o].kind = "stop" \/ disposed
  BY DEF RuntimeInv, OneOpAtATime
<1>2. /\ ops' \in Seq(Operations) /\ Len(ops') = Len(ops) /\ DOMAIN ops' = DOMAIN ops
      /\ \A k \in DOMAIN ops : ops'[k].kind = ops[k].kind /\ ops'[k].at = ops[k].at
      /\ \A k \in DOMAIN ops : k # o => ops'[k] = ops[k]
  <2>1. CASE ops' = ops
    BY <1>1, <2>1 DEF TypeOK
  <2>2. CASE ops' = Settled(ops, {o}, result)
    BY <1>1, <2>2, SettledOps
  <2> QED BY <2>1, <2>2
<1>3. /\ \A k \in DOMAIN ops : k < o => ops[k].at = "done"
      /\ \A k \in DOMAIN ops : k > o => ops[k].at = "queued"
  BY ActiveIsAlone
<1>4. TypeOK'
  <2>1. Len(ops') <= MaxRequests /\ disposed' \in BOOLEAN
    BY <1>1, <1>2 DEF TypeOK
  <2>2. client' \in Clients \cup {NoClient} /\ expired' \subseteq Instances
    BY <1>1 DEF TypeOK
  <2> QED BY <1>2, <2>1, <2>2 DEF TypeOK
<1> DEFINE at == ops[o].at
<1>5. /\ ops'[o].kind = ops[o].kind /\ ops'[o].at = at
      /\ at \in {"starting", "undoing", "stopping"}
  BY <1>2
<1>6. /\ at = "starting" => StartingOp(o)'
      /\ at = "undoing" => ops[o].kind = "start" /\ StoppingOp(o)'
      /\ at = "stopping" => (ops[o].kind = "stop" \/ disposed) /\ StoppingOp(o)'
  BY <1>1
<1> HIDE DEF at
<1> QED BY <1>2, <1>3, <1>4, <1>5, <1>6, CallKeepsInv

LEMMA StartBridgeKeepsInv ==
  ASSUME RuntimeInv, StartBridge
  PROVE  RuntimeInv'
<1>1. /\ m.tail # <<>> /\ Head(m.tail) = "start" /\ ~m.running
      /\ m' = [m EXCEPT !.running = TRUE, !.state = "starting", !.port = 0,
                        !.last = m.last + 1]
      /\ UNCHANGED <<ops, disposed, client, listening, honoured, expired>>
  BY DEF StartBridge, servers
<1>2. PICK o \in DOMAIN ops :
        /\ ops[o].at \notin {"queued", "done"} /\ ops[o].result = "waiting"
        /\ \/ ops[o].at = "starting" /\ ops[o].kind = "start" /\ AwaitsStart(o)
           \/ ops[o].at = "undoing" /\ ops[o].kind = "start" /\ AwaitsStop(o)
           \/ ops[o].at = "stopping" /\ AwaitsStop(o)
  BY <1>1, SomeoneWaits
<1>3. /\ ops[o].at = "starting" /\ ops[o].kind = "start" /\ AwaitsStart(o)
      /\ m.last < o /\ m.state \in {"stopped", "error"}
  BY <1>1, <1>2 DEF AwaitsStart, AwaitsStop
<1>4. /\ m \in Managers /\ Len(ops) \in Nat /\ DOMAIN ops = 1 .. Len(ops)
      /\ Len(ops) <= MaxRequests /\ m.last \in Nat
  BY OpsFacts, RuntimeAssumption DEF RuntimeInv, TypeOK, Managers, Instances, None
<1>5. m.last + 1 \in Instances /\ m.last + 1 <= o
  BY <1>3, <1>4, RuntimeAssumption DEF Instances
<1>6. /\ m' \in Managers /\ m'.last = m.last + 1 /\ m'.running /\ m'.state = "starting"
      /\ m'.startPromise = m.startPromise /\ m'.stopPromise = m.stopPromise
      /\ m'.restarts = m.restarts /\ m'.tail = m.tail /\ m'.bridge = m.bridge
  <2>1. 0 \in 0 .. Ports
    BY RuntimeAssumption
  <2> QED BY <1>1, <1>4, <1>5, <2>1 DEF Managers
<1>7. client = NoClient /\ m.bridge = None
  BY <1>3 DEF RuntimeInv, OneOpAtATime, StartingOp, BridgeOfState
<1>8. BridgeOfState' /\ CredentialsMatchBridge'
  BY <1>1, <1>6, <1>7 DEF RuntimeInv, BridgeOfState, CredentialsMatchBridge
<1>9. StartingOp(o)'
  BY <1>1, <1>2, <1>3, <1>4, <1>6, <1>7 DEF StartingOp, AwaitsStart, None
<1>10. listening \subseteq Instances /\ honoured \subseteq Instances
  BY DEF RuntimeInv, TypeOK
<1>11. m'.last <= o /\ "waiting" \in Results
  BY <1>5, <1>6 DEF Results
<1> QED BY <1>1, <1>3, <1>6, <1>8, <1>9, <1>10, <1>11, ManagerKeepsInv

LEMMA StopBridgeKeepsInv ==
  ASSUME RuntimeInv, StopBridge
  PROVE  RuntimeInv'
<1>1. /\ m.tail # <<>> /\ Head(m.tail) = "stop" /\ ~m.running
      /\ m' = [m EXCEPT !.running = TRUE, !.state = "stopping"]
      /\ UNCHANGED <<ops, disposed, client, listening, honoured, expired>>
  BY DEF StopBridge, servers
<1>2. PICK o \in DOMAIN ops :
        /\ ops[o].at \notin {"queued", "done"} /\ ops[o].result = "waiting"
        /\ \/ ops[o].at = "starting" /\ ops[o].kind = "start" /\ AwaitsStart(o)
           \/ ops[o].at = "undoing" /\ ops[o].kind = "start" /\ AwaitsStop(o)
           \/ ops[o].at = "stopping" /\ AwaitsStop(o)
  BY <1>1, SomeoneWaits
<1>3. ops[o].at \in {"undoing", "stopping"} /\ AwaitsStop(o)
  BY <1>1, <1>2 DEF AwaitsStart, AwaitsStop
<1>4. /\ m \in Managers /\ m.last \in Nat
      /\ listening \subseteq Instances /\ honoured \subseteq Instances
  BY RuntimeAssumption DEF RuntimeInv, TypeOK, Managers, Instances, None
<1>6. /\ m' \in Managers /\ m'.last = m.last /\ m'.running /\ m'.state = "stopping"
      /\ m'.startPromise = m.startPromise /\ m'.stopPromise = m.stopPromise
      /\ m'.restarts = m.restarts /\ m'.tail = m.tail /\ m'.bridge = m.bridge
  BY <1>1, <1>4 DEF Managers
<1>7. client = NoClient
  BY <1>3 DEF RuntimeInv, OneOpAtATime, StoppingOp
<1>8. BridgeOfState' /\ CredentialsMatchBridge'
  BY <1>1, <1>6, <1>7 DEF RuntimeInv, BridgeOfState, CredentialsMatchBridge
<1>9. StoppingOp(o)'
  BY <1>1, <1>2, <1>3, <1>6, <1>7 DEF StoppingOp, AwaitsStop
<1>10. m'.last <= m.last /\ "waiting" \in Results
  BY <1>4, <1>6 DEF Results
<1> QED BY <1>1, <1>3, <1>4, <1>6, <1>8, <1>9, <1>10, ManagerKeepsInv

\* Who waits for a start that is under way, and for a stop.
LEMMA StartIsAwaited ==
  ASSUME RuntimeInv, m.running, m.state = "starting"
  PROVE  \E o \in DOMAIN ops :
           /\ ops[o].at = "starting" /\ ops[o].kind = "start" /\ client = NoClient
           /\ ops[o].result = "waiting" /\ AwaitsStart(o)
BY SomeoneWaits DEF AwaitsStop, RuntimeInv, OneOpAtATime, StartingOp

LEMMA StopIsAwaited ==
  ASSUME RuntimeInv, m.running, m.state = "stopping"
  PROVE  \E o \in DOMAIN ops :
           /\ ops[o].at \in {"undoing", "stopping"} /\ client = NoClient
           /\ ops[o].result = "waiting" /\ AwaitsStop(o)
BY SomeoneWaits DEF AwaitsStart, RuntimeInv, OneOpAtATime, StoppingOp

\* A start has come to an end: the bridge runs, or the attempt failed.
LEMMA StartEnded ==
  ASSUME RuntimeInv, Binding, NEW o \in DOMAIN ops, AwaitsStart(o),
         NEW state \in {"running", "error"}, NEW bridge \in Instances \cup {None},
         NEW result, StartEnds(state, bridge, result)
  PROVE  /\ m' \in Managers /\ m'.last = m.last
         /\ m'.state = state /\ m'.bridge = bridge
         /\ AtRest' /\ ops' = Settled(ops, {o}, result)
<1>1. /\ m \in Managers /\ m.startPromise = {o} /\ m.stopPromise = {} /\ m.restarts = {}
      /\ m.tail = <<"start">>
  BY DEF RuntimeInv, TypeOK, AwaitsStart
<1> DEFINE tail == Tail(<<"start">>)
<1>2. tail \in Seq({"start", "stop"}) /\ tail = <<>>
  OBVIOUS
<1> HIDE DEF tail
<1>3. m' = [m EXCEPT !.state = state, !.bridge = bridge, !.startPromise = {},
                     !.tail = tail, !.running = FALSE]
  BY <1>1 DEF StartEnds, tail
<1>4. /\ m' \in Managers /\ m'.last = m.last /\ m'.state = state /\ m'.bridge = bridge
      /\ m'.startPromise = {} /\ m'.stopPromise = m.stopPromise
      /\ m'.restarts = m.restarts /\ m'.tail = tail /\ ~ m'.running
  BY <1>1, <1>2, <1>3 DEF Managers
<1>5. ops' = Settled(ops, {o}, result)
  BY <1>1 DEF StartEnds
<1> QED BY <1>1, <1>2, <1>4, <1>5 DEF AtRest

LEMMA StartFailureKeepsInv ==
  ASSUME RuntimeInv, Binding, StartEnds("error", None, "rejected"),
         UNCHANGED <<disposed, client, servers>>
  PROVE  RuntimeInv'
<1>1. PICK o \in DOMAIN ops :
        /\ ops[o].at = "starting" /\ ops[o].kind = "start" /\ client = NoClient
        /\ ops[o].result = "waiting" /\ AwaitsStart(o)
  BY StartIsAwaited DEF Binding
<1>2. /\ m' \in Managers /\ m'.last = m.last /\ m'.state = "error" /\ m'.bridge = None
      /\ AtRest' /\ ops' = Settled(ops, {o}, "rejected")
  BY <1>1, StartEnded
<1>3. /\ TypeOK /\ m.state = "starting" /\ m.bridge = None /\ honoured = {}
      /\ m.last \in Nat
  BY RuntimeAssumption
     DEF Binding, RuntimeInv, BridgeOfState, CredentialsMatchBridge, TypeOK, Managers,
         Instances, None
<1>4. ops'[o].kind = ops[o].kind /\ ops'[o].result = "rejected"
  BY <1>1, <1>2, <1>3, SettledOps DEF Results
<1>5. StartingOp(o)' /\ BridgeOfState' /\ CredentialsMatchBridge'
  BY <1>1, <1>2, <1>3, <1>4 DEF StartingOp, BridgeOfState, CredentialsMatchBridge, servers
<1>6. /\ m'.last <= m.last /\ listening' \subseteq Instances /\ honoured' \subseteq Instances
      /\ expired' = expired /\ UNCHANGED <<disposed, client>> /\ "rejected" \in Results
  BY <1>2, <1>3 DEF TypeOK, servers, Results
<1> QED BY <1>1, <1>2, <1>5, <1>6, ManagerKeepsInv

LEMMA PortBoundKeepsInv ==
  ASSUME RuntimeInv, PortBound
  PROVE  RuntimeInv'
<1>1. /\ Binding /\ StartEnds("running", m.last, "resolved")
      /\ listening' = listening \cup {m.last} /\ honoured' = honoured \cup {m.last}
      /\ UNCHANGED <<disposed, client, expired>>
  BY DEF PortBound
<1>2. PICK o \in DOMAIN ops :
        /\ ops[o].at = "starting" /\ ops[o].kind = "start" /\ client = NoClient
        /\ ops[o].result = "waiting" /\ AwaitsStart(o)
  BY <1>1, StartIsAwaited DEF Binding
<1>3. /\ TypeOK /\ m.state = "starting" /\ m.bridge = None /\ honoured = {}
      /\ m.last \in Instances /\ m.last # None /\ m.last \in Nat
  BY <1>1, <1>2, RuntimeAssumption
     DEF Binding, RuntimeInv, BridgeOfState, CredentialsMatchBridge, TypeOK, Managers,
         Instances, None, AwaitsStart
<1>4. /\ m' \in Managers /\ m'.last = m.last /\ m'.state = "running" /\ m'.bridge = m.last
      /\ AtRest' /\ ops' = Settled(ops, {o}, "resolved")
  BY <1>1, <1>2, <1>3, StartEnded
<1>5. ops'[o].kind = ops[o].kind /\ ops'[o].result = "resolved"
  BY <1>2, <1>3, <1>4, SettledOps DEF Results
<1>6. StartingOp(o)' /\ BridgeOfState' /\ CredentialsMatchBridge'
  BY <1>1, <1>2, <1>3, <1>4, <1>5 DEF StartingOp, BridgeOfState, CredentialsMatchBridge
<1>7. /\ m'.last <= m.last /\ listening' \subseteq Instances /\ honoured' \subseteq Instances
      /\ "resolved" \in Results
  BY <1>1, <1>3, <1>4 DEF TypeOK, Results
<1> QED BY <1>1, <1>2, <1>4, <1>6, <1>7, ManagerKeepsInv

LEMMA PortInUseKeepsInv ==
  ASSUME RuntimeInv, PortInUse
  PROVE  RuntimeInv'
<1>1. Binding /\ UNCHANGED <<disposed, client, servers>>
  BY DEF PortInUse
<1>2. CASE StartEnds("error", None, "rejected")
  BY <1>1, <1>2, StartFailureKeepsInv
<1>3. CASE m.port + 1 < Ports /\ m' = [m EXCEPT !.port = m.port + 1] /\ UNCHANGED ops
  <2>1. PICK o \in DOMAIN ops :
          /\ ops[o].at = "starting" /\ ops[o].kind = "start" /\ client = NoClient
          /\ ops[o].result = "waiting" /\ AwaitsStart(o)
    BY <1>1, StartIsAwaited DEF Binding
  <2>2. TypeOK /\ m \in Managers /\ m.port + 1 \in 0 .. Ports /\ m.last \in Nat
    BY <1>3, RuntimeAssumption DEF RuntimeInv, TypeOK, Managers, Instances, None
  <2>3. /\ m' \in Managers /\ m'.last = m.last /\ m'.state = m.state
        /\ m'.bridge = m.bridge /\ m'.running = m.running /\ m'.tail = m.tail
        /\ m'.startPromise = m.startPromise /\ m'.stopPromise = m.stopPromise
        /\ m'.restarts = m.restarts
    BY <1>3, <2>2 DEF Managers
  <2>4. StartingOp(o)' /\ BridgeOfState' /\ CredentialsMatchBridge'
    BY <1>1, <1>3, <2>1, <2>3
       DEF StartingOp, AwaitsStart, RuntimeInv, BridgeOfState, CredentialsMatchBridge, servers
  <2>5. /\ m'.last <= m.last /\ listening' \subseteq Instances /\ honoured' \subseteq Instances
        /\ expired' = expired /\ UNCHANGED <<disposed, client>> /\ "waiting" \in Results
    BY <1>1, <2>2, <2>3 DEF TypeOK, servers, Results
  <2>6. ops' = ops
    BY <1>3
  <2> QED BY <2>1, <2>3, <2>4, <2>5, <2>6, ManagerKeepsInv
<1> QED BY <1>2, <1>3 DEF PortInUse

LEMMA BridgeStoppedKeepsInv ==
  ASSUME RuntimeInv, BridgeStopped
  PROVE  RuntimeInv'
<1>1. /\ m.running /\ m.state = "stopping"
      /\ honoured' = honoured \ {m.bridge}
      /\ UNCHANGED <<disposed, client, expired>>
      /\ listening' \subseteq listening
  BY DEF BridgeStopped
<1>2. PICK result \in {"resolved", "rejected"} : StopEnds(result)
  BY DEF BridgeStopped
<1>3. PICK o \in DOMAIN ops :
        /\ ops[o].at \in {"undoing", "stopping"} /\ client = NoClient
        /\ ops[o].result = "waiting" /\ AwaitsStop(o)
  BY <1>1, StopIsAwaited
<1>4. /\ TypeOK /\ honoured = {m.bridge} \ {None} /\ m \in Managers /\ m.last \in Nat
      /\ m.stopPromise = {o} /\ m.restarts = {}
  BY <1>3, RuntimeAssumption
     DEF RuntimeInv, CredentialsMatchBridge, TypeOK, Managers, Instances, None, AwaitsStop
<1> DEFINE tail == <<>>
<1>5. tail \in Seq({"start", "stop"}) /\ tail = <<>>
  OBVIOUS
<1> HIDE DEF tail
<1>6. m' = [m EXCEPT !.state = "stopped", !.bridge = None, !.stopPromise = {},
                     !.startPromise = {}, !.restarts = {}, !.tail = tail,
                     !.running = FALSE]
  BY <1>2, <1>4, <1>5 DEF StopEnds
<1>7. /\ m' \in Managers /\ m'.last = m.last /\ m'.state = "stopped" /\ m'.bridge = None
      /\ m'.startPromise = {} /\ m'.stopPromise = {} /\ m'.restarts = {}
      /\ m'.tail = tail /\ ~ m'.running
  BY <1>4, <1>5, <1>6 DEF Managers
<1>8. ops' = Settled(ops, {o}, result) /\ result \in Results
  BY <1>2, <1>4 DEF StopEnds, Results
<1>9. ops'[o].result = result /\ result # "waiting"
  BY <1>2, <1>4, <1>8, SettledOps
<1>10. StoppingOp(o)' /\ BridgeOfState' /\ CredentialsMatchBridge'
  BY <1>1, <1>3, <1>4, <1>5, <1>7, <1>9
     DEF StoppingOp, AtRest, BridgeOfState, CredentialsMatchBridge
<1>11. /\ m'.last <= m.last /\ listening' \subseteq Instances /\ honoured' \subseteq Instances
       /\ expired' = expired /\ UNCHANGED <<disposed, client>>
  BY <1>1, <1>4, <1>7 DEF TypeOK
<1>12. ops[o].at \in {"starting", "undoing", "stopping"} /\ ops[o].at # "starting"
  BY <1>3
<1> QED BY <1>7, <1>8, <1>10, <1>11, <1>12, ManagerKeepsInv
-----------------------------------------------------------------------------
(* The client *)

\* The client's steps concern its phase alone; they need a client.
LEMMA ClientKeepsInv ==
  ASSUME RuntimeInv, client # NoClient, NEW phase \in Phases, GoTo(phase)
  PROVE  RuntimeInv'
<1>1. client \in Clients /\ client.bridge = m.bridge /\ m.state = "running"
  BY DEF RuntimeInv, TypeOK, CredentialsMatchBridge
<1>2. /\ client' \in Clients /\ client'.bridge = client.bridge
      /\ UNCHANGED <<ops, disposed, m, listening, honoured, expired>>
  BY <1>1 DEF GoTo, Clients, servers
<1>3. client' # NoClient
  BY <1>1, <1>2, RuntimeAssumption DEF Clients, Instances, None, NoClient
<1>4. TypeOK' /\ m'.last <= Len(ops')
  BY <1>2 DEF RuntimeInv, TypeOK
<1>5. OpsInOrder' /\ QueuedOpsWait'
  BY <1>2 DEF RuntimeInv, OpsInOrder, QueuedOpsWait
<1>6. OneOpAtATime'
  BY <1>2 DEF RuntimeInv, OneOpAtATime, StartingOp, StoppingOp
<1>7. IdleAtRest' /\ LastDoneDecides'
  BY <1>1, <1>2, <1>3 DEF RuntimeInv, IdleAtRest, LastDoneDecides, Idle, AtRest
<1>8. BridgeOfState' /\ CredentialsMatchBridge' /\ DisposedStopsLast'
  BY <1>1, <1>2 DEF RuntimeInv, BridgeOfState, CredentialsMatchBridge, DisposedStopsLast
<1> QED BY <1>4, <1>5, <1>6, <1>7, <1>8 DEF RuntimeInv

LEMMA ClientSteps ==
  ASSUME RuntimeInv, ClientStep \/ Trouble
  PROVE  RuntimeInv'
BY ClientKeepsInv
   DEF ClientStep, Trouble, SocketOpens, Authenticated, TokenRejected, BridgeLetsGo,
       ReconnectTimer, SocketCloses, InvalidMessage, InPhase, Phases

LEMMA OthersKeepInv ==
  ASSUME RuntimeInv, UNCHANGED <<ops, m, client, disposed, listening, honoured>>,
         expired' \subseteq Instances
  PROVE  RuntimeInv'
<1>1. TypeOK' /\ m'.last <= Len(ops')
  BY DEF RuntimeInv, TypeOK
<1>2. OpsInOrder' /\ QueuedOpsWait'
  BY DEF RuntimeInv, OpsInOrder, QueuedOpsWait
<1>3. OneOpAtATime'
  BY DEF RuntimeInv, OneOpAtATime, StartingOp, StoppingOp, AwaitsStart, AwaitsStop, AtRest
<1>4. IdleAtRest' /\ LastDoneDecides'
  BY DEF RuntimeInv, IdleAtRest, LastDoneDecides, Idle, AtRest
<1>5. BridgeOfState' /\ CredentialsMatchBridge' /\ DisposedStopsLast'
  BY DEF RuntimeInv, BridgeOfState, CredentialsMatchBridge, DisposedStopsLast
<1> QED BY <1>1, <1>2, <1>3, <1>4, <1>5 DEF RuntimeInv
-----------------------------------------------------------------------------
(* The theorems *)

LEMMA InitHasInv == Init => RuntimeInv
<1> SUFFICES ASSUME Init PROVE RuntimeInv
  OBVIOUS
<1> DEFINE tail == <<>>
<1>1. tail \in Seq({"start", "stop"}) /\ tail = <<>>
  OBVIOUS
<1> HIDE DEF tail
<1>2. m = [state |-> "stopped", bridge |-> None, last |-> None, port |-> 0,
           startPromise |-> {}, stopPromise |-> {}, restarts |-> {},
           tail |-> tail, running |-> FALSE]
  BY <1>1 DEF Init
<1>3. m \in Managers /\ m.tail = <<>>
  BY <1>1, <1>2, RuntimeAssumption DEF Managers
<1>4. ops = <<>> /\ Len(ops) = 0 /\ DOMAIN ops = {} /\ ops \in Seq(Operations)
  BY DEF Init
<1>5. TypeOK
  <2>1. Len(ops) <= MaxRequests
    BY <1>4, RuntimeAssumption
  <2>2. /\ disposed \in BOOLEAN /\ client \in Clients \cup {NoClient}
        /\ listening \subseteq Instances /\ honoured \subseteq Instances
        /\ expired \subseteq Instances
    BY DEF Init
  <2> QED BY <1>3, <1>4, <2>1, <2>2 DEF TypeOK
<1>6. /\ m.last = 0 /\ m.bridge = None /\ m.state = "stopped" /\ ~ m.running
      /\ m.startPromise = {} /\ m.stopPromise = {} /\ m.restarts = {}
  BY <1>2 DEF None
<1>7. OpsInOrder /\ QueuedOpsWait /\ OneOpAtATime /\ LastDoneDecides /\ DisposedStopsLast
  BY <1>4 DEF Init, OpsInOrder, QueuedOpsWait, OneOpAtATime, LastDoneDecides,
              DisposedStopsLast
<1>8. IdleAtRest /\ BridgeOfState /\ CredentialsMatchBridge
  BY <1>3, <1>6 DEF Init, IdleAtRest, AtRest, BridgeOfState, CredentialsMatchBridge
<1> QED BY <1>4, <1>5, <1>6, <1>7, <1>8 DEF RuntimeInv

LEMMA NextKeepsInv == RuntimeInv /\ [Next]_vars => RuntimeInv'
<1> SUFFICES ASSUME RuntimeInv, [Next]_vars PROVE RuntimeInv'
  OBVIOUS
<1>1. CASE Resume
  BY <1>1, StartBridgeKeepsInv, StopBridgeKeepsInv, StartNowKeepsInv, StopNowKeepsInv,
     StartedKeepsInv, EndsKeepsInv DEF Resume
<1>2. CASE Start \/ Stop \/ Dispose
  <2>1. disposed \in BOOLEAN
    BY DEF RuntimeInv, TypeOK
  <2>2. CASE Start
    BY <2>1, <2>2, QueueKeepsInv DEF Start
  <2>3. CASE Stop
    BY <2>1, <2>3, QueueKeepsInv DEF Stop
  <2>4. CASE Dispose
    BY <2>4, QueueKeepsInv DEF Dispose
  <2> QED BY <1>2, <2>2, <2>3, <2>4
<1>3. CASE ServerStep
  BY <1>3, PortBoundKeepsInv, PortInUseKeepsInv, StartFailureKeepsInv,
     BridgeStoppedKeepsInv DEF ServerStep, StartFails
<1>4. CASE ClientStep \/ Trouble
  BY <1>4, ClientSteps
<1>5. CASE TokenExpires
  <2>1. m.bridge \in Instances /\ expired \subseteq Instances
    BY <1>5 DEF TokenExpires, RuntimeInv, BridgeOfState, TypeOK, Managers, None
  <2> QED BY <1>5, <2>1, OthersKeepInv DEF TokenExpires
<1>6. CASE UNCHANGED vars
  <2>1. UNCHANGED <<ops, m, client, disposed, listening, honoured, expired>>
    BY <1>6 DEF vars
  <2>2. expired \subseteq Instances
    BY DEF RuntimeInv, TypeOK
  <2> QED BY <2>1, <2>2, OthersKeepInv
<1> QED BY <1>1, <1>2, <1>3, <1>4, <1>5, <1>6 DEF Next

LEMMA InvAlways == Spec => []RuntimeInv
<1>1. Init => RuntimeInv
  BY InitHasInv
<1>2. RuntimeInv /\ [Next]_vars => RuntimeInv'
  BY NextKeepsInv
<1> QED BY <1>1, <1>2, PTL DEF Spec

(* Whatever is pressed and however the servers answer, the fields of the   *)
(* controller and of the manager keep their types.                         *)
THEOREM RuntimeTypeCorrect == Spec => []TypeOK
<1>1. RuntimeInv => TypeOK
  BY DEF RuntimeInv
<1> QED BY <1>1, InvAlways, PTL

(* The IDE's client never outlives its bridge, nor presents to it the      *)
(* token of another: ExtensionRuntimeController's queue over BridgeManager, *)
(* for any number of requests and managed ports.                           *)
THEOREM CredentialsAlwaysMatch == Spec => []CredentialsMatchBridge
<1>1. RuntimeInv => CredentialsMatchBridge
  BY DEF RuntimeInv
<1> QED BY <1>1, InvAlways, PTL

(* Whenever nothing is under way, the last of start, stop and dispose has  *)
(* decided: after a start that was not rejected the bridge runs with its   *)
(* client, after any other request neither is left.                        *)
THEOREM LastRequestAlwaysDecides == Spec => []LastRequestDecides
<1>1. RuntimeInv => LastRequestDecides
  <2> SUFFICES ASSUME RuntimeInv, AllDone, ops # <<>>
               PROVE  LET last == ops[Len(ops)]
                      IN  IF last.kind = "start" /\ last.result # "rejected"
                          THEN m.state = "running" /\ client # NoClient
                          ELSE /\ client = NoClient
                               /\ \/ m.state = "stopped"
                                  \/ last.kind = "start" /\ m.state = "error"
    BY DEF LastRequestDecides
  <2> DEFINE last == ops[Len(ops)]
  <2>1. Idle
    BY DEF AllDone, Idle
  <2>2. /\ m.state = "running" <=> client # NoClient
        /\ m.state \in {"stopped", "error", "running"}
    BY <2>1 DEF RuntimeInv, IdleAtRest
  <2>3. /\ Len(ops) \in Nat /\ DOMAIN ops = 1 .. Len(ops) /\ Len(ops) # 0
    BY OpsFacts, EmptySeq DEF RuntimeInv, TypeOK
  <2>4. /\ Len(ops) \in DOMAIN ops /\ last.at = "done"
        /\ \A k \in DOMAIN ops : ~ (k > Len(ops))
    BY <2>3 DEF AllDone
  <2>5. /\ last.kind = "stop" => m.state = "stopped"
        /\ last.kind = "start" /\ ~disposed =>
             (m.state = "running" <=> last.result # "rejected")
    BY <2>1, <2>4 DEF RuntimeInv, LastDoneDecides
  <2>6. /\ disposed => last.kind = "stop"
        /\ last.kind \in {"start", "stop"}
    BY <2>4, OpsFacts DEF RuntimeInv, DisposedStopsLast, Operations
  <2> HIDE DEF last
  <2> QED BY <2>2, <2>5, <2>6 DEF last
<1> QED BY <1>1, InvAlways, PTL
=============================================================================
