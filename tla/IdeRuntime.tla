----------------------------- MODULE IdeRuntime -----------------------------
(***************************************************************************)
(* The bridge's life in VS Code: ExtensionRuntimeController, which runs    *)
(* the user's start and stop one after the other; BridgeManager, which     *)
(* looks for a free port and owns the server and its authenticator, and    *)
(* whose start and stop join calls that are under way; and the IDE's       *)
(* BridgeClient, which reconnects for as long as it is not disposed of.    *)
(*                                                                         *)
(* A bridge is the number of the start that created it.  A step is one run *)
(* of the event loop: what a settled promise resumes runs before anything  *)
(* else.  Left out: the link code and the count of linked browsers.        *)
(***************************************************************************)
EXTENDS Naturals, Sequences, FiniteSets

CONSTANTS
  MaxRequests, \* bound: start, stop and dispose are called this often
  Ports        \* the number of managed ports

ASSUME RuntimeAssumption == MaxRequests \in Nat /\ Ports \in Nat \ {0}

VARIABLES
  ops,       \* the operations of the controller, in the order of the calls
  disposed,  \* the controller is disposed of
  m,         \* the fields of BridgeManager
  client,    \* the controller's BridgeClient
  listening, \* bridges whose server listens
  honoured,  \* bridges whose authenticator honours the IDE's token
  expired    \* bridges whose IDE token has expired

vars == <<ops, disposed, m, client, listening, honoured, expired>>
servers == <<listening, honoured, expired>>

-----------------------------------------------------------------------------
None == 0
Instances == 1 .. MaxRequests
Callers == 1 .. MaxRequests

(* at says what an operation does next, or which promise it waits for;     *)
(* result is that promise's, and at the end the operation's own.           *)
OperationPoints == {"queued", "starting", "undoing", "stopping", "done"}
Results == {"waiting", "resolved", "rejected"}
Operations == [kind: {"start", "stop"}, at: OperationPoints, result: Results]
Asked(kind) == [kind |-> kind, at |-> "queued", result |-> "waiting"]

(* startPromise and stopPromise are the sets of those that wait for them,  *)
(* restarts those whose start waits for a stop; tail holds the operations  *)
(* of the manager that have not settled, running says that the first has   *)
(* begun.                                                                  *)
Managers ==
  [state: {"stopped", "starting", "running", "stopping", "error"},
   bridge: Instances \cup {None}, last: Instances \cup {None}, port: 0 .. Ports,
   startPromise: SUBSET Callers, stopPromise: SUBSET Callers,
   restarts: SUBSET Callers,
   tail: Seq({"start", "stop"}), running: BOOLEAN]

(* "deaf": the client was connected and a message made it report an error: *)
(* it heeds neither pings nor inspections until it has connected again.    *)
Phases == {"connecting", "hello", "connected", "deaf", "waiting", "terminal"}
Clients == [bridge: Instances, phase: Phases]
NoClient == [bridge |-> None, phase |-> "terminal"]

HasStart(mm) == \E k \in DOMAIN mm.tail : mm.tail[k] = "start"
HasStop(mm) == \E k \in DOMAIN mm.tail : mm.tail[k] = "stop"

-----------------------------------------------------------------------------
(* BridgeManager.start and stop: who calls waits, or has his answer.       *)

StartCall(mm, o) ==
  IF HasStop(mm)
  THEN [mm EXCEPT !.restarts = @ \cup {o}]
  ELSE IF mm.state = "running"
  THEN mm
  ELSE IF HasStart(mm)
  THEN [mm EXCEPT !.startPromise = @ \cup {o}]
  ELSE [mm EXCEPT !.startPromise = {o}, !.tail = Append(@, "start")]

StopCall(mm, o) ==
  IF HasStop(mm)
  THEN [mm EXCEPT !.stopPromise = @ \cup {o}]
  ELSE IF ~HasStart(mm) /\ mm.state = "stopped"
  THEN mm
  ELSE [mm EXCEPT !.stopPromise = {o}, !.tail = Append(@, "stop")]

Waits(mm, o) == o \in mm.startPromise \cup mm.stopPromise \cup mm.restarts

(* Operation o makes a call and goes on when it is settled.                *)
Calls(o, mm, at) ==
  /\ m' = mm
  /\ ops' = [ops EXCEPT ![o].at = at,
                        ![o].result = IF Waits(mm, o) THEN "waiting" ELSE "resolved"]

(* A promise of the manager is settled.                                    *)
Settled(os, waiting, result) ==
  [o \in DOMAIN os |-> IF o \in waiting THEN [os[o] EXCEPT !.result = result] ELSE os[o]]

-----------------------------------------------------------------------------
(* The controller.                                                         *)

Queue(kind) == ops' = Append(ops, Asked(kind))

Start ==
  /\ Len(ops) < MaxRequests /\ ~disposed
  /\ Queue("start")
  /\ UNCHANGED <<disposed, m, client, servers>>

Stop ==
  /\ Len(ops) < MaxRequests /\ ~disposed
  /\ Queue("stop")
  /\ UNCHANGED <<disposed, m, client, servers>>

Dispose ==
  /\ Len(ops) < MaxRequests /\ ~disposed
  /\ disposed' = TRUE
  /\ Queue("stop")
  /\ UNCHANGED <<m, client, servers>>

(* Mutant: an operation does not wait for those called before it.          *)
FirstAtOnce(o) == ops[o].at = "queued"

(* Mutant: an operation that fails stops the queue.                        *)
FirstUnlessFailed(o) ==
  /\ ops[o].at = "queued"
  /\ \A k \in 1 .. (o - 1) : ops[k].at = "done" /\ ops[k].result # "rejected"

(* enqueue: an operation begins when those called before it are done.      *)
First(o) ==
  /\ ops[o].at = "queued"
  /\ \A k \in 1 .. (o - 1) : ops[k].at = "done"

Done(o, result) == ops' = [ops EXCEPT ![o].at = "done", ![o].result = result]

(* Mutant: a start after a failed one finds the manager in use.            *)
StartNowUnlessError(o) ==
  /\ ops[o].kind = "start" /\ First(o)
  /\ \/ /\ disposed \/ client # NoClient \/ m.state # "stopped"
        /\ Done(o, "resolved") /\ UNCHANGED m
     \/ /\ ~disposed /\ client = NoClient /\ m.state = "stopped"
        /\ Calls(o, StartCall(m, o), "starting")
  /\ UNCHANGED <<disposed, client, servers>>

StartNow(o) ==
  /\ ops[o].kind = "start" /\ First(o)
  /\ \/ /\ disposed \/ client # NoClient
        /\ Done(o, "resolved") /\ UNCHANGED m
     \/ /\ ~disposed /\ client = NoClient
        /\ Calls(o, StartCall(m, o), "starting")
  /\ UNCHANGED <<disposed, client, servers>>

(* Mutant: the bridge is stopped under a client that goes on.              *)
StopNowKeepsClient(o) ==
  /\ ops[o].kind = "stop" /\ First(o)
  /\ \/ m.state = "stopped" /\ Done(o, "resolved") /\ UNCHANGED m
     \/ m.state # "stopped" /\ Calls(o, StopCall(m, o), "stopping")
  /\ UNCHANGED <<disposed, client, servers>>

StopNow(o) ==
  /\ ops[o].kind = "stop" /\ First(o)
  /\ client' = NoClient
  /\ \/ m.state = "stopped" /\ Done(o, "resolved") /\ UNCHANGED m
     \/ m.state # "stopped" /\ Calls(o, StopCall(m, o), "stopping")
  /\ UNCHANGED <<disposed, servers>>

(* The manager has started: the client is created, unless there are no     *)
(* credentials or it cannot be; then the start is undone and rejects.  If  *)
(* the controller was disposed of meanwhile, the bridge is just stopped.   *)
Started(o) ==
  /\ ops[o].at = "starting" /\ ops[o].result = "resolved"
  /\ \/ /\ ~disposed /\ m.state = "running"
        /\ client' = [bridge |-> m.bridge, phase |-> "connecting"]
        /\ Done(o, "resolved") /\ UNCHANGED m
     \/ /\ Calls(o, StopCall(m, o), IF disposed THEN "stopping" ELSE "undoing")
        /\ UNCHANGED client
  /\ UNCHANGED <<disposed, servers>>

Ends(o) ==
  /\ ops[o].result # "waiting"
  /\ ops[o].at \in {"undoing", "stopping"} \/ ops[o].result = "rejected"
  /\ ops[o].at # "done"
  /\ Done(o, IF ops[o].at = "undoing" THEN "rejected" ELSE ops[o].result)
  /\ UNCHANGED <<disposed, m, client, servers>>

-----------------------------------------------------------------------------
(* The manager's operations, one at a time.                                *)

(* A queued start never finds the bridge running, nor a stop a stopped one. *)
StartBridge ==
  /\ m.tail # <<>> /\ Head(m.tail) = "start" /\ ~m.running /\ m.state # "running"
  /\ m' = [m EXCEPT !.running = TRUE, !.state = "starting", !.port = 0, !.last = @ + 1]
  /\ UNCHANGED <<ops, disposed, client, servers>>

StopBridge ==
  /\ m.tail # <<>> /\ Head(m.tail) = "stop" /\ ~m.running /\ m.state # "stopped"
  /\ m' = [m EXCEPT !.running = TRUE, !.state = "stopping"]
  /\ UNCHANGED <<ops, disposed, client, servers>>

StartEnds(state, bridge, result) ==
  /\ m' = [m EXCEPT !.state = state, !.bridge = bridge, !.startPromise = {},
                    !.tail = Tail(@), !.running = FALSE]
  /\ ops' = Settled(ops, m.startPromise, result)

Binding == m.running /\ m.state = "starting"

(* The bridge listens on the port.  The IDE's token is issued at once.     *)
PortBound ==
  /\ Binding
  /\ StartEnds("running", m.last, "resolved")
  /\ listening' = listening \cup {m.last}
  /\ honoured' = honoured \cup {m.last}
  /\ UNCHANGED <<disposed, client, expired>>

(* startOnAvailablePort: a port in use leads to the next one.              *)
PortInUse ==
  /\ Binding
  /\ \/ /\ m.port + 1 < Ports
        /\ m' = [m EXCEPT !.port = @ + 1] /\ UNCHANGED ops
     \/ /\ m.port + 1 = Ports
        /\ StartEnds("error", None, "rejected")
  /\ UNCHANGED <<disposed, client, servers>>

StartFails ==
  /\ Binding
  /\ StartEnds("error", None, "rejected")
  /\ UNCHANGED <<disposed, client, servers>>

(* Nothing is queued behind a stop; the starts that wait for it begin.     *)
StopEnds(result) ==
  /\ m' = [m EXCEPT !.state = "stopped", !.bridge = None, !.stopPromise = {},
                    !.startPromise = m.restarts, !.restarts = {},
                    !.tail = IF m.restarts = {} THEN <<>> ELSE <<"start">>,
                    !.running = FALSE]
  /\ ops' = Settled(ops, m.stopPromise, result)

(* Mutant: a server that fails to close keeps its credentials.             *)
StoppedUnlessItFails ==
  /\ m.running /\ m.state = "stopping"
  /\ \/ /\ StopEnds("resolved") /\ listening' = listening \ {m.bridge}
        /\ honoured' = honoured \ {m.bridge}
     \/ m.bridge # None /\ StopEnds("rejected") /\ UNCHANGED <<listening, honoured>>
  /\ UNCHANGED <<disposed, client, expired>>

(* The server closed, or failed to: its credentials are revoked either way. *)
BridgeStopped ==
  /\ m.running /\ m.state = "stopping"
  /\ \/ StopEnds("resolved") /\ listening' = listening \ {m.bridge}
     \/ m.bridge # None /\ StopEnds("rejected") /\ UNCHANGED listening
  /\ honoured' = honoured \ {m.bridge}
  /\ UNCHANGED <<disposed, client, expired>>

-----------------------------------------------------------------------------
(* The IDE's client.                                                       *)

InPhase(phases) == client # NoClient /\ client.phase \in phases
GoTo(phase) ==
  /\ client' = [client EXCEPT !.phase = phase]
  /\ UNCHANGED <<ops, disposed, m, servers>>

SocketOpens ==
  InPhase({"connecting"}) /\ client.bridge \in listening /\ GoTo("hello")

Authenticated ==
  /\ InPhase({"hello"}) /\ client.bridge \in honoured \ expired
  /\ GoTo("connected")

(* auth.tokenRejected: the client gives up for good.                       *)
TokenRejected ==
  /\ InPhase({"hello"}) /\ client.bridge \notin honoured \ expired
  /\ GoTo("terminal")

(* Mutant: a client that lost its socket waits to be connected again.      *)
SocketClosesForGood ==
  InPhase({"connecting", "hello", "connected"}) /\ GoTo("terminal")

(* The socket is lost, or cannot be opened.                                *)
SocketCloses ==
  InPhase({"connecting", "hello", "connected"}) /\ GoTo("waiting")

(* Before the bridge has authenticated the client, this changes nothing.    *)
InvalidMessage == InPhase({"connected"}) /\ GoTo("deaf")

(* The bridge lets a client go that does not answer its pings.             *)
BridgeLetsGo == InPhase({"deaf"}) /\ GoTo("waiting")

ReconnectTimer == InPhase({"waiting"}) /\ GoTo("connecting")

TokenExpires ==
  /\ m.state = "running" /\ m.bridge \notin expired
  /\ expired' = expired \cup {m.bridge}
  /\ UNCHANGED <<ops, disposed, m, client, listening, honoured>>

-----------------------------------------------------------------------------
Init ==
  /\ ops = <<>> /\ disposed = FALSE
  /\ m = [state |-> "stopped", bridge |-> None, last |-> None, port |-> 0,
          startPromise |-> {}, stopPromise |-> {}, restarts |-> {},
          tail |-> <<>>, running |-> FALSE]
  /\ client = NoClient
  /\ listening = {} /\ honoured = {} /\ expired = {}

(* What a settled promise, or a call just made, sets going.                *)
Resume ==
  \/ StartBridge \/ StopBridge
  \/ \E o \in DOMAIN ops : StartNow(o) \/ StopNow(o) \/ Started(o) \/ Ends(o)

Resumable ==
  \/ m.tail # <<>> /\ ~m.running
  \/ \E o \in DOMAIN ops :
       \/ First(o)
       \/ ops[o].at \notin {"queued", "done"} /\ ops[o].result # "waiting"

ServerStep == PortBound \/ PortInUse \/ StartFails \/ BridgeStopped
Trouble == SocketCloses \/ InvalidMessage
ClientStep ==
  SocketOpens \/ Authenticated \/ TokenRejected \/ BridgeLetsGo \/ ReconnectTimer

Next ==
  \/ Resume
  \/ /\ ~Resumable
     /\ \/ Start \/ Stop \/ Dispose
        \/ ServerStep \/ ClientStep \/ Trouble \/ TokenExpires

(* Microtasks run; servers answer; timers fire, sockets open and bridges   *)
(* let go.  Neither the user nor trouble is fair.                          *)
Fairness ==
  /\ WF_vars(Resume)
  /\ WF_vars(~Resumable /\ ServerStep)
  /\ WF_vars(~Resumable /\ ClientStep)

Spec == Init /\ [][Next]_vars /\ Fairness

-----------------------------------------------------------------------------
TypeOK ==
  /\ ops \in Seq(Operations) /\ Len(ops) <= MaxRequests
  /\ disposed \in BOOLEAN
  /\ m \in Managers
  /\ client \in Clients \cup {NoClient}
  /\ listening \subseteq Instances
  /\ honoured \subseteq Instances
  /\ expired \subseteq Instances

(* The IDE's client never outlives its bridge, and never meets the next    *)
(* one with the credentials of the last: no token is honoured but that of  *)
(* the bridge the manager owns, even when the server of an earlier one     *)
(* failed to close and listens still.                                      *)
CredentialsMatchBridge ==
  /\ client # NoClient => m.state = "running" /\ client.bridge = m.bridge
  /\ honoured = {m.bridge} \ {None}

AllDone == \A o \in DOMAIN ops : ops[o].at = "done"

(* However start, stop and dispose are pressed, the last one decides: when *)
(* nothing is under way any more, no bridge runs after a stop, and after a *)
(* start one runs with its client, unless the caller of that start was     *)
(* told that it failed, and then none is left behind.  (The manager alone  *)
(* does not promise it: a stop that is called while a start waits for an   *)
(* earlier stop joins that one, and the start leaves the bridge running.)  *)
LastRequestDecides ==
  AllDone /\ ops # <<>> =>
    LET last == ops[Len(ops)]
    IN  IF last.kind = "start" /\ last.result # "rejected"
        THEN m.state = "running" /\ client # NoClient
        ELSE /\ client = NoClient
             /\ m.state = "stopped" \/ (last.kind = "start" /\ m.state = "error")

(* Every request completes: no call waits for another for ever.            *)
RequestsComplete == []<>(AllDone)

(* While it runs, a bridge has its IDE: the client connects again after    *)
(* every trouble, as long as its token lives.                              *)
RunningBridgeReachesIde ==
  (<>[][~Trouble]_vars) =>
    []<>(client = NoClient \/ client.phase = "connected" \/ client.bridge \in expired)
=============================================================================
