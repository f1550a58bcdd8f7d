---------------------------- MODULE PanelProofs ----------------------------
(***************************************************************************)
(* Proofs about Panel: that the reconcile loop of the inspect mode ends    *)
(* with the controller, the checkbox and the page in agreement, and that   *)
(* every way through the panel ends with a render.                         *)
(*                                                                         *)
(* PanelInv has three parts that are properties of their own.  LocalFits   *)
(* is about the two controllers, the operations under way and the view:    *)
(* what is shown may be old only while somebody waits who will render.     *)
(* ChannelFits is about the request of the loop on its way to the          *)
(* background and back: there is at most one, and the page is owned only   *)
(* by a panel that still knows of it.  PortFits says that a panel without  *)
(* a port has nothing on its way, and believes nothing of the page.        *)
(***************************************************************************)
EXTENDS Panel, SequenceTheorems, TLAPS

-----------------------------------------------------------------------------
(* The inbox: what is on its way to the panel.                             *)

Waits(s, m) == \E k \in 1 .. Len(s) : s[k] = m
Answers == {"granted", "denied"}
NoAnswer(s) == ~Waits(s, "granted") /\ ~Waits(s, "denied")
OneAnswer(s) ==
  \A k, m \in 1 .. Len(s) : s[k] \in Answers /\ s[m] \in Answers => k = m

(* The page's document went away, and no grant follows the notice.         *)
Uncovered(s) ==
  \E k \in 1 .. Len(s) :
    s[k] = "invalidated" /\ \A m \in 1 .. Len(s) : m > k => s[m] # "granted"

LEMMA NothingWaits ==
  /\ NoAnswer(<<>>) /\ OneAnswer(<<>>) /\ ~Uncovered(<<>>)
  BY DEF NoAnswer, OneAnswer, Uncovered, Waits

LEMMA AppendFacts ==
  ASSUME NEW s \in Seq(Messages), NEW x \in Messages
  PROVE  /\ Append(s, x) \in Seq(Messages)
         /\ Waits(Append(s, x), x)
         /\ \A m : Waits(Append(s, x), m) => m = x \/ Waits(s, m)
         /\ OneAnswer(s) /\ (x \in Answers => NoAnswer(s)) => OneAnswer(Append(s, x))
         /\ Uncovered(Append(s, x)) =>
              x = "invalidated" \/ (x # "granted" /\ Uncovered(s))
<1> DEFINE t == Append(s, x)  n == Len(s)
<1>1. t \in Seq(Messages) /\ Len(t) = n + 1 /\ n \in Nat
      /\ (\A k \in 1 .. n : t[k] = s[k]) /\ t[n + 1] = x
  BY AppendProperties, LenProperties
<1>2. \A k \in 1 .. (n + 1) : k \in 1 .. n \/ k = n + 1
  BY <1>1
<1>3. n + 1 \in 1 .. (n + 1) /\ \A k \in 1 .. n : k \in 1 .. (n + 1) /\ k < n + 1
  BY <1>1
<1> HIDE DEF t, n
<1>4. Waits(t, x)
  BY <1>1, <1>3 DEF Waits
<1>5. \A m : Waits(t, m) => m = x \/ Waits(s, m)
  BY <1>1, <1>2 DEF Waits, n
<1>6. OneAnswer(s) /\ (x \in Answers => NoAnswer(s)) => OneAnswer(t)
  BY <1>1, <1>2 DEF OneAnswer, NoAnswer, Waits, Answers, n
<1>7. Uncovered(t) => x = "invalidated" \/ (x # "granted" /\ Uncovered(s))
  BY <1>1, <1>2, <1>3 DEF Uncovered, n
<1>8. QED
  BY <1>1, <1>4, <1>5, <1>6, <1>7 DEF t

LEMMA TailFacts ==
  ASSUME NEW s \in Seq(Messages), s # <<>>
  PROVE  /\ Tail(s) \in Seq(Messages)
         /\ Head(s) \in Messages /\ Waits(s, Head(s))
         /\ \A m : Waits(Tail(s), m) => Waits(s, m)
         /\ OneAnswer(s) => OneAnswer(Tail(s))
         /\ OneAnswer(s) /\ Head(s) \in Answers => NoAnswer(Tail(s))
         /\ Uncovered(Tail(s)) => Uncovered(s)
         /\ Head(s) = "invalidated" /\ ~Waits(s, "granted") => Uncovered(s)
<1> DEFINE t == Tail(s)  n == Len(s)  h == Head(s)
<1>1. t \in Seq(Messages) /\ n \in Nat /\ n > 0 /\ Len(t) = n - 1
      /\ (\A k \in 1 .. (n - 1) : t[k] = s[k + 1]) /\ h = s[1] /\ h \in Messages
  BY HeadTailProperties, EmptySeq, LenProperties, ElementOfSeq
<1>2. 1 \in 1 .. n /\ (\A k \in 1 .. (n - 1) : k + 1 \in 1 .. n /\ k + 1 # 1)
      /\ \A k \in 1 .. n : k = 1 \/ (k - 1 \in 1 .. (n - 1) /\ k = (k - 1) + 1)
  BY <1>1
<1>3. \A k, m \in 1 .. (n - 1) : k + 1 = m + 1 => k = m
  BY <1>1
<1>4. \A k \in 1 .. (n - 1), m \in 1 .. n : m > k + 1 => m - 1 \in 1 .. (n - 1) /\ m - 1 > k /\ (m - 1) + 1 = m
  BY <1>1
<1> HIDE DEF t, n, h
<1>5. Waits(s, h)
  BY <1>1, <1>2 DEF Waits, n
<1>6. \A m : Waits(t, m) => Waits(s, m)
  BY <1>1, <1>2 DEF Waits, n
<1>7. OneAnswer(s) => OneAnswer(t)
  BY <1>1, <1>2, <1>3 DEF OneAnswer, n
<1>8. OneAnswer(s) /\ h \in Answers => NoAnswer(t)
  BY <1>1, <1>2 DEF OneAnswer, NoAnswer, Waits, Answers, n
<1>9. Uncovered(t) => Uncovered(s)
  <2> SUFFICES ASSUME NEW k \in 1 .. (n - 1), t[k] = "invalidated",
                      \A m \in 1 .. (n - 1) : m > k => t[m] # "granted"
               PROVE  Uncovered(s)
    BY <1>1 DEF Uncovered
  <2>1. \A m \in 1 .. n : m > k + 1 => s[m] # "granted"
    <3> TAKE m \in 1 .. n
    <3> HAVE m > k + 1
    <3>1. m - 1 \in 1 .. (n - 1) /\ m - 1 > k /\ (m - 1) + 1 = m
      BY <1>4
    <3>2. t[m - 1] # "granted" /\ t[m - 1] = s[(m - 1) + 1]
      BY <1>1, <3>1
    <3>3. QED
      BY <3>1, <3>2
  <2>2. QED
    BY <1>1, <1>2, <2>1 DEF Uncovered, n
<1>10. h = "invalidated" /\ ~Waits(s, "granted") => Uncovered(s)
  BY <1>1, <1>2 DEF Uncovered, Waits, n
<1>11. QED
  BY <1>1, <1>5, <1>6, <1>7, <1>8, <1>9, <1>10 DEF t, h

-----------------------------------------------------------------------------
(* The inductive invariant                                                 *)

(* A command has been sent for the operation; its outcome is not known.    *)
Sent(o) == o.stage \in {"command", "ok", "refused", "failed"}

OperationsFit(q, os) ==
  /\ \A o \in os : o.generation <= q.generation
  /\ \A o1, o2 \in os : o1.generation = o2.generation => o1 = o2
  /\ \A o \in os : o.kind = "paste" <=> o.stage = "clipboard"

BusyFits(q, os) == q.busy <=> \E o \in os : Current(q, o) /\ Sent(o)

(* Somebody awaits the loop, and renders when it ends.                     *)
WillRender(q, j, os) == j.waiting \/ \E o \in Disabling(os) : Current(q, o)

LoopFits(j) ==
  IF j.loop = "idle"
  THEN j.desired = j.remote /\ ~j.disablePending /\ ~j.inFlight
  ELSE j.desired => j.waiting

ViewFits(q, j, os, v) ==
  j.loop = "idle" \/ ~WillRender(q, j, os) => v = Rendered(q, j)

LocalType(q, j, os, v) ==
  q \in Panels /\ j \in Inspects /\ os \subseteq Operations /\ v \in Views

ControllerFits(q, os) ==
  /\ OperationsFit(q, os)
  /\ q.state = "connected" => q.intent
  /\ q.open => BusyFits(q, os)

LocalFits(q, j, os, v) ==
  /\ LocalType(q, j, os, v)
  /\ ControllerFits(q, os)
  /\ LoopFits(j)
  /\ q.open => ViewFits(q, j, os, v)

(* What the loop needs when it goes round, or is asked to.                 *)
Ready(q, j, os, v) ==
  /\ LocalType(q, j, os, v)
  /\ ControllerFits(q, os)
  /\ j.desired => j.waiting
  /\ q.open /\ ~WillRender(q, j, os) => v = Rendered(q, j)

ChannelFits(loop, desired, r, a, s, o) ==
  /\ r # "none" => r = loop /\ a = "none" /\ NoAnswer(s)
  /\ a # "none" => loop # "idle" /\ NoAnswer(s)
  /\ OneAnswer(s) /\ (~NoAnswer(s) => loop # "idle")
  /\ loop = "idle" /\ ~desired => ~o
  /\ loop = "disable" /\ r = "none" => ~o
  /\ a = "denied" \/ Waits(s, "denied") => ~o
  /\ o /\ Uncovered(s) => a = "granted"

PortFits ==
  /\ recovery => ~port
  /\ ~port =>
       /\ i.loop = "idle" /\ ~i.desired /\ (p.open => p.state # "connected")
       /\ request = "none" /\ answer = "none" /\ inbox = <<>> /\ ~owns

PanelInv ==
  /\ TypeOK
  /\ LocalFits(p, i, ops, view)
  /\ ChannelFits(i.loop, i.desired, request, answer, inbox, owns)
  /\ PortFits

-----------------------------------------------------------------------------
(* The controllers and the view                                            *)

(* What is shown of the inspect controller is what the checkbox says.      *)
LEMMA RenderedSame ==
  ASSUME NEW q, NEW j, NEW k, j.desired = k.desired
  PROVE  Rendered(q, j) = Rendered(q, k)
  BY DEF Rendered

LEMMA RenderedType ==
  ASSUME NEW q \in Panels, NEW j \in Inspects
  PROVE  Rendered(q, j) \in Views
  BY DEF Rendered, Panels, Inspects, Views

LEMMA OffFields ==
  ASSUME NEW j \in Inspects
  PROVE  /\ Off(j) \in Inspects
         /\ ~Off(j).desired /\ ~Off(j).remote /\ ~Off(j).disablePending
         /\ Off(j).loop = j.loop /\ Off(j).waiting = j.waiting
         /\ Off(j).inFlight = j.inFlight
  BY DEF Off, Inspects

LEMMA DisabledFields ==
  ASSUME NEW j \in Inspects
  PROVE  /\ Disabled(j) \in Inspects
         /\ ~Disabled(j).desired /\ Disabled(j).remote = j.remote
         /\ Disabled(j).loop = j.loop /\ Disabled(j).waiting = j.waiting
         /\ Disabled(j).disablePending = (j.remote \/ j.inFlight \/ j.disablePending)
  BY DEF Disabled, Inspects

LEMMA NoInspectFields ==
  /\ NoInspect \in Inspects /\ LoopFits(NoInspect)
  /\ NoInspect.loop = "idle" /\ ~NoInspect.desired
  BY DEF NoInspect, Inspects, LoopFits

LEMMA StepFields ==
  ASSUME NEW j \in Inspects
  PROVE  /\ LoopStep(j) \in {"idle", "enable", "disable"}
         /\ LoopStep(j) = "idle" => j.desired = j.remote /\ ~j.disablePending
         /\ ~j.desired /\ ~j.remote /\ ~j.disablePending => LoopStep(j) = "idle"
         /\ ~j.desired => LoopStep(j) # "enable"
  BY DEF LoopStep, Inspects

(* An operation that awaited the loop and is current goes on: it is the    *)
(* only current one.                                                       *)
LEMMA ResumedFits ==
  ASSUME NEW q \in Panels, NEW os \in SUBSET Operations, ControllerFits(q, os)
  PROVE  /\ Resumed(q, os) \in Panels
         /\ ResumedOperations(q, os) \subseteq Operations
         /\ ControllerFits(Resumed(q, os), ResumedOperations(q, os))
         /\ Resumed(q, os).open = q.open
         /\ q.state # "connected" => Resumed(q, os).state # "connected"
         /\ (~\E o \in Disabling(os) : Current(q, o)) => Resumed(q, os) = q
<1> DEFINE r == Resumed(q, os)
           rs == ResumedOperations(q, os)
           L == Resumes(q, os, "link")
           C == Resumes(q, os, "change")
           U == Resumes(q, os, "unlink")
<1>1. L \in BOOLEAN /\ C \in BOOLEAN /\ U \in BOOLEAN
  BY DEF Resumes
<1>2. r = [q EXCEPT !.changing = (q.changing /\ ~L) \/ C,
                    !.intent = q.intent \/ L,
                    !.state = IF L THEN "offline" ELSE q.state,
                    !.busy = q.busy \/ L \/ U]
  BY DEF Resumed
<1> HIDE DEF L, C, U, r
<1>3. /\ r \in Panels /\ r.open = q.open /\ r.generation = q.generation
      /\ r.changing = ((q.changing /\ ~L) \/ C) /\ r.intent = (q.intent \/ L)
      /\ r.state = (IF L THEN "offline" ELSE q.state)
      /\ r.busy = (q.busy \/ L \/ U)
  BY <1>1, <1>2 DEF Panels, States
<1>4. \A o : Current(r, o) <=> Current(q, o)
  BY <1>3 DEF Current
<1>5. ASSUME NEW o \in Operations
      PROVE  /\ [o EXCEPT !.stage = "command"] \in Operations
             /\ [o EXCEPT !.stage = "command"].generation = o.generation
             /\ [o EXCEPT !.stage = "command"].kind = o.kind
             /\ [o EXCEPT !.stage = "command"].stage = "command"
  BY DEF Operations, Stages
<1>6. \A x \in rs : \/ x \in os /\ x.stage # "disabling"
                    \/ \E o \in os : /\ o.stage = "disabling" /\ Current(q, o)
                                     /\ o.kind # "change"
                                     /\ x = [o EXCEPT !.stage = "command"]
  BY DEF ResumedOperations, Disabling
<1>7. /\ \A o \in os : o.stage # "disabling" => o \in rs
      /\ \A o \in os : o.stage = "disabling" /\ Current(q, o) /\ o.kind # "change"
                         => [o EXCEPT !.stage = "command"] \in rs
  BY DEF ResumedOperations, Disabling
<1> HIDE DEF rs
<1>8. rs \subseteq Operations
  BY <1>5, <1>6
<1>9. \A x \in rs : \E o \in os :
        /\ x.generation = o.generation /\ x.kind = o.kind
        /\ \/ x = o /\ o.stage # "disabling"
           \/ /\ o.stage = "disabling" /\ Current(q, o) /\ o.kind # "change"
              /\ x.stage = "command" /\ x = [o EXCEPT !.stage = "command"]
  <2> TAKE x \in rs
  <2>1. CASE x \in os /\ x.stage # "disabling"
    BY <2>1
  <2>2. ASSUME NEW o \in os, o.stage = "disabling", Current(q, o), o.kind # "change",
               x = [o EXCEPT !.stage = "command"]
        PROVE  /\ x.generation = o.generation /\ x.kind = o.kind
               /\ o.stage = "disabling" /\ Current(q, o) /\ o.kind # "change"
               /\ x.stage = "command" /\ x = [o EXCEPT !.stage = "command"]
    <3>1. o \in Operations
      OBVIOUS
    <3>2. QED
      BY <2>2, <3>1, <1>5
  <2>3. QED
    BY <1>6, <2>1, <2>2
<1>10. OperationsFit(r, rs)
  <2>1. \A o \in rs : o.generation <= r.generation
    BY <1>3, <1>9 DEF ControllerFits, OperationsFit
  <2>2. \A o1, o2 \in rs : o1.generation = o2.generation => o1 = o2
    BY <1>9 DEF ControllerFits, OperationsFit
  <2>3. \A o \in rs : o.kind = "paste" <=> o.stage = "clipboard"
    BY <1>9 DEF ControllerFits, OperationsFit
  <2>4. QED
    BY <2>1, <2>2, <2>3 DEF OperationsFit
<1>11. r.state = "connected" => r.intent
  BY <1>3 DEF ControllerFits
<1>12. r.open => BusyFits(r, rs)
  <2> SUFFICES ASSUME q.open PROVE BusyFits(r, rs)
    BY <1>3
  <2>1. q.busy <=> \E o \in os : Current(q, o) /\ Sent(o)
    BY DEF ControllerFits, BusyFits
  <2>2. L <=> \E o \in os : o.stage = "disabling" /\ o.kind = "link" /\ Current(q, o)
    BY DEF L, Resumes, Disabling
  <2>3. U <=> \E o \in os : o.stage = "disabling" /\ o.kind = "unlink" /\ Current(q, o)
    BY DEF U, Resumes, Disabling
  <2>4. ASSUME r.busy PROVE \E x \in rs : Current(r, x) /\ Sent(x)
    <3>1. ASSUME NEW o \in os, Current(q, o), Sent(o) PROVE o \in rs /\ Current(r, o)
      BY <3>1, <1>4, <1>7 DEF Sent
    <3>2. ASSUME NEW o \in os, o.stage = "disabling", Current(q, o), o.kind # "change"
          PROVE \E x \in rs : Current(r, x) /\ Sent(x)
      <4>1. [o EXCEPT !.stage = "command"] \in rs
        BY <3>2, <1>7
      <4>2. Current(r, [o EXCEPT !.stage = "command"]) /\ Sent([o EXCEPT !.stage = "command"])
        BY <3>2, <1>3, <1>5 DEF Current, Sent
      <4>3. QED
        BY <4>1, <4>2
    <3>3. QED
      BY <2>1, <2>2, <2>3, <2>4, <3>1, <3>2, <1>3
  <2>5. ASSUME NEW x \in rs, Current(r, x), Sent(x) PROVE r.busy
    <3>1. PICK o \in os :
            /\ x.generation = o.generation /\ x.kind = o.kind
            /\ \/ x = o /\ o.stage # "disabling"
               \/ /\ o.stage = "disabling" /\ Current(q, o) /\ o.kind # "change"
                  /\ x.stage = "command" /\ x = [o EXCEPT !.stage = "command"]
      BY <1>9
    <3>2. CASE x = o
      BY <3>2, <2>5, <1>3, <1>4, <2>1
    <3>3. CASE o.stage = "disabling" /\ Current(q, o) /\ o.kind # "change"
      <4>1. o.kind \in {"link", "unlink"}
        BY <3>3 DEF Operations, ControllerFits, OperationsFit
      <4>2. QED
        BY <3>3, <4>1, <2>2, <2>3, <1>3
    <3>4. QED
      BY <3>1, <3>2, <3>3
  <2>6. QED
    BY <2>4, <2>5 DEF BusyFits
<1>13. ASSUME ~\E o \in Disabling(os) : Current(q, o) PROVE r = q
  <2>1. ~L /\ ~C /\ ~U
    BY <1>13 DEF L, C, U, Resumes
  <2>2. QED
    BY <1>2, <2>1 DEF Panels
<1>14. QED
  BY <1>3, <1>8, <1>10, <1>11, <1>12, <1>13 DEF r, rs, ControllerFits

(* The loop is done: whoever awaited it goes on, and what is shown is      *)
(* right again.                                                            *)
LEMMA SettlesFits ==
  ASSUME NEW q, NEW j, NEW os, NEW v, Ready(q, j, os, v),
         j.desired = j.remote, ~j.disablePending, Settles(q, j, os, v)
  PROVE  /\ LocalFits(p', i', ops', view')
         /\ i'.loop = "idle" /\ i'.desired = j.desired
         /\ p'.open = q.open
         /\ q.state # "connected" => p'.state # "connected"
         /\ request' = request
<1>1. LocalType(q, j, os, v) /\ ControllerFits(q, os)
  BY DEF Ready
<1>2. /\ i' \in Inspects /\ i'.loop = "idle" /\ ~i'.inFlight
      /\ i'.desired = j.desired /\ i'.remote = j.remote
      /\ i'.disablePending = j.disablePending
  BY <1>1 DEF Settles, LocalType, Inspects
<1>3. p' = Resumed(q, os) /\ ops' = ResumedOperations(q, os) /\ request' = request
  BY DEF Settles
<1>4. /\ p' \in Panels /\ ops' \subseteq Operations /\ ControllerFits(p', ops')
      /\ p'.open = q.open /\ (q.state # "connected" => p'.state # "connected")
      /\ (~\E o \in Disabling(os) : Current(q, o)) => p' = q
  BY <1>1, <1>3, ResumedFits DEF LocalType
<1>5. view' = IF WillRender(q, j, os) THEN Rendered(p', i') ELSE v
  BY DEF Settles, WillRender
<1>6. Rendered(p', i') \in Views
  BY <1>2, <1>4, RenderedType
<1>7. view' \in Views
  BY <1>1, <1>5, <1>6 DEF LocalType
<1>8. ASSUME q.open, ~WillRender(q, j, os) PROVE view' = Rendered(p', i')
  <2>1. p' = q
    BY <1>4, <1>8 DEF WillRender
  <2>2. Rendered(q, j) = Rendered(q, i')
    BY <1>2, RenderedSame
  <2>3. v = Rendered(q, j)
    BY <1>8 DEF Ready
  <2>4. QED
    BY <1>5, <1>8, <2>1, <2>2, <2>3
<1>9. p'.open => ViewFits(p', i', ops', view')
  BY <1>4, <1>5, <1>8 DEF ViewFits
<1>10. LoopFits(i')
  BY <1>2 DEF LoopFits
<1>11. QED
  BY <1>2, <1>3, <1>4, <1>7, <1>9, <1>10 DEF LocalFits, LocalType

(* The loop is done, or has sent its next request.                         *)
LEMMA LoopsFits ==
  ASSUME NEW q, NEW j, NEW os, NEW v, Ready(q, j, os, v), Loops(q, j, os, v)
  PROVE  /\ LocalFits(p', i', ops', view')
         /\ i'.desired = j.desired /\ p'.open = q.open
         /\ q.state # "connected" => p'.state # "connected"
         /\ \/ i'.loop = "idle" /\ request' = request /\ j.desired = j.remote
            \/ /\ i'.loop \in {"enable", "disable"} /\ request' = i'.loop
               /\ j.desired \/ j.remote \/ j.disablePending
<1>1. LocalType(q, j, os, v) /\ ControllerFits(q, os) /\ (j.desired => j.waiting)
  BY DEF Ready
<1>2. j \in Inspects
  BY <1>1 DEF LocalType
<1>3. CASE LoopStep(j) = "idle"
  <2>1. Settles(q, j, os, v) /\ j.desired = j.remote /\ ~j.disablePending
    BY <1>2, <1>3, StepFields DEF Loops
  <2>2. QED
    BY <2>1, SettlesFits
<1>4. CASE LoopStep(j) # "idle"
  <2>1. /\ i' = [j EXCEPT !.loop = LoopStep(j), !.inFlight = LoopStep(j) = "enable"]
        /\ request' = LoopStep(j) /\ p' = q /\ ops' = os /\ view' = v
    BY <1>4 DEF Loops
  <2>2. LoopStep(j) \in {"enable", "disable"}
    BY <1>2, <1>4, StepFields
  <2>3. j.desired \/ j.remote \/ j.disablePending
    BY <1>2, <1>4, StepFields
  <2>4. /\ i' \in Inspects /\ i'.loop = LoopStep(j) /\ i'.desired = j.desired
        /\ i'.waiting = j.waiting
    BY <1>2, <2>1, <2>2 DEF Inspects
  <2>5. LoopFits(i')
    BY <1>1, <2>2, <2>4 DEF LoopFits
  <2>6. Rendered(q, j) = Rendered(q, i')
    BY <2>4, RenderedSame
  <2>7. p'.open => ViewFits(p', i', ops', view')
    BY <2>1, <2>2, <2>4, <2>6 DEF ViewFits, Ready, WillRender
  <2>8. QED
    BY <1>1, <2>1, <2>2, <2>3, <2>4, <2>5, <2>7 DEF LocalFits, LocalType
<1>5. QED
  BY <1>3, <1>4

(* The same, or the loop's request is still out.                           *)
LEMMA ReconcileFits ==
  ASSUME NEW q, NEW j, NEW os, NEW v, Ready(q, j, os, v), Reconcile(q, j, os, v)
  PROVE  /\ LocalFits(p', i', ops', view')
         /\ i'.desired = j.desired /\ p'.open = q.open
         /\ q.state # "connected" => p'.state # "connected"
         /\ \/ j.loop # "idle" /\ i'.loop = j.loop /\ request' = request
            \/ /\ j.loop = "idle" /\ i'.loop = "idle" /\ request' = request
               /\ j.desired = j.remote
            \/ /\ j.loop = "idle"
               /\ i'.loop \in {"enable", "disable"} /\ request' = i'.loop
               /\ j.desired \/ j.remote \/ j.disablePending
<1>1. CASE j.loop = "idle"
  BY <1>1, LoopsFits DEF Reconcile
<1>2. CASE j.loop # "idle"
  <2>1. p' = q /\ i' = j /\ ops' = os /\ view' = v /\ request' = request
    BY <1>2 DEF Reconcile
  <2>2. LoopFits(j)
    BY <1>2 DEF LoopFits, Ready
  <2>3. q.open => ViewFits(q, j, os, v)
    BY <1>2 DEF ViewFits, Ready
  <2>4. QED
    BY <1>2, <2>1, <2>2, <2>3 DEF LocalFits, Ready
<1>3. QED
  BY <1>1, <1>2

(* A render makes good whatever was shown before.                          *)
LEMMA RenderFits ==
  ASSUME NEW q \in Panels, NEW j \in Inspects, NEW os \in SUBSET Operations,
         ControllerFits(q, os), LoopFits(j)
  PROVE  LocalFits(q, j, os, Rendered(q, j))
  BY RenderedType DEF LocalFits, LocalType, ViewFits

-----------------------------------------------------------------------------
(* Kinds of steps                                                          *)

(* t is what is left of the inbox s when its oldest message is taken, or s.*)
Shrinks(s, t) ==
  /\ t \in Seq(Messages) /\ (s = <<>> => t = <<>>)
  /\ \A m : Waits(t, m) => Waits(s, m)
  /\ OneAnswer(s) => OneAnswer(t)
  /\ Uncovered(t) => Uncovered(s)

LEMMA ShrinksSame ==
  ASSUME NEW s \in Seq(Messages)
  PROVE  Shrinks(s, s)
  BY DEF Shrinks

LEMMA ShrinksTail ==
  ASSUME NEW s \in Seq(Messages), s # <<>>
  PROVE  Shrinks(s, Tail(s))
  BY TailFacts DEF Shrinks

(* The controllers ask the loop to reconcile.                              *)
LEMMA AskStep ==
  ASSUME PanelInv, NEW q, NEW j, NEW os, NEW v,
         Ready(q, j, os, v), Reconcile(q, j, os, v),
         j.loop = i.loop, j.remote = i.remote,
         ~port => ~j.desired /\ ~j.disablePending
                  /\ (q.open => p.open /\ q.state # "connected"),
         Shrinks(inbox, inbox'), UNCHANGED <<port, recovery, answer, owns, window>>
  PROVE  PanelInv'
<1>1. /\ LocalFits(p', i', ops', view')
      /\ i'.desired = j.desired /\ p'.open = q.open
      /\ q.state # "connected" => p'.state # "connected"
      /\ \/ i.loop # "idle" /\ i'.loop = i.loop /\ request' = request
         \/ /\ i.loop = "idle" /\ i'.loop = "idle" /\ request' = request
            /\ j.desired = j.remote
         \/ /\ i.loop = "idle"
            /\ i'.loop \in {"enable", "disable"} /\ request' = i'.loop
            /\ j.desired \/ j.remote \/ j.disablePending
  BY ReconcileFits
<1>2. /\ ChannelFits(i.loop, i.desired, request, answer, inbox, owns)
      /\ PortFits /\ TypeOK /\ LoopFits(i)
  BY DEF PanelInv, LocalFits
<1>3. i.loop = "idle" /\ i'.loop = "idle" /\ ~i'.desired => ~i.desired
  BY <1>1, <1>2 DEF LoopFits
<1>4. TypeOK'
  BY <1>1, <1>2 DEF TypeOK, LocalFits, LocalType, Shrinks
<1>5. ChannelFits(i'.loop, i'.desired, request', answer', inbox', owns')
  <2> DEFINE l == i.loop  m == i'.loop  d == i.desired  e == i'.desired
  <2>1. Shrinks(inbox, inbox') /\ answer' = answer /\ owns' = owns
    OBVIOUS
  <2>2. request \in {"none", "enable", "disable"} /\ answer \in {"none", "granted", "denied"}
    BY <1>2 DEF TypeOK
  <2> HIDE DEF l, m, d, e
  <2>3. ChannelFits(l, d, request, answer, inbox, owns)
        /\ (l = "idle" /\ m = "idle" /\ ~e => ~d)
        /\ \/ l # "idle" /\ m = l /\ request' = request
           \/ l = "idle" /\ m = "idle" /\ request' = request
           \/ l = "idle" /\ m \in {"enable", "disable"} /\ request' = m
    BY <1>1, <1>2, <1>3 DEF l, m, d, e
  <2>4. ChannelFits(m, e, request', answer', inbox', owns')
    BY <2>1, <2>2, <2>3 DEF ChannelFits, Shrinks, NoAnswer
  <2>5. QED
    BY <2>4 DEF m, e
<1>6. PortFits'
  <2> SUFFICES ASSUME ~port
               PROVE  /\ i'.loop = "idle" /\ ~i'.desired
                      /\ p'.open => p'.state # "connected"
                      /\ request' = "none" /\ inbox' = <<>>
    BY <1>2 DEF PortFits
  <2>1. /\ i.loop = "idle" /\ ~i.desired /\ ~i.remote
        /\ request = "none" /\ inbox = <<>>
    BY <1>2 DEF PortFits, LoopFits
  <2>2. i'.loop = "idle" /\ request' = request
    BY <1>1, <2>1
  <2>3. QED
    BY <1>1, <2>1, <2>2 DEF Shrinks
<1>7. QED
  BY <1>1, <1>4, <1>5, <1>6 DEF PanelInv

(* Something happens to the operations or is shown, and no more.           *)
LEMMA LocalStep ==
  ASSUME PanelInv, LocalFits(p', i', ops', view'), i' = i,
         p'.open => p.open, p.state # "connected" => p'.state # "connected",
         UNCHANGED channel
  PROVE  PanelInv'
<1>1. TypeOK' /\ PortFits'
  BY DEF PanelInv, TypeOK, PortFits, LocalFits, LocalType, channel
<1>2. ChannelFits(i'.loop, i'.desired, request', answer', inbox', owns')
  BY DEF PanelInv, channel
<1>3. QED
  BY <1>1, <1>2 DEF PanelInv

(* Something happens on the way to the background and back.                *)
LEMMA ChannelStep ==
  ASSUME PanelInv, UNCHANGED <<p, i, view>>, LocalFits(p', i', ops', view'),
         ChannelFits(i.loop, i.desired, request', answer', inbox', owns'),
         request' \in {"none", "enable", "disable"},
         answer' \in {"none", "granted", "denied"}, inbox' \in Seq(Messages),
         owns' \in BOOLEAN, port' \in BOOLEAN, recovery' \in BOOLEAN, window' \in States,
         ~port' => inbox' = <<>> /\ answer' = "none" /\ request' = "none" /\ ~owns',
         port => port', recovery' => recovery /\ port' = port
  PROVE  PanelInv'
<1>1. TypeOK'
  BY DEF PanelInv, TypeOK, LocalFits, LocalType
<1>2. PortFits'
  BY DEF PanelInv, PortFits, TypeOK
<1>3. QED
  BY <1>1, <1>2 DEF PanelInv

-----------------------------------------------------------------------------
(* The user's actions                                                      *)

LEMMA InvFacts ==
  ASSUME PanelInv
  PROVE  /\ p \in Panels /\ i \in Inspects /\ ops \in SUBSET Operations /\ view \in Views
         /\ inbox \in Seq(Messages) /\ window \in States /\ i.loop \in {"idle", "enable", "disable"}
         /\ ControllerFits(p, ops) /\ LoopFits(i)
         /\ p.open => ViewFits(p, i, ops, view)
  BY DEF PanelInv, LocalFits, LocalType, TypeOK, Inspects

LEMMA WaitingFields ==
  ASSUME NEW j \in Inspects
  PROVE  /\ [j EXCEPT !.waiting = TRUE] \in Inspects
         /\ [j EXCEPT !.waiting = TRUE].waiting
         /\ [j EXCEPT !.waiting = TRUE].loop = j.loop
         /\ [j EXCEPT !.waiting = TRUE].desired = j.desired
         /\ [j EXCEPT !.waiting = TRUE].remote = j.remote
         /\ [j EXCEPT !.waiting = TRUE].disablePending = j.disablePending
  BY DEF Inspects

LEMMA EnabledFields ==
  ASSUME NEW j \in Inspects
  PROVE  /\ [j EXCEPT !.desired = TRUE] \in Inspects
         /\ [j EXCEPT !.desired = TRUE].desired
         /\ [j EXCEPT !.desired = TRUE].loop = j.loop
         /\ [j EXCEPT !.desired = TRUE].remote = j.remote
  BY DEF Inspects

(* Without a port nothing is believed of the page, so there is nothing to  *)
(* disable.                                                                *)
LEMMA PortlessDisabled ==
  ASSUME PanelInv, ~port
  PROVE  ~Disabled(i).disablePending
  BY InvFacts, DisabledFields DEF PanelInv, PortFits, LoopFits

LEMMA SetInspectEnabledKeeps ==
  ASSUME PanelInv, SetInspectEnabled
  PROVE  PanelInv'
<1> DEFINE enabled == ~view.checked
           shown == [view EXCEPT !.checked = enabled]
           refused == enabled /\ (p.state # "connected" \/ p.busy \/ p.changing)
           j == IF enabled THEN [i EXCEPT !.desired = TRUE] ELSE Disabled(i)
           r == [j EXCEPT !.waiting = TRUE]
<1>1. p.open /\ UNCHANGED <<port, recovery, answer, inbox, owns, window>>
  BY DEF SetInspectEnabled
<1>2. \/ /\ refused /\ view' = Rendered(p, i)
         /\ UNCHANGED <<p, i, ops, request>>
      \/ ~refused /\ Reconcile(p, r, ops, shown)
  BY DEF SetInspectEnabled
<1>3. ASSUME UNCHANGED <<p, i, ops, request>>, view' = Rendered(p, i) PROVE PanelInv'
  <2>1. LocalFits(p', i', ops', view')
    BY <1>3, InvFacts, RenderFits
  <2>2. QED
    BY <1>1, <1>3, <2>1, LocalStep DEF channel
<1>4. ASSUME ~refused, Reconcile(p, r, ops, shown) PROVE PanelInv'
  <2>1. shown \in Views
    BY InvFacts DEF Views
  <2>2. j \in Inspects /\ j.loop = i.loop /\ j.remote = i.remote
        /\ (enabled \/ (~j.desired /\ j = Disabled(i)))
    BY InvFacts, DisabledFields, EnabledFields
  <2>3. ~port => ~enabled
    BY <1>1, <1>4 DEF PanelInv, PortFits
  <2> HIDE DEF shown, j, enabled, refused
  <2>4. r \in Inspects /\ r.loop = i.loop /\ r.remote = i.remote /\ r.waiting
        /\ r.desired = j.desired /\ r.disablePending = j.disablePending
    BY <2>2, WaitingFields
  <2> HIDE DEF r
  <2>5. Ready(p, r, ops, shown)
    BY <2>1, <2>4, InvFacts DEF Ready, LocalType, WillRender
  <2>6. ~port => ~r.desired /\ ~r.disablePending /\ (p.open => p.open /\ p.state # "connected")
    BY <1>1, <2>2, <2>3, <2>4, PortlessDisabled DEF PanelInv, PortFits
  <2>7. Shrinks(inbox, inbox')
    BY <1>1, InvFacts, ShrinksSame
  <2>8. QED
    BY <1>1, <1>4, <2>4, <2>5, <2>6, <2>7, AskStep
<1>5. QED
  BY <1>2, <1>3, <1>4

LEMMA LinkCodeChangedKeeps ==
  ASSUME PanelInv, LinkCodeChanged
  PROVE  PanelInv'
<1>1. LocalFits(p', i', ops', view')
  BY InvFacts, RenderFits DEF LinkCodeChanged
<1>2. QED
  BY <1>1, LocalStep DEF LinkCodeChanged

LEMMA NextGenerationFields ==
  ASSUME NEW q \in Panels
  PROVE  /\ NextGeneration(q) \in Panels
         /\ NextGeneration(q).generation = q.generation + 1
         /\ NextGeneration(q).open = q.open /\ NextGeneration(q).state = q.state
         /\ NextGeneration(q).busy = q.busy /\ NextGeneration(q).intent = q.intent
  BY DEF NextGeneration, Panels

LEMMA OperationFields ==
  ASSUME NEW q \in Panels, NEW kind \in {"paste", "link", "change", "unlink"},
         NEW stage \in Stages
  PROVE  /\ Operation(kind, stage, q) \in Operations
         /\ Operation(kind, stage, q).kind = kind
         /\ Operation(kind, stage, q).stage = stage
         /\ Operation(kind, stage, q).generation = q.generation
  BY DEF Operation, Operations, Panels

(* The latest operation supersedes all the others.                         *)
LEMMA NewOperationFits ==
  ASSUME NEW q \in Panels, NEW os \in SUBSET Operations, OperationsFit(q, os),
         NEW r \in Panels, r.generation = q.generation + 1, r.open = q.open, ~r.busy,
         r.state = "connected" => r.intent,
         NEW o \in Operations, o.generation = r.generation, ~Sent(o),
         o.kind = "paste" <=> o.stage = "clipboard"
  PROVE  ControllerFits(r, os \cup {o})
<1>1. \A x \in os : x.generation <= q.generation /\ x.generation \in Nat /\ q.generation \in Nat
  BY DEF OperationsFit, Operations, Panels
<1>2. \A x \in os : x.generation < r.generation /\ x.generation # r.generation /\ ~Current(r, x)
  BY <1>1 DEF Current
<1>3. OperationsFit(r, os \cup {o})
  BY <1>1, <1>2 DEF OperationsFit, Operations
<1>4. BusyFits(r, os \cup {o})
  BY <1>2 DEF BusyFits
<1>5. QED
  BY <1>3, <1>4 DEF ControllerFits

LEMMA FewerOperations ==
  ASSUME NEW q, NEW os, OperationsFit(q, os), NEW fewer \in SUBSET os
  PROVE  OperationsFit(q, fewer)
  BY DEF OperationsFit

(* An operation that waits for the inspect mode to go off is started; the  *)
(* one that was under way, if any, is not current any more.                *)
LEMMA StartOperationKeeps ==
  ASSUME PanelInv, NEW kind \in {"link", "change", "unlink"},
         NEW q \in Panels, ~q.busy, q.generation = p.generation, q.open = p.open,
         q.state = p.state, q.intent = p.intent, NEW os \in SUBSET ops,
         StartOperation(kind, q, os),
         UNCHANGED <<port, recovery, answer, inbox, owns, window>>
  PROVE  PanelInv'
<1> DEFINE r == NextGeneration(q)
           o == Operation(kind, "disabling", r)
           j == Disabled(i)
<1>1. Reconcile(r, j, os \cup {o}, view)
  BY DEF StartOperation
<1>2. /\ r \in Panels /\ r.generation = q.generation + 1 /\ r.open = q.open
      /\ ~r.busy /\ r.state = q.state /\ r.intent = q.intent
  BY NextGenerationFields
<1>3. o \in Operations /\ o.kind = kind /\ o.stage = "disabling" /\ o.generation = r.generation
  BY <1>2, OperationFields DEF Stages
<1>4. j \in Inspects /\ ~j.desired /\ j.remote = i.remote /\ j.loop = i.loop
  BY InvFacts, DisabledFields
<1>5. ~port => ~j.desired /\ ~j.disablePending /\ (r.open => p.open /\ r.state # "connected")
  BY <1>2, <1>4, PortlessDisabled DEF PanelInv, PortFits
<1> HIDE DEF r, o, j
<1>6. OperationsFit(q, os)
  <2>1. OperationsFit(p, os)
    BY InvFacts, FewerOperations DEF ControllerFits
  <2>2. QED
    BY <2>1 DEF OperationsFit
<1>7. ControllerFits(r, os \cup {o})
  <2>1. (r.state = "connected" => r.intent) /\ os \in SUBSET Operations
    BY <1>2, InvFacts DEF ControllerFits
  <2>2. ~Sent(o) /\ (o.kind = "paste" <=> o.stage = "clipboard")
    BY <1>3 DEF Sent
  <2>3. QED
    BY <1>2, <1>3, <1>6, <2>1, <2>2, NewOperationFits
<1>8. r.open => WillRender(r, j, os \cup {o})
  BY <1>3 DEF WillRender, Disabling, Current
<1>9. Ready(r, j, os \cup {o}, view)
  BY <1>2, <1>3, <1>4, <1>7, <1>8, InvFacts DEF Ready, LocalType
<1>10. Shrinks(inbox, inbox')
  BY InvFacts, ShrinksSame
<1>11. QED
  BY <1>1, <1>4, <1>5, <1>9, <1>10, AskStep

(* A code that does not parse is refused, and that is shown.               *)
LEMMA InvalidCodeKeeps ==
  ASSUME PanelInv, InvalidCode, UNCHANGED <<i, channel>>, ControllerFits(p, ops'),
         ops' \in SUBSET Operations
  PROVE  PanelInv'
<1>1. p' = [p EXCEPT !.state = "error"] /\ view' = Rendered(p', i)
  BY DEF InvalidCode
<1>2. /\ p' \in Panels /\ p'.open = p.open /\ p'.generation = p.generation
      /\ p'.busy = p.busy /\ p'.state = "error"
  BY <1>1, InvFacts DEF Panels, States
<1>3. ControllerFits(p', ops')
  BY <1>2 DEF ControllerFits, OperationsFit, BusyFits, Current
<1>4. LocalFits(p', i', ops', view')
  BY <1>1, <1>2, <1>3, InvFacts, RenderFits
<1>5. QED
  BY <1>2, <1>4, LocalStep

LEMMA LinkKeeps ==
  ASSUME PanelInv, NEW os \in SUBSET ops, Link(os), ControllerFits(p, os),
         UNCHANGED <<port, recovery, answer, inbox, owns, window>>
  PROVE  PanelInv'
<1>1. CASE StartOperation("link", p, os)
  BY <1>1, InvFacts, StartOperationKeeps DEF Link
<1>2. CASE InvalidCode /\ ops' = os /\ UNCHANGED <<i, request>>
  <2>1. ops' \in SUBSET Operations /\ UNCHANGED <<i, channel>> /\ ControllerFits(p, ops')
    BY <1>2, InvFacts DEF channel
  <2>2. QED
    BY <1>2, <2>1, InvalidCodeKeeps
<1>3. QED
  BY <1>1, <1>2 DEF Link

LEMMA PressLinkKeeps ==
  ASSUME PanelInv, PressLink
  PROVE  PanelInv'
  BY InvFacts, LinkKeeps DEF PressLink

LEMMA PasteAndLinkKeeps ==
  ASSUME PanelInv, PasteAndLink
  PROVE  PanelInv'
<1>1. /\ p' = NextGeneration(p) /\ ~p.busy /\ view' = Rendered(p', i)
      /\ ops' = ops \cup {Operation("paste", "clipboard", p')}
      /\ UNCHANGED <<i, channel>>
  BY DEF PasteAndLink
<1> DEFINE o == Operation("paste", "clipboard", p')
<1>2. /\ p' \in Panels /\ p'.generation = p.generation + 1 /\ p'.open = p.open
      /\ ~p'.busy /\ p'.state = p.state /\ p'.intent = p.intent
  BY <1>1, InvFacts, NextGenerationFields
<1>3. o \in Operations /\ o.kind = "paste" /\ o.stage = "clipboard" /\ o.generation = p'.generation
  BY <1>2, OperationFields DEF Stages
<1> HIDE DEF o
<1>4. ControllerFits(p', ops \cup {o})
  <2>1. OperationsFit(p, ops) /\ (p'.state = "connected" => p'.intent) /\ ~Sent(o)
    BY <1>2, <1>3, InvFacts DEF ControllerFits, Sent
  <2>2. QED
    BY <1>2, <1>3, <2>1, InvFacts, NewOperationFits
<1>5. ops' = ops \cup {o}
  BY <1>1 DEF o
<1>6. LocalFits(p', i', ops', view')
  BY <1>1, <1>2, <1>3, <1>4, <1>5, InvFacts, RenderFits
<1>7. QED
  BY <1>1, <1>2, <1>6, LocalStep

LEMMA ChangeIdeKeeps ==
  ASSUME PanelInv, ChangeIde
  PROVE  PanelInv'
<1> DEFINE q == [p EXCEPT !.busy = FALSE]
<1>1. /\ q \in Panels /\ ~q.busy /\ q.generation = p.generation /\ q.open = p.open
      /\ q.state = p.state /\ q.intent = p.intent
  BY InvFacts DEF Panels
<1>2. StartOperation("change", q, ops)
      /\ UNCHANGED <<port, recovery, answer, inbox, owns, window>>
  BY DEF ChangeIde
<1> HIDE DEF q
<1>3. QED
  BY <1>1, <1>2, StartOperationKeeps

LEMMA UnlinkKeeps ==
  ASSUME PanelInv, Unlink
  PROVE  PanelInv'
  BY InvFacts, StartOperationKeeps DEF Unlink

-----------------------------------------------------------------------------
(* What the operations wait for                                            *)

(* An operation that no render and no command waits for is dropped.        *)
LEMMA DroppedFits ==
  ASSUME PanelInv, NEW o \in ops, o.stage # "disabling", ~Current(p, o) \/ ~Sent(o)
  PROVE  /\ ControllerFits(p, ops \ {o})
         /\ LocalFits(p, i, ops \ {o}, view)
<1>1. OperationsFit(p, ops) /\ OperationsFit(p, ops \ {o})
  BY InvFacts, FewerOperations DEF ControllerFits
<1>2. BusyFits(p, ops) => BusyFits(p, ops \ {o})
  BY DEF BusyFits
<1>3. ControllerFits(p, ops \ {o})
  BY <1>1, <1>2, InvFacts DEF ControllerFits
<1>4. WillRender(p, i, ops) <=> WillRender(p, i, ops \ {o})
  BY DEF WillRender, Disabling
<1>5. QED
  BY <1>3, <1>4, InvFacts DEF LocalFits, LocalType, ViewFits

LEMMA ClipboardReadKeeps ==
  ASSUME PanelInv, NEW o \in ops, ClipboardRead(o)
  PROVE  PanelInv'
<1>1. o.stage = "clipboard" /\ UNCHANGED <<port, recovery, answer, inbox, owns, window>>
  BY DEF ClipboardRead
<1>2. ControllerFits(p, ops \ {o}) /\ LocalFits(p, i, ops \ {o}, view)
  BY <1>1, DroppedFits DEF Sent
<1>3. CASE ops' = ops \ {o} /\ UNCHANGED <<p, i, view, request>>
  BY <1>1, <1>2, <1>3, LocalStep DEF channel
<1>4. CASE InvalidCode /\ ops' = ops \ {o} /\ UNCHANGED <<i, request>>
  <2>1. UNCHANGED <<i, channel>> /\ ops' \in SUBSET Operations /\ ControllerFits(p, ops')
    BY <1>1, <1>2, <1>4, InvFacts DEF channel
  <2>2. QED
    BY <1>4, <2>1, InvalidCodeKeeps
<1>5. CASE Link(ops \ {o})
  BY <1>1, <1>2, <1>5, LinkKeeps
<1>6. QED
  BY <1>3, <1>4, <1>5 DEF ClipboardRead

LEMMA CommandAnsweredKeeps ==
  ASSUME PanelInv, NEW o \in ops, CommandAnswered(o)
  PROVE  PanelInv'
<1>1. /\ o.stage \in {"ok", "refused", "failed"} /\ ops' = ops \ {o}
      /\ UNCHANGED <<i, channel>>
  BY DEF CommandAnswered
<1>2. CASE ~Current(p, o) /\ UNCHANGED <<p, view>>
  <2>1. LocalFits(p', i', ops', view')
    BY <1>1, <1>2, DroppedFits
  <2>2. QED
    BY <1>1, <1>2, <2>1, LocalStep
<1>3. CASE Current(p, o) /\ ~UNCHANGED <<p, view>>
  <2> DEFINE forgets == \/ o.kind = "unlink" /\ o.stage = "ok"
                        \/ o.kind = "link" /\ o.stage = "refused"
             kept == p.intent /\ ~forgets
             linking == p.changing /\ ~(o.kind = "unlink" /\ o.stage = "ok")
             state == IF o.stage # "ok" THEN "error"
                      ELSE IF o.kind = "unlink" THEN "notLinked" ELSE p.state
  <2>1. p \in Panels
    BY InvFacts
  <2>2. /\ p' = [p EXCEPT !.busy = FALSE, !.changing = linking, !.intent = kept, !.state = state]
        /\ view' = Rendered(p', i)
    <3>1. /\ p' = [p EXCEPT
                   !.busy = FALSE,
                   !.changing = @ /\ ~(o.kind = "unlink" /\ o.stage = "ok"),
                   !.intent = @ /\ ~(o.kind = "unlink" /\ o.stage = "ok")
                                /\ ~(o.kind = "link" /\ o.stage = "refused"),
                   !.state = IF o.stage # "ok" THEN "error"
                             ELSE IF o.kind = "unlink" THEN "notLinked" ELSE @]
          /\ view' = Rendered(p', i)
      BY <1>3 DEF CommandAnswered
    <3>2. (p.intent /\ ~(o.kind = "unlink" /\ o.stage = "ok")
             /\ ~(o.kind = "link" /\ o.stage = "refused")) = kept
      BY <2>1 DEF Panels
    <3>3. QED
      BY <3>1, <3>2
  <2>3. /\ kept \in BOOLEAN /\ linking \in BOOLEAN /\ state \in States
        /\ state = "connected" => p.state = "connected" /\ o.stage = "ok" /\ o.kind # "unlink"
        /\ p.intent /\ ~forgets => kept
        /\ forgets => state # "connected"
    BY <2>1 DEF Panels, States
  <2> HIDE DEF kept, linking, state, forgets
  <2>4. /\ p' \in Panels /\ ~p'.busy /\ p'.intent = kept /\ p'.state = state
        /\ p'.open = p.open /\ p'.generation = p.generation
    BY <2>1, <2>2, <2>3 DEF Panels
  <2>5. p'.state = "connected" => p'.intent
    BY <2>3, <2>4, InvFacts DEF ControllerFits
  <2>6. OperationsFit(p', ops')
    <3>1. OperationsFit(p, ops')
      BY <1>1, InvFacts, FewerOperations DEF ControllerFits
    <3>2. QED
      BY <2>4, <3>1 DEF OperationsFit
  <2>7. BusyFits(p', ops')
    <3>1. \A x \in ops' : ~Current(p, x)
      BY <1>1, <1>3, InvFacts DEF ControllerFits, OperationsFit, Current
    <3>2. QED
      BY <2>4, <3>1 DEF BusyFits, Current
  <2>8. LocalFits(p', i', ops', view')
    BY <1>1, <2>2, <2>4, <2>5, <2>6, <2>7, InvFacts, RenderFits DEF ControllerFits
  <2>9. QED
    BY <1>1, <2>3, <2>4, <2>8, LocalStep
<1>4. CASE UNCHANGED <<p, view>> /\ Current(p, o)
  <2>1. view' = Rendered(p', i) /\ p'.busy = FALSE
    BY <1>4, InvFacts DEF CommandAnswered, Panels
  <2>2. p.busy
    BY <1>1, <1>4, InvFacts DEF ControllerFits, BusyFits, Current, Sent
  <2>3. QED
    BY <1>4, <2>1, <2>2
<1>5. QED
  BY <1>2, <1>3, <1>4 DEF CommandAnswered

(* A window state on its way changes nothing of what the request waits for.*)
LEMMA StatePosted ==
  ASSUME PanelInv, NEW s \in States, inbox' = Append(inbox, s)
  PROVE  /\ inbox' \in Seq(Messages)
         /\ ChannelFits(i.loop, i.desired, request, answer, inbox', owns)
<1>1. ChannelFits(i.loop, i.desired, request, answer, inbox, owns) /\ inbox \in Seq(Messages)
  BY InvFacts DEF PanelInv
<1>2. s \in Messages /\ s # "granted" /\ s # "denied" /\ s # "invalidated" /\ s \notin Answers
  BY DEF Messages, Answers, States
<1>3. /\ inbox' \in Seq(Messages)
      /\ \A m : Waits(inbox', m) => m = s \/ Waits(inbox, m)
      /\ OneAnswer(inbox) => OneAnswer(inbox')
      /\ Uncovered(inbox') => Uncovered(inbox)
  BY <1>1, <1>2, AppendFacts
<1>4. QED
  BY <1>1, <1>2, <1>3 DEF ChannelFits, NoAnswer

LEMMA ChannelTypes ==
  ASSUME PanelInv
  PROVE  /\ request \in {"none", "enable", "disable"}
         /\ answer \in {"none", "granted", "denied"}
         /\ inbox \in Seq(Messages)
         /\ owns \in BOOLEAN /\ port \in BOOLEAN /\ recovery \in BOOLEAN
         /\ window \in States
         /\ ~port => inbox = <<>> /\ answer = "none" /\ request = "none" /\ ~owns
         /\ ChannelFits(i.loop, i.desired, request, answer, inbox, owns)
         /\ LocalFits(p, i, ops, view)
  BY DEF PanelInv, TypeOK, PortFits

LEMMA RunCommandKeeps ==
  ASSUME PanelInv, NEW o \in ops, RunCommand(o)
  PROVE  PanelInv'
<1>1. PICK outcome \in {"ok", "refused", "failed"} :
        /\ o.stage = "command"
        /\ ops' = (ops \ {o}) \cup {[o EXCEPT !.stage = outcome]}
        /\ \/ outcome # "ok" /\ UNCHANGED <<window, inbox>>
           \/ /\ outcome = "ok"
              /\ window' = IF o.kind = "unlink" THEN "notLinked" ELSE "connected"
              /\ inbox' = Posted(window')
        /\ UNCHANGED <<p, i, view, port, recovery, request, answer, owns>>
  BY DEF RunCommand
<1> DEFINE x == [o EXCEPT !.stage = outcome]
<1>2. /\ x \in Operations /\ x.kind = o.kind /\ x.generation = o.generation
      /\ x.stage = outcome /\ Sent(x) /\ Sent(o) /\ o.stage # "disabling"
      /\ x.stage # "disabling" /\ x.stage # "clipboard"
  BY <1>1, InvFacts DEF Operations, Stages, Sent
<1>3. ops' = (ops \ {o}) \cup {x}
  BY <1>1
<1> HIDE DEF x
<1>4. OperationsFit(p, ops')
  BY <1>1, <1>2, <1>3, InvFacts DEF ControllerFits, OperationsFit
<1>5. BusyFits(p, ops) => BusyFits(p, ops')
  BY <1>2, <1>3 DEF BusyFits, Current
<1>6. WillRender(p, i, ops) <=> WillRender(p, i, ops')
  BY <1>2, <1>3 DEF WillRender, Disabling
<1>7. LocalFits(p', i', ops', view')
  BY <1>1, <1>2, <1>3, <1>4, <1>5, <1>6, InvFacts
     DEF LocalFits, LocalType, ControllerFits, ViewFits
<1>8. /\ window' \in States
      /\ \/ inbox' = inbox
         \/ port /\ inbox' = Append(inbox, window')
  <2>1. CASE outcome # "ok"
    BY <1>1, <2>1, InvFacts
  <2>2. CASE outcome = "ok"
    <3>1. inbox' = Posted(window')
      BY <1>1, <2>2
    <3>2. window' \in {"notLinked", "connected"}
      BY <1>1, <2>2
    <3>3. port => inbox' = Append(inbox, window')
      BY <3>1, Zenon DEF Posted
    <3>4. ~port => inbox' = inbox
      BY <3>1, Zenon DEF Posted
    <3>5. QED
      BY <3>2, <3>3, <3>4 DEF States
  <2>3. QED
    BY <2>1, <2>2
<1>9. UNCHANGED <<p, i, view, port, recovery, request, answer, owns>>
  BY <1>1
<1>10. /\ inbox' \in Seq(Messages)
       /\ ChannelFits(i.loop, i.desired, request', answer', inbox', owns')
  <2>1. ChannelFits(i.loop, i.desired, request, answer, inbox, owns) /\ inbox \in Seq(Messages)
    BY InvFacts DEF PanelInv
  <2>2. CASE inbox' = inbox
    BY <1>9, <2>1, <2>2
  <2>3. CASE inbox' = Append(inbox, window')
    <3>1. PICK s \in States : s = window'
      BY <1>8
    <3>2. inbox' = Append(inbox, s)
      BY <2>3, <3>1
    <3>3. QED
      BY <1>9, <3>2, StatePosted
  <2>4. QED
    BY <1>8, <2>2, <2>3
<1>11. /\ UNCHANGED <<p, i, view>>
       /\ request' \in {"none", "enable", "disable"}
       /\ answer' \in {"none", "granted", "denied"}
       /\ owns' \in BOOLEAN /\ port' \in BOOLEAN /\ recovery' \in BOOLEAN
       /\ ~port' => inbox' = <<>> /\ answer' = "none" /\ request' = "none" /\ ~owns'
       /\ port => port'
       /\ recovery' => recovery /\ port' = port
  BY <1>8, <1>9, ChannelTypes
<1>12. QED
  BY <1>7, <1>8, <1>10, <1>11, ChannelStep

-----------------------------------------------------------------------------
(* The port is lost and found                                              *)

LEMMA SupersededFits ==
  ASSUME NEW q \in Panels, NEW os \in SUBSET Operations, OperationsFit(q, os),
         NEW r \in Panels, r.generation = q.generation + 1, ~r.busy,
         r.state = "connected" => r.intent, NEW fewer \in SUBSET os
  PROVE  ControllerFits(r, fewer)
<1>1. \A x \in os : x.generation <= q.generation /\ x.generation \in Nat /\ q.generation \in Nat
  BY DEF OperationsFit, Operations, Panels
<1>2. \A x \in os : x.generation <= r.generation /\ ~Current(r, x)
  BY <1>1 DEF Current
<1>3. QED
  BY <1>2 DEF ControllerFits, OperationsFit, BusyFits

LEMMA TransportDisconnectFits ==
  ASSUME PanelInv, TransportDisconnect
  PROVE  /\ LocalFits(p', i', ops', view')
         /\ p'.open = p.open /\ p'.state # "connected" /\ i' = NoInspect
<1> DEFINE next == NextGeneration(p)
           s == IF p.intent THEN "offline" ELSE next.state
<1>1. /\ next \in Panels /\ next.generation = p.generation + 1 /\ next.open = p.open
      /\ next.state = p.state
  BY InvFacts, NextGenerationFields
<1>2. /\ p' = [next EXCEPT !.busy = FALSE, !.changing = FALSE, !.state = s]
      /\ i' = NoInspect /\ ops' = ops \ Disabling(ops) /\ view' = Rendered(p', i')
  BY DEF TransportDisconnect
<1>3. s \in States /\ s # "connected"
  BY <1>1, InvFacts DEF States, Panels, ControllerFits
<1> HIDE DEF next, s
<1>4. /\ p' \in Panels /\ p'.generation = p.generation + 1 /\ ~p'.busy
      /\ p'.state = s /\ p'.open = p.open
  BY <1>1, <1>2, <1>3 DEF Panels
<1>5. ops' \in SUBSET ops
  BY <1>2
<1>6. ControllerFits(p', ops')
  BY <1>3, <1>4, <1>5, InvFacts, SupersededFits DEF ControllerFits
<1>7. QED
  BY <1>2, <1>3, <1>4, <1>5, <1>6, InvFacts, NoInspectFields, RenderFits

(* Nothing is on its way any more, and nothing is believed of the page.    *)
LEMMA ClearedStep ==
  ASSUME PanelInv, LocalFits(p', i', ops', view'), i' = NoInspect,
         p'.open => p'.state # "connected",
         request' = "none", answer' = "none", inbox' = <<>>, ~owns', owns' \in BOOLEAN,
         port' = FALSE, recovery' \in BOOLEAN, window' = window
  PROVE  PanelInv'
<1>1. inbox' \in Seq(Messages)
  OBVIOUS
<1>2. TypeOK'
  BY <1>1 DEF PanelInv, TypeOK, LocalFits, LocalType
<1>3. i'.loop = "idle" /\ ~i'.desired
  BY NoInspectFields
<1>4. ChannelFits(i'.loop, i'.desired, request', answer', inbox', owns')
  BY <1>3, NothingWaits DEF ChannelFits, NoAnswer
<1>5. PortFits'
  BY <1>3 DEF PortFits
<1>6. QED
  BY <1>2, <1>4, <1>5 DEF PanelInv

LEMMA PortLostKeeps ==
  ASSUME PanelInv, PortLost
  PROVE  PanelInv'
  BY TransportDisconnectFits, ClearedStep DEF PortLost, Disconnected

LEMMA RecoveryFailsKeeps ==
  ASSUME PanelInv, RecoveryFails
  PROVE  PanelInv'
<1>1. /\ TransportDisconnect /\ recovery /\ recovery' = FALSE
      /\ UNCHANGED <<port, request, answer, inbox, owns, window>>
  BY DEF RecoveryFails
<1>2. ~port /\ request = "none" /\ answer = "none" /\ inbox = <<>> /\ ~owns
      /\ port \in BOOLEAN /\ owns \in BOOLEAN
  BY <1>1 DEF PanelInv, PortFits, TypeOK
<1>3. QED
  BY <1>1, <1>2, TransportDisconnectFits, ClearedStep

LEMMA DisposeKeeps ==
  ASSUME PanelInv, Dispose
  PROVE  PanelInv'
<1> DEFINE next == NextGeneration(p)
<1>1. /\ p' = [next EXCEPT !.open = FALSE] /\ i' = NoInspect /\ ops' = {}
      /\ Disconnected /\ recovery' = FALSE /\ view' = view /\ window' = window
  BY DEF Dispose
<1>2. next \in Panels /\ next.state = p.state /\ next.intent = p.intent
  BY InvFacts, NextGenerationFields
<1> HIDE DEF next
<1>3. p' \in Panels /\ ~p'.open /\ p'.state = p.state /\ p'.intent = p.intent
  BY <1>1, <1>2 DEF Panels
<1>4. ControllerFits(p', ops')
  BY <1>1, <1>3, InvFacts DEF ControllerFits, OperationsFit
<1>5. LocalFits(p', i', ops', view')
  BY <1>1, <1>3, <1>4, NoInspectFields, InvFacts DEF LocalFits, LocalType
<1>6. QED
  BY <1>1, <1>3, <1>5, ClearedStep DEF Disconnected

LEMMA RecoveryConnectsKeeps ==
  ASSUME PanelInv, RecoveryConnects
  PROVE  PanelInv'
<1>1. /\ recovery' = FALSE /\ port' = TRUE /\ inbox' = Append(inbox, window)
      /\ UNCHANGED <<p, i, ops, view, request, answer, owns, window>>
  BY DEF RecoveryConnects, local
<1>2. /\ inbox' \in Seq(Messages)
      /\ ChannelFits(i.loop, i.desired, request', answer', inbox', owns')
  BY <1>1, InvFacts, StatePosted
<1>3. LocalFits(p', i', ops', view')
  BY <1>1, ChannelTypes
<1>4. QED
  BY <1>1, <1>2, <1>3, ChannelTypes, ChannelStep

-----------------------------------------------------------------------------
(* The background                                                          *)

LEMMA CarryOutKeeps ==
  ASSUME PanelInv, CarryOut
  PROVE  PanelInv'
<1>1. /\ request # "none" /\ request' = "none"
      /\ \/ answer' = "granted" /\ owns' = (request = "enable")
         \/ answer' = "denied" /\ owns' = FALSE
      /\ UNCHANGED <<p, i, ops, view, port, recovery, inbox, window>>
  BY DEF CarryOut, local
<1>2. LocalFits(p', i', ops', view')
  BY <1>1, ChannelTypes
<1>3. ChannelFits(i.loop, i.desired, request', answer', inbox', owns')
  BY <1>1, ChannelTypes DEF ChannelFits, NoAnswer
<1>4. QED
  BY <1>1, <1>2, <1>3, ChannelTypes, ChannelStep

LEMMA PostAnswerKeeps ==
  ASSUME PanelInv, PostAnswer
  PROVE  PanelInv'
<1>1. /\ answer # "none" /\ inbox' = Append(inbox, answer) /\ answer' = "none"
      /\ UNCHANGED <<p, i, ops, view, port, recovery, request, owns, window>>
  BY DEF PostAnswer, local
<1>2. LocalFits(p', i', ops', view')
  BY <1>1, ChannelTypes
<1>3. answer \in Messages /\ answer \in Answers /\ answer # "invalidated"
  BY <1>1, ChannelTypes DEF Messages, Answers
<1>4. ChannelFits(i.loop, i.desired, request, answer, inbox, owns)
  BY ChannelTypes
<1>5. /\ inbox' \in Seq(Messages)
      /\ \A m : Waits(inbox', m) => m = answer \/ Waits(inbox, m)
      /\ NoAnswer(inbox) /\ OneAnswer(inbox) => OneAnswer(inbox')
      /\ Uncovered(inbox') => answer # "granted" /\ Uncovered(inbox)
  BY <1>1, <1>3, ChannelTypes, AppendFacts
<1>6. ChannelFits(i.loop, i.desired, request', answer', inbox', owns')
  BY <1>1, <1>3, <1>4, <1>5, ChannelTypes DEF ChannelFits, NoAnswer
<1>7. QED
  BY <1>1, <1>2, <1>5, <1>6, ChannelTypes, ChannelStep

LEMMA DocumentGoneKeeps ==
  ASSUME PanelInv, DocumentGone
  PROVE  PanelInv'
<1>1. /\ owns /\ owns' = FALSE /\ inbox' = Append(inbox, "invalidated")
      /\ answer' \in {answer, IF answer = "granted" THEN "denied" ELSE answer}
      /\ UNCHANGED <<p, i, ops, view, port, recovery, request, window>>
  BY DEF DocumentGone, local
<1>2. LocalFits(p', i', ops', view')
  BY <1>1, ChannelTypes
<1>3. "invalidated" \in Messages /\ "invalidated" \notin Answers
  BY DEF Messages, Answers
<1>4. ChannelFits(i.loop, i.desired, request, answer, inbox, owns)
  BY ChannelTypes
<1>5. /\ inbox' \in Seq(Messages)
      /\ \A m : Waits(inbox', m) => m = "invalidated" \/ Waits(inbox, m)
      /\ OneAnswer(inbox) => OneAnswer(inbox')
  BY <1>1, <1>3, ChannelTypes, AppendFacts
<1>6. answer' \in {"none", "granted", "denied"} /\ (answer' # "none" <=> answer # "none")
  BY <1>1, ChannelTypes
<1>7. ChannelFits(i.loop, i.desired, request', answer', inbox', owns')
  BY <1>1, <1>4, <1>5, <1>6 DEF ChannelFits, NoAnswer
<1>8. QED
  BY <1>1, <1>2, <1>5, <1>6, <1>7, ChannelTypes, ChannelStep

LEMMA RetireKeeps ==
  ASSUME PanelInv, Retire
  PROVE  PanelInv'
<1>1. /\ port /\ owns' = FALSE
      /\ answer' = IF answer = "none" THEN "none" ELSE "denied"
      /\ UNCHANGED <<p, i, ops, view, port, recovery, request, inbox, window>>
  BY DEF Retire, local
<1>2. LocalFits(p', i', ops', view')
  BY <1>1, ChannelTypes
<1>3. ChannelFits(i.loop, i.desired, request', answer', inbox', owns')
  BY <1>1, ChannelTypes DEF ChannelFits
<1>4. answer' \in {"none", "granted", "denied"}
  BY <1>1
<1>5. QED
  BY <1>1, <1>2, <1>3, <1>4, ChannelTypes, ChannelStep

LEMMA WindowChangesKeeps ==
  ASSUME PanelInv, NEW s \in States, WindowChanges(s)
  PROVE  PanelInv'
<1>1. /\ window' = s /\ inbox' = Posted(s)
      /\ UNCHANGED <<p, i, ops, view, port, recovery, request, answer, owns>>
  BY DEF WindowChanges, local
<1>2. LocalFits(p', i', ops', view')
  BY <1>1, ChannelTypes
<1>3. /\ port => inbox' = Append(inbox, s)
      /\ ~port => inbox' = inbox
  BY <1>1, Zenon DEF Posted
<1>4. /\ inbox' \in Seq(Messages)
      /\ ChannelFits(i.loop, i.desired, request, answer, inbox', owns)
  <2>1. CASE port
    BY <1>3, <2>1, StatePosted
  <2>2. CASE ~port
    BY <1>3, <2>2, ChannelTypes
  <2>3. QED
    BY <2>1, <2>2
<1>5. ~port' => inbox' = <<>> /\ answer' = "none" /\ request' = "none" /\ ~owns'
  BY <1>1, <1>3, ChannelTypes
<1>6. QED
  BY <1>1, <1>2, <1>4, <1>5, ChannelTypes, ChannelStep

-----------------------------------------------------------------------------
(* The messages                                                            *)

LEMMA MessageTaken ==
  ASSUME PanelInv, inbox # <<>>, inbox' = Tail(inbox)
  PROVE  /\ inbox' \in Seq(Messages) /\ Shrinks(inbox, inbox') /\ port
         /\ Head(inbox) \in Messages /\ Waits(inbox, Head(inbox))
  BY ChannelTypes, TailFacts, ShrinksTail

(* A step of a panel with a port: what is left of PanelInv to show.        *)
LEMMA PortedStep ==
  ASSUME PanelInv, port, LocalFits(p', i', ops', view'),
         ChannelFits(i'.loop, i'.desired, request', answer', inbox', owns'),
         request' \in {"none", "enable", "disable"}, inbox' \in Seq(Messages),
         UNCHANGED <<port, recovery, answer, owns, window>>
  PROVE  PanelInv'
<1>1. TypeOK' /\ PortFits'
  BY DEF PanelInv, TypeOK, PortFits, LocalFits, LocalType
<1>2. QED
  BY <1>1 DEF PanelInv

(* The answer that the loop waits for is the only thing it waits for.      *)
LEMMA AnswerTaken ==
  ASSUME PanelInv, inbox # <<>>, inbox' = Tail(inbox), Head(inbox) \in Answers
  PROVE  /\ i.loop \in {"enable", "disable"} /\ request = "none" /\ answer = "none"
         /\ NoAnswer(inbox') /\ OneAnswer(inbox') /\ ~(owns /\ Uncovered(inbox'))
         /\ i.loop = "disable" \/ Head(inbox) = "denied" => ~owns
<1>1. ~NoAnswer(inbox)
  BY MessageTaken DEF NoAnswer, Answers
<1>2. OneAnswer(inbox) => NoAnswer(inbox') /\ OneAnswer(inbox')
  BY ChannelTypes, TailFacts
<1>3. Uncovered(inbox') => Uncovered(inbox)
  BY ChannelTypes, TailFacts
<1>4. Waits(inbox, Head(inbox))
  BY MessageTaken
<1>5. QED
  BY <1>1, <1>2, <1>3, <1>4, InvFacts, ChannelTypes DEF ChannelFits

LEMMA GrantedKeeps ==
  ASSUME PanelInv, p.open, inbox # <<>>, inbox' = Tail(inbox), Head(inbox) = "granted",
         InspectGranted, UNCHANGED <<port, recovery, answer, owns, window>>
  PROVE  PanelInv'
<1> DEFINE enabled == [i EXCEPT !.remote = TRUE, !.disablePending = ~i.desired]
           disabled == [i EXCEPT !.remote = FALSE, !.disablePending = FALSE]
           answered == IF i.loop = "enable" THEN enabled ELSE disabled
           j == [answered EXCEPT !.loop = "idle", !.inFlight = FALSE]
<1>1. Loops(p, j, ops, view)
  BY DEF InspectGranted
<1>2. answered \in Inspects /\ answered.desired = i.desired /\ answered.waiting = i.waiting
      /\ (i.loop # "enable" => ~answered.remote) /\ (i.loop = "enable" => answered.remote)
  BY InvFacts DEF Inspects
<1> HIDE DEF answered
<1>3. j \in Inspects /\ j.desired = i.desired /\ j.waiting = i.waiting
      /\ (i.loop # "enable" => ~j.remote) /\ (i.loop = "enable" => j.remote)
  BY <1>2 DEF Inspects
<1> HIDE DEF j
<1>4. /\ i.loop \in {"enable", "disable"} /\ request = "none" /\ answer = "none"
      /\ NoAnswer(inbox') /\ OneAnswer(inbox') /\ ~(owns /\ Uncovered(inbox'))
      /\ i.loop = "disable" => ~owns
  BY AnswerTaken DEF Answers
<1>5. Rendered(p, j) = Rendered(p, i)
  BY <1>3, RenderedSame
<1>6. Ready(p, j, ops, view)
  BY <1>3, <1>4, <1>5, InvFacts DEF Ready, LocalType, LoopFits, ViewFits, WillRender
<1>7. /\ LocalFits(p', i', ops', view')
      /\ i'.desired = j.desired
      /\ \/ i'.loop = "idle" /\ request' = request /\ j.desired = j.remote
         \/ i'.loop \in {"enable", "disable"} /\ request' = i'.loop
  BY <1>1, <1>6, LoopsFits
<1>8. ChannelFits(i'.loop, i'.desired, request', answer', inbox', owns')
  <2> DEFINE m == i'.loop  e == i'.desired
  <2>1. \/ m = "idle" /\ request' = "none" /\ (~e => ~owns)
        \/ m \in {"enable", "disable"} /\ request' = m
    BY <1>3, <1>4, <1>7
  <2> HIDE DEF m, e
  <2>2. ChannelFits(m, e, request', answer', inbox', owns')
    BY <1>4, <2>1 DEF ChannelFits, NoAnswer
  <2>3. QED
    BY <2>2 DEF m, e
<1>9. request' \in {"none", "enable", "disable"}
  BY <1>4, <1>7
<1>10. QED
  BY <1>7, <1>8, <1>9, MessageTaken, PortedStep

LEMMA DeniedKeeps ==
  ASSUME PanelInv, p.open, inbox # <<>>, inbox' = Tail(inbox), Head(inbox) = "denied",
         InspectDenied, UNCHANGED <<port, recovery, answer, owns, window>>
  PROVE  PanelInv'
<1> DEFINE j == Off(i)
<1>1. Settles(p, j, ops, view)
  BY DEF InspectDenied
<1>2. j \in Inspects /\ ~j.desired /\ ~j.remote /\ ~j.disablePending /\ j.waiting = i.waiting
  BY InvFacts, OffFields
<1> HIDE DEF j
<1>3. /\ i.loop \in {"enable", "disable"} /\ request = "none" /\ answer = "none"
      /\ NoAnswer(inbox') /\ OneAnswer(inbox') /\ ~owns
  BY AnswerTaken DEF Answers
<1>4. ~i.waiting => Rendered(p, j) = Rendered(p, i)
  <2> SUFFICES ASSUME ~i.waiting PROVE Rendered(p, j) = Rendered(p, i)
    OBVIOUS
  <2>1. i.desired = FALSE /\ j.desired = FALSE
    BY <1>2, <1>3, InvFacts DEF LoopFits, Inspects
  <2>2. QED
    BY <2>1, RenderedSame
<1>5. Ready(p, j, ops, view)
  BY <1>2, <1>3, <1>4, InvFacts DEF Ready, LocalType, ViewFits, WillRender
<1>6. j.desired = j.remote
  BY <1>2 DEF Inspects
<1>7. LocalFits(p', i', ops', view') /\ i'.loop = "idle" /\ request' = request
  BY <1>1, <1>2, <1>5, <1>6, SettlesFits
<1>8. ChannelFits(i'.loop, i'.desired, request', answer', inbox', owns')
  BY <1>3, <1>7 DEF ChannelFits, NoAnswer
<1>9. request' \in {"none", "enable", "disable"}
  BY <1>3, <1>7
<1>10. QED
  BY <1>7, <1>8, <1>9, MessageTaken, PortedStep

LEMMA InvalidatedKeeps ==
  ASSUME PanelInv, p.open, inbox # <<>>, inbox' = Tail(inbox), Head(inbox) = "invalidated",
         Invalidated, UNCHANGED <<port, recovery, answer, owns, window>>
  PROVE  PanelInv'
<1>1. i' = Off(i) /\ view' = Rendered(p, i') /\ UNCHANGED <<p, ops, request>>
  BY DEF Invalidated
<1>2. /\ i' \in Inspects /\ ~i'.desired /\ ~i'.remote /\ ~i'.disablePending
      /\ i'.loop = i.loop /\ i'.inFlight = i.inFlight
  BY <1>1, InvFacts, OffFields
<1>3. LoopFits(i')
  BY <1>2, InvFacts DEF LoopFits, Inspects
<1>4. LocalFits(p', i', ops', view')
  BY <1>1, <1>2, <1>3, InvFacts, RenderFits
<1>5. ~Waits(inbox, "granted") => Uncovered(inbox)
  BY ChannelTypes, TailFacts
<1>6. ChannelFits(i.loop, i.desired, request, answer, inbox, owns)
      /\ Shrinks(inbox, inbox')
  BY ChannelTypes, MessageTaken
<1>7. i.loop = "idle" => ~owns
  BY <1>5, <1>6 DEF ChannelFits, NoAnswer
<1>8. ChannelFits(i'.loop, i'.desired, request', answer', inbox', owns')
  BY <1>1, <1>2, <1>6, <1>7 DEF ChannelFits, NoAnswer, Shrinks
<1>9. request' \in {"none", "enable", "disable"}
  BY <1>1, ChannelTypes
<1>10. QED
  BY <1>4, <1>8, <1>9, MessageTaken, PortedStep

LEMMA WindowStateKeeps ==
  ASSUME PanelInv, p.open, inbox # <<>>, inbox' = Tail(inbox), NEW s \in States,
         HandleWindowState(s), UNCHANGED <<port, recovery, answer, owns, window>>
  PROVE  PanelInv'
<1> DEFINE intent == IF s = "notLinked" THEN FALSE ELSE s # "error" \/ p.intent
           q == [p EXCEPT !.state = s, !.intent = intent]
           j == Disabled(i)
           r == [j EXCEPT !.waiting = TRUE]
<1>1. intent \in BOOLEAN /\ (s = "connected" => intent)
  BY InvFacts DEF Panels
<1>2. \/ /\ s = "connected" /\ p' = q /\ view' = Rendered(q, i)
         /\ UNCHANGED <<i, ops, request>>
      \/ s # "connected" /\ Reconcile(q, r, ops, view)
  BY DEF HandleWindowState
<1>3. j \in Inspects /\ j.loop = i.loop /\ j.remote = i.remote
  BY InvFacts, DisabledFields
<1> HIDE DEF intent, j
<1>4. /\ q \in Panels /\ q.open = p.open /\ q.state = s /\ q.intent = intent
      /\ q.generation = p.generation /\ q.busy = p.busy
  BY <1>1, InvFacts DEF Panels
<1>5. r \in Inspects /\ r.loop = i.loop /\ r.remote = i.remote /\ r.waiting
  BY <1>3, WaitingFields
<1> HIDE DEF q, r
<1>6. ControllerFits(q, ops)
  BY <1>1, <1>4, InvFacts DEF ControllerFits, OperationsFit, BusyFits, Current
<1>7. port /\ Shrinks(inbox, inbox') /\ inbox' \in Seq(Messages)
  BY MessageTaken
<1>8. CASE /\ s = "connected" /\ p' = q /\ view' = Rendered(q, i)
           /\ UNCHANGED <<i, ops, request>>
  <2>1. LocalFits(p', i', ops', view')
    BY <1>4, <1>6, <1>8, InvFacts, RenderFits
  <2>2. ChannelFits(i'.loop, i'.desired, request', answer', inbox', owns')
    BY <1>7, <1>8, ChannelTypes DEF ChannelFits, Shrinks, NoAnswer
  <2>3. request' \in {"none", "enable", "disable"}
    BY <1>8, ChannelTypes
  <2>4. QED
    BY <1>7, <2>1, <2>2, <2>3, PortedStep
<1>9. CASE Reconcile(q, r, ops, view)
  <2>1. Ready(q, r, ops, view)
    BY <1>4, <1>5, <1>6, InvFacts DEF Ready, LocalType, WillRender
  <2>2. QED
    BY <1>5, <1>7, <1>9, <2>1, AskStep
<1>10. QED
  BY <1>2, <1>8, <1>9

LEMMA HandleMessageKeeps ==
  ASSUME PanelInv, HandleMessage
  PROVE  PanelInv'
  BY GrantedKeeps, DeniedKeeps, InvalidatedKeeps, WindowStateKeeps DEF HandleMessage

-----------------------------------------------------------------------------
(* The theorems                                                            *)

LEMMA InitPanelInv ==
  ASSUME Init
  PROVE  PanelInv
<1>1. /\ p = [open |-> TRUE, state |-> "notLinked", intent |-> FALSE,
              changing |-> FALSE, busy |-> FALSE, generation |-> 0]
      /\ i = NoInspect /\ ops = {} /\ view = Rendered(p, i)
      /\ port = FALSE /\ recovery = TRUE /\ request = "none" /\ answer = "none"
      /\ inbox = <<>> /\ owns = FALSE /\ window \in States
  BY DEF Init
<1>2. p \in Panels /\ p.state = "notLinked" /\ ~p.busy
  BY <1>1 DEF Panels, States
<1>3. ControllerFits(p, ops)
  BY <1>1, <1>2 DEF ControllerFits, OperationsFit, BusyFits
<1>4. LocalFits(p, i, ops, view)
  BY <1>1, <1>2, <1>3, NoInspectFields, RenderFits
<1>5. ChannelFits(i.loop, i.desired, request, answer, inbox, owns)
  BY <1>1, NoInspectFields, NothingWaits DEF ChannelFits, NoAnswer
<1>6. TypeOK /\ PortFits
  <2>1. inbox \in Seq(Messages)
    BY <1>1
  <2>2. i.loop = "idle" /\ ~i.desired
    BY <1>1, NoInspectFields
  <2>3. TypeOK
    BY <1>1, <1>4, <2>1 DEF TypeOK, LocalFits, LocalType
  <2>4. QED
    BY <1>1, <1>2, <2>2, <2>3 DEF PortFits
<1>7. QED
  BY <1>4, <1>5, <1>6 DEF PanelInv

LEMMA NextPanelInv ==
  ASSUME PanelInv, [Next]_vars
  PROVE  PanelInv'
<1>1. CASE UserStep
  BY <1>1, SetInspectEnabledKeeps, LinkCodeChangedKeeps, PressLinkKeeps, PasteAndLinkKeeps,
     ChangeIdeKeeps, UnlinkKeeps, DisposeKeeps DEF UserStep
<1>2. CASE PanelStep
  BY <1>2, HandleMessageKeeps, RecoveryConnectsKeeps, RecoveryFailsKeeps, ClipboardReadKeeps,
     CommandAnsweredKeeps DEF PanelStep
<1>3. CASE BackgroundStep
  BY <1>3, CarryOutKeeps, PostAnswerKeeps, DocumentGoneKeeps, RetireKeeps, PortLostKeeps,
     WindowChangesKeeps, RunCommandKeeps DEF BackgroundStep
<1>4. CASE UNCHANGED vars
  BY <1>4, Zenon DEF vars, PanelInv, TypeOK, PortFits
<1>5. QED
  BY <1>1, <1>2, <1>3, <1>4 DEF Next

LEMMA SpecPanelInv == Spec => []PanelInv
<1>1. Init => PanelInv
  BY InitPanelInv
<1>2. PanelInv /\ [Next]_vars => PanelInv'
  BY NextPanelInv
<1>3. QED
  BY <1>1, <1>2, PTL DEF Spec

(* The fields of the controllers, the operations, the view and everything  *)
(* on its way between the panel and the background have the values that    *)
(* the code gives them.                                                    *)
THEOREM PanelTypeCorrect == Spec => []TypeOK
<1>1. PanelInv => TypeOK
  BY DEF PanelInv
<1>2. QED
  BY <1>1, SpecPanelInv, PTL

(* However the reconcile loop of PanelInspectController ends, and whatever *)
(* the user, the document and the port did meanwhile, the controller       *)
(* believes of the page what the checkbox asks for.                        *)
THEOREM SettledAlwaysAgrees == Spec => []SettledInspectAgrees
<1>1. PanelInv => SettledInspectAgrees
  BY DEF PanelInv, LocalFits, LoopFits, SettledInspectAgrees
<1>2. QED
  BY <1>1, SpecPanelInv, PTL

(* A panel whose inspect mode is off and that waits for nothing does not   *)
(* own the page: a grant that comes late finds a loop that undoes it.      *)
THEOREM NeverInspectsUnasked == Spec => []NeverLeftInspecting
<1>1. PanelInv => NeverLeftInspecting
  BY DEF PanelInv, ChannelFits, NeverLeftInspecting
<1>2. QED
  BY <1>1, SpecPanelInv, PTL

(* Every way through PanelController ends with a render, and the panel is  *)
(* busy exactly while a command of its latest operation is out.            *)
THEOREM SettledViewAlwaysCurrent == Spec => []SettledViewIsCurrent
<1>1. PanelInv => SettledViewIsCurrent
  BY DEF PanelInv, LocalFits, ControllerFits, ViewFits, BusyFits, Sent,
         SettledViewIsCurrent, ViewIsRendered, BusyMeansWaiting
<1>2. QED
  BY <1>1, SpecPanelInv, PTL
=============================================================================
