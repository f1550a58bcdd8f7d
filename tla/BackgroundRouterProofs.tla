------------------------ MODULE BackgroundRouterProofs ------------------------
(***************************************************************************)
(* Proofs about BackgroundRouter, for any number of channels, windows and  *)
(* lookups under way.                                                      *)
(*                                                                         *)
(* The router's methods are operators on its fields, so the part of the    *)
(* invariant that is about the fields alone, Sound, is stated of any       *)
(* fields s, and each method is shown to keep it; so is Placed, which      *)
(* says why a panel that is active in the wrong window will be found out.  *)
(***************************************************************************)
EXTENDS BackgroundRouter, SequenceTheorems, FiniteSetTheorems, WellFoundedInduction, TLAPS

-----------------------------------------------------------------------------
(* The inductive invariant *)

OneChannel(s) == \A c \in Channels : Bound(s, c) <=> s.channelByTab = c

\* Generations are handed out once, in increasing order.
Generations(s) ==
  /\ s.next # 0
  /\ \A c \in Channels :
       /\ s.binding[c].generation < s.next
       /\ Pending(s, c) => /\ s.pending[c].bindingGeneration < s.pending[c].generation
                           /\ s.pending[c].generation < s.next

BindingsUsable(s) ==
  \A c \in Channels :
    Bound(s, c) /\ ~s.binding[c].suspended => Usable(s, s.binding[c].window)

Registered(s) ==
  \A c \in Channels : Active(s, c) =>
    /\ s.tabOwner = c
    /\ s.port[c].open /\ ~s.binding[c].suspended
    /\ s.port[c].generation = s.binding[c].generation
    /\ s.port[c].window = s.binding[c].window

OwnerActive(s) == s.tabOwner # NoChannel => Active(s, s.tabOwner)

\* What is under way belongs to the activation it was started under.
JobsInPlace(s) ==
  \A c \in Channels :
    /\ ~Active(s, c) => s.job[c] = NoJobs
    /\ s.job[c]["command"].stage \in {"acting", "recheck"}
         => s.job[c]["command"].window = s.port[c].window

Sound(s) ==
  /\ s \in Router
  /\ OneChannel(s) /\ Generations(s) /\ BindingsUsable(s)
  /\ Registered(s) /\ OwnerActive(s) /\ JobsInPlace(s)

(* An active panel is where the tab is, or the event that the tab left its *)
(* window is on its way, or a lookup that cannot answer with its window.   *)
Here(s, ev, c) ==
  \/ s.port[c].window = at
  \/ \E i \in DOMAIN ev : ev[i] = Event("detached", s.port[c].window)
  \/ \E k \in Kinds : Waiting(s, c, k) /\ s.port[c].window \notin s.job[c][k].seen

Placed(s, ev) == at # NoWindow => \A c \in Channels : Active(s, c) => Here(s, ev, c)

\* A lookup fails only when the tab is closed.
SeenIsReal ==
  \A c \in Channels : NoWindow \in r.pending[c].seen => at = NoWindow

\* No tab is dragged to a window that has been closed.
AttachedIsOpen ==
  \A i \in DOMAIN events : events[i].type = "attached" =>
    /\ events[i].window \notin r.removed
    /\ \A j \in 1 .. (i - 1) : events[j] # Event("removed", events[i].window)

EventsOK == events \in Seq([type: {"detached", "attached", "removed"}, window: Windows])

RouterInv ==
  /\ Sound(r) /\ Placed(r, events)
  /\ at \in Windows \cup {NoWindow} /\ acked \in Windows \cup {NoWindow}
  /\ EventsOK
  /\ SeenIsReal /\ AttachedIsOpen
-----------------------------------------------------------------------------
(* What the router's methods do to its fields *)

LEMMA RouterFields ==
  ASSUME NEW s \in Router
  PROVE  /\ s.binding \in [Channels -> ChannelBinding \cup {NoBinding}]
         /\ s.channelByTab \in Channels \cup {NoChannel}
         /\ s.pending \in [Channels -> PendingRegistration]
         /\ s.port \in [Channels -> PanelPortRecord]
         /\ s.job \in [Channels -> [Kinds -> Job]]
         /\ s.tabOwner \in Channels \cup {NoChannel}
         /\ s.removed \in SUBSET Windows /\ s.next \in Nat /\ s.disposed \in BOOLEAN
BY DEF Router

LEMMA ClearedFields ==
  ASSUME NEW s \in Router, NEW c \in Channels
  PROVE  LET t == ClearActivation(s, c) IN
         /\ t \in Router
         /\ t.binding = s.binding /\ t.channelByTab = s.channelByTab
         /\ t.pending = s.pending /\ t.removed = s.removed
         /\ t.next = s.next /\ t.disposed = s.disposed
         /\ t.port[c] = [open |-> s.port[c].open, generation |-> 0, window |-> NoWindow]
         /\ t.job[c] = NoJobs
         /\ \A d \in Channels : d # c => t.port[d] = s.port[d] /\ t.job[d] = s.job[d]
         /\ t.tabOwner = IF s.tabOwner = c THEN NoChannel ELSE s.tabOwner
<1> DEFINE p == [open |-> s.port[c].open, generation |-> 0, window |-> NoWindow]
           ports == [s.port EXCEPT ![c] = p]
           jobs == [s.job EXCEPT ![c] = NoJobs]
           owner == IF s.tabOwner = c THEN NoChannel ELSE s.tabOwner
           t == ClearActivation(s, c)
<1>1. NoJobs \in [Kinds -> Job]
  BY DEF NoJobs, NoJob, Job
<1>2. /\ s.port \in [Channels -> PanelPortRecord] /\ s.job \in [Channels -> [Kinds -> Job]]
      /\ p \in PanelPortRecord /\ owner \in Channels \cup {NoChannel}
  BY RouterFields DEF PanelPortRecord
<1>3. ports \in [Channels -> PanelPortRecord] /\ jobs \in [Channels -> [Kinds -> Job]]
  BY <1>1, <1>2
<1>4. ports = [[s.port EXCEPT ![c].generation = 0] EXCEPT ![c].window = NoWindow]
  BY <1>2 DEF PanelPortRecord
<1>5. t = [[[s EXCEPT !.port = ports] EXCEPT !.job = jobs] EXCEPT !.tabOwner = owner]
  BY <1>4 DEF ClearActivation, Router
<1> HIDE DEF t, owner
<1>6. /\ ports[c] = p /\ \A d \in Channels : d # c => ports[d] = s.port[d]
      /\ jobs[c] = NoJobs /\ \A d \in Channels : d # c => jobs[d] = s.job[d]
  BY <1>2
<1> HIDE DEF ports, jobs
<1>7. /\ t \in Router
      /\ t.binding = s.binding /\ t.channelByTab = s.channelByTab
      /\ t.pending = s.pending /\ t.removed = s.removed
      /\ t.next = s.next /\ t.disposed = s.disposed
      /\ t.port = ports /\ t.job = jobs /\ t.tabOwner = owner
  BY <1>2, <1>3, <1>5 DEF Router
<1> QED BY <1>6, <1>7 DEF t, owner

LEMMA ClosedFields ==
  ASSUME NEW s \in Router, NEW c \in Channels
  PROVE  LET t == ClosePort(s, c) IN
         /\ t \in Router
         /\ t.binding = s.binding /\ t.channelByTab = s.channelByTab
         /\ t.pending = s.pending /\ t.removed = s.removed
         /\ t.next = s.next /\ t.disposed = s.disposed
         /\ t.port[c] = NoPort /\ t.job[c] = NoJobs
         /\ \A d \in Channels : d # c => t.port[d] = s.port[d] /\ t.job[d] = s.job[d]
         /\ t.tabOwner = IF s.tabOwner = c THEN NoChannel ELSE s.tabOwner
<1> DEFINE u == ClearActivation(s, c)
           ports == [u.port EXCEPT ![c] = NoPort]
           t == ClosePort(s, c)
<1>1. /\ u \in Router
      /\ u.binding = s.binding /\ u.channelByTab = s.channelByTab
      /\ u.pending = s.pending /\ u.removed = s.removed
      /\ u.next = s.next /\ u.disposed = s.disposed
      /\ u.job[c] = NoJobs
      /\ \A d \in Channels : d # c => u.port[d] = s.port[d] /\ u.job[d] = s.job[d]
      /\ u.tabOwner = IF s.tabOwner = c THEN NoChannel ELSE s.tabOwner
  BY ClearedFields
<1> HIDE DEF u
<1>2. NoPort \in PanelPortRecord
  BY DEF NoPort, PanelPortRecord
<1>3. /\ ports \in [Channels -> PanelPortRecord] /\ ports[c] = NoPort
      /\ \A d \in Channels : d # c => ports[d] = u.port[d]
  BY <1>1, <1>2, RouterFields
<1>4. t = [u EXCEPT !.port = ports]
  BY DEF ClosePort, u
<1> HIDE DEF t, ports
<1>5. /\ t \in Router /\ t.port = ports
      /\ t.binding = u.binding /\ t.channelByTab = u.channelByTab
      /\ t.pending = u.pending /\ t.removed = u.removed /\ t.job = u.job
      /\ t.next = u.next /\ t.disposed = u.disposed /\ t.tabOwner = u.tabOwner
  BY <1>1, <1>3, <1>4 DEF Router
<1> QED BY <1>1, <1>3, <1>5 DEF t

LEMMA UnboundFields ==
  ASSUME NEW s \in Router, NEW c \in Channels
  PROVE  LET t == RemoveBinding(s, c) IN
         /\ t \in Router
         /\ t.binding[c] = NoBinding
         /\ \A d \in Channels : d # c => t.binding[d] = s.binding[d]
         /\ t.channelByTab = IF s.channelByTab = c THEN NoChannel ELSE s.channelByTab
         /\ t.pending = s.pending /\ t.removed = s.removed /\ t.port = s.port
         /\ t.next = s.next /\ t.disposed = s.disposed /\ t.job = s.job
         /\ t.tabOwner = s.tabOwner
<1> DEFINE bindings == [s.binding EXCEPT ![c] = NoBinding]
           channel == IF s.channelByTab = c THEN NoChannel ELSE s.channelByTab
           t == RemoveBinding(s, c)
<1>1. /\ bindings \in [Channels -> ChannelBinding \cup {NoBinding}]
      /\ bindings[c] = NoBinding
      /\ \A d \in Channels : d # c => bindings[d] = s.binding[d]
      /\ channel \in Channels \cup {NoChannel}
  BY RouterFields
<1>2. t = [[s EXCEPT !.binding = bindings] EXCEPT !.channelByTab = channel]
  BY DEF RemoveBinding, Router
<1> HIDE DEF t, bindings, channel
<1>3. /\ t \in Router /\ t.binding = bindings /\ t.channelByTab = channel
      /\ t.pending = s.pending /\ t.removed = s.removed /\ t.port = s.port
      /\ t.next = s.next /\ t.disposed = s.disposed /\ t.job = s.job
      /\ t.tabOwner = s.tabOwner
  BY <1>1, <1>2 DEF Router
<1> QED BY <1>1, <1>3 DEF t, channel

LEMMA BoundFields ==
  ASSUME NEW s \in Router, NEW c \in Channels, NEW w \in Windows, NEW g \in Nat \ {0}
  PROVE  LET t == Bind(s, c, w, g) IN
         /\ t \in Router
         /\ t.binding[c] = [window |-> w, generation |-> g, suspended |-> FALSE]
         /\ \A d \in Channels : d # c => t.binding[d] = s.binding[d]
         /\ t.channelByTab = c
         /\ t.pending = s.pending /\ t.removed = s.removed /\ t.port = s.port
         /\ t.next = s.next /\ t.disposed = s.disposed /\ t.job = s.job
         /\ t.tabOwner = s.tabOwner
<1> DEFINE b == [window |-> w, generation |-> g, suspended |-> FALSE]
           bindings == [s.binding EXCEPT ![c] = b]
           t == Bind(s, c, w, g)
<1>1. b \in ChannelBinding
  BY DEF ChannelBinding
<1>2. t = [[s EXCEPT !.binding = bindings] EXCEPT !.channelByTab = c]
  BY DEF Bind, Router
<1> HIDE DEF t, b
<1>3. /\ bindings \in [Channels -> ChannelBinding \cup {NoBinding}]
      /\ bindings[c] = b
      /\ \A d \in Channels : d # c => bindings[d] = s.binding[d]
  BY <1>1, RouterFields
<1> HIDE DEF bindings
<1>4. /\ t \in Router /\ t.binding = bindings /\ t.channelByTab = c
      /\ t.pending = s.pending /\ t.removed = s.removed /\ t.port = s.port
      /\ t.next = s.next /\ t.disposed = s.disposed /\ t.job = s.job
      /\ t.tabOwner = s.tabOwner
  BY <1>2, <1>3 DEF Router
<1> QED BY <1>3, <1>4 DEF t, b

\* The generation that a new binding takes is not handed out again.
LEMMA NextFields ==
  ASSUME NEW s \in Router, NEW n \in Nat
  PROVE  LET t == [s EXCEPT !.next = n] IN
         /\ t \in Router /\ t.next = n
         /\ t.binding = s.binding /\ t.channelByTab = s.channelByTab
         /\ t.pending = s.pending /\ t.removed = s.removed /\ t.port = s.port
         /\ t.disposed = s.disposed /\ t.job = s.job /\ t.tabOwner = s.tabOwner
BY DEF Router

MayActivate(s, c) ==
  /\ s.port[c].open /\ ~s.binding[c].suspended
  /\ s.binding[c].generation \notin {0, s.port[c].generation}

LEMMA ReactivatedPort ==
  ASSUME NEW p \in PanelPortRecord, NEW g \in Nat, NEW w \in Windows
  PROVE  [[p EXCEPT !.generation = g] EXCEPT !.window = w]
           = [open |-> p.open, generation |-> g, window |-> w]
<1> DEFINE q == [p EXCEPT !.generation = g]
<1>1. q \in PanelPortRecord /\ q.open = p.open /\ q.generation = g
  BY DEF PanelPortRecord
<1> HIDE DEF q
<1>2. [q EXCEPT !.window = w] = [open |-> q.open, generation |-> q.generation, window |-> w]
  BY <1>1 DEF PanelPortRecord
<1> QED BY <1>1, <1>2 DEF q

LEMMA ActivatedFields ==
  ASSUME NEW s \in Router, NEW c \in Channels, MayActivate(s, c), TypeOK,
         s.tabOwner \in {c, NoChannel}
  PROVE  LET t == Activate(s, c) IN
         /\ t \in Router
         /\ t.binding = s.binding /\ t.channelByTab = s.channelByTab
         /\ t.pending = s.pending /\ t.removed = s.removed
         /\ t.next = s.next /\ t.disposed = s.disposed
         /\ t.port[c] = [open |-> TRUE, generation |-> s.binding[c].generation,
                         window |-> s.binding[c].window]
         /\ t.job[c] = [NoJobs EXCEPT !["state"] = Lookup("lookup", NoWindow)]
         /\ \A d \in Channels : d # c => t.port[d] = s.port[d] /\ t.job[d] = s.job[d]
         /\ t.tabOwner = c
<1> DEFINE b == s.binding[c]
           u == ClearActivation(s, c)
           p == [open |-> TRUE, generation |-> b.generation, window |-> b.window]
           j == [NoJobs EXCEPT !["state"] = Lookup("lookup", NoWindow)]
           ports == [u.port EXCEPT ![c] = p]
           jobs == [u.job EXCEPT ![c] = j]
           t == Activate(s, c)
<1>1. /\ u \in Router
      /\ u.binding = s.binding /\ u.channelByTab = s.channelByTab
      /\ u.pending = s.pending /\ u.removed = s.removed
      /\ u.next = s.next /\ u.disposed = s.disposed
      /\ u.port[c] = [open |-> s.port[c].open, generation |-> 0, window |-> NoWindow]
      /\ u.job[c] = NoJobs
      /\ \A d \in Channels : d # c => u.port[d] = s.port[d] /\ u.job[d] = s.job[d]
      /\ u.tabOwner = IF s.tabOwner = c THEN NoChannel ELSE s.tabOwner
  BY ClearedFields
<1> HIDE DEF u
<1>2. /\ u.tabOwner = NoChannel /\ c # NoChannel
  BY <1>1, RouterAssumption
<1>3. b \in ChannelBinding /\ p \in PanelPortRecord
  <2>1. b \in ChannelBinding
    BY RouterFields DEF MayActivate, ChannelBinding, NoBinding
  <2> QED BY <2>1 DEF ChannelBinding, PanelPortRecord
<1>4. j \in [Kinds -> Job]
  <2>1. NoJobs \in [Kinds -> Job] /\ Lookup("lookup", NoWindow) \in Job
    BY DEF TypeOK, NoJobs, NoJob, Job, Lookup
  <2> QED BY <2>1
<1>5. t = [[[u EXCEPT !.port = ports] EXCEPT !.tabOwner = c] EXCEPT !.job = jobs]
  <2>1. s.port[c].open /\ b.generation \notin {0, s.port[c].generation} /\ ~b.suspended
    BY DEF MayActivate
  <2>2. ports = [[u.port EXCEPT ![c].generation = b.generation] EXCEPT ![c].window = b.window]
    <3>1. s.port[c].open = TRUE /\ u.port \in [Channels -> PanelPortRecord]
      BY <1>1, <2>1, RouterFields DEF PanelPortRecord
    <3>2. u.port[c] \in PanelPortRecord /\ u.port[c].open = TRUE
      BY <1>1, <3>1
    <3>3. b.generation \in Nat /\ b.window \in Windows
      BY <1>3 DEF ChannelBinding
    <3> DEFINE x == u.port[c]
               q == [x EXCEPT !.generation = b.generation]
               f == [u.port EXCEPT ![c] = q]
    <3>4. [q EXCEPT !.window = b.window] = p
      BY <3>2, <3>3, ReactivatedPort
    <3>5. f[c] = q
      BY <3>1
    <3> HIDE DEF q, p
    <3>6. [f EXCEPT ![c] = [f[c] EXCEPT !.window = b.window]] = ports
      BY <3>1, <3>4, <3>5
    <3> QED BY <3>6 DEF q
  <2>3. jobs = [u.job EXCEPT ![c]["state"] = Lookup("lookup", NoWindow)]
    BY <1>1, RouterFields
  <2> QED BY <1>1, <1>2, <2>1, <2>2, <2>3 DEF Activate, u, Router
<1>6. /\ ports \in [Channels -> PanelPortRecord] /\ ports[c] = p
      /\ \A d \in Channels : d # c => ports[d] = u.port[d]
  BY <1>1, <1>3, RouterFields
<1>7. /\ jobs \in [Channels -> [Kinds -> Job]] /\ jobs[c] = j
      /\ \A d \in Channels : d # c => jobs[d] = u.job[d]
  BY <1>1, <1>4, RouterFields
<1> HIDE DEF t, ports, jobs, p, j
<1>8. /\ t \in Router /\ t.port = ports /\ t.job = jobs /\ t.tabOwner = c
      /\ t.binding = u.binding /\ t.channelByTab = u.channelByTab
      /\ t.pending = u.pending /\ t.removed = u.removed
      /\ t.next = u.next /\ t.disposed = u.disposed
  BY <1>1, <1>5, <1>6, <1>7 DEF Router
<1> QED BY <1>1, <1>6, <1>7, <1>8 DEF t, p, j
-----------------------------------------------------------------------------
(* The methods keep the fields sound *)

\* A port that its channel does not serve, though it could.
Waits(s, c) ==
  s.port[c].open /\ Bound(s, c) /\ ~s.binding[c].suspended /\ ~Active(s, c)

\* Nothing but c's activation is left of the tab's registration, nothing is
\* under way for another channel.
Ready(s, c) ==
  /\ s \in Router
  /\ OneChannel(s) /\ Generations(s) /\ BindingsUsable(s)
  /\ \A d \in Channels : d # c => ~Active(s, d) /\ s.job[d] = NoJobs
  /\ s.tabOwner \in {c, NoChannel}

LEMMA NoJobsWait == \A k \in Kinds : NoJobs[k].stage = "none"
BY DEF NoJobs, NoJob

LEMMA SoundIsReady ==
  ASSUME NEW s, NEW c \in Channels, Sound(s), s.channelByTab \in {c, NoChannel}
  PROVE  Ready(s, c)
<1>1. \A d \in Channels : Active(s, d) => d = c
  <2> SUFFICES ASSUME NEW d \in Channels, Active(s, d) PROVE d = c
    OBVIOUS
  <2>1. Bound(s, d)
    BY DEF Sound, Registered, Active, Bound
  <2> QED BY <2>1, RouterAssumption DEF Sound, OneChannel
<1>2. s.tabOwner \in {c, NoChannel}
  BY <1>1, RouterFields DEF Sound, OwnerActive
<1> QED BY <1>1, <1>2 DEF Ready, Sound, JobsInPlace

LEMMA ActivateNewly ==
  ASSUME TypeOK, NEW s, NEW c \in Channels, Ready(s, c), MayActivate(s, c)
  PROVE  LET t == Activate(s, c) IN
         /\ Sound(t) /\ Active(t, c) /\ \A ev : Placed(t, ev)
         /\ t.job[c]["command"].stage = "none"
         /\ \A d \in Channels : d # c => ~Active(t, d)
         /\ \A d \in Channels : t.port[d].open = s.port[d].open
         /\ t.binding = s.binding /\ t.channelByTab = s.channelByTab
         /\ t.pending = s.pending /\ t.removed = s.removed /\ t.disposed = s.disposed
<1> DEFINE t == Activate(s, c)
<1>1. s \in Router /\ s.tabOwner \in {c, NoChannel}
  BY DEF Ready
<1>2. /\ t \in Router
      /\ t.binding = s.binding /\ t.channelByTab = s.channelByTab
      /\ t.pending = s.pending /\ t.removed = s.removed
      /\ t.next = s.next /\ t.disposed = s.disposed
      /\ t.port[c] = [open |-> TRUE, generation |-> s.binding[c].generation,
                      window |-> s.binding[c].window]
      /\ t.job[c] = [NoJobs EXCEPT !["state"] = Lookup("lookup", NoWindow)]
      /\ \A d \in Channels : d # c => t.port[d] = s.port[d] /\ t.job[d] = s.job[d]
      /\ t.tabOwner = c
  BY <1>1, ActivatedFields
<1>3. s.port[c].open = TRUE /\ ~s.binding[c].suspended /\ s.binding[c].generation # 0
  BY <1>1, RouterFields DEF MayActivate, PanelPortRecord
<1> HIDE DEF t
<1>4. Active(t, c) /\ \A d \in Channels : d # c => ~Active(t, d)
  BY <1>2, <1>3 DEF Active, Ready
<1>5. OneChannel(t) /\ Generations(t) /\ BindingsUsable(t)
  BY <1>2 DEF Ready, OneChannel, Generations, BindingsUsable, Bound, Pending, Usable
<1>6. Registered(t) /\ OwnerActive(t)
  BY <1>2, <1>3, <1>4 DEF Registered, OwnerActive
<1>7. /\ t.job[c]["command"].stage = "none"
      /\ t.job[c]["state"] = Lookup("lookup", NoWindow)
  BY <1>2 DEF NoJobs, NoJob, Kinds
<1>8. JobsInPlace(t)
  <2>1. \A d \in Channels : d # c => t.job[d] = NoJobs
    BY <1>2 DEF Ready
  <2>2. NoJobs["command"].stage = "none"
    BY NoJobsWait DEF Kinds
  <2> QED BY <1>4, <1>7, <2>1, <2>2 DEF JobsInPlace
<1>9. \A ev : Here(t, ev, c)
  BY <1>7 DEF Here, Waiting, Lookup, Kinds
<1>10. \A ev : Placed(t, ev)
  BY <1>4, <1>9 DEF Placed
<1>11. \A d \in Channels : t.port[d].open = s.port[d].open
  <2>1. t.port[c].open = TRUE
    BY <1>2
  <2> QED BY <1>2, <1>3, <2>1
<1> QED BY <1>2, <1>4, <1>5, <1>6, <1>7, <1>8, <1>10, <1>11 DEF Sound, t

LEMMA ActivateKeeps ==
  ASSUME TypeOK, NEW s, NEW c \in Channels, Sound(s)
  PROVE  LET t == Activate(s, c) IN
         /\ Sound(t) /\ ~Waits(t, c)
         /\ \A d \in Channels : Waits(t, d) => Waits(s, d)
         /\ \A ev : Placed(s, ev) => Placed(t, ev)
         /\ t.binding = s.binding /\ t.channelByTab = s.channelByTab
         /\ t.pending = s.pending /\ t.removed = s.removed /\ t.disposed = s.disposed
<1>1. CASE MayActivate(s, c)
  <2>1. s.channelByTab = c
    BY <1>1 DEF MayActivate, Sound, OneChannel, Bound
  <2>2. Ready(s, c)
    BY <2>1, SoundIsReady
  <2>3. /\ Sound(Activate(s, c)) /\ Active(Activate(s, c), c)
        /\ \A ev : Placed(Activate(s, c), ev)
        /\ \A d \in Channels : d # c => ~Bound(Activate(s, c), d)
        /\ Activate(s, c).binding = s.binding
        /\ Activate(s, c).channelByTab = s.channelByTab
        /\ Activate(s, c).pending = s.pending /\ Activate(s, c).removed = s.removed
        /\ Activate(s, c).disposed = s.disposed
    BY <1>1, <2>1, <2>2, ActivateNewly DEF Sound, OneChannel
  <2> HIDE DEF Activate
  <2> QED BY <2>3 DEF Waits
<1>2. CASE ~ MayActivate(s, c)
  <2>1. Activate(s, c) = s
    BY <1>2 DEF Activate, MayActivate
  <2>2. ~ Waits(s, c)
    BY <1>2 DEF MayActivate, Waits, Bound, Active
  <2> QED BY <2>1, <2>2
<1> QED BY <1>1, <1>2

\* A channel takes the tab, in a window that is open, under a new generation n.
LEMMA BindReadies ==
  ASSUME NEW s, NEW c \in Channels, Sound(s), s.channelByTab \in {c, NoChannel},
         NEW w \in Windows, Usable(s, w), NEW g \in Nat \ {0},
         g # s.binding[c].generation,
         NEW n \in Nat, g < n, s.next <= n
  PROVE  LET u == [Bind(s, c, w, g) EXCEPT !.next = n] IN
         /\ Ready(u, c)
         /\ u.port[c].open => MayActivate(u, c)
         /\ u.binding[c] = [window |-> w, generation |-> g, suspended |-> FALSE]
         /\ \A d \in Channels : d # c => u.binding[d] = s.binding[d]
         /\ u.channelByTab = c /\ u.next = n
         /\ u.pending = s.pending /\ u.removed = s.removed /\ u.port = s.port
         /\ u.disposed = s.disposed /\ u.job = s.job /\ u.tabOwner = s.tabOwner
<1> DEFINE v == Bind(s, c, w, g)
           u == [v EXCEPT !.next = n]
<1>1. /\ s \in Router /\ s.next \in Nat
      /\ s.binding \in [Channels -> ChannelBinding \cup {NoBinding}]
      /\ s.pending \in [Channels -> PendingRegistration]
      /\ s.port \in [Channels -> PanelPortRecord]
  BY RouterFields DEF Sound
<1>2. /\ v \in Router
      /\ v.binding[c] = [window |-> w, generation |-> g, suspended |-> FALSE]
      /\ \A d \in Channels : d # c => v.binding[d] = s.binding[d]
      /\ v.channelByTab = c
      /\ v.pending = s.pending /\ v.removed = s.removed /\ v.port = s.port
      /\ v.next = s.next /\ v.disposed = s.disposed /\ v.job = s.job
      /\ v.tabOwner = s.tabOwner
  BY <1>1, BoundFields
<1> HIDE DEF v
<1>3. /\ u \in Router
      /\ u.binding[c] = [window |-> w, generation |-> g, suspended |-> FALSE]
      /\ \A d \in Channels : d # c => u.binding[d] = s.binding[d]
      /\ u.channelByTab = c /\ u.next = n
      /\ u.pending = s.pending /\ u.removed = s.removed /\ u.port = s.port
      /\ u.disposed = s.disposed /\ u.job = s.job /\ u.tabOwner = s.tabOwner
  BY <1>2, NextFields
<1> HIDE DEF u
<1>4. /\ \A d \in Channels : d # c => ~Bound(s, d) /\ ~Active(s, d)
      /\ \A d \in Channels : d # c => s.job[d] = NoJobs
      /\ s.tabOwner \in {c, NoChannel}
  <2>1. Ready(s, c)
    BY SoundIsReady
  <2>2. \A d \in Channels : d # c => ~Bound(s, d)
    BY RouterAssumption DEF Sound, OneChannel
  <2> QED BY <2>1, <2>2 DEF Ready
<1>5. OneChannel(u)
  BY <1>3, <1>4 DEF OneChannel, Bound
<1>6. Generations(u)
  <2>1. n # 0 /\ \A d \in Channels : u.binding[d].generation < n
    <3>1. \A d \in Channels : d # c => u.binding[d].generation = 0
      BY <1>3, <1>4 DEF Bound
    <3> QED BY <1>3, <3>1
  <2>2. ASSUME NEW d \in Channels, Pending(u, d)
        PROVE  /\ u.pending[d].bindingGeneration < u.pending[d].generation
               /\ u.pending[d].generation < n
    <3>1. /\ s.pending[d].generation \in Nat
          /\ s.pending[d].bindingGeneration < s.pending[d].generation
          /\ s.pending[d].generation < s.next
      BY <1>1, <1>3, <2>2 DEF Sound, Generations, Pending, PendingRegistration
    <3> QED BY <1>1, <1>3, <3>1
  <2> QED BY <1>3, <2>1, <2>2 DEF Generations
<1>7. BindingsUsable(u)
  BY <1>3, <1>4 DEF BindingsUsable, Bound, Usable
<1>8. Ready(u, c)
  BY <1>3, <1>4, <1>5, <1>6, <1>7 DEF Ready, Active
<1>9. u.port[c].open => MayActivate(u, c)
  <2>1. s.port[c].generation \in {0, s.binding[c].generation}
    BY DEF Sound, Registered, Active
  <2> QED BY <1>3, <2>1 DEF MayActivate
<1> QED BY <1>3, <1>8, <1>9 DEF u, v

LEMMA BindKeeps ==
  ASSUME TypeOK, NEW s, NEW c \in Channels, Sound(s), s.channelByTab \in {c, NoChannel},
         NEW w \in Windows, Usable(s, w), NEW g \in Nat \ {0},
         g # s.binding[c].generation,
         NEW n \in Nat, g < n, s.next <= n
  PROVE  LET t == Activate([Bind(s, c, w, g) EXCEPT !.next = n], c) IN
         /\ Sound(t) /\ \A ev : Placed(t, ev)
         /\ \A d \in Channels : ~Waits(t, d)
         /\ t.job[c]["command"].stage = "none"
         /\ t.pending = s.pending /\ t.removed = s.removed /\ t.disposed = s.disposed
<1> DEFINE u == [Bind(s, c, w, g) EXCEPT !.next = n]
           t == Activate(u, c)
<1>1. /\ Ready(u, c)
      /\ u.port[c].open => MayActivate(u, c)
      /\ u.binding[c] = [window |-> w, generation |-> g, suspended |-> FALSE]
      /\ \A d \in Channels : d # c => u.binding[d] = s.binding[d]
      /\ u.channelByTab = c /\ u.next = n
      /\ u.pending = s.pending /\ u.removed = s.removed /\ u.port = s.port
      /\ u.disposed = s.disposed /\ u.job = s.job /\ u.tabOwner = s.tabOwner
  BY BindReadies
<1> HIDE DEF u
<1>2. CASE u.port[c].open
  <2>1. /\ Sound(t) /\ Active(t, c) /\ \A ev : Placed(t, ev)
        /\ t.job[c]["command"].stage = "none"
        /\ \A d \in Channels : d # c => ~Active(t, d)
        /\ t.binding = u.binding /\ t.channelByTab = u.channelByTab
        /\ t.pending = u.pending /\ t.removed = u.removed /\ t.disposed = u.disposed
    BY <1>1, <1>2, ActivateNewly
  <2> HIDE DEF t
  <2>2. \A d \in Channels : d # c => ~Bound(t, d)
    BY <1>1, <2>1 DEF Sound, OneChannel
  <2>3. \A d \in Channels : ~Waits(t, d)
    BY <2>1, <2>2 DEF Waits
  <2> QED BY <1>1, <2>1, <2>3 DEF t, u
<1>3. CASE ~ u.port[c].open
  <2>1. t = u
    BY <1>3 DEF Activate
  <2>2. \A d \in Channels : ~Active(u, d)
    BY <1>1, <1>3 DEF Ready, Active, Sound, Registered
  <2>3. s.tabOwner = NoChannel
    BY <1>1, <2>2, RouterFields DEF Sound, OwnerActive, Active
  <2>4. \A d \in Channels : u.job[d] = NoJobs
    BY <1>1, <2>2 DEF Sound, JobsInPlace, Active
  <2>5. JobsInPlace(u) /\ u.job[c]["command"].stage = "none"
    <3>1. NoJobs["command"].stage = "none"
      BY NoJobsWait DEF Kinds
    <3> QED BY <2>2, <2>4, <3>1 DEF JobsInPlace
  <2>6. Sound(u)
    BY <1>1, <2>2, <2>3, <2>5 DEF Sound, Ready, Registered, OwnerActive
  <2>7. \A ev : Placed(u, ev)
    BY <2>2 DEF Placed
  <2>8. \A d \in Channels : ~Waits(u, d)
    BY <1>1, <1>3 DEF Waits, Ready, OneChannel
  <2> HIDE DEF t
  <2> QED BY <1>1, <2>1, <2>5, <2>6, <2>7, <2>8 DEF t, u
<1> QED BY <1>2, <1>3

LEMMA RebindKeeps ==
  ASSUME TypeOK, NEW s, NEW c \in Channels, Sound(s), s.channelByTab \in {c, NoChannel},
         NEW w \in Windows, Usable(s, w)
  PROVE  LET t == Rebind(s, c, w) IN
         /\ Sound(t) /\ \A ev : Placed(t, ev)
         /\ \A d \in Channels : ~Waits(t, d)
         /\ t.job[c]["command"].stage = "none"
         /\ t.pending = s.pending /\ t.removed = s.removed /\ t.disposed = s.disposed
         /\ t # s
<1> DEFINE v == Bind(s, c, w, s.next)
<1>1. /\ s \in Router /\ s.next \in Nat \ {0}
      /\ s.binding \in [Channels -> ChannelBinding \cup {NoBinding}]
      /\ s.binding[c].generation < s.next /\ s.next \in Nat
  BY RouterFields DEF Sound, Generations
<1>2. s.next < s.next + 1 /\ s.next <= s.next + 1 /\ s.next + 1 \in Nat
      /\ s.next # s.binding[c].generation
  <2>1. s.binding[c].generation \in Nat
    BY <1>1 DEF ChannelBinding, NoBinding
  <2> QED BY <1>1, <2>1
<1>3. v.next = s.next
  <2> DEFINE g == s.next
  <2>1. g \in Nat \ {0}
    BY <1>1
  <2> HIDE DEF g
  <2>2. /\ Bind(s, c, w, g) \in Router
        /\ Bind(s, c, w, g).binding[c] = [window |-> w, generation |-> g, suspended |-> FALSE]
        /\ \A d \in Channels : d # c => Bind(s, c, w, g).binding[d] = s.binding[d]
        /\ Bind(s, c, w, g).channelByTab = c
        /\ Bind(s, c, w, g).pending = s.pending
        /\ Bind(s, c, w, g).removed = s.removed
        /\ Bind(s, c, w, g).port = s.port
        /\ Bind(s, c, w, g).next = s.next
        /\ Bind(s, c, w, g).disposed = s.disposed
        /\ Bind(s, c, w, g).job = s.job /\ Bind(s, c, w, g).tabOwner = s.tabOwner
    BY <1>1, <2>1, BoundFields
  <2> QED BY <2>2 DEF g
<1>4. Rebind(s, c, w) = Activate([v EXCEPT !.next = s.next + 1], c)
  BY <1>3 DEF Rebind
<1>5. /\ Sound(Rebind(s, c, w)) /\ \A ev : Placed(Rebind(s, c, w), ev)
      /\ \A d \in Channels : ~Waits(Rebind(s, c, w), d)
      /\ Rebind(s, c, w).job[c]["command"].stage = "none"
      /\ Rebind(s, c, w).pending = s.pending /\ Rebind(s, c, w).removed = s.removed
      /\ Rebind(s, c, w).disposed = s.disposed
  BY <1>1, <1>2, <1>4, BindKeeps
<1>6. Rebind(s, c, w) # s
  <2> DEFINE u == [v EXCEPT !.next = s.next + 1]
  <2>1. /\ Ready(u, c)
        /\ u.port[c].open => MayActivate(u, c)
        /\ u.binding[c] = [window |-> w, generation |-> s.next, suspended |-> FALSE]
    BY <1>1, <1>2, BindReadies
  <2> HIDE DEF u
  <2>2. Activate(u, c).binding = u.binding
    BY <2>1, ActivateNewly DEF Activate
  <2> QED BY <1>1, <1>2, <1>4, <2>1, <2>2 DEF u
<1> QED BY <1>5, <1>6

\* What ends an activation leaves the others alone.
LEMMA ClearKeeps ==
  ASSUME NEW s, NEW c \in Channels, Sound(s)
  PROVE  LET t == ClearActivation(s, c) IN
         /\ Sound(t) /\ ~Active(t, c)
         /\ \A ev : Placed(s, ev) => Placed(t, ev)
         /\ \A d \in Channels : d # c => (Waits(t, d) <=> Waits(s, d))
         /\ t.binding = s.binding /\ t.channelByTab = s.channelByTab
         /\ t.pending = s.pending /\ t.removed = s.removed
         /\ t.next = s.next /\ t.disposed = s.disposed
<1> DEFINE t == ClearActivation(s, c)
<1>1. /\ t \in Router
      /\ t.binding = s.binding /\ t.channelByTab = s.channelByTab
      /\ t.pending = s.pending /\ t.removed = s.removed
      /\ t.next = s.next /\ t.disposed = s.disposed
      /\ t.port[c] = [open |-> s.port[c].open, generation |-> 0, window |-> NoWindow]
      /\ t.job[c] = NoJobs
      /\ \A d \in Channels : d # c => t.port[d] = s.port[d] /\ t.job[d] = s.job[d]
      /\ t.tabOwner = IF s.tabOwner = c THEN NoChannel ELSE s.tabOwner
  BY ClearedFields DEF Sound
<1> HIDE DEF t
<1>2. ~Active(t, c) /\ \A d \in Channels : d # c => (Active(t, d) <=> Active(s, d))
  BY <1>1 DEF Active
<1>3. OneChannel(t) /\ Generations(t) /\ BindingsUsable(t)
  BY <1>1 DEF Sound, OneChannel, Generations, BindingsUsable, Bound, Pending, Usable
<1>4. Registered(t) /\ OwnerActive(t)
  <2>1. Registered(t)
    BY <1>1, <1>2 DEF Sound, Registered
  <2>2. OwnerActive(t)
    BY <1>1, <1>2, RouterFields DEF Sound, OwnerActive
  <2> QED BY <2>1, <2>2
<1>5. JobsInPlace(t)
  <2>1. NoJobs["command"].stage = "none"
    BY NoJobsWait DEF Kinds
  <2> QED BY <1>1, <1>2, <2>1 DEF Sound, JobsInPlace
<1>6. \A ev : Placed(s, ev) => Placed(t, ev)
  <2> SUFFICES ASSUME NEW ev, Placed(s, ev), at # NoWindow,
                      NEW d \in Channels, Active(t, d)
               PROVE  Here(t, ev, d)
    BY DEF Placed
  <2>1. d # c /\ Here(s, ev, d)
    BY <1>2 DEF Placed
  <2> QED BY <1>1, <2>1 DEF Here, Waiting
<1>7. \A d \in Channels : d # c => (Waits(t, d) <=> Waits(s, d))
  BY <1>1, <1>2 DEF Waits, Bound
<1> QED BY <1>1, <1>2, <1>3, <1>4, <1>5, <1>6, <1>7 DEF Sound, t

LEMMA CloseKeeps ==
  ASSUME NEW s, NEW c \in Channels, Sound(s)
  PROVE  LET t == ClosePort(s, c) IN
         /\ Sound(t) /\ ~Active(t, c)
         /\ \A ev : Placed(s, ev) => Placed(t, ev)
         /\ \A d \in Channels : Waits(t, d) => Waits(s, d)
         /\ t.binding = s.binding /\ t.channelByTab = s.channelByTab
         /\ t.pending = s.pending /\ t.removed = s.removed
         /\ t.next = s.next /\ t.disposed = s.disposed
<1> DEFINE t == ClosePort(s, c)
<1>1. /\ t \in Router
      /\ t.binding = s.binding /\ t.channelByTab = s.channelByTab
      /\ t.pending = s.pending /\ t.removed = s.removed
      /\ t.next = s.next /\ t.disposed = s.disposed
      /\ t.port[c] = NoPort /\ t.job[c] = NoJobs
      /\ \A d \in Channels : d # c => t.port[d] = s.port[d] /\ t.job[d] = s.job[d]
      /\ t.tabOwner = IF s.tabOwner = c THEN NoChannel ELSE s.tabOwner
  BY ClosedFields DEF Sound
<1> HIDE DEF t
<1>2. /\ ~Active(t, c) /\ t.port[c].open = FALSE
      /\ \A d \in Channels : d # c => (Active(t, d) <=> Active(s, d))
  BY <1>1 DEF Active, NoPort
<1>3. OneChannel(t) /\ Generations(t) /\ BindingsUsable(t)
  BY <1>1 DEF Sound, OneChannel, Generations, BindingsUsable, Bound, Pending, Usable
<1>4. Registered(t) /\ OwnerActive(t)
  <2>1. Registered(t)
    BY <1>1, <1>2 DEF Sound, Registered
  <2>2. OwnerActive(t)
    BY <1>1, <1>2, RouterFields DEF Sound, OwnerActive
  <2> QED BY <2>1, <2>2
<1>5. JobsInPlace(t)
  <2>1. NoJobs["command"].stage = "none"
    BY NoJobsWait DEF Kinds
  <2> QED BY <1>1, <1>2, <2>1 DEF Sound, JobsInPlace
<1>6. \A ev : Placed(s, ev) => Placed(t, ev)
  <2> SUFFICES ASSUME NEW ev, Placed(s, ev), at # NoWindow,
                      NEW d \in Channels, Active(t, d)
               PROVE  Here(t, ev, d)
    BY DEF Placed
  <2>1. d # c /\ Here(s, ev, d)
    BY <1>2 DEF Placed
  <2> QED BY <1>1, <2>1 DEF Here, Waiting
<1>7. \A d \in Channels : Waits(t, d) => Waits(s, d)
  BY <1>1, <1>2 DEF Waits, Bound
<1> QED BY <1>1, <1>2, <1>3, <1>4, <1>5, <1>6, <1>7 DEF Sound, t

LEMMA UnbindKeeps ==
  ASSUME NEW s, NEW c \in Channels, Sound(s), ~Active(s, c)
  PROVE  LET t == RemoveBinding(s, c) IN
         /\ Sound(t) /\ ~Bound(t, c) /\ t.channelByTab # c
         /\ s.channelByTab = c => t.channelByTab = NoChannel
         /\ \A ev : Placed(s, ev) => Placed(t, ev)
         /\ \A d \in Channels : Waits(t, d) => Waits(s, d)
         /\ \A d \in Channels : d # c => t.binding[d] = s.binding[d]
         /\ t.port = s.port /\ t.pending = s.pending /\ t.removed = s.removed
         /\ t.next = s.next /\ t.disposed = s.disposed
<1> DEFINE t == RemoveBinding(s, c)
<1>1. /\ t \in Router
      /\ t.binding[c] = NoBinding
      /\ \A d \in Channels : d # c => t.binding[d] = s.binding[d]
      /\ t.channelByTab = IF s.channelByTab = c THEN NoChannel ELSE s.channelByTab
      /\ t.pending = s.pending /\ t.removed = s.removed /\ t.port = s.port
      /\ t.next = s.next /\ t.disposed = s.disposed /\ t.job = s.job
      /\ t.tabOwner = s.tabOwner
  BY UnboundFields DEF Sound
<1>2. s \in Router /\ s.next \in Nat /\ s.next # 0
  BY RouterFields DEF Sound, Generations
<1> HIDE DEF t
<1>3. ~Bound(t, c) /\ t.binding[c].generation = 0 /\ t.channelByTab # c
  BY <1>1, RouterAssumption DEF Bound, NoBinding
<1>4. OneChannel(t)
  BY <1>1, <1>3, RouterAssumption DEF Sound, OneChannel, Bound
<1>5. Generations(t)
  BY <1>1, <1>2, <1>3 DEF Sound, Generations, Pending
<1>6. BindingsUsable(t)
  BY <1>1, <1>3 DEF Sound, BindingsUsable, Bound, Usable
<1>7. Registered(t) /\ OwnerActive(t) /\ JobsInPlace(t)
  BY <1>1 DEF Sound, Registered, OwnerActive, JobsInPlace, Active
<1>8. \A ev : Placed(s, ev) => Placed(t, ev)
  BY <1>1 DEF Placed, Here, Waiting, Active
<1>9. \A d \in Channels : Waits(t, d) => Waits(s, d)
  BY <1>1, <1>3 DEF Waits, Bound, Active
<1> QED BY <1>1, <1>3, <1>4, <1>5, <1>6, <1>7, <1>8, <1>9 DEF Sound, t

\* A lookup for an active panel has been answered: it stays, moves or ends.
LEMMA RefreshKeeps ==
  ASSUME TypeOK, NEW s, NEW c \in Channels, Sound(s), Active(s, c),
         NEW w \in Windows \cup {NoWindow}
  PROVE  LET t == Refresh(s, c, w) IN
         /\ Sound(t)
         /\ \A d \in Channels : Waits(t, d) => Waits(s, d)
         /\ \A ev : (w = s.port[c].window => Placed(s, ev)) => Placed(t, ev)
         /\ t = s => Usable(s, w) /\ w = s.port[c].window
         /\ t # s => t.job[c]["command"].stage = "none"
         /\ t.pending = s.pending /\ t.removed = s.removed /\ t.disposed = s.disposed
<1> DEFINE t == Refresh(s, c, w)
<1>1. /\ s.port[c].window = s.binding[c].window /\ Bound(s, c) /\ s.channelByTab = c
      /\ ~s.binding[c].suspended
  BY DEF Sound, Registered, OneChannel, Active, Bound
<1>2. \A d \in Channels : Active(s, d) => d = c
  BY <1>1, SoundIsReady DEF Ready
<1>3. CASE ~Usable(s, w)
  <2> DEFINE u == ClearActivation(RemoveBinding(s, c), c)
             v == RemoveBinding(s, c)
             x == ClearActivation(s, c)
  <2>1. t = u
    BY <1>3 DEF Refresh
  <2>2. /\ s \in Router /\ v \in Router
        /\ v.binding[c] = NoBinding
        /\ \A d \in Channels : d # c => v.binding[d] = s.binding[d]
        /\ v.channelByTab = IF s.channelByTab = c THEN NoChannel ELSE s.channelByTab
        /\ v.pending = s.pending /\ v.removed = s.removed /\ v.port = s.port
        /\ v.next = s.next /\ v.disposed = s.disposed /\ v.job = s.job
        /\ v.tabOwner = s.tabOwner
    BY UnboundFields DEF Sound
  <2> HIDE DEF v
  <2>3. /\ u \in Router
        /\ u.binding = v.binding /\ u.channelByTab = v.channelByTab
        /\ u.pending = v.pending /\ u.removed = v.removed
        /\ u.next = v.next /\ u.disposed = v.disposed
        /\ u.port[c] = [open |-> v.port[c].open, generation |-> 0, window |-> NoWindow]
        /\ u.job[c] = NoJobs
        /\ \A d \in Channels : d # c => u.port[d] = v.port[d] /\ u.job[d] = v.job[d]
        /\ u.tabOwner = IF v.tabOwner = c THEN NoChannel ELSE v.tabOwner
    <3>1. u = ClearActivation(v, c)
      BY DEF v
    <3> QED BY <2>2, <3>1, ClearedFields
  <2> HIDE DEF u
  <2>4. \A d \in Channels : ~Active(u, d)
    BY <1>2, <2>2, <2>3 DEF Active
  <2>5. \A d \in Channels : ~Bound(u, d)
    BY <1>1, <2>2, <2>3, RouterAssumption DEF Sound, OneChannel, Bound, NoBinding
  <2>6. OneChannel(u)
    BY <1>1, <2>2, <2>3, <2>5, RouterAssumption DEF OneChannel
  <2>7. Generations(u)
    <3>1. s.next \in Nat /\ s.next # 0
      BY RouterFields DEF Sound, Generations
    <3>2. \A d \in Channels : u.binding[d].generation = 0
      BY <2>5 DEF Bound
    <3> QED BY <2>2, <2>3, <3>1, <3>2 DEF Sound, Generations, Pending
  <2>8. u.tabOwner = NoChannel
    BY <1>2, <2>2, <2>3, RouterFields DEF Sound, OwnerActive
  <2>9. \A d \in Channels : u.job[d] = NoJobs
    BY <1>2, <2>2, <2>3 DEF Sound, JobsInPlace
  <2>10. JobsInPlace(u)
    BY <2>9 DEF JobsInPlace, NoJobs, NoJob, Kinds
  <2>11. Sound(u)
    BY <2>3, <2>4, <2>5, <2>6, <2>7, <2>8, <2>10
       DEF Sound, BindingsUsable, Registered, OwnerActive
  <2>13. u.job[c]["command"].stage = "none"
    BY <2>9, NoJobsWait DEF Kinds
  <2>12. /\ \A ev : Placed(u, ev)
         /\ \A d \in Channels : ~Waits(u, d)
         /\ u # s
    BY <2>4, <2>5 DEF Placed, Waits
  <2> QED BY <2>1, <2>2, <2>3, <2>11, <2>12, <2>13
<1>4. CASE Usable(s, w) /\ w = s.binding[c].window
  <2>1. t = s
    BY <1>4 DEF Refresh
  <2> QED BY <1>1, <1>4, <2>1
<1>5. CASE Usable(s, w) /\ w # s.binding[c].window
  <2>1. t = Rebind(s, c, w) /\ w \in Windows
    BY <1>5 DEF Refresh, Usable
  <2> QED BY <1>1, <1>5, <2>1, RebindKeeps
<1> QED BY <1>3, <1>4, <1>5
-----------------------------------------------------------------------------
(* Single fields *)

LEMMA JobKeeps ==
  ASSUME NEW s, NEW c \in Channels, NEW k \in Kinds, NEW j \in Job,
         Sound(s), Active(s, c),
         k = "command" /\ j.stage \in {"acting", "recheck"} => j.window = s.port[c].window
  PROVE  LET t == [s EXCEPT !.job[c][k] = j] IN
         /\ Sound(t) /\ t.job[c][k] = j
         /\ t.binding = s.binding /\ t.channelByTab = s.channelByTab
         /\ t.pending = s.pending /\ t.port = s.port /\ t.tabOwner = s.tabOwner
         /\ t.removed = s.removed /\ t.next = s.next /\ t.disposed = s.disposed
         /\ \A ev : /\ Placed(s, ev)
                    /\ ~Waiting(s, c, k) \/ s.port[c].window \in s.job[c][k].seen
                    => Placed(t, ev)
<1> DEFINE own == [s.job[c] EXCEPT ![k] = j]
           jobs == [s.job EXCEPT ![c] = own]
           t == [s EXCEPT !.job[c][k] = j]
<1>1. s \in Router /\ s.job \in [Channels -> [Kinds -> Job]]
  BY RouterFields DEF Sound
<1>2. /\ own \in [Kinds -> Job] /\ own[k] = j
      /\ \A l \in Kinds : l # k => own[l] = s.job[c][l]
  BY <1>1
<1>3. t = [s EXCEPT !.job = jobs]
  OBVIOUS
<1> HIDE DEF own
<1>4. /\ jobs \in [Channels -> [Kinds -> Job]] /\ jobs[c] = own
      /\ \A d \in Channels : d # c => jobs[d] = s.job[d]
  BY <1>1, <1>2
<1> HIDE DEF t, jobs
<1>5. /\ t \in Router /\ t.job = jobs
      /\ t.binding = s.binding /\ t.channelByTab = s.channelByTab
      /\ t.pending = s.pending /\ t.port = s.port /\ t.tabOwner = s.tabOwner
      /\ t.removed = s.removed /\ t.next = s.next /\ t.disposed = s.disposed
  BY <1>1, <1>3, <1>4 DEF Router
<1>6. OneChannel(t) /\ Generations(t) /\ BindingsUsable(t) /\ Registered(t) /\ OwnerActive(t)
  BY <1>5 DEF Sound, OneChannel, Generations, BindingsUsable, Registered, OwnerActive,
              Bound, Pending, Usable, Active
<1>7. JobsInPlace(t)
  <2>1. CASE k = "command"
    BY <1>2, <1>4, <1>5, <2>1 DEF Sound, JobsInPlace, Active
  <2>2. CASE k # "command"
    <3>1. t.job[c]["command"] = s.job[c]["command"]
      BY <1>2, <1>4, <1>5, <2>2 DEF Kinds
    <3> QED BY <1>4, <1>5, <3>1 DEF Sound, JobsInPlace, Active
  <2> QED BY <2>1, <2>2
<1>8. ASSUME NEW ev, Placed(s, ev),
             ~Waiting(s, c, k) \/ s.port[c].window \in s.job[c][k].seen
      PROVE  Placed(t, ev)
  <2> SUFFICES ASSUME at # NoWindow, NEW d \in Channels, Active(t, d)
               PROVE  Here(t, ev, d)
    BY DEF Placed
  <2>1. Here(s, ev, d)
    BY <1>5, <1>8 DEF Placed, Active
  <2>2. ASSUME NEW l \in Kinds, Waiting(s, d, l), s.port[d].window \notin s.job[d][l].seen
        PROVE  Waiting(t, d, l) /\ t.port[d].window \notin t.job[d][l].seen
    <3>1. d # c \/ l # k
      BY <1>8, <2>2
    <3>2. t.job[d][l] = s.job[d][l]
      BY <1>2, <1>4, <1>5, <3>1
    <3> QED BY <1>5, <2>2, <3>2 DEF Waiting
  <2> QED BY <1>5, <2>1, <2>2 DEF Here
<1> QED BY <1>2, <1>4, <1>5, <1>6, <1>7, <1>8 DEF Sound, t

\* A registration begins, or is over.
LEMMA PendingKeeps ==
  ASSUME NEW s, NEW t \in Router, NEW c \in Channels, NEW p \in PendingRegistration,
         NEW n \in Nat, Sound(s), s.next <= n,
         p.generation # 0 => p.bindingGeneration < p.generation /\ p.generation < n,
         t.pending[c] = p, t.next = n,
         \A d \in Channels : d # c => t.pending[d] = s.pending[d],
         t.binding = s.binding, t.channelByTab = s.channelByTab, t.port = s.port,
         t.removed = s.removed, t.job = s.job, t.tabOwner = s.tabOwner
  PROVE  Sound(t) /\ \A ev : Placed(s, ev) => Placed(t, ev)
<1>1. /\ s \in Router /\ s.next \in Nat /\ s.next # 0
      /\ s.pending \in [Channels -> PendingRegistration]
      /\ s.binding \in [Channels -> ChannelBinding \cup {NoBinding}]
  BY RouterFields DEF Sound, Generations
<1>5. /\ OneChannel(t) /\ BindingsUsable(t) /\ Registered(t) /\ OwnerActive(t)
      /\ JobsInPlace(t)
  BY DEF Sound, OneChannel, BindingsUsable, Registered, OwnerActive, JobsInPlace,
              Bound, Usable, Active
<1>6. Generations(t)
  <2>1. \A d \in Channels : t.binding[d].generation < n
    <3>1. \A d \in Channels : s.binding[d].generation \in Nat
      BY <1>1 DEF ChannelBinding, NoBinding
    <3> QED BY <1>1, <3>1 DEF Sound, Generations
  <2>2. ASSUME NEW d \in Channels, Pending(t, d)
        PROVE  /\ t.pending[d].bindingGeneration < t.pending[d].generation
               /\ t.pending[d].generation < n
    <3>1. CASE d = c
      BY <2>2, <3>1 DEF Pending
    <3>2. CASE d # c
      <4>1. /\ t.pending[d] = s.pending[d] /\ s.pending[d].generation \in Nat
        BY <1>1, <3>2 DEF PendingRegistration
      <4>2. /\ s.pending[d].bindingGeneration < s.pending[d].generation
            /\ s.pending[d].generation < s.next
        BY <2>2, <4>1 DEF Sound, Generations, Pending
      <4> QED BY <1>1, <4>1, <4>2
    <3> QED BY <3>1, <3>2
  <2>3. n # 0
    BY <1>1
  <2> QED BY <2>1, <2>2, <2>3 DEF Generations
<1>7. \A ev : Placed(s, ev) => Placed(t, ev)
  BY DEF Placed, Here, Waiting, Active
<1> QED BY <1>5, <1>6, <1>7 DEF Sound
-----------------------------------------------------------------------------
(* Steps of the panels *)

\* A registration was under way whose answer may name a window that is gone.
MayFail(c) == Pending(r, c) /\ r.pending[c].seen \cap r.removed # {}

NoneForgotten ==
  \A c \in Channels : Neglected(c)' => Neglected(c) \/ MayFail(c)

LEMMA InvTypes ==
  ASSUME RouterInv
  PROVE  TypeOK /\ Sound(r) /\ r \in Router
BY DEF RouterInv, Sound, TypeOK, EventsOK

\* What a step of a panel has to do.
LEMMA PanelStepKeeps ==
  ASSUME RouterInv, UNCHANGED <<at, events>>, acked' \in Windows \cup {NoWindow},
         Sound(r'), Placed(r', events), r'.removed = r.removed,
         \A c \in Channels : NoWindow \in r'.pending[c].seen => at = NoWindow,
         \A c \in Channels :
           Waits(r', c) /\ ~Pending(r', c) =>
             (Waits(r, c) /\ ~Pending(r, c)) \/ MayFail(c) \/ at = NoWindow
  PROVE  RouterInv' /\ NoneForgotten
<1>1. Sound(r)' /\ SeenIsReal'
  BY DEF SeenIsReal
<1>2. Placed(r, events)'
  BY DEF Placed, Here, Event, Waiting, Active
<1>3. EventsOK' /\ AttachedIsOpen'
  BY DEF RouterInv, EventsOK, AttachedIsOpen, Event
<1>4. NoneForgotten
  BY DEF NoneForgotten, Neglected, Waits, Bound, Active, Pending
<1> QED BY <1>1, <1>2, <1>3, <1>4 DEF RouterInv

LEMMA SeenFacts ==
  ASSUME RouterInv, NEW c \in Channels
  PROVE  /\ r.pending[c] \in PendingRegistration
         /\ r.pending[c].seen \subseteq Windows \cup {NoWindow}
         /\ r.binding[c] \in ChannelBinding \cup {NoBinding}
         /\ r.port[c] \in PanelPortRecord
         /\ \A k \in Kinds : r.job[c][k] \in Job
                             /\ r.job[c][k].seen \subseteq Windows \cup {NoWindow}
                             /\ r.job[c][k].window \in Windows \cup {NoWindow}
BY InvTypes, RouterFields DEF PendingRegistration, Job

LEMMA RegisterKeeps ==
  ASSUME RouterInv, NEW c \in Channels, RegisterDevtools(c)
  PROVE  RouterInv' /\ NoneForgotten
<1> DEFINE n == r.next + 1
           p == [generation |-> r.next, bindingGeneration |-> r.binding[c].generation,
                 detached |-> NoWindow, seen |-> {at}]
<1>1. /\ TypeOK /\ Sound(r) /\ r \in Router /\ r.next \in Nat /\ at # NoWindow
      /\ at \in Windows \cup {NoWindow} /\ Placed(r, events)
  BY InvTypes, RouterFields DEF RegisterDevtools, MayAsk, TypeOK, RouterInv
<1>2. p \in PendingRegistration /\ p.bindingGeneration < p.generation
  <2>1. r.binding[c].generation \in Nat /\ r.binding[c].generation < r.next
    BY <1>1, SeenFacts DEF Sound, Generations, ChannelBinding, NoBinding
  <2> QED BY <1>1, <2>1 DEF PendingRegistration
<1>3. /\ r' \in Router /\ r'.next = n
      /\ r'.pending = [r.pending EXCEPT ![c] = p]
      /\ r'.binding = r.binding /\ r'.channelByTab = r.channelByTab
      /\ r'.port = r.port /\ r'.removed = r.removed /\ r'.job = r.job
      /\ r'.tabOwner = r.tabOwner
  <2> DEFINE ps == [r.pending EXCEPT ![c] = p]
  <2>1. ps \in [Channels -> PendingRegistration]
    BY <1>1, <1>2, RouterFields
  <2>2. r' = [r EXCEPT !.next = n, !.pending = ps]
    BY DEF RegisterDevtools
  <2>4. n \in Nat
    BY <1>1
  <2> HIDE DEF ps, p, n
  <2>3. /\ r' \in Router /\ r'.next = n /\ r'.pending = ps
        /\ r'.binding = r.binding /\ r'.channelByTab = r.channelByTab
        /\ r'.port = r.port /\ r'.removed = r.removed /\ r'.job = r.job
        /\ r'.tabOwner = r.tabOwner
    BY <1>1, <2>1, <2>2, <2>4 DEF Router
  <2> QED BY <2>3 DEF ps
<1>4. p.generation = r.next /\ p.seen = {at}
  OBVIOUS
<1> HIDE DEF p
<1>5. /\ n \in Nat /\ r.next <= n
      /\ p.generation # 0 => p.bindingGeneration < p.generation /\ p.generation < n
  BY <1>1, <1>2, <1>4
<1> HIDE DEF n
<1>7. /\ r'.pending[c] = p
      /\ \A d \in Channels : d # c => r'.pending[d] = r.pending[d]
  BY <1>1, <1>3, RouterFields
<1>6. Sound(r') /\ Placed(r', events)
  <2>1. /\ r' \in Router /\ r'.next = n
        /\ r'.binding = r.binding /\ r'.channelByTab = r.channelByTab
        /\ r'.port = r.port /\ r'.removed = r.removed /\ r'.job = r.job
        /\ r'.tabOwner = r.tabOwner
    BY <1>3
  <2>2. Sound(r') /\ \A ev : Placed(r, ev) => Placed(r', ev)
    BY <1>1, <1>2, <1>5, <1>7, <2>1, PendingKeeps
  <2> QED BY <1>1, <2>2
<1>8. \A d \in Channels : NoWindow \in r'.pending[d].seen => at = NoWindow
  BY <1>4, <1>7 DEF RouterInv, SeenIsReal
<1>9. \A d \in Channels : Waits(r', d) /\ ~Pending(r', d) => Waits(r, d) /\ ~Pending(r, d)
  <2>1. Pending(r', c)
    BY <1>4, <1>7, <1>1 DEF Pending, Sound, Generations
  <2> QED BY <1>3, <1>7, <2>1 DEF Waits, Pending, Bound, Active
<1>10. UNCHANGED <<at, events>> /\ acked' = NoWindow
  BY DEF RegisterDevtools, Unacknowledged
<1> QED BY <1>3, <1>6, <1>8, <1>9, <1>10, PanelStepKeeps

\* The fields once a registration is over, before its answer is heeded.
LEMMA SettledFields ==
  ASSUME RouterInv, NEW c \in Channels
  PROVE  LET s == [r EXCEPT !.pending[c] = NoPending] IN
         /\ Sound(s) /\ Placed(s, events)
         /\ s.pending[c] = NoPending
         /\ \A d \in Channels : d # c => s.pending[d] = r.pending[d]
         /\ s.binding = r.binding /\ s.channelByTab = r.channelByTab
         /\ s.port = r.port /\ s.removed = r.removed /\ s.next = r.next
         /\ s.disposed = r.disposed
<1> DEFINE s == [r EXCEPT !.pending[c] = NoPending]
<1>1. /\ TypeOK /\ Sound(r) /\ r \in Router /\ r.next \in Nat /\ Placed(r, events)
      /\ r.pending \in [Channels -> PendingRegistration]
  BY InvTypes, RouterFields DEF RouterInv
<1>2. NoPending \in PendingRegistration /\ NoPending.generation = 0
  BY DEF NoPending, PendingRegistration
<1> DEFINE ps == [r.pending EXCEPT ![c] = NoPending]
<1>3. /\ ps \in [Channels -> PendingRegistration] /\ ps[c] = NoPending
      /\ \A d \in Channels : d # c => ps[d] = r.pending[d]
  BY <1>1, <1>2
<1>4. s = [r EXCEPT !.pending = ps]
  OBVIOUS
<1> HIDE DEF s, ps
<1>5. /\ s \in Router /\ s.pending = ps
      /\ s.binding = r.binding /\ s.channelByTab = r.channelByTab
      /\ s.port = r.port /\ s.removed = r.removed /\ s.job = r.job
      /\ s.next = r.next /\ s.disposed = r.disposed /\ s.tabOwner = r.tabOwner
  BY <1>1, <1>3, <1>4 DEF Router
<1>6. r.next <= r.next
  BY <1>1
<1>7. s.pending[c] = NoPending /\ \A d \in Channels : d # c => s.pending[d] = r.pending[d]
  BY <1>3, <1>5
<1>8. Sound(s) /\ Placed(s, events)
  BY <1>1, <1>2, <1>5, <1>6, <1>7, PendingKeeps
<1> QED BY <1>5, <1>7, <1>8 DEF s

\* A registration is over: what its answer does to the fields that remain.
LEMMA AnswerKeeps ==
  ASSUME RouterInv, NEW c \in Channels, Pending(r, c),
         UNCHANGED <<at, events>>, acked' = NoWindow,
         NEW s, s = [r EXCEPT !.pending[c] = NoPending],
         Sound(r'), Placed(r', events),
         r'.pending = s.pending, r'.removed = s.removed,
         \A d \in Channels : d # c /\ Waits(r', d) => Waits(s, d),
         Waits(r', c) => MayFail(c) \/ at = NoWindow
  PROVE  RouterInv' /\ NoneForgotten
<1>1. /\ s.pending[c] = NoPending
      /\ \A d \in Channels : d # c => s.pending[d] = r.pending[d]
      /\ s.binding = r.binding /\ s.port = r.port /\ s.removed = r.removed
  BY SettledFields
<1>2. \A d \in Channels : NoWindow \in r'.pending[d].seen => at = NoWindow
  BY <1>1 DEF RouterInv, SeenIsReal, NoPending
<1>3. \A d \in Channels :
        Waits(r', d) /\ ~Pending(r', d) =>
          (Waits(r, d) /\ ~Pending(r, d)) \/ MayFail(d) \/ at = NoWindow
  BY <1>1 DEF Waits, Pending, Bound, Active
<1> QED BY <1>1, <1>2, <1>3, PanelStepKeeps

LEMMA OvertakenKeeps ==
  ASSUME RouterInv, NEW c \in Channels, Pending(r, c),
         NEW w \in r.pending[c].seen, RegistrationOvertaken(c, w), Unacknowledged
  PROVE  RouterInv' /\ NoneForgotten
<1> DEFINE s == [r EXCEPT !.pending[c] = NoPending]
<1>1. /\ Sound(s) /\ Placed(s, events)
      /\ s.binding = r.binding /\ s.channelByTab = r.channelByTab
      /\ s.removed = r.removed /\ TypeOK
      /\ UNCHANGED <<at, events>> /\ acked' = NoWindow
  BY SettledFields, InvTypes DEF Unacknowledged
<1>2. s.channelByTab = c
  BY <1>1 DEF RegistrationOvertaken, RouterInv, Sound, OneChannel
<1>3. CASE r' = Rebind(s, c, w) /\ Usable(r, w)
  <2>1. w \in Windows /\ Usable(s, w)
    BY <1>1, <1>3 DEF Usable
  <2> HIDE DEF s
  <2>2. /\ Sound(r') /\ \A ev : Placed(r', ev)
        /\ \A d \in Channels : ~Waits(r', d)
        /\ r'.pending = s.pending /\ r'.removed = s.removed
    BY <1>1, <1>2, <1>3, <2>1, RebindKeeps
  <2>3. s = [r EXCEPT !.pending[c] = NoPending]
    BY DEF s
  <2> QED BY <1>1, <2>2, <2>3, AnswerKeeps
<1>4. CASE r' = Activate(s, c)
  <2>3. s = [r EXCEPT !.pending[c] = NoPending]
    OBVIOUS
  <2> HIDE DEF s
  <2>2. /\ Sound(r') /\ \A ev : Placed(s, ev) => Placed(r', ev)
        /\ \A d \in Channels : Waits(r', d) => Waits(s, d)
        /\ ~Waits(r', c)
        /\ r'.pending = s.pending /\ r'.removed = s.removed
    BY <1>1, <1>4, ActivateKeeps
  <2> QED BY <1>1, <2>2, <2>3, AnswerKeeps
<1> QED BY <1>3, <1>4 DEF RegistrationOvertaken

LEMMA ConfirmedKeeps ==
  ASSUME RouterInv, NEW c \in Channels, Pending(r, c),
         NEW w \in r.pending[c].seen, RegistrationConfirmed(c, w), Unacknowledged
  PROVE  RouterInv' /\ NoneForgotten
<1> DEFINE s == [r EXCEPT !.pending[c] = NoPending]
           g == r.pending[c].generation
<1>1. /\ Sound(s) /\ Placed(s, events)
      /\ s.binding = r.binding /\ s.channelByTab = r.channelByTab
      /\ s.removed = r.removed /\ s.next = r.next /\ TypeOK
      /\ UNCHANGED <<at, events>> /\ acked' = NoWindow
  BY SettledFields, InvTypes DEF Unacknowledged
<1>2. s.channelByTab = c
  BY <1>1 DEF RegistrationConfirmed, RouterInv, Sound, OneChannel
<1>3. w \in Windows /\ Usable(s, w)
  BY <1>1 DEF RegistrationConfirmed, Usable
<1>4. /\ g \in Nat \ {0} /\ g # s.binding[c].generation /\ g < s.next
      /\ s.next \in Nat /\ s.next <= s.next
  <2>1. /\ r.pending[c].generation \in Nat /\ r.pending[c].generation # 0
        /\ r.pending[c].bindingGeneration \in Nat /\ r.next \in Nat
    BY InvTypes, SeenFacts, RouterFields DEF PendingRegistration, Pending
  <2>2. /\ r.pending[c].bindingGeneration < r.pending[c].generation
        /\ r.pending[c].generation < r.next
        /\ r.pending[c].bindingGeneration = r.binding[c].generation
    BY DEF RouterInv, Sound, Generations, RegistrationConfirmed
  <2> QED BY <1>1, <2>1, <2>2
<1>5. r' = Activate(s, c) \/ r' = Activate(Bind(s, c, w, g), c)
  BY DEF RegistrationConfirmed
<1>6. s = [r EXCEPT !.pending[c] = NoPending]
  OBVIOUS
<1> HIDE DEF s, g
<1>7. CASE r' = Activate(s, c)
  <2>1. /\ Sound(r') /\ \A ev : Placed(s, ev) => Placed(r', ev)
        /\ \A d \in Channels : Waits(r', d) => Waits(s, d)
        /\ ~Waits(r', c)
        /\ r'.pending = s.pending /\ r'.removed = s.removed
    BY <1>1, <1>7, ActivateKeeps
  <2> QED BY <1>1, <1>6, <2>1, AnswerKeeps
<1>8. CASE r' = Activate(Bind(s, c, w, g), c)
  <2> DEFINE v == Bind(s, c, w, g)
  <2>1. s \in Router
    BY <1>1 DEF Sound
  <2>2. /\ v \in Router
        /\ v.binding[c] = [window |-> w, generation |-> g, suspended |-> FALSE]
        /\ \A d \in Channels : d # c => v.binding[d] = s.binding[d]
        /\ v.channelByTab = c
        /\ v.pending = s.pending /\ v.removed = s.removed /\ v.port = s.port
        /\ v.next = s.next /\ v.disposed = s.disposed /\ v.job = s.job
        /\ v.tabOwner = s.tabOwner
    BY <1>3, <1>4, <2>1, BoundFields
  <2>3. v = [v EXCEPT !.next = s.next]
    <3> HIDE DEF v
    <3> QED BY <2>2 DEF Router
  <2>4. r' = Activate([v EXCEPT !.next = s.next], c)
    BY <1>8, <2>3
  <2>5. /\ Sound(r') /\ \A ev : Placed(r', ev)
        /\ \A d \in Channels : ~Waits(r', d)
        /\ r'.pending = s.pending /\ r'.removed = s.removed
    BY <1>1, <1>2, <1>3, <1>4, <2>4, BindKeeps
  <2> QED BY <1>1, <1>6, <2>5, AnswerKeeps
<1> QED BY <1>5, <1>7, <1>8

LEMMA RegistrationBindsKeeps ==
  ASSUME RouterInv, NEW c \in Channels, Pending(r, c),
         NEW w \in r.pending[c].seen, RegistrationBinds(c, w), Unacknowledged
  PROVE  RouterInv' /\ NoneForgotten
<1> DEFINE s == [r EXCEPT !.pending[c] = NoPending]
           g == r.pending[c].generation
           other == r.channelByTab
           q == ClosePort(s, other)
           superseded == RemoveBinding(q, other)
           x == IF other = NoChannel THEN s ELSE superseded
<1>1. /\ Sound(s) /\ s.pending[c] = NoPending
      /\ s.binding = r.binding /\ s.channelByTab = r.channelByTab
      /\ s.removed = r.removed /\ s.next = r.next /\ TypeOK
      /\ UNCHANGED <<at, events>> /\ acked' = NoWindow
  BY SettledFields, InvTypes DEF Unacknowledged
<1>2. ~Bound(r, c) /\ w \in Windows /\ Usable(r, w)
      /\ r' = Activate(Bind(x, c, w, g), c)
  BY DEF RegistrationBinds, Usable
<1>3. s = [r EXCEPT !.pending[c] = NoPending]
  OBVIOUS
<1>4. g \in Nat \ {0} /\ g < r.next /\ r.next \in Nat /\ r.next <= r.next
  BY InvTypes, SeenFacts, RouterFields
     DEF PendingRegistration, Pending, RouterInv, Sound, Generations
<1> HIDE DEF s, g
<1>5. /\ Sound(x) /\ x.channelByTab = NoChannel /\ x.binding[c].generation = 0
      /\ x.removed = s.removed /\ x.next = s.next /\ x.pending = s.pending
  <2>1. CASE other = NoChannel
    BY <1>1, <1>2, <2>1 DEF Bound
  <2>2. CASE other # NoChannel
    <3>1. other \in Channels /\ Bound(r, other) /\ other # c
      <4>1. other \in Channels
        BY <2>2, InvTypes, RouterFields
      <4> QED BY <1>2, <4>1 DEF RouterInv, Sound, OneChannel
    <3>2. /\ Sound(q) /\ ~Active(q, other)
          /\ q.binding = s.binding /\ q.channelByTab = s.channelByTab
          /\ q.pending = s.pending /\ q.removed = s.removed /\ q.next = s.next
      BY <1>1, <3>1, CloseKeeps
    <3> HIDE DEF q
    <3>3. /\ Sound(superseded) /\ superseded.channelByTab = NoChannel
          /\ \A d \in Channels : d # other => superseded.binding[d] = q.binding[d]
          /\ superseded.pending = q.pending /\ superseded.removed = q.removed
          /\ superseded.next = q.next
      BY <1>1, <3>1, <3>2, UnbindKeeps
    <3>4. superseded.binding[c].generation = 0
      BY <1>1, <1>2, <3>1, <3>2, <3>3 DEF Bound
    <3> HIDE DEF superseded
    <3> QED BY <2>2, <3>2, <3>3, <3>4
  <2> QED BY <2>1, <2>2
<1> HIDE DEF x
<1> DEFINE v == Bind(x, c, w, g)
<1>6. x \in Router /\ Usable(x, w)
  BY <1>1, <1>2, <1>5 DEF Sound, Usable
<1>7. /\ v \in Router
      /\ v.binding[c] = [window |-> w, generation |-> g, suspended |-> FALSE]
      /\ \A d \in Channels : d # c => v.binding[d] = x.binding[d]
      /\ v.channelByTab = c
      /\ v.pending = x.pending /\ v.removed = x.removed /\ v.port = x.port
      /\ v.next = x.next /\ v.disposed = x.disposed /\ v.job = x.job
      /\ v.tabOwner = x.tabOwner
  BY <1>2, <1>4, <1>6, BoundFields
<1>8. v = [v EXCEPT !.next = x.next]
  <2> HIDE DEF v
  <2> QED BY <1>7 DEF Router
<1>9. r' = Activate([v EXCEPT !.next = x.next], c)
  BY <1>2, <1>8
<1>10. /\ g # x.binding[c].generation /\ x.next \in Nat /\ g < x.next /\ x.next <= x.next
       /\ x.channelByTab \in {c, NoChannel}
  BY <1>1, <1>4, <1>5
<1>11. /\ Sound(r') /\ \A ev : Placed(r', ev)
       /\ \A d \in Channels : ~Waits(r', d)
       /\ r'.pending = x.pending /\ r'.removed = x.removed
  BY <1>1, <1>2, <1>4, <1>5, <1>6, <1>9, <1>10, BindKeeps
<1> QED BY <1>1, <1>3, <1>5, <1>11, AnswerKeeps

LEMMA RefusedKeeps ==
  ASSUME RouterInv, NEW c \in Channels, Pending(r, c),
         NEW w \in r.pending[c].seen, RegistrationRefused(c, w), Unacknowledged
  PROVE  RouterInv' /\ NoneForgotten
<1>1. /\ Sound(r') /\ Placed(r', events) /\ r'.binding = r.binding
      /\ r' = [r EXCEPT !.pending[c] = NoPending]
      /\ UNCHANGED <<at, events>> /\ acked' = NoWindow
  BY SettledFields DEF RegistrationRefused, Unacknowledged
<1>2. Waits(r', c) => MayFail(c) \/ at = NoWindow
  <2>1. CASE ~Usable(r, w)
    <3>1. w \in r.removed \/ w = NoWindow
      BY <2>1, SeenFacts DEF Usable
    <3> QED BY <3>1 DEF RouterInv, SeenIsReal, MayFail
  <2>2. CASE ~Bound(r, c)
    BY <1>1, <2>2 DEF Waits, Bound
  <2>3. CASE w = NoWindow
    BY <2>3 DEF RouterInv, SeenIsReal
  <2> QED BY <2>1, <2>2, <2>3 DEF RegistrationRefused
<1> QED BY <1>1, <1>2, AnswerKeeps

LEMMA ResolveKeeps ==
  ASSUME RouterInv, NEW c \in Channels, ResolveRegistration(c)
  PROVE  RouterInv' /\ NoneForgotten
BY OvertakenKeeps, ConfirmedKeeps, RegistrationBindsKeeps, RefusedKeeps
   DEF ResolveRegistration

LEMMA ConnectKeeps ==
  ASSUME RouterInv, NEW c \in Channels, ConnectPort(c)
  PROVE  RouterInv' /\ NoneForgotten
<1> DEFINE s == [r EXCEPT !.port[c].open = TRUE]
           p == [r.port[c] EXCEPT !.open = TRUE]
           ports == [r.port EXCEPT ![c] = p]
<1>1. /\ TypeOK /\ Sound(r) /\ r \in Router /\ Placed(r, events)
      /\ r.port \in [Channels -> PanelPortRecord] /\ r.port[c] \in PanelPortRecord
      /\ ~r.port[c].open
  BY InvTypes, RouterFields DEF RouterInv, ConnectPort
<1>2. /\ p \in PanelPortRecord /\ p.generation = r.port[c].generation
      /\ p.window = r.port[c].window
  BY <1>1 DEF PanelPortRecord
<1>3. s = [r EXCEPT !.port = ports]
  OBVIOUS
<1> HIDE DEF p
<1>4. /\ ports \in [Channels -> PanelPortRecord] /\ ports[c] = p
      /\ \A d \in Channels : d # c => ports[d] = r.port[d]
  BY <1>1, <1>2
<1>5. r' = IF Pending(r, c) THEN s ELSE Activate(s, c)
  BY DEF ConnectPort
<1> HIDE DEF s, ports
<1>6. /\ s \in Router /\ s.port = ports
      /\ s.binding = r.binding /\ s.channelByTab = r.channelByTab
      /\ s.pending = r.pending /\ s.removed = r.removed /\ s.job = r.job
      /\ s.next = r.next /\ s.disposed = r.disposed /\ s.tabOwner = r.tabOwner
  BY <1>1, <1>3, <1>4 DEF Router
<1>7. ~Active(r, c)
  BY <1>1 DEF Sound, Registered
<1>8. \A d \in Channels : /\ Active(s, d) <=> Active(r, d)
                          /\ Active(s, d) => s.port[d] = r.port[d]
                          /\ s.port[d].window = r.port[d].window
  BY <1>2, <1>4, <1>6, <1>7 DEF Active
<1>9. OneChannel(s) /\ Generations(s) /\ BindingsUsable(s)
  BY <1>1, <1>6 DEF Sound, OneChannel, Generations, BindingsUsable, Bound, Pending, Usable
<1>10. Registered(s) /\ OwnerActive(s) /\ JobsInPlace(s)
  <2>1. Registered(s)
    BY <1>1, <1>6, <1>8 DEF Sound, Registered
  <2>2. OwnerActive(s)
    BY <1>1, <1>6, <1>8, RouterFields DEF Sound, OwnerActive
  <2>3. JobsInPlace(s)
    BY <1>1, <1>6, <1>8 DEF Sound, JobsInPlace
  <2> QED BY <2>1, <2>2, <2>3
<1>11. Sound(s) /\ Placed(s, events)
  BY <1>1, <1>6, <1>8, <1>9, <1>10 DEF Sound, Placed, Here, Waiting
<1>12. \A d \in Channels : d # c => (Waits(s, d) <=> Waits(r, d))
  BY <1>4, <1>6, <1>8 DEF Waits, Bound
<1>13. UNCHANGED <<at, events>> /\ acked' = NoWindow
  BY DEF ConnectPort, Unacknowledged
<1>14. \A d \in Channels : NoWindow \in s.pending[d].seen => at = NoWindow
  BY <1>6 DEF RouterInv, SeenIsReal
<1>15. CASE Pending(r, c)
  <2>1. r' = s /\ Pending(r', c)
    BY <1>5, <1>6, <1>15 DEF Pending
  <2>2. \A d \in Channels : Waits(r', d) /\ ~Pending(r', d) => Waits(r, d) /\ ~Pending(r, d)
    BY <1>6, <1>12, <2>1 DEF Pending
  <2> QED BY <1>6, <1>11, <1>13, <1>14, <2>1, <2>2, PanelStepKeeps
<1>16. CASE ~Pending(r, c)
  <2>1. r' = Activate(s, c)
    BY <1>5, <1>16
  <2>2. /\ Sound(r') /\ \A ev : Placed(s, ev) => Placed(r', ev)
        /\ \A d \in Channels : Waits(r', d) => Waits(s, d)
        /\ ~Waits(r', c)
        /\ r'.pending = s.pending /\ r'.removed = s.removed
    BY <1>1, <1>11, <2>1, ActivateKeeps
  <2>3. \A d \in Channels : Waits(r', d) /\ ~Pending(r', d) => Waits(r, d) /\ ~Pending(r, d)
    BY <1>6, <1>12, <2>2 DEF Pending
  <2> QED BY <1>6, <1>11, <1>13, <1>14, <2>2, <2>3, PanelStepKeeps
<1> QED BY <1>15, <1>16

LEMMA DisconnectKeeps ==
  ASSUME RouterInv, NEW c \in Channels, PortDisconnects(c)
  PROVE  RouterInv' /\ NoneForgotten
<1>1. /\ r' = ClosePort(r, c) /\ UNCHANGED <<at, events>> /\ acked' = NoWindow
      /\ Sound(r) /\ Placed(r, events)
  BY DEF PortDisconnects, Unacknowledged, RouterInv
<1>2. /\ Sound(r') /\ \A ev : Placed(r, ev) => Placed(r', ev)
      /\ \A d \in Channels : Waits(r', d) => Waits(r, d)
      /\ r'.pending = r.pending /\ r'.removed = r.removed
  BY <1>1, CloseKeeps
<1>3. /\ \A d \in Channels : NoWindow \in r'.pending[d].seen => at = NoWindow
      /\ \A d \in Channels : Waits(r', d) /\ ~Pending(r', d) => Waits(r, d) /\ ~Pending(r, d)
  BY <1>2 DEF RouterInv, SeenIsReal, Pending
<1> QED BY <1>1, <1>2, <1>3, PanelStepKeeps

LEMMA WaitingIsActive ==
  ASSUME NEW s, NEW c \in Channels, NEW k \in Kinds, Sound(s), s.job[c][k].stage # "none"
  PROVE  Active(s, c)
BY NoJobsWait DEF Sound, JobsInPlace

\* A step that leaves the registrations alone.
LEMMA WorkKeeps ==
  ASSUME RouterInv, UNCHANGED <<at, events>>, acked' \in Windows \cup {NoWindow},
         Sound(r'), Placed(r', events), r'.removed = r.removed, r'.pending = r.pending,
         \A d \in Channels : Waits(r', d) => Waits(r, d)
  PROVE  RouterInv' /\ NoneForgotten
<1>1. /\ \A d \in Channels : NoWindow \in r'.pending[d].seen => at = NoWindow
      /\ \A d \in Channels : Waits(r', d) /\ ~Pending(r', d) => Waits(r, d) /\ ~Pending(r, d)
  BY DEF RouterInv, SeenIsReal, Pending
<1> QED BY <1>1, PanelStepKeeps

LEMMA StartKeeps ==
  ASSUME RouterInv, NEW c \in Channels, NEW k \in Kinds,
         NEW w \in Windows \cup {NoWindow}, Start(c, k, w)
  PROVE  RouterInv' /\ NoneForgotten
<1> DEFINE j == Lookup("lookup", w)
<1>1. /\ Sound(r) /\ Placed(r, events) /\ TypeOK /\ Active(r, c) /\ ~Waiting(r, c, k)
      /\ UNCHANGED <<at, events>> /\ acked' = NoWindow
  BY InvTypes DEF RouterInv, Start, Unacknowledged, Waiting
<1>2. j \in Job /\ j.stage = "lookup"
  BY <1>1 DEF TypeOK, Job, Lookup
<1>3. r' = [r EXCEPT !.job[c][k] = j]
  BY DEF Start
<1> HIDE DEF j
<1>4. /\ Sound(r') /\ r'.binding = r.binding /\ r'.port = r.port
      /\ r'.pending = r.pending /\ r'.removed = r.removed
      /\ \A ev : /\ Placed(r, ev)
                 /\ ~Waiting(r, c, k) \/ r.port[c].window \in r.job[c][k].seen
                 => Placed(r', ev)
  BY <1>1, <1>2, <1>3, JobKeeps
<1>5. \A d \in Channels : Waits(r', d) => Waits(r, d)
  BY <1>4 DEF Waits, Bound, Active
<1>6. Placed(r', events)
  BY <1>1, <1>4
<1> QED BY <1>1, <1>4, <1>5, <1>6, WorkKeeps

LEMMA DispatchKeeps ==
  ASSUME RouterInv, NEW c \in Channels, LookupDispatches(c)
  PROVE  RouterInv' /\ NoneForgotten
<1>1. /\ r.job[c]["command"].stage = "lookup"
      /\ UNCHANGED <<at, events>> /\ acked' = NoWindow
      /\ "command" \in Kinds /\ Sound(r) /\ Placed(r, events) /\ TypeOK
  BY InvTypes DEF LookupDispatches, Unacknowledged, Kinds, RouterInv
<1>2. PICK w \in r.job[c]["command"].seen :
        LET s == Refresh(r, c, w)
        IN r' = IF ~Active(s, c) THEN s
                ELSE [s EXCEPT !.job[c]["command"] =
                        [stage |-> "acting", seen |-> {}, window |-> s.port[c].window]]
  BY DEF LookupDispatches
<1> DEFINE s == Refresh(r, c, w)
           j == [stage |-> "acting", seen |-> {}, window |-> s.port[c].window]
<1>3. Active(r, c) /\ w \in Windows \cup {NoWindow}
  BY <1>1, <1>2, WaitingIsActive, SeenFacts
<1>4. /\ Sound(s)
      /\ \A d \in Channels : Waits(s, d) => Waits(r, d)
      /\ \A ev : (w = r.port[c].window => Placed(r, ev)) => Placed(s, ev)
      /\ s = r => Usable(r, w) /\ w = r.port[c].window
      /\ s # r => s.job[c]["command"].stage = "none"
      /\ s.pending = r.pending /\ s.removed = r.removed /\ s.disposed = r.disposed
  BY <1>1, <1>3, RefreshKeeps
<1>5. Placed(s, events)
  BY <1>1, <1>4
<1>6. r' = IF ~Active(s, c) THEN s ELSE [s EXCEPT !.job[c]["command"] = j]
  BY <1>2
<1>7. j \in Job /\ j.window = s.port[c].window
  <2>1. s.port[c] \in PanelPortRecord
    BY <1>4, RouterFields DEF Sound
  <2> HIDE DEF s
  <2> QED BY <2>1 DEF Job, PanelPortRecord
<1>8. ~Waiting(s, c, "command") \/ s.port[c].window \in s.job[c]["command"].seen
  BY <1>1, <1>2, <1>4 DEF Waiting
<1> HIDE DEF s, j
<1>9. CASE ~Active(s, c)
  <2>1. r' = s
    BY <1>6, <1>9
  <2> QED BY <1>1, <1>4, <1>5, <2>1, WorkKeeps
<1>10. CASE Active(s, c)
  <2>1. r' = [s EXCEPT !.job[c]["command"] = j]
    BY <1>6, <1>10
  <2>2. /\ Sound(r') /\ r'.binding = s.binding /\ r'.port = s.port
        /\ r'.pending = s.pending /\ r'.removed = s.removed
        /\ \A ev : /\ Placed(s, ev)
                   /\ \/ ~Waiting(s, c, "command")
                      \/ s.port[c].window \in s.job[c]["command"].seen
                   => Placed(r', ev)
    BY <1>1, <1>4, <1>7, <1>10, <2>1, JobKeeps
  <2>3. \A d \in Channels : Waits(r', d) => Waits(r, d)
    BY <1>4, <2>2 DEF Waits, Bound, Active
  <2>4. Placed(r', events) /\ r'.pending = r.pending /\ r'.removed = r.removed
    BY <1>4, <1>5, <1>8, <2>2
  <2> QED BY <1>1, <2>2, <2>3, <2>4, WorkKeeps
<1> QED BY <1>9, <1>10

LEMMA SettlesKeeps ==
  ASSUME RouterInv, NEW c \in Channels, CommandSettles(c)
  PROVE  RouterInv' /\ NoneForgotten
<1> DEFINE j == Lookup("recheck", r.job[c]["command"].window)
<1>1. /\ Sound(r) /\ Placed(r, events) /\ TypeOK /\ "command" \in Kinds
      /\ r.job[c]["command"].stage = "acting"
      /\ UNCHANGED <<at, events>> /\ acked' = NoWindow
  BY InvTypes DEF RouterInv, CommandSettles, Unacknowledged, Kinds
<1>2. /\ Active(r, c) /\ ~Waiting(r, c, "command")
      /\ r.job[c]["command"].window = r.port[c].window
  BY <1>1, WaitingIsActive DEF Waiting, Sound, JobsInPlace
<1>3. j \in Job /\ j.window = r.port[c].window
  BY <1>1, <1>2, SeenFacts DEF TypeOK, Job, Lookup
<1>4. r' = [r EXCEPT !.job[c]["command"] = j]
  BY DEF CommandSettles
<1> HIDE DEF j
<1>5. /\ Sound(r') /\ r'.binding = r.binding /\ r'.port = r.port
      /\ r'.pending = r.pending /\ r'.removed = r.removed
      /\ \A ev : /\ Placed(r, ev)
                 /\ \/ ~Waiting(r, c, "command")
                    \/ r.port[c].window \in r.job[c]["command"].seen
                 => Placed(r', ev)
  BY <1>1, <1>2, <1>3, <1>4, JobKeeps
<1>6. \A d \in Channels : Waits(r', d) => Waits(r, d)
  BY <1>5 DEF Waits, Bound, Active
<1>7. Placed(r', events)
  BY <1>1, <1>2, <1>5
<1> QED BY <1>1, <1>5, <1>6, <1>7, WorkKeeps

\* A lookup is over, and its answer is heeded.
LEMMA AnsweredKeeps ==
  ASSUME RouterInv, NEW c \in Channels, NEW k \in Kinds, Waiting(r, c, k),
         NEW w \in r.job[c][k].seen,
         UNCHANGED <<at, events>>, acked' \in Windows \cup {NoWindow},
         r' = Refresh([r EXCEPT !.job[c][k] = NoJob], c, w)
  PROVE  /\ RouterInv' /\ NoneForgotten
         /\ r' = [r EXCEPT !.job[c][k] = NoJob] =>
              w = r.port[c].window /\ r'.port = r.port /\ r'.tabOwner = c
<1> DEFINE s == [r EXCEPT !.job[c][k] = NoJob]
<1>1. /\ Sound(r) /\ Placed(r, events) /\ TypeOK /\ Active(r, c)
      /\ NoJob \in Job /\ NoJob.stage = "none" /\ w \in Windows \cup {NoWindow}
  BY InvTypes, WaitingIsActive, SeenFacts DEF RouterInv, Waiting, NoJob, Job
<1>2. /\ Sound(s) /\ s.binding = r.binding /\ s.port = r.port /\ s.tabOwner = r.tabOwner
      /\ s.pending = r.pending /\ s.removed = r.removed
      /\ \A ev : /\ Placed(r, ev)
                 /\ ~Waiting(r, c, k) \/ r.port[c].window \in r.job[c][k].seen
                 => Placed(s, ev)
  BY <1>1, JobKeeps
<1>3. r' = Refresh(s, c, w)
  OBVIOUS
<1> HIDE DEF s
<1>4. Active(s, c)
  BY <1>1, <1>2 DEF Active
<1>5. /\ Sound(r')
      /\ \A d \in Channels : Waits(r', d) => Waits(s, d)
      /\ \A ev : (w = s.port[c].window => Placed(s, ev)) => Placed(r', ev)
      /\ r' = s => Usable(s, w) /\ w = s.port[c].window
      /\ r'.pending = s.pending /\ r'.removed = s.removed
  <2> DEFINE t == Refresh(s, c, w)
  <2>1. /\ Sound(t)
        /\ \A d \in Channels : Waits(t, d) => Waits(s, d)
        /\ \A ev : (w = s.port[c].window => Placed(s, ev)) => Placed(t, ev)
        /\ t = s => Usable(s, w) /\ w = s.port[c].window
        /\ t # s => t.job[c]["command"].stage = "none"
        /\ t.pending = s.pending /\ t.removed = s.removed /\ t.disposed = s.disposed
    BY <1>1, <1>2, <1>4, RefreshKeeps
  <2> HIDE DEF t
  <2>2. r' = t
    BY <1>3 DEF t
  <2> QED BY <2>1, <2>2
<1>6. Placed(r', events)
  BY <1>1, <1>2, <1>5
<1>7. \A d \in Channels : Waits(r', d) => Waits(r, d)
  BY <1>2, <1>5 DEF Waits, Bound, Active
<1>8. RouterInv' /\ NoneForgotten
  BY <1>2, <1>5, <1>6, <1>7, WorkKeeps
<1>9. r.tabOwner = c
  BY <1>1 DEF Sound, Registered
<1> QED BY <1>2, <1>5, <1>8, <1>9 DEF s

\* The command that a step acknowledges was carried out where its panel is.
AcknowledgedNow ==
  acked' # NoWindow =>
    \E c \in Channels :
      /\ r.job[c]["command"].stage = "recheck"
      /\ acked' \in r.job[c]["command"].seen
      /\ r'.tabOwner = c /\ r'.port[c].window = acked'

LEMMA RecheckKeeps ==
  ASSUME RouterInv, NEW c \in Channels, RecheckAcknowledges(c)
  PROVE  RouterInv' /\ NoneForgotten /\ AcknowledgedNow
<1>1. /\ r.job[c]["command"].stage = "recheck" /\ UNCHANGED <<at, events>>
      /\ "command" \in Kinds
  BY DEF RecheckAcknowledges, Kinds
<1>2. PICK w \in r.job[c]["command"].seen :
        /\ r' = Refresh([r EXCEPT !.job[c]["command"] = NoJob], c, w)
        /\ acked' = IF r' = [r EXCEPT !.job[c]["command"] = NoJob]
                    THEN r.job[c]["command"].window ELSE NoWindow
  BY DEF RecheckAcknowledges
<1>3. Waiting(r, c, "command") /\ acked' \in Windows \cup {NoWindow}
  BY <1>1, <1>2, SeenFacts DEF Waiting
<1>4. r.job[c]["command"].window = r.port[c].window
  BY <1>1 DEF RouterInv, Sound, JobsInPlace
<1> DEFINE s == [r EXCEPT !.job[c]["command"] = NoJob]
<1>5. /\ RouterInv' /\ NoneForgotten
      /\ r' = s => w = r.port[c].window /\ r'.port = r.port /\ r'.tabOwner = c
  BY <1>1, <1>2, <1>3, AnsweredKeeps
<1>6. acked' # NoWindow => r' = s /\ acked' = r.port[c].window
  BY <1>2, <1>4
<1> HIDE DEF s
<1>7. AcknowledgedNow
  BY <1>1, <1>2, <1>5, <1>6 DEF AcknowledgedNow
<1> QED BY <1>5, <1>7

LEMMA PanelStepsKeep ==
  ASSUME RouterInv, PanelStep
  PROVE  RouterInv' /\ NoneForgotten /\ AcknowledgedNow
<1>1. PICK c \in Channels :
        \/ RegisterDevtools(c) \/ ResolveRegistration(c)
        \/ ConnectPort(c) \/ PortDisconnects(c)
        \/ ExecutePanelWindowCommand(c) \/ LookupDispatches(c)
        \/ CommandSettles(c) \/ RecheckAcknowledges(c)
        \/ QueueWindowState(c) \/ PublishSelection(c)
        \/ \E k \in {"publish", "state"} : LookupDelivers(c, k)
  BY DEF PanelStep
<1>2. CASE RegisterDevtools(c) \/ ResolveRegistration(c) \/ ConnectPort(c)
           \/ PortDisconnects(c) \/ LookupDispatches(c) \/ CommandSettles(c)
  <2>1. RouterInv' /\ NoneForgotten
    BY <1>2, RegisterKeeps, ResolveKeeps, ConnectKeeps, DisconnectKeeps, DispatchKeeps,
       SettlesKeeps
  <2>2. acked' = NoWindow
    BY <1>2 DEF RegisterDevtools, ResolveRegistration, ConnectPort, PortDisconnects,
       LookupDispatches, CommandSettles, Unacknowledged
  <2> QED BY <2>1, <2>2 DEF AcknowledgedNow
<1>3. CASE ExecutePanelWindowCommand(c) \/ QueueWindowState(c) \/ PublishSelection(c)
  <2>1. at \in Windows \cup {NoWindow}
    BY DEF RouterInv
  <2>2. PICK k \in Kinds, w \in Windows \cup {NoWindow} : Start(c, k, w)
    BY <1>3, <2>1 DEF ExecutePanelWindowCommand, QueueWindowState, PublishSelection, Kinds
  <2>3. acked' = NoWindow
    BY <2>2 DEF Start, Unacknowledged
  <2> QED BY <2>2, <2>3, StartKeeps DEF AcknowledgedNow
<1>4. CASE \E k \in {"publish", "state"} : LookupDelivers(c, k)
  <2>1. PICK k \in {"publish", "state"} : LookupDelivers(c, k)
    BY <1>4
  <2>2. k \in Kinds /\ Waiting(r, c, k) /\ UNCHANGED <<at, events>> /\ acked' = NoWindow
    BY <2>1 DEF Kinds, LookupDelivers, Waiting, Unacknowledged
  <2>3. PICK w \in r.job[c][k].seen : r' = Refresh([r EXCEPT !.job[c][k] = NoJob], c, w)
    BY <2>1 DEF LookupDelivers
  <2> QED BY <2>2, <2>3, AnsweredKeeps DEF AcknowledgedNow
<1>5. CASE RecheckAcknowledges(c)
  BY <1>5, RecheckKeeps
<1> QED BY <1>1, <1>2, <1>3, <1>4, <1>5
-----------------------------------------------------------------------------
(* Browser events *)

LEMMA NoticedFields ==
  ASSUME RouterInv, NEW w \in Windows \cup {NoWindow}
  PROVE  LET t == Noticed(w) IN
         /\ Sound(t)
         /\ t.binding = r.binding /\ t.port = r.port /\ t.removed = r.removed
         /\ \A c \in Channels : /\ Pending(t, c) <=> Pending(r, c)
                                /\ t.pending[c].seen \subseteq r.pending[c].seen \cup {w}
         /\ \A c \in Channels, k \in Kinds : Waiting(r, c, k) =>
              Waiting(t, c, k) /\ t.job[c][k].seen = r.job[c][k].seen \cup {w}
<1> DEFINE ps == [c \in Channels |->
                    IF Pending(r, c) THEN MayAnswer(r.pending[c], w)
                    ELSE r.pending[c]]
           js == [c \in Channels |-> [k \in Kinds |->
                    IF Waiting(r, c, k) THEN MayAnswer(r.job[c][k], w)
                    ELSE r.job[c][k]]]
           t == Noticed(w)
<1>1. /\ Sound(r) /\ r \in Router /\ r.pending \in [Channels -> PendingRegistration]
      /\ r.job \in [Channels -> [Kinds -> Job]]
  BY InvTypes, RouterFields
<1>2. t = [r EXCEPT !.pending = ps, !.job = js]
  BY DEF Noticed
<1>3. \A c \in Channels :
        /\ ps[c] \in PendingRegistration /\ ps[c].generation = r.pending[c].generation
        /\ ps[c].bindingGeneration = r.pending[c].bindingGeneration
        /\ ps[c].seen \subseteq r.pending[c].seen \cup {w}
  BY <1>1 DEF PendingRegistration, MayAnswer
<1>4. \A c \in Channels, k \in Kinds :
        /\ js[c][k] \in Job /\ js[c][k].stage = r.job[c][k].stage
        /\ js[c][k].window = r.job[c][k].window
        /\ Waiting(r, c, k) => js[c][k].seen = r.job[c][k].seen \cup {w}
        /\ ~Waiting(r, c, k) => js[c][k] = r.job[c][k]
  BY <1>1 DEF Job, MayAnswer
<1>5. ps \in [Channels -> PendingRegistration] /\ js \in [Channels -> [Kinds -> Job]]
  BY <1>3, <1>4
<1> HIDE DEF ps, js, t
<1>6. /\ t \in Router /\ t.pending = ps /\ t.job = js
      /\ t.binding = r.binding /\ t.channelByTab = r.channelByTab
      /\ t.port = r.port /\ t.removed = r.removed /\ t.next = r.next
      /\ t.disposed = r.disposed /\ t.tabOwner = r.tabOwner
  BY <1>1, <1>2, <1>5 DEF Router
<1>7. OneChannel(t) /\ BindingsUsable(t) /\ Registered(t) /\ OwnerActive(t)
  BY <1>1, <1>6 DEF Sound, OneChannel, BindingsUsable, Registered, OwnerActive,
                    Bound, Usable, Active
<1>8. Generations(t)
  BY <1>1, <1>3, <1>6 DEF Sound, Generations, Pending
<1>9. JobsInPlace(t)
  <2> SUFFICES ASSUME NEW c \in Channels
               PROVE  /\ ~Active(t, c) => js[c] = NoJobs
                      /\ js[c]["command"].stage \in {"acting", "recheck"}
                           => js[c]["command"].window = t.port[c].window
    BY <1>6 DEF JobsInPlace
  <2>1. ASSUME ~Active(t, c) PROVE js[c] = NoJobs
    <3>1. r.job[c] = NoJobs
      BY <1>1, <1>6, <2>1 DEF Sound, JobsInPlace, Active
    <3>2. \A k \in Kinds : js[c][k] = r.job[c][k]
      BY <1>4, <3>1, NoJobsWait DEF Waiting
    <3> QED BY <1>5, <1>1, <3>1, <3>2
  <2>2. "command" \in Kinds
    BY DEF Kinds
  <2> QED BY <1>1, <1>4, <1>6, <2>1, <2>2 DEF Sound, JobsInPlace
<1>10. \A c \in Channels : Pending(t, c) <=> Pending(r, c)
  BY <1>3, <1>6 DEF Pending
<1>11. \A c \in Channels, k \in Kinds : Waiting(r, c, k) => Waiting(t, c, k)
  BY <1>4, <1>6 DEF Waiting
<1> QED BY <1>3, <1>4, <1>6, <1>7, <1>8, <1>9, <1>10, <1>11 DEF Sound, t

EventRecord == [type: {"detached", "attached", "removed"}, window: Windows]

LEMMA MoveKeeps ==
  ASSUME RouterInv, NEW w \in Windows, MoveTab(w)
  PROVE  RouterInv' /\ NoneForgotten /\ acked' = NoWindow
<1> DEFINE more == <<Event("detached", at), Event("attached", w)>>
           n == Len(events)
<1>1. /\ at \in Windows /\ at' = w /\ r' = Noticed(w) /\ acked' = NoWindow
      /\ events' = events \o more /\ Open(w)
  BY DEF MoveTab, RouterInv
<1>2. /\ Sound(r')
      /\ r'.binding = r.binding /\ r'.port = r.port /\ r'.removed = r.removed
      /\ \A c \in Channels : /\ Pending(r', c) <=> Pending(r, c)
                             /\ r'.pending[c].seen \subseteq r.pending[c].seen \cup {w}
      /\ \A c \in Channels, k \in Kinds : Waiting(r, c, k) =>
           Waiting(r', c, k) /\ r'.job[c][k].seen = r.job[c][k].seen \cup {w}
  BY <1>1, NoticedFields
<1>3. events \in Seq(EventRecord) /\ more \in Seq(EventRecord) /\ Len(more) = 2
      /\ more[1] = Event("detached", at) /\ more[2] = Event("attached", w)
  BY <1>1 DEF RouterInv, EventsOK, EventRecord, Event
<1> HIDE DEF more
<1>4. /\ events' \in Seq(EventRecord) /\ n \in Nat /\ Len(events') = n + 2
      /\ DOMAIN events = 1 .. n /\ DOMAIN events' = 1 .. (n + 2)
      /\ \A i \in 1 .. n : events'[i] = events[i]
      /\ events'[n + 1] = Event("detached", at) /\ events'[n + 2] = Event("attached", w)
  <2>1. /\ events' \in Seq(EventRecord) /\ Len(events') = n + 2
        /\ \A i \in 1 .. (n + 2) :
             events'[i] = IF i <= n THEN events[i] ELSE more[i - n]
    <3>1. /\ events \o more \in Seq(EventRecord)
          /\ Len(events \o more) = Len(events) + Len(more)
          /\ \A i \in 1 .. Len(events) + Len(more) :
               (events \o more)[i] = IF i <= Len(events) THEN events[i]
                                     ELSE more[i - Len(events)]
      BY <1>3, ConcatProperties
    <3> QED BY <1>1, <1>3, <3>1
  <2>2. n \in Nat /\ DOMAIN events = 1 .. n /\ DOMAIN events' = 1 .. (n + 2)
    BY <1>3, <2>1, LenProperties
  <2>3. events'[n + 1] = more[1] /\ events'[n + 2] = more[2]
    <3>1. /\ n + 1 \in 1 .. (n + 2) /\ n + 2 \in 1 .. (n + 2)
          /\ ~(n + 1 <= n) /\ ~(n + 2 <= n) /\ (n + 1) - n = 1 /\ (n + 2) - n = 2
      BY <2>2
    <3> QED BY <2>1, <3>1
  <2>4. \A i \in 1 .. n : events'[i] = events[i]
    BY <2>1, <2>2
  <2> QED BY <1>3, <2>1, <2>2, <2>3, <2>4
<1> HIDE DEF n
<1>5. Placed(r, events)'
  <2> SUFFICES ASSUME NEW c \in Channels, Active(r', c)
               PROVE  Here(r, events, c)'
    BY DEF Placed
  <2>1. Here(r, events, c)
    BY <1>1, <1>2, RouterAssumption DEF RouterInv, Placed, Active
  <2>2. CASE r.port[c].window = at
    <3>1. n + 1 \in 1 .. (n + 2)
      BY <1>4
    <3> QED BY <1>2, <1>4, <2>2, <3>1 DEF Here, Event
  <2>3. CASE \E i \in DOMAIN events : events[i] = Event("detached", r.port[c].window)
    <3>1. PICK i \in 1 .. n : events[i] = Event("detached", r.port[c].window)
      BY <1>4, <2>3
    <3>2. i \in 1 .. (n + 2)
      BY <1>4, <3>1
    <3> QED BY <1>2, <1>4, <3>1, <3>2 DEF Here, Event
  <2>4. CASE \E k \in Kinds : Waiting(r, c, k) /\ r.port[c].window \notin r.job[c][k].seen
    <3>1. PICK k \in Kinds : Waiting(r, c, k) /\ r.port[c].window \notin r.job[c][k].seen
      BY <2>4
    <3>2. Waiting(r', c, k) /\ r'.job[c][k].seen = r.job[c][k].seen \cup {w}
      BY <1>2, <3>1
    <3>3. CASE r.port[c].window = w
      BY <1>1, <1>2, <3>3 DEF Here
    <3>4. CASE r.port[c].window # w
      BY <1>2, <3>1, <3>2, <3>4 DEF Here, Waiting
    <3> QED BY <3>3, <3>4
  <2> QED BY <2>1, <2>2, <2>3, <2>4 DEF Here
<1>6. SeenIsReal'
  BY <1>1, <1>2, RouterAssumption DEF RouterInv, SeenIsReal
<1>7. AttachedIsOpen'
  <2> SUFFICES ASSUME NEW i \in 1 .. (n + 2), events'[i].type = "attached"
               PROVE  /\ events'[i].window \notin r'.removed
                      /\ \A j \in 1 .. (i - 1) : events'[j] # Event("removed", events'[i].window)
    BY <1>4 DEF AttachedIsOpen, Event
  <2>1. CASE i \in 1 .. n
    <3>1. \A j \in 1 .. (i - 1) : j \in 1 .. n
      BY <1>4, <2>1
    <3> QED BY <1>2, <1>4, <2>1, <3>1 DEF RouterInv, AttachedIsOpen
  <2>2. CASE i = n + 1
    BY <1>4, <2>2 DEF Event
  <2>3. CASE i = n + 2
    <3>1. w \notin r.removed /\ w \notin Closing
      BY <1>1 DEF Open
    <3>4. ASSUME NEW j \in 1 .. n, events[j] = Event("removed", w) PROVE FALSE
      <4>1. events[j].type = "removed" /\ events[j].window = w
        BY <3>4 DEF Event
      <4> QED BY <1>4, <3>1, <4>1 DEF Closing
    <3>2. \A j \in 1 .. (i - 1) : j \in 1 .. n \/ j = n + 1
      BY <1>4, <2>3
    <3> QED BY <1>2, <1>4, <2>3, <3>1, <3>2, <3>4 DEF Event
  <2> QED BY <1>4, <2>1, <2>2, <2>3
<1>8. NoneForgotten
  <2> SUFFICES ASSUME NEW c \in Channels, Neglected(c)' PROVE Neglected(c)
    BY DEF NoneForgotten
  <2>1. at # NoWindow
    BY <1>1, RouterAssumption
  <2>2. ~Pending(r, c)
    BY <1>2 DEF Neglected
  <2> QED BY <1>2, <2>1, <2>2 DEF Neglected, Bound, Active
<1> QED BY <1>1, <1>2, <1>4, <1>5, <1>6, <1>7, <1>8 DEF RouterInv, EventsOK, EventRecord

\* A window of the tab is closed, or the tab alone: where the tab is not in a
\* window any more, nothing is asked of its panels.
LEMMA CloseWindowKeeps ==
  ASSUME RouterInv, NEW w \in Windows, CloseWindow(w)
  PROVE  RouterInv' /\ NoneForgotten /\ acked' = NoWindow
<1> DEFINE e == Event("removed", w)
           n == Len(events)
<1>1. /\ events' = Append(events, e) /\ acked' = NoWindow
      /\ at' = (IF at = w THEN NoWindow ELSE at)
      /\ r' = (IF at = w THEN Noticed(NoWindow) ELSE r)
      /\ at' \in Windows \cup {NoWindow}
  BY DEF CloseWindow, RouterInv
<1>2. /\ Sound(r')
      /\ r'.removed = r.removed
      /\ \A c \in Channels : r'.pending[c].seen \subseteq r.pending[c].seen
                             \/ at' = NoWindow
  <2>1. CASE at = w
    BY <1>1, <2>1, NoticedFields
  <2>2. CASE at # w
    BY <1>1, <2>2 DEF RouterInv
  <2> QED BY <2>1, <2>2
<1>3. events \in Seq(EventRecord) /\ e \in EventRecord
  BY DEF RouterInv, EventsOK, EventRecord, Event
<1> HIDE DEF e
<1>4. /\ events' \in Seq(EventRecord) /\ n \in Nat
      /\ DOMAIN events = 1 .. n /\ DOMAIN events' = 1 .. (n + 1)
      /\ \A i \in 1 .. n : events'[i] = events[i]
      /\ events'[n + 1] = e
  <2>1. /\ events' \in Seq(EventRecord) /\ Len(events') = n + 1
        /\ \A i \in 1 .. n : events'[i] = events[i]
        /\ events'[n + 1] = e
    BY <1>1, <1>3, AppendProperties
  <2> QED BY <1>3, <2>1, LenProperties
<1> HIDE DEF n
<1>5. Placed(r, events)'
  <2> SUFFICES ASSUME at' # NoWindow, NEW c \in Channels, Active(r', c)
               PROVE  Here(r, events, c)'
    BY DEF Placed
  <2>1. r' = r /\ at' = at
    BY <1>1
  <2>2. Here(r, events, c)
    BY <2>1 DEF RouterInv, Placed
  <2>3. \A i \in DOMAIN events : i \in DOMAIN events' /\ events'[i] = events[i]
    BY <1>4
  <2> QED BY <2>1, <2>2, <2>3 DEF Here, Event, Waiting
<1>6. SeenIsReal'
  <2> SUFFICES ASSUME NEW c \in Channels, NoWindow \in r'.pending[c].seen, at' # NoWindow
               PROVE  FALSE
    BY DEF SeenIsReal
  <2> QED BY <1>1, <1>2 DEF RouterInv, SeenIsReal
<1>7. AttachedIsOpen'
  <2> SUFFICES ASSUME NEW i \in 1 .. (n + 1), events'[i].type = "attached"
               PROVE  /\ events'[i].window \notin r'.removed
                      /\ \A j \in 1 .. (i - 1) : events'[j] # Event("removed", events'[i].window)
    BY <1>4 DEF AttachedIsOpen, Event
  <2>1. i \in 1 .. n
    BY <1>4 DEF e, Event
  <2>2. \A j \in 1 .. (i - 1) : j \in 1 .. n
    BY <1>4, <2>1
  <2> QED BY <1>2, <1>4, <2>1, <2>2 DEF RouterInv, AttachedIsOpen
<1>8. NoneForgotten
  <2> SUFFICES ASSUME NEW c \in Channels, Neglected(c)' PROVE Neglected(c)
    BY DEF NoneForgotten
  <2>1. r' = r /\ at' = at
    BY <1>1 DEF Neglected
  <2> QED BY <2>1 DEF Neglected, Bound, Active, Pending
<1> QED BY <1>1, <1>2, <1>4, <1>5, <1>6, <1>7, <1>8 DEF RouterInv, EventsOK, EventRecord

LEMMA CloseTabKeeps ==
  ASSUME RouterInv, CloseTab
  PROVE  RouterInv' /\ NoneForgotten /\ acked' = NoWindow
<1>1. at' = NoWindow /\ r' = Noticed(NoWindow) /\ acked' = NoWindow /\ events' = events
  BY DEF CloseTab
<1>2. Sound(r') /\ r'.removed = r.removed
  BY <1>1, NoticedFields
<1>3. Placed(r, events)' /\ SeenIsReal' /\ NoneForgotten
  BY <1>1 DEF Placed, SeenIsReal, NoneForgotten, Neglected
<1>4. EventsOK' /\ AttachedIsOpen'
  BY <1>1, <1>2 DEF RouterInv, EventsOK, AttachedIsOpen, Event
<1> QED BY <1>1, <1>2, <1>3, <1>4 DEF RouterInv

\* The first event leaves the queue.
LEMMA TailFacts ==
  ASSUME RouterInv, NEW type, Arrives(type)
  PROVE  /\ events[1].type = type /\ events[1].window \in Windows
         /\ Head(events) = events[1] /\ events[1] = Event(type, events[1].window)
         /\ EventsOK' /\ 1 \in DOMAIN events
         /\ \A i \in DOMAIN events' : i + 1 \in DOMAIN events /\ events'[i] = events[i + 1]
         /\ \A i \in DOMAIN events : i # 1 => i - 1 \in DOMAIN events' /\ events'[i - 1] = events[i]
         /\ r'.removed = r.removed => AttachedIsOpen'
<1> DEFINE n == Len(events)
<1>1. /\ events \in Seq(EventRecord) /\ events # << >> /\ events' = Tail(events)
      /\ Head(events).type = type
  BY DEF RouterInv, EventsOK, EventRecord, Arrives
<1>2. /\ n \in Nat \ {0} /\ DOMAIN events = 1 .. n /\ events \in [1 .. n -> EventRecord]
  BY <1>1, EmptySeq, LenProperties
<1>3. /\ Head(events) = events[1]
      /\ events' \in Seq(EventRecord) /\ Len(events') = n - 1
      /\ \A i \in 1 .. n - 1 : events'[i] = events[i + 1]
  BY <1>1, HeadTailProperties
<1>4. DOMAIN events' = 1 .. n - 1
  BY <1>3, LenProperties
<1>5. /\ events[1] \in EventRecord /\ events[1].type = type
      /\ events[1] = Event(type, events[1].window) /\ events[1].window \in Windows
      /\ 1 \in DOMAIN events
  <2>1. events[1] \in EventRecord
    BY <1>2
  <2> QED BY <1>1, <1>2, <1>3, <2>1 DEF EventRecord, Event
<1> HIDE DEF n
<1>6. \A i \in DOMAIN events' : i + 1 \in DOMAIN events /\ events'[i] = events[i + 1]
  BY <1>2, <1>3, <1>4
<1>7. \A i \in DOMAIN events : i # 1 => i - 1 \in DOMAIN events' /\ events'[i - 1] = events[i]
  BY <1>2, <1>3, <1>4
<1>8. ASSUME r'.removed = r.removed PROVE AttachedIsOpen'
  <2> SUFFICES ASSUME NEW i \in 1 .. n - 1, events'[i].type = "attached"
               PROVE  /\ events'[i].window \notin r'.removed
                      /\ \A j \in 1 .. (i - 1) : events'[j] # Event("removed", events'[i].window)
    BY <1>4 DEF AttachedIsOpen, Event
  <2>1. /\ i + 1 \in DOMAIN events /\ events'[i] = events[i + 1]
    BY <1>4, <1>6
  <2>2. \A j \in 1 .. (i - 1) : j + 1 \in 1 .. ((i + 1) - 1) /\ events'[j] = events[j + 1]
    BY <1>2, <1>4, <1>6
  <2> QED BY <1>8, <2>1, <2>2 DEF RouterInv, AttachedIsOpen
<1> QED BY <1>1, <1>3, <1>5, <1>6, <1>7, <1>8 DEF EventsOK, EventRecord

\* What an event has to do that removes no window and asks for nothing.
LEMMA EventKeeps ==
  ASSUME RouterInv, NEW type, Arrives(type), Sound(r'), Placed(r', events'),
         r'.removed = r.removed,
         \A c \in Channels : r'.pending[c].seen = r.pending[c].seen
                             /\ (Pending(r', c) <=> Pending(r, c)),
         \A c \in Channels : Waits(r', c) => Waits(r, c)
  PROVE  RouterInv' /\ NoneForgotten /\ acked' = NoWindow
<1>1. EventsOK' /\ AttachedIsOpen' /\ at' = at /\ acked' = NoWindow
  BY TailFacts DEF Arrives
<1>2. Sound(r)' /\ SeenIsReal' /\ at' \in Windows \cup {NoWindow}
  BY <1>1 DEF SeenIsReal, RouterInv
<1>3. Placed(r, events)'
  BY <1>1 DEF Placed, Here, Event, Waiting, Active
<1>4. NoneForgotten
  BY <1>1 DEF NoneForgotten, Neglected, Waits, Bound, Active, Pending
<1> QED BY <1>1, <1>2, <1>3, <1>4 DEF RouterInv

LEMMA SuspendedBinding ==
  ASSUME NEW f \in [Channels -> ChannelBinding \cup {NoBinding}], NEW c \in Channels,
         NEW n \in Nat \ {0}, f[c] \in ChannelBinding
  PROVE  [[f EXCEPT ![c].generation = n] EXCEPT ![c].suspended = TRUE]
           = [f EXCEPT ![c] = [window |-> f[c].window, generation |-> n, suspended |-> TRUE]]
<1> DEFINE b == [window |-> f[c].window, generation |-> n, suspended |-> TRUE]
           x == f[c]
           q == [x EXCEPT !.generation = n]
           g == [f EXCEPT ![c] = q]
           y == [q EXCEPT !.suspended = TRUE]
<1>1. b \in ChannelBinding
  BY DEF ChannelBinding
<1>2. q \in ChannelBinding /\ q.window = x.window /\ q.generation = n
  BY DEF ChannelBinding
<1> HIDE DEF q
<1>3. /\ y \in ChannelBinding /\ y.window = q.window
      /\ y.generation = q.generation /\ y.suspended = TRUE
  BY <1>2 DEF ChannelBinding
<1> HIDE DEF y
<1>4. y = b
  BY <1>1, <1>2, <1>3 DEF ChannelBinding
<1>5. g[c] = q
  OBVIOUS
<1> HIDE DEF b
<1>6. [g EXCEPT ![c] = [g[c] EXCEPT !.suspended = TRUE]] = [f EXCEPT ![c] = b]
  BY <1>4, <1>5 DEF y
<1> QED BY <1>6 DEF q, b

LEMMA DetachedFields ==
  ASSUME RouterInv, NEW w \in Windows
  PROVE  LET t == [r EXCEPT !.pending = [d \in Channels |->
                     IF Pending(r, d) THEN [r.pending[d] EXCEPT !.detached = w]
                     ELSE r.pending[d]]]
         IN /\ t \in Router /\ Sound(t)
            /\ t.binding = r.binding /\ t.channelByTab = r.channelByTab /\ t.port = r.port
            /\ t.removed = r.removed /\ t.next = r.next /\ t.disposed = r.disposed
            /\ t.job = r.job /\ t.tabOwner = r.tabOwner
            /\ \A c \in Channels :
                 /\ t.pending[c].seen = r.pending[c].seen
                 /\ Pending(t, c) <=> Pending(r, c)
<1> DEFINE ps == [d \in Channels |->
                    IF Pending(r, d) THEN [r.pending[d] EXCEPT !.detached = w]
                    ELSE r.pending[d]]
           t == [r EXCEPT !.pending = ps]
<1>1. /\ Sound(r) /\ r \in Router /\ r.pending \in [Channels -> PendingRegistration]
  BY InvTypes, RouterFields
<1>2. \A c \in Channels :
        /\ ps[c] \in PendingRegistration /\ ps[c].generation = r.pending[c].generation
        /\ ps[c].bindingGeneration = r.pending[c].bindingGeneration
        /\ ps[c].seen = r.pending[c].seen
  BY <1>1 DEF PendingRegistration
<1>3. ps \in [Channels -> PendingRegistration]
  BY <1>2
<1> HIDE DEF ps
<1>4. /\ t \in Router /\ t.pending = ps /\ t.job = r.job
      /\ t.binding = r.binding /\ t.channelByTab = r.channelByTab
      /\ t.port = r.port /\ t.removed = r.removed /\ t.next = r.next
      /\ t.disposed = r.disposed /\ t.tabOwner = r.tabOwner
  BY <1>1, <1>3 DEF Router
<1> HIDE DEF t
<1>5. /\ OneChannel(t) /\ BindingsUsable(t) /\ Registered(t) /\ OwnerActive(t)
      /\ JobsInPlace(t)
  BY <1>1, <1>4 DEF Sound, OneChannel, BindingsUsable, Registered, OwnerActive,
                    Bound, Usable, Active, JobsInPlace
<1>6. Generations(t)
  BY <1>1, <1>2, <1>4 DEF Sound, Generations, Pending
<1>7. \A c \in Channels : Pending(t, c) <=> Pending(r, c)
  BY <1>2, <1>4 DEF Pending
<1> QED BY <1>2, <1>4, <1>5, <1>6, <1>7 DEF Sound, t, ps

LEMMA SuspendKeeps ==
  ASSUME RouterInv, SuspendDetachedTab
  PROVE  RouterInv' /\ NoneForgotten /\ acked' = NoWindow
<1> DEFINE w == Head(events).window
           c == r.channelByTab
           s == [r EXCEPT !.pending = [d \in Channels |->
                   IF Pending(r, d) THEN [r.pending[d] EXCEPT !.detached = w]
                   ELSE r.pending[d]]]
           u == [s EXCEPT !.binding[c].generation = s.next,
                          !.binding[c].suspended = TRUE, !.next = s.next + 1]
<1>1. /\ Arrives("detached")
      /\ r' = IF c = NoChannel \/ s.binding[c].window # w \/ s.binding[c].suspended THEN s
              ELSE ClearActivation(u, c)
  BY DEF SuspendDetachedTab
<1>2. /\ w \in Windows /\ events[1] = Event("detached", w)
      /\ \A i \in DOMAIN events :
           i # 1 => i - 1 \in DOMAIN events' /\ events'[i - 1] = events[i]
  BY <1>1, TailFacts
<1> HIDE DEF w
<1>3. /\ s \in Router /\ Sound(s)
      /\ s.binding = r.binding /\ s.channelByTab = r.channelByTab /\ s.port = r.port
      /\ s.removed = r.removed /\ s.next = r.next /\ s.disposed = r.disposed
      /\ s.job = r.job /\ s.tabOwner = r.tabOwner
      /\ \A d \in Channels :
           /\ s.pending[d].seen = r.pending[d].seen
           /\ Pending(s, d) <=> Pending(r, d)
  BY <1>2, DetachedFields
<1>4. Sound(r) /\ r \in Router /\ c \in Channels \cup {NoChannel} /\ Placed(r, events)
  BY InvTypes, RouterFields DEF RouterInv
<1> HIDE DEF s
<1>5. CASE c = NoChannel \/ s.binding[c].window # w \/ s.binding[c].suspended
  <2>1. r' = s
    BY <1>1, <1>5
  <2>2. Placed(s, events')
    <3> SUFFICES ASSUME at # NoWindow, NEW d \in Channels, Active(r, d)
                 PROVE  Here(s, events', d)
      BY <1>3 DEF Placed, Active
    <3>1. Here(r, events, d)
      BY <1>4 DEF Placed
    <3>2. r.port[d].window # w
      <4>1. /\ r.port[d].window = r.binding[d].window /\ ~r.binding[d].suspended
            /\ Bound(r, d)
        BY <1>4 DEF Sound, Registered, Active, Bound
      <4>2. d = c /\ c # NoChannel
        BY <1>4, <4>1, RouterAssumption DEF Sound, OneChannel
      <4> QED BY <1>3, <1>5, <4>1, <4>2
    <3>3. ASSUME NEW i \in DOMAIN events, events[i] = Event("detached", r.port[d].window)
          PROVE  \E j \in DOMAIN events' : events'[j] = Event("detached", r.port[d].window)
      <4>1. i # 1
        BY <1>2, <3>2, <3>3 DEF Event
      <4> QED BY <1>2, <3>3, <4>1
    <3> QED BY <1>3, <3>1, <3>3 DEF Here, Waiting
  <2>3. \A d \in Channels : Waits(r', d) => Waits(r, d)
    BY <1>3, <2>1 DEF Waits, Bound, Active
  <2> QED BY <1>1, <1>3, <2>1, <2>2, <2>3, EventKeeps
<1>6. CASE ~(c = NoChannel \/ s.binding[c].window # w \/ s.binding[c].suspended)
  <2>1. /\ c \in Channels /\ r.next \in Nat \ {0} /\ r' = ClearActivation(u, c)
        /\ Bound(r, c)
    BY <1>1, <1>4, <1>6, RouterFields DEF Sound, Generations, OneChannel
  <2>2. s.binding[c] \in ChannelBinding
    BY <1>3, <1>4, <2>1, RouterFields DEF Bound, NoBinding
  <2>3. /\ u \in Router /\ u.next = r.next + 1
        /\ u.binding[c].generation = r.next /\ u.binding[c].suspended = TRUE
        /\ \A d \in Channels : d # c => u.binding[d] = r.binding[d]
        /\ u.channelByTab = c
        /\ u.pending = s.pending /\ u.removed = s.removed /\ u.port = s.port
        /\ u.disposed = s.disposed /\ u.job = s.job /\ u.tabOwner = s.tabOwner
    <3> DEFINE n == s.next
               m == s.next + 1
               b == [window |-> s.binding[c].window, generation |-> n, suspended |-> TRUE]
               bs == [s.binding EXCEPT ![c] = b]
    <3>1. n \in Nat \ {0} /\ n = r.next /\ m \in Nat /\ m = r.next + 1
      BY <1>3, <2>1
    <3>2. s.binding \in [Channels -> ChannelBinding \cup {NoBinding}] /\ b \in ChannelBinding
      BY <1>3, <2>2, <3>1, RouterFields DEF ChannelBinding
    <3> HIDE DEF n, m
    <3>3. [[s.binding EXCEPT ![c].generation = n] EXCEPT ![c].suspended = TRUE] = bs
      BY <2>1, <2>2, <3>1, <3>2, SuspendedBinding
    <3> HIDE DEF b
    <3>4. u = [[s EXCEPT !.binding = bs] EXCEPT !.next = m]
      BY <3>3 DEF n, m, Router
    <3>5. /\ bs \in [Channels -> ChannelBinding \cup {NoBinding}]
          /\ bs[c] = b /\ \A d \in Channels : d # c => bs[d] = s.binding[d]
      BY <2>1, <3>2
    <3> HIDE DEF u, bs
    <3>6. /\ u \in Router /\ u.next = m /\ u.binding = bs
          /\ u.channelByTab = s.channelByTab
          /\ u.pending = s.pending /\ u.removed = s.removed /\ u.port = s.port
          /\ u.disposed = s.disposed /\ u.job = s.job /\ u.tabOwner = s.tabOwner
      BY <1>3, <3>1, <3>4, <3>5 DEF Router
    <3> QED BY <1>3, <3>1, <3>5, <3>6 DEF b
  <2> HIDE DEF u
  <2>4. /\ r' \in Router
        /\ r'.binding = u.binding /\ r'.channelByTab = u.channelByTab
        /\ r'.pending = u.pending /\ r'.removed = u.removed
        /\ r'.next = u.next /\ r'.disposed = u.disposed
        /\ r'.port[c] = [open |-> u.port[c].open, generation |-> 0, window |-> NoWindow]
        /\ r'.job[c] = NoJobs
        /\ \A d \in Channels : d # c => r'.port[d] = u.port[d] /\ r'.job[d] = u.job[d]
        /\ r'.tabOwner = IF u.tabOwner = c THEN NoChannel ELSE u.tabOwner
    BY <2>1, <2>3, ClearedFields
  <2>5. \A d \in Channels : ~Active(r', d) /\ (d # c => ~Bound(r, d) /\ ~Active(r, d))
    BY <1>3, <1>4, <2>1, <2>3, <2>4 DEF Sound, Registered, OneChannel, Active, Bound
  <2>6. Sound(r')
    <3>1. OneChannel(r') /\ BindingsUsable(r')
      BY <1>3, <1>4, <2>1, <2>3, <2>4, <2>5 DEF Sound, OneChannel, BindingsUsable, Bound
    <3>2. Generations(r')
      <4>1. \A d \in Channels :
              /\ r.binding[d].generation \in Nat /\ s.pending[d].generation \in Nat
              /\ s.pending[d].bindingGeneration \in Nat
        BY <1>3, <1>4, RouterFields DEF ChannelBinding, NoBinding, PendingRegistration
      <4>2. /\ \A d \in Channels : r.binding[d].generation < r.next
            /\ \A d \in Channels : s.pending[d].generation # 0 =>
                 /\ s.pending[d].bindingGeneration < s.pending[d].generation
                 /\ s.pending[d].generation < r.next
        BY <1>3 DEF Sound, Generations, Pending
      <4>3. /\ r'.next = r.next + 1 /\ r'.pending = s.pending
            /\ \A d \in Channels : r'.binding[d].generation \in {r.next, r.binding[d].generation}
        BY <2>3, <2>4
      <4> QED BY <2>1, <4>1, <4>2, <4>3 DEF Generations, Pending
    <3>3. Registered(r')
      BY <2>5 DEF Registered
    <3>4. OwnerActive(r')
      BY <1>3, <1>4, <2>3, <2>4, <2>5, RouterFields DEF Sound, OwnerActive
    <3>5. JobsInPlace(r')
      <4>1. \A d \in Channels : r'.job[d] = NoJobs
        BY <1>3, <1>4, <2>3, <2>4, <2>5 DEF Sound, JobsInPlace
      <4> QED BY <4>1, NoJobsWait DEF JobsInPlace, Kinds
    <3> QED BY <2>4, <3>1, <3>2, <3>3, <3>4, <3>5 DEF Sound
  <2>7. Placed(r', events')
    BY <2>5 DEF Placed
  <2>8. \A d \in Channels : Waits(r', d) => Waits(r, d)
    BY <1>3, <2>3, <2>4, <2>5 DEF Waits, Bound
  <2>9. /\ r'.removed = r.removed
        /\ \A d \in Channels : r'.pending[d].seen = r.pending[d].seen
                               /\ (Pending(r', d) <=> Pending(r, d))
    BY <1>3, <2>3, <2>4 DEF Pending
  <2> QED BY <1>1, <2>6, <2>7, <2>8, <2>9, EventKeeps
<1> QED BY <1>5, <1>6

LEMMA LeastNatural ==
  ASSUME NEW T \in SUBSET Nat, T # {}
  PROVE  \E m \in T : \A n \in T : m <= n
<1>1. PICK m \in T : \A n \in T : ~(<<n, m>> \in OpToRel(<, Nat))
  <2>1. IsWellFoundedOn(OpToRel(<, Nat), Nat)
    BY NatLessThanWellFounded
  <2> QED BY <2>1, WFMin
<1>2. \A n \in T : ~(n < m)
  <2> SUFFICES ASSUME NEW n \in T, n < m PROVE FALSE
    OBVIOUS
  <2>1. <<n, m>> \in OpToRel(<, Nat)
    <3>1. n \in Nat /\ m \in Nat
      OBVIOUS
    <3> QED BY <3>1 DEF OpToRel
  <2> QED BY <1>1, <2>1
<1> QED BY <1>2

\* Generations are bounded, so one of the registrations is the latest.
LEMMA Latest ==
  ASSUME RouterInv, DetachedPending # {}
  PROVE  LatestPending \in Channels
<1> DEFINE g(c) == r.pending[c].generation
           Above == {n \in Nat : \A c \in DetachedPending : g(c) <= n}
<1>1. /\ r.next \in Nat /\ DetachedPending \subseteq Channels
      /\ \A c \in DetachedPending : g(c) \in Nat /\ g(c) # 0 /\ g(c) <= r.next
  <2>1. r.next \in Nat /\ \A c \in Channels : r.pending[c].generation \in Nat
    BY InvTypes, RouterFields DEF PendingRegistration
  <2> QED BY <2>1, InvTypes DEF Sound, Generations, Pending, DetachedPending
<1>2. r.next \in Above
  BY <1>1
<1>3. PICK m \in Above : \A n \in Above : m <= n
  BY <1>2, LeastNatural
<1>4. PICK c \in DetachedPending : g(c) = m
  <2> SUFFICES ASSUME \A c \in DetachedPending : g(c) # m PROVE FALSE
    OBVIOUS
  <2>1. \A c \in DetachedPending : g(c) <= m - 1 /\ m # 0
    BY <1>1, <1>3
  <2>2. m - 1 \in Nat
    BY <1>3, <2>1
  <2> QED BY <1>3, <2>1, <2>2
<1>5. \A d \in DetachedPending : r.pending[d].generation <= r.pending[c].generation
  BY <1>3, <1>4
<1>6. LatestPending \in DetachedPending
  BY <1>5 DEF LatestPending
<1> QED BY <1>1, <1>6

LEMMA AttachKeeps ==
  ASSUME RouterInv, AttachMovedTab
  PROVE  RouterInv' /\ NoneForgotten /\ acked' = NoWindow
<1> DEFINE w == Head(events).window
<1>1. /\ Arrives("attached")
      /\ \/ r' = r
         \/ r.channelByTab \in Channels /\ r' = Rebind(r, r.channelByTab, w)
         \/ r.channelByTab = NoChannel /\ DetachedPending # {} /\ r' = Rebind(r, LatestPending, w)
  BY InvTypes, RouterFields DEF AttachMovedTab
<1>2. /\ w \in Windows /\ events[1] = Event("attached", w) /\ 1 \in DOMAIN events
      /\ \A i \in DOMAIN events :
           i # 1 => i - 1 \in DOMAIN events' /\ events'[i - 1] = events[i]
  BY <1>1, TailFacts
<1> HIDE DEF w
<1>3. Usable(r, w)
  <2>1. events[1].type = "attached" /\ events[1].window = w
    BY <1>2 DEF Event
  <2>2. w \notin r.removed
    BY <1>2, <2>1 DEF RouterInv, AttachedIsOpen
  <2> QED BY <1>2, <2>2 DEF Usable
<1>4. Sound(r) /\ Placed(r, events) /\ TypeOK
  BY InvTypes DEF RouterInv
<1>5. CASE r' = r
  <2>1. Placed(r', events')
    <3> SUFFICES ASSUME at # NoWindow, NEW d \in Channels, Active(r, d)
                 PROVE  Here(r, events', d)
      BY <1>5 DEF Placed
    <3>1. Here(r, events, d)
      BY <1>4 DEF Placed
    <3>2. ASSUME NEW i \in DOMAIN events, events[i] = Event("detached", r.port[d].window)
          PROVE  \E j \in DOMAIN events' : events'[j] = Event("detached", r.port[d].window)
      <4>1. i # 1
        BY <1>2, <3>2 DEF Event
      <4> QED BY <1>2, <3>2, <4>1
    <3> QED BY <3>1, <3>2 DEF Here
  <2> QED BY <1>1, <1>4, <1>5, <2>1, EventKeeps DEF Waits
<1>6. ASSUME NEW c \in Channels, r.channelByTab \in {c, NoChannel}, r' = Rebind(r, c, w)
      PROVE  RouterInv' /\ NoneForgotten /\ acked' = NoWindow
  <2>1. /\ Sound(Rebind(r, c, w)) /\ \A ev : Placed(Rebind(r, c, w), ev)
        /\ \A d \in Channels : ~Waits(Rebind(r, c, w), d)
        /\ Rebind(r, c, w).job[c]["command"].stage = "none"
        /\ Rebind(r, c, w).pending = r.pending /\ Rebind(r, c, w).removed = r.removed
        /\ Rebind(r, c, w).disposed = r.disposed
        /\ Rebind(r, c, w) # r
    BY <1>2, <1>3, <1>4, <1>6, RebindKeeps
  <2>2. /\ Sound(r') /\ Placed(r', events') /\ r'.pending = r.pending
        /\ r'.removed = r.removed /\ \A d \in Channels : ~Waits(r', d)
    BY <1>6, <2>1
  <2>3. \A d \in Channels : r'.pending[d].seen = r.pending[d].seen
                            /\ (Pending(r', d) <=> Pending(r, d))
    BY <2>2 DEF Pending
  <2> QED BY <1>1, <2>2, <2>3, EventKeeps
<1> QED BY <1>1, <1>5, <1>6, Latest

\* Where no channel is bound, nothing is active.
LEMMA EmptyKeeps ==
  ASSUME NEW s \in Router, s.next # 0, s.channelByTab = NoChannel, s.tabOwner = NoChannel,
         \A c \in Channels : /\ ~Bound(s, c) /\ ~Active(s, c) /\ s.job[c] = NoJobs
                             /\ Pending(s, c) =>
                                  /\ s.pending[c].bindingGeneration < s.pending[c].generation
                                  /\ s.pending[c].generation < s.next
  PROVE  /\ Sound(s) /\ \A ev : Placed(s, ev)
         /\ \A c \in Channels : ~Waits(s, c)
<1>1. s.next \in Nat
  BY RouterFields
<1>2. OneChannel(s) /\ BindingsUsable(s) /\ Registered(s) /\ OwnerActive(s)
  BY RouterAssumption DEF OneChannel, BindingsUsable, Registered, OwnerActive
<1>3. Generations(s)
  BY <1>1 DEF Generations, Bound
<1>4. JobsInPlace(s)
  BY NoJobsWait DEF JobsInPlace, Kinds
<1>5. \A ev : Placed(s, ev)
  BY DEF Placed
<1> QED BY <1>2, <1>3, <1>4, <1>5 DEF Sound, Waits

LEMMA RemoveKeeps ==
  ASSUME RouterInv, RemoveWindow
  PROVE  RouterInv' /\ NoneForgotten /\ acked' = NoWindow
<1> DEFINE w == Head(events).window
           c == r.channelByTab
           o == IF r.tabOwner # NoChannel /\ r.port[r.tabOwner].window = w
                THEN NoChannel ELSE r.tabOwner
           s == [r EXCEPT !.removed = @ \cup {w}, !.tabOwner = o]
           binds == c # NoChannel /\ ~r.binding[c].suspended /\ r.binding[c].window = w
<1>1. /\ Arrives("removed")
      /\ r' = IF binds THEN RemoveBinding(ClosePort(s, c), c) ELSE s
  BY DEF RemoveWindow
<1>2. /\ w \in Windows /\ events[1] = Event("removed", w) /\ 1 \in DOMAIN events
      /\ EventsOK'
      /\ \A i \in DOMAIN events' : i + 1 \in DOMAIN events /\ events'[i] = events[i + 1]
      /\ \A i \in DOMAIN events :
           i # 1 => i - 1 \in DOMAIN events' /\ events'[i - 1] = events[i]
  BY <1>1, TailFacts
<1>3. /\ Sound(r) /\ Placed(r, events) /\ r \in Router
      /\ c \in Channels \cup {NoChannel} /\ o \in Channels \cup {NoChannel}
  BY InvTypes, RouterFields DEF RouterInv
<1> HIDE DEF w
<1>4. /\ s \in Router /\ s.removed = r.removed \cup {w} /\ s.tabOwner = o
      /\ s.binding = r.binding /\ s.channelByTab = r.channelByTab
      /\ s.pending = r.pending /\ s.port = r.port
      /\ s.next = r.next /\ s.disposed = r.disposed /\ s.job = r.job
  <2> DEFINE gone == r.removed \cup {w}
  <2>1. gone \in SUBSET Windows
    BY <1>2, <1>3, RouterFields
  <2> HIDE DEF o
  <2>2. s = [[r EXCEPT !.removed = gone] EXCEPT !.tabOwner = o]
    OBVIOUS
  <2> HIDE DEF gone, s
  <2>3. /\ s \in Router /\ s.removed = gone /\ s.tabOwner = o
        /\ s.binding = r.binding /\ s.channelByTab = r.channelByTab
        /\ s.pending = r.pending /\ s.port = r.port
        /\ s.next = r.next /\ s.disposed = r.disposed /\ s.job = r.job
    BY <1>3, <2>1, <2>2 DEF Router
  <2> QED BY <2>3 DEF gone
<1>5. \A d \in Channels : Active(r, d) => d = c /\ r.tabOwner = c
  BY <1>3, RouterAssumption DEF Sound, Registered, OneChannel, Active, Bound
<1> HIDE DEF s
<1>6. ASSUME binds
      PROVE  /\ Sound(r') /\ Placed(r', events')
             /\ \A d \in Channels : Waits(r', d) => Waits(r, d)
             /\ r'.pending = r.pending /\ r'.removed = r.removed \cup {w}
  <2>1. c \in Channels
    BY <1>3, <1>6
  <2> DEFINE u == ClosePort(s, c)
  <2>2. /\ u \in Router
        /\ u.binding = s.binding /\ u.channelByTab = s.channelByTab
        /\ u.pending = s.pending /\ u.removed = s.removed
        /\ u.next = s.next /\ u.disposed = s.disposed
        /\ u.port[c] = NoPort /\ u.job[c] = NoJobs
        /\ \A d \in Channels : d # c => u.port[d] = s.port[d] /\ u.job[d] = s.job[d]
        /\ u.tabOwner = IF s.tabOwner = c THEN NoChannel ELSE s.tabOwner
    BY <1>4, <2>1, ClosedFields
  <2> HIDE DEF u
  <2>3. /\ r' \in Router
        /\ r'.binding[c] = NoBinding
        /\ \A d \in Channels : d # c => r'.binding[d] = u.binding[d]
        /\ r'.channelByTab = IF u.channelByTab = c THEN NoChannel ELSE u.channelByTab
        /\ r'.pending = u.pending /\ r'.removed = u.removed /\ r'.port = u.port
        /\ r'.next = u.next /\ r'.disposed = u.disposed /\ r'.job = u.job
        /\ r'.tabOwner = u.tabOwner
    <3> DEFINE t == RemoveBinding(u, c)
    <3>1. /\ t \in Router
          /\ t.binding[c] = NoBinding
          /\ \A d \in Channels : d # c => t.binding[d] = u.binding[d]
          /\ t.channelByTab = IF u.channelByTab = c THEN NoChannel ELSE u.channelByTab
          /\ t.pending = u.pending /\ t.removed = u.removed /\ t.port = u.port
          /\ t.next = u.next /\ t.disposed = u.disposed /\ t.job = u.job
          /\ t.tabOwner = u.tabOwner
      BY <2>1, <2>2, UnboundFields
    <3>2. r' = t
      BY <1>1, <1>6 DEF u
    <3> HIDE DEF t
    <3> QED BY <3>1, <3>2
  <2>4. /\ r'.channelByTab = NoChannel
        /\ r'.next # 0 /\ r'.next = r.next /\ r'.pending = r.pending
        /\ r'.removed = r.removed \cup {w}
    BY <1>3, <1>4, <2>2, <2>3 DEF Sound, Generations
  <2>5. r'.tabOwner = NoChannel
    BY <1>3, <1>4, <1>5, <2>1, <2>2, <2>3, RouterFields DEF Sound, OwnerActive
  <2>6. \A d \in Channels : ~Bound(r', d) /\ ~Active(r', d) /\ r'.job[d] = NoJobs
    <3> SUFFICES ASSUME NEW d \in Channels
                 PROVE  ~Bound(r', d) /\ ~Active(r', d) /\ r'.job[d] = NoJobs
      OBVIOUS
    <3>1. CASE d = c
      BY <2>2, <2>3, <3>1 DEF Bound, Active, NoBinding, NoPort
    <3>2. CASE d # c
      BY <1>3, <1>4, <1>5, <2>2, <2>3, <3>2
         DEF Bound, Active, Sound, OneChannel, JobsInPlace
    <3> QED BY <3>1, <3>2
  <2>7. \A d \in Channels : Pending(r', d) =>
          /\ r'.pending[d].bindingGeneration < r'.pending[d].generation
          /\ r'.pending[d].generation < r'.next
    BY <1>3, <2>4 DEF Sound, Generations, Pending
  <2>8. /\ Sound(r') /\ \A ev : Placed(r', ev)
        /\ \A d \in Channels : ~Waits(r', d)
    BY <2>3, <2>4, <2>5, <2>6, <2>7, EmptyKeeps
  <2> QED BY <2>4, <2>8
<1>7. ASSUME ~binds
      PROVE  /\ Sound(r') /\ Placed(r', events')
             /\ \A d \in Channels : Waits(r', d) => Waits(r, d)
             /\ r'.pending = r.pending /\ r'.removed = r.removed \cup {w}
  <2>1. r' = s
    BY <1>1, <1>7
  <2>2. o = r.tabOwner
    <3> SUFFICES ASSUME r.tabOwner # NoChannel, r.port[r.tabOwner].window = w PROVE FALSE
      OBVIOUS
    <3>1. r.tabOwner \in Channels /\ Active(r, r.tabOwner)
      BY <1>3, RouterFields DEF Sound, OwnerActive
    <3>2. r.tabOwner = c /\ r.binding[c].window = w /\ ~r.binding[c].suspended
      BY <1>3, <1>5, <3>1 DEF Sound, Registered
    <3> QED BY <1>7, <3>1, <3>2
  <2> HIDE DEF o
  <2>3. Sound(s)
    <3>1. OneChannel(s) /\ Generations(s) /\ Registered(s) /\ OwnerActive(s) /\ JobsInPlace(s)
      BY <1>3, <1>4, <2>2 DEF Sound, OneChannel, Generations, Registered, OwnerActive,
                              JobsInPlace, Bound, Pending, Active
    <3>2. BindingsUsable(s)
      BY <1>3, <1>4, <1>7, RouterAssumption
         DEF Sound, BindingsUsable, OneChannel, Usable, Bound
    <3> QED BY <1>4, <3>1, <3>2 DEF Sound
  <2>4. Placed(s, events')
    <3> SUFFICES ASSUME at # NoWindow, NEW d \in Channels, Active(r, d)
                 PROVE  Here(s, events', d)
      BY <1>4 DEF Placed, Active
    <3>1. Here(r, events, d)
      BY <1>3 DEF Placed
    <3>2. ASSUME NEW i \in DOMAIN events, events[i] = Event("detached", r.port[d].window)
          PROVE  \E j \in DOMAIN events' : events'[j] = Event("detached", r.port[d].window)
      <4>1. i # 1
        BY <1>2, <3>2 DEF Event
      <4> QED BY <1>2, <3>2, <4>1
    <3> QED BY <1>4, <3>1, <3>2 DEF Here, Waiting
  <2>5. \A d \in Channels : Waits(s, d) => Waits(r, d)
    BY <1>4 DEF Waits, Bound, Active
  <2> QED BY <1>4, <2>1, <2>3, <2>4, <2>5
<1>8. /\ Sound(r') /\ Placed(r', events')
      /\ \A d \in Channels : Waits(r', d) => Waits(r, d)
      /\ r'.pending = r.pending /\ r'.removed = r.removed \cup {w}
  BY <1>6, <1>7
<1>9. AttachedIsOpen'
  <2> SUFFICES ASSUME NEW i \in DOMAIN events', events'[i].type = "attached"
               PROVE  /\ events'[i].window \notin r.removed \cup {w}
                      /\ \A j \in 1 .. (i - 1) : events'[j] # Event("removed", events'[i].window)
    BY <1>8 DEF AttachedIsOpen, Event
  <2> DEFINE n == Len(events')
  <2>1. /\ n \in Nat /\ DOMAIN events' = 1 .. n /\ i + 1 \in DOMAIN events
        /\ events'[i] = events[i + 1] /\ i \in Nat \ {0}
    BY <1>2, LenProperties DEF EventsOK
  <2>2. /\ events[i + 1].window \notin r.removed
        /\ \A j \in 1 .. i : events[j] # Event("removed", events[i + 1].window)
    <3>1. (i + 1) - 1 = i
      BY <2>1
    <3> QED BY <2>1, <3>1 DEF RouterInv, AttachedIsOpen
  <2>3. events[i + 1].window # w
    BY <1>2, <2>1, <2>2
  <2>4. ASSUME NEW j \in 1 .. (i - 1)
        PROVE  events'[j] # Event("removed", events[i + 1].window)
    <3>1. j \in DOMAIN events' /\ j + 1 \in 1 .. i
      BY <2>1
    <3> QED BY <1>2, <2>2, <3>1
  <2> QED BY <2>1, <2>2, <2>3, <2>4
<1>10. SeenIsReal' /\ at' = at /\ acked' = NoWindow
  BY <1>1, <1>8 DEF RouterInv, SeenIsReal, Arrives
<1>11. Placed(r, events)'
  BY <1>8, <1>10 DEF Placed, Here, Event, Waiting, Active
<1>12. NoneForgotten
  BY <1>8, <1>10 DEF NoneForgotten, Neglected, Waits, Bound, Active, Pending
<1> QED BY <1>2, <1>8, <1>9, <1>10, <1>11, <1>12 DEF RouterInv

LEMMA NewFields ==
  ASSUME NEW n \in Nat \ {0}, NEW b \in BOOLEAN, NEW t,
         t = [binding |-> [c \in Channels |-> NoBinding], channelByTab |-> NoChannel,
              pending |-> [c \in Channels |-> NoPending],
              port |-> [c \in Channels |-> NoPort], job |-> [c \in Channels |-> NoJobs],
              tabOwner |-> NoChannel, removed |-> {}, next |-> n, disposed |-> b]
  PROVE  /\ Sound(t) /\ \A ev : Placed(t, ev)
         /\ \A c \in Channels : ~Waits(t, c) /\ t.pending[c].seen = {}
         /\ t.removed = {}
<1>1. /\ NoBinding \in ChannelBinding \cup {NoBinding} /\ NoPending \in PendingRegistration
      /\ NoPort \in PanelPortRecord /\ NoJobs \in [Kinds -> Job]
  BY DEF NoPending, PendingRegistration, NoPort, PanelPortRecord, NoJobs, NoJob, Job
<1>2. /\ t.binding = [c \in Channels |-> NoBinding] /\ t.channelByTab = NoChannel
      /\ t.pending = [c \in Channels |-> NoPending]
      /\ t.port = [c \in Channels |-> NoPort] /\ t.job = [c \in Channels |-> NoJobs]
      /\ t.tabOwner = NoChannel /\ t.removed = {} /\ t.next = n /\ t.disposed = b
  OBVIOUS
<1>3. t \in Router
  <2>1. /\ t.binding \in [Channels -> ChannelBinding \cup {NoBinding}]
        /\ t.pending \in [Channels -> PendingRegistration]
        /\ t.port \in [Channels -> PanelPortRecord]
        /\ t.job \in [Channels -> [Kinds -> Job]]
    BY <1>1, <1>2
  <2>2. /\ t.channelByTab \in Channels \cup {NoChannel}
        /\ t.tabOwner \in Channels \cup {NoChannel}
        /\ t.removed \in SUBSET Windows /\ t.next \in Nat /\ t.disposed \in BOOLEAN
    BY <1>2
  <2>3. t = [binding |-> t.binding, channelByTab |-> t.channelByTab, pending |-> t.pending,
             port |-> t.port, job |-> t.job, tabOwner |-> t.tabOwner,
             removed |-> t.removed, next |-> t.next, disposed |-> t.disposed]
    OBVIOUS
  <2> QED BY <2>1, <2>2, <2>3 DEF Router
<1>4. \A c \in Channels : /\ ~Bound(t, c) /\ ~Active(t, c) /\ t.job[c] = NoJobs
                          /\ ~Pending(t, c) /\ t.pending[c].seen = {}
  BY <1>2 DEF Bound, Active, Pending, NoBinding, NoPort, NoPending
<1> QED BY <1>2, <1>3, <1>4, EmptyKeeps

LEMMA DisposeKeeps ==
  ASSUME RouterInv, Dispose
  PROVE  RouterInv' /\ NoneForgotten /\ acked' = NoWindow
<1>1. r.next \in Nat \ {0}
  BY InvTypes, RouterFields DEF Sound, Generations
<1> DEFINE n == r.next
<1>2. r' = [binding |-> [c \in Channels |-> NoBinding], channelByTab |-> NoChannel,
                 pending |-> [c \in Channels |-> NoPending],
                 port |-> [c \in Channels |-> NoPort], job |-> [c \in Channels |-> NoJobs],
                 tabOwner |-> NoChannel, removed |-> {}, next |-> n, disposed |-> TRUE]
  BY DEF Dispose, NewRouter
<1> HIDE DEF n
<1>3. /\ Sound(r') /\ \A ev : Placed(r', ev)
      /\ \A c \in Channels : ~Waits(r', c) /\ r'.pending[c].seen = {}
      /\ r'.removed = {}
  BY <1>1, <1>2, NewFields DEF n
<1>4. at' = at /\ events' = << >> /\ acked' = NoWindow
  BY DEF Dispose
<1>5. Placed(r, events)'
  BY <1>3, <1>4 DEF Placed, Here, Event, Waiting, Active
<1>6. EventsOK' /\ AttachedIsOpen'
  BY <1>4 DEF EventsOK, AttachedIsOpen
<1>7. SeenIsReal' /\ NoneForgotten
  BY <1>3 DEF SeenIsReal, NoneForgotten, Neglected, Waits, Bound, Active
<1> QED BY <1>3, <1>4, <1>5, <1>6, <1>7 DEF RouterInv

LEMMA BrowserStepsKeep ==
  ASSUME RouterInv, BrowserStep
  PROVE  RouterInv' /\ NoneForgotten /\ AcknowledgedNow
<1>1. RouterInv' /\ NoneForgotten /\ acked' = NoWindow
  BY MoveKeeps, CloseWindowKeeps, CloseTabKeeps, SuspendKeeps, AttachKeeps, RemoveKeeps,
     DisposeKeeps DEF BrowserStep
<1> QED BY <1>1 DEF AcknowledgedNow
-----------------------------------------------------------------------------
(* Theorems *)

LEMMA InitHolds == Init => RouterInv
<1> SUFFICES ASSUME Init PROVE RouterInv
  OBVIOUS
<1>1. r = [binding |-> [c \in Channels |-> NoBinding], channelByTab |-> NoChannel,
           pending |-> [c \in Channels |-> NoPending],
           port |-> [c \in Channels |-> NoPort], job |-> [c \in Channels |-> NoJobs],
           tabOwner |-> NoChannel, removed |-> {}, next |-> 1, disposed |-> FALSE]
  BY DEF Init, NewRouter
<1>2. /\ Sound(r) /\ \A ev : Placed(r, ev)
      /\ \A c \in Channels : r.pending[c].seen = {}
  <2>1. 1 \in Nat \ {0} /\ FALSE \in BOOLEAN
    OBVIOUS
  <2> QED BY <1>1, <2>1, NewFields
<1>3. SeenIsReal /\ EventsOK /\ AttachedIsOpen
  BY <1>2 DEF Init, SeenIsReal, EventsOK, AttachedIsOpen
<1> QED BY <1>2, <1>3 DEF Init, RouterInv

LEMMA StutterKeeps ==
  ASSUME RouterInv, UNCHANGED vars
  PROVE  RouterInv' /\ NoneForgotten
<1>1. r' = r /\ at' = at /\ events' = events /\ acked' = acked
  BY DEF vars
<1>2. Placed(r, events)'
  BY <1>1 DEF RouterInv, Placed, Here, Event, Waiting, Active
<1>3. SeenIsReal' /\ EventsOK' /\ AttachedIsOpen'
  BY <1>1 DEF RouterInv, SeenIsReal, EventsOK, AttachedIsOpen, Event
<1>4. NoneForgotten
  BY <1>1 DEF NoneForgotten, Neglected, Bound, Active, Pending
<1> QED BY <1>1, <1>2, <1>3, <1>4 DEF RouterInv

LEMMA NextKeeps ==
  ASSUME RouterInv, [Next]_vars
  PROVE  RouterInv' /\ NoneForgotten
BY StutterKeeps, BrowserStepsKeep, PanelStepsKeep DEF Next

LEMMA InvAlways == Spec => []RouterInv
<1>1. Init => RouterInv
  BY InitHolds
<1>2. RouterInv /\ [Next]_vars => RouterInv'
  BY NextKeeps
<1> QED BY <1>1, <1>2, PTL DEF Spec

\* The fields of the router, what waits for tabs.get and the events on their
\* way have the types that the source declares, in every state.
THEOREM RouterTypeCorrect == Spec => []TypeOK
<1>1. RouterInv => TypeOK
  BY InvTypes
<1> QED BY <1>1, InvAlways, PTL

\* A tab is bound to at most one channel; a panel that may send commands is
\* the coordinator's registration of the tab, under its binding's generation
\* and in its binding's window, which is open.
THEOREM ActivationAlwaysSound == Spec => []ActivationIsSound
<1>1. RouterInv => ActivationIsSound
  <2> SUFFICES ASSUME RouterInv PROVE ActivationIsSound
    OBVIOUS
  <2>1. Sound(r)
    BY InvTypes
  <2>2. OneChannelPerTab /\ OwnerIsActive
    BY <2>1 DEF Sound, OneChannel, OneChannelPerTab, OwnerActive, OwnerIsActive
  <2>3. ActivationIsRegistered
    BY <2>1 DEF Sound, Registered, BindingsUsable, ActivationIsRegistered, Active, Bound
  <2> QED BY <2>2, <2>3 DEF ActivationIsSound
<1> QED BY <1>1, InvAlways, PTL

\* Where no event is on its way and no lookup under way, nothing waits.
LEMMA QuietWaitsForNothing ==
  ASSUME RouterInv, Quiet
  PROVE  \A c \in Channels, k \in Kinds : ~Waiting(r, c, k)
<1> DEFINE P == {c \in Channels : Pending(r, c)}
           X == Channels \X Kinds
           W == {w \in X : Waiting(r, w[1], w[2])}
<1>1. IsFiniteSet(Channels) /\ IsFiniteSet(Kinds)
  <2>1. IsFiniteSet({"command"} \cup {"publish"} \cup {"state"})
    BY FS_Singleton, FS_AddElement
  <2>2. Kinds = {"command"} \cup {"publish"} \cup {"state"}
    BY DEF Kinds
  <2> QED BY <2>1, <2>2, RouterAssumption
<1>2. IsFiniteSet(P)
  BY <1>1, FS_Subset
<1>3. IsFiniteSet(X)
  BY <1>1, FS_Product
<1>4. IsFiniteSet(W)
  BY <1>3, FS_Subset
<1>5. Cardinality(P) \in Nat /\ Cardinality(W) \in Nat /\ Cardinality(P) + Cardinality(W) = 0
  <2>1. Cardinality(P) \in Nat /\ Cardinality(W) \in Nat
    BY <1>2, <1>4, FS_CardinalityType
  <2> QED BY <2>1 DEF Quiet, LookupsUnderWay
<1>6. W = {}
  BY <1>4, <1>5, FS_EmptySet
<1> SUFFICES ASSUME NEW c \in Channels, NEW k \in Kinds, Waiting(r, c, k) PROVE FALSE
  OBVIOUS
<1> DEFINE x == <<c, k>>
<1>7. x \in X /\ x[1] = c /\ x[2] = k
  OBVIOUS
<1> HIDE DEF x, X
<1>8. x \in W
  BY <1>7
<1> QED BY <1>6, <1>8

\* However stale the answers were: when nothing is on its way any more, an
\* active panel belongs to the window that its tab is in.
THEOREM PanelSettlesInPlace == Spec => []SettledPanelIsInPlace
<1>1. RouterInv => SettledPanelIsInPlace
  <2> SUFFICES ASSUME RouterInv, Quiet, at # NoWindow, NEW c \in Channels, Active(r, c)
               PROVE  r.port[c].window = at
    BY DEF SettledPanelIsInPlace
  <2>1. Here(r, events, c)
    BY DEF RouterInv, Placed
  <2>2. \A k \in Kinds : ~Waiting(r, c, k)
    BY QuietWaitsForNothing
  <2>3. DOMAIN events = {}
    BY DEF Quiet
  <2> QED BY <2>1, <2>2, <2>3 DEF Here
<1> QED BY <1>1, InvAlways, PTL

\* A step leaves a port without service that its channel could serve only if
\* a registration was under way that a removed window may answer.
THEOREM PortsNeverForgotten == Spec => NoPortIsForgotten
<1>1. RouterInv /\ [Next]_vars =>
        [\A c \in Channels : Neglected(c)' =>
           \/ Neglected(c)
           \/ Pending(r, c) /\ r.pending[c].seen \cap r.removed # {}]_vars
  BY NextKeeps DEF NoneForgotten, MayFail
<1> QED BY <1>1, InvAlways, PTL DEF Spec, NoPortIsForgotten

\* A command is answered "ok" only to the registered panel of the window it
\* was carried out in, where the tab has been since.
THEOREM AcknowledgedAlwaysInPlace == Spec => AcknowledgedInPlace
<1>1. RouterInv /\ [Next]_vars =>
        [acked' # NoWindow =>
           \E c \in Channels :
             /\ r.job[c]["command"].stage = "recheck"
             /\ acked' \in r.job[c]["command"].seen
             /\ r'.tabOwner = c /\ r'.port[c].window = acked']_vars
  BY BrowserStepsKeep, PanelStepsKeep DEF Next, AcknowledgedNow
<1> QED BY <1>1, InvAlways, PTL DEF Spec, AcknowledgedInPlace
=============================================================================
