-------------------------- MODULE BackgroundRouter --------------------------
(***************************************************************************)
(* The background router of the browser extension: which DevTools channel  *)
(* a tab is bound to, in which window, which panel port is active, and     *)
(* what happens to everything that is waiting for tabs.get while the tab   *)
(* is dragged between windows, the panel's port is lost and found again,   *)
(* or a second DevTools page takes the tab over.                           *)
(*                                                                         *)
(* Tabs share nothing in the router but source ids, which every DevTools   *)
(* page draws at random; the module has one tab.  A step is one run of     *)
(* the event loop between two awaits.                                      *)
(***************************************************************************)
EXTENDS Naturals, Sequences, FiniteSets

CONSTANTS
  Channels,      \* one for every DevTools page of the tab
  NoChannel,
  Windows,       \* browser windows
  NoWindow,
  MaxGeneration, \* bound: registrations and moves stop when it is reached
  MaxLookups     \* bound: calls of tabs.get under way before another may start

ASSUME RouterAssumption ==
  /\ IsFiniteSet(Channels)
  /\ NoChannel \notin Channels
  /\ NoWindow \notin Windows
  /\ MaxGeneration \in Nat \ {0}
  /\ MaxLookups \in Nat \ {0}

VARIABLES
  r,      \* the fields of the router, and the coordinator's owner of the tab
  at,     \* the window the tab is in, NoWindow once it is closed
  events, \* browser events that are still to reach the background
  acked   \* the window of the command that this step acknowledged

vars == <<r, at, events, acked>>

-----------------------------------------------------------------------------
(* What the router keeps.  Generation 0 is "undefined".                    *)

ChannelBinding == [window: Windows, generation: Nat \ {0}, suspended: BOOLEAN]
NoBinding == [window |-> NoWindow, generation |-> 0, suspended |-> FALSE]

(* seen: the windows tabs.get may answer, those the tab has been in since  *)
(* the call; NoWindow stands for a call that fails.                        *)
PendingRegistration ==
  [generation: Nat, bindingGeneration: Nat, detached: Windows \cup {NoWindow},
   seen: SUBSET (Windows \cup {NoWindow})]

NoPending ==
  [generation |-> 0, bindingGeneration |-> 0, detached |-> NoWindow, seen |-> {}]

(* generation is the binding generation of the port's activation; window   *)
(* is the one its panel is registered for with the coordinator.            *)
PanelPortRecord ==
  [open: BOOLEAN, generation: Nat, window: Windows \cup {NoWindow}]

NoPort == [open |-> FALSE, generation |-> 0, window |-> NoWindow]

(* What an activation may be waiting for.  A command looks the tab up, is  *)
(* carried out, and looks it up again; so does an inspect request, which   *)
(* is a command here.  A selection and a window state are looked up once.  *)
(* window is where the work was sent.                                      *)
Kinds == {"command", "publish", "state"}
Job == [stage: {"none", "lookup", "acting", "recheck"},
        seen: SUBSET (Windows \cup {NoWindow}), window: Windows \cup {NoWindow}]
NoJob == [stage |-> "none", seen |-> {}, window |-> NoWindow]
NoJobs == [k \in Kinds |-> NoJob]
Lookup(stage, window) == [stage |-> stage, seen |-> {at}, window |-> window]

Router ==
  [binding: [Channels -> ChannelBinding \cup {NoBinding}],
   channelByTab: Channels \cup {NoChannel},
   pending: [Channels -> PendingRegistration],
   port: [Channels -> PanelPortRecord],
   job: [Channels -> [Kinds -> Job]],
   tabOwner: Channels \cup {NoChannel},
   removed: SUBSET Windows,
   next: Nat,
   disposed: BOOLEAN]

NewRouter ==
  [binding |-> [c \in Channels |-> NoBinding],
   channelByTab |-> NoChannel,
   pending |-> [c \in Channels |-> NoPending],
   port |-> [c \in Channels |-> NoPort],
   job |-> [c \in Channels |-> NoJobs],
   tabOwner |-> NoChannel,
   removed |-> {},
   next |-> 1,
   disposed |-> FALSE]

Bound(s, c) == s.binding[c].generation # 0
Active(s, c) == s.port[c].generation # 0
Pending(s, c) == s.pending[c].generation # 0
Usable(s, w) == w \in Windows \ s.removed

-----------------------------------------------------------------------------
(* The router's private methods, as operators on its fields.               *)

(* Mutant: what waits under the activation is not cancelled with it.        *)
ClearActivationOnly(s, c) ==
  [s EXCEPT !.port[c].generation = 0,
            !.port[c].window = NoWindow,
            !.tabOwner = IF @ = c THEN NoChannel ELSE @]

(* Whatever waits under an activation finds it gone when it resumes, so it *)
(* is dropped with it; the coordinator's registration goes too.            *)
ClearActivation(s, c) ==
  [s EXCEPT !.port[c].generation = 0,
            !.port[c].window = NoWindow,
            !.job[c] = NoJobs,
            !.tabOwner = IF @ = c THEN NoChannel ELSE @]

ClosePort(s, c) == [ClearActivation(s, c) EXCEPT !.port[c] = NoPort]

RemoveBinding(s, c) ==
  [s EXCEPT !.binding[c] = NoBinding,
            !.channelByTab = IF @ = c THEN NoChannel ELSE @]

(* The coordinator gives an inert handle for a tab that has an owner and   *)
(* otherwise announces the window's state at once, which is looked up      *)
(* before it is shown.                                                     *)
Activate(s, c) ==
  LET b == s.binding[c]
      cleared == ClearActivation(s, c)
  IN IF ~s.port[c].open \/ b.generation \in {0, s.port[c].generation} \/ b.suspended
     THEN s
     ELSE [cleared EXCEPT
             !.port[c].generation = b.generation,
             !.port[c].window = b.window,
             !.tabOwner = IF @ = NoChannel THEN c ELSE @,
             !.job[c]["state"] =
               IF cleared.tabOwner = NoChannel THEN Lookup("lookup", NoWindow) ELSE NoJob]

Bind(s, c, w, generation) ==
  [s EXCEPT !.binding[c] =
              [window |-> w, generation |-> generation, suspended |-> FALSE],
            !.channelByTab = c]

Rebind(s, c, w) ==
  Activate([Bind(s, c, w, s.next) EXCEPT !.next = @ + 1], c)

(* The second half of refreshPanelBinding, when tabs.get has answered w.   *)
Refresh(s, c, w) ==
  IF ~Usable(s, w) THEN ClearActivation(RemoveBinding(s, c), c)
  ELSE IF w = s.binding[c].window THEN s
  ELSE Rebind(s, c, w)

-----------------------------------------------------------------------------
Init ==
  /\ r = NewRouter
  /\ at \in Windows
  /\ events = <<>>
  /\ acked = NoWindow

Waiting(s, c, k) == s.job[c][k].stage \in {"lookup", "recheck"}

LookupsUnderWay ==
  Cardinality({c \in Channels : Pending(r, c)})
    + Cardinality({w \in Channels \X Kinds : Waiting(r, w[1], w[2])})

MayAsk == ~r.disposed /\ at # NoWindow /\ LookupsUnderWay < MaxLookups

Unacknowledged == acked' = NoWindow /\ UNCHANGED <<at, events>>

-----------------------------------------------------------------------------
(* Registration: a DevTools page announces its channel, also when its      *)
(* panel is shown again or has lost its port.  Announcements of a channel  *)
(* that is being registered join the registration under way.               *)

RegisterDevtools(c) ==
  /\ MayAsk
  /\ ~Pending(r, c)
  /\ r.next < MaxGeneration
  /\ r' = [r EXCEPT !.next = @ + 1,
                    !.pending[c] = [generation |-> r.next,
                                    bindingGeneration |-> r.binding[c].generation,
                                    detached |-> NoWindow,
                                    seen |-> {at}]]
  /\ Unacknowledged

(* Mutant: the port that waited for this answer is left alone.              *)
RegistrationOvertakenQuietly(c, w) ==
  LET b == r.binding[c]
      s == [r EXCEPT !.pending[c] = NoPending]
  IN /\ Bound(r, c) /\ w # NoWindow
     /\ r.pending[c].bindingGeneration # b.generation
     /\ r' = IF b.suspended /\ Usable(r, w) /\ w # b.window THEN Rebind(s, c, w) ELSE s

(* The channel was bound, or bound again, while tabs.get was under way.    *)
(* A tabs.get that is rejected, for a closed tab, never comes this far.    *)
RegistrationOvertaken(c, w) ==
  LET b == r.binding[c]
      s == [r EXCEPT !.pending[c] = NoPending]
  IN /\ Bound(r, c) /\ w # NoWindow
     /\ r.pending[c].bindingGeneration # b.generation
     /\ r' = IF b.suspended /\ Usable(r, w) /\ w # b.window
             THEN Rebind(s, c, w)
             ELSE Activate(s, c)

(* The binding is the one the channel had when it announced itself.        *)
RegistrationConfirmed(c, w) ==
  LET b == r.binding[c]
      s == [r EXCEPT !.pending[c] = NoPending]
  IN /\ Bound(r, c)
     /\ r.pending[c].bindingGeneration = b.generation
     /\ Usable(r, w)
     /\ r' = Activate(IF w = b.window THEN s
                      ELSE Bind(s, c, w, r.pending[c].generation), c)

(* Mutant: the older channel keeps its binding and its port.                *)
RegistrationBindsBeside(c, w) ==
  LET p == r.pending[c]
      other == r.channelByTab
  IN /\ ~Bound(r, c) /\ p.bindingGeneration = 0
     /\ Usable(r, w) /\ w # p.detached
     /\ other # NoChannel => r.binding[other].generation <= p.generation
     /\ r' = Activate(Bind([r EXCEPT !.pending[c] = NoPending], c, w, p.generation), c)

(* The channel is new.  It takes the tab over from an older channel, but   *)
(* not from one that was bound after it announced itself.                  *)
RegistrationBinds(c, w) ==
  LET p == r.pending[c]
      other == r.channelByTab
      s == [r EXCEPT !.pending[c] = NoPending]
      superseded == RemoveBinding(ClosePort(s, other), other)
  IN /\ ~Bound(r, c) /\ p.bindingGeneration = 0
     /\ Usable(r, w) /\ w # p.detached
     /\ other # NoChannel => r.binding[other].generation <= p.generation
     /\ r' = Activate(Bind(IF other = NoChannel THEN s ELSE superseded,
                           c, w, p.generation), c)

(* tabs.get was rejected, or its answer cannot be used.                    *)
RegistrationRefused(c, w) ==
  LET p == r.pending[c]
      other == r.channelByTab
  IN /\ \/ w = NoWindow
        \/ /\ ~Usable(r, w)
           /\ ~Bound(r, c) \/ p.bindingGeneration = r.binding[c].generation
        \/ ~Bound(r, c) /\ (p.bindingGeneration # 0 \/ w = p.detached)
        \/ /\ ~Bound(r, c)
           /\ other # NoChannel
           /\ r.binding[other].generation > p.generation
     /\ r' = [r EXCEPT !.pending[c] = NoPending]

ResolveRegistration(c) ==
  /\ Pending(r, c)
  /\ \E w \in r.pending[c].seen :
       \/ RegistrationOvertaken(c, w)
       \/ RegistrationConfirmed(c, w)
       \/ RegistrationBinds(c, w)
       \/ RegistrationRefused(c, w)
  /\ Unacknowledged

-----------------------------------------------------------------------------
(* Panel ports.  A second port of a channel is refused.  A port that finds *)
(* its channel bound is active at once, unless a registration is under way *)
(* whose answer will activate it.                                          *)

ConnectPort(c) ==
  /\ ~r.disposed
  /\ ~r.port[c].open
  /\ LET s == [r EXCEPT !.port[c].open = TRUE]
     IN r' = IF Pending(r, c) THEN s ELSE Activate(s, c)
  /\ Unacknowledged

PortDisconnects(c) ==
  /\ r.port[c].open
  /\ r' = ClosePort(r, c)
  /\ Unacknowledged

-----------------------------------------------------------------------------
(* Work for an active panel.                                               *)

Start(c, k, window) ==
  /\ MayAsk
  /\ Active(r, c)
  /\ r.job[c][k].stage = "none"
  /\ r' = [r EXCEPT !.job[c][k] = Lookup("lookup", window)]
  /\ Unacknowledged

(* A command while another of the same activation is under way is "busy".  *)
ExecutePanelWindowCommand(c) == Start(c, "command", NoWindow)
QueueWindowState(c) == r.tabOwner = c /\ Start(c, "state", NoWindow)

(* The page of the tab publishes; the browser tells where the tab is.      *)
PublishSelection(c) == r.channelByTab = c /\ Start(c, "publish", at)

(* The lookup before a command: it goes to the window the tab turns out to *)
(* be in, under the activation that window has.                            *)
LookupDispatches(c) ==
  /\ r.job[c]["command"].stage = "lookup"
  /\ \E w \in r.job[c]["command"].seen :
       LET s == Refresh(r, c, w)
       IN r' = IF ~Active(s, c) THEN s
               ELSE [s EXCEPT !.job[c]["command"] =
                       [stage |-> "acting", seen |-> {}, window |-> s.port[c].window]]
  /\ Unacknowledged

(* The coordinator has carried the command out, or has failed to.          *)
CommandSettles(c) ==
  /\ r.job[c]["command"].stage = "acting"
  /\ r' = [r EXCEPT !.job[c]["command"] = Lookup("recheck", @.window)]
  /\ Unacknowledged

(* The lookup after it.  A panel that has moved is not told "ok".          *)
RecheckAcknowledges(c) ==
  /\ r.job[c]["command"].stage = "recheck"
  /\ \E w \in r.job[c]["command"].seen :
       LET s == [r EXCEPT !.job[c]["command"] = NoJob]
       IN /\ r' = Refresh(s, c, w)
          /\ acked' = IF r' = s THEN r.job[c]["command"].window ELSE NoWindow
  /\ UNCHANGED <<at, events>>

(* A window state is posted, or a selection is published, unless the tab   *)
(* has moved.                                                              *)
LookupDelivers(c, k) ==
  /\ r.job[c][k].stage = "lookup"
  /\ \E w \in r.job[c][k].seen : r' = Refresh([r EXCEPT !.job[c][k] = NoJob], c, w)
  /\ Unacknowledged

-----------------------------------------------------------------------------
(* Browser events.                                                         *)

(* Calls of tabs.get that are under way may now be answered with w.        *)
MayAnswer(lookup, w) == [lookup EXCEPT !.seen = @ \cup {w}]

Noticed(w) ==
  [r EXCEPT
     !.pending = [c \in Channels |->
        IF Pending(r, c) THEN MayAnswer(r.pending[c], w) ELSE r.pending[c]],
     !.job = [c \in Channels |-> [k \in Kinds |->
        IF Waiting(r, c, k) THEN MayAnswer(r.job[c][k], w) ELSE r.job[c][k]]]]

Closing == {events[i].window : i \in {j \in DOMAIN events : events[j].type = "removed"}}
Open(w) == w \in Windows \ (r.removed \cup Closing)

Event(type, w) == [type |-> type, window |-> w]

MoveTab(w) ==
  /\ Open(w) /\ at # NoWindow /\ w # at
  /\ r.next < MaxGeneration
  /\ ~r.disposed
  /\ Len(events) < 4
  /\ at' = w
  /\ events' = events \o <<Event("detached", at), Event("attached", w)>>
  /\ r' = Noticed(w)
  /\ acked' = NoWindow

CloseWindow(w) ==
  /\ Open(w)
  /\ ~r.disposed
  /\ events' = Append(events, Event("removed", w))
  /\ at' = IF at = w THEN NoWindow ELSE at
  /\ r' = IF at = w THEN Noticed(NoWindow) ELSE r
  /\ acked' = NoWindow

CloseTab ==
  /\ at # NoWindow
  /\ ~r.disposed
  /\ at' = NoWindow
  /\ r' = Noticed(NoWindow)
  /\ acked' = NoWindow
  /\ UNCHANGED events

Arrives(type) ==
  /\ events # <<>> /\ Head(events).type = type
  /\ events' = Tail(events)
  /\ acked' = NoWindow
  /\ UNCHANGED at

(* Mutant: the binding is left to the registration that is under way.       *)
SuspendUnlessRegistering ==
  LET w == Head(events).window
      c == r.channelByTab
      s == [r EXCEPT !.pending = [d \in Channels |->
              IF Pending(r, d) THEN [@[d] EXCEPT !.detached = w] ELSE @[d]]]
  IN /\ Arrives("detached")
     /\ r' = IF c = NoChannel \/ Pending(r, c) \/ s.binding[c].window # w THEN s
             ELSE ClearActivation(
                    [s EXCEPT !.binding[c].generation = s.next,
                              !.binding[c].suspended = TRUE,
                              !.next = @ + 1], c)

(* A registration under way remembers the window the tab left.             *)
SuspendDetachedTab ==
  LET w == Head(events).window
      c == r.channelByTab
      s == [r EXCEPT !.pending = [d \in Channels |->
              IF Pending(r, d) THEN [@[d] EXCEPT !.detached = w] ELSE @[d]]]
  IN /\ Arrives("detached")
     /\ r' = IF c = NoChannel \/ s.binding[c].window # w \/ s.binding[c].suspended THEN s
             ELSE ClearActivation(
                    [s EXCEPT !.binding[c].generation = s.next,
                              !.binding[c].suspended = TRUE,
                              !.next = @ + 1], c)

(* The attachment is the authority: it binds the latest channel that is    *)
(* being registered when the tab has none.                                 *)
DetachedPending == {c \in Channels : Pending(r, c) /\ r.pending[c].detached # NoWindow}

LatestPending ==
  CHOOSE c \in DetachedPending :
    \A d \in DetachedPending : r.pending[d].generation <= r.pending[c].generation

AttachMovedTab ==
  LET w == Head(events).window
      c == r.channelByTab
  IN /\ Arrives("attached")
     /\ \/ c # NoChannel /\ r' = IF r.binding[c].suspended THEN Rebind(r, c, w) ELSE r
        \/ c = NoChannel /\ r' = IF DetachedPending = {} THEN r ELSE Rebind(r, LatestPending, w)

(* The coordinator lets go of the window's registrations as well.          *)
RemoveWindow ==
  LET w == Head(events).window
      c == r.channelByTab
      s == [r EXCEPT !.removed = @ \cup {w},
                     !.tabOwner = IF @ # NoChannel /\ r.port[@].window = w THEN NoChannel ELSE @]
  IN /\ Arrives("removed")
     /\ r' = IF c # NoChannel /\ ~r.binding[c].suspended /\ r.binding[c].window = w
             THEN RemoveBinding(ClosePort(s, c), c)
             ELSE s

(* The background goes, and with it everything that waits.                 *)
Dispose ==
  /\ ~r.disposed
  /\ r' = [NewRouter EXCEPT !.disposed = TRUE, !.next = r.next]
  /\ events' = <<>>
  /\ acked' = NoWindow
  /\ UNCHANGED at

-----------------------------------------------------------------------------
BrowserStep ==
  \/ \E w \in Windows : MoveTab(w) \/ CloseWindow(w)
  \/ CloseTab
  \/ SuspendDetachedTab \/ AttachMovedTab \/ RemoveWindow
  \/ Dispose

PanelStep ==
  \E c \in Channels :
    \/ RegisterDevtools(c) \/ ResolveRegistration(c)
    \/ ConnectPort(c) \/ PortDisconnects(c)
    \/ ExecutePanelWindowCommand(c) \/ LookupDispatches(c)
    \/ CommandSettles(c) \/ RecheckAcknowledges(c)
    \/ QueueWindowState(c) \/ PublishSelection(c)
    \/ \E k \in {"publish", "state"} : LookupDelivers(c, k)

Next == BrowserStep \/ PanelStep

Spec == Init /\ [][Next]_vars

-----------------------------------------------------------------------------
TypeOK ==
  /\ r \in Router
  /\ at \in Windows \cup {NoWindow}
  /\ events \in Seq([type: {"detached", "attached", "removed"}, window: Windows])
  /\ acked \in Windows \cup {NoWindow}

OneChannelPerTab ==
  \A c \in Channels : Bound(r, c) <=> r.channelByTab = c

ActivationIsRegistered ==
  \A c \in Channels : Active(r, c) =>
    /\ r.tabOwner = c
    /\ r.port[c].open /\ ~r.binding[c].suspended
    /\ r.port[c].generation = r.binding[c].generation
    /\ r.port[c].window = r.binding[c].window
    /\ Usable(r, r.port[c].window)

OwnerIsActive == r.tabOwner # NoChannel => Active(r, r.tabOwner)

(* A tab is bound to at most one channel, and a panel that may send        *)
(* commands is the one the coordinator has registered for the tab, in the  *)
(* window its binding names, which has not been removed.  Every way a      *)
(* registration, an event and a lookup can overtake each other ends here.  *)
ActivationIsSound == OneChannelPerTab /\ ActivationIsRegistered /\ OwnerIsActive

Neglected(c) ==
  /\ r.port[c].open /\ ~Pending(r, c) /\ at # NoWindow
  /\ Bound(r, c) /\ ~r.binding[c].suspended /\ ~Active(r, c)

(* No port is forgotten that connected while its channel was suspended or  *)
(* registered again: once that is over, a bound channel serves its panel.  *)
(* Only a registration whose answer may name a window that is gone leaves  *)
(* it waiting, until DevTools announces the channel again.                 *)
NoPortIsForgotten ==
  [][\A c \in Channels : Neglected(c)' =>
       \/ Neglected(c)
       \/ Pending(r, c) /\ r.pending[c].seen \cap r.removed # {}]_vars

(* When nothing is on its way any more, an active panel belongs to the     *)
(* window its tab really is in, however stale the answers were.            *)
Quiet == events = <<>> /\ LookupsUnderWay = 0

SettledPanelIsInPlace ==
  Quiet /\ at # NoWindow => \A c \in Channels : Active(r, c) => r.port[c].window = at

(* A command is answered "ok" only to the registered panel of the window   *)
(* it was carried out in, and only if the tab has been in that window      *)
(* after it was carried out.                                               *)
AcknowledgedInPlace ==
  [][acked' # NoWindow =>
       \E c \in Channels :
         /\ r.job[c]["command"].stage = "recheck"
         /\ acked' \in r.job[c]["command"].seen
         /\ r'.tabOwner = c /\ r'.port[c].window = acked']_vars
=============================================================================
