# Browser2IDE in TLA+

Browser2IDE carries an element selected in a browser page to the editor that
holds its styles. A DevTools panel talks to the extension's background; the
background keeps one link per browser window to a bridge; the bridge is a
WebSocket server on the loopback interface, run by the VS Code extension, whose
own IDE client is the other end; the VS Code side asks source plugins where the
selected element's rules come from and decorates the active editor.

This directory is a specification of that system, derived from the source: TLA+
modules, TLC configurations that check them on small instances, and proofs that
the TLA+ proof system checks for every instance.

    tlc -config window.cfg MCWindowCoordinator.tla
    tlapm WindowCoordinatorProofs.tla

## 1. The system

| Component | Source | State it keeps | Operations | Modelled by |
|---|---|---|---|---|
| Window connection coordinator | `browser-extension-core/src/windowConnectionCoordinator.ts` | per window: registrations, client, link, pending link, generation, reconnect timer and attempts; per window a promise chain of storage operations | linkWindow, unlinkWindow, registerPanel and its dispose, publishInspect, removeWindow, dispose; client callbacks, storage continuations, timer | `WindowCoordinator`, `WindowLink` |
| Window link store | `browserWindowLinkStore.ts` | session storage, one mapping per window | load, save, remove | `WindowCoordinator` |
| Browser bridge client | `bridgeClient.ts` | one socket, credentials, reconnect flag; publisher throttle | connect, link, disconnect, unlink, publish; socket events | `WindowCoordinator`; its own reconnection and `InspectPublisher` have no users (section 6) |
| Link authenticator | `bridge/src/linkAuthenticator.ts`, `auth.ts` | tokens, recent wrong PINs, cooldown | attemptLink, issueTrustedToken, validateToken, revoke* | `LinkAuthenticator`, `LinkAttempts` |
| Bridge server | `bridge/src/server.ts`, `clientRegistry.ts`, `heartbeat.ts` | sockets, handshake timers, one closure per connection, registry, count listeners | start, stop; connection, message, close, error, two timers | `BridgeServer` |
| Bridge message router | `bridge/src/router.ts` | none | routeMessage | its sends are `SocketFails` of `BridgeServer` |
| Background router | `backgroundRouter.ts`, `backgroundRuntime.ts` | bindings of channels to tabs and windows, pending registrations, panel ports, activations, commands | routeMessage, connectPort, removeWindow, tab detached and attached, dispose | `BackgroundRouter` |
| Inspect ownership | `backgroundInspectSession.ts`, `inspectLease.ts`, `contentScriptRuntime.ts`, `inspectMode.ts` | owner and releasing owner per tab, lease ports, pending requests, the page's click listener | setEnabled, release, attachContentLease, invalidation, retire | `InspectOwnership` |
| Panel controllers | `panelController.ts`, `panelInspectController.ts`, `panelInspectTransport.ts`, `panelRuntime.ts`, `devtoolsRuntime.ts` | state shown, operation generation, desired and remote inspect mode, pending requests | buttons, window states, port loss and recovery | `Panel` |
| Bridge lifecycle | `vscode/src/bridgeManager.ts`, `runtimeController.ts`, `extension.ts` | manager state, promise chains, credentials, client | start, stop, dispose | `IdeRuntime` |
| IDE bridge client | `vscode/src/bridgeClient.ts` | socket, reconnect timer, terminal failure | connect, disconnect; socket events | `IdeRuntime` |
| Active editor coordinator | `vscode/src/presenter/*` | selection, generation, abort controller, debounce timer | select, clear, editor and document events | `EditorPresenter` |
| Source plugin registry | `vscode/src/sourcePlugins/registry.ts`, `boundedLruCache.ts` | plugins, listeners, cache order | register, dispose, resolve | `EditorPresenter` |
| CSS and SCSS resolution | `cssSourcePlugin.ts`, `scssSourcePlugin.ts`, `stylesheetAst.ts`, `sourceMapLoader.ts` | caches, by document version | parse, index rule paths, match | `CssRulePaths`, `EditorPresenter`: the CSS plugin; not SCSS (section 6) |
| Inspection payload | `collectCssFacts.ts`, `elementSnapshot.ts`, `inspectPayload.ts`, `inspectBounds.ts` | limits of rules, depth, facts and bytes | extraction | `CssRulePaths`: the walk over the rules; the rest is data |
| Protocol schemas | `protocol/src`, `plugin-api/src` | none | validation | no: messages enter as valid or as bad |
| Presentation | `decorations.ts`, `applicableSourcesTree.ts`, `statusBarController.ts` | the last resolution shown | update, clear | `EditorPresenter`, as one value `shown` |
| Entry points, simulator, tools | `extensions/{chrome,firefox}`, `tools` | none of their own | wiring | no |

How they interact:

- A panel opens a port to the background router, which binds it to the window of
  its tab and registers it with the coordinator. The first panel of a window
  makes the coordinator load the stored link and connect; the last one that
  closes disconnects.
- Panel commands (link, unlink) go through the router to the coordinator with an
  abort signal that fires when the panel goes.
- The coordinator's client and the bridge exchange `linkRequest`, `linkAccepted`,
  `hello`, `authenticated`, `error`, `ping`, `pong`, `unlink` over one socket.
- The bridge manager gives the bridge its authenticator, issues the IDE's token
  and revokes every token when it stops.
- The panel asks the background for inspect mode through its port; the background
  injects the content script, whose lease port tells it when the page is gone.
- A selection goes from the page through the router, the coordinator and the bridge to
  the IDE client, and from there to the active editor coordinator, which asks the
  registry's plugins about the active document.
- The CSS plugin finds a rule of the page by its path, a list of positions in the browser's
  CSSOM that the page's content script and the IDE's parser compute independently.

What is hard about it: every handler that awaits something (storage, a tab
lookup, a script injection, a plugin) resumes in a state that others have
changed; most of the code's guards are generation, token or identity
comparisons after an await. Sockets may fail, close or stay silent in every
phase; timers race answers; storage may fail; the background may be restarted.
`PROJECT.json` lists these hazards line by line with the property that covers
each.

What makes each component correct:

- coordinator: one socket per window; a link in memory is the durable one; what
  the panels are told is true; a forgotten link stays forgotten; progress ends;
- authenticator: guesses are limited, lockouts hold, are not prolonged and end, tokens leave only
  for a reason;
- bridge: the registry, the counts and the timers agree with the connections; a
  handshake ends, silence is noticed, a stop completes and is final;
- router: a panel acts on the window its tab is in; a command is acknowledged only to
  the activation that sent it; at most one channel per tab;
- inspect ownership: a page captures clicks only while somebody owns inspect
  mode, and the owner is told when it loses the page;
- panel: the checkbox and the page agree once the user stops;
- lifecycle: the last of a series of start and stop calls decides what runs, or its caller is told that
  it failed;
- editor coordinator and registry: no stale result is published, a plugin that
  hangs or throws harms no other and is always reported;
- rule paths: the IDE never gives a path to another block than the browser did, and loses
  none where it is certain of the stylesheet.

## 2. Modules

| Module | Role |
|---|---|
| `WindowLink` | abstract: what the link of one window promises |
| `WindowCoordinator` | detailed: the coordinator, its store and its client, for one window |
| `MCWindowCoordinator` | sets of faults for TLC |
| `WindowCoordinatorProofs` | two inductive invariants, nine theorems and the refinement of `WindowLink` |
| `LinkAuthenticator` | the authenticator's methods as operators on its fields |
| `LinkAttempts` | the authenticator alone, under every order of calls, with a clock |
| `LinkAttemptsProofs` | what each of the authenticator's methods leaves of failures and tokens; the inductive invariant and four theorems |
| `BridgePromise` | abstract: what a bridge promises to its clients |
| `BridgeServer` | the bridge with its sockets; uses the same `LinkAuthenticator` |
| `BridgeServerProofs` | two inductive invariants, four theorems and the refinement of `BridgePromise` |
| `InspectOwnership` | inspect mode of one tab: background queue, live session, lease ports, page |
| `InspectOwnershipProofs` | two inductive invariants and four theorems |
| `BackgroundRouter` | one tab: DevTools channels, bindings, ports, commands, and the lookups they wait for |
| `BackgroundRouterProofs` | the inductive invariant and five theorems |
| `Panel` | one panel: its operations, the reconcile loop of inspect mode, its port and its view |
| `PanelProofs` | the inductive invariant and four theorems |
| `IdeRuntime` | controller, manager and IDE client, with the bridges they start and stop |
| `IdeRuntimeProofs` | the inductive invariant and three theorems |
| `CssRulePaths` | the two walks over one stylesheet, side by side and node by node |
| `EditorPresenter` | from a selection to what the editor shows |
| `EditorPresenterProofs` | for `EditorPresenter` an inductive invariant and three theorems, for `CssRulePaths` another and two theorems |
| `MC...` | the instance of each specification for TLC: sets of faults, symmetry, the family of stylesheets |

How they compose: `WindowCoordinator` implements `WindowLink`, `BridgeServer` implements
`BridgePromise`; `BridgeServer` and `LinkAttempts` are
two contexts of the same `LinkAuthenticator`; `MCEditorPresenter` walks every stylesheet of its family
with `CssRulePaths` and runs `EditorPresenter` with one of them. Elsewhere a
module reduces its neighbour to what the code relies on: `Panel` has the background as one that
answers requests in order and posts notices and window states, `BackgroundRouter` has the
coordinator as the owner of each tab, `IdeRuntime` has the server as one that starts, stops and
honours a token.

Operators named after the code's methods are those methods (`ForgetLink`,
`OpenClient`, `ScheduleReconnect`, `IssueToken`, ...). An action is one run of the
JavaScript event loop between two awaits.

### WindowCoordinator

The variable `w` is the `WindowRecord` of one window together with the promise
chain `storeTails` keeps for that window; windows share nothing else, so one
is enough. `store` is session storage, `granted` the tokens the bridge honours,
`forgotten` a history of the links the user or the bridge had the window drop.

- *Generations.* A continuation is current while its captured generation equals
  the record's. Generations only grow, so a continuation that has become
  outdated stays so: `live` on a queued operation, on the client and on the timer
  ("stale") carries this, and `BumpGeneration` clears it everywhere. The token a
  save captures is cleared by `WithoutToken` when the client goes.
- *Storage.* A queued operation has a head state: `waiting`, `running` (the call to
  storage is made), `done` or `failed`, and then its continuation runs. `StoreSkips` is
  the check the code makes when the operation reaches the head: an aborted
  link or unlink and a save whose token is gone do not touch storage.
  A waiting head starts before any other event, as promise jobs do.
- *Client.* `phase` is where its socket stands; `LinkAccepted`, `Authenticated`,
  `SocketFails` and `SocketCloses` are the socket's handlers with the coordinator's
  handling of what the client reports.
  An invalid or unexpected message of the bridge (`handleMessage`, `stopForProtocolError`),
  after which the socket would stay open or be dropped without a close event, is left
  out: the repository's bridge sends none.
- *Faults* is a constant: failing storage (`store`), a client that throws when it
  opens (`open`) or when it sends an inspection (`send`), a panel that closes
  with a command under way (`abort`), a restart of the background (`restart`).

### LinkAuthenticator, LinkAttempts, BridgeServer

A token is its issue number, so the code's list of tokens, which is in the order of their issue,
is a set here and its first element of a role the one with the least number. The list of failures
is in the order of time, so what `pruneFailures` keeps is an end of it. Time is a counter; the
comparisons at the edges of the failure window, the cooldown and the token lifetime are the
code's. The clock is assumed monotone. `simulator` behaves as a second `browser` everywhere and is
left out.

`BridgeServer` gives each socket the three local variables of its handler
(`closing`, `linkAttempted`, `registered`) and its handshake timer. `terminate()` only
destroys the socket: frames already received may still be delivered, and the
handler's `closing` is not set, so the model lets such frames act until the
close event. `stop()` in the states "idle" and "stopped" changes nothing that
a step of the model could see and has no action. The manager's own part in a bridge's life
is folded in: it issues the IDE's token when the server listens (`Listening`) and
revokes again once `stop()` has resolved (`ServerClosed`).
For `BridgePromise` the server's state becomes `phase` (it is "over" as soon as `stop()` has revoked
the tokens), the tokens that clients were told `granted`, those the authenticator accepts
at this moment for the role they were issued for `honoured`, those unlinked `returned`, and the
registry `member`. A token that a late frame obtains while the server closes reaches nobody,
so it is not granted. All messages that close
the connection without another effect are one action, `BadMessage`.

### InspectOwnership

Tabs share nothing in `BackgroundInspectCoordinator`, so the module has one. `tab` is its
`TabInspectState` with the registered lease and the set of invalidated owners; a
session stands for its own owner token. `stage` says where the head of the queue
stands in its two or three awaits: on the way to the page, or with the answer on
the way back, so that other events fall between the page's act and the code that
follows the await.

- *One live session.* The router activates one panel port per tab and retires the
  session before it (`CloseSession`, then `OpenSession`), and it hands a session
  one request at a time; operations of sessions that have gone may still be queued.
- *Ports.* Each end of a lease port acts on its own: the page or the background
  disconnects, and the other end's event comes later or finds the port forgotten.
  `gone` is a port that was closed before the background saw it connect.
  A throw of `ContentInspectLease.enable`, which the content script swallows and answers
  all the same (`contentScriptRuntime.ts:78-86`), is left out: only connecting the port can
  throw, when the extension is gone and its messages with it.
- *The panel.* `told` is the last word a panel has: an answer or the notice of a
  lost page. `PanelInspectController` takes an enable that is confirmed after the notice as
  something to undo, so such an answer is not believed (request `lost`). A panel
  that is switched on again within that gap would believe it; the panel's loop
  is modelled with the panel controllers (section 6). A session that is replaced
  because its tab moved to another window starts with `told` reset: what the
  toggle shows until the panel's next request is left to the panel controllers.
- *The page.* `Navigate` takes the script, the capture and the lease at once, with or
  without the answer that was due. `InspectMode` itself (highlight, selection) is data.

### BackgroundRouter

One tab, because tabs share only source ids, which are drawn at random. `r` holds the router's
fields; `at` is where the tab really is and `events` the browser's events that are still to
come. A call of `tabs.get` carries the set of windows the tab has been in since
(`seen`), and its answer is any of them, or none: an answer is stale exactly as far as
the browser can make it. A `job` is what an activation waits for: a command looks the
tab up, is carried out, and looks it up again. Inspect requests and window states
use the same lookups; their effect on the page is in `InspectOwnership`. A registration whose
lookup answers with the old window between the detached and the attached event is
refused, and the tab stays unbound until DevTools announces itself again; no text
of the repository excludes it.

### Panel

`p`, `i` and `view` are the fields of `PanelController`, of `PanelInspectController` and what
the DOM shows; `ops` are the operations under way, superseded ones included, each with
the await it stands at. The background is one record of each kind: the request it has
not carried out (`request`), its answer on the way, and `owns`. The loss of the port takes
the inbox with it; a lost port is found again by the next message the panel sends.
What the model shows and no property forbids: a click after an invalidation notice and before
a late grant leaves the checkbox on without ownership, and so does the retirement of the
panel's session by a move of its tab to another linked window; an unlink that fails after the
user has turned inspect mode on again leaves it on with its toggle hidden until the next
window state; a failed `panelReady` of the recovery is not retried.

### IdeRuntime

`ops` is the controller's operation queue; each operation says which promise of the manager it
waits for. In `m`, `startPromise` and `stopPromise` are the sets of waiting operations (a joined
call is one more element), `tail` is the manager's own chain. A step that a settled
promise causes comes before every other step, as in the event loop. A client that the bridge
refuses (its token has expired) is terminal, and Start then does nothing until Stop:
`RunningBridgeReachesIde` excepts it.

### CssRulePaths and EditorPresenter

A stylesheet is a tree of node kinds. The page's walk (`collectRules`) and the IDE's
(`indexContainer`) are recursive in the code, each in a process of its own, and neither sees the
other; both go through the stylesheet in its order. The model therefore takes the browser that builds the CSSOM
(external), the page's walk and the IDE's past one node per step, and keeps the
calls that have not returned as sequences, the outermost first: `containers` (where they are),
`cssom` (the browser's list of rules of each, with the path that `collectRules` was given) and `locals`
(the variables of `indexContainer`). A container is entered when either walk enters it;
`kept` of the list and `entered` of the locals say which do. `page` and `builder` are what
the calls share: rules visited, facts, the path index. `builder.doubt` is a history of whether
`markUncertain` was ever called.

The kinds `keptStyle`, `keptGroup` and `dropped` are what the IDE cannot judge, with what the browser
made of it. The validation of selectors and parameters in `stylesheetAst.ts` decides only
between a certain and an uncertain kind. A `@layer` statement within a style rule counts in both walks;
the repository does not say whether browsers keep it. A declaration outside of every block is for
a browser the beginning of the next rule's prelude, which is then dropped (`stray`); `indexContainer`
passes over it (`stylesheetAst.ts:309`; section 4).

In `EditorPresenter` a resolution is a record of `runs` with what became of every plugin it
asked; the document's text is 0 when it is the stylesheet the page loaded, the only text in which a
path can lead to a block. What the editor does with a resolution is the same whatever the blocks
are, so which blocks they are is left to `CssRulePaths`. `CloseAndReopen` is
the editor's: versions count the changes of an open document only.

## 3. Runs

| Run | Question | Bounds |
|---|---|---|
| `window` | do the record, the client, the timer and storage stay consistent under every fault, does progress end, does every step implement `WindowLink`? | 2 panels, 2 links, 2 reconnect attempts, up to 3 queued operations |
| `window_unlink_abort` | does an unlink always delete the mapping? It does not (section 5) | 2 queued operations, fault `abort` |
| `link_attempts` | do rate limit, lockout and token bounds hold at every edge? | 3 failures, window 2, cooldown 2, lifetime 4, 2 tokens per role, 4 tokens, 7 ticks |
| `bridge` | do registry, counts, timers and tokens agree; does a handshake end, is silence noticed, does stop complete, does every step implement `BridgePromise`? | 2 sockets, 3 tokens of which one per role is active, 2 ticks, lifetime 1 |
| `inspect_ownership` | do panel, background and page agree about inspect mode, and does capture end? | 2 sessions, 3 lease ports, 3 queued operations |
| `inspect_newer_owner` | can an owner lose the tab through its predecessor's lease? It can (section 5) | as above, the document stays |
| `router` | is an active panel registered in the right window, is a command acknowledged in place? | 2 channels, 2 windows, 6 generations, 2 lookups under way |
| `panel` | do checkbox, view and page agree whatever is clicked, answered or lost? | 3 operations and port losses, 1 message before another notice is posted |
| `panel_change_ide` | does Change IDE stop inspecting? Not always (section 5) | as above |
| `ide_runtime` | does the last request decide, does every request complete, do credentials die with their bridge? | 5 calls, 2 ports |
| `editor` | is what the editor shows current, complete and about the right blocks? | 2 documents of 2 texts, 1 external plugin, a cache for 1, 6 changes, 3 versions; 14,000 stylesheets, 4 rules, depth 2, up to 3 nodes within a block |
| `editor_reopen` | do the shown ranges fit the document? Not after it was reopened (section 5) | as above, 4 changes, a stylesheet without rules |

Why the bounds are enough:

- Two panels distinguish first, further and last registration. Two links
  distinguish the link in use from an older or a newer one. Three queued
  operations hold a running one, one that an earlier command left behind and
  one of a newer command; the code never compares more than neighbours.
  Two attempts reach "retry" and "give up" (the code's limit is larger and is only
  ever compared with the counter).
- The failure window and the cooldown are equal in the code (60 s each) and in
  the run; three failures and seven ticks give failures that leave the window one
  by one, a lockout, its end and a second lockout. Two tokens per role and four in all fill and
  overflow the list of one role with the other present.
- Two sockets give every pair of connections on one token, and one evicted or
  closing beside one working. Three tokens are the IDE's, a browser's and one that
  evicts it; with a lifetime of one tick they also expire, before and while a client uses them.
- Two sessions are the live one and one that still has operations queued; three
  ports are the page's, the registered one and one whose event is still to come. A
  session puts at most two operations in the queue before it goes, so three
  are those of one session and the first of the next.
- Two channels are the one that holds the tab and one that takes it over; two windows are
  those a tab is dragged between, and it may go back. Six generations are a registration,
  two moves and the re-registrations they cause, with a second channel.
- Three operations give a command, one that supersedes it and one after that, or two with a
  lost port between them.
- Five calls give stop, start, stop with a start before and after them, which is the sequence that
  a joined stop would lose; two ports are one in use and one free.
- Two documents and a cache for one evict; three versions and six changes allow an edit, a
  switch of editors, a registration and a reopening within one behaviour. The stylesheets are those with
  every kind of construct before a block, within it and around it, in every order of two or, for
  the kinds that the walks count most differently, three. The limits of rules and depth are so small that
  they exceed both.

`CHECK_DEADLOCK FALSE` is given where the system may stop: a disposed coordinator or
runtime, a bridge that has stopped, a page nobody inspects, a closed panel or tab, an editor after the last
allowed change. `SYMMETRY` is used only where no temporal property is checked (`router`).

### What the runs show

| Property | In words |
|---|---|
| `OneSocketPerWindow`, `ClientIsHeard` | a window has at most one live socket, and what it reports still reaches its record |
| `LinkedMeansServing` | "linked" is shown only with an authenticated socket and durable credentials |
| `TimerHasPurpose`, `ProgressIsPending`, `SettlesWhenLeftAlone` | a timer has something to reconnect; linking and reconnecting always have work pending, and end |
| `ForgottenStaysForgotten` | a link that was unlinked, rejected or removed is taken up again only if its removal from storage failed, was called off or was lost in a restart (`survived`) |
| `ImplementsWindowLink` | a link in memory is the stored one, which does not change under it: refinement of `WindowLink` (`stored <- store`, `held <- w.link`, `online <- w.state = "linked"`) |
| `GuessesAreLimited`, `LockoutIsExact`, `TokensAreRotated` | at most the allowed guesses in every failure window; a lockout lasts a cooldown from the last guess, attempts meanwhile do not move its end, and then the right PIN is accepted; tokens are few per role and leave by age, revocation or eviction of the oldest |
| `CountsAreCurrent`, `NoGhostClients`, `StoppedServesNobody` | the announced counts are the registry's, whose entries have live handlers and no handshake timer; stopping is final |
| `ImplementsBridgePromise` | refinement of `BridgePromise`: a client joins only with a token honoured for its role at that moment; a token that expired, was evicted, unlinked or revoked is never honoured again; an unlink takes registration and token in one step; a new link costs at most one older browser its token and never the IDE; stop takes everything |
| `HandshakeEnds`, `SilentClientLeaves`, `StopCompletes` | timeouts and stop do their work |
| `CaptureIsLeased`, `BeliefIsOwned`, `OwnerIsShown`, `CaptureEnds`, `BeliefBecomesTrue` | page, background and panel agree about inspect mode, and capture ends with its owner |
| `ActivationIsSound` | one channel per tab; an active panel is the registered one, in its binding's window, which is open |
| `NoPortIsForgotten` | a port that its bound channel could serve is served once registrations are over, unless one was under way that a removed window may answer |
| `SettledPanelIsInPlace`, `AcknowledgedInPlace` | when all is quiet a panel is in the tab's real window; a command is acknowledged only where it was carried out |
| `SettledInspectAgrees`, `NeverLeftInspecting`, `UnlinkedPanelStopsInspecting` | the loop ends with checkbox and page agreeing; no page goes on inspecting for a panel that is off, closed or unlinked |
| `SettledViewIsCurrent` | the view shows what the state says, and the panel is busy exactly while its latest command is out |
| `CredentialsMatchBridge`, `LastRequestDecides`, `RequestsComplete`, `RunningBridgeReachesIde` | tokens and clients belong to the running bridge; the last call decides: after a start that was not rejected the bridge runs with its client, otherwise neither is left; calls return; the IDE comes back |
| `PublishedIsCurrent`, `NoPluginSilenced`, `LatestSelectionIsPresented` | what is shown is about the current selection, editor, version and plugins; a plugin that hangs or fails is reported; the result does appear |
| `NoWrongRule`, `NothingLost` | a path never names another block than the browser's, and is found where the IDE is certain |

Every property has a mutant in `PROJECT.json`: a plausible bug in one mapped
definition (its operator stands before the definition, marked "Mutant") that TLC finds through
this property.

### Fairness

- `WindowCoordinator`: a waiting storage operation starts and settles (a storage
  call is answered); a socket that is not yet authenticated does not stay so (the
  browser's connect timeout, the bridge's ten-second handshake timer, the close
  event after an error event); an armed timer fires. Nothing is assumed of the user,
  of an authenticated socket, or of the bridge's tokens.
- `BridgeServer`: timers fire; the close event of a socket that was closed or
  destroyed here comes (the ws library destroys a socket whose peer does not answer
  a close); the rest of `stop()` runs. Nothing is assumed of clients.
- `InspectOwnership`: injections and messages to the page are answered, port events
  are delivered; nothing is assumed of the user or of navigation.
- `Panel`: messages that have been posted are handled, and the background carries out and answers a
  request; nothing is assumed of the user or of the port.
- `IdeRuntime`: settled promises resume, servers finish starting and closing (or fail), sockets
  and reconnect timers make progress; nothing is assumed of the user or of the network, which
  `RunningBridgeReachesIde` takes to be well in the end.
- `EditorPresenter`: settled promises resume and timers fire. No plugin need ever answer.

## 4. Proofs

Each component's theorems stand in its `...Proofs` module and hold for all values of the constants
that satisfy the named assumption. All of them have the same shape: an inductive invariant,
a lemma for each action (or method) that keeps it, and the properties as its consequences.
TLC checked every invariant, part by part, on the instances of the runs before it was proved.

| Module | Theorem | Statement |
|---|---|---|
| `WindowCoordinatorProofs` | `Inductive` | `Spec => []IInv` |
| | `TypeCorrect` | `Spec => []TypeOK` |
| | `OneSocket` | `Spec => []OneSocketPerWindow` |
| | `ClientHasPanel` | `Spec => []ClientNeedsPanel` |
| | `ClientHeard` | `Spec => []ClientIsHeard` |
| | `LinkStored` | `Spec => []LinkIsStored` |
| | `PromisesInductive` | `Spec => []PromisesKept` |
| | `LinkedServes` | `Spec => []LinkedMeansServing` |
| | `TimerPurposeful` | `Spec => []TimerHasPurpose` |
| | `ProgressPending` | `Spec => []ProgressIsPending` |
| | `ForgottenForGood` | `Spec => []ForgottenStaysForgotten` |
| | `WindowLinkImplemented` | `Spec => ImplementsWindowLink` (the refinement) |
| `InspectOwnershipProofs` | `InspectTypeCorrect` | `Spec => []TypeOK` |
| | `BeliefOwned` | `Spec => []BeliefIsOwned` |
| | `OwnerShown` | `Spec => []OwnerIsShown` |
| | `CaptureLeased` | `Spec => []CaptureIsLeased` |
| `BackgroundRouterProofs` | `RouterTypeCorrect` | `Spec => []TypeOK` |
| | `ActivationAlwaysSound` | `Spec => []ActivationIsSound` |
| | `PanelSettlesInPlace` | `Spec => []SettledPanelIsInPlace` |
| | `AcknowledgedAlwaysInPlace` | `Spec => AcknowledgedInPlace` (an action property) |
| | `PortsNeverForgotten` | `Spec => NoPortIsForgotten` (an action property) |
| `PanelProofs` | `PanelTypeCorrect` | `Spec => []TypeOK` |
| | `SettledAlwaysAgrees` | `Spec => []SettledInspectAgrees` |
| | `NeverInspectsUnasked` | `Spec => []NeverLeftInspecting` |
| | `SettledViewAlwaysCurrent` | `Spec => []SettledViewIsCurrent` |
| `LinkAttemptsProofs` | `AttemptsTypeCorrect` | `Spec => []TypeOK` |
| | `GuessesAlwaysLimited` | `Spec => []GuessesAreLimited` |
| | `LockoutAlwaysExact` | `Spec => LockoutIsExact` (an action property) |
| | `TokensAlwaysRotated` | `Spec => TokensAreRotated` (an action property) |
| `BridgeServerProofs` | `BridgeTypeCorrect` | `Spec => []TypeOK` |
| | `CountsAlwaysCurrent` | `Spec => []CountsAreCurrent` |
| | `NeverGhostClients` | `Spec => []NoGhostClients` |
| | `StoppedAlwaysServesNobody` | `Spec => []StoppedServesNobody` |
| | `BridgePromiseImplemented` | `Spec => ImplementsBridgePromise` (the refinement) |
| `EditorPresenterProofs` | `EditorInductive` | `Spec => []EditorInv` |
| | `EditorTypeCorrect` | `Spec => []TypeOK` |
| | `PublishedAlwaysCurrent` | `Spec => []PublishedIsCurrent` |
| | `PluginsNeverSilenced` | `Spec => []NoPluginSilenced` |
| | `WalksStayTogether` | `NoStrayDeclarations => (WalkSpec => []CssInvariant)` |
| | `WrongRuleNever` | `NoStrayDeclarations => (WalkSpec => []NoWrongRule)` |
| | `NothingEverLost` | `NoStrayDeclarations => (WalkSpec => []NothingLost)` |
| `IdeRuntimeProofs` | `RuntimeTypeCorrect` | `Spec => []TypeOK` |
| | `CredentialsAlwaysMatch` | `Spec => []CredentialsMatchBridge` |
| | `LastRequestAlwaysDecides` | `Spec => []LastRequestDecides` |

Assumptions, all about constants:

| Assumption | Says |
|---|---|
| `ConstantsAssumption` | the absent link is not a link, the two limits are positive, the faults are among the possible ones |
| `InspectAssumption` | the absent session and the absent port are none, the queue's bound is positive |
| `RouterAssumption` | finitely many channels; the absent channel and window are none; the bounds are positive |
| `PanelAssumption`, `RuntimeAssumption` | the bounds are numbers, the inbox and the managed range have at least one place |
| `AuthenticatorAssumption` | limits, windows and lifetime are positive, and the cooldown is at least as long as the failure window (in the code both are 60 s) |
| `EditorAssumption` | the text the page loaded is a text, the CSS plugin is not an external one, the absent document is none, the cache has a place |
| `CssAssumption` | the limits are numbers, rules are visited at all; stylesheets and blocks are sequences of nodes of the known kinds, and keyframes hold nothing but keyframes |
| `AttemptsAssumption`, `BridgeAssumption` | the bounds are numbers; finitely many sockets |

The cooldown's length matters: an elapsed cooldown takes the failures that caused it with it, so
with one shorter than the failure window `GuessesAreLimited` would not hold.

### Why the invariants are what they are

*Window coordinator.* `OneSocketPerWindow` says nothing of the
continuations still on their way, each of which might open a client. `IInv` says
that while a client exists no live continuation will open one (`ClientIsOwned`),
that at most one live continuation establishes a link (`OneEstablishing`), that a
pending code or pending credentials exclude a link and an adopting continuation
(`PendingIsExclusive`), that a live save is the one the record waits for
(`SaveIsWriting`). `LinkIsStored` needs that no operation queued behind an adopted
link can still change storage (`LinkIsSettled`, `NothingAfterEstablishing`), and that
a settled head operation has done what it says (`HeadIsApplied`).
The argument is in terms of records, not of the state: `Consistent(r, s)` is a predicate
of a record and the stored link. The lemma `Fading` shows that a step which only
drops things (outdates continuations, drops the client, the link or the pending
link) keeps it; `Enqueueing`, `Dequeueing` and `OpeningClient` cover the three ways to add
something. Each of the coordinator's private methods is a fading step or one of
these, and each action is a composition of methods; there is one lemma per action.

What the panels are told and what becomes of a dropped link need a second invariant, `PromisesKept`,
inductive relative to `IInv`. Its part `Orderly` is about one record: a continuation that
will be heard still has what it was started for (`QueueFits`: a load its panel, a save a client
that is ready or at least not on its way, with the credentials to be saved; behind both no
removal), a client that is opening has the credentials of the record's link, a timer or "linked"
has its reason (`ClientFits`), and progress has somebody who ends it (`Progressing`). Its part
`Remembers` relates the record to the history of dropped links: a forgotten link that is
still stored has its removal queued, unless that was missed (`survived`); a save of one is
outdated, and if storage is already at it a removal follows; and a client with newly granted
credentials holds none that are forgotten. Each part has its own notion of a harmless step: `Quiet` for
methods that leave nobody connected, `Recedes` for those that let operations, the link and new
credentials go; `EnqueueRemembers`, `ForgetRemembers` and `DequeueRemembers` cover the
queue. The refinement of `WindowLink` follows from both invariants and one more lemma
(`StorageOrWindow`): the only step that changes storage is `StoreApply`, which leaves link and state as they are;
by `LinkIsStored` before and after the step there is then no link to be changed under the window, and
any step that starts to hold a link holds the stored one.

*Inspect ownership.* The invariant has two halves. `OwnershipInv` adds to the two
properties about owners where the live session's operation stands: it is the last of
the queue (`LiveOperationIsLast`), so that when it settles nothing of the session is
left and the answer belongs to the request; a claim that is not yet refused is
owned (`ClaimIsOwned`); while a failed enable is being undone its session owns nothing
(`UndoingHasNoOwner`). `LeaseInv` keeps both ends of every port in step: an open port is
the registered one, a registered port belongs to an owner, the page's port has
not been closed by the page.

*Background router.* `Sound` is a predicate of the router's fields that every method keeps:
generations are handed out in order, so a registration that was overtaken knows it
(`Generations`); a binding that is not suspended names an open window (`BindingsUsable`); what is
under way belongs to an activation (`JobsInPlace`). `SettledPanelIsInPlace` is about the end of
everything, and says nothing before it; its strengthening `Placed` names, for an active panel in
the wrong window, who will find out: the event that the tab has left that window, which is still
to come, or a lookup that was started after it left, whose answer cannot be that window. For
that, the events on their way must be true to the browser (`AttachedIsOpen`, `SeenIsReal`). The proof
of `PortsNeverForgotten` showed that its first form, an invariant that a bound port is always
active when no registration is under way, is false with three windows: a registration may be
answered with a window that closes before the answer is handled, which leaves the port bound and
inactive until DevTools announces the channel again. Two windows cannot show it, because the tab
needs a third to be in. The property now says exactly that.

*Panel.* `PanelInv` has three parts. `LocalFits`, about the controllers, the operations
and the view: the panel is busy exactly if an operation of the current generation has its command
out, of which there is at most one, as generations are never used twice; and what is shown may be old
only while somebody awaits the loop who will render. `ChannelFits`, about one request of the loop and
its way to the background and back: there is one request, or one answer, or one message in the inbox
at a time; a page that the panel's session owns is known to the loop, and after an
invalidation notice only a grant still to come owns it. `PortFits`: without a port nothing is on its way.
Each is a predicate of the values it is about, so a step that leaves a part alone needs no argument.

*Link attempts.* The failures that the code keeps are not all the guesses that were made: they are
pruned, and a successful link resets them. `GuessFit` ties them to the history: the failures kept are the
latest guesses, those dropped are a window old, fewer than `MaxFailures` are kept unless a cooldown
runs, which then runs from the last guess, and a run of `MaxFailures` guesses within a window
has a cooldown, or had one that is over. An attempt during a cooldown only prunes (`LockedKeeps`), and
as the cooldown runs from the last guess it is over a `Cooldown` later (`LockoutEnds`). Tokens: issue numbers are distinct and below
the counter, so the oldest of a role exists, is unique and has exactly `MaxActive` newer tokens once a new
one is there.

*Bridge server.* `Fits` is what a socket, its closure and its registry entry owe each other: an entry has
a socket, a registration and no handshake timer, also when the heartbeat has evicted the
socket and its frames are still delivered. `Honoured` is what is known of a token the
authenticator holds: it was issued for its role and not unlinked, and one that was issued while the server
closes, by a late frame, has reached no client. That is why the second `revokeAll` of the
manager is enough. The refinement of `BridgePromise` needs two facts about clients on
top (`PromiseInv`): nobody knows a token before the server runs (`NothingYet`), and a
closure's role is the one its token was issued for (`RolesTrue`). Most steps are *steady*: each closure keeps its
token or loses it, so that `Leave` or a stutter is all that can happen to the members, and
what a step does to the authenticator decides which action it is. For the others the lemmas say
what the authenticator's methods cost: `IssueCosts`, that a new token loses at most the oldest of
its own role besides the expired ones; that time only ever takes tokens away; and that
unlink takes exactly the token of its own closure.

*IDE runtime.* The controller's queue lets one operation at a time call the manager; so the manager's
promises, which are made to be joined, are never joined by the controller, and `OneOpAtATime` says which state of
the manager (`AwaitsStart`, `AwaitsStop`, `AtRest`) goes with each state of the operation. `OpsInOrder` and
`LastDoneDecides` carry the last request's outcome over to the moment when everything is done: a stop leaves the
manager stopped, a start leaves it running exactly if it was not rejected. A start that finds the controller
disposed of stops the bridge again and yet resolves; `DisposedStopsLast` says that it is never the last request.

*Editor.* Whatever may change the result supersedes the resolutions under way in the same step in which it
starts its own, so `EditorInv` need only say that a resolution which is not superseded is
about the present (`Current`), and that this excludes a pending edit timer. A change of a document that is not the
active one supersedes nobody; it is harmless because such a resolution holds the active document.

*Rule paths.* What is to be shown is about two finished walks, and compares sets of paths; what
holds on the way is about every call under way, and compares numbers. `SyncedFrame`: while the IDE is sure of
a list (it still trusts its numbers there, or was never uncertain of anything), both walks have come to
the same number of it, and agree on whether declarations are waiting to become a rule
(`Alike`). Once it is not sure it adds no path of that list any more. That a path
in the index is then the browser's own does not follow from the numbers alone, since a later
rule might be given the path of an earlier one: hence `AllBehind` (no path given out so
far runs through a number that some list on the way is yet to come to) and `Outside` (the same of the lists
around it). `Lags` and `CountFits` are for the limits: the IDE's budget
of rules is not used up before the page's, and a number that a path contains is below the limit which
`parseBrowserRulePath` checks. The invariant is a predicate of one call's variables and the
shared ones (`FrameOf`), so a step has to show it for the innermost call only, and a
lemma for each thing a walk may do with a rule (`BothVisit`, `BrowserVisits`,
`IndexVisits`, `MarkedUncertain`) covers every construct.

The hypothesis `NoStrayDeclarations` says that no stylesheet has a declaration outside of every
block. Without it `NoWrongRule` is false: in `color: red; .a {} .b {}` a browser drops `.a` and
gives `.b` the first number, which the IDE has given to `.a`. TLC finds it with `StraySheets` and
`StrayNodeLists` of `MCEditorPresenter` for `Sheets` and `NodeLists`. Such a stylesheet is malformed,
and the tests of shifted paths (`cssSourcePlugin.test.ts:778`) do not have this case.

### Only model-checked

Liveness in every module: the prover has no support for ENABLED, on which fairness rests. Every
invariant and action property of the runs is a theorem.

## 5. Findings

`window_unlink_abort`: an Unlink that waits behind an earlier storage operation is
skipped when its panel closes (`windowConnectionCoordinator.ts:205`: the queued operation throws
if the signal has aborted), although the record has already dropped the link. The
mapping stays in session storage and the next panel of the window takes it up
again. The design document says the mapping is deleted when the user unlinks
(`docs/superpowers/specs/2026-07-11-zero-terminal-window-linking-design.md:158`). A
cancelled *link* command is meant to leave storage alone; for unlink the code
treats the two alike.

`inspect_newer_owner`: a lease port that the page opened for one panel's enable
may connect when another panel of the tab has already claimed inspect mode.
`attachContentLease` registers it for the new owner (`backgroundInspectSession.ts:84`). In the
shortest behaviour the first panel closes while its enable is on the way to the page, which
still opens the port; the second panel claims the tab while the first one's own disable is under
way, and that disable makes the page close the port (`inspectLease.ts:42-48`). The background
sees the port connect only now, under the second owner, and then disconnect; it takes this for
the end of the document, and the second owner loses the tab while its enable is still
queued, so that its request fails. A longer behaviour does without the disable: the second
owner's own enable reaches the page, and `ContentInspectLease.enable` closes the port it still
holds (`inspectLease.ts:22-25`). The test "does not let an old port disable a newer owner
for the same tab" (`backgroundInspectSession.test.ts:287`) attaches the old lease and replaces the
owner, but its page never closes the first port. The failure is safe: the
page stops capturing and the panel is notified.

`panel_change_ide`: Change IDE waits for inspect mode to go off before it marks the panel as
changing (`panelController.ts:274`), and a click on the toggle in that gap turns it on again. The
panel then shows the toggle unchecked and disabled while the page goes on inspecting. `docs/mvp-usage.md:71-73` says inspect
mode is reset when the window changes IDE.

`editor_reopen`: `StylesheetAstCache.parseDocument` (`stylesheetAst.ts:69`) recognises a parsed document by
its URI and version. The editor counts versions per open document, so a file that is
closed, changed outside (a checkout, a formatter) and opened again has version 1
again, and the old text's blocks are highlighted in the new text until the first edit.
`docs/source-plugin-authoring.md:161-163` says that results from superseded document generations
are discarded and that stale results cannot retain editor decorations.

## 6. Not modelled, and what is left

Not modelled, and why:

- `InspectPublisher` (the browser client's throttle) and the client's own reconnection: nothing in
  the sources uses the one, and the coordinator, the client's only user, turns the other off.
- Merging and ordering of equal matches (`registry.ts:257-305`) and the check of their ranges: a
  sort of a finished list, without state.
- SCSS and source maps (`scssSourcePlugin.ts`, `sourceMapLoader.ts`), the fallback for facts without a
  path, positions, `resolveSourceUri`: text processing and file access; their place in the
  concurrent part, a plugin that answers, fails or hangs, is in `EditorPresenter`.
- Selectors, media conditions, the byte budget and the element's snapshot: data that
  no modelled decision depends on beyond what is said in section 2.
- Protocol schemas: declarative; messages enter as valid or as bad.
- The router of the bridge: it changes no state. Entry points: wiring. Simulator and
  tools: outside the product.
- Commands of the tree (reveal), the status bar and diagnostics: display.
