# A TLA+ model of the Relay (Hagall) server

Relay, formerly Hagall, is a real-time networking server. Clients connect over
websockets, join sessions, and see each other's entities, poses and messages.
Everything is kept in memory. This directory holds a model of its core, the TLC
runs that check it on small instances, and proofs that TLAPS checks for
instances of every size.

## 1. Inventory of the system

| Part | Source | State | Operations | Hard because |
|---|---|---|---|---|
| Session store | `models/session.go`, `models/id.go` | registered sessions by id, reusable ids, a gauge | NewID, Add, Remove, GetByGlobalID | look-up, join, count and removal are separate locked calls; ids are reused |
| Session | `models/session.go` | participants, entities, frame handlers, module states, `closeFrameChan` | Add/Remove of each, Broadcast, HandleFrame, Close | one goroutine per connection and one dispatcher per session; blocking sends under locks |
| Realtime handler | `websocket/realtime.go` | current session and participant of a connection | one handler per message, leaveSession | each handler is a sequence of separately locked calls |
| Entities | `models/entity.go`, `models/participant.go` | pose, owner, persist flag | add, delete, update pose | changed first, announced later; late joiners get a snapshot |
| Entity components | `models/entity.go` | types, components, subscriptions | AddType, Add, Delete, Update, Subscribe, Notify | entity check, store and notification under different locks |
| Connection loop | `websocket/handler.go` | `sendChan`, `disconnectChan`, timers, contexts | Handle, startSending, startReceiving | three goroutines, bounded channels, timeouts, shutdown |
| Module vikja | `modules/vikja` | entity actions with timestamps | Init, set action, entity delete, disconnect | State shared by connections; check-then-set |
| Module odal | `modules/odal` | asset instances | Init, add, entity delete, disconnect | the same shape |
| Module dagaz | `modules/dagaz` | a grid of cells that list planes | insert, intersect, region | the grid grows and planes move; replaced by every Init, no lock, floating point |
| Signed latency | `models/signed_latency.go` | pings on record, an unsigned counter | Start, OnPing | late and repeated answers, wrap-around |
| Receipts | `receipt` | a bounded channel | HandleReceipt, HandleReceipts | full channel, shutdown |
| Custom messages | `websocket/realtime.go`, `models/session.go` | none | HandleCustomMessage, Broadcast, BroadcastTo | blocking sends to other connections under a lock |
| Decorators | `websocket/logs.go`, `websocket/metrics.go` | counters | forward every call | - |
| HTTP, smoke test, start | `http`, `smoketest`, `cmd` | none | stateless | - |

A connection's messages are handled one at a time by the goroutine of
`Handle`, which calls the realtime handler and then each module. Handlers of
different connections meet in the session (participants, entities, component
store, module states), in the session store, and in each other's `sendChan`,
into which `Broadcast` sends while it holds the session's `participantMutex`.
No lock is held from one call to the next, so what a handler has read may be
stale when it acts on it. That is what most of the model is about; the list of
hazards, each with its line, is in `PROJECT.json`.

What makes each part correct:

- session lifecycle: a registered session is open and somebody runs, or is about
  to start, its dispatcher; an empty one is closed and its id given back; every
  join and leave finishes;
- entities: what a client has been told agrees with the session; entities that
  do not persist go with their owner;
- components: subscribers know the current content; subscriptions end with
  their participant; handlers do not hold each other up, except for one that
  waits for a `sendChan` that stays full;
- connection: a session is left once and last; a dead or silent client's
  connection is taken down, unless Handle's goroutine itself waits for ever;
  Handle returns after its goroutines;
- modules: what is stored for an entity goes with it; the newest action wins;
- signed latency: a response covers the pings of its own request, all of them
  that kept their place;
- dagaz: a plane is listed in every cell it lies in, whatever merging and
  growing did; rays and regions find what is there; the merging loop goes on
  only between planes of one height;
- custom messages and receipts: in order, once, and handlers get through even
  when a client stops reading; an accepted receipt is settled.

## 2. Modules

Most modules keep one program counter per handler goroutine; `Forwarding` keeps
the calls a handler has still to make. A call that takes a lock is one step;
steps of different connections interleave freely. Requests that a handler
refuses without changing anything are left out unless their refusal takes a
step.

- `SequentialIDGenerator`: the generator of `models/id.go` as pure operators.
  `NewIDs` is a set because the code takes any key of a map.
- `SessionLifecycle`: store, ids, gauge, membership, frame handlers, dispatcher,
  HandleParticipantJoin and leaveSession. A session is named by its order of
  creation, because its id is reused. Registering a session (`StoreAdd`) and
  starting its dispatcher (`StartDispatchFrames`) are two steps, since others can
  look the session up, join, leave and close it in between.
  `SessionLifecycleProofs` proves about it.
- `EntitySync`: one session's participants and entities, the SessionState of a
  late joiner, and all broadcasts about them. Messages to one client stay in
  order, so a client's view is the fold of what was enqueued: `seen`, `members`.
  `raced` records what a broadcast said before the client's SessionState.
- `SessionMembership`: the abstract specification of joining and leaving: a
  session is opened once, picked while open, entered later, closed once after it
  was seen empty. `SessionLifecycle` implements it (`ImplementsMembership`) with
  the mapping: a session is new, open or closed by its dispatcher and its closed
  flag, picked by a handler that is about to call AddParticipant, doomed when a
  leaver has counted zero participants and not yet called Remove. That a picked
  session may be closed, and a doomed one entered, is part of the abstraction,
  since the code excludes neither. `SessionLifecycleProofs` proves the step part.
- `EntityComponents`: component types, components, subscriptions, Notify. The
  delivery of a notification is one step per recipient, during which
  `subscriptionMutex` (and `participantMutex` for Broadcast, not BroadcastTo) is
  held. Each of these steps needs room in the recipient's `sendChan`; one that
  stays full is in `stalled`. `contested` records components whose writes
  overlapped, `late` entities that got a component after their components were
  cleared.
- `ConnectionLoop`: the three goroutines of one connection, channels as counters,
  timers, the context, the client, and other connections' broadcasts. Handlers
  and leaveSession have to get past other connections, because they enqueue into
  their channels or take a lock that others hold while they enqueue
  (`NeedsOthers`); these others may never let them (`heldUp`).
- `SessionModules`: vikja and odal over one session. A State object is named for
  the connection whose Init made it, so that two first joiners may have two.
  `late` records entities whose action was stored after the clean-up.
- `SignedLatency`: one participant's measurement, with answers in any order and
  pings that are given an id again (`SameID`): the code takes the clock cut to 32
  bits. `replaced` counts the pings that lost their place that way.
- `RegularGrid`: the plane map of dagaz. Coordinates are integers in units of
  1/`Meter` metre and a fifth of a difference is rounded to the nearest unit
  (the code computes in float32); planes are horizontal, extents not negative.
  One round of the merging loop is one step, so Init of another connection may
  replace the grid in the middle. `RayCells` gives the cells a slanted ray looks
  into; what it hits there is left out.
- `Forwarding`: several connections in one session that join, switch, leave,
  announce entities, notify of components, send custom messages and receipts and
  get answers, as far as that can make a handler wait: for room in a bounded
  `sendChan`, for `participantMutex` or for `subscriptionMutex`. A handler is the
  sequence of such calls it has still to make (`LeaveSession`, for instance, is a
  subscription call, a broadcast for each entity, RemoveParticipant, the leave
  broadcast and the count). The mutexes are the reader-writer locks they are: a
  waiting writer keeps new readers out, and a writer that is done lets the
  waiting readers in (`granted`). A `sendChan` is emptied only when its sender
  ends, that is when a write fails or the context is cancelled, which is after
  the session was left. Receipts go on through `ReceiptChan`.

A module whose name ends in `Proofs` extends the module it is about and holds
the theorems on it (section 4). The `MC*` modules only add the symmetry of
connections, the samples of `RegularGrid` or the loads of `Forwarding`, for TLC.

Operators whose comment begins with "Mutant" are wrong versions of the
definition that follows them. They are not part of the specification; each one
shows that a property would notice that mistake in the code.

## 3. Runs

Passing runs:

| Run | Instance | Properties |
|---|---|---|
| `SessionLifecycle_fair` | 2 connections, 3 sessions, fair | `StoredSessionIsOpen`, `NoAbandonedSession`, `HandlersAreMembers`, `NoLeakedID`, `RequestCompletes`, `ImplementsMembership`, `ClosedDispatcherExits` |
| `EntitySync_views` | 3 connections, 3 joins, 1 entity, 2 poses | `NoMissedEntity`, `ViewIsExact`, `MembersAreExact`, `NoOrphanEntity` |
| `EntityComponents_fair` | 2 connections, 1 type, 1 entity, 2 contents, fair | `NoStaleSubscription`, `SubscribersAreCurrent`, `OrphansWereLate`, `TypeIDsAreStable`, `RequestCompletes` |
| `ConnectionLoop_fair` | channels of 2 (`disconnectChan`), 1, 1; 2 messages, 1 broadcast; failures, stalls, shutdown, fair | `ReturnedIsClean`, `DisconnectIsFinal`, `ConnectionEnds`, `ShutDownEnds` |
| `SessionModules_states` | 2 connections, both modules, 2 entities, 2 assets, 2 timestamps | `NoDanglingAsset`, `AssetIDsDiffer`, `NoDanglingAction`, `OnlyStaleChecksGoBack` |
| `SignedLatency_fair` | 2 measurements, counts 3 and 4 accepted, 8 pings, fair | `ResponseIsComplete`, `ResponseIsMeasured`, `MeasurementEnds` |
| `RegularGrid_insert` | any 4 of 17 samples in one grid | `PlanesAreInGrid`, `CellsCoverPlanes`, `GroundIsNearest`, `RegionIsComplete`, `LoopStaysLevel` |
| `Forwarding_fair` | 5 loads; 2 connections, `sendChan` of 2, 2 custom messages, 1 entity left behind, 1 receipt, fair | `MessagesStayInOrder`, `HandlersReturn`, `ReceiptsAreSettled` |

The runs of `SessionLifecycle`, `ConnectionLoop`, `SessionModules`,
`SignedLatency` and `Forwarding`, where it bounds channels, counters and ids,
also check the module's `TypeOK`; in `EntitySync` and `EntityComponents` it only
says what the variables hold.

Runs that show the code at odds with what the repository says of it (the
findings in `PROJECT.json` quote the line):

| Run | Property | What happens |
|---|---|---|
| `SessionLifecycle_ids` | `UniqueSessionIDs` | two sessions with participants have the same id |
| `EntitySync_ghost` | `LateJoinerSeesNoGhost` | a deletion overtakes the SessionState that lists the entity |
| `ConnectionLoop_failures` | `FailureDisconnects` | the loop waits for room in the channel only it empties |
| `RegularGrid_rays` | `RaysStayInGrid` | a slanted ray looks into a column the grid does not have |

Other behaviours of the code that the models reach, and which explain why the
properties are stated as they are:

- a client can join a session that was removed after it looked it up, and two
  last leavers can both call Remove; the second call decrements the gauge again
  and unregisters whatever session has been given the id since
  (`SessionLifecycle`: no property says that a joined session is registered);
- a component, or an entity action, can be stored after its entity was looked
  up, deleted and cleaned up by another connection, and then stays in the
  session (`OrphansWereLate` and `NoDanglingAction` allow just that);
- an older entity action can be stored over a newer one by a handler that
  compared timestamps before (`OnlyStaleChecksGoBack` allows just that);
- two first joiners can each register a State of a module; what is stored in
  the one that is replaced does not reach late joiners, its asset ids clash with
  those of the other, and an action stored there may outlive its entity
  (`AssetIDsDiffer` is about each State by itself, `NoDanglingAsset` and
  `NoDanglingAction` about the one that the owner of the entity uses);
- a client that stops reading fills `sendChan`; the loop then waits in `send`
  and does not look at the idle timer. The same goes for a loop that waits in
  other connections' channels or for their locks, and for one that waits in
  `disconnect` for room in `disconnectChan`. `ConnectionEnds` and `ShutDownEnds`
  except these three, together `Stuck`, and nothing else; without any one of
  them the run finds a counterexample. The second is the one of
  `ConnectionLoop_failures` with a smaller channel;
- a broadcaster that waits for a full channel keeps `participantMutex` with it,
  and in Notify `subscriptionMutex`. `HandlersReturn` excepts a stalled client
  with a full channel whose own handler is busy, or after a shutdown, when the
  loop no longer takes the idle timeout (`StalledForGood`);
- a sender empties its `sendChan` once when it ends; broadcasts that found the
  participant before it was removed, and those of its own handler, can fill the
  channel again, and the one that finds it full waits for ever, perhaps with the
  mutex the leaving handler needs (`HandlersReturn` excepts it,
  `WaitsForEnded`). Without either exception the run finds a counterexample;
- the merging loop has no bound: two planes of one height, in cells that list
  them in opposite order, can take turns more often than there are planes
  (`LoopStaysLevel` says that nothing else keeps it going);
- a plane that grew on one side and shrank on the other may stay listed in a
  cell it has left, or be listed twice (`CellsCoverPlanes` asks for no less than
  the cells it covers, not for exactly them);
- a sample merged into a plane with another center counts twice in MergeCount,
  because the moved plane then meets itself;
- a region that begins left of or below the grid gives a negative coordinate that
  the code converts to an unsigned number (`grid_spatial_partition.go:263`); the
  language leaves the outcome to the platform, `GetRegion` has no planes there and
  no property asks for any;
- a slanted ray that ends beyond the grid's last row looks into rows the grid does
  not have, since the row is not clamped (`RaysStayInGrid` and the theorem about it
  speak of rays between two points of the grid only);
- GetRegion leaves out the cell in which its far corner lies unless that corner
  is on or beyond the edge of the grid (`RegionIsComplete` asks for regions that
  reach the edge);
- a directed message may be put into the `sendChan` of a connection that has
  left, where nobody reads it.

Bounds. Every race above involves two handlers and at most one bystander, hence
two or three connections. One entity is enough where properties speak of one
entity at a time; two where ids could clash. Two sessions let one be created
while another is removed and a third take the id of either; two connections are
enough to join and leave against each other, and the proofs cover any number of
both. One type name suffices in `EntityComponents` because the theorem on type
ids covers any number of them. In `SessionModules` one of the two entities is
acted on (`ActedOn`), the other is there for the asset ids. The channels of
`ConnectionLoop` are so small that two messages fill each of them,
`disconnectChan` included (two failing messages, or one and the idle timer);
only the run `ConnectionLoop_failures`, about the size itself, has the real 8,
and more messages than that. One wait for other connections stands for any
number in a row. `MaxPings` is below `Modulus`, as 2^32 pings never happen in a
connection, while the counter does wrap below zero within the bound. In
`Forwarding` a `sendChan` has room for two messages, so that there is a queue to
keep in order and it fills up all the same, also after its sender has ended: the
exceptions of `HandlersReturn` arise with two connections. Each load of
`MCForwarding` is a set of things the clients do together (joining with
announcing and answers; announcing during a shutdown; components; custom
messages; receipts), because all of them at once are too many states; who is in
the session at first is left open. `NoCircularWait` covers all of them at once
and any number of connections. `EntityComponents` keeps a new reader behind a
waiting writer by the exception `BehindWriter` in its fairness, which takes
three connections; with the two of the run a waiting writer waits for the only
other handler. The samples of `MCRegularGrid` lie in, across and on both sides of
the first cell, at one height, within merging distance and beyond it, and one
has no area; four of them grow the grid in each direction and merge in chains,
and the 17th lies so that one insertion goes through more than one round.
`MaxSessions`, `MaxParticipants`, `MaxEntities`, `MaxMessages`, `MaxBroadcasts`,
`MaxReplies`, `MaxRequests`, `MaxPings`, `MaxAssets`, `MaxReceipts` and
`MaxSamples` bound what clients ask for, never what the server does with a
request.

Deadlock is checked in the `SessionLifecycle` runs, where a client can always
connect again. In the others every client may be gone for good.

Fairness. Goroutines are scheduled, so a handler's next step is weakly fair in
`SessionLifecycle` and `SignedLatency`; the former assumes that messages can be
enqueued and frame handlers return, which `ConnectionLoop` and `Forwarding` look
at. In `EntityComponents` it is strongly fair: Go's RWMutex admits no new reader
once a writer waits, so a lock that is free again and again is obtained; a Notify
that would have to overtake a waiting writer (`BehindWriter`) is not included. In
`ConnectionLoop` weak fairness of each goroutine is enough: nothing is assumed of
the choice `select` makes among ready cases, only that the sync clock, whose
interval is long, ticks when no other case is ready. The idle timer fires in the
end. Clients are never obliged to send, read or close; `SignedLatency` assumes one
that answers the last ping. `ConnectionEnds` and `ShutDownEnds` except a loop that
is stuck for ever (above). In `Forwarding` a handler is strongly fair (the mutexes
and the channels serve waiters in turn), a sender weakly while its client reads or
is gone, and Disconnect weakly: a client that falls silent runs into the idle
timeout, while one that sends does not stay disconnectable. The abstract
fairness of `SessionMembership` (an entry that was picked happens, a session
that stays empty is seen to be and closed) follows from that of the handlers.

## 4. Proofs

`SessionLifecycleProofs` proves, for every set of connections and every
`MaxSessions`, that `Spec` implies `[]TypeOK`, `[]StoredSessionIsOpen`,
`[]NoAbandonedSession`, `[]HandlersAreMembers` and `[]NoLeakedID`. The only
assumption is `MaxSessionsAssumption` (the bound is a positive number).

None of the properties is inductive alone. `IndInv` adds to the type invariant:

- `LocalsInv`: which of `current` and `target` is set at each place of a handler;
- `CreatedInv`: what a session that was created has, and that places name
  created sessions;
- `FreshInv`: a session not yet registered is untouched and known to its
  creator only; without it `Add` could register a session that another handler
  has already closed (between `Add` and the start of the dispatcher others may
  do so, and `StoredSessionIsOpen` then no longer finds it in the store);
- `MemberInv`: a connection is a participant exactly of the session its place
  says, from AddParticipant to RemoveParticipant;
- `HandlerInv`: the same for frame handlers;
- `SignalInv`: what `closed`, `closeFrameChan` and the dispatcher say of each
  other, by which Close never finds the channel full.

The step is proved by one lemma per action. Each of the listed properties then
follows from `IndInv`. TLC has checked `IndInv` as an invariant too.

The module also proves `LifecycleImplementsMembership`: `Spec` implies
`Membership!Spec` under the mapping of section 2. Besides `IndInv` it needs
`RegisteredInv`: a session somebody is in, leaves or is about to enter was
registered, so that a handler never enters a session that is still new. One
lemma per action shows the abstract step it is (`Lookup` is Pick, `StoreAdd` is
Open, `AddParticipant` is Enter, `RemoveParticipant` is Exit, `Count` is
SeenEmpty, `Remove` is Close or, when a second leaver comes too late, nothing);
`InvisibleSteps` covers the actions that change nothing of the mapping.

`EntitySyncProofs` rests on `CoreInv`: `MembershipInv` (a connection's participant
is in the session from AddParticipant to RemoveParticipant, and ids are never
shared) and `OwnershipInv` (a participant's list of entities is complete while it
is in the session, and a handler about to broadcast works on an entity of its
own). It is proved for every set of feature flags, and gives `NoOrphanEntity`.
What clients know depends on the flags, so those theorems name the ones they need
to be off. `KnownInv` says that each entity is announced later, known, or listed in
the SessionState being put together, and gives `NoMissedEntity`. `ExactInv` adds
what the snapshot of a joining client holds before it is sent: an entity or a pose
in it that is out of date has raced, or a broadcast that corrects it is still to
come; it gives `ViewIsExact`. `MembersInv` is the same for participants and gives
`MembersAreExact`.

`EntityComponentsProofs` proves `TypeIDsAreStable`, `[]NoStaleSubscription`,
`[]SubscribersAreCurrent` and `[]OrphansWereLate` for every set of connections,
type names, entities and contents. The invariant for the first, `TypeIDInv`, says
that the store's generator never gets an id back, so that a new id is above all
others. The second is not inductive because leaveSession drops the subscriptions
several steps before it removes the participant; `SubscriptionInv` adds that nobody
in those later steps is subscribed. One lemma (`StepOfOne`) says what a handler's
step may do without disturbing it, and each action is shown to be such a step. For
the third, `CurrentInv` says what holds while a notification is under way: its
handler tells what the store holds, and a subscriber that is not up to date is
among those it has still to reach. This is where `NoStaleSubscription` is needed:
an update goes to subscribers that take part, which are all of them. `OrphanInv`
speaks of entities that are cleared and not yet removed as well, because another
handler may write between DeleteByEntityID and RemoveEntity.

`SessionModulesProofs` proves `[]TypeOK`, `[]NoDanglingAsset`, `[]AssetIDsDiffer`,
`[]NoDanglingAction` and `OnlyStaleChecksGoBack` for every set of connections, any
of the modules loaded and any number of entities. `PlaceInv` and `OwnerInv` say
that a loop over the modules has one to call, that the modules of a connection
past Init have their State, and that the owner of an entity is such a connection.
The lemma behind both clean-up theorems, `ForgottenStep`, is that the goroutine of an
entity's owner gets past the place where a module forgets the entity only by the
step that forgets it; `AssetInv` and `ActionInv` are stated with that place.
`NumberInv` relates ids that were numbered and not yet stored to those stored.
`ConnsAssumption` says that `None` is no connection.

`ConnectionLoopProofs` proves `[]TypeOK` (no channel beyond its capacity),
`[]DisconnectIsFinal` and `[]ReturnedIsClean` for channels of any capacity.
`ContextInv` is the missing link: the context is cancelled by handleDisconnect or by
the server only, the loop leaves its select only after that, and who has gone
through leaveSession is in no session until it joins one.

`SignedLatencyProofs` proves `[]TypeOK`, `[]ResponseIsComplete` and
`[]ResponseIsMeasured` for any counts, numbers of requests and pings. `PhaseInv`
counts: while a measurement goes on (`Measuring`) the pings on record, those that
lost their place to one of the same id and the iterations to go add up to the count; when it is over (`Over`) the counter is zero
or wrapped around, and then further from zero than there are pings left. That last
part needs `MaxPings < Modulus`: within 2^32 pings the counter cannot come down to
zero a second time.

`ForwardingProofs` proves `[]TypeOK` (channel capacities) and
`[]MessagesStayInOrder` for any connections and capacities. `OrderInv` says that a
`sendChan` holds messages of one sender in their order and after what was read, and
that the message its sender is busy with is newer than all that are there wherever
it has still to go. `sent` and `lastGot` are typed as natural numbers: their bound is
in a guard on the sum over all clients, which only an induction over the set of
clients could carry through.

`NoCircularWait` is what remains of `HandlersReturn` without fairness: whenever no
handler and no sender of a session can take a step (`CanGoOn`, `CanWrite`: the guards
of the actions, which TLC found to agree with ENABLED), all handlers are at rest, or
a stalled client's channel is full, or `WaitsForEnded` holds. A handler that waits
for room waits for one of those two; so no reader keeps `participantMutex`, so writers
get it, so the readers behind them do; then no Notify keeps `subscriptionMutex`, and
the same goes for its writers and readers. `LockInv` is what the last part needs:
whoever holds `subscriptionMutex` is broadcasting or about to release it.

`RegularGridProofs` proves `[]PlanesAreInGrid`, `[]CellsCoverPlanes`,
`[]GroundIsNearest` and `[]RegionIsComplete` for any samples, any number of them and
any `Meter` that `RegularGridAssumption` allows. `GridInv` is the first two together
with what an insertion under way relies on: the sample, and the plane it was merged
into, lie inside the grid as well. It needs three facts about the operators.
`Expansion`: ExpandToFitPoint adds enough whole cells for the point, and shifts what
was there by whole rows and columns, so that planes keep their cells
(`GrownCovers`). `MergedCorners`: the rounding of a merge keeps a plane's corners
between those of the two it came from. `MoveLists`: whatever the bounds before and
after, a cell the plane lies in is never one from which an edge loop removes it,
every cell it newly lies in is on an edge that adds it, and removing an entry by
putting the last one in its place loses no other plane. `GroundIsNearest` follows
because a plane above or below a point is listed in the point's cell (`PointListed`)
and the list has a first nearest hit; `RegionIsComplete` because the cell of a
plane's far corner is in the region.

`LoopStaysLevel` needs `LevelInv`: after a merge the loop goes on with a plane of the
map that has an area, and which therefore meets itself. So the nearest hit,
`ClosestPlane`, is at distance zero (`ClosestIsHit`): it is that plane or another of
exactly its height, and after it went a fifth of the way to the first it still lies
over its center (`MergedCovers`, `MergedHit`). `HeightMovesOnce` is the action property behind it: no merge after
the first moves a plane up or down. `InnerRaysStayInWideGrids` delimits the finding of
`RegularGrid_rays`: as long as the grid has no more rows than columns, the cells of
every slanted ray between two points of the grid are in the grid (`StepsOnTheWay`:
each step stays between the ends of the ray). Of rays that end beyond the grid it
says nothing.

All inductive invariants were checked by TLC on small instances before they were
proved.

Only model-checked: the liveness properties (`RequestCompletes`,
`ClosedDispatcherExits`, `ConnectionEnds`, `ShutDownEnds`, `MeasurementEnds`,
`HandlersReturn`, `ReceiptsAreSettled`) and the fairness part of the refinement, which
rest on ENABLED, out of the prover's reach. That the merging loop of InsertQuad ends
is no property: with the rounding of the model two planes of one height can alternate
for a long time, and whether float32 stops them the model cannot say.

## 5. What is not modelled

- In `EntityComponents`: read-only requests, the component part of the
  SessionState, persistent entities, feature flags, answers to requests and a
  handler's wait for room in its own `sendChan` (`Forwarding` has both). A
  participant joins once.
- In `SessionModules`: State messages and broadcasts to clients; one action name
  per entity.
- In `ConnectionLoop`: what messages say. The scheduler of `hagall-common` is
  external: a bounded channel that gives up when the context is cancelled.
- The server id is constant, so a session's global id is its id.
- In `RegularGrid`: two connections that insert at once. The grid has no lock, so
  that is a data race on Go slices, whose outcomes the source does not determine.
  Tilted planes, negative extents, rounding in float32, the hits of slanted rays.
  GetDebugInfo only reads.
- In `Forwarding`: feature flags (none is set), what a message says, the loop's
  own errors (`ConnectionLoop` has them), and the other session that a
  connection switches to: the answer it gets there is kept. PostReceipt is a
  library call that succeeds or fails; hash and signature checks are a verdict.
- Cryptography and latency statistics.
- The log and metrics decorators pass every call on and write counters nobody
  reads back; HTTP, authentication and the smoke test keep no state; the server's
  start wires the parts together and registers with the discovery service through
  a library client.

## 6. Plan

Done: survey, the session lifecycle with its proofs and its refinement of an
abstract specification, entities, components, the connection loop, vikja, odal
and dagaz, signed latency, custom messages and receipts across connections.

Proved for any size: every invariant and action property that a passing run checks,
and the step part of the refinement.

Next: the hits of slanted rays in `RegularGrid`, and a run of `Forwarding` with three
connections, of which only its smaller loads are within reach.
