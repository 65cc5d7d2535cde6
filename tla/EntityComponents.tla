-------------------------- MODULE EntityComponents --------------------------
(***************************************************************************)
(* The entity component system of one session: EntityComponentStore        *)
(* (models/entity.go) and the handlers that use it (websocket/realtime.go).*)
(*                                                                         *)
(* A handler checks that the entity exists, changes the store and notifies,*)
(* each under a lock of its own.  Notify holds subscriptionMutex for       *)
(* reading while the message is enqueued to one recipient after the other, *)
(* and Broadcast holds participantMutex as well: whoever needs one of them *)
(* for writing waits.  A sendChan that stays full holds the enqueuing      *)
(* handler up, with its locks.  Answers are left out, and so is a          *)
(* handler's wait for room for its own.                                    *)
(*                                                                         *)
(* Requests that the handlers refuse before they touch the store, and      *)
(* those that only read it, change nothing.                                *)
(***************************************************************************)
EXTENDS Naturals, FiniteSets, SequentialIDGenerator

CONSTANTS Conns,       \* the connections to the session
          Names,       \* entity component type names
          MaxEntities, \* bound: how many entities are ever added
          NumData      \* how many component contents are told apart

ASSUME EntityComponentsAssumption ==
    /\ IsFiniteSet(Names) /\ Names # {}
    /\ MaxEntities \in Nat /\ NumData \in Nat \ {0}

TypeIDs == 1 .. Cardinality(Names)
EntityIDs == 1 .. MaxEntities
Data == 1 .. NumData
None == 0              \* no type, no entity, no component

VARIABLES
    ids,            \* EntityComponentStore.ids
    typeID,         \* idIndex; nameIndex is its inverse
    components,     \* entityComponents, by type and entity
    subscriptions,  \* subscriptions, by type
    participants,   \* Session.participants
    lastEntityID,   \* Session.entityIDs
    entities,       \* Session.entities
    owner,          \* the connection that added the entity
    pc,             \* where the connection's handler stands
    req,            \* the request being handled
    todo,           \* the recipients a notification has yet to reach
    stalled,        \* connections whose sendChan is full and stays so
    heard,          \* what the messages enqueued to a subscriber say of
                    \* each component of the types it is subscribed to
    contested,      \* history: components written while another write of
                    \* the same component was still being notified
    late            \* history: entities that got a component after their
                    \* components were deleted

storeVars == <<ids, typeID, components, subscriptions>>
sessionVars == <<participants, lastEntityID, entities, owner>>
connVars == <<pc, req, todo>>
vars == <<storeVars, sessionVars, connVars, stalled, heard, contested, late>>

Requests == [op : {"none", "add", "delete", "update", "subscribe", "unsubscribe",
                   "entityDelete", "leave"},
             type : TypeIDs \cup {None}, entity : EntityIDs \cup {None}, data : Data \cup {None}]
NoRequest == [op |-> "none", type |-> None, entity |-> None, data |-> None]
Places == {"out", "gone", "ready", "write", "notify", "deliver", "subscribe", "unsubscribe",
           "deleteByEntityID", "removeEntity", "unsubscribeAll", "leaveEntities"}

TypeOK ==
    /\ ids \in Generators(Cardinality(Names))
    /\ typeID \in [Names -> TypeIDs \cup {None}]
    /\ components \in [TypeIDs -> [EntityIDs -> Data \cup {None}]]
    /\ subscriptions \in [TypeIDs -> SUBSET Conns]
    /\ participants \in SUBSET Conns
    /\ lastEntityID \in 0 .. MaxEntities
    /\ entities \in SUBSET EntityIDs
    /\ owner \in [EntityIDs -> Conns \cup {None}]
    /\ pc \in [Conns -> Places]
    /\ req \in [Conns -> Requests]
    /\ todo \in [Conns -> SUBSET Conns]
    /\ stalled \in SUBSET Conns
    /\ heard \in [Conns -> [TypeIDs -> [EntityIDs -> Data \cup {None}]]]
    /\ contested \in SUBSET (TypeIDs \X EntityIDs)
    /\ late \in SUBSET EntityIDs

Nothing == [t \in TypeIDs |-> [e \in EntityIDs |-> None]]

Init ==
    /\ ids = EmptyGenerator
    /\ typeID = [n \in Names |-> None]
    /\ components = Nothing
    /\ subscriptions = [t \in TypeIDs |-> {}]
    /\ participants = {}
    /\ lastEntityID = 0
    /\ entities = {}
    /\ owner = [e \in EntityIDs |-> None]
    /\ pc = [c \in Conns |-> "out"]
    /\ req = [c \in Conns |-> NoRequest]
    /\ todo = [c \in Conns |-> {}]
    /\ stalled = {}
    /\ heard = [c \in Conns |-> Nothing]
    /\ contested = {}
    /\ late = {}

GoTo(c, place) == pc' = [pc EXCEPT ![c] = place]

\* The handler is through with its request.
Finish(c) ==
    /\ GoTo(c, "ready")
    /\ req' = [req EXCEPT ![c] = NoRequest]

\* A type id is registered: nameIndex has it.
Registered(t) == \E n \in Names : typeID[n] = t

-----------------------------------------------------------------------------
(* Requests reach an idle handler.  A connection stands for one            *)
(* participant: who joins again gets a participant id never used before.   *)

Join(c) ==
    /\ pc[c] = "out"
    /\ participants' = participants \cup {c}
    /\ GoTo(c, "ready")
    /\ UNCHANGED <<storeVars, lastEntityID, entities, owner, req, todo, heard, contested, late>>

EntityAdd(c) ==
    /\ pc[c] = "ready"
    /\ lastEntityID < MaxEntities
    /\ lastEntityID' = lastEntityID + 1
    /\ entities' = entities \cup {lastEntityID + 1}
    /\ owner' = [owner EXCEPT ![lastEntityID + 1] = c]
    /\ UNCHANGED <<storeVars, participants, connVars, heard, contested, late>>

\* Mutant: the name is not looked up first.
AddTypeAlways(c, n) ==
    /\ pc[c] = "ready"
    /\ \E id \in NewIDs(ids) :
          /\ ids' = AfterNew(ids, id)
          /\ typeID' = [typeID EXCEPT ![n] = id]
    /\ UNCHANGED <<components, subscriptions, sessionVars, connVars, heard, contested, late>>

\* HandleEntityComponentTypeAdd: AddType returns the id a name already has.
AddType(c, n) ==
    /\ pc[c] = "ready"
    /\ typeID[n] = None
    /\ \E id \in NewIDs(ids) :
          /\ ids' = AfterNew(ids, id)
          /\ typeID' = [typeID EXCEPT ![n] = id]
    /\ UNCHANGED <<components, subscriptions, sessionVars, connVars, heard, contested, late>>

\* EntityByID finds the entity of a request to add, delete or update a
\* component.  No ownership is asked for.
ComponentRequest(c, op, t, e, d) ==
    /\ pc[c] = "ready"
    /\ e \in entities
    /\ req' = [req EXCEPT ![c] = [op |-> op, type |-> t, entity |-> e, data |-> d]]
    /\ GoTo(c, "write")
    /\ UNCHANGED <<storeVars, sessionVars, todo, heard, contested, late>>

SubscriptionRequest(c, op, t) ==
    /\ pc[c] = "ready"
    /\ req' = [req EXCEPT ![c] = [NoRequest EXCEPT !.op = op, !.type = t]]
    /\ GoTo(c, op)
    /\ UNCHANGED <<storeVars, sessionVars, todo, heard, contested, late>>

\* HandleEntityDelete, for an entity of the participant.
EntityDelete(c, e) ==
    /\ pc[c] = "ready"
    /\ e \in entities /\ owner[e] = c
    /\ req' = [req EXCEPT ![c] = [NoRequest EXCEPT !.op = "entityDelete", !.entity = e]]
    /\ GoTo(c, "deleteByEntityID")
    /\ UNCHANGED <<storeVars, sessionVars, todo, heard, contested, late>>

Leave(c) ==
    /\ pc[c] = "ready"
    /\ req' = [req EXCEPT ![c] = [NoRequest EXCEPT !.op = "leave"]]
    /\ GoTo(c, "unsubscribeAll")
    /\ UNCHANGED <<storeVars, sessionVars, todo, heard, contested, late>>

-----------------------------------------------------------------------------
(* The locks that are held while a notification is being enqueued.         *)

\* Mutant: Subscribe takes the lock twice.
SubscriptionsLockedTwice == \E c \in Conns : pc[c] \in {"deliver", "subscribe"}

\* subscriptionMutex, held for reading by Notify.
SubscriptionsLocked == \E c \in Conns : pc[c] = "deliver"

\* participantMutex, held for reading by Broadcast; BroadcastTo, which an
\* update uses, releases it before it enqueues.
ParticipantsLocked == \E c \in Conns : pc[c] = "deliver" /\ req[c].op # "update"

-----------------------------------------------------------------------------
(* HandleEntityComponentAdd, -Delete and -Update.                          *)

\* Add refuses an unregistered type and an existing component; Delete and
\* Update find nothing to do when there is no component.
Accepted(r) ==
    CASE r.op = "add"    -> Registered(r.type) /\ components[r.type][r.entity] = None
      [] r.op = "delete" -> components[r.type][r.entity] # None
      [] r.op = "update" -> components[r.type][r.entity] # None

\* The component after the request.
NewContent(r) == IF r.op = "delete" THEN None ELSE r.data

\* What is heard once c knows of the outcome of request r.
Hears(c, r) ==
    IF c \in subscriptions[r.type]
    THEN [heard EXCEPT ![c][r.type][r.entity] = NewContent(r)] ELSE heard

\* Another handler wrote the same component and has not notified yet.
OverlapsWrite(c, r) ==
    \E d \in Conns \ {c} : /\ pc[d] \in {"notify", "deliver"}
                           /\ req[d].type = r.type /\ req[d].entity = r.entity

\* DeleteByEntityID was called for the entity, which is gone or goes next.
Cleared(e) ==
    e \notin entities \/ \E d \in Conns : pc[d] = "removeEntity" /\ req[d].entity = e

\* Add, Delete or Update on the store.  A refused add or delete is answered
\* with an error; a refused update is not looked at and notified all the same.
WriteComponent(c) ==
    LET r == req[c] IN
    /\ pc[c] = "write"
    /\ IF Accepted(r)
       THEN /\ components' = [components EXCEPT ![r.type][r.entity] = NewContent(r)]
            /\ heard' = Hears(c, r)
       ELSE UNCHANGED <<components, heard>>
    /\ IF Accepted(r) \/ r.op = "update"
       THEN /\ GoTo(c, "notify")
            /\ contested' = IF OverlapsWrite(c, r)
                            THEN contested \cup {<<r.type, r.entity>>} ELSE contested
            /\ UNCHANGED req
       ELSE Finish(c) /\ UNCHANGED contested
    /\ late' = IF Accepted(r) /\ Cleared(r.entity) THEN late \cup {r.entity} ELSE late
    /\ UNCHANGED <<ids, typeID, subscriptions, sessionVars, todo>>

\* Mutant: an update reaches nobody.
RecipientsButOfUpdate(c) == IF req[c].op = "update" THEN {} ELSE participants \ {c}

\* Who is told: an update goes to the subscribers, an add or a delete to
\* everyone in the session.
Recipients(c) ==
    IF req[c].op = "update" THEN (subscriptions[req[c].type] \cap participants) \ {c}
    ELSE participants \ {c}

\* Notify calls its handler only when the type has a subscriber.
Notify(c) ==
    /\ pc[c] = "notify"
    /\ IF subscriptions[req[c].type] = {}
       THEN Finish(c) /\ UNCHANGED todo
       ELSE /\ todo' = [todo EXCEPT ![c] = Recipients(c)]
            /\ GoTo(c, "deliver")
            /\ UNCHANGED req
    /\ UNCHANGED <<storeVars, sessionVars, heard, contested, late>>

\* SendMsg: the message is enqueued to the next recipient, when its sendChan
\* has room.
Deliver(c, d) ==
    /\ pc[c] = "deliver"
    /\ d \in todo[c] \ stalled
    /\ heard' = Hears(d, req[c])
    /\ todo' = [todo EXCEPT ![c] = @ \ {d}]
    /\ UNCHANGED <<storeVars, sessionVars, pc, req, contested, late>>

EndNotify(c) ==
    /\ pc[c] = "deliver"
    /\ todo[c] = {}
    /\ Finish(c)
    /\ UNCHANGED <<storeVars, sessionVars, todo, heard, contested, late>>

\* Client d does not read any more and the sendChan of its connection is full.
\* (A channel that is full for a while is no different from a slow handler,
\* and nobody minds one that nobody enqueues to.)
Stall(d) ==
    /\ d \notin stalled
    /\ \E c \in Conns : d \in todo[c]
    /\ stalled' = stalled \cup {d}
    /\ UNCHANGED <<storeVars, sessionVars, connVars, heard, contested, late>>

-----------------------------------------------------------------------------
(* Subscriptions.                                                          *)

\* Subscribe refuses an unregistered type.  What a client learns of a type
\* counts from its subscription on.
Subscribe(c) ==
    LET t == req[c].type IN
    /\ pc[c] = "subscribe"
    /\ ~ SubscriptionsLocked
    /\ IF Registered(t)
       THEN /\ subscriptions' = [subscriptions EXCEPT ![t] = @ \cup {c}]
            /\ heard' = [heard EXCEPT ![c][t] = Nothing[t]]
       ELSE UNCHANGED <<subscriptions, heard>>
    /\ Finish(c)
    /\ UNCHANGED <<ids, typeID, components, sessionVars, todo, contested, late>>

Unsubscribe(c) ==
    /\ pc[c] = "unsubscribe"
    /\ ~ SubscriptionsLocked
    /\ subscriptions' = [subscriptions EXCEPT ![req[c].type] = @ \ {c}]
    /\ heard' = [heard EXCEPT ![c][req[c].type] = Nothing[req[c].type]]
    /\ Finish(c)
    /\ UNCHANGED <<ids, typeID, components, sessionVars, todo, contested, late>>

-----------------------------------------------------------------------------
(* Entities go: by request, or with their participant.                     *)

\* Mutant: a type without subscribers is passed over.
DeleteByEntityIDIfSubscribed(c) ==
    /\ pc[c] = "deleteByEntityID"
    /\ components' = [t \in TypeIDs |-> IF subscriptions[t] = {} THEN components[t]
                                       ELSE [components[t] EXCEPT ![req[c].entity] = None]]
    /\ GoTo(c, "removeEntity")
    /\ UNCHANGED <<ids, typeID, subscriptions, sessionVars, req, todo, heard, contested, late>>

DeleteByEntityID(c) ==
    /\ pc[c] = "deleteByEntityID"
    /\ components' = [t \in TypeIDs |-> [components[t] EXCEPT ![req[c].entity] = None]]
    /\ GoTo(c, "removeEntity")
    /\ UNCHANGED <<ids, typeID, subscriptions, sessionVars, req, todo, heard, contested, late>>

RemoveEntity(c) ==
    /\ pc[c] = "removeEntity"
    /\ entities' = entities \ {req[c].entity}
    /\ IF req[c].op = "leave"
       THEN GoTo(c, "leaveEntities") /\ UNCHANGED req
       ELSE Finish(c)
    /\ UNCHANGED <<storeVars, participants, lastEntityID, owner, todo, heard, contested, late>>

\* Mutant: the subscriptions survive the participant.
UnsubscribeNone(c) ==
    /\ pc[c] = "unsubscribeAll"
    /\ GoTo(c, "leaveEntities")
    /\ UNCHANGED <<storeVars, sessionVars, req, todo, heard, contested, late>>

UnsubscribeByParticipant(c) ==
    /\ pc[c] = "unsubscribeAll"
    /\ ~ SubscriptionsLocked
    /\ subscriptions' = [t \in TypeIDs |-> subscriptions[t] \ {c}]
    /\ heard' = [heard EXCEPT ![c] = Nothing]
    /\ GoTo(c, "leaveEntities")
    /\ UNCHANGED <<ids, typeID, components, sessionVars, req, todo, contested, late>>

\* The next entity of the leaving participant (none of them persists).
LeaveEntity(c, e) ==
    /\ pc[c] = "leaveEntities"
    /\ e \in entities /\ owner[e] = c
    /\ req' = [req EXCEPT ![c].entity = e]
    /\ GoTo(c, "deleteByEntityID")
    /\ UNCHANGED <<storeVars, sessionVars, todo, heard, contested, late>>

RemoveParticipant(c) ==
    /\ pc[c] = "leaveEntities"
    /\ \A e \in entities : owner[e] # c
    /\ ~ ParticipantsLocked
    /\ participants' = participants \ {c}
    /\ GoTo(c, "gone")
    /\ req' = [req EXCEPT ![c] = NoRequest]
    /\ UNCHANGED <<storeVars, lastEntityID, entities, owner, todo, heard, contested, late>>

-----------------------------------------------------------------------------
Handle(c) ==
    \/ WriteComponent(c) \/ Notify(c) \/ (\E d \in Conns : Deliver(c, d)) \/ EndNotify(c)
    \/ Subscribe(c) \/ Unsubscribe(c)
    \/ DeleteByEntityID(c) \/ RemoveEntity(c)
    \/ UnsubscribeByParticipant(c) \/ (\E e \in EntityIDs : LeaveEntity(c, e))
    \/ RemoveParticipant(c)

Request(c) ==
    \/ Join(c) \/ EntityAdd(c) \/ Leave(c)
    \/ \E n \in Names : AddType(c, n)
    \/ \E t \in TypeIDs, e \in EntityIDs :
          \/ ComponentRequest(c, "delete", t, e, None)
          \/ \E d \in Data : \/ ComponentRequest(c, "add", t, e, d)
                             \/ ComponentRequest(c, "update", t, e, d)
    \/ \E t \in TypeIDs, op \in {"subscribe", "unsubscribe"} : SubscriptionRequest(c, op, t)
    \/ \E e \in EntityIDs : EntityDelete(c, e)

Next == \E c \in Conns : \/ (Request(c) \/ Handle(c)) /\ UNCHANGED stalled
                         \/ Stall(c)

Spec == Init /\ [][Next]_vars

\* Somebody is about to take subscriptionMutex for writing.
SubscriptionWriter == \E w \in Conns : pc[w] \in {"subscribe", "unsubscribe", "unsubscribeAll"}

\* Notify finds its locks held by readers while a writer may be waiting for
\* them: Go's RWMutex then lets no new reader in.
BehindWriter(c) ==
    /\ pc[c] = "notify"
    /\ \/ SubscriptionsLocked /\ SubscriptionWriter
       \/ ParticipantsLocked /\ \E w \in Conns : pc[w] = "leaveEntities"

\* Goroutines are scheduled, and a writer that waits for an RWMutex is not
\* overtaken by new readers, so a handler that can get its lock again and
\* again gets it.
FairSpec == Spec /\ \A c \in Conns : SF_vars(Handle(c) /\ ~ BehindWriter(c) /\ UNCHANGED stalled)

-----------------------------------------------------------------------------
(* Properties.                                                             *)

\* Nobody is subscribed who is not in the session: leaveSession drops the
\* subscriptions before the participant, while other handlers subscribe and
\* notify.
NoStaleSubscription == \A t \in TypeIDs : subscriptions[t] \subseteq participants

\* A handler has written component (t, e) and its notification is under way.
ComponentPending(t, e) ==
    \E c \in Conns : /\ pc[c] \in {"notify", "deliver"}
                     /\ req[c].type = t /\ req[c].entity = e

\* A subscriber that heard of a component knows its current content, unless
\* two writes of that component overlapped or one is being notified.
SubscribersAreCurrent ==
    \A t \in TypeIDs, e \in EntityIDs : \A c \in subscriptions[t] :
        /\ <<t, e>> \notin contested /\ ~ ComponentPending(t, e)
        /\ components[t][e] # None /\ heard[c][t][e] # None
        => heard[c][t][e] = components[t][e]

\* A component outlives its entity only when a request to add or update it,
\* which found the entity, was overtaken by the deletion of the entity
\* (nothing removes such a component later).
OrphansWereLate ==
    \A t \in TypeIDs, e \in EntityIDs \ (entities \cup late) : components[t][e] = None

\* A registered type name keeps its id for good, and no other name gets it.
TypeIDsAreStable ==
    [][\A n, m \in Names : typeID[n] # None =>
          typeID'[n] = typeID[n] /\ (m # n => typeID'[m] # typeID[n])]_vars

\* The handler of b waits for room in a sendChan that stays full.
StuckSending(b) == pc[b] = "deliver" /\ todo[b] \cap stalled # {}

\* The handler of c waits for such a one, if it is not one itself.
HeldUp(c) ==
    \/ StuckSending(c)
    \/ \E b \in Conns : /\ StuckSending(b)
                        /\ \/ pc[c] \in {"subscribe", "unsubscribe", "unsubscribeAll"}
                           \/ pc[c] = "leaveEntities" /\ req[b].op # "update"
                           \/ BehindWriter(c)

\* Every request is handled to its end, unless its handler has to send into a
\* channel that stays full, or needs a lock that such a handler keeps: Notify,
\* Subscribe, Unsubscribe and leaveSession do not wait for each other's locks
\* for ever, and one full channel holds up no one else.
RequestCompletes ==
    \A c \in Conns :
        pc[c] \notin {"out", "gone", "ready"} ~> (pc[c] \in {"gone", "ready"} \/ [] HeldUp(c))

=============================================================================
