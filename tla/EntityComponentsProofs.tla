----------------------- MODULE EntityComponentsProofs -----------------------
(***************************************************************************)
(* Proofs about EntityComponents, for any sets of connections and of type  *)
(* names.                                                                  *)
(***************************************************************************)
EXTENDS EntityComponents, TLAPS

\* The ids handed out count up without a gap, none is ever given back, and
\* no two names have the same one.
TypeIDInv ==
    /\ ids.currentID \in Nat
    /\ ids = [currentID |-> ids.currentID, reusableIDs |-> {}]
    /\ typeID \in [Names -> Nat]
    /\ \A n \in Names : typeID[n] <= ids.currentID
    /\ \A n, m \in Names : typeID[n] # None /\ n # m => typeID[m] # typeID[n]

\* What a step may do to the type ids: the body of TypeIDsAreStable.
KeepsTypeIDs ==
    \A n, m \in Names : typeID[n] # None =>
        typeID'[n] = typeID[n] /\ (m # n => typeID'[m] # typeID[n])

\* AddType takes an id above all those in use.
LEMMA AddTypeKeepsIDs ==
    ASSUME TypeIDInv, NEW c \in Conns, NEW n \in Names, AddType(c, n)
    PROVE  TypeIDInv' /\ KeepsTypeIDs
<1>1. NewIDs(ids) = {ids.currentID + 1}
  BY DEF TypeIDInv, NewIDs
<1>2. /\ ids' = [currentID |-> ids.currentID + 1, reusableIDs |-> {}]
      /\ typeID' = [typeID EXCEPT ![n] = ids.currentID + 1]
      /\ typeID[n] = None
  <2>1. ids.reusableIDs = {}
    BY DEF TypeIDInv
  <2>2. AfterNew(ids, ids.currentID + 1) = [currentID |-> ids.currentID + 1, reusableIDs |-> {}]
    BY <2>1 DEF AfterNew
  <2>3. /\ ids' = AfterNew(ids, ids.currentID + 1)
        /\ typeID' = [typeID EXCEPT ![n] = ids.currentID + 1]
        /\ typeID[n] = None
    BY <1>1 DEF AddType
  <2>. QED  BY <2>2, <2>3
<1>3. TypeIDInv'
  BY <1>2 DEF TypeIDInv, None
<1>4. KeepsTypeIDs
  BY <1>2 DEF TypeIDInv, KeepsTypeIDs, None
<1>. QED  BY <1>3, <1>4

\* A step is one of a handler, or leaves everything but stalled alone.
LEMMA StepOfHandler ==
    ASSUME [Next]_vars
    PROVE  \/ \E c \in Conns : Request(c) \/ Handle(c)
           \/ UNCHANGED <<storeVars, sessionVars, connVars, heard, contested, late>>
BY DEF Next, Stall, vars

\* A step that leaves the store's id tables alone keeps both.
LEMMA OtherStepsKeepIDs ==
    ASSUME TypeIDInv, UNCHANGED <<ids, typeID>>
    PROVE  TypeIDInv' /\ KeepsTypeIDs
BY DEF TypeIDInv, KeepsTypeIDs

\* No handler other than the one for a new type touches the id tables.
LEMMA OnlyAddTypeChangesIDs ==
    ASSUME [Next]_vars
    PROVE  \/ \E c \in Conns, n \in Names : AddType(c, n)
           \/ UNCHANGED <<ids, typeID>>
<1>1. CASE UNCHANGED storeVars
  BY <1>1 DEF storeVars
<1>2. ASSUME NEW c \in Conns, Request(c)
      PROVE  (\E n \in Names : AddType(c, n)) \/ UNCHANGED <<ids, typeID>>
  BY <1>2 DEF Request, Join, EntityAdd, Leave, ComponentRequest, SubscriptionRequest,
              EntityDelete, storeVars
<1>3. ASSUME NEW c \in Conns, Handle(c)
      PROVE  UNCHANGED <<ids, typeID>>
  BY <1>3 DEF Handle, WriteComponent, Notify, Deliver, EndNotify, Subscribe, Unsubscribe,
              DeleteByEntityID, RemoveEntity, UnsubscribeByParticipant, LeaveEntity,
              RemoveParticipant, storeVars
<1>. QED  BY <1>1, <1>2, <1>3, StepOfHandler

\* The id of a component type name never changes and is never shared
\* (EntityComponentStore.AddType), whatever connections and names there are.
THEOREM TypeIDsNeverChange == Spec => TypeIDsAreStable
<1>1. Init => TypeIDInv
  BY DEF Init, TypeIDInv, EmptyGenerator, None
<1>2. TypeIDInv /\ [Next]_vars => TypeIDInv' /\ KeepsTypeIDs
  BY AddTypeKeepsIDs, OtherStepsKeepIDs, OnlyAddTypeChangesIDs
<1>3. TypeIDInv /\ [Next]_vars => [KeepsTypeIDs]_vars
  BY <1>2
<1>. QED  BY <1>1, <1>2, <1>3, PTL DEF Spec, TypeIDsAreStable, KeepsTypeIDs

-----------------------------------------------------------------------------
(* Subscriptions.                                                          *)

\* The places of leaveSession after the subscriptions were dropped.
PastUnsubscribe(c) ==
    \/ pc[c] \in {"out", "gone", "leaveEntities"}
    \/ pc[c] \in {"deleteByEntityID", "removeEntity"} /\ req[c].op = "leave"

\* The inductive invariant: a handler at work belongs to a participant, and
\* nobody who is past UnsubscribeByParticipant is subscribed.
SubscriptionInv ==
    /\ participants \in SUBSET Conns
    /\ pc \in [Conns -> Places]
    /\ req \in [Conns -> Requests]
    /\ subscriptions \in [TypeIDs -> SUBSET Conns]
    /\ \A c \in Conns : pc[c] \notin {"out", "gone"} => c \in participants
    /\ \A c \in Conns : pc[c] \in {"unsubscribeAll", "leaveEntities"} => req[c].op = "leave"
    /\ \A t \in TypeIDs : \A c \in subscriptions[t] : ~ PastUnsubscribe(c)

\* A step of the handler of c that subscribes at most c, and leaves it
\* unsubscribed if it gets past UnsubscribeByParticipant, keeps the invariant.
LEMMA StepOfOne ==
    ASSUME SubscriptionInv, NEW c \in Conns,
           pc' = [pc EXCEPT ![c] = pc'[c]], pc'[c] \in Places,
           req' = [req EXCEPT ![c] = req'[c]], req'[c] \in Requests,
           participants' = IF pc'[c] \in {"out", "gone"} THEN participants \ {c}
                                                        ELSE participants \cup {c},
           pc'[c] \in {"unsubscribeAll", "leaveEntities"} => req'[c].op = "leave",
           subscriptions' \in [TypeIDs -> SUBSET Conns],
           \A t \in TypeIDs : subscriptions'[t] \subseteq subscriptions[t] \cup {c},
           \A t \in TypeIDs : c \in subscriptions'[t] => ~ PastUnsubscribe(c)'
    PROVE  SubscriptionInv'
<1>1. participants' \in SUBSET Conns /\ pc' \in [Conns -> Places] /\ req' \in [Conns -> Requests]
  BY DEF SubscriptionInv
<1>2. ASSUME NEW d \in Conns, d # c PROVE pc'[d] = pc[d] /\ req'[d] = req[d]
  BY <1>2 DEF SubscriptionInv
<1>3. ASSUME NEW d \in Conns
      PROVE  /\ pc'[d] \notin {"out", "gone"} => d \in participants'
             /\ pc'[d] \in {"unsubscribeAll", "leaveEntities"} => req'[d].op = "leave"
  BY <1>2 DEF SubscriptionInv
<1>4. ASSUME NEW t \in TypeIDs, NEW d \in subscriptions'[t]
      PROVE  ~ PastUnsubscribe(d)'
  <2>1. d \in Conns
    OBVIOUS
  <2>2. CASE d # c
    <3>1. d \in subscriptions[t]
      BY <2>2
    <3>. QED  BY <1>2, <2>1, <2>2, <3>1 DEF SubscriptionInv, PastUnsubscribe
  <2>. QED  BY <2>2
<1>. QED  BY <1>1, <1>3, <1>4 DEF SubscriptionInv

\* The requests of the handlers are records of the type.
LEMMA RequestTypes ==
    /\ NoRequest \in Requests
    /\ [NoRequest EXCEPT !.op = "leave"] \in Requests
    /\ [NoRequest EXCEPT !.op = "leave"].op = "leave"
    /\ \A t \in TypeIDs, e \in EntityIDs, d \in Data \cup {None}, op \in {"add", "delete", "update"} :
          [op |-> op, type |-> t, entity |-> e, data |-> d] \in Requests
    /\ \A t \in TypeIDs, op \in {"subscribe", "unsubscribe"} :
          [NoRequest EXCEPT !.op = op, !.type = t] \in Requests
    /\ \A e \in EntityIDs : /\ [NoRequest EXCEPT !.op = "entityDelete", !.entity = e] \in Requests
                            /\ [NoRequest EXCEPT !.op = "entityDelete", !.entity = e].op = "entityDelete"
    /\ \A e \in EntityIDs, r \in Requests : /\ [r EXCEPT !.entity = e] \in Requests
                                            /\ [r EXCEPT !.entity = e].op = r.op
<1> USE DEF Requests, NoRequest
<1>1. NoRequest \in Requests
  OBVIOUS
<1>2. [NoRequest EXCEPT !.op = "leave"] \in Requests /\ [NoRequest EXCEPT !.op = "leave"].op = "leave"
  OBVIOUS
<1>3. ASSUME NEW t \in TypeIDs, NEW e \in EntityIDs, NEW d \in Data \cup {None},
             NEW op \in {"add", "delete", "update"}
      PROVE  [op |-> op, type |-> t, entity |-> e, data |-> d] \in Requests
  OBVIOUS
<1>4. ASSUME NEW t \in TypeIDs, NEW op \in {"subscribe", "unsubscribe"}
      PROVE  [NoRequest EXCEPT !.op = op, !.type = t] \in Requests
  OBVIOUS
<1>5. ASSUME NEW e \in EntityIDs
      PROVE  /\ [NoRequest EXCEPT !.op = "entityDelete", !.entity = e] \in Requests
             /\ [NoRequest EXCEPT !.op = "entityDelete", !.entity = e].op = "entityDelete"
  OBVIOUS
<1>6. ASSUME NEW e \in EntityIDs, NEW r \in Requests
      PROVE  [r EXCEPT !.entity = e] \in Requests /\ [r EXCEPT !.entity = e].op = r.op
  OBVIOUS
<1>. QED  BY <1>1, <1>2, <1>3, <1>4, <1>5, <1>6

\* A step of a participant that changes neither participants nor
\* subscriptions, and does not get past UnsubscribeByParticipant.
LEMMA QuietStep ==
    ASSUME SubscriptionInv, NEW c \in Conns, pc[c] \notin {"out", "gone"},
           NEW place \in Places \ {"out", "gone"}, pc' = [pc EXCEPT ![c] = place],
           NEW r \in Requests, req' = [req EXCEPT ![c] = r],
           UNCHANGED <<participants, subscriptions>>,
           place \in {"unsubscribeAll", "leaveEntities"} => r.op = "leave",
           PastUnsubscribe(c)' => PastUnsubscribe(c)
    PROVE  SubscriptionInv'
<1>1. pc'[c] = place /\ req'[c] = r /\ participants = participants \cup {c}
  BY DEF SubscriptionInv
<1>2. subscriptions' \in [TypeIDs -> SUBSET Conns]
  BY DEF SubscriptionInv
<1>3. \A t \in TypeIDs : c \in subscriptions'[t] => ~ PastUnsubscribe(c)'
  BY DEF SubscriptionInv
<1>. QED  BY <1>1, <1>2, <1>3, StepOfOne

\* Requests that reach an idle handler.
LEMMA RequestKeepsSubscriptions ==
    ASSUME SubscriptionInv, NEW c \in Conns, Request(c)
    PROVE  SubscriptionInv'
<1> USE DEF GoTo, storeVars, sessionVars, connVars
<1>1. CASE Join(c)
  <2>1. /\ pc' = [pc EXCEPT ![c] = "ready"] /\ pc'[c] = "ready" /\ pc[c] = "out"
        /\ req' = req /\ subscriptions' = subscriptions /\ participants' = participants \cup {c}
    BY <1>1 DEF Join, SubscriptionInv
  <2>2. req' = [req EXCEPT ![c] = req'[c]] /\ req'[c] \in Requests
    BY <2>1 DEF SubscriptionInv
  <2>3. ~ PastUnsubscribe(c)'
    BY <2>1 DEF PastUnsubscribe
  <2>4. subscriptions' \in [TypeIDs -> SUBSET Conns]
    BY <2>1 DEF SubscriptionInv
  <2>. QED  BY <2>1, <2>2, <2>3, <2>4, StepOfOne DEF Places
<1>2. CASE EntityAdd(c) \/ (\E n \in Names : AddType(c, n))
  <2>1. UNCHANGED <<pc, req, participants, subscriptions>>
    BY <1>2 DEF EntityAdd, AddType
  <2>. QED  BY <2>1 DEF SubscriptionInv, PastUnsubscribe
<1>3. CASE Leave(c)
  <2>1. /\ pc[c] = "ready" /\ pc' = [pc EXCEPT ![c] = "unsubscribeAll"]
        /\ req' = [req EXCEPT ![c] = [NoRequest EXCEPT !.op = "leave"]]
        /\ UNCHANGED <<participants, subscriptions>>
    BY <1>3 DEF Leave
  <2>2. ~ PastUnsubscribe(c)'
    BY <2>1 DEF PastUnsubscribe, SubscriptionInv
  <2>3. [NoRequest EXCEPT !.op = "leave"] \in Requests /\ [NoRequest EXCEPT !.op = "leave"].op = "leave"
    BY RequestTypes
  <2>4. "unsubscribeAll" \in Places \ {"out", "gone"}
    BY DEF Places
  <2>. QED  BY <2>1, <2>2, <2>3, <2>4, QuietStep
<1>4. ASSUME NEW t \in TypeIDs, NEW e \in EntityIDs, NEW d \in Data \cup {None},
             NEW op \in {"add", "delete", "update"}, ComponentRequest(c, op, t, e, d)
      PROVE  SubscriptionInv'
  <2>1. /\ pc[c] = "ready" /\ pc' = [pc EXCEPT ![c] = "write"]
        /\ req' = [req EXCEPT ![c] = [op |-> op, type |-> t, entity |-> e, data |-> d]]
        /\ UNCHANGED <<participants, subscriptions>>
    BY <1>4 DEF ComponentRequest
  <2>2. ~ PastUnsubscribe(c)'
    BY <2>1 DEF PastUnsubscribe, SubscriptionInv
  <2>3. [op |-> op, type |-> t, entity |-> e, data |-> d] \in Requests
    BY RequestTypes
  <2>4. "write" \in Places \ {"out", "gone"} /\ "write" \notin {"unsubscribeAll", "leaveEntities"}
    BY DEF Places
  <2>. QED  BY <2>1, <2>2, <2>3, <2>4, QuietStep
<1>5. ASSUME NEW t \in TypeIDs, NEW op \in {"subscribe", "unsubscribe"}, SubscriptionRequest(c, op, t)
      PROVE  SubscriptionInv'
  <2>1. /\ pc[c] = "ready" /\ pc' = [pc EXCEPT ![c] = op]
        /\ req' = [req EXCEPT ![c] = [NoRequest EXCEPT !.op = op, !.type = t]]
        /\ UNCHANGED <<participants, subscriptions>>
    BY <1>5 DEF SubscriptionRequest
  <2>2. ~ PastUnsubscribe(c)'
    BY <2>1 DEF PastUnsubscribe, SubscriptionInv
  <2>3. [NoRequest EXCEPT !.op = op, !.type = t] \in Requests
    BY RequestTypes
  <2>4. op \in Places \ {"out", "gone"} /\ op \notin {"unsubscribeAll", "leaveEntities"}
    BY DEF Places
  <2>. QED  BY <2>1, <2>2, <2>3, <2>4, QuietStep
<1>6. ASSUME NEW e \in EntityIDs, EntityDelete(c, e)
      PROVE  SubscriptionInv'
  <2>1. /\ pc[c] = "ready" /\ pc' = [pc EXCEPT ![c] = "deleteByEntityID"]
        /\ req' = [req EXCEPT ![c] = [NoRequest EXCEPT !.op = "entityDelete", !.entity = e]]
        /\ UNCHANGED <<participants, subscriptions>>
    BY <1>6 DEF EntityDelete
  <2>2. ~ PastUnsubscribe(c)'
    <3>1. pc'[c] = "deleteByEntityID" /\ req'[c].op = "entityDelete"
      BY <2>1, RequestTypes DEF SubscriptionInv
    <3>. QED  BY <3>1 DEF PastUnsubscribe
  <2>3. [NoRequest EXCEPT !.op = "entityDelete", !.entity = e] \in Requests
    BY RequestTypes
  <2>4. "deleteByEntityID" \in Places \ {"out", "gone"} /\ "deleteByEntityID" \notin {"unsubscribeAll", "leaveEntities"}
    BY DEF Places
  <2>. QED  BY <2>1, <2>2, <2>3, <2>4, QuietStep
<1>. QED  BY <1>1, <1>2, <1>3, <1>4, <1>5, <1>6 DEF Request

\* The end of a request, which leaves participants and subscriptions alone.
LEMMA FinishKeepsSubscriptions ==
    ASSUME SubscriptionInv, NEW c \in Conns, pc[c] \notin {"out", "gone"}, Finish(c),
           UNCHANGED <<participants, subscriptions>>
    PROVE  SubscriptionInv'
<1>1. pc' = [pc EXCEPT ![c] = "ready"] /\ req' = [req EXCEPT ![c] = NoRequest]
  BY DEF Finish, GoTo
<1>2. ~ PastUnsubscribe(c)'
  BY <1>1 DEF PastUnsubscribe, SubscriptionInv
<1>3. NoRequest \in Requests
  BY RequestTypes
<1>4. "ready" \in Places \ {"out", "gone"} /\ "ready" \notin {"unsubscribeAll", "leaveEntities"}
  BY DEF Places
<1>. QED  BY <1>1, <1>2, <1>3, <1>4, QuietStep

\* A step to the next place of the same request.
LEMMA MoveKeepsSubscriptions ==
    ASSUME SubscriptionInv, NEW c \in Conns, pc[c] \notin {"out", "gone"},
           NEW place \in Places \ {"out", "gone"}, GoTo(c, place),
           UNCHANGED <<req, participants, subscriptions>>,
           place \in {"unsubscribeAll", "leaveEntities"} => req[c].op = "leave",
           PastUnsubscribe(c)' => PastUnsubscribe(c)
    PROVE  SubscriptionInv'
<1>1. req' = [req EXCEPT ![c] = req[c]] /\ req[c] \in Requests
  BY DEF SubscriptionInv
<1>2. pc' = [pc EXCEPT ![c] = place]
  BY DEF GoTo
<1>. QED  BY <1>1, <1>2, QuietStep

\* The steps of a request.
LEMMA HandleKeepsSubscriptions ==
    ASSUME SubscriptionInv, NEW c \in Conns, Handle(c)
    PROVE  SubscriptionInv'
<1> USE DEF storeVars, sessionVars, connVars
<1>1. CASE WriteComponent(c) \/ Notify(c)
  <2>1. pc[c] \in {"write", "notify"} /\ UNCHANGED <<participants, subscriptions>>
    BY <1>1 DEF WriteComponent, Notify
  <2>2. Finish(c) \/ (\E place \in {"notify", "deliver"} : GoTo(c, place) /\ UNCHANGED req)
    BY <1>1 DEF WriteComponent, Notify
  <2>3. CASE Finish(c)
    BY <2>1, <2>3, FinishKeepsSubscriptions
  <2>4. ASSUME NEW place \in {"notify", "deliver"}, GoTo(c, place), UNCHANGED req
        PROVE  SubscriptionInv'
    <3>1. place \in Places \ {"out", "gone"} /\ place \notin {"unsubscribeAll", "leaveEntities"}
      BY DEF Places
    <3>2. ~ PastUnsubscribe(c)'
      BY <2>1, <2>4 DEF GoTo, PastUnsubscribe, SubscriptionInv
    <3>. QED  BY <2>1, <2>4, <3>1, <3>2, MoveKeepsSubscriptions
  <2>. QED  BY <2>2, <2>3, <2>4
<1>2. CASE \E d \in Conns : Deliver(c, d)
  <2>1. UNCHANGED <<pc, req, participants, subscriptions>>
    BY <1>2 DEF Deliver
  <2>. QED  BY <2>1 DEF SubscriptionInv, PastUnsubscribe
<1>3. CASE EndNotify(c)
  <2>1. pc[c] = "deliver" /\ Finish(c) /\ UNCHANGED <<participants, subscriptions>>
    BY <1>3 DEF EndNotify
  <2>. QED  BY <2>1, FinishKeepsSubscriptions
<1>4. CASE Subscribe(c) \/ Unsubscribe(c)
  <2>1. /\ pc[c] \in {"subscribe", "unsubscribe"} /\ participants' = participants
        /\ pc' = [pc EXCEPT ![c] = "ready"] /\ req' = [req EXCEPT ![c] = NoRequest]
    BY <1>4 DEF Subscribe, Unsubscribe, Finish, GoTo
  <2>2. pc'[c] = "ready" /\ req'[c] = NoRequest /\ participants = participants \cup {c}
    BY <2>1 DEF SubscriptionInv
  <2>3. /\ subscriptions' \in [TypeIDs -> SUBSET Conns]
        /\ \A t \in TypeIDs : subscriptions'[t] \subseteq subscriptions[t] \cup {c}
    BY <1>4 DEF Subscribe, Unsubscribe, SubscriptionInv
  <2>4. ~ PastUnsubscribe(c)'
    BY <2>2 DEF PastUnsubscribe
  <2>5. "ready" \in Places /\ NoRequest \in Requests
    BY RequestTypes DEF Places
  <2>. QED  BY <2>1, <2>2, <2>3, <2>4, <2>5, StepOfOne
<1>5. CASE DeleteByEntityID(c)
  <2>1. /\ pc[c] = "deleteByEntityID" /\ GoTo(c, "removeEntity")
        /\ UNCHANGED <<req, participants, subscriptions>>
    BY <1>5 DEF DeleteByEntityID
  <2>2. PastUnsubscribe(c)' => PastUnsubscribe(c)
    BY <2>1 DEF GoTo, PastUnsubscribe, SubscriptionInv
  <2>3. "removeEntity" \in Places \ {"out", "gone"} /\ "removeEntity" \notin {"unsubscribeAll", "leaveEntities"}
    BY DEF Places
  <2>. QED  BY <2>1, <2>2, <2>3, MoveKeepsSubscriptions
<1>6. CASE RemoveEntity(c)
  <2>1. /\ pc[c] = "removeEntity" /\ UNCHANGED <<participants, subscriptions>>
        /\ Finish(c) \/ (req[c].op = "leave" /\ GoTo(c, "leaveEntities") /\ UNCHANGED req)
    BY <1>6 DEF RemoveEntity
  <2>2. CASE Finish(c)
    BY <2>1, <2>2, FinishKeepsSubscriptions
  <2>3. CASE req[c].op = "leave" /\ GoTo(c, "leaveEntities") /\ UNCHANGED req
    <3>1. PastUnsubscribe(c)
      BY <2>1, <2>3 DEF PastUnsubscribe
    <3>2. "leaveEntities" \in Places \ {"out", "gone"}
      BY DEF Places
    <3>. QED  BY <2>1, <2>3, <3>1, <3>2, MoveKeepsSubscriptions
  <2>. QED  BY <2>1, <2>2, <2>3
<1>7. CASE UnsubscribeByParticipant(c)
  <2>1. /\ pc[c] = "unsubscribeAll" /\ pc' = [pc EXCEPT ![c] = "leaveEntities"]
        /\ UNCHANGED <<req, participants>>
        /\ subscriptions' = [t \in TypeIDs |-> subscriptions[t] \ {c}]
    BY <1>7 DEF UnsubscribeByParticipant, GoTo
  <2>2. /\ pc'[c] = "leaveEntities" /\ req' = [req EXCEPT ![c] = req'[c]] /\ req'[c] \in Requests
        /\ req'[c].op = "leave" /\ participants = participants \cup {c}
    BY <2>1 DEF SubscriptionInv
  <2>3. /\ subscriptions' \in [TypeIDs -> SUBSET Conns]
        /\ \A t \in TypeIDs : subscriptions'[t] \subseteq subscriptions[t] \cup {c}
        /\ \A t \in TypeIDs : c \notin subscriptions'[t]
    BY <2>1 DEF SubscriptionInv
  <2>4. "leaveEntities" \in Places
    BY DEF Places
  <2>. QED  BY <2>1, <2>2, <2>3, <2>4, StepOfOne
<1>8. ASSUME NEW e \in EntityIDs, LeaveEntity(c, e)
      PROVE  SubscriptionInv'
  <2>1. /\ pc[c] = "leaveEntities" /\ pc' = [pc EXCEPT ![c] = "deleteByEntityID"]
        /\ req' = [req EXCEPT ![c].entity = e] /\ UNCHANGED <<participants, subscriptions>>
    BY <1>8 DEF LeaveEntity, GoTo
  <2>2. PastUnsubscribe(c)
    BY <2>1 DEF PastUnsubscribe
  <2>3. req[c] \in Requests
    BY DEF SubscriptionInv
  <2>4. [req[c] EXCEPT !.entity = e] \in Requests
    BY <2>3, RequestTypes
  <2>5. req' = [req EXCEPT ![c] = [req[c] EXCEPT !.entity = e]]
    BY <2>1
  <2>6. "deleteByEntityID" \in Places \ {"out", "gone"} /\ "deleteByEntityID" \notin {"unsubscribeAll", "leaveEntities"}
    BY DEF Places
  <2>. QED  BY <2>1, <2>2, <2>4, <2>5, <2>6, QuietStep
<1>9. CASE RemoveParticipant(c)
  <2>1. /\ pc[c] = "leaveEntities" /\ pc' = [pc EXCEPT ![c] = "gone"]
        /\ req' = [req EXCEPT ![c] = NoRequest]
        /\ participants' = participants \ {c} /\ subscriptions' = subscriptions
    BY <1>9 DEF RemoveParticipant, GoTo
  <2>2. pc'[c] = "gone" /\ req'[c] = NoRequest
    BY <2>1 DEF SubscriptionInv
  <2>3. /\ subscriptions' \in [TypeIDs -> SUBSET Conns]
        /\ \A t \in TypeIDs : c \notin subscriptions'[t]
    BY <2>1 DEF SubscriptionInv, PastUnsubscribe
  <2>4. "gone" \in Places /\ NoRequest \in Requests
    BY RequestTypes DEF Places
  <2>. QED  BY <2>1, <2>2, <2>3, <2>4, StepOfOne
<1>. QED  BY <1>1, <1>2, <1>3, <1>4, <1>5, <1>6, <1>7, <1>8, <1>9 DEF Handle

LEMMA SubscriptionInduction == Spec => []SubscriptionInv
<1>1. Init => SubscriptionInv
  <2>1. NoRequest \in Requests /\ "out" \in Places
    BY RequestTypes DEF Places
  <2>. QED  BY <2>1 DEF Init, SubscriptionInv
<1>2. SubscriptionInv /\ [Next]_vars => SubscriptionInv'
  <2>1. SubscriptionInv /\ UNCHANGED <<storeVars, sessionVars, connVars>> => SubscriptionInv'
    BY DEF storeVars, sessionVars, connVars, SubscriptionInv, PastUnsubscribe
  <2>. QED  BY <2>1, StepOfHandler, RequestKeepsSubscriptions, HandleKeepsSubscriptions
<1>. QED  BY <1>1, <1>2, PTL DEF Spec

LEMMA SubscribersTakePart == SubscriptionInv => NoStaleSubscription
BY DEF SubscriptionInv, PastUnsubscribe, NoStaleSubscription

\* Whoever is subscribed to a type is in the session: leaveSession drops the
\* subscriptions of a participant before it removes the participant, and
\* nothing subscribes it again in between.
THEOREM SubscriptionsEndWithParticipants == Spec => []NoStaleSubscription
BY SubscriptionInduction, SubscribersTakePart, PTL

-----------------------------------------------------------------------------
(* What the steps do to the store and to what is heard of it.              *)

Contents == [TypeIDs -> [EntityIDs -> Data \cup {None}]]

StoreInv ==
    /\ components \in Contents
    /\ heard \in [Conns -> Contents]
    /\ todo \in [Conns -> SUBSET Conns]

\* A handler has changed component (t, e) and its notification is under way.
Busy(w, t, e) ==
    pc[w] \in {"notify", "deliver"} /\ req[w].type = t /\ req[w].entity = e

\* A client that heard nothing of a component or its current content, or that
\* another client's handler is still to tell.
UpToDate(c, t, e) ==
    \/ heard[c][t][e] \in {None, components[t][e]}
    \/ \E w \in Conns \ {c} : Busy(w, t, e) /\ (pc[w] = "notify" \/ c \in todo[w])

\* While the writes of a component do not overlap, every subscriber is up to
\* date, and a handler whose notification is under way tells what the store
\* holds.
CurrentInv ==
    \A t \in TypeIDs, e \in EntityIDs : <<t, e>> \notin contested /\ components[t][e] # None =>
        /\ \A w \in Conns : Busy(w, t, e) => components[t][e] = NewContent(req[w])
        /\ \A c \in subscriptions[t] : UpToDate(c, t, e)

\* An entity whose components were deleted has none, but for the late ones.
OrphanInv ==
    \A t \in TypeIDs, e \in EntityIDs : components[t][e] # None => e \in late \/ ~ Cleared(e)


LEMMA ContentType ==
    ASSUME NEW r \in Requests
    PROVE  NewContent(r) \in Data \cup {None}
<1>1. r.data \in Data \cup {None}
  BY DEF Requests
<1>. QED  BY <1>1 DEF NewContent

\* g is the table f with entry (t0, e0), if it has one, replaced by v.
Replaced(g, f, t0, e0, v) ==
    /\ g \in Contents
    /\ \A t \in TypeIDs, e \in EntityIDs : g[t][e] = IF t = t0 /\ e = e0 THEN v ELSE f[t][e]

LEMMA ReplaceAt ==
    ASSUME NEW f \in Contents, NEW t0, NEW e0, NEW v \in Data \cup {None}
    PROVE  Replaced([f EXCEPT ![t0][e0] = v], f, t0, e0, v)
<1> DEFINE g == [f EXCEPT ![t0][e0] = v]
<1> USE DEF Contents, Replaced
<1>1. CASE t0 \in TypeIDs
  <2>1. [f[t0] EXCEPT ![e0] = v] \in [EntityIDs -> Data \cup {None}]
    BY <1>1
  <2>2. g = [f EXCEPT ![t0] = [f[t0] EXCEPT ![e0] = v]]
    OBVIOUS
  <2>. QED  BY <1>1, <2>1, <2>2
<1>2. CASE t0 \notin TypeIDs
  BY <1>2
<1>. QED  BY <1>1, <1>2

\* A message tells one client of one component.
LEMMA HearsEffect ==
    ASSUME StoreInv, NEW d \in Conns, NEW r \in Requests
    PROVE  /\ Hears(d, r) \in [Conns -> Contents]
           /\ \A c \in Conns, t \in TypeIDs, e \in EntityIDs :
                 Hears(d, r)[c][t][e] =
                    IF c = d /\ d \in subscriptions[r.type] /\ t = r.type /\ e = r.entity
                    THEN NewContent(r) ELSE heard[c][t][e]
<1>1. NewContent(r) \in Data \cup {None}
  BY ContentType
<1>2. heard \in [Conns -> Contents]
  BY DEF StoreInv
<1>3. CASE d \in subscriptions[r.type]
  <2>1. Hears(d, r) = [heard EXCEPT ![d][r.type][r.entity] = NewContent(r)]
    BY <1>3 DEF Hears
  <2>2. PICK g : g = [heard[d] EXCEPT ![r.type][r.entity] = NewContent(r)]
    OBVIOUS
  <2>3. Hears(d, r) = [heard EXCEPT ![d] = g]
    BY <2>1, <2>2
  <2>4. /\ g \in Contents
        /\ \A t \in TypeIDs, e \in EntityIDs :
              g[t][e] = IF t = r.type /\ e = r.entity THEN NewContent(r) ELSE heard[d][t][e]
    <3>1. heard[d] \in Contents
      BY <1>2
    <3>2. Replaced(g, heard[d], r.type, r.entity, NewContent(r))
      BY <1>1, <2>2, <3>1, ReplaceAt, Zenon
    <3>. QED  BY <3>2 DEF Replaced
  <2>5. Hears(d, r) \in [Conns -> Contents]
    BY <1>2, <2>3, <2>4
  <2>6. \A c \in Conns : Hears(d, r)[c] = IF c = d THEN g ELSE heard[c]
    BY <1>2, <2>3
  <2>. QED  BY <1>3, <2>4, <2>5, <2>6
<1>4. CASE d \notin subscriptions[r.type]
  BY <1>2, <1>4 DEF Hears, Contents
<1>. QED  BY <1>3, <1>4

\* A step of the handler of c leaves the other handlers where they are.
LEMMA OthersStay ==
    ASSUME SubscriptionInv, StoreInv, NEW c \in Conns, Request(c) \/ Handle(c), NEW d \in Conns \ {c}
    PROVE  pc'[d] = pc[d] /\ req'[d] = req[d] /\ todo'[d] = todo[d]
<1>1. pc \in [Conns -> Places] /\ req \in [Conns -> Requests] /\ todo \in [Conns -> SUBSET Conns]
  BY DEF SubscriptionInv, StoreInv
<1> USE <1>1 DEF GoTo, Finish, connVars
<1>2. CASE Request(c)
  <2>1. todo' = todo /\ (UNCHANGED pc \/ \E place : pc' = [pc EXCEPT ![c] = place])
                     /\ (UNCHANGED req \/ \E r : req' = [req EXCEPT ![c] = r])
    BY ONLY <1>2 DEF GoTo, connVars, Request, Join, EntityAdd, Leave, AddType, ComponentRequest,
                     SubscriptionRequest, EntityDelete
  <2>. QED  BY <2>1
<1>3. CASE WriteComponent(c) \/ Notify(c)
  BY <1>3 DEF WriteComponent, Notify
<1>4. CASE (\E e \in Conns : Deliver(c, e)) \/ EndNotify(c)
  BY <1>4 DEF Deliver, EndNotify
<1>5. CASE Subscribe(c) \/ Unsubscribe(c) \/ DeleteByEntityID(c) \/ UnsubscribeByParticipant(c)
  BY <1>5 DEF Subscribe, Unsubscribe, DeleteByEntityID, UnsubscribeByParticipant
<1>6. CASE RemoveEntity(c) \/ RemoveParticipant(c)
  BY <1>6 DEF RemoveEntity, RemoveParticipant
<1>7. CASE \E e \in EntityIDs : LeaveEntity(c, e)
  BY <1>7 DEF LeaveEntity
<1>. QED  BY <1>2, <1>3, <1>4, <1>5, <1>6, <1>7 DEF Handle

\* What a write to the store changes.
LEMMA WriteEffect ==
    ASSUME SubscriptionInv, StoreInv, NEW c \in Conns, WriteComponent(c)
    PROVE  /\ components' \in Contents /\ heard' \in [Conns -> Contents]
           /\ UNCHANGED <<subscriptions, entities, todo>>
           /\ pc[c] = "write" /\ contested \subseteq contested' /\ late \subseteq late'
           /\ \/ /\ UNCHANGED <<components, heard>> /\ pc'[c] = "ready"
              \/ /\ pc'[c] = "notify" /\ req' = req
                 /\ OverlapsWrite(c, req[c]) => <<req[c].type, req[c].entity>> \in contested'
                 /\ \/ /\ UNCHANGED <<components, heard>>
                       /\ components[req[c].type][req[c].entity] = None
                    \/ /\ heard' = Hears(c, req[c])
                       /\ \A t \in TypeIDs, e \in EntityIDs :
                             components'[t][e] = IF t = req[c].type /\ e = req[c].entity
                                                 THEN NewContent(req[c]) ELSE components[t][e]
<1>1. PICK r \in Requests : r = req[c]
  BY DEF SubscriptionInv
<1>2. /\ components \in [TypeIDs -> [EntityIDs -> Data \cup {None}]] /\ pc \in [Conns -> Places]
      /\ components \in Contents /\ heard \in [Conns -> Contents]
  BY DEF StoreInv, Contents, SubscriptionInv
<1>3. /\ pc[c] = "write"
      /\ UNCHANGED <<subscriptions, entities, todo>>
      /\ Accepted(r) => /\ components' = [components EXCEPT ![r.type][r.entity] = NewContent(r)]
                        /\ heard' = Hears(c, r)
      /\ ~ Accepted(r) => UNCHANGED <<components, heard>>
      /\ (Accepted(r) \/ r.op = "update") =>
            /\ GoTo(c, "notify")
            /\ contested' = IF OverlapsWrite(c, r)
                            THEN contested \cup {<<r.type, r.entity>>} ELSE contested
            /\ UNCHANGED req
      /\ ~ (Accepted(r) \/ r.op = "update") => Finish(c) /\ UNCHANGED contested
      /\ late \subseteq late'
  BY <1>1 DEF WriteComponent, sessionVars
<1>4. CASE Accepted(r)
  <2>1. NewContent(r) \in Data \cup {None} /\ Hears(c, r) \in [Conns -> Contents]
    BY ContentType, HearsEffect
  <2>2. /\ components' \in Contents
        /\ \A t \in TypeIDs, e \in EntityIDs :
              components'[t][e] = IF t = r.type /\ e = r.entity
                                  THEN NewContent(r) ELSE components[t][e]
    <3>1. components' = [components EXCEPT ![r.type][r.entity] = NewContent(r)]
      BY <1>3, <1>4
    <3>2. Replaced(components', components, r.type, r.entity, NewContent(r))
      BY ONLY <1>2, <2>1, <3>1, ReplaceAt, Zenon
    <3>. QED  BY <3>2 DEF Replaced
  <2>3. pc'[c] = "notify"
    BY <1>2, <1>3, <1>4 DEF GoTo
  <2>. QED  BY <1>1, <1>3, <1>4, <2>1, <2>2, <2>3
<1>5. CASE ~ Accepted(r) /\ r.op = "update"
  <2>1. components[r.type][r.entity] = None
    BY <1>5 DEF Accepted
  <2>2. pc'[c] = "notify"
    BY <1>2, <1>3, <1>5 DEF GoTo
  <2>. QED  BY <1>1, <1>2, <1>3, <1>5, <2>1, <2>2
<1>6. CASE ~ Accepted(r) /\ r.op # "update"
  <2>1. pc'[c] = "ready"
    BY <1>2, <1>3, <1>6 DEF Finish, GoTo
  <2>. QED  BY <1>2, <1>3, <1>6, <2>1
<1>. QED  BY <1>4, <1>5, <1>6

\* The steps that neither write a component nor notify.
Quiet(c) ==
    \/ Request(c) \/ Subscribe(c) \/ Unsubscribe(c) \/ DeleteByEntityID(c) \/ RemoveEntity(c)
    \/ UnsubscribeByParticipant(c) \/ (\E e \in EntityIDs : LeaveEntity(c, e))
    \/ RemoveParticipant(c)

LEMMA NothingType == Nothing \in Contents /\ \A t \in TypeIDs, e \in EntityIDs : Nothing[t][e] = None
BY DEF Nothing, Contents

\* A request changes nothing but the table of types and the entities.
LEMMA RequestEffect ==
    ASSUME SubscriptionInv, NEW c \in Conns, Request(c)
    PROVE  /\ UNCHANGED <<components, heard, todo, subscriptions, contested, late>>
           /\ pc[c] \in {"out", "ready"} /\ entities \subseteq entities'
           /\ pc'[c] \notin {"notify", "deliver", "removeEntity"}
<1>1. /\ UNCHANGED <<components, heard, todo, subscriptions, contested, late>>
      /\ pc[c] \in {"out", "ready"} /\ entities \subseteq entities'
  BY DEF Request, Join, EntityAdd, Leave, AddType, ComponentRequest, SubscriptionRequest,
         EntityDelete, storeVars, sessionVars, connVars
<1>2. pc' = pc \/ \E place \in {"ready", "unsubscribeAll", "write", "subscribe", "unsubscribe",
                                "deleteByEntityID"} : pc' = [pc EXCEPT ![c] = place]
  BY DEF Request, Join, EntityAdd, Leave, AddType, ComponentRequest, SubscriptionRequest,
         EntityDelete, connVars, GoTo
<1>3. pc \in [Conns -> Places]
  BY DEF SubscriptionInv
<1>. QED  BY <1>1, <1>2, <1>3

\* Nothing new is heard and no content is new in a quiet step.
LEMMA QuietEffect ==
    ASSUME SubscriptionInv, StoreInv, NEW c \in Conns, Quiet(c)
    PROVE  /\ components' \in Contents /\ heard' \in [Conns -> Contents] /\ todo' = todo
           /\ UNCHANGED <<contested, late>>
           /\ {pc[c], pc'[c]} \cap {"notify", "deliver"} = {}
           /\ \A t \in TypeIDs, e \in EntityIDs : components'[t][e] \in {None, components[t][e]}
           /\ \A t \in TypeIDs, e \in EntityIDs : \A d \in subscriptions'[t] :
                 \/ heard'[d][t][e] = None
                 \/ d \in subscriptions[t] /\ heard'[d][t][e] = heard[d][t][e]
<1>1. /\ components \in Contents /\ heard \in [Conns -> Contents] /\ pc \in [Conns -> Places]
      /\ subscriptions \in [TypeIDs -> SUBSET Conns]
  BY DEF StoreInv, SubscriptionInv
<1>2. CASE Request(c)
  BY <1>1, <1>2, RequestEffect
<1>3. CASE Subscribe(c) \/ Unsubscribe(c)
  <2>1. PICK t0 : t0 = req[c].type
    OBVIOUS
  <2>2. /\ UNCHANGED <<components, todo, contested, late>>
        /\ pc[c] \in {"subscribe", "unsubscribe"} /\ pc'[c] = "ready"
    BY <1>1, <1>3 DEF Subscribe, Unsubscribe, Finish, GoTo
  <2>3. \/ UNCHANGED <<subscriptions, heard>>
        \/ /\ heard' = [heard EXCEPT ![c][t0] = Nothing[t0]]
           /\ \/ subscriptions' = [subscriptions EXCEPT ![t0] = @ \cup {c}]
              \/ subscriptions' = [subscriptions EXCEPT ![t0] = @ \ {c}]
    BY <1>3, <2>1 DEF Subscribe, Unsubscribe
  <2>4. CASE UNCHANGED <<subscriptions, heard>>
    BY <1>1, <2>2, <2>4
  <2>5. CASE heard' = [heard EXCEPT ![c][t0] = Nothing[t0]] /\ t0 \in TypeIDs
    <3>1. Nothing[t0] \in [EntityIDs -> Data \cup {None}]
      BY <2>5, NothingType DEF Contents
    <3>2. PICK g : g = [heard[c] EXCEPT ![t0] = Nothing[t0]]
      OBVIOUS
    <3>3. /\ g \in Contents
          /\ \A t \in TypeIDs, e \in EntityIDs : g[t][e] = IF t = t0 THEN None ELSE heard[c][t][e]
      <4>1. heard[c] \in Contents
        BY <1>1
      <4>. QED  BY <2>5, <3>1, <3>2, <4>1, NothingType DEF Contents
    <3>4. heard' = [heard EXCEPT ![c] = g]
      BY <2>5, <3>2
    <3>5. /\ heard' \in [Conns -> Contents] /\ heard'[c] = g
          /\ \A d \in Conns \ {c} : heard'[d] = heard[d]
      BY <1>1, <3>3, <3>4
    <3>6. ASSUME NEW t \in TypeIDs, NEW e \in EntityIDs, NEW d \in subscriptions'[t]
          PROVE  \/ heard'[d][t][e] = None
                 \/ d \in subscriptions[t] /\ heard'[d][t][e] = heard[d][t][e]
      <4>1. d \in Conns /\ (d \in subscriptions[t] \/ (d = c /\ t = t0))
        <5>1. \/ subscriptions' = subscriptions
              \/ subscriptions' = [subscriptions EXCEPT ![t0] = @ \cup {c}]
              \/ subscriptions' = [subscriptions EXCEPT ![t0] = @ \ {c}]
          BY <2>3
        <5>. QED  BY <1>1, <5>1
      <4>2. CASE d = c
        BY <3>3, <3>5, <4>1, <4>2
      <4>3. CASE d # c
        BY <3>5, <4>1, <4>3
      <4>. QED  BY <4>2, <4>3
    <3>. QED  BY <1>1, <2>2, <3>5, <3>6
  <2>6. CASE heard' = [heard EXCEPT ![c][t0] = Nothing[t0]] /\ t0 \notin TypeIDs
    <3>1. heard' = heard
      <4>1. heard[c] \in Contents
        BY <1>1
      <4>2. [heard[c] EXCEPT ![t0] = Nothing[t0]] = heard[c]
        BY <2>6, <4>1 DEF Contents
      <4>3. heard' = [heard EXCEPT ![c] = heard[c]]
        BY <2>6, <4>2
      <4>. QED  BY <1>1, <4>3
    <3>2. subscriptions' = subscriptions
      BY <1>1, <2>3, <2>6
    <3>. QED  BY <1>1, <2>2, <3>1, <3>2
  <2>. QED  BY <2>3, <2>4, <2>5, <2>6
<1>4. CASE DeleteByEntityID(c)
  <2>1. /\ UNCHANGED <<heard, todo, subscriptions, contested, late>>
        /\ pc[c] = "deleteByEntityID" /\ pc'[c] = "removeEntity"
        /\ components' = [t \in TypeIDs |-> [components[t] EXCEPT ![req[c].entity] = None]]
    BY <1>1, <1>4 DEF DeleteByEntityID, GoTo
  <2>2. \A t \in TypeIDs : components[t] \in [EntityIDs -> Data \cup {None}]
    BY <1>1 DEF Contents
  <2>3. components' \in Contents
    BY <2>1, <2>2 DEF Contents
  <2>4. \A t \in TypeIDs, e \in EntityIDs : components'[t][e] \in {None, components[t][e]}
    BY <2>1, <2>2
  <2>. QED  BY <1>1, <2>1, <2>3, <2>4
<1>5. CASE UnsubscribeByParticipant(c)
  <2>1. /\ UNCHANGED <<components, todo, contested, late>>
        /\ pc[c] = "unsubscribeAll" /\ pc'[c] = "leaveEntities"
        /\ subscriptions' = [t \in TypeIDs |-> subscriptions[t] \ {c}]
        /\ heard' = [heard EXCEPT ![c] = Nothing]
    BY <1>1, <1>5 DEF UnsubscribeByParticipant, GoTo
  <2>2. /\ heard' \in [Conns -> Contents] /\ \A d \in Conns \ {c} : heard'[d] = heard[d]
    BY <1>1, <2>1, NothingType
  <2>3. \A t \in TypeIDs : \A d \in subscriptions'[t] : d \in Conns \ {c} /\ d \in subscriptions[t]
    BY <1>1, <2>1
  <2>. QED  BY <1>1, <2>1, <2>2, <2>3
<1>6. CASE RemoveEntity(c) \/ RemoveParticipant(c) \/ \E e \in EntityIDs : LeaveEntity(c, e)
  <2>1. UNCHANGED <<components, heard, todo, subscriptions, contested, late>>
    BY <1>6 DEF RemoveEntity, RemoveParticipant, LeaveEntity, storeVars
  <2>2. /\ pc[c] \in {"removeEntity", "leaveEntities"}
        /\ pc'[c] \in {"ready", "gone", "leaveEntities", "deleteByEntityID"}
    BY <1>1, <1>6 DEF RemoveEntity, RemoveParticipant, LeaveEntity, Finish, GoTo
  <2>. QED  BY <1>1, <2>1, <2>2
<1>. QED  BY <1>2, <1>3, <1>4, <1>5, <1>6 DEF Quiet

\* The store and what is heard of it keep their shape.
LEMMA StoreStep ==
    ASSUME SubscriptionInv, StoreInv, [Next]_vars
    PROVE  StoreInv'
<1>1. components \in Contents /\ heard \in [Conns -> Contents] /\ todo \in [Conns -> SUBSET Conns]
  BY DEF StoreInv
<1>2. CASE UNCHANGED <<storeVars, connVars, heard, contested, late>>
  BY <1>2 DEF StoreInv, storeVars, connVars
<1>3. ASSUME NEW c \in Conns, Quiet(c) PROVE StoreInv'
  BY <1>1, <1>3, QuietEffect DEF StoreInv
<1>4. ASSUME NEW c \in Conns, WriteComponent(c) PROVE StoreInv'
  <2>1. components' \in Contents /\ heard' \in [Conns -> Contents] /\ todo' = todo
    BY <1>4, WriteEffect
  <2>. QED  BY <1>1, <2>1 DEF StoreInv
<1>5. ASSUME NEW c \in Conns, Notify(c) \/ EndNotify(c) PROVE StoreInv'
  <2>1. /\ UNCHANGED <<components, heard>>
        /\ todo' = todo \/ todo' = [todo EXCEPT ![c] = Recipients(c)]
    BY <1>5 DEF Notify, EndNotify, storeVars
  <2>2. Recipients(c) \in SUBSET Conns
    BY DEF Recipients, SubscriptionInv
  <2>3. todo' \in [Conns -> SUBSET Conns]
    BY <1>1, <2>1, <2>2
  <2>. QED  BY <1>1, <2>1, <2>3 DEF StoreInv
<1>6. ASSUME NEW c \in Conns, NEW d \in Conns, Deliver(c, d) PROVE StoreInv'
  <2>1. /\ components' = components /\ heard' = Hears(d, req[c])
        /\ todo' = [todo EXCEPT ![c] = @ \ {d}]
    BY <1>6 DEF Deliver, storeVars
  <2>2. req[c] \in Requests
    BY DEF SubscriptionInv
  <2>3. heard' \in [Conns -> Contents]
    BY <2>1, <2>2, HearsEffect
  <2>4. todo' \in [Conns -> SUBSET Conns]
    BY <1>1, <2>1
  <2>. QED  BY <1>1, <2>1, <2>3, <2>4 DEF StoreInv
<1>. QED  BY <1>2, <1>3, <1>4, <1>5, <1>6, StepOfHandler DEF Handle, Quiet

-----------------------------------------------------------------------------
(* Subscribers are current.                                                *)

\* A quiet step leaves every notification under way as it is.
LEMMA QuietKeepsCurrent ==
    ASSUME SubscriptionInv, StoreInv, CurrentInv, NEW c \in Conns, Quiet(c)
    PROVE  CurrentInv'
<1> SUFFICES ASSUME NEW t \in TypeIDs, NEW e \in EntityIDs,
                    <<t, e>> \notin contested', components'[t][e] # None
             PROVE  /\ \A w \in Conns : Busy(w, t, e)' => components'[t][e] = NewContent(req'[w])
                    /\ \A x \in subscriptions'[t] : UpToDate(x, t, e)'
  BY DEF CurrentInv, UpToDate
<1>1. /\ contested' = contested
      /\ {pc[c], pc'[c]} \cap {"notify", "deliver"} = {}
      /\ components'[t][e] = components[t][e]
      /\ \A x \in subscriptions'[t] : \/ heard'[x][t][e] = None
                                      \/ x \in subscriptions[t] /\ heard'[x][t][e] = heard[x][t][e]
  BY QuietEffect
<1>2. \A d \in Conns \ {c} : pc'[d] = pc[d] /\ req'[d] = req[d] /\ todo'[d] = todo[d]
  BY OthersStay DEF Quiet, Handle
<1>3. /\ \A w \in Conns : Busy(w, t, e) => components[t][e] = NewContent(req[w])
      /\ \A x \in subscriptions[t] : UpToDate(x, t, e)
  BY <1>1 DEF CurrentInv, UpToDate
<1>4. ASSUME NEW w \in Conns, Busy(w, t, e)'
      PROVE  components'[t][e] = NewContent(req'[w])
  <2>1. w \in Conns \ {c}
    BY <1>1, <1>4 DEF Busy
  <2>2. Busy(w, t, e) /\ req'[w] = req[w]
    BY <1>2, <1>4, <2>1 DEF Busy
  <2>. QED  BY <1>1, <1>3, <2>2
<1>5. ASSUME NEW x \in subscriptions'[t]
      PROVE  UpToDate(x, t, e)'
  <2>1. CASE heard'[x][t][e] = None
    BY <2>1 DEF UpToDate
  <2>2. CASE x \in subscriptions[t] /\ heard'[x][t][e] = heard[x][t][e]
    <3>1. UpToDate(x, t, e)
      BY <1>3, <2>2
    <3>2. CASE heard[x][t][e] \in {None, components[t][e]}
      BY <1>1, <2>2, <3>2 DEF UpToDate
    <3>3. ASSUME NEW w \in Conns \ {x}, Busy(w, t, e), pc[w] = "notify" \/ x \in todo[w]
          PROVE  UpToDate(x, t, e)'
      <4>1. w \in Conns \ {c}
        BY <1>1, <3>3 DEF Busy
      <4>2. Busy(w, t, e)' /\ (pc'[w] = "notify" \/ x \in todo'[w])
        BY <1>2, <3>3, <4>1 DEF Busy
      <4>. QED  BY <3>3, <4>2 DEF UpToDate
    <3>. QED  BY <3>1, <3>2, <3>3 DEF UpToDate
  <2>. QED  BY <1>1, <2>1, <2>2
<1>. QED  BY <1>4, <1>5

\* A component that c's handler neither wrote nor writes, and of which nobody
\* hears in this step, is as well known as before.
LEMMA OthersKeepCurrent ==
    ASSUME CurrentInv, NEW c \in Conns, NEW t \in TypeIDs, NEW e \in EntityIDs,
           \A d \in Conns \ {c} : pc'[d] = pc[d] /\ req'[d] = req[d] /\ todo'[d] = todo[d],
           ~ Busy(c, t, e), ~ Busy(c, t, e)', <<t, e>> \notin contested,
           subscriptions' = subscriptions,
           components'[t][e] = components[t][e], components[t][e] # None,
           \A x \in subscriptions[t] : heard'[x][t][e] = heard[x][t][e]
    PROVE  /\ \A w \in Conns : Busy(w, t, e)' => components'[t][e] = NewContent(req'[w])
           /\ \A x \in subscriptions'[t] : UpToDate(x, t, e)'
<1>1. /\ \A w \in Conns : Busy(w, t, e) => components[t][e] = NewContent(req[w])
      /\ \A x \in subscriptions[t] : UpToDate(x, t, e)
  BY DEF CurrentInv
<1>2. ASSUME NEW w \in Conns, Busy(w, t, e)'
      PROVE  components'[t][e] = NewContent(req'[w])
  <2>1. Busy(w, t, e) /\ req'[w] = req[w]
    BY <1>2 DEF Busy
  <2>. QED  BY <1>1, <2>1
<1>3. ASSUME NEW x \in subscriptions[t]
      PROVE  UpToDate(x, t, e)'
  <2>1. UpToDate(x, t, e) /\ heard'[x][t][e] = heard[x][t][e]
    BY <1>1
  <2>2. CASE heard[x][t][e] \in {None, components[t][e]}
    BY <2>1, <2>2 DEF UpToDate
  <2>3. ASSUME NEW w \in Conns \ {x}, Busy(w, t, e), pc[w] = "notify" \/ x \in todo[w]
        PROVE  UpToDate(x, t, e)'
    <3>1. Busy(w, t, e)' /\ (pc'[w] = "notify" \/ x \in todo'[w])
      BY <2>3 DEF Busy
    <3>. QED  BY <2>3, <3>1 DEF UpToDate
  <2>. QED  BY <2>1, <2>2, <2>3 DEF UpToDate
<1>. QED  BY <1>2, <1>3

\* A write: unless it overlaps another one of the same component, its handler
\* is the only one that has to tell of it.
LEMMA WriteKeepsCurrent ==
    ASSUME SubscriptionInv, StoreInv, CurrentInv, NEW c \in Conns, WriteComponent(c)
    PROVE  CurrentInv'
<1> SUFFICES ASSUME NEW t \in TypeIDs, NEW e \in EntityIDs,
                    <<t, e>> \notin contested', components'[t][e] # None
             PROVE  /\ \A w \in Conns : Busy(w, t, e)' => components'[t][e] = NewContent(req'[w])
                    /\ \A x \in subscriptions'[t] : UpToDate(x, t, e)'
  BY DEF CurrentInv
<1>1. \A d \in Conns \ {c} : pc'[d] = pc[d] /\ req'[d] = req[d] /\ todo'[d] = todo[d]
  BY OthersStay DEF Handle
<1>2. /\ subscriptions' = subscriptions /\ pc[c] = "write" /\ <<t, e>> \notin contested
      /\ \A x \in subscriptions[t] : x \in Conns
  BY WriteEffect DEF SubscriptionInv
<1>3. ~ Busy(c, t, e)
  BY <1>2 DEF Busy
<1>4. PICK r \in Requests : r = req[c]
  BY DEF SubscriptionInv
<1>5. \A x \in subscriptions[t] : Hears(c, r)[x][t][e] =
          IF x = c /\ c \in subscriptions[r.type] /\ t = r.type /\ e = r.entity
          THEN NewContent(r) ELSE heard[x][t][e]
  BY <1>2, <1>4, HearsEffect
<1>6. CASE UNCHANGED <<components, heard>> /\ pc'[c] = "ready"
  <2>1. ~ Busy(c, t, e)'
    BY <1>6 DEF Busy
  <2>. QED  BY <1>1, <1>2, <1>3, <1>6, <2>1, OthersKeepCurrent
<1>7. CASE /\ pc'[c] = "notify" /\ req' = req
           /\ ~ (t = r.type /\ e = r.entity)
           /\ components'[t][e] = components[t][e]
           /\ heard' = heard \/ heard' = Hears(c, r)
  <2>1. ~ Busy(c, t, e)'
    BY <1>4, <1>7 DEF Busy
  <2>2. \A x \in subscriptions[t] : heard'[x][t][e] = heard[x][t][e]
    BY <1>5, <1>7
  <2>. QED  BY <1>1, <1>2, <1>3, <1>7, <2>1, <2>2, OthersKeepCurrent
<1>8. CASE /\ pc'[c] = "notify" /\ req' = req
           /\ t = r.type /\ e = r.entity
           /\ ~ OverlapsWrite(c, r)
           /\ components'[t][e] = NewContent(r)
           /\ heard' = Hears(c, r)
  <2>1. Busy(c, t, e)'
    BY <1>4, <1>8 DEF Busy
  <2>2. \A w \in Conns \ {c} : ~ Busy(w, t, e)'
    BY <1>1, <1>8 DEF OverlapsWrite, Busy
  <2>3. \A w \in Conns : Busy(w, t, e)' => components'[t][e] = NewContent(req'[w])
    BY <1>4, <1>8, <2>2
  <2>4. ASSUME NEW x \in subscriptions[t]
        PROVE  UpToDate(x, t, e)'
    <3>1. CASE x = c
      <4>1. heard'[x][t][e] = components'[t][e]
        BY <1>5, <1>8, <3>1
      <4>. QED  BY <4>1 DEF UpToDate
    <3>2. CASE x # c
      BY <1>8, <2>1, <3>2 DEF UpToDate
    <3>. QED  BY <3>1, <3>2
  <2>. QED  BY <1>2, <2>3, <2>4
<1>9. \/ UNCHANGED <<components, heard>> /\ pc'[c] = "ready"
      \/ /\ pc'[c] = "notify" /\ req' = req
         /\ OverlapsWrite(c, r) => <<r.type, r.entity>> \in contested'
         /\ \/ UNCHANGED <<components, heard>> /\ components[r.type][r.entity] = None
            \/ /\ heard' = Hears(c, r)
               /\ components'[t][e] = IF t = r.type /\ e = r.entity
                                      THEN NewContent(r) ELSE components[t][e]
  BY <1>4, WriteEffect
<1>. QED  BY <1>6, <1>7, <1>8, <1>9

\* The handler starts to notify: everyone subscribed, but itself, is to be told.
LEMMA NotifyKeepsCurrent ==
    ASSUME SubscriptionInv, StoreInv, CurrentInv, NEW c \in Conns, Notify(c)
    PROVE  CurrentInv'
<1> SUFFICES ASSUME NEW t \in TypeIDs, NEW e \in EntityIDs,
                    <<t, e>> \notin contested', components'[t][e] # None
             PROVE  /\ \A w \in Conns : Busy(w, t, e)' => components'[t][e] = NewContent(req'[w])
                    /\ \A x \in subscriptions'[t] : UpToDate(x, t, e)'
  BY DEF CurrentInv
<1>1. \A d \in Conns \ {c} : pc'[d] = pc[d] /\ req'[d] = req[d] /\ todo'[d] = todo[d]
  BY OthersStay DEF Handle
<1>2. /\ UNCHANGED <<components, subscriptions, heard, contested>> /\ pc[c] = "notify"
      /\ \/ subscriptions[req[c].type] = {} /\ pc'[c] = "ready"
         \/ pc'[c] = "deliver" /\ req' = req /\ todo'[c] = Recipients(c)
  BY DEF Notify, storeVars, Finish, GoTo, SubscriptionInv, StoreInv
<1>3. /\ \A w \in Conns : Busy(w, t, e) => components[t][e] = NewContent(req[w])
      /\ \A x \in subscriptions[t] : UpToDate(x, t, e)
  BY <1>2 DEF CurrentInv
<1>4. CASE ~ (req[c].type = t /\ req[c].entity = e)
  <2>1. ~ Busy(c, t, e) /\ ~ Busy(c, t, e)'
    BY <1>2, <1>4 DEF Busy
  <2>. QED  BY <1>1, <1>2, <2>1, OthersKeepCurrent
<1>5. CASE req[c].type = t /\ req[c].entity = e
  <2>1. ASSUME NEW w \in Conns, Busy(w, t, e)'
        PROVE  components'[t][e] = NewContent(req'[w])
    <3>1. Busy(w, t, e) /\ req'[w] = req[w]
      BY <1>1, <1>2, <1>5, <2>1 DEF Busy
    <3>. QED  BY <1>2, <1>3, <3>1
  <2>2. ASSUME NEW x \in subscriptions[t]
        PROVE  UpToDate(x, t, e)'
    <3>1. pc'[c] = "deliver" /\ req' = req /\ todo'[c] = Recipients(c)
      BY <1>2, <1>5
    <3>2. x \in participants
      BY SubscribersTakePart DEF NoStaleSubscription
    <3>3. x = c \/ x \in todo'[c]
      BY <1>5, <3>1, <3>2 DEF Recipients
    <3>4. UpToDate(x, t, e)
      BY <1>3
    <3>5. CASE heard[x][t][e] \in {None, components[t][e]}
      BY <1>2, <3>5 DEF UpToDate
    <3>6. ASSUME NEW w \in Conns \ {x}, Busy(w, t, e), pc[w] = "notify" \/ x \in todo[w]
          PROVE  UpToDate(x, t, e)'
      <4>1. Busy(w, t, e)' /\ (pc'[w] = "notify" \/ x \in todo'[w])
        BY <1>1, <3>1, <3>3, <3>6 DEF Busy
      <4>. QED  BY <3>6, <4>1 DEF UpToDate
    <3>. QED  BY <3>4, <3>5, <3>6 DEF UpToDate
  <2>. QED  BY <1>2, <2>1, <2>2
<1>. QED  BY <1>4, <1>5

\* A message tells the next client what the store holds.
LEMMA DeliverKeepsCurrent ==
    ASSUME SubscriptionInv, StoreInv, CurrentInv, NEW c \in Conns, NEW d \in Conns, Deliver(c, d)
    PROVE  CurrentInv'
<1> SUFFICES ASSUME NEW t \in TypeIDs, NEW e \in EntityIDs,
                    <<t, e>> \notin contested', components'[t][e] # None
             PROVE  /\ \A w \in Conns : Busy(w, t, e)' => components'[t][e] = NewContent(req'[w])
                    /\ \A x \in subscriptions'[t] : UpToDate(x, t, e)'
  BY DEF CurrentInv
<1>1. PICK r \in Requests : r = req[c]
  BY DEF SubscriptionInv
<1>2. /\ UNCHANGED <<components, subscriptions, contested, pc, req>> /\ pc[c] = "deliver"
      /\ heard' = Hears(d, r) /\ todo' = [todo EXCEPT ![c] = @ \ {d}]
  BY <1>1 DEF Deliver, storeVars
<1>3. /\ \A w \in Conns : Busy(w, t, e) => components[t][e] = NewContent(req[w])
      /\ \A x \in subscriptions[t] : UpToDate(x, t, e)
  BY <1>2 DEF CurrentInv
<1>4. \A w \in Conns : Busy(w, t, e)' = Busy(w, t, e)
  BY <1>2 DEF Busy
<1>5. ASSUME NEW x \in subscriptions[t]
      PROVE  UpToDate(x, t, e)'
  <2>1. x \in Conns
    BY DEF SubscriptionInv
  <2>2. heard'[x][t][e] = IF x = d /\ d \in subscriptions[r.type] /\ t = r.type /\ e = r.entity
                          THEN NewContent(r) ELSE heard[x][t][e]
    BY <1>2, <2>1, HearsEffect
  <2>3. CASE x = d /\ t = r.type /\ e = r.entity
    <3>1. Busy(c, t, e)
      BY <1>1, <1>2, <2>3 DEF Busy
    <3>2. heard'[x][t][e] = components[t][e]
      BY <1>1, <1>3, <2>2, <2>3, <3>1
    <3>. QED  BY <1>2, <3>2 DEF UpToDate
  <2>4. CASE ~ (x = d /\ t = r.type /\ e = r.entity)
    <3>1. heard'[x][t][e] = heard[x][t][e] /\ UpToDate(x, t, e)
      BY <1>3, <2>2, <2>4
    <3>2. CASE heard[x][t][e] \in {None, components[t][e]}
      BY <1>2, <3>1, <3>2 DEF UpToDate
    <3>3. ASSUME NEW w \in Conns \ {x}, Busy(w, t, e), pc[w] = "notify" \/ x \in todo[w]
          PROVE  UpToDate(x, t, e)'
      <4>1. pc'[w] = "notify" \/ x \in todo'[w]
        <5>1. x = d => w # c
          BY <1>1, <2>4, <3>3 DEF Busy
        <5>. QED  BY <1>2, <3>3, <5>1 DEF StoreInv
      <4>. QED  BY <1>4, <3>3, <4>1 DEF UpToDate
    <3>. QED  BY <3>1, <3>2, <3>3 DEF UpToDate
  <2>. QED  BY <2>3, <2>4
<1>6. \A w \in Conns : Busy(w, t, e)' => components'[t][e] = NewContent(req'[w])
  BY <1>2, <1>3, <1>4
<1>. QED  BY <1>2, <1>5, <1>6

\* The notification ends when everyone was told.
LEMMA EndNotifyKeepsCurrent ==
    ASSUME SubscriptionInv, StoreInv, CurrentInv, NEW c \in Conns, EndNotify(c)
    PROVE  CurrentInv'
<1> SUFFICES ASSUME NEW t \in TypeIDs, NEW e \in EntityIDs,
                    <<t, e>> \notin contested', components'[t][e] # None
             PROVE  /\ \A w \in Conns : Busy(w, t, e)' => components'[t][e] = NewContent(req'[w])
                    /\ \A x \in subscriptions'[t] : UpToDate(x, t, e)'
  BY DEF CurrentInv
<1>1. \A d \in Conns \ {c} : pc'[d] = pc[d] /\ req'[d] = req[d] /\ todo'[d] = todo[d]
  BY OthersStay DEF Handle
<1>2. /\ UNCHANGED <<components, subscriptions, heard, contested>>
      /\ pc[c] = "deliver" /\ todo[c] = {} /\ pc'[c] = "ready"
  BY DEF EndNotify, storeVars, Finish, GoTo, SubscriptionInv
<1>3. /\ \A w \in Conns : Busy(w, t, e) => components[t][e] = NewContent(req[w])
      /\ \A x \in subscriptions[t] : UpToDate(x, t, e)
  BY <1>2 DEF CurrentInv
<1>4. ASSUME NEW w \in Conns, Busy(w, t, e)'
      PROVE  components'[t][e] = NewContent(req'[w])
  <2>1. Busy(w, t, e) /\ req'[w] = req[w]
    BY <1>1, <1>2, <1>4 DEF Busy
  <2>. QED  BY <1>2, <1>3, <2>1
<1>5. ASSUME NEW x \in subscriptions[t]
      PROVE  UpToDate(x, t, e)'
  <2>1. UpToDate(x, t, e)
    BY <1>3
  <2>2. CASE heard[x][t][e] \in {None, components[t][e]}
    BY <1>2, <2>2 DEF UpToDate
  <2>3. ASSUME NEW w \in Conns \ {x}, Busy(w, t, e), pc[w] = "notify" \/ x \in todo[w]
        PROVE  UpToDate(x, t, e)'
    <3>1. w # c
      BY <1>2, <2>3
    <3>2. Busy(w, t, e)' /\ (pc'[w] = "notify" \/ x \in todo'[w])
      BY <1>1, <2>3, <3>1 DEF Busy
    <3>. QED  BY <2>3, <3>2 DEF UpToDate
  <2>. QED  BY <2>1, <2>2, <2>3 DEF UpToDate
<1>. QED  BY <1>2, <1>4, <1>5

\* A subscriber that heard of a component knows its current content, unless
\* two writes of it overlapped or one is being notified: whoever writes the
\* store goes on to Notify, which reaches every subscriber.
THEOREM SubscribersStayCurrent == Spec => []SubscribersAreCurrent
<1>1. Init => StoreInv /\ CurrentInv
  <2>1. Init => StoreInv
    BY NothingType DEF Init, StoreInv
  <2>2. Init => CurrentInv
    BY NothingType DEF Init, CurrentInv
  <2>. QED  BY <2>1, <2>2
<1>2. SubscriptionInv /\ StoreInv /\ [Next]_vars => StoreInv'
  BY StoreStep
<1>3. SubscriptionInv /\ StoreInv /\ CurrentInv /\ [Next]_vars => CurrentInv'
  <2>1. CurrentInv /\ UNCHANGED <<storeVars, connVars, heard, contested>> => CurrentInv'
    BY DEF CurrentInv, UpToDate, Busy, NewContent, storeVars, connVars
  <2>. QED  BY <2>1, StepOfHandler, QuietKeepsCurrent, WriteKeepsCurrent, NotifyKeepsCurrent,
               DeliverKeepsCurrent, EndNotifyKeepsCurrent DEF Handle, Quiet
<1>4. CurrentInv => SubscribersAreCurrent
  BY DEF CurrentInv, UpToDate, Busy, SubscribersAreCurrent, ComponentPending
<1>. QED  BY <1>1, <1>2, <1>3, <1>4, SubscriptionInduction, PTL DEF Spec

-----------------------------------------------------------------------------
(* Components of entities that are gone.                                   *)

\* An entity becomes cleared only by DeleteByEntityID.
LEMMA ClearedBefore ==
    ASSUME NEW c \in Conns,
           \A d \in Conns \ {c} : pc'[d] = pc[d] /\ req'[d] = req[d] /\ todo'[d] = todo[d],
           NEW e, e \in entities => e \in entities' \/ Cleared(e),
           pc'[c] # "removeEntity", Cleared(e)'
    PROVE  Cleared(e)
BY DEF Cleared

\* A step other than a write keeps the content of a component only if its
\* entity is not cleared by it.
LEMMA QuietClears ==
    ASSUME SubscriptionInv, StoreInv, NEW c \in Conns, Quiet(c),
           NEW t \in TypeIDs, NEW e \in EntityIDs, components'[t][e] # None
    PROVE  Cleared(e)' => Cleared(e)
<1>1. \A d \in Conns \ {c} : pc'[d] = pc[d] /\ req'[d] = req[d] /\ todo'[d] = todo[d]
  BY OthersStay DEF Quiet, Handle
<1>2. pc \in [Conns -> Places] /\ components \in Contents
  BY DEF SubscriptionInv, StoreInv
<1>3. CASE DeleteByEntityID(c)
  <2>1. /\ pc'[c] = "removeEntity" /\ UNCHANGED <<entities, req>>
        /\ components' = [u \in TypeIDs |-> [components[u] EXCEPT ![req[c].entity] = None]]
    BY <1>2, <1>3 DEF DeleteByEntityID, GoTo, sessionVars
  <2>2. components[t] \in [EntityIDs -> Data \cup {None}]
    BY <1>2 DEF Contents
  <2>3. e # req[c].entity
    BY <2>1, <2>2
  <2>. QED  BY <1>1, <2>1, <2>3 DEF Cleared
<1>4. CASE RemoveEntity(c)
  <2>1. pc[c] = "removeEntity" /\ entities' = entities \ {req[c].entity} /\ pc'[c] # "removeEntity"
    BY <1>2, <1>4 DEF RemoveEntity, Finish, GoTo
  <2>2. e \in entities => e \in entities' \/ Cleared(e)
    BY <2>1 DEF Cleared
  <2>. QED  BY <1>1, <2>1, <2>2, ClearedBefore
<1>5. CASE Request(c)
  BY <1>1, <1>5, RequestEffect, ClearedBefore
<1>6. CASE \/ Subscribe(c) \/ Unsubscribe(c) \/ UnsubscribeByParticipant(c)
           \/ RemoveParticipant(c) \/ \E f \in EntityIDs : LeaveEntity(c, f)
  <2>1. entities' = entities /\ pc'[c] # "removeEntity"
    BY <1>2, <1>6 DEF Subscribe, Unsubscribe, UnsubscribeByParticipant, RemoveParticipant,
                      LeaveEntity, Finish, GoTo, sessionVars
  <2>. QED  BY <1>1, <2>1, ClearedBefore
<1>. QED  BY <1>3, <1>4, <1>5, <1>6 DEF Quiet

\* A component written to a cleared entity is a late one.
LEMMA LateWrite ==
    ASSUME SubscriptionInv, StoreInv, NEW c \in Conns, WriteComponent(c),
           NEW t \in TypeIDs, NEW e \in EntityIDs,
           components[t][e] = None, components'[t][e] # None
    PROVE  Cleared(e) => e \in late'
<1>1. components \in Contents
  BY DEF StoreInv
<1>2. PICK r \in Requests : r = req[c]
  BY DEF SubscriptionInv
<1>3. /\ components' = [components EXCEPT ![r.type][r.entity] = NewContent(r)]
      /\ Cleared(r.entity) => r.entity \in late'
  BY <1>2 DEF WriteComponent
<1>4. NewContent(r) \in Data \cup {None}
  BY ContentType
<1>5. Replaced(components', components, r.type, r.entity, NewContent(r))
  BY ONLY <1>1, <1>3, <1>4, ReplaceAt, Zenon
<1>6. e = r.entity
  BY <1>5 DEF Replaced
<1>. QED  BY <1>3, <1>6

LEMMA OrphanStep ==
    ASSUME SubscriptionInv, StoreInv, OrphanInv, [Next]_vars
    PROVE  OrphanInv'
<1>1. CASE UNCHANGED <<storeVars, sessionVars, connVars, late>>
  BY <1>1 DEF OrphanInv, Cleared, storeVars, sessionVars, connVars
<1> SUFFICES ASSUME NEW t \in TypeIDs, NEW e \in EntityIDs, components'[t][e] # None, Cleared(e)',
                    NEW c \in Conns, Request(c) \/ Handle(c)
             PROVE  e \in late'
  BY <1>1, StepOfHandler DEF OrphanInv
<1>2. \A d \in Conns \ {c} : pc'[d] = pc[d] /\ req'[d] = req[d] /\ todo'[d] = todo[d]
  BY OthersStay
<1>3. components[t][e] # None /\ Cleared(e) => e \in late
  BY DEF OrphanInv
<1>4. CASE Quiet(c)
  <2>1. Cleared(e)
    BY <1>4, QuietClears
  <2>2. components[t][e] # None /\ late' = late
    BY <1>4, QuietEffect
  <2>. QED  BY <1>3, <2>1, <2>2
<1>5. CASE Notify(c) \/ EndNotify(c) \/ \E d \in Conns : Deliver(c, d)
  <2>1. UNCHANGED <<components, entities, late>> /\ pc'[c] # "removeEntity"
    BY <1>5 DEF Notify, EndNotify, Deliver, Finish, GoTo, storeVars, sessionVars, SubscriptionInv
  <2>2. Cleared(e)
    BY <1>2, <2>1, ClearedBefore
  <2>. QED  BY <1>3, <2>1, <2>2
<1>6. CASE WriteComponent(c)
  <2>1. entities' = entities /\ late \subseteq late' /\ pc'[c] # "removeEntity"
    BY <1>6, WriteEffect
  <2>2. Cleared(e)
    BY <1>2, <2>1, ClearedBefore
  <2>3. components[t][e] # None \/ (Cleared(e) => e \in late')
    BY <1>6, LateWrite
  <2>. QED  BY <1>3, <2>1, <2>2, <2>3
<1>. QED  BY <1>4, <1>5, <1>6 DEF Handle, Quiet

\* A component is left behind by an entity that is gone only if it was
\* written after DeleteByEntityID had cleared the entity: every other
\* deletion of an entity, by request or with its participant, takes the
\* components of all types with it.
THEOREM OnlyLateWritesOrphan == Spec => []OrphansWereLate
<1>1. Init => StoreInv /\ OrphanInv
  BY NothingType DEF Init, StoreInv, OrphanInv
<1>2. SubscriptionInv /\ StoreInv /\ [Next]_vars => StoreInv'
  BY StoreStep
<1>3. SubscriptionInv /\ StoreInv /\ OrphanInv /\ [Next]_vars => OrphanInv'
  BY OrphanStep
<1>4. OrphanInv => OrphansWereLate
  BY DEF OrphanInv, OrphansWereLate, Cleared
<1>. QED  BY <1>1, <1>2, <1>3, <1>4, SubscriptionInduction, PTL DEF Spec

=============================================================================
