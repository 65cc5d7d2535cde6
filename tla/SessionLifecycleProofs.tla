----------------------- MODULE SessionLifecycleProofs -----------------------
(***************************************************************************)
(* Proofs about SessionLifecycle, for any set of connections and any bound *)
(* on the number of sessions.                                              *)
(***************************************************************************)
EXTENDS SessionLifecycle, TLAPS

\* Where a goroutine stands says which of its session variables are set.
LocalsInv ==
    \A c \in Conns :
        /\ target[c] # None <=>
              pc[c] \in {"storeAdd", "startDispatch", "addParticipant", "handleFrame"}
        /\ pc[c] \in LeaveSteps => current[c] # None
        /\ pc[c] \in JoinSteps \cup {"gone"} => current[c] = None

\* Only sessions that exist are referred to, and those have an id.
CreatedInv ==
    /\ ids.currentID <= created
    /\ \A c \in Conns : target[c] <= created /\ current[c] <= created
    /\ \A k \in SessionIDs : store[k] <= created
    /\ \A s \in Sessions : s <= created => sid[s] # None

\* Nothing has happened to a session before it is made, and nobody else
\* knows the session a connection is about to register.
Untouched(s) == ~ closed[s] /\ closeFrameChan[s] = 0 /\ dispatcher[s] = "none"

FreshInv ==
    /\ \A s \in Sessions : s > created => Untouched(s)
    /\ \A c \in Conns : pc[c] = "storeAdd" =>
          /\ Untouched(target[c])
          /\ \A k \in SessionIDs : store[k] # target[c]
          /\ \A d \in Conns : current[d] # target[c]
          /\ \A d \in Conns : d # c => target[d] # target[c]

\* Membership and frame handling, told from where the goroutines stand.
MemberInv ==
    \A c \in Conns, s \in Sessions :
        c \in participants[s] <=>
            \/ current[c] = s /\ pc[c] \in {"ready", "stopFrame", "removeParticipant"}
            \/ target[c] = s /\ pc[c] = "handleFrame"

HandlerInv ==
    \A c \in Conns, s \in Sessions :
        c \in frameHandlers[s] <=> current[c] = s /\ pc[c] \in {"ready", "stopFrame"}

\* Only Close puts anything into closeFrameChan, and the second Close of a
\* leaver finds the session closed.
SignalInv ==
    /\ \A s \in Sessions : closeFrameChan[s] = 1 => closed[s]
    /\ \A c \in Conns : pc[c] = "close" => closed[current[c]]

\* The inductive invariant.
IndInv ==
    /\ TypeOK
    /\ LocalsInv
    /\ CreatedInv
    /\ FreshInv
    /\ MemberInv
    /\ HandlerInv
    /\ SignalInv
    /\ StoredSessionIsOpen
    /\ NoAbandonedSession
    /\ NoLeakedID

-----------------------------------------------------------------------------
(* Every action preserves the inductive invariant.                         *)

\* Connect preserves the invariant.
LEMMA ConnectPreserves ==
    ASSUME IndInv, NEW c \in Conns, Connect(c)
    PROVE  IndInv'
<1> USE MaxSessionsAssumption DEF Connect, Sessions, SessionIDs, None,
      Idle, JoinSteps, LeaveSteps, storeVars, sessionVars, frameVars, connVars
<1>1. TypeOK'
  BY DEF IndInv, TypeOK, LocalsInv, CreatedInv, Generators
<1>2. LocalsInv'
  BY DEF IndInv, LocalsInv, TypeOK
<1>3. CreatedInv'
  BY DEF IndInv, CreatedInv, TypeOK, LocalsInv, Generators
<1>4. FreshInv'
  BY DEF IndInv, FreshInv, TypeOK, LocalsInv, CreatedInv, Untouched
<1>5. MemberInv'
  BY DEF IndInv, MemberInv, TypeOK, LocalsInv
<1>6. HandlerInv'
  BY DEF IndInv, HandlerInv, TypeOK, LocalsInv
<1>7. SignalInv'
  BY DEF IndInv, SignalInv, TypeOK, LocalsInv
<1>8. StoredSessionIsOpen'
  BY DEF IndInv, StoredSessionIsOpen, TypeOK, LocalsInv, CreatedInv
<1>9. NoAbandonedSession'
  <2> SUFFICES ASSUME NEW s \in Sessions, s <= created', participants'[s] = {}, ~ closed'[s]
               PROVE  \E d \in Conns : InCharge(d, s)'
    BY DEF NoAbandonedSession
  <2>1. s <= created /\ participants[s] = {} /\ ~ closed[s]
    OBVIOUS
  <2>2. PICK d \in Conns : InCharge(d, s)
    BY <2>1 DEF IndInv, NoAbandonedSession
  <2>3. InCharge(d, s)'
    BY <2>2 DEF IndInv, TypeOK, LocalsInv, InCharge
  <2>. QED  BY <2>3
<1>10. NoLeakedID'
  BY DEF IndInv, NoLeakedID, TypeOK, Generators
<1>. QED  BY <1>1, <1>2, <1>3, <1>4, <1>5, <1>6, <1>7, <1>8, <1>9, <1>10 DEF IndInv

\* ReceiveJoin preserves the invariant.
LEMMA ReceiveJoinPreserves ==
    ASSUME IndInv, NEW c \in Conns, NEW id \in SessionIDs \cup {None}, ReceiveJoin(c, id)
    PROVE  IndInv'
<1> USE MaxSessionsAssumption DEF ReceiveJoin, Sessions, SessionIDs, None,
      Idle, JoinSteps, LeaveSteps, storeVars, sessionVars, frameVars, connVars
<1>1. TypeOK'
  BY DEF IndInv, TypeOK, LocalsInv, CreatedInv, Generators
<1>2. LocalsInv'
  BY DEF IndInv, LocalsInv, TypeOK
<1>3. CreatedInv'
  BY DEF IndInv, CreatedInv, TypeOK, LocalsInv, Generators
<1>4. FreshInv'
  BY DEF IndInv, FreshInv, TypeOK, LocalsInv, CreatedInv, Untouched
<1>5. MemberInv'
  BY DEF IndInv, MemberInv, TypeOK, LocalsInv
<1>6. HandlerInv'
  BY DEF IndInv, HandlerInv, TypeOK, LocalsInv
<1>7. SignalInv'
  BY DEF IndInv, SignalInv, TypeOK, LocalsInv
<1>8. StoredSessionIsOpen'
  BY DEF IndInv, StoredSessionIsOpen, TypeOK, LocalsInv, CreatedInv
<1>9. NoAbandonedSession'
  <2> SUFFICES ASSUME NEW s \in Sessions, s <= created', participants'[s] = {}, ~ closed'[s]
               PROVE  \E d \in Conns : InCharge(d, s)'
    BY DEF NoAbandonedSession
  <2>1. s <= created /\ participants[s] = {} /\ ~ closed[s]
    OBVIOUS
  <2>2. PICK d \in Conns : InCharge(d, s)
    BY <2>1 DEF IndInv, NoAbandonedSession
  <2>3. InCharge(d, s)'
    BY <2>2 DEF IndInv, TypeOK, LocalsInv, InCharge
  <2>. QED  BY <2>3
<1>10. NoLeakedID'
  BY DEF IndInv, NoLeakedID, TypeOK, Generators
<1>. QED  BY <1>1, <1>2, <1>3, <1>4, <1>5, <1>6, <1>7, <1>8, <1>9, <1>10 DEF IndInv

\* Disconnect preserves the invariant.
LEMMA DisconnectPreserves ==
    ASSUME IndInv, NEW c \in Conns, Disconnect(c)
    PROVE  IndInv'
<1> USE MaxSessionsAssumption DEF Disconnect, Sessions, SessionIDs, None,
      Idle, JoinSteps, LeaveSteps, storeVars, sessionVars, frameVars, connVars
<1>1. TypeOK'
  <2>1. pc' \in [Conns -> Idle \cup JoinSteps \cup LeaveSteps]
    <3>1. pc' = [pc EXCEPT ![c] = "stopFrame"] \/ pc' = [pc EXCEPT ![c] = "gone"]
      OBVIOUS
    <3>. QED  BY <3>1 DEF IndInv, TypeOK
  <2>2. disconnecting' \in SUBSET Conns
    BY DEF IndInv, TypeOK
  <2>. QED  BY <2>1, <2>2 DEF IndInv, TypeOK
<1>2. LocalsInv'
  BY DEF IndInv, LocalsInv, TypeOK
<1>3. CreatedInv'
  BY DEF IndInv, CreatedInv, TypeOK, LocalsInv, Generators
<1>4. FreshInv'
  BY DEF IndInv, FreshInv, TypeOK, LocalsInv, CreatedInv, Untouched
<1>5. MemberInv'
  <2> SUFFICES ASSUME NEW d \in Conns, NEW s \in Sessions
               PROVE  d \in participants'[s] <=>
                        \/ current'[d] = s /\ pc'[d] \in {"ready", "stopFrame", "removeParticipant"}
                        \/ target'[d] = s /\ pc'[d] = "handleFrame"
    BY DEF MemberInv
  <2>1. CASE d = c
    BY <2>1 DEF IndInv, TypeOK, MemberInv
  <2>2. CASE d # c
    BY <2>2 DEF IndInv, TypeOK, MemberInv
  <2>. QED  BY <2>1, <2>2
<1>6. HandlerInv'
  BY DEF IndInv, HandlerInv, TypeOK, LocalsInv
<1>7. SignalInv'
  BY DEF IndInv, SignalInv, TypeOK, LocalsInv
<1>8. StoredSessionIsOpen'
  BY DEF IndInv, StoredSessionIsOpen, TypeOK, LocalsInv, CreatedInv
<1>9. NoAbandonedSession'
  <2> SUFFICES ASSUME NEW s \in Sessions, s <= created', participants'[s] = {}, ~ closed'[s]
               PROVE  \E d \in Conns : InCharge(d, s)'
    BY DEF NoAbandonedSession
  <2>1. PICK d \in Conns : InCharge(d, s)
    BY DEF IndInv, NoAbandonedSession
  <2>2. InCharge(d, s)'
    BY <2>1 DEF IndInv, TypeOK, LocalsInv, InCharge
  <2>. QED  BY <2>2
<1>10. NoLeakedID'
  BY DEF IndInv, NoLeakedID, TypeOK, Generators
<1>. QED  BY <1>1, <1>2, <1>3, <1>4, <1>5, <1>6, <1>7, <1>8, <1>9, <1>10 DEF IndInv

\* Lookup preserves the invariant.
LEMMA LookupPreserves ==
    ASSUME IndInv, NEW c \in Conns, Lookup(c)
    PROVE  IndInv'
<1> USE MaxSessionsAssumption DEF Lookup, Sessions, SessionIDs, None,
      Idle, JoinSteps, LeaveSteps, storeVars, sessionVars, frameVars, connVars
<1>1. TypeOK'
  BY DEF IndInv, TypeOK, LocalsInv, CreatedInv, Generators
<1>2. LocalsInv'
  BY DEF IndInv, LocalsInv, TypeOK
<1>3. CreatedInv'
  BY DEF IndInv, CreatedInv, TypeOK, LocalsInv, Generators
<1>4. FreshInv'
  BY DEF IndInv, FreshInv, TypeOK, LocalsInv, CreatedInv, Untouched
<1>5. MemberInv'
  BY DEF IndInv, MemberInv, TypeOK, LocalsInv
<1>6. HandlerInv'
  BY DEF IndInv, HandlerInv, TypeOK, LocalsInv
<1>7. SignalInv'
  BY DEF IndInv, SignalInv, TypeOK, LocalsInv
<1>8. StoredSessionIsOpen'
  BY DEF IndInv, StoredSessionIsOpen, TypeOK, LocalsInv, CreatedInv
<1>9. NoAbandonedSession'
  <2> SUFFICES ASSUME NEW s \in Sessions, s <= created', participants'[s] = {}, ~ closed'[s]
               PROVE  \E d \in Conns : InCharge(d, s)'
    BY DEF NoAbandonedSession
  <2>1. s <= created /\ participants[s] = {} /\ ~ closed[s]
    OBVIOUS
  <2>2. PICK d \in Conns : InCharge(d, s)
    BY <2>1 DEF IndInv, NoAbandonedSession
  <2>3. InCharge(d, s)'
    BY <2>2 DEF IndInv, TypeOK, LocalsInv, InCharge
  <2>. QED  BY <2>3
<1>10. NoLeakedID'
  BY DEF IndInv, NoLeakedID, TypeOK, Generators
<1>. QED  BY <1>1, <1>2, <1>3, <1>4, <1>5, <1>6, <1>7, <1>8, <1>9, <1>10 DEF IndInv

\* NewSession preserves the invariant.
LEMMA NewSessionPreserves ==
    ASSUME IndInv, NEW c \in Conns, NewSession(c)
    PROVE  IndInv'
<1> USE MaxSessionsAssumption DEF NewSession, NewIDs, AfterNew, Sessions, SessionIDs, None,
      Idle, JoinSteps, LeaveSteps, storeVars, sessionVars, frameVars, connVars
<1>1. TypeOK'
  <2>1. PICK id \in NewIDs(ids) : ids' = AfterNew(ids, id) /\ sid' = [sid EXCEPT ![created + 1] = id]
    BY Zenon
  <2>2. ids' \in Generators(MaxSessions) /\ id \in SessionIDs
    BY <2>1 DEF IndInv, TypeOK, CreatedInv, Generators
  <2>3. created' \in 0 .. MaxSessions /\ created' \in Sessions
    BY DEF IndInv, TypeOK
  <2>4. sid' \in [Sessions -> SessionIDs \cup {None}]
    BY <2>1, <2>2 DEF IndInv, TypeOK
  <2>. QED  BY <2>2, <2>3, <2>4 DEF IndInv, TypeOK
<1>2. LocalsInv'
  BY DEF IndInv, LocalsInv, TypeOK
<1>3. CreatedInv'
  <2>0. PICK id \in NewIDs(ids) : ids' = AfterNew(ids, id) /\ sid' = [sid EXCEPT ![created + 1] = id]
    BY Zenon
  <2>1. ids'.currentID <= created' /\ id \in SessionIDs
    BY <2>0 DEF IndInv, TypeOK, CreatedInv, Generators
  <2>2. ASSUME NEW d \in Conns PROVE target'[d] <= created' /\ current'[d] <= created'
    <3>1. created \in Nat /\ created' = created + 1
      BY DEF IndInv, TypeOK
    <3>2. current[d] \in Nat /\ target[d] \in Nat /\ current[d] <= created /\ target[d] <= created
      BY DEF IndInv, TypeOK, CreatedInv
    <3>3. current'[d] = current[d] /\ target'[d] \in {target[d], created + 1}
      BY DEF IndInv, TypeOK
    <3>. QED  BY <3>1, <3>2, <3>3
  <2>3. ASSUME NEW k \in SessionIDs PROVE store'[k] <= created'
    <3>1. created \in Nat /\ created' = created + 1
      BY DEF IndInv, TypeOK
    <3>2. store[k] \in Nat /\ store[k] <= created /\ store'[k] = store[k]
      BY DEF IndInv, TypeOK, CreatedInv
    <3>. QED  BY <3>1, <3>2
  <2>4. \A s \in Sessions : s <= created' => sid'[s] # None
    BY <2>0, <2>1 DEF IndInv, TypeOK, CreatedInv
  <2>. QED  BY <2>1, <2>2, <2>3, <2>4 DEF CreatedInv
<1>4. FreshInv'
  BY DEF IndInv, FreshInv, TypeOK, LocalsInv, CreatedInv, Untouched
<1>5. MemberInv'
  BY DEF IndInv, MemberInv, TypeOK, LocalsInv
<1>6. HandlerInv'
  BY DEF IndInv, HandlerInv, TypeOK, LocalsInv
<1>7. SignalInv'
  BY DEF IndInv, SignalInv, TypeOK, LocalsInv
<1>8. StoredSessionIsOpen'
  BY DEF IndInv, StoredSessionIsOpen, TypeOK, LocalsInv, CreatedInv
<1>9. NoAbandonedSession'
  <2> SUFFICES ASSUME NEW s \in Sessions, s <= created', participants'[s] = {}, ~ closed'[s]
               PROVE  \E d \in Conns : InCharge(d, s)'
    BY DEF NoAbandonedSession
  <2>1. CASE s = created + 1
    <3>1. InCharge(c, s)'
      BY <2>1 DEF IndInv, TypeOK, LocalsInv, InCharge
    <3>. QED  BY <3>1
  <2>2. CASE s # created + 1
    <3>1. s <= created /\ participants[s] = {} /\ ~ closed[s]
      BY <2>2 DEF IndInv, TypeOK, LocalsInv
    <3>2. PICK d \in Conns : InCharge(d, s)
      BY <3>1 DEF IndInv, NoAbandonedSession
    <3>3. InCharge(d, s)'
      BY <3>2 DEF IndInv, TypeOK, LocalsInv, CreatedInv, InCharge
    <3>. QED  BY <3>3
  <2>. QED  BY <2>1, <2>2
<1>10. NoLeakedID'
  <2>0. PICK id \in NewIDs(ids) : ids' = AfterNew(ids, id) /\ sid' = [sid EXCEPT ![created + 1] = id]
    BY Zenon
  <2> SUFFICES ASSUME NEW k \in 1 .. ids'.currentID, k \notin ids'.reusableIDs
               PROVE  \E s \in Sessions : s <= created' /\ sid'[s] = k /\ ~ closed'[s]
    BY DEF NoLeakedID
  <2>1. CASE k = id
    <3>1. created + 1 \in Sessions /\ sid'[created + 1] = k /\ ~ closed'[created + 1]
      BY <2>0, <2>1 DEF IndInv, TypeOK, FreshInv, Untouched
    <3>. QED  BY <3>1 DEF IndInv, TypeOK
  <2>2. CASE k # id
    <3>1. k \in 1 .. ids.currentID /\ k \notin ids.reusableIDs
      BY <2>0, <2>2 DEF IndInv, TypeOK, Generators
    <3>2. PICK s \in Sessions : s <= created /\ sid[s] = k /\ ~ closed[s]
      BY <3>1 DEF IndInv, NoLeakedID
    <3>3. s <= created' /\ sid'[s] = k /\ ~ closed'[s]
      BY <2>0, <3>2 DEF IndInv, TypeOK
    <3>. QED  BY <3>3
  <2>. QED  BY <2>1, <2>2
<1>. QED  BY <1>1, <1>2, <1>3, <1>4, <1>5, <1>6, <1>7, <1>8, <1>9, <1>10 DEF IndInv

\* StoreAdd preserves the invariant.
LEMMA StoreAddPreserves ==
    ASSUME IndInv, NEW c \in Conns, StoreAdd(c)
    PROVE  IndInv'
<1> USE MaxSessionsAssumption DEF StoreAdd, Sessions, SessionIDs, None,
      Idle, JoinSteps, LeaveSteps, storeVars, sessionVars, frameVars, connVars
<1>1. TypeOK'
  BY DEF IndInv, TypeOK, LocalsInv, CreatedInv, Generators
<1>2. LocalsInv'
  BY DEF IndInv, LocalsInv, TypeOK
<1>3. CreatedInv'
  BY DEF IndInv, CreatedInv, TypeOK, LocalsInv, Generators
<1>4. FreshInv'
  BY DEF IndInv, FreshInv, TypeOK, LocalsInv, CreatedInv, Untouched
<1>5. MemberInv'
  BY DEF IndInv, MemberInv, TypeOK, LocalsInv
<1>6. HandlerInv'
  BY DEF IndInv, HandlerInv, TypeOK, LocalsInv
<1>7. SignalInv'
  BY DEF IndInv, SignalInv, TypeOK, LocalsInv
<1>8. StoredSessionIsOpen'
  <2> SUFFICES ASSUME NEW k \in SessionIDs, store'[k] # None
               PROVE  /\ sid'[store'[k]] = k
                      /\ ~ closed'[store'[k]]
                      /\ \/ dispatcher'[store'[k]] = "running"
                         \/ \E d \in Conns : pc'[d] = "startDispatch" /\ target'[d] = store'[k]
    BY DEF StoredSessionIsOpen
  <2>0. target[c] \in Sessions /\ sid[target[c]] \in SessionIDs
    BY DEF IndInv, TypeOK, LocalsInv, CreatedInv
  <2>1. CASE k = sid[target[c]]
    <3>1. store'[k] = target[c] /\ pc'[c] = "startDispatch" /\ target'[c] = target[c]
      BY <2>0, <2>1 DEF IndInv, TypeOK
    <3>. QED  BY <2>0, <2>1, <3>1 DEF IndInv, TypeOK, FreshInv, Untouched
  <2>2. CASE k # sid[target[c]]
    BY <2>0, <2>2 DEF IndInv, TypeOK, StoredSessionIsOpen
  <2>. QED  BY <2>1, <2>2
<1>9. NoAbandonedSession'
  <2> SUFFICES ASSUME NEW s \in Sessions, s <= created', participants'[s] = {}, ~ closed'[s]
               PROVE  \E d \in Conns : InCharge(d, s)'
    BY DEF NoAbandonedSession
  <2>1. s <= created /\ participants[s] = {} /\ ~ closed[s]
    OBVIOUS
  <2>2. PICK d \in Conns : InCharge(d, s)
    BY <2>1 DEF IndInv, NoAbandonedSession
  <2>3. InCharge(d, s)'
    BY <2>2 DEF IndInv, TypeOK, LocalsInv, InCharge
  <2>. QED  BY <2>3
<1>10. NoLeakedID'
  BY DEF IndInv, NoLeakedID, TypeOK, Generators
<1>. QED  BY <1>1, <1>2, <1>3, <1>4, <1>5, <1>6, <1>7, <1>8, <1>9, <1>10 DEF IndInv

\* StartDispatchFrames preserves the invariant.
LEMMA StartDispatchFramesPreserves ==
    ASSUME IndInv, NEW c \in Conns, StartDispatchFrames(c)
    PROVE  IndInv'
<1> USE MaxSessionsAssumption DEF StartDispatchFrames, Sessions, SessionIDs, None,
      Idle, JoinSteps, LeaveSteps, storeVars, sessionVars, frameVars, connVars
<1>1. TypeOK'
  BY DEF IndInv, TypeOK, LocalsInv, CreatedInv, Generators
<1>2. LocalsInv'
  BY DEF IndInv, LocalsInv, TypeOK
<1>3. CreatedInv'
  BY DEF IndInv, CreatedInv, TypeOK, LocalsInv, Generators
<1>4. FreshInv'
  BY DEF IndInv, FreshInv, TypeOK, LocalsInv, CreatedInv, Untouched
<1>5. MemberInv'
  BY DEF IndInv, MemberInv, TypeOK, LocalsInv
<1>6. HandlerInv'
  BY DEF IndInv, HandlerInv, TypeOK, LocalsInv
<1>7. SignalInv'
  BY DEF IndInv, SignalInv, TypeOK, LocalsInv
<1>8. StoredSessionIsOpen'
  <2> SUFFICES ASSUME NEW k \in SessionIDs, store'[k] # None
               PROVE  /\ sid'[store'[k]] = k
                      /\ ~ closed'[store'[k]]
                      /\ \/ dispatcher'[store'[k]] = "running"
                         \/ \E d \in Conns : pc'[d] = "startDispatch" /\ target'[d] = store'[k]
    BY DEF StoredSessionIsOpen
  <2>0. target[c] \in Sessions /\ dispatcher' = [dispatcher EXCEPT ![target[c]] = "running"]
    BY DEF IndInv, TypeOK, LocalsInv
  <2>1. CASE store[k] = target[c]
    BY <2>0, <2>1 DEF IndInv, TypeOK, StoredSessionIsOpen
  <2>2. CASE store[k] # target[c]
    BY <2>0, <2>2 DEF IndInv, TypeOK, StoredSessionIsOpen
  <2>. QED  BY <2>1, <2>2
<1>9. NoAbandonedSession'
  <2> SUFFICES ASSUME NEW s \in Sessions, s <= created', participants'[s] = {}, ~ closed'[s]
               PROVE  \E d \in Conns : InCharge(d, s)'
    BY DEF NoAbandonedSession
  <2>1. s <= created /\ participants[s] = {} /\ ~ closed[s]
    OBVIOUS
  <2>2. PICK d \in Conns : InCharge(d, s)
    BY <2>1 DEF IndInv, NoAbandonedSession
  <2>3. InCharge(d, s)'
    BY <2>2 DEF IndInv, TypeOK, LocalsInv, InCharge
  <2>. QED  BY <2>3
<1>10. NoLeakedID'
  BY DEF IndInv, NoLeakedID, TypeOK, Generators
<1>. QED  BY <1>1, <1>2, <1>3, <1>4, <1>5, <1>6, <1>7, <1>8, <1>9, <1>10 DEF IndInv

\* AddParticipant preserves the invariant.
LEMMA AddParticipantPreserves ==
    ASSUME IndInv, NEW c \in Conns, AddParticipant(c)
    PROVE  IndInv'
<1> USE MaxSessionsAssumption DEF AddParticipant, Sessions, SessionIDs, None,
      Idle, JoinSteps, LeaveSteps, storeVars, sessionVars, frameVars, connVars
<1>1. TypeOK'
  BY DEF IndInv, TypeOK, LocalsInv, CreatedInv, Generators
<1>2. LocalsInv'
  BY DEF IndInv, LocalsInv, TypeOK
<1>3. CreatedInv'
  BY DEF IndInv, CreatedInv, TypeOK, LocalsInv, Generators
<1>4. FreshInv'
  BY DEF IndInv, FreshInv, TypeOK, LocalsInv, CreatedInv, Untouched
<1>5. MemberInv'
  BY DEF IndInv, MemberInv, TypeOK, LocalsInv
<1>6. HandlerInv'
  BY DEF IndInv, HandlerInv, TypeOK, LocalsInv
<1>7. SignalInv'
  BY DEF IndInv, SignalInv, TypeOK, LocalsInv
<1>8. StoredSessionIsOpen'
  BY DEF IndInv, StoredSessionIsOpen, TypeOK, LocalsInv, CreatedInv
<1>9. NoAbandonedSession'
  <2> SUFFICES ASSUME NEW s \in Sessions, s <= created', participants'[s] = {}, ~ closed'[s]
               PROVE  \E d \in Conns : InCharge(d, s)'
    BY DEF NoAbandonedSession
  <2>1. s # target[c]
    BY DEF IndInv, TypeOK, LocalsInv
  <2>2. s <= created /\ participants[s] = {} /\ ~ closed[s]
    BY <2>1 DEF IndInv, TypeOK, LocalsInv
  <2>3. PICK d \in Conns : InCharge(d, s)
    BY <2>2 DEF IndInv, NoAbandonedSession
  <2>4. InCharge(d, s)'
    BY <2>1, <2>3 DEF IndInv, TypeOK, LocalsInv, InCharge
  <2>. QED  BY <2>4
<1>10. NoLeakedID'
  BY DEF IndInv, NoLeakedID, TypeOK, Generators
<1>. QED  BY <1>1, <1>2, <1>3, <1>4, <1>5, <1>6, <1>7, <1>8, <1>9, <1>10 DEF IndInv

\* HandleFrame preserves the invariant.
LEMMA HandleFramePreserves ==
    ASSUME IndInv, NEW c \in Conns, HandleFrame(c)
    PROVE  IndInv'
<1> USE MaxSessionsAssumption DEF HandleFrame, Sessions, SessionIDs, None,
      Idle, JoinSteps, LeaveSteps, storeVars, sessionVars, frameVars, connVars
<1>1. TypeOK'
  BY DEF IndInv, TypeOK, LocalsInv, CreatedInv, Generators
<1>2. LocalsInv'
  BY DEF IndInv, LocalsInv, TypeOK
<1>3. CreatedInv'
  BY DEF IndInv, CreatedInv, TypeOK, LocalsInv, Generators
<1>4. FreshInv'
  BY DEF IndInv, FreshInv, TypeOK, LocalsInv, CreatedInv, Untouched
<1>5. MemberInv'
  BY DEF IndInv, MemberInv, TypeOK, LocalsInv
<1>6. HandlerInv'
  BY DEF IndInv, HandlerInv, TypeOK, LocalsInv
<1>7. SignalInv'
  BY DEF IndInv, SignalInv, TypeOK, LocalsInv
<1>8. StoredSessionIsOpen'
  BY DEF IndInv, StoredSessionIsOpen, TypeOK, LocalsInv, CreatedInv
<1>9. NoAbandonedSession'
  <2> SUFFICES ASSUME NEW s \in Sessions, s <= created', participants'[s] = {}, ~ closed'[s]
               PROVE  \E d \in Conns : InCharge(d, s)'
    BY DEF NoAbandonedSession
  <2>1. s <= created /\ participants[s] = {} /\ ~ closed[s]
    OBVIOUS
  <2>2. PICK d \in Conns : InCharge(d, s)
    BY <2>1 DEF IndInv, NoAbandonedSession
  <2>3. InCharge(d, s)'
    BY <2>2 DEF IndInv, TypeOK, LocalsInv, InCharge
  <2>. QED  BY <2>3
<1>10. NoLeakedID'
  BY DEF IndInv, NoLeakedID, TypeOK, Generators
<1>. QED  BY <1>1, <1>2, <1>3, <1>4, <1>5, <1>6, <1>7, <1>8, <1>9, <1>10 DEF IndInv

\* StopFrame preserves the invariant.
LEMMA StopFramePreserves ==
    ASSUME IndInv, NEW c \in Conns, StopFrame(c)
    PROVE  IndInv'
<1> USE MaxSessionsAssumption DEF StopFrame, Sessions, SessionIDs, None,
      Idle, JoinSteps, LeaveSteps, storeVars, sessionVars, frameVars, connVars
<1>1. TypeOK'
  BY DEF IndInv, TypeOK, LocalsInv, CreatedInv, Generators
<1>2. LocalsInv'
  BY DEF IndInv, LocalsInv, TypeOK
<1>3. CreatedInv'
  BY DEF IndInv, CreatedInv, TypeOK, LocalsInv, Generators
<1>4. FreshInv'
  BY DEF IndInv, FreshInv, TypeOK, LocalsInv, CreatedInv, Untouched
<1>5. MemberInv'
  BY DEF IndInv, MemberInv, TypeOK, LocalsInv
<1>6. HandlerInv'
  BY DEF IndInv, HandlerInv, TypeOK, LocalsInv
<1>7. SignalInv'
  BY DEF IndInv, SignalInv, TypeOK, LocalsInv
<1>8. StoredSessionIsOpen'
  BY DEF IndInv, StoredSessionIsOpen, TypeOK, LocalsInv, CreatedInv
<1>9. NoAbandonedSession'
  <2> SUFFICES ASSUME NEW s \in Sessions, s <= created', participants'[s] = {}, ~ closed'[s]
               PROVE  \E d \in Conns : InCharge(d, s)'
    BY DEF NoAbandonedSession
  <2>1. s <= created /\ participants[s] = {} /\ ~ closed[s]
    OBVIOUS
  <2>2. PICK d \in Conns : InCharge(d, s)
    BY <2>1 DEF IndInv, NoAbandonedSession
  <2>3. InCharge(d, s)'
    BY <2>2 DEF IndInv, TypeOK, LocalsInv, InCharge
  <2>. QED  BY <2>3
<1>10. NoLeakedID'
  BY DEF IndInv, NoLeakedID, TypeOK, Generators
<1>. QED  BY <1>1, <1>2, <1>3, <1>4, <1>5, <1>6, <1>7, <1>8, <1>9, <1>10 DEF IndInv

\* RemoveParticipant preserves the invariant.
LEMMA RemoveParticipantPreserves ==
    ASSUME IndInv, NEW c \in Conns, RemoveParticipant(c)
    PROVE  IndInv'
<1> USE MaxSessionsAssumption DEF RemoveParticipant, Sessions, SessionIDs, None,
      Idle, JoinSteps, LeaveSteps, storeVars, sessionVars, frameVars, connVars
<1>1. TypeOK'
  BY DEF IndInv, TypeOK, LocalsInv, CreatedInv, Generators
<1>2. LocalsInv'
  BY DEF IndInv, LocalsInv, TypeOK
<1>3. CreatedInv'
  BY DEF IndInv, CreatedInv, TypeOK, LocalsInv, Generators
<1>4. FreshInv'
  BY DEF IndInv, FreshInv, TypeOK, LocalsInv, CreatedInv, Untouched
<1>5. MemberInv'
  BY DEF IndInv, MemberInv, TypeOK, LocalsInv
<1>6. HandlerInv'
  BY DEF IndInv, HandlerInv, TypeOK, LocalsInv
<1>7. SignalInv'
  BY DEF IndInv, SignalInv, TypeOK, LocalsInv
<1>8. StoredSessionIsOpen'
  BY DEF IndInv, StoredSessionIsOpen, TypeOK, LocalsInv, CreatedInv
<1>9. NoAbandonedSession'
  <2> SUFFICES ASSUME NEW s \in Sessions, s <= created', participants'[s] = {}, ~ closed'[s]
               PROVE  \E d \in Conns : InCharge(d, s)'
    BY DEF NoAbandonedSession
  <2>1. CASE s = current[c]
    <3>1. InCharge(c, s)'
      BY <2>1 DEF IndInv, TypeOK, LocalsInv, InCharge
    <3>. QED  BY <3>1
  <2>2. CASE s # current[c]
    <3>1. s <= created /\ participants[s] = {} /\ ~ closed[s]
      BY <2>2 DEF IndInv, TypeOK, LocalsInv
    <3>2. PICK d \in Conns : InCharge(d, s)
      BY <3>1 DEF IndInv, NoAbandonedSession
    <3>3. InCharge(d, s)'
      BY <3>2 DEF IndInv, TypeOK, LocalsInv, CreatedInv, InCharge
    <3>. QED  BY <3>3
  <2>. QED  BY <2>1, <2>2
<1>10. NoLeakedID'
  BY DEF IndInv, NoLeakedID, TypeOK, Generators
<1>. QED  BY <1>1, <1>2, <1>3, <1>4, <1>5, <1>6, <1>7, <1>8, <1>9, <1>10 DEF IndInv

\* Count preserves the invariant.
LEMMA CountPreserves ==
    ASSUME IndInv, NEW c \in Conns, Count(c)
    PROVE  IndInv'
<1> USE MaxSessionsAssumption DEF Count, EndLeave, Sessions, SessionIDs, None,
      Idle, JoinSteps, LeaveSteps, storeVars, sessionVars, frameVars, connVars
<1>1. TypeOK'
  <2>1. pc' \in [Conns -> Idle \cup JoinSteps \cup LeaveSteps]
    <3>1. PICK place \in {"remove", "gone", "lookup"} : pc' = [pc EXCEPT ![c] = place]
      OBVIOUS
    <3>. QED  BY <3>1 DEF IndInv, TypeOK
  <2>2. current' \in [Conns -> Sessions \cup {None}] /\ disconnecting' \in SUBSET Conns
    BY DEF IndInv, TypeOK
  <2>. QED  BY <2>1, <2>2 DEF IndInv, TypeOK
<1>2. LocalsInv'
  BY DEF IndInv, LocalsInv, TypeOK
<1>3. CreatedInv'
  <2>1. ASSUME NEW d \in Conns PROVE current'[d] \in {current[d], None}
    BY DEF IndInv, TypeOK
  <2>2. ASSUME NEW d \in Conns PROVE current'[d] <= created
    BY <2>1 DEF IndInv, TypeOK, CreatedInv
  <2>. QED  BY <2>2 DEF IndInv, CreatedInv
<1>4. FreshInv'
  <2>1. CASE participants[current[c]] = {}
    BY <2>1 DEF IndInv, FreshInv, TypeOK, LocalsInv, CreatedInv, Untouched
  <2>2. CASE ~ (participants[current[c]] = {})
    BY <2>2 DEF IndInv, FreshInv, TypeOK, LocalsInv, CreatedInv, Untouched
  <2>. QED  BY <2>1, <2>2
<1>5. MemberInv'
  <2> SUFFICES ASSUME NEW d \in Conns, NEW s \in Sessions
               PROVE  d \in participants'[s] <=>
                        \/ current'[d] = s /\ pc'[d] \in {"ready", "stopFrame", "removeParticipant"}
                        \/ target'[d] = s /\ pc'[d] = "handleFrame"
    BY DEF MemberInv
  <2>1. CASE d = c
    BY <2>1 DEF IndInv, TypeOK, LocalsInv, MemberInv
  <2>2. CASE d # c
    BY <2>2 DEF IndInv, TypeOK, MemberInv
  <2>. QED  BY <2>1, <2>2
<1>6. HandlerInv'
  BY DEF IndInv, HandlerInv, TypeOK, LocalsInv
<1>7. SignalInv'
  BY DEF IndInv, SignalInv, TypeOK, LocalsInv
<1>8. StoredSessionIsOpen'
  BY DEF IndInv, StoredSessionIsOpen, TypeOK, LocalsInv, CreatedInv
<1>9. NoAbandonedSession'
  <2> SUFFICES ASSUME NEW s \in Sessions, s <= created', participants'[s] = {}, ~ closed'[s]
               PROVE  \E d \in Conns : InCharge(d, s)'
    BY DEF NoAbandonedSession
  <2>1. PICK d \in Conns : InCharge(d, s)
    BY DEF IndInv, NoAbandonedSession
  <2>2. CASE d = c
    BY <2>1, <2>2 DEF IndInv, TypeOK, LocalsInv, InCharge
  <2>3. CASE d # c
    <3>1. InCharge(d, s)'
      BY <2>1, <2>3 DEF IndInv, TypeOK, InCharge
    <3>. QED  BY <3>1
  <2>. QED  BY <2>2, <2>3
<1>10. NoLeakedID'
  BY DEF IndInv, NoLeakedID, TypeOK, Generators
<1>. QED  BY <1>1, <1>2, <1>3, <1>4, <1>5, <1>6, <1>7, <1>8, <1>9, <1>10 DEF IndInv

\* Remove preserves the invariant.
LEMMA RemovePreserves ==
    ASSUME IndInv, NEW c \in Conns, Remove(c)
    PROVE  IndInv'
<1> USE MaxSessionsAssumption DEF Remove, StoreRemove, Close, Reuse, Sessions, SessionIDs, None,
      Idle, JoinSteps, LeaveSteps, storeVars, sessionVars, frameVars, connVars
<1>1. TypeOK'
  <2>0. current[c] \in Sessions /\ sid[current[c]] \in SessionIDs
    BY DEF IndInv, TypeOK, LocalsInv, CreatedInv
  <2>1. ids' \in Generators(MaxSessions)
    BY <2>0 DEF IndInv, TypeOK, Generators
  <2>2. store' \in [SessionIDs -> Sessions \cup {None}] /\ gauge' \in Int
    BY <2>0 DEF IndInv, TypeOK
  <2>3. closed' \in [Sessions -> BOOLEAN]
    BY <2>0 DEF IndInv, TypeOK
  <2>4. closeFrameChan' \in [Sessions -> 0 .. 1]
    BY <2>0 DEF IndInv, TypeOK
  <2>. QED  BY <2>1, <2>2, <2>3, <2>4 DEF IndInv, TypeOK
<1>2. LocalsInv'
  BY DEF IndInv, LocalsInv, TypeOK
<1>3. CreatedInv'
  BY DEF IndInv, CreatedInv, TypeOK, LocalsInv, Generators
<1>4. FreshInv'
  BY DEF IndInv, FreshInv, TypeOK, LocalsInv, CreatedInv, Untouched
<1>5. MemberInv'
  BY DEF IndInv, MemberInv, TypeOK, LocalsInv
<1>6. HandlerInv'
  BY DEF IndInv, HandlerInv, TypeOK, LocalsInv
<1>7. SignalInv'
  BY DEF IndInv, SignalInv, TypeOK, LocalsInv
<1>8. StoredSessionIsOpen'
  <2> SUFFICES ASSUME NEW k \in SessionIDs, store'[k] # None
               PROVE  /\ sid'[store'[k]] = k
                      /\ ~ closed'[store'[k]]
                      /\ \/ dispatcher'[store'[k]] = "running"
                         \/ \E d \in Conns : pc'[d] = "startDispatch" /\ target'[d] = store'[k]
    BY DEF StoredSessionIsOpen
  <2>1. store'[k] = store[k] /\ k # sid[current[c]]
    BY DEF IndInv, TypeOK
  <2>2. store[k] # current[c]
    BY <2>1 DEF IndInv, StoredSessionIsOpen
  <2>3. ~ closed'[store'[k]]
    BY <2>1, <2>2 DEF IndInv, TypeOK, StoredSessionIsOpen
  <2>. QED  BY <2>1, <2>3 DEF IndInv, TypeOK, StoredSessionIsOpen
<1>9. NoAbandonedSession'
  <2> SUFFICES ASSUME NEW s \in Sessions, s <= created', participants'[s] = {}, ~ closed'[s]
               PROVE  \E d \in Conns : InCharge(d, s)'
    BY DEF NoAbandonedSession
  <2>1. s # current[c]
    BY DEF IndInv, TypeOK, LocalsInv
  <2>2. s <= created /\ participants[s] = {} /\ ~ closed[s]
    BY <2>1 DEF IndInv, TypeOK, LocalsInv
  <2>3. PICK d \in Conns : InCharge(d, s)
    BY <2>2 DEF IndInv, NoAbandonedSession
  <2>4. InCharge(d, s)'
    BY <2>1, <2>3 DEF IndInv, TypeOK, LocalsInv, InCharge
  <2>. QED  BY <2>4
<1>10. NoLeakedID'
  BY DEF IndInv, NoLeakedID, TypeOK, Generators
<1>. QED  BY <1>1, <1>2, <1>3, <1>4, <1>5, <1>6, <1>7, <1>8, <1>9, <1>10 DEF IndInv

\* CloseSession preserves the invariant.
LEMMA CloseSessionPreserves ==
    ASSUME IndInv, NEW c \in Conns, CloseSession(c)
    PROVE  IndInv'
<1> USE MaxSessionsAssumption DEF CloseSession, Close, EndLeave, Sessions, SessionIDs, None,
      Idle, JoinSteps, LeaveSteps, storeVars, sessionVars, frameVars, connVars
<1>1. TypeOK'
  BY DEF IndInv, TypeOK, LocalsInv, CreatedInv, Generators, SignalInv
<1>2. LocalsInv'
  BY DEF IndInv, LocalsInv, TypeOK, SignalInv
<1>3. CreatedInv'
  BY DEF IndInv, CreatedInv, TypeOK, LocalsInv, Generators, SignalInv
<1>4. FreshInv'
  BY DEF IndInv, FreshInv, TypeOK, LocalsInv, CreatedInv, Untouched, SignalInv
<1>5. MemberInv'
  BY DEF IndInv, MemberInv, TypeOK, LocalsInv, SignalInv
<1>6. HandlerInv'
  BY DEF IndInv, HandlerInv, TypeOK, LocalsInv, SignalInv
<1>7. SignalInv'
  BY DEF IndInv, SignalInv, TypeOK, LocalsInv
<1>8. StoredSessionIsOpen'
  BY DEF IndInv, StoredSessionIsOpen, TypeOK, LocalsInv, CreatedInv, SignalInv
<1>9. NoAbandonedSession'
  <2> SUFFICES ASSUME NEW s \in Sessions, s <= created', participants'[s] = {}, ~ closed'[s]
               PROVE  \E d \in Conns : InCharge(d, s)'
    BY DEF NoAbandonedSession
  <2>1. closed' = closed
    BY DEF IndInv, TypeOK, LocalsInv, SignalInv
  <2>2. s # current[c]
    BY <2>1 DEF IndInv, SignalInv
  <2>3. PICK d \in Conns : InCharge(d, s)
    BY <2>1 DEF IndInv, NoAbandonedSession
  <2>4. InCharge(d, s)'
    BY <2>2, <2>3 DEF IndInv, TypeOK, InCharge
  <2>. QED  BY <2>4
<1>10. NoLeakedID'
  <2>1. closed' = closed
    BY DEF IndInv, TypeOK, LocalsInv, SignalInv
  <2>. QED  BY <2>1 DEF IndInv, NoLeakedID
<1>. QED  BY <1>1, <1>2, <1>3, <1>4, <1>5, <1>6, <1>7, <1>8, <1>9, <1>10 DEF IndInv

\* DispatcherExit preserves the invariant.
LEMMA DispatcherExitPreserves ==
    ASSUME IndInv, NEW s \in Sessions, DispatcherExit(s)
    PROVE  IndInv'
<1> USE MaxSessionsAssumption DEF DispatcherExit, Sessions, SessionIDs, None,
      Idle, JoinSteps, LeaveSteps, storeVars, sessionVars, frameVars, connVars
<1>1. TypeOK'
  BY DEF IndInv, TypeOK, LocalsInv, CreatedInv, Generators
<1>2. LocalsInv'
  BY DEF IndInv, LocalsInv, TypeOK
<1>3. CreatedInv'
  BY DEF IndInv, CreatedInv, TypeOK, LocalsInv, Generators
<1>4. FreshInv'
  BY DEF IndInv, FreshInv, TypeOK, LocalsInv, CreatedInv, Untouched
<1>5. MemberInv'
  BY DEF IndInv, MemberInv, TypeOK, LocalsInv
<1>6. HandlerInv'
  BY DEF IndInv, HandlerInv, TypeOK, LocalsInv
<1>7. SignalInv'
  BY DEF IndInv, SignalInv, TypeOK, LocalsInv
<1>8. StoredSessionIsOpen'
  <2> SUFFICES ASSUME NEW k \in SessionIDs, store'[k] # None
               PROVE  /\ sid'[store'[k]] = k
                      /\ ~ closed'[store'[k]]
                      /\ \/ dispatcher'[store'[k]] = "running"
                         \/ \E d \in Conns : pc'[d] = "startDispatch" /\ target'[d] = store'[k]
    BY DEF StoredSessionIsOpen
  <2>1. store[k] # s
    BY DEF IndInv, SignalInv, StoredSessionIsOpen
  <2>. QED  BY <2>1 DEF IndInv, TypeOK, StoredSessionIsOpen
<1>9. NoAbandonedSession'
  <2> SUFFICES ASSUME NEW r \in Sessions, r <= created', participants'[r] = {}, ~ closed'[r]
               PROVE  \E d \in Conns : InCharge(d, r)'
    BY DEF NoAbandonedSession
  <2>1. r <= created /\ participants[r] = {} /\ ~ closed[r]
    OBVIOUS
  <2>2. PICK d \in Conns : InCharge(d, r)
    BY <2>1 DEF IndInv, NoAbandonedSession
  <2>3. InCharge(d, r)'
    BY <2>2 DEF IndInv, TypeOK, LocalsInv, InCharge
  <2>. QED  BY <2>3
<1>10. NoLeakedID'
  BY DEF IndInv, NoLeakedID, TypeOK, Generators
<1>. QED  BY <1>1, <1>2, <1>3, <1>4, <1>5, <1>6, <1>7, <1>8, <1>9, <1>10 DEF IndInv

-----------------------------------------------------------------------------
\* The invariant holds initially and along every step.
THEOREM SpecImpliesIndInv == Spec => []IndInv
<1>1. Init => IndInv
  BY MaxSessionsAssumption DEF Init, IndInv, TypeOK, LocalsInv, CreatedInv, FreshInv,
     Untouched, MemberInv, HandlerInv, SignalInv, StoredSessionIsOpen, NoAbandonedSession,
     NoLeakedID, Generators, EmptyGenerator, Sessions, SessionIDs, None,
     Idle, JoinSteps, LeaveSteps
<1>2. IndInv /\ [Next]_vars => IndInv'
  <2> SUFFICES ASSUME IndInv, [Next]_vars PROVE IndInv'
    OBVIOUS
  <2>1. CASE UNCHANGED vars
    BY <2>1 DEF IndInv, TypeOK, LocalsInv, CreatedInv, FreshInv, Untouched, MemberInv,
       HandlerInv, SignalInv, StoredSessionIsOpen, NoAbandonedSession, InCharge, NoLeakedID,
       vars, storeVars, sessionVars, frameVars, connVars
  <2>2. ASSUME NEW c \in Conns, Connect(c) PROVE IndInv'
    BY <2>2, ConnectPreserves
  <2>3. ASSUME NEW c \in Conns, NEW id \in SessionIDs \cup {None}, ReceiveJoin(c, id)
        PROVE  IndInv'
    BY <2>3, ReceiveJoinPreserves
  <2>4. ASSUME NEW c \in Conns, Disconnect(c) PROVE IndInv'
    BY <2>4, DisconnectPreserves
  <2>5. ASSUME NEW c \in Conns, Handle(c) PROVE IndInv'
    BY <2>5, LookupPreserves, NewSessionPreserves, StoreAddPreserves, StartDispatchFramesPreserves,
       AddParticipantPreserves, HandleFramePreserves, StopFramePreserves, RemoveParticipantPreserves, CountPreserves,
       RemovePreserves, CloseSessionPreserves DEF Handle
  <2>6. ASSUME NEW s \in Sessions, DispatcherExit(s) PROVE IndInv'
    BY <2>6, DispatcherExitPreserves
  <2>. QED  BY <2>1, <2>2, <2>3, <2>4, <2>5, <2>6 DEF Next
<1>. QED  BY <1>1, <1>2, PTL DEF Spec

-----------------------------------------------------------------------------
(* The results.                                                            *)

\* Every variable keeps its type: in particular closeFrameChan never holds
\* more than the one element its buffer has room for.
THEOREM TypeCorrect == Spec => []TypeOK
<1>1. IndInv => TypeOK
  BY DEF IndInv
<1>. QED  BY <1>1, SpecImpliesIndInv, PTL

\* A join is never handed a closed session by the store, nor one whose
\* dispatcher is neither running nor about to be started by its creator.
THEOREM StoreHoldsOpenSessions == Spec => []StoredSessionIsOpen
<1>1. IndInv => StoredSessionIsOpen
  BY DEF IndInv
<1>. QED  BY <1>1, SpecImpliesIndInv, PTL

\* An open session without participants always has a goroutine in charge.
THEOREM NoSessionIsAbandoned == Spec => []NoAbandonedSession
<1>1. IndInv => NoAbandonedSession
  BY DEF IndInv
<1>. QED  BY <1>1, SpecImpliesIndInv, PTL

\* Frames only reach participants, and nobody is in two sessions.
THEOREM FramesReachMembers == Spec => []HandlersAreMembers
<1>1. IndInv => HandlersAreMembers
  <2> SUFFICES ASSUME IndInv PROVE HandlersAreMembers
    OBVIOUS
  <2>1. \A s \in Sessions : frameHandlers[s] \subseteq participants[s]
    BY DEF IndInv, TypeOK, MemberInv, HandlerInv
  <2>2. ASSUME NEW s \in Sessions, NEW t \in Sessions, s # t
        PROVE  participants[s] \cap participants[t] = {}
    BY <2>2 DEF IndInv, TypeOK, LocalsInv, MemberInv, Sessions, None, JoinSteps, LeaveSteps
  <2>. QED  BY <2>1, <2>2 DEF HandlersAreMembers
<1>. QED  BY <1>1, SpecImpliesIndInv, PTL

\* No session id is ever lost to the generator.
THEOREM IDsAreNotLeaked == Spec => []NoLeakedID
<1>1. IndInv => NoLeakedID
  BY DEF IndInv
<1>. QED  BY <1>1, SpecImpliesIndInv, PTL

-----------------------------------------------------------------------------
(* SessionLifecycle implements SessionMembership: every initial state maps *)
(* to an initial state and every step to a step or to a stuttering step.   *)
(* The fairness part of ImplementsMembership stays with TLC.               *)

\* Two of the mapped variables (the others are participants and Doomed).
phaseMap == [s \in Sessions |-> Phase(s)]
pickedMap == [c \in Conns |-> Picked(c)]

\* No session is open, picked or entered at the start.
LEMMA InitRefines == Init => Membership!Init
BY DEF Init, Membership!Init, Phase, Registered, Picked, Doomed, Sessions

\* A session somebody is in, leaves or is about to enter was registered.
LEMMA UsedSessionsAreRegistered ==
    ASSUME IndInv, NEW c \in Conns
    PROVE  /\ current[c] # None => current[c] \in Sessions /\ Registered(current[c])
           /\ pc[c] \in {"startDispatch", "addParticipant", "handleFrame"} =>
                 target[c] \in Sessions /\ Registered(target[c])
BY DEF IndInv, TypeOK, LocalsInv, CreatedInv, FreshInv, Registered

\* So was every session in the store.
LEMMA StoredSessionsAreRegistered ==
    ASSUME IndInv, NEW k \in SessionIDs, store[k] # None
    PROVE  store[k] \in Sessions /\ Registered(store[k])
BY DEF IndInv, TypeOK, CreatedInv, FreshInv, Registered

\* A step that makes and registers no session and closes none changes no
\* phase.
LEMMA SamePhases ==
    ASSUME TypeOK, NEW c \in Conns, NEW place, pc' = [pc EXCEPT ![c] = place],
           pc[c] # "storeAdd", place # "storeAdd",
           \A d \in Conns \ {c} : target'[d] = target[d],
           UNCHANGED <<created, closed>>
    PROVE  phaseMap' = phaseMap
<1>1. \A s \in Sessions : Registered(s)' = Registered(s)
  BY DEF TypeOK, Registered
<1>. QED  BY <1>1 DEF phaseMap, Phase

\* A step of c that neither comes from nor goes to a place where the session
\* is picked and not yet entered.
LEMMA SamePicks ==
    ASSUME TypeOK, NEW c \in Conns, NEW place, pc' = [pc EXCEPT ![c] = place],
           pc[c] \notin {"startDispatch", "addParticipant"},
           place \notin {"startDispatch", "addParticipant"},
           \A d \in Conns \ {c} : target'[d] = target[d]
    PROVE  pickedMap' = pickedMap
<1>1. \A d \in Conns : Picked(d)' = Picked(d)
  BY DEF TypeOK, Picked
<1>. QED  BY <1>1 DEF pickedMap

\* A step of c that neither comes from nor goes to Remove.
LEMMA SameDoomed ==
    ASSUME TypeOK, NEW c \in Conns, NEW place, pc' = [pc EXCEPT ![c] = place],
           pc[c] # "remove", place # "remove", closed' = closed,
           \A d \in Conns \ {c} : current'[d] = current[d]
    PROVE  Doomed' = Doomed
BY DEF TypeOK, Doomed

\* Nothing changes abstractly when the three maps and the participants stay.
LEMMA Stutter ==
    ASSUME phaseMap' = phaseMap, pickedMap' = pickedMap, Doomed' = Doomed,
           participants' = participants
    PROVE  UNCHANGED Membership!vars
BY DEF Membership!vars, phaseMap, pickedMap

\* The steps that are invisible in the abstract specification: the first
\* group makes no session.
LEMMA InvisibleSteps ==
    ASSUME IndInv, NEW c \in Conns,
           \/ Connect(c) \/ (\E id \in SessionIDs \cup {None} : ReceiveJoin(c, id))
           \/ Disconnect(c) \/ HandleFrame(c) \/ StopFrame(c) \/ CloseSession(c)
    PROVE  UNCHANGED Membership!vars
<1> USE DEF storeVars, sessionVars, frameVars, connVars, EndLeave, Close
<1>1. TypeOK
  BY DEF IndInv
<1>2. closed' = closed
  <2>1. CASE CloseSession(c)
    <3>1. closed \in [Sessions -> BOOLEAN] /\ closed[current[c]] = TRUE
      BY <2>1 DEF IndInv, TypeOK, SignalInv, LocalsInv, CloseSession, LeaveSteps
    <3>. QED  BY <2>1, <3>1 DEF CloseSession
  <2>. QED  BY <2>1 DEF Connect, ReceiveJoin, Disconnect, HandleFrame, StopFrame
<1>3. created' = created /\ participants' = participants
  BY DEF Connect, ReceiveJoin, Disconnect, HandleFrame, StopFrame, CloseSession
<1>4. PICK place : /\ pc' = [pc EXCEPT ![c] = place]
                   /\ place \notin {"storeAdd", "startDispatch", "addParticipant", "remove"}
                   /\ pc[c] \notin {"storeAdd", "startDispatch", "addParticipant", "remove"}
  BY DEF Connect, ReceiveJoin, Disconnect, HandleFrame, StopFrame, CloseSession
<1>5. \A d \in Conns \ {c} : target'[d] = target[d] /\ current'[d] = current[d]
  BY <1>1 DEF TypeOK, Connect, ReceiveJoin, Disconnect, HandleFrame, StopFrame, CloseSession
<1>6. phaseMap' = phaseMap
  BY <1>1, <1>2, <1>3, <1>4, <1>5, SamePhases
<1>7. pickedMap' = pickedMap
  BY <1>1, <1>4, <1>5, SamePicks
<1>8. Doomed' = Doomed
  BY <1>1, <1>2, <1>4, <1>5, SameDoomed
<1>. QED  BY <1>3, <1>6, <1>7, <1>8, Stutter

\* A new session is not registered yet.
LEMMA NewSessionRefines ==
    ASSUME IndInv, NEW c \in Conns, NewSession(c)
    PROVE  UNCHANGED Membership!vars
<1>1. /\ TypeOK /\ pc[c] = "newSession" /\ pc' = [pc EXCEPT ![c] = "storeAdd"]
      /\ created' = created + 1 /\ target' = [target EXCEPT ![c] = created + 1]
      /\ UNCHANGED <<closed, participants, current>>
  BY DEF IndInv, NewSession, frameVars
<1>2. \A s \in Sessions : Registered(s)' = Registered(s)
  BY <1>1 DEF TypeOK, Registered, Sessions
<1>3. phaseMap' = phaseMap
  BY <1>1, <1>2 DEF phaseMap, Phase
<1>4. \A d \in Conns \ {c} : target'[d] = target[d]
  BY <1>1 DEF TypeOK
<1>5. pickedMap' = pickedMap
  <2>1. \A d \in Conns : Picked(d)' = Picked(d)
    BY <1>1, <1>4 DEF TypeOK, Picked
  <2>. QED  BY <2>1 DEF pickedMap
<1>6. Doomed' = Doomed
  BY <1>1, SameDoomed
<1>. QED  BY <1>1, <1>3, <1>5, <1>6, Stutter

\* The session whose dispatcher starts was picked by its registration.
LEMMA StartDispatchFramesRefines ==
    ASSUME IndInv, NEW c \in Conns, StartDispatchFrames(c)
    PROVE  UNCHANGED Membership!vars
<1>1. /\ TypeOK /\ pc[c] = "startDispatch" /\ pc' = [pc EXCEPT ![c] = "addParticipant"]
      /\ UNCHANGED <<created, closed, participants, current, target>>
  BY DEF IndInv, StartDispatchFrames, sessionVars
<1>2. phaseMap' = phaseMap
  BY <1>1, SamePhases
<1>3. \A d \in Conns : Picked(d)' = Picked(d)
  BY <1>1 DEF TypeOK, Picked
<1>4. pickedMap' = pickedMap
  BY <1>3 DEF pickedMap
<1>5. Doomed' = Doomed
  BY <1>1, SameDoomed
<1>. QED  BY <1>1, <1>2, <1>4, <1>5, Stutter

-----------------------------------------------------------------------------
(* The steps of HandleParticipantJoin.                                     *)

\* A connection that works on a join is in no session.
LEMMA JoinersAreUnattached ==
    ASSUME IndInv, NEW c \in Conns, pc[c] \in {"lookup", "storeAdd"}
    PROVE  Membership!Unattached(c)
<1>1. pickedMap[c] = None
  BY DEF pickedMap, Picked
<1>2. \A s \in Sessions : c \notin participants[s]
  BY DEF IndInv, MemberInv, LocalsInv, JoinSteps, Sessions, None
<1>. QED  BY <1>1, <1>2 DEF Membership!Unattached, pickedMap

\* Lookup picks the session it finds in the store, which is open.
LEMMA LookupRefines ==
    ASSUME IndInv, NEW c \in Conns, Lookup(c)
    PROVE  Membership!Next \/ UNCHANGED Membership!vars
<1> USE DEF storeVars, sessionVars, frameVars
<1> DEFINE found == IF joinID[c] = None THEN None ELSE store[joinID[c]]
<1>1. /\ TypeOK /\ pc[c] = "lookup" /\ target' = [target EXCEPT ![c] = found]
      /\ UNCHANGED <<created, closed, participants, current>>
  BY DEF IndInv, Lookup
<1>2. phaseMap' = phaseMap
  <2>1. PICK place \in {"addParticipant", "newSession", "ready"} : pc' = [pc EXCEPT ![c] = place]
    BY DEF Lookup
  <2>2. \A d \in Conns \ {c} : target'[d] = target[d]
    BY <1>1 DEF TypeOK
  <2>. QED  BY <1>1, <2>1, <2>2, SamePhases
<1>3. CASE found = None
  <2>1. \E place \in {"newSession", "ready"} : pc' = [pc EXCEPT ![c] = place]
    BY <1>3 DEF Lookup
  <2>2. pickedMap' = pickedMap
    BY <1>1, <2>1, SamePicks DEF TypeOK
  <2>3. Doomed' = Doomed
    BY <1>1, <2>1, SameDoomed
  <2>. QED  BY <1>1, <1>2, <2>2, <2>3, Stutter
<1>4. CASE found # None
  <2>1. pc' = [pc EXCEPT ![c] = "addParticipant"]
    BY <1>4 DEF Lookup
  <2>2. found \in Sessions /\ phaseMap[found] = "open"
    <3>1. joinID[c] \in SessionIDs /\ found = store[joinID[c]]
      BY <1>1, <1>4 DEF TypeOK
    <3>2. found \in Sessions /\ Registered(found)
      BY <1>4, <3>1, StoredSessionsAreRegistered
    <3>3. ~ closed[found]
      BY <1>4, <3>1 DEF IndInv, StoredSessionIsOpen
    <3>. QED  BY <3>2, <3>3 DEF phaseMap, Phase
  <2>3. pickedMap' = [pickedMap EXCEPT ![c] = found]
    BY <1>1, <2>1 DEF pickedMap, Picked, TypeOK
  <2>4. Doomed' = Doomed
    BY <1>1, <2>1, SameDoomed
  <2>5. Membership!Unattached(c)
    BY <1>1, JoinersAreUnattached
  <2>6. Membership!Pick(c, found)
    BY <1>1, <1>2, <2>2, <2>3, <2>4, <2>5 DEF Membership!Pick, phaseMap, pickedMap
  <2>. QED  BY <2>2, <2>6 DEF Membership!Next
<1>. QED  BY <1>3, <1>4

\* Registering a session opens it and picks it for the connection.
LEMMA StoreAddRefines ==
    ASSUME IndInv, NEW c \in Conns, StoreAdd(c)
    PROVE  Membership!Next
<1> USE DEF sessionVars, frameVars
<1> DEFINE s == target[c]
<1>1. /\ TypeOK /\ pc[c] = "storeAdd" /\ pc' = [pc EXCEPT ![c] = "startDispatch"]
      /\ UNCHANGED <<created, closed, participants, current, target>>
  BY DEF IndInv, StoreAdd
<1>2. s \in Sessions /\ s <= created /\ ~ closed[s] /\ \A d \in Conns \ {c} : target[d] # s
  BY <1>1 DEF IndInv, TypeOK, LocalsInv, CreatedInv, FreshInv, Untouched
<1>3. ~ Registered(s) /\ Registered(s)'
  BY <1>1, <1>2 DEF TypeOK, Registered
<1>4. \A r \in Sessions \ {s} : Registered(r)' = Registered(r)
  BY <1>1 DEF TypeOK, Registered
<1>5. phaseMap[s] = "new" /\ phaseMap' = [phaseMap EXCEPT ![s] = "open"]
  BY <1>1, <1>2, <1>3, <1>4 DEF phaseMap, Phase
<1>6. pickedMap' = [pickedMap EXCEPT ![c] = s]
  BY <1>1 DEF TypeOK, pickedMap, Picked
<1>7. Doomed' = Doomed
  BY <1>1, SameDoomed
<1>8. Membership!Unattached(c)
  BY <1>1, JoinersAreUnattached
<1>9. Membership!Open(c, s)
  BY <1>1, <1>5, <1>6, <1>7, <1>8 DEF Membership!Open, phaseMap, pickedMap
<1>. QED  BY <1>2, <1>9 DEF Membership!Next

LEMMA AddParticipantRefines ==
    ASSUME IndInv, NEW c \in Conns, AddParticipant(c)
    PROVE  Membership!Next
<1> USE DEF storeVars, sessionVars, frameVars
<1> DEFINE s == target[c]
<1>1. /\ TypeOK /\ pc[c] = "addParticipant" /\ pc' = [pc EXCEPT ![c] = "handleFrame"]
      /\ participants' = [participants EXCEPT ![s] = @ \cup {c}]
      /\ UNCHANGED <<created, closed, current, target>>
  BY DEF IndInv, AddParticipant
<1>2. s \in Sessions
  BY <1>1 DEF IndInv, TypeOK, LocalsInv
<1>3. phaseMap' = phaseMap
  BY <1>1, SamePhases
<1>4. pickedMap[c] = s /\ pickedMap' = [pickedMap EXCEPT ![c] = None]
  BY <1>1 DEF TypeOK, pickedMap, Picked
<1>5. Doomed' = Doomed
  BY <1>1, SameDoomed
<1>6. Membership!Enter(c, s)
  BY <1>1, <1>3, <1>4, <1>5 DEF Membership!Enter, phaseMap, pickedMap
<1>. QED  BY <1>2, <1>6 DEF Membership!Next

-----------------------------------------------------------------------------
(* The steps of leaveSession.                                              *)

LEMMA RemoveParticipantRefines ==
    ASSUME IndInv, NEW c \in Conns, RemoveParticipant(c)
    PROVE  Membership!Next
<1> USE DEF storeVars, sessionVars, frameVars
<1> DEFINE s == current[c]
<1>1. /\ TypeOK /\ pc[c] = "removeParticipant" /\ pc' = [pc EXCEPT ![c] = "count"]
      /\ participants' = [participants EXCEPT ![s] = @ \ {c}]
      /\ UNCHANGED <<created, closed, current, target>>
  BY DEF IndInv, RemoveParticipant
<1>2. s \in Sessions /\ c \in participants[s]
  BY <1>1 DEF IndInv, TypeOK, LocalsInv, MemberInv, LeaveSteps
<1>3. phaseMap' = phaseMap /\ pickedMap' = pickedMap /\ Doomed' = Doomed
  BY <1>1, SamePhases, SamePicks, SameDoomed
<1>4. Membership!Exit(c, s)
  BY <1>1, <1>2, <1>3 DEF Membership!Exit, phaseMap, pickedMap
<1>. QED  BY <1>2, <1>4 DEF Membership!Next

\* A count of zero dooms the session, unless another leaver has done so or
\* has closed it already.
LEMMA CountRefines ==
    ASSUME IndInv, NEW c \in Conns, Count(c)
    PROVE  Membership!Next \/ UNCHANGED Membership!vars
<1> USE DEF storeVars, sessionVars, frameVars
<1> DEFINE s == current[c]
<1>1. TypeOK /\ pc[c] = "count" /\ UNCHANGED <<created, closed, participants, target>>
  BY DEF IndInv, Count, EndLeave
<1>2. s \in Sessions /\ Registered(s)
  BY <1>1, UsedSessionsAreRegistered DEF IndInv, LocalsInv, LeaveSteps
<1>3. PICK place \in {"remove", "gone", "lookup"} : pc' = [pc EXCEPT ![c] = place]
  BY DEF Count, EndLeave
<1>4. phaseMap' = phaseMap
  BY <1>1, <1>3, SamePhases
<1>5. pickedMap' = pickedMap
  BY <1>1, <1>3, SamePicks
<1>6. CASE participants[s] # {}
  <2>1. /\ \E k \in {"gone", "lookup"} : pc' = [pc EXCEPT ![c] = k]
        /\ current' = [current EXCEPT ![c] = None]
    BY <1>6 DEF Count, EndLeave
  <2>2. \A d \in Conns \ {c} : current'[d] = current[d]
    BY <1>1, <2>1 DEF TypeOK
  <2>3. Doomed' = Doomed
    BY <1>1, <2>1, <2>2, SameDoomed
  <2>. QED  BY <1>1, <1>4, <1>5, <2>3, Stutter
<1>7. CASE participants[s] = {}
  <2>1. pc' = [pc EXCEPT ![c] = "remove"] /\ current' = current
    BY <1>7 DEF Count
  <2>2. Doomed' = IF closed[s] THEN Doomed ELSE Doomed \cup {s}
    BY <1>1, <1>2, <2>1 DEF TypeOK, Doomed
  <2>3. CASE closed[s] \/ s \in Doomed
    <3>1. Doomed' = Doomed
      BY <2>2, <2>3
    <3>. QED  BY <1>1, <1>4, <1>5, <3>1, Stutter
  <2>4. CASE ~ closed[s] /\ s \notin Doomed
    <3>1. phaseMap[s] = "open"
      BY <1>2, <2>4 DEF phaseMap, Phase
    <3>2. Membership!SeenEmpty(s)
      BY <1>1, <1>4, <1>5, <1>7, <2>2, <2>4, <3>1 DEF Membership!SeenEmpty, phaseMap, pickedMap
    <3>. QED  BY <1>2, <3>2 DEF Membership!Next
  <2>. QED  BY <2>3, <2>4
<1>. QED  BY <1>6, <1>7

\* Sessions.Remove closes the session unless another leaver has.
LEMMA RemoveRefines ==
    ASSUME IndInv, NEW c \in Conns, Remove(c)
    PROVE  Membership!Next \/ UNCHANGED Membership!vars
<1> USE DEF storeVars, sessionVars, frameVars
<1> DEFINE s == current[c]
<1>1. /\ TypeOK /\ pc[c] = "remove" /\ pc' = [pc EXCEPT ![c] = "close"]
      /\ closed' = [closed EXCEPT ![s] = TRUE]
      /\ UNCHANGED <<created, participants, current, target>>
  BY DEF IndInv, Remove, StoreRemove, Close
<1>2. s \in Sessions /\ Registered(s)
  BY <1>1, UsedSessionsAreRegistered DEF IndInv, LocalsInv, LeaveSteps
<1>3. pickedMap' = pickedMap
  BY <1>1, SamePicks
<1>4. Doomed' = Doomed \ {s}
  BY <1>1, <1>2 DEF TypeOK, Doomed
<1>5. CASE closed[s]
  <2>1. closed' = closed
    BY <1>1, <1>5 DEF TypeOK
  <2>2. phaseMap' = phaseMap
    BY <1>1, <2>1, SamePhases
  <2>3. Doomed' = Doomed
    BY <1>4, <1>5 DEF Doomed
  <2>. QED  BY <1>1, <1>3, <2>2, <2>3, Stutter
<1>6. CASE ~ closed[s]
  <2>1. s \in Doomed
    BY <1>1, <1>2, <1>6 DEF Doomed
  <2>2. phaseMap' = [phaseMap EXCEPT ![s] = "closed"]
    <3>1. \A r \in Sessions : Registered(r)' = Registered(r)
      BY <1>1 DEF TypeOK, Registered
    <3>. QED  BY <1>1, <1>2, <3>1 DEF TypeOK, phaseMap, Phase
  <2>3. Membership!Close(s)
    BY <1>1, <1>3, <1>4, <2>1, <2>2 DEF Membership!Close, phaseMap, pickedMap
  <2>. QED  BY <1>2, <2>3 DEF Membership!Next
<1>. QED  BY <1>5, <1>6

-----------------------------------------------------------------------------
\* A dispatcher that ends changes nothing abstractly.
LEMMA DispatcherExitRefines ==
    ASSUME IndInv, NEW s \in Sessions, DispatcherExit(s)
    PROVE  UNCHANGED Membership!vars
BY DEF DispatcherExit, sessionVars, connVars, Membership!vars, Phase, Registered, Picked, Doomed

\* Every step is an abstract step or stutters.
LEMMA StepRefines ==
    ASSUME IndInv, [Next]_vars
    PROVE  [Membership!Next]_(Membership!vars)
<1>1. CASE UNCHANGED vars
  BY <1>1 DEF vars, storeVars, sessionVars, frameVars, connVars, Membership!vars,
              Phase, Registered, Picked, Doomed
<1>2. ASSUME NEW s \in Sessions, DispatcherExit(s)
      PROVE  [Membership!Next]_(Membership!vars)
  BY <1>2, DispatcherExitRefines
<1>3. ASSUME NEW c \in Conns,
             \/ Connect(c) \/ (\E id \in SessionIDs \cup {None} : ReceiveJoin(c, id))
             \/ Disconnect(c) \/ Handle(c)
      PROVE  [Membership!Next]_(Membership!vars)
  BY <1>3, InvisibleSteps, LookupRefines, NewSessionRefines, StoreAddRefines,
     StartDispatchFramesRefines, AddParticipantRefines, RemoveParticipantRefines, CountRefines, RemoveRefines DEF Handle
<1>. QED  BY <1>1, <1>2, <1>3 DEF Next

\* The session store, the sessions and the join and leave handlers implement
\* SessionMembership, for any number of connections and sessions: a session
\* opens and closes once, HandleParticipantJoin only picks open sessions, and
\* leaveSession only closes a session that was seen empty.
THEOREM LifecycleImplementsMembership == Spec => Membership!Spec
<1>1. IndInv /\ [Next]_vars => [Membership!Next]_(Membership!vars)
  BY StepRefines
<1>. QED  BY <1>1, InitRefines, SpecImpliesIndInv, PTL DEF Spec, Membership!Spec

=============================================================================
