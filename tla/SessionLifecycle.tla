-------------------------- MODULE SessionLifecycle --------------------------
(***************************************************************************)
(* How sessions come and go: SessionStore (models/session.go), the session *)
(* membership kept by Session, and the two handlers that change it,        *)
(* HandleParticipantJoin and leaveSession (websocket/realtime.go).         *)
(*                                                                         *)
(* Every connection has one goroutine that handles its messages in turn;   *)
(* pc[c] is where it stands.  Each mutex-protected call on the store or on *)
(* a session is one step, and the steps of different connections           *)
(* interleave freely: no lock is held from one call to the next.           *)
(* A session is named by its order of creation (its identity, *Session in  *)
(* the code), which differs from its id: ids are handed out again.         *)
(***************************************************************************)
EXTENDS Naturals, Integers, FiniteSets, SequentialIDGenerator

CONSTANTS Conns,        \* the websocket connections
          MaxSessions   \* bound: how many sessions are ever created

ASSUME MaxSessionsAssumption == MaxSessions \in Nat \ {0}

Sessions == 1 .. MaxSessions
SessionIDs == 1 .. MaxSessions
None == 0              \* no session; as a requested id, the empty string

VARIABLES
    ids,            \* SessionStore.ids
    store,          \* SessionStore.sessions: id -> session or None
    gauge,          \* the session_count gauge
    created,        \* how many sessions NewSession has made
    sid,            \* Session.ID, None before the session is made
    participants,   \* Session.participants, by connection
    frameHandlers,  \* Session.frameHandlers, by connection
    closed,         \* Session.closeOnce has fired
    closeFrameChan, \* elements waiting in Session.closeFrameChan (capacity 1)
    dispatcher,     \* the StartDispatchFrames goroutine
    pc,             \* where the connection's handler goroutine stands
    current,        \* RealtimeHandler.currentSession
    target,         \* the local variable session of HandleParticipantJoin
    joinID,         \* the session id in the join request being handled
    disconnecting   \* connections that are in HandleDisconnect

storeVars == <<ids, store, gauge>>
sessionVars == <<created, sid, participants, frameHandlers>>
frameVars == <<closed, closeFrameChan, dispatcher>>
connVars == <<pc, current, target, joinID, disconnecting>>
vars == <<storeVars, sessionVars, frameVars, connVars>>

\* The places inside HandleParticipantJoin and inside leaveSession.
JoinSteps ==
    {"lookup", "newSession", "storeAdd", "startDispatch", "addParticipant", "handleFrame"}
LeaveSteps == {"stopFrame", "removeParticipant", "count", "remove", "close"}
Idle == {"gone", "ready"}

TypeOK ==
    /\ ids \in Generators(MaxSessions)
    /\ store \in [SessionIDs -> Sessions \cup {None}]
    /\ gauge \in Int
    /\ created \in 0 .. MaxSessions
    /\ sid \in [Sessions -> SessionIDs \cup {None}]
    /\ participants \in [Sessions -> SUBSET Conns]
    /\ frameHandlers \in [Sessions -> SUBSET Conns]
    /\ closed \in [Sessions -> BOOLEAN]
    /\ closeFrameChan \in [Sessions -> 0 .. 1]
    /\ dispatcher \in [Sessions -> {"none", "running", "done"}]
    /\ pc \in [Conns -> Idle \cup JoinSteps \cup LeaveSteps]
    /\ current \in [Conns -> Sessions \cup {None}]
    /\ target \in [Conns -> Sessions \cup {None}]
    /\ joinID \in [Conns -> SessionIDs \cup {None}]
    /\ disconnecting \in SUBSET Conns

Init ==
    /\ ids = EmptyGenerator
    /\ store = [k \in SessionIDs |-> None]
    /\ gauge = 0
    /\ created = 0
    /\ sid = [s \in Sessions |-> None]
    /\ participants = [s \in Sessions |-> {}]
    /\ frameHandlers = [s \in Sessions |-> {}]
    /\ closed = [s \in Sessions |-> FALSE]
    /\ closeFrameChan = [s \in Sessions |-> 0]
    /\ dispatcher = [s \in Sessions |-> "none"]
    /\ pc = [c \in Conns |-> "gone"]
    /\ current = [c \in Conns |-> None]
    /\ target = [c \in Conns |-> None]
    /\ joinID = [c \in Conns |-> None]
    /\ disconnecting = {}

-----------------------------------------------------------------------------
(* Messages and disconnection reach an idle handler goroutine.             *)

\* A client connects: HandleConnect, then the select loop.
Connect(c) ==
    /\ pc[c] = "gone"
    /\ pc' = [pc EXCEPT ![c] = "ready"]
    /\ UNCHANGED <<storeVars, sessionVars, frameVars,
                   current, target, joinID, disconnecting>>

\* The request to join the session the connection is already in, which is
\* answered with an error and changes nothing.  The code compares ids.
AlreadyJoined(c, id) == current[c] # None /\ sid[current[c]] = id

\* Connections that have yet to create the session they were asked for.
Creators == {c \in Conns : /\ pc[c] \in LeaveSteps \cup {"lookup", "newSession"}
                           /\ joinID[c] = None
                           /\ c \notin disconnecting}

\* A join request with the given session id arrives (None asks for a new
\* session).  A joined connection first leaves the session it is in.
\* MaxSessions bounds the requests for new sessions.
ReceiveJoin(c, id) ==
    /\ pc[c] = "ready"
    /\ ~ AlreadyJoined(c, id)
    /\ id = None => created + Cardinality(Creators) < MaxSessions
    /\ joinID' = [joinID EXCEPT ![c] = id]
    /\ pc' = [pc EXCEPT ![c] = IF current[c] # None THEN "stopFrame" ELSE "lookup"]
    /\ UNCHANGED <<storeVars, sessionVars, frameVars, current, target, disconnecting>>

\* The select loop takes an element of disconnectChan: HandleDisconnect
\* leaves the session, if there is one, and the loop ends.
Disconnect(c) ==
    /\ pc[c] = "ready"
    /\ IF current[c] # None
       THEN /\ pc' = [pc EXCEPT ![c] = "stopFrame"]
            /\ disconnecting' = disconnecting \cup {c}
       ELSE /\ pc' = [pc EXCEPT ![c] = "gone"]
            /\ UNCHANGED disconnecting
    /\ UNCHANGED <<storeVars, sessionVars, frameVars, current, target, joinID>>

-----------------------------------------------------------------------------
(* HandleParticipantJoin, after the session was left.                      *)

\* GetByGlobalID, and the NOT_FOUND answer when it finds nothing.
Lookup(c) ==
    LET found == IF joinID[c] = None THEN None ELSE store[joinID[c]] IN
    /\ pc[c] = "lookup"
    /\ target' = [target EXCEPT ![c] = found]
    /\ pc' = [pc EXCEPT ![c] = IF found # None THEN "addParticipant"
                               ELSE IF joinID[c] = None THEN "newSession"
                               ELSE "ready"]
    /\ joinID' = [joinID EXCEPT ![c] = None]
    /\ UNCHANGED <<storeVars, sessionVars, frameVars, current, disconnecting>>

\* NewSession(Sessions.NewID(), ...).
NewSession(c) ==
    /\ pc[c] = "newSession"
    /\ created < MaxSessions
    /\ \E id \in NewIDs(ids) :
          /\ ids' = AfterNew(ids, id)
          /\ sid' = [sid EXCEPT ![created + 1] = id]
    /\ created' = created + 1
    /\ target' = [target EXCEPT ![c] = created + 1]
    /\ pc' = [pc EXCEPT ![c] = "storeAdd"]
    /\ UNCHANGED <<store, gauge, participants, frameHandlers, frameVars,
                   current, joinID, disconnecting>>

\* Sessions.Add, which never fails.  From here on others find the session.
StoreAdd(c) ==
    /\ pc[c] = "storeAdd"
    /\ store' = [store EXCEPT ![sid[target[c]]] = target[c]]
    /\ gauge' = gauge + 1
    /\ pc' = [pc EXCEPT ![c] = "startDispatch"]
    /\ UNCHANGED <<ids, sessionVars, frameVars, current, target, joinID, disconnecting>>

\* go session.StartDispatchFrames(), after the store's lock was released:
\* others may have joined the session by now, or even left and closed it.
StartDispatchFrames(c) ==
    /\ pc[c] = "startDispatch"
    /\ dispatcher' = [dispatcher EXCEPT ![target[c]] = "running"]
    /\ pc' = [pc EXCEPT ![c] = "addParticipant"]
    /\ UNCHANGED <<storeVars, sessionVars, closed, closeFrameChan,
                   current, target, joinID, disconnecting>>

\* NewParticipantID and AddParticipant.
AddParticipant(c) ==
    /\ pc[c] = "addParticipant"
    /\ participants' = [participants EXCEPT ![target[c]] = @ \cup {c}]
    /\ pc' = [pc EXCEPT ![c] = "handleFrame"]
    /\ UNCHANGED <<storeVars, created, sid, frameHandlers, frameVars,
                   current, target, joinID, disconnecting>>

\* HandleFrame registers the connection's frame handler; the join is then
\* answered and currentSession is set.
HandleFrame(c) ==
    /\ pc[c] = "handleFrame"
    /\ frameHandlers' = [frameHandlers EXCEPT ![target[c]] = @ \cup {c}]
    /\ current' = [current EXCEPT ![c] = target[c]]
    /\ target' = [target EXCEPT ![c] = None]
    /\ pc' = [pc EXCEPT ![c] = "ready"]
    /\ UNCHANGED <<storeVars, created, sid, participants, frameVars,
                   joinID, disconnecting>>

-----------------------------------------------------------------------------
(* leaveSession.  Its first part (modules, subscriptions, entities) is the *)
(* subject of EntitySync; the broadcasts change no state of this module.   *)

\* Mutant: the closure forgets to delete the handler.
StopFrameKeepingHandler(c) ==
    /\ pc[c] = "stopFrame"
    /\ pc' = [pc EXCEPT ![c] = "removeParticipant"]
    /\ UNCHANGED <<storeVars, sessionVars, frameVars,
                   current, target, joinID, disconnecting>>

\* stopFrameHandling, the closure HandleFrame returned.
StopFrame(c) ==
    /\ pc[c] = "stopFrame"
    /\ frameHandlers' = [frameHandlers EXCEPT ![current[c]] = @ \ {c}]
    /\ pc' = [pc EXCEPT ![c] = "removeParticipant"]
    /\ UNCHANGED <<storeVars, created, sid, participants, frameVars,
                   current, target, joinID, disconnecting>>

RemoveParticipant(c) ==
    /\ pc[c] = "removeParticipant"
    /\ participants' = [participants EXCEPT ![current[c]] = @ \ {c}]
    /\ pc' = [pc EXCEPT ![c] = "count"]
    /\ UNCHANGED <<storeVars, created, sid, frameHandlers, frameVars,
                   current, target, joinID, disconnecting>>

\* The end of leaveSession: currentSession is cleared, then the handler
\* looks the requested session up, or the select loop ends.
EndLeave(c) ==
    /\ current' = [current EXCEPT ![c] = None]
    /\ pc' = [pc EXCEPT ![c] = IF c \in disconnecting THEN "gone" ELSE "lookup"]
    /\ disconnecting' = disconnecting \ {c}
    /\ UNCHANGED <<target, joinID>>

\* Mutant: the count is compared as if the leaver were still a participant.
CountIncludingLeaver(c) ==
    /\ pc[c] = "count"
    /\ IF participants[current[c]] = {c}
       THEN /\ pc' = [pc EXCEPT ![c] = "remove"]
            /\ UNCHANGED <<current, target, joinID, disconnecting>>
       ELSE EndLeave(c)
    /\ UNCHANGED <<storeVars, sessionVars, frameVars>>

\* Mutant: the session is removed whoever is in it.
CountNot(c) ==
    /\ pc[c] = "count"
    /\ pc' = [pc EXCEPT ![c] = "remove"]
    /\ UNCHANGED <<storeVars, sessionVars, frameVars, current, target, joinID, disconnecting>>

\* ParticipantCount() == 0, read on its own.
Count(c) ==
    /\ pc[c] = "count"
    /\ IF participants[current[c]] = {}
       THEN /\ pc' = [pc EXCEPT ![c] = "remove"]
            /\ UNCHANGED <<current, target, joinID, disconnecting>>
       ELSE EndLeave(c)
    /\ UNCHANGED <<storeVars, sessionVars, frameVars>>

\* Mutant: Close without closeOnce.
CloseEveryTime(s) ==
    /\ closeFrameChan[s] < 1
    /\ closed' = [closed EXCEPT ![s] = TRUE]
    /\ closeFrameChan' = [closeFrameChan EXCEPT ![s] = @ + 1]
    /\ UNCHANGED dispatcher

\* Mutant: Close stops the ticker and forgets to signal the dispatcher.
CloseSilently(s) ==
    /\ closed' = [closed EXCEPT ![s] = TRUE]
    /\ UNCHANGED <<closeFrameChan, dispatcher>>

\* Mutant: the signal is sent on every call and never waits for room.
CloseUnbounded(s) ==
    /\ closed' = [closed EXCEPT ![s] = TRUE]
    /\ closeFrameChan' = [closeFrameChan EXCEPT ![s] = @ + 1]
    /\ UNCHANGED dispatcher

\* Session.Close: only the first call signals the dispatcher, and it waits
\* for room in closeFrameChan.
Close(s) ==
    /\ closed[s] \/ closeFrameChan[s] < 1
    /\ closed' = [closed EXCEPT ![s] = TRUE]
    /\ closeFrameChan' = [closeFrameChan EXCEPT ![s] = IF closed[s] THEN @ ELSE @ + 1]
    /\ UNCHANGED dispatcher

\* Mutant: Remove leaves the session registered.
StoreRemoveKeepingEntry(s) ==
    /\ Close(s)
    /\ ids' = Reuse(ids, sid[s])
    /\ gauge' = gauge - 1
    /\ UNCHANGED store

\* Mutant: Remove does not give the id back.
StoreRemoveKeepingID(s) ==
    /\ store' = [store EXCEPT ![sid[s]] = None]
    /\ Close(s)
    /\ gauge' = gauge - 1
    /\ UNCHANGED ids

\* Sessions.Remove: whatever is registered under the session's id goes, the
\* session is closed and its id may be handed out again.
StoreRemove(s) ==
    /\ store' = [store EXCEPT ![sid[s]] = None]
    /\ Close(s)
    /\ ids' = Reuse(ids, sid[s])
    /\ gauge' = gauge - 1

Remove(c) ==
    /\ pc[c] = "remove"
    /\ StoreRemove(current[c])
    /\ pc' = [pc EXCEPT ![c] = "close"]
    /\ UNCHANGED <<sessionVars, current, target, joinID, disconnecting>>

\* The second Close, outside the store's lock, and the end of leaveSession.
CloseSession(c) ==
    /\ pc[c] = "close"
    /\ Close(current[c])
    /\ EndLeave(c)
    /\ UNCHANGED <<storeVars, sessionVars>>

-----------------------------------------------------------------------------
\* StartDispatchFrames receives from closeFrameChan and returns.  A tick of
\* the frame ticker calls the frame handlers and changes nothing here.
DispatcherExit(s) ==
    /\ dispatcher[s] = "running"
    /\ closeFrameChan[s] = 1
    /\ dispatcher' = [dispatcher EXCEPT ![s] = "done"]
    /\ closeFrameChan' = [closeFrameChan EXCEPT ![s] = 0]
    /\ UNCHANGED <<storeVars, sessionVars, closed, connVars>>

\* The next step of the request the handler goroutine of c is working on.
Handle(c) ==
    \/ Lookup(c) \/ NewSession(c) \/ StoreAdd(c) \/ StartDispatchFrames(c)
    \/ AddParticipant(c) \/ HandleFrame(c)
    \/ StopFrame(c) \/ RemoveParticipant(c) \/ Count(c) \/ Remove(c) \/ CloseSession(c)

Next ==
    \/ \E c \in Conns : \/ Connect(c)
                        \/ \E id \in SessionIDs \cup {None} : ReceiveJoin(c, id)
                        \/ Disconnect(c)
                        \/ Handle(c)
    \/ \E s \in Sessions : DispatcherExit(s)

Spec == Init /\ [][Next]_vars

\* Goroutines are scheduled, so a handler that can take its next step takes
\* it, and so does a dispatcher.  Nothing makes a client send or disconnect.
Fairness ==
    /\ \A c \in Conns : WF_vars(Handle(c))
    /\ \A s \in Sessions : WF_vars(DispatcherExit(s))

FairSpec == Spec /\ Fairness

-----------------------------------------------------------------------------
(* Properties.                                                             *)

\* What the store hands to a joiner is usable: the session registered under
\* an id carries that id, is not closed, and its frame dispatcher runs or
\* the connection that created the session is about to start it.  Two
\* leavers that both remove a session, and ids handed out again, must not
\* leave a closed session, or one whose dispatcher ended, behind in
\* SessionStore.sessions.
StoredSessionIsOpen ==
    \A k \in SessionIDs : store[k] # None =>
        /\ sid[store[k]] = k
        /\ ~ closed[store[k]]
        /\ \/ dispatcher[store[k]] = "running"
           \/ \E c \in Conns : pc[c] = "startDispatch" /\ target[c] = store[k]

\* Some handler goroutine still has to decide what becomes of session s: it
\* is about to enter it, or it has left it and not finished leaveSession.
InCharge(c, s) ==
    \/ target[c] = s /\ pc[c] \in {"storeAdd", "startDispatch", "addParticipant"}
    \/ current[c] = s /\ pc[c] \in {"count", "remove"}

\* No session is forgotten: one that has no participants and is not closed
\* is in the hands of a goroutine that will enter or remove it, however the
\* separate steps of leaveSession (RemoveParticipant, ParticipantCount,
\* Remove) and of a join interleave.
NoAbandonedSession ==
    \A s \in Sessions :
        s <= created /\ participants[s] = {} /\ ~ closed[s] => \E c \in Conns : InCharge(c, s)

\* The frame ticker only calls connections that are participants, and a
\* connection is a participant of one session at a time.
HandlersAreMembers ==
    /\ \A s \in Sessions : frameHandlers[s] \subseteq participants[s]
    /\ \A s, t \in Sessions : s # t => participants[s] \cap participants[t] = {}

\* No id is lost: every id ever counted up to is reusable or is carried by a
\* session that is not closed, so the ids in use stay dense.
NoLeakedID ==
    \A k \in 1 .. ids.currentID :
        \/ k \in ids.reusableIDs
        \/ \E s \in Sessions : s <= created /\ sid[s] = k /\ ~ closed[s]

\* A handler goroutine gets through leaveSession and HandleParticipantJoin:
\* in particular neither call of Close ever waits on closeFrameChan for good.
RequestCompletes == \A c \in Conns : pc[c] \notin Idle ~> pc[c] \in Idle

\* The dispatcher goroutine of a closed session ends, also of one that was
\* closed before the dispatcher was started.
ClosedDispatcherExits == \A s \in Sessions : closed[s] ~> dispatcher[s] = "done"

-----------------------------------------------------------------------------
(* The abstract specification and the refinement mapping.  A session is    *)
(* open from its registration in the store to its first Close, picked from *)
(* the lookup or the registration to AddParticipant, and seen empty while  *)
(* a goroutine that counted no participants has yet to remove it.          *)

Registered(s) == s <= created /\ \A c \in Conns : pc[c] = "storeAdd" => target[c] # s
Phase(s) == IF ~ Registered(s) THEN "new" ELSE IF closed[s] THEN "closed" ELSE "open"
Picked(c) == IF pc[c] \in {"startDispatch", "addParticipant"} THEN target[c] ELSE None
Doomed == {s \in Sessions : ~ closed[s] /\ \E c \in Conns : pc[c] = "remove" /\ current[c] = s}

Membership == INSTANCE SessionMembership WITH
    NoSession <- None,
    phase     <- [s \in Sessions |-> Phase(s)],
    picked    <- [c \in Conns |-> Picked(c)],
    members   <- participants,
    doomed    <- Doomed

\* The handlers, the store and the sessions together implement the abstract
\* specification: sessions are opened and closed once, only open ones are
\* picked by HandleParticipantJoin, only ones that ParticipantCount saw empty
\* are closed by leaveSession, and no empty session stays open.
ImplementsMembership == Membership!FairSpec

-----------------------------------------------------------------------------
(* What the documentation says and the interleavings above do not keep.    *)

\* Each session is identified by its id (README.md): two sessions that both
\* have participants never carry the same one.
UniqueSessionIDs ==
    \A s, t \in Sessions :
        participants[s] # {} /\ participants[t] # {} /\ s # t => sid[s] # sid[t]

=============================================================================
