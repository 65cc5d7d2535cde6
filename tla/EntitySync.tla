----------------------------- MODULE EntitySync -----------------------------
(***************************************************************************)
(* Entities and participants of one session, and what every client is told *)
(* about them (websocket/realtime.go, models/session.go, models/entity.go, *)
(* models/participant.go).                                                 *)
(*                                                                         *)
(* The handlers of different connections interleave at every lock the code *)
(* releases.  Messages to one client travel through its sendChan in order, *)
(* so what the client will know once it has read them is the fold of the   *)
(* messages enqueued so far: seen[c] and members[c].  A client adds what   *)
(* the SessionState message lists to what broadcasts told it before.       *)
(*                                                                         *)
(* Broadcast holds participantMutex while it enqueues, and every message   *)
(* about one entity or one participant comes from one goroutine, so it is  *)
(* one step here.                                                          *)
(***************************************************************************)
EXTENDS Naturals, FiniteSets

CONSTANTS Conns,            \* the connections to the session
          MaxParticipants,  \* bound: how many joins ever happen
          MaxEntities,      \* bound: how many entities are ever added
          NumPoses,         \* how many poses are told apart
          Flags             \* feature flags set on this server

Broadcasts == {"DISABLE_PARTICIPANT_JOIN_BROADCAST", "DISABLE_PARTICIPANT_LEAVE_BROADCAST",
               "DISABLE_ENTITY_ADD_BROADCAST", "DISABLE_ENTITY_DELETE_BROADCAST",
               "DISABLE_ENTITY_UPDATE_POSE_BROADCAST"}

ASSUME EntitySyncAssumption ==
    /\ MaxParticipants \in Nat /\ MaxEntities \in Nat /\ NumPoses \in Nat \ {0}
    /\ Flags \subseteq Broadcasts \cup {"DISABLE_SESSION_STATE"}

ParticipantIDs == 1 .. MaxParticipants
EntityIDs == 1 .. MaxEntities
Poses == 1 .. NumPoses
None == 0              \* no participant, no entity, or an unknown pose

VARIABLES
    lastParticipantID, \* Session.participantIDs, of which nothing is reused
    participants,      \* the keys of Session.participants
    lastEntityID,      \* Session.entityIDs, of which nothing is reused
    entities,          \* the keys of Session.entities
    owner,             \* Entity.ParticipantID
    persist,           \* Entity.Persist
    pose,              \* Entity.pose
    pc,                \* where the connection's handler stands
    self,              \* RealtimeHandler.currentParticipant, by id
    owned,             \* Participant.entityIDs; while leaving, those left to visit
    arg,               \* the entity the handler is working on
    snapMembers,       \* SessionState being built: participants,
    listed,            \*   entities
    snapPoses,         \*   and their poses
    seen,              \* pose of each entity the client knows of, else None
    members,           \* participants the client knows of
    raced              \* history: what broadcasts said before the SessionState

sessionVars == <<lastParticipantID, participants>>
entityVars == <<lastEntityID, entities, owner, persist, pose>>
snapVars == <<snapMembers, listed, snapPoses>>
clientVars == <<seen, members, raced>>
vars == <<sessionVars, entityVars, snapVars, clientVars, pc, self, owned, arg>>

\* From AddParticipant until the SessionState is enqueued.
JoinWindow == {"getParticipants", "getEntities", "readPoses", "sendState"}
\* The entity in arg has changed and nobody else has been told.
Telling == {"addBroadcast", "deleteBroadcast", "poseBroadcast", "leaveDeleteBroadcast"}
Places == JoinWindow \cup Telling \cup
          {"out", "ready", "joinBroadcast", "leaveEntities", "leaveBroadcast"}

Unknown == [e \in EntityIDs |-> None]
NothingRaced == [entities |-> {}, participants |-> {}]

TypeOK ==
    /\ lastParticipantID \in 0 .. MaxParticipants
    /\ participants \in SUBSET ParticipantIDs
    /\ lastEntityID \in 0 .. MaxEntities
    /\ entities \in SUBSET EntityIDs
    /\ owner \in [EntityIDs -> ParticipantIDs \cup {None}]
    /\ persist \in [EntityIDs -> BOOLEAN]
    /\ pose \in [EntityIDs -> Poses \cup {None}]
    /\ pc \in [Conns -> Places]
    /\ self \in [Conns -> ParticipantIDs \cup {None}]
    /\ owned \in [Conns -> SUBSET EntityIDs]
    /\ arg \in [Conns -> EntityIDs \cup {None}]
    /\ snapMembers \in [Conns -> SUBSET ParticipantIDs]
    /\ listed \in [Conns -> SUBSET EntityIDs]
    /\ snapPoses \in [Conns -> [EntityIDs -> Poses \cup {None}]]
    /\ seen \in [Conns -> [EntityIDs -> Poses \cup {None}]]
    /\ members \in [Conns -> SUBSET ParticipantIDs]
    /\ raced \in [Conns -> [entities : SUBSET EntityIDs, participants : SUBSET ParticipantIDs]]

Init ==
    /\ lastParticipantID = 0 /\ participants = {}
    /\ lastEntityID = 0 /\ entities = {}
    /\ owner = [e \in EntityIDs |-> None]
    /\ persist = [e \in EntityIDs |-> FALSE]
    /\ pose = Unknown
    /\ pc = [c \in Conns |-> "out"]
    /\ self = [c \in Conns |-> None]
    /\ owned = [c \in Conns |-> {}]
    /\ arg = [c \in Conns |-> None]
    /\ snapMembers = [c \in Conns |-> {}]
    /\ listed = [c \in Conns |-> {}]
    /\ snapPoses = [c \in Conns |-> Unknown]
    /\ seen = [c \in Conns |-> Unknown]
    /\ members = [c \in Conns |-> {}]
    /\ raced = [c \in Conns |-> NothingRaced]

GoTo(c, place) == pc' = [pc EXCEPT ![c] = place]

-----------------------------------------------------------------------------
(* Session.Broadcast: every participant but the sender gets the message.   *)

\* Mutant: participants that are still joining are passed over.
SettledRecipients(c) == {d \in Conns \ {c} : self[d] \in participants /\ pc[d] \notin JoinWindow}

Recipients(c) == {d \in Conns \ {c} : self[d] \in participants}

\* Tell the recipients that entity e now has the given pose (None: deleted).
\* A pose update says nothing to a client that does not know the entity.
TellEntity(c, e, p, onlyKnown) ==
    LET heard(d) == d \in Recipients(c) /\ (onlyKnown => seen[d][e] # None) IN
    /\ seen' = [d \in Conns |-> IF heard(d) THEN [seen[d] EXCEPT ![e] = p] ELSE seen[d]]
    /\ raced' = [d \in Conns |->
                    IF d \in Recipients(c) /\ pc[d] \in JoinWindow
                    THEN [raced[d] EXCEPT !.entities = @ \cup {e}] ELSE raced[d]]
    /\ UNCHANGED members

\* Tell the recipients that participant p joined or left.
TellParticipant(c, p, joined) ==
    /\ members' = [d \in Conns |->
                      IF d \notin Recipients(c) THEN members[d]
                      ELSE IF joined THEN members[d] \cup {p} ELSE members[d] \ {p}]
    /\ raced' = [d \in Conns |->
                    IF d \in Recipients(c) /\ pc[d] \in JoinWindow
                    THEN [raced[d] EXCEPT !.participants = @ \cup {p}] ELSE raced[d]]
    /\ UNCHANGED seen

IfNotSet(flag, tell) == IF flag \in Flags THEN UNCHANGED clientVars ELSE tell

-----------------------------------------------------------------------------
(* HandleParticipantJoin, from the moment the session is known.            *)

Join(c) ==
    /\ pc[c] = "out"
    /\ lastParticipantID < MaxParticipants
    /\ lastParticipantID' = lastParticipantID + 1
    /\ participants' = participants \cup {lastParticipantID + 1}
    /\ self' = [self EXCEPT ![c] = lastParticipantID + 1]
    /\ GoTo(c, IF "DISABLE_SESSION_STATE" \in Flags THEN "joinBroadcast" ELSE "getParticipants")
    /\ UNCHANGED <<entityVars, snapVars, clientVars, owned, arg>>

\* The arguments of the SessionState message are evaluated one by one.
GetParticipants(c) ==
    /\ pc[c] = "getParticipants"
    /\ snapMembers' = [snapMembers EXCEPT ![c] = participants]
    /\ GoTo(c, "getEntities")
    /\ UNCHANGED <<sessionVars, entityVars, listed, snapPoses, clientVars, self, owned, arg>>

\* Mutant: only persistent entities are listed.
GetPersistentEntities(c) ==
    /\ pc[c] = "getEntities"
    /\ listed' = [listed EXCEPT ![c] = {e \in entities : persist[e]}]
    /\ GoTo(c, "readPoses")
    /\ UNCHANGED <<sessionVars, entityVars, snapMembers, snapPoses, clientVars, self, owned, arg>>

\* Entities() collects pointers under the lock ...
GetEntities(c) ==
    /\ pc[c] = "getEntities"
    /\ listed' = [listed EXCEPT ![c] = entities]
    /\ GoTo(c, "readPoses")
    /\ UNCHANGED <<sessionVars, entityVars, snapMembers, snapPoses, clientVars, self, owned, arg>>

\* ... and EntitiesToProtobuf reads the poses after it is released.
ReadPoses(c) ==
    /\ pc[c] = "readPoses"
    /\ snapPoses' = [snapPoses EXCEPT ![c] =
                        [e \in EntityIDs |-> IF e \in listed[c] THEN pose[e] ELSE None]]
    /\ GoTo(c, "sendState")
    /\ UNCHANGED <<sessionVars, entityVars, snapMembers, listed, clientVars, self, owned, arg>>

SendSessionState(c) ==
    /\ pc[c] = "sendState"
    /\ seen' = [seen EXCEPT ![c] =
                   [e \in EntityIDs |-> IF e \in listed[c] THEN snapPoses[c][e] ELSE seen[c][e]]]
    /\ members' = [members EXCEPT ![c] = @ \cup snapMembers[c]]
    /\ snapMembers' = [snapMembers EXCEPT ![c] = {}]
    /\ listed' = [listed EXCEPT ![c] = {}]
    /\ snapPoses' = [snapPoses EXCEPT ![c] = Unknown]
    /\ GoTo(c, "joinBroadcast")
    /\ UNCHANGED <<sessionVars, entityVars, raced, self, owned, arg>>

JoinBroadcast(c) ==
    /\ pc[c] = "joinBroadcast"
    /\ IfNotSet("DISABLE_PARTICIPANT_JOIN_BROADCAST", TellParticipant(c, self[c], TRUE))
    /\ GoTo(c, "ready")
    /\ UNCHANGED <<sessionVars, entityVars, snapVars, self, owned, arg>>

-----------------------------------------------------------------------------
(* HandleEntityAdd, HandleEntityDelete, HandleEntityUpdatePose.  A request *)
(* that fails its checks is answered, if at all, with an error and changes *)
(* nothing.  Each changes the entity first and broadcasts in a later step. *)

\* The id NewEntityID returns.
NewEntityID == lastEntityID + 1

\* AddEntity, participant.AddEntity and the response, which
\* tells the client the id of its entity.
EntityAdd(c, keep, p) ==
    LET e == NewEntityID IN
    /\ pc[c] = "ready"
    /\ lastEntityID < MaxEntities
    /\ lastEntityID' = lastEntityID + 1
    /\ entities' = entities \cup {e}
    /\ owner' = [owner EXCEPT ![e] = self[c]]
    /\ persist' = [persist EXCEPT ![e] = keep]
    /\ pose' = [pose EXCEPT ![e] = p]
    /\ owned' = [owned EXCEPT ![c] = @ \cup {e}]
    /\ seen' = [seen EXCEPT ![c][e] = p]
    /\ arg' = [arg EXCEPT ![c] = e]
    /\ GoTo(c, "addBroadcast")
    /\ UNCHANGED <<sessionVars, snapVars, members, raced, self>>

EntityAddBroadcast(c) ==
    /\ pc[c] = "addBroadcast"
    /\ IfNotSet("DISABLE_ENTITY_ADD_BROADCAST", TellEntity(c, arg[c], pose[arg[c]], FALSE))
    /\ arg' = [arg EXCEPT ![c] = None]
    /\ GoTo(c, "ready")
    /\ UNCHANGED <<sessionVars, entityVars, snapVars, self, owned>>

\* EntityByID finds the entity and it belongs to the participant.
MayChange(c, e) == e \in entities /\ owner[e] = self[c]

EntityDelete(c, e) ==
    /\ pc[c] = "ready"
    /\ MayChange(c, e)
    /\ entities' = entities \ {e}
    /\ owned' = [owned EXCEPT ![c] = @ \ {e}]
    /\ seen' = [seen EXCEPT ![c][e] = None]
    /\ arg' = [arg EXCEPT ![c] = e]
    /\ GoTo(c, "deleteBroadcast")
    /\ UNCHANGED <<sessionVars, lastEntityID, owner, persist, pose, snapVars, members, raced, self>>

EntityDeleteBroadcast(c) ==
    /\ pc[c] = "deleteBroadcast"
    /\ IfNotSet("DISABLE_ENTITY_DELETE_BROADCAST", TellEntity(c, arg[c], None, FALSE))
    /\ arg' = [arg EXCEPT ![c] = None]
    /\ GoTo(c, "ready")
    /\ UNCHANGED <<sessionVars, entityVars, snapVars, self, owned>>

EntityUpdatePose(c, e, p) ==
    /\ pc[c] = "ready"
    /\ MayChange(c, e)
    /\ pose' = [pose EXCEPT ![e] = p]
    /\ seen' = [seen EXCEPT ![c][e] = p]
    /\ arg' = [arg EXCEPT ![c] = e]
    /\ GoTo(c, "poseBroadcast")
    /\ UNCHANGED <<sessionVars, lastEntityID, entities, owner, persist, snapVars,
                   members, raced, self, owned>>

\* Mutant: the broadcast is forgotten.
EntityUpdatePoseBroadcastSkipped(c) ==
    /\ pc[c] = "poseBroadcast"
    /\ arg' = [arg EXCEPT ![c] = None]
    /\ GoTo(c, "ready")
    /\ UNCHANGED <<sessionVars, entityVars, snapVars, clientVars, self, owned>>

EntityUpdatePoseBroadcast(c) ==
    /\ pc[c] = "poseBroadcast"
    /\ IfNotSet("DISABLE_ENTITY_UPDATE_POSE_BROADCAST", TellEntity(c, arg[c], pose[arg[c]], TRUE))
    /\ arg' = [arg EXCEPT ![c] = None]
    /\ GoTo(c, "ready")
    /\ UNCHANGED <<sessionVars, entityVars, snapVars, self, owned>>

-----------------------------------------------------------------------------
(* leaveSession: entities that do not persist go first, each with its own  *)
(* broadcast, in the order of a map iteration; then the participant goes.  *)

Leave(c) ==
    /\ pc[c] = "ready"
    /\ GoTo(c, "leaveEntities")
    /\ UNCHANGED <<sessionVars, entityVars, snapVars, clientVars, self, owned, arg>>

LeaveRemoveEntity(c, e) ==
    /\ pc[c] = "leaveEntities"
    /\ e \in owned[c] \cap entities
    /\ ~ persist[e]
    /\ entities' = entities \ {e}
    /\ owned' = [owned EXCEPT ![c] = @ \ {e}]
    /\ arg' = [arg EXCEPT ![c] = e]
    /\ GoTo(c, "leaveDeleteBroadcast")
    /\ UNCHANGED <<sessionVars, lastEntityID, owner, persist, pose, snapVars, clientVars, self>>

LeaveDeleteBroadcast(c) ==
    /\ pc[c] = "leaveDeleteBroadcast"
    /\ IfNotSet("DISABLE_ENTITY_DELETE_BROADCAST", TellEntity(c, arg[c], None, FALSE))
    /\ arg' = [arg EXCEPT ![c] = None]
    /\ GoTo(c, "leaveEntities")
    /\ UNCHANGED <<sessionVars, entityVars, snapVars, self, owned>>

\* Mutant: the participant is removed before the loop is through.
RemoveParticipantEarly(c) ==
    /\ pc[c] = "leaveEntities"
    /\ participants' = participants \ {self[c]}
    /\ owned' = [owned EXCEPT ![c] = {}]
    /\ GoTo(c, "leaveBroadcast")
    /\ UNCHANGED <<lastParticipantID, entityVars, snapVars, clientVars, self, arg>>

RemoveParticipant(c) ==
    /\ pc[c] = "leaveEntities"
    /\ \A e \in owned[c] \cap entities : persist[e]
    /\ participants' = participants \ {self[c]}
    /\ owned' = [owned EXCEPT ![c] = {}]
    /\ GoTo(c, "leaveBroadcast")
    /\ UNCHANGED <<lastParticipantID, entityVars, snapVars, clientVars, self, arg>>

\* The client that left is told nothing more: what it knew is void.
LeaveBroadcast(c) ==
    LET told == [d \in Conns |-> IF d \in Recipients(c) /\ "DISABLE_PARTICIPANT_LEAVE_BROADCAST" \notin Flags
                                 THEN members[d] \ {self[c]} ELSE members[d]]
        racers == [d \in Conns |-> IF d \in Recipients(c) /\ pc[d] \in JoinWindow
                                   THEN [raced[d] EXCEPT !.participants = @ \cup {self[c]}] ELSE raced[d]] IN
    /\ pc[c] = "leaveBroadcast"
    /\ members' = [told EXCEPT ![c] = {}]
    /\ raced' = [racers EXCEPT ![c] = NothingRaced]
    /\ seen' = [seen EXCEPT ![c] = Unknown]
    /\ self' = [self EXCEPT ![c] = None]
    /\ GoTo(c, "out")
    /\ UNCHANGED <<sessionVars, entityVars, snapVars, owned, arg>>

-----------------------------------------------------------------------------
\* The next step of the request the handler of c is working on.
Handle(c) ==
    \/ GetParticipants(c) \/ GetEntities(c) \/ ReadPoses(c) \/ SendSessionState(c) \/ JoinBroadcast(c)
    \/ EntityAddBroadcast(c) \/ EntityDeleteBroadcast(c) \/ EntityUpdatePoseBroadcast(c)
    \/ \E e \in EntityIDs : LeaveRemoveEntity(c, e)
    \/ LeaveDeleteBroadcast(c) \/ RemoveParticipant(c) \/ LeaveBroadcast(c)

Request(c) ==
    \/ Join(c)
    \/ \E keep \in BOOLEAN, p \in Poses : EntityAdd(c, keep, p)
    \/ \E e \in EntityIDs : EntityDelete(c, e)
    \/ \E e \in EntityIDs, p \in Poses : EntityUpdatePose(c, e, p)
    \/ Leave(c)

Next == \E c \in Conns : Request(c) \/ Handle(c)

Spec == Init /\ [][Next]_vars

-----------------------------------------------------------------------------
(* Properties.                                                             *)

\* The client has its SessionState and is not on its way out.
Informed(c) == pc[c] \in (Telling \ {"leaveDeleteBroadcast"}) \cup {"ready", "joinBroadcast"}

\* Some handler has changed entity e and not told the others yet.
EntityPending(e) == \E d \in Conns : pc[d] \in Telling /\ arg[d] = e

\* Some handler is about to announce participant p, or to take it back.
ParticipantPending(p) ==
    \E d \in Conns : self[d] = p /\ pc[d] \in JoinWindow \cup {"joinBroadcast", "leaveBroadcast"}

\* No client misses an entity: whoever has its SessionState knows every
\* entity of the session, or a handler is about to announce it, whether it
\* joined before, while or after the entity was added.
NoMissedEntity ==
    \A c \in Conns, e \in entities :
        Informed(c) => seen[c][e] # None \/ EntityPending(e)

\* What clients know is exact: apart from entities that a broadcast spoke of
\* while the client's SessionState was being put together, a client knows
\* precisely the session's entities at their current poses, once the
\* broadcasts under way are out.
ViewIsExact ==
    \A c \in Conns, e \in EntityIDs :
        Informed(c) /\ e \notin raced[c].entities /\ ~ EntityPending(e) =>
            seen[c][e] = IF e \in entities THEN pose[e] ELSE None

\* The same for the participants a client knows of.
MembersAreExact ==
    \A c \in Conns, p \in ParticipantIDs :
        Informed(c) /\ p \notin raced[c].participants /\ ~ ParticipantPending(p) =>
            (p \in members[c] <=> p \in participants)

\* An entity that does not persist goes before its owner: it never stays in
\* the session without a participant who could delete it.
NoOrphanEntity == \A e \in entities : ~ persist[e] => owner[e] \in participants

-----------------------------------------------------------------------------
\* A late joiner gets the current state of the session (README.md): when no
\* handler is at work, a client knows no entity that is gone.
LateJoinerSeesNoGhost ==
    (\A c \in Conns : pc[c] \in {"out", "ready"}) =>
        \A c \in Conns, e \in EntityIDs : seen[c][e] # None => e \in entities

=============================================================================
