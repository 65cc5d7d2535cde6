-------------------------- MODULE EntitySyncProofs --------------------------
(***************************************************************************)
(* Proofs about EntitySync, for any set of connections and any bounds.     *)
(***************************************************************************)
EXTENDS EntitySync, TLAPS

\* The participant of c is in the session: from AddParticipant to
\* RemoveParticipant.
InSession(c) == pc[c] \notin {"out", "leaveBroadcast"}

\* A connection's participant is its own, and its id was handed out before.
MembershipInv ==
    /\ \A c \in Conns : InSession(c) <=> self[c] \in participants
    /\ \A c \in Conns : pc[c] = "out" <=> self[c] = None
    /\ \A c \in Conns : self[c] <= lastParticipantID
    /\ \A c, d \in Conns : self[c] = self[d] /\ self[c] # None => c = d
    /\ \A p \in participants : p <= lastParticipantID

\* A participant's list of entities is complete while it is in the session,
\* and a handler that is about to broadcast works on an entity of its own.
OwnershipInv ==
    /\ \A e \in EntityIDs : owner[e] <= lastParticipantID
    /\ \A e \in entities : e <= lastEntityID /\ owner[e] # None
    /\ \A e \in EntityIDs : e <= lastEntityID => pose[e] # None
    /\ \A e \in EntityIDs : e > lastEntityID => owner[e] = None
    /\ \A c \in Conns, e \in entities : InSession(c) /\ owner[e] = self[c] => e \in owned[c]
    /\ \A c \in Conns : \A e \in owned[c] : owner[e] = self[c]
    /\ \A c \in Conns : ~ InSession(c) => owned[c] = {}
    /\ \A c \in Conns : pc[c] \in Telling =>
          /\ arg[c] \in 1 .. lastEntityID
          /\ owner[arg[c]] = self[c]
          /\ arg[c] \in entities <=> pc[c] \in {"addBroadcast", "poseBroadcast"}

CoreInv == TypeOK /\ MembershipInv /\ OwnershipInv

-----------------------------------------------------------------------------
(* What a broadcast does to each client.                                   *)

EntityTold(c, e, p, onlyKnown) ==
    /\ seen' \in [Conns -> [EntityIDs -> Poses \cup {None}]]
    /\ \A d \in Conns, f \in EntityIDs : f # e => seen'[d][f] = seen[d][f]
    /\ \A d \in Conns : seen'[d][e] = IF d \in Recipients(c) /\ (onlyKnown => seen[d][e] # None)
                                     THEN p ELSE seen[d][e]
    /\ raced' \in [Conns -> [entities : SUBSET EntityIDs, participants : SUBSET ParticipantIDs]]
    /\ \A d \in Conns : /\ raced'[d].participants = raced[d].participants
                        /\ raced'[d].entities = IF d \in Recipients(c) /\ pc[d] \in JoinWindow
                              THEN raced[d].entities \cup {e} ELSE raced[d].entities
    /\ members' = members

LEMMA TellEntityEffect ==
    ASSUME TypeOK, NEW c \in Conns, NEW e \in EntityIDs, NEW p \in Poses \cup {None},
           NEW onlyKnown \in BOOLEAN, TellEntity(c, e, p, onlyKnown)
    PROVE  EntityTold(c, e, p, onlyKnown)
<1>1. /\ seen' \in [Conns -> [EntityIDs -> Poses \cup {None}]]
      /\ \A d \in Conns, f \in EntityIDs : f # e => seen'[d][f] = seen[d][f]
      /\ \A d \in Conns : seen'[d][e] = IF d \in Recipients(c) /\ (onlyKnown => seen[d][e] # None)
                                       THEN p ELSE seen[d][e]
  <2>1. seen \in [Conns -> [EntityIDs -> Poses \cup {None}]]
    BY DEF TypeOK
  <2>. QED  BY <2>1 DEF TellEntity
<1>2. /\ raced' \in [Conns -> [entities : SUBSET EntityIDs, participants : SUBSET ParticipantIDs]]
      /\ \A d \in Conns : /\ raced'[d].participants = raced[d].participants
                          /\ raced'[d].entities = IF d \in Recipients(c) /\ pc[d] \in JoinWindow
                                THEN raced[d].entities \cup {e} ELSE raced[d].entities
  <2>1. raced \in [Conns -> [entities : SUBSET EntityIDs, participants : SUBSET ParticipantIDs]]
    BY DEF TypeOK
  <2>. QED  BY <2>1 DEF TellEntity
<1>. QED  BY <1>1, <1>2 DEF EntityTold, TellEntity

ParticipantTold(c, p, joined) ==
    /\ members' \in [Conns -> SUBSET ParticipantIDs]
    /\ \A d \in Conns : members'[d] = IF d \notin Recipients(c) THEN members[d]
                            ELSE IF joined THEN members[d] \cup {p} ELSE members[d] \ {p}
    /\ raced' \in [Conns -> [entities : SUBSET EntityIDs, participants : SUBSET ParticipantIDs]]
    /\ \A d \in Conns : /\ raced'[d].entities = raced[d].entities
                        /\ raced'[d].participants = IF d \in Recipients(c) /\ pc[d] \in JoinWindow
                              THEN raced[d].participants \cup {p} ELSE raced[d].participants
    /\ seen' = seen

LEMMA TellParticipantEffect ==
    ASSUME TypeOK, NEW c \in Conns, NEW p \in ParticipantIDs,
           NEW joined \in BOOLEAN, TellParticipant(c, p, joined)
    PROVE  ParticipantTold(c, p, joined)
<1>1. /\ members' \in [Conns -> SUBSET ParticipantIDs]
      /\ \A d \in Conns : members'[d] = IF d \notin Recipients(c) THEN members[d]
                              ELSE IF joined THEN members[d] \cup {p} ELSE members[d] \ {p}
  <2>1. members \in [Conns -> SUBSET ParticipantIDs]
    BY DEF TypeOK
  <2>. QED  BY <2>1 DEF TellParticipant
<1>2. /\ raced' \in [Conns -> [entities : SUBSET EntityIDs, participants : SUBSET ParticipantIDs]]
      /\ \A d \in Conns : /\ raced'[d].entities = raced[d].entities
                          /\ raced'[d].participants = IF d \in Recipients(c) /\ pc[d] \in JoinWindow
                                THEN raced[d].participants \cup {p} ELSE raced[d].participants
  <2>1. raced \in [Conns -> [entities : SUBSET EntityIDs, participants : SUBSET ParticipantIDs]]
    BY DEF TypeOK
  <2>. QED  BY <2>1 DEF TellParticipant
<1>. QED  BY <1>1, <1>2 DEF ParticipantTold, TellParticipant

\* The end of leaveSession.
DepartureTold(c) ==
    /\ members' \in [Conns -> SUBSET ParticipantIDs] /\ members'[c] = {}
    /\ \A d \in Conns \ {c} : members'[d] =
          IF d \in Recipients(c) /\ "DISABLE_PARTICIPANT_LEAVE_BROADCAST" \notin Flags
          THEN members[d] \ {self[c]} ELSE members[d]
    /\ raced' \in [Conns -> [entities : SUBSET EntityIDs, participants : SUBSET ParticipantIDs]]
    /\ \A d \in Conns \ {c} :
          /\ raced'[d].entities = raced[d].entities
          /\ raced'[d].participants = IF d \in Recipients(c) /\ pc[d] \in JoinWindow
                THEN raced[d].participants \cup {self[c]} ELSE raced[d].participants

LEMMA LeaveBroadcastEffect ==
    ASSUME TypeOK, NEW c \in Conns, self[c] \in ParticipantIDs, LeaveBroadcast(c)
    PROVE  DepartureTold(c)
<1> DEFINE Racers == [entities : SUBSET EntityIDs, participants : SUBSET ParticipantIDs]
           told == [d \in Conns |->
                       IF d \in Recipients(c) /\ "DISABLE_PARTICIPANT_LEAVE_BROADCAST" \notin Flags
                       THEN members[d] \ {self[c]} ELSE members[d]]
           racers == [d \in Conns |->
                         IF d \in Recipients(c) /\ pc[d] \in JoinWindow
                         THEN [raced[d] EXCEPT !.participants = @ \cup {self[c]}] ELSE raced[d]]
<1>1. members' = [told EXCEPT ![c] = {}] /\ raced' = [racers EXCEPT ![c] = NothingRaced]
  BY DEF LeaveBroadcast
<1>2. NothingRaced \in Racers
  BY DEF NothingRaced
<1>3. racers \in [Conns -> Racers] /\ told \in [Conns -> SUBSET ParticipantIDs]
  BY DEF TypeOK
<1>4. \A d \in Conns : /\ racers[d].entities = raced[d].entities
                       /\ racers[d].participants = IF d \in Recipients(c) /\ pc[d] \in JoinWindow
                             THEN raced[d].participants \cup {self[c]} ELSE raced[d].participants
  BY DEF TypeOK
<1> HIDE DEF racers, Racers
<1>5. raced' \in [Conns -> Racers] /\ \A d \in Conns \ {c} : raced'[d] = racers[d]
  BY <1>1, <1>2, <1>3
<1>6. members' \in [Conns -> SUBSET ParticipantIDs] /\ members'[c] = {}
  BY <1>1, <1>3
<1>. QED  BY <1>1, <1>3, <1>4, <1>5, <1>6 DEF Racers, DepartureTold

\* What the four places have in common that tell the others about the
\* entity in arg, whether the flags let them or not.
EntityBroadcast(c) ==
    \/ EntityAddBroadcast(c) \/ EntityDeleteBroadcast(c)
    \/ EntityUpdatePoseBroadcast(c) \/ LeaveDeleteBroadcast(c)

EntityBroadcastStep(c) ==
    /\ pc[c] \in Telling /\ arg[c] \in EntityIDs /\ arg' = [arg EXCEPT ![c] = None]
    /\ pc' = [pc EXCEPT ![c] = IF pc[c] = "leaveDeleteBroadcast" THEN "leaveEntities" ELSE "ready"]
    /\ UNCHANGED <<sessionVars, entityVars, snapVars, self, owned, members>>
    /\ seen' \in [Conns -> [EntityIDs -> Poses \cup {None}]]
    /\ raced' \in [Conns -> [entities : SUBSET EntityIDs, participants : SUBSET ParticipantIDs]]
    /\ seen'[c] = seen[c]
    /\ \A d \in Conns : ~ InSession(d) => seen'[d] = seen[d]
    /\ \A d \in Conns, f \in EntityIDs : f # arg[c] => seen'[d][f] = seen[d][f]
    /\ \A d \in Conns : \/ seen'[d][arg[c]] = seen[d][arg[c]]
                        \/ seen'[d][arg[c]] = IF arg[c] \in entities THEN pose[arg[c]] ELSE None
    /\ \A d \in Conns : /\ raced'[d].participants = raced[d].participants
                        /\ raced[d].entities \subseteq raced'[d].entities

LEMMA EntityBroadcastEffect ==
    ASSUME CoreInv, NEW c \in Conns, EntityBroadcast(c)
    PROVE  EntityBroadcastStep(c)
<1> USE EntitySyncAssumption
<1>1. /\ pc[c] \in Telling /\ arg' = [arg EXCEPT ![c] = None]
      /\ pc' = [pc EXCEPT ![c] = IF pc[c] = "leaveDeleteBroadcast" THEN "leaveEntities" ELSE "ready"]
      /\ UNCHANGED <<sessionVars, entityVars, snapVars, self, owned>>
  BY DEF EntityAddBroadcast, EntityDeleteBroadcast, EntityUpdatePoseBroadcast, LeaveDeleteBroadcast,
         EntityBroadcast, GoTo, Telling
<1>2. arg[c] \in EntityIDs
  BY <1>1 DEF CoreInv, TypeOK, OwnershipInv, EntityIDs
<1> DEFINE now == IF arg[c] \in entities THEN pose[arg[c]] ELSE None
<1>3. now \in Poses \cup {None}
  BY <1>2 DEF CoreInv, TypeOK
<1>4. \/ UNCHANGED clientVars
      \/ \E onlyKnown \in BOOLEAN : TellEntity(c, arg[c], now, onlyKnown)
  <2>1. arg[c] \in entities <=> pc[c] \in {"addBroadcast", "poseBroadcast"}
    BY <1>1 DEF CoreInv, OwnershipInv
  <2>2. CASE EntityAddBroadcast(c)
    BY <2>1, <2>2 DEF EntityAddBroadcast, IfNotSet
  <2>3. CASE EntityUpdatePoseBroadcast(c)
    BY <2>1, <2>3 DEF EntityUpdatePoseBroadcast, IfNotSet
  <2>4. CASE EntityDeleteBroadcast(c) \/ LeaveDeleteBroadcast(c)
    BY <2>1, <2>4 DEF EntityDeleteBroadcast, LeaveDeleteBroadcast, IfNotSet
  <2>. QED  BY <2>2, <2>3, <2>4 DEF EntityBroadcast
<1>5. CASE UNCHANGED clientVars
  BY <1>1, <1>2, <1>5 DEF CoreInv, TypeOK, clientVars, EntityBroadcastStep
<1>6. ASSUME NEW onlyKnown \in BOOLEAN, TellEntity(c, arg[c], now, onlyKnown)
      PROVE  EntityBroadcastStep(c)
  <2> HIDE DEF now
  <2>0. EntityTold(c, arg[c], now, onlyKnown)
    BY <1>2, <1>3, <1>6, TellEntityEffect DEF CoreInv
  <2>1. /\ seen' \in [Conns -> [EntityIDs -> Poses \cup {None}]]
        /\ \A d \in Conns, f \in EntityIDs : f # arg[c] => seen'[d][f] = seen[d][f]
        /\ \A d \in Conns : seen'[d][arg[c]] = seen[d][arg[c]] \/ seen'[d][arg[c]] = now
        /\ raced' \in [Conns -> [entities : SUBSET EntityIDs, participants : SUBSET ParticipantIDs]]
        /\ \A d \in Conns : /\ raced'[d].participants = raced[d].participants
                            /\ raced[d].entities \subseteq raced'[d].entities
        /\ members' = members
    BY <2>0 DEF EntityTold
  <2>2. seen'[c] = seen[c] /\ \A d \in Conns : ~ InSession(d) => seen'[d] = seen[d]
    BY <1>6 DEF TellEntity, Recipients, CoreInv, MembershipInv
  <2>. QED  BY <1>1, <1>2, <2>1, <2>2 DEF EntityBroadcastStep, now
<1>. QED  BY <1>4, <1>5, <1>6

\* When the flag of the broadcast is not set, everybody else in the session
\* hears of the entity, and whoever is joining has been raced.
BroadcastFlag(c) ==
    CASE pc[c] = "addBroadcast" -> "DISABLE_ENTITY_ADD_BROADCAST"
      [] pc[c] = "poseBroadcast" -> "DISABLE_ENTITY_UPDATE_POSE_BROADCAST"
      [] OTHER -> "DISABLE_ENTITY_DELETE_BROADCAST"

LEMMA EntityBroadcastIsHeard ==
    ASSUME CoreInv, NEW c \in Conns, EntityBroadcast(c), BroadcastFlag(c) \notin Flags,
           NEW d \in Conns, d # c, InSession(d)
    PROVE  /\ pc[c] = "poseBroadcast" /\ seen[d][arg[c]] # None =>
                 seen'[d][arg[c]] = pose[arg[c]]
           /\ pc[c] # "poseBroadcast" =>
                 seen'[d][arg[c]] = IF pc[c] = "addBroadcast" THEN pose[arg[c]] ELSE None
           /\ pc[d] \in JoinWindow => arg[c] \in raced'[d].entities
<1>1. d \in Recipients(c)
  BY DEF Recipients, CoreInv, MembershipInv
<1>2. arg[c] \in EntityIDs
  BY EntityBroadcastEffect DEF EntityBroadcastStep
<1>3. pose[arg[c]] \in Poses \cup {None}
  BY <1>2 DEF CoreInv, TypeOK
<1>4. CASE EntityAddBroadcast(c)
  <2>1. TellEntity(c, arg[c], pose[arg[c]], FALSE) /\ pc[c] = "addBroadcast"
    BY <1>4 DEF EntityAddBroadcast, IfNotSet, BroadcastFlag
  <2>2. EntityTold(c, arg[c], pose[arg[c]], FALSE)
    BY <1>2, <1>3, <2>1, TellEntityEffect DEF CoreInv
  <2>. QED  BY <1>1, <2>1, <2>2 DEF EntityTold
<1>5. CASE EntityUpdatePoseBroadcast(c)
  <2>1. TellEntity(c, arg[c], pose[arg[c]], TRUE) /\ pc[c] = "poseBroadcast"
    BY <1>5 DEF EntityUpdatePoseBroadcast, IfNotSet, BroadcastFlag
  <2>2. EntityTold(c, arg[c], pose[arg[c]], TRUE)
    BY <1>2, <1>3, <2>1, TellEntityEffect DEF CoreInv
  <2>. QED  BY <1>1, <2>1, <2>2 DEF EntityTold
<1>6. CASE EntityDeleteBroadcast(c) \/ LeaveDeleteBroadcast(c)
  <2>1. /\ TellEntity(c, arg[c], None, FALSE)
        /\ pc[c] \in {"deleteBroadcast", "leaveDeleteBroadcast"}
    BY <1>6 DEF EntityDeleteBroadcast, LeaveDeleteBroadcast, IfNotSet, BroadcastFlag
  <2>2. EntityTold(c, arg[c], None, FALSE)
    BY <1>2, <2>1, TellEntityEffect DEF CoreInv
  <2>. QED  BY <1>1, <2>1, <2>2 DEF EntityTold
<1>. QED  BY <1>4, <1>5, <1>6 DEF EntityBroadcast

-----------------------------------------------------------------------------
(* Membership and ownership.                                               *)

\* Every step keeps the types; a broadcast needs to know that its entity and
\* its participant exist.
LEMMA TypeStep ==
    ASSUME CoreInv, NEW c \in Conns, Request(c) \/ Handle(c)
    PROVE  TypeOK'
<1>0. EntityBroadcast(c) => EntityBroadcastStep(c)
  BY EntityBroadcastEffect
<1> USE EntitySyncAssumption
    DEF CoreInv, TypeOK, GoTo, ParticipantIDs, EntityIDs, None, Places, JoinWindow, Telling,
        sessionVars, entityVars, snapVars, clientVars
<1>1. CASE Join(c)
  BY <1>1 DEF Join
<1>2. ASSUME NEW keep \in BOOLEAN, NEW p \in Poses, EntityAdd(c, keep, p)
      PROVE  TypeOK'
  BY <1>2 DEF EntityAdd, NewEntityID
<1>3. ASSUME NEW e \in EntityIDs, EntityDelete(c, e)
      PROVE  TypeOK'
  BY <1>3 DEF EntityDelete
<1>4. ASSUME NEW e \in EntityIDs, NEW p \in Poses, EntityUpdatePose(c, e, p)
      PROVE  TypeOK'
  BY <1>4 DEF EntityUpdatePose
<1>5. CASE Leave(c)
  BY <1>5 DEF Leave
<1>6. CASE GetParticipants(c)
  BY <1>6 DEF GetParticipants
<1>7. CASE GetEntities(c)
  BY <1>7 DEF GetEntities
<1>8. CASE ReadPoses(c)
  BY <1>8 DEF ReadPoses
<1>9. CASE SendSessionState(c)
  BY <1>9 DEF SendSessionState, Unknown
<1>10. CASE JoinBroadcast(c)
  <2>1. self[c] \in ParticipantIDs
    BY <1>10 DEF JoinBroadcast, MembershipInv, InSession
  <2>2. /\ members' \in [Conns -> SUBSET ParticipantIDs] /\ seen' = seen
        /\ raced' \in [Conns -> [entities : SUBSET EntityIDs, participants : SUBSET ParticipantIDs]]
    <3>1. CASE TellParticipant(c, self[c], TRUE)
      BY <2>1, <3>1, TellParticipantEffect DEF ParticipantTold
    <3>. QED  BY <1>10, <3>1 DEF JoinBroadcast, IfNotSet
  <2>. QED  BY <1>10, <2>2 DEF JoinBroadcast
<1>11. CASE EntityBroadcast(c)
  BY <1>0, <1>11 DEF EntityBroadcastStep
<1>12. ASSUME NEW e \in EntityIDs, LeaveRemoveEntity(c, e)
       PROVE  TypeOK'
  BY <1>12 DEF LeaveRemoveEntity
<1>13. CASE RemoveParticipant(c)
  BY <1>13 DEF RemoveParticipant
<1>14. CASE LeaveBroadcast(c)
  <2>1. self[c] \in ParticipantIDs
    BY <1>14 DEF LeaveBroadcast, MembershipInv
  <2>2. /\ members' \in [Conns -> SUBSET ParticipantIDs]
        /\ raced' \in [Conns -> [entities : SUBSET EntityIDs, participants : SUBSET ParticipantIDs]]
    BY <1>14, <2>1, LeaveBroadcastEffect DEF DepartureTold
  <2>. QED  BY <1>14, <2>2 DEF LeaveBroadcast, Unknown
<1>. QED  BY <1>1, <1>2, <1>3, <1>4, <1>5, <1>6, <1>7, <1>8, <1>9, <1>10, <1>11, <1>12, <1>13, <1>14
          DEF Request, Handle, EntityBroadcast

\* The part of the types that is about numbers.
NumberTypes ==
    /\ lastParticipantID \in Nat /\ participants \subseteq Nat \ {None}
    /\ lastEntityID \in Nat /\ EntityIDs \subseteq Nat \ {None} /\ entities \subseteq EntityIDs
    /\ owner \in [EntityIDs -> Nat] /\ pose \in [EntityIDs -> Nat]
    /\ pc \in [Conns -> Places] /\ self \in [Conns -> Nat]
    /\ owned \in [Conns -> SUBSET EntityIDs] /\ arg \in [Conns -> Nat]

\* The ids are natural numbers, and None is not one of them.
LEMMA Numbers ==
    ASSUME TypeOK PROVE NumberTypes
<1>1. /\ ParticipantIDs \cup {None} \subseteq Nat /\ ParticipantIDs \subseteq Nat \ {None}
      /\ EntityIDs \cup {None} \subseteq Nat /\ EntityIDs \subseteq Nat \ {None}
      /\ Poses \cup {None} \subseteq Nat
      /\ 0 .. MaxParticipants \subseteq Nat /\ 0 .. MaxEntities \subseteq Nat
  BY EntitySyncAssumption DEF ParticipantIDs, EntityIDs, Poses, None
<1>2. /\ lastParticipantID \in Nat /\ participants \subseteq Nat \ {None}
      /\ lastEntityID \in Nat /\ entities \subseteq EntityIDs
  BY <1>1 DEF TypeOK
<1>3. /\ owner \in [EntityIDs -> Nat] /\ pose \in [EntityIDs -> Nat]
      /\ self \in [Conns -> Nat] /\ arg \in [Conns -> Nat]
  BY <1>1 DEF TypeOK
<1>. QED  BY <1>1, <1>2, <1>3 DEF TypeOK, NumberTypes

\* Participants come and go with Join and RemoveParticipant; every other
\* step is one inside the session.
LEMMA MembershipStep ==
    ASSUME CoreInv, NEW c \in Conns, Request(c) \/ Handle(c)
    PROVE  MembershipInv'
<1>1. NumberTypes /\ MembershipInv
  BY Numbers DEF CoreInv
<1>2. EntityBroadcast(c) => EntityBroadcastStep(c)
  BY EntityBroadcastEffect
<1> USE DEF MembershipInv, NumberTypes, InSession, GoTo, None
<1>3. CASE Join(c)
  <2>1. /\ pc[c] = "out" /\ pc'[c] \in {"joinBroadcast", "getParticipants"}
        /\ \A d \in Conns \ {c} : pc'[d] = pc[d] /\ self'[d] = self[d]
        /\ self'[c] = lastParticipantID + 1 /\ lastParticipantID' = lastParticipantID + 1
        /\ participants' = participants \cup {lastParticipantID + 1}
    BY <1>1, <1>3 DEF Join
  <2>. QED  BY <1>1, <2>1
<1>4. CASE RemoveParticipant(c)
  BY <1>1, <1>4 DEF RemoveParticipant
<1>5. CASE LeaveBroadcast(c)
  BY <1>1, <1>5 DEF LeaveBroadcast, sessionVars
<1>6. ASSUME UNCHANGED <<sessionVars, self>>, InSession(c), InSession(c)',
             pc' = [pc EXCEPT ![c] = pc'[c]]
      PROVE  MembershipInv'
  BY <1>1, <1>6 DEF sessionVars
<1>7. ASSUME ~ Join(c), ~ RemoveParticipant(c), ~ LeaveBroadcast(c)
      PROVE  UNCHANGED <<sessionVars, self>> /\ InSession(c) /\ InSession(c)'
             /\ pc' = [pc EXCEPT ![c] = pc'[c]]
  <2>1. CASE Request(c)
    BY <1>1, <1>7, <2>1 DEF Request, EntityAdd, EntityDelete, EntityUpdatePose, Leave
  <2>2. CASE EntityBroadcast(c)
    BY <1>1, <1>2, <2>2 DEF EntityBroadcastStep, Telling
  <2>3. CASE \E e \in EntityIDs : LeaveRemoveEntity(c, e)
    BY <1>1, <2>3 DEF LeaveRemoveEntity
  <2>4. CASE \/ GetParticipants(c) \/ GetEntities(c) \/ ReadPoses(c) \/ SendSessionState(c)
             \/ JoinBroadcast(c)
    BY <1>1, <2>4 DEF GetParticipants, GetEntities, ReadPoses, SendSessionState, JoinBroadcast
  <2>. QED  BY <1>7, <2>1, <2>2, <2>3, <2>4 DEF Handle, EntityBroadcast
<1>. QED  BY <1>3, <1>4, <1>5, <1>6, <1>7

\* Every step keeps who owns what: ids are not reused, so no other
\* participant ever owns an entity of c.
LEMMA OwnershipStep ==
    ASSUME CoreInv, NEW c \in Conns, Request(c) \/ Handle(c)
    PROVE  OwnershipInv'
<1>1. NumberTypes /\ MembershipInv /\ OwnershipInv
  BY Numbers DEF CoreInv
<1>2. EntityBroadcast(c) => EntityBroadcastStep(c)
  BY EntityBroadcastEffect
<1> USE <1>1 DEF MembershipInv, OwnershipInv, NumberTypes, InSession, GoTo, None,
        sessionVars, entityVars
<1>3. CASE Join(c)
  <2>1. /\ pc[c] = "out" /\ pc'[c] \in {"joinBroadcast", "getParticipants"}
        /\ \A d \in Conns \ {c} : pc'[d] = pc[d] /\ self'[d] = self[d]
        /\ self'[c] = lastParticipantID + 1 /\ lastParticipantID' = lastParticipantID + 1
        /\ UNCHANGED <<entityVars, owned, arg>>
    BY <1>3 DEF Join
  <2>2. pc'[c] \notin Telling /\ owned[c] = {} /\ \A e \in EntityIDs : owner[e] # lastParticipantID + 1
    BY <2>1 DEF Telling
  <2>3. \A e \in EntityIDs : owner'[e] <= lastParticipantID'
    BY <2>1
  <2>4. \A d \in Conns, e \in entities' : InSession(d)' /\ owner'[e] = self'[d] => e \in owned'[d]
    BY <2>1, <2>2
  <2>. QED  BY <2>1, <2>2, <2>3, <2>4
<1>4. ASSUME NEW keep \in BOOLEAN, NEW p \in Poses, EntityAdd(c, keep, p)
      PROVE  OwnershipInv'
  <2> DEFINE e == lastEntityID + 1
  <2>1. e \in EntityIDs /\ p \in Nat \ {None}
    BY <1>4, EntitySyncAssumption DEF EntityAdd, EntityIDs, Poses
  <2>2. e \notin entities /\ self[c] # None /\ \A d \in Conns : arg[d] \in 1 .. lastEntityID => arg[d] # e
    BY <1>4 DEF EntityAdd
  <2>3. /\ pc[c] = "ready" /\ pc'[c] = "addBroadcast" /\ arg'[c] = e
        /\ \A d \in Conns \ {c} : pc'[d] = pc[d] /\ owned'[d] = owned[d] /\ arg'[d] = arg[d]
        /\ owned'[c] = owned[c] \cup {e}
        /\ \A f \in EntityIDs \ {e} : owner'[f] = owner[f] /\ pose'[f] = pose[f]
        /\ owner'[e] = self[c] /\ pose'[e] = p
        /\ entities' = entities \cup {e} /\ lastEntityID' = e
        /\ UNCHANGED <<sessionVars, self>>
    BY <1>4, <2>1 DEF EntityAdd, NewEntityID
  <2>4. \A d \in Conns : e \notin owned[d]
    OBVIOUS
  <2> HIDE DEF e
  <2>5. ASSUME NEW d \in Conns, NEW f \in entities', InSession(d)', owner'[f] = self'[d]
        PROVE  f \in owned'[d]
    <3>1. CASE f = e
      <4>1. self[d] = self[c]
        BY <2>1, <2>3, <2>5, <3>1
      <4>2. d = c
        BY <2>2, <4>1
      <4>. QED  BY <2>3, <3>1, <4>2
    <3>2. CASE f # e
      <4>1. f \in entities /\ InSession(d) /\ owner[f] = self[d]
        BY <2>1, <2>3, <2>5, <3>2
      <4>. QED  BY <2>3, <4>1
    <3>. QED  BY <3>1, <3>2
  <2>6. ASSUME NEW d \in Conns, NEW f \in owned'[d]
        PROVE  owner'[f] = self'[d]
    <3>1. CASE f = e
      BY <2>3, <2>4, <2>6, <3>1
    <3>2. CASE f # e
      <4>1. f \in owned[d] /\ f \in EntityIDs
        BY <2>3, <2>6, <3>2
      <4>. QED  BY <2>3, <3>2, <4>1
    <3>. QED  BY <3>1, <3>2
  <2>7. ASSUME NEW f \in EntityIDs
        PROVE  (f <= lastEntityID' => pose'[f] # None) /\ (f > lastEntityID' => owner'[f] = None)
    <3>1. CASE f = e
      BY <2>1, <2>3, <3>1 DEF e
    <3>2. CASE f # e
      <4>1. owner'[f] = owner[f] /\ pose'[f] = pose[f]
        BY <2>3, <3>2
      <4>2. (f <= lastEntityID' => f <= lastEntityID) /\ (f > lastEntityID' => f > lastEntityID)
        BY <2>3, <3>2 DEF e
      <4>. QED  BY <4>1, <4>2
    <3>. QED  BY <3>1, <3>2
  <2>8. \A d \in Conns : pc'[d] \in Telling =>
          /\ arg'[d] \in 1 .. lastEntityID'
          /\ owner'[arg'[d]] = self'[d]
          /\ arg'[d] \in entities' <=> pc'[d] \in {"addBroadcast", "poseBroadcast"}
    <3>1. ASSUME NEW d \in Conns, d # c, pc[d] \in Telling
          PROVE  arg[d] \in EntityIDs \ {e}
      BY <2>2, <3>1, EntitySyncAssumption DEF CoreInv, TypeOK, EntityIDs, e
    <3>2. ASSUME NEW d \in Conns, d # c, pc'[d] \in Telling
          PROVE  /\ arg'[d] \in 1 .. lastEntityID'
                 /\ owner'[arg'[d]] = self'[d]
                 /\ arg'[d] \in entities' <=> pc'[d] \in {"addBroadcast", "poseBroadcast"}
      <4>1. pc[d] \in Telling /\ arg'[d] = arg[d] /\ pc'[d] = pc[d] /\ self'[d] = self[d]
        BY <2>3, <3>2
      <4>2. arg[d] \in 1 .. lastEntityID'
        BY <2>3, <4>1 DEF e
      <4>. QED  BY <2>3, <3>1, <3>2, <4>1, <4>2
    <3>3. /\ arg'[c] \in 1 .. lastEntityID' /\ owner'[arg'[c]] = self'[c]
          /\ arg'[c] \in entities' /\ pc'[c] = "addBroadcast"
      BY <2>3 DEF e
    <3>. QED  BY <3>2, <3>3
  <2>9. /\ \A f \in EntityIDs : owner'[f] <= lastParticipantID'
        /\ \A f \in entities' : f <= lastEntityID' /\ owner'[f] # None
    BY <2>2, <2>3 DEF e
  <2>10. \A d \in Conns : ~ InSession(d)' => owned'[d] = {}
    BY <2>3
  <2>. QED  BY <2>5, <2>6, <2>7, <2>8, <2>9, <2>10
<1>5. ASSUME NEW e \in EntityIDs, EntityDelete(c, e)
      PROVE  OwnershipInv'
  BY <1>5 DEF EntityDelete, MayChange, Telling
<1>6. ASSUME NEW e \in EntityIDs, NEW p \in Poses, EntityUpdatePose(c, e, p)
      PROVE  OwnershipInv'
  BY <1>6 DEF EntityUpdatePose, MayChange, Poses, Telling
<1>7. ASSUME UNCHANGED <<sessionVars, entityVars, self, owned>>, InSession(c), InSession(c)',
             pc'[c] \notin Telling, \A d \in Conns \ {c} : pc'[d] = pc[d] /\ arg'[d] = arg[d]
      PROVE  OwnershipInv'
  <2>1. \A d \in Conns : InSession(d)' <=> InSession(d)
    BY <1>7
  <2>. QED  BY <1>7, <2>1
<1>8. CASE \/ Leave(c) \/ GetParticipants(c) \/ GetEntities(c) \/ ReadPoses(c)
           \/ SendSessionState(c) \/ JoinBroadcast(c)
  <2>1. /\ UNCHANGED <<sessionVars, entityVars, self, owned, arg>>
        /\ pc[c] \notin {"out", "leaveBroadcast"}
    BY <1>8 DEF Leave, GetParticipants, GetEntities, ReadPoses, SendSessionState, JoinBroadcast
  <2>2. \E place \in {"leaveEntities", "getEntities", "readPoses", "sendState", "joinBroadcast", "ready"} :
           pc' = [pc EXCEPT ![c] = place]
    BY <1>8 DEF Leave, GetParticipants, GetEntities, ReadPoses, SendSessionState, JoinBroadcast
  <2>. QED  BY <1>7, <2>1, <2>2 DEF Telling
<1>9. CASE EntityBroadcast(c)
  <2>1. /\ UNCHANGED <<sessionVars, entityVars, self, owned>> /\ InSession(c) /\ InSession(c)'
        /\ pc'[c] \notin Telling /\ \A d \in Conns \ {c} : pc'[d] = pc[d] /\ arg'[d] = arg[d]
    BY <1>2, <1>9 DEF EntityBroadcastStep, Telling
  <2>. QED  BY <1>7, <2>1
<1>10. ASSUME NEW e \in EntityIDs, LeaveRemoveEntity(c, e)
       PROVE  OwnershipInv'
  BY <1>10 DEF LeaveRemoveEntity, Telling
<1>11. CASE RemoveParticipant(c)
  BY <1>11 DEF RemoveParticipant, Telling
<1>12. CASE LeaveBroadcast(c)
  BY <1>12 DEF LeaveBroadcast, Telling
<1>. QED  BY <1>3, <1>4, <1>5, <1>6, <1>8, <1>9, <1>10, <1>11, <1>12
          DEF Request, Handle, EntityBroadcast

\* What the session holds is typed, and every participant owns what the
\* session says it owns: whatever the flags.
THEOREM SessionIsConsistent == Spec => []CoreInv
<1>1. Init => CoreInv
  BY EntitySyncAssumption
     DEF Init, CoreInv, TypeOK, MembershipInv, OwnershipInv, InSession, Places, Telling,
         ParticipantIDs, EntityIDs, Unknown, NothingRaced, None
<1>2. CoreInv /\ [Next]_vars => CoreInv'
  <2>1. CoreInv /\ UNCHANGED vars => CoreInv'
    BY DEF vars, sessionVars, entityVars, snapVars, clientVars, CoreInv, TypeOK, MembershipInv,
           OwnershipInv, InSession
  <2>. QED  BY <2>1, TypeStep, MembershipStep, OwnershipStep DEF Next, CoreInv
<1>. QED  BY <1>1, <1>2, PTL DEF Spec

\* leaveSession removes what does not persist before the participant.
THEOREM NoEntityOutlivesItsOwner == Spec => []NoOrphanEntity
<1>1. Init => NoOrphanEntity
  BY DEF Init, NoOrphanEntity
<1>2. CoreInv /\ NoOrphanEntity /\ [Next]_vars => NoOrphanEntity'
  <2> SUFFICES ASSUME CoreInv, NoOrphanEntity, [Next]_vars
               PROVE  NoOrphanEntity'
    OBVIOUS
  <2>0. NumberTypes /\ MembershipInv /\ OwnershipInv
    BY Numbers DEF CoreInv
  <2> USE <2>0 DEF NumberTypes, MembershipInv, OwnershipInv, NoOrphanEntity, InSession,
              sessionVars, entityVars
  <2>1. CASE UNCHANGED vars
    BY <2>1 DEF vars
  <2>2. ASSUME NEW c \in Conns, Join(c)
        PROVE  NoOrphanEntity'
    BY <2>2 DEF Join
  <2>3. ASSUME NEW c \in Conns, NEW keep \in BOOLEAN, NEW p \in Poses, EntityAdd(c, keep, p)
        PROVE  NoOrphanEntity'
    <3>1. persist \in [EntityIDs -> BOOLEAN]
      BY DEF CoreInv, TypeOK
    <3>2. lastEntityID + 1 \in EntityIDs
      BY <2>3, EntitySyncAssumption DEF EntityAdd, EntityIDs
    <3>. QED  BY <2>3, <3>1, <3>2 DEF EntityAdd, NewEntityID
  <2>4. ASSUME NEW c \in Conns, RemoveParticipant(c)
        PROVE  NoOrphanEntity'
    BY <2>4 DEF RemoveParticipant
  <2>5. ASSUME NEW c \in Conns, Request(c) \/ Handle(c), ~ Join(c), ~ RemoveParticipant(c),
               ~ \E keep \in BOOLEAN, p \in Poses : EntityAdd(c, keep, p)
        PROVE  entities' \subseteq entities /\ UNCHANGED <<owner, persist, participants>>
    BY <2>5 DEF Request, Handle, EntityDelete, EntityUpdatePose, Leave, GetParticipants, GetEntities,
                ReadPoses, SendSessionState, JoinBroadcast, EntityAddBroadcast,
                EntityDeleteBroadcast, EntityUpdatePoseBroadcast, LeaveRemoveEntity,
                LeaveDeleteBroadcast, LeaveBroadcast
  <2>6. ASSUME entities' \subseteq entities, UNCHANGED <<owner, persist, participants>>
        PROVE  NoOrphanEntity'
    BY <2>6
  <2>. QED  BY <2>1, <2>2, <2>3, <2>4, <2>5, <2>6 DEF Next
<1>. QED  BY <1>1, <1>2, SessionIsConsistent, PTL DEF Spec

-----------------------------------------------------------------------------
(* No client misses an entity.                                             *)

\* The announcement of entity e is still to come.
AddPending(e) == \E d \in Conns : pc[d] = "addBroadcast" /\ arg[d] = e

\* Client c knows of entity e, or is about to be told by its SessionState.
Knows(c, e) ==
    /\ Informed(c) => seen[c][e] # None
    /\ pc[c] \in {"readPoses", "sendState"} => e \in listed[c] \/ seen[c][e] # None

KnownInv ==
    /\ \A c \in Conns : pc[c] \in {"readPoses", "sendState"} => listed[c] \subseteq 1 .. lastEntityID
    /\ \A c \in Conns : \A e \in listed[c] : pc[c] = "sendState" => snapPoses[c][e] # None
    /\ \A c \in Conns : pc[c] \in {"addBroadcast", "poseBroadcast"} => seen[c][arg[c]] # None
    /\ \A c \in Conns, e \in entities : AddPending(e) \/ Knows(c, e)

\* What the SessionState and the clients hold.
ViewTypes ==
    /\ listed \in [Conns -> SUBSET EntityIDs]
    /\ snapPoses \in [Conns -> [EntityIDs -> Nat]]
    /\ seen \in [Conns -> [EntityIDs -> Nat]]

\* Poses are natural numbers.
LEMMA Views ==
    ASSUME TypeOK PROVE ViewTypes
<1>1. Poses \cup {None} \subseteq Nat
  BY EntitySyncAssumption DEF Poses, None
<1>2. \A f \in [EntityIDs -> Poses \cup {None}] : f \in [EntityIDs -> Nat]
  BY <1>1
<1>. QED  BY <1>2 DEF TypeOK, ViewTypes

\* A step of c that makes no client forget entity f, and does not announce
\* it, leaves everybody else's knowledge of f as it was.
LEMMA OthersKnow ==
    ASSUME KnownInv, NEW c \in Conns, NEW f \in entities,
           \A d \in Conns \ {c} : /\ pc'[d] = pc[d] /\ arg'[d] = arg[d] /\ listed'[d] = listed[d]
                                  /\ seen[d][f] # None => seen'[d][f] # None,
           ~ (pc[c] = "addBroadcast" /\ arg[c] = f),
           Knows(c, f) => Knows(c, f)'
    PROVE  \A d \in Conns : AddPending(f)' \/ Knows(d, f)'
<1>1. CASE AddPending(f)
  BY <1>1 DEF AddPending
<1>2. CASE ~ AddPending(f)
  <2>1. \A d \in Conns : Knows(d, f)
    BY <1>2 DEF KnownInv
  <2>2. ASSUME NEW d \in Conns, d # c PROVE Knows(d, f)'
    BY <2>1, <2>2 DEF Knows, Informed
  <2>. QED  BY <2>1, <2>2
<1>. QED  BY <1>1, <1>2

\* The new entity is pending until EntityAddBroadcast.
LEMMA EntityAddKeepsKnown ==
    ASSUME CoreInv, KnownInv, NEW c \in Conns, NEW keep \in BOOLEAN, NEW p \in Poses, EntityAdd(c, keep, p)
    PROVE  KnownInv'
<1> DEFINE e == lastEntityID + 1
<1>1. e \in EntityIDs /\ p # None /\ e \in Nat /\ lastEntityID' = e /\ lastEntityID \in Nat
  BY EntitySyncAssumption DEF EntityAdd, EntityIDs, Poses, None, CoreInv, TypeOK
<1>2. /\ pc[c] = "ready" /\ pc'[c] = "addBroadcast" /\ arg'[c] = e
      /\ \A d \in Conns \ {c} : pc'[d] = pc[d] /\ arg'[d] = arg[d] /\ seen'[d] = seen[d]
      /\ \A f \in EntityIDs \ {e} : seen'[c][f] = seen[c][f]
      /\ seen'[c][e] = p /\ entities' = entities \cup {e}
      /\ listed' = listed /\ snapPoses' = snapPoses
  BY <1>1 DEF EntityAdd, NewEntityID, GoTo, CoreInv, TypeOK, snapVars
<1>3. entities \subseteq EntityIDs \ {e}
  BY <1>1 DEF CoreInv, TypeOK, OwnershipInv
<1>4. \A d \in Conns : listed[d] \subseteq 1 .. lastEntityID => listed'[d] \subseteq 1 .. lastEntityID'
  BY <1>1, <1>2
<1> HIDE DEF e
<1>5. ASSUME NEW f \in entities'
      PROVE  \A d \in Conns : AddPending(f)' \/ Knows(d, f)'
  <2>1. CASE f = e
    BY <1>2, <2>1 DEF AddPending
  <2>2. CASE f # e
    <3>1. Knows(c, f) => Knows(c, f)'
      BY <1>2, <1>3, <2>2 DEF Knows, Informed, Telling
    <3>. QED  BY <1>2, <2>2, <3>1, OthersKnow
  <2>. QED  BY <2>1, <2>2
<1>6. \A d \in Conns : pc'[d] \in {"addBroadcast", "poseBroadcast"} => seen'[d][arg'[d]] # None
  BY <1>1, <1>2 DEF KnownInv
<1>. QED  BY <1>2, <1>4, <1>5, <1>6 DEF KnownInv

\* A pose update makes nobody forget an entity.
LEMMA EntityUpdatePoseKeepsKnown ==
    ASSUME CoreInv, KnownInv, NEW c \in Conns, NEW e \in EntityIDs, NEW p \in Poses,
           EntityUpdatePose(c, e, p)
    PROVE  KnownInv'
<1>1. p # None /\ entities \subseteq EntityIDs
  BY DEF Poses, None, CoreInv, TypeOK
<1>2. /\ pc[c] = "ready" /\ pc'[c] = "poseBroadcast" /\ arg'[c] = e
      /\ \A d \in Conns \ {c} : pc'[d] = pc[d] /\ arg'[d] = arg[d] /\ seen'[d] = seen[d]
      /\ \A f \in EntityIDs \ {e} : seen'[c][f] = seen[c][f]
      /\ seen'[c][e] = p /\ UNCHANGED <<entities, lastEntityID, listed, snapPoses>>
  BY DEF EntityUpdatePose, GoTo, CoreInv, TypeOK, snapVars
<1>3. ASSUME NEW f \in entities'
      PROVE  \A d \in Conns : AddPending(f)' \/ Knows(d, f)'
  <2>1. Knows(c, f) => Knows(c, f)'
    BY <1>1, <1>2 DEF Knows, Informed, Telling
  <2>. QED  BY <1>2, <2>1, OthersKnow
<1>4. \A d \in Conns : pc'[d] \in {"addBroadcast", "poseBroadcast"} => seen'[d][arg'[d]] # None
  BY <1>1, <1>2 DEF KnownInv
<1>. QED  BY <1>2, <1>3, <1>4 DEF KnownInv

\* The announcement reaches everybody in the session.
LEMMA EntityBroadcastKeepsKnown ==
    ASSUME "DISABLE_ENTITY_ADD_BROADCAST" \notin Flags,
           CoreInv, KnownInv, NEW c \in Conns, EntityBroadcast(c)
    PROVE  KnownInv'
<1> DEFINE e == arg[c]
<1>1. /\ pc[c] \in Telling /\ e \in EntityIDs /\ pc'[c] \in {"leaveEntities", "ready"}
      /\ (pc'[c] = "ready" => Informed(c))
      /\ \A d \in Conns \ {c} : pc'[d] = pc[d] /\ arg'[d] = arg[d]
      /\ UNCHANGED <<entities, lastEntityID, pose, listed, snapPoses>> /\ seen'[c] = seen[c]
      /\ \A d \in Conns, f \in EntityIDs : f # e => seen'[d][f] = seen[d][f]
      /\ \A d \in Conns : \/ seen'[d][e] = seen[d][e]
                          \/ seen'[d][e] = IF e \in entities THEN pose[e] ELSE None
  <2>1. EntityBroadcastStep(c)
    BY EntityBroadcastEffect
  <2>2. pc \in [Conns -> Places] /\ arg \in [Conns -> EntityIDs \cup {None}]
    BY DEF CoreInv, TypeOK
  <2>. QED  BY <2>1, <2>2 DEF EntityBroadcastStep, Telling, Informed, entityVars, snapVars
<1>2. e \in entities => pose[e] # None
  BY DEF CoreInv, TypeOK, OwnershipInv
<1>3. entities \subseteq EntityIDs
  BY DEF CoreInv, TypeOK
<1>4. \A d \in Conns, f \in entities : seen[d][f] # None => seen'[d][f] # None
  BY <1>1, <1>2, <1>3
<1>5. ASSUME NEW f \in entities, ~ (pc[c] = "addBroadcast" /\ e = f)
      PROVE  \A d \in Conns : AddPending(f)' \/ Knows(d, f)'
  <2>1. Knows(c, f) => Knows(c, f)'
    BY <1>1 DEF Knows, Informed, Telling
  <2>. QED  BY <1>1, <1>4, <1>5, <2>1, OthersKnow
<1>6. ASSUME NEW f \in entities, pc[c] = "addBroadcast", e = f
      PROVE  \A d \in Conns : Knows(d, f)'
  <2>1. BroadcastFlag(c) \notin Flags
    BY <1>6 DEF BroadcastFlag
  <2>2. ASSUME NEW d \in Conns, d # c, InSession(d)
        PROVE  seen'[d][f] # None
    BY <1>2, <1>6, <2>1, <2>2, EntityBroadcastIsHeard
  <2>3. seen'[c][f] # None
    BY <1>1, <1>6 DEF KnownInv
  <2>4. \A d \in Conns \ {c} : ~ InSession(d) => Knows(d, f)'
    BY <1>1 DEF InSession, Knows, Informed, Telling
  <2>5. \A d \in Conns : seen'[d][f] # None => Knows(d, f)'
    BY DEF Knows
  <2>. QED  BY <2>2, <2>3, <2>4, <2>5
<1>7. ASSUME NEW d \in Conns, pc'[d] \in {"addBroadcast", "poseBroadcast"}
      PROVE  seen'[d][arg'[d]] # None
  <2>1. d # c /\ pc[d] = pc'[d] /\ arg'[d] = arg[d]
    BY <1>1, <1>7
  <2>2. arg[d] \in entities
    BY <1>7, <2>1 DEF CoreInv, OwnershipInv, Telling
  <2>. QED  BY <1>4, <1>7, <2>1, <2>2 DEF KnownInv
<1>. QED  BY <1>1, <1>5, <1>6, <1>7 DEF KnownInv

\* Entities that were added before the list was taken are on it.
LEMMA GetEntitiesKeepsKnown ==
    ASSUME CoreInv, KnownInv, NEW c \in Conns, GetEntities(c)
    PROVE  KnownInv'
<1>1. entities \subseteq 1 .. lastEntityID
  BY EntitySyncAssumption DEF CoreInv, TypeOK, OwnershipInv, EntityIDs
<1>2. /\ pc[c] = "getEntities" /\ pc'[c] = "readPoses" /\ listed'[c] = entities
      /\ \A d \in Conns \ {c} : pc'[d] = pc[d] /\ listed'[d] = listed[d]
      /\ UNCHANGED <<entities, lastEntityID, snapPoses, seen, arg>>
  BY DEF GetEntities, GoTo, CoreInv, TypeOK, entityVars, clientVars
<1>3. ASSUME NEW f \in entities'
      PROVE  \A d \in Conns : AddPending(f)' \/ Knows(d, f)'
  <2>1. Knows(c, f)'
    BY <1>2 DEF Knows, Informed, Telling
  <2>. QED  BY <1>2, <2>1, OthersKnow
<1>4. ASSUME NEW d \in Conns
      PROVE  /\ pc'[d] \in {"readPoses", "sendState"} => listed'[d] \subseteq 1 .. lastEntityID'
             /\ \A e \in listed'[d] : pc'[d] = "sendState" => snapPoses'[d][e] # None
             /\ pc'[d] \in {"addBroadcast", "poseBroadcast"} => seen'[d][arg'[d]] # None
  <2>1. CASE d = c
    BY <1>1, <1>2, <2>1
  <2>2. CASE d # c
    BY <1>2, <2>2 DEF KnownInv
  <2>. QED  BY <2>1, <2>2
<1>. QED  BY <1>3, <1>4 DEF KnownInv

\* Every step keeps what clients know of.
LEMMA KnownStep ==
    ASSUME "DISABLE_SESSION_STATE" \notin Flags, "DISABLE_ENTITY_ADD_BROADCAST" \notin Flags,
           CoreInv, KnownInv, NEW c \in Conns, Request(c) \/ Handle(c)
    PROVE  KnownInv'
<1>1. NumberTypes /\ MembershipInv /\ OwnershipInv /\ ViewTypes
  BY Numbers, Views DEF CoreInv
<1>2. EntityBroadcast(c) => EntityBroadcastStep(c)
  BY EntityBroadcastEffect
<1> USE <1>1 DEF NumberTypes, ViewTypes, KnownInv, Knows, AddPending, Informed, GoTo, None,
                 sessionVars, entityVars, snapVars, clientVars
<1>3. CASE Join(c)
  BY <1>3 DEF Join, Telling
<1>4. ASSUME NEW keep \in BOOLEAN, NEW p \in Poses, EntityAdd(c, keep, p)
      PROVE  KnownInv'
  BY <1>4, EntityAddKeepsKnown
<1>5. ASSUME NEW e \in EntityIDs, EntityDelete(c, e)
      PROVE  KnownInv'
  BY <1>5 DEF EntityDelete, MayChange, Telling
<1>6. ASSUME NEW e \in EntityIDs, NEW p \in Poses, EntityUpdatePose(c, e, p)
      PROVE  KnownInv'
  BY <1>6, EntityUpdatePoseKeepsKnown
<1>7. CASE Leave(c)
  BY <1>7 DEF Leave, Telling
<1>8. CASE GetParticipants(c)
  BY <1>8 DEF GetParticipants, Telling
<1>9. CASE GetEntities(c)
  BY <1>9, GetEntitiesKeepsKnown
<1>10. CASE ReadPoses(c)
  BY <1>10 DEF ReadPoses, Telling, OwnershipInv
<1>11. CASE SendSessionState(c)
  BY <1>11 DEF SendSessionState, Telling
<1>12. CASE JoinBroadcast(c)
  BY <1>12 DEF JoinBroadcast, Telling, IfNotSet, TellParticipant
<1>13. CASE EntityBroadcast(c)
  BY <1>13, EntityBroadcastKeepsKnown
<1>14. ASSUME NEW e \in EntityIDs, LeaveRemoveEntity(c, e)
       PROVE  KnownInv'
  BY <1>14 DEF LeaveRemoveEntity, Telling
<1>15. CASE RemoveParticipant(c)
  BY <1>15 DEF RemoveParticipant, Telling
<1>16. CASE LeaveBroadcast(c)
  BY <1>16 DEF LeaveBroadcast, Telling
<1>. QED  BY <1>3, <1>4, <1>5, <1>6, <1>7, <1>8, <1>9, <1>10, <1>11, <1>12, <1>13, <1>14, <1>15, <1>16
          DEF Request, Handle, EntityBroadcast

\* A server that sends the SessionState and announces new entities leaves no
\* client without one: Informed clients know every entity that is not about
\* to be announced.
THEOREM NoClientMissesAnEntity ==
    ASSUME "DISABLE_SESSION_STATE" \notin Flags, "DISABLE_ENTITY_ADD_BROADCAST" \notin Flags
    PROVE  Spec => []NoMissedEntity
<1>1. Init => KnownInv
  BY DEF Init, KnownInv
<1>2. CoreInv /\ KnownInv /\ [Next]_vars => KnownInv'
  <2>1. KnownInv /\ UNCHANGED vars => KnownInv'
    BY DEF vars, sessionVars, entityVars, snapVars, clientVars, KnownInv, Knows, AddPending, Informed
  <2>. QED  BY <2>1, KnownStep DEF Next
<1>3. KnownInv => NoMissedEntity
  BY DEF KnownInv, Knows, AddPending, NoMissedEntity, EntityPending, Telling
<1>. QED  BY <1>1, <1>2, <1>3, SessionIsConsistent, PTL DEF Spec

-----------------------------------------------------------------------------
(* What clients know is exact.                                             *)

Now(e) == IF e \in entities THEN pose[e] ELSE None

\* What client c knows of entity e, unless a broadcast about e raced with the
\* SessionState: nothing before the SessionState arrives, and from then on
\* what the session holds.
Exact(c, e) ==
    e \notin raced[c].entities =>
        /\ pc[c] \in JoinWindow => seen[c][e] = None
        /\ ~ EntityPending(e) =>
              /\ pc[c] \in {"readPoses", "sendState"} => (e \in listed[c] <=> e \in entities)
              /\ pc[c] = "sendState" /\ e \in listed[c] => snapPoses[c][e] = pose[e]
              /\ Informed(c) => seen[c][e] = Now(e)

\* The client that changes an entity is told first.
ExactInv ==
    /\ \A c \in Conns : pc[c] = "out" => seen[c] = Unknown
    /\ \A c \in Conns : pc[c] \in Telling \ {"leaveDeleteBroadcast"} => seen[c][arg[c]] = Now(arg[c])
    /\ \A c \in Conns, e \in EntityIDs : Exact(c, e)

\* The view of a client that is told nothing is still exact when the entity
\* has not changed, or is about to be announced.
LEMMA ExactKept ==
    ASSUME NEW d \in Conns, NEW e \in EntityIDs, Exact(d, e), pc'[d] = pc[d],
           raced[d].entities \subseteq raced'[d].entities,
           listed'[d] = listed[d], snapPoses'[d] = snapPoses[d], seen'[d][e] = seen[d][e],
           \/ EntityPending(e)'
           \/ ~ EntityPending(e) /\ (e \in entities' <=> e \in entities) /\ pose'[e] = pose[e]
    PROVE  Exact(d, e)'
BY DEF Exact, Informed, Now

\* A handler's step takes no other handler's pending broadcast away.
LEMMA PendingKept ==
    ASSUME NEW c \in Conns, NEW e \in EntityIDs, EntityPending(e),
           \A d \in Conns \ {c} : pc'[d] = pc[d] /\ arg'[d] = arg[d],
           ~ (pc[c] \in Telling /\ arg[c] = e)
    PROVE  EntityPending(e)'
BY DEF EntityPending

\* Two handlers never work on the same entity.
LEMMA OneTells ==
    ASSUME CoreInv, NEW c \in Conns, NEW d \in Conns, c # d, pc[d] \in Telling,
           InSession(c)
    PROVE  arg[d] \in EntityIDs /\ owner[arg[d]] # self[c]
<1>1. owner[arg[d]] = self[d] /\ arg[d] \in 1 .. lastEntityID /\ lastEntityID \in 0 .. MaxEntities
  BY DEF CoreInv, OwnershipInv, TypeOK
<1>2. self[d] # self[c]
  BY DEF CoreInv, MembershipInv, InSession, Telling
<1>. QED  BY <1>1, <1>2, EntitySyncAssumption DEF EntityIDs

\* The four steps that change an entity leave its broadcast pending.
Changes(c, e) ==
    /\ pc[c] \in {"ready", "leaveEntities"} /\ pc'[c] \in Telling /\ arg'[c] = e
    /\ pc[c] = "ready" <=> pc'[c] # "leaveDeleteBroadcast"
    /\ \A d \in Conns \ {c} : pc'[d] = pc[d] /\ arg'[d] = arg[d] /\ seen'[d] = seen[d]
    /\ \A f \in EntityIDs \ {e} : /\ seen'[c][f] = seen[c][f] /\ pose'[f] = pose[f]
                                  /\ f \in entities' <=> f \in entities
    /\ pc'[c] # "leaveDeleteBroadcast" => seen'[c][e] = Now(e)'
    /\ UNCHANGED <<listed, snapPoses, raced>>
    /\ \A d \in Conns \ {c} : pc[d] \in Telling => arg[d] \in EntityIDs \ {e}

\* Such a step makes only views of e inexact, and its broadcast is pending.
LEMMA ChangeKeepsExact ==
    ASSUME ExactInv, NEW c \in Conns, NEW e \in EntityIDs, Changes(c, e)
    PROVE  ExactInv'
<1>1. EntityPending(e)'
  BY DEF Changes, EntityPending
<1>2. ASSUME NEW f \in EntityIDs, f # e
      PROVE  EntityPending(f)' \/ ~ EntityPending(f)
  BY PendingKept DEF Changes, Telling
<1>3. ASSUME NEW d \in Conns, NEW f \in EntityIDs
      PROVE  Exact(d, f)'
  <2>1. Exact(d, f)
    BY DEF ExactInv
  <2>2. CASE d # c
    <3>1. CASE f = e
      BY <1>1, <2>1, <2>2, <3>1, ExactKept DEF Changes
    <3>2. CASE f # e
      BY <1>2, <2>1, <2>2, <3>2, ExactKept DEF Changes
    <3>. QED  BY <3>1, <3>2
  <2>3. CASE d = c /\ f = e
    BY <1>1, <2>3 DEF Changes, Exact, Telling, JoinWindow
  <2>4. CASE d = c /\ f # e
    BY <1>2, <2>1, <2>4 DEF Changes, Exact, Informed, Now, Telling, JoinWindow
  <2>. QED  BY <2>2, <2>3, <2>4
<1>4. \A d \in Conns : pc'[d] = "out" => seen'[d] = Unknown'
  BY DEF Changes, ExactInv, Unknown, Telling
<1>5. ASSUME NEW d \in Conns, pc'[d] \in Telling \ {"leaveDeleteBroadcast"}
      PROVE  seen'[d][arg'[d]] = Now(arg[d])'
  <2>1. CASE d = c
    BY <1>5, <2>1 DEF Changes, Now
  <2>2. CASE d # c
    BY <1>5, <2>2 DEF Changes, ExactInv, Now
  <2>. QED  BY <2>1, <2>2
<1>. QED  BY <1>3, <1>4, <1>5 DEF ExactInv

\* HandleEntityAdd, HandleEntityDelete, HandleEntityUpdatePose and the loop of
\* leaveSession are such steps.
LEMMA RequestChanges ==
    ASSUME CoreInv, NEW c \in Conns
    PROVE  /\ \A keep \in BOOLEAN, p \in Poses : EntityAdd(c, keep, p) =>
                 \E e \in EntityIDs : Changes(c, e)
           /\ \A e \in EntityIDs : EntityDelete(c, e) => Changes(c, e)
           /\ \A e \in EntityIDs, p \in Poses : EntityUpdatePose(c, e, p) => Changes(c, e)
           /\ \A e \in EntityIDs : LeaveRemoveEntity(c, e) => Changes(c, e)
<1>1. NumberTypes /\ ViewTypes /\ OwnershipInv
  BY Numbers, Views DEF CoreInv
<1>2. InSession(c) => \A d \in Conns \ {c} : pc[d] \in Telling =>
         arg[d] \in EntityIDs /\ owner[arg[d]] # self[c] /\ arg[d] <= lastEntityID
  BY OneTells DEF CoreInv, OwnershipInv
<1> USE <1>1 DEF NumberTypes, ViewTypes, Changes, Telling, Now, InSession, GoTo, snapVars, clientVars
<1>3. ASSUME NEW keep \in BOOLEAN, NEW p \in Poses, EntityAdd(c, keep, p)
      PROVE  \E e \in EntityIDs : Changes(c, e)
  <2>1. lastEntityID + 1 \in EntityIDs
    BY <1>3, EntitySyncAssumption DEF EntityAdd, EntityIDs
  <2>2. PICK e \in EntityIDs : e = lastEntityID + 1
    BY <2>1
  <2>3. /\ pc[c] = "ready" /\ pc' = [pc EXCEPT ![c] = "addBroadcast"] /\ arg' = [arg EXCEPT ![c] = e]
        /\ seen' = [seen EXCEPT ![c][e] = p] /\ pose' = [pose EXCEPT ![e] = p]
        /\ entities' = entities \cup {e}
        /\ UNCHANGED <<listed, snapPoses, raced>>
    BY <1>3, <2>2 DEF EntityAdd, NewEntityID
  <2>4. \A d \in Conns \ {c} : pc[d] \in Telling => arg[d] \in EntityIDs \ {e}
    BY <1>2, <2>2, <2>3
  <2>5. Changes(c, e)
    BY <2>3, <2>4
  <2>. QED  BY <2>5
<1>4. ASSUME NEW e \in EntityIDs, EntityDelete(c, e)
      PROVE  Changes(c, e)
  BY <1>2, <1>4 DEF EntityDelete, MayChange
<1>5. ASSUME NEW e \in EntityIDs, NEW p \in Poses, EntityUpdatePose(c, e, p)
      PROVE  Changes(c, e)
  BY <1>2, <1>5 DEF EntityUpdatePose, MayChange
<1>6. ASSUME NEW e \in EntityIDs, LeaveRemoveEntity(c, e)
      PROVE  Changes(c, e)
  BY <1>2, <1>6 DEF LeaveRemoveEntity, OwnershipInv
<1>. QED  BY <1>3, <1>4, <1>5, <1>6

\* The flags under which clients hear of every change.
EntitiesAreTold ==
    Flags \cap {"DISABLE_SESSION_STATE", "DISABLE_ENTITY_ADD_BROADCAST",
                "DISABLE_ENTITY_DELETE_BROADCAST", "DISABLE_ENTITY_UPDATE_POSE_BROADCAST"} = {}

\* The broadcast makes the views of e exact again, or raced.
LEMMA EntityBroadcastKeepsExact ==
    ASSUME EntitiesAreTold, CoreInv, KnownInv, ExactInv, NEW c \in Conns, EntityBroadcast(c)
    PROVE  ExactInv'
<1>1. /\ pc[c] \in Telling /\ arg[c] \in EntityIDs /\ pc'[c] \in {"leaveEntities", "ready"}
      /\ pc'[c] = "ready" <=> pc[c] # "leaveDeleteBroadcast"
      /\ \A d \in Conns \ {c} : pc'[d] = pc[d] /\ arg'[d] = arg[d]
      /\ UNCHANGED <<entities, pose, listed, snapPoses>> /\ seen'[c] = seen[c]
      /\ \A d \in Conns : ~ InSession(d) => seen'[d] = seen[d]
      /\ \A d \in Conns, f \in EntityIDs : f # arg[c] => seen'[d][f] = seen[d][f]
      /\ \A d \in Conns : raced[d].entities \subseteq raced'[d].entities
  <2>1. EntityBroadcastStep(c)
    BY EntityBroadcastEffect
  <2>2. pc \in [Conns -> Places] /\ arg \in [Conns -> EntityIDs \cup {None}]
    BY DEF CoreInv, TypeOK
  <2>. QED  BY <2>1, <2>2 DEF EntityBroadcastStep, entityVars, snapVars
<1>2. InSession(c)
  BY <1>1 DEF InSession, Telling
<1>3. ASSUME NEW d \in Conns, NEW f \in EntityIDs, f # arg[c]
      PROVE  Exact(d, f)'
  <2>1. EntityPending(f) => EntityPending(f)'
    BY <1>1, <1>3, PendingKept
  <2>2. Exact(d, f)
    BY DEF ExactInv
  <2>3. CASE d # c
    BY <1>1, <1>3, <2>1, <2>2, <2>3, ExactKept
  <2>4. CASE d = c
    BY <1>1, <1>3, <2>1, <2>2, <2>4 DEF Exact, Informed, Now, JoinWindow, Telling
  <2>. QED  BY <2>3, <2>4
<1>4. ASSUME NEW d \in Conns, NEW f \in EntityIDs, f = arg[c]
      PROVE  Exact(d, f)'
  <2>1. CASE d = c
    BY <1>1, <1>4, <2>1 DEF ExactInv, Exact, Informed, Now, JoinWindow, Telling
  <2>2. CASE d # c /\ ~ InSession(d)
    BY <1>1, <2>2 DEF Exact, Informed, JoinWindow, Telling, InSession
  <2>3. CASE d # c /\ InSession(d)
    <3>1. BroadcastFlag(c) \notin Flags
      BY DEF BroadcastFlag, EntitiesAreTold
    <3>2. CASE pc[d] \in JoinWindow
      <4>1. f \in raced'[d].entities
        BY <1>4, <2>3, <3>1, <3>2, EntityBroadcastIsHeard
      <4>. QED  BY <4>1 DEF Exact
    <3>3. CASE pc[d] \notin JoinWindow
      <4>1. f \in entities <=> pc[c] \in {"addBroadcast", "poseBroadcast"}
        BY <1>1, <1>4 DEF CoreInv, OwnershipInv
      <4>2. CASE pc[c] = "poseBroadcast"
        <5>1. ~ AddPending(f)
          <6>1. ASSUME NEW g \in Conns, pc[g] = "addBroadcast", arg[g] = f
                PROVE  FALSE
            <7>1. owner[arg[c]] = self[c]
              BY <1>1 DEF CoreInv, OwnershipInv
            <7>. QED  BY <1>2, <1>4, <4>2, <6>1, <7>1, OneTells DEF Telling
          <6>. QED  BY <6>1 DEF AddPending
        <5>2. Informed(d) => seen[d][f] # None
          BY <4>1, <4>2, <5>1 DEF KnownInv, Knows
        <5>3. Informed(d) => seen'[d][f] = pose[f]
          BY <1>4, <2>3, <3>1, <4>2, <5>2, EntityBroadcastIsHeard
        <5>. QED  BY <1>1, <2>3, <3>3, <4>1, <4>2, <5>3 DEF Exact, Informed, Now, JoinWindow
      <4>3. CASE pc[c] # "poseBroadcast"
        <5>1. seen'[d][f] = IF pc[c] = "addBroadcast" THEN pose[f] ELSE None
          BY <1>4, <2>3, <3>1, <4>3, EntityBroadcastIsHeard
        <5>. QED  BY <1>1, <2>3, <3>3, <4>1, <4>3, <5>1 DEF Exact, Informed, Now, JoinWindow
      <4>. QED  BY <4>2, <4>3
    <3>. QED  BY <3>2, <3>3
  <2>. QED  BY <2>1, <2>2, <2>3
<1>5. \A d \in Conns : pc'[d] = "out" => seen'[d] = Unknown'
  BY <1>1 DEF ExactInv, Unknown, InSession
<1>6. ASSUME NEW d \in Conns, pc'[d] \in Telling \ {"leaveDeleteBroadcast"}
      PROVE  seen'[d][arg'[d]] = Now(arg[d])'
  <2>1. d # c /\ pc[d] = pc'[d] /\ arg'[d] = arg[d]
    BY <1>1, <1>6 DEF Telling
  <2>2. arg[d] \in EntityIDs /\ arg[d] # arg[c]
    <3>1. owner[arg[c]] = self[c]
      BY <1>1 DEF CoreInv, OwnershipInv
    <3>. QED  BY <1>2, <1>6, <2>1, <3>1, OneTells
  <2>. QED  BY <1>1, <1>6, <2>1, <2>2 DEF ExactInv, Now
<1>. QED  BY <1>3, <1>4, <1>5, <1>6 DEF ExactInv

\* A step of c that neither changes an entity nor speaks of one leaves the
\* other views alone.
LEMMA OwnStepKeepsExact ==
    ASSUME ExactInv, NEW c \in Conns, UNCHANGED <<entities, pose, arg>>,
           pc[c] \notin Telling, pc'[c] \notin Telling,
           \A d \in Conns \ {c} : /\ pc'[d] = pc[d] /\ listed'[d] = listed[d]
                                  /\ snapPoses'[d] = snapPoses[d] /\ seen'[d] = seen[d]
                                  /\ raced[d].entities \subseteq raced'[d].entities,
           pc'[c] = "out" => seen'[c] = Unknown,
           \A f \in EntityIDs : Exact(c, f) /\ (EntityPending(f)' <=> EntityPending(f)) => Exact(c, f)'
    PROVE  ExactInv'
<1>1. \A f \in EntityIDs : EntityPending(f)' <=> EntityPending(f)
  BY DEF EntityPending
<1>2. ASSUME NEW d \in Conns, NEW f \in EntityIDs, d # c
      PROVE  Exact(d, f)'
  <2>1. Exact(d, f)
    BY DEF ExactInv
  <2>. QED  BY <1>1, <1>2, <2>1, ExactKept
<1>3. \A f \in EntityIDs : Exact(c, f)'
  BY <1>1 DEF ExactInv
<1>4. \A d \in Conns : pc'[d] = "out" => seen'[d] = Unknown'
  BY DEF ExactInv, Unknown
<1>5. \A d \in Conns : pc'[d] \in Telling \ {"leaveDeleteBroadcast"} => seen'[d][arg'[d]] = Now(arg[d])'
  BY DEF ExactInv, Now
<1>. QED  BY <1>2, <1>3, <1>4, <1>5 DEF ExactInv

\* Every step keeps the views exact.
LEMMA ExactStep ==
    ASSUME EntitiesAreTold, CoreInv, KnownInv, ExactInv, NEW c \in Conns, Request(c) \/ Handle(c)
    PROVE  ExactInv'
<1>1. CASE EntityBroadcast(c)
  BY <1>1, EntityBroadcastKeepsExact
<1>2. ASSUME NEW e \in EntityIDs, Changes(c, e)
      PROVE  ExactInv'
  BY <1>2, ChangeKeepsExact
<1>3. CASE \/ \E keep \in BOOLEAN, p \in Poses : EntityAdd(c, keep, p)
           \/ \E e \in EntityIDs : EntityDelete(c, e)
           \/ \E e \in EntityIDs, p \in Poses : EntityUpdatePose(c, e, p)
           \/ \E e \in EntityIDs : LeaveRemoveEntity(c, e)
  BY <1>2, <1>3, RequestChanges
<1>4. /\ pc \in [Conns -> Places] /\ pose \in [EntityIDs -> Nat] /\ entities \subseteq EntityIDs
      /\ ViewTypes
  BY Numbers, Views DEF CoreInv, NumberTypes
<1>5. "DISABLE_SESSION_STATE" \notin Flags
  BY DEF EntitiesAreTold
<1>6. CASE Join(c)
  <2>1. /\ pc[c] = "out" /\ pc' = [pc EXCEPT ![c] = "getParticipants"] /\ pc'[c] = "getParticipants"
        /\ UNCHANGED <<entities, pose, arg, listed, snapPoses, seen, raced>>
    BY <1>4, <1>5, <1>6 DEF Join, GoTo, entityVars, snapVars, clientVars
  <2>2. \A f \in EntityIDs : Exact(c, f)'
    BY <2>1 DEF ExactInv, Exact, Informed, Unknown, Telling
  <2>. QED  BY <1>4, <2>1, <2>2, OwnStepKeepsExact DEF Telling
<1>7. CASE Leave(c) \/ RemoveParticipant(c) \/ LeaveBroadcast(c)
  <2>1. /\ pc[c] \in {"ready", "leaveEntities", "leaveBroadcast"}
        /\ UNCHANGED <<entities, pose, arg, listed, snapPoses>>
        /\ pc'[c] \in {"leaveEntities", "leaveBroadcast", "out"}
        /\ pc' = [pc EXCEPT ![c] = pc'[c]]
    BY <1>4, <1>7 DEF Leave, RemoveParticipant, LeaveBroadcast, GoTo, entityVars, snapVars
  <2>2. /\ \A d \in Conns \ {c} : seen'[d] = seen[d]
        /\ pc'[c] = "out" => seen'[c] = Unknown
    BY <1>4, <1>7, <2>1 DEF Leave, RemoveParticipant, LeaveBroadcast, GoTo, clientVars, ViewTypes
  <2>3. \A d \in Conns \ {c} : raced[d].entities \subseteq raced'[d].entities
    <3>1. CASE LeaveBroadcast(c)
      <4>1. self[c] \in ParticipantIDs
        BY <3>1 DEF LeaveBroadcast, CoreInv, TypeOK, MembershipInv
      <4>2. DepartureTold(c)
        BY <3>1, <4>1, LeaveBroadcastEffect DEF CoreInv
      <4>. QED  BY <4>2 DEF DepartureTold
    <3>2. CASE raced' = raced
      BY <3>2
    <3>. QED  BY <1>7, <3>1, <3>2 DEF Leave, RemoveParticipant, clientVars
  <2>4. \A f \in EntityIDs : Exact(c, f)'
    BY <2>1 DEF Exact, Informed, Telling, JoinWindow
  <2>. QED  BY <1>4, <2>1, <2>2, <2>3, <2>4, OwnStepKeepsExact DEF Telling
<1>8. CASE GetParticipants(c)
  <2>1. /\ pc[c] = "getParticipants" /\ pc' = [pc EXCEPT ![c] = "getEntities"] /\ pc'[c] = "getEntities"
        /\ UNCHANGED <<entities, pose, arg, listed, snapPoses, seen, raced>>
    BY <1>4, <1>8 DEF GetParticipants, GoTo, entityVars, clientVars
  <2>2. \A f \in EntityIDs : Exact(c, f) => Exact(c, f)'
    BY <2>1 DEF Exact, Informed, Telling, JoinWindow
  <2>. QED  BY <1>4, <2>1, <2>2, OwnStepKeepsExact DEF Telling
<1>9. CASE GetEntities(c)
  <2>1. /\ pc[c] = "getEntities" /\ pc' = [pc EXCEPT ![c] = "readPoses"] /\ pc'[c] = "readPoses"
        /\ listed' = [listed EXCEPT ![c] = entities] /\ listed'[c] = entities
        /\ UNCHANGED <<entities, pose, arg, snapPoses, seen, raced>>
    BY <1>4, <1>9 DEF GetEntities, GoTo, entityVars, clientVars, ViewTypes
  <2>2. \A f \in EntityIDs : Exact(c, f) => Exact(c, f)'
    BY <2>1 DEF Exact, Informed, Telling, JoinWindow
  <2>. QED  BY <1>4, <2>1, <2>2, OwnStepKeepsExact DEF Telling, ViewTypes
<1>10. CASE ReadPoses(c)
  <2>1. /\ pc[c] = "readPoses" /\ pc' = [pc EXCEPT ![c] = "sendState"] /\ pc'[c] = "sendState"
        /\ \A d \in Conns \ {c} : snapPoses'[d] = snapPoses[d]
        /\ \A f \in EntityIDs : f \in listed[c] => snapPoses'[c][f] = pose[f]
        /\ UNCHANGED <<entities, pose, arg, listed, seen, raced>>
    BY <1>4, <1>10 DEF ReadPoses, GoTo, entityVars, clientVars, ViewTypes
  <2>2. \A f \in EntityIDs : Exact(c, f) /\ (EntityPending(f)' <=> EntityPending(f)) => Exact(c, f)'
    BY <2>1 DEF Exact, Informed, Telling, JoinWindow
  <2>. QED  BY <1>4, <2>1, <2>2, OwnStepKeepsExact DEF Telling
<1>11. CASE SendSessionState(c)
  <2>1. /\ pc[c] = "sendState" /\ pc' = [pc EXCEPT ![c] = "joinBroadcast"] /\ pc'[c] = "joinBroadcast"
        /\ \A d \in Conns \ {c} : /\ snapPoses'[d] = snapPoses[d] /\ listed'[d] = listed[d]
                                  /\ seen'[d] = seen[d]
        /\ \A f \in EntityIDs : seen'[c][f] = IF f \in listed[c] THEN snapPoses[c][f] ELSE seen[c][f]
        /\ UNCHANGED <<entities, pose, arg, raced>>
    BY <1>4, <1>11 DEF SendSessionState, GoTo, entityVars, ViewTypes
  <2>2. \A f \in EntityIDs : Exact(c, f) /\ (EntityPending(f)' <=> EntityPending(f)) => Exact(c, f)'
    BY <2>1 DEF Exact, Informed, Telling, JoinWindow, Now
  <2>. QED  BY <1>4, <2>1, <2>2, OwnStepKeepsExact DEF Telling
<1>12. CASE JoinBroadcast(c)
  <2>1. /\ pc[c] = "joinBroadcast" /\ pc' = [pc EXCEPT ![c] = "ready"] /\ pc'[c] = "ready"
        /\ UNCHANGED <<entities, pose, arg, listed, snapPoses>>
    BY <1>4, <1>12 DEF JoinBroadcast, GoTo, entityVars, snapVars
  <2>2. seen' = seen /\ \A d \in Conns : raced'[d].entities = raced[d].entities
    <3>1. self[c] \in ParticipantIDs
      BY <2>1 DEF CoreInv, TypeOK, MembershipInv
    <3>2. CASE TellParticipant(c, self[c], TRUE)
      BY <3>1, <3>2, TellParticipantEffect DEF CoreInv, ParticipantTold
    <3>. QED  BY <1>12, <3>2 DEF JoinBroadcast, IfNotSet, clientVars
  <2>3. \A f \in EntityIDs : Exact(c, f) /\ (EntityPending(f)' <=> EntityPending(f)) => Exact(c, f)'
    BY <2>1, <2>2 DEF Exact, Informed, JoinWindow, Now
  <2>. QED  BY <1>4, <2>1, <2>2, <2>3, OwnStepKeepsExact DEF Telling
<1>. QED  BY <1>1, <1>3, <1>6, <1>7, <1>8, <1>9, <1>10, <1>11, <1>12
          DEF Request, Handle, EntityBroadcast

\* With no broadcast switched off, what clients know of the entities is what
\* the session holds, apart from what raced with their SessionState.
THEOREM ClientViewsAreExact ==
    ASSUME EntitiesAreTold PROVE Spec => []ViewIsExact
<1>1. Init => KnownInv /\ ExactInv
  BY DEF Init, KnownInv, ExactInv, Exact, Informed, Telling, JoinWindow
<1>2. CoreInv /\ KnownInv /\ ExactInv /\ [Next]_vars => KnownInv' /\ ExactInv'
  <2>1. KnownInv /\ ExactInv /\ UNCHANGED vars => KnownInv' /\ ExactInv'
    BY DEF vars, sessionVars, entityVars, snapVars, clientVars, KnownInv, Knows, AddPending, Informed,
           ExactInv, Exact, EntityPending, Now, Unknown
  <2>2. "DISABLE_SESSION_STATE" \notin Flags /\ "DISABLE_ENTITY_ADD_BROADCAST" \notin Flags
    BY DEF EntitiesAreTold
  <2>. QED  BY <2>1, <2>2, KnownStep, ExactStep DEF Next
<1>3. ExactInv => ViewIsExact
  BY DEF ExactInv, Exact, ViewIsExact, Now
<1>. QED  BY <1>1, <1>2, <1>3, SessionIsConsistent, PTL DEF Spec

-----------------------------------------------------------------------------
(* The participants clients know of.                                       *)

\* The places where a handler has its participant's arrival or departure
\* still to announce.
Announcing == JoinWindow \cup {"joinBroadcast", "leaveBroadcast"}

MemberExact(c, p) ==
    p \notin raced[c].participants =>
        /\ pc[c] \in JoinWindow => p \notin members[c]
        /\ ~ ParticipantPending(p) =>
              /\ pc[c] \in JoinWindow \ {"getParticipants"} => (p \in snapMembers[c] <=> p \in participants)
              /\ Informed(c) => (p \in members[c] <=> p \in participants)

\* A client learns of itself from its own SessionState.
MembersInv ==
    /\ \A c \in Conns : pc[c] = "out" => members[c] = {}
    /\ \A c \in Conns : pc[c] \in JoinWindow \ {"getParticipants"} => self[c] \in snapMembers[c]
    /\ \A c \in Conns : Informed(c) => self[c] \in members[c]
    /\ \A c \in Conns, p \in ParticipantIDs : MemberExact(c, p)

\* The view of a client that is told nothing about p.
LEMMA MemberKept ==
    ASSUME NEW d \in Conns, NEW p \in ParticipantIDs, MemberExact(d, p), pc'[d] = pc[d],
           raced[d].participants \subseteq raced'[d].participants,
           snapMembers'[d] = snapMembers[d], p \in members'[d] <=> p \in members[d],
           \/ ParticipantPending(p)'
           \/ ~ ParticipantPending(p) /\ (p \in participants' <=> p \in participants)
    PROVE  MemberExact(d, p)'
BY DEF MemberExact, Informed

\* A step that is neither an arrival nor a departure.
LEMMA QuietStepKeepsMembers ==
    ASSUME MembersInv, NEW c \in Conns, UNCHANGED <<participants, self, snapMembers, members>>,
           \A d \in Conns : raced'[d].participants = raced[d].participants,
           \A d \in Conns \ {c} : pc'[d] = pc[d],
           pc[c] \notin Announcing \cup {"out"}, pc'[c] \notin Announcing \cup {"out"},
           Informed(c)' => Informed(c)
    PROVE  MembersInv'
<1>1. \A p \in ParticipantIDs : ParticipantPending(p)' <=> ParticipantPending(p)
  BY DEF ParticipantPending, Announcing
<1>2. ASSUME NEW d \in Conns, NEW p \in ParticipantIDs
      PROVE  MemberExact(d, p)'
  <2>1. MemberExact(d, p)
    BY DEF MembersInv
  <2>2. CASE d # c
    BY <1>1, <2>1, <2>2, MemberKept
  <2>3. CASE d = c
    BY <1>1, <2>1, <2>3 DEF MemberExact, Announcing
  <2>. QED  BY <2>2, <2>3
<1>3. \A d \in Conns : /\ pc'[d] = "out" => members'[d] = {}
                       /\ pc'[d] \in JoinWindow \ {"getParticipants"} => self'[d] \in snapMembers'[d]
                       /\ Informed(d)' => self'[d] \in members'[d]
  BY DEF MembersInv, Informed, Announcing
<1>. QED  BY <1>2, <1>3 DEF MembersInv

\* A step of c's own join, which neither adds a participant nor tells of one.
LEMMA JoinStepKeepsMembers ==
    ASSUME MembersInv, NEW c \in Conns, UNCHANGED <<participants, self, raced>>,
           \A d \in Conns \ {c} : /\ pc'[d] = pc[d] /\ snapMembers'[d] = snapMembers[d]
                                  /\ members'[d] = members[d],
           pc[c] \in JoinWindow, pc'[c] \in Announcing, pc'[c] # "leaveBroadcast",
           pc'[c] \in JoinWindow \ {"getParticipants"} => self[c] \in snapMembers'[c],
           Informed(c)' => self[c] \in members'[c],
           \A p \in ParticipantIDs :
               MemberExact(c, p) /\ (ParticipantPending(p)' <=> ParticipantPending(p)) => MemberExact(c, p)'
    PROVE  MembersInv'
<1>1. \A p \in ParticipantIDs : ParticipantPending(p)' <=> ParticipantPending(p)
  BY DEF ParticipantPending, Announcing
<1>2. ASSUME NEW d \in Conns, NEW p \in ParticipantIDs
      PROVE  MemberExact(d, p)'
  <2>1. MemberExact(d, p)
    BY DEF MembersInv
  <2>2. CASE d # c
    BY <1>1, <2>1, <2>2, MemberKept
  <2>. QED  BY <1>1, <2>1, <2>2
<1>3. ASSUME NEW d \in Conns
      PROVE  /\ pc'[d] = "out" => members'[d] = {}
             /\ pc'[d] \in JoinWindow \ {"getParticipants"} => self'[d] \in snapMembers'[d]
             /\ Informed(d)' => self'[d] \in members'[d]
  <2>1. CASE d = c
    BY <2>1 DEF Announcing, JoinWindow
  <2>2. CASE d # c
    BY <2>2 DEF MembersInv, Informed
  <2>. QED  BY <2>1, <2>2
<1>. QED  BY <1>2, <1>3 DEF MembersInv

\* The flags under which clients hear of everybody.
MembersAreTold ==
    Flags \cap {"DISABLE_SESSION_STATE", "DISABLE_PARTICIPANT_JOIN_BROADCAST",
                "DISABLE_PARTICIPANT_LEAVE_BROADCAST"} = {}

\* AddParticipant, JoinBroadcast, RemoveParticipant and LeaveBroadcast: the
\* others' views of everybody but the participant p of c.
LEMMA OthersKeepMembers ==
    ASSUME CoreInv, MembersInv, NEW c \in Conns, NEW p \in ParticipantIDs,
           \A d \in Conns \ {c} : /\ pc'[d] = pc[d] /\ self'[d] = self[d]
                                  /\ snapMembers'[d] = snapMembers[d]
                                  /\ raced[d].participants \subseteq raced'[d].participants,
           \A d \in Conns \ {c} : \A q \in ParticipantIDs \ {p} : q \in members'[d] <=> q \in members[d],
           \A q \in ParticipantIDs \ {p} : q \in participants' <=> q \in participants,
           self[c] \in {p, None}
    PROVE  \A d \in Conns \ {c} : \A q \in ParticipantIDs \ {p} : MemberExact(d, q)'
<1>1. ASSUME NEW q \in ParticipantIDs \ {p}
      PROVE  ParticipantPending(q) => ParticipantPending(q)'
  <2>1. q # None
    BY EntitySyncAssumption DEF ParticipantIDs, None
  <2>. QED  BY <2>1 DEF ParticipantPending
<1>2. ASSUME NEW d \in Conns \ {c}, NEW q \in ParticipantIDs \ {p}
      PROVE  MemberExact(d, q)'
  <2>1. MemberExact(d, q)
    BY DEF MembersInv
  <2>. QED  BY <1>1, <2>1, MemberKept
<1>. QED  BY <1>2

\* A new participant is pending until JoinBroadcast.
LEMMA JoinKeepsMembers ==
    ASSUME MembersAreTold, CoreInv, MembersInv, NEW c \in Conns, Join(c)
    PROVE  MembersInv'
<1>1. PICK p \in ParticipantIDs : p = lastParticipantID + 1
  BY EntitySyncAssumption DEF CoreInv, TypeOK, Join, ParticipantIDs
<1>2. /\ pc[c] = "out" /\ pc'[c] = "getParticipants" /\ self'[c] = p /\ self[c] = None
      /\ participants' = participants \cup {p} /\ UNCHANGED <<snapMembers, members, raced>>
      /\ \A d \in Conns \ {c} : pc'[d] = pc[d] /\ self'[d] = self[d]
  BY <1>1 DEF Join, GoTo, MembersAreTold, CoreInv, TypeOK, MembershipInv, snapVars, clientVars
<1>3. \A d \in Conns \ {c} : \A q \in ParticipantIDs \ {p} : MemberExact(d, q)'
  BY <1>2, OthersKeepMembers
<1>4. ParticipantPending(p)'
  BY <1>2 DEF ParticipantPending, JoinWindow
<1>5. ASSUME NEW d \in Conns \ {c} PROVE MemberExact(d, p)'
  <2>1. MemberExact(d, p)
    BY DEF MembersInv
  <2>. QED  BY <1>2, <1>4, <2>1, MemberKept
<1>6. \A q \in ParticipantIDs : MemberExact(c, q)'
  BY <1>2 DEF MembersInv, MemberExact, Informed, Telling
<1>7. ASSUME NEW d \in Conns
      PROVE  /\ pc'[d] = "out" => members'[d] = {}
             /\ pc'[d] \in JoinWindow \ {"getParticipants"} => self'[d] \in snapMembers'[d]
             /\ Informed(d)' => self'[d] \in members'[d]
  BY <1>2 DEF MembersInv, Informed, Telling
<1>. QED  BY <1>3, <1>5, <1>6, <1>7 DEF MembersInv

\* JoinBroadcast tells everybody in the session but the participant itself,
\* which knew before.
LEMMA JoinBroadcastKeepsMembers ==
    ASSUME MembersAreTold, CoreInv, MembersInv, NEW c \in Conns, JoinBroadcast(c)
    PROVE  MembersInv'
<1>1. self[c] \in participants /\ self[c] \in ParticipantIDs
  BY DEF CoreInv, TypeOK, MembershipInv, InSession, JoinBroadcast
<1>2. PICK p \in ParticipantIDs : p = self[c]
  BY <1>1
<1>3. /\ pc[c] = "joinBroadcast" /\ pc'[c] = "ready" /\ UNCHANGED <<self, participants, snapMembers>>
      /\ \A d \in Conns \ {c} : pc'[d] = pc[d]
  BY DEF JoinBroadcast, GoTo, CoreInv, TypeOK, sessionVars, snapVars
<1>4. ParticipantTold(c, p, TRUE)
  <2>1. TellParticipant(c, p, TRUE)
    BY <1>2 DEF JoinBroadcast, IfNotSet, MembersAreTold
  <2>. QED  BY <2>1, TellParticipantEffect DEF CoreInv
<1>5. /\ \A d \in Conns : members'[d] = IF d \in Recipients(c) THEN members[d] \cup {p} ELSE members[d]
      /\ \A d \in Conns : raced[d].participants \subseteq raced'[d].participants
      /\ \A d \in Conns : d \in Recipients(c) /\ pc[d] \in JoinWindow => p \in raced'[d].participants
  BY <1>4 DEF ParticipantTold
<1>6. \A d \in Conns : d \in Recipients(c) <=> d # c /\ InSession(d)
  BY DEF Recipients, CoreInv, MembershipInv
<1>7. \A d \in Conns \ {c} : \A q \in ParticipantIDs \ {p} : MemberExact(d, q)'
  <2>1. \A d \in Conns \ {c} : \A q \in ParticipantIDs \ {p} : q \in members'[d] <=> q \in members[d]
    BY <1>5
  <2>. QED  BY <1>2, <1>3, <1>5, <2>1, OthersKeepMembers
<1>8. ASSUME NEW d \in Conns \ {c} PROVE MemberExact(d, p)'
  BY <1>1, <1>2, <1>3, <1>5, <1>6 DEF MemberExact, InSession, Informed, JoinWindow, Telling
<1>9. ASSUME NEW q \in ParticipantIDs PROVE MemberExact(c, q)'
  <2>1. q # p => (ParticipantPending(q) => ParticipantPending(q)')
    BY <1>2, <1>3 DEF ParticipantPending
  <2>2. members'[c] = members[c] /\ Informed(c) /\ p \in members[c]
    BY <1>2, <1>3, <1>5, <1>6 DEF MembersInv, Informed
  <2>3. MemberExact(c, q)
    BY DEF MembersInv
  <2>. QED  BY <1>1, <1>2, <1>3, <1>5, <2>1, <2>2, <2>3 DEF MemberExact, JoinWindow
<1>10. ASSUME NEW d \in Conns
       PROVE  /\ pc'[d] = "out" => members'[d] = {}
              /\ pc'[d] \in JoinWindow \ {"getParticipants"} => self'[d] \in snapMembers'[d]
              /\ Informed(d)' => self'[d] \in members'[d]
  BY <1>3, <1>5, <1>6 DEF MembersInv, Informed, JoinWindow, InSession
<1>. QED  BY <1>7, <1>8, <1>9, <1>10 DEF MembersInv

\* A participant that was removed is pending until LeaveBroadcast.
LEMMA RemoveParticipantKeepsMembers ==
    ASSUME CoreInv, MembersInv, NEW c \in Conns, RemoveParticipant(c)
    PROVE  MembersInv'
<1>1. self[c] \in ParticipantIDs
  BY DEF CoreInv, TypeOK, MembershipInv, InSession, RemoveParticipant
<1>2. PICK p \in ParticipantIDs : p = self[c]
  BY <1>1
<1>3. /\ pc[c] = "leaveEntities" /\ pc'[c] = "leaveBroadcast" /\ participants' = participants \ {p}
      /\ UNCHANGED <<self, snapMembers, members, raced>>
      /\ \A d \in Conns \ {c} : pc'[d] = pc[d]
  BY <1>2 DEF RemoveParticipant, GoTo, CoreInv, TypeOK, snapVars, clientVars
<1>4. \A d \in Conns \ {c} : \A q \in ParticipantIDs \ {p} : MemberExact(d, q)'
  BY <1>2, <1>3, OthersKeepMembers
<1>5. ParticipantPending(p)'
  BY <1>2, <1>3 DEF ParticipantPending
<1>6. ASSUME NEW d \in Conns \ {c} PROVE MemberExact(d, p)'
  <2>1. MemberExact(d, p)
    BY DEF MembersInv
  <2>. QED  BY <1>3, <1>5, <2>1, MemberKept
<1>7. \A q \in ParticipantIDs : MemberExact(c, q)'
  BY <1>3 DEF MemberExact, Informed, JoinWindow, Telling
<1>8. ASSUME NEW d \in Conns
      PROVE  /\ pc'[d] = "out" => members'[d] = {}
             /\ pc'[d] \in JoinWindow \ {"getParticipants"} => self'[d] \in snapMembers'[d]
             /\ Informed(d)' => self'[d] \in members'[d]
  BY <1>3 DEF MembersInv, Informed, JoinWindow, Telling
<1>. QED  BY <1>4, <1>6, <1>7, <1>8 DEF MembersInv

\* LeaveBroadcast tells everybody in the session.
LEMMA LeaveBroadcastKeepsMembers ==
    ASSUME MembersAreTold, CoreInv, MembersInv, NEW c \in Conns, LeaveBroadcast(c)
    PROVE  MembersInv'
<1>1. self[c] \in ParticipantIDs /\ self[c] \notin participants
  BY DEF CoreInv, TypeOK, MembershipInv, InSession, LeaveBroadcast
<1>2. PICK p \in ParticipantIDs : p = self[c]
  BY <1>1
<1>3. /\ pc[c] = "leaveBroadcast" /\ pc'[c] = "out" /\ UNCHANGED <<participants, snapMembers>>
      /\ \A d \in Conns \ {c} : pc'[d] = pc[d] /\ self'[d] = self[d]
  BY DEF LeaveBroadcast, GoTo, CoreInv, TypeOK, sessionVars, snapVars
<1>4. /\ \A d \in Conns \ {c} : members'[d] = IF d \in Recipients(c) THEN members[d] \ {p} ELSE members[d]
      /\ members'[c] = {}
      /\ \A d \in Conns \ {c} : raced[d].participants \subseteq raced'[d].participants
      /\ \A d \in Conns \ {c} : d \in Recipients(c) /\ pc[d] \in JoinWindow => p \in raced'[d].participants
  <2>1. DepartureTold(c)
    BY <1>1, LeaveBroadcastEffect DEF CoreInv
  <2>. QED  BY <1>2, <2>1 DEF DepartureTold, MembersAreTold
<1>5. \A d \in Conns \ {c} : /\ d \in Recipients(c) <=> InSession(d)
                             /\ InSession(d) => self[d] # p
  BY <1>1, <1>2 DEF Recipients, CoreInv, MembershipInv
<1>6. \A d \in Conns \ {c} : \A q \in ParticipantIDs \ {p} : MemberExact(d, q)'
  <2>1. \A d \in Conns \ {c} : \A q \in ParticipantIDs \ {p} : q \in members'[d] <=> q \in members[d]
    BY <1>4
  <2>. QED  BY <1>2, <1>3, <1>4, <2>1, OthersKeepMembers
<1>7. ASSUME NEW d \in Conns \ {c} PROVE MemberExact(d, p)'
  BY <1>1, <1>2, <1>3, <1>4, <1>5 DEF MemberExact, InSession, Informed, JoinWindow, Telling
<1>8. \A q \in ParticipantIDs : MemberExact(c, q)'
  BY <1>3 DEF MemberExact, Informed, JoinWindow, Telling
<1>9. ASSUME NEW d \in Conns
      PROVE  /\ pc'[d] = "out" => members'[d] = {}
             /\ pc'[d] \in JoinWindow \ {"getParticipants"} => self'[d] \in snapMembers'[d]
             /\ Informed(d)' => self'[d] \in members'[d]
  <2>1. CASE d = c
    BY <1>3, <1>4, <2>1 DEF Informed, JoinWindow, Telling
  <2>2. CASE d # c
    <3>1. pc'[d] = pc[d] /\ self'[d] = self[d] /\ snapMembers'[d] = snapMembers[d]
      BY <1>3, <2>2
    <3>2. InSession(d) => members'[d] = members[d] \ {p} /\ self[d] # p
      BY <1>4, <1>5, <2>2
    <3>3. ~ InSession(d) => members'[d] = members[d]
      BY <1>4, <1>5, <2>2
    <3>. QED  BY <3>1, <3>2, <3>3 DEF MembersInv, Informed, InSession
  <2>. QED  BY <2>1, <2>2
<1>. QED  BY <1>6, <1>7, <1>8, <1>9 DEF MembersInv

\* Every step keeps what clients know of the participants.
LEMMA MembersStep ==
    ASSUME MembersAreTold, CoreInv, MembersInv, NEW c \in Conns, Request(c) \/ Handle(c)
    PROVE  MembersInv'
<1>1. CASE Join(c)
  BY <1>1, JoinKeepsMembers
<1>2. CASE JoinBroadcast(c)
  BY <1>2, JoinBroadcastKeepsMembers
<1>3. CASE RemoveParticipant(c)
  BY <1>3, RemoveParticipantKeepsMembers
<1>4. CASE LeaveBroadcast(c)
  BY <1>4, LeaveBroadcastKeepsMembers
<1>5. /\ pc \in [Conns -> Places] /\ snapMembers \in [Conns -> SUBSET ParticipantIDs]
      /\ members \in [Conns -> SUBSET ParticipantIDs]
  BY DEF CoreInv, TypeOK
<1>6. CASE EntityBroadcast(c)
  <2>1. EntityBroadcastStep(c)
    BY <1>6, EntityBroadcastEffect
  <2>2. /\ UNCHANGED <<participants, self, snapMembers, members>>
        /\ \A d \in Conns : raced'[d].participants = raced[d].participants
        /\ \A d \in Conns \ {c} : pc'[d] = pc[d]
        /\ pc[c] \in Telling /\ pc'[c] \in {"leaveEntities", "ready"}
        /\ pc'[c] = "ready" => Informed(c)
    BY <1>5, <2>1 DEF EntityBroadcastStep, sessionVars, snapVars, Telling, Informed
  <2>. QED  BY <2>2, QuietStepKeepsMembers DEF Announcing, JoinWindow, Telling, Informed
<1>7. CASE \/ \E keep \in BOOLEAN, p \in Poses : EntityAdd(c, keep, p)
           \/ \E e \in EntityIDs : EntityDelete(c, e)
           \/ \E e \in EntityIDs, p \in Poses : EntityUpdatePose(c, e, p)
           \/ \E e \in EntityIDs : LeaveRemoveEntity(c, e)
           \/ Leave(c)
  <2>1. /\ UNCHANGED <<participants, self, snapMembers, members, raced>>
        /\ pc[c] \in {"ready", "leaveEntities"}
        /\ \E place \in Telling \cup {"leaveEntities"} : pc' = [pc EXCEPT ![c] = place]
    BY <1>7 DEF EntityAdd, EntityDelete, EntityUpdatePose, LeaveRemoveEntity, Leave, GoTo,
                sessionVars, snapVars, clientVars, Telling
  <2>2. pc[c] = "leaveEntities" => pc'[c] = "leaveDeleteBroadcast"
    BY <1>5, <1>7 DEF EntityAdd, EntityDelete, EntityUpdatePose, LeaveRemoveEntity, Leave, GoTo
  <2>. QED  BY <1>5, <2>1, <2>2, QuietStepKeepsMembers DEF Announcing, JoinWindow, Telling, Informed
<1>8. CASE GetParticipants(c)
  <2>1. /\ pc[c] = "getParticipants" /\ pc'[c] = "getEntities" /\ snapMembers'[c] = participants
        /\ \A d \in Conns \ {c} : pc'[d] = pc[d] /\ snapMembers'[d] = snapMembers[d]
        /\ UNCHANGED <<participants, self, raced, members>>
    BY <1>5, <1>8 DEF GetParticipants, GoTo, sessionVars, clientVars
  <2>2. self[c] \in participants
    BY <2>1 DEF CoreInv, MembershipInv, InSession
  <2>3. \A p \in ParticipantIDs : MemberExact(c, p) => MemberExact(c, p)'
    BY <2>1 DEF MemberExact, Informed, JoinWindow, Telling
  <2>. QED  BY <2>1, <2>2, <2>3, JoinStepKeepsMembers DEF Announcing, JoinWindow, Informed, Telling
<1>9. CASE GetEntities(c) \/ ReadPoses(c)
  <2>1. /\ pc[c] \in {"getEntities", "readPoses"} /\ pc'[c] \in {"readPoses", "sendState"}
        /\ \A d \in Conns \ {c} : pc'[d] = pc[d]
        /\ UNCHANGED <<participants, self, raced, members, snapMembers>>
    BY <1>5, <1>9 DEF GetEntities, ReadPoses, GoTo, sessionVars, clientVars
  <2>2. self[c] \in snapMembers'[c]
    BY <2>1 DEF MembersInv, JoinWindow
  <2>3. \A p \in ParticipantIDs :
           MemberExact(c, p) /\ (ParticipantPending(p)' <=> ParticipantPending(p)) => MemberExact(c, p)'
    BY <2>1 DEF MemberExact, Informed, JoinWindow, Telling
  <2>. QED  BY <2>1, <2>2, <2>3, JoinStepKeepsMembers DEF Announcing, JoinWindow, Informed, Telling
<1>10. CASE SendSessionState(c)
  <2>1. /\ pc[c] = "sendState" /\ pc'[c] = "joinBroadcast" /\ members'[c] = members[c] \cup snapMembers[c]
        /\ \A d \in Conns \ {c} : /\ pc'[d] = pc[d] /\ snapMembers'[d] = snapMembers[d]
                                  /\ members'[d] = members[d]
        /\ UNCHANGED <<participants, self, raced>>
    BY <1>5, <1>10 DEF SendSessionState, GoTo, sessionVars
  <2>2. self[c] \in members'[c]
    BY <2>1 DEF MembersInv, JoinWindow
  <2>3. \A p \in ParticipantIDs :
           MemberExact(c, p) /\ (ParticipantPending(p)' <=> ParticipantPending(p)) => MemberExact(c, p)'
    BY <2>1 DEF MemberExact, Informed, JoinWindow, Telling
  <2>. QED  BY <2>1, <2>2, <2>3, JoinStepKeepsMembers DEF Announcing, JoinWindow
<1>. QED  BY <1>1, <1>2, <1>3, <1>4, <1>6, <1>7, <1>8, <1>9, <1>10 DEF Request, Handle, EntityBroadcast

\* With neither the SessionState nor the broadcasts about participants
\* switched off, clients know who is in the session, apart from those whose
\* arrival or departure raced with the SessionState.
THEOREM ClientsKnowTheParticipants ==
    ASSUME MembersAreTold PROVE Spec => []MembersAreExact
<1>1. Init => MembersInv
  BY DEF Init, MembersInv, MemberExact, Informed, Telling, JoinWindow
<1>2. CoreInv /\ MembersInv /\ [Next]_vars => MembersInv'
  <2>1. MembersInv /\ UNCHANGED vars => MembersInv'
    BY DEF vars, sessionVars, entityVars, snapVars, clientVars, MembersInv, MemberExact, Informed,
           ParticipantPending
  <2>. QED  BY <2>1, MembersStep DEF Next
<1>3. MembersInv => MembersAreExact
  BY DEF MembersInv, MemberExact, MembersAreExact
<1>. QED  BY <1>1, <1>2, <1>3, SessionIsConsistent, PTL DEF Spec

=============================================================================
