--------------------------- MODULE SessionModules ---------------------------
(***************************************************************************)
(* The modules vikja (entity actions) and odal (asset instances) of one    *)
(* session (modules/vikja, modules/odal).  Every connection has its own    *)
(* Module values; what they share is the State registered in the session   *)
(* under the module's name (Session.ModuleState).                          *)
(*                                                                         *)
(* A State is named for the connection whose Init made it.  An entity has  *)
(* one action, abstracted to its timestamp: actions of other names are     *)
(* independent.  State messages and broadcasts change nothing here.        *)
(***************************************************************************)
EXTENDS Naturals

CONSTANTS Conns,       \* the connections to the session
          Loaded,      \* the modules the server runs
          MaxEntities, \* bound: how many entities are ever added
          MaxTime,     \* how many timestamps are told apart
          MaxAssets,   \* bound: how many asset instances a State numbers
          ActedOn      \* bound: the entities that clients set actions on

ASSUME SessionModulesAssumption ==
    /\ Loaded \subseteq {"vikja", "odal"} /\ Loaded # {}
    /\ {MaxEntities, MaxTime, MaxAssets} \subseteq Nat
    /\ ActedOn \subseteq 1 .. MaxEntities

EntityIDs == 1 .. MaxEntities
Times == 1 .. MaxTime
AssetIDs == 1 .. MaxAssets
None == 0              \* no State, entity, action or asset instance

ASSUME ConnsAssumption == None \notin Conns

VARIABLES
    participants,   \* Session.participants
    lastEntityID,   \* Session.entityIDs
    entities,       \* Session.entities
    owner,          \* Entity.ParticipantID
    persist,        \* Entity.Persist
    moduleStates,   \* Session.moduleStates
    state,          \* Module.state of the connection's modules
    entityActions,  \* vikja State.entityActions, by State
    lastAssetID,    \* odal State.assetInstanceIDs, by State
    assetInstances, \* odal State.assetInstances, by State
    pc,             \* where the connection's handler stands
    todo,           \* modules the loop over h.Modules has yet to call
    arg,            \* the entity of the request
    value,          \* the request's timestamp, or the new asset instance's id
    latest,         \* the local variable latestEntityAction
    late            \* history: entities whose action was stored after their
                    \* owner's goroutine had removed it

sessionVars == <<participants, lastEntityID, entities, owner, persist>>
stateVars == <<entityActions, lastAssetID, assetInstances, late>>
initVars == <<moduleStates, state>>
connVars == <<pc, todo, arg, value, latest>>
vars == <<sessionVars, stateVars, initVars, connVars>>

TypeOK ==
    /\ participants \in SUBSET Conns
    /\ lastEntityID \in 0 .. MaxEntities
    /\ entities \in SUBSET EntityIDs
    /\ owner \in [EntityIDs -> Conns \cup {None}]
    /\ persist \in [EntityIDs -> BOOLEAN]
    /\ moduleStates \in [Loaded -> Conns \cup {None}]
    /\ state \in [Conns -> [Loaded -> Conns \cup {None}]]
    /\ entityActions \in [Conns -> [EntityIDs -> Times \cup {None}]]
    /\ lastAssetID \in [Conns -> 0 .. MaxAssets]
    /\ assetInstances \in [Conns -> [EntityIDs -> AssetIDs \cup {None}]]
    /\ pc \in [Conns -> {"out", "init", "setState", "ready", "moduleDelete", "moduleRemove",
                         "readAction", "setAction", "setAsset", "leaveModules", "leaveSession", "gone"}]
    /\ todo \in [Conns -> SUBSET Loaded]
    /\ arg \in [Conns -> EntityIDs \cup {None}]
    /\ value \in [Conns -> Times \cup AssetIDs \cup {None}]
    /\ latest \in [Conns -> Times \cup {None}]
    /\ late \in SUBSET EntityIDs

Init ==
    /\ participants = {}
    /\ lastEntityID = 0
    /\ entities = {}
    /\ owner = [e \in EntityIDs |-> None]
    /\ persist = [e \in EntityIDs |-> FALSE]
    /\ moduleStates = [m \in Loaded |-> None]
    /\ state = [c \in Conns |-> [m \in Loaded |-> None]]
    /\ entityActions = [s \in Conns |-> [e \in EntityIDs |-> None]]
    /\ lastAssetID = [s \in Conns |-> 0]
    /\ assetInstances = [s \in Conns |-> [e \in EntityIDs |-> None]]
    /\ pc = [c \in Conns |-> "out"]
    /\ todo = [c \in Conns |-> {}]
    /\ arg = [c \in Conns |-> None]
    /\ value = [c \in Conns |-> None]
    /\ latest = [c \in Conns |-> None]
    /\ late = {}

GoTo(c, place) == pc' = [pc EXCEPT ![c] = place]

\* The request is done.
Finish(c) ==
    /\ GoTo(c, "ready")
    /\ arg' = [arg EXCEPT ![c] = None]
    /\ value' = [value EXCEPT ![c] = None]
    /\ latest' = [latest EXCEPT ![c] = None]

\* The module the loop over h.Modules calls next: vikja comes before odal.
Current(c) == IF "vikja" \in todo[c] THEN "vikja" ELSE "odal"

\* The loop goes on at place same with the next module, or at place after.
NextModule(c, same, after) ==
    /\ todo' = [todo EXCEPT ![c] = @ \ {Current(c)}]
    /\ GoTo(c, IF todo[c] = {Current(c)} THEN after ELSE same)

-----------------------------------------------------------------------------
(* HandleParticipantJoin: the participant is added, then modules are       *)
(* initialized.                                                            *)

Join(c) ==
    /\ pc[c] = "out"
    /\ participants' = participants \cup {c}
    /\ todo' = [todo EXCEPT ![c] = Loaded]
    /\ GoTo(c, "init")
    /\ UNCHANGED <<lastEntityID, entities, owner, persist, stateVars, initVars, arg, value, latest>>

\* Init asks the session for the module's State ...
ModuleState(c) ==
    LET found == moduleStates[Current(c)] IN
    /\ pc[c] = "init"
    /\ IF found # None
       THEN /\ state' = [state EXCEPT ![c][Current(c)] = found]
            /\ NextModule(c, "init", "ready")
       ELSE GoTo(c, "setState") /\ UNCHANGED <<state, todo>>
    /\ UNCHANGED <<sessionVars, stateVars, moduleStates, arg, value, latest>>

\* ... and registers a new one, in a second locked call, if there was none.
SetModuleState(c) ==
    /\ pc[c] = "setState"
    /\ moduleStates' = [moduleStates EXCEPT ![Current(c)] = c]
    /\ state' = [state EXCEPT ![c][Current(c)] = c]
    /\ NextModule(c, "init", "ready")
    /\ UNCHANGED <<sessionVars, stateVars, arg, value, latest>>

-----------------------------------------------------------------------------
(* Entities come and go.                                                   *)

EntityAdd(c, keep) ==
    LET e == lastEntityID + 1 IN
    /\ pc[c] = "ready"
    /\ lastEntityID < MaxEntities
    /\ lastEntityID' = e
    /\ entities' = entities \cup {e}
    /\ owner' = [owner EXCEPT ![e] = c]
    /\ persist' = [persist EXCEPT ![e] = keep]
    /\ UNCHANGED <<participants, stateVars, initVars, connVars>>

\* HandleEntityDelete removes an entity of its own; whatever it answers, the
\* modules see the request.
EntityDelete(c, e) ==
    /\ pc[c] = "ready"
    /\ entities' = IF owner[e] = c THEN entities \ {e} ELSE entities
    /\ arg' = [arg EXCEPT ![c] = e]
    /\ todo' = [todo EXCEPT ![c] = Loaded]
    /\ GoTo(c, "moduleDelete")
    /\ UNCHANGED <<participants, lastEntityID, owner, persist, stateVars, initVars, value, latest>>

\* Mutant: vikja keeps its actions.
RemoveFromOdalState(c, m, gone) ==
    LET without(f) == [f EXCEPT ![state[c][m]] = [e \in EntityIDs |-> IF e \in gone THEN None ELSE @[e]]] IN
    /\ IF m = "odal" THEN assetInstances' = without(assetInstances) ELSE UNCHANGED assetInstances
    /\ UNCHANGED <<entityActions, lastAssetID, late>>

\* What is kept for the entities in gone, by the State of module m that c uses.
RemoveFromState(c, m, gone) ==
    LET without(f) == [f EXCEPT ![state[c][m]] = [e \in EntityIDs |-> IF e \in gone THEN None ELSE @[e]]] IN
    /\ IF m = "vikja"
       THEN entityActions' = without(entityActions) /\ UNCHANGED assetInstances
       ELSE assetInstances' = without(assetInstances) /\ UNCHANGED entityActions
    /\ UNCHANGED <<lastAssetID, late>>

\* handleEntityDelete of a module asks EntityByID for the entity ...
ModuleEntityDelete(c) ==
    /\ pc[c] = "moduleDelete"
    /\ IF arg[c] \in entities
       THEN /\ NextModule(c, "moduleDelete", "ready")
            /\ arg' = [arg EXCEPT ![c] = IF todo'[c] = {} THEN None ELSE @]
       ELSE GoTo(c, "moduleRemove") /\ UNCHANGED <<todo, arg>>
    /\ UNCHANGED <<sessionVars, stateVars, initVars, value, latest>>

\* ... and removes what it keeps for one that was not found, even if the id
\* was not handed out at the time and belongs to an entity by now.
ModuleEntityRemove(c) ==
    /\ pc[c] = "moduleRemove"
    /\ RemoveFromState(c, Current(c), {arg[c]})
    /\ NextModule(c, "moduleDelete", "ready")
    /\ arg' = [arg EXCEPT ![c] = IF todo'[c] = {} THEN None ELSE @]
    /\ UNCHANGED <<sessionVars, initVars, value, latest>>

-----------------------------------------------------------------------------
(* vikja: handleSetEntityAction.  Anyone may act on any entity.            *)

\* EntityByID finds the entity; the timestamp is t.
EntityActionRequest(c, e, t) ==
    /\ pc[c] = "ready"
    /\ "vikja" \in Loaded
    /\ e \in entities \cap ActedOn
    /\ arg' = [arg EXCEPT ![c] = e]
    /\ value' = [value EXCEPT ![c] = t]
    /\ GoTo(c, "readAction")
    /\ UNCHANGED <<sessionVars, stateVars, initVars, todo, latest>>

\* Mutant: timestamps are not compared.
AcceptAction(c) ==
    /\ pc[c] = "readAction"
    /\ latest' = [latest EXCEPT ![c] = entityActions[state[c]["vikja"]][arg[c]]]
    /\ GoTo(c, "setAction")
    /\ UNCHANGED <<sessionVars, stateVars, initVars, todo, arg, value>>

\* The latest action is read; one that is older than it is refused.
CheckAction(c) ==
    LET last == entityActions[state[c]["vikja"]][arg[c]] IN
    /\ pc[c] = "readAction"
    /\ IF last # None /\ value[c] < last
       THEN Finish(c)
       ELSE /\ latest' = [latest EXCEPT ![c] = last]
            /\ GoTo(c, "setAction")
            /\ UNCHANGED <<arg, value>>
    /\ UNCHANGED <<sessionVars, stateVars, initVars, todo>>

\* The modules of participant c see a request to delete an entity.
Deleting(c) == pc[c] \in {"moduleDelete", "moduleRemove"}

\* The owner's goroutine will not remove an action of e any more: it has
\* done so already, since e is gone or goes with its owner.
PastRemoval(e) ==
    LET o == owner[e] IN
    IF e \in entities
    THEN /\ ~ persist[e]
         /\ pc[o] = "leaveSession" \/ (pc[o] = "leaveModules" /\ "vikja" \notin todo[o])
    ELSE ~ (Deleting(o) /\ arg[o] = e /\ "vikja" \in todo[o])

SetEntityAction(c) ==
    /\ pc[c] = "setAction"
    /\ late' = IF PastRemoval(arg[c]) THEN late \cup {arg[c]} ELSE late
    /\ entityActions' = [entityActions EXCEPT ![state[c]["vikja"]][arg[c]] = value[c]]
    /\ Finish(c)
    /\ UNCHANGED <<sessionVars, initVars, lastAssetID, assetInstances, todo>>

-----------------------------------------------------------------------------
(* odal: handleAssetInstanceAdd.                                           *)

\* Mutant: the owner is not looked at.
MayAddAssetIfFound(c, e) == e \in entities

\* EntityByID finds the entity and it is the participant's own.
MayAddAsset(c, e) == e \in entities /\ owner[e] = c

\* Mutant: the id is asked for twice.
SecondAssetInstanceID(s) == lastAssetID[s] + 2

NewAssetInstanceID(s) == lastAssetID[s] + 1

\* Mutant: the instance is numbered without the generator being advanced.
AssetInstanceAddUncounted(c, e) ==
    LET s == state[c]["odal"] IN
    /\ pc[c] = "ready"
    /\ "odal" \in Loaded
    /\ MayAddAsset(c, e)
    /\ lastAssetID[s] < MaxAssets
    /\ arg' = [arg EXCEPT ![c] = e]
    /\ value' = [value EXCEPT ![c] = NewAssetInstanceID(s)]
    /\ GoTo(c, "setAsset")
    /\ UNCHANGED <<sessionVars, initVars, stateVars, todo, latest>>

AssetInstanceAdd(c, e) ==
    LET s == state[c]["odal"] IN
    /\ pc[c] = "ready"
    /\ "odal" \in Loaded
    /\ MayAddAsset(c, e)
    /\ lastAssetID[s] < MaxAssets
    /\ lastAssetID' = [lastAssetID EXCEPT ![s] = @ + 1]
    /\ arg' = [arg EXCEPT ![c] = e]
    /\ value' = [value EXCEPT ![c] = NewAssetInstanceID(s)]
    /\ GoTo(c, "setAsset")
    /\ UNCHANGED <<sessionVars, initVars, entityActions, assetInstances, late, todo, latest>>

SetAssetInstance(c) ==
    /\ pc[c] = "setAsset"
    /\ assetInstances' = [assetInstances EXCEPT ![state[c]["odal"]][arg[c]] = value[c]]
    /\ Finish(c)
    /\ UNCHANGED <<sessionVars, initVars, entityActions, lastAssetID, late, todo>>

-----------------------------------------------------------------------------
(* leaveSession: the modules first, then entities and participant.         *)

\* The entities that go with participant c.
Departing(c) == {e \in entities : owner[e] = c /\ ~ persist[e]}

Leave(c) ==
    /\ pc[c] = "ready"
    /\ todo' = [todo EXCEPT ![c] = Loaded]
    /\ GoTo(c, "leaveModules")
    /\ UNCHANGED <<sessionVars, stateVars, initVars, arg, value, latest>>

\* HandleDisconnect of a module.
ModuleDisconnect(c) ==
    /\ pc[c] = "leaveModules"
    /\ RemoveFromState(c, Current(c), Departing(c))
    /\ NextModule(c, "leaveModules", "leaveSession")
    /\ UNCHANGED <<sessionVars, initVars, arg, value, latest>>

LeaveSession(c) ==
    /\ pc[c] = "leaveSession"
    /\ entities' = entities \ Departing(c)
    /\ participants' = participants \ {c}
    /\ GoTo(c, "gone")
    /\ UNCHANGED <<lastEntityID, owner, persist, stateVars, initVars, todo, arg, value, latest>>

-----------------------------------------------------------------------------
\* The next step of the request the handler of c is working on.
Handle(c) ==
    \/ ModuleState(c) \/ SetModuleState(c) \/ ModuleEntityDelete(c) \/ ModuleEntityRemove(c)
    \/ CheckAction(c) \/ SetEntityAction(c) \/ SetAssetInstance(c)
    \/ ModuleDisconnect(c) \/ LeaveSession(c)

Request(c) ==
    \/ Join(c) \/ Leave(c)
    \/ \E keep \in BOOLEAN : EntityAdd(c, keep)
    \/ \E e \in EntityIDs : \/ EntityDelete(c, e)
                            \/ \E t \in Times : EntityActionRequest(c, e, t)
                            \/ AssetInstanceAdd(c, e)

Next == \E c \in Conns : Request(c) \/ Handle(c)

Spec == Init /\ [][Next]_vars

-----------------------------------------------------------------------------
(* Properties.                                                             *)

\* An asset instance does not outlive its entity, in whichever State it is
\* kept: only the entity's owner adds instances, and the owner's goroutine
\* calls handleEntityDelete or HandleDisconnect itself.
NoDanglingAsset ==
    \A s \in Conns, e \in EntityIDs : assetInstances[s][e] # None =>
        e \in entities \/ Deleting(owner[e])

\* In one State no two entities have an asset instance of the same id,
\* although numbering and storing an instance are two locked calls.
AssetIDsDiffer ==
    \A s \in Conns, e, f \in EntityIDs :
        e # f /\ assetInstances[s][e] # None => assetInstances[s][e] # assetInstances[s][f]

\* The action of an entity that is gone was removed from the State its owner
\* uses, unless a handler that had found the entity stored its action after
\* that (nothing removes such an action later).  Where first joiners made two
\* States, an action stored in the one the owner does not use is nobody's to
\* remove and stays: nothing is claimed of it.
NoDanglingAction ==
    "vikja" \in Loaded =>
        \A e \in (1 .. lastEntityID) \ (entities \cup late) :
            ~ Deleting(owner[e]) => entityActions[state[owner[e]]["vikja"]][e] = None

\* A stored action is replaced by an older one only by a handler that read
\* the latest action before that one was stored.
OnlyStaleChecksGoBack ==
    [][\A s \in Conns, e \in EntityIDs :
          entityActions'[s][e] # None /\ entityActions'[s][e] < entityActions[s][e] =>
             \E c \in Conns : /\ pc[c] = "setAction" /\ pc'[c] = "ready"
                              /\ state[c]["vikja"] = s /\ arg[c] = e
                              /\ latest[c] # entityActions[s][e]]_vars

=============================================================================
