------------------------- MODULE SessionModulesProofs -------------------------
(***************************************************************************)
(* Proofs about SessionModules, for any set of connections, any choice of  *)
(* modules and any bounds.                                                 *)
(***************************************************************************)
EXTENDS SessionModules, TLAPS

\* The loops over h.Modules have a module to call, and the modules of a
\* connection have their State once Init is through with them.
PlaceInv ==
    /\ \A c \in Conns :
          pc[c] \in {"init", "setState", "moduleDelete", "moduleRemove", "leaveModules"} => todo[c] # {}
    /\ \A c \in Conns, m \in Loaded :
          pc[c] # "out" /\ ~ (pc[c] \in {"init", "setState"} /\ m \in todo[c]) => state[c][m] \in Conns
    /\ \A c \in Conns : pc[c] \in {"readAction", "setAction"} =>
          "vikja" \in Loaded /\ arg[c] \in EntityIDs /\ value[c] \in Times
    /\ \A c \in Conns : pc[c] = "setAction" => latest[c] <= value[c]
    /\ \A c \in Conns : pc[c] = "setAsset" =>
          "odal" \in Loaded /\ arg[c] \in entities /\ owner[arg[c]] = c /\ value[c] \in AssetIDs
    /\ \A c \in Conns : Deleting(c) => arg[c] \in EntityIDs

\* Entities are numbered, and whoever owns one is past its join.
Settled(c) == c \in Conns /\ pc[c] \notin {"out", "init", "setState"}

OwnerInv ==
    /\ entities \subseteq 1 .. lastEntityID
    /\ \A e \in EntityIDs : e <= lastEntityID => Settled(owner[e])

\* The owner's goroutine is past the place where its modules forget what they
\* keep for entity e: PastRemoval for any module m.
Forgotten(m, e) ==
    LET o == owner[e] IN
    IF e \in entities
    THEN /\ ~ persist[e]
         /\ pc[o] = "leaveSession" \/ (pc[o] = "leaveModules" /\ m \notin todo[o])
    ELSE ~ (Deleting(o) /\ arg[o] = e /\ m \in todo[o])

AssetInv ==
    \A s \in Conns, e \in EntityIDs : assetInstances[s][e] # None =>
        /\ e <= lastEntityID /\ "odal" \in Loaded
        /\ state[owner[e]]["odal"] = s
        /\ ~ Forgotten("odal", e)

NumberInv ==
    /\ \A s \in Conns, e \in EntityIDs : assetInstances[s][e] <= lastAssetID[s]
    /\ \A c \in Conns : pc[c] = "setAsset" => value[c] <= lastAssetID[state[c]["odal"]]
    /\ \A c \in Conns, e \in EntityIDs : pc[c] = "setAsset" => assetInstances[state[c]["odal"]][e] # value[c]
    /\ \A c, d \in Conns : c # d /\ pc[c] = "setAsset" /\ pc[d] = "setAsset"
                           /\ state[c]["odal"] = state[d]["odal"] => value[c] # value[d]
    /\ AssetIDsDiffer

ActionInv ==
    "vikja" \in Loaded =>
        \A e \in (1 .. lastEntityID) \ late :
            entityActions[state[owner[e]]["vikja"]][e] # None => ~ Forgotten("vikja", e)

CoreInv == TypeOK /\ PlaceInv /\ OwnerInv

-----------------------------------------------------------------------------
(* What the helpers do.                                                    *)

Places == {"out", "init", "setState", "ready", "moduleDelete", "moduleRemove", "readAction",
           "setAction", "setAsset", "leaveModules", "leaveSession", "gone"}

\* A loop that is not through calls a module of the server.
LEMMA CurrentIsLoaded ==
    ASSUME TypeOK, NEW c \in Conns, todo[c] # {}
    PROVE  Current(c) \in todo[c] /\ Current(c) \in Loaded
<1>1. todo[c] \in SUBSET {"vikja", "odal"}
  BY SessionModulesAssumption DEF TypeOK
<1>2. todo[c] \subseteq Loaded
  BY DEF TypeOK
<1>3. Current(c) \in todo[c]
  <2>1. CASE "vikja" \in todo[c]
    BY <2>1 DEF Current
  <2>2. CASE "vikja" \notin todo[c]
    <3>1. "odal" \in todo[c]
      BY <1>1, <2>2
    <3>. QED  BY <2>2, <3>1 DEF Current
  <2>. QED  BY <2>1, <2>2
<1>. QED  BY <1>2, <1>3

\* What a module forgets, entity by entity.
Removed(c, m, gone) ==
    /\ entityActions' \in [Conns -> [EntityIDs -> Times \cup {None}]]
    /\ assetInstances' \in [Conns -> [EntityIDs -> AssetIDs \cup {None}]]
    /\ UNCHANGED <<lastAssetID, late>>
    /\ \A s \in Conns, e \in EntityIDs :
          /\ entityActions'[s][e] = IF m = "vikja" /\ s = state[c][m] /\ e \in gone
                                    THEN None ELSE entityActions[s][e]
          /\ assetInstances'[s][e] = IF m # "vikja" /\ s = state[c][m] /\ e \in gone
                                     THEN None ELSE assetInstances[s][e]

LEMMA RemoveFromStateEffect ==
    ASSUME TypeOK, NEW c \in Conns, NEW m, NEW gone, RemoveFromState(c, m, gone)
    PROVE  Removed(c, m, gone)
<1>1. /\ entityActions \in [Conns -> [EntityIDs -> Times \cup {None}]]
      /\ assetInstances \in [Conns -> [EntityIDs -> AssetIDs \cup {None}]]
  BY DEF TypeOK
<1>2. CASE m = "vikja"
  <2>1. /\ entityActions' = [entityActions EXCEPT ![state[c][m]] =
                                [e \in EntityIDs |-> IF e \in gone THEN None ELSE @[e]]]
        /\ UNCHANGED <<assetInstances, lastAssetID, late>>
    BY <1>2 DEF RemoveFromState
  <2>. QED  BY <1>1, <1>2, <2>1 DEF Removed
<1>3. CASE m # "vikja"
  <2>1. /\ assetInstances' = [assetInstances EXCEPT ![state[c][m]] =
                                [e \in EntityIDs |-> IF e \in gone THEN None ELSE @[e]]]
        /\ UNCHANGED <<entityActions, lastAssetID, late>>
    BY <1>3 DEF RemoveFromState
  <2>. QED  BY <1>1, <1>3, <2>1 DEF Removed
<1>. QED  BY <1>2, <1>3

\* One round of a loop over h.Modules.
LEMMA NextModuleEffect ==
    ASSUME TypeOK, NEW c \in Conns, todo[c] # {}, NEW same, NEW after, NextModule(c, same, after)
    PROVE  /\ todo' = [todo EXCEPT ![c] = todo[c] \ {Current(c)}]
           /\ pc' = [pc EXCEPT ![c] = pc'[c]]
           /\ pc'[c] = IF todo'[c] = {} THEN after ELSE same
<1>1. Current(c) \in todo[c]
  BY CurrentIsLoaded
<1>2. todo' = [todo EXCEPT ![c] = todo[c] \ {Current(c)}]
  BY DEF NextModule
<1>3. todo'[c] = todo[c] \ {Current(c)}
  BY <1>2 DEF TypeOK
<1>4. pc' = [pc EXCEPT ![c] = IF todo[c] = {Current(c)} THEN after ELSE same]
  BY DEF NextModule, GoTo
<1>5. (todo[c] = {Current(c)}) <=> (todo'[c] = {})
  BY <1>1, <1>3
<1>6. pc'[c] = IF todo[c] = {Current(c)} THEN after ELSE same
  BY <1>4 DEF TypeOK
<1>. QED  BY <1>2, <1>4, <1>5, <1>6

\* One of the two calls of handleEntityDelete.
LEMMA DeleteEffect ==
    ASSUME TypeOK, NEW c \in Conns, todo[c] # {}, arg[c] \in EntityIDs,
           ModuleEntityDelete(c) \/ ModuleEntityRemove(c)
    PROVE  \E rest \in SUBSET Loaded, a \in EntityIDs \cup {None},
              place \in {"ready", "moduleDelete", "moduleRemove"} :
                 /\ todo' = [todo EXCEPT ![c] = rest]
                 /\ arg' = [arg EXCEPT ![c] = a]
                 /\ pc' = [pc EXCEPT ![c] = place]
                 /\ place # "ready" => rest # {} /\ a = arg[c]
                 /\ UNCHANGED <<sessionVars, initVars, value, latest>>
<1> USE DEF TypeOK
<1>1. UNCHANGED <<sessionVars, initVars, value, latest>>
  BY DEF ModuleEntityDelete, ModuleEntityRemove
<1>2. CASE pc' = [pc EXCEPT ![c] = "moduleRemove"] /\ UNCHANGED <<todo, arg>>
  <2>1. todo' = [todo EXCEPT ![c] = todo[c]] /\ arg' = [arg EXCEPT ![c] = arg[c]]
    BY <1>2
  <2>. QED  BY <1>1, <1>2, <2>1
<1>3. CASE /\ NextModule(c, "moduleDelete", "ready")
           /\ arg' = [arg EXCEPT ![c] = IF todo'[c] = {} THEN None ELSE @]
  <2>1. /\ todo' = [todo EXCEPT ![c] = todo[c] \ {Current(c)}]
        /\ pc' = [pc EXCEPT ![c] = pc'[c]]
        /\ pc'[c] = IF todo'[c] = {} THEN "ready" ELSE "moduleDelete"
    BY <1>3, NextModuleEffect
  <2>2. PICK rest \in SUBSET Loaded : rest = todo[c] \ {Current(c)}
    OBVIOUS
  <2>3. todo'[c] = rest
    BY <2>1, <2>2
  <2>4. CASE rest = {}
    <3>1. pc' = [pc EXCEPT ![c] = "ready"] /\ arg' = [arg EXCEPT ![c] = None]
      BY <1>3, <2>1, <2>3, <2>4
    <3>. QED  BY <1>1, <2>1, <2>2, <3>1
  <2>5. CASE rest # {}
    <3>1. pc' = [pc EXCEPT ![c] = "moduleDelete"] /\ arg' = [arg EXCEPT ![c] = arg[c]]
      BY <1>3, <2>1, <2>3, <2>5
    <3>. QED  BY <1>1, <2>1, <2>2, <2>5, <3>1
  <2>. QED  BY <2>4, <2>5
<1>. QED  BY <1>2, <1>3 DEF ModuleEntityDelete, ModuleEntityRemove, GoTo

\* Init of a module finds no State and goes on to make one, or has one.
InitWaits(c) ==
    /\ pc[c] = "init"
    /\ pc' = [pc EXCEPT ![c] = "setState"]
    /\ UNCHANGED <<sessionVars, stateVars, initVars, todo, arg, value, latest>>

InitDone(c, m, s) ==
    /\ pc[c] \in {"init", "setState"}
    /\ m \in todo[c] /\ m \in Loaded
    /\ moduleStates' \in [Loaded -> Conns \cup {None}]
    /\ state' = [state EXCEPT ![c][m] = s]
    /\ todo' = [todo EXCEPT ![c] = todo[c] \ {m}]
    /\ pc' = [pc EXCEPT ![c] = pc'[c]]
    /\ pc'[c] = IF todo'[c] = {} THEN "ready" ELSE "init"
    /\ UNCHANGED <<sessionVars, stateVars, arg, value, latest>>

LEMMA InitEffect ==
    ASSUME TypeOK, PlaceInv, NEW c \in Conns, ModuleState(c) \/ SetModuleState(c)
    PROVE  InitWaits(c) \/ \E m \in Loaded, s \in Conns : InitDone(c, m, s)
<1>1. todo[c] # {}
  BY DEF PlaceInv, ModuleState, SetModuleState
<1>2. PICK m : m = Current(c)
  OBVIOUS
<1>3. m \in todo[c] /\ m \in Loaded
  BY <1>1, <1>2, CurrentIsLoaded
<1>4. ASSUME NextModule(c, "init", "ready")
      PROVE  /\ todo' = [todo EXCEPT ![c] = todo[c] \ {m}]
             /\ pc' = [pc EXCEPT ![c] = pc'[c]]
             /\ pc'[c] = IF todo'[c] = {} THEN "ready" ELSE "init"
  BY <1>1, <1>2, <1>4, NextModuleEffect
<1>5. moduleStates \in [Loaded -> Conns \cup {None}]
  BY DEF TypeOK
<1>6. CASE SetModuleState(c)
  <2>1. moduleStates' \in [Loaded -> Conns \cup {None}]
    BY <1>2, <1>3, <1>5, <1>6 DEF SetModuleState
  <2>2. InitDone(c, m, c)
    BY <1>2, <1>3, <1>4, <1>6, <2>1 DEF SetModuleState, InitDone
  <2>. QED  BY <1>3, <2>2
<1>7. CASE ModuleState(c) /\ moduleStates[m] # None
  <2>1. moduleStates[m] \in Conns
    BY <1>3, <1>5, <1>7
  <2>2. InitDone(c, m, moduleStates[m])
    BY <1>2, <1>3, <1>4, <1>5, <1>7 DEF ModuleState, InitDone
  <2>. QED  BY <1>3, <2>1, <2>2
<1>8. CASE ModuleState(c) /\ moduleStates[m] = None
  <2>1. InitWaits(c)
    BY <1>2, <1>8 DEF ModuleState, InitWaits, GoTo, initVars
  <2>. QED  BY <2>1
<1>. QED  BY <1>6, <1>7, <1>8

-----------------------------------------------------------------------------
(* Types, places and owners.                                               *)

LEMMA TypeStep ==
    ASSUME CoreInv, NEW c \in Conns, Request(c) \/ Handle(c)
    PROVE  TypeOK'
<1>1. TypeOK /\ PlaceInv /\ OwnerInv
  BY DEF CoreInv
<1>2. todo[c] # {} => Current(c) \in Loaded
  BY CurrentIsLoaded DEF CoreInv
<1>3. \A e \in EntityIDs : e \in Nat
  BY SessionModulesAssumption DEF EntityIDs
<1> USE <1>1, SessionModulesAssumption
    DEF TypeOK, GoTo, sessionVars, stateVars, initVars, connVars
<1>4. CASE Join(c)
  BY <1>4 DEF Join
<1>5. CASE ModuleState(c) \/ SetModuleState(c)
  <2>1. CASE InitWaits(c)
    BY <2>1 DEF InitWaits
  <2>2. ASSUME NEW m \in Loaded, NEW s \in Conns, InitDone(c, m, s)
        PROVE  TypeOK'
    <3>1. state' \in [Conns -> [Loaded -> Conns \cup {None}]]
      BY <2>2 DEF InitDone
    <3>2. todo' \in [Conns -> SUBSET Loaded]
      BY <2>2 DEF InitDone
    <3>3. pc' = [pc EXCEPT ![c] = "ready"] \/ pc' = [pc EXCEPT ![c] = "init"]
      BY <2>2 DEF InitDone
    <3>4. /\ moduleStates' \in [Loaded -> Conns \cup {None}]
          /\ UNCHANGED <<sessionVars, stateVars, arg, value, latest>>
      BY <2>2 DEF InitDone
    <3>. QED  BY <3>1, <3>2, <3>3, <3>4
  <2>. QED  BY <1>5, <2>1, <2>2, InitEffect
<1>7. ASSUME NEW keep \in BOOLEAN, EntityAdd(c, keep)
      PROVE  TypeOK'
  BY <1>7 DEF EntityAdd, EntityIDs
<1>8. ASSUME NEW e \in EntityIDs, EntityDelete(c, e)
      PROVE  TypeOK'
  BY <1>8 DEF EntityDelete
<1>9. CASE ModuleEntityDelete(c) \/ ModuleEntityRemove(c)
  <2>1. todo[c] # {} /\ arg[c] \in EntityIDs
    BY <1>9 DEF ModuleEntityDelete, ModuleEntityRemove, PlaceInv, Deleting
  <2>2. PICK rest \in SUBSET Loaded, a \in EntityIDs \cup {None},
             place \in {"ready", "moduleDelete", "moduleRemove"} :
                /\ todo' = [todo EXCEPT ![c] = rest]
                /\ arg' = [arg EXCEPT ![c] = a]
                /\ pc' = [pc EXCEPT ![c] = place]
                /\ place # "ready" => rest # {} /\ a = arg[c]
                /\ UNCHANGED <<sessionVars, initVars, value, latest>>
    BY ONLY <1>1, <1>9, <2>1, DeleteEffect, c \in Conns
  <2>3. /\ todo' \in [Conns -> SUBSET Loaded] /\ arg' \in [Conns -> EntityIDs \cup {None}]
        /\ UNCHANGED <<sessionVars, initVars, value, latest>>
    BY <2>2
  <2>4. pc' \in [Conns -> {"out", "init", "setState", "ready", "moduleDelete", "moduleRemove",
                           "readAction", "setAction", "setAsset", "leaveModules", "leaveSession", "gone"}]
    BY <2>2
  <2>5. /\ entityActions' \in [Conns -> [EntityIDs -> Times \cup {None}]]
        /\ assetInstances' \in [Conns -> [EntityIDs -> AssetIDs \cup {None}]]
        /\ UNCHANGED <<lastAssetID, late>>
    <3>1. CASE ModuleEntityDelete(c)
      BY ONLY <1>1, <3>1 DEF ModuleEntityDelete, TypeOK, stateVars
    <3>2. CASE ModuleEntityRemove(c)
      <4>1. Removed(c, Current(c), {arg[c]})
        BY <3>2, RemoveFromStateEffect DEF ModuleEntityRemove
      <4>. QED  BY <4>1 DEF Removed
    <3>. QED  BY <1>9, <3>1, <3>2
  <2>. QED  BY ONLY <1>1, <2>3, <2>4, <2>5 DEF TypeOK, sessionVars, initVars
<1>10. ASSUME NEW e \in EntityIDs, NEW t \in Times, EntityActionRequest(c, e, t)
       PROVE  TypeOK'
  BY <1>10 DEF EntityActionRequest
<1>11. CASE CheckAction(c)
  <2>1. state[c]["vikja"] \in Conns /\ arg[c] \in EntityIDs
    BY <1>11 DEF CheckAction, PlaceInv
  <2>2. entityActions[state[c]["vikja"]][arg[c]] \in Times \cup {None}
    BY <2>1
  <2>3. latest' \in [Conns -> Times \cup {None}]
    BY <1>11, <2>2 DEF CheckAction, Finish
  <2>4. /\ arg' \in {arg, [arg EXCEPT ![c] = None]}
        /\ value' \in {value, [value EXCEPT ![c] = None]}
    BY ONLY <1>11 DEF CheckAction, Finish
  <2>5. /\ pc' = [pc EXCEPT ![c] = "ready"] \/ pc' = [pc EXCEPT ![c] = "setAction"]
        /\ UNCHANGED <<sessionVars, stateVars, initVars, todo>>
    BY <1>11 DEF CheckAction, Finish
  <2>. QED  BY <2>3, <2>4, <2>5
<1>12. CASE SetEntityAction(c)
  <2>1. arg[c] \in EntityIDs /\ value[c] \in Times
    BY <1>12 DEF SetEntityAction, PlaceInv
  <2>. QED  BY <1>12, <2>1 DEF SetEntityAction, Finish
<1>13. ASSUME NEW e \in EntityIDs, AssetInstanceAdd(c, e)
       PROVE  TypeOK'
  <2>1. state[c]["odal"] \in Conns
    BY <1>13 DEF AssetInstanceAdd, PlaceInv
  <2>2. lastAssetID[state[c]["odal"]] + 1 \in 0 .. MaxAssets /\ lastAssetID[state[c]["odal"]] + 1 \in AssetIDs
    BY <1>13, <2>1 DEF AssetInstanceAdd, AssetIDs
  <2>. QED  BY <1>13, <2>1, <2>2 DEF AssetInstanceAdd, NewAssetInstanceID
<1>14. CASE SetAssetInstance(c)
  <2>1. value[c] \in AssetIDs
    BY <1>14 DEF SetAssetInstance, PlaceInv
  <2>. QED  BY <1>14, <2>1 DEF SetAssetInstance, Finish
<1>15. CASE Leave(c)
  BY <1>15 DEF Leave
<1>16. CASE ModuleDisconnect(c)
  <2>1. Removed(c, Current(c), Departing(c))
    BY <1>16, RemoveFromStateEffect DEF ModuleDisconnect
  <2>. QED  BY <1>16, <2>1 DEF ModuleDisconnect, NextModule, Removed
<1>17. CASE LeaveSession(c)
  BY <1>17 DEF LeaveSession
<1>. QED  BY <1>4, <1>5, <1>7, <1>8, <1>9, <1>10, <1>11, <1>12, <1>13, <1>14, <1>15, <1>16, <1>17
          DEF Request, Handle

LEMMA PlaceStep ==
    ASSUME CoreInv, NEW c \in Conns, Request(c) \/ Handle(c)
    PROVE  PlaceInv'
<1>1. TypeOK /\ PlaceInv /\ OwnerInv
  BY DEF CoreInv
<1>2. todo[c] # {} => Current(c) \in Loaded /\ Current(c) \in todo[c]
  BY CurrentIsLoaded DEF CoreInv
<1>3. Loaded # {}
  BY SessionModulesAssumption
<1> USE <1>1, <1>2, <1>3, ConnsAssumption
    DEF TypeOK, PlaceInv, Deleting, GoTo, sessionVars, stateVars, initVars, connVars
<1>4. CASE Join(c)
  BY <1>4 DEF Join
<1>5. CASE ModuleState(c) \/ SetModuleState(c)
  <2>1. CASE InitWaits(c)
    BY <2>1 DEF InitWaits
  <2>2. ASSUME NEW m \in Loaded, NEW s \in Conns, InitDone(c, m, s)
        PROVE  PlaceInv'
    <3>1. /\ \A d \in Conns \ {c} : pc'[d] = pc[d] /\ todo'[d] = todo[d] /\ state'[d] = state[d]
          /\ pc'[c] = IF todo'[c] = {} THEN "ready" ELSE "init"
          /\ todo'[c] = todo[c] \ {m}
          /\ state'[c][m] = s
          /\ \A k \in Loaded \ {m} : state'[c][k] = state[c][k]
          /\ pc[c] \in {"init", "setState"}
          /\ UNCHANGED <<arg, value, latest, entities, owner>>
      BY <2>2 DEF InitDone
    <3>2. pc'[c] = "init" => todo'[c] # {}
      BY ONLY <3>1
    <3>3. \A k \in Loaded : ~ (pc'[c] \in {"init", "setState"} /\ k \in todo'[c]) => state'[c][k] \in Conns
      BY ONLY <1>1, <2>2, <3>1 DEF PlaceInv, Deleting
    <3>4. pc'[c] \in {"init", "ready"}
      BY ONLY <3>1
    <3>. QED  BY ONLY <1>1, <3>1, <3>2, <3>3, <3>4 DEF PlaceInv, Deleting
  <2>. QED  BY <1>5, <2>1, <2>2, InitEffect
<1>7. ASSUME NEW keep \in BOOLEAN, EntityAdd(c, keep)
      PROVE  PlaceInv'
  BY <1>7 DEF EntityAdd, EntityIDs, OwnerInv
<1>8. ASSUME NEW e \in EntityIDs, EntityDelete(c, e)
      PROVE  PlaceInv'
  BY <1>8 DEF EntityDelete
<1>9. CASE ModuleEntityDelete(c) \/ ModuleEntityRemove(c)
  <2>1. todo[c] # {} /\ arg[c] \in EntityIDs
    BY <1>9 DEF ModuleEntityDelete, ModuleEntityRemove, PlaceInv, Deleting
  <2>2. PICK rest \in SUBSET Loaded, a \in EntityIDs \cup {None},
             place \in {"ready", "moduleDelete", "moduleRemove"} :
                /\ todo' = [todo EXCEPT ![c] = rest]
                /\ arg' = [arg EXCEPT ![c] = a]
                /\ pc' = [pc EXCEPT ![c] = place]
                /\ place # "ready" => rest # {} /\ a = arg[c]
                /\ UNCHANGED <<sessionVars, initVars, value, latest>>
    BY ONLY <1>1, <1>9, <2>1, DeleteEffect, c \in Conns
  <2>3. /\ \A d \in Conns \ {c} : pc'[d] = pc[d] /\ todo'[d] = todo[d] /\ arg'[d] = arg[d]
        /\ pc'[c] = place /\ todo'[c] = rest /\ arg'[c] = a
        /\ pc[c] \in {"moduleDelete", "moduleRemove"}
        /\ UNCHANGED <<sessionVars, initVars, value, latest>>
    BY ONLY <1>1, <1>9, <2>2, c \in Conns DEF TypeOK, ModuleEntityDelete, ModuleEntityRemove
  <2>. QED  BY ONLY <1>1, <2>1, <2>2, <2>3 DEF PlaceInv, Deleting, initVars, sessionVars
<1>10. ASSUME NEW e \in EntityIDs, NEW t \in Times, EntityActionRequest(c, e, t)
       PROVE  PlaceInv'
  BY <1>10 DEF EntityActionRequest
<1>11. CASE CheckAction(c)
  <2>1. /\ state[c]["vikja"] \in Conns /\ arg[c] \in EntityIDs
        /\ value[c] \in Times /\ "vikja" \in Loaded
    BY <1>11 DEF CheckAction
  <2>2. PICK last \in Times \cup {None} : last = entityActions[state[c]["vikja"]][arg[c]]
    BY <2>1
  <2>3. ~ (last # None /\ value[c] < last) => last <= value[c]
    BY <2>1, SessionModulesAssumption DEF Times, None
  <2>4. CASE last # None /\ value[c] < last
    <3>1. /\ pc[c] = "readAction"
          /\ pc' = [pc EXCEPT ![c] = "ready"]
          /\ \A d \in Conns \ {c} : arg'[d] = arg[d] /\ value'[d] = value[d] /\ latest'[d] = latest[d]
          /\ UNCHANGED <<sessionVars, stateVars, initVars, todo>>
      BY <1>11, <2>2, <2>4 DEF CheckAction, Finish
    <3>. QED  BY <3>1
  <2>5. CASE ~ (last # None /\ value[c] < last)
    <3>1. /\ latest' = [latest EXCEPT ![c] = last]
          /\ pc' = [pc EXCEPT ![c] = "setAction"]
          /\ UNCHANGED <<arg, value, sessionVars, stateVars, initVars, todo>>
      BY <1>11, <2>2, <2>5 DEF CheckAction
    <3>2. /\ \A d \in Conns \ {c} : pc'[d] = pc[d] /\ latest'[d] = latest[d]
          /\ pc'[c] = "setAction" /\ latest'[c] <= value'[c]
          /\ pc[c] = "readAction"
      BY <1>11, <2>2, <2>3, <2>5, <3>1 DEF CheckAction
    <3>. QED  BY <2>1, <3>1, <3>2
  <2>. QED  BY <2>4, <2>5
<1>12. CASE SetEntityAction(c)
  BY <1>12 DEF SetEntityAction, Finish
<1>13. ASSUME NEW e \in EntityIDs, AssetInstanceAdd(c, e)
       PROVE  PlaceInv'
  <2>1. /\ pc[c] = "ready" /\ "odal" \in Loaded /\ e \in entities /\ owner[e] = c
        /\ state[c]["odal"] \in Conns
    BY <1>13 DEF AssetInstanceAdd, MayAddAsset
  <2>2. PICK n : n = lastAssetID[state[c]["odal"]] + 1
    OBVIOUS
  <2>3. n \in AssetIDs
    BY <1>13, <2>1, <2>2, SessionModulesAssumption DEF AssetInstanceAdd, AssetIDs
  <2>4. /\ arg' = [arg EXCEPT ![c] = e]
        /\ value' = [value EXCEPT ![c] = n]
        /\ pc' = [pc EXCEPT ![c] = "setAsset"]
        /\ UNCHANGED <<sessionVars, initVars, todo, latest>>
    BY <1>13, <2>2 DEF AssetInstanceAdd, NewAssetInstanceID
  <2>. QED  BY <2>1, <2>3, <2>4
<1>14. CASE SetAssetInstance(c)
  BY <1>14 DEF SetAssetInstance, Finish
<1>15. CASE Leave(c)
  BY <1>15 DEF Leave
<1>16. CASE ModuleDisconnect(c)
  BY <1>16 DEF ModuleDisconnect, NextModule
<1>17. CASE LeaveSession(c)
  BY <1>17 DEF LeaveSession, Departing
<1>. QED  BY <1>4, <1>5, <1>7, <1>8, <1>9, <1>10, <1>11, <1>12, <1>13, <1>14, <1>15, <1>16, <1>17
          DEF Request, Handle

LEMMA OwnerStep ==
    ASSUME CoreInv, NEW c \in Conns, Request(c) \/ Handle(c)
    PROVE  OwnerInv'
<1>1. TypeOK /\ PlaceInv /\ OwnerInv
  BY DEF CoreInv
<1> USE <1>1 DEF TypeOK, OwnerInv, Settled, GoTo, sessionVars, stateVars, initVars, connVars
<1>4. CASE Join(c)
  BY <1>4 DEF Join
<1>5. CASE ModuleState(c) \/ SetModuleState(c)
  <2>1. CASE InitWaits(c)
    BY <2>1 DEF InitWaits
  <2>2. ASSUME NEW m \in Loaded, NEW s \in Conns, InitDone(c, m, s)
        PROVE  OwnerInv'
    BY <2>2 DEF InitDone
  <2>. QED  BY <1>5, <2>1, <2>2, InitEffect
<1>7. ASSUME NEW keep \in BOOLEAN, EntityAdd(c, keep)
      PROVE  OwnerInv'
  BY <1>7, SessionModulesAssumption DEF EntityAdd, EntityIDs
<1>8. ASSUME NEW e \in EntityIDs, EntityDelete(c, e)
      PROVE  OwnerInv'
  BY <1>8 DEF EntityDelete
<1>9. CASE ModuleEntityDelete(c) \/ ModuleEntityRemove(c)
  <2>1. todo[c] # {} /\ arg[c] \in EntityIDs
    BY <1>9 DEF ModuleEntityDelete, ModuleEntityRemove, PlaceInv, Deleting
  <2>2. PICK rest \in SUBSET Loaded, a \in EntityIDs \cup {None},
             place \in {"ready", "moduleDelete", "moduleRemove"} :
                /\ todo' = [todo EXCEPT ![c] = rest]
                /\ arg' = [arg EXCEPT ![c] = a]
                /\ pc' = [pc EXCEPT ![c] = place]
                /\ place # "ready" => rest # {} /\ a = arg[c]
                /\ UNCHANGED <<sessionVars, initVars, value, latest>>
    BY ONLY <1>1, <1>9, <2>1, DeleteEffect, c \in Conns
  <2>3. /\ \A d \in Conns \ {c} : pc'[d] = pc[d] /\ todo'[d] = todo[d] /\ arg'[d] = arg[d]
        /\ pc'[c] = place /\ todo'[c] = rest /\ arg'[c] = a
        /\ pc[c] \in {"moduleDelete", "moduleRemove"}
        /\ UNCHANGED <<sessionVars, initVars, value, latest>>
    BY ONLY <1>1, <1>9, <2>2, c \in Conns DEF TypeOK, ModuleEntityDelete, ModuleEntityRemove
  <2>. QED  BY ONLY <1>1, <2>1, <2>2, <2>3 DEF PlaceInv, Deleting, initVars, sessionVars
<1>10. ASSUME NEW e \in EntityIDs, NEW t \in Times, EntityActionRequest(c, e, t)
       PROVE  OwnerInv'
  BY <1>10 DEF EntityActionRequest
<1>11. CASE CheckAction(c)
  BY <1>11 DEF CheckAction, Finish
<1>12. CASE SetEntityAction(c)
  BY <1>12 DEF SetEntityAction, Finish
<1>13. ASSUME NEW e \in EntityIDs, AssetInstanceAdd(c, e)
       PROVE  OwnerInv'
  BY <1>13 DEF AssetInstanceAdd
<1>14. CASE SetAssetInstance(c)
  BY <1>14 DEF SetAssetInstance, Finish
<1>15. CASE Leave(c)
  BY <1>15 DEF Leave
<1>16. CASE ModuleDisconnect(c)
  BY <1>16 DEF ModuleDisconnect, NextModule
<1>17. CASE LeaveSession(c)
  BY <1>17 DEF LeaveSession
<1>. QED  BY <1>4, <1>5, <1>7, <1>8, <1>9, <1>10, <1>11, <1>12, <1>13, <1>14, <1>15, <1>16, <1>17
          DEF Request, Handle

LEMMA CoreStep ==
    ASSUME CoreInv, [Next]_vars
    PROVE  CoreInv'
<1>1. CASE UNCHANGED vars
  BY <1>1 DEF CoreInv, TypeOK, PlaceInv, Deleting, OwnerInv, Settled,
              vars, sessionVars, stateVars, initVars, connVars
<1>2. ASSUME NEW c \in Conns, Request(c) \/ Handle(c)
      PROVE  CoreInv'
  BY <1>2, TypeStep, PlaceStep, OwnerStep DEF CoreInv
<1>. QED  BY <1>1, <1>2 DEF Next

\* In every reachable state the handlers stand where Init, the loops over the
\* modules and the request in hand allow: a loop has a module to call, the
\* modules of a connection that is through with Init have their State, and the
\* owner of every entity is such a connection.
THEOREM SessionModulesAreConsistent == Spec => []CoreInv
<1>1. Init => CoreInv
  BY SessionModulesAssumption
     DEF Init, CoreInv, TypeOK, PlaceInv, Deleting, OwnerInv, Settled, EntityIDs, Times, AssetIDs, None
<1>. QED  BY <1>1, CoreStep, PTL DEF Spec

\* Hence every variable keeps its type.
THEOREM SessionModulesTypes == Spec => []TypeOK
<1>1. CoreInv => TypeOK
  BY DEF CoreInv
<1>. QED  BY <1>1, SessionModulesAreConsistent, PTL

-----------------------------------------------------------------------------
(* What a step of one connection leaves alone.                             *)

\* The handler of another connection.
LEMMA OthersStay ==
    ASSUME CoreInv, NEW c \in Conns, Request(c) \/ Handle(c), NEW d \in Conns \ {c}
    PROVE  /\ pc'[d] = pc[d] /\ todo'[d] = todo[d] /\ arg'[d] = arg[d]
           /\ value'[d] = value[d] /\ state'[d] = state[d]
<1>1. /\ pc \in [Conns -> Places] /\ todo \in [Conns -> SUBSET Loaded]
      /\ arg \in [Conns -> EntityIDs \cup {None}]
      /\ value \in [Conns -> Times \cup AssetIDs \cup {None}]
      /\ state \in [Conns -> [Loaded -> Conns \cup {None}]]
  BY DEF CoreInv, TypeOK, Places
<1> USE <1>1 DEF GoTo, sessionVars, stateVars, initVars, connVars
<1>4. CASE Join(c)
  BY <1>4 DEF Join
<1>5. CASE ModuleState(c) \/ SetModuleState(c)
  BY <1>5 DEF ModuleState, SetModuleState, NextModule
<1>7. ASSUME NEW keep \in BOOLEAN, EntityAdd(c, keep)
      PROVE  UNCHANGED <<connVars, initVars>>
  BY <1>7 DEF EntityAdd
<1>8. CASE \E e \in EntityIDs : EntityDelete(c, e)
  BY <1>8 DEF EntityDelete
<1>9. CASE ModuleEntityDelete(c) \/ ModuleEntityRemove(c)
  BY <1>9 DEF ModuleEntityDelete, ModuleEntityRemove, NextModule
<1>10. CASE \E e \in EntityIDs, t \in Times : EntityActionRequest(c, e, t)
  BY <1>10 DEF EntityActionRequest
<1>11. CASE CheckAction(c)
  BY <1>11 DEF CheckAction, Finish
<1>12. CASE SetEntityAction(c) \/ SetAssetInstance(c)
  BY <1>12 DEF SetEntityAction, SetAssetInstance, Finish
<1>13. CASE \E e \in EntityIDs : AssetInstanceAdd(c, e)
  BY <1>13 DEF AssetInstanceAdd
<1>15. CASE Leave(c)
  BY <1>15 DEF Leave
<1>16. CASE ModuleDisconnect(c)
  BY <1>16 DEF ModuleDisconnect, NextModule
<1>17. CASE LeaveSession(c)
  BY <1>17 DEF LeaveSession
<1>. QED  BY <1>4, <1>5, <1>7, <1>8, <1>9, <1>10, <1>11, <1>12, <1>13, <1>15, <1>16, <1>17
          DEF Request, Handle

\* An entity keeps its owner, and the owner its States.
LEMMA OwnersState ==
    ASSUME CoreInv, NEW c \in Conns, Request(c) \/ Handle(c),
           NEW e \in EntityIDs, e <= lastEntityID
    PROVE  /\ owner'[e] = owner[e] /\ persist'[e] = persist[e]
           /\ state'[owner[e]] = state[owner[e]]
           /\ Settled(owner[e])
<1>1. Settled(owner[e])
  BY DEF CoreInv, OwnerInv
<1>2. /\ pc[c] \notin {"init", "setState"} => state' = state
      /\ (\A keep \in BOOLEAN : ~ EntityAdd(c, keep)) => owner' = owner /\ persist' = persist
  BY DEF Request, Handle, sessionVars, initVars, Join, ModuleState, SetModuleState,
         EntityDelete, ModuleEntityDelete, ModuleEntityRemove, EntityActionRequest, CheckAction, SetEntityAction,
         AssetInstanceAdd, SetAssetInstance, Leave, ModuleDisconnect, LeaveSession, EntityAdd
<1>3. ASSUME NEW keep \in BOOLEAN, EntityAdd(c, keep)
      PROVE  owner'[e] = owner[e] /\ persist'[e] = persist[e]
  BY <1>3, SessionModulesAssumption DEF EntityAdd, CoreInv, TypeOK, EntityIDs
<1>4. owner'[e] = owner[e] /\ persist'[e] = persist[e]
  BY <1>2, <1>3
<1>5. state'[owner[e]] = state[owner[e]]
  BY <1>1, <1>2, OthersStay DEF Settled
<1>. QED  BY <1>1, <1>4, <1>5

-----------------------------------------------------------------------------
(* When a module forgets an entity.                                        *)

\* The step removes what module m of the owner of e keeps for e.
Forgets(c, m, e) ==
    owner[e] = c /\ \E gone \in SUBSET EntityIDs : e \in gone /\ RemoveFromState(c, m, gone)

\* The owner's goroutine gets past the removal only by the removal itself.
LEMMA ForgottenStep ==
    ASSUME CoreInv, NEW c \in Conns, Request(c) \/ Handle(c), NEW m \in Loaded,
           NEW e \in EntityIDs, e <= lastEntityID, ~ Forgotten(m, e)
    PROVE  ~ Forgotten(m, e)' \/ Forgets(c, m, e)
<1>1. /\ pc \in [Conns -> Places] /\ todo \in [Conns -> SUBSET Loaded]
      /\ arg \in [Conns -> EntityIDs \cup {None}]
      /\ entities \in SUBSET EntityIDs /\ entities \subseteq 1 .. lastEntityID
      /\ lastEntityID \in Nat
  BY SessionModulesAssumption DEF CoreInv, TypeOK, OwnerInv, Places
<1>2. /\ owner'[e] = owner[e] /\ persist'[e] = persist[e]
      /\ owner[e] \in Conns /\ pc[owner[e]] \notin {"out", "init", "setState"}
  BY OwnersState DEF Settled
<1>3. todo[c] # {} => Current(c) \in todo[c] /\ Current(c) \in Loaded
  BY CurrentIsLoaded DEF CoreInv
<1>4. CASE owner[e] # c
  <2>1. /\ pc'[owner[e]] = pc[owner[e]] /\ todo'[owner[e]] = todo[owner[e]]
        /\ arg'[owner[e]] = arg[owner[e]]
    BY <1>2, <1>4, OthersStay
  <2>2. e \in entities' <=> e \in entities
    BY <1>1, <1>4 DEF Request, Handle, sessionVars, Join, ModuleState, SetModuleState, EntityAdd,
         EntityDelete, ModuleEntityDelete, ModuleEntityRemove, EntityActionRequest, CheckAction, SetEntityAction,
         AssetInstanceAdd, SetAssetInstance, Leave, ModuleDisconnect, LeaveSession, Departing
  <2>. QED  BY <1>2, <2>1, <2>2 DEF Forgotten, Deleting
<1> SUFFICES ASSUME owner[e] = c
             PROVE  ~ Forgotten(m, e)' \/ Forgets(c, m, e)
  BY <1>4
<1>5. pc[c] \notin {"out", "init", "setState"}
  BY <1>2
<1>6. ~ Deleting(c) => e \in entities
  BY DEF Forgotten
<1> USE <1>1, <1>2 DEF Forgotten, Deleting, GoTo, sessionVars, stateVars, initVars, connVars
<1>7. ASSUME NEW keep \in BOOLEAN, EntityAdd(c, keep)
      PROVE  ~ Forgotten(m, e)'
  BY <1>7 DEF EntityAdd
<1>8. ASSUME NEW f \in EntityIDs, EntityDelete(c, f)
      PROVE  ~ Forgotten(m, e)'
  BY <1>6, <1>8 DEF EntityDelete
<1>9. CASE ModuleEntityDelete(c)
  <2>1. /\ pc[c] = "moduleDelete" /\ todo[c] # {} /\ UNCHANGED <<entities, owner, persist>>
    BY <1>9 DEF ModuleEntityDelete, CoreInv, PlaceInv
  <2>2. CASE arg[c] \in entities
    <3>1. e \in entities
      BY <2>1, <2>2
    <3>2. pc'[c] = IF todo'[c] = {} THEN "ready" ELSE "moduleDelete"
      BY <1>9, <2>1, <2>2, NextModuleEffect DEF ModuleEntityDelete, CoreInv
    <3>. QED  BY <2>1, <3>1, <3>2
  <2>3. CASE arg[c] \notin entities
    BY <1>9, <2>1, <2>3 DEF ModuleEntityDelete
  <2>. QED  BY <2>2, <2>3
<1>17. CASE ModuleEntityRemove(c)
  <2>1. /\ pc[c] = "moduleRemove" /\ todo[c] # {} /\ UNCHANGED <<entities, owner, persist>>
        /\ RemoveFromState(c, Current(c), {arg[c]})
    BY <1>17 DEF ModuleEntityRemove, CoreInv, PlaceInv, Deleting
  <2>2. /\ todo' = [todo EXCEPT ![c] = todo[c] \ {Current(c)}]
        /\ pc'[c] = IF todo'[c] = {} THEN "ready" ELSE "moduleDelete"
    BY <1>17, <2>1, NextModuleEffect DEF ModuleEntityRemove, CoreInv
  <2>3. arg' = [arg EXCEPT ![c] = IF todo'[c] = {} THEN None ELSE arg[c]]
    BY <1>17 DEF ModuleEntityRemove
  <2>4. CASE e \in entities
    BY <2>1, <2>2, <2>4
  <2>5. CASE e \notin entities /\ m = Current(c)
    BY <2>1, <2>5 DEF Forgets
  <2>6. CASE e \notin entities /\ m # Current(c)
    <3>1. arg[c] = e /\ m \in todo[c]
      BY <2>6
    <3>2. m \in todo'[c]
      BY <2>2, <2>6, <3>1
    <3>. QED  BY <2>1, <2>2, <2>3, <2>6, <3>1, <3>2
  <2>. QED  BY <2>4, <2>5, <2>6
<1>10. CASE \/ \E f \in EntityIDs, t \in Times : EntityActionRequest(c, f, t)
            \/ \E f \in EntityIDs : AssetInstanceAdd(c, f)
  BY <1>6, <1>10 DEF EntityActionRequest, AssetInstanceAdd
<1>11. CASE CheckAction(c) \/ SetEntityAction(c) \/ SetAssetInstance(c)
  BY <1>6, <1>11 DEF CheckAction, SetEntityAction, SetAssetInstance, Finish
<1>12. CASE Leave(c)
  BY <1>6, <1>12 DEF Leave
<1>13. CASE ModuleDisconnect(c)
  <2>1. /\ pc[c] = "leaveModules" /\ todo[c] # {} /\ UNCHANGED <<entities, owner, persist>>
        /\ RemoveFromState(c, Current(c), Departing(c))
    BY <1>13 DEF ModuleDisconnect, CoreInv, PlaceInv
  <2>2. /\ todo' = [todo EXCEPT ![c] = todo[c] \ {Current(c)}]
        /\ pc'[c] = IF todo'[c] = {} THEN "leaveSession" ELSE "leaveModules"
    BY <1>13, <2>1, NextModuleEffect DEF ModuleDisconnect, CoreInv
  <2>3. e \in entities
    BY <1>6, <2>1
  <2>4. CASE persist[e]
    BY <2>1, <2>3, <2>4
  <2>5. CASE ~ persist[e] /\ m = Current(c)
    BY <2>1, <2>3, <2>5 DEF Forgets, Departing
  <2>6. CASE ~ persist[e] /\ m # Current(c)
    <3>1. m \in todo'[c]
      BY <2>1, <2>2, <2>3, <2>6
    <3>. QED  BY <2>1, <2>2, <2>3, <3>1
  <2>. QED  BY <2>4, <2>5, <2>6
<1>14. CASE LeaveSession(c)
  BY <1>6, <1>14 DEF LeaveSession, Departing
<1>. QED  BY <1>5, <1>7, <1>8, <1>9, <1>10, <1>11, <1>12, <1>13, <1>14, <1>17
          DEF Request, Handle, Join, ModuleState, SetModuleState

\* What is forgotten is gone from the State.
LEMMA ForgetsEffect ==
    ASSUME TypeOK, NEW c \in Conns, NEW m \in Loaded, NEW e \in EntityIDs, Forgets(c, m, e),
           state[c][m] \in Conns
    PROVE  /\ m = "vikja" => entityActions'[state[c][m]][e] = None
           /\ m = "odal" => assetInstances'[state[c][m]][e] = None
<1>1. PICK gone : e \in gone /\ RemoveFromState(c, m, gone)
  BY DEF Forgets
<1>2. Removed(c, m, gone)
  BY <1>1, RemoveFromStateEffect
<1>. QED  BY <1>1, <1>2 DEF Removed

\* How a step changes what the States keep.
LEMMA KeptStep ==
    ASSUME CoreInv, NEW c \in Conns, Request(c) \/ Handle(c)
    PROVE  /\ \A s \in Conns, e \in EntityIDs :
                 \/ entityActions'[s][e] \in {entityActions[s][e], None}
                 \/ SetEntityAction(c) /\ s = state[c]["vikja"] /\ e = arg[c]
           /\ SetEntityAction(c) \/ late' = late
           /\ \/ SetAssetInstance(c)
              \/ \E e \in EntityIDs : AssetInstanceAdd(c, e)
              \/ /\ lastAssetID' = lastAssetID /\ pc'[c] # "setAsset"
                 /\ \A s \in Conns, e \in EntityIDs :
                       assetInstances'[s][e] \in {assetInstances[s][e], None}
<1>1. /\ entityActions \in [Conns -> [EntityIDs -> Times \cup {None}]]
      /\ assetInstances \in [Conns -> [EntityIDs -> AssetIDs \cup {None}]]
      /\ pc \in [Conns -> Places]
  BY DEF CoreInv, TypeOK, Places
<1>2. ASSUME NEW m, NEW gone, RemoveFromState(c, m, gone)
      PROVE  /\ \A s \in Conns, e \in EntityIDs :
                   /\ entityActions'[s][e] \in {entityActions[s][e], None}
                   /\ assetInstances'[s][e] \in {assetInstances[s][e], None}
             /\ UNCHANGED <<lastAssetID, late>>
  BY <1>2, RemoveFromStateEffect DEF Removed, CoreInv
<1>3. CASE ModuleEntityRemove(c) \/ ModuleDisconnect(c)
  <2>1. pc'[c] # "setAsset"
    BY <1>1, <1>3 DEF ModuleEntityRemove, ModuleDisconnect, NextModule, GoTo
  <2>. QED  BY <1>2, <1>3, <2>1 DEF ModuleEntityRemove, ModuleDisconnect
<1>4. CASE SetEntityAction(c)
  <2>1. /\ entityActions' = [entityActions EXCEPT ![state[c]["vikja"]][arg[c]] = value[c]]
        /\ lastAssetID' = lastAssetID /\ pc'[c] = "ready" /\ assetInstances' = assetInstances
    BY <1>1, <1>4 DEF SetEntityAction, Finish, GoTo
  <2>. QED  BY <1>1, <1>4, <2>1
<1>5. CASE \/ Join(c) \/ Leave(c) \/ LeaveSession(c) \/ ModuleState(c) \/ SetModuleState(c)
           \/ CheckAction(c) \/ ModuleEntityDelete(c)
           \/ \E keep \in BOOLEAN : EntityAdd(c, keep)
           \/ \E e \in EntityIDs : EntityDelete(c, e)
           \/ \E e \in EntityIDs, t \in Times : EntityActionRequest(c, e, t)
  <2>1. UNCHANGED stateVars /\ pc'[c] # "setAsset"
    BY <1>1, <1>5 DEF Join, Leave, LeaveSession, ModuleState, SetModuleState, NextModule, CheckAction,
       ModuleEntityDelete, Finish, EntityAdd, EntityDelete, EntityActionRequest, GoTo, connVars
  <2>. QED  BY <2>1 DEF stateVars
<1>6. CASE SetAssetInstance(c) \/ \E e \in EntityIDs : AssetInstanceAdd(c, e)
  BY <1>6 DEF SetAssetInstance, AssetInstanceAdd
<1>. QED  BY <1>3, <1>4, <1>5, <1>6 DEF Request, Handle

-----------------------------------------------------------------------------
(* odal: asset instances.                                                  *)

\* What SetAssetInstance does to the instances of one State.
LEMMA SetAssetEffect ==
    ASSUME CoreInv, NEW c \in Conns, SetAssetInstance(c)
    PROVE  /\ pc[c] = "setAsset" /\ pc'[c] = "ready" /\ "odal" \in Loaded
           /\ arg[c] \in entities /\ owner[arg[c]] = c /\ arg[c] \in EntityIDs
           /\ state[c]["odal"] \in Conns /\ value[c] \in AssetIDs
           /\ \A s \in Conns, e \in EntityIDs :
                 assetInstances'[s][e] = IF s = state[c]["odal"] /\ e = arg[c]
                                         THEN value[c] ELSE assetInstances[s][e]
           /\ UNCHANGED <<sessionVars, initVars, lastAssetID>>
<1>1. /\ assetInstances \in [Conns -> [EntityIDs -> AssetIDs \cup {None}]]
      /\ pc \in [Conns -> Places] /\ entities \subseteq EntityIDs
  BY DEF CoreInv, TypeOK, Places
<1>2. /\ pc[c] = "setAsset"
      /\ assetInstances' = [assetInstances EXCEPT ![state[c]["odal"]][arg[c]] = value[c]]
      /\ pc' = [pc EXCEPT ![c] = "ready"]
      /\ UNCHANGED <<sessionVars, initVars, lastAssetID>>
  BY DEF SetAssetInstance, Finish, GoTo
<1>3. /\ "odal" \in Loaded /\ arg[c] \in entities /\ owner[arg[c]] = c
      /\ state[c]["odal"] \in Conns /\ value[c] \in AssetIDs
  BY <1>2 DEF CoreInv, PlaceInv
<1>. QED  BY <1>1, <1>2, <1>3

LEMMA AssetStep ==
    ASSUME CoreInv, AssetInv, NEW c \in Conns, Request(c) \/ Handle(c)
    PROVE  AssetInv'
<1> SUFFICES ASSUME NEW s \in Conns, NEW e \in EntityIDs, assetInstances'[s][e] # None
             PROVE  /\ e <= lastEntityID' /\ "odal" \in Loaded
                    /\ state'[owner'[e]]["odal"] = s
                    /\ ~ Forgotten("odal", e)'
  BY DEF AssetInv
<1>1. /\ lastEntityID \in Nat /\ lastEntityID' \in Nat /\ lastEntityID <= lastEntityID'
      /\ entities \subseteq 1 .. lastEntityID
  BY SessionModulesAssumption DEF CoreInv, TypeOK, OwnerInv,
         Request, Handle, sessionVars, Join, ModuleState, SetModuleState, EntityAdd,
         EntityDelete, ModuleEntityDelete, ModuleEntityRemove, EntityActionRequest, CheckAction, SetEntityAction,
         AssetInstanceAdd, SetAssetInstance, Leave, ModuleDisconnect, LeaveSession
<1>2. ASSUME assetInstances[s][e] # None
      PROVE  /\ e <= lastEntityID' /\ "odal" \in Loaded
             /\ state'[owner'[e]]["odal"] = s
             /\ ~ Forgotten("odal", e)'
  <2>1. /\ e <= lastEntityID /\ "odal" \in Loaded /\ state[owner[e]]["odal"] = s
        /\ ~ Forgotten("odal", e)
    BY <1>2 DEF AssetInv
  <2>2. /\ owner'[e] = owner[e] /\ state'[owner[e]] = state[owner[e]]
    BY <2>1, OwnersState
  <2>3. ~ Forgets(c, "odal", e)
    <3>1. SUFFICES ASSUME Forgets(c, "odal", e) PROVE FALSE
      OBVIOUS
    <3>2. state[c]["odal"] = s
      BY <2>1, <3>1 DEF Forgets
    <3>. QED  BY <2>1, <3>1, <3>2, ForgetsEffect DEF CoreInv
  <2>4. ~ Forgotten("odal", e)'
    BY <2>1, <2>3, ForgottenStep
  <2>5. e <= lastEntityID'
    BY <1>1, <2>1 DEF EntityIDs
  <2>. QED  BY <2>1, <2>2, <2>4, <2>5
<1>3. ASSUME SetAssetInstance(c), s = state[c]["odal"], e = arg[c]
      PROVE  /\ e <= lastEntityID' /\ "odal" \in Loaded
             /\ state'[owner'[e]]["odal"] = s
             /\ ~ Forgotten("odal", e)'
  <2>1. /\ pc'[c] = "ready" /\ "odal" \in Loaded
        /\ e \in entities /\ owner[e] = c
        /\ UNCHANGED <<lastEntityID, entities, owner, state>>
    BY <1>3, SetAssetEffect DEF sessionVars, initVars
  <2>2. ~ Forgotten("odal", e)'
    BY <2>1 DEF Forgotten
  <2>3. e <= lastEntityID'
    <3>1. e \in 1 .. lastEntityID
      BY <1>1, <2>1
    <3>. QED  BY <2>1, <3>1
  <2>4. state'[owner'[e]]["odal"] = s
    BY <1>3, <2>1
  <2>. QED  BY <2>1, <2>2, <2>3, <2>4
<1>4. assetInstances[s][e] # None \/ (SetAssetInstance(c) /\ s = state[c]["odal"] /\ e = arg[c])
  <2>1. CASE SetAssetInstance(c)
    BY <2>1, SetAssetEffect
  <2>2. CASE \E f \in EntityIDs : AssetInstanceAdd(c, f)
    BY <2>2 DEF AssetInstanceAdd
  <2>. QED  BY <2>1, <2>2, KeptStep
<1>. QED  BY <1>2, <1>3, <1>4

LEMMA AssetInduction == Spec => []AssetInv
<1>1. Init => AssetInv
  BY DEF Init, AssetInv
<1>2. CoreInv /\ AssetInv /\ [Next]_vars => AssetInv'
  <2>1. ASSUME AssetInv, UNCHANGED vars
        PROVE  AssetInv'
    BY <2>1 DEF AssetInv, Forgotten, Deleting, vars, sessionVars, stateVars, initVars, connVars
  <2>. QED  BY <2>1, AssetStep DEF Next
<1>. QED  BY <1>1, <1>2, SessionModulesAreConsistent, PTL DEF Spec

\* An asset instance does not outlive its entity, although handleEntityDelete
\* and HandleDisconnect of odal look at the entities of the session in a step
\* of their own: whatever joins, leaves and requests of other connections come
\* in between, and in whichever State the owner's instances are kept.
THEOREM AssetsGoWithTheirEntity == Spec => []NoDanglingAsset
<1>1. CoreInv /\ AssetInv => NoDanglingAsset
  BY DEF AssetInv, NoDanglingAsset, Forgotten
<1>. QED  BY <1>1, AssetInduction, SessionModulesAreConsistent, PTL

\* handleAssetInstanceAdd numbers the instance in one locked call ...
LEMMA AssetAddEffect ==
    ASSUME CoreInv, NEW c \in Conns, NEW e \in EntityIDs, AssetInstanceAdd(c, e)
    PROVE  /\ pc'[c] = "setAsset" /\ state[c]["odal"] \in Conns
           /\ value'[c] = lastAssetID[state[c]["odal"]] + 1
           /\ \A s \in Conns : lastAssetID'[s] = IF s = state[c]["odal"] THEN lastAssetID[s] + 1
                                                                         ELSE lastAssetID[s]
           /\ UNCHANGED <<state, assetInstances>>
<1>1. /\ lastAssetID \in [Conns -> 0 .. MaxAssets] /\ pc \in [Conns -> Places]
      /\ value \in [Conns -> Times \cup AssetIDs \cup {None}]
  BY DEF CoreInv, TypeOK, Places
<1>2. state[c]["odal"] \in Conns
  BY DEF CoreInv, PlaceInv, AssetInstanceAdd
<1>. QED  BY <1>1, <1>2 DEF AssetInstanceAdd, NewAssetInstanceID, GoTo, initVars

\* ... and stores it in another: the numbers in flight are used up, and differ.
LEMMA NumberStep ==
    ASSUME CoreInv, NumberInv, NEW c \in Conns, Request(c) \/ Handle(c)
    PROVE  NumberInv'
<1>1. /\ \A s \in Conns : lastAssetID[s] \in Nat
      /\ \A s \in Conns, e \in EntityIDs : assetInstances[s][e] \in Nat
      /\ \A d \in Conns : value[d] \in Nat
      /\ \A d \in Conns : pc[d] = "setAsset" => state[d]["odal"] \in Conns /\ value[d] # None
  <2>1. /\ lastAssetID \in [Conns -> 0 .. MaxAssets]
        /\ assetInstances \in [Conns -> [EntityIDs -> AssetIDs \cup {None}]]
        /\ value \in [Conns -> Times \cup AssetIDs \cup {None}]
    BY DEF CoreInv, TypeOK
  <2>2. 0 .. MaxAssets \subseteq Nat /\ AssetIDs \subseteq Nat \ {None} /\ Times \subseteq Nat /\ None \in Nat
    BY SessionModulesAssumption DEF AssetIDs, Times, None
  <2>3. \A d \in Conns : pc[d] = "setAsset" => state[d]["odal"] \in Conns /\ value[d] \in AssetIDs
    BY DEF CoreInv, PlaceInv
  <2>4. \A s \in Conns : lastAssetID[s] \in Nat
    BY <2>1, <2>2
  <2>5. \A s \in Conns, e \in EntityIDs : assetInstances[s][e] \in Nat
    BY <2>1, <2>2
  <2>6. \A d \in Conns : value[d] \in Nat
    BY <2>1, <2>2
  <2>. QED  BY <2>2, <2>3, <2>4, <2>5, <2>6
<1>2. \A d \in Conns \ {c} : pc'[d] = pc[d] /\ value'[d] = value[d] /\ state'[d] = state[d]
  BY OthersStay
<1>3. CASE SetAssetInstance(c)
  <2>1. /\ pc[c] = "setAsset" /\ pc'[c] = "ready" /\ state[c]["odal"] \in Conns
        /\ \A s \in Conns, e \in EntityIDs :
              assetInstances'[s][e] = IF s = state[c]["odal"] /\ e = arg[c]
                                      THEN value[c] ELSE assetInstances[s][e]
        /\ UNCHANGED <<lastAssetID, state>>
    BY <1>3, SetAssetEffect DEF initVars
  <2>. QED  BY <1>1, <1>2, <2>1 DEF NumberInv, AssetIDsDiffer
<1>4. CASE \E e \in EntityIDs : AssetInstanceAdd(c, e)
  <2>1. /\ pc'[c] = "setAsset" /\ state[c]["odal"] \in Conns
        /\ value'[c] = lastAssetID[state[c]["odal"]] + 1
        /\ \A s \in Conns : lastAssetID'[s] = IF s = state[c]["odal"] THEN lastAssetID[s] + 1
                                                                      ELSE lastAssetID[s]
        /\ UNCHANGED <<state, assetInstances>>
    BY <1>4, AssetAddEffect
  <2>. QED  BY <1>1, <1>2, <2>1 DEF NumberInv, AssetIDsDiffer
<1>5. CASE /\ lastAssetID' = lastAssetID /\ pc'[c] # "setAsset"
           /\ \A s \in Conns, e \in EntityIDs :
                 assetInstances'[s][e] \in {assetInstances[s][e], None}
  BY <1>1, <1>2, <1>5 DEF NumberInv, AssetIDsDiffer, None
<1>. QED  BY <1>3, <1>4, <1>5, KeptStep

\* In one State no two entities have asset instances of the same id, although
\* odal numbers an instance and stores it in two locked calls, with those of
\* other connections in between.
THEOREM AssetInstanceIDsDiffer == Spec => []AssetIDsDiffer
<1>1. Init => NumberInv
  BY DEF Init, NumberInv, AssetIDsDiffer, None
<1>2. CoreInv /\ NumberInv /\ [Next]_vars => NumberInv'
  <2>1. ASSUME NumberInv, UNCHANGED vars
        PROVE  NumberInv'
    BY <2>1 DEF NumberInv, AssetIDsDiffer, vars, sessionVars, stateVars, initVars, connVars
  <2>. QED  BY <2>1, NumberStep DEF Next
<1>3. NumberInv => AssetIDsDiffer
  BY DEF NumberInv
<1>. QED  BY <1>1, <1>2, <1>3, SessionModulesAreConsistent, PTL DEF Spec

-----------------------------------------------------------------------------
(* vikja: entity actions.                                                  *)

LEMMA SetActionEffect ==
    ASSUME CoreInv, NEW c \in Conns, SetEntityAction(c)
    PROVE  /\ pc[c] = "setAction" /\ pc'[c] = "ready" /\ "vikja" \in Loaded
           /\ arg[c] \in EntityIDs /\ state[c]["vikja"] \in Conns
           /\ value[c] \in Times /\ latest[c] <= value[c]
           /\ late' = IF PastRemoval(arg[c]) THEN late \cup {arg[c]} ELSE late
           /\ entityActions'[state[c]["vikja"]][arg[c]] = value[c]
           /\ UNCHANGED lastEntityID
<1>1. /\ entityActions \in [Conns -> [EntityIDs -> Times \cup {None}]]
      /\ pc \in [Conns -> Places]
  BY DEF CoreInv, TypeOK, Places
<1>2. /\ pc[c] = "setAction"
      /\ late' = IF PastRemoval(arg[c]) THEN late \cup {arg[c]} ELSE late
      /\ entityActions' = [entityActions EXCEPT ![state[c]["vikja"]][arg[c]] = value[c]]
      /\ pc' = [pc EXCEPT ![c] = "ready"]
      /\ UNCHANGED lastEntityID
  BY DEF SetEntityAction, Finish, GoTo, sessionVars
<1>3. /\ "vikja" \in Loaded /\ arg[c] \in EntityIDs /\ value[c] \in Times
      /\ state[c]["vikja"] \in Conns /\ latest[c] <= value[c]
  BY <1>2 DEF CoreInv, PlaceInv
<1>. QED  BY <1>1, <1>2, <1>3

LEMMA ActionStep ==
    ASSUME CoreInv, ActionInv, NEW c \in Conns, Request(c) \/ Handle(c)
    PROVE  ActionInv'
<1> SUFFICES ASSUME "vikja" \in Loaded, NEW e \in (1 .. lastEntityID') \ late',
                    entityActions'[state'[owner'[e]]["vikja"]][e] # None
             PROVE  ~ Forgotten("vikja", e)'
  BY DEF ActionInv
<1>1. TypeOK /\ OwnerInv /\ PlaceInv /\ TypeOK'
  BY TypeStep DEF CoreInv
<1>2. lastEntityID \in Nat /\ lastEntityID' \in Nat /\ e \in EntityIDs /\ e \in Nat
  BY <1>1, SessionModulesAssumption DEF TypeOK, EntityIDs
<1>3. CASE e <= lastEntityID
  <2>1. /\ owner'[e] = owner[e] /\ state'[owner[e]] = state[owner[e]]
        /\ Settled(owner[e])
    BY <1>2, <1>3, OwnersState
  <2>2. PICK s : s = state[owner[e]]["vikja"]
    OBVIOUS
  <2>3. s \in Conns
    BY <1>1, <2>1, <2>2 DEF PlaceInv, Settled
  <2>4. entityActions'[s][e] # None
    BY <2>1, <2>2
  <2>5. ~ Forgotten("vikja", e)
    <3>1. CASE SetEntityAction(c) /\ s = state[c]["vikja"] /\ e = arg[c]
      <4>1. ~ PastRemoval(e)
        BY <3>1, SetActionEffect
      <4>. QED  BY <4>1 DEF PastRemoval, Forgotten
    <3>2. CASE entityActions'[s][e] = entityActions[s][e]
      <4>1. e \notin late
        BY SetActionEffect, KeptStep
      <4>. QED  BY <1>2, <1>3, <2>2, <2>4, <3>2, <4>1 DEF ActionInv
    <3>. QED  BY <1>2, <2>3, <2>4, <3>1, <3>2, KeptStep
  <2>6. ~ Forgets(c, "vikja", e)
    <3>1. SUFFICES ASSUME Forgets(c, "vikja", e) PROVE FALSE
      OBVIOUS
    <3>2. state[c]["vikja"] = s
      BY <2>2, <3>1 DEF Forgets
    <3>. QED  BY <1>1, <1>2, <2>3, <2>4, <3>1, <3>2, ForgetsEffect
  <2>. QED  BY <1>2, <1>3, <2>5, <2>6, ForgottenStep
<1>4. CASE ~ e <= lastEntityID
  <2>1. PICK keep \in BOOLEAN : EntityAdd(c, keep)
    BY <1>2, <1>4 DEF Request, Handle, sessionVars, Join, ModuleState, SetModuleState,
         EntityDelete, ModuleEntityDelete, ModuleEntityRemove, EntityActionRequest, CheckAction, SetEntityAction,
         AssetInstanceAdd, SetAssetInstance, Leave, ModuleDisconnect, LeaveSession
  <2>2. e = lastEntityID + 1
    BY <1>2, <1>4, <2>1 DEF EntityAdd
  <2>3. e \in entities' /\ owner'[e] = c /\ pc'[c] = "ready"
    BY <1>1, <1>2, <2>1, <2>2 DEF EntityAdd, connVars, TypeOK
  <2>. QED  BY <2>3 DEF Forgotten
<1>. QED  BY <1>3, <1>4

\* The action of an entity that is gone is gone from the State of the entity's
\* owner, once the owner's handleEntityDelete is through, unless a handler of
\* another connection that had found the entity stored its action too late.
THEOREM ActionsGoWithTheirEntity == Spec => []NoDanglingAction
<1>1. Init => ActionInv
  BY DEF Init, ActionInv
<1>2. CoreInv /\ ActionInv /\ [Next]_vars => ActionInv'
  <2>1. ASSUME ActionInv, UNCHANGED vars
        PROVE  ActionInv'
    BY <2>1 DEF ActionInv, Forgotten, Deleting, vars, sessionVars, stateVars, initVars, connVars
  <2>. QED  BY <2>1, ActionStep DEF Next
<1>3. CoreInv /\ ActionInv => NoDanglingAction
  BY DEF ActionInv, NoDanglingAction, Forgotten
<1>. QED  BY <1>1, <1>2, <1>3, SessionModulesAreConsistent, PTL DEF Spec

\* handleSetEntityAction replaces an action by an older one only when another
\* handler stored that action between its check and its store.
THEOREM ActionsGoBackOnlyAfterAStaleCheck == Spec => OnlyStaleChecksGoBack
<1>1. ASSUME CoreInv, [Next]_vars
      PROVE  [\A s \in Conns, e \in EntityIDs :
                 entityActions'[s][e] # None /\ entityActions'[s][e] < entityActions[s][e] =>
                    \E c \in Conns : /\ pc[c] = "setAction" /\ pc'[c] = "ready"
                                     /\ state[c]["vikja"] = s /\ arg[c] = e
                                     /\ latest[c] # entityActions[s][e]]_vars
  <2>1. CASE UNCHANGED vars
    BY <2>1
  <2>2. ASSUME NEW c \in Conns, Request(c) \/ Handle(c), NEW s \in Conns, NEW e \in EntityIDs,
               entityActions'[s][e] # None, entityActions'[s][e] < entityActions[s][e]
        PROVE  \E d \in Conns : /\ pc[d] = "setAction" /\ pc'[d] = "ready"
                                /\ state[d]["vikja"] = s /\ arg[d] = e
                                /\ latest[d] # entityActions[s][e]
    <3>1. entityActions[s][e] \in Nat /\ latest[c] \in Nat /\ \A t \in Times : t \in Nat
      BY <1>1, SessionModulesAssumption DEF CoreInv, TypeOK, Times, None
    <3>2. entityActions'[s][e] # entityActions[s][e]
      BY <2>2, <3>1
    <3>3. SetEntityAction(c) /\ s = state[c]["vikja"] /\ e = arg[c]
      BY <1>1, <2>2, <3>2, KeptStep
    <3>4. /\ pc[c] = "setAction" /\ pc'[c] = "ready"
          /\ entityActions'[s][e] = value[c] /\ latest[c] <= value[c] /\ value[c] \in Times
      BY <1>1, <3>3, SetActionEffect
    <3>5. latest[c] # entityActions[s][e]
      BY <2>2, <3>1, <3>4
    <3>. QED  BY <3>3, <3>4, <3>5
  <2>. QED  BY <1>1, <2>1, <2>2 DEF Next
<1>. QED  BY <1>1, SessionModulesAreConsistent, PTL DEF Spec, OnlyStaleChecksGoBack

=============================================================================
