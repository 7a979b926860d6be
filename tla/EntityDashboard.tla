---------------------------- MODULE EntityDashboard ----------------------------
(***************************************************************************)
(* The page "Entity Dashboard": one network entity of the live state, the  *)
(* one the address names or the operator picks from a list of all of them. *)
(*                                                                         *)
(* Three parties move the selection: the operator, whose pick is kept in   *)
(* the address by a navigation that lands later; the history and the links *)
(* of other pages, which change the address alone; and an effect of the    *)
(* page, which follows the address and the polled list, where entities     *)
(* come and go and change places (the newest is first).                    *)
(***************************************************************************)
EXTENDS QueryCache, Naturals, Sequences, SequencesExt

CONSTANTS
  Entity,        \* entities of the simulated network
  NoEntity,      \* an address without an entity, and nothing selected
  MaxEntityOps   \* bound: picks, navigations, changes of the live state, failed fetches

ASSUME EntityParameters ==
  IsFiniteSet(Entity) /\ NoEntity \notin Entity /\ MaxEntityOps \in Nat

VARIABLES
  live,              \* api-bff-service: the entities whose hash has not expired
  liveState,         \* api-bff-service: the state of each of them
  routeEntityId,     \* the entity of the address, NoEntity, or a region of the map
  going,             \* the entity a navigation under way leads to, or NoEntity
  selectedEntityId,  \* state of the page
  entities,          \* cache entry of the list
  snapshots,         \* cache entries of the entities
  chosen,            \* history: what the operator, the history or a link asked for last
  entityOps          \* operations so far

entityVars ==
  <<live, liveState, routeEntityId, going, selectedEntityId, entities, snapshots, chosen,
    entityOps>>

--------------------------------------------------------------------------------
(* api-bff-service and the addresses. *)

\* The telemetry of an entity, as far as it stays the same or not.
LiveStates == {"healthy", "degraded"}

\* GET /entities: the entities in any order, the one updated last is the first.
EntityLists(E) == SetToSeqs(E)

\* The map of the national dashboard leads to the number of a region, which is
\* the name of no entity.
Addresses == Entity \cup {NoEntity, "region"}

--------------------------------------------------------------------------------
(* The page. *)

Known == IF entities.data = NoData THEN << >> ELSE entities.data

EntityBody ==
  CASE Loading(entities) -> "loading"
    [] entities.error    -> "unavailable"
    [] Known = << >>     -> "no entity"
    [] OTHER             -> "page"

\* Mutant: a selection that left the list is kept.
NextSelectedMutant ==
  IF Known = << >> THEN selectedEntityId
  ELSE IF routeEntityId \in ToSet(Known) THEN routeEntityId
  ELSE IF selectedEntityId # NoEntity THEN selectedEntityId
  ELSE Known[1]

\* What the effect of a render selects.
NextSelected ==
  IF Known = << >> THEN selectedEntityId
  ELSE IF routeEntityId \in ToSet(Known) THEN routeEntityId
  ELSE IF selectedEntityId \in ToSet(Known) THEN selectedEntityId
  ELSE Known[1]

Selected == NextSelected = selectedEntityId

NoSnapshot == [data |-> NoData, fetch |-> "idle", answer |-> NoData, error |-> FALSE]

Snapshot(e) == snapshots[e]

\* The panels: the entity's own state, or else its row of the list.
ShownState ==
  IF EntityBody # "page" \/ selectedEntityId = NoEntity THEN "nothing"
  ELSE IF Snapshot(selectedEntityId).data # NoData THEN Snapshot(selectedEntityId).data
  ELSE "row"

EntityOp == entityOps < MaxEntityOps /\ entityOps' = entityOps + 1

--------------------------------------------------------------------------------
EntityInit ==
  /\ live \in SUBSET Entity
  /\ liveState = [e \in Entity |-> "healthy"]
  /\ routeEntityId \in Addresses /\ going = NoEntity /\ selectedEntityId = NoEntity
  /\ entities = MountedEntry /\ snapshots = [e \in Entity |-> NoSnapshot]
  /\ chosen = IF routeEntityId \in Entity THEN routeEntityId ELSE NoEntity
  /\ entityOps = 0

\* An entity is updated, or expires for want of updates, or is heard of again.
EntityChanges ==
  /\ EntityOp
  /\ \E e \in Entity :
       \/ /\ live' = IF e \in live THEN live \ {e} ELSE live \cup {e}
          /\ UNCHANGED liveState
       \/ /\ e \in live /\ UNCHANGED live
          /\ \E s \in LiveStates \ {liveState[e]} : liveState' = [liveState EXCEPT ![e] = s]
  /\ UNCHANGED <<routeEntityId, going, selectedEntityId, entities, snapshots, chosen>>

EntitiesFetch(e) ==
  /\ entities' = e
  /\ UNCHANGED <<live, liveState, routeEntityId, going, selectedEntityId, snapshots, chosen>>

\* Every 3 seconds.
EntitiesPoll ==
  ~Fetching(entities) /\ EntitiesFetch(Asked(entities)) /\ UNCHANGED entityOps

EntitiesAnswered ==
  /\ Waiting(entities)
  /\ \E l \in EntityLists(live) : EntitiesFetch(Answered(entities, l))
  /\ UNCHANGED entityOps

EntitiesLand == Landing(entities) /\ EntitiesFetch(Landed(entities)) /\ UNCHANGED entityOps

EntitiesFail == Fetching(entities) /\ EntityOp /\ EntitiesFetch(Failed(entities))

SnapshotFetch(e, entry) ==
  /\ snapshots' = [snapshots EXCEPT ![e] = entry]
  /\ UNCHANGED <<live, liveState, routeEntityId, going, selectedEntityId, entities, chosen>>

\* Every 3 seconds, for the selected entity only.
SnapshotPoll ==
  /\ selectedEntityId # NoEntity /\ ~Fetching(Snapshot(selectedEntityId))
  /\ SnapshotFetch(selectedEntityId, Asked(Snapshot(selectedEntityId)))
  /\ UNCHANGED entityOps

\* An answer lands at once: nobody else looks at the entry.  404 for an entity that
\* has expired; and any fetch may fail.
SnapshotLands(e) ==
  /\ Fetching(Snapshot(e))
  /\ \/ /\ e \in live /\ UNCHANGED entityOps
        /\ SnapshotFetch(e, Landed(Answered(Snapshot(e), liveState[e])))
     \/ e \notin live /\ SnapshotFetch(e, Failed(Snapshot(e))) /\ UNCHANGED entityOps

SnapshotFails(e) ==
  Fetching(Snapshot(e)) /\ EntityOp /\ SnapshotFetch(e, Failed(Snapshot(e)))

\* The effect of a render after which the selection is not what it should be.
SelectionFollows ==
  /\ ~Selected /\ selectedEntityId' = NextSelected
  /\ UNCHANGED <<live, liveState, routeEntityId, going, entities, snapshots, chosen, entityOps>>

\* Mutant: a row of the list is selected, and the address left as it is.
PickEntityMutant ==
  /\ EntityBody = "page" /\ EntityOp
  /\ \E e \in ToSet(Known) : selectedEntityId' = e /\ chosen' = e
  /\ UNCHANGED <<live, liveState, routeEntityId, going, entities, snapshots>>

\* A row of the list, or an option of the header.  A navigation under way gives way.
PickEntity ==
  /\ EntityBody = "page" /\ EntityOp
  /\ \E e \in ToSet(Known) : selectedEntityId' = e /\ going' = e /\ chosen' = e
  /\ UNCHANGED <<live, liveState, routeEntityId, entities, snapshots>>

\* The navigation of a pick lands; renders and effects may have come before.
AddressLands ==
  /\ going # NoEntity
  /\ routeEntityId' = going /\ going' = NoEntity
  /\ UNCHANGED <<live, liveState, selectedEntityId, entities, snapshots, chosen, entityOps>>

\* The menu and the history: the page stays, its address changes.
AddressChanges ==
  /\ EntityOp
  /\ routeEntityId' \in Addresses \ {routeEntityId} /\ going' = NoEntity
  /\ chosen' = IF routeEntityId' \in Entity THEN routeEntityId' ELSE NoEntity
  /\ UNCHANGED <<live, liveState, selectedEntityId, entities, snapshots>>

EntityNext ==
  \/ EntityChanges
  \/ EntitiesPoll \/ EntitiesAnswered \/ EntitiesLand \/ EntitiesFail
  \/ SnapshotPoll
  \/ \E e \in Entity : SnapshotLands(e) \/ SnapshotFails(e)
  \/ SelectionFollows \/ PickEntity \/ AddressLands \/ AddressChanges

EntityFairness ==
  /\ WF_entityVars(EntitiesPoll) /\ WF_entityVars(EntitiesAnswered)
  /\ WF_entityVars(EntitiesLand) /\ WF_entityVars(SnapshotPoll)
  /\ \A e \in Entity : WF_entityVars(SnapshotLands(e))
  /\ WF_entityVars(SelectionFollows) /\ WF_entityVars(AddressLands)

EntitySpec == EntityInit /\ [][EntityNext]_entityVars /\ EntityFairness

--------------------------------------------------------------------------------
(* Properties. *)

EntityTypeOK ==
  /\ live \subseteq Entity /\ liveState \in [Entity -> LiveStates]
  /\ routeEntityId \in Addresses /\ {going, selectedEntityId, chosen} \subseteq Entity \cup {NoEntity}
  /\ entities \in Entries(Seq(Entity))
  /\ snapshots \in [Entity -> Entries(LiveStates)]
  /\ entityOps \in 0..MaxEntityOps

\* Whatever the list did meanwhile, the page at rest is about the entity that was
\* asked for last, as long as that entity is listed: an entity that leaves the list
\* and comes back is shown again, and no other takes its place.
ChoiceIsShown ==
  (chosen \in ToSet(Known) /\ going = NoEntity /\ Selected) => selectedEntityId = chosen

\* Once the operator and the network rest, the page of a live address shows that
\* entity in its present state, and no page stays with an entity that is gone, its
\* last state shown as if it were the present one.
EntityAtRest ==
  /\ routeEntityId \in live /\ going = NoEntity =>
       selectedEntityId = routeEntityId /\ ShownState = liveState[routeEntityId]
  /\ ShownState # "nothing" => selectedEntityId \in live

EntityComesToRest == <>[]EntityAtRest

================================================================================
