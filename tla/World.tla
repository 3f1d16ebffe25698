-------------------------------- MODULE World --------------------------------
(***************************************************************************)
(* The entity/component/resource store of a game (game/world.rs) and the   *)
(* save slots that hold snapshots of its persistent part.                  *)
(*                                                                         *)
(* The operations are called by GameRuntime's host and systems and by the  *)
(* v2 runner's scripts; the modules that model those say when.  Calls that *)
(* return an error before they change anything (an unknown entity, an      *)
(* unknown schema name, an empty slot) are not enabled here.               *)
(***************************************************************************)
EXTENDS Integers

CONSTANTS
    Component,    \* component names
    Resource,     \* resource names
    Persistent,   \* the names of either kind declared persistent
    Value,
    Slot,
    MaxEntity     \* largest id; `next_entity` saturates at it (u64::MAX)

ASSUME PersistentAssumption == Persistent \subseteq Component \cup Resource
ASSUME MaxEntityAssumption  == MaxEntity \in Nat \ {0}

VARIABLES
    nextEntity,
    entities,     \* ids of the entities that exist
    store,        \* registered component -> (entity -> value)
    resources,    \* registered resource -> value
    saves,        \* slot that was stored to -> snapshot
    born,         \* history: the ids spawn() has returned
    reissued      \* history: those it has returned more than once

worldVars == <<nextEntity, entities, store, resources, saves, born, reissued>>
history   == <<born, reissued>>

EntityId == 1..MaxEntity

\* f maps keys in S to values in T.
IsMap(f, S, T) == DOMAIN f \subseteq S /\ f \in [DOMAIN f -> T]

\* Map f with key k set to v, without key k, and with the keys in K only.
Put(f, k, v)  == [x \in DOMAIN f \cup {k} |-> IF x = k THEN v ELSE f[x]]
Drop(f, k)    == [x \in DOMAIN f \ {k} |-> f[x]]
Only(f, K)    == [x \in DOMAIN f \cap K |-> f[x]]
EmptyMap      == [x \in {} |-> x]

IsStore(f, names) ==
    /\ DOMAIN f \subseteq names
    /\ \A c \in DOMAIN f : IsMap(f[c], EntityId, Value)

\* WorldSnapshot, as it is stored: of the persistent part.
IsSnapshot(s) ==
    /\ s.nextEntity \in EntityId
    /\ s.entities \subseteq EntityId
    /\ IsStore(s.store, Component \cap Persistent)
    /\ IsMap(s.resources, Resource \cap Persistent, Value)

WorldInit ==
    /\ nextEntity = 1
    /\ entities = {}
    /\ store = EmptyMap
    /\ resources = EmptyMap
    /\ saves = EmptyMap
    /\ born = {} /\ reissued = {}

----------------------------------------------------------------------------

\* Registering a known component keeps its values.
RegisterComponent(c) ==
    /\ store' = IF c \in DOMAIN store THEN store ELSE Put(store, c, EmptyMap)
    /\ UNCHANGED <<nextEntity, entities, resources, saves, history>>

\* Registering a known resource overwrites its value.
RegisterResource(r, v) ==
    /\ resources' = Put(resources, r, v)
    /\ UNCHANGED <<nextEntity, entities, store, saves, history>>

\* The guard bounds the model: at MaxEntity the saturated counter would hand
\* out the same id again.
Spawn ==
    /\ nextEntity < MaxEntity
    /\ nextEntity' = nextEntity + 1
    /\ entities' = entities \cup {nextEntity}
    /\ born' = born \cup {nextEntity}
    /\ reissued' = reissued \cup (born \cap {nextEntity})
    /\ UNCHANGED <<store, resources, saves>>

\* Removes the entity and leaves its components.
Despawn__KeepsComponents(e) ==
    /\ e \in entities
    /\ entities' = entities \ {e}
    /\ UNCHANGED <<nextEntity, store, resources, saves, history>>

Despawn(e) ==
    /\ e \in entities
    /\ entities' = entities \ {e}
    /\ store' = [c \in DOMAIN store |-> Drop(store[c], e)]
    /\ UNCHANGED <<nextEntity, resources, saves, history>>

SetComponent(e, c, v) ==
    /\ e \in entities
    /\ c \in DOMAIN store
    /\ store' = [store EXCEPT ![c] = Put(@, e, v)]
    /\ UNCHANGED <<nextEntity, entities, resources, saves, history>>

RemoveComponent(e, c) ==
    /\ c \in DOMAIN store
    /\ e \in DOMAIN store[c]
    /\ store' = [store EXCEPT ![c] = Drop(@, e)]
    /\ UNCHANGED <<nextEntity, entities, resources, saves, history>>

SetResource(r, v) ==
    /\ r \in DOMAIN resources
    /\ resources' = [resources EXCEPT ![r] = v]
    /\ UNCHANGED <<nextEntity, entities, store, saves, history>>

\* Keeps the transient names too.
PersistentSnapshot__Whole ==
    [nextEntity |-> nextEntity, entities |-> entities,
     store |-> store, resources |-> resources]

\* Forgets the counter.
PersistentSnapshot__NoCounter ==
    [nextEntity |-> 1, entities |-> entities,
     store      |-> Only(store, Persistent),
     resources  |-> Only(resources, Persistent)]

\* World::persistent_snapshot.
PersistentSnapshot ==
    [nextEntity |-> nextEntity, entities |-> entities,
     store      |-> Only(store, Persistent),
     resources  |-> Only(resources, Persistent)]

Save(slot) ==
    /\ saves' = Put(saves, slot, PersistentSnapshot)
    /\ UNCHANGED <<nextEntity, entities, store, resources, history>>

\* The persistent names registered now; a snapshot with another is refused.
Compatible(s) ==
    /\ DOMAIN s.store \subseteq DOMAIN store \cap Persistent
    /\ DOMAIN s.resources \subseteq DOMAIN resources \cap Persistent

\* Keeps the current values of a component the snapshot does not know.
RestorePersistent__KeepsUnsaved(s) ==
    /\ Compatible(s)
    /\ nextEntity' = s.nextEntity
    /\ entities' = s.entities
    /\ store' = [c \in DOMAIN store |->
                    IF c \in DOMAIN s.store THEN s.store[c] ELSE store[c]]
    /\ resources' = [r \in DOMAIN resources |->
                        IF r \in DOMAIN s.resources THEN s.resources[r]
                                                    ELSE resources[r]]
    /\ UNCHANGED <<saves, history>>

\* World::restore_persistent: the counter and the entities of the snapshot, the
\* persistent stores of the snapshot (empty where it has none), the persistent
\* resources it has; transient stores and resources stay as they are.
RestorePersistent(s) ==
    /\ Compatible(s)
    /\ nextEntity' = s.nextEntity
    /\ entities' = s.entities
    /\ store' = [c \in DOMAIN store |->
                    IF c \notin Persistent THEN store[c]
                    ELSE IF c \in DOMAIN s.store THEN s.store[c] ELSE EmptyMap]
    /\ resources' = [r \in DOMAIN resources |->
                        IF r \in DOMAIN s.resources THEN s.resources[r]
                                                    ELSE resources[r]]
    /\ UNCHANGED <<saves, history>>

Load(slot) == slot \in DOMAIN saves /\ RestorePersistent(saves[slot])

----------------------------------------------------------------------------

WorldOp ==
    \/ \E c \in Component : RegisterComponent(c)
    \/ \E r \in Resource, v \in Value : RegisterResource(r, v) \/ SetResource(r, v)
    \/ Spawn
    \/ \E e \in EntityId : Despawn(e)
    \/ \E e \in EntityId, c \in Component, v \in Value : SetComponent(e, c, v)
    \/ \E e \in EntityId, c \in Component : RemoveComponent(e, c)

SlotOp == \E slot \in Slot : Save(slot) \/ Load(slot)

WorldSpec == WorldInit /\ [][WorldOp \/ SlotOp]_worldVars

----------------------------------------------------------------------------

WorldTypeOK ==
    /\ nextEntity \in EntityId
    /\ entities \subseteq EntityId
    /\ IsStore(store, Component)
    /\ IsMap(resources, Resource, Value)
    /\ DOMAIN saves \subseteq Slot /\ \A slot \in DOMAIN saves : IsSnapshot(saves[slot])
    /\ born \subseteq EntityId /\ reissued \subseteq born

\* A persistent component never outlives its entity, in the world or in a
\* slot: whatever was spawned, removed, registered late, saved and loaded in
\* whatever order, its store has values for existing entities only.
PersistentOwned ==
    /\ \A c \in DOMAIN store \cap Persistent : DOMAIN store[c] \subseteq entities
    /\ \A slot \in DOMAIN saves : \A c \in DOMAIN saves[slot].store :
          DOMAIN saves[slot].store[c] \subseteq saves[slot].entities

\* The counter is ahead of every entity there is, or that a slot would bring
\* back: spawn() never returns the id of an existing entity.
CounterAhead ==
    /\ \A e \in entities : e < nextEntity
    /\ \A slot \in DOMAIN saves : \A e \in saves[slot].entities :
          e < saves[slot].nextEntity

\* A slot can always be loaded: a snapshot the world took is compatible with
\* it for ever, whatever is registered later.
SavesCompatible == \A slot \in DOMAIN saves : Compatible(saves[slot])

\* spawn() never returns an id twice: entity ids only grow, and the id of a
\* removed entity is not used again (SPEC/gameplay.md, "World").
IdsNeverReused == reissued = {}

=============================================================================
