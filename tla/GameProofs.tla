------------------------------- MODULE GameProofs -------------------------------
(***************************************************************************)
(* Proofs about World: for any schema, any number of entities and slots    *)
(* and any order of operations, the world and every save slot stay         *)
(* consistent.  And about Game: that a game does to its world only what    *)
(* World says, and what the order and the completeness of a game's events  *)
(* rest on, for any systems, any budget of events and any world.           *)
(***************************************************************************)
EXTENDS Game, Numbers, SequenceTheorems, FiniteSetTheorems

USE PersistentAssumption, MaxEntityAssumption

WorldNext == WorldOp \/ SlotOp

(***************************************************************************)
(* The operators on maps.                                                  *)
(***************************************************************************)

LEMMA EmptyIsMap ==
    ASSUME NEW S, NEW T
    PROVE  IsMap(EmptyMap, S, T) /\ DOMAIN EmptyMap = {}
BY DEF EmptyMap, IsMap

LEMMA PutIsMap ==
    ASSUME NEW S, NEW T, NEW f, IsMap(f, S, T), NEW k \in S, NEW v \in T
    PROVE  /\ IsMap(Put(f, k, v), S, T)
           /\ DOMAIN Put(f, k, v) = DOMAIN f \cup {k}
BY DEF Put, IsMap

LEMMA DropIsMap ==
    ASSUME NEW S, NEW T, NEW f, IsMap(f, S, T), NEW k
    PROVE  /\ IsMap(Drop(f, k), S, T)
           /\ DOMAIN Drop(f, k) = DOMAIN f \ {k}
BY DEF Drop, IsMap

LEMMA OnlyIsMap ==
    ASSUME NEW S, NEW T, NEW f, IsMap(f, S, T), NEW K
    PROVE  /\ IsMap(Only(f, K), S \cap K, T)
           /\ DOMAIN Only(f, K) = DOMAIN f \cap K
BY DEF Only, IsMap

(***************************************************************************)
(* Type correctness.                                                       *)
(***************************************************************************)

\* What a slot holds is a snapshot of the persistent part of the world.
LEMMA SnapshotType ==
    ASSUME WorldTypeOK
    PROVE  IsSnapshot(PersistentSnapshot)
<1>1. IsStore(Only(store, Persistent), Component \cap Persistent)
    BY DEF WorldTypeOK, IsStore, Only
<1>2. IsMap(Only(resources, Persistent), Resource \cap Persistent, Value)
    BY OnlyIsMap DEF WorldTypeOK
<1> QED BY <1>1, <1>2 DEF PersistentSnapshot, IsSnapshot, WorldTypeOK

LEMMA TypeInit == WorldInit => WorldTypeOK
<1> SUFFICES ASSUME WorldInit PROVE WorldTypeOK
    OBVIOUS
<1>1. IsMap(EmptyMap, Resource, Value) /\ DOMAIN EmptyMap = {}
    BY EmptyIsMap
<1>2. 1 \in EntityId
    BY DEF EntityId
<1> QED BY <1>1, <1>2 DEF WorldInit, WorldTypeOK, IsStore

LEMMA TypeStep == WorldTypeOK /\ [WorldNext]_worldVars => WorldTypeOK'
<1> SUFFICES ASSUME WorldTypeOK, [WorldNext]_worldVars
             PROVE  WorldTypeOK'
    OBVIOUS
<1>1. ASSUME NEW c \in Component, RegisterComponent(c) PROVE WorldTypeOK'
  <2>1. IsStore(Put(store, c, EmptyMap), Component)
      BY EmptyIsMap DEF WorldTypeOK, IsStore, Put
  <2>2. IsStore(store', Component)
      BY <1>1, <2>1 DEF RegisterComponent, WorldTypeOK
  <2> QED BY <1>1, <2>2 DEF RegisterComponent, WorldTypeOK, history, IsSnapshot
<1>2. ASSUME NEW r \in Resource, NEW v \in Value, RegisterResource(r, v)
      PROVE  WorldTypeOK'
    BY <1>2, PutIsMap DEF RegisterResource, WorldTypeOK, history
<1>3. ASSUME NEW r \in Resource, NEW v \in Value, SetResource(r, v)
      PROVE  WorldTypeOK'
  <2>1. IsMap(resources', Resource, Value)
      BY <1>3 DEF SetResource, WorldTypeOK, IsMap
  <2> QED BY <1>3, <2>1 DEF SetResource, WorldTypeOK, history
<1>4. ASSUME Spawn PROVE WorldTypeOK'
    BY <1>4 DEF Spawn, WorldTypeOK, EntityId
<1>5. ASSUME NEW e \in EntityId, Despawn(e) PROVE WorldTypeOK'
  <2>1. \A c \in DOMAIN store : IsMap(Drop(store[c], e), EntityId, Value)
      BY DropIsMap DEF WorldTypeOK, IsStore
  <2>2. IsStore(store', Component)
      BY <1>5, <2>1 DEF Despawn, WorldTypeOK, IsStore
  <2> QED BY <1>5, <2>2 DEF Despawn, WorldTypeOK, history
<1>6. ASSUME NEW e \in EntityId, NEW c \in Component, NEW v \in Value,
             SetComponent(e, c, v)
      PROVE  WorldTypeOK'
  <2>1. IsMap(Put(store[c], e, v), EntityId, Value)
      BY <1>6, PutIsMap DEF SetComponent, WorldTypeOK, IsStore
  <2>2. IsStore(store', Component)
      BY <1>6, <2>1 DEF SetComponent, WorldTypeOK, IsStore
  <2> QED BY <1>6, <2>2 DEF SetComponent, WorldTypeOK, history
<1>7. ASSUME NEW e \in EntityId, NEW c \in Component, RemoveComponent(e, c)
      PROVE  WorldTypeOK'
  <2>1. IsMap(Drop(store[c], e), EntityId, Value)
      BY <1>7, DropIsMap DEF RemoveComponent, WorldTypeOK, IsStore
  <2>2. IsStore(store', Component)
      BY <1>7, <2>1 DEF RemoveComponent, WorldTypeOK, IsStore
  <2> QED BY <1>7, <2>2 DEF RemoveComponent, WorldTypeOK, history
<1>8. ASSUME NEW slot \in Slot, Save(slot) PROVE WorldTypeOK'
    BY <1>8, SnapshotType DEF Save, Put, WorldTypeOK, history
<1>9. ASSUME NEW slot \in Slot, Load(slot) PROVE WorldTypeOK'
  <2> DEFINE s == saves[slot]
  <2>1. IsSnapshot(s)
      BY <1>9 DEF Load, WorldTypeOK
  <2>2. IsMap(EmptyMap, EntityId, Value)
      BY EmptyIsMap
  <2>3. IsStore(store', Component)
      BY <1>9, <2>1, <2>2 DEF Load, RestorePersistent, WorldTypeOK, IsStore, IsSnapshot
  <2>4. IsMap(resources', Resource, Value)
      BY <1>9, <2>1 DEF Load, RestorePersistent, WorldTypeOK, IsMap, IsSnapshot
  <2>5. nextEntity' \in EntityId /\ entities' \subseteq EntityId
      BY <1>9, <2>1 DEF Load, RestorePersistent, IsSnapshot
  <2> QED BY <1>9, <2>3, <2>4, <2>5 DEF Load, RestorePersistent, WorldTypeOK, history
<1>10. ASSUME UNCHANGED worldVars PROVE WorldTypeOK'
    BY <1>10 DEF worldVars, WorldTypeOK
<1> QED BY <1>1, <1>2, <1>3, <1>4, <1>5, <1>6, <1>7, <1>8, <1>9, <1>10
       DEF WorldNext, WorldOp, SlotOp

\* Every variable keeps its type: in particular the slots hold persistent
\* names only.
THEOREM WorldTypeCorrect == WorldSpec => []WorldTypeOK
BY TypeInit, TypeStep, PTL DEF WorldSpec, WorldNext

(***************************************************************************)
(* Slots stay loadable: registered names are never forgotten, so the names *)
(* of a snapshot are registered for ever.                                  *)
(***************************************************************************)

LEMMA SchemaGrows ==
    ASSUME [WorldNext]_worldVars
    PROVE  DOMAIN store \subseteq DOMAIN store' /\ DOMAIN resources \subseteq DOMAIN resources'
<1>1. ASSUME NEW c \in Component, RegisterComponent(c)
      PROVE  DOMAIN store \subseteq DOMAIN store' /\ resources' = resources
    BY <1>1 DEF RegisterComponent, Put
<1>2. ASSUME NEW r \in Resource, NEW v \in Value,
             RegisterResource(r, v) \/ SetResource(r, v)
      PROVE  store' = store /\ DOMAIN resources \subseteq DOMAIN resources'
    BY <1>2 DEF RegisterResource, SetResource, Put
<1>3. ASSUME NEW e \in EntityId, NEW c \in Component, NEW v \in Value,
             SetComponent(e, c, v)
      PROVE  DOMAIN store' = DOMAIN store /\ resources' = resources
    BY <1>3 DEF SetComponent
<1>4. ASSUME NEW e \in EntityId, NEW c \in Component, RemoveComponent(e, c)
      PROVE  DOMAIN store' = DOMAIN store /\ resources' = resources
    BY <1>4 DEF RemoveComponent
<1>5. ASSUME NEW slot \in Slot, Save(slot) \/ Load(slot)
      PROVE  DOMAIN store' = DOMAIN store /\ DOMAIN resources' = DOMAIN resources
    BY <1>5 DEF Save, Load, RestorePersistent
<1>6. ASSUME Spawn PROVE store' = store /\ resources' = resources
    BY <1>6 DEF Spawn
<1>7. ASSUME NEW e \in EntityId, Despawn(e)
      PROVE  DOMAIN store' = DOMAIN store /\ resources' = resources
    BY <1>7 DEF Despawn
<1>8. CASE UNCHANGED worldVars
    BY <1>8 DEF worldVars
<1> QED BY <1>1, <1>2, <1>3, <1>4, <1>5, <1>6, <1>7, <1>8
       DEF WorldNext, WorldOp, SlotOp

LEMMA CompatibleStep ==
    SavesCompatible /\ [WorldNext]_worldVars => SavesCompatible'
<1> SUFFICES ASSUME SavesCompatible, [WorldNext]_worldVars PROVE SavesCompatible'
    OBVIOUS
<1>1. CASE saves' = saves
    BY <1>1, SchemaGrows DEF SavesCompatible, Compatible
<1>2. ASSUME NEW slot \in Slot, Save(slot) PROVE SavesCompatible'
  <2>1. Compatible(PersistentSnapshot)
      BY DEF Compatible, PersistentSnapshot, Only
  <2>2. \A x \in DOMAIN saves' : Compatible(saves'[x])
      BY <1>2, <2>1 DEF Save, Put, SavesCompatible
  <2> QED BY <1>2, <2>2 DEF Save, SavesCompatible, Compatible
<1>3. CASE saves' # saves
  <2>1. \E slot \in Slot : Save(slot)
      BY <1>3 DEF WorldNext, WorldOp, SlotOp, worldVars, RegisterComponent,
                  RegisterResource, SetResource, Spawn, Despawn, SetComponent,
                  RemoveComponent, Load, RestorePersistent
  <2> QED BY <1>2, <2>1
<1> QED BY <1>1, <1>3

\* A slot that was stored to can be loaded, whatever was registered since.
THEOREM SlotsLoadable == WorldSpec => []SavesCompatible
<1>1. WorldInit => SavesCompatible
    BY EmptyIsMap DEF WorldInit, SavesCompatible, EmptyMap
<1> QED BY <1>1, CompatibleStep, PTL DEF WorldSpec, WorldNext

(***************************************************************************)
(* The counter is ahead of the entities.                                   *)
(***************************************************************************)

LEMMA CounterStep ==
    WorldTypeOK /\ CounterAhead /\ [WorldNext]_worldVars => CounterAhead'
<1> SUFFICES ASSUME WorldTypeOK, CounterAhead, [WorldNext]_worldVars
             PROVE  CounterAhead'
    OBVIOUS
<1>1. nextEntity \in Nat /\ \A e \in entities : e \in Nat
    BY DEF WorldTypeOK, EntityId
<1>2. CASE UNCHANGED <<nextEntity, entities, saves>>
    BY <1>2 DEF CounterAhead
<1>3. ASSUME Spawn PROVE CounterAhead'
    BY <1>1, <1>3 DEF Spawn, CounterAhead
<1>4. ASSUME NEW e \in EntityId, Despawn(e) PROVE CounterAhead'
    BY <1>4 DEF Despawn, CounterAhead
<1>5. ASSUME NEW slot \in Slot, Save(slot) PROVE CounterAhead'
    BY <1>5 DEF Save, Put, PersistentSnapshot, CounterAhead, history
<1>6. ASSUME NEW slot \in Slot, Load(slot) PROVE CounterAhead'
    BY <1>6 DEF Load, RestorePersistent, CounterAhead
<1>7. \/ UNCHANGED <<nextEntity, entities, saves>>
      \/ Spawn
      \/ \E e \in EntityId : Despawn(e)
      \/ \E slot \in Slot : Save(slot) \/ Load(slot)
    BY DEF WorldNext, WorldOp, SlotOp, worldVars, RegisterComponent,
           RegisterResource, SetResource, SetComponent, RemoveComponent
<1> QED BY <1>2, <1>3, <1>4, <1>5, <1>6, <1>7

\* spawn() never returns the id of an entity that exists, before or after any
\* number of loads.
THEOREM CounterStaysAhead == WorldSpec => []CounterAhead
<1>1. WorldInit => CounterAhead
    BY DEF WorldInit, CounterAhead, EmptyMap
<1> QED BY <1>1, TypeInit, TypeStep, CounterStep, PTL DEF WorldSpec, WorldNext

(***************************************************************************)
(* Persistent components belong to entities.                               *)
(***************************************************************************)

LEMMA OwnedStep ==
    WorldTypeOK /\ PersistentOwned /\ [WorldNext]_worldVars => PersistentOwned'
<1> SUFFICES ASSUME WorldTypeOK, PersistentOwned, [WorldNext]_worldVars
             PROVE  PersistentOwned'
    OBVIOUS
<1>1. CASE UNCHANGED <<entities, store, saves>>
    BY <1>1 DEF PersistentOwned
<1>2. ASSUME NEW c \in Component, RegisterComponent(c) PROVE PersistentOwned'
    BY <1>2 DEF RegisterComponent, Put, EmptyMap, PersistentOwned
<1>3. ASSUME Spawn PROVE PersistentOwned'
    BY <1>3 DEF Spawn, PersistentOwned
<1>4. ASSUME NEW e \in EntityId, Despawn(e) PROVE PersistentOwned'
    BY <1>4 DEF Despawn, Drop, PersistentOwned
<1>5. ASSUME NEW e \in EntityId, NEW c \in Component, NEW v \in Value,
             SetComponent(e, c, v)
      PROVE  PersistentOwned'
    BY <1>5 DEF SetComponent, Put, PersistentOwned
<1>6. ASSUME NEW e \in EntityId, NEW c \in Component, RemoveComponent(e, c)
      PROVE  PersistentOwned'
    BY <1>6 DEF RemoveComponent, Drop, PersistentOwned
<1>7. ASSUME NEW slot \in Slot, Save(slot) PROVE PersistentOwned'
    BY <1>7 DEF Save, Put, PersistentSnapshot, Only, PersistentOwned
<1>8. ASSUME NEW slot \in Slot, Load(slot) PROVE PersistentOwned'
    BY <1>8 DEF Load, RestorePersistent, EmptyMap, PersistentOwned
<1>9. ASSUME NEW r \in Resource, NEW v \in Value,
             RegisterResource(r, v) \/ SetResource(r, v)
      PROVE  UNCHANGED <<entities, store, saves>>
    BY <1>9 DEF RegisterResource, SetResource
<1>10. CASE UNCHANGED worldVars
    BY <1>1, <1>10 DEF worldVars
<1> QED BY <1>1, <1>2, <1>3, <1>4, <1>5, <1>6, <1>7, <1>8, <1>9, <1>10
       DEF WorldNext, WorldOp, SlotOp

\* A persistent component value always belongs to an existing entity, in the
\* world and in every slot.
THEOREM ComponentsOwned == WorldSpec => []PersistentOwned
<1>1. WorldInit => PersistentOwned
    BY DEF WorldInit, PersistentOwned, EmptyMap
<1> QED BY <1>1, TypeInit, TypeStep, OwnedStep, PTL DEF WorldSpec, WorldNext

(***************************************************************************)
(* The world of a game.                                                    *)
(***************************************************************************)

\* Systems, hosts and ports touch the world by its operations only: whatever
\* holds of every world holds of the world of a game.
THEOREM GameWorld == GameSpec => WorldSpec
<1>1. GameInit => WorldInit
  BY DEF GameInit
<1>2. [GameNext]_allVars => [WorldNext]_worldVars
  BY DEF GameNext, HostStep, TickStep, RegisterSystem, PushInput, HostEmit, HostWorld,
         BeginTick, PopEvent, ExceedLimit, Fail, HandlerWorld, HandlerEmit,
         HandlerReturn, HandlerFail, EndEvent, EndTick, allVars, WorldNext
<1>3. QED BY <1>1, <1>2, PTL DEF GameSpec, WorldSpec, WorldNext

\* In every moment of every tick the world is well typed, its persistent
\* components belong to entities, its counter is ahead of them, and every slot can
\* be loaded.
THEOREM GameWorldSafe ==
    GameSpec => [](WorldTypeOK /\ PersistentOwned /\ CounterAhead /\ SavesCompatible)
BY GameWorld, WorldTypeCorrect, ComponentsOwned, CounterStaysAhead, SlotsLoadable, PTL

(***************************************************************************)
(* The queue.                                                              *)
(***************************************************************************)

QueuedEvent == [sequence : Nat, tick : Nat, name : {"custom", "input", "game.tick"}]

\* How many events have left the queue.
Popped == nextSequence - Len(queue)

\* The queue holds the last events emitted, numbered without a gap.
QueueOK ==
    /\ nextSequence \in Nat /\ tick \in Nat
    /\ queue \in Seq(QueuedEvent) /\ input \in Seq(Nat)
    /\ Popped >= 0
    /\ \A i \in 1..Len(queue) : queue[i].sequence = Popped + i - 1

\* The others are in hand, handled or dropped, each in one of these places.
PlacesOK ==
    /\ event # NoEvent => event.sequence \in Nat /\ inTick
    /\ 0..(Popped - 1) = Handling \cup handled \cup dropped
    /\ Handling \cap (handled \cup dropped) = {}
    /\ handled \cap dropped = {}

\* How many events this tick, or the last, has in hand or handled.
Taken == Len(lastEvents) + (IF event = NoEvent THEN 0 ELSE 1)

BudgetOK ==
    /\ Len(lastEvents) \in Nat /\ processed \in Nat
    /\ Taken <= MaxEventsPerTick
    /\ inTick => Taken <= processed

GameInv == QueueOK /\ PlacesOK /\ BudgetOK

\* The steps that touch nothing of it.
LEMMA GameUnchanged ==
    ASSUME GameInv, UNCHANGED <<eventVars, tickVars, logVars>>, input' \in Seq(Nat)
    PROVE  GameInv'
BY DEF GameInv, QueueOK, PlacesOK, BudgetOK, Popped, Handling, Taken, eventVars,
       tickVars, logVars

\* What is emitted joins the end of the queue and takes the next numbers.
LEMMA EmitKeepsQueue ==
    ASSUME QueueOK,
           NEW names \in Seq({"custom", "input", "game.tick"}), EmitAll(names)
    PROVE  /\ nextSequence' \in Nat /\ queue' \in Seq(QueuedEvent)
           /\ Popped' = Popped
           /\ \A i \in 1..Len(queue') : queue'[i].sequence = Popped' + i - 1
<1> DEFINE new == Emitted(names)
           k   == Len(names)
           n   == Len(queue)
<1>1. /\ k \in Nat /\ n \in Nat /\ nextSequence \in Nat /\ tick \in Nat
      /\ queue \in Seq(QueuedEvent)
      /\ Popped = nextSequence - n /\ Popped >= 0
      /\ queue' = queue \o new /\ nextSequence' = nextSequence + k
  BY DEF QueueOK, Popped, EmitAll
<1>2. /\ new \in Seq(QueuedEvent) /\ Len(new) = k
      /\ \A i \in 1..k : new[i].sequence = nextSequence + i - 1
  <2>1. new = [i \in 1..k |-> [sequence |-> nextSequence + i - 1, tick |-> tick,
                                name |-> names[i]]]
    BY DEF Emitted
  <2>2. ASSUME NEW i \in 1..k
        PROVE  [sequence |-> nextSequence + i - 1, tick |-> tick, name |-> names[i]]
                  \in QueuedEvent
    <3>1. names[i] \in {"custom", "input", "game.tick"}
      BY ElementOfSeq
    <3>2. nextSequence + i - 1 \in Nat
      BY <1>1
    <3>3. QED BY <1>1, <3>1, <3>2 DEF QueuedEvent
  <2>3. new \in [1..k -> QueuedEvent]
    BY <2>1, <2>2
  <2>4. k \in Nat
    BY <1>1
  <2> HIDE DEF new, k
  <2>5. new \in Seq(QueuedEvent) /\ Len(new) = k
    BY <2>3, <2>4
  <2>6. \A i \in 1..k : new[i].sequence = nextSequence + i - 1
    BY <2>1
  <2>7. QED BY <2>5, <2>6
<1> HIDE DEF new, k, n
<1>3. /\ queue' \in Seq(QueuedEvent) /\ Len(queue') = n + k
      /\ \A i \in 1..(n + k) :
            queue'[i] = IF i <= n THEN queue[i] ELSE new[i - n]
  BY <1>1, <1>2, ConcatProperties DEF n
<1>4. Popped' = Popped /\ nextSequence' \in Nat
  BY <1>1, <1>3 DEF Popped, n
<1>5. ASSUME NEW i \in 1..Len(queue') PROVE queue'[i].sequence = Popped' + i - 1
  <2>1. CASE i <= n
    BY <1>1, <1>3, <1>4, <2>1, SMTT(30) DEF QueueOK, n
  <2>2. CASE ~(i <= n)
    <3>1. i - n \in 1..k
      BY <1>1, <1>3, <2>2
    <3>2. queue'[i].sequence = nextSequence + (i - n) - 1
      BY <1>2, <1>3, <2>2, <3>1
    <3>3. QED BY <1>1, <1>4, <3>2
  <2>3. QED BY <2>1, <2>2
<1>6. QED BY <1>3, <1>4, <1>5

\* The event popped is the oldest one.
LEMMA PopKeepsQueue ==
    ASSUME QueueOK, queue # <<>>, queue' = Tail(queue),
           UNCHANGED <<nextSequence, tick, input>>
    PROVE  /\ QueueOK'
           /\ Head(queue).sequence = Popped /\ Popped \in Nat
           /\ Popped' = Popped + 1
<1>1. /\ Len(queue) \in Nat \ {0} /\ nextSequence \in Nat /\ Popped \in Nat
  BY EmptySeq DEF QueueOK, Popped
<1>2. /\ queue' \in Seq(QueuedEvent) /\ Len(queue') = Len(queue) - 1
      /\ \A i \in 1..Len(queue') : queue'[i] = queue[i + 1]
      /\ Head(queue) = queue[1]
  BY HeadTailProperties DEF QueueOK
<1>3. Popped' = Popped + 1
  BY <1>1, <1>2 DEF Popped
<1>4. Head(queue).sequence = Popped
  <2>1. 1 \in 1..Len(queue)
    BY <1>1
  <2>2. queue[1].sequence = Popped + 1 - 1
    BY <2>1 DEF QueueOK
  <2>3. QED BY <1>1, <1>2, <2>2
<1>5. ASSUME NEW i \in 1..Len(queue') PROVE queue'[i].sequence = Popped' + i - 1
  <2>1. i + 1 \in 1..Len(queue)
    BY <1>1, <1>2
  <2>2. queue[i + 1].sequence = Popped + (i + 1) - 1
    BY <2>1 DEF QueueOK
  <2>3. QED BY <1>1, <1>2, <1>3, <2>2
<1>6. QED BY <1>1, <1>2, <1>3, <1>4, <1>5 DEF QueueOK

(***************************************************************************)
(* The steps.                                                              *)
(***************************************************************************)

LEMMA GameEmit ==
    ASSUME GameInv, HostEmit \/ HandlerEmit
    PROVE  GameInv'
<1>1. EmitAll(<<"custom">>) /\ UNCHANGED <<input, tickVars, logVars>>
  BY DEF HostEmit, HandlerEmit, portVars
<1>2. <<"custom">> \in Seq({"custom", "input", "game.tick"})
  OBVIOUS
<1>3. /\ nextSequence' \in Nat /\ queue' \in Seq(QueuedEvent)
      /\ Popped' = Popped
      /\ \A i \in 1..Len(queue') : queue'[i].sequence = Popped' + i - 1
  BY <1>1, <1>2, EmitKeepsQueue DEF GameInv
<1>4. QueueOK'
  BY <1>1, <1>3 DEF GameInv, QueueOK, tickVars
<1>5. PlacesOK'
  BY <1>1, <1>3 DEF GameInv, PlacesOK, Handling, tickVars, logVars
<1>6. BudgetOK'
  BY <1>1 DEF GameInv, BudgetOK, Taken, tickVars
<1>7. QED BY <1>4, <1>5, <1>6 DEF GameInv

\* There is a first input that is not due yet, or all of them are.
LEMMA DueType ==
    ASSUME QueueOK
    PROVE  Due \in 0..Len(input)
<1> DEFINE T == {n \in 0..Len(input) : n < Len(input) => input[n + 1] > tick}
<1>1. Len(input) \in Nat /\ tick \in Nat /\ \A i \in 1..Len(input) : input[i] \in Nat
  BY ElementOfSeq DEF QueueOK
<1>2. T \subseteq Nat /\ T # {}
  BY <1>1
<1>3. PICK n \in T : \A m \in T : ~(m < n)
  BY <1>2, Smallest
<1>4. ASSUME NEW i \in 1..n PROVE input[i] <= tick
  <2>1. i - 1 \in 0..Len(input) /\ i - 1 < n /\ i - 1 < Len(input) /\ (i - 1) + 1 = i
        /\ i \in 1..Len(input)
    BY <1>1, <1>3
  <2>2. i - 1 \notin T
    BY <1>3, <2>1
  <2>3. ~(input[i] > tick)
    BY <2>1, <2>2
  <2>4. QED BY <1>1, <2>1, <2>3
<1>5. n \in 0..Len(input) /\ (n < Len(input) => input[n + 1] > tick)
  BY <1>3
<1> HIDE DEF T
<1>6. QED BY <1>4, <1>5 DEF Due

LEMMA GameBegin ==
    ASSUME GameInv, BeginTick
    PROVE  GameInv'
<1> DEFINE names == [i \in 1..Due + 1 |-> IF i <= Due THEN "input" ELSE "game.tick"]
<1>1. /\ ~inTick /\ inTick' = TRUE /\ EmitAll(names)
      /\ input' = SubSeq(input, Due + 1, Len(input))
      /\ lastEvents' = <<>> /\ processed' = 0
      /\ tick' = tick /\ event' = event
      /\ handled' = handled /\ dropped' = dropped
  BY DEF BeginTick, logVars
<1>2. Due \in Nat /\ Due <= Len(input) /\ Len(input) \in Nat /\ input \in Seq(Nat)
  BY DueType DEF GameInv, QueueOK
<1>3. names \in Seq({"custom", "input", "game.tick"})
  <2>1. Due + 1 \in Nat
    BY <1>2
  <2>2. QED BY <2>1
<1> HIDE DEF names
<1>4. /\ nextSequence' \in Nat /\ queue' \in Seq(QueuedEvent)
      /\ Popped' = Popped
      /\ \A i \in 1..Len(queue') : queue'[i].sequence = Popped' + i - 1
  BY <1>1, <1>3, EmitKeepsQueue DEF GameInv
<1>5. input' \in Seq(Nat)
  BY <1>1, <1>2, SubSeqProperties, ElementOfSeq
<1>6. event = NoEvent
  BY <1>1 DEF GameInv, PlacesOK
<1>7. QueueOK' /\ PlacesOK'
  BY <1>1, <1>4, <1>5, <1>6 DEF GameInv, QueueOK, PlacesOK, Handling
<1>8. BudgetOK'
  BY <1>1, <1>6, EmptySeq, LimitAssumption DEF BudgetOK, Taken
<1>9. QED BY <1>7, <1>8 DEF GameInv

LEMMA GamePop ==
    ASSUME GameInv, PopEvent
    PROVE  GameInv'
<1>1. /\ inTick /\ event = NoEvent /\ queue # <<>> /\ processed < MaxEventsPerTick
      /\ queue' = Tail(queue) /\ processed' = processed + 1
      /\ event' = Head(queue)
      /\ UNCHANGED <<nextSequence, tick, input, inTick, lastEvents, handled, dropped>>
  BY DEF PopEvent, Pop, portVars, logVars
<1>2. /\ QueueOK' /\ Head(queue).sequence = Popped /\ Popped \in Nat
      /\ Popped' = Popped + 1
  BY <1>1, PopKeepsQueue DEF GameInv
<1>3. event'.sequence = Popped /\ event' # NoEvent
  BY <1>1, <1>2 DEF NoEvent
<1>4. Handling' = {Popped} /\ Handling = {}
  BY <1>1, <1>3 DEF Handling
<1>5. 0..(Popped - 1) = handled \cup dropped
  BY <1>4 DEF GameInv, PlacesOK
<1>6. 0..(Popped' - 1) = 0..(Popped - 1) \cup {Popped} /\ Popped \notin 0..(Popped - 1)
  BY <1>2
<1>7. handled' \cap dropped' = {}
  BY <1>1 DEF GameInv, PlacesOK
<1>8. PlacesOK'
  BY <1>1, <1>2, <1>3, <1>4, <1>5, <1>6, <1>7 DEF PlacesOK
<1>9. BudgetOK'
  BY <1>1, <1>3, LimitAssumption DEF GameInv, BudgetOK, Taken
<1>10. QED BY <1>2, <1>8, <1>9 DEF GameInv

\* A tick that fails drops the event it has in hand, or the one too many.
LEMMA GameFail ==
    ASSUME GameInv, ExceedLimit \/ HandlerFail
    PROVE  GameInv'
<1>1. /\ inTick' = FALSE /\ event' = NoEvent
      /\ UNCHANGED <<nextSequence, tick, input, lastEvents, handled>>
  BY DEF ExceedLimit, HandlerFail, Fail, portVars
<1>2. Handling' = {}
  BY <1>1 DEF Handling
<1>3. BudgetOK'
  <2>1. processed' \in Nat
    BY DEF ExceedLimit, HandlerFail, Pop, GameInv, BudgetOK
  <2>2. Len(lastEvents) <= MaxEventsPerTick
    BY LimitAssumption DEF GameInv, BudgetOK, Taken
  <2>3. QED BY <1>1, <2>1, <2>2 DEF GameInv, BudgetOK, Taken
<1>4. CASE ExceedLimit
  <2>1. /\ event = NoEvent /\ queue # <<>> /\ queue' = Tail(queue)
        /\ dropped' = dropped \cup {Head(queue).sequence}
    BY <1>4 DEF ExceedLimit, Pop, Fail
  <2>2. /\ QueueOK' /\ Head(queue).sequence = Popped /\ Popped \in Nat
        /\ Popped' = Popped + 1
    BY <1>1, <2>1, PopKeepsQueue DEF GameInv
  <2>3. 0..(Popped - 1) = handled \cup dropped /\ handled \cap dropped = {}
    BY <2>1 DEF GameInv, PlacesOK, Handling
  <2>4. 0..(Popped' - 1) = 0..(Popped - 1) \cup {Popped} /\ Popped \notin 0..(Popped - 1)
    BY <2>2
  <2>5. PlacesOK'
    BY <1>1, <1>2, <2>1, <2>2, <2>3, <2>4 DEF PlacesOK
  <2>6. QED BY <1>3, <2>2, <2>5 DEF GameInv
<1>5. CASE HandlerFail
  <2>1. /\ event # NoEvent /\ queue' = queue
        /\ dropped' = dropped \cup {event.sequence}
    BY <1>5 DEF HandlerFail, Fail, InHandler
  <2>2. Handling = {event.sequence}
    BY <2>1 DEF Handling
  <2>3. QueueOK' /\ Popped' = Popped
    BY <1>1, <2>1 DEF GameInv, QueueOK, Popped
  <2>4. PlacesOK'
    BY <1>1, <1>2, <2>1, <2>2, <2>3 DEF GameInv, PlacesOK
  <2>5. QED BY <1>3, <2>3, <2>4 DEF GameInv
<1>6. QED BY <1>4, <1>5

LEMMA GameEnd ==
    ASSUME GameInv, EndEvent
    PROVE  GameInv'
<1>1. /\ inTick /\ event # NoEvent /\ event' = NoEvent
      /\ lastEvents' = Append(lastEvents, event)
      /\ handled' = handled \cup {event.sequence}
      /\ UNCHANGED <<nextSequence, tick, input, queue, inTick, processed, dropped>>
  BY DEF EndEvent, portVars, eventVars
<1>2. Handling = {event.sequence} /\ Handling' = {}
  BY <1>1 DEF Handling
<1>3. QueueOK' /\ Popped' = Popped
  BY <1>1 DEF GameInv, QueueOK, Popped
<1>4. PlacesOK'
  BY <1>1, <1>2, <1>3 DEF GameInv, PlacesOK
<1>5. BudgetOK'
  BY <1>1 DEF GameInv, BudgetOK, Taken
<1>6. QED BY <1>3, <1>4, <1>5 DEF GameInv
LEMMA GameInvariant == GameSpec => []GameInv
<1>1. GameInit => GameInv
  <2> SUFFICES ASSUME GameInit PROVE GameInv
    OBVIOUS
  <2>1. /\ input = <<>> /\ queue = <<>> /\ nextSequence = 0 /\ tick = 0
        /\ inTick = FALSE /\ processed = 0 /\ event = NoEvent /\ lastEvents = <<>>
        /\ handled = {} /\ dropped = {}
    BY DEF GameInit
  <2>2. /\ Popped = 0 /\ 0..(Popped - 1) = {} /\ Handling = {}
        /\ Taken = 0 /\ Len(lastEvents) = 0
    <3>1. Popped = 0 /\ Len(lastEvents) = 0
      BY <2>1, Len(<<>>) = 0, 0 - 0 = 0 DEF Popped
    <3>2. Taken = 0 /\ Handling = {}
      BY <2>1, <3>1 DEF Handling, Taken
    <3>3. QED BY <3>1, <3>2
  <2>3. QueueOK
    BY <2>1, <2>2 DEF QueueOK
  <2>4. PlacesOK
    BY <2>1, <2>2 DEF PlacesOK
  <2>5. BudgetOK
    BY <2>1, <2>2, LimitAssumption DEF BudgetOK
  <2>6. QED BY <2>3, <2>4, <2>5 DEF GameInv
<1>2. ASSUME GameInv, [GameNext]_allVars PROVE GameInv'
  <2>1. ASSUME NEW s \in System, RegisterSystem(s) PROVE GameInv'
    <3>1. UNCHANGED <<input, eventVars, tickVars, logVars>>
      BY <2>1 DEF RegisterSystem
    <3>2. QED BY <1>2, <3>1, GameUnchanged DEF GameInv, QueueOK
  <2>2. ASSUME NEW due \in 0..MaxTick, PushInput(due) PROVE GameInv'
    <3>1. UNCHANGED <<eventVars, tickVars, logVars>> /\ input' = Append(input, due)
      BY <2>2 DEF PushInput
    <3>2. due \in Nat /\ input \in Seq(Nat)
      BY <1>2, BoundsAssumption DEF GameInv, QueueOK
    <3>3. input' \in Seq(Nat)
      BY <3>1, <3>2, AppendProperties
    <3>4. QED BY <1>2, <3>1, <3>3, GameUnchanged
  <2>3. CASE HostWorld \/ HandlerWorld \/ UNCHANGED allVars
    <3>1. UNCHANGED <<input, eventVars, tickVars, logVars>>
      BY <2>3 DEF HostWorld, HandlerWorld, allVars, gameVars, portVars
    <3>2. QED BY <1>2, <3>1, GameUnchanged DEF GameInv, QueueOK
  <2>4. CASE HandlerReturn
    <3>1. UNCHANGED <<input, eventVars, tick, inTick, processed, event, lastEvents,
                      logVars>>
      BY <2>4 DEF HandlerReturn, portVars
    <3>2. QED BY <1>2, <3>1 DEF GameInv, QueueOK, PlacesOK, BudgetOK, Popped, Handling,
                                Taken, eventVars, logVars
  <2>5. CASE EndTick
    <3>1. /\ UNCHANGED <<input, eventVars, processed, event, lastEvents, logVars>>
          /\ event = NoEvent /\ tick' = tick + 1 /\ inTick' = FALSE
      BY <2>5 DEF EndTick, portVars
    <3>2. QED BY <1>2, <3>1 DEF GameInv, QueueOK, PlacesOK, BudgetOK, Popped, Handling,
                                Taken, eventVars, logVars
  <2>6. QED
    BY <1>2, <2>1, <2>2, <2>3, <2>4, <2>5, GameEmit, GameBegin, GamePop, GameFail, GameEnd
    DEF GameNext, HostStep, TickStep
<1>3. QED BY <1>1, <1>2, PTL DEF GameSpec

(***************************************************************************)
(* What it shows.                                                          *)
(***************************************************************************)

\* The events that wait are the last ones emitted.
LEMMA QueueSequences ==
    ASSUME QueueOK
    PROVE  /\ Sequences(queue) = Popped..(nextSequence - 1)
           /\ Popped \in Nat /\ Len(queue) \in Nat /\ nextSequence = Popped + Len(queue)
<1>1. /\ Popped \in Nat /\ Len(queue) \in Nat /\ nextSequence = Popped + Len(queue)
      /\ \A i \in 1..Len(queue) : queue[i].sequence = Popped + i - 1
  BY DEF QueueOK, Popped
<1> HIDE DEF Popped
<1>2. ASSUME NEW m \in Sequences(queue) PROVE m \in Popped..(nextSequence - 1)
  <2>1. PICK i \in 1..Len(queue) : m = queue[i].sequence
    BY DEF Sequences
  <2>2. m = Popped + i - 1
    BY <1>1, <2>1
  <2>3. QED BY <1>1, <2>2
<1>3. ASSUME NEW m \in Popped..(nextSequence - 1) PROVE m \in Sequences(queue)
  <2>1. m - Popped + 1 \in 1..Len(queue)
    BY <1>1
  <2>2. queue[m - Popped + 1].sequence = Popped + (m - Popped + 1) - 1
    BY <1>1, <2>1
  <2>3. queue[m - Popped + 1].sequence = m
    BY <1>1, <2>2
  <2>4. QED BY <2>1, <2>3 DEF Sequences
<1>4. QED BY <1>1, <1>2, <1>3

\* Events are handled in the order they were emitted, whoever emitted them and
\* whichever tick failed in between: the queue is in order, and everything in it
\* is later than everything that left it.
THEOREM EventsAreInOrder == GameSpec => []EventsInOrder
<1>1. GameInv => EventsInOrder
  <2> SUFFICES ASSUME GameInv PROVE EventsInOrder
    OBVIOUS
  <2>1. /\ Sequences(queue) = Popped..(nextSequence - 1)
        /\ Popped \in Nat /\ Len(queue) \in Nat
        /\ \A i \in 1..Len(queue) : queue[i].sequence = Popped + i - 1
        /\ nextSequence \in Nat
    BY QueueSequences DEF GameInv, QueueOK
  <2>2. handled \cup dropped \cup Handling = 0..(Popped - 1)
    BY DEF GameInv, PlacesOK
  <2> HIDE DEF Popped
  <2>3. ASSUME NEW i \in 1..Len(queue), NEW j \in 1..Len(queue), i < j
        PROVE  queue[i].sequence < queue[j].sequence
    <3>1. queue[i].sequence = Popped + i - 1 /\ queue[j].sequence = Popped + j - 1
      BY <2>1
    <3>2. QED BY <2>1, <2>3, <3>1
  <2>4. \A n \in 0..(Popped - 1) : \A m \in Popped..(nextSequence - 1) : n < m
    BY <2>1
  <2>5. QED BY <2>1, <2>2, <2>3, <2>4 DEF EventsInOrder
<1>2. QED BY <1>1, GameInvariant, PTL

\* Every event emitted is queued, in hand, handled or dropped by a tick that failed,
\* and only one of these; and no tick handles more than its budget.
THEOREM EveryEventIsAccounted == GameSpec => []EventsAccounted
<1>1. GameInv => EventsAccounted
  <2> SUFFICES ASSUME GameInv PROVE EventsAccounted
    OBVIOUS
  <2>1. /\ Sequences(queue) = Popped..(nextSequence - 1)
        /\ Popped \in Nat /\ Len(queue) \in Nat /\ nextSequence = Popped + Len(queue)
    BY QueueSequences DEF GameInv
  <2>2. /\ 0..(Popped - 1) = Handling \cup handled \cup dropped
        /\ Handling \cap (handled \cup dropped) = {} /\ handled \cap dropped = {}
    BY DEF GameInv, PlacesOK
  <2> HIDE DEF Popped
  <2>3. /\ 0..(nextSequence - 1) = 0..(Popped - 1) \cup Popped..(nextSequence - 1)
        /\ 0..(Popped - 1) \cap Popped..(nextSequence - 1) = {}
    BY <2>1
  <2>4. Cardinality(Sequences(queue)) = Len(queue)
    <3>1. Popped \in Int /\ nextSequence - 1 \in Int
      BY <2>1
    <3>2. Cardinality(Popped..(nextSequence - 1))
            = IF Popped > nextSequence - 1 THEN 0 ELSE (nextSequence - 1) - Popped + 1
      BY <3>1, FS_Interval
    <3>3. QED BY <2>1, <3>2
  <2>5. Len(lastEvents) + Cardinality(Handling) <= MaxEventsPerTick
    <3>1. CASE event = NoEvent
      BY <3>1, FS_EmptySet DEF Handling, GameInv, BudgetOK, Taken
    <3>2. CASE event # NoEvent
      <4>1. Cardinality({event.sequence}) = 1
        BY FS_Singleton
      <4>2. QED BY <3>2, <4>1 DEF Handling, GameInv, BudgetOK, Taken
    <3>3. QED BY <3>1, <3>2
  <2>6. QED BY <2>1, <2>2, <2>3, <2>4, <2>5 DEF EventsAccounted
<1>2. QED BY <1>1, GameInvariant, PTL
===============================================================================
