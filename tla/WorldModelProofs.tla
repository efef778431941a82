---------------------------- MODULE WorldModelProofs ----------------------------
(***************************************************************************)
(* Proofs about WorldModel, for every set of entities and kinds of events, *)
(* any number of events, faults and ticks: its type correctness, that      *)
(* Redis has the entities as memory has them, that the two registries      *)
(* agree about what is critical, and that the registry of anomalies keeps  *)
(* its promises beside that of entities.  Its steps are those of           *)
(* AnomalyRegistryProofs.                                                  *)
(***************************************************************************)
EXTENDS WorldModel, AnomalyRegistryProofs

-------------------------------------------------------------------------------
(* The inductive invariant *)

(* What upsert_from_event has made: never an entity without a health. *)
Present(state) == state.health # "absent" /\ state.kind \in Kind

(* An entity is in the registry whole or not at all, and is there before a
   write of it is under way. *)
PresentInv ==
  /\ event \in Event
  /\ \A e \in Entity :
       (entity[e] = Absent \/ Present(entity[e])) /\ (stored[e] = Absent \/ Present(stored[e]))
  /\ \A w \in writing : Present(w.state) /\ entity[w.entity] # Absent

(* An entity that is not in doubt has at most one write under way, of its
   state; with none Redis has that. *)
EntitiesInv ==
  \A e \in Entity \ mixed :
    /\ \A w, x \in writing : w.entity = e /\ x.entity = e => w = x
    /\ \A w \in writing : w.entity = e => w.state = entity[e]
    /\ (\A w \in writing : w.entity # e) => stored[e] = entity[e]

CriticalOpen(e) ==
  \E k \in Key : k[1] = e /\ IsOpen(k) /\ memory[k].severity = "critical"

(* What the Kafka loop has yet to do for e, in either registry. *)
ToUpdate(e) == kafka = "updating" /\ \E i \in DOMAIN todo : todo[i] = e

ToUpsert(e) == \E i \in DOMAIN due : due[i] = e

KafkaInv ==
  /\ kafka = "updating" =>
       event.kind \notin Resolving /\ \A i \in DOMAIN todo : todo[i] \in Mentioned
  /\ kafka = "resolving" => event.kind \in Resolving

(* A critical entity has a critical anomaly open, or the event under way will
   open it or take the health back; an event that will make an entity critical
   has opened the anomaly, or will; one that resolves closes nothing of an
   entity that stays critical. *)
CriticalInv ==
  \A e \in Entity \ (expired \cup astray) :
    /\ entity[e].health = "critical" =>
         \/ CriticalOpen(e)
         \/ event.severity = "critical" /\ ToUpdate(e)
         \/ event.kind \in Resolving /\ ToUpsert(e)
    /\ event.severity = "critical" /\ event.kind \notin Resolving /\ ToUpsert(e) =>
         CriticalOpen(e) \/ ToUpdate(e)
    /\ entity[e].health = "critical" /\ kafka = "resolving" /\ e \in Mentioned =>
         ToUpsert(e)

WorldInv ==
  /\ Inv /\ WorldTypeOK /\ PresentInv
  /\ EntitiesInv /\ KafkaInv /\ CriticalInv

-------------------------------------------------------------------------------
(* The anomaly registry *)

(* A failed write of an entity counts as a fault, and is nothing to it. *)
LEMMA FaultInv ==
  ASSUME Inv, faults' \in 0..MaxFaults,
         UNCHANGED <<now, memory, redis, sending, kafka, event, todo, closing, expiry,
                     expiring, unsure, taken>>
  PROVE  Inv'
<1>1. AgreeInv' /\ ResolvingInv'
  BY SameAgrees, SameResolving DEF Inv
<1>2. TypeOK' /\ SendingInv'
  BY DEF Inv, TypeOK, SendingInv
<1> QED
  BY <1>1, <1>2 DEF Inv

LEMMA FaultBound ==
  ASSUME TypeOK, Fault
  PROVE  faults' \in 0..MaxFaults
BY RegistryBounds DEF TypeOK, Fault

LEMMA WorldStepInv ==
  ASSUME Inv, [WorldNext]_worldVars
  PROVE  Inv'
<1>1. CASE [Next]_vars
  BY <1>1, StepInv
<1>2. CASE \E w \in writing : EntityWriteFails(w)
  BY <1>2, FaultBound, FaultInv DEF EntityWriteFails, Inv
<1>3. CASE Process \/ AnomalyStep \/ (\E w \in sending : AnomalyWriteFails(w)) \/ WorldRestart
  BY <1>1, <1>3 DEF Process, AnomalyStep, AnomalyWriteFails, WorldRestart, Next
<1>4. CASE Upsert \/ SyncStarts \/ (\E e \in Entity : Sync(e))
           \/ (\E w \in writing : EntityWriteLands(w)) \/ UNCHANGED worldVars
  BY <1>1, <1>4 DEF Upsert, SyncStarts, Sync, EntityWriteLands, worldVars
<1> QED
  BY <1>2, <1>3, <1>4 DEF WorldNext

-------------------------------------------------------------------------------
(* Types *)

(* What WorldTypeOK says beyond the registry of anomalies. *)
EntityTypes ==
  /\ entity \in [Entity -> EntityState]
  /\ stored \in [Entity -> EntityState]
  /\ \A e \in Entity : entity[e] = Absent => stored[e] = Absent
  /\ writing \subseteq [by: Writer, entity: Entity, state: EntityState]
  /\ \A w, x \in writing : w.by = x.by => w = x
  /\ mixed \subseteq Entity

WorkTypes ==
  /\ due \in Seq(Entity)
  /\ \A i \in DOMAIN due : due[i] \in Mentioned
  /\ \A e \in DOMAIN polling : e \in Entity /\ entity[e] # Absent /\ polling[e] \in Kind
  /\ expired \subseteq Entity /\ astray \subseteq Entity

LEMMA WorldTypesSplit ==
  /\ WorldTypeOK <=> TypeOK /\ EntityTypes /\ WorkTypes
  /\ (TypeOK /\ EntityTypes /\ WorkTypes)' => WorldTypeOK'
BY DEF WorldTypeOK, EntityTypes, WorkTypes

(* The event at hand and who is mentioned in it. *)
LEMMA EventLemma ==
  ASSUME event \in Event
  PROVE  /\ event.refs \in Seq(Entity) /\ event.kind \in Kind
         /\ event.severity \in Reported /\ event.severity \in Severity
         /\ Mentioned \subseteq Entity
<1>1. event.refs \in Seq(Entity) /\ event.kind \in Kind /\ event.severity \in Reported
  BY RegistryAssumption DEF Event
<1>2. \A i \in DOMAIN event.refs : event.refs[i] \in Entity
  BY <1>1
<1> QED
  BY <1>1, <1>2, RegistryAssumption DEF Mentioned

LEMMA ScoreLemma ==
  /\ DOMAIN Score = Severity /\ "info" \in Severity
  /\ \A s \in Severity : Score[s] \in Nat /\ Score["info"] <= Score[s]
BY DEF Score, Severity, Rank

LEMMA AbsentLemma ==
  Absent \in EntityState /\ ~Present(Absent) /\ Absent.score = "info" /\ Absent.health = "absent"
BY ScoreLemma DEF Absent, EntityState, Present, Health

LEMMA HealthLemma ==
  ASSUME NEW s, NEW k
  PROVE  SeverityToHealth(s, k) \in {"healthy", "degraded", "critical"}
BY DEF SeverityToHealth

(* upsert_from_event makes an entity with a health, of one that is absent. *)
LEMMA NewHealthLemma ==
  ASSUME event \in Event, EntityTypes, PresentInv, NEW e \in Entity
  PROVE  NewHealth(e) \in Health /\ NewHealth(e) # "absent"
<1>1. entity[e] \in EntityState /\ (entity[e] = Absent \/ Present(entity[e]))
  BY DEF EntityTypes, PresentInv
<1>2. entity[e].health \in Health /\ entity[e].score \in Severity
  BY <1>1, ScoreLemma DEF EntityState
<1>3. CASE entity[e] = Absent
  <2>1. ~(Score[entity[e].score] > Score[event.severity])
    BY <1>3, AbsentLemma, ScoreLemma, EventLemma
  <2> QED
    BY <2>1, HealthLemma DEF NewHealth, Health
<1>4. CASE Present(entity[e])
  BY <1>2, <1>4, HealthLemma DEF NewHealth, Health, Present
<1> QED
  BY <1>1, <1>3, <1>4

(* A write of what has been put into the registry. *)
LEMMA WriteEntityTypes ==
  ASSUME EntityTypes, PresentInv, NEW writer \in Writer, Free(writer), NEW e \in Entity,
         NEW s \in EntityState, Present(s), entity' = [entity EXCEPT ![e] = s],
         Write(writer, e, s), stored' = stored, event' = event
  PROVE  EntityTypes' /\ PresentInv' /\ \A f \in Entity : entity[f] # Absent => entity'[f] # Absent
<1> DEFINE new == [by |-> writer, entity |-> e, state |-> s]
<1>1. new \in [by: Writer, entity: Entity, state: EntityState] /\ new.by = writer
      /\ new.entity = e /\ new.state = s
  OBVIOUS
<1>2. writing' = writing \cup {new}
  BY DEF Write
<1> HIDE DEF new
<1>3. entity' \in [Entity -> EntityState] /\ entity'[e] = s
      /\ \A f \in Entity : f # e => entity'[f] = entity[f]
  BY DEF EntityTypes
<1>4. s # Absent
  BY AbsentLemma
<1>5. \A f \in Entity : entity[f] # Absent => entity'[f] # Absent
  BY <1>3, <1>4
<1>6. /\ writing' \subseteq [by: Writer, entity: Entity, state: EntityState]
      /\ \A w, x \in writing' : w.by = x.by => w = x
  BY <1>1, <1>2 DEF EntityTypes, Free
<1>7. mixed' \subseteq Entity
  BY DEF Write, EntityTypes
<1>8. EntityTypes'
  BY <1>3, <1>5, <1>6, <1>7 DEF EntityTypes
<1>9. \A w \in writing' : Present(w.state) /\ entity'[w.entity] # Absent
  BY <1>1, <1>2, <1>3, <1>4, <1>5, <1>6 DEF PresentInv
<1>10. \A f \in Entity : entity'[f] = Absent \/ Present(entity'[f])
  BY <1>3 DEF PresentInv
<1> QED
  BY <1>5, <1>8, <1>9, <1>10 DEF PresentInv

LEMMA SameEntityTypes ==
  ASSUME EntityTypes, PresentInv, UNCHANGED entityVars, event' \in Event
  PROVE  EntityTypes' /\ PresentInv'
BY DEF EntityTypes, PresentInv, entityVars

LEMMA ProcessTypes ==
  ASSUME EntityTypes, WorkTypes, PresentInv, Process
  PROVE  EntityTypes' /\ WorkTypes' /\ PresentInv'
<1>1. event' \in Event /\ due' = event'.refs
  BY DEF Process, Deliver
<1>2. UNCHANGED <<entity, stored, polling, writing, mixed, astray>>
      /\ expired' \subseteq expired
  BY DEF Process
<1>3. EntityTypes' /\ PresentInv'
  BY <1>1, <1>2 DEF EntityTypes, PresentInv
<1>4. event'.refs \in Seq(Entity) /\ \A i \in DOMAIN due' : due'[i] \in Mentioned'
  BY <1>1, RegistryAssumption DEF Event, Mentioned
<1>5. WorkTypes'
  BY <1>1, <1>2, <1>4 DEF WorkTypes
<1> QED
  BY <1>3, <1>5

(* The next entity of the event. *)
LEMMA DueLemma ==
  ASSUME due \in Seq(Entity), due # <<>>
  PROVE  /\ Head(due) \in Entity /\ Tail(due) \in Seq(Entity)
         /\ \E i \in DOMAIN due : due[i] = Head(due)
         /\ \A i \in DOMAIN Tail(due) : \E j \in DOMAIN due : Tail(due)[i] = due[j]
         /\ \A j \in DOMAIN due : due[j] # Head(due) =>
              \E i \in DOMAIN Tail(due) : Tail(due)[i] = due[j]
<1>1. Len(due) \in Nat \ {0} /\ DOMAIN due = 1 .. Len(due)
  OBVIOUS
<1>2. /\ Head(due) \in Entity /\ Tail(due) \in Seq(Entity) /\ Head(due) = due[1]
      /\ DOMAIN Tail(due) = 1 .. Len(due) - 1
      /\ \A i \in 1 .. Len(due) - 1 : Tail(due)[i] = due[i + 1]
  BY <1>1, HeadTailProperties
<1>3. ASSUME NEW j \in DOMAIN due, due[j] # Head(due)
      PROVE  \E i \in DOMAIN Tail(due) : Tail(due)[i] = due[j]
  <2>1. j - 1 \in 1 .. Len(due) - 1 /\ (j - 1) + 1 = j
    BY <1>1, <1>2, <1>3
  <2> QED
    BY <1>2, <2>1
<1>4. ASSUME NEW i \in DOMAIN Tail(due)
      PROVE  \E j \in DOMAIN due : Tail(due)[i] = due[j]
  <2>1. i + 1 \in 1 .. Len(due)
    BY <1>1, <1>2
  <2> QED
    BY <1>1, <1>2, <2>1
<1> QED
  BY <1>1, <1>2, <1>3, <1>4

LEMMA UpsertTypes ==
  ASSUME EntityTypes, WorkTypes, PresentInv, Upsert
  PROVE  EntityTypes' /\ WorkTypes' /\ PresentInv'
<1> DEFINE e == Head(due)
           s == [health |-> NewHealth(e), score |-> event.severity, kind |-> event.kind,
                 temporal |-> entity[e].temporal]
<1>1. /\ due # <<>> /\ Free("upsert") /\ due' = Tail(due)
      /\ entity' = [entity EXCEPT ![e] = s] /\ Write("upsert", e, s)
      /\ UNCHANGED <<stored, event, polling, expired, astray>>
  BY DEF Upsert, vars
<1>2. e \in Entity /\ due' \in Seq(Entity) /\ \A i \in DOMAIN due' : due'[i] \in Mentioned'
  <2>1. Mentioned' = Mentioned
    BY <1>1 DEF Mentioned
  <2>2. \A i \in DOMAIN Tail(due) : Tail(due)[i] \in Mentioned
    BY <1>1, DueLemma DEF WorkTypes
  <2> QED
    BY <1>1, <2>1, <2>2, DueLemma DEF WorkTypes
<1>3. event \in Event
  BY DEF PresentInv
<1>5. s \in EntityState /\ Present(s)
  <2>1. entity[e] \in EntityState
    BY <1>2 DEF EntityTypes
  <2>2. entity[e].temporal \in {"none"} \cup Kind
    BY <2>1 DEF EntityState
  <2> QED
    BY <1>2, <1>3, <2>2, EventLemma, NewHealthLemma, ScoreLemma DEF EntityState, Present
<1> HIDE DEF e, s
<1>6. EntityTypes' /\ PresentInv' /\ \A f \in Entity : entity[f] # Absent => entity'[f] # Absent
  BY <1>1, <1>2, <1>5, WriteEntityTypes DEF Writer
<1>8. WorkTypes'
  BY <1>1, <1>2, <1>6 DEF WorkTypes
<1> QED
  BY <1>6, <1>8

LEMMA SyncStartsTypes ==
  ASSUME EntityTypes, WorkTypes, PresentInv, SyncStarts
  PROVE  EntityTypes' /\ WorkTypes' /\ PresentInv'
<1>1. /\ polling' = [e \in Known |-> entity[e].kind]
      /\ UNCHANGED <<event, entity, stored, due, writing, mixed, expired, astray>>
  BY DEF SyncStarts, vars, historyVars
<1>2. \A e \in Known : e \in Entity /\ entity[e] # Absent /\ entity[e].kind \in Kind
  BY DEF Known, PresentInv, Present
<1>3. \A e \in DOMAIN polling' : e \in Entity /\ entity'[e] # Absent /\ polling'[e] \in Kind
  BY <1>1, <1>2
<1>4. EntityTypes' /\ PresentInv'
  BY <1>1 DEF EntityTypes, PresentInv
<1> QED
  BY <1>1, <1>3, <1>4 DEF WorkTypes, Mentioned

LEMMA SyncTypes ==
  ASSUME EntityTypes, WorkTypes, PresentInv, NEW e \in Entity, Sync(e)
  PROVE  EntityTypes' /\ WorkTypes' /\ PresentInv'
<1>1. /\ e \in DOMAIN polling /\ Free("sync")
      /\ polling' = [f \in DOMAIN polling \ {e} |-> polling[f]]
      /\ UNCHANGED <<event, stored, due, expired, astray>>
  BY DEF Sync, vars, historyVars
<1>2. CASE UNCHANGED <<entity, writing, mixed>>
  <2>1. EntityTypes' /\ PresentInv'
    BY <1>1, <1>2 DEF EntityTypes, PresentInv
  <2>2. WorkTypes'
    BY <1>1, <1>2 DEF WorkTypes, Mentioned
  <2> QED
    BY <2>1, <2>2
<1>3. CASE ~ UNCHANGED <<entity, writing, mixed>>
  <2> DEFINE s == [entity[e] EXCEPT !.temporal = polling[e]]
  <2>1. entity' = [entity EXCEPT ![e] = s] /\ Write("sync", e, s)
    BY <1>3 DEF Sync
  <2>2. entity[e] \in EntityState /\ entity[e] # Absent /\ polling[e] \in Kind
    BY <1>1 DEF EntityTypes, WorkTypes
  <2>3. s \in EntityState /\ Present(s)
    BY <2>2 DEF EntityState, PresentInv, Present
  <2> HIDE DEF s
  <2>4. EntityTypes' /\ PresentInv'
        /\ \A f \in Entity : entity[f] # Absent => entity'[f] # Absent
    BY <1>1, <2>1, <2>3, WriteEntityTypes DEF Writer
  <2>5. WorkTypes'
    BY <1>1, <2>4 DEF WorkTypes, Mentioned
  <2> QED
    BY <2>4, <2>5
<1> QED
  BY <1>2, <1>3

LEMMA EntityWriteTypes ==
  ASSUME EntityTypes, WorkTypes, PresentInv,
         NEW w \in writing, EntityWriteLands(w) \/ EntityWriteFails(w)
  PROVE  EntityTypes' /\ WorkTypes' /\ PresentInv'
<1>1. w.entity \in Entity /\ w.state \in EntityState /\ Present(w.state)
      /\ entity[w.entity] # Absent
  BY DEF EntityTypes, PresentInv
<1>2. /\ stored' \in {stored, [stored EXCEPT ![w.entity] = w.state]}
      /\ writing' = writing \ {w} /\ mixed' \in {mixed, mixed \cup {w.entity}}
      /\ UNCHANGED <<event, entity, polling, expired>>
      /\ \/ UNCHANGED <<due, astray>>
         \/ due' = <<>> /\ astray' = astray \cup {due[i] : i \in DOMAIN due}
  BY DEF EntityWriteLands, EntityWriteFails, vars, historyVars
<1>3. EntityTypes'
  BY <1>1, <1>2 DEF EntityTypes
<1>4. PresentInv'
  BY <1>1, <1>2 DEF PresentInv, EntityTypes
<1>5. due' \in Seq(Entity) /\ astray' \subseteq Entity
      /\ \A i \in DOMAIN due' : due'[i] \in Mentioned'
  <2>1. Mentioned' = Mentioned
    BY <1>2 DEF Mentioned
  <2>2. CASE UNCHANGED <<due, astray>>
    BY <2>1, <2>2 DEF WorkTypes
  <2>3. CASE due' = <<>> /\ astray' = astray \cup {due[i] : i \in DOMAIN due}
    <3>1. \A i \in DOMAIN due : due[i] \in Entity
      BY DEF WorkTypes
    <3> QED
      BY <2>3, <3>1 DEF WorkTypes
  <2> QED
    BY <1>2, <2>2, <2>3
<1>6. WorkTypes'
  BY <1>2, <1>5 DEF WorkTypes
<1> QED
  BY <1>3, <1>4, <1>6

LEMMA AnomalyStepTypes ==
  ASSUME EntityTypes, WorkTypes, PresentInv, AnomalyStep
  PROVE  EntityTypes' /\ WorkTypes' /\ PresentInv'
<1>1. UNCHANGED entityVars /\ event' = event /\ astray' = astray
  BY DEF AnomalyStep, Tick, Update, Resolve, ExpireStale, ExpireNext, WriteLands
<1>2. expired' \subseteq Entity
  <2>1. \A k \in Closed : k[1] \in Entity
    BY DEF Closed, Key
  <2> QED
    BY <2>1 DEF AnomalyStep, WorkTypes
<1>3. WorkTypes'
  BY <1>1, <1>2 DEF WorkTypes, Mentioned, entityVars
<1> QED
  BY <1>1, <1>3, SameEntityTypes DEF PresentInv

LEMMA AnomalyWriteFailsTypes ==
  ASSUME EntityTypes, WorkTypes, PresentInv, NEW w \in sending, AnomalyWriteFails(w)
  PROVE  EntityTypes' /\ WorkTypes' /\ PresentInv'
<1>1. UNCHANGED entityVars /\ event' = event /\ expired' = expired
      /\ astray' \subseteq astray \cup Mentioned
  BY DEF AnomalyWriteFails, WriteFails
<1>2. astray' \subseteq Entity
  BY <1>1, EventLemma DEF PresentInv, WorkTypes
<1>3. WorkTypes'
  BY <1>1, <1>2 DEF WorkTypes, Mentioned, entityVars
<1> QED
  BY <1>1, <1>3, SameEntityTypes DEF PresentInv

LEMMA RestartTypesOfWorld ==
  ASSUME TypeOK, EntityTypes, WorkTypes, PresentInv, WorldRestart
  PROVE  EntityTypes' /\ WorkTypes' /\ PresentInv'
<1>1. /\ entity' = stored /\ due' = <<>> /\ polling' = << >> /\ writing' = {} /\ mixed' = {}
      /\ UNCHANGED <<event, stored, expired>>
  BY DEF WorldRestart, Restart
<1>2. EntityTypes' /\ PresentInv'
  BY <1>1 DEF EntityTypes, PresentInv
<1>3. astray' \subseteq Entity
  <2>1. \A k \in Key : k[1] \in Entity
    BY DEF Key
  <2>2. {w.entity : w \in writing} \subseteq Entity /\ {k[1] : k \in unsure} \subseteq Entity
        /\ {w.key[1] : w \in sending} \subseteq Entity
    BY <2>1 DEF EntityTypes, TypeOK
  <2>3. Mentioned \subseteq Entity /\ astray \subseteq Entity /\ mixed \subseteq Entity
    BY EventLemma DEF PresentInv, WorkTypes, EntityTypes
  <2> QED
    BY <2>2, <2>3 DEF WorldRestart
<1>4. DOMAIN due' = {} /\ DOMAIN polling' = {} /\ due' \in Seq(Entity)
  BY <1>1
<1>5. WorkTypes'
  BY <1>1, <1>3, <1>4 DEF WorkTypes
<1> QED
  BY <1>2, <1>5

LEMMA WorldStepTypes ==
  ASSUME Inv, WorldTypeOK, PresentInv, [WorldNext]_worldVars
  PROVE  WorldTypeOK' /\ PresentInv'
<1>1. TypeOK /\ EntityTypes /\ WorkTypes /\ TypeOK'
  BY WorldTypesSplit, WorldStepInv DEF Inv
<1>2. EntityTypes' /\ WorkTypes' /\ PresentInv'
  <2>1. CASE UNCHANGED worldVars
    <3>1. UNCHANGED entityVars /\ event' = event /\ UNCHANGED <<expired, astray>>
      BY <2>1 DEF worldVars, vars, historyVars
    <3>2. WorkTypes'
      BY <1>1, <3>1 DEF WorkTypes, Mentioned, entityVars
    <3> QED
      BY <1>1, <3>1, <3>2, SameEntityTypes DEF PresentInv
  <2>2. CASE WorldNext
    BY <1>1, <2>2, ProcessTypes, UpsertTypes, SyncStartsTypes, SyncTypes, EntityWriteTypes,
       AnomalyStepTypes, AnomalyWriteFailsTypes, RestartTypesOfWorld DEF WorldNext
  <2> QED
    BY <2>1, <2>2
<1> QED
  BY <1>1, <1>2, WorldTypesSplit

-------------------------------------------------------------------------------
(* The registry of entities and Redis *)

LEMMA SameEntities ==
  ASSUME EntitiesInv, UNCHANGED <<entity, stored, writing, mixed>>
  PROVE  EntitiesInv'
BY DEF EntitiesInv

LEMMA WriteEntities ==
  ASSUME EntityTypes, EntitiesInv, NEW writer, NEW e \in Entity, NEW s,
         entity' = [entity EXCEPT ![e] = s], Write(writer, e, s), stored' = stored
  PROVE  EntitiesInv'
<1> DEFINE new == [by |-> writer, entity |-> e, state |-> s]
<1>1. writing' = writing \cup {new} /\ mixed \subseteq mixed'
  BY DEF Write
<1>2. new.entity = e /\ new.state = s
  OBVIOUS
<1> HIDE DEF new
<1>3. entity'[e] = s /\ \A f \in Entity : f # e => entity'[f] = entity[f]
  BY DEF EntityTypes
<1> SUFFICES ASSUME NEW f \in Entity \ mixed'
             PROVE  /\ \A w, x \in writing' : w.entity = f /\ x.entity = f => w = x
                    /\ \A w \in writing' : w.entity = f => w.state = entity'[f]
                    /\ (\A w \in writing' : w.entity # f) => stored'[f] = entity'[f]
  BY DEF EntitiesInv
<1>4. CASE f = e
  <2>1. \A w \in writing : w.entity # e
    BY <1>4 DEF Write
  <2> QED
    BY <1>1, <1>2, <1>3, <1>4, <2>1
<1>5. CASE f # e
  <2>1. \A w \in writing' : w.entity = f => w \in writing
    BY <1>1, <1>2, <1>5
  <2> QED
    BY <1>1, <1>3, <1>5, <2>1 DEF EntitiesInv
<1> QED
  BY <1>4, <1>5

LEMMA EntityWriteEntities ==
  ASSUME EntityTypes, EntitiesInv,
         NEW w \in writing, EntityWriteLands(w) \/ EntityWriteFails(w)
  PROVE  EntitiesInv'
<1>1. /\ w.entity \in Entity /\ entity' = entity /\ writing' = writing \ {w}
      /\ mixed \subseteq mixed'
  BY DEF EntityTypes, EntityWriteLands, EntityWriteFails
<1>2. \A e \in Entity : e # w.entity => stored'[e] = stored[e]
  BY DEF EntityTypes, EntityWriteLands, EntityWriteFails
<1>3. w.entity \notin mixed' => stored'[w.entity] = w.state
  BY <1>1 DEF EntityTypes, EntityWriteLands, EntityWriteFails
<1> SUFFICES ASSUME NEW f \in Entity \ mixed'
             PROVE  /\ \A v, x \in writing' : v.entity = f /\ x.entity = f => v = x
                    /\ \A v \in writing' : v.entity = f => v.state = entity'[f]
                    /\ (\A v \in writing' : v.entity # f) => stored'[f] = entity'[f]
  BY DEF EntitiesInv
<1>4. f \in Entity \ mixed
  BY <1>1
<1>5. CASE f = w.entity
  BY <1>1, <1>3, <1>4, <1>5 DEF EntitiesInv
<1>6. CASE f # w.entity
  BY <1>1, <1>2, <1>4, <1>6 DEF EntitiesInv
<1> QED
  BY <1>5, <1>6

LEMMA RestartEntities ==
  ASSUME WorldRestart
  PROVE  EntitiesInv'
BY DEF WorldRestart, EntitiesInv

LEMMA WorldStepEntities ==
  ASSUME EntityTypes, WorkTypes, EntitiesInv, [WorldNext]_worldVars
  PROVE  EntitiesInv'
<1>1. CASE UNCHANGED <<entity, stored, writing, mixed>>
  BY <1>1, SameEntities
<1>2. CASE Process \/ SyncStarts \/ AnomalyStep \/ (\E w \in sending : AnomalyWriteFails(w))
           \/ UNCHANGED worldVars
  BY <1>1, <1>2 DEF Process, SyncStarts, AnomalyStep, AnomalyWriteFails, entityVars, worldVars
<1>3. CASE Upsert
  <2>1. Head(due) \in Entity /\ stored' = stored
    BY <1>3, DueLemma DEF Upsert, WorkTypes
  <2>2. PICK s : entity' = [entity EXCEPT ![Head(due)] = s] /\ Write("upsert", Head(due), s)
    BY <1>3 DEF Upsert
  <2> QED
    BY <2>1, <2>2, WriteEntities
<1>4. CASE \E e \in Entity : Sync(e)
  <2>1. PICK e \in Entity : Sync(e)
    BY <1>4
  <2>2. stored' = stored
    BY <2>1 DEF Sync
  <2>3. CASE UNCHANGED <<entity, writing, mixed>>
    BY <1>1, <2>2, <2>3
  <2>4. CASE ~ UNCHANGED <<entity, writing, mixed>>
    <3>1. PICK s : entity' = [entity EXCEPT ![e] = s] /\ Write("sync", e, s)
      BY <2>1, <2>4 DEF Sync
    <3> QED
      BY <2>2, <3>1, WriteEntities
  <2> QED
    BY <2>3, <2>4
<1>5. CASE \E w \in writing : EntityWriteLands(w) \/ EntityWriteFails(w)
  BY <1>5, EntityWriteEntities
<1>6. CASE WorldRestart
  BY <1>6, RestartEntities
<1> QED
  BY <1>2, <1>3, <1>4, <1>5, <1>6 DEF WorldNext

-------------------------------------------------------------------------------
(* What the anomaly registry does to critical anomalies *)

LEMMA CloseCritical ==
  ASSUME TypeOK, NEW loop, NEW k \in Key, Close(loop, k)
  PROVE  /\ \A e : e # k[1] /\ CriticalOpen(e) => CriticalOpen(e)'
         /\ IsOpen(k) => k \in Closed
<1>1. /\ \A x \in Key : x # k => memory'[x] = memory[x]
      /\ memory'[k] = None
  BY DEF TypeOK, Close
<1> QED
  BY <1>1, NoneIsAnomaly DEF CriticalOpen, IsOpen, Closed

(* An event about an entity whose anomaly is critical leaves it so. *)
LEMMA UpdateCritical ==
  ASSUME TypeOK, Update
  PROVE  /\ \A e : CriticalOpen(e) => CriticalOpen(e)'
         /\ \A e : event.severity = "critical" /\ ToUpdate(e) => ToUpdate(e)' \/ CriticalOpen(e)'
<1>1. kafka = "updating" /\ todo \in Seq(Entity) /\ event.kind \in Kind
  BY DEF Update, TypeOK, Event
<1>2. CASE todo = <<>>
  BY <1>2 DEF Update, CriticalOpen, IsOpen, ToUpdate
<1>3. CASE todo # <<>>
  <2>1. PICK k : k = <<Head(todo), event.kind>>
    OBVIOUS
  <2>2. memory' = [memory EXCEPT ![k] = Seen(k)] /\ todo' = Tail(todo) /\ kafka' = kafka
    BY <1>3, <2>1 DEF Update
  <2>3. Head(todo) \in Entity
        /\ \A j \in DOMAIN todo : todo[j] # Head(todo) =>
             \E i \in DOMAIN Tail(todo) : Tail(todo)[i] = todo[j]
    <3>1. /\ Len(todo) \in Nat \ {0} /\ DOMAIN todo = 1 .. Len(todo)
          /\ Head(todo) \in Entity /\ Head(todo) = todo[1]
          /\ DOMAIN Tail(todo) = 1 .. Len(todo) - 1
          /\ \A i \in 1 .. Len(todo) - 1 : Tail(todo)[i] = todo[i + 1]
      BY <1>1, <1>3, HeadTailProperties
    <3>2. ASSUME NEW j \in DOMAIN todo, todo[j] # Head(todo)
          PROVE  \E i \in DOMAIN Tail(todo) : Tail(todo)[i] = todo[j]
      <4>1. j - 1 \in 1 .. Len(todo) - 1 /\ (j - 1) + 1 = j
        BY <3>1, <3>2
      <4> QED
        BY <3>1, <4>1
    <3> QED
      BY <3>1, <3>2
  <2>4. k \in Key /\ k[1] = Head(todo)
    BY <1>1, <2>1, <2>3 DEF Key
  <2>5. /\ Seen(k).status = "open"
        /\ event.severity = "critical" => Seen(k).severity = "critical"
        /\ IsOpen(k) /\ memory[k].severity = "critical" => Seen(k).severity = "critical"
    BY <1>1, <2>4, SeenLemma
  <2>6. memory'[k] = Seen(k) /\ \A x \in Key : x # k => memory'[x] = memory[x]
    BY <2>2, <2>4 DEF TypeOK
  <2>7. \A e : CriticalOpen(e) => CriticalOpen(e)'
    BY <2>4, <2>5, <2>6 DEF CriticalOpen, IsOpen
  <2>8. event.severity = "critical" => CriticalOpen(k[1])'
    BY <2>4, <2>5, <2>6 DEF CriticalOpen, IsOpen
  <2>9. \A e : ToUpdate(e) /\ e # k[1] => ToUpdate(e)'
    BY <1>1, <2>2, <2>3, <2>4 DEF ToUpdate
  <2> QED
    BY <2>7, <2>8, <2>9
<1> QED
  BY <1>2, <1>3

(* Which keys a resolution and the expiry loop close. *)
LEMMA ResolveCloses ==
  ASSUME TypeOK, Resolve
  PROVE  /\ UNCHANGED memory \/ \E k \in Key : Close("kafka", k) /\ IsOpen(k)
         /\ kafka = "resolving" /\ kafka' \in {"resolving", "idle"} /\ event' = event
<1>1. CASE ResolveNext
  BY <1>1 DEF Resolve, ResolveNext, EventEnds, TypeOK
<1>2. CASE ResolveEntity
  BY <1>2 DEF Resolve, ResolveEntity, EventEnds, KeysToClose
<1> QED
  BY <1>1, <1>2 DEF Resolve

LEMMA ExpireCloses ==
  ASSUME TypeOK, ExpireStale \/ ExpireNext
  PROVE  /\ \/ UNCHANGED memory
            \/ \E k \in Key : /\ Close("expiry", k) /\ IsOpen(k)
                              /\ expiry' # expiry \/ expiring' # expiring
         /\ UNCHANGED <<kafka, event, todo>>
<1>1. CASE ExpireStale
  BY <1>1 DEF ExpireStale, Stale, IsStale
<1>2. CASE ExpireNext
  <2>1. UNCHANGED memory
        \/ \E k \in expiring : Close("expiry", k) /\ IsOpen(k) /\ expiring' = expiring \ {k}
    BY <1>2 DEF ExpireNext
  <2> QED
    BY <1>2, <2>1 DEF ExpireNext, TypeOK
<1> QED
  BY <1>1, <1>2

(* All that the registry of entities has to know of a step of the other. *)
LEMMA AnomalyStepCritical ==
  ASSUME TypeOK, AnomalyStep
  PROVE  /\ event' = event /\ kafka' \in {kafka, "idle"}
         /\ expired \subseteq expired'
         /\ \A e \in Entity \ expired' :
              /\ CriticalOpen(e) => CriticalOpen(e)' \/ (kafka = "resolving" /\ e \in Mentioned)
              /\ event.severity = "critical" /\ ToUpdate(e) => ToUpdate(e)' \/ CriticalOpen(e)'
<1>1. expired \subseteq expired'
      /\ \A k \in Closed : Unresolved(k) => k[1] \in expired'
  BY DEF AnomalyStep
<1>2. CASE Tick \/ \E w \in sending : WriteLands(w)
  <2>1. UNCHANGED <<memory, kafka, event, todo>>
    BY <1>2 DEF Tick, WriteLands
  <2> QED
    BY <1>1, <2>1 DEF CriticalOpen, IsOpen, ToUpdate
<1>3. CASE Update
  <2>1. event' = event /\ kafka' \in {kafka, "idle"}
    BY <1>3 DEF Update, EventEnds
  <2> QED
    BY <1>1, <1>3, <2>1, UpdateCritical
<1>4. CASE Resolve
  <2>1. kafka = "resolving" /\ kafka' \in {"resolving", "idle"} /\ event' = event
    BY <1>4, ResolveCloses
  <2>2. CASE UNCHANGED memory
    BY <1>1, <2>1, <2>2 DEF CriticalOpen, IsOpen, ToUpdate
  <2>3. CASE \E k \in Key : Close("kafka", k) /\ IsOpen(k)
    <3>1. PICK k \in Key : Close("kafka", k) /\ IsOpen(k)
      BY <2>3
    <3>2. k \in Closed /\ \A e : e # k[1] /\ CriticalOpen(e) => CriticalOpen(e)'
      BY <3>1, CloseCritical
    <3>3. k[1] \in Mentioned \/ k[1] \in expired'
      BY <1>1, <3>2 DEF Unresolved
    <3> QED
      BY <1>1, <2>1, <3>2, <3>3 DEF ToUpdate
  <2> QED
    BY <1>4, <2>2, <2>3, ResolveCloses
<1>5. CASE ExpireStale \/ ExpireNext
  <2>1. UNCHANGED <<kafka, event, todo>>
    BY <1>5, ExpireCloses
  <2>2. CASE UNCHANGED memory
    BY <1>1, <2>1, <2>2 DEF CriticalOpen, IsOpen, ToUpdate
  <2>3. CASE \E k \in Key : /\ Close("expiry", k) /\ IsOpen(k)
                            /\ expiry' # expiry \/ expiring' # expiring
    <3>1. PICK k \in Key : /\ Close("expiry", k) /\ IsOpen(k)
                           /\ expiry' # expiry \/ expiring' # expiring
      BY <2>3
    <3>2. k \in Closed /\ \A e : e # k[1] /\ CriticalOpen(e) => CriticalOpen(e)'
      BY <3>1, CloseCritical
    <3>3. k[1] \in expired'
      BY <1>1, <3>1, <3>2 DEF Unresolved
    <3> QED
      BY <1>1, <2>1, <3>2, <3>3 DEF ToUpdate
  <2> QED
    BY <1>5, <2>2, <2>3, ExpireCloses
<1> QED
  BY <1>2, <1>3, <1>4, <1>5 DEF AnomalyStep

-------------------------------------------------------------------------------
(* What the Kafka loop is at *)

LEMMA SameKafka ==
  ASSUME KafkaInv, UNCHANGED <<kafka, event, todo>>
  PROVE  KafkaInv'
BY DEF KafkaInv, Mentioned

LEMMA UpdateKafka ==
  ASSUME TypeOK, KafkaInv, Update
  PROVE  KafkaInv'
<1>1. kafka = "updating" /\ event' = event /\ todo \in Seq(Entity)
  BY DEF Update, TypeOK
<1>2. Mentioned' = Mentioned
  BY <1>1 DEF Mentioned
<1>3. CASE todo = <<>>
  BY <1>3 DEF Update, EventEnds, KafkaInv
<1>4. CASE todo # <<>>
  <2>1. kafka' = kafka /\ todo' = Tail(todo)
    BY <1>4 DEF Update
  <2>2. \A i \in DOMAIN Tail(todo) : i + 1 \in DOMAIN todo /\ Tail(todo)[i] = todo[i + 1]
    <3>1. /\ Len(todo) \in Nat \ {0} /\ DOMAIN todo = 1 .. Len(todo)
          /\ DOMAIN Tail(todo) = 1 .. Len(todo) - 1
          /\ \A i \in 1 .. Len(todo) - 1 : Tail(todo)[i] = todo[i + 1]
      BY <1>1, <1>4, HeadTailProperties
    <3> QED
      BY <3>1
  <2> QED
    BY <1>1, <1>2, <2>1, <2>2 DEF KafkaInv
<1> QED
  BY <1>3, <1>4

LEMMA WorldStepKafka ==
  ASSUME TypeOK, KafkaInv, [WorldNext]_worldVars
  PROVE  KafkaInv'
<1>1. CASE UNCHANGED <<kafka, event, todo>>
  BY <1>1, SameKafka
<1>2. CASE Process
  <2>1. /\ todo' = event'.refs
        /\ kafka' = IF event'.kind \in Resolving THEN "resolving"
                    ELSE IF event'.severity = "info" THEN "idle" ELSE "updating"
    BY <1>2 DEF Process, Deliver
  <2> QED
    BY <2>1 DEF KafkaInv, Mentioned
<1>3. CASE Upsert \/ SyncStarts \/ (\E e \in Entity : Sync(e))
           \/ (\E w \in writing : EntityWriteLands(w) \/ EntityWriteFails(w))
           \/ UNCHANGED worldVars
  BY <1>1, <1>3 DEF Upsert, SyncStarts, Sync, EntityWriteLands, EntityWriteFails, worldVars, vars
<1>4. CASE AnomalyStep
  <2>1. CASE Tick \/ \E w \in sending : WriteLands(w)
    BY <1>1, <2>1 DEF Tick, WriteLands
  <2>2. CASE Update
    BY <2>2, UpdateKafka
  <2>3. CASE Resolve
    BY <2>3, ResolveCloses DEF KafkaInv
  <2>4. CASE ExpireStale \/ ExpireNext
    BY <1>1, <2>4, ExpireCloses
  <2> QED
    BY <1>4, <2>1, <2>2, <2>3, <2>4 DEF AnomalyStep
<1>5. CASE \E w \in sending : AnomalyWriteFails(w)
  <2>1. UNCHANGED <<kafka, event, todo>> \/ kafka' = "idle"
    BY <1>5 DEF AnomalyWriteFails, WriteFails, EventEnds
  <2> QED
    BY <1>1, <2>1 DEF KafkaInv
<1>6. CASE WorldRestart
  BY <1>6 DEF WorldRestart, Restart, EventEnds, KafkaInv
<1> QED
  BY <1>2, <1>3, <1>4, <1>5, <1>6 DEF WorldNext

-------------------------------------------------------------------------------
(* Critical entities and critical anomalies *)

LEMMA SameCritical ==
  ASSUME CriticalInv, UNCHANGED <<memory, kafka, event, todo, due>>,
         \A e \in Entity : entity'[e].health = entity[e].health,
         expired \subseteq expired', astray \subseteq astray'
  PROVE  CriticalInv'
<1>1. Mentioned' = Mentioned
  BY DEF Mentioned
<1>2. \A e : /\ CriticalOpen(e)' <=> CriticalOpen(e)
             /\ ToUpdate(e)' <=> ToUpdate(e)
             /\ ToUpsert(e)' <=> ToUpsert(e)
  BY DEF CriticalOpen, IsOpen, ToUpdate, ToUpsert
<1> QED
  BY <1>1, <1>2 DEF CriticalInv

(* Both registries are done with the event before; what a critical event is
   about has expired no more, and both have it to do. *)
LEMMA ProcessCritical ==
  ASSUME CriticalInv, Process
  PROVE  CriticalInv'
<1>1. /\ kafka = "idle" /\ due = <<>>
      /\ todo' = event'.refs /\ due' = event'.refs
      /\ kafka' = IF event'.kind \in Resolving THEN "resolving"
                  ELSE IF event'.severity = "info" THEN "idle" ELSE "updating"
      /\ UNCHANGED <<memory, entity, astray>>
      /\ expired' = IF event'.severity = "critical" THEN expired \ Mentioned' ELSE expired
  BY DEF Process, Deliver
<1>2. \A e : ~ToUpdate(e) /\ ~ToUpsert(e)
  BY <1>1 DEF ToUpdate, ToUpsert
<1>3. \A e : CriticalOpen(e)' <=> CriticalOpen(e)
  BY <1>1 DEF CriticalOpen, IsOpen
<1>4. \A e : ToUpsert(e)' <=> e \in Mentioned'
  BY <1>1 DEF ToUpsert, Mentioned
<1>5. \A e : ToUpdate(e)' <=> kafka' = "updating" /\ e \in Mentioned'
  BY <1>1 DEF ToUpdate, Mentioned
<1>6. ASSUME NEW e \in Entity \ (expired' \cup astray')
      PROVE  /\ entity'[e].health = "critical" =>
                  \/ CriticalOpen(e)'
                  \/ event'.severity = "critical" /\ ToUpdate(e)'
                  \/ event'.kind \in Resolving /\ ToUpsert(e)'
             /\ event'.severity = "critical" /\ event'.kind \notin Resolving /\ ToUpsert(e)' =>
                  CriticalOpen(e)' \/ ToUpdate(e)'
             /\ entity'[e].health = "critical" /\ kafka' = "resolving" /\ e \in Mentioned' =>
                  ToUpsert(e)'
  <2>1. CASE e \in Mentioned' /\ event'.severity = "critical"
    BY <1>1, <1>4, <1>5, <2>1
  <2>2. CASE ~(e \in Mentioned' /\ event'.severity = "critical")
    <3>1. e \in Entity \ (expired \cup astray)
      BY <1>1, <1>6, <2>2
    <3>2. entity[e].health = "critical" => CriticalOpen(e)
      BY <1>2, <3>1 DEF CriticalInv
    <3> QED
      BY <1>1, <1>3, <1>4, <2>2, <3>2
  <2> QED
    BY <2>1, <2>2
<1> QED
  BY <1>6 DEF CriticalInv

(* An entity that becomes critical has its anomaly open, or about to be; one
   that stays critical is about to do so by an event that resolves nothing. *)
LEMMA UpsertCritical ==
  ASSUME EntityTypes, WorkTypes, KafkaInv, CriticalInv, Upsert
  PROVE  CriticalInv'
<1>1. PICK h \in Entity : h = Head(due)
  BY DueLemma DEF Upsert, WorkTypes
<1>2. /\ due # <<>> /\ due \in Seq(Entity) /\ due' = Tail(due)
      /\ UNCHANGED <<memory, kafka, event, todo, expired, astray>>
  BY DEF Upsert, vars, WorkTypes
<1>3. entity'[h].health = NewHealth(h) /\ \A e \in Entity : e # h => entity'[e] = entity[e]
  BY <1>1 DEF Upsert, EntityTypes
<1>4. Mentioned' = Mentioned
  BY <1>2 DEF Mentioned
<1>5. \A e : (CriticalOpen(e)' <=> CriticalOpen(e)) /\ (ToUpdate(e)' <=> ToUpdate(e))
  BY <1>2 DEF CriticalOpen, IsOpen, ToUpdate
<1>6. /\ ToUpsert(h)
      /\ \A e : e # h => (ToUpsert(e)' <=> ToUpsert(e))
      /\ \A e : ToUpsert(e)' => ToUpsert(e)
  BY <1>1, <1>2, DueLemma DEF ToUpsert
<1>7. NewHealth(h) = "critical" =>
        \/ event.severity = "critical" /\ event.kind \notin Resolving
        \/ entity[h].health = "critical" /\ event.kind \notin Resolving
  BY DEF NewHealth, SeverityToHealth
<1>8. kafka = "resolving" => event.kind \in Resolving
  BY DEF KafkaInv
<1>9. ASSUME NEW e \in Entity \ (expired \cup astray)
      PROVE  /\ entity'[e].health = "critical" =>
                  \/ CriticalOpen(e)
                  \/ event.severity = "critical" /\ ToUpdate(e)
                  \/ event.kind \in Resolving /\ ToUpsert(e)'
             /\ event.severity = "critical" /\ event.kind \notin Resolving /\ ToUpsert(e)' =>
                  CriticalOpen(e) \/ ToUpdate(e)
             /\ entity'[e].health = "critical" /\ kafka = "resolving" /\ e \in Mentioned =>
                  ToUpsert(e)'
  <2>1. CASE e = h
    BY <1>3, <1>6, <1>7, <1>8, <2>1 DEF CriticalInv
  <2>2. CASE e # h
    BY <1>3, <1>6, <2>2 DEF CriticalInv
  <2> QED
    BY <2>1, <2>2
<1> QED
  BY <1>2, <1>4, <1>5, <1>9 DEF CriticalInv

LEMMA AnomalyCritical ==
  ASSUME TypeOK, KafkaInv, CriticalInv, AnomalyStep
  PROVE  CriticalInv'
<1>1. /\ event' = event /\ kafka' \in {kafka, "idle"} /\ expired \subseteq expired'
      /\ \A e \in Entity \ expired' :
           /\ CriticalOpen(e) => CriticalOpen(e)' \/ (kafka = "resolving" /\ e \in Mentioned)
           /\ event.severity = "critical" /\ ToUpdate(e) => ToUpdate(e)' \/ CriticalOpen(e)'
  BY AnomalyStepCritical
<1>2. entity' = entity /\ due' = due /\ astray' = astray
  BY DEF AnomalyStep, entityVars
<1>3. Mentioned' = Mentioned /\ \A e : ToUpsert(e)' <=> ToUpsert(e)
  BY <1>1, <1>2 DEF Mentioned, ToUpsert
<1>4. kafka = "resolving" => event.kind \in Resolving
  BY DEF KafkaInv
<1>5. ASSUME NEW e \in Entity \ (expired' \cup astray)
      PROVE  /\ entity[e].health = "critical" =>
                  \/ CriticalOpen(e)'
                  \/ event.severity = "critical" /\ ToUpdate(e)'
                  \/ event.kind \in Resolving /\ ToUpsert(e)
             /\ event.severity = "critical" /\ event.kind \notin Resolving /\ ToUpsert(e) =>
                  CriticalOpen(e)' \/ ToUpdate(e)'
             /\ entity[e].health = "critical" /\ kafka' = "resolving" /\ e \in Mentioned =>
                  ToUpsert(e)
  <2>1. e \in Entity \ (expired \cup astray)
    BY <1>1
  <2> QED
    BY <1>1, <1>4, <2>1 DEF CriticalInv
<1> QED
  BY <1>1, <1>2, <1>3, <1>5 DEF CriticalInv

(* A failed write of an anomaly ends the event, and leads its entities astray,
   or the expiry loop. *)
LEMMA AnomalyFailsCritical ==
  ASSUME KafkaInv, CriticalInv, NEW w \in sending, AnomalyWriteFails(w)
  PROVE  CriticalInv'
<1>1. UNCHANGED <<memory, event, entity, due, expired>> /\ astray \subseteq astray'
  BY DEF AnomalyWriteFails, WriteFails, entityVars
<1>2. CASE w.by = "kafka"
  <2>1. kafka' = "idle" /\ astray' = astray \cup Mentioned
    BY <1>2 DEF AnomalyWriteFails, WriteFails, EventEnds
  <2>2. Mentioned' = Mentioned /\ \A e : /\ ToUpsert(e)' <=> ToUpsert(e)
                                         /\ CriticalOpen(e)' <=> CriticalOpen(e)
    BY <1>1 DEF Mentioned, ToUpsert, CriticalOpen, IsOpen
  <2>3. \A e : ToUpdate(e) => e \in Mentioned
    BY DEF ToUpdate, KafkaInv
  <2> QED
    BY <1>1, <2>1, <2>2, <2>3 DEF CriticalInv
<1>3. CASE w.by # "kafka"
  <2>1. UNCHANGED <<kafka, todo>>
    BY <1>3 DEF AnomalyWriteFails, WriteFails
  <2> QED
    BY <1>1, <2>1, SameCritical
<1> QED
  BY <1>2, <1>3

LEMMA EntityFailsCritical ==
  ASSUME CriticalInv, NEW w \in writing, EntityWriteFails(w)
  PROVE  CriticalInv'
<1>1. UNCHANGED <<memory, kafka, event, todo, entity, expired>>
  BY DEF EntityWriteFails
<1>2. CASE w.by = "upsert"
  <2>1. due' = <<>> /\ astray' = astray \cup {due[i] : i \in DOMAIN due}
    BY <1>2 DEF EntityWriteFails
  <2>2. \A e : ToUpsert(e) => e \in astray'
    BY <2>1 DEF ToUpsert
  <2>3. \A e : ~ToUpsert(e)'
    BY <2>1 DEF ToUpsert
  <2>4. Mentioned' = Mentioned /\ \A e : /\ ToUpdate(e)' <=> ToUpdate(e)
                                         /\ CriticalOpen(e)' <=> CriticalOpen(e)
    BY <1>1 DEF Mentioned, ToUpdate, CriticalOpen, IsOpen
  <2> QED
    BY <1>1, <2>1, <2>2, <2>3, <2>4 DEF CriticalInv
<1>3. CASE w.by # "upsert"
  BY <1>1, <1>3, SameCritical DEF EntityWriteFails
<1> QED
  BY <1>2, <1>3

(* A restart brings back an entity and its anomalies together, unless it leads
   it astray. *)
LEMMA RestartCritical ==
  ASSUME Inv, EntityTypes, WorkTypes, EntitiesInv, KafkaInv, CriticalInv, WorldRestart
  PROVE  CriticalInv'
<1>1. /\ memory' = [k \in Key |-> IF redis[k].status = "open" THEN redis[k] ELSE None]
      /\ kafka' = "idle" /\ entity' = stored /\ due' = <<>>
      /\ UNCHANGED <<event, expired>>
      /\ astray' = astray \cup mixed \cup {w.entity : w \in writing}
                          \cup {k[1] : k \in unsure} \cup {w.key[1] : w \in sending}
                          \cup IF kafka = "idle" /\ due = <<>> THEN {} ELSE Mentioned
  BY DEF WorldRestart, Restart, EventEnds
<1>2. \A e : ~ToUpsert(e)'
  BY <1>1 DEF ToUpsert
<1>3. \A e : ToUpdate(e) \/ ToUpsert(e) => e \in Mentioned /\ ~(kafka = "idle" /\ due = <<>>)
  BY DEF ToUpdate, ToUpsert, KafkaInv, WorkTypes
<1>4. ASSUME NEW e \in Entity \ (expired \cup astray'), stored[e].health = "critical"
      PROVE  CriticalOpen(e)'
  <2>1. stored[e] = entity[e]
    BY <1>1, <1>4 DEF EntitiesInv
  <2>2. ~ToUpdate(e) /\ ~ToUpsert(e)
    BY <1>1, <1>3, <1>4
  <2>3. CriticalOpen(e)
    BY <1>1, <1>4, <2>1, <2>2 DEF CriticalInv
  <2>4. PICK k \in Key : k[1] = e /\ IsOpen(k) /\ memory[k].severity = "critical"
    BY <2>3 DEF CriticalOpen
  <2>5. k \notin unsure /\ \A w \in sending : w.key # k
    BY <1>1, <1>4, <2>4
  <2>6. redis[k] = memory[k]
    BY <2>4, <2>5 DEF Inv, AgreeInv
  <2>7. memory'[k] = memory[k]
    BY <1>1, <2>4, <2>6 DEF IsOpen
  <2> QED
    BY <2>4, <2>7 DEF CriticalOpen, IsOpen
<1> QED
  BY <1>1, <1>2, <1>4 DEF CriticalInv

LEMMA WorldStepCritical ==
  ASSUME Inv, EntityTypes, WorkTypes, EntitiesInv, KafkaInv, CriticalInv,
         [WorldNext]_worldVars
  PROVE  CriticalInv'
<1>1. CASE Process
  BY <1>1, ProcessCritical
<1>2. CASE Upsert
  BY <1>2, UpsertCritical
<1>3. CASE SyncStarts \/ (\E w \in writing : EntityWriteLands(w)) \/ UNCHANGED worldVars
  <2>1. UNCHANGED <<memory, kafka, event, todo, due, entity, expired, astray>>
    BY <1>3 DEF SyncStarts, EntityWriteLands, worldVars, vars, entityVars, historyVars
  <2> QED
    BY <2>1, SameCritical
<1>4. CASE \E e \in Entity : Sync(e)
  <2>1. PICK e \in Entity : Sync(e)
    BY <1>4
  <2>2. /\ UNCHANGED <<memory, kafka, event, todo, due, expired, astray>>
        /\ \/ entity' = entity
           \/ entity' = [entity EXCEPT ![e] = [entity[e] EXCEPT !.temporal = polling[e]]]
    BY <2>1 DEF Sync, vars, historyVars
  <2>3. entity[e] \in EntityState
    BY DEF EntityTypes
  <2>4. [entity[e] EXCEPT !.temporal = polling[e]].health = entity[e].health
    BY <2>3 DEF EntityState
  <2>5. \A f \in Entity : entity'[f].health = entity[f].health
    BY <2>2, <2>4 DEF EntityTypes
  <2> QED
    BY <2>2, <2>5, SameCritical
<1>5. CASE AnomalyStep
  BY <1>5, AnomalyCritical DEF Inv
<1>6. CASE \E w \in sending : AnomalyWriteFails(w)
  BY <1>6, AnomalyFailsCritical
<1>7. CASE \E w \in writing : EntityWriteFails(w)
  BY <1>7, EntityFailsCritical
<1>8. CASE WorldRestart
  BY <1>8, RestartCritical
<1> QED
  BY <1>1, <1>2, <1>3, <1>4, <1>5, <1>6, <1>7, <1>8 DEF WorldNext

-------------------------------------------------------------------------------
(* The theorems *)

LEMMA WorldInitInv == WorldInit => WorldInv
<1> SUFFICES ASSUME WorldInit PROVE WorldInv
  OBVIOUS
<1>1. Inv
  BY InitInv DEF WorldInit
<1>2. event \in Event /\ kafka = "idle"
  BY DEF WorldInit, Init
<1>3. EntityTypes
  BY AbsentLemma DEF WorldInit, EntityTypes
<1>4. <<>> \in Seq(Entity)
  BY EmptySeq
<1>5. DOMAIN due = {} /\ DOMAIN polling = {}
  BY DEF WorldInit
<1>6. WorkTypes
  BY <1>4, <1>5 DEF WorldInit, WorkTypes
<1>7. PresentInv /\ EntitiesInv
  BY <1>2 DEF WorldInit, PresentInv, EntitiesInv
<1>8. KafkaInv
  BY <1>2 DEF KafkaInv
<1>9. CriticalInv
  <2>1. \A e \in Entity : entity[e].health # "critical"
    BY AbsentLemma DEF WorldInit
  <2>2. \A e : ~ToUpsert(e)
    BY <1>5 DEF ToUpsert
  <2> QED
    BY <2>1, <2>2 DEF CriticalInv
<1> QED
  BY <1>1, <1>3, <1>6, <1>7, <1>8, <1>9, WorldTypesSplit DEF WorldInv, Inv

LEMMA WorldStep ==
  ASSUME WorldInv, [WorldNext]_worldVars
  PROVE  WorldInv'
<1>1. TypeOK /\ EntityTypes /\ WorkTypes
  BY WorldTypesSplit DEF WorldInv
<1>2. Inv' /\ WorldTypeOK' /\ PresentInv'
  BY WorldStepInv, WorldStepTypes DEF WorldInv
<1>3. EntitiesInv'
  BY <1>1, WorldStepEntities DEF WorldInv
<1>5. KafkaInv'
  BY <1>1, WorldStepKafka DEF WorldInv
<1>6. CriticalInv'
  BY <1>1, WorldStepCritical DEF WorldInv
<1> QED
  BY <1>2, <1>3, <1>5, <1>6 DEF WorldInv

(* The invariant of both registries (core.py:104-161, entity_registry.py:54-116,
   anomaly_registry.py:50-124). *)
THEOREM WorldInvariant == WorldSpec => []WorldInv
<1>1. WorldInit => WorldInv
  BY WorldInitInv
<1>2. WorldInv /\ [WorldNext]_worldVars => WorldInv'
  BY WorldStep
<1> QED
  BY <1>1, <1>2, PTL DEF WorldSpec

(* The registries keep their types: an entity that Redis has is in memory, the
   sync loop asks only for entities that are there, each writer has one write
   under way (entity_registry.py:54-62, 101-116, core.py:119-161). *)
THEOREM WorldTypeCorrect == WorldSpec => []WorldTypeOK
<1>1. WorldInv => WorldTypeOK
  BY DEF WorldInv
<1> QED
  BY <1>1, WorldInvariant, PTL

(* Redis has each entity as memory has it, when no write of it is under way,
   none failed and no two were mixed (entity_registry.py:54-62, 101-103,
   114-116). *)
THEOREM RedisHasTheEntities == WorldSpec => []EntitiesAgree
<1>1. WorldInv => EntitiesAgree
  BY DEF WorldInv, EntitiesInv, EntitiesAgree
<1> QED
  BY <1>1, WorldInvariant, PTL

(* Between two events every critical entity has a critical anomaly open, unless
   that expired or went with another entity's (core.py:104-109, 139-161,
   entity_registry.py:77-83, anomaly_registry.py:84-124). *)
THEOREM CriticalEntityIsOpen == WorldSpec => []CriticalIsOpen
<1>1. WorldInv => CriticalIsOpen
  <2> SUFFICES ASSUME WorldInv, kafka = "idle", due = <<>>,
                      NEW e \in Entity \ (expired \cup astray), entity[e].health = "critical"
               PROVE  CriticalOpen(e)
    BY DEF CriticalIsOpen, CriticalOpen
  <2>1. ~ToUpdate(e) /\ ~ToUpsert(e)
    BY DEF ToUpdate, ToUpsert
  <2> QED
    BY <2>1 DEF WorldInv, CriticalInv
<1> QED
  BY <1>1, WorldInvariant, PTL

-------------------------------------------------------------------------------
(* The anomaly registry keeps its promises beside the entity registry, which
   may fail in its stead and starts its events later: it implements nothing
   less there, though not AnomalyRegistry's Spec, since the two share their
   faults. *)

(* Redis has what the anomaly registry has open, beside the writes of entities
   and through restarts of both (anomaly_registry.py:50-59, core.py:104-109). *)
THEOREM RedisHasTheAnomalies == WorldSpec => []RedisAgrees
<1>1. WorldInv => RedisAgrees
  BY DEF WorldInv, Inv, AgreeInv, RedisAgrees
<1> QED
  BY <1>1, WorldInvariant, PTL

(* A resolution event closes every anomaly of its entities, whatever the entity
   registry, the sync loop and the expiry loop do meanwhile
   (anomaly_registry.py:69-72, 119-124, core.py:104-109). *)
THEOREM WorldResolutionClosesAll == WorldSpec => ResolutionCloses
<1>1. ASSUME Inv, [WorldNext]_worldVars, kafka = "resolving", kafka' = "idle",
             closing = {}, faults' = faults
      PROVE  \A i \in DOMAIN event.refs : KeysToClose(event.refs[i])' = {}
  <2>1. ~(\E w \in writing : EntityWriteFails(w))
    BY <1>1 DEF EntityWriteFails
  <2>2. CASE Process \/ AnomalyStep \/ (\E w \in sending : AnomalyWriteFails(w)) \/ WorldRestart
    <3>1. [Next]_vars
      BY <2>2 DEF Process, AnomalyStep, AnomalyWriteFails, WorldRestart, Next
    <3> QED
      BY <1>1, <3>1, ResolutionEnds
  <2>3. CASE Upsert \/ SyncStarts \/ (\E e \in Entity : Sync(e))
             \/ (\E w \in writing : EntityWriteLands(w)) \/ UNCHANGED worldVars
    BY <1>1, <2>3 DEF Upsert, SyncStarts, Sync, EntityWriteLands, worldVars, vars
  <2> QED
    BY <1>1, <2>1, <2>2, <2>3 DEF WorldNext
<1>2. WorldInv /\ [WorldNext]_worldVars
        => [kafka = "resolving" /\ kafka' = "idle" /\ closing = {} /\ faults' = faults =>
              \A i \in DOMAIN event.refs : KeysToClose(event.refs[i])' = {}]_vars
  BY <1>1 DEF WorldInv
<1> QED
  BY <1>2, WorldInvariant, PTL DEF WorldSpec, ResolutionCloses
================================================================================
