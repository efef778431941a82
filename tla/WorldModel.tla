-------------------------------- MODULE WorldModel --------------------------------
(***************************************************************************)
(* The World Model (world_model/core.py): the entity registry              *)
(* (world_model/entity_registry.py) beside the anomaly registry.  The      *)
(* Kafka loop hands each event to both, at once, and waits for both; the   *)
(* temporal sync loop reads the state of every entity from the temporal    *)
(* engine and writes it into the entity.  Each write of an entity to Redis *)
(* is awaited, on a connection of its own.                                 *)
(***************************************************************************)
EXTENDS AnomalyRegistry

(* SEVERITY_SCORE: the worst has the highest. *)
Score == [critical |-> 5, high |-> 4, medium |-> 3, low |-> 2, info |-> 1]

Health == {"absent", "healthy", "degraded", "critical"}

Writer == {"upsert", "sync"}

(* temporal is the event type whose trend was last read for the entity. *)
EntityState ==
  [health: Health, score: DOMAIN Score, kind: {"none"} \cup Kind,
   temporal: {"none"} \cup Kind]

Absent == [health |-> "absent", score |-> "info", kind |-> "none", temporal |-> "none"]

VARIABLES
  entity,    \* _store: the state of each entity, or Absent
  stored,    \* the hash wm:entity_registry
  due,       \* the entities of the event that upsert_from_event has to do
  polling,   \* the entities the sync loop has to ask for, with the event type
             \* they had when it started
  writing,   \* writes of entities under way
  mixed,     \* entities for which a write failed or two were under way at
             \* once, since the start (history)
  expired,   \* entities an anomaly of which was closed, though no event has
             \* resolved it, since the last critical event (history)
  astray     \* entities that a failed write or a restart has kept from one of
             \* the two registries (history)

entityVars == <<entity, stored, due, polling, writing, mixed>>

historyVars == <<expired, astray>>

worldVars == <<vars, entityVars, historyVars>>

Mentioned == {event.refs[i] : i \in DOMAIN event.refs}

WorldTypeOK ==
  /\ TypeOK
  /\ entity \in [Entity -> EntityState]
  /\ stored \in [Entity -> EntityState]
  /\ \A e \in Entity : entity[e] = Absent => stored[e] = Absent
  /\ due \in Seq(Entity)
  /\ \A i \in DOMAIN due : due[i] \in Mentioned
  /\ \A e \in DOMAIN polling : e \in Entity /\ entity[e] # Absent /\ polling[e] \in Kind
  /\ writing \subseteq [by: Writer, entity: Entity, state: EntityState]
  /\ \A w, x \in writing : w.by = x.by => w = x
  /\ mixed \subseteq Entity /\ expired \subseteq Entity /\ astray \subseteq Entity

WorldInit ==
  /\ Init
  /\ entity = [e \in Entity |-> Absent] /\ stored = entity
  /\ due = <<>> /\ polling = << >> /\ writing = {}
  /\ mixed = {} /\ expired = {} /\ astray = {}

-------------------------------------------------------------------------------
(* Writes of entities *)

(* Mutant: a write is sent and not awaited. *)
FreeOrNot(writer) == writer \in Writer

(* A writer goes on when its write has been answered. *)
Free(writer) == \A w \in writing : w.by # writer

Write(writer, e, state) ==
  /\ writing' = writing \cup {[by |-> writer, entity |-> e, state |-> state]}
  /\ mixed' = IF \E w \in writing : w.entity = e THEN mixed \cup {e} ELSE mixed

EntityWriteLands(w) ==
  /\ w \in writing
  /\ stored' = [stored EXCEPT ![w.entity] = w.state]
  /\ writing' = writing \ {w}
  /\ UNCHANGED <<vars, entity, due, polling, mixed, historyVars>>

(* The exception ends upsert_from_event, or is swallowed by the sync loop. *)
EntityWriteFails(w) ==
  /\ w \in writing /\ Fault
  /\ stored' \in {stored, [stored EXCEPT ![w.entity] = w.state]}
  /\ writing' = writing \ {w}
  /\ mixed' = mixed \cup {w.entity}
  /\ IF w.by = "upsert"
     THEN due' = <<>> /\ astray' = astray \cup {due[i] : i \in DOMAIN due}
     ELSE UNCHANGED <<due, astray>>
  /\ UNCHANGED <<now, memory, redis, sending, kafka, event, todo, closing, expiry,
                 expiring, unsure, taken, entity, polling, expired>>

-------------------------------------------------------------------------------
(* upsert_from_event *)

(* _process_event: the event goes to both registries, if both are done with
   the one before. *)
Process ==
  /\ due = <<>> /\ Free("upsert")
  /\ Deliver
  /\ due' = event'.refs
  /\ expired' = IF event'.severity = "critical" THEN expired \ Mentioned' ELSE expired
  /\ UNCHANGED <<entity, stored, polling, writing, mixed, astray>>

SeverityToHealth(severity, kind) ==
  IF kind \in Resolving THEN "healthy"
  ELSE IF severity = "critical" THEN "critical"
  ELSE IF severity \in {"high", "medium"} THEN "degraded" ELSE "healthy"

(* Only the event before is looked at: if it was worse, the health stays. *)
NewHealth(e) ==
  IF Score[entity[e].score] > Score[event.severity]
       /\ event.kind \notin Resolving
  THEN entity[e].health
  ELSE SeverityToHealth(event.severity, event.kind)

Upsert ==
  /\ due # <<>> /\ Free("upsert")
  /\ LET e == Head(due)
         state == [health |-> NewHealth(e), score |-> event.severity, kind |-> event.kind,
                   temporal |-> entity[e].temporal]
     IN  /\ entity' = [entity EXCEPT ![e] = state]
         /\ Write("upsert", e, state)
  /\ due' = Tail(due)
  /\ UNCHANGED <<vars, stored, polling, expired, astray>>

-------------------------------------------------------------------------------
(* _temporal_sync_loop and update_temporal_state *)

Known == {e \in Entity : entity[e] # Absent}

SyncStarts ==
  /\ polling = << >> /\ Free("sync") /\ Known # {}
  /\ polling' = [e \in Known |-> entity[e].kind]
  /\ UNCHANGED <<vars, entity, stored, due, writing, mixed, historyVars>>

(* Mutant: the temporal fields are not written to Redis. *)
SyncUnsaved(e) ==
  /\ e \in DOMAIN polling /\ Free("sync")
  /\ polling' = [f \in DOMAIN polling \ {e} |-> polling[f]]
  /\ entity' = [entity EXCEPT ![e] = [@ EXCEPT !.temporal = polling[e]]]
  /\ UNCHANGED <<vars, stored, due, writing, mixed, historyVars>>

(* The next entity is done: its state has come and is put into the object that
   is in the registry by now, or it has not come. *)
Sync(e) ==
  /\ e \in DOMAIN polling /\ Free("sync")
  /\ polling' = [f \in DOMAIN polling \ {e} |-> polling[f]]
  /\ \/ LET state == [entity[e] EXCEPT !.temporal = polling[e]]
        IN  /\ entity' = [entity EXCEPT ![e] = state]
            /\ Write("sync", e, state)
     \/ UNCHANGED <<entity, writing, mixed>>
  /\ UNCHANGED <<vars, stored, due, historyVars>>

-------------------------------------------------------------------------------
(* The anomaly registry meanwhile *)

Closed == {k \in Key : IsOpen(k) /\ ~IsOpen(k)'}

(* The expiry loop is at work, or an event of another entity. *)
Unresolved(k) == expiry' # expiry \/ expiring' # expiring \/ k[1] \notin Mentioned

AnomalyStep ==
  /\ \/ Tick
     \/ Update
     \/ Resolve
     \/ ExpireStale
     \/ ExpireNext
     \/ \E w \in sending : WriteLands(w)
  /\ expired' = expired \cup {k[1] : k \in {k \in Closed : Unresolved(k)}}
  /\ UNCHANGED <<entityVars, astray>>

(* A failed write ends process_event, or the expiry loop. *)
AnomalyWriteFails(w) ==
  /\ WriteFails(w)
  /\ astray' = IF w.by = "kafka" THEN astray \cup Mentioned ELSE astray
  /\ UNCHANGED <<entityVars, expired>>

(* The process dies and is started again: both registries load what Redis has. *)
WorldRestart ==
  /\ Restart
  /\ entity' = stored
  /\ due' = <<>> /\ polling' = << >> /\ writing' = {}
  /\ astray' = astray \cup mixed \cup {w.entity : w \in writing}
                      \cup {k[1] : k \in unsure} \cup {w.key[1] : w \in sending}
                      \cup IF kafka = "idle" /\ due = <<>> THEN {} ELSE Mentioned
  /\ mixed' = {}
  /\ UNCHANGED <<stored, expired>>

WorldNext ==
  \/ Process
  \/ Upsert
  \/ SyncStarts
  \/ \E e \in Entity : Sync(e)
  \/ AnomalyStep
  \/ \E w \in sending : AnomalyWriteFails(w)
  \/ \E w \in writing : EntityWriteLands(w) \/ EntityWriteFails(w)
  \/ WorldRestart

WorldSpec == WorldInit /\ [][WorldNext]_worldVars

-------------------------------------------------------------------------------
(* Properties *)

(* What is known of an entity in memory is what Redis has of it, so that a
   restart brings it back.  Excepted are entities whose write failed, and those
   the Kafka loop and the sync loop were writing at once, since their writes may
   land in either order (entity_registry.py:54-62, 101-103, 114-116). *)
EntitiesAgree ==
  \A e \in Entity :
    e \notin mixed /\ (\A w \in writing : w.entity # e) => stored[e] = entity[e]

IsBetter(health, former) ==
  \/ health = "healthy" /\ former \in {"degraded", "critical"}
  \/ health = "degraded" /\ former = "critical"

(* What the code says of itself: "Only downgrade health, never silently upgrade
   without a _resolved event" (entity_registry.py:80).  The check looks at the
   severity of the one event before, so a second event of the milder severity
   takes the health of a critical entity back. *)
UpgradedOnlyByResolution ==
  [][\A e \in Entity : IsBetter(entity'[e].health, entity[e].health)
                           => event.kind \in Resolving]_worldVars

(* Between two events the two registries tell the same story: a critical entity
   has a critical anomaly open, unless that was closed by the expiry loop or by
   the resolution of an entity whose id begins its own, which leave the health
   (core.py:104-109, 139-161, entity_registry.py:77-83, anomaly_registry.py:84-124). *)
CriticalIsOpen ==
  kafka = "idle" /\ due = <<>> =>
    \A e \in Entity \ (expired \cup astray) :
      entity[e].health = "critical" =>
        \E k \in Key : k[1] = e /\ IsOpen(k) /\ memory[k].severity = "critical"
================================================================================
