----------------------------- MODULE AnomalyRegistry -----------------------------
(***************************************************************************)
(* AnomalyRegistry (world_model/anomaly_registry.py) under the two loops   *)
(* of WorldModel that call it (world_model/core.py): the Kafka loop, which *)
(* processes one event at a time, and the expiry loop.  Both change the    *)
(* dict of open anomalies and then await the write of one anomaly to       *)
(* Redis, one connection each, so that the other loop may run, and its     *)
(* write land, in between.                                                 *)
(*                                                                         *)
(* Time passes in units of STALE_THRESHOLD_S: an anomaly last seen before  *)
(* the current unit is stale.                                              *)
(***************************************************************************)
EXTENDS Naturals, Sequences, FiniteSets

CONSTANTS Entity,     \* entity ids
          Prefix,     \* <<e, f>>: the id of f starts with the id of e
          Kind,       \* event types
          Resolving,  \* those that end in "_resolved" or "_restored"
          Refs,       \* the lists of entity_refs that events carry
          Reported,   \* the severities that events carry
          MaxEvents,  \* bound on the events
          MaxTime,    \* bound on the clock
          MaxFaults   \* bound on failed writes and restarts

(* SEVERITY_ORDER: the worst first. *)
Rank == [critical |-> 0, high |-> 1, medium |-> 2, low |-> 3, info |-> 4]

Severity == DOMAIN Rank

ASSUME RegistryAssumption ==
  /\ Prefix \subseteq Entity \X Entity
  /\ \A e \in Entity : <<e, e>> \in Prefix
  /\ Resolving \subseteq Kind
  /\ Refs \subseteq Seq(Entity)
  /\ Reported \subseteq Severity

ASSUME RegistryBounds == MaxEvents \in Nat /\ MaxTime \in Nat /\ MaxFaults \in Nat

Key == Entity \X Kind

Time == 0..MaxTime

Anomaly == [status: {"none", "open", "resolved"}, severity: Severity, seen: Time]

None == [status |-> "none", severity |-> "info", seen |-> 0]

Event == [refs: Refs, kind: Kind, severity: Reported, ts: Time]

Loop == {"kafka", "expiry"}

VARIABLES
  now,       \* the clock
  memory,    \* _open: None, or the anomaly open under the key
  redis,     \* the hash wm:anomalies
  sending,   \* writes under way
  kafka,     \* what the Kafka loop is at
  event,     \* the event it is at, or was
  todo,      \* the entities of it that are left
  closing,   \* keys_to_close: those left
  expiry,    \* what the expiry loop is at
  expiring,  \* stale_keys: those left
  unsure,    \* keys for which a write failed, or two were under way at once
  taken,     \* events so far
  faults     \* faults so far

vars == <<now, memory, redis, sending, kafka, event, todo, closing, expiry, expiring,
          unsure, taken, faults>>

TypeOK ==
  /\ now \in Time
  /\ memory \in [Key -> Anomaly] /\ redis \in [Key -> Anomaly]
  /\ \A k \in Key : memory[k] = None \/ memory[k].status = "open"
  /\ sending \subseteq [by: Loop, key: Key, anomaly: Anomaly]
  /\ \A w, x \in sending : w.by = x.by => w = x
  /\ kafka \in {"idle", "updating", "resolving"}
  /\ kafka # "idle" => event \in Event
  /\ todo \in Seq(Entity) /\ closing \subseteq Key
  /\ expiry \in {"asleep", "expiring", "dead"} /\ expiring \subseteq Key
  /\ expiry # "expiring" => expiring = {}
  /\ unsure \subseteq Key
  /\ taken \in 0..MaxEvents /\ faults \in 0..MaxFaults

Init ==
  /\ now = 0
  /\ memory = [k \in Key |-> None] /\ redis = [k \in Key |-> None]
  /\ sending = {}
  /\ kafka = "idle" /\ event \in Event /\ event.ts = 0 /\ todo = <<>> /\ closing = {}
  /\ expiry = "asleep" /\ expiring = {}
  /\ unsure = {} /\ taken = 0 /\ faults = 0

-------------------------------------------------------------------------------
IsOpen(k) == memory[k].status = "open"

IsStale(k) == IsOpen(k) /\ memory[k].seen < now

(* Mutant: a write is sent and not awaited. *)
AnsweredOrNot(loop) == loop \in Loop

(* A loop goes on when its write has been answered. *)
Answered(loop) == \A w \in sending : w.by # loop

(* _persist: the anomaly as it is now, on its way. *)
Send(loop, k, anomaly) ==
  /\ sending' = sending \cup {[by |-> loop, key |-> k, anomaly |-> anomaly]}
  /\ unsure' = IF \E w \in sending : w.key = k THEN unsure \cup {k} ELSE unsure

(* Mutant: what is closed is saved as it was. *)
CloseUnmarked(loop, k) ==
  /\ memory' = [memory EXCEPT ![k] = None]
  /\ Send(loop, k, memory[k])

Close(loop, k) ==
  /\ memory' = [memory EXCEPT ![k] = None]
  /\ Send(loop, k, [memory[k] EXCEPT !.status = "resolved"])

Tick ==
  /\ now < MaxTime
  /\ now' = now + 1
  /\ UNCHANGED <<memory, redis, sending, kafka, event, todo, closing, expiry, expiring,
                 unsure, taken, faults>>

WriteLands(w) ==
  /\ w \in sending
  /\ redis' = [redis EXCEPT ![w.key] = w.anomaly]
  /\ sending' = sending \ {w}
  /\ UNCHANGED <<now, memory, kafka, event, todo, closing, expiry, expiring, unsure,
                 taken, faults>>

-------------------------------------------------------------------------------
(* The Kafka loop and process_event.  Its timestamp may be an old one. *)

Deliver ==
  /\ kafka = "idle" /\ taken < MaxEvents
  /\ taken' = taken + 1
  /\ event' \in {ev \in Event : ev.ts <= now}
  /\ todo' = event'.refs
  /\ kafka' = IF event'.kind \in Resolving THEN "resolving"
              ELSE IF event'.severity = "info" THEN "idle" ELSE "updating"
  /\ UNCHANGED <<now, memory, redis, sending, closing, expiry, expiring, unsure, faults>>

(* The event is over, or an exception of its own is swallowed by gather. *)
EventEnds ==
  /\ kafka' = "idle" /\ todo' = <<>> /\ closing' = {}

(* Mutant: the order begins with the mildest. *)
WorseFromMildest(s, t) == IF Rank[s] > Rank[t] THEN s ELSE t

Worse(s, t) == IF Rank[s] < Rank[t] THEN s ELSE t

Seen(k) ==
  [status |-> "open", seen |-> event.ts,
   severity |-> IF IsOpen(k) THEN Worse(event.severity, memory[k].severity)
                             ELSE event.severity]

Update ==
  /\ kafka = "updating" /\ Answered("kafka")
  /\ IF todo = <<>>
     THEN EventEnds /\ UNCHANGED <<memory, sending, unsure>>
     ELSE LET k == <<Head(todo), event.kind>>
          IN  /\ memory' = [memory EXCEPT ![k] = Seen(k)]
              /\ Send("kafka", k, Seen(k))
              /\ todo' = Tail(todo)
              /\ UNCHANGED <<kafka, closing>>
  /\ UNCHANGED <<now, redis, event, expiry, expiring, taken, faults>>

(* The open anomalies whose key starts with the id of e. *)
KeysToClose(e) == {k \in Key : <<e, k[1]>> \in Prefix /\ IsOpen(k)}

(* The next key to close for this entity, or KeyError when the expiry loop
   has popped it meanwhile. *)
ResolveNext ==
  /\ closing # {}
  /\ \E k \in closing :
       IF IsOpen(k)
       THEN /\ Close("kafka", k)
            /\ closing' = closing \ {k}
            /\ UNCHANGED <<kafka, todo>>
       ELSE EventEnds /\ UNCHANGED <<memory, sending, unsure>>

(* Mutant: an entity without open anomalies ends the event. *)
ResolveEntityStoppingShort ==
  /\ closing = {}
  /\ IF todo = <<>> \/ KeysToClose(Head(todo)) = {}
     THEN EventEnds /\ UNCHANGED <<memory, sending, unsure>>
     ELSE /\ \E k \in KeysToClose(Head(todo)) :
               /\ Close("kafka", k)
               /\ closing' = KeysToClose(Head(todo)) \ {k}
          /\ todo' = Tail(todo)
          /\ UNCHANGED kafka

(* _resolve_entity for the next entity with open anomalies, up to its first
   write. *)
ResolveEntity ==
  LET found == {i \in DOMAIN todo : KeysToClose(todo[i]) # {}}
  IN  /\ closing = {}
      /\ \/ /\ found = {}
            /\ EventEnds
            /\ UNCHANGED <<memory, sending, unsure>>
         \/ \E i \in found :
              /\ \A j \in found : i <= j
              /\ \E k \in KeysToClose(todo[i]) :
                   /\ Close("kafka", k)
                   /\ closing' = KeysToClose(todo[i]) \ {k}
              /\ todo' = SubSeq(todo, i + 1, Len(todo))
              /\ UNCHANGED kafka

Resolve ==
  /\ kafka = "resolving" /\ Answered("kafka")
  /\ ResolveNext \/ ResolveEntity
  /\ UNCHANGED <<now, redis, event, expiry, expiring, taken, faults>>

-------------------------------------------------------------------------------
(* The expiry loop and expire_stale.  The loop has no handler of its own, so
   a KeyError ends it, and run() with it; the Kafka loop goes on. *)

(* Mutant: the threshold is missed by a unit. *)
StaleTooLate == {k \in Key : IsStale(k) /\ memory[k].seen + 1 < now}

Stale == {k \in Key : IsStale(k)}

ExpireStale ==
  /\ expiry = "asleep"
  /\ \E k \in Stale :
       /\ Close("expiry", k)
       /\ expiring' = Stale \ {k}
  /\ expiry' = "expiring"
  /\ UNCHANGED <<now, redis, kafka, event, todo, closing, taken, faults>>

ExpireNext ==
  /\ expiry = "expiring" /\ Answered("expiry")
  /\ \/ /\ expiring = {}
        /\ expiry' = "asleep"
        /\ UNCHANGED <<memory, sending, unsure, expiring>>
     \/ \E k \in expiring :
          IF IsOpen(k)
          THEN /\ Close("expiry", k)
               /\ expiring' = expiring \ {k}
               /\ UNCHANGED expiry
          ELSE /\ expiry' = "dead" /\ expiring' = {}
               /\ UNCHANGED <<memory, sending, unsure>>
  /\ UNCHANGED <<now, redis, kafka, event, todo, closing, taken, faults>>

-------------------------------------------------------------------------------
(* Failures *)

Fault == faults < MaxFaults /\ faults' = faults + 1

(* The write may have been made all the same. *)
WriteFails(w) ==
  /\ w \in sending
  /\ Fault
  /\ redis' \in {redis, [redis EXCEPT ![w.key] = w.anomaly]}
  /\ sending' = sending \ {w}
  /\ unsure' = unsure \cup {w.key}
  /\ IF w.by = "kafka"
     THEN EventEnds /\ UNCHANGED <<expiry, expiring>>
     ELSE /\ expiry' = "dead" /\ expiring' = {}
          /\ UNCHANGED <<kafka, todo, closing>>
  /\ UNCHANGED <<now, memory, event, taken>>

(* The process dies and is started again: _load_from_redis.  A write under way
   has landed just before, or does not. *)
Restart ==
  /\ Fault
  /\ memory' = [k \in Key |-> IF redis[k].status = "open" THEN redis[k] ELSE None]
  /\ sending' = {}
  /\ EventEnds
  /\ expiry' = "asleep" /\ expiring' = {}
  /\ unsure' = {}
  /\ UNCHANGED <<now, redis, event, taken>>

-------------------------------------------------------------------------------
Next ==
  \/ Tick
  \/ Deliver
  \/ Update
  \/ Resolve
  \/ ExpireStale
  \/ ExpireNext
  \/ \E w \in sending : WriteLands(w) \/ WriteFails(w)
  \/ Restart

Spec == Init /\ [][Next]_vars

(* The expiry loop is run by a timer and its writes are answered. *)
FairSpec ==
  /\ Spec
  /\ WF_vars(ExpireStale) /\ WF_vars(ExpireNext)
  /\ WF_vars(\E w \in sending : w.by = "expiry" /\ WriteLands(w))

-------------------------------------------------------------------------------
(* Properties *)

(* What is open in memory is open in Redis, as it is in memory, and what is
   not is not: a restart brings back the same anomalies.  Excepted are keys
   whose write failed, and keys that both loops were writing at once, since
   their writes may land in either order (anomaly_registry.py:50-59, 103, 117,
   124). *)
RedisAgrees ==
  \A k \in Key : k \notin unsure /\ (\A w \in sending : w.key # k) =>
    IF IsOpen(k) THEN redis[k] = memory[k] ELSE redis[k].status # "open"

(* A resolution event that comes to its end has left no anomaly of any of its
   entities open, although the expiry loop changes the dict while the event
   waits for its writes (anomaly_registry.py:69-72, 119-124). *)
ResolutionCloses ==
  [][kafka = "resolving" /\ kafka' = "idle" /\ closing = {} /\ faults' = faults =>
       \A i \in DOMAIN event.refs : KeysToClose(event.refs[i])' = {}]_vars

(* An anomaly that has become stale does not stay so while the expiry loop
   lives: it is closed or seen again (anomaly_registry.py:105-117, "auto-heal
   assumption"). *)
AutoHeals == \A k \in Key : IsStale(k) ~> ~IsStale(k) \/ expiry = "dead"

-------------------------------------------------------------------------------
(* What the documentation says and the code does not do *)

(* core.py:8, "Runs background anomaly expiry loop (every 60s)." *)
ExpiryKeepsRunning == expiry # "dead"
================================================================================
