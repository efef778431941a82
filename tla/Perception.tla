-------------------------------- MODULE Perception --------------------------------
(***************************************************************************)
(* The perception layer: the orchestrator (perception_main.py), which runs *)
(* one adapter for each type of source and starts it again when it fails,  *)
(* the adapters (cognitive_perception/adapters), and the push API          *)
(* (cognitive_perception/perception_api/main.py).  What they publish is    *)
(* taken by the World Model, and MonitorAgent may watch its situation.     *)
(*                                                                         *)
(* APIs, queues, databases and Redis are polled; logs, file events and     *)
(* pushed events arrive and wait, logs in a Kafka topic, the others in     *)
(* memory.  In each unit of time every source is polled, and what has      *)
(* arrived is done, since the intervals are far below it.                  *)
(***************************************************************************)
EXTENDS MonitorAgent

CONSTANTS Source,      \* the entries of sources.yaml, and those that push
          TypeOf,      \* the type of each
          About,       \* the entities its events refer to
          Pooled,      \* the entity every exhausted database pool is laid to
          Reading,     \* the readings of it that can occur
          Deployments, \* the enabled sources, with a monitor or without one
          KeepsFor,    \* for how many units a state key is kept in Redis
          MaxArrivals  \* bound on what arrives

SuppressingType == {"api", "queue"}

CheckingType == {"database", "redis"}

ArrivingType == {"log", "file", "push"}

Types == SuppressingType \cup CheckingType \cup ArrivingType

ReadingOf == [api |-> ApiReading,
              queue |-> Collected.kafka \cup Collected.rabbitmq,
              database |-> SUBSET DatabaseFinding,
              redis |-> SUBSET RedisFinding,
              log |-> LogReading,
              file |-> FileReading]

ASSUME PerceptionAssumption ==
  /\ TypeOf \in [Source -> Types] /\ Monitor \notin Source
  /\ About \in [Source -> SUBSET Entity] /\ \A s \in Source : IsFiniteSet(About[s])
  /\ Pooled \in Entity
  /\ Deployments \subseteq [sources : SUBSET Source, watched : BOOLEAN]
  /\ \A s \in Source :
       IF TypeOf[s] = "push" THEN \A r \in Reading[s] : IsPushed(r)
       ELSE Reading[s] \subseteq ReadingOf[TypeOf[s]]
  /\ KeepsFor \in Nat \ {0} /\ MaxArrivals \in Nat

VARIABLES
  deployment,  \* what sources.yaml enables
  adapter,     \* whether the adapter of each type is running
  generation,  \* how often it was started
  poller,      \* the pollers, by source and by the start that made them
  known,       \* state keys in Redis: the state and for how many units it is kept
  seen,        \* the last reading of each source, if any
  told,        \* the last reading of it that was published, if any
  polled,      \* sources polled in this unit
  recent,      \* sources of which something was published in this unit
  lost,        \* sources the last report of which was not published (history)
  eclipsed,    \* sources an anomaly of which an event of another has resolved, or
               \* made stale, since it was last reported (history)
  arrived,     \* what has arrived of each source
  result,      \* what has become of it
  position,    \* the next of it to be done
  committed    \* of logs: the committed offset

deployVars == <<deployment, adapter, generation>>

pollVars == <<poller, known, seen, told, polled, recent, lost, eclipsed>>

arrivalVars == <<arrived, result, position, committed>>

perceptionVars == <<open, monitorVars, faults, deployVars, pollVars, arrivalVars>>

Enabled == deployment.sources

Used == {TypeOf[s] : s \in Enabled}

Polled == {s \in Enabled : TypeOf[s] \notin ArrivingType}

Arriving == Enabled \ Polled

Unreachable == {"unreachable"}

(* The outcomes of a poll. *)
Readings(s) ==
  IF TypeOf[s] \in CheckingType THEN Reading[s] \cup {Unreachable} ELSE Reading[s]

TypeOK ==
  /\ MonitorTypeOK
  /\ deployment \in Deployments
  /\ DOMAIN adapter = Used /\ \A t \in Used : adapter[t] \in {"starting", "running", "offline"}
  /\ \A t \in Used : adapter[t] = "offline" => t = "push"
  /\ generation \in [Used -> 0 .. MaxFaults + 1]
  /\ \A p \in DOMAIN poller :
       /\ p[1] \in Polled /\ p[2] \in 1 .. generation[TypeOf[p[1]]]
       /\ poller[p].at \in {"asleep", "sending", "recovering"}
       /\ (poller[p].todo = <<>>) = (poller[p].at = "asleep")
       /\ poller[p].at = "recovering" => TypeOf[p[1]] \in CheckingType
       /\ \A i \in DOMAIN poller[p].todo : poller[p].todo[i].severity \in Severities
  /\ \A s \in DOMAIN known : TypeOf[s] \in SuppressingType /\ known[s].left \in 1 .. KeepsFor
  /\ DOMAIN seen \cup DOMAIN told \subseteq Polled
  /\ polled \cup recent \cup lost \cup eclipsed \subseteq Polled
  /\ \A s \in Arriving :
       /\ Len(result[s]) = Len(arrived[s]) /\ Len(arrived[s]) <= MaxArrivals
       /\ committed[s] <= position[s] /\ position[s] <= Len(arrived[s])

Init ==
  /\ MonitorInit
  /\ deployment \in Deployments
  /\ adapter = [t \in Used |-> "starting"] /\ generation = [t \in Used |-> 0]
  /\ poller = << >> /\ known = << >> /\ seen = << >> /\ told = << >>
  /\ polled = {} /\ recent = {} /\ lost = {} /\ eclipsed = {}
  /\ arrived = [s \in Arriving |-> <<>>] /\ result = arrived
  /\ position = [s \in Arriving |-> 0] /\ committed = position

-------------------------------------------------------------------------------
(* The orchestrator *)

(* run_adapter_safe starts the adapter, for the first time or after it has
   failed.  Pollers of an earlier run that are alive go on, since gather does
   not cancel them, and send with the new producer.  The producer of the push
   API is started once. *)
Start(t) ==
  /\ adapter[t] = "starting"
  /\ \/ LET new == {<<s, generation[t] + 1>> : s \in {s \in Polled : TypeOf[s] = t}}
        IN  /\ adapter' = [adapter EXCEPT ![t] = "running"]
            /\ generation' = [generation EXCEPT ![t] = IF new = {} THEN @ ELSE @ + 1]
            /\ poller' = [p \in DOMAIN poller \cup new |->
                            IF p \in new THEN [at |-> "asleep", todo |-> <<>>] ELSE poller[p]]
            /\ position' = [s \in Arriving |->
                              IF TypeOf[s] = t /\ t = "log" THEN committed[s] ELSE position[s]]
            /\ UNCHANGED faults
     \/ /\ Fault
        /\ adapter' = [adapter EXCEPT ![t] = IF t = "push" THEN "offline" ELSE @]
        /\ UNCHANGED <<generation, poller, position>>
  /\ UNCHANGED <<open, monitorVars, deployment, known, seen, told, polled, recent, lost,
                 eclipsed, arrived, result, committed>>

Waiting(s) == {i \in DOMAIN result[s] : result[s][i] = "waiting"}

(* The processes die.  State keys and the topic of the logs stay. *)
Crash ==
  /\ Fault
  /\ adapter' = [t \in Used |-> "starting"] /\ generation' = [t \in Used |-> 0]
  /\ poller' = << >>
  /\ lost' = lost \cup {p[1] : p \in {p \in DOMAIN poller : poller[p].at # "asleep"}}
  /\ result' = [s \in Arriving |-> [i \in DOMAIN result[s] |->
                  IF i \in Waiting(s) /\ TypeOf[s] # "log" THEN "lost" ELSE result[s][i]]]
  /\ position' = [s \in Arriving |->
                    IF TypeOf[s] = "log" THEN committed[s] ELSE Len(arrived[s])]
  /\ UNCHANGED <<open, monitorVars, deployment, known, seen, told, polled, recent, eclipsed,
                 arrived, committed>>

-------------------------------------------------------------------------------
(* A poll *)

Outage == <<Event("service_unreachable", "critical")>>

(* What the reading of a source leads to. *)
Reports(s, r) ==
  CASE TypeOf[s] = "api" -> <<ApiEvent(r)>>
    [] TypeOf[s] = "queue" -> <<QueueEvent(r)>>
    [] TypeOf[s] = "database" ->
         IF r = Unreachable THEN Outage ELSE DatabaseEvents(r)
    [] TypeOf[s] = "redis" ->
         IF r = Unreachable THEN Outage ELSE RedisEvents(r)

Refs(s, ev) ==
  IF TypeOf[s] = "database" /\ ev.kind = "connection_pool_exhausted"
  THEN About[s] \cup {Pooled} ELSE About[s]

Alive(s) == <<s, generation[TypeOf[s]]>> \in DOMAIN poller

IsSending(s) == \E p \in DOMAIN poller : p[1] = s /\ poller[p].at # "asleep"

Resume(p, at, todo) == poller' = [poller EXCEPT ![p] = [at |-> at, todo |-> todo]]

(* Mutant: the state of an API is that it answers. *)
StateOfAnswer(s, r) ==
  IF TypeOf[s] = "api" THEN r.status = "none" ELSE <<r.lag, r.consumers>>

(* What the state key says of a reading, by classes of it. *)
State(s, r) ==
  IF TypeOf[s] = "api" THEN <<r.status, r.latency>> ELSE <<r.lag, r.consumers>>

IsKnown(s, r) == s \in DOMAIN known /\ known[s].state = State(s, r)

Remember(s, r) ==
  known' = [t \in DOMAIN known \cup {s} |->
              IF t = s THEN [state |-> State(s, r), left |-> KeepsFor] ELSE known[t]]

(* The key has the status, the lag and the number of consumers themselves, of
   which a class may hold several. *)
IsOneOfMany(s, r) ==
  IF TypeOf[s] = "api" THEN r.status \in {"unexpected", "4xx", "5xx"}
  ELSE r.lag # "none" \/ r.consumers

(* Mutant: a queue's problem is published when it is new. *)
PublishesNews(s, r) ==
  IF ~IsKnown(s, r) THEN {TRUE} ELSE IF IsOneOfMany(s, r) THEN BOOLEAN ELSE {FALSE}

(* Whether a reading is published: not if its state is the one that is known,
   unless a queue has a problem. *)
Publishes(s, r) ==
  IF ~IsKnown(s, r) \/ (TypeOf[s] = "queue" /\ QueueEvent(r).severity # "info") THEN {TRUE}
  ELSE IF IsOneOfMany(s, r) THEN BOOLEAN ELSE {FALSE}

See(s, r) ==
  /\ seen' = [t \in DOMAIN seen \cup {s} |-> IF t = s THEN r ELSE seen[t]]
  /\ polled' = polled \cup {s}

(* An API or a queue: the state is remembered, and then the event is sent. *)
Observe(p, r) ==
  LET s == p[1]
  IN  /\ poller[p].at = "asleep" /\ TypeOf[s] \in SuppressingType /\ r \in Reading[s]
      /\ See(s, r)
      /\ \E publishes \in Publishes(s, r) :
           IF publishes
           THEN /\ Remember(s, r)
                /\ Resume(p, "sending", Reports(s, r))
                /\ eclipsed' = eclipsed \ {s} /\ lost' = lost \ {s}
           ELSE UNCHANGED <<known, poller, eclipsed, lost>>
      /\ UNCHANGED <<open, monitorVars, faults, deployVars, told, recent, arrivalVars>>

(* The poll of an API or a queue raises something that is not handled there, or
   the broker does not answer: nothing is published. *)
PollBreaks(p) ==
  LET s == p[1]
  IN  /\ poller[p].at = "asleep" /\ TypeOf[s] \in SuppressingType
      /\ seen' = [t \in DOMAIN seen \ {s} |-> seen[t]]
      /\ polled' = polled \cup {s}
      /\ UNCHANGED <<open, monitorVars, faults, deployVars, poller, known, told, recent, lost,
                     eclipsed, arrivalVars>>

(* A database or Redis: what the checks find is sent, check by check.  If the
   connection fails, or that of a database breaks before the next of them,
   service_unreachable. *)
Check(p, r) ==
  LET s == p[1]
  IN  /\ poller[p].at = "asleep" /\ TypeOf[s] \in CheckingType
      /\ r \in Readings(s)
      /\ See(s, r)
      /\ Resume(p, IF r = Unreachable THEN "recovering"
                   ELSE IF Reports(s, r) = <<>> THEN "asleep" ELSE "sending", Reports(s, r))
      /\ eclipsed' = eclipsed \ {s} /\ lost' = lost \ {s}
      /\ UNCHANGED <<open, monitorVars, faults, deployVars, known, told, recent,
                     arrivalVars>>

Breaks(p) ==
  LET s == p[1]
  IN  /\ poller[p].at = "sending" /\ TypeOf[s] = "database"
      /\ See(s, Unreachable)
      /\ Resume(p, "recovering", Reports(s, Unreachable))
      /\ UNCHANGED <<open, monitorVars, faults, deployVars, known, told, recent, lost,
                     eclipsed, arrivalVars>>

-------------------------------------------------------------------------------
(* Sending *)

(* Sources that lose an anomaly to an event of another. *)
Eclipses(s, closed) == (UNION {open[k].by : k \in closed}) \ {s}

(* The next event is published, and taken by the World Model. *)
Send(p) ==
  LET s == p[1]
      ev == Head(poller[p].todo)
      rest == Tail(poller[p].todo)
  IN  /\ poller[p].at # "asleep" /\ adapter[TypeOf[s]] = "running"
      /\ Take(Refs(s, ev), ev, s, FALSE)
      /\ Resume(p, IF rest = <<>> THEN "asleep" ELSE poller[p].at, rest)
      /\ told' = IF s \in DOMAIN seen
                 THEN [t \in DOMAIN told \cup {s} |-> IF t = s THEN seen[s] ELSE told[t]]
                 ELSE told
      /\ recent' = recent \cup {s}
      /\ lost' = IF poller[p].at = "recovering" THEN lost \ {s} ELSE lost
      /\ eclipsed' = eclipsed \cup (Eclipses(s, ClosedBy(Refs(s, ev), ev)) \cap Polled)
      /\ UNCHANGED <<faults, deployVars, known, seen, polled, arrivalVars>>

(* The send raises: for want of a producer, if the adapter has failed. *)
Fails(t) == IF adapter[t] = "running" THEN Fault ELSE UNCHANGED faults

(* The poller of an API or a queue goes on, that of a database or of Redis
   tries service_unreachable. *)
SendFails(p) ==
  LET s == p[1]
  IN  /\ poller[p].at = "sending" /\ Fails(TypeOf[s])
      /\ lost' = lost \cup {s}
      /\ IF TypeOf[s] \in SuppressingType
         THEN Resume(p, "asleep", <<>>) /\ UNCHANGED <<seen, polled>>
         ELSE Resume(p, "recovering", Reports(s, Unreachable)) /\ See(s, Unreachable)
      /\ UNCHANGED <<open, monitorVars, deployVars, known, told, recent, eclipsed,
                     arrivalVars>>

(* Mutant: the adapter does not notice that a poller has ended. *)
RecoveryFailsUnnoticed(p) ==
  LET s == p[1]
  IN  /\ poller[p].at = "recovering" /\ Fails(TypeOf[s])
      /\ poller' = [q \in DOMAIN poller \ {p} |-> poller[q]]
      /\ lost' = lost \cup {s}
      /\ UNCHANGED <<open, monitorVars, deployVars, known, seen, told, polled, recent,
                     eclipsed, arrivalVars>>

(* That fails as well and ends the poller, and with it the run of the adapter,
   unless the poller is left from an earlier run. *)
RecoveryFails(p) ==
  LET s == p[1]
      t == TypeOf[s]
  IN  /\ poller[p].at = "recovering" /\ Fails(t)
      /\ poller' = [q \in DOMAIN poller \ {p} |-> poller[q]]
      /\ adapter' = [adapter EXCEPT ![t] = IF p[2] = generation[t] THEN "starting" ELSE @]
      /\ lost' = lost \cup {s}
      /\ UNCHANGED <<open, monitorVars, deployment, generation, known, seen, told, polled,
                     recent, eclipsed, arrivalVars>>

-------------------------------------------------------------------------------
(* What arrives *)

(* File events are noticed while the observers run; pushed events are accepted
   while the process lives, with a producer or without. *)
Arrives(s, r) ==
  /\ s \in Arriving /\ r \in Reading[s] /\ Len(arrived[s]) < MaxArrivals
  /\ TypeOf[s] = "file" => adapter["file"] = "running"
  /\ TypeOf[s] = "push" => adapter["push"] # "starting"
  /\ arrived' = [arrived EXCEPT ![s] = Append(@, r)]
  /\ result' = [result EXCEPT ![s] = Append(@, "waiting")]
  /\ UNCHANGED <<open, monitorVars, faults, deployVars, pollVars, position, committed>>

(* The events it leads to: none, or one. *)
Events(s, r) ==
  CASE TypeOf[s] = "log" -> LogEvents(r)
    [] TypeOf[s] = "file" -> <<FileEvent(r)>>
    [] TypeOf[s] = "push" -> <<PushedEvent(r)>>

(* Alerts carry the time they began to fire. *)
IsOld(s, r) == TypeOf[s] = "push" /\ r.to = "prometheus-alerts" /\ r.old

Aged(s, r, ev) == IF IsOld(s, r) THEN OpenedBy(About[s], ev) \cap DOMAIN open ELSE {}

Publish(s, r) ==
  IF Events(s, r) = <<>>
  THEN UNCHANGED <<open, monitorVars, eclipsed>>
  ELSE LET ev == Head(Events(s, r))
       IN  /\ Take(About[s], ev, s, IsOld(s, r))
           /\ eclipsed' = eclipsed \cup
                (Eclipses(s, ClosedBy(About[s], ev) \cup Aged(s, r, ev)) \cap Polled)

(* What may be done next: the background tasks of pushed events run at once,
   the others in turn. *)
Pending(s) ==
  IF TypeOf[s] = "push" THEN Waiting(s)
  ELSE {position[s] + 1} \cap DOMAIN arrived[s]

(* The log that was received last is committed, or something has raised before
   it was. *)
IsSettled(s) ==
  TypeOf[s] = "log" /\ position[s] # committed[s] => result[s][position[s]] # "sent"

IsReadable(s, i) == TypeOf[s] = "log" => arrived[s][i].form = "object"

Done(s, i, what) ==
  /\ result' = [result EXCEPT ![s] = [@ EXCEPT ![i] = what]]
  /\ position' = [position EXCEPT ![s] = IF TypeOf[s] = "push" THEN @ ELSE i]

(* The next is published. *)
SendArrived(s, i) ==
  /\ adapter[TypeOf[s]] = "running" /\ i \in Pending(s) /\ IsReadable(s, i)
  /\ IsSettled(s)
  /\ Publish(s, arrived[s][i])
  /\ Done(s, i, "sent")
  /\ UNCHANGED <<faults, deployVars, poller, known, seen, told, polled, recent, lost, arrived,
                 committed>>

(* The send raises, or there is no producer; none of the three tries again. *)
DropArrived(s, i) ==
  /\ adapter[TypeOf[s]] # "starting" /\ i \in Pending(s) /\ IsReadable(s, i)
  /\ IsSettled(s)
  /\ Fails(TypeOf[s])
  /\ Done(s, i, "unsent")
  /\ UNCHANGED <<open, monitorVars, deployVars, pollVars, arrived, committed>>

(* Mutant: a log is committed as soon as it is received. *)
CommitAtOnce(s) ==
  /\ TypeOf[s] = "log" /\ adapter["log"] = "running" /\ Pending(s) # {}
  /\ committed' = [committed EXCEPT ![s] = position[s] + 1]
  /\ position' = committed'
  /\ UNCHANGED <<open, monitorVars, faults, deployVars, pollVars, arrived, result>>

(* The commit covers all that the consumer has received. *)
CommitLog(s) ==
  /\ TypeOf[s] = "log" /\ adapter["log"] = "running"
  /\ position[s] # committed[s] /\ result[s][position[s]] = "sent"
  /\ committed' = [committed EXCEPT ![s] = position[s]]
  /\ UNCHANGED <<open, monitorVars, faults, deployVars, pollVars, arrived, result, position>>

(* The commit raises, although it may have been made: the loop goes on, and the
   next commit covers the log. *)
CommitFails(s) ==
  /\ TypeOf[s] = "log" /\ adapter["log"] = "running"
  /\ position[s] # committed[s] /\ result[s][position[s]] = "sent"
  /\ Fault
  /\ committed' \in {committed, [committed EXCEPT ![s] = position[s]]}
  /\ Done(s, position[s], "uncommitted")
  /\ UNCHANGED <<open, monitorVars, deployVars, pollVars, arrived>>

(* A log that is JSON and no object raises in _process_message and is counted:
   nothing is sent of it, the loop goes on, and the next commit covers it. *)
LogRaises(s) ==
  /\ TypeOf[s] = "log" /\ adapter["log"] = "running" /\ IsSettled(s)
  /\ \E i \in Pending(s) : arrived[s][i].form = "other" /\ Done(s, i, "raised")
  /\ UNCHANGED <<open, monitorVars, faults, deployVars, pollVars, arrived, committed>>

(* A log that is not JSON raises where the consumer decodes it, outside of the
   handler, and ends the run. *)
LogBreaks(s) ==
  /\ TypeOf[s] = "log" /\ adapter["log"] = "running" /\ IsSettled(s)
  /\ \E i \in Pending(s) : arrived[s][i].form = "broken"
  /\ adapter' = [adapter EXCEPT !["log"] = "starting"]
  /\ UNCHANGED <<open, monitorVars, faults, deployment, generation, pollVars, arrivalVars>>

-------------------------------------------------------------------------------
(* Time *)

(* The unit is over: everything was polled or done, and the expiry loop has run. *)
Quiet ==
  /\ \A s \in Polled : Alive(s) /\ s \in polled /\ adapter[TypeOf[s]] = "running"
  /\ \A p \in DOMAIN poller : poller[p].at = "asleep"
  /\ \A s \in Arriving : TypeOf[s] # "log" => Waiting(s) = {}
  /\ Stale = {} /\ listed = {} /\ sending = {}

Tick ==
  /\ Quiet
  /\ open' = [k \in DOMAIN open |-> [open[k] EXCEPT !.seen = FALSE]]
  /\ known' = [s \in {s \in DOMAIN known : known[s].left > 1} |->
                 [known[s] EXCEPT !.left = @ - 1]]
  /\ polled' = {} /\ recent' = {}
  /\ UNCHANGED <<monitorVars, faults, deployVars, poller, seen, told, lost, eclipsed,
                 arrivalVars>>

-------------------------------------------------------------------------------
PollerStep(p) ==
  \/ \E r \in Readings(p[1]) : Observe(p, r) \/ Check(p, r)
  \/ PollBreaks(p)
  \/ Breaks(p)
  \/ Send(p)
  \/ SendFails(p)
  \/ RecoveryFails(p)

ArrivalStep(s) ==
  \/ \E r \in Reading[s] : Arrives(s, r)
  \/ \E i \in DOMAIN arrived[s] : SendArrived(s, i) \/ DropArrived(s, i)
  \/ CommitLog(s) \/ CommitFails(s)
  \/ LogRaises(s) \/ LogBreaks(s)

Next ==
  \/ \E t \in Used : Start(t)
  \/ Crash
  \/ \E p \in DOMAIN poller : PollerStep(p)
  \/ \E s \in Arriving : ArrivalStep(s)
  \/ Tick
  \/ deployment.watched /\ MonitorStep /\ UNCHANGED <<deployVars, pollVars, arrivalVars>>
  \/ \E k \in Stale : ExpireAnomaly(k)
       /\ UNCHANGED <<faults, deployVars, pollVars, arrivalVars>>

Spec == Init /\ [][Next]_perceptionVars

-------------------------------------------------------------------------------
(* Properties *)

(* What an API or a queue was last published to be is what it is: a change is
   never taken for published by the state key alone, which is written before the
   event is sent, expires, and outlives the process (api_adapter.py:150-166,
   queue_adapter.py:200-218).  Only a failure of the send or of the process in
   between leaves the two apart. *)
ReportStands ==
  \A s \in (DOMAIN seen \cap DOMAIN told) \ lost :
    /\ TypeOf[s] = "api" /\ ~IsSending(s) =>
         told[s].status = seen[s].status /\ told[s].latency = seen[s].latency
    /\ TypeOf[s] = "queue" /\ ~IsSending(s) =>
         told[s].lag = seen[s].lag /\ told[s].consumers = seen[s].consumers

(* The reading of a source that ought to be known to the World Model now.  An
   API's is not while the state key suppresses it: its anomaly expires after 600
   seconds, and the key after 3600. *)
Due(s) ==
  IF TypeOf[s] = "api" THEN {told[t] : t \in {s} \cap recent}
  ELSE {seen[t] : t \in {s} \cap DOMAIN seen}

ProblemsOf(s, r) ==
  UNION {OpenedBy(Refs(s, ev), ev) : ev \in {Reports(s, r)[i] : i \in DOMAIN Reports(s, r)}}

(* Every problem the last poll has found is open in the World Model when the
   pollers are asleep and the expiry loop has run: a check that fails between two
   findings, a poller that is started again and one that is left over, and the
   suppression of what is known do not hide it (api_adapter.py:150-168,
   queue_adapter.py:200-213, database_adapter.py:120-144, redis_adapter.py:75-98). *)
ProblemIsOpen ==
  Quiet => \A s \in Polled \ (lost \cup eclipsed) : \A r \in Due(s) :
             ProblemsOf(s, r) \subseteq DOMAIN open

(* A source that works, and whose state was published, has nothing open that it
   alone has reported: the recovery of an API is told under a type that closes
   what any of its problems has opened, whatever type that had
   (api_normalizer.py:48-120, queue_normalizer.py:43-96). *)
RecoveryClears ==
  \A s \in DOMAIN told :
    (\/ TypeOf[s] = "api" /\ told[s].status = "expected" /\ told[s].latency = "ok"
          /\ told[s].ssl \in {"unknown", "fine"}
     \/ TypeOf[s] = "queue" /\ told[s].lag = "none" /\ told[s].depth = "none") =>
    \A k \in DOMAIN open : s \notin open[k].by

(* While an adapter is running, every source of it has a poller: one whose poller
   has ended is not left out, it brings the adapter down, which is started again
   with all of them (database_adapter.py:110-144, perception_main.py:254-271).
   The sources are configured with a type their adapter knows: the poller of a
   queue of another broker returns at once (queue_adapter.py:183-186). *)
EverySourcePolled ==
  \A s \in Polled : adapter[TypeOf[s]] = "running" => Alive(s)

(* Whatever the committed offset covers was handled, and no crash, restart or
   failing commit has made the consumer skip it: a log that can be processed was
   sent, or its send was tried and failed, and one that cannot has raised in the
   handler.  The commits of later logs cover both kinds of failure
   (log_adapter.py:79-93, 102-105). *)
LogsAccountedFor ==
  \A s \in Arriving : \A i \in 1 .. committed[s] :
    TypeOf[s] = "log" =>
      result[s][i] \in IF IsReadable(s, i) THEN {"sent", "unsent", "uncommitted"} ELSE {"raised"}
================================================================================
