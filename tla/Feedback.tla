--------------------------------- MODULE Feedback ---------------------------------
(***************************************************************************)
(* The feedback loop (feedback/), and the endpoints of the Memory API that *)
(* it writes to.  FeedbackConsumer starts a cycle for every event about a  *)
(* step of a plan and does not wait for it: each cycle counts the open     *)
(* anomalies, sleeps, counts again, and then records the verdict in        *)
(* episodic memory, in the playbooks and in the graph, all three at once.  *)
(* Offsets are committed by a timer, whatever the cycles are at.           *)
(*                                                                         *)
(* A plan is named by the decision it is made from.                        *)
(***************************************************************************)
EXTENDS Naturals, Sequences, FiniteSets

CONSTANTS Decision,     \* decisions, and the plans made from them
          Action,       \* actions of steps
          Playbook,     \* the playbooks in procedural memory
          Recommended,  \* the action each of them recommends
          Anomaly,      \* what may be open in the World Model
          AtFirst,      \* what is open at first
          MaxChanges,   \* bound on anomalies that come or go
          MaxLive,      \* bound on cycles under way at once
          MaxFaults     \* bound on failed requests, outages and restarts

ASSUME FeedbackAssumption ==
  /\ Recommended \in [Playbook -> Action]
  /\ IsFiniteSet(Anomaly) /\ AtFirst \subseteq Anomaly
  /\ MaxChanges \in Nat /\ MaxLive \in Nat /\ MaxFaults \in Nat

Outcome == {"success", "partial", "failure"}

(* An event action_completed or action_failed: both are treated alike. *)
Event == Decision \X Action

(* The row of the decision in cognitive_events and its point in Qdrant hold
   the outcome, which is "none" at first. *)
Remembered == {"none"} \cup Outcome

Tally == [wins : Nat, losses : Nat]

VARIABLES
  anomalies,  \* the open anomalies
  changes,    \* how often one has come or gone
  topic,      \* the step events published on cognitive.events
  position,   \* how many of them the consumer has taken
  cycle,      \* for each event what its feedback cycle is at
  recorder,   \* what OutcomeRecorder is at for it,
  updater,    \* what PlaybookUpdater is at, and the playbooks left as read,
  updating,   \* and the events GraphUpdater is still to write for
  row,        \* the decision's row in cognitive_events
  point,      \* the outcome in the decision's point in Qdrant
  playbook,   \* the counters of each playbook
  resolves,   \* the RESOLVES edge of each action
  verdict,    \* the verdicts so far for each plan (history)
  unsure,     \* actions of which an update was lost (history)
  eased,      \* events whose cycle an anomaly was cleared in, or that could
              \* not count them (history)
  unindexed,  \* decisions whose new outcome was not, or perhaps not, indexed
              \* (history)
  faults      \* faults so far

worldVars == <<anomalies, changes>>

cycleVars == <<topic, position, cycle>>

gatherVars == <<recorder, updater, updating>>

storeVars == <<row, point, playbook, resolves>>

stateVars == <<worldVars, cycleVars, gatherVars, storeVars, verdict, unsure, eased,
               unindexed>>

feedbackVars == <<stateVars, faults>>

Row == [stored : BOOLEAN, linked : BOOLEAN, outcome : Remembered]

Cycle == [at : {"none", "counting", "sleeping", "gathering", "done", "lost"},
          before : 0..Cardinality(Anomaly), outcome : Remembered]

NoCycle == [at |-> "none", before |-> 0, outcome |-> "none"]

Idle == [at |-> "idle", read |-> <<>>]

(* The edge exists from its first success on; confidence is per cent. *)
Edge == [wins : Nat, losses : Nat, confidence : Nat]

FeedbackTypeOK ==
  /\ anomalies \subseteq Anomaly /\ changes \in 0..MaxChanges
  /\ topic \in Seq(Event)
  /\ position \in 0..Len(topic)
  /\ cycle \in [Event -> Cycle]
  /\ recorder \in [Event -> {"idle", "due", "indexing"}]
  /\ \A ev \in Event : /\ updater[ev].at \in {"idle", "due", "patching"}
                       /\ \A p \in DOMAIN updater[ev].read :
                            p \in Playbook /\ Recommended[p] = ev[2]
  /\ updating \subseteq Event
  /\ \A ev \in Event :
       recorder[ev] # "idle" \/ updater[ev].at # "idle" \/ ev \in updating
         => cycle[ev].at = "gathering"
  /\ row \in [Decision -> Row]
  /\ \A d \in Decision : /\ row[d].linked => row[d].stored
                         /\ row[d].outcome # "none" => row[d].linked
  /\ point \in [Decision -> Remembered]
  /\ playbook \in [Playbook -> Tally]
  /\ resolves \in [Action -> Edge]
  /\ \A a \in Action : resolves[a].confidence \in IF resolves[a].wins = 0 THEN {0}
                                                                          ELSE 10..99
  /\ verdict \in [Decision -> SUBSET Outcome]
  /\ unsure \subseteq Action /\ eased \subseteq Event /\ unindexed \subseteq Decision
  /\ faults \in 0..MaxFaults

FeedbackInit ==
  /\ anomalies = AtFirst /\ changes = 0
  /\ topic = <<>> /\ position = 0
  /\ cycle = [ev \in Event |-> NoCycle]
  /\ recorder = [ev \in Event |-> "idle"]
  /\ updater = [ev \in Event |-> Idle]
  /\ updating = {}
  /\ row = [d \in Decision |-> [stored |-> FALSE, linked |-> FALSE, outcome |-> "none"]]
  /\ point = [d \in Decision |-> "none"]
  /\ playbook = [p \in Playbook |-> [wins |-> 0, losses |-> 0]]
  /\ resolves = [a \in Action |-> [wins |-> 0, losses |-> 0, confidence |-> 0]]
  /\ verdict = [d \in Decision |-> {}]
  /\ unsure = {} /\ eased = {} /\ unindexed = {} /\ faults = 0

Fault == faults < MaxFaults /\ faults' = faults + 1

-------------------------------------------------------------------------------
(* The World Model, in which anomalies come and go *)

Change == changes < MaxChanges /\ changes' = changes + 1

Opens(x) ==
  /\ Change
  /\ x \in Anomaly \ anomalies
  /\ anomalies' = anomalies \cup {x}
  /\ UNCHANGED <<cycleVars, gatherVars, storeVars, verdict, unsure, eased, unindexed,
                 faults>>

Clears(x) ==
  /\ Change
  /\ x \in anomalies
  /\ anomalies' = anomalies \ {x}
  /\ eased' = eased \cup {ev \in Event : cycle[ev].at = "sleeping"}
  /\ UNCHANGED <<cycleVars, gatherVars, storeVars, verdict, unsure, unindexed, faults>>

-------------------------------------------------------------------------------
(* The consumer *)

(* The cycles under way, each a task of its own. *)
Live == {ev \in Event : cycle[ev].at \in {"counting", "sleeping", "gathering"}}

(* The next event gets a task. *)
Take ==
  /\ position < Len(topic) /\ Cardinality(Live) < MaxLive
  /\ position' = position + 1
  /\ cycle' = [cycle EXCEPT ![topic[position + 1]] = [NoCycle EXCEPT !.at = "counting"]]
  /\ UNCHANGED <<worldVars, topic, gatherVars, storeVars, verdict, unsure,
                 eased, unindexed, faults>>

(* _count_anomalies: the number, or 0 when the World Model does not answer. *)
CountIs(n, ev) ==
  \/ /\ n = Cardinality(anomalies)
     /\ UNCHANGED <<eased, faults>>
  \/ /\ n = 0 /\ Fault
     /\ eased' = eased \cup {ev}

CountBefore(ev) ==
  /\ cycle[ev].at = "counting"
  /\ \E n \in 0..Cardinality(Anomaly) :
       /\ CountIs(n, ev)
       /\ cycle' = [cycle EXCEPT ![ev] = [@ EXCEPT !.at = "sleeping", !.before = n]]
  /\ UNCHANGED <<worldVars, topic, position, gatherVars, storeVars, verdict,
                 unsure, unindexed>>

(* Mutant: no change is a success. *)
VerdictGenerous(before, after) == IF after <= before THEN "success" ELSE "failure"

(* The health of an entity never counts: step events carry no entity_refs in
   their payload, so both healths are None. *)
Verdict(before, after) ==
  IF after < before THEN "success" ELSE IF after = before THEN "partial" ELSE "failure"

(* After the sleep: the verdict, and gather is started. *)
CountAfter(ev) ==
  /\ cycle[ev].at = "sleeping"
  /\ \E n \in 0..Cardinality(Anomaly) :
       LET outcome == Verdict(cycle[ev].before, n)
       IN  /\ CountIs(n, ev)
           /\ cycle' = [cycle EXCEPT ![ev] = [@ EXCEPT !.at = "gathering", !.before = 0,
                                                       !.outcome = outcome]]
           /\ verdict' = [verdict EXCEPT ![ev[1]] = @ \cup {outcome}]
  /\ recorder' = [recorder EXCEPT ![ev] = "due"]
  /\ updater' = [updater EXCEPT ![ev] = [Idle EXCEPT !.at = "due"]]
  /\ updating' = updating \cup {ev}
  /\ UNCHANGED <<worldVars, topic, position, storeVars, unsure, unindexed>>

(* Mutant: an update that has failed is waited for. *)
GatheredUnlessFailed(ev) ==
  recorder[ev] = "idle" /\ updater[ev].at = "idle" /\ ev \notin updating /\ ev[2] \notin unsure

(* Mutant: the cycle goes on without the other two. *)
GatheredByRecorder(ev) == recorder[ev] = "idle"

Gathered(ev) == recorder[ev] = "idle" /\ updater[ev].at = "idle" /\ ev \notin updating

(* gather returns, whatever has failed, and the feedback signal is sent. *)
Gather(ev) ==
  /\ cycle[ev].at = "gathering" /\ Gathered(ev)
  /\ cycle' = [cycle EXCEPT ![ev].at = "done"]
  /\ UNCHANGED <<worldVars, topic, position, gatherVars, storeVars, verdict,
                 unsure, eased, unindexed, faults>>

-------------------------------------------------------------------------------
(* The recorder and the endpoint by-plan, which sets the outcome of every row
   of the plan that has none, but refreshes the point of only one of them *)

(* Mutant: rows that have an outcome are written too. *)
IsOpenEvenJudged(d) == row[d].linked

IsOpen(d) == row[d].linked /\ row[d].outcome = "none"

(* The row returned is the decision's, or another one of the plan, such as
   that of the event task_delegated. *)
PatchRows(ev, indexing) ==
  LET d == ev[1]
  IN  /\ row' = IF IsOpen(d) THEN [row EXCEPT ![d].outcome = cycle[ev].outcome] ELSE row
      /\ indexing => IsOpen(d)
      /\ unindexed' = IF IsOpen(d) /\ ~indexing THEN unindexed \cup {d} ELSE unindexed

Record(ev) ==
  /\ recorder[ev] = "due"
  /\ \E indexing \in BOOLEAN :
       /\ PatchRows(ev, indexing)
       /\ recorder' = [recorder EXCEPT ![ev] = IF indexing THEN "indexing" ELSE "idle"]
  /\ UNCHANGED <<worldVars, cycleVars, updater, updating, point, playbook, resolves,
                 verdict, unsure, eased, faults>>

(* Mutant: the payload returned keeps the outcome it had. *)
IndexedAsStored(ev) == [point EXCEPT ![ev[1]] = "none"]

(* vector.store, with the outcome put into the payload. *)
Indexed(ev) == [point EXCEPT ![ev[1]] = cycle[ev].outcome]

(* While its model is not loaded, which it may never be, store() returns as if
   it had stored. *)
Index(ev) ==
  /\ recorder[ev] = "indexing"
  /\ \/ /\ point' = Indexed(ev)
        /\ UNCHANGED unindexed
     \/ /\ unindexed' = unindexed \cup {ev[1]}
        /\ UNCHANGED point
  /\ recorder' = [recorder EXCEPT ![ev] = "idle"]
  /\ UNCHANGED <<worldVars, cycleVars, updater, updating, row, playbook, resolves,
                 verdict, unsure, eased, faults>>

-------------------------------------------------------------------------------
(* The playbooks: read all that recommend the action, then write each back *)

ReadPlaybooks(ev) ==
  LET found == {p \in Playbook : Recommended[p] = ev[2]}
  IN  /\ updater[ev].at = "due"
      /\ updater' = [updater EXCEPT ![ev] =
                       IF found = {} THEN Idle
                       ELSE [at |-> "patching", read |-> [p \in found |-> playbook[p]]]]
      /\ UNCHANGED <<worldVars, cycleVars, recorder, updating, storeVars, verdict, unsure,
                     eased, unindexed, faults>>

(* Mutant: a partial outcome counts for the playbook. *)
CountedUnlessFailure(tally, outcome) ==
  IF outcome = "failure" THEN [tally EXCEPT !.losses = @ + 1]
                         ELSE [tally EXCEPT !.wins = @ + 1]

Counted(tally, outcome) ==
  IF outcome = "success" THEN [tally EXCEPT !.wins = @ + 1]
                         ELSE [tally EXCEPT !.losses = @ + 1]

(* The counters are written as they were read, plus one: what another cycle
   has written meanwhile is lost. *)
PatchPlaybook(ev, p) ==
  LET read == updater[ev].read
      left == DOMAIN read \ {p}
  IN  /\ updater[ev].at = "patching" /\ p \in DOMAIN read
      /\ playbook' = [playbook EXCEPT ![p] = Counted(read[p], cycle[ev].outcome)]
      /\ unsure' = IF playbook[p] = read[p] THEN unsure ELSE unsure \cup {ev[2]}
      /\ updater' = [updater EXCEPT ![ev] =
                       IF left = {} THEN Idle
                       ELSE [at |-> "patching", read |-> [q \in left |-> read[q]]]]
      /\ UNCHANGED <<worldVars, cycleVars, recorder, updating, row, point,
                     resolves, verdict, eased, unindexed, faults>>

-------------------------------------------------------------------------------
(* The graph: one statement, which strengthens or makes the edge, or weakens
   it if there is one *)

AtMost(n, max) == IF n > max THEN max ELSE n

AtLeast(n, min) == IF n < min THEN min ELSE n

Strengthened(edge) ==
  IF edge.wins = 0
  THEN [wins |-> 1, losses |-> 0, confidence |-> 60]
  ELSE [edge EXCEPT !.wins = @ + 1, !.confidence = AtMost(@ + 4, 99)]

Weakened(edge) ==
  IF edge.wins = 0 THEN edge
  ELSE [edge EXCEPT !.losses = @ + 1, !.confidence = AtLeast(@ - 5, 10)]

UpdateGraph(ev) ==
  /\ ev \in updating
  /\ resolves' = [resolves EXCEPT ![ev[2]] =
                    IF cycle[ev].outcome = "success" THEN Strengthened(@) ELSE Weakened(@)]
  /\ updating' = updating \ {ev}
  /\ UNCHANGED <<worldVars, cycleVars, recorder, updater, row, point, playbook,
                 verdict, unsure, eased, unindexed, faults>>

-------------------------------------------------------------------------------
(* Failures, each logged by the part it happens to *)

(* The request is not made, or it is, in part or wholly, and its answer is
   lost. *)
RecorderFails(ev) ==
  /\ recorder[ev] # "idle" /\ Fault
  /\ recorder' = [recorder EXCEPT ![ev] = "idle"]
  /\ \/ /\ recorder[ev] = "due"
        /\ UNCHANGED <<row, point, unindexed>>
     \/ /\ IF recorder[ev] = "due"
           THEN /\ IsOpen(ev[1])
                /\ row' = [row EXCEPT ![ev[1]].outcome = cycle[ev].outcome]
           ELSE UNCHANGED row
        /\ point' \in {point, Indexed(ev)}
        /\ unindexed' = unindexed \cup {ev[1]}
  /\ UNCHANGED <<worldVars, cycleVars, updater, updating, playbook, resolves, verdict,
                 unsure, eased>>

UpdaterFails(ev) ==
  /\ updater[ev].at # "idle" /\ Fault
  /\ updater' = [updater EXCEPT ![ev] = Idle]
  /\ unsure' = unsure \cup {ev[2]}
  /\ UNCHANGED <<worldVars, cycleVars, recorder, updating, storeVars, verdict, eased,
                 unindexed>>

GraphFails(ev) ==
  /\ ev \in updating /\ Fault
  /\ updating' = updating \ {ev}
  /\ unsure' = unsure \cup {ev[2]}
  /\ UNCHANGED <<worldVars, cycleVars, recorder, updater, storeVars, verdict, eased,
                 unindexed>>

(* The service is started again at the offset committed by then.  A timer
   commits more often than a cycle sleeps, so that only events whose cycle has
   not come to its verdict are delivered again, and none that are committed:
   the cycles under way are gone. *)
Restart(offset) ==
  LET again == {topic[i] : i \in offset + 1 .. position}
  IN  /\ Fault
      /\ offset \in 0..position
      /\ \A ev \in again : cycle[ev].at \in {"counting", "sleeping"}
      /\ position' = offset
      /\ cycle' = [ev \in Event |->
                     IF ev \in again THEN NoCycle
                     ELSE IF ev \in Live THEN [NoCycle EXCEPT !.at = "lost"] ELSE cycle[ev]]
      /\ recorder' = [ev \in Event |-> "idle"]
      /\ updater' = [ev \in Event |-> Idle]
      /\ updating' = {}
      /\ unsure' = unsure \cup {ev[2] : ev \in {ev \in Live : cycle[ev].at = "gathering"}}
      /\ unindexed' = unindexed \cup {ev[1] : ev \in {ev \in Event :
                                                        recorder[ev] = "indexing"}}
      /\ UNCHANGED <<worldVars, topic, storeVars, verdict, eased>>

-------------------------------------------------------------------------------
(* What goes on by itself, and what may happen *)

CycleStep(ev) ==
  \/ CountBefore(ev)
  \/ CountAfter(ev)
  \/ Gather(ev)
  \/ Record(ev)
  \/ Index(ev)
  \/ ReadPlaybooks(ev)
  \/ \E p \in Playbook : PatchPlaybook(ev, p)
  \/ UpdateGraph(ev)

CycleFails(ev) == RecorderFails(ev) \/ UpdaterFails(ev) \/ GraphFails(ev)

FeedbackNext ==
  \/ Take
  \/ \E ev \in Event : CycleStep(ev) \/ CycleFails(ev)
  \/ \E offset \in 0..Len(topic) : Restart(offset)
  \/ \E x \in Anomaly : Opens(x) \/ Clears(x)
================================================================================
