---------------------------- MODULE LearningLoopProofs ----------------------------
(***************************************************************************)
(* Proofs about LearningLoop, for every set of planners, of decisions, of  *)
(* anomalies and of playbooks: its type correctness, what it promises      *)
(* about decisions, that its two tallies agree and that rules learn from   *)
(* them, that it implements DecisionLedger, and that its feedback cycles   *)
(* always have a step to take and come to their end after finitely many.   *)
(***************************************************************************)
EXTENDS LearningLoop, FiniteSetTheorems, SequenceTheorems, TLAPS

-------------------------------------------------------------------------------
(* The inductive invariant *)

(* What an updater has read are tallies. *)
UpdaterInv ==
  /\ DOMAIN updater = Event
  /\ \A ev \in Event : \A p \in DOMAIN updater[ev].read : updater[ev].read[p] \in Tally

(* Each step of a plan is published once, and only events that the consumer has
   taken have a cycle: a second cycle of an event never meets the first. *)
StepsInv ==
  /\ \A d \in DOMAIN planned : \A i, j \in DOMAIN planned[d] :
       planned[d][i] = planned[d][j] => i = j
  /\ \A i, j \in DOMAIN topic : topic[i] = topic[j] => i = j
  /\ \A i \in DOMAIN topic :
       /\ topic[i][1] \in DOMAIN planned
       /\ \A j \in DOMAIN planned[topic[i][1]] : planned[topic[i][1]][j] # topic[i][2]
  /\ \A ev \in Event : cycle[ev].at # "none" => \E i \in 1 .. position : topic[i] = ev

(* A situation that is reasoned about has anomalies, and there are decisions
   left for the requests under way. *)
RequestInv ==
  /\ \A c \in Caller : request[c].at = "rating" => request[c].situation # <<>>
  /\ Cardinality(Reading) <= Cardinality(Unmade)

(* What a cycle is to record is a verdict of feedback on its plan. *)
VerdictInv == \A ev \in Event : cycle[ev].at = "gathering" => cycle[ev].outcome \in verdict[ev[1]]

(* What is being indexed is the outcome in the row. *)
IndexInv ==
  /\ OutcomeIsSearchable
  /\ \A ev \in Event : recorder[ev] = "indexing" =>
       row[ev[1]].outcome = cycle[ev].outcome /\ row[ev[1]].outcome # "none"

(* A cycle that has fewer anomalies to come to than it has begun with was eased. *)
ReliefInv ==
  /\ SuccessIsRelief
  /\ \A ev \in Event :
       /\ cycle[ev].at = "sleeping" /\ cycle[ev].before > Cardinality(anomalies) => ev \in eased
       /\ cycle[ev].at = "gathering" /\ cycle[ev].outcome = "success" => ev \in eased

(* The engine has the attributes of a caller that has not met another, and the
   situation of a planner is of its domain. *)
AskerInv ==
  /\ DecidedForAsker
  /\ \A c \in Caller \ contended :
       /\ c \in Reading => engine.agent = c /\ (c \in Planner => engine.domain = DomainOf[c])
       /\ c \in Planner /\ request[c].at \in {"rating", "asking"} =>
            \A i \in DOMAIN request[c].situation : <<DomainOf[c], request[c].situation[i]>> \in Keyword

(* What playbooks and edges count of an action is not what its cycles have judged
   while updates are under way, so these are counted too, by the decisions whose
   step of the action they are for. *)

Judged(ev) == cycle[ev].at \in {"gathering", "done"}

Won(ev) == cycle[ev].outcome = "success"

(* The updater has not written playbook p for the event yet. *)
Uncounted(p, ev) ==
  updater[ev].at = "due" \/ (updater[ev].at = "patching" /\ p \in DOMAIN updater[ev].read)

JudgedWins(a) == {d \in Decision : Judged(<<d, a>>) /\ Won(<<d, a>>)}

JudgedLosses(a) == {d \in Decision : Judged(<<d, a>>) /\ ~ Won(<<d, a>>)}

UncountedWins(p, a) == {d \in Decision : Uncounted(p, <<d, a>>) /\ Won(<<d, a>>)}

UncountedLosses(p, a) == {d \in Decision : Uncounted(p, <<d, a>>) /\ ~ Won(<<d, a>>)}

UndrawnWins(a) == {d \in Decision : <<d, a>> \in updating /\ Won(<<d, a>>)}

UndrawnLosses(a) == {d \in Decision : <<d, a>> \in updating /\ ~ Won(<<d, a>>)}

(* What is still to be counted makes up for what a playbook lacks. *)
Counts(p, a) ==
  /\ playbook[p].wins + Cardinality(UncountedWins(p, a)) = Cardinality(JudgedWins(a))
  /\ playbook[p].losses + Cardinality(UncountedLosses(p, a)) = Cardinality(JudgedLosses(a))

(* An edge counts failures only from its first success on. *)
Draws(a) ==
  /\ resolves[a].wins + Cardinality(UndrawnWins(a)) = Cardinality(JudgedWins(a))
  /\ resolves[a].losses + Cardinality(UndrawnLosses(a)) <= Cardinality(JudgedLosses(a))

Evident(a) ==
  Draws(a) /\ \A p \in Playbook : Recommended[p] = a => Counts(p, a)

EvidenceInv == \A a \in Action \ unsure : Evident(a)

Inv ==
  /\ TypeOK /\ UpdaterInv /\ StepsInv /\ RequestInv /\ VerdictInv /\ IndexInv /\ ReliefInv
  /\ AskerInv /\ EvidenceInv

-------------------------------------------------------------------------------
(* Types *)

(* What a cycle is at, what a playbook and an edge count, and what a row says
   remain such when they are updated. *)
LEMMA CycleUpdate ==
  ASSUME NEW c \in Cycle, NEW n \in 0 .. Cardinality(Anomaly), NEW o \in Outcome
  PROVE  /\ [c EXCEPT !.at = "sleeping", !.before = n] \in Cycle
         /\ [c EXCEPT !.at = "gathering", !.before = 0, !.outcome = o] \in Cycle
         /\ [c EXCEPT !.at = "gathering", !.before = 0, !.outcome = o].at = "gathering"
         /\ [c EXCEPT !.at = "gathering", !.before = 0, !.outcome = o].outcome = o
         /\ [c EXCEPT !.at = "done"] \in Cycle
<1>1. 0 \in 0 .. Cardinality(Anomaly)
  BY FS_CardinalityType, FeedbackAssumption
<1> QED
  BY <1>1 DEF Cycle, Remembered

LEMMA FreshCycle ==
  /\ NoCycle \in Cycle /\ [NoCycle EXCEPT !.at = "lost"] \in Cycle
  /\ [NoCycle EXCEPT !.at = "counting"] \in Cycle
<1>1. 0 \in 0 .. Cardinality(Anomaly)
  BY FS_CardinalityType, FeedbackAssumption
<1> QED
  BY <1>1 DEF NoCycle, Cycle, Remembered

LEMMA TallyUpdate ==
  ASSUME NEW tally \in Tally, NEW outcome
  PROVE  Counted(tally, outcome) \in Tally
BY DEF Counted, Tally

Sound(edge) ==
  edge \in Edge /\ edge.confidence \in IF edge.wins = 0 THEN {0} ELSE 10 .. 99

LEMMA EdgeUpdate ==
  ASSUME NEW edge, Sound(edge)
  PROVE  Sound(Strengthened(edge)) /\ Sound(Weakened(edge))
<1>1. PICK w \in Nat, l \in Nat, c \in Nat : edge = [wins |-> w, losses |-> l, confidence |-> c]
  BY DEF Sound, Edge
<1>2. w # 0 => c \in 10 .. 99
  BY <1>1 DEF Sound
<1>3. CASE w = 0
  BY <1>1, <1>3 DEF Sound, Edge, Strengthened, Weakened
<1>4. CASE w # 0
  <2>1. Strengthened(edge) = [wins |-> w + 1, losses |-> l, confidence |-> AtMost(c + 4, 99)]
    BY <1>1, <1>4 DEF Strengthened
  <2>2. Weakened(edge) = [wins |-> w, losses |-> l + 1, confidence |-> AtLeast(c - 5, 10)]
    BY <1>1, <1>4 DEF Weakened
  <2>3. AtMost(c + 4, 99) \in 10 .. 99 /\ AtLeast(c - 5, 10) \in 10 .. 99
    BY <1>2, <1>4 DEF AtMost, AtLeast
  <2> QED
    BY <1>4, <2>1, <2>2, <2>3 DEF Sound, Edge
<1> QED
  BY <1>3, <1>4

(* Every step of the feedback loop keeps the types of what it is made of. *)
LEMMA FeedbackTypeStep == TypeOK /\ UpdaterInv /\ StepsInv /\ FeedbackNext => FeedbackTypeOK' /\ UpdaterInv'
<1> SUFFICES ASSUME FeedbackTypeOK, UpdaterInv, StepsInv, FeedbackNext
             PROVE  FeedbackTypeOK' /\ UpdaterInv'
  BY DEF TypeOK
<1> USE FeedbackAssumption DEF UpdaterInv
<1> USE DEF FeedbackTypeOK, worldVars, cycleVars, gatherVars, storeVars
<1>0. Cardinality(Anomaly) \in Nat
  BY FS_CardinalityType
<1>1. CASE Take
  <2>1. topic[position + 1] \in Event /\ cycle[topic[position + 1]].at = "none"
    BY <1>1 DEF Take, StepsInv
  <2> DEFINE taken == topic[position + 1]
             counting == [NoCycle EXCEPT !.at = "counting"]
  <2>2. counting \in Cycle
    BY FreshCycle
  <2>3. cycle' = [cycle EXCEPT ![taken] = counting] /\ position' \in 0 .. Len(topic)
    BY <1>1 DEF Take
  <2>4. taken \in Event /\ cycle[taken].at = "none"
    BY <2>1
  <2> HIDE DEF taken, counting
  <2>5. cycle' \in [Event -> Cycle] /\ \A e \in Event \ {taken} : cycle'[e] = cycle[e]
    BY <2>2, <2>3
  <2>6. \A e \in Event : recorder[e] # "idle" \/ updater[e].at # "idle" \/ e \in updating
                        => cycle'[e].at = "gathering"
    BY <2>4, <2>5
  <2> QED
    BY <1>1, <2>3, <2>5, <2>6 DEF Take
<1>2. ASSUME NEW ev \in Event, CountBefore(ev) PROVE FeedbackTypeOK' /\ UpdaterInv'
  <2>1. PICK n \in 0 .. Cardinality(Anomaly) :
          /\ CountIs(n, ev)
          /\ cycle' = [cycle EXCEPT ![ev] = [@ EXCEPT !.at = "sleeping", !.before = n]]
    BY <1>2 DEF CountBefore
  <2>2. [cycle[ev] EXCEPT !.at = "sleeping", !.before = n] \in Cycle
    BY CycleUpdate DEF Outcome
  <2>3. cycle' \in [Event -> Cycle] /\ \A e \in Event \ {ev} : cycle'[e] = cycle[e]
    BY <2>1, <2>2
  <2> QED
    BY <1>2, <2>1, <2>3 DEF CountBefore, CountIs, Fault
<1>3. ASSUME NEW ev \in Event, CountAfter(ev) PROVE FeedbackTypeOK' /\ UpdaterInv'
  <2>1. PICK n \in 0 .. Cardinality(Anomaly) :
          /\ CountIs(n, ev)
          /\ cycle' = [cycle EXCEPT ![ev] = [@ EXCEPT !.at = "gathering", !.before = 0,
                                                     !.outcome = Verdict(cycle[ev].before, n)]]
          /\ verdict' = [verdict EXCEPT ![ev[1]] = @ \cup {Verdict(cycle[ev].before, n)}]
    BY <1>3 DEF CountAfter
  <2>2. Verdict(cycle[ev].before, n) \in Outcome
    BY DEF Verdict, Outcome
  <2> DEFINE gathering == [cycle[ev] EXCEPT !.at = "gathering", !.before = 0,
                                            !.outcome = Verdict(cycle[ev].before, n)]
  <2>3. gathering \in Cycle /\ gathering.at = "gathering"
    <3>1. cycle[ev] \in Cycle /\ 0 \in 0 .. Cardinality(Anomaly)
      BY <1>0
    <3> HIDE DEF FeedbackTypeOK
    <3> QED
      BY <2>2, <3>1, CycleUpdate
  <2>4. cycle' = [cycle EXCEPT ![ev] = gathering]
    BY <2>1
  <2> HIDE DEF gathering
  <2>5. /\ cycle' \in [Event -> Cycle] /\ cycle'[ev].at = "gathering"
        /\ \A e \in Event \ {ev} : cycle'[e] = cycle[e]
    BY <2>3, <2>4
  <2>6. verdict' \in [Decision -> SUBSET Outcome]
    BY <2>1, <2>2
  <2> QED
    BY <1>3, <2>1, <2>5, <2>6 DEF CountAfter, CountIs, Fault, Idle
<1>4. ASSUME NEW ev \in Event, Gather(ev) PROVE FeedbackTypeOK' /\ UpdaterInv'
  <2>1. [cycle[ev] EXCEPT !.at = "done"] \in Cycle
    <3>1. cycle[ev] \in Cycle /\ 0 \in 0 .. Cardinality(Anomaly)
      BY <1>0
    <3> HIDE DEF FeedbackTypeOK
    <3> QED
      BY <3>1, CycleUpdate DEF Outcome
  <2>2. cycle' \in [Event -> Cycle] /\ \A e \in Event \ {ev} : cycle'[e] = cycle[e]
    BY <1>4, <2>1 DEF Gather
  <2> QED
    BY <1>4, <2>2 DEF Gather, Gathered
<1>5. ASSUME NEW ev \in Event, Record(ev) PROVE FeedbackTypeOK' /\ UpdaterInv'
  <2>0. /\ ev[1] \in Decision /\ cycle[ev] \in Cycle /\ row[ev[1]] \in Row
        /\ cycle[ev].outcome \in Remembered
    BY DEF Event, Cycle
  <2>1. /\ recorder[ev] = "due" /\ recorder' \in [Event -> {"idle", "due", "indexing"}]
        /\ \A e \in Event \ {ev} : recorder'[e] = recorder[e]
    BY <1>5 DEF Record
  <2>2. unindexed' \subseteq Decision
    BY <1>5, <2>0 DEF Record, PatchRows
  <2>3. row' = row \/ (IsOpen(ev[1]) /\ row' = [row EXCEPT ![ev[1]].outcome = cycle[ev].outcome])
    BY <1>5 DEF Record, PatchRows
  <2>4. /\ row' \in [Decision -> Row]
        /\ \A d \in Decision : /\ row'[d].linked => row'[d].stored
                               /\ row'[d].outcome # "none" => row'[d].linked
    <3>1. CASE row' = row
      BY <3>1
    <3>2. CASE IsOpen(ev[1]) /\ row' = [row EXCEPT ![ev[1]].outcome = cycle[ev].outcome]
      <4>1. row \in [Decision -> Row]
            /\ \A d \in Decision : /\ row[d].linked => row[d].stored
                                   /\ row[d].outcome # "none" => row[d].linked
        OBVIOUS
      <4> HIDE DEF FeedbackTypeOK
      <4> QED
        BY <2>0, <3>2, <4>1 DEF IsOpen, Row
    <3> QED
      BY <2>3, <3>1, <3>2
  <2>5. UNCHANGED <<worldVars, cycleVars, updater, updating, point, playbook, resolves,
                    verdict, unsure, eased, faults>>
    BY <1>5 DEF Record
  <2> QED
    BY <2>1, <2>2, <2>4, <2>5
<1>6. ASSUME NEW ev \in Event, Index(ev) PROVE FeedbackTypeOK' /\ UpdaterInv'
  <2>1. point' \in [Decision -> Remembered] /\ unindexed' \subseteq Decision
    <3>1. ev[1] \in Decision /\ cycle[ev].outcome \in Remembered
      BY DEF Event, Cycle
    <3>2. Indexed(ev) \in [Decision -> Remembered]
      BY <3>1 DEF Indexed
    <3>3. /\ point' = Indexed(ev) \/ point' = point
          /\ unindexed' = unindexed \/ unindexed' = unindexed \cup {ev[1]}
      BY <1>6 DEF Index
    <3> QED
      BY <3>1, <3>2, <3>3
  <2> QED
    BY <1>6, <2>1 DEF Index
<1>7. ASSUME NEW ev \in Event, ReadPlaybooks(ev) PROVE FeedbackTypeOK' /\ UpdaterInv'
  BY <1>7 DEF ReadPlaybooks, Idle
<1>8. ASSUME NEW ev \in Event, NEW p \in Playbook, PatchPlaybook(ev, p)
      PROVE FeedbackTypeOK' /\ UpdaterInv'
  <2> DEFINE read == updater[ev].read
             left == DOMAIN read \ {p}
  <2>1. p \in DOMAIN read /\ read[p] \in Tally
    BY <1>8 DEF PatchPlaybook
  <2>2. Counted(read[p], cycle[ev].outcome) \in Tally
    BY <2>1, TallyUpdate
  <2>3. playbook' \in [Playbook -> Tally]
    BY <1>8, <2>2 DEF PatchPlaybook
  <2>4. unsure' \subseteq Action
    BY <1>8 DEF PatchPlaybook, Event
  <2>5. updater' = [updater EXCEPT ![ev] =
                      IF left = {} THEN Idle
                      ELSE [at |-> "patching", read |-> [q \in left |-> read[q]]]]
    BY <1>8 DEF PatchPlaybook
  <2>6. \A e \in Event \ {ev} : updater'[e] = updater[e]
    BY <2>5
  <2>7. /\ updater'[ev].at \in {"idle", "patching"}
        /\ \A q \in DOMAIN updater'[ev].read : q \in left /\ updater'[ev].read[q] = read[q]
    <3>1. CASE left = {}
      BY <2>5, <3>1 DEF Idle
    <3>2. CASE left # {}
      <4>1. updater'[ev] = [at |-> "patching", read |-> [q \in left |-> read[q]]]
        BY <2>5, <3>2
      <4> QED
        BY <4>1
    <3> QED
      BY <3>1, <3>2
  <2>8. updater[ev].at = "patching" /\ DOMAIN updater' = Event
    BY <1>8, <2>5 DEF PatchPlaybook
  <2>9. UNCHANGED <<anomalies, changes, topic, position, cycle, recorder, updating, row, point,
                    resolves, verdict, eased, unindexed, faults>>
    BY <1>8 DEF PatchPlaybook
  <2> HIDE DEF read, left
  <2>10. \A q \in left : q \in Playbook /\ Recommended[q] = ev[2] /\ read[q] \in Tally
    BY DEF left, read
  <2>11. ASSUME NEW e \in Event
         PROVE  /\ updater'[e].at \in {"idle", "due", "patching"}
                /\ \A q \in DOMAIN updater'[e].read :
                     /\ q \in Playbook /\ Recommended[q] = e[2]
                     /\ updater'[e].read[q] \in Tally
                /\ updater'[e].at # "idle" => updater[e].at # "idle"
    <3>1. CASE e = ev
      <4> HIDE DEF FeedbackTypeOK, UpdaterInv
      <4> QED
        BY <2>7, <2>8, <2>10, <3>1
    <3>2. CASE e # ev
      BY <2>6, <3>2
    <3> QED
      BY <3>1, <3>2
  <2> QED
    BY <2>3, <2>4, <2>8, <2>9, <2>11
<1>9. ASSUME NEW ev \in Event, UpdateGraph(ev) PROVE FeedbackTypeOK' /\ UpdaterInv'
  <2> DEFINE a == ev[2]
  <2>1. a \in Action
    BY DEF Event
  <2>2. \A b \in Action : Sound(resolves[b])
    BY DEF Sound
  <2>3. PICK edge : Sound(edge) /\ resolves' = [resolves EXCEPT ![a] = edge]
    BY <1>9, <2>1, <2>2, EdgeUpdate DEF UpdateGraph
  <2>4. /\ resolves' \in [Action -> Edge]
        /\ \A b \in Action : Sound(resolves'[b])
    BY <2>1, <2>2, <2>3 DEF Sound
  <2> QED
    BY <1>9, <2>4 DEF UpdateGraph, Sound
<1>10. ASSUME NEW ev \in Event, RecorderFails(ev) PROVE FeedbackTypeOK' /\ UpdaterInv'
  <2>0. /\ ev[1] \in Decision /\ cycle[ev].outcome \in Remembered
        /\ Indexed(ev) = [point EXCEPT ![ev[1]] = cycle[ev].outcome]
    BY DEF Event, Cycle, Indexed
  <2>1. point' \in [Decision -> Remembered] /\ unindexed' \subseteq Decision
    <3>1. /\ point' = Indexed(ev) \/ point' = point
          /\ unindexed' = unindexed \/ unindexed' = unindexed \cup {ev[1]}
      BY <1>10 DEF RecorderFails
    <3> QED
      BY <2>0, <3>1
  <2>2. CASE UNCHANGED row
    BY <1>10, <2>1, <2>2 DEF RecorderFails, Fault
  <2>3. CASE /\ IsOpen(ev[1])
             /\ row' = [row EXCEPT ![ev[1]].outcome = cycle[ev].outcome]
    <3>1. cycle[ev].outcome \in Remembered
      BY DEF Cycle
    <3>2. [row[ev[1]] EXCEPT !.outcome = cycle[ev].outcome] \in Row
      BY <2>0, <3>1 DEF Row
    <3>3. /\ row' \in [Decision -> Row]
          /\ \A d \in Decision : /\ row'[d].linked => row'[d].stored
                                 /\ row'[d].outcome # "none" => row'[d].linked
      BY <2>0, <2>3, <3>2 DEF IsOpen, Row
    <3> QED
      BY <1>10, <2>1, <3>3 DEF RecorderFails, Fault
  <2> QED
    BY <1>10, <2>2, <2>3 DEF RecorderFails
<1>11. ASSUME NEW ev \in Event, UpdaterFails(ev) PROVE FeedbackTypeOK' /\ UpdaterInv'
  BY <1>11 DEF UpdaterFails, Fault, Idle, Event
<1>12. ASSUME NEW ev \in Event, GraphFails(ev) PROVE FeedbackTypeOK' /\ UpdaterInv'
  BY <1>12 DEF GraphFails, Fault, Event
<1>13. ASSUME NEW offset \in 0 .. Len(topic), Restart(offset) PROVE FeedbackTypeOK' /\ UpdaterInv'
  <2>1. NoCycle \in Cycle /\ [NoCycle EXCEPT !.at = "lost"] \in Cycle
    BY FreshCycle
  <2>2. cycle' \in [Event -> Cycle]
    BY <1>13, <2>1 DEF Restart
  <2>3. /\ recorder' = [ev \in Event |-> "idle"] /\ updater' = [ev \in Event |-> Idle]
        /\ updating' = {} /\ position' \in 0 .. Len(topic) /\ faults' \in 0 .. MaxFaults
    BY <1>13 DEF Restart, Fault
  <2>4. \A ev \in Event : /\ recorder'[ev] = "idle" /\ updater'[ev].at = "idle"
                          /\ DOMAIN updater'[ev].read = {} /\ ev \notin updating'
    BY <2>3 DEF Idle
  <2>5. unsure' \subseteq Action /\ unindexed' \subseteq Decision
    BY <1>13 DEF Restart, Event, Live
  <2>6. UNCHANGED <<worldVars, topic, storeVars, verdict, eased>>
    BY <1>13 DEF Restart
  <2> QED
    BY <2>2, <2>3, <2>4, <2>5, <2>6
<1>14. ASSUME NEW x \in Anomaly, Opens(x) \/ Clears(x) PROVE FeedbackTypeOK' /\ UpdaterInv'
  <2>1. changes' \in 0 .. MaxChanges /\ anomalies' \subseteq Anomaly /\ eased' \subseteq Event
    BY <1>14 DEF Opens, Clears, Change
  <2>2. UNCHANGED <<cycleVars, gatherVars, storeVars, verdict, unsure, unindexed, faults>>
    BY <1>14 DEF Opens, Clears
  <2> QED
    BY <2>1, <2>2
<1> QED
  BY <1>1, <1>2, <1>3, <1>4, <1>5, <1>6, <1>7, <1>8, <1>9, <1>10, <1>11, <1>12, <1>13, <1>14
     DEF FeedbackNext, CycleStep, CycleFails

(* A rule that matches a situation recommends an action. *)
LEMMA RulesRecommendActions ==
  ASSUME NEW sit \in Seq(Anomaly), sit # <<>>, NEW r \in Matching(sit)
  PROVE  r.action \in Action
<1> DEFINE top == <<Head(sit)>>
           lags == {"consumer_lag_critical", "consumer_lag_high"}
<1>1. Head(sit) \in Anomaly /\ \A i \in DOMAIN sit : sit[i] \in Anomaly
  OBVIOUS
<1>2. top # <<>> /\ Head(top) = Head(sit)
  OBVIOUS
<1>3. \A types, severities : TopIs(sit, types, severities) <=> TopIs(top, types, severities)
  BY <1>1, <1>2 DEF TopIs
<1>4. r \in Matching(top) => r.action \in Action
  BY <1>1, LoopAssumption
<1>5. CASE SomeIs(sit, lags) /\ r = Rule(90, "scale_consumer_group", 95)
  <2>1. PICK x \in Anomaly : SomeIs(<<x>>, lags)
    BY <1>1, <1>5 DEF SomeIs
  <2>2. r \in Matching(<<x>>)
    BY <1>5, <2>1 DEF Matching
  <2> QED
    BY <2>2, LoopAssumption
<1>6. CASE ~ (SomeIs(sit, lags) /\ r = Rule(90, "scale_consumer_group", 95))
  <2> HIDE DEF top, lags
  <2>1. r \in Matching(top)
    BY <1>2, <1>3, <1>6 DEF Matching, lags
  <2> QED
    BY <1>4, <2>1
<1> QED
  BY <1>5, <1>6

LEMMA EvaluatedActions ==
  ASSUME NEW sit \in Seq(Anomaly), sit # <<>>, NEW rates, NEW x \in Evaluate(sit, rates)
  PROVE  x.action \in Action /\ x.approval \in BOOLEAN
<1>1. PICK r \in Matching(sit) :
        /\ x.action = r.action
        /\ x.approval = (Effective(r, rates) < ApprovalBelow \/ r.action = "escalate_to_human")
  BY DEF Evaluate, Trusted
<1> QED
  BY <1>1, RulesRecommendActions

(* What a request is at, when a part of it is updated. *)
Places == {"idle", "fetching", "rating", "asking", "persisting", "planning"}

LEMMA RequestIsOver ==
  NoRequest \in Request /\ NoRequest.at = "idle" /\ NoRequest.decision = <<>>
BY DEF NoRequest, Request, Attempts

LEMMA RequestMoves ==
  ASSUME NEW r \in Request, NEW at \in Places
  PROVE  /\ [r EXCEPT !.at = at] \in Request
         /\ [r EXCEPT !.at = at].at = at
         /\ [r EXCEPT !.at = at].decision = r.decision
         /\ [r EXCEPT !.at = at].situation = r.situation
BY DEF Request, Places

LEMMA RequestIsRated ==
  ASSUME NEW r \in Request, NEW s \in Seq(Anomaly)
  PROVE  /\ [[r EXCEPT !.at = "rating"] EXCEPT !.situation = s] \in Request
         /\ [[r EXCEPT !.at = "rating"] EXCEPT !.situation = s].at = "rating"
         /\ [[r EXCEPT !.at = "rating"] EXCEPT !.situation = s].decision = r.decision
         /\ [[r EXCEPT !.at = "rating"] EXCEPT !.situation = s].situation = s
BY DEF Request

LEMMA RequestIsRetried ==
  ASSUME NEW r \in Request, NEW n \in 0 .. Attempts
  PROVE  /\ [r EXCEPT !.attempt = n] \in Request
         /\ [r EXCEPT !.attempt = n].at = r.at
         /\ [r EXCEPT !.attempt = n].decision = r.decision
         /\ [r EXCEPT !.attempt = n].situation = r.situation
BY DEF Request

Persisting(d) == [NoRequest EXCEPT !.at = "persisting", !.decision = <<d>>]

LEMMA RequestIsDecided ==
  ASSUME NEW d \in DecisionObject
  PROVE  /\ Persisting(d) \in Request
         /\ Persisting(d).at = "persisting"
         /\ Persisting(d).decision = <<d>>
<1>1. Persisting(d) = [at |-> "persisting", situation |-> <<>>, attempt |-> 0, decision |-> <<d>>]
  <2>1. [NoRequest EXCEPT !.at = "persisting"]
          = [at |-> "persisting", situation |-> <<>>, attempt |-> 0, decision |-> <<>>]
    BY DEF NoRequest
  <2>2. ASSUME NEW s
        PROVE  [[at |-> "persisting", situation |-> <<>>, attempt |-> 0, decision |-> <<>>]
                  EXCEPT !.decision = s]
                 = [at |-> "persisting", situation |-> <<>>, attempt |-> 0, decision |-> s]
    OBVIOUS
  <2> QED
    BY <2>1, <2>2 DEF Persisting
<1>2. <<d>> \in Seq(DecisionObject) /\ <<>> \in Seq(Anomaly)
  OBVIOUS
<1>3. [at |-> "persisting", situation |-> <<>>, attempt |-> 0, decision |-> <<d>>] \in Request
  BY <1>2 DEF Request, Attempts
<1> QED
  BY <1>1, <1>3

(* There is a decision left for a request under way, and the one that is made of
   it carries what the engine and the request say. *)
Makes(c, decision) ==
  /\ decision.id \in Unmade
  /\ decision.agent = engine.agent
  /\ decision.about = ToSet(request[c].situation)
  /\ decision.contended <=> c \in contended
  /\ made' = made \cup {decision.id}
  /\ request' = [request EXCEPT ![c] = Persisting(decision)]

LEMMA DecideMakesDecision ==
  ASSUME TypeOK, RequestInv, NEW c \in Reading, NEW action \in Action, NEW fast \in BOOLEAN,
         NEW approval \in BOOLEAN, Decide(c, action, fast, approval)
  PROVE  \E decision \in DecisionObject :
           Makes(c, decision) /\ decision.action = action /\ (decision.approval <=> approval)
<1>1. IsFiniteSet(Caller)
  BY LoopAssumption, FS_AddElement DEF Caller, Loop
<1>2. Unmade # {}
  <2>1. IsFiniteSet(Reading) /\ Reading # {}
    BY <1>1, FS_Subset DEF Reading
  <2>2. Cardinality(Reading) # 0 /\ Cardinality(Reading) \in Nat
    BY <2>1, FS_EmptySet, FS_CardinalityType
  <2>3. Unmade = {} => Cardinality(Unmade) = 0
    BY FS_EmptySet
  <2> QED
    BY <2>2, <2>3 DEF RequestInv
<1> DEFINE d == CHOOSE d \in Unmade : TRUE
           decision == [id |-> d, agent |-> engine.agent, about |-> ToSet(request[c].situation),
                        action |-> action, fast |-> fast, approval |-> approval,
                        contended |-> c \in contended]
<1>3. d \in Unmade
  BY <1>2
<1>4. ToSet(request[c].situation) \subseteq Anomaly
  <2>1. request[c].situation \in Seq(Anomaly)
    BY DEF TypeOK, Request, Reading
  <2> QED
    BY <2>1 DEF ToSet
<1>5. engine.agent \in Caller
  BY DEF TypeOK
<1>6. decision \in DecisionObject
  <2>1. d \in Decision
    BY <1>3 DEF Unmade
  <2> HIDE DEF d
  <2> QED
    BY <2>1, <1>4, <1>5 DEF DecisionObject
<1>7. /\ made' = made \cup {d}
      /\ request' = [request EXCEPT ![c] = Persisting(decision)]
  BY DEF Decide, Persisting
<1>8. /\ decision.id = d /\ decision.agent = engine.agent
      /\ decision.about = ToSet(request[c].situation)
      /\ decision.contended <=> c \in contended
      /\ decision.action = action /\ (decision.approval <=> approval)
  OBVIOUS
<1> HIDE DEF decision, d
<1> QED
  BY <1>3, <1>6, <1>7, <1>8 DEF Makes

RequestTypeOK ==
  /\ request \in [Caller -> Request]
  /\ \A c \in Caller :
       /\ request[c].decision # <<>> <=> request[c].at \in {"persisting", "planning"}
       /\ \A i \in DOMAIN request[c].decision : request[c].decision[i].id \in made

(* One request goes on. *)
LEMMA RequestGoesOn ==
  ASSUME RequestTypeOK, made \subseteq made', NEW c \in Caller, NEW r \in Request,
         request' = [request EXCEPT ![c] = r],
         r.decision # <<>> <=> r.at \in {"persisting", "planning"},
         \A i \in DOMAIN r.decision : r.decision[i].id \in made'
  PROVE  RequestTypeOK'
<1>1. request' \in [Caller -> Request]
  BY DEF RequestTypeOK
<1>2. request'[c] = r /\ \A b \in Caller \ {c} : request'[b] = request[b]
  BY DEF RequestTypeOK
<1> QED
  BY <1>1, <1>2 DEF RequestTypeOK

(* The requests that are over, that go from await to await, and that are decided. *)
LEMMA OverTypes ==
  ASSUME RequestTypeOK, made' = made, NEW c \in Caller, Over(c)
  PROVE  RequestTypeOK'
<1>1. \A i \in DOMAIN NoRequest.decision : NoRequest.decision[i].id \in made'
  BY RequestIsOver
<1> QED
  BY <1>1, RequestIsOver, RequestGoesOn DEF Over

LEMMA GotoTypes ==
  ASSUME RequestTypeOK, made' = made, NEW c \in Caller,
         NEW at \in Places,
         request' = [request EXCEPT ![c].at = at],
         request[c].at \in {"persisting", "planning"} <=> at \in {"persisting", "planning"}
  PROVE  RequestTypeOK'
<1>1. request[c] \in Request
  BY DEF RequestTypeOK
<1> DEFINE r == [request[c] EXCEPT !.at = at]
<1>2. r \in Request /\ r.at = at /\ r.decision = request[c].decision
  BY <1>1, RequestMoves
<1>3. request' = [request EXCEPT ![c] = r]
  BY DEF RequestTypeOK
<1> HIDE DEF r
<1>4. /\ r.decision # <<>> <=> r.at \in {"persisting", "planning"}
      /\ \A i \in DOMAIN r.decision : r.decision[i].id \in made'
  BY <1>2 DEF RequestTypeOK
<1> QED
  BY <1>2, <1>3, <1>4, RequestGoesOn

LEMMA DecideTypes ==
  ASSUME TypeOK, RequestInv, RequestTypeOK, NEW c \in Reading, NEW action \in Action,
         NEW fast \in BOOLEAN, NEW approval \in BOOLEAN, Decide(c, action, fast, approval)
  PROVE  RequestTypeOK' /\ made \subseteq made' /\ made' \subseteq Decision
<1>1. PICK decision \in DecisionObject : Makes(c, decision)
  BY DecideMakesDecision
<1> DEFINE r == Persisting(decision)
<1>2. r \in Request /\ r.at = "persisting" /\ r.decision = <<decision>>
  BY RequestIsDecided
<1>3. request' = [request EXCEPT ![c] = r] /\ made' = made \cup {decision.id}
  BY <1>1 DEF Makes
<1> HIDE DEF r
<1>4. /\ r.decision # <<>> <=> r.at \in {"persisting", "planning"}
      /\ \A i \in DOMAIN r.decision : r.decision[i].id \in made'
  BY <1>2, <1>3
<1>5. c \in Caller /\ made \subseteq made'
  BY <1>3 DEF Reading
<1>6. made' \subseteq Decision
  BY <1>1 DEF Makes, Unmade, TypeOK
<1> QED
  BY <1>2, <1>3, <1>4, <1>5, <1>6, RequestGoesOn

(* The decision of a request is one that was made, for an action. *)
LEMMA HeadIsMade ==
  ASSUME RequestTypeOK, NEW c \in Caller, request[c].at \in {"persisting", "planning"}
  PROVE  /\ Head(request[c].decision) \in DecisionObject
         /\ Head(request[c].decision) = request[c].decision[1]
         /\ 1 \in DOMAIN request[c].decision
         /\ Head(request[c].decision).id \in made
         /\ Head(request[c].decision).action \in Action
<1>1. request[c].decision \in Seq(DecisionObject) /\ request[c].decision # <<>>
  BY DEF RequestTypeOK, Request
<1>2. /\ 1 \in DOMAIN request[c].decision
      /\ Head(request[c].decision) = request[c].decision[1]
      /\ Head(request[c].decision) \in DecisionObject
  BY <1>1
<1>3. Head(request[c].decision).id \in made
  BY <1>2 DEF RequestTypeOK
<1> QED
  BY <1>2, <1>3 DEF DecisionObject

(* A row that is stored, or linked if it is stored, is one still. *)
LEMMA RowUpdate ==
  ASSUME NEW r \in Row, NEW link \in BOOLEAN
  PROVE  /\ [r EXCEPT !.stored = TRUE] \in Row
         /\ [r EXCEPT !.stored = TRUE].stored
         /\ [r EXCEPT !.stored = TRUE].linked = r.linked
         /\ [r EXCEPT !.stored = TRUE].outcome = r.outcome
         /\ [r EXCEPT !.linked = link] \in Row
         /\ [r EXCEPT !.linked = link].stored = r.stored
         /\ [r EXCEPT !.linked = link].linked = link
         /\ [r EXCEPT !.linked = link].outcome = r.outcome
BY DEF Row

RowTypeOK ==
  /\ row \in [Decision -> Row]
  /\ \A d \in Decision : /\ row[d].linked => row[d].stored
                         /\ row[d].outcome # "none" => row[d].linked

LEMMA OtherTypes ==
  ASSUME TypeOK, UpdaterInv, RowTypeOK', faults' \in 0 .. MaxFaults,
         UNCHANGED <<worldVars, cycleVars, gatherVars, point, playbook, resolves, verdict, unsure,
                     eased, unindexed>>
  PROVE  FeedbackTypeOK' /\ UpdaterInv'
BY DEF TypeOK, FeedbackTypeOK, RowTypeOK, UpdaterInv, worldVars, cycleVars, gatherVars

(* How a step of the feedback loop changes a row: it records an outcome. *)
LEMMA FeedbackRows ==
  ASSUME FeedbackNext
  PROVE  \/ UNCHANGED row
         \/ \E ev \in Event :
              /\ recorder[ev] = "due" /\ IsOpen(ev[1]) /\ UNCHANGED <<cycle, verdict>>
              /\ row' = [row EXCEPT ![ev[1]].outcome = cycle[ev].outcome]
<1>1. ASSUME NEW ev \in Event, Record(ev)
      PROVE  \/ UNCHANGED row
             \/ /\ recorder[ev] = "due" /\ IsOpen(ev[1]) /\ UNCHANGED <<cycle, verdict>>
                /\ row' = [row EXCEPT ![ev[1]].outcome = cycle[ev].outcome]
  BY <1>1 DEF Record, PatchRows, cycleVars
<1>2. ASSUME NEW ev \in Event, RecorderFails(ev)
      PROVE  \/ UNCHANGED row
             \/ /\ recorder[ev] = "due" /\ IsOpen(ev[1]) /\ UNCHANGED <<cycle, verdict>>
                /\ row' = [row EXCEPT ![ev[1]].outcome = cycle[ev].outcome]
  BY <1>2 DEF RecorderFails, cycleVars
<1>3. ASSUME NEW ev \in Event, CycleStep(ev) \/ CycleFails(ev), ~ Record(ev), ~ RecorderFails(ev)
      PROVE  UNCHANGED row
  BY <1>3 DEF CycleStep, CycleFails, CountBefore, CountAfter, Gather, Index, ReadPlaybooks,
              PatchPlaybook, UpdateGraph, UpdaterFails, GraphFails, storeVars
<1>4. CASE Take \/ (\E offset \in 0 .. Len(topic) : Restart(offset))
             \/ (\E x \in Anomaly : Opens(x) \/ Clears(x))
  BY <1>4 DEF Take, Restart, Opens, Clears, storeVars
<1> QED
  BY <1>1, <1>2, <1>3, <1>4 DEF FeedbackNext

LEMMA FeedbackKeepsStored ==
  ASSUME TypeOK, FeedbackNext, NEW d \in Decision
  PROVE  row'[d].stored = row[d].stored /\ row'[d].linked = row[d].linked
<1>1. row \in [Decision -> Row]
  BY DEF TypeOK, FeedbackTypeOK
<1>2. ASSUME NEW o, NEW e \in Decision, row' = [row EXCEPT ![e].outcome = o]
      PROVE  row'[d].stored = row[d].stored /\ row'[d].linked = row[d].linked
  BY <1>1, <1>2 DEF Row
<1> QED
  BY <1>2, FeedbackRows DEF Event

(* Every step keeps the types. *)
LEMMA TypeStep == TypeOK /\ UpdaterInv /\ StepsInv /\ RequestInv /\ [Next]_vars => TypeOK' /\ UpdaterInv'
<1> SUFFICES ASSUME TypeOK, UpdaterInv, StepsInv, RequestInv, [Next]_vars
             PROVE  TypeOK' /\ UpdaterInv'
  OBVIOUS
<1>a. ASSUME UNCHANGED stateVars, faults' \in 0 .. MaxFaults
      PROVE  FeedbackTypeOK' /\ UpdaterInv'
  BY <1>a DEF TypeOK, FeedbackTypeOK, UpdaterInv, stateVars, worldVars, cycleVars, gatherVars,
              storeVars
<1>b. RequestTypeOK /\ faults \in 0 .. MaxFaults
  BY DEF TypeOK, RequestTypeOK, FeedbackTypeOK
<1>c. Fault => faults' \in 0 .. MaxFaults
  BY <1>b, FeedbackAssumption DEF Fault
<1>d. ASSUME RequestTypeOK', FeedbackTypeOK' /\ UpdaterInv', UNCHANGED <<row, planned, engine>>,
             made \subseteq made', made' \subseteq Decision, contended' \subseteq Caller
      PROVE  TypeOK' /\ UpdaterInv'
  BY <1>d DEF TypeOK, RequestTypeOK
<1>e. contended \subseteq Caller /\ made \subseteq Decision
  BY DEF TypeOK
<1>f. RowTypeOK /\ \A d \in Decision : row[d].stored => d \in made
  BY DEF TypeOK, FeedbackTypeOK, RowTypeOK
<1>1. CASE FeedbackNext /\ UNCHANGED loopVars
  <2>1. FeedbackTypeOK' /\ UpdaterInv'
    BY <1>1, FeedbackTypeStep
  <2>2. \A d \in Decision : row'[d].stored => d \in made
    BY <1>1, FeedbackKeepsStored DEF TypeOK
  <2> QED
    BY <1>1, <2>1, <2>2 DEF TypeOK, loopVars
<1>2. ASSUME NEW p \in Planner, Ask(p) PROVE TypeOK' /\ UpdaterInv'
  <2>1. p \in Caller /\ DomainOf[p] \in Domain
    BY DEF Caller, Domain
  <2>2. RequestTypeOK'
    BY <1>2, <1>b, <2>1, GotoTypes DEF Places, Ask, At
  <2>3. FeedbackTypeOK' /\ UpdaterInv'
    BY <1>2, <1>a, <1>b DEF Ask, feedbackVars
  <2> QED
    BY <1>2, <2>1, <2>2, <2>3 DEF Ask, Attributes, TypeOK, RequestTypeOK, Reading, feedbackVars,
                                  stateVars, storeVars
<1>3. CASE NextCycle
  <2>1. Loop \in Caller
    BY DEF Caller
  <2>2. RequestTypeOK'
    BY <1>3, <1>b, <2>1, GotoTypes DEF Places, NextCycle, At
  <2>3. FeedbackTypeOK' /\ UpdaterInv'
    BY <1>3, <1>a, <1>b DEF NextCycle, feedbackVars
  <2> QED
    BY <1>3, <1>d, <1>e, <2>1, <2>2, <2>3 DEF NextCycle, feedbackVars, stateVars, storeVars
<1>4. ASSUME NEW c \in Caller, Fetch(c) PROVE TypeOK' /\ UpdaterInv'
  <2>1. FeedbackTypeOK' /\ UpdaterInv'
    BY <1>4, <1>a, <1>b, <1>c DEF Fetch
  <2>2. CASE Over(c)
    BY <1>4, <1>b, <1>d, <1>e, <2>1, <2>2, OverTypes DEF Fetch, Over, stateVars, storeVars
  <2>3. ASSUME NEW ranked \in Seq(Anomaly), UNCHANGED contended,
               request' = [request EXCEPT ![c].at = "rating", ![c].situation = ranked]
        PROVE  TypeOK' /\ UpdaterInv'
    <3> DEFINE r == [[request[c] EXCEPT !.at = "rating"] EXCEPT !.situation = ranked]
    <3>1. r \in Request /\ r.at = "rating" /\ r.decision = request[c].decision
      <4>1. request[c] \in Request
        BY <1>b DEF RequestTypeOK
      <4> QED
        BY <4>1, RequestIsRated
    <3>2. request' = [request EXCEPT ![c] = r]
      BY <2>3, <1>b DEF RequestTypeOK
    <3> HIDE DEF r
    <3>3. request[c].decision = <<>>
      BY <1>4, <1>b DEF Fetch, At, RequestTypeOK
    <3>4. \A i \in DOMAIN r.decision : r.decision[i].id \in made'
      BY <3>1, <3>3
    <3>5. RequestTypeOK'
      BY <1>4, <1>b, <3>1, <3>2, <3>3, <3>4, RequestGoesOn DEF Fetch
    <3> QED
      BY <1>4, <1>d, <1>e, <2>1, <2>3, <3>5 DEF Fetch, stateVars, storeVars
  <2>4. ASSUME NEW relevant \in SUBSET anomalies, NEW ranked \in SetToSeqs(relevant)
        PROVE  ranked \in Seq(Anomaly)
    <3>1. relevant \subseteq Anomaly /\ Cardinality(relevant) \in Nat
      BY FS_Subset, FS_CardinalityType, FeedbackAssumption DEF TypeOK, FeedbackTypeOK
    <3> QED
      BY <3>1 DEF SetToSeqs
  <2> QED
    BY <1>4, <2>2, <2>3, <2>4 DEF Fetch
<1>5. ASSUME NEW c \in Caller, Rate(c) PROVE TypeOK' /\ UpdaterInv'
  <2>1. FeedbackTypeOK' /\ UpdaterInv'
    BY <1>5, <1>a, <1>b, <1>c DEF Rate
  <2>2. c \in Reading /\ request[c].situation \in Seq(Anomaly) /\ request[c].situation # <<>>
    BY <1>5, <1>b DEF Rate, At, Reading, RequestInv, RequestTypeOK, Request
  <2>3. ASSUME NEW rates, NEW x \in Evaluate(request[c].situation, rates),
               Decide(c, x.action, TRUE, x.approval)
        PROVE  TypeOK' /\ UpdaterInv'
    <3>1. x.action \in Action /\ x.approval \in BOOLEAN
      BY <2>2, EvaluatedActions
    <3>2. TRUE \in BOOLEAN /\ Decide(c, x.action, TRUE, x.approval)
      BY <2>3
    <3>3. RequestTypeOK' /\ made \subseteq made' /\ made' \subseteq Decision
      BY <1>b, <2>2, <3>1, <3>2, DecideTypes
    <3> QED
      BY <1>5, <1>d, <1>e, <2>1, <2>3, <3>3 DEF Rate, Decide, stateVars, storeVars
  <2>4. CASE Goto(c, "asking") /\ UNCHANGED made
    <3>1. RequestTypeOK'
      BY <1>5, <1>b, <2>4, GotoTypes DEF Places, Goto, Rate, At
    <3> QED
      BY <1>5, <1>d, <1>e, <2>1, <2>4, <3>1 DEF Rate, Goto, stateVars, storeVars
  <2> QED
    BY <1>5, <2>3, <2>4 DEF Rate
<1>6. ASSUME NEW c \in Caller, LlmAnswers(c) PROVE TypeOK' /\ UpdaterInv'
  <2>1. FeedbackTypeOK' /\ UpdaterInv'
    BY <1>6, <1>a, <1>b DEF LlmAnswers, feedbackVars
  <2>2. PICK advice \in Advice, low \in BOOLEAN :
          LET action == IF advice \in Action THEN advice ELSE "escalate_to_human"
          IN  Decide(c, action, FALSE, low \/ advice \notin Action \/ action \in Gated)
    BY <1>6 DEF LlmAnswers
  <2> DEFINE action == IF advice \in Action THEN advice ELSE "escalate_to_human"
             approval == low \/ advice \notin Action \/ action \in Gated
  <2>3. action \in Action /\ approval \in BOOLEAN /\ Decide(c, action, FALSE, approval)
    BY <2>2, LoopAssumption
  <2> HIDE DEF action, approval
  <2>4. c \in Reading
    BY <1>6 DEF LlmAnswers, At, Reading
  <2>5. RequestTypeOK' /\ made \subseteq made' /\ made' \subseteq Decision
    BY <1>b, <2>3, <2>4, DecideTypes
  <2> QED
    BY <1>6, <1>d, <1>e, <2>1, <2>3, <2>5 DEF LlmAnswers, Decide, feedbackVars, stateVars, storeVars
<1>7. ASSUME NEW c \in Caller, LlmFails(c) PROVE TypeOK' /\ UpdaterInv'
  <2>1. FeedbackTypeOK' /\ UpdaterInv'
    BY <1>7, <1>a, <1>b DEF LlmFails, feedbackVars
  <2>2. CASE Over(c)
    BY <1>7, <1>b, <1>d, <1>e, <2>1, <2>2, OverTypes
       DEF LlmFails, Over, feedbackVars, stateVars, storeVars
  <2>3. CASE /\ request[c].attempt + 1 < Attempts
             /\ request' = [request EXCEPT ![c].attempt = @ + 1]
             /\ UNCHANGED contended
    <3> DEFINE r == [request[c] EXCEPT !.attempt = request[c].attempt + 1]
    <3>1. request[c] \in Request /\ request[c].attempt + 1 \in 0 .. Attempts
      BY <1>b, <2>3 DEF RequestTypeOK, Request, Attempts
    <3>2. r \in Request /\ r.at = request[c].at /\ r.decision = request[c].decision
      BY <3>1, RequestIsRetried
    <3>3. request' = [request EXCEPT ![c] = r]
      BY <1>b, <2>3 DEF RequestTypeOK
    <3> HIDE DEF r
    <3>4. RequestTypeOK'
      BY <1>7, <1>b, <3>2, <3>3, RequestGoesOn DEF LlmFails, RequestTypeOK
    <3> QED
      BY <1>7, <1>d, <1>e, <2>1, <2>3, <3>4 DEF LlmFails, feedbackVars, stateVars, storeVars
  <2> QED
    BY <1>7, <2>2, <2>3 DEF LlmFails
<1>8. ASSUME NEW c \in Caller, Persist(c) PROVE TypeOK' /\ UpdaterInv'
  <2> DEFINE id == Head(request[c].decision).id
  <2>1. id \in made /\ id \in Decision
    BY <1>8, <1>b, <1>e, HeadIsMade DEF Persist, At
  <2>2. /\ row' = [row EXCEPT ![id].stored = TRUE] \/ UNCHANGED row
        /\ faults' \in 0 .. MaxFaults
    BY <1>8, <1>b, <1>c DEF Persist
  <2> HIDE DEF id
  <2>3. ASSUME row' = [row EXCEPT ![id] = [row[id] EXCEPT !.stored = TRUE]]
        PROVE  RowTypeOK' /\ \A d \in Decision : row'[d].stored => d \in made
    <3>1. [row[id] EXCEPT !.stored = TRUE] \in Row
      BY <1>f, <2>1, RowUpdate DEF RowTypeOK
    <3>2. row' \in [Decision -> Row]
      BY <1>f, <2>3, <3>1 DEF RowTypeOK
    <3>3. /\ \A d \in Decision \ {id} : row'[d] = row[d]
          /\ row'[id].stored /\ row'[id].linked = row[id].linked
          /\ row'[id].outcome = row[id].outcome
      BY <1>f, <2>1, <2>3, RowUpdate DEF RowTypeOK
    <3> QED
      BY <1>f, <2>1, <3>2, <3>3 DEF RowTypeOK
  <2>4. RowTypeOK' /\ \A d \in Decision : row'[d].stored => d \in made
    <3>1. CASE UNCHANGED row
      BY <1>f, <3>1 DEF RowTypeOK, TypeOK
    <3>2. CASE row' = [row EXCEPT ![id].stored = TRUE]
      BY <2>3, <3>2
    <3> QED
      BY <2>2, <3>1, <3>2
  <2>5. FeedbackTypeOK' /\ UpdaterInv'
    BY <1>8, <2>2, <2>4, OtherTypes DEF Persist
  <2>6. RequestTypeOK'
    <3>1. CASE Over(c)
      BY <1>8, <1>b, <3>1, OverTypes DEF Persist
    <3>2. CASE Goto(c, "planning")
      BY <1>8, <1>b, <3>2, GotoTypes DEF Goto, Persist, At, Places
    <3> QED
      BY <1>8, <3>1, <3>2 DEF Persist
  <2>7. UNCHANGED <<engine, made, planned>> /\ contended' \subseteq Caller
    BY <1>8, <1>e DEF Persist, Over, Goto
  <2> QED
    BY <2>4, <2>5, <2>6, <2>7 DEF TypeOK, RequestTypeOK
<1>9. ASSUME NEW c \in Caller, Generate(c) PROVE TypeOK' /\ UpdaterInv'
  <2> DEFINE decision == Head(request[c].decision)
             id == decision.id
  <2>1. id \in made /\ id \in Decision /\ decision.action \in Action
    BY <1>9, <1>b, <1>e, HeadIsMade DEF Generate, At
  <2>2. /\ row' = [row EXCEPT ![id].linked = row[id].stored] \/ UNCHANGED row
        /\ faults' \in 0 .. MaxFaults
        /\ planned' = [d \in DOMAIN planned \cup {id} |->
                         IF d \in DOMAIN planned THEN planned[d] ELSE StepsOf[decision.action]]
    BY <1>9, <1>b, <1>c DEF Generate
  <2>3. StepsOf[decision.action] \in Seq(Action)
    BY <2>1, LoopAssumption
  <2> HIDE DEF id
  <2>4. \A d \in DOMAIN planned' : d \in made /\ planned'[d] \in Seq(Action)
    BY <2>1, <2>2, <2>3 DEF TypeOK
  <2>5. ASSUME row' = [row EXCEPT ![id] = [row[id] EXCEPT !.linked = row[id].stored]]
        PROVE  RowTypeOK' /\ \A d \in Decision : row'[d].stored => d \in made
    <3>1. row[id] \in Row /\ row[id].stored \in BOOLEAN
      BY <1>f, <2>1 DEF RowTypeOK, Row
    <3>2. [row[id] EXCEPT !.linked = row[id].stored] \in Row
      BY <3>1, RowUpdate
    <3>3. row' \in [Decision -> Row]
      BY <1>f, <2>5, <3>2 DEF RowTypeOK
    <3>4. /\ \A d \in Decision \ {id} : row'[d] = row[d]
          /\ row'[id].linked = row[id].stored /\ row'[id].stored = row[id].stored
          /\ row'[id].outcome = row[id].outcome
      BY <1>f, <2>1, <2>5, <3>1, RowUpdate DEF RowTypeOK
    <3> QED
      BY <1>f, <2>1, <3>3, <3>4 DEF RowTypeOK, TypeOK
  <2>6. RowTypeOK' /\ \A d \in Decision : row'[d].stored => d \in made
    <3>1. CASE UNCHANGED row
      BY <1>f, <3>1 DEF RowTypeOK, TypeOK
    <3>2. CASE row' = [row EXCEPT ![id].linked = row[id].stored]
      BY <2>5, <3>2
    <3> QED
      BY <2>2, <3>1, <3>2
  <2>7. FeedbackTypeOK' /\ UpdaterInv'
    BY <1>9, <2>2, <2>6, OtherTypes DEF Generate
  <2>8. RequestTypeOK' /\ UNCHANGED <<engine, made>> /\ contended' \subseteq Caller
    BY <1>9, <1>b, <1>e, OverTypes DEF Generate, Over
  <2> QED
    BY <2>4, <2>6, <2>7, <2>8 DEF TypeOK, RequestTypeOK
<1>10. ASSUME NEW c \in Caller, GenerateFails(c) PROVE TypeOK' /\ UpdaterInv'
  <2>1. FeedbackTypeOK' /\ UpdaterInv'
    BY <1>10, <1>a, <1>b, <1>c DEF GenerateFails
  <2> QED
    BY <1>10, <1>b, <1>d, <1>e, <2>1, OverTypes DEF GenerateFails, Over, stateVars, storeVars
<1>11. ASSUME NEW d \in Decision, StepEnds(d) PROVE TypeOK' /\ UpdaterInv'
  <2>1. planned[d] \in Seq(Action) /\ planned[d] # <<>> /\ d \in DOMAIN planned
    BY <1>11 DEF StepEnds, TypeOK
  <2>2. <<d, Head(planned[d])>> \in Event /\ Tail(planned[d]) \in Seq(Action)
    BY <2>1 DEF Event
  <2>3. topic' \in Seq(Event) /\ Len(topic') = Len(topic) + 1
    BY <1>11, <2>2, AppendProperties DEF StepEnds, TypeOK, FeedbackTypeOK
  <2>4. FeedbackTypeOK' /\ UpdaterInv'
    BY <1>11, <2>3 DEF StepEnds, TypeOK, FeedbackTypeOK, UpdaterInv, worldVars, gatherVars, storeVars
  <2>5. DOMAIN planned' = DOMAIN planned /\ \A e \in DOMAIN planned' : planned'[e] \in Seq(Action)
    BY <1>11, <2>1, <2>2 DEF StepEnds, TypeOK
  <2> QED
    BY <1>11, <2>4, <2>5 DEF StepEnds, TypeOK, storeVars
<1>12. CASE UNCHANGED vars
  BY <1>12, <1>a, <1>b, <1>d, <1>e DEF vars, feedbackVars, loopVars, stateVars, storeVars, RequestTypeOK
<1> QED
  BY <1>1, <1>2, <1>3, <1>4, <1>5, <1>6, <1>7, <1>8, <1>9, <1>10, <1>11, <1>12
     DEF Next, RequestStep

-------------------------------------------------------------------------------
(* The other parts of the invariant *)

(* How a step of the feedback loop changes the cycles: it takes the next event,
   brings one cycle on, or starts again. *)
LEMMA FeedbackCycles ==
  ASSUME FeedbackNext
  PROVE  \/ Take
         \/ \E ev \in Event : CountBefore(ev) \/ CountAfter(ev) \/ Gather(ev)
         \/ \E offset \in 0 .. Len(topic) : Restart(offset)
         \/ UNCHANGED <<cycleVars, verdict>>
<1>1. ASSUME NEW ev \in Event, CycleStep(ev) \/ CycleFails(ev),
             ~ (CountBefore(ev) \/ CountAfter(ev) \/ Gather(ev))
      PROVE  UNCHANGED <<cycleVars, verdict>>
  BY <1>1 DEF CycleStep, CycleFails, Record, Index, ReadPlaybooks, PatchPlaybook, UpdateGraph,
              RecorderFails, UpdaterFails, GraphFails
<1>2. ASSUME NEW x \in Anomaly, Opens(x) \/ Clears(x) PROVE UNCHANGED <<cycleVars, verdict>>
  BY <1>2 DEF Opens, Clears
<1> QED
  BY <1>1, <1>2 DEF FeedbackNext

(* The steps outside of the feedback loop leave its cycles alone. *)
LEMMA LoopCycles ==
  ASSUME NEW c \in Caller, RequestStep(c) \/ GenerateFails(c)
  PROVE  UNCHANGED <<worldVars, cycleVars, gatherVars, point, playbook, resolves, verdict, unsure,
                     eased, unindexed>>
BY DEF RequestStep, GenerateFails, Fetch, Rate, LlmAnswers, LlmFails, Persist, Generate,
       feedbackVars, stateVars, storeVars

LEMMA AskCycles ==
  ASSUME (\E p \in Planner : Ask(p)) \/ NextCycle
  PROVE  UNCHANGED feedbackVars /\ UNCHANGED <<made, planned>>
BY DEF Ask, NextCycle

LEMMA StepsStep == TypeOK /\ StepsInv /\ [Next]_vars => StepsInv'
<1> SUFFICES ASSUME TypeOK, StepsInv, [Next]_vars PROVE StepsInv'
  OBVIOUS
<1>a. /\ topic \in Seq(Event) /\ position \in 0 .. Len(topic)
      /\ cycle \in [Event -> Cycle]
      /\ \A d \in DOMAIN planned : planned[d] \in Seq(Action)
  BY DEF TypeOK, FeedbackTypeOK
<1>b. ASSUME UNCHANGED <<topic, position, cycle, planned>> PROVE StepsInv'
  BY <1>b DEF StepsInv
<1>c. ASSUME UNCHANGED <<topic, position, planned>>,
             \A ev \in Event : cycle'[ev].at # "none" => cycle[ev].at # "none"
      PROVE  StepsInv'
  BY <1>c DEF StepsInv
<1>1. CASE FeedbackNext /\ UNCHANGED loopVars
  <2>1. CASE Take
    <3> DEFINE taken == topic[position + 1]
    <3>1. /\ position' = position + 1 /\ UNCHANGED <<topic, planned>>
          /\ cycle' = [cycle EXCEPT ![taken] = [NoCycle EXCEPT !.at = "counting"]]
          /\ position + 1 \in 1 .. Len(topic)
      BY <1>1, <1>a, <2>1 DEF Take, loopVars
    <3>2. ASSUME NEW ev \in Event, cycle'[ev].at # "none"
          PROVE  \E i \in 1 .. position + 1 : topic[i] = ev
      <4>1. CASE ev = taken
        BY <1>a, <3>1, <4>1
      <4>2. CASE ev # taken
        BY <1>a, <3>1, <3>2, <4>2 DEF StepsInv
      <4> QED
        BY <4>1, <4>2
    <3> QED
      BY <3>1, <3>2 DEF StepsInv
  <2>2. ASSUME NEW ev \in Event, CountBefore(ev) PROVE StepsInv'
    <3>1. cycle[ev].at # "none" /\ \A e \in Event \ {ev} : cycle'[e] = cycle[e]
      BY <1>a, <2>2 DEF CountBefore
    <3> QED
      BY <1>1, <1>c, <2>2, <3>1 DEF CountBefore, loopVars
  <2>3. ASSUME NEW ev \in Event, CountAfter(ev) PROVE StepsInv'
    <3>1. cycle[ev].at # "none" /\ \A e \in Event \ {ev} : cycle'[e] = cycle[e]
      BY <1>a, <2>3 DEF CountAfter
    <3> QED
      BY <1>1, <1>c, <2>3, <3>1 DEF CountAfter, loopVars
  <2>4. ASSUME NEW ev \in Event, Gather(ev) PROVE StepsInv'
    <3>1. cycle[ev].at # "none" /\ \A e \in Event \ {ev} : cycle'[e] = cycle[e]
      BY <1>a, <2>4 DEF Gather
    <3> QED
      BY <1>1, <1>c, <2>4, <3>1 DEF Gather, loopVars
  <2>5. ASSUME NEW offset \in 0 .. Len(topic), Restart(offset) PROVE StepsInv'
    <3> DEFINE again == {topic[i] : i \in offset + 1 .. position}
    <3>1. /\ position' = offset /\ offset \in 0 .. position /\ UNCHANGED <<topic, planned>>
          /\ cycle' = [ev \in Event |->
                         IF ev \in again THEN NoCycle
                         ELSE IF ev \in Live THEN [NoCycle EXCEPT !.at = "lost"] ELSE cycle[ev]]
      BY <1>1, <2>5 DEF Restart, loopVars
    <3>2. ASSUME NEW ev \in Event, cycle'[ev].at # "none"
          PROVE  \E i \in 1 .. offset : topic[i] = ev
      <4>1. ev \notin again
        BY <3>1, <3>2 DEF NoCycle
      <4>2. cycle[ev].at # "none"
        BY <3>1, <3>2, <4>1 DEF Live
      <4>3. PICK i \in 1 .. position : topic[i] = ev
        BY <4>2 DEF StepsInv
      <4>4. i \notin offset + 1 .. position
        BY <4>1, <4>3
      <4> QED
        BY <1>a, <3>1, <4>3, <4>4
    <3> QED
      BY <3>1, <3>2 DEF StepsInv
  <2>6. CASE UNCHANGED cycleVars
    BY <1>1, <1>b, <2>6 DEF cycleVars, loopVars
  <2> QED
    BY <1>1, <2>1, <2>2, <2>3, <2>4, <2>5, <2>6, FeedbackCycles
<1>2. CASE (\E p \in Planner : Ask(p)) \/ NextCycle
  BY <1>2, <1>b, AskCycles DEF feedbackVars, stateVars, cycleVars
<1>3. ASSUME NEW c \in Caller, RequestStep(c) \/ GenerateFails(c) PROVE StepsInv'
  <2>1. UNCHANGED cycleVars
    BY <1>3, LoopCycles
  <2>2. CASE Generate(c)
    <3> DEFINE decision == Head(request[c].decision)
               steps == StepsOf[decision.action]
    <3>1. decision.action \in Action
      BY <2>2, HeadIsMade DEF Generate, At, TypeOK, RequestTypeOK
    <3>2. \A i, j \in DOMAIN steps : steps[i] = steps[j] => i = j
      BY <3>1, LoopAssumption
    <3>3. planned' = [d \in DOMAIN planned \cup {decision.id} |->
                        IF d \in DOMAIN planned THEN planned[d] ELSE steps]
      BY <2>2 DEF Generate
    <3> HIDE DEF decision, steps
    <3>4. \A d \in DOMAIN planned : d \in DOMAIN planned' /\ planned'[d] = planned[d]
      BY <3>3
    <3>5. \A d \in DOMAIN planned' : \A i, j \in DOMAIN planned'[d] :
            planned'[d][i] = planned'[d][j] => i = j
      BY <3>2, <3>3 DEF StepsInv
    <3>6. /\ \A i, j \in DOMAIN topic' : topic'[i] = topic'[j] => i = j
          /\ \A ev \in Event : cycle'[ev].at # "none" => \E i \in 1 .. position' : topic'[i] = ev
      BY <2>1 DEF StepsInv, cycleVars
    <3>7. \A i \in DOMAIN topic' :
            /\ topic'[i][1] \in DOMAIN planned'
            /\ \A j \in DOMAIN planned'[topic'[i][1]] : planned'[topic'[i][1]][j] # topic'[i][2]
      BY <2>1, <3>4 DEF StepsInv, cycleVars
    <3> QED
      BY <3>5, <3>6, <3>7 DEF StepsInv
  <2>3. CASE ~ Generate(c)
    <3>1. UNCHANGED planned
      BY <1>3, <2>3 DEF RequestStep, GenerateFails, Fetch, Rate, LlmAnswers, LlmFails, Persist
    <3> QED
      BY <1>b, <2>1, <3>1 DEF cycleVars
  <2> QED
    BY <2>2, <2>3
<1>4. ASSUME NEW d \in Decision, StepEnds(d) PROVE StepsInv'
  <2> DEFINE steps == planned[d]
             ev == <<d, Head(steps)>>
  <2>1. /\ d \in DOMAIN planned /\ steps \in Seq(Action) /\ steps # <<>>
        /\ \A i, j \in DOMAIN steps : steps[i] = steps[j] => i = j
    BY <1>4, <1>a DEF StepEnds, StepsInv
  <2>2. /\ Tail(steps) \in Seq(Action) /\ Head(steps) = steps[1] /\ 1 \in DOMAIN steps
        /\ DOMAIN Tail(steps) = 1 .. Len(steps) - 1 /\ DOMAIN steps = 1 .. Len(steps)
        /\ \A i \in 1 .. Len(steps) - 1 : Tail(steps)[i] = steps[i + 1]
    BY <2>1
  <2>3. /\ planned' = [planned EXCEPT ![d] = Tail(steps)] /\ topic' = Append(topic, ev)
        /\ UNCHANGED <<position, cycle>>
    BY <1>4 DEF StepEnds
  <2>4. ev \in Event /\ ev[1] = d /\ ev[2] = steps[1]
    BY <2>1, <2>2 DEF Event
  <2> HIDE DEF ev, steps
  <2>5. /\ DOMAIN topic' = 1 .. Len(topic) + 1 /\ DOMAIN topic = 1 .. Len(topic)
        /\ topic'[Len(topic) + 1] = ev /\ Len(topic) \in Nat
        /\ \A i \in 1 .. Len(topic) : topic'[i] = topic[i]
    BY <1>a, <2>3, <2>4, AppendProperties
  <2>6. \A i \in 1 .. Len(topic) : topic[i] # ev
    BY <2>1, <2>2, <2>4, <2>5 DEF StepsInv, steps
  <2>7. \A e \in DOMAIN planned' : \A i, j \in DOMAIN planned'[e] :
          planned'[e][i] = planned'[e][j] => i = j
    <3>1. \A i, j \in DOMAIN Tail(steps) : Tail(steps)[i] = Tail(steps)[j] => i = j
      BY <2>1, <2>2
    <3> QED
      BY <2>1, <2>3, <3>1 DEF StepsInv
  <2>8. \A i, j \in DOMAIN topic' : topic'[i] = topic'[j] => i = j
    BY <2>5, <2>6 DEF StepsInv
  <2>9. ASSUME NEW i \in DOMAIN topic'
        PROVE  /\ topic'[i][1] \in DOMAIN planned'
               /\ \A j \in DOMAIN planned'[topic'[i][1]] : planned'[topic'[i][1]][j] # topic'[i][2]
    <3>1. CASE i = Len(topic) + 1
      <4>1. \A j \in DOMAIN Tail(steps) : Tail(steps)[j] # steps[1]
        BY <2>1, <2>2
      <4> QED
        BY <2>1, <2>3, <2>4, <2>5, <3>1, <4>1
    <3>2. CASE i \in 1 .. Len(topic) /\ topic[i][1] = d
      <4>1. \A j \in DOMAIN steps : steps[j] # topic[i][2]
        BY <2>5, <3>2 DEF StepsInv, steps
      <4>2. \A j \in DOMAIN Tail(steps) : Tail(steps)[j] # topic[i][2]
        BY <2>2, <4>1
      <4> QED
        BY <2>1, <2>3, <2>5, <3>2, <4>2
    <3>3. CASE i \in 1 .. Len(topic) /\ topic[i][1] # d
      BY <2>3, <2>5, <3>3 DEF StepsInv
    <3> QED
      BY <2>5, <3>1, <3>2, <3>3
  <2>10. \A e \in Event : cycle'[e].at # "none" => \E i \in 1 .. position' : topic'[i] = e
    BY <1>a, <2>3, <2>5 DEF StepsInv
  <2> QED
    BY <2>7, <2>8, <2>9, <2>10 DEF StepsInv
<1>5. CASE UNCHANGED vars
  BY <1>5, <1>b DEF vars, feedbackVars, stateVars, cycleVars, loopVars
<1> QED
  BY <1>1, <1>2, <1>3, <1>4, <1>5 DEF Next

(* A caller begins or ends to read the engine. *)
LEMMA ReadingStep ==
  ASSUME TypeOK, RequestInv
  PROVE  /\ \A c : /\ Spare /\ Unmade' = Unmade /\ Reading' = Reading \cup {c}
                      => Cardinality(Reading') <= Cardinality(Unmade')
         /\ Unmade' = Unmade /\ Reading' \subseteq Reading
              => Cardinality(Reading') <= Cardinality(Unmade')
         /\ \A c \in Reading, d \in Unmade :
              /\ Reading' = Reading \ {c} /\ Unmade' = Unmade \ {d}
                => Cardinality(Reading') <= Cardinality(Unmade')
<1>1. IsFiniteSet(Reading) /\ IsFiniteSet(Unmade)
  <2>1. IsFiniteSet(Caller)
    BY LoopAssumption, FS_AddElement DEF Caller, Loop
  <2> QED
    BY <2>1, LoopAssumption, FS_Subset DEF Reading, Unmade
<1>2. /\ Cardinality(Reading) \in Nat /\ Cardinality(Unmade) \in Nat
      /\ Cardinality(Reading) <= Cardinality(Unmade)
  BY <1>1, FS_CardinalityType DEF RequestInv
<1>3. ASSUME NEW c, Spare, Unmade' = Unmade, Reading' = Reading \cup {c}
      PROVE  Cardinality(Reading') <= Cardinality(Unmade')
  <2>1. Cardinality(Reading \cup {c}) <= Cardinality(Reading) + 1
    <3>1. CASE c \in Reading
      <4>1. Reading \cup {c} = Reading
        BY <3>1
      <4>2. Cardinality(Reading \cup {c}) = Cardinality(Reading)
        BY <4>1
      <4> QED
        BY <1>2, <4>2
    <3>2. CASE c \notin Reading
      BY <1>1, <1>2, <3>2, FS_AddElement
    <3> QED
      BY <3>1, <3>2
  <2>2. Cardinality(Reading \cup {c}) \in Nat
    BY <1>1, FS_AddElement, FS_CardinalityType
  <2> QED
    BY <1>2, <1>3, <2>1, <2>2 DEF Spare
<1>4. ASSUME Unmade' = Unmade, Reading' \subseteq Reading
      PROVE  Cardinality(Reading') <= Cardinality(Unmade')
  <2>1. Cardinality(Reading') <= Cardinality(Reading) /\ Cardinality(Reading') \in Nat
    BY <1>1, <1>4, FS_Subset, FS_CardinalityType
  <2> QED
    BY <1>2, <1>4, <2>1
<1>5. ASSUME NEW c \in Reading, NEW d \in Unmade, Reading' = Reading \ {c}, Unmade' = Unmade \ {d}
      PROVE  Cardinality(Reading') <= Cardinality(Unmade')
  <2>1. /\ Cardinality(Reading \ {c}) = Cardinality(Reading) - 1
        /\ Cardinality(Unmade \ {d}) = Cardinality(Unmade) - 1
    BY <1>1, FS_RemoveElement
  <2> QED
    BY <1>2, <1>5, <2>1
<1> QED
  BY <1>3, <1>4, <1>5

LEMMA RequestStepInv == TypeOK /\ RequestInv /\ [Next]_vars => RequestInv'
<1> SUFFICES ASSUME TypeOK, RequestInv, [Next]_vars PROVE RequestInv'
  OBVIOUS
<1>a. ASSUME UNCHANGED <<request, made>> PROVE RequestInv'
  <2>1. Reading' = Reading /\ Unmade' = Unmade
    BY <1>a DEF Reading, Unmade
  <2> QED
    BY <1>a, <2>1 DEF RequestInv
<1>b. RequestTypeOK
  BY DEF TypeOK, RequestTypeOK
<1>c. ASSUME NEW c \in Caller, NEW r, request' = [request EXCEPT ![c] = r], made' = made,
             r.at = "rating" => r.situation # <<>>,
             r.at \in {"fetching", "rating", "asking"} => c \in Reading
      PROVE  RequestInv'
  <2>1. request'[c] = r /\ \A b \in Caller \ {c} : request'[b] = request[b]
    BY <1>b, <1>c DEF RequestTypeOK
  <2>2. Reading' \subseteq Reading /\ Unmade' = Unmade
    BY <1>c, <2>1 DEF Reading, Unmade
  <2> QED
    BY <1>c, <2>1, <2>2, ReadingStep DEF RequestInv
<1>d. ASSUME NEW c \in Caller, Over(c), made' = made PROVE RequestInv'
  BY <1>c, <1>d, RequestIsOver DEF Over
<1>e. ASSUME NEW c \in Caller, NEW at \in {"asking", "planning"}, made' = made,
             request' = [request EXCEPT ![c].at = at], at = "asking" => c \in Reading
      PROVE  RequestInv'
  <2> DEFINE r == [request[c] EXCEPT !.at = at]
  <2>1. r.at = at
    BY <1>b, RequestMoves DEF RequestTypeOK, Places
  <2>2. request' = [request EXCEPT ![c] = r]
    BY <1>b, <1>e DEF RequestTypeOK
  <2> HIDE DEF r
  <2> QED
    BY <1>c, <1>e, <2>1, <2>2
<1>f. ASSUME NEW c \in Caller, At(c, "idle"), Spare, made' = made,
             request' = [request EXCEPT ![c].at = "fetching"]
      PROVE  RequestInv'
  <2>1. /\ request'[c].at = "fetching"
        /\ \A b \in Caller \ {c} : request'[b] = request[b]
    BY <1>b, <1>f DEF RequestTypeOK, Request
  <2>2. Reading' = Reading \cup {c} /\ Unmade' = Unmade
    BY <1>f, <2>1 DEF Reading, Unmade
  <2> QED
    BY <1>f, <2>1, <2>2, ReadingStep DEF RequestInv
<1>g. ASSUME NEW c \in Reading, NEW action \in Action, NEW fast \in BOOLEAN,
             NEW approval \in BOOLEAN, Decide(c, action, fast, approval)
      PROVE  RequestInv'
  <2>1. PICK decision \in DecisionObject : Makes(c, decision)
    BY <1>g, DecideMakesDecision
  <2>2. /\ request'[c].at = "persisting" /\ \A b \in Caller \ {c} : request'[b] = request[b]
        /\ decision.id \in Unmade /\ made' = made \cup {decision.id} /\ c \in Caller
    <3>1. request' = [request EXCEPT ![c] = Persisting(decision)] /\ c \in Caller
      BY <2>1 DEF Makes, Reading
    <3> QED
      BY <1>b, <2>1, <3>1, RequestIsDecided DEF RequestTypeOK, Makes
  <2>3. Reading' = Reading \ {c} /\ Unmade' = Unmade \ {decision.id}
    BY <2>2 DEF Reading, Unmade
  <2> QED
    BY <2>2, <2>3, ReadingStep DEF RequestInv
<1>1. CASE FeedbackNext /\ UNCHANGED loopVars
  BY <1>1, <1>a DEF loopVars
<1>2. ASSUME NEW p \in Planner, Ask(p) PROVE RequestInv'
  BY <1>2, <1>f DEF Ask, Caller
<1>3. CASE NextCycle
  BY <1>3, <1>f DEF NextCycle, Caller
<1>4. ASSUME NEW c \in Caller, Fetch(c) PROVE RequestInv'
  <2>1. CASE Over(c)
    BY <1>4, <1>d, <2>1 DEF Fetch
  <2>2. ASSUME NEW relevant, relevant # {}, relevant \subseteq anomalies,
               NEW ranked \in SetToSeqs(relevant),
               request' = [request EXCEPT ![c].at = "rating", ![c].situation = ranked]
        PROVE  RequestInv'
    <3>1. IsFiniteSet(relevant) /\ relevant \subseteq Anomaly
      BY <2>2, FS_Subset, FeedbackAssumption DEF TypeOK, FeedbackTypeOK
    <3>2. Cardinality(relevant) \in Nat \ {0}
      BY <2>2, <3>1, FS_EmptySet, FS_CardinalityType
    <3>3. ranked \in Seq(Anomaly) /\ ranked # <<>>
      BY <3>1, <3>2 DEF SetToSeqs
    <3> DEFINE r == [[request[c] EXCEPT !.at = "rating"] EXCEPT !.situation = ranked]
    <3>4. request[c] \in Request
      BY <1>b DEF RequestTypeOK
    <3>5. r.at = "rating" /\ r.situation = ranked
      BY <3>3, <3>4, RequestIsRated
    <3>6. request' = [request EXCEPT ![c] = r]
      BY <1>b, <2>2 DEF RequestTypeOK
    <3> HIDE DEF r
    <3>7. c \in Reading /\ made' = made
      BY <1>4 DEF Fetch, At, Reading
    <3> QED
      BY <1>c, <3>3, <3>5, <3>6, <3>7
  <2> QED
    BY <1>4, <2>1, <2>2 DEF Fetch
<1>5. ASSUME NEW c \in Caller, Rate(c) PROVE RequestInv'
  <2>1. c \in Reading /\ request[c].situation \in Seq(Anomaly) /\ request[c].situation # <<>>
    BY <1>5, <1>b DEF Rate, At, Reading, RequestInv, RequestTypeOK, Request
  <2>2. ASSUME NEW rates, NEW x \in Evaluate(request[c].situation, rates),
               Decide(c, x.action, TRUE, x.approval)
        PROVE  RequestInv'
    BY <1>g, <2>1, <2>2, EvaluatedActions
  <2>3. CASE Goto(c, "asking") /\ UNCHANGED made
    BY <1>e, <2>1, <2>3 DEF Goto
  <2> QED
    BY <1>5, <2>2, <2>3 DEF Rate
<1>6. ASSUME NEW c \in Caller, LlmAnswers(c) PROVE RequestInv'
  <2>1. PICK advice \in Advice, low \in BOOLEAN :
          LET action == IF advice \in Action THEN advice ELSE "escalate_to_human"
          IN  Decide(c, action, FALSE, low \/ advice \notin Action \/ action \in Gated)
    BY <1>6 DEF LlmAnswers
  <2> DEFINE action == IF advice \in Action THEN advice ELSE "escalate_to_human"
             approval == low \/ advice \notin Action \/ action \in Gated
  <2>2. action \in Action /\ approval \in BOOLEAN /\ Decide(c, action, FALSE, approval)
    BY <2>1, LoopAssumption
  <2> HIDE DEF action, approval
  <2>3. c \in Reading
    BY <1>6 DEF LlmAnswers, At, Reading
  <2> QED
    BY <1>g, <2>2, <2>3
<1>7. ASSUME NEW c \in Caller, LlmFails(c) PROVE RequestInv'
  <2>1. CASE Over(c)
    BY <1>7, <1>d, <2>1 DEF LlmFails
  <2>2. CASE /\ request[c].attempt + 1 < Attempts
             /\ request' = [request EXCEPT ![c].attempt = @ + 1]
    <3> DEFINE r == [request[c] EXCEPT !.attempt = request[c].attempt + 1]
    <3>1. request[c] \in Request /\ request[c].attempt + 1 \in 0 .. Attempts
      BY <1>b, <2>2 DEF RequestTypeOK, Request, Attempts
    <3>2. r.at = "asking"
      BY <1>7, <3>1, RequestIsRetried DEF LlmFails, At
    <3>3. request' = [request EXCEPT ![c] = r]
      BY <1>b, <2>2 DEF RequestTypeOK
    <3> HIDE DEF r
    <3>4. c \in Reading /\ made' = made
      BY <1>7 DEF LlmFails, At, Reading
    <3> QED
      BY <1>c, <3>2, <3>3, <3>4
  <2> QED
    BY <1>7, <2>1, <2>2 DEF LlmFails
<1>8. ASSUME NEW c \in Caller, Persist(c) PROVE RequestInv'
  BY <1>8, <1>d, <1>e DEF Persist, Goto
<1>9. ASSUME NEW c \in Caller, Generate(c) \/ GenerateFails(c) PROVE RequestInv'
  BY <1>9, <1>d DEF Generate, GenerateFails
<1>10. ASSUME NEW d \in Decision, StepEnds(d) PROVE RequestInv'
  BY <1>10, <1>a DEF StepEnds
<1>11. CASE UNCHANGED vars
  BY <1>11, <1>a DEF vars, loopVars
<1> QED
  BY <1>1, <1>2, <1>3, <1>4, <1>5, <1>6, <1>7, <1>8, <1>9, <1>10, <1>11 DEF Next, RequestStep

(* What a step does to a cycle, field by field. *)
LEMMA CycleChanges ==
  ASSUME TypeOK, NEW ev \in Event
  PROVE  /\ CountBefore(ev) =>
              /\ \A e \in Event \ {ev} : cycle'[e] = cycle[e]
              /\ cycle[ev].at = "counting" /\ cycle'[ev].at = "sleeping"
              /\ cycle'[ev].before \in Nat /\ CountIs(cycle'[ev].before, ev)
         /\ CountAfter(ev) =>
              /\ \A e \in Event \ {ev} : cycle'[e] = cycle[e]
              /\ cycle[ev].at = "sleeping" /\ cycle'[ev].at = "gathering"
              /\ \E n \in Nat : /\ CountIs(n, ev)
                                /\ cycle'[ev].outcome = Verdict(cycle[ev].before, n)
              /\ verdict' = [verdict EXCEPT ![ev[1]] = @ \cup {cycle'[ev].outcome}]
         /\ Gather(ev) =>
              /\ \A e \in Event \ {ev} : cycle'[e] = cycle[e]
              /\ cycle'[ev].at = "done" /\ recorder[ev] = "idle"
<1>0. cycle \in [Event -> Cycle] /\ Cardinality(Anomaly) \in Nat
  BY FS_CardinalityType, FeedbackAssumption DEF TypeOK, FeedbackTypeOK
<1>1. ASSUME CountBefore(ev)
      PROVE  /\ \A e \in Event \ {ev} : cycle'[e] = cycle[e]
             /\ cycle[ev].at = "counting" /\ cycle'[ev].at = "sleeping"
             /\ cycle'[ev].before \in Nat /\ CountIs(cycle'[ev].before, ev)
  <2>1. PICK n \in 0 .. Cardinality(Anomaly) :
          /\ CountIs(n, ev)
          /\ cycle' = [cycle EXCEPT ![ev] = [@ EXCEPT !.at = "sleeping", !.before = n]]
    BY <1>1 DEF CountBefore
  <2>2. cycle'[ev].at = "sleeping" /\ cycle'[ev].before = n
    BY <1>0, <2>1 DEF Cycle
  <2> QED
    BY <1>0, <1>1, <2>1, <2>2 DEF CountBefore
<1>2. ASSUME CountAfter(ev)
      PROVE  /\ \A e \in Event \ {ev} : cycle'[e] = cycle[e]
             /\ cycle[ev].at = "sleeping" /\ cycle'[ev].at = "gathering"
             /\ \E n \in Nat : /\ CountIs(n, ev)
                               /\ cycle'[ev].outcome = Verdict(cycle[ev].before, n)
             /\ verdict' = [verdict EXCEPT ![ev[1]] = @ \cup {cycle'[ev].outcome}]
  <2>1. PICK n \in 0 .. Cardinality(Anomaly) :
          /\ CountIs(n, ev)
          /\ cycle' = [cycle EXCEPT ![ev] = [@ EXCEPT !.at = "gathering", !.before = 0,
                                                     !.outcome = Verdict(cycle[ev].before, n)]]
          /\ verdict' = [verdict EXCEPT ![ev[1]] = @ \cup {Verdict(cycle[ev].before, n)}]
    BY <1>2 DEF CountAfter
  <2> DEFINE o == Verdict(cycle[ev].before, n)
             gathering == [cycle[ev] EXCEPT !.at = "gathering", !.before = 0, !.outcome = o]
  <2>2. o \in Outcome /\ cycle[ev] \in Cycle
    BY <1>0 DEF Verdict, Outcome
  <2>3. cycle' = [cycle EXCEPT ![ev] = gathering]
    BY <2>1
  <2> HIDE DEF o
  <2>4. gathering.at = "gathering" /\ gathering.outcome = o
    BY <2>2, CycleUpdate
  <2> HIDE DEF gathering
  <2>5. cycle'[ev].at = "gathering" /\ cycle'[ev].outcome = o
    BY <1>0, <2>3, <2>4
  <2> QED
    BY <1>0, <1>2, <2>1, <2>3, <2>5 DEF CountAfter, o
<1>3. ASSUME Gather(ev)
      PROVE  /\ \A e \in Event \ {ev} : cycle'[e] = cycle[e]
             /\ cycle'[ev].at = "done" /\ recorder[ev] = "idle"
  BY <1>0, <1>3 DEF Gather, Gathered, Cycle
<1> QED
  BY <1>1, <1>2, <1>3

(* Taking an event and starting again. *)
LEMMA TakeChanges ==
  ASSUME TypeOK, StepsInv, Take
  PROVE  \E taken \in Event :
           /\ cycle[taken].at = "none" /\ cycle'[taken].at = "counting"
           /\ recorder[taken] = "idle"
           /\ \A e \in Event \ {taken} : cycle'[e] = cycle[e]
<1> DEFINE taken == topic[position + 1]
<1>1. /\ topic \in Seq(Event) /\ position \in 0 .. Len(topic) /\ cycle \in [Event -> Cycle]
      /\ \A ev \in Event : recorder[ev] # "idle" => cycle[ev].at = "gathering"
  BY DEF TypeOK, FeedbackTypeOK
<1>2. taken \in Event /\ cycle[taken].at = "none"
  BY <1>1 DEF Take, StepsInv
<1>3. cycle' = [cycle EXCEPT ![taken] = [NoCycle EXCEPT !.at = "counting"]]
  BY DEF Take
<1> HIDE DEF taken
<1>4. cycle'[taken].at = "counting"
  BY <1>1, <1>2, <1>3 DEF NoCycle
<1> QED
  BY <1>1, <1>2, <1>3, <1>4

LEMMA RestartChanges ==
  ASSUME NEW offset \in 0 .. Len(topic), Restart(offset)
  PROVE  \A ev \in Event : /\ cycle'[ev].at \in {"none", "lost"} \/ (cycle'[ev] = cycle[ev] /\ ev \notin Live)
                           /\ recorder'[ev] = "idle"
BY DEF Restart, NoCycle

LEMMA VerdictIsOutcome ==
  ASSUME TypeOK, VerdictInv, NEW ev \in Event, cycle[ev].at = "gathering"
  PROVE  cycle[ev].outcome \in Outcome /\ cycle[ev].outcome \in verdict[ev[1]]
BY DEF TypeOK, FeedbackTypeOK, VerdictInv, Event

LEMMA VerdictStep == TypeOK /\ StepsInv /\ VerdictInv /\ [Next]_vars => VerdictInv'
<1> SUFFICES ASSUME TypeOK, StepsInv, VerdictInv, [Next]_vars PROVE VerdictInv'
  OBVIOUS
<1>a. verdict \in [Decision -> SUBSET Outcome] /\ \A ev \in Event : ev[1] \in Decision
  BY DEF TypeOK, FeedbackTypeOK, Event
<1>b. ASSUME UNCHANGED <<cycle, verdict>> PROVE VerdictInv'
  BY <1>b DEF VerdictInv
<1>1. CASE FeedbackNext /\ UNCHANGED loopVars
  <2>1. CASE Take
    BY <2>1, TakeChanges DEF VerdictInv, Take
  <2>2. ASSUME NEW ev \in Event, CountBefore(ev) PROVE VerdictInv'
    BY <2>2, CycleChanges DEF VerdictInv, CountBefore
  <2>3. ASSUME NEW ev \in Event, CountAfter(ev) PROVE VerdictInv'
    <3>1. /\ verdict' = [verdict EXCEPT ![ev[1]] = @ \cup {cycle'[ev].outcome}]
          /\ \A e \in Event \ {ev} : cycle'[e] = cycle[e]
      BY <2>3, CycleChanges
    <3>2. cycle'[ev].outcome \in verdict'[ev[1]]
      BY <1>a, <3>1
    <3>3. \A d \in Decision : verdict[d] \subseteq verdict'[d]
      BY <1>a, <3>1
    <3> QED
      BY <1>a, <3>1, <3>2, <3>3 DEF VerdictInv
  <2>4. ASSUME NEW ev \in Event, Gather(ev) PROVE VerdictInv'
    BY <2>4, CycleChanges DEF VerdictInv, Gather
  <2>5. ASSUME NEW offset \in 0 .. Len(topic), Restart(offset) PROVE VerdictInv'
    BY <2>5, RestartChanges DEF VerdictInv, Restart
  <2>6. CASE UNCHANGED <<cycleVars, verdict>>
    BY <1>b, <2>6 DEF cycleVars
  <2> QED
    BY <1>1, <2>1, <2>2, <2>3, <2>4, <2>5, <2>6, FeedbackCycles
<1>2. CASE (\E p \in Planner : Ask(p)) \/ NextCycle
  BY <1>2, <1>b, AskCycles DEF feedbackVars, stateVars, cycleVars
<1>3. ASSUME NEW c \in Caller, RequestStep(c) \/ GenerateFails(c) PROVE VerdictInv'
  BY <1>3, <1>b, LoopCycles DEF cycleVars
<1>4. ASSUME NEW d \in Decision, StepEnds(d) PROVE VerdictInv'
  BY <1>4, <1>b DEF StepEnds
<1>5. CASE UNCHANGED vars
  BY <1>5, <1>b DEF vars, feedbackVars, stateVars, cycleVars
<1> QED
  BY <1>1, <1>2, <1>3, <1>4, <1>5 DEF Next

(* A row that an outcome is recorded in. *)
LEMMA OutcomeUpdate ==
  ASSUME TypeOK, NEW d \in Decision, NEW o, row' = [row EXCEPT ![d].outcome = o]
  PROVE  row'[d].outcome = o /\ \A e \in Decision \ {d} : row'[e] = row[e]
BY DEF TypeOK, FeedbackTypeOK, Row

(* How the requests change the rows: one is stored, or linked if it is stored. *)
LEMMA LoopRows ==
  ASSUME TypeOK, NEW c \in Caller, RequestStep(c) \/ GenerateFails(c)
  PROVE  \/ UNCHANGED row
         \/ \E d \in Decision :
              /\ \A e \in Decision \ {d} : row'[e] = row[e]
              /\ \/ row'[d] = [row[d] EXCEPT !.stored = TRUE]
                 \/ row'[d] = [row[d] EXCEPT !.linked = row[d].stored]
<1> DEFINE id == Head(request[c].decision).id
<1>1. row \in [Decision -> Row]
  BY DEF TypeOK, FeedbackTypeOK
<1>2. CASE Persist(c)
  <2>1. id \in Decision
    BY <1>2, HeadIsMade DEF Persist, At, TypeOK, RequestTypeOK
  <2>2. row' = [row EXCEPT ![id].stored = TRUE] \/ UNCHANGED row
    BY <1>2 DEF Persist
  <2> HIDE DEF id
  <2> QED
    BY <1>1, <2>1, <2>2
<1>3. CASE Generate(c)
  <2>1. id \in Decision
    BY <1>3, HeadIsMade DEF Generate, At, TypeOK, RequestTypeOK
  <2>2. row' = [row EXCEPT ![id].linked = row[id].stored] \/ UNCHANGED row
    BY <1>3 DEF Generate
  <2> HIDE DEF id
  <2> QED
    BY <1>1, <2>1, <2>2
<1>4. CASE ~ Persist(c) /\ ~ Generate(c)
  BY <1>4 DEF RequestStep, GenerateFails, Fetch, Rate, LlmAnswers, LlmFails,
              feedbackVars, stateVars, storeVars
<1> QED
  BY <1>2, <1>3, <1>4

LEMMA LoopOutcomes ==
  ASSUME TypeOK, NEW c \in Caller, RequestStep(c) \/ GenerateFails(c), NEW d \in Decision
  PROVE  row'[d].outcome = row[d].outcome
<1>1. row[d] \in Row /\ \A e \in Decision : row[e].stored \in BOOLEAN /\ row[e] \in Row
  BY DEF TypeOK, FeedbackTypeOK, Row
<1>2. ASSUME NEW e \in Decision, row'[e] = [row[e] EXCEPT !.stored = TRUE]
      PROVE  row'[e].outcome = row[e].outcome
  BY <1>1, <1>2, RowUpdate
<1>3. ASSUME NEW e \in Decision, row'[e] = [row[e] EXCEPT !.linked = row[e].stored]
      PROVE  row'[e].outcome = row[e].outcome
  BY <1>1, <1>3, RowUpdate
<1> QED
  BY <1>2, <1>3, LoopRows

(* The index *)

LEMMA IndexStep == TypeOK /\ StepsInv /\ VerdictInv /\ IndexInv /\ [Next]_vars => IndexInv'
<1> SUFFICES ASSUME TypeOK, StepsInv, VerdictInv, IndexInv, [Next]_vars PROVE IndexInv'
  OBVIOUS
<1>a. /\ \A ev \in Event : ev[1] \in Decision
      /\ point \in [Decision -> Remembered] /\ recorder \in [Event -> {"idle", "due", "indexing"}]
      /\ \A ev \in Event : recorder[ev] # "idle" => cycle[ev].at = "gathering"
  BY DEF TypeOK, FeedbackTypeOK, Event
<1>b. ASSUME UNCHANGED <<point, recorder, unindexed>>,
             \A d \in Decision : row'[d].outcome = row[d].outcome,
             \A ev \in Event : recorder[ev] = "indexing" => cycle'[ev] = cycle[ev]
      PROVE  IndexInv'
  BY <1>a, <1>b DEF IndexInv, OutcomeIsSearchable
<1>1. CASE FeedbackNext /\ UNCHANGED loopVars
  <2>1. CASE Take
    BY <1>b, <2>1, TakeChanges DEF Take, gatherVars, storeVars
  <2>2. ASSUME NEW ev \in Event, CountBefore(ev) PROVE IndexInv'
    <3>1. recorder[ev] = "idle"
      BY <1>a, <2>2 DEF CountBefore
    <3> QED
      BY <1>b, <2>2, <3>1, CycleChanges DEF CountBefore, gatherVars, storeVars
  <2>3. ASSUME NEW ev \in Event, CountAfter(ev) PROVE IndexInv'
    <3>1. recorder[ev] = "idle" /\ recorder' = [recorder EXCEPT ![ev] = "due"]
      BY <1>a, <2>3 DEF CountAfter
    <3>2. /\ UNCHANGED <<row, point, unindexed>>
          /\ \A e \in Event \ {ev} : cycle'[e] = cycle[e]
      BY <2>3, CycleChanges DEF CountAfter, storeVars
    <3>3. \A e \in Event : recorder'[e] = "indexing" <=> recorder[e] = "indexing"
      BY <1>a, <3>1
    <3> QED
      BY <1>a, <3>1, <3>2, <3>3 DEF IndexInv, OutcomeIsSearchable
  <2>4. ASSUME NEW ev \in Event, Gather(ev) PROVE IndexInv'
    BY <1>b, <2>4, CycleChanges DEF Gather, gatherVars, storeVars
  <2>5. ASSUME NEW ev \in Event, Record(ev) PROVE IndexInv'
    <3>1. PICK indexing \in BOOLEAN :
            /\ PatchRows(ev, indexing)
            /\ recorder' = [recorder EXCEPT ![ev] = IF indexing THEN "indexing" ELSE "idle"]
      BY <2>5 DEF Record
    <3>2. recorder[ev] = "due" /\ UNCHANGED <<cycle, point>>
      BY <2>5 DEF Record, cycleVars
    <3>3. \A e \in Event \ {ev} : recorder'[e] = recorder[e]
      BY <1>a, <3>1
    <3>4. CASE IsOpen(ev[1])
      <4>1. /\ row'[ev[1]].outcome = cycle[ev].outcome
            /\ \A d \in Decision \ {ev[1]} : row'[d] = row[d]
        BY <1>a, <3>1, <3>4, OutcomeUpdate DEF PatchRows
      <4>2. row[ev[1]].outcome = "none"
        BY <3>4 DEF IsOpen
      <4>3. \A e \in Event : recorder[e] = "indexing" => e[1] # ev[1]
        BY <4>2 DEF IndexInv
      <4>4. cycle[ev].outcome # "none"
        BY <3>2, <1>a, VerdictIsOutcome DEF Outcome
      <4>7. point[ev[1]] = "none"
        BY <1>a, <4>2 DEF IndexInv, OutcomeIsSearchable
      <4>5. CASE indexing
        <5>1. recorder'[ev] = "indexing" /\ unindexed' = unindexed
          BY <1>a, <3>1, <3>4, <4>5 DEF PatchRows
        <5> QED
          BY <1>a, <3>2, <3>3, <4>1, <4>3, <4>4, <4>7, <5>1 DEF IndexInv, OutcomeIsSearchable
      <4>6. CASE ~ indexing
        <5>1. recorder'[ev] = "idle" /\ unindexed' = unindexed \cup {ev[1]}
          BY <1>a, <3>1, <3>4, <4>6 DEF PatchRows
        <5> QED
          BY <1>a, <3>2, <3>3, <4>1, <4>3, <4>7, <5>1 DEF IndexInv, OutcomeIsSearchable
      <4> QED
        BY <4>5, <4>6
    <3>5. CASE ~ IsOpen(ev[1])
      <4>1. recorder'[ev] = "idle" /\ UNCHANGED <<row, unindexed>>
        BY <1>a, <3>1, <3>5 DEF PatchRows
      <4> QED
        BY <1>a, <3>2, <3>3, <4>1 DEF IndexInv, OutcomeIsSearchable
    <3> QED
      BY <3>4, <3>5
  <2>6. ASSUME NEW ev \in Event, Index(ev) PROVE IndexInv'
    <3>1. /\ recorder' = [recorder EXCEPT ![ev] = "idle"]
          /\ UNCHANGED <<row, cycle>> /\ recorder[ev] = "indexing"
      BY <2>6 DEF Index, cycleVars
    <3>2. row[ev[1]].outcome = cycle[ev].outcome
      BY <3>1 DEF IndexInv
    <3>3. CASE point' = Indexed(ev) /\ unindexed' = unindexed
      BY <1>a, <3>1, <3>2, <3>3 DEF Indexed, IndexInv, OutcomeIsSearchable
    <3>4. CASE point' = point /\ unindexed' = unindexed \cup {ev[1]}
      BY <1>a, <3>1, <3>4 DEF IndexInv, OutcomeIsSearchable
    <3> QED
      BY <2>6, <3>3, <3>4 DEF Index
  <2>7. ASSUME NEW ev \in Event, RecorderFails(ev) PROVE IndexInv'
    <3>1. /\ recorder' = [recorder EXCEPT ![ev] = "idle"] /\ UNCHANGED cycle
      BY <2>7 DEF RecorderFails, cycleVars
    <3>2. CASE /\ recorder[ev] = "due" /\ IsOpen(ev[1])
               /\ row' = [row EXCEPT ![ev[1]].outcome = cycle[ev].outcome]
               /\ point' \in {point, Indexed(ev)}
               /\ unindexed' = unindexed \cup {ev[1]}
      <4>1. /\ row'[ev[1]].outcome = cycle[ev].outcome
            /\ \A d \in Decision \ {ev[1]} : row'[d] = row[d]
        BY <1>a, <3>2, OutcomeUpdate
      <4>2. \A e \in Event : recorder[e] = "indexing" => e[1] # ev[1]
        BY <3>2 DEF IndexInv, IsOpen
      <4>3. point[ev[1]] = "none"
        BY <1>a, <3>2 DEF IndexInv, OutcomeIsSearchable, IsOpen
      <4>4. /\ point'[ev[1]] \in {"none", cycle[ev].outcome}
            /\ \A d \in Decision \ {ev[1]} : point'[d] = point[d]
        BY <1>a, <3>2, <4>3 DEF Indexed
      <4> QED
        BY <1>a, <3>1, <3>2, <4>1, <4>2, <4>4 DEF IndexInv, OutcomeIsSearchable
    <3>3. CASE UNCHANGED <<row, point, unindexed>> /\ recorder[ev] = "due"
      BY <1>a, <3>1, <3>3 DEF IndexInv, OutcomeIsSearchable
    <3>4. CASE /\ recorder[ev] = "indexing" /\ row' = row
               /\ point' \in {point, Indexed(ev)}
               /\ unindexed' = unindexed \cup {ev[1]}
      <4>1. row[ev[1]].outcome = cycle[ev].outcome
        BY <3>4 DEF IndexInv
      <4>2. /\ point'[ev[1]] \in {point[ev[1]], row[ev[1]].outcome}
            /\ \A d \in Decision \ {ev[1]} : point'[d] = point[d]
        BY <1>a, <3>4, <4>1 DEF Indexed
      <4> QED
        BY <1>a, <3>1, <3>4, <4>2 DEF IndexInv, OutcomeIsSearchable
    <3> QED
      BY <1>a, <2>7, <3>2, <3>3, <3>4 DEF RecorderFails
  <2>8. ASSUME NEW offset \in 0 .. Len(topic), Restart(offset) PROVE IndexInv'
    <3>1. /\ unindexed' = unindexed \cup {ev[1] : ev \in {ev \in Event : recorder[ev] = "indexing"}}
          /\ UNCHANGED <<row, point>> /\ \A ev \in Event : recorder'[ev] = "idle"
      BY <2>8 DEF Restart, storeVars
    <3> QED
      BY <3>1 DEF IndexInv, OutcomeIsSearchable
  <2>9. ASSUME NEW ev \in Event,
               \/ ReadPlaybooks(ev) \/ (\E p \in Playbook : PatchPlaybook(ev, p)) \/ UpdateGraph(ev)
               \/ UpdaterFails(ev) \/ GraphFails(ev)
        PROVE  IndexInv'
    BY <1>b, <2>9 DEF ReadPlaybooks, PatchPlaybook, UpdateGraph, UpdaterFails, GraphFails,
                      cycleVars, storeVars
  <2>10. ASSUME NEW x \in Anomaly, Opens(x) \/ Clears(x) PROVE IndexInv'
    BY <1>b, <2>10 DEF Opens, Clears, cycleVars, gatherVars, storeVars
  <2> QED
    BY <1>1, <2>1, <2>2, <2>3, <2>4, <2>5, <2>6, <2>7, <2>8, <2>9, <2>10
       DEF FeedbackNext, CycleStep, CycleFails
<1>2. CASE (\E p \in Planner : Ask(p)) \/ NextCycle
  BY <1>2, <1>b, AskCycles DEF feedbackVars, stateVars, cycleVars, gatherVars, storeVars
<1>3. ASSUME NEW c \in Caller, RequestStep(c) \/ GenerateFails(c) PROVE IndexInv'
  BY <1>3, <1>b, LoopCycles, LoopOutcomes DEF cycleVars, gatherVars
<1>4. ASSUME NEW d \in Decision, StepEnds(d) PROVE IndexInv'
  BY <1>4, <1>b DEF StepEnds, gatherVars, storeVars
<1>5. CASE UNCHANGED vars
  BY <1>5, <1>b DEF vars, feedbackVars, stateVars, cycleVars, gatherVars, storeVars
<1> QED
  BY <1>1, <1>2, <1>3, <1>4, <1>5 DEF Next

(* Relief *)

LEMMA ReliefStep == TypeOK /\ StepsInv /\ ReliefInv /\ [Next]_vars => ReliefInv'
<1> SUFFICES ASSUME TypeOK, StepsInv, ReliefInv, [Next]_vars PROVE ReliefInv'
  OBVIOUS
<1>a. /\ \A ev \in Event : ev[1] \in Decision /\ ev[2] \in Action /\ ev = <<ev[1], ev[2]>>
      /\ IsFiniteSet(anomalies) /\ Cardinality(anomalies) \in Nat
      /\ \A ev \in Event : recorder[ev] # "idle" => cycle[ev].at = "gathering"
      /\ \A ev \in Event : cycle[ev].before \in Nat
  <2>1. IsFiniteSet(anomalies)
    BY FS_Subset, FeedbackAssumption DEF TypeOK, FeedbackTypeOK
  <2>2. \A ev \in Event : cycle[ev].before \in 0 .. Cardinality(Anomaly)
    BY DEF TypeOK, FeedbackTypeOK, Cycle
  <2>3. Cardinality(Anomaly) \in Nat
    BY FS_CardinalityType, FeedbackAssumption
  <2> QED
    BY <2>1, <2>2, <2>3, FS_CardinalityType DEF TypeOK, FeedbackTypeOK, Event
<1>b. ASSUME UNCHANGED anomalies, eased \subseteq eased',
             \A d \in Decision : row'[d].outcome = row[d].outcome,
             \A ev \in Event : \/ cycle'[ev] = cycle[ev]
                               \/ cycle'[ev].at \notin {"sleeping", "gathering"}
      PROVE  ReliefInv'
  BY <1>b DEF ReliefInv, SuccessIsRelief
<1>1. CASE FeedbackNext /\ UNCHANGED loopVars
  <2>1. CASE Take
    BY <1>b, <2>1, TakeChanges DEF Take, storeVars, worldVars
  <2>2. ASSUME NEW ev \in Event, CountBefore(ev) PROVE ReliefInv'
    <3>1. /\ \A e \in Event \ {ev} : cycle'[e] = cycle[e]
          /\ cycle'[ev].at = "sleeping" /\ CountIs(cycle'[ev].before, ev)
          /\ UNCHANGED <<anomalies, row>>
      BY <2>2, CycleChanges DEF CountBefore, worldVars, storeVars
    <3>2. /\ eased \subseteq eased'
          /\ cycle'[ev].before > Cardinality(anomalies) => ev \in eased'
      BY <1>a, <3>1 DEF CountIs
    <3> QED
      BY <3>1, <3>2 DEF ReliefInv, SuccessIsRelief
  <2>3. ASSUME NEW ev \in Event, CountAfter(ev) PROVE ReliefInv'
    <3>1. /\ \A e \in Event \ {ev} : cycle'[e] = cycle[e]
          /\ cycle[ev].at = "sleeping" /\ cycle'[ev].at = "gathering"
          /\ UNCHANGED <<anomalies, row>>
      BY <2>3, CycleChanges DEF CountAfter, worldVars, storeVars
    <3>2. PICK n \in Nat : CountIs(n, ev) /\ cycle'[ev].outcome = Verdict(cycle[ev].before, n)
      BY <2>3, CycleChanges
    <3>3. eased \subseteq eased'
      BY <3>2 DEF CountIs
    <3>4. ASSUME cycle'[ev].outcome = "success" PROVE ev \in eased'
      <4>1. n < cycle[ev].before
        BY <3>2, <3>4 DEF Verdict
      <4> QED
        BY <1>a, <3>1, <3>2, <4>1 DEF CountIs, ReliefInv
    <3> QED
      BY <3>1, <3>3, <3>4 DEF ReliefInv, SuccessIsRelief
  <2>4. ASSUME NEW ev \in Event, Gather(ev) PROVE ReliefInv'
    BY <1>b, <2>4, CycleChanges DEF Gather, storeVars, worldVars
  <2>5. CASE UNCHANGED <<cycle, anomalies, eased>>
    <3>1. CASE UNCHANGED row
      BY <1>b, <2>5, <3>1
    <3>2. ASSUME NEW ev \in Event, recorder[ev] = "due",
                 row' = [row EXCEPT ![ev[1]].outcome = cycle[ev].outcome]
          PROVE  ReliefInv'
      <4>1. row'[ev[1]].outcome = "success" => <<ev[1], ev[2]>> \in eased
        <5>1. row'[ev[1]].outcome = cycle[ev].outcome
          <6> DEFINE d == ev[1]
                     outcome == cycle[ev].outcome
          <6>1. d \in Decision /\ row' = [row EXCEPT ![d].outcome = outcome]
            BY <1>a, <3>2
          <6> HIDE DEF d, outcome
          <6>2. row'[d].outcome = outcome
            BY <6>1, OutcomeUpdate
          <6> QED
            BY <6>2 DEF d, outcome
        <5>2. cycle[ev].at = "gathering" /\ ev = <<ev[1], ev[2]>>
          BY <1>a, <3>2
        <5> QED
          BY <5>1, <5>2 DEF ReliefInv
      <4>2. \A d \in Decision \ {ev[1]} : row'[d] = row[d]
        BY <1>a, <3>2, OutcomeUpdate
      <4>3. SuccessIsRelief'
        BY <1>a, <2>5, <4>1, <4>2 DEF ReliefInv, SuccessIsRelief
      <4> QED
        BY <2>5, <4>3 DEF ReliefInv
    <3> QED
      BY <1>1, <3>1, <3>2, FeedbackRows
  <2>6. ASSUME NEW offset \in 0 .. Len(topic), Restart(offset) PROVE ReliefInv'
    <3>1. UNCHANGED <<anomalies, eased, row>>
      BY <2>6 DEF Restart, worldVars, storeVars
    <3> QED
      BY <1>b, <2>6, <3>1, RestartChanges
  <2>7. ASSUME NEW x \in Anomaly, Opens(x) PROVE ReliefInv'
    <3>1. /\ x \notin anomalies /\ anomalies' = anomalies \cup {x}
          /\ UNCHANGED <<cycle, row, eased>>
      BY <2>7 DEF Opens, cycleVars, storeVars
    <3>2. Cardinality(anomalies') = Cardinality(anomalies) + 1
      BY <1>a, <3>1, FS_AddElement
    <3> QED
      BY <1>a, <3>1, <3>2 DEF ReliefInv, SuccessIsRelief
  <2>8. ASSUME NEW x \in Anomaly, Clears(x) PROVE ReliefInv'
    BY <2>8 DEF Clears, ReliefInv, SuccessIsRelief, cycleVars, storeVars
  <2>9. ASSUME NEW ev \in Event,
               \/ Record(ev) \/ RecorderFails(ev) \/ Index(ev) \/ ReadPlaybooks(ev)
               \/ (\E p \in Playbook : PatchPlaybook(ev, p)) \/ UpdateGraph(ev)
               \/ UpdaterFails(ev) \/ GraphFails(ev)
        PROVE  ReliefInv'
    BY <2>5, <2>9 DEF Record, RecorderFails, Index, ReadPlaybooks, PatchPlaybook, UpdateGraph,
                      UpdaterFails, GraphFails, cycleVars, worldVars
  <2> QED
    BY <1>1, <2>1, <2>2, <2>3, <2>4, <2>6, <2>7, <2>8, <2>9
       DEF FeedbackNext, CycleStep, CycleFails
<1>2. CASE (\E p \in Planner : Ask(p)) \/ NextCycle
  BY <1>2, <1>b, AskCycles DEF feedbackVars, stateVars, cycleVars, worldVars, storeVars
<1>3. ASSUME NEW c \in Caller, RequestStep(c) \/ GenerateFails(c) PROVE ReliefInv'
  BY <1>3, <1>b, LoopCycles, LoopOutcomes DEF cycleVars, worldVars
<1>4. ASSUME NEW d \in Decision, StepEnds(d) PROVE ReliefInv'
  BY <1>4, <1>b DEF StepEnds, worldVars, storeVars
<1>5. CASE UNCHANGED vars
  BY <1>5, <1>b DEF vars, feedbackVars, stateVars, cycleVars, worldVars, storeVars
<1> QED
  BY <1>1, <1>2, <1>3, <1>4, <1>5 DEF Next

(* Who asks *)

IsForAsker(c, decision) ==
  /\ decision.agent = c
  /\ c \in Planner => \A x \in decision.about : <<DomainOf[c], x>> \in Keyword

LEMMA AskerGoesOn ==
  ASSUME RequestTypeOK, AskerInv, NEW c \in Caller, NEW r,
         request' = [request EXCEPT ![c] = r],
         engine' = engine, contended' \cup {c} = contended \cup {c},
         \A i \in DOMAIN r.decision : ~ r.decision[i].contended => IsForAsker(c, r.decision[i]),
         c \notin contended' =>
           /\ r.at \in {"fetching", "rating", "asking"} =>
                engine.agent = c /\ (c \in Planner => engine.domain = DomainOf[c])
           /\ c \in Planner /\ r.at \in {"rating", "asking"} =>
                \A i \in DOMAIN r.situation : <<DomainOf[c], r.situation[i]>> \in Keyword
  PROVE  AskerInv'
<1>1. request'[c] = r /\ \A b \in Caller \ {c} : request'[b] = request[b]
  BY DEF RequestTypeOK
<1>2. DecidedForAsker'
  BY <1>1 DEF AskerInv, DecidedForAsker, IsForAsker
<1>3. \A b \in Caller \ contended' :
        /\ b \in Reading' => engine'.agent = b /\ (b \in Planner => engine'.domain = DomainOf[b])
        /\ b \in Planner /\ request'[b].at \in {"rating", "asking"} =>
             \A i \in DOMAIN request'[b].situation : <<DomainOf[b], request'[b].situation[i]>> \in Keyword
  BY <1>1 DEF AskerInv, Reading
<1> QED
  BY <1>2, <1>3 DEF AskerInv

LEMMA AskerStep == TypeOK /\ RequestInv /\ AskerInv /\ [Next]_vars => AskerInv'
<1> SUFFICES ASSUME TypeOK, RequestInv, AskerInv, [Next]_vars PROVE AskerInv'
  OBVIOUS
<1>a. ASSUME UNCHANGED <<request, engine, contended>> PROVE AskerInv'
  BY <1>a DEF AskerInv, DecidedForAsker, Reading
<1>b. RequestTypeOK
  BY DEF TypeOK, RequestTypeOK
<1>c. ASSUME NEW c \in Caller, Over(c), engine' = engine PROVE AskerInv'
  <2>1. /\ request' = [request EXCEPT ![c] = NoRequest] /\ contended' = contended \ {c}
        /\ contended' \cup {c} = contended \cup {c}
    BY <1>c DEF Over
  <2>2. NoRequest.at = "idle" /\ DOMAIN NoRequest.decision = {}
    BY RequestIsOver
  <2> QED
    BY <1>b, <1>c, <2>1, <2>2, AskerGoesOn
<1>d. \A c \in Caller : \A i \in DOMAIN request[c].decision :
        ~ request[c].decision[i].contended => IsForAsker(c, request[c].decision[i])
  BY DEF AskerInv, DecidedForAsker, IsForAsker
<1>e. ASSUME NEW c \in Caller, NEW at \in {"asking", "planning"}, Goto(c, at), engine' = engine,
             at = "asking" => request[c].at = "rating"
      PROVE  AskerInv'
  <2> DEFINE r == [request[c] EXCEPT !.at = at]
  <2>1. r.at = at /\ r.decision = request[c].decision /\ r.situation = request[c].situation
    BY <1>b, RequestMoves DEF RequestTypeOK, Places
  <2>2. request' = [request EXCEPT ![c] = r] /\ contended' = contended
    BY <1>b, <1>e DEF RequestTypeOK, Goto
  <2> HIDE DEF r
  <2>3. \A i \in DOMAIN r.decision : ~ r.decision[i].contended => IsForAsker(c, r.decision[i])
    BY <1>d, <2>1
  <2>4. c \notin contended' =>
           /\ r.at \in {"fetching", "rating", "asking"} =>
                engine.agent = c /\ (c \in Planner => engine.domain = DomainOf[c])
           /\ c \in Planner /\ r.at \in {"rating", "asking"} =>
                \A i \in DOMAIN r.situation : <<DomainOf[c], r.situation[i]>> \in Keyword
    BY <1>e, <2>1, <2>2 DEF AskerInv, Reading
  <2> QED
    BY <1>b, <1>e, <2>2, <2>3, <2>4, AskerGoesOn
<1>f. ASSUME NEW c \in Reading, NEW action \in Action, NEW fast \in BOOLEAN,
             NEW approval \in BOOLEAN, Decide(c, action, fast, approval), engine' = engine,
             request[c].at \in {"rating", "asking"}
      PROVE  AskerInv'
  <2>1. PICK decision \in DecisionObject : Makes(c, decision)
    BY <1>f, DecideMakesDecision
  <2> DEFINE r == Persisting(decision)
  <2>2. /\ request' = [request EXCEPT ![c] = r] /\ contended' = contended \ {c} /\ c \in Caller
        /\ r.at = "persisting" /\ r.decision = <<decision>>
    BY <1>f, <2>1, RequestIsDecided DEF Makes, Decide, Reading
  <2> HIDE DEF r
  <2>3. ASSUME ~ decision.contended PROVE IsForAsker(c, decision)
    <3>1. c \notin contended /\ decision.agent = engine.agent
          /\ decision.about = ToSet(request[c].situation)
      BY <2>1, <2>3 DEF Makes
    <3>2. engine.agent = c
      BY <2>2, <3>1 DEF AskerInv
    <3>3. c \in Planner => \A i \in DOMAIN request[c].situation :
            <<DomainOf[c], request[c].situation[i]>> \in Keyword
      BY <1>f, <2>2, <3>1 DEF AskerInv
    <3> QED
      BY <3>1, <3>2, <3>3 DEF IsForAsker, ToSet
  <2>4. \A i \in DOMAIN r.decision : ~ r.decision[i].contended => IsForAsker(c, r.decision[i])
    BY <2>2, <2>3
  <2> QED
    BY <1>b, <1>f, <2>2, <2>4, AskerGoesOn
<1>g. ASSUME NEW c \in Caller, At(c, "idle"), request' = [request EXCEPT ![c].at = "fetching"],
             \/ /\ c \in Planner /\ engine' = [agent |-> c, domain |-> DomainOf[c]]
                /\ contended' = (contended \cup Reading) \ {c}
             \/ /\ c = Loop /\ engine' = engine
                /\ contended' = IF engine.agent = Loop THEN contended \ {Loop}
                                ELSE contended \cup {Loop}
      PROVE  AskerInv'
  <2>1. /\ request'[c].at = "fetching" /\ request'[c].decision = request[c].decision
        /\ \A b \in Caller \ {c} : request'[b] = request[b]
    BY <1>b, <1>g DEF RequestTypeOK, Request
  <2>2. DecidedForAsker'
    BY <2>1 DEF AskerInv, DecidedForAsker
  <2>3. Loop \notin Planner
    BY LoopAssumption
  <2>4. ASSUME NEW b \in Caller \ contended'
        PROVE  /\ b \in Reading' =>
                    engine'.agent = b /\ (b \in Planner => engine'.domain = DomainOf[b])
               /\ b \in Planner /\ request'[b].at \in {"rating", "asking"} =>
                    \A i \in DOMAIN request'[b].situation :
                      <<DomainOf[b], request'[b].situation[i]>> \in Keyword
    <3>1. CASE b = c
      BY <1>g, <2>1, <2>3, <2>4, <3>1
    <3>2. CASE b # c /\ c = Loop
      BY <1>g, <2>1, <2>3, <2>4, <3>2 DEF AskerInv, Reading
    <3>3. CASE b # c /\ c # Loop
      <4>1. b \notin Reading
        BY <1>g, <2>4, <3>3
      <4> QED
        BY <1>g, <2>1, <2>4, <3>3, <4>1 DEF Reading
    <3> QED
      BY <3>1, <3>2, <3>3
  <2> QED
    BY <2>2, <2>4 DEF AskerInv
<1>1. CASE FeedbackNext /\ UNCHANGED loopVars
  BY <1>1, <1>a DEF loopVars
<1>2. ASSUME NEW p \in Planner, Ask(p) PROVE AskerInv'
  BY <1>2, <1>g DEF Ask, Attributes, Caller
<1>3. CASE NextCycle
  BY <1>3, <1>g DEF NextCycle, Caller
<1>4. ASSUME NEW c \in Caller, Fetch(c) PROVE AskerInv'
  <2>1. CASE Over(c)
    BY <1>4, <1>c, <2>1 DEF Fetch
  <2>2. ASSUME NEW ranked \in SetToSeqs({x \in anomalies : IsDomainRelevant(x)}),
               request' = [request EXCEPT ![c].at = "rating", ![c].situation = ranked],
               UNCHANGED contended
        PROVE  AskerInv'
    <3> DEFINE relevant == {x \in anomalies : IsDomainRelevant(x)}
               r == [[request[c] EXCEPT !.at = "rating"] EXCEPT !.situation = ranked]
    <3>1. IsFiniteSet(relevant) /\ relevant \subseteq Anomaly
      BY FS_Subset, FeedbackAssumption DEF TypeOK, FeedbackTypeOK
    <3>2. Cardinality(relevant) \in Nat
      BY <3>1, FS_CardinalityType
    <3>3. ranked \in Seq(Anomaly) /\ \A i \in DOMAIN ranked : ranked[i] \in relevant
      <4> HIDE DEF relevant
      <4>1. ranked \in [1 .. Cardinality(relevant) -> relevant]
        <5>1. ranked \in SetToSeqs(relevant)
          BY <2>2 DEF relevant
        <5> QED
          BY <5>1 DEF SetToSeqs
      <4> QED
        BY <3>1, <3>2, <4>1
    <3>4. request[c] \in Request /\ request[c].decision = <<>>
      BY <1>4, <1>b DEF RequestTypeOK, Fetch, At
    <3>5. r.at = "rating" /\ r.situation = ranked /\ r.decision = <<>>
      BY <3>3, <3>4, RequestIsRated
    <3>6. request' = [request EXCEPT ![c] = r]
      BY <1>b, <2>2 DEF RequestTypeOK
    <3> HIDE DEF r
    <3>7. ASSUME c \notin contended
          PROVE  /\ engine.agent = c /\ (c \in Planner => engine.domain = DomainOf[c])
                 /\ c \in Planner =>
                      \A i \in DOMAIN ranked : <<DomainOf[c], ranked[i]>> \in Keyword
      <4>1. engine.agent = c /\ (c \in Planner => engine.domain = DomainOf[c])
        BY <1>4, <3>7 DEF AskerInv, Reading, Fetch, At
      <4>2. \A x \in relevant : <<engine.domain, x>> \in Keyword
        BY <3>1, LoopAssumption DEF IsDomainRelevant
      <4> QED
        BY <3>3, <4>1, <4>2
    <3>8. \A i \in DOMAIN r.decision : ~ r.decision[i].contended => IsForAsker(c, r.decision[i])
      BY <3>5
    <3>9. engine' = engine
      BY <1>4 DEF Fetch
    <3> QED
      BY <1>b, <2>2, <3>5, <3>6, <3>7, <3>8, <3>9, AskerGoesOn
  <2> QED
    BY <1>4, <2>1, <2>2 DEF Fetch
<1>5. ASSUME NEW c \in Caller, Rate(c) PROVE AskerInv'
  <2>1. /\ c \in Reading /\ request[c].situation \in Seq(Anomaly) /\ request[c].situation # <<>>
        /\ request[c].at = "rating" /\ engine' = engine
    BY <1>5, <1>b DEF Rate, At, Reading, RequestInv, RequestTypeOK, Request
  <2>2. ASSUME NEW rates, NEW x \in Evaluate(request[c].situation, rates),
               Decide(c, x.action, TRUE, x.approval)
        PROVE  AskerInv'
    BY <1>f, <2>1, <2>2, EvaluatedActions
  <2>3. CASE Goto(c, "asking")
    BY <1>e, <2>1, <2>3
  <2> QED
    BY <1>5, <2>2, <2>3 DEF Rate
<1>6. ASSUME NEW c \in Caller, LlmAnswers(c) PROVE AskerInv'
  <2>1. PICK advice \in Advice, low \in BOOLEAN :
          LET action == IF advice \in Action THEN advice ELSE "escalate_to_human"
          IN  Decide(c, action, FALSE, low \/ advice \notin Action \/ action \in Gated)
    BY <1>6 DEF LlmAnswers
  <2> DEFINE action == IF advice \in Action THEN advice ELSE "escalate_to_human"
             approval == low \/ advice \notin Action \/ action \in Gated
  <2>2. action \in Action /\ approval \in BOOLEAN /\ Decide(c, action, FALSE, approval)
    BY <2>1, LoopAssumption
  <2> HIDE DEF action, approval
  <2>3. c \in Reading /\ request[c].at = "asking" /\ engine' = engine
    BY <1>6 DEF LlmAnswers, At, Reading
  <2> QED
    BY <1>f, <2>2, <2>3
<1>7. ASSUME NEW c \in Caller, LlmFails(c) PROVE AskerInv'
  <2>1. CASE Over(c)
    BY <1>7, <1>c, <2>1 DEF LlmFails
  <2>2. CASE /\ request[c].attempt + 1 < Attempts
             /\ request' = [request EXCEPT ![c].attempt = @ + 1]
             /\ UNCHANGED contended
    <3> DEFINE r == [request[c] EXCEPT !.attempt = request[c].attempt + 1]
    <3>1. request[c] \in Request /\ request[c].attempt + 1 \in 0 .. Attempts
      BY <1>b, <2>2 DEF RequestTypeOK, Request, Attempts
    <3>2. /\ r.at = request[c].at /\ r.decision = request[c].decision
          /\ r.situation = request[c].situation
      BY <3>1, RequestIsRetried
    <3>3. request' = [request EXCEPT ![c] = r]
      BY <1>b, <2>2 DEF RequestTypeOK
    <3> HIDE DEF r
    <3>4. request[c].at = "asking" /\ engine' = engine /\ c \in Reading
      BY <1>7 DEF LlmFails, At, Reading
    <3>5. \A i \in DOMAIN r.decision : ~ r.decision[i].contended => IsForAsker(c, r.decision[i])
      BY <1>d, <3>2
    <3>6. c \notin contended' =>
            /\ engine.agent = c /\ (c \in Planner => engine.domain = DomainOf[c])
            /\ c \in Planner => \A i \in DOMAIN r.situation : <<DomainOf[c], r.situation[i]>> \in Keyword
      BY <2>2, <3>2, <3>4 DEF AskerInv
    <3> QED
      BY <1>b, <2>2, <3>3, <3>4, <3>5, <3>6, AskerGoesOn
  <2> QED
    BY <1>7, <2>1, <2>2 DEF LlmFails
<1>8. ASSUME NEW c \in Caller, Persist(c) PROVE AskerInv'
  BY <1>8, <1>c, <1>e DEF Persist
<1>9. ASSUME NEW c \in Caller, Generate(c) \/ GenerateFails(c) PROVE AskerInv'
  BY <1>9, <1>c DEF Generate, GenerateFails
<1>10. ASSUME NEW d \in Decision, StepEnds(d) PROVE AskerInv'
  BY <1>10, <1>a DEF StepEnds
<1>11. CASE UNCHANGED vars
  BY <1>11, <1>a DEF vars, loopVars
<1> QED
  BY <1>1, <1>2, <1>3, <1>4, <1>5, <1>6, <1>7, <1>8, <1>9, <1>10, <1>11 DEF Next, RequestStep

-------------------------------------------------------------------------------
(* The evidence: what playbooks and edges count *)

(* All these sets are finite. *)
LEMMA EvidenceIsFinite ==
  ASSUME NEW p, NEW a
  PROVE  /\ IsFiniteSet(JudgedWins(a)) /\ IsFiniteSet(JudgedLosses(a))
         /\ IsFiniteSet(UncountedWins(p, a)) /\ IsFiniteSet(UncountedLosses(p, a))
         /\ IsFiniteSet(UndrawnWins(a)) /\ IsFiniteSet(UndrawnLosses(a))
<1>1. \A S \in SUBSET Decision : IsFiniteSet(S)
  BY FS_Subset, LoopAssumption
<1>2. JudgedWins(a) \in SUBSET Decision /\ JudgedLosses(a) \in SUBSET Decision
  BY DEF JudgedWins, JudgedLosses
<1>3. UncountedWins(p, a) \in SUBSET Decision /\ UncountedLosses(p, a) \in SUBSET Decision
  BY DEF UncountedWins, UncountedLosses
<1>4. UndrawnWins(a) \in SUBSET Decision /\ UndrawnLosses(a) \in SUBSET Decision
  BY DEF UndrawnWins, UndrawnLosses
<1> QED
  BY <1>1, <1>2, <1>3, <1>4

(* What is still to be counted has been judged, and nothing of an action that
   is settled is still to be counted. *)
LEMMA UncountedIsGathering ==
  ASSUME TypeOK, NEW ev \in Event
  PROVE  /\ \A p : Uncounted(p, ev) => cycle[ev].at = "gathering"
         /\ ev \in updating => cycle[ev].at = "gathering"
BY DEF TypeOK, FeedbackTypeOK, Uncounted

(* The sets of an action stay when its events stay as far as they look. *)
LEMMA JudgedStays ==
  ASSUME NEW a,
         \A d \in Decision : /\ Judged(<<d, a>>)' <=> Judged(<<d, a>>)
                             /\ Judged(<<d, a>>) => (Won(<<d, a>>)' <=> Won(<<d, a>>))
  PROVE  JudgedWins(a)' = JudgedWins(a) /\ JudgedLosses(a)' = JudgedLosses(a)
BY DEF JudgedWins, JudgedLosses

LEMMA UncountedStays ==
  ASSUME NEW p, NEW a,
         \A d \in Decision :
           /\ Uncounted(p, <<d, a>>)' <=> Uncounted(p, <<d, a>>)
           /\ Uncounted(p, <<d, a>>) => (Won(<<d, a>>)' <=> Won(<<d, a>>))
  PROVE  UncountedWins(p, a)' = UncountedWins(p, a) /\ UncountedLosses(p, a)' = UncountedLosses(p, a)
BY DEF UncountedWins, UncountedLosses

LEMMA UndrawnStays ==
  ASSUME NEW a,
         \A d \in Decision :
           /\ <<d, a>> \in updating' <=> <<d, a>> \in updating
           /\ <<d, a>> \in updating => (Won(<<d, a>>)' <=> Won(<<d, a>>))
  PROVE  UndrawnWins(a)' = UndrawnWins(a) /\ UndrawnLosses(a)' = UndrawnLosses(a)
BY DEF UndrawnWins, UndrawnLosses

(* A step that leaves the verdicts and the updates of an action alone. *)
LEMMA CountsStay ==
  ASSUME TypeOK, NEW p \in Playbook, NEW a \in Action, Counts(p, a),
         \A d \in Decision : /\ Judged(<<d, a>>)' <=> Judged(<<d, a>>)
                             /\ Judged(<<d, a>>) => (Won(<<d, a>>)' <=> Won(<<d, a>>))
                             /\ Uncounted(p, <<d, a>>)' <=> Uncounted(p, <<d, a>>),
         playbook'[p] = playbook[p]
  PROVE  Counts(p, a)'
<1>1. \A d \in Decision : <<d, a>> \in Event
  BY DEF Event
<1>2. \A d \in Decision : Uncounted(p, <<d, a>>) => Judged(<<d, a>>)
  BY <1>1, UncountedIsGathering DEF Judged
<1>3. JudgedWins(a)' = JudgedWins(a) /\ JudgedLosses(a)' = JudgedLosses(a)
  BY JudgedStays
<1>4. UncountedWins(p, a)' = UncountedWins(p, a) /\ UncountedLosses(p, a)' = UncountedLosses(p, a)
  BY <1>2, UncountedStays
<1> QED
  BY <1>3, <1>4 DEF Counts

LEMMA DrawsStay ==
  ASSUME TypeOK, NEW a \in Action, Draws(a),
         \A d \in Decision : /\ Judged(<<d, a>>)' <=> Judged(<<d, a>>)
                             /\ Judged(<<d, a>>) => (Won(<<d, a>>)' <=> Won(<<d, a>>))
                             /\ <<d, a>> \in updating' <=> <<d, a>> \in updating,
         resolves'[a] = resolves[a]
  PROVE  Draws(a)'
<1>1. \A d \in Decision : <<d, a>> \in Event
  BY DEF Event
<1>2. \A d \in Decision : <<d, a>> \in updating => Judged(<<d, a>>)
  BY <1>1, UncountedIsGathering DEF Judged
<1>3. JudgedWins(a)' = JudgedWins(a) /\ JudgedLosses(a)' = JudgedLosses(a)
  BY JudgedStays
<1>4. UndrawnWins(a)' = UndrawnWins(a) /\ UndrawnLosses(a)' = UndrawnLosses(a)
  BY <1>2, UndrawnStays
<1> QED
  BY <1>3, <1>4 DEF Draws

LEMMA OneMore ==
  ASSUME NEW S, IsFiniteSet(S), NEW x, x \notin S
  PROVE  Cardinality(S) \in Nat /\ Cardinality(S \cup {x}) = Cardinality(S) + 1
BY FS_AddElement, FS_CardinalityType

LEMMA OneLess ==
  ASSUME NEW S, IsFiniteSet(S), NEW x \in S
  PROVE  Cardinality(S) \in Nat /\ Cardinality(S \ {x}) = Cardinality(S) - 1
BY FS_RemoveElement, FS_CardinalityType

LEMMA Counters ==
  ASSUME TypeOK
  PROVE  /\ \A p \in Playbook : playbook[p].wins \in Nat /\ playbook[p].losses \in Nat
         /\ \A a \in Action : resolves[a].wins \in Nat /\ resolves[a].losses \in Nat
<1>1. playbook \in [Playbook -> Tally] /\ resolves \in [Action -> Edge]
  BY DEF TypeOK, FeedbackTypeOK
<1> QED
  BY <1>1 DEF Tally, Edge

(* A verdict joins what has been judged and what is to be counted and drawn. *)
LEMMA VerdictJoins ==
  ASSUME TypeOK, UpdaterInv, NEW d \in Decision, NEW a \in Action, CountAfter(<<d, a>>)
  PROVE  /\ \A p \in Playbook : Counts(p, a) => Counts(p, a)'
         /\ Draws(a) => Draws(a)'
<1> DEFINE ev == <<d, a>>
<1>1. /\ ev \in Event
      /\ \A e \in Decision \ {d} : <<e, a>> \in Event /\ <<e, a>> # ev
  BY DEF Event
<1>2. /\ cycle[ev].at = "sleeping" /\ cycle'[ev].at = "gathering"
      /\ \A e \in Event \ {ev} : cycle'[e] = cycle[e]
  BY <1>1, CycleChanges
<1>3. /\ updater'[ev].at = "due" /\ \A e \in Event \ {ev} : updater'[e] = updater[e]
      /\ updating' = updating \cup {ev}
      /\ UNCHANGED <<playbook, resolves>>
  BY <1>1 DEF CountAfter, storeVars, UpdaterInv, Idle
<1> HIDE DEF ev
<1>4. ~ Judged(ev) /\ ev \notin updating /\ \A p : ~ Uncounted(p, ev)
  BY <1>1, <1>2, UncountedIsGathering DEF Judged
<1>5. Judged(ev)' /\ ev \in updating' /\ \A p \in Playbook : Uncounted(p, ev)'
  BY <1>2, <1>3 DEF Judged, Uncounted
<1>6. \A e \in Decision \ {d} : /\ Judged(<<e, a>>)' <=> Judged(<<e, a>>)
                                /\ Won(<<e, a>>)' <=> Won(<<e, a>>)
                                /\ <<e, a>> \in updating' <=> <<e, a>> \in updating
                                /\ \A p \in Playbook : Uncounted(p, <<e, a>>)' <=> Uncounted(p, <<e, a>>)
  BY <1>1, <1>2, <1>3 DEF Judged, Won, Uncounted
<1>7. ASSUME NEW p \in Playbook
      PROVE  /\ d \notin JudgedWins(a) /\ d \notin JudgedLosses(a)
             /\ d \notin UncountedWins(p, a) /\ d \notin UncountedLosses(p, a)
             /\ d \notin UndrawnWins(a) /\ d \notin UndrawnLosses(a)
  BY <1>4 DEF ev, JudgedWins, JudgedLosses, UncountedWins, UncountedLosses, UndrawnWins, UndrawnLosses
<1>8. CASE Won(ev)'
  <2>1. JudgedWins(a)' = JudgedWins(a) \cup {d} /\ JudgedLosses(a)' = JudgedLosses(a)
    BY <1>4, <1>5, <1>6, <1>8 DEF ev, JudgedWins, JudgedLosses
  <2>2. UndrawnWins(a)' = UndrawnWins(a) \cup {d} /\ UndrawnLosses(a)' = UndrawnLosses(a)
    BY <1>4, <1>5, <1>6, <1>8 DEF ev, UndrawnWins, UndrawnLosses
  <2>3. ASSUME NEW p \in Playbook
        PROVE  /\ UncountedWins(p, a)' = UncountedWins(p, a) \cup {d}
               /\ UncountedLosses(p, a)' = UncountedLosses(p, a)
    BY <1>4, <1>5, <1>6, <1>8 DEF ev, UncountedWins, UncountedLosses
  <2>4. ASSUME NEW p \in Playbook, Counts(p, a) PROVE Counts(p, a)'
    BY <1>3, <1>7, <2>1, <2>3, <2>4, OneMore, EvidenceIsFinite, Counters DEF Counts
  <2>5. ASSUME Draws(a) PROVE Draws(a)'
    <3>1. d \notin JudgedWins(a) /\ d \notin UndrawnWins(a)
      BY <1>4 DEF ev, JudgedWins, UndrawnWins
    <3> QED
      BY <1>3, <3>1, <2>1, <2>2, <2>5, OneMore, EvidenceIsFinite, Counters DEF Draws
  <2> QED
    BY <2>4, <2>5
<1>9. CASE ~ Won(ev)'
  <2>1. JudgedLosses(a)' = JudgedLosses(a) \cup {d} /\ JudgedWins(a)' = JudgedWins(a)
    BY <1>4, <1>5, <1>6, <1>9 DEF ev, JudgedWins, JudgedLosses
  <2>2. UndrawnLosses(a)' = UndrawnLosses(a) \cup {d} /\ UndrawnWins(a)' = UndrawnWins(a)
    BY <1>4, <1>5, <1>6, <1>9 DEF ev, UndrawnWins, UndrawnLosses
  <2>3. ASSUME NEW p \in Playbook
        PROVE  /\ UncountedLosses(p, a)' = UncountedLosses(p, a) \cup {d}
               /\ UncountedWins(p, a)' = UncountedWins(p, a)
    BY <1>4, <1>5, <1>6, <1>9 DEF ev, UncountedWins, UncountedLosses
  <2>4. ASSUME NEW p \in Playbook, Counts(p, a) PROVE Counts(p, a)'
    BY <1>3, <1>7, <2>1, <2>3, <2>4, OneMore, EvidenceIsFinite, Counters DEF Counts
  <2>5. ASSUME Draws(a) PROVE Draws(a)'
    <3>1. d \notin JudgedLosses(a) /\ d \notin UndrawnLosses(a)
      BY <1>4 DEF ev, JudgedLosses, UndrawnLosses
    <3>2. /\ Cardinality(JudgedLosses(a)) \in Nat /\ Cardinality(UndrawnLosses(a)) \in Nat
          /\ Cardinality(JudgedLosses(a)') = Cardinality(JudgedLosses(a)) + 1
          /\ Cardinality(UndrawnLosses(a)') = Cardinality(UndrawnLosses(a)) + 1
      BY <3>1, <2>1, <2>2, OneMore, EvidenceIsFinite
    <3> QED
      BY <1>3, <3>2, <2>1, <2>2, <2>5, Counters DEF Draws
  <2> QED
    BY <2>4, <2>5
<1> QED
  BY <1>8, <1>9

(* A playbook that is written as it was read plus one counts one of those it
   lacked; the other playbooks of the action count nothing. *)
LEMMA PlaybookCounts ==
  ASSUME TypeOK, UpdaterInv, NEW d \in Decision, NEW a \in Action, NEW p \in Playbook, NEW q \in Playbook,
         PatchPlaybook(<<d, a>>, p), a \notin unsure', Counts(q, a)
  PROVE  Counts(q, a)'
<1> DEFINE ev == <<d, a>>
<1>1. /\ ev \in Event /\ ev[2] = a
      /\ \A e \in Decision : <<e, a>> \in Event
      /\ \A e \in Decision \ {d} : <<e, a>> # ev
  BY DEF Event
<1> HIDE DEF ev
<1>2. /\ updater[ev].at = "patching" /\ p \in DOMAIN updater[ev].read
      /\ playbook[p] = updater[ev].read[p]
      /\ playbook' = [playbook EXCEPT ![p] = Counted(playbook[p], cycle[ev].outcome)]
      /\ \A e \in Event \ {ev} : updater'[e] = updater[e]
      /\ UNCHANGED cycle
  BY <1>1 DEF ev, PatchPlaybook, UpdaterInv, cycleVars
<1>3. /\ ~ Uncounted(p, ev)'
      /\ q # p => (Uncounted(q, ev)' <=> Uncounted(q, ev))
  <2> DEFINE left == DOMAIN updater[ev].read \ {p}
  <2>1. updater' = [updater EXCEPT ![ev] =
                      IF left = {} THEN Idle
                      ELSE [at |-> "patching", read |-> [x \in left |-> updater[ev].read[x]]]]
    BY DEF ev, PatchPlaybook
  <2>2. CASE left = {}
    <3>1. updater'[ev] = Idle /\ Idle.at = "idle"
      BY <1>1, <2>1, <2>2 DEF UpdaterInv, Idle
    <3> QED
      BY <1>2, <2>2, <3>1 DEF Uncounted
  <2>3. CASE left # {}
    <3>1. updater'[ev] = [at |-> "patching", read |-> [x \in left |-> updater[ev].read[x]]]
      BY <1>1, <2>1, <2>3 DEF UpdaterInv
    <3>2. updater'[ev].at = "patching" /\ DOMAIN updater'[ev].read = left
      BY <3>1
    <3> QED
      BY <1>2, <3>2 DEF Uncounted
  <2> QED
    BY <2>2, <2>3
<1>4. \A e \in Decision :
        /\ Judged(<<e, a>>)' <=> Judged(<<e, a>>)
        /\ Won(<<e, a>>)' <=> Won(<<e, a>>)
        /\ e # d => \A x : Uncounted(x, <<e, a>>)' <=> Uncounted(x, <<e, a>>)
  BY <1>1, <1>2 DEF Judged, Won, Uncounted
<1>5. CASE q # p
  <2>1. playbook'[q] = playbook[q]
    BY <1>2, <1>5 DEF TypeOK, FeedbackTypeOK
  <2> QED
    BY <1>3, <1>4, <1>5, <2>1, CountsStay DEF ev
<1>6. CASE q = p
  <2>1. JudgedWins(a)' = JudgedWins(a) /\ JudgedLosses(a)' = JudgedLosses(a)
    BY <1>4, JudgedStays
  <2>2. Uncounted(p, ev)
    BY <1>2 DEF Uncounted
  <2>3. playbook[p] \in Tally /\ playbook'[p] = Counted(playbook[p], cycle[ev].outcome)
    BY <1>2 DEF TypeOK, FeedbackTypeOK
  <2>4. CASE Won(ev)
    <3>1. /\ d \in UncountedWins(p, a) /\ UncountedLosses(p, a)' = UncountedLosses(p, a)
          /\ UncountedWins(p, a)' = UncountedWins(p, a) \ {d}
      BY <1>3, <1>4, <2>2, <2>4 DEF ev, UncountedWins, UncountedLosses
    <3>2. playbook'[p].wins = playbook[p].wins + 1 /\ playbook'[p].losses = playbook[p].losses
      BY <2>3, <2>4 DEF Won, Counted, Tally
    <3> QED
      BY <1>6, <2>1, <3>1, <3>2, OneLess, EvidenceIsFinite, Counters DEF Counts
  <2>5. CASE ~ Won(ev)
    <3>1. /\ d \in UncountedLosses(p, a) /\ UncountedWins(p, a)' = UncountedWins(p, a)
          /\ UncountedLosses(p, a)' = UncountedLosses(p, a) \ {d}
      BY <1>3, <1>4, <2>2, <2>5 DEF ev, UncountedWins, UncountedLosses
    <3>2. playbook'[p].losses = playbook[p].losses + 1 /\ playbook'[p].wins = playbook[p].wins
      BY <2>3, <2>5 DEF Won, Counted, Tally
    <3> QED
      BY <1>6, <2>1, <3>1, <3>2, OneLess, EvidenceIsFinite, Counters DEF Counts
  <2> QED
    BY <2>4, <2>5
<1> QED
  BY <1>5, <1>6

(* An edge that is strengthened or weakened draws one of those it lacked. *)
LEMMA EdgeDraws ==
  ASSUME TypeOK, NEW d \in Decision, NEW a \in Action, UpdateGraph(<<d, a>>), Draws(a)
  PROVE  Draws(a)'
<1> DEFINE ev == <<d, a>>
<1>1. ev \in Event /\ \A e \in Decision \ {d} : <<e, a>> # ev
  BY DEF Event
<1>2. /\ ev \in updating /\ updating' = updating \ {ev} /\ UNCHANGED cycle
      /\ resolves' = [resolves EXCEPT ![a] =
                        IF Won(ev) THEN Strengthened(resolves[a]) ELSE Weakened(resolves[a])]
  BY DEF UpdateGraph, cycleVars, Won
<1>3. resolves'[a] = IF Won(ev) THEN Strengthened(resolves[a]) ELSE Weakened(resolves[a])
  BY <1>2 DEF TypeOK, FeedbackTypeOK
<1> HIDE DEF ev
<1>4. \A e \in Decision : /\ Judged(<<e, a>>)' <=> Judged(<<e, a>>)
                          /\ Won(<<e, a>>)' <=> Won(<<e, a>>)
                          /\ e # d => (<<e, a>> \in updating' <=> <<e, a>> \in updating)
  BY <1>1, <1>2 DEF Judged, Won
<1>5. JudgedWins(a)' = JudgedWins(a) /\ JudgedLosses(a)' = JudgedLosses(a)
  BY <1>4, JudgedStays
<1>6. resolves[a] \in Edge
  BY DEF TypeOK, FeedbackTypeOK
<1>7. CASE Won(ev)
  <2>1. /\ d \in UndrawnWins(a) /\ UndrawnLosses(a)' = UndrawnLosses(a)
        /\ UndrawnWins(a)' = UndrawnWins(a) \ {d}
    BY <1>2, <1>4, <1>7 DEF ev, UndrawnWins, UndrawnLosses
  <2>2. resolves'[a].wins = resolves[a].wins + 1 /\ resolves'[a].losses \in {0, resolves[a].losses}
    BY <1>3, <1>6, <1>7 DEF Strengthened, Edge
  <2>3. /\ Cardinality(UndrawnWins(a)) \in Nat
        /\ Cardinality(UndrawnWins(a)') = Cardinality(UndrawnWins(a)) - 1
    BY <2>1, OneLess, EvidenceIsFinite
  <2>4. /\ Cardinality(JudgedLosses(a)) \in Nat /\ Cardinality(UndrawnLosses(a)) \in Nat
        /\ resolves[a].wins \in Nat /\ resolves[a].losses \in Nat
    BY Counters, EvidenceIsFinite, FS_CardinalityType
  <2> QED
    BY <1>5, <2>1, <2>2, <2>3, <2>4 DEF Draws
<1>8. CASE ~ Won(ev)
  <2>1. /\ d \in UndrawnLosses(a) /\ UndrawnWins(a)' = UndrawnWins(a)
        /\ UndrawnLosses(a)' = UndrawnLosses(a) \ {d}
    BY <1>2, <1>4, <1>8 DEF ev, UndrawnWins, UndrawnLosses
  <2>2. /\ resolves'[a].wins = resolves[a].wins
        /\ resolves'[a].losses \in {resolves[a].losses, resolves[a].losses + 1}
    BY <1>3, <1>6, <1>8 DEF Weakened, Edge
  <2>3. /\ Cardinality(UndrawnLosses(a)) \in Nat
        /\ Cardinality(UndrawnLosses(a)') = Cardinality(UndrawnLosses(a)) - 1
    BY <2>1, OneLess, EvidenceIsFinite
  <2>4. /\ Cardinality(JudgedLosses(a)) \in Nat
        /\ resolves[a].wins \in Nat /\ resolves[a].losses \in Nat
    BY Counters, EvidenceIsFinite, FS_CardinalityType
  <2> QED
    BY <1>5, <2>1, <2>2, <2>3, <2>4 DEF Draws
<1> QED
  BY <1>7, <1>8

(* What concerns no event of an action leaves its evidence alone. *)
LEMMA EvidenceStays ==
  ASSUME TypeOK, NEW a \in Action, Evident(a),
         \A d \in Decision :
           /\ Judged(<<d, a>>)' <=> Judged(<<d, a>>)
           /\ Judged(<<d, a>>) => (Won(<<d, a>>)' <=> Won(<<d, a>>))
           /\ \A p \in Playbook : Recommended[p] = a =>
                (Uncounted(p, <<d, a>>)' <=> Uncounted(p, <<d, a>>))
           /\ <<d, a>> \in updating' <=> <<d, a>> \in updating,
         \A p \in Playbook : Recommended[p] = a => playbook'[p] = playbook[p],
         resolves'[a] = resolves[a]
  PROVE  Evident(a)'
<1>1. Draws(a)'
  BY DrawsStay DEF Evident
<1>2. ASSUME NEW p \in Playbook, Recommended[p] = a PROVE Counts(p, a)'
  BY <1>2, CountsStay DEF Evident
<1> QED
  BY <1>1, <1>2 DEF Evident

(* The same of the steps of other actions' events, and of steps that are about
   no verdict and no update. *)
LEMMA OtherEvidenceStays ==
  ASSUME TypeOK, UpdaterInv, NEW ev \in Event, NEW a \in Action \ {ev[2]}, Evident(a),
         \A e \in Event \ {ev} : /\ cycle'[e] = cycle[e] /\ updater'[e] = updater[e]
                                 /\ e \in updating' <=> e \in updating,
         \A p \in Playbook : Recommended[p] = a => playbook'[p] = playbook[p],
         resolves'[a] = resolves[a]
  PROVE  Evident(a)'
<1>1. \A d \in Decision : <<d, a>> \in Event \ {ev}
  BY DEF Event
<1>2. \A d \in Decision :
        /\ Judged(<<d, a>>)' <=> Judged(<<d, a>>)
        /\ Won(<<d, a>>)' <=> Won(<<d, a>>)
        /\ \A p \in Playbook : Uncounted(p, <<d, a>>)' <=> Uncounted(p, <<d, a>>)
        /\ <<d, a>> \in updating' <=> <<d, a>> \in updating
  BY <1>1 DEF Judged, Won, Uncounted
<1> QED
  BY <1>2, EvidenceStays

LEMMA QuietEvidenceStays ==
  ASSUME TypeOK, NEW a \in Action, Evident(a),
         UNCHANGED <<updater, updating, playbook, resolves>>,
         \A e \in Event : /\ Judged(e)' <=> Judged(e)
                          /\ Judged(e) => (Won(e)' <=> Won(e))
  PROVE  Evident(a)'
<1>1. \A d \in Decision : <<d, a>> \in Event
  BY DEF Event
<1>2. \A d \in Decision, p \in Playbook : Uncounted(p, <<d, a>>)' <=> Uncounted(p, <<d, a>>)
  BY DEF Uncounted
<1> QED
  BY <1>1, <1>2, EvidenceStays

(* An updater that reads leaves all that it has read to be counted. *)
LEMMA ReadingCounts ==
  ASSUME TypeOK, UpdaterInv, NEW ev \in Event, ReadPlaybooks(ev), NEW p \in Playbook, Recommended[p] = ev[2]
  PROVE  Uncounted(p, ev)' /\ Uncounted(p, ev)
<1> DEFINE found == {q \in Playbook : Recommended[q] = ev[2]}
           reading == [at |-> "patching", read |-> [q \in found |-> playbook[q]]]
<1>1. found # {} /\ p \in found
  OBVIOUS
<1>2. updater[ev].at = "due" /\ updater' = [updater EXCEPT ![ev] = reading]
  BY <1>1 DEF ReadPlaybooks
<1>3. reading.at = "patching" /\ DOMAIN reading.read = found
  OBVIOUS
<1> HIDE DEF found, reading
<1>4. updater'[ev] = reading
  BY <1>2 DEF UpdaterInv
<1> QED
  BY <1>1, <1>2, <1>3, <1>4 DEF Uncounted

(* A restart leaves nothing to be counted, and what was judged before stays so. *)
LEMMA RestartEvidence ==
  ASSUME TypeOK, NEW offset \in 0 .. Len(topic), Restart(offset),
         NEW a \in Action \ unsure', Evident(a)
  PROVE  Evident(a)'
<1>1. ASSUME NEW d \in Decision PROVE cycle[<<d, a>>].at # "gathering"
  <2>1. <<d, a>> \in Event /\ <<d, a>>[2] = a
    BY DEF Event
  <2> QED
    BY <2>1 DEF Restart, Live
<1>2. \A ev \in Event : /\ updater'[ev] = Idle
                        /\ cycle'[ev].at \in {"none", "lost"} \/ cycle'[ev] = cycle[ev]
                        /\ cycle[ev].at = "done" => cycle'[ev] = cycle[ev]
  BY DEF Restart, NoCycle, Live
<1>3. \A d \in Decision : <<d, a>> \in Event
  BY DEF Event
<1>4. \A d \in Decision : /\ Judged(<<d, a>>)' <=> Judged(<<d, a>>)
                          /\ Judged(<<d, a>>) => (Won(<<d, a>>)' <=> Won(<<d, a>>))
  BY <1>1, <1>2, <1>3 DEF Judged, Won
<1>5. \A d \in Decision : /\ <<d, a>> \notin updating /\ <<d, a>> \notin updating'
                          /\ \A p \in Playbook : ~ Uncounted(p, <<d, a>>) /\ ~ Uncounted(p, <<d, a>>)'
  BY <1>1, <1>2, <1>3, UncountedIsGathering DEF Uncounted, Idle, Restart
<1>6. UNCHANGED <<playbook, resolves>>
  BY DEF Restart, storeVars
<1> QED
  BY <1>4, <1>5, <1>6, EvidenceStays

(* What the feedback loop does to the evidence of an action that stays sure. *)
LEMMA FeedbackEvidence ==
  ASSUME TypeOK, UpdaterInv, StepsInv, FeedbackNext, NEW a \in Action \ unsure', Evident(a)
  PROVE  Evident(a)'
<1>0. /\ a \in Action
      /\ \A d \in Decision : <<d, a>> \in Event
      /\ \A ev \in Event : /\ ev[1] \in Decision /\ ev[2] \in Action /\ ev = <<ev[1], ev[2]>>
  BY DEF Event
<1>1. CASE Take
  <2>1. PICK taken \in Event : /\ cycle[taken].at = "none" /\ cycle'[taken].at = "counting"
                               /\ \A e \in Event \ {taken} : cycle'[e] = cycle[e]
    BY <1>1, TakeChanges
  <2>2. \A e \in Event : /\ Judged(e)' <=> Judged(e)
                         /\ Judged(e) => (Won(e)' <=> Won(e))
    BY <2>1 DEF Judged, Won
  <2> QED
    BY <1>0, <1>1, <2>2, QuietEvidenceStays DEF Take, gatherVars, storeVars
<1>2. ASSUME NEW ev \in Event, CountBefore(ev) PROVE Evident(a)'
  <2>1. \A e \in Event : /\ Judged(e)' <=> Judged(e)
                         /\ Judged(e) => (Won(e)' <=> Won(e))
    BY <1>2, CycleChanges DEF Judged, Won
  <2> QED
    BY <1>0, <1>2, <2>1, QuietEvidenceStays DEF CountBefore, gatherVars, storeVars
<1>3. ASSUME NEW ev \in Event, CountAfter(ev) PROVE Evident(a)'
  <2>1. CASE ev[2] = a
    BY <1>0, <1>3, <2>1, VerdictJoins DEF Evident
  <2>2. CASE ev[2] # a
    <3>1. \A e \in Event \ {ev} : /\ cycle'[e] = cycle[e] /\ updater'[e] = updater[e]
                                  /\ e \in updating' <=> e \in updating
      BY <1>3, CycleChanges DEF CountAfter, UpdaterInv
    <3> QED
      BY <1>0, <1>3, <2>2, <3>1, OtherEvidenceStays DEF CountAfter, storeVars
  <2> QED
    BY <2>1, <2>2
<1>4. ASSUME NEW ev \in Event, Gather(ev) PROVE Evident(a)'
  <2>1. /\ \A e \in Event \ {ev} : cycle'[e] = cycle[e]
        /\ cycle[ev].at = "gathering" /\ cycle'[ev].at = "done"
        /\ cycle'[ev].outcome = cycle[ev].outcome
    BY <1>4, CycleChanges DEF Gather, TypeOK, FeedbackTypeOK, Cycle
  <2>2. \A e \in Event : /\ Judged(e)' <=> Judged(e)
                         /\ Judged(e) => (Won(e)' <=> Won(e))
    BY <2>1 DEF Judged, Won
  <2> QED
    BY <1>0, <1>4, <2>2, QuietEvidenceStays DEF Gather, gatherVars, storeVars
<1>5. ASSUME UNCHANGED <<cycle, updater, updating, playbook, resolves>> PROVE Evident(a)'
  <2>1. \A e \in Event : (Judged(e)' <=> Judged(e)) /\ (Won(e)' <=> Won(e))
    BY <1>5 DEF Judged, Won
  <2> QED
    BY <1>0, <1>5, <2>1, QuietEvidenceStays
<1>6. ASSUME NEW ev \in Event, Record(ev) \/ Index(ev) \/ RecorderFails(ev) PROVE Evident(a)'
  BY <1>5, <1>6 DEF Record, Index, RecorderFails, cycleVars
<1>7. ASSUME NEW x \in Anomaly, Opens(x) \/ Clears(x) PROVE Evident(a)'
  BY <1>5, <1>7 DEF Opens, Clears, cycleVars, gatherVars, storeVars
<1>8. ASSUME NEW ev \in Event, ReadPlaybooks(ev) PROVE Evident(a)'
  <2>1. /\ UNCHANGED <<cycle, updating, playbook, resolves>>
        /\ \A e \in Event \ {ev} : updater'[e] = updater[e]
    BY <1>8 DEF ReadPlaybooks, UpdaterInv, cycleVars, storeVars
  <2>2. \A p \in Playbook : Recommended[p] = ev[2] => Uncounted(p, ev)' /\ Uncounted(p, ev)
    BY <1>8, ReadingCounts
  <2>3. \A e \in Event, p \in Playbook : Recommended[p] = e[2] =>
          (Uncounted(p, e)' <=> Uncounted(p, e))
    BY <2>1, <2>2 DEF Uncounted
  <2>4. \A e \in Event : (Judged(e)' <=> Judged(e)) /\ (Won(e)' <=> Won(e))
    BY <2>1 DEF Judged, Won
  <2>5. \A d \in Decision, p \in Playbook : Recommended[p] = a =>
          (Uncounted(p, <<d, a>>)' <=> Uncounted(p, <<d, a>>))
    BY <1>0, <2>3
  <2> QED
    BY <1>0, <2>1, <2>4, <2>5, EvidenceStays
<1>9. ASSUME NEW ev \in Event, NEW p \in Playbook, PatchPlaybook(ev, p) PROVE Evident(a)'
  <2>1. /\ UNCHANGED <<cycle, updating, resolves>>
        /\ \A e \in Event \ {ev} : updater'[e] = updater[e]
        /\ \A q \in Playbook \ {p} : playbook'[q] = playbook[q]
    BY <1>9 DEF PatchPlaybook, UpdaterInv, cycleVars, TypeOK, FeedbackTypeOK
  <2>2. Recommended[p] = ev[2]
    BY <1>9 DEF PatchPlaybook, TypeOK, FeedbackTypeOK
  <2>3. CASE ev[2] = a
    <3>1. ASSUME NEW q \in Playbook, Recommended[q] = a PROVE Counts(q, a)'
      BY <1>0, <1>9, <2>3, <3>1, PlaybookCounts DEF Evident
    <3>2. \A e \in Event : (Judged(e)' <=> Judged(e)) /\ (Won(e)' <=> Won(e))
      BY <2>1 DEF Judged, Won
    <3>3. Draws(a)'
      BY <1>0, <2>1, <3>2, DrawsStay DEF Evident
    <3> QED
      BY <3>1, <3>3 DEF Evident
  <2>4. CASE ev[2] # a
    BY <1>0, <2>1, <2>2, <2>4, OtherEvidenceStays
  <2> QED
    BY <2>3, <2>4
<1>10. ASSUME NEW ev \in Event, UpdateGraph(ev) PROVE Evident(a)'
  <2>1. /\ UNCHANGED <<cycle, updater, playbook>> /\ updating' = updating \ {ev}
        /\ \A b \in Action \ {ev[2]} : resolves'[b] = resolves[b]
    BY <1>10 DEF UpdateGraph, cycleVars, TypeOK, FeedbackTypeOK
  <2>2. CASE ev[2] = a
    <3>1. Draws(a)'
      BY <1>0, <1>10, <2>2, EdgeDraws DEF Evident
    <3>2. \A e \in Event : /\ Judged(e)' <=> Judged(e)
                           /\ Won(e)' <=> Won(e)
                           /\ \A p : Uncounted(p, e)' <=> Uncounted(p, e)
      BY <2>1 DEF Judged, Won, Uncounted
    <3>3. ASSUME NEW p \in Playbook, Recommended[p] = a PROVE Counts(p, a)'
      BY <1>0, <2>1, <3>2, <3>3, CountsStay DEF Evident
    <3> QED
      BY <3>1, <3>3 DEF Evident
  <2>3. CASE ev[2] # a
    BY <1>0, <2>1, <2>3, OtherEvidenceStays
  <2> QED
    BY <2>2, <2>3
<1>11. ASSUME NEW ev \in Event, UpdaterFails(ev) \/ GraphFails(ev) PROVE Evident(a)'
  <2>1. /\ ev[2] # a /\ UNCHANGED <<cycle, playbook, resolves>>
        /\ \A e \in Event \ {ev} : updater'[e] = updater[e] /\ (e \in updating' <=> e \in updating)
    BY <1>11 DEF UpdaterFails, GraphFails, UpdaterInv, cycleVars, storeVars
  <2> QED
    BY <1>0, <2>1, OtherEvidenceStays
<1>12. ASSUME NEW offset \in 0 .. Len(topic), Restart(offset) PROVE Evident(a)'
  BY <1>12, RestartEvidence
<1> QED
  BY <1>1, <1>2, <1>3, <1>4, <1>6, <1>7, <1>8, <1>9, <1>10, <1>11, <1>12
     DEF FeedbackNext, CycleStep, CycleFails

(* Nothing makes an action sure again. *)
LEMMA UnsureStays == [Next]_vars => unsure \subseteq unsure'
<1>1. FeedbackNext => unsure \subseteq unsure'
  BY DEF FeedbackNext, CycleStep, CycleFails, Take, CountBefore, CountAfter, Gather, Record, Index,
         ReadPlaybooks, PatchPlaybook, UpdateGraph, RecorderFails, UpdaterFails, GraphFails, Restart,
         Opens, Clears
<1>2. (\E c \in Caller : RequestStep(c) \/ GenerateFails(c)) => unsure' = unsure
  BY LoopCycles
<1>3. (\E p \in Planner : Ask(p)) \/ NextCycle => unsure' = unsure
  BY AskCycles DEF feedbackVars, stateVars
<1>4. (\E d \in Decision : StepEnds(d)) => unsure' = unsure
  BY DEF StepEnds
<1>5. UNCHANGED vars => unsure' = unsure
  BY DEF vars, feedbackVars, stateVars
<1> QED
  BY <1>1, <1>2, <1>3, <1>4, <1>5 DEF Next

LEMMA EvidenceStep == TypeOK /\ UpdaterInv /\ StepsInv /\ EvidenceInv /\ [Next]_vars => EvidenceInv'
<1> SUFFICES ASSUME TypeOK, UpdaterInv, StepsInv, EvidenceInv, [Next]_vars,
                    NEW a \in Action \ unsure'
             PROVE  Evident(a)'
  BY DEF EvidenceInv
<1>0. a \in Action /\ Evident(a)
  BY UnsureStays DEF EvidenceInv
<1>1. CASE FeedbackNext /\ UNCHANGED loopVars
  BY <1>0, <1>1, FeedbackEvidence
<1>2. ASSUME UNCHANGED <<cycle, gatherVars, playbook, resolves>> PROVE Evident(a)'
  <2>1. \A e \in Event : (Judged(e)' <=> Judged(e)) /\ (Won(e)' <=> Won(e))
    BY <1>2 DEF Judged, Won
  <2> QED
    BY <1>0, <1>2, <2>1, QuietEvidenceStays DEF gatherVars
<1>3. CASE (\E p \in Planner : Ask(p)) \/ NextCycle
  BY <1>3, <1>2, AskCycles DEF feedbackVars, stateVars, cycleVars, storeVars
<1>4. ASSUME NEW c \in Caller, RequestStep(c) \/ GenerateFails(c) PROVE Evident(a)'
  BY <1>4, <1>2, LoopCycles DEF cycleVars
<1>5. ASSUME NEW d \in Decision, StepEnds(d) PROVE Evident(a)'
  BY <1>5, <1>2 DEF StepEnds, storeVars
<1>6. CASE UNCHANGED vars
  BY <1>6, <1>2 DEF vars, feedbackVars, stateVars, cycleVars, storeVars
<1> QED
  BY <1>1, <1>3, <1>4, <1>5, <1>6 DEF Next

LEMMA EvidenceInit == Init => EvidenceInv
<1> SUFFICES ASSUME Init, NEW a \in Action PROVE Evident(a)
  BY DEF EvidenceInv
<1>1. \A ev \in Event : ~ Judged(ev) /\ ev \notin updating /\ \A p : ~ Uncounted(p, ev)
  BY DEF Init, FeedbackInit, Judged, Uncounted, NoCycle, Idle
<1>2. \A d \in Decision : <<d, a>> \in Event
  BY DEF Event
<1>3. /\ JudgedWins(a) = {} /\ JudgedLosses(a) = {}
      /\ UndrawnWins(a) = {} /\ UndrawnLosses(a) = {}
  BY <1>1, <1>2 DEF JudgedWins, JudgedLosses, UndrawnWins, UndrawnLosses
<1>4. \A p : UncountedWins(p, a) = {} /\ UncountedLosses(p, a) = {}
  BY <1>1, <1>2 DEF UncountedWins, UncountedLosses
<1>5. /\ \A p \in Playbook : playbook[p].wins = 0 /\ playbook[p].losses = 0
      /\ resolves[a].wins = 0 /\ resolves[a].losses = 0
  BY DEF Init, FeedbackInit
<1>6. Draws(a)
  BY <1>3, <1>5, FS_EmptySet DEF Draws
<1>7. ASSUME NEW p \in Playbook PROVE Counts(p, a)
  <2>1. Cardinality(UncountedWins(p, a)) = 0 /\ Cardinality(UncountedLosses(p, a)) = 0
    BY <1>4, FS_EmptySet
  <2>2. Cardinality(JudgedWins(a)) = 0 /\ Cardinality(JudgedLosses(a)) = 0
    BY <1>3, FS_EmptySet
  <2> QED
    BY <1>5, <2>1, <2>2 DEF Counts
<1> QED
  BY <1>6, <1>7 DEF Evident

(* Of an action without a cycle at work every verdict is counted and drawn. *)
LEMMA SettledEvidence ==
  ASSUME TypeOK, NEW a \in Action, Evident(a), Settled(a)
  PROVE  /\ resolves[a].wins = Cardinality(JudgedWins(a))
         /\ resolves[a].losses <= Cardinality(JudgedLosses(a))
         /\ \A p \in Playbook : Recommended[p] = a =>
              /\ playbook[p].wins = Cardinality(JudgedWins(a))
              /\ playbook[p].losses = Cardinality(JudgedLosses(a))
<1>1. \A d \in Decision : /\ <<d, a>> \in Event
                          /\ cycle[<<d, a>>].at # "gathering"
  BY DEF Settled, Event
<1>2. \A d \in Decision : <<d, a>> \notin updating /\ \A p : ~ Uncounted(p, <<d, a>>)
  BY <1>1, UncountedIsGathering
<1>3. /\ UndrawnWins(a) = {} /\ UndrawnLosses(a) = {}
      /\ \A p : UncountedWins(p, a) = {} /\ UncountedLosses(p, a) = {}
  BY <1>2 DEF UndrawnWins, UndrawnLosses, UncountedWins, UncountedLosses
<1>4. Draws(a) /\ \A p \in Playbook : Recommended[p] = a => Counts(p, a)
  BY DEF Evident
<1>5. /\ resolves[a].wins \in Nat /\ resolves[a].losses \in Nat
      /\ \A p \in Playbook : playbook[p].wins \in Nat /\ playbook[p].losses \in Nat
      /\ Cardinality(JudgedWins(a)) \in Nat /\ Cardinality(JudgedLosses(a)) \in Nat
  BY Counters, EvidenceIsFinite, FS_CardinalityType
<1>6. /\ Cardinality(UndrawnWins(a)) = 0 /\ Cardinality(UndrawnLosses(a)) = 0
      /\ \A p : Cardinality(UncountedWins(p, a)) = 0 /\ Cardinality(UncountedLosses(p, a)) = 0
  BY <1>3, FS_EmptySet
<1> QED
  BY <1>4, <1>5, <1>6 DEF Draws, Counts

(* The judgements of an action, by events and by decisions. *)
LEMMA JudgementsByDecision ==
  ASSUME NEW a \in Action, Settled(a)
  PROVE  /\ Cardinality(Successes(a)) = Cardinality(JudgedWins(a))
         /\ Cardinality(Judgements(a)) = Cardinality(JudgedWins(a)) + Cardinality(JudgedLosses(a))
         /\ Judgements(a) = {} => Cardinality(JudgedWins(a)) + Cardinality(JudgedLosses(a)) = 0
<1> DEFINE all == JudgedWins(a) \cup JudgedLosses(a)
           f == [d \in JudgedWins(a) |-> <<d, a>>]
           g == [d \in all |-> <<d, a>>]
<1>0. /\ \A d \in Decision : <<d, a>> \in Event /\ <<d, a>>[1] = d /\ <<d, a>>[2] = a
      /\ \A ev \in Event : ev[1] \in Decision /\ ev = <<ev[1], ev[2]>>
  BY DEF Event
<1>1. \A d \in Decision : Judged(<<d, a>>) <=> <<d, a>> \in Judgements(a)
  BY <1>0 DEF Judged, Judgements, Settled
<1>2. /\ \A d \in JudgedWins(a) : d \in Decision /\ <<d, a>> \in Successes(a)
      /\ \A ev \in Successes(a) : ev = <<ev[1], a>> /\ ev[1] \in JudgedWins(a)
  BY <1>0, <1>1 DEF JudgedWins, Successes, Judgements, Won
<1>3. /\ \A d \in all : d \in Decision /\ <<d, a>> \in Judgements(a)
      /\ \A ev \in Judgements(a) : ev = <<ev[1], a>> /\ ev[1] \in all
  BY <1>0, <1>1 DEF JudgedWins, JudgedLosses, Judgements
<1>4. f \in Bijection(JudgedWins(a), Successes(a))
  BY <1>0, <1>2 DEF Bijection, Injection, Surjection, IsInjective
<1>5. g \in Bijection(all, Judgements(a))
  <2> HIDE DEF all
  <2> QED
    BY <1>0, <1>3 DEF Bijection, Injection, Surjection, IsInjective
<1>6. IsFiniteSet(JudgedWins(a)) /\ IsFiniteSet(JudgedLosses(a))
  BY EvidenceIsFinite
<1>7. /\ IsFiniteSet(all)
      /\ Cardinality(all) = Cardinality(JudgedWins(a)) + Cardinality(JudgedLosses(a))
  <2>1. JudgedWins(a) \cap JudgedLosses(a) = {}
    BY DEF JudgedWins, JudgedLosses
  <2>2. /\ Cardinality(JudgedWins(a) \cap JudgedLosses(a)) = 0
        /\ Cardinality(JudgedWins(a)) \in Nat /\ Cardinality(JudgedLosses(a)) \in Nat
    BY <1>6, <2>1, FS_EmptySet, FS_CardinalityType
  <2>3. /\ IsFiniteSet(all)
        /\ Cardinality(all) = Cardinality(JudgedWins(a)) + Cardinality(JudgedLosses(a))
                               - Cardinality(JudgedWins(a) \cap JudgedLosses(a))
    BY <1>6, FS_Union
  <2> HIDE DEF all
  <2> QED
    BY <2>2, <2>3
<1> HIDE DEF all, f, g
<1>8. Cardinality(Successes(a)) = Cardinality(JudgedWins(a))
  BY <1>4, <1>6, FS_Bijection DEF ExistsBijection
<1>9. Cardinality(Judgements(a)) = Cardinality(all)
  BY <1>5, <1>7, FS_Bijection DEF ExistsBijection
<1> QED
  BY <1>7, <1>8, <1>9, FS_EmptySet

(* What a rule that is taken says of the record that was looked up for it. *)
LEMMA RuleConfidence ==
  ASSUME NEW sit, NEW r \in Matching(sit)
  PROVE  r.confidence \in Nat
BY DEF Matching, Rule

LEMMA TakenRule ==
  ASSUME NEW sit, NEW x \in Evaluate(sit, Rates), x.action \in DOMAIN Rates,
         Rates[x.action] \in Int
  PROVE  /\ Rates[x.action] >= MinSuccessRate
         /\ ~ x.approval => Rates[x.action] >= ApprovalBelow
<1>1. PICK r \in Trusted(sit, Rates) :
        /\ x.action = r.action
        /\ x.approval = (Effective(r, Rates) < ApprovalBelow \/ r.action = "escalate_to_human")
  BY DEF Evaluate
<1>2. r \in Matching(sit) /\ RecordOf(r, Rates) >= MinSuccessRate
  BY DEF Trusted
<1>3. RecordOf(r, Rates) = Rates[x.action]
  BY <1>1 DEF RecordOf
<1>4. r.confidence \in Nat
  BY <1>2, RuleConfidence
<1> DEFINE rate == Rates[x.action]
<1>5. ASSUME ~ x.approval PROVE rate >= ApprovalBelow
  <2>1. ~ (Effective(r, Rates) < ApprovalBelow)
    BY <1>1, <1>5
  <2>2. Effective(r, Rates) = IF rate < r.confidence THEN rate ELSE r.confidence
    BY <1>3 DEF Effective
  <2> HIDE DEF rate
  <2>3. rate \in Int
    BY DEF rate
  <2> QED
    BY <1>4, <2>1, <2>2, <2>3 DEF ApprovalBelow
<1> QED
  BY <1>2, <1>3, <1>5

(* The rate looked up for an action, when all its playbooks count the same. *)
AllCount(a, wins, losses) ==
  \A q \in Playbook : Recommended[q] = a => playbook[q].wins = wins /\ playbook[q].losses = losses

LEMMA RateOfAction ==
  ASSUME NEW a, NEW wins \in Nat, NEW losses \in Nat, NEW p \in Playbook, Recommended[p] = a,
         AllCount(a, wins, losses)
  PROVE  /\ a \in DOMAIN Rates
         /\ Rates[a] = IF wins + losses = 0 THEN 50 ELSE (100 * wins) \div (wins + losses)
         /\ Rates[a] \in Int
<1> DEFINE rate == IF wins + losses = 0 THEN 50 ELSE (100 * wins) \div (wins + losses)
           rates == {SuccessRate(q) : q \in {q \in Playbook : Recommended[q] = a}}
<1>1. rate \in Int
  BY SMTT(20)
<1>2. \A q \in Playbook : Recommended[q] = a => SuccessRate(q) = rate
  BY DEF SuccessRate, AllCount
<1> HIDE DEF rate
<1>3. rates = {rate}
  BY <1>2
<1>4. Min(rates) = rate
  BY <1>1, <1>3 DEF Min
<1>5. a \in DOMAIN Rates /\ Rates[a] = Min(rates)
  BY DEF Rates
<1> QED
  BY <1>1, <1>4, <1>5 DEF rate

LEMMA RateIsShare ==
  ASSUME NEW wins \in Nat, NEW all \in Nat \ {0}, NEW percent \in Nat,
         (100 * wins) \div all >= percent
  PROVE  100 * wins >= percent * all
<1> DEFINE n == 100 * wins
           q == n \div all
<1>1. n \in Nat /\ q \in Int
  OBVIOUS
<1>2. q * all <= n
  OBVIOUS
<1>3. q >= percent
  OBVIOUS
<1> HIDE DEF q, n
<1>4. percent * all <= q * all
  BY <1>1, <1>3
<1> QED
  BY <1>1, <1>2, <1>4 DEF n

(* Only a rule takes a request from the rates to a decision. *)
LEMMA OnlyARuleDecides ==
  ASSUME TypeOK, [Next]_vars, NEW c \in Caller, At(c, "rating"), At(c, "persisting")'
  PROVE  Rate(c)
<1>1. request[c].at = "rating" /\ request'[c].at = "persisting" /\ request \in [Caller -> Request]
  BY DEF At, TypeOK
<1>2. CASE FeedbackNext /\ UNCHANGED loopVars
  BY <1>1, <1>2 DEF loopVars
<1>3. ASSUME NEW b \in Caller, At(b, "idle"), request' = [request EXCEPT ![b].at = "fetching"]
      PROVE  Rate(c)
  BY <1>1, <1>3 DEF At
<1>4. CASE (\E p \in Planner : Ask(p)) \/ NextCycle
  BY <1>3, <1>4 DEF Ask, NextCycle, Caller
<1>5. ASSUME NEW b \in Caller, RequestStep(b) \/ GenerateFails(b) PROVE Rate(c)
  <2>1. CASE b = c
    BY <1>1, <1>5, <2>1 DEF RequestStep, GenerateFails, Fetch, LlmAnswers, LlmFails, Persist, Generate, At
  <2>2. \A d \in Caller : Over(b) => request' = [request EXCEPT ![b] = NoRequest]
    BY DEF Over
  <2>3. CASE b # c
    <3>1. \E r : request' = [request EXCEPT ![b] = r]
      <4>1. Over(b) => request' = [request EXCEPT ![b] = NoRequest]
        BY DEF Over
      <4>2. \A at : Goto(b, at) => request' = [request EXCEPT ![b] = [request[b] EXCEPT !.at = at]]
        BY <1>1 DEF Goto
      <4>3. \A action, fast, approval : Decide(b, action, fast, approval) =>
              \E r : request' = [request EXCEPT ![b] = r]
        BY DEF Decide
      <4>4. Fetch(b) => \E r : request' = [request EXCEPT ![b] = r]
        <5>1. ASSUME NEW s, request' = [request EXCEPT ![b].at = "rating", ![b].situation = s]
              PROVE  request' = [request EXCEPT ![b] = [[request[b] EXCEPT !.at = "rating"] EXCEPT !.situation = s]]
          BY <1>1, <5>1
        <5> QED
          BY <4>1, <5>1 DEF Fetch
      <4>5. Rate(b) => \E r : request' = [request EXCEPT ![b] = r]
        BY <4>2, <4>3 DEF Rate
      <4>6. LlmAnswers(b) => \E r : request' = [request EXCEPT ![b] = r]
        BY <4>3 DEF LlmAnswers
      <4>7. LlmFails(b) => \E r : request' = [request EXCEPT ![b] = r]
        BY <1>1, <4>1 DEF LlmFails
      <4>8. Persist(b) \/ Generate(b) \/ GenerateFails(b) => \E r : request' = [request EXCEPT ![b] = r]
        BY <4>1, <4>2 DEF Persist, Generate, GenerateFails
      <4> QED
        BY <1>5, <4>4, <4>5, <4>6, <4>7, <4>8 DEF RequestStep
    <3> QED
      BY <1>1, <2>3, <3>1
  <2> QED
    BY <2>1, <2>3
<1>6. ASSUME NEW d \in Decision, StepEnds(d) PROVE Rate(c)
  BY <1>1, <1>6 DEF StepEnds
<1>7. CASE UNCHANGED vars
  BY <1>1, <1>7 DEF vars, loopVars
<1> QED
  BY <1>2, <1>4, <1>5, <1>6, <1>7 DEF Next

(* The rate of an action without a cycle at work is that of its judgements. *)
LEMMA RateIsOfJudgements ==
  ASSUME TypeOK, NEW a \in Action, Evident(a), Settled(a), NEW p \in Playbook, Recommended[p] = a
  PROVE  /\ a \in DOMAIN Rates /\ Rates[a] \in Int
         /\ \A percent \in Nat : Rates[a] >= percent =>
              HasRate(a, percent) /\ (percent > 50 => Judgements(a) # {})
<1>1. PICK wins \in Nat, losses \in Nat :
        wins = Cardinality(JudgedWins(a)) /\ losses = Cardinality(JudgedLosses(a))
  BY EvidenceIsFinite, FS_CardinalityType
<1>2. AllCount(a, wins, losses)
  BY <1>1, SettledEvidence DEF AllCount
<1>3. /\ Cardinality(Successes(a)) = wins
      /\ Cardinality(Judgements(a)) = wins + losses
      /\ Judgements(a) = {} => wins + losses = 0
  BY <1>1, JudgementsByDecision
<1>4. /\ a \in DOMAIN Rates /\ Rates[a] \in Int
      /\ Rates[a] = IF wins + losses = 0 THEN 50 ELSE (100 * wins) \div (wins + losses)
  BY <1>2, RateOfAction
<1>5. ASSUME NEW percent \in Nat, Rates[a] >= percent
      PROVE  HasRate(a, percent) /\ (percent > 50 => Judgements(a) # {})
  <2>1. CASE wins + losses = 0
    BY <1>3, <1>4, <1>5, <2>1 DEF HasRate
  <2>2. CASE wins + losses # 0
    <3>1. wins + losses \in Nat \ {0} /\ (100 * wins) \div (wins + losses) >= percent
      BY <1>4, <1>5, <2>2
    <3>2. 100 * wins >= percent * (wins + losses)
      BY <3>1, RateIsShare
    <3> QED
      BY <1>3, <2>2, <3>2 DEF HasRate
  <2> QED
    BY <2>1, <2>2
<1> QED
  BY <1>4, <1>5

LEMMA LearnsStep ==
  ASSUME Inv, [Next]_vars, NEW c \in Caller, At(c, "rating"), At(c, "persisting")',
         faults' = faults, NEW a, a = Head(request'[c].decision).action, a \notin unsure, Settled(a),
         NEW p \in Playbook, Recommended[p] = a
  PROVE  /\ HasRate(a, MinSuccessRate)
         /\ ~ Head(request'[c].decision).approval => HasRate(a, ApprovalBelow) /\ Judgements(a) # {}
<1>1. Rate(c)
  BY OnlyARuleDecides DEF Inv
<1>2. /\ c \in Reading /\ request \in [Caller -> Request]
      /\ request[c].situation \in Seq(Anomaly) /\ request[c].situation # <<>>
  BY DEF Inv, At, Reading, TypeOK, RequestInv, Request
<1>3. PICK x \in Evaluate(request[c].situation, Rates) : Decide(c, x.action, TRUE, x.approval)
  <2>1. faults' # faults + 1
    BY FeedbackAssumption DEF Inv, TypeOK, FeedbackTypeOK
  <2>2. ~ Goto(c, "asking")
    BY <1>2, RequestMoves DEF Goto, At, Places
  <2> QED
    BY <1>1, <2>1, <2>2 DEF Rate, Fault
<1>4. x.action \in Action /\ x.approval \in BOOLEAN
  BY <1>2, <1>3, EvaluatedActions
<1>5. PICK decision \in DecisionObject :
        Makes(c, decision) /\ decision.action = x.action /\ (decision.approval <=> x.approval)
  <2>1. TypeOK /\ RequestInv
    BY DEF Inv
  <2>2. ASSUME NEW action \in Action, NEW fast \in BOOLEAN, NEW approval \in BOOLEAN,
               Decide(c, action, fast, approval)
        PROVE  \E decision \in DecisionObject :
                 Makes(c, decision) /\ decision.action = action /\ (decision.approval <=> approval)
    BY <1>2, <2>1, <2>2, DecideMakesDecision
  <2> QED
    BY <1>3, <1>4, <2>2
<1>6. Head(request'[c].decision) = decision
  BY <1>2, <1>5, RequestIsDecided DEF Makes
<1>7. a = x.action /\ (Head(request'[c].decision).approval <=> x.approval) /\ a \in Action
  BY <1>4, <1>5, <1>6
<1>8. TypeOK /\ Evident(a)
  BY <1>7 DEF Inv, EvidenceInv
<1>9. /\ a \in DOMAIN Rates /\ Rates[a] \in Int
      /\ \A percent \in Nat : Rates[a] >= percent =>
           HasRate(a, percent) /\ (percent > 50 => Judgements(a) # {})
  BY <1>7, <1>8, RateIsOfJudgements
<1>10. /\ Rates[a] >= MinSuccessRate
       /\ ~ x.approval => Rates[a] >= ApprovalBelow
  BY <1>3, <1>7, <1>9, TakenRule
<1> QED
  BY <1>7, <1>9, <1>10 DEF MinSuccessRate, ApprovalBelow

-------------------------------------------------------------------------------
(* The theorems *)

LEMMA InvInit == Init => Inv
<1> SUFFICES ASSUME Init PROVE Inv
  OBVIOUS
<1>0. Cardinality(Anomaly) \in Nat
  BY FS_CardinalityType, FeedbackAssumption
<1>1. \A d \in Decision : row[d].outcome = "none" /\ ~ row[d].stored /\ ~ row[d].linked
  BY DEF Init, FeedbackInit
<1>2. \A ev \in Event : /\ cycle[ev].at = "none" /\ recorder[ev] = "idle"
                        /\ updater[ev] = Idle /\ ev[1] \in Decision
  BY DEF Init, FeedbackInit, NoCycle, Event
<1>3. \A c \in Caller : request[c] = NoRequest
  BY DEF Init
<1>4. NoRequest.at = "idle" /\ NoRequest \in Request /\ NoRequest.decision = <<>>
  BY RequestIsOver
<1>5. FeedbackTypeOK
  <2>1. /\ anomalies \subseteq Anomaly /\ changes \in 0 .. MaxChanges /\ faults \in 0 .. MaxFaults
        /\ topic \in Seq(Event) /\ position \in 0 .. Len(topic) /\ updating \subseteq Event
        /\ unsure \subseteq Action /\ eased \subseteq Event /\ unindexed \subseteq Decision
    BY FeedbackAssumption DEF Init, FeedbackInit
  <2>2. /\ cycle \in [Event -> Cycle] /\ recorder \in [Event -> {"idle", "due", "indexing"}]
        /\ point \in [Decision -> Remembered] /\ verdict \in [Decision -> SUBSET Outcome]
    BY <1>0 DEF Init, FeedbackInit, NoCycle, Cycle, Remembered
  <2>3. row \in [Decision -> Row] /\ playbook \in [Playbook -> Tally]
    BY DEF Init, FeedbackInit, Row, Tally, Remembered
  <2>4. resolves \in [Action -> Edge]
        /\ \A a \in Action : resolves[a].confidence = 0 /\ resolves[a].wins = 0
    BY DEF Init, FeedbackInit, Edge
  <2>5. \A ev \in Event : updater[ev].at = "idle" /\ DOMAIN updater[ev].read = {}
                          /\ ev \notin updating
    BY <1>2 DEF Idle, Init, FeedbackInit
  <2> QED
    BY <1>1, <1>2, <2>1, <2>2, <2>3, <2>4, <2>5 DEF FeedbackTypeOK
<1>6. TypeOK
  <2>1. engine \in [agent : Caller, domain : Domain]
    BY DEF Init, Caller, Domain
  <2>2. request \in [Caller -> Request] /\ made = {} /\ contended = {} /\ DOMAIN planned = {}
    BY <1>4 DEF Init
  <2> QED
    BY <1>1, <1>3, <1>4, <1>5, <2>1, <2>2 DEF TypeOK
<1>7. UpdaterInv
  BY <1>2 DEF UpdaterInv, Idle, Init, FeedbackInit
<1>8. StepsInv
  BY <1>2 DEF StepsInv, Init, FeedbackInit
<1>9. RequestInv
  <2>1. Reading = {} /\ Unmade = Decision
    BY <1>3, <1>4 DEF Reading, Unmade, Init
  <2>2. Cardinality(Reading) = 0 /\ Cardinality(Unmade) \in Nat
    BY <2>1, FS_EmptySet, FS_CardinalityType, LoopAssumption
  <2> QED
    BY <1>3, <1>4, <2>2 DEF RequestInv
<1>10. VerdictInv /\ IndexInv /\ ReliefInv
  <2>1. \A d \in Decision : point[d] = "none"
    BY DEF Init, FeedbackInit
  <2> QED
    BY <1>1, <1>2, <2>1
       DEF VerdictInv, IndexInv, ReliefInv, OutcomeIsSearchable, SuccessIsRelief
<1>11. AskerInv
  BY <1>3, <1>4 DEF AskerInv, DecidedForAsker, Reading
<1> QED
  BY <1>6, <1>7, <1>8, <1>9, <1>10, <1>11, EvidenceInit DEF Inv

LEMMA InvStep == Inv /\ [Next]_vars => Inv'
BY TypeStep, StepsStep, RequestStepInv, VerdictStep, IndexStep, ReliefStep, AskerStep,
   EvidenceStep DEF Inv

LEMMA InvAlways == Spec => []Inv
BY InvInit, InvStep, PTL DEF Spec

(* Every variable keeps its type: requests, decisions, cycles and rows are in
   the states the code knows, whatever requests fail and whenever the service
   is restarted (reasoning/engine.py:82-165, feedback/consumer.py:97-165). *)
THEOREM LoopTypes == Spec => []TypeOK
<1>1. Inv => TypeOK
  BY DEF Inv
<1> QED
  BY <1>1, InvAlways, PTL

(* No race, retry, restart or lost answer makes a search find an outcome that
   the decision's row does not have; and what is in the row is in the point,
   but for updates that returned another row, were cut off, or met a Memory API
   without its embedding model (memory/api.py:248-291, vector.py:71-73). *)
THEOREM OutcomesStaySearchable == Spec => []OutcomeIsSearchable
<1>1. Inv => OutcomeIsSearchable
  BY DEF Inv, IndexInv
<1> QED
  BY <1>1, InvAlways, PTL

(* No decision is recorded as a success unless an anomaly was cleared while a
   cycle of its plan slept, or could not be counted: however cycles of one plan
   overlap and restart, the count before is one of the same cycle
   (feedback/verifier.py:54-84, consumer.py:125-165). *)
THEOREM SuccessMeansRelief == Spec => []SuccessIsRelief
<1>1. Inv => SuccessIsRelief
  BY DEF Inv, ReliefInv
<1> QED
  BY <1>1, InvAlways, PTL

(* With any number of planners at the one engine, a decision whose request met
   no other carries the asker's name and is about its domain
   (reasoning/api.py:36-38, engine.py:96-99, 202). *)
THEOREM DecisionsAreTheAskers == Spec => []DecidedForAsker
<1>1. Inv => DecidedForAsker
  BY DEF Inv, AskerInv
<1> QED
  BY <1>1, InvAlways, PTL

(* The playbooks of an action and its edge in the graph agree on how often it
   was a success, of every action of which no update was lost and no cycle is at
   work, whatever cycles run side by side (playbook_updater.py:25-58,
   graph_updater.py:51-92). *)
THEOREM TalliesAgree == Spec => []EvidenceAgrees
<1>1. Inv => EvidenceAgrees
  <2> SUFFICES ASSUME TypeOK, EvidenceInv, NEW p \in Playbook, Recommended[p] \notin unsure,
                      Settled(Recommended[p])
               PROVE  /\ playbook[p].wins = resolves[Recommended[p]].wins
                      /\ playbook[p].losses >= resolves[Recommended[p]].losses
    BY DEF EvidenceAgrees, Inv
  <2>1. Recommended[p] \in Action /\ Evident(Recommended[p])
    BY FeedbackAssumption DEF EvidenceInv
  <2> QED
    BY <2>1, SettledEvidence, Counters
<1> QED
  BY <1>1, InvAlways, PTL

(* A rule that is taken has worked in 40 of 100 cases, and in 65 if nobody has
   to approve it, as the cycles of its action have judged, of every action of
   which no update was lost (fast_path.py:171-187, engine.py:56-68,
   playbook_updater.py:43-49). *)
THEOREM LoopLearns == Spec => LearnsFromFailure
<1>1. Inv /\ [Next]_vars =>
        \A c \in Caller : At(c, "rating") /\ At(c, "persisting")' =>
          LET decision == Head(request'[c].decision)
              a == decision.action
          IN  faults' = faults /\ a \notin unsure /\ Settled(a)
                /\ (\E p \in Playbook : Recommended[p] = a) =>
              /\ HasRate(a, MinSuccessRate)
              /\ ~ decision.approval => HasRate(a, ApprovalBelow) /\ Judgements(a) # {}
  BY LearnsStep
<1> QED
  BY <1>1, InvAlways, PTL DEF Spec, LearnsFromFailure

-------------------------------------------------------------------------------
(* The refinement *)

(* What the ledger says of a decision. *)
EntryOf(d) ==
  IF row[d].outcome # "none" THEN row[d].outcome
  ELSE IF row[d].linked THEN "linked"
  ELSE IF row[d].stored THEN "made" ELSE "none"

LedgerStep == Ledger!Next \/ UNCHANGED <<[d \in Decision |-> EntryOf(d)], verdict>>

LEMMA EntryStays ==
  ASSUME NEW d \in Decision, row'[d] = row[d]
  PROVE  EntryOf(d)' = EntryOf(d)
BY DEF EntryOf

LEMMA NothingMoves ==
  ASSUME UNCHANGED verdict, \A d \in Decision : EntryOf(d)' = EntryOf(d)
  PROVE  LedgerStep
BY DEF LedgerStep

(* One entry moves, as the ledger allows it. *)
LEMMA OneMoves ==
  ASSUME UNCHANGED verdict, NEW d \in Decision,
         \A e \in Decision \ {d} : EntryOf(e)' = EntryOf(e),
         \/ EntryOf(d) = "none" /\ EntryOf(d)' = "made"
         \/ EntryOf(d) = "made" /\ EntryOf(d)' = "linked"
         \/ EntryOf(d) = "linked" /\ EntryOf(d)' \in verdict[d]
  PROVE  LedgerStep
<1>1. [e \in Decision |-> EntryOf(e)]' = [[e \in Decision |-> EntryOf(e)] EXCEPT ![d] = EntryOf(d)']
  OBVIOUS
<1>2. [e \in Decision |-> EntryOf(e)][d] = EntryOf(d)
  OBVIOUS
<1>3. ASSUME EntryOf(d) = "none", EntryOf(d)' = "made" PROVE Ledger!Remember(d)
  BY <1>1, <1>2, <1>3 DEF Ledger!Remember, EntryOf
<1>4. ASSUME EntryOf(d) = "made", EntryOf(d)' = "linked" PROVE Ledger!Link(d)
  BY <1>1, <1>2, <1>4 DEF Ledger!Link, EntryOf
<1>5. ASSUME EntryOf(d) = "linked", EntryOf(d)' \in verdict[d] PROVE Ledger!Judge(d)
  BY <1>1, <1>2, <1>5 DEF Ledger!Judge, EntryOf
<1> QED
  BY <1>3, <1>4, <1>5 DEF LedgerStep, Ledger!Next

(* A row that is stored, linked or judged moves its entry on, or not at all. *)
LEMMA EntryMoves ==
  ASSUME NEW d \in Decision, row[d] \in Row, row[d].linked => row[d].stored,
         row[d].outcome # "none" => row[d].linked
  PROVE  /\ row'[d] = [row[d] EXCEPT !.stored = TRUE] =>
              EntryOf(d)' = EntryOf(d) \/ (EntryOf(d) = "none" /\ EntryOf(d)' = "made")
         /\ row'[d] = [row[d] EXCEPT !.linked = row[d].stored] =>
              EntryOf(d)' = EntryOf(d) \/ (EntryOf(d) = "made" /\ EntryOf(d)' = "linked")
         /\ \A o \in Outcome :
              row'[d] = [row[d] EXCEPT !.outcome = o] /\ IsOpen(d) =>
                EntryOf(d) = "linked" /\ EntryOf(d)' = o
<1>1. PICK s \in BOOLEAN, l \in BOOLEAN, o \in Remembered :
        row[d] = [stored |-> s, linked |-> l, outcome |-> o]
  BY DEF Row
<1>2. ASSUME row'[d] = [row[d] EXCEPT !.stored = TRUE]
      PROVE  EntryOf(d)' = EntryOf(d) \/ (EntryOf(d) = "none" /\ EntryOf(d)' = "made")
  <2>1. /\ row'[d].stored /\ row'[d].linked = row[d].linked
        /\ row'[d].outcome = row[d].outcome
    BY <1>1, <1>2
  <2> QED
    BY <2>1 DEF EntryOf
<1>3. ASSUME row'[d] = [row[d] EXCEPT !.linked = row[d].stored]
      PROVE  EntryOf(d)' = EntryOf(d) \/ (EntryOf(d) = "made" /\ EntryOf(d)' = "linked")
  <2>1. /\ row'[d].stored = row[d].stored /\ row'[d].linked = row[d].stored
        /\ row'[d].outcome = row[d].outcome
    BY <1>1, <1>3
  <2> QED
    BY <2>1 DEF EntryOf
<1>4. ASSUME NEW w \in Outcome, row'[d] = [row[d] EXCEPT !.outcome = w], IsOpen(d)
      PROVE  EntryOf(d) = "linked" /\ EntryOf(d)' = w
  BY <1>1, <1>4 DEF EntryOf, IsOpen, Outcome
<1> QED
  BY <1>2, <1>3, <1>4

LEMMA LedgerSteps == Inv /\ [Next]_vars => LedgerStep
<1> SUFFICES ASSUME Inv, [Next]_vars PROVE LedgerStep
  OBVIOUS
<1>a. /\ row \in [Decision -> Row] /\ verdict \in [Decision -> SUBSET Outcome]
      /\ \A d \in Decision : /\ row[d].linked => row[d].stored
                             /\ row[d].outcome # "none" => row[d].linked
      /\ \A ev \in Event : ev[1] \in Decision
      /\ \A ev \in Event : recorder[ev] # "idle" => cycle[ev].at = "gathering"
  BY DEF Inv, TypeOK, FeedbackTypeOK, Event
<1>b. ASSUME UNCHANGED <<row, verdict>> PROVE LedgerStep
  BY <1>b, EntryStays, NothingMoves
<1>1. CASE FeedbackNext /\ UNCHANGED loopVars
  <2>1. ASSUME NEW ev \in Event, recorder[ev] = "due", IsOpen(ev[1]), UNCHANGED verdict,
               row' = [row EXCEPT ![ev[1]].outcome = cycle[ev].outcome]
        PROVE  LedgerStep
    <3> DEFINE d == ev[1]
               o == cycle[ev].outcome
    <3>1. d \in Decision /\ o \in verdict[d] /\ o \in Outcome
      BY <1>a, <2>1 DEF Inv, VerdictInv
    <3>2. row'[d] = [row[d] EXCEPT !.outcome = o] /\ \A e \in Decision \ {d} : row'[e] = row[e]
      BY <1>a, <2>1, <3>1
    <3>3. IsOpen(d)
      BY <2>1
    <3> HIDE DEF d, o
    <3>4. EntryOf(d) = "linked" /\ EntryOf(d)' = o
      BY <1>a, <3>1, <3>2, <3>3, EntryMoves
    <3> QED
      BY <2>1, <3>1, <3>2, <3>4, EntryStays, OneMoves
  <2>2. ASSUME NEW ev \in Event, CountAfter(ev) PROVE LedgerStep
    <3>1. /\ UNCHANGED row /\ ev[1] \in Decision
          /\ \E o \in Outcome : verdict' = [verdict EXCEPT ![ev[1]] = @ \cup {o}]
      BY <1>a, <2>2, CycleChanges DEF CountAfter, storeVars, Inv, Verdict, Outcome
    <3> QED
      BY <3>1 DEF LedgerStep, Ledger!Next, Ledger!Verdict
  <2>3. CASE UNCHANGED <<row, verdict>>
    BY <2>3, <1>b
  <2>4. ASSUME ~ \E ev \in Event : CountAfter(ev) PROVE UNCHANGED verdict
    BY <1>1, <2>4, FeedbackCycles DEF Take, CountBefore, Gather, Restart
  <2> QED
    BY <1>1, <2>1, <2>2, <2>3, <2>4, FeedbackRows
<1>2. CASE (\E p \in Planner : Ask(p)) \/ NextCycle
  BY <1>2, <1>b, AskCycles DEF feedbackVars, stateVars, storeVars
<1>3. ASSUME NEW c \in Caller, RequestStep(c) \/ GenerateFails(c) PROVE LedgerStep
  <2>1. UNCHANGED verdict
    BY <1>3, LoopCycles
  <2>2. ASSUME NEW d \in Decision, \A e \in Decision \ {d} : row'[e] = row[e],
               \/ row'[d] = [row[d] EXCEPT !.stored = TRUE]
               \/ row'[d] = [row[d] EXCEPT !.linked = row[d].stored]
        PROVE  LedgerStep
    <3>1. \A e \in Decision \ {d} : EntryOf(e)' = EntryOf(e)
      BY <2>2, EntryStays
    <3>2. \/ EntryOf(d)' = EntryOf(d)
          \/ EntryOf(d) = "none" /\ EntryOf(d)' = "made"
          \/ EntryOf(d) = "made" /\ EntryOf(d)' = "linked"
      BY <1>a, <2>2, EntryMoves
    <3> QED
      BY <2>1, <3>1, <3>2, NothingMoves, OneMoves
  <2> QED
    BY <1>3, <1>b, <2>1, <2>2, LoopRows DEF Inv
<1>4. ASSUME NEW d \in Decision, StepEnds(d) PROVE LedgerStep
  BY <1>4, <1>b DEF StepEnds, storeVars
<1>5. CASE UNCHANGED vars
  BY <1>5, <1>b DEF vars, feedbackVars, stateVars, storeVars
<1> QED
  BY <1>1, <1>2, <1>3, <1>4, <1>5 DEF Next

LEMMA LedgerInit == Init => Ledger!Init
BY DEF Init, FeedbackInit, Ledger!Init

(* Whatever cycles overlap, fail or are lost, each decision is remembered,
   linked and judged in this order, and judged once, by a verdict on its plan:
   the learning loop implements the ledger (memory/api.py:248-291,
   planning/api.py:39-62, feedback/recorder.py:22-59). *)
THEOREM LedgerIsKept == Spec => LedgerKept
<1>1. Inv /\ [Next]_vars =>
        [Ledger!Next]_<<[d \in Decision |-> IF row[d].outcome # "none" THEN row[d].outcome
                                            ELSE IF row[d].linked THEN "linked"
                                            ELSE IF row[d].stored THEN "made" ELSE "none"],
                        verdict>>
  BY LedgerSteps DEF LedgerStep, EntryOf
<1> QED
  BY <1>1, LedgerInit, InvAlways, PTL DEF Spec, LedgerKept, Ledger!Spec

-------------------------------------------------------------------------------
(* A cycle always has something to do, and less to do after each of its steps. *)

(* An updater that writes has playbooks left to write. *)
PatchingInv ==
  \A ev \in Event : updater[ev].at = "patching" => DOMAIN updater[ev].read # {}

LEMMA PatchingStep == TypeOK /\ UpdaterInv /\ PatchingInv /\ [Next]_vars => PatchingInv'
<1> SUFFICES ASSUME TypeOK, UpdaterInv, PatchingInv, [Next]_vars,
                    NEW e \in Event, updater'[e].at = "patching"
             PROVE  DOMAIN updater'[e].read # {}
  BY DEF PatchingInv
<1>a. DOMAIN updater = Event /\ Idle.at = "idle" /\ [Idle EXCEPT !.at = "due"].at = "due"
  BY DEF UpdaterInv, Idle
<1>b. ASSUME UNCHANGED updater PROVE DOMAIN updater'[e].read # {}
  BY <1>b DEF PatchingInv
<1>c. ASSUME NEW ev \in Event, NEW u, updater' = [updater EXCEPT ![ev] = u],
             u.at = "patching" => DOMAIN u.read # {}
      PROVE  DOMAIN updater'[e].read # {}
  BY <1>a, <1>c DEF PatchingInv
<1>1. CASE FeedbackNext /\ UNCHANGED loopVars
  <2>1. ASSUME NEW ev \in Event, CountAfter(ev) PROVE DOMAIN updater'[e].read # {}
    BY <1>a, <1>c, <2>1 DEF CountAfter
  <2>2. ASSUME NEW ev \in Event, ReadPlaybooks(ev) PROVE DOMAIN updater'[e].read # {}
    <3> DEFINE found == {p \in Playbook : Recommended[p] = ev[2]}
               u == IF found = {} THEN Idle
                    ELSE [at |-> "patching", read |-> [p \in found |-> playbook[p]]]
    <3>1. updater' = [updater EXCEPT ![ev] = u]
      BY <2>2 DEF ReadPlaybooks
    <3>2. u.at = "patching" => DOMAIN u.read # {}
      BY <1>a
    <3> QED
      BY <1>c, <3>1, <3>2
  <2>3. ASSUME NEW ev \in Event, NEW p \in Playbook, PatchPlaybook(ev, p)
        PROVE  DOMAIN updater'[e].read # {}
    <3> DEFINE read == updater[ev].read
               left == DOMAIN read \ {p}
               u == IF left = {} THEN Idle
                    ELSE [at |-> "patching", read |-> [q \in left |-> read[q]]]
    <3>1. updater' = [updater EXCEPT ![ev] = u]
      BY <2>3 DEF PatchPlaybook
    <3>2. u.at = "patching" => DOMAIN u.read # {}
      BY <1>a
    <3> QED
      BY <1>c, <3>1, <3>2
  <2>4. ASSUME NEW ev \in Event, UpdaterFails(ev) PROVE DOMAIN updater'[e].read # {}
    BY <1>a, <1>c, <2>4 DEF UpdaterFails
  <2>5. ASSUME NEW offset \in 0 .. Len(topic), Restart(offset) PROVE FALSE
    BY <1>a, <2>5 DEF Restart
  <2>6. ASSUME NEW ev \in Event, CountBefore(ev) \/ Gather(ev) \/ Record(ev) \/ Index(ev) \/ UpdateGraph(ev)
                                 \/ RecorderFails(ev) \/ GraphFails(ev)
        PROVE  DOMAIN updater'[e].read # {}
    BY <1>b, <2>6 DEF CountBefore, Gather, Record, Index, UpdateGraph, RecorderFails, GraphFails,
                      gatherVars
  <2>7. ASSUME Take \/ \E x \in Anomaly : Opens(x) \/ Clears(x)
        PROVE  DOMAIN updater'[e].read # {}
    BY <1>b, <2>7 DEF Take, Opens, Clears, gatherVars
  <2> QED
    BY <1>1, <2>1, <2>2, <2>3, <2>4, <2>5, <2>6, <2>7 DEF FeedbackNext, CycleStep, CycleFails
<1>2. CASE (\E p \in Planner : Ask(p)) \/ NextCycle
  BY <1>2, <1>b, AskCycles DEF feedbackVars, stateVars, gatherVars
<1>3. ASSUME NEW c \in Caller, RequestStep(c) \/ GenerateFails(c)
      PROVE  DOMAIN updater'[e].read # {}
  BY <1>3, <1>b, LoopCycles DEF gatherVars
<1>4. ASSUME NEW d \in Decision, StepEnds(d) PROVE DOMAIN updater'[e].read # {}
  BY <1>4, <1>b DEF StepEnds, gatherVars
<1>5. CASE UNCHANGED vars
  BY <1>5, <1>b DEF vars, feedbackVars, stateVars, gatherVars
<1> QED
  BY <1>1, <1>2, <1>3, <1>4, <1>5 DEF Next

LEMMA PatchingAlways == Spec => []PatchingInv
<1>1. Init => PatchingInv
  BY DEF Init, FeedbackInit, Idle, PatchingInv
<1>2. Inv => TypeOK /\ UpdaterInv
  BY DEF Inv
<1> QED
  BY <1>1, <1>2, PatchingStep, InvAlways, PTL DEF Spec

(* What a cycle waits for: a count, which the World Model gives or refuses, the
   end of its sleep, its three parts, of which one has a request to make, or
   nothing more. *)
HasWork(ev) ==
  \/ /\ cycle[ev].at \in {"counting", "sleeping"}
     /\ Cardinality(anomalies) \in 0 .. Cardinality(Anomaly)
  \/ /\ cycle[ev].at = "gathering"
     /\ \/ Gathered(ev)
        \/ recorder[ev] \in {"due", "indexing"}
        \/ updater[ev].at = "due"
        \/ updater[ev].at = "patching"
             /\ \E p \in Playbook : p \in DOMAIN updater[ev].read
        \/ ev \in updating

(* No cycle under way waits for something that never comes, whichever of its
   parts have failed and however often the service was restarted: some step of
   it is due (feedback/consumer.py:113, 151-163). *)
THEOREM CyclesHaveWork == Spec => [](\A ev \in Live : HasWork(ev))
<1>1. ASSUME TypeOK, PatchingInv, NEW ev \in Live PROVE HasWork(ev)
  <2>1. ev \in Event /\ cycle[ev].at \in {"counting", "sleeping", "gathering"}
    BY DEF Live
  <2>2. Cardinality(anomalies) \in 0 .. Cardinality(Anomaly)
    BY <1>1, FeedbackAssumption, FS_Subset, FS_CardinalityType DEF TypeOK, FeedbackTypeOK
  <2>3. /\ recorder[ev] \in {"idle", "due", "indexing"}
        /\ updater[ev].at \in {"idle", "due", "patching"}
        /\ \A p \in DOMAIN updater[ev].read : p \in Playbook
    BY <1>1, <2>1 DEF TypeOK, FeedbackTypeOK
  <2>4. updater[ev].at = "patching" => \E p \in Playbook : p \in DOMAIN updater[ev].read
    BY <1>1, <2>1, <2>3 DEF PatchingInv
  <2> QED
    BY <2>1, <2>2, <2>3, <2>4 DEF HasWork, Gathered
<1>2. Inv => TypeOK
  BY DEF Inv
<1>3. TypeOK /\ PatchingInv => \A ev \in Live : HasWork(ev)
  BY <1>1
<1> QED
  BY <1>2, <1>3, InvAlways, PatchingAlways, PTL

(* How many steps a cycle has left at most. *)
RecorderLeft(ev) == CASE recorder[ev] = "due"      -> 2
                      [] recorder[ev] = "indexing" -> 1
                      [] recorder[ev] = "idle"     -> 0

UpdaterLeft(ev) == CASE updater[ev].at = "due"      -> 1 + Cardinality(Playbook)
                     [] updater[ev].at = "patching" -> Cardinality(DOMAIN updater[ev].read)
                     [] updater[ev].at = "idle"     -> 0

GraphLeft(ev) == IF ev \in updating THEN 1 ELSE 0

StepsLeft(ev) ==
  CASE cycle[ev].at = "counting"               -> 7 + Cardinality(Playbook)
    [] cycle[ev].at = "sleeping"               -> 6 + Cardinality(Playbook)
    [] cycle[ev].at = "gathering"              -> 1 + RecorderLeft(ev) + UpdaterLeft(ev)
                                                    + GraphLeft(ev)
    [] cycle[ev].at \in {"none", "done", "lost"} -> 0

LEMMA StepsLeftTypes ==
  ASSUME IsFiniteSet(Playbook), TypeOK, NEW ev \in Event
  PROVE  /\ Cardinality(Playbook) \in Nat
         /\ RecorderLeft(ev) \in 0 .. 2
         /\ UpdaterLeft(ev) \in 0 .. 1 + Cardinality(Playbook)
         /\ GraphLeft(ev) \in 0 .. 1
         /\ StepsLeft(ev) \in Nat
         /\ IsFiniteSet(DOMAIN updater[ev].read)
         /\ Cardinality(DOMAIN updater[ev].read) \in 0 .. Cardinality(Playbook)
<1>1. /\ cycle[ev].at \in {"none", "counting", "sleeping", "gathering", "done", "lost"}
      /\ recorder[ev] \in {"idle", "due", "indexing"}
      /\ updater[ev].at \in {"idle", "due", "patching"}
      /\ DOMAIN updater[ev].read \in SUBSET Playbook
  BY DEF TypeOK, FeedbackTypeOK, Cycle
<1>2. Cardinality(Playbook) \in Nat
  BY FS_CardinalityType
<1>3. /\ IsFiniteSet(DOMAIN updater[ev].read)
      /\ Cardinality(DOMAIN updater[ev].read) \in Nat
      /\ Cardinality(DOMAIN updater[ev].read) <= Cardinality(Playbook)
  BY <1>1, FS_Subset, FS_CardinalityType
<1>4. RecorderLeft(ev) \in 0 .. 2 /\ GraphLeft(ev) \in 0 .. 1
  BY <1>1 DEF RecorderLeft, GraphLeft
<1>5. UpdaterLeft(ev) \in 0 .. 1 + Cardinality(Playbook)
  BY <1>1, <1>2, <1>3 DEF UpdaterLeft
<1>6. StepsLeft(ev) \in Nat
  BY <1>1, <1>2, <1>4, <1>5 DEF StepsLeft
<1> QED
  BY <1>2, <1>3, <1>4, <1>5, <1>6

LeftTyped(ev) ==
  /\ RecorderLeft(ev) \in 0 .. 2
  /\ UpdaterLeft(ev) \in 0 .. 1 + Cardinality(Playbook)
  /\ GraphLeft(ev) \in 0 .. 1
  /\ Cardinality(Playbook) \in Nat

LEMMA StepsLeftAfter ==
  ASSUME IsFiniteSet(Playbook)
  PROVE  TypeOK' => (\A ev \in Event : LeftTyped(ev))'
<1>1. TypeOK => \A ev \in Event : LeftTyped(ev)
  BY StepsLeftTypes DEF LeftTyped
<1> QED
  BY <1>1, PTL

(* A part whose cycle gathers has come nearer to its end. *)
LEMMA PartGoesOn ==
  ASSUME IsFiniteSet(Playbook), TypeOK, TypeOK', NEW ev \in Event,
         cycle[ev].at = "gathering", cycle' = cycle,
         RecorderLeft(ev)' + UpdaterLeft(ev)' + GraphLeft(ev)'
           < RecorderLeft(ev) + UpdaterLeft(ev) + GraphLeft(ev)
  PROVE  StepsLeft(ev)' < StepsLeft(ev)
<1>1. /\ RecorderLeft(ev) \in Int /\ UpdaterLeft(ev) \in Int /\ GraphLeft(ev) \in Int
  BY StepsLeftTypes
<1>2. /\ RecorderLeft(ev)' \in Int /\ UpdaterLeft(ev)' \in Int /\ GraphLeft(ev)' \in Int
  BY StepsLeftAfter DEF LeftTyped
<1>3. StepsLeft(ev) = 1 + RecorderLeft(ev) + UpdaterLeft(ev) + GraphLeft(ev)
  BY DEF StepsLeft
<1>4. StepsLeft(ev)' = 1 + RecorderLeft(ev)' + UpdaterLeft(ev)' + GraphLeft(ev)'
  BY DEF StepsLeft
<1> QED
  BY <1>1, <1>2, <1>3, <1>4

LEMMA FewerStepsLeft ==
  ASSUME IsFiniteSet(Playbook), TypeOK, TypeOK', UpdaterInv, PatchingInv,
         NEW ev \in Event, CycleStep(ev) \/ CycleFails(ev)
  PROVE  StepsLeft(ev)' < StepsLeft(ev)
<1> DEFINE n == Cardinality(Playbook)
           read == updater[ev].read
<1>a. /\ n \in Nat
      /\ RecorderLeft(ev) \in 0 .. 2 /\ UpdaterLeft(ev) \in 0 .. 1 + n
      /\ GraphLeft(ev) \in 0 .. 1 /\ StepsLeft(ev) \in Nat
      /\ IsFiniteSet(DOMAIN read) /\ Cardinality(DOMAIN read) \in 0 .. n
  BY StepsLeftTypes
<1>b. /\ RecorderLeft(ev)' \in 0 .. 2 /\ UpdaterLeft(ev)' \in 0 .. 1 + n
      /\ GraphLeft(ev)' \in 0 .. 1
  BY StepsLeftAfter DEF LeftTyped
<1>c. /\ cycle \in [Event -> Cycle] /\ DOMAIN updater = Event
      /\ recorder \in [Event -> {"idle", "due", "indexing"}]
      /\ DOMAIN read \subseteq Playbook
      /\ recorder[ev] # "idle" \/ updater[ev].at # "idle" \/ ev \in updating
           => cycle[ev].at = "gathering"
      /\ updater[ev].at \in {"idle", "due", "patching"}
  BY DEF TypeOK, FeedbackTypeOK, UpdaterInv
<1>d. Idle.at = "idle"
  BY DEF Idle
<1>1. CASE CountBefore(ev)
  <2>1. cycle[ev].at = "counting" /\ cycle'[ev].at = "sleeping"
    BY <1>1, <1>c DEF CountBefore, Cycle
  <2> QED
    BY <2>1, <1>a DEF StepsLeft
<1>2. CASE CountAfter(ev)
  <2>1. cycle[ev].at = "sleeping" /\ cycle'[ev].at = "gathering"
    BY <1>2, <1>c DEF CountAfter, Cycle
  <2>2. StepsLeft(ev) = 6 + n
    BY <2>1 DEF StepsLeft
  <2>3. StepsLeft(ev)' = 1 + RecorderLeft(ev)' + UpdaterLeft(ev)' + GraphLeft(ev)'
    BY <2>1 DEF StepsLeft
  <2> QED
    BY <2>2, <2>3, <1>a, <1>b
<1>3. CASE Gather(ev)
  <2>1. cycle[ev].at = "gathering" /\ cycle'[ev].at = "done"
    BY <1>3, <1>c DEF Gather, Cycle
  <2>2. StepsLeft(ev) = 1 + RecorderLeft(ev) + UpdaterLeft(ev) + GraphLeft(ev)
    BY <2>1 DEF StepsLeft
  <2>3. StepsLeft(ev)' = 0
    BY <2>1 DEF StepsLeft
  <2> QED
    BY <2>2, <2>3, <1>a
<1>4. ASSUME Record(ev) \/ Index(ev) \/ RecorderFails(ev)
      PROVE  StepsLeft(ev)' < StepsLeft(ev)
  <2>1. cycle' = cycle /\ cycle[ev].at = "gathering" /\ UNCHANGED <<updater, updating>>
    BY <1>4, <1>c DEF Record, Index, RecorderFails, cycleVars
  <2>2. \/ recorder[ev] = "due" /\ recorder'[ev] \in {"idle", "indexing"}
        \/ recorder[ev] = "indexing" /\ recorder'[ev] = "idle"
    BY <1>4, <1>c DEF Record, Index, RecorderFails
  <2>3. RecorderLeft(ev)' < RecorderLeft(ev)
    BY <2>2 DEF RecorderLeft
  <2>4. UpdaterLeft(ev)' = UpdaterLeft(ev) /\ GraphLeft(ev)' = GraphLeft(ev)
    BY <2>1 DEF UpdaterLeft, GraphLeft
  <2> QED
    BY <2>1, <2>3, <2>4, <1>a, <1>b, PartGoesOn
<1>5. ASSUME cycle' = cycle, cycle[ev].at = "gathering", UNCHANGED <<recorder, updating>>,
             UpdaterLeft(ev)' < UpdaterLeft(ev)
      PROVE  StepsLeft(ev)' < StepsLeft(ev)
  <2>1. RecorderLeft(ev)' = RecorderLeft(ev) /\ GraphLeft(ev)' = GraphLeft(ev)
    BY <1>5 DEF RecorderLeft, GraphLeft
  <2> QED
    BY <1>5, <2>1, <1>a, <1>b, PartGoesOn
<1>6. CASE ReadPlaybooks(ev)
  <2> DEFINE found == {p \in Playbook : Recommended[p] = ev[2]}
  <2>1. /\ cycle' = cycle /\ cycle[ev].at = "gathering" /\ UNCHANGED <<recorder, updating>>
        /\ updater[ev].at = "due"
        /\ updater'[ev] = IF found = {} THEN Idle
                          ELSE [at |-> "patching", read |-> [p \in found |-> playbook[p]]]
    BY <1>6, <1>c DEF ReadPlaybooks, cycleVars
  <2>2. Cardinality(found) \in Nat /\ Cardinality(found) <= n
    BY FS_Subset, FS_CardinalityType
  <2>3. UpdaterLeft(ev) = 1 + n
    BY <2>1 DEF UpdaterLeft
  <2>4. UpdaterLeft(ev)' = IF found = {} THEN 0 ELSE Cardinality(found)
    BY <2>1, <1>d DEF UpdaterLeft
  <2> QED
    BY <1>5, <2>1, <2>2, <2>3, <2>4, <1>a
<1>7. ASSUME NEW p \in Playbook, PatchPlaybook(ev, p) PROVE StepsLeft(ev)' < StepsLeft(ev)
  <2> DEFINE left == DOMAIN read \ {p}
  <2>1. /\ cycle' = cycle /\ cycle[ev].at = "gathering" /\ UNCHANGED <<recorder, updating>>
        /\ updater[ev].at = "patching" /\ p \in DOMAIN read
        /\ updater'[ev] = IF left = {} THEN Idle
                          ELSE [at |-> "patching", read |-> [q \in left |-> read[q]]]
    BY <1>7, <1>c DEF PatchPlaybook, cycleVars
  <2>2. Cardinality(left) = Cardinality(DOMAIN read) - 1 /\ Cardinality(left) \in Nat
    BY <1>a, <2>1, FS_RemoveElement, FS_CardinalityType
  <2>3. UpdaterLeft(ev) = Cardinality(DOMAIN read)
    BY <2>1 DEF UpdaterLeft
  <2>4. UpdaterLeft(ev)' = IF left = {} THEN 0 ELSE Cardinality(left)
    BY <2>1, <1>d DEF UpdaterLeft
  <2> QED
    BY <1>5, <2>1, <2>2, <2>3, <2>4, <1>a
<1>8. CASE UpdaterFails(ev)
  <2>1. /\ cycle' = cycle /\ cycle[ev].at = "gathering" /\ UNCHANGED <<recorder, updating>>
        /\ updater[ev].at \in {"due", "patching"} /\ updater'[ev].at = "idle"
    BY <1>8, <1>c, <1>d DEF UpdaterFails, cycleVars
  <2>2. UpdaterLeft(ev)' = 0
    BY <2>1 DEF UpdaterLeft
  <2>3. updater[ev].at = "patching" => Cardinality(DOMAIN read) # 0
    BY <1>a, FS_EmptySet DEF PatchingInv
  <2>4. UpdaterLeft(ev) # 0
    BY <2>1, <2>3, <1>a DEF UpdaterLeft
  <2> QED
    BY <1>5, <2>1, <2>2, <2>4, <1>a
<1>9. ASSUME UpdateGraph(ev) \/ GraphFails(ev) PROVE StepsLeft(ev)' < StepsLeft(ev)
  <2>1. /\ cycle' = cycle /\ cycle[ev].at = "gathering" /\ UNCHANGED <<recorder, updater>>
        /\ ev \in updating /\ ev \notin updating'
    BY <1>9, <1>c DEF UpdateGraph, GraphFails, cycleVars
  <2>2. GraphLeft(ev)' < GraphLeft(ev)
    BY <2>1 DEF GraphLeft
  <2>3. RecorderLeft(ev)' = RecorderLeft(ev) /\ UpdaterLeft(ev)' = UpdaterLeft(ev)
    BY <2>1 DEF RecorderLeft, UpdaterLeft
  <2> QED
    BY <2>1, <2>2, <2>3, <1>a, <1>b, PartGoesOn
<1> QED
  BY <1>1, <1>2, <1>3, <1>4, <1>6, <1>7, <1>8, <1>9 DEF CycleStep, CycleFails

(* Every step of a cycle, and every failure in one, brings it nearer to its end,
   which it reaches after as many steps as there are playbooks and seven more
   (feedback/consumer.py:125-165, playbook_updater.py:37-67). *)
CyclesComeNearer ==
  [][\A ev \in Event : CycleStep(ev) \/ CycleFails(ev) =>
       StepsLeft(ev) \in 1 .. 7 + Cardinality(Playbook) /\ StepsLeft(ev)' < StepsLeft(ev)]_vars

(* With finitely many playbooks, the steps left of a cycle are a number that
   each step of it and each failure makes smaller (feedback/consumer.py:125-165). *)
THEOREM CyclesAreShort ==
  ASSUME IsFiniteSet(Playbook)
  PROVE  Spec => CyclesComeNearer
<1>1. ASSUME Inv, Inv', PatchingInv, NEW ev \in Event, CycleStep(ev) \/ CycleFails(ev)
      PROVE  StepsLeft(ev) \in 1 .. 7 + Cardinality(Playbook) /\ StepsLeft(ev)' < StepsLeft(ev)
  <2>1. TypeOK /\ UpdaterInv /\ TypeOK'
    BY <1>1 DEF Inv
  <2>2. StepsLeft(ev)' < StepsLeft(ev)
    BY <1>1, <2>1, FewerStepsLeft
  <2>3. /\ StepsLeft(ev) \in Nat /\ Cardinality(Playbook) \in Nat
        /\ RecorderLeft(ev) \in 0 .. 2 /\ UpdaterLeft(ev) \in 0 .. 1 + Cardinality(Playbook)
        /\ GraphLeft(ev) \in 0 .. 1
    BY <2>1, StepsLeftTypes
  <2>4. /\ cycle[ev].at \in {"none", "counting", "sleeping", "gathering", "done", "lost"}
        /\ cycle'[ev].at \in {"none", "counting", "sleeping", "gathering", "done", "lost"}
    BY <2>1 DEF TypeOK, FeedbackTypeOK, Cycle
  <2>5. StepsLeft(ev) <= 7 + Cardinality(Playbook)
    BY <2>4, <2>3 DEF StepsLeft
  <2>6. /\ RecorderLeft(ev)' \in 0 .. 2 /\ UpdaterLeft(ev)' \in 0 .. 1 + Cardinality(Playbook)
        /\ GraphLeft(ev)' \in 0 .. 1
    BY <2>1, StepsLeftAfter DEF LeftTyped
  <2>7. StepsLeft(ev)' \in Nat
    BY <2>4, <2>3, <2>6 DEF StepsLeft
  <2> QED
    BY <2>2, <2>3, <2>5, <2>7
<1>2. Inv /\ Inv' /\ PatchingInv =>
        \A ev \in Event : CycleStep(ev) \/ CycleFails(ev) =>
          StepsLeft(ev) \in 1 .. 7 + Cardinality(Playbook) /\ StepsLeft(ev)' < StepsLeft(ev)
  BY <1>1
<1> QED
  BY <1>2, InvAlways, PatchingAlways, PTL DEF CyclesComeNearer
================================================================================
