------------------------------- MODULE LearningLoop -------------------------------
(***************************************************************************)
(* The reasoning engine (reasoning/engine.py, api.py) and the planners     *)
(* that call it (agents/planner_agent.py), closed to a loop with Feedback: *)
(* anomalies lead to decisions, decisions to plans, the steps of plans to  *)
(* feedback, and feedback to the rates by which the rules of the fast path *)
(* are trusted in the next decision.                                       *)
(*                                                                         *)
(* The service has one engine.  Its agent_id and domain are set by every   *)
(* request of a planner, and are read again after each await.              *)
(***************************************************************************)
EXTENDS Feedback, FastPath, SequencesExt, FiniteSetsExt

CONSTANTS Planner,   \* planner agents
          DomainOf,  \* the domain of each of them
          Keyword,   \* <<domain, anomaly>>: the type has a keyword of the domain,
                     \* or the domain is the general one
          StepsOf,   \* the actions of the steps of the plan for each action, none
                     \* of them twice (plan_templates.yaml)
          Advice,    \* the actions the LLM may recommend
          Gated,     \* the actions that require approval (actions.yaml)
          MaxSteps   \* bound on the steps that end

Loop == "run_loop"

Caller == Planner \cup {Loop}

General == "general"

Domain == {DomainOf[p] : p \in Planner} \cup {General}

ASSUME LoopAssumption ==
  /\ Loop \notin Planner /\ IsFiniteSet(Planner) /\ IsFiniteSet(Decision)
  /\ \A x \in Anomaly : x.severity \in Severities /\ x.isolated \in BOOLEAN
  /\ Keyword \subseteq Domain \X Anomaly
  /\ \A x \in Anomaly : <<General, x>> \in Keyword
  /\ \A x \in Anomaly : \A r \in Matching(<<x>>) : r.action \in Action
  /\ Advice \subseteq Action \/ "escalate_to_human" \in Action
  /\ StepsOf \in [Action -> Seq(Action)]
  /\ \A a \in Action : \A i, j \in DOMAIN StepsOf[a] : StepsOf[a][i] = StepsOf[a][j] => i = j
  /\ Gated \subseteq Action /\ MaxSteps \in Nat

Attempts == 3

VARIABLES
  engine,    \* the engine's agent_id and domain
  request,   \* what each caller's request is at
  made,      \* the decisions made
  planned,   \* steps of the plan that are still to come
  contended  \* callers whose request met the attributes of another (history)

loopVars == <<engine, request, made, planned, contended>>

vars == <<feedbackVars, loopVars>>

(* A DecisionObject, with the id of its record and the agent_id in it. *)
DecisionObject == [id : Decision, agent : Caller, about : SUBSET Anomaly, action : Action,
                   fast : BOOLEAN, approval : BOOLEAN, contended : BOOLEAN]

Request == [at : {"idle", "fetching", "rating", "asking", "persisting", "planning"},
            situation : Seq(Anomaly), attempt : 0..Attempts, decision : Seq(DecisionObject)]

NoRequest == [at |-> "idle", situation |-> <<>>, attempt |-> 0, decision |-> <<>>]

TypeOK ==
  /\ FeedbackTypeOK
  /\ engine \in [agent : Caller, domain : Domain]
  /\ request \in [Caller -> Request]
  /\ \A c \in Caller :
       /\ request[c].decision # <<>> <=> request[c].at \in {"persisting", "planning"}
       /\ \A i \in DOMAIN request[c].decision : request[c].decision[i].id \in made
  /\ made \subseteq Decision
  /\ \A d \in Decision : row[d].stored => d \in made
  /\ \A d \in DOMAIN planned : d \in made /\ planned[d] \in Seq(Action)
  /\ contended \subseteq Caller

Init ==
  /\ FeedbackInit
  /\ engine = [agent |-> Loop, domain |-> General]
  /\ request = [c \in Caller |-> NoRequest]
  /\ made = {} /\ planned = << >>
  /\ contended = {}

-------------------------------------------------------------------------------
(* A request to the engine, await by await *)

At(c, place) == request[c].at = place

Goto(c, place) ==
  /\ request' = [request EXCEPT ![c].at = place]
  /\ UNCHANGED contended

Over(c) ==
  /\ request' = [request EXCEPT ![c] = NoRequest]
  /\ contended' = contended \ {c}

Unmade == Decision \ made

(* Callers whose request is under way and reads the engine once more. *)
Reading == {c \in Caller : request[c].at \in {"fetching", "rating", "asking"}}

(* The bound on decisions leaves one for another request. *)
Spare == Cardinality(Reading) < Cardinality(Unmade)

(* Mutant: the body is read for the agent only. *)
AttributesKeepingDomain(p) ==
  /\ engine' = [agent |-> p, domain |-> General]
  /\ contended' = (contended \cup Reading) \ {p}

(* /reasoning/reason: the attributes are set, whoever else is using them. *)
Attributes(p) ==
  /\ engine' = [agent |-> p, domain |-> DomainOf[p]]
  /\ contended' = (contended \cup Reading) \ {p}

(* A planner has heard of a situation with an anomaly of its domain. *)
Ask(p) ==
  /\ At(p, "idle") /\ Spare
  /\ \E x \in Anomaly : <<DomainOf[p], x>> \in Keyword
  /\ Attributes(p)
  /\ request' = [request EXCEPT ![p].at = "fetching"]
  /\ UNCHANGED <<feedbackVars, made, planned>>

(* run_loop: the next cycle, with the attributes the last planner has left. *)
NextCycle ==
  /\ At(Loop, "idle") /\ Spare
  /\ request' = [request EXCEPT ![Loop].at = "fetching"]
  /\ contended' = IF engine.agent = Loop THEN contended \ {Loop} ELSE contended \cup {Loop}
  /\ UNCHANGED <<feedbackVars, engine, made, planned>>

IsDomainRelevant(x) == engine.domain = General \/ <<engine.domain, x>> \in Keyword

IsSignificant(x) == x.severity \in {"critical", "high", "medium"}

(* The situation comes, and is filtered by the domain of now.  Or it does not
   come, and there is nothing to reason about. *)
Fetch(c) ==
  /\ At(c, "fetching")
  /\ LET relevant == {x \in anomalies : IsDomainRelevant(x)}
     IN  \/ /\ \E x \in relevant : IsSignificant(x)
            /\ \E ranked \in SetToSeqs(relevant) :
                 request' = [request EXCEPT ![c].at = "rating", ![c].situation = ranked]
            /\ UNCHANGED <<faults, contended>>
         \/ /\ ~\E x \in relevant : IsSignificant(x)
            /\ Over(c)
            /\ UNCHANGED faults
         \/ Fault /\ Over(c)
  /\ UNCHANGED <<stateVars, engine, made, planned>>

(* success_rate of a playbook, 0.5 before its first outcome. *)
SuccessRate(p) ==
  LET total == playbook[p].wins + playbook[p].losses
  IN  IF total = 0 THEN 50 ELSE (100 * playbook[p].wins) \div total

(* The playbooks come ordered by rate, the best first, into a dict: for an
   action with several the worst stands. *)
Rates ==
  [a \in {Recommended[p] : p \in Playbook} |->
     Min({SuccessRate(p) : p \in {p \in Playbook : Recommended[p] = a}})]

(* The decision, with the agent_id of now, is on its way to episodic memory. *)
Decide(c, action, fast, approval) ==
  LET d == CHOOSE d \in Unmade : TRUE
      decision == [id |-> d, agent |-> engine.agent, about |-> ToSet(request[c].situation),
                   action |-> action, fast |-> fast, approval |-> approval,
                   contended |-> c \in contended]
  IN  /\ made' = made \cup {d}
      /\ request' = [request EXCEPT ![c] = [NoRequest EXCEPT !.at = "persisting",
                                                             !.decision = <<decision>>]]
      /\ contended' = contended \ {c}

(* The rates have come, or an empty dict instead. *)
Rate(c) ==
  /\ At(c, "rating")
  /\ \/ /\ UNCHANGED faults
        /\ \E x \in Evaluate(request[c].situation, Rates) :
             Decide(c, x.action, TRUE, x.approval)
     \/ /\ Fault
        /\ \E x \in Evaluate(request[c].situation, << >>) :
             Decide(c, x.action, TRUE, x.approval)
     \/ /\ UNCHANGED faults
        /\ Evaluate(request[c].situation, Rates) = {}
        /\ Goto(c, "asking") /\ UNCHANGED made
  /\ UNCHANGED <<stateVars, engine, planned>>

(* The LLM answers.  What is not in the vocabulary is escalated. *)
LlmAnswers(c) ==
  /\ At(c, "asking")
  /\ \E advice \in Advice, low \in BOOLEAN :
       LET action == IF advice \in Action THEN advice ELSE "escalate_to_human"
       IN  Decide(c, action, FALSE, low \/ advice \notin Action \/ action \in Gated)
  /\ UNCHANGED <<feedbackVars, engine, planned>>

(* It fails or its answer cannot be parsed: tenacity tries again, and at last
   raises a RetryError that ends the request, so that the correction prompt is
   never sent. *)
LlmFails(c) ==
  /\ At(c, "asking")
  /\ IF request[c].attempt + 1 < Attempts
     THEN request' = [request EXCEPT ![c].attempt = @ + 1] /\ UNCHANGED contended
     ELSE Over(c)
  /\ UNCHANGED <<feedbackVars, engine, made, planned>>

(* _persist_decision: whether it is stored or not, the decision is returned,
   and only a planner makes a plan of it. *)
Persist(c) ==
  LET decision == Head(request[c].decision)
  IN  /\ At(c, "persisting")
      /\ \/ /\ row' = [row EXCEPT ![decision.id].stored = TRUE]
            /\ UNCHANGED faults
         \/ Fault /\ UNCHANGED row
      /\ IF c = Loop THEN Over(c) ELSE Goto(c, "planning")
      /\ UNCHANGED <<worldVars, cycleVars, gatherVars, point, playbook, resolves,
                     verdict, unsure, eased, unindexed, engine, made, planned>>

-------------------------------------------------------------------------------
(* From the decision to the events of the plan *)

(* /planning/generate: the plan is saved, and linked to the decision's row if
   the request for this is answered.  Then the task is delegated. *)
Generate(c) ==
  LET decision == Head(request[c].decision)
  IN  /\ At(c, "planning")
      /\ planned' = [d \in DOMAIN planned \cup {decision.id} |->
                       IF d \in DOMAIN planned THEN planned[d] ELSE StepsOf[decision.action]]
      /\ \/ /\ row' = [row EXCEPT ![decision.id].linked = row[decision.id].stored]
            /\ UNCHANGED faults
         \/ Fault /\ UNCHANGED row
      /\ Over(c)
      /\ UNCHANGED <<worldVars, cycleVars, gatherVars, point, playbook, resolves,
                     verdict, unsure, eased, unindexed, engine, made>>

(* The planning service does not answer, and the planner gives up. *)
GenerateFails(c) ==
  /\ At(c, "planning") /\ Fault
  /\ Over(c)
  /\ UNCHANGED <<stateVars, engine, made, planned>>

(* A step of the plan has ended, well or not, and PlanMonitor says so. *)
StepEnds(d) ==
  /\ d \in DOMAIN planned /\ planned[d] # <<>> /\ Len(topic) < MaxSteps
  /\ topic' = Append(topic, <<d, Head(planned[d])>>)
  /\ planned' = [planned EXCEPT ![d] = Tail(@)]
  /\ UNCHANGED <<worldVars, position, cycle, gatherVars, storeVars, verdict,
                 unsure, eased, unindexed, faults, engine, request, made, contended>>

-------------------------------------------------------------------------------
RequestStep(c) ==
  \/ Fetch(c)
  \/ Rate(c)
  \/ LlmAnswers(c)
  \/ LlmFails(c)
  \/ Persist(c)
  \/ Generate(c)

Next ==
  \/ FeedbackNext /\ UNCHANGED loopVars
  \/ \E p \in Planner : Ask(p)
  \/ NextCycle
  \/ \E c \in Caller : RequestStep(c) \/ GenerateFails(c)
  \/ \E d \in Decision : StepEnds(d)

Spec == Init /\ [][Next]_vars

-------------------------------------------------------------------------------
(* Properties *)

Ledger == INSTANCE DecisionLedger WITH
  ledger <- [d \in Decision |-> IF row[d].outcome # "none" THEN row[d].outcome
                                ELSE IF row[d].linked THEN "linked"
                                ELSE IF row[d].stored THEN "made" ELSE "none"],
  verdicts <- verdict

(* Whatever the cycles of a plan's steps do at once, its decision is judged
   once, after it was linked, by a verdict one of them has come to, and keeps
   the outcome (memory/api.py:257-258, "outcome IS NULL"). *)
LedgerKept == Ledger!Spec

Settled(a) == \A ev \in Event : ev[2] = a => cycle[ev].at # "gathering"

(* The two records of how an action has done agree on its successes, and the
   playbooks have no fewer failures, since those before the first success
   leave no edge.  Excepted are actions of which two cycles overlapped at a
   playbook or an update failed (playbook_updater.py:25-58, graph_updater.py:51-92). *)
EvidenceAgrees ==
  \A p \in Playbook :
    LET a == Recommended[p]
    IN  a \notin unsure /\ Settled(a) =>
          /\ playbook[p].wins = resolves[a].wins
          /\ playbook[p].losses >= resolves[a].losses

(* The search of past experiences never shows an outcome that the decision's
   row does not have, however cycles of its plan race for it and whatever is
   cut off.  And it shows the one recorded, but in three cases, which nothing
   repairs: the update returned another row of the plan, of which only one is
   indexed (memory/api.py:248-291); the request or a process failed between
   the row and the point; or the embedding model was not loaded, and the point
   was left out without a word (memory/vector.py:71-73). *)
OutcomeIsSearchable ==
  \A d \in Decision :
    /\ point[d] \in {"none", row[d].outcome}
    /\ \/ point[d] = row[d].outcome
       \/ d \in unindexed
       \/ \E ev \in Event : ev[1] = d /\ recorder[ev] = "indexing"

(* A decision is recorded as a success only if during one of its plan's cycles
   an anomaly was cleared, or the World Model did not answer, which counts as
   no anomalies (verifier.py:62-84, 102-110). *)
SuccessIsRelief ==
  \A d \in Decision :
    row[d].outcome = "success" => \E a \in Action : <<d, a>> \in eased

(* A decision carries the name of the agent that asked for it, and is about
   anomalies of this agent's domain, unless another planner has set the
   attributes of the one engine meanwhile, or has left its own to run_loop
   (reasoning/api.py:36-38, engine.py:96-99, 202). *)
DecidedForAsker ==
  \A c \in Caller : \A i \in DOMAIN request[c].decision :
    LET decision == request[c].decision[i]
    IN  ~decision.contended =>
          /\ decision.agent = c
          /\ c \in Planner => \A x \in decision.about : <<DomainOf[c], x>> \in Keyword

Judgements(a) == {ev \in Event : ev[2] = a /\ cycle[ev].at = "done"}

Successes(a) == {ev \in Judgements(a) : cycle[ev].outcome = "success"}

(* The record of an action, as its cycles have judged it. *)
HasRate(a, percent) == 100 * Cardinality(Successes(a)) >= percent * Cardinality(Judgements(a))

(* The loop is closed: an action that was judged a success in less than 40 of
   100 cases is not taken by a rule again, and without approval only one that
   was so in 65 of them.  Excepted are actions of which an update was lost,
   and rates that could not be loaded (fast_path.py:171-187, engine.py:56-68,
   playbook_updater.py:43-49). *)
LearnsFromFailure ==
  [][\A c \in Caller : At(c, "rating") /\ At(c, "persisting")' =>
       LET decision == Head(request'[c].decision)
           a == decision.action
       IN  faults' = faults /\ a \notin unsure /\ Settled(a)
             /\ (\E p \in Playbook : Recommended[p] = a) =>
           /\ HasRate(a, MinSuccessRate)
           /\ ~decision.approval => HasRate(a, ApprovalBelow) /\ Judgements(a) # {}]_vars

(* A cycle that was started can always go on to its end, whichever of its
   parts have failed, so that the steps taken are judged as long as the event
   loop runs (feedback/consumer.py:113, 151-163). *)
CyclesGoOn == \A ev \in Live : ENABLED CycleStep(ev)
================================================================================
