--------------------------- MODULE PlanOutcomeProofs ---------------------------
(***************************************************************************)
(* How a run of PlanExecution ends: what is left in Redis, what has been   *)
(* published, what a plan that stays open waits for, and that a failed run *)
(* starts nothing more, for any set of plans, any number of runs and calls *)
(* and every fault; that each run implements SequentialRun; and which runs *)
(* take the steps of their plans one by one.                               *)
(***************************************************************************)
EXTENDS PlanExecutionProofs, WellFoundedInduction

-------------------------------------------------------------------------------
(* The inductive invariant.  None of the properties is inductive: each looks
   at a run that is over or between two waves, and is made true or false while
   a wave is under way.  What a run does with its plan p depends on nothing but
   where its execute() is (c), where its tasks are (t) and what its monitor has
   published (u), so the invariant is stated of those. *)

Active == {"saving", "saved", "handler", "acted", "reporting", "checking", "announcing"}

AtRest(p, t) == \A i \in DOMAIN p.steps : t[i] \in {"none", "finished"}

(* Only a wave has tasks under way, or what an exception left behind. *)
PhaseOK(p, c, t, u) ==
  /\ c \notin {"wave", "dead"} => AtRest(p, t)
  /\ c \in {"idle", "fetched", "starting"} =>
       u = {} /\ \A i \in DOMAIN p.steps : t[i] = "none"
  /\ c = "starting" => p.status = "running"
  /\ c = "finishing" => p.status = "succeeded"

(* A task (x) and the status of its step go together. *)
ProgressAt(p, c, x, i) ==
  /\ x # "none" => p.steps[i].status # "pending"
  /\ x \in {"saving", "saved"} => p.steps[i].isApprovalGate
  /\ x \in {"reporting", "checking", "announcing"} \/ (x = "finished" /\ c # "dead")
       => p.steps[i].status \in {"succeeded", "failed"}
  /\ x = "checking" => p.steps[i].status = "succeeded"
  /\ x = "announcing" /\ p.steps[i].status = "failed" => p.steps[i].onFailure # "continue"

ProgressOK(p, c, t) == \A i \in DOMAIN p.steps : ProgressAt(p, c, t[i], i)

(* Step i has failed for good: its plan is not to go on. *)
Fatal(p, x, i) == /\ x \in {"announcing", "finished"}
                  /\ p.steps[i].status = "failed"
                  /\ p.steps[i].onFailure # "continue"

HaltOK(p, c, t) ==
  NoParallelGate(p) /\ c # "dead" =>
    \A i \in DOMAIN p.steps : Fatal(p, t[i], i) => p.status # "running"

FoundIn(p, t) == {i \in DOMAIN p.steps : t[i] = "none" /\ p.steps[i].status # "pending"}

InTurn(p, t) == IsChain(p) /\ \A i \in FoundIn(p, t) : 1..i \subseteq FoundIn(p, t)

(* The steps are taken in order, one at a time. *)
OrderOK(p, t) ==
  /\ \A i \in DOMAIN p.steps : p.steps[i].status # "pending" =>
       \A j \in 1..i : p.steps[j].status # "pending"
  /\ \A i, j \in DOMAIN p.steps : t[i] \in Active /\ t[j] \in Active => i = j

FailedOn(p) == \E i \in DOMAIN p.steps : /\ p.steps[i].status = "failed"
                                         /\ p.steps[i].onFailure = "continue"

(* The plan has an outcome from the moment the monitor judges it, and nothing
   else is published than that. *)
OutcomeAt(p, x, u, i) ==
  /\ x \in Active \ {"announcing"} =>
       /\ p.status \notin DOMAIN EventOf
       /\ u = {}
       /\ p.steps[i].status = "succeeded" \/ ~p.steps[i].isApprovalGate => p.status = "running"
  /\ x = "announcing" => /\ u = {}
                         /\ p.status \in DOMAIN EventOf
                         /\ EventOf[p.status] = {Announcement(p.steps[i])}
  /\ Fatal(p, x, i) => p.status \in DOMAIN EventOf

OutcomeAtRest(p, u) ==
  IF p.status \in DOMAIN EventOf
  THEN u \subseteq EventOf[p.status]
  ELSE u = {} /\ (p.status = "running" \/ FailedOn(p))

OutcomeOK(p, t, u) ==
  /\ AtRest(p, t) => OutcomeAtRest(p, u)
  /\ \A i \in DOMAIN p.steps : OutcomeAt(p, t[i], u, i)

(* Why a plan that is no longer executed may still be open. *)
OpenOK(p, t) ==
  \/ p.status \in DOMAIN EventOf
  \/ FailedOn(p)
  \/ \E i \in FoundIn(p, t) : p.steps[i].status # "succeeded"

TurnOK(p, c, t, u) ==
  InTurn(p, t) =>
    /\ OrderOK(p, t)
    /\ c \notin {"idle", "fetched", "dead"} => OutcomeOK(p, t, u)
    /\ c = "done" => OpenOK(p, t)

RunOK(p, c, t, u) ==
  PhaseOK(p, c, t, u) /\ ProgressOK(p, c, t) /\ HaltOK(p, c, t) /\ TurnOK(p, c, t, u)

RunsOK == \A r \in Run : RunOK(mem[r], pc[r], task[r], published[r])

(* No other run has begun and the Planning API was not called. *)
Alone(r) == calls = 0 /\ \A s \in Run \ {r} : pc[s] = "idle"

StoreOK ==
  /\ calls = 0 => requests = {}
  /\ \A r \in Run : Alone(r) /\ pc[r] \in {"loop", "done"} => store = mem[r]

OInv == IInv /\ RunsOK /\ StoreOK

-------------------------------------------------------------------------------
(* Operators *)

(* A set of naturals has a least element. *)
LEMMA LeastLemma ==
  ASSUME NEW S \in SUBSET Nat, S # {}
  PROVE  \E m \in S : \A n \in S : m <= n
<1>1. PICK m \in S : \A n \in S : <<n, m>> \notin OpToRel(<, Nat)
  BY NatLessThanWellFounded, WFMin
<1>2. \A n \in S : ~ (n < m)
  BY <1>1 DEF OpToRel
<1> QED
  BY <1>2

(* q is p with other statuses: what follows a failure is the same, too. *)
SamePlan(p, q) ==
  /\ SameShape(p, q)
  /\ \A i \in DOMAIN p.steps : q.steps[i].onFailure = p.steps[i].onFailure

(* A step's status is no business of its failure policy. *)
LEMMA SetStepPlan ==
  ASSUME NEW p \in Plan, NEW i \in DOMAIN p.steps, NEW s \in StepStatus
  PROVE  SamePlan(p, SetStep(p, i, s))
<1> DEFINE new == [p.steps[i] EXCEPT !.status = s]
           q   == SetStep(p, i, s)
<1>1. p.steps \in Seq(PlanStep) /\ p.steps[i] \in PlanStep
  BY StepsLemma
<1>2. q.steps = [p.steps EXCEPT ![i] = new]
  BY DEF SetStep, Plan
<1>3. new.onFailure = p.steps[i].onFailure
  BY <1>1 DEF PlanStep
<1>4. \A j \in DOMAIN p.steps : q.steps[j].onFailure = p.steps[j].onFailure
  BY <1>1, <1>2, <1>3
<1> QED
  BY <1>4, SetStepLemma DEF SamePlan

(* Nor is the start of a wave. *)
LEMMA LaunchPlan ==
  ASSUME NEW p \in Plan, NEW S
  PROVE  /\ SamePlan(p, Launch(p, S))
         /\ Launch(p, S).status = p.status
<1> DEFINE steps == [i \in DOMAIN p.steps |->
                       IF i \in S
                       THEN [p.steps[i] EXCEPT !.status = Launched(p.steps[i])]
                       ELSE p.steps[i]]
<1>1. Launch(p, S).steps = steps /\ Launch(p, S).status = p.status
  BY DEF Launch, Plan
<1>2. \A i \in DOMAIN p.steps :
        [p.steps[i] EXCEPT !.status = Launched(p.steps[i])].onFailure
          = p.steps[i].onFailure
  BY StepsLemma DEF PlanStep
<1>3. \A i \in DOMAIN p.steps : steps[i].onFailure = p.steps[i].onFailure
  BY <1>2
<1> QED
  BY <1>1, <1>3, LaunchLemma DEF SamePlan

(* The plan's own status is no business of its steps' failures either. *)
LEMMA SetStatusPlan ==
  ASSUME NEW p \in Plan, NEW s \in PlanStatus
  PROVE  SamePlan(p, SetStatus(p, s)) /\ SetStatus(p, s).status = s
BY SetStatusLemma DEF SamePlan, SameShape, SetStatus, Plan

(* Two plans that differ by their statuses have the same chain and gates. *)
LEMMA SamePlanLemma ==
  ASSUME NEW p \in Plan, NEW q \in Plan, SamePlan(p, q)
  PROVE  /\ IsChain(q) <=> IsChain(p)
         /\ NoParallelGate(q) <=> NoParallelGate(p)
<1>1. DOMAIN q.steps = DOMAIN p.steps /\ DOMAIN p.steps = 1..Len(p.steps)
      /\ Len(p.steps) \in Nat
  BY StepsLemma DEF SamePlan, SameShape
<1>2. \A i \in DOMAIN p.steps : i # 1 => i-1 \in DOMAIN p.steps
  BY <1>1
<1>3. \A i \in DOMAIN p.steps : /\ q.steps[i].id = p.steps[i].id
                                /\ q.steps[i].dependsOn = p.steps[i].dependsOn
                                /\ q.steps[i].isApprovalGate = p.steps[i].isApprovalGate
  BY DEF SamePlan, SameShape
<1>4. IsChain(q) <=> IsChain(p)
  <2>1. ASSUME NEW i \in DOMAIN p.steps
        PROVE  (IF i = 1 THEN {} ELSE {q.steps[i-1].id})
                 = (IF i = 1 THEN {} ELSE {p.steps[i-1].id})
    BY <1>2, <1>3
  <2> QED
    BY <1>1, <1>3, <2>1 DEF IsChain
<1>5. NoParallelGate(q) <=> NoParallelGate(p)
  BY <1>1, <1>3 DEF NoParallelGate
<1> QED
  BY <1>4, <1>5

(* A run that takes its steps one by one does so whatever it has made of the
   steps that it started itself. *)
LEMMA SameTurn ==
  ASSUME NEW p \in Plan, NEW q \in Plan, NEW t, NEW x, SamePlan(p, q),
         \A j \in DOMAIN p.steps : x[j] = "none" /\ q.steps[j].status # "pending" <=>
                                   t[j] = "none" /\ p.steps[j].status # "pending"
  PROVE  /\ FoundIn(q, x) = FoundIn(p, t)
         /\ InTurn(q, x) <=> InTurn(p, t)
<1>1. DOMAIN q.steps = DOMAIN p.steps
  BY DEF SamePlan, SameShape
<1>2. FoundIn(q, x) = FoundIn(p, t)
  BY <1>1 DEF FoundIn
<1> QED
  BY <1>2, SamePlanLemma DEF InTurn

-------------------------------------------------------------------------------
(* What the actions make of a run's invariant *)

(* A stretch of the run's step i makes x of its task and q of the plan, and
   leaves execute() at d and v published.  What it owes the invariant is about
   that step and the plan's status. *)
Stretch(p, q, c, d, t, x, u, v, i) ==
  /\ SamePlan(p, q)
  /\ \A j \in DOMAIN p.steps \ {i} : q.steps[j].status = p.steps[j].status
  /\ d \in {c, "dead"}
  /\ t[i] \in Active
  /\ x \in Active \cup {"finished"}
  /\ ProgressAt(q, d, x, i)
  /\ d # "dead" /\ NoParallelGate(p) /\ q.status = "running" =>
       /\ p.status = "running" \/ \A j \in DOMAIN p.steps \ {i} : t[j] = "none"
       /\ ~Fatal(q, x, i)
  /\ d # "dead" /\ OutcomeOK(p, t, u) =>
       /\ OutcomeAt(q, x, v, i)
       /\ x = "finished" => OutcomeAtRest(q, v)
       /\ p.status \in DOMAIN EventOf => q.status \in DOMAIN EventOf

LEMMA StepKeeps ==
  ASSUME NEW p \in Plan, NEW q \in Plan, NEW i \in DOMAIN p.steps,
         NEW c, NEW d, NEW u, NEW v, NEW t \in [DOMAIN p.steps -> TaskState], NEW x,
         Stretch(p, q, c, d, t, x, u, v, i),
         RunOK(p, c, t, u)
  PROVE  RunOK(q, d, [t EXCEPT ![i] = x], v)
<1> DEFINE y == [t EXCEPT ![i] = x]
<1> USE DEF Stretch
<1>1. /\ DOMAIN q.steps = DOMAIN p.steps /\ y[i] = x
      /\ \A j \in DOMAIN p.steps \ {i} : y[j] = t[j]
      /\ x # "none" /\ t[i] # "none"
  BY DEF SamePlan, SameShape, Active
<1>2. \A j \in DOMAIN p.steps : /\ q.steps[j].onFailure = p.steps[j].onFailure
                                /\ q.steps[j].isApprovalGate = p.steps[j].isApprovalGate
  BY DEF SamePlan, SameShape
<1>3. c \in {"wave", "dead"} /\ d \in {"wave", "dead"}
  BY <1>1 DEF RunOK, PhaseOK, AtRest, Active
<1>4. p.steps[i].status # "pending" /\ q.steps[i].status # "pending"
  BY <1>1 DEF RunOK, ProgressOK, ProgressAt
<1> HIDE DEF y
<1>5. PhaseOK(q, d, y, v)
  BY <1>3 DEF PhaseOK
<1>6. ProgressOK(q, d, y)
  <2>1. ASSUME NEW j \in DOMAIN p.steps \ {i} PROVE ProgressAt(q, d, y[j], j)
    <3>1. ProgressAt(p, c, t[j], j)
      BY DEF RunOK, ProgressOK
    <3> QED
      BY <1>1, <1>2, <3>1 DEF ProgressAt
  <2> QED
    BY <1>1, <2>1 DEF ProgressOK
<1>7. HaltOK(q, d, y)
  <2>1. SUFFICES ASSUME NoParallelGate(q), d # "dead", NEW j \in DOMAIN p.steps,
                        Fatal(q, y[j], j), q.status = "running"
                 PROVE  FALSE
    BY <1>1 DEF HaltOK
  <2>2. NoParallelGate(p)
    BY <2>1, SamePlanLemma
  <2>3. j # i
    BY <1>1, <2>1, <2>2
  <2>4. Fatal(p, t[j], j)
    BY <1>1, <1>2, <2>1, <2>3 DEF Fatal
  <2>5. p.status # "running" /\ t[j] # "none"
    BY <1>3, <2>1, <2>2, <2>4 DEF RunOK, HaltOK, Fatal
  <2> QED
    BY <2>1, <2>2, <2>3, <2>5
<1>8. TurnOK(q, d, y, v)
  <2>1. SUFFICES ASSUME InTurn(q, y)
                 PROVE  /\ OrderOK(q, y)
                        /\ d # "dead" => OutcomeOK(q, y, v)
    BY <1>3 DEF TurnOK
  <2>2. InTurn(p, t)
    <3>1. \A j \in DOMAIN p.steps : (y[j] = "none" /\ q.steps[j].status # "pending") <=>
                                   (t[j] = "none" /\ p.steps[j].status # "pending")
      BY <1>1
    <3> QED
      BY <2>1, <3>1, SameTurn
  <2>3. OrderOK(p, t) /\ (d # "dead" => OutcomeOK(p, t, u))
    BY <1>3, <2>2 DEF RunOK, TurnOK
  <2>4. OrderOK(q, y)
    <3>1. \A j \in DOMAIN p.steps : /\ q.steps[j].status # "pending" <=> p.steps[j].status # "pending"
                                    /\ y[j] \in Active => t[j] \in Active
      BY <1>1, <1>4
    <3>2. \A j \in DOMAIN p.steps : 1..j \subseteq DOMAIN p.steps
      BY StepsLemma
    <3> QED
      BY <1>1, <2>3, <3>1, <3>2 DEF OrderOK
  <2>5. ASSUME d # "dead" PROVE OutcomeOK(q, y, v)
    <3>1. AtRest(q, y) => x = "finished"
      BY <1>1 DEF AtRest
    <3>2. OutcomeAt(q, x, v, i) /\ (x = "finished" => OutcomeAtRest(q, v))
      BY <2>3, <2>5
    <3>3. ASSUME NEW j \in DOMAIN p.steps \ {i} PROVE OutcomeAt(q, y[j], v, j)
      <4>1. OutcomeAt(p, t[j], u, j)
        BY <2>3, <2>5 DEF OutcomeOK
      <4>2. y[j] = t[j] /\ y[j] \notin Active
        BY <1>1, <2>3 DEF OrderOK
      <4>3. Fatal(q, y[j], j) => Fatal(p, t[j], j)
        BY <1>1, <1>2 DEF Fatal
      <4> QED
        BY <2>3, <2>5, <4>1, <4>2, <4>3 DEF OutcomeAt, Active
    <3> QED
      BY <1>1, <3>1, <3>2, <3>3 DEF OutcomeOK
  <2> QED
    BY <2>4, <2>5
<1> QED
  BY <1>5, <1>6, <1>7, <1>8 DEF RunOK, y

(* The same of step i of run r: the other runs are left alone. *)
LEMMA RunStepKeeps ==
  ASSUME TypeOK, RunsOK, NEW r \in Run, NEW i \in DOMAIN task[r], NEW q \in Plan, NEW x,
         mem' = [mem EXCEPT ![r] = q],
         Goto(r, i, x),
         \A s \in Run \ {r} : pc'[s] = pc[s] /\ published'[s] = published[s],
         Stretch(mem[r], q, pc[r], pc'[r], task[r], x, published[r], published'[r], i)
  PROVE  RunsOK'
<1>1. /\ mem[r] \in Plan /\ i \in DOMAIN mem[r].steps
      /\ task[r] \in [DOMAIN mem[r].steps -> TaskState]
      /\ DOMAIN task = Run /\ mem \in [Run -> Plan]
  BY DEF TypeOK
<1>2. RunOK(mem[r], pc[r], task[r], published[r])
  BY DEF RunsOK
<1>3. /\ mem'[r] = q /\ \A s \in Run \ {r} : mem'[s] = mem[s]
      /\ task'[r] = [task[r] EXCEPT ![i] = x] /\ \A s \in Run \ {r} : task'[s] = task[s]
  BY <1>1 DEF Goto
<1>4. RunOK(q, pc'[r], [task[r] EXCEPT ![i] = x], published'[r])
  BY <1>1, <1>2, StepKeeps
<1>5. \A s \in Run \ {r} : RunOK(mem[s], pc[s], task[s], published[s])
  BY DEF RunsOK
<1>6. RunOK(mem'[r], pc'[r], task'[r], published'[r])
  BY <1>3, <1>4
<1>7. ASSUME NEW s \in Run \ {r} PROVE RunOK(mem'[s], pc'[s], task'[s], published'[s])
  BY <1>3, <1>5
<1> QED
  BY <1>6, <1>7 DEF RunsOK

(* While a gate that nothing runs beside has not passed, nothing else of its
   plan has been started: every other step depends on it. *)
LEMMA GateAlone ==
  ASSUME IInv, NEW r \in Run, NEW i \in DOMAIN mem[r].steps, NoParallelGate(mem[r]),
         mem[r].steps[i].isApprovalGate, mem[r].steps[i].status # "succeeded"
  PROVE  \A j \in DOMAIN mem[r].steps \ {i} : task[r][j] = "none"
<1> SUFFICES ASSUME NEW j \in DOMAIN mem[r].steps \ {i}, task[r][j] # "none"
             PROVE  FALSE
  OBVIOUS
<1>1. mem[r].steps[j].dependsOn \subseteq SucceededIds(mem[r])
  BY DEF IInv, TasksOK, TaskOK
<1>2. mem[r].steps[i].id \in mem[r].steps[j].dependsOn
  BY DEF NoParallelGate
<1>3. PICK k \in DOMAIN mem[r].steps : /\ mem[r].steps[k].id = mem[r].steps[i].id
                                      /\ mem[r].steps[k].status = "succeeded"
  BY <1>1, <1>2 DEF SucceededIds
<1>4. WellGated(mem[r])
  BY DEF IInv, CopiesOK, CopyOK
<1> QED
  BY <1>3, <1>4 DEF WellGated

(* What the invariant says of the step that an action is about. *)
LEMMA StepFacts ==
  ASSUME IInv, RunsOK, NEW r \in Run, NEW i \in DOMAIN task[r]
  PROVE  /\ mem[r] \in Plan /\ i \in DOMAIN mem[r].steps /\ mem[r].steps[i] \in PlanStep
         /\ task[r] \in [DOMAIN mem[r].steps -> TaskState]
         /\ ProgressAt(mem[r], pc[r], task[r][i], i)
         /\ OutcomeOK(mem[r], task[r], published[r]) =>
              OutcomeAt(mem[r], task[r][i], published[r], i)
         /\ task[r][i] \in {"saving", "saved", "handler", "acted"} =>
              mem[r].steps[i].status \in {"running", "waiting_approval"}
         /\ HaltOK(mem[r], pc[r], task[r])
<1>1. /\ mem[r] \in Plan /\ i \in DOMAIN mem[r].steps
      /\ task[r] \in [DOMAIN mem[r].steps -> TaskState]
  BY DEF IInv, TypeOK
<1>2. RunOK(mem[r], pc[r], task[r], published[r])
  BY DEF RunsOK
<1>3. TaskOK(r, i)
  BY <1>1 DEF IInv, TasksOK
<1> QED
  BY <1>1, <1>2, <1>3, StepsLemma DEF RunOK, ProgressOK, OutcomeOK, TaskOK

(* A plan is itself, and keeps its steps when its own status is set. *)
LEMMA SamePlanRefl ==
  ASSUME NEW p \in Plan
  PROVE  SamePlan(p, p)
BY SameShapeRefl DEF SamePlan

(* A gate opens: the plan awaits approval, which is no outcome. *)
LEMMA GateOpensRuns ==
  ASSUME IInv, RunsOK, NEW r \in Run, NEW i \in DOMAIN task[r], GateOpens(r, i)
  PROVE  RunsOK'
<1> DEFINE waiting == SetStatus(mem[r], "awaiting_approval")
<1>1. /\ mem[r] \in Plan /\ i \in DOMAIN mem[r].steps /\ TypeOK
      /\ ProgressAt(mem[r], pc[r], "saved", i) /\ task[r][i] = "saved"
      /\ OutcomeOK(mem[r], task[r], published[r]) => OutcomeAt(mem[r], "saved", published[r], i)
      /\ mem[r].steps[i].status \in {"running", "waiting_approval"}
      /\ HaltOK(mem[r], pc[r], task[r])
  BY StepFacts DEF GateOpens, At, IInv
<1>2. /\ waiting \in Plan /\ SamePlan(mem[r], waiting) /\ waiting.status = "awaiting_approval"
      /\ waiting.steps = mem[r].steps
  BY <1>1, SetStatusPlan, SetStatusLemma DEF PlanStatus
<1>3. pc' = pc /\ published' = published
  BY DEF GateOpens
<1>4. CASE mem[r].steps[i].action \in Registered
  <2>1. ProgressAt(waiting, pc[r], "handler", i)
    BY <1>1, <1>2 DEF ProgressAt
  <2>2. OutcomeOK(mem[r], task[r], published[r]) => OutcomeAt(waiting, "handler", published[r], i)
    BY <1>1, <1>2 DEF OutcomeAt, Active, EventOf, ProgressAt, Fatal
  <2>3. Stretch(mem[r], waiting, pc[r], pc[r], task[r], "handler", published[r], published[r], i)
    BY <1>1, <1>2, <2>1, <2>2 DEF Stretch, Active, Fatal, OutcomeAt
  <2> QED
    BY <1>1, <1>2, <1>3, <1>4, <2>3, RunStepKeeps DEF GateOpens
<1>5. CASE mem[r].steps[i].action \notin Registered
  <2> DEFINE q == SetStep(waiting, i, "failed")
  <2>1. /\ q \in Plan /\ SamePlan(waiting, q) /\ q.steps[i].status = "failed"
        /\ \A j \in DOMAIN mem[r].steps \ {i} : q.steps[j] = mem[r].steps[j]
    BY <1>1, <1>2, SetStepLemma, SetStepPlan DEF StepStatus
  <2>2. q.status = "awaiting_approval"
    BY <1>2 DEF SetStep, Plan
  <2>3. SamePlan(mem[r], q)
    BY <1>2, <2>1 DEF SamePlan, SameShape
  <2>4. q.steps[i].isApprovalGate
    BY <1>1, <2>3 DEF SamePlan, SameShape, ProgressAt
  <2> HIDE DEF q
  <2>5. ProgressAt(q, pc[r], "reporting", i)
    BY <2>1 DEF ProgressAt
  <2>6. OutcomeOK(mem[r], task[r], published[r]) => OutcomeAt(q, "reporting", published[r], i)
    BY <1>1, <2>1, <2>2, <2>4 DEF OutcomeAt, Active, EventOf, Fatal
  <2>7. Stretch(mem[r], q, pc[r], pc[r], task[r], "reporting", published[r], published[r], i)
    BY <1>1, <2>1, <2>2, <2>3, <2>5, <2>6 DEF Stretch, Active, Fatal, OutcomeAt
  <2> QED
    BY <1>1, <1>3, <1>5, <2>1, <2>7, RunStepKeeps DEF GateOpens, q
<1> QED
  BY <1>4, <1>5

(* A step that goes on with the plan as it is, and with nothing published. *)
LEMMA QuietStretch ==
  ASSUME IInv, RunsOK, NEW r \in Run, NEW i \in DOMAIN task[r], NEW t, NEW x,
         task[r][i] = t, <<t, x>> \in {<<"saving", "saved">>, <<"handler", "acted">>,
                                       <<"checking", "finished">>},
         Goto(r, i, x), UNCHANGED <<mem, pc, published>>
  PROVE  RunsOK'
<1>1. /\ mem[r] \in Plan /\ i \in DOMAIN mem[r].steps /\ TypeOK
      /\ ProgressAt(mem[r], pc[r], t, i) /\ mem[r].steps[i] \in PlanStep
      /\ OutcomeOK(mem[r], task[r], published[r]) => OutcomeAt(mem[r], t, published[r], i)
      /\ t \in {"saving", "handler"} => mem[r].steps[i].status \in {"running", "waiting_approval"}
      /\ mem = [mem EXCEPT ![r] = mem[r]]
  BY StepFacts DEF IInv, TypeOK
<1>2. ProgressAt(mem[r], pc[r], x, i)
  BY <1>1 DEF ProgressAt
<1>3. t \in Active \ {"announcing"} /\ x \in Active \cup {"finished"} /\ x \notin {"announcing"}
  BY DEF Active
<1>4. ~Fatal(mem[r], x, i)
  BY <1>1 DEF Fatal, ProgressAt
<1>5. OutcomeOK(mem[r], task[r], published[r]) =>
        /\ OutcomeAt(mem[r], x, published[r], i)
        /\ x = "finished" => OutcomeAtRest(mem[r], published[r])
        /\ mem[r].status \notin DOMAIN EventOf
  BY <1>1, <1>3, <1>4 DEF OutcomeAt, OutcomeAtRest, ProgressAt
<1>6. Stretch(mem[r], mem[r], pc[r], pc[r], task[r], x, published[r], published[r], i)
  BY <1>1, <1>2, <1>3, <1>4, <1>5, SamePlanRefl DEF Stretch
<1> QED
  BY <1>1, <1>6, RunStepKeeps

(* A step gets its result.  Only a gate sets the plan running again, and then
   nothing else of the wave can have failed. *)
LEMMA ResultRuns ==
  ASSUME IInv, RunsOK, NEW r \in Run, NEW i \in DOMAIN task[r],
         task[r][i] \in {"handler", "acted"},
         NEW s \in {"succeeded", "failed"}, Result(r, i, s)
  PROVE  RunsOK'
<1> DEFINE plan == SetStep(mem[r], i, s)
           q    == IF plan.steps[i].isApprovalGate /\ s = "succeeded"
                   THEN SetStatus(plan, "running") ELSE plan
<1>1. /\ mem[r] \in Plan /\ i \in DOMAIN mem[r].steps /\ TypeOK
      /\ OutcomeOK(mem[r], task[r], published[r]) =>
           OutcomeAt(mem[r], task[r][i], published[r], i)
      /\ mem[r].steps[i].status \in {"running", "waiting_approval"}
      /\ mem[r].steps[i].isApprovalGate \in BOOLEAN
  BY StepFacts DEF IInv, PlanStep
<1>2. /\ plan \in Plan /\ SamePlan(mem[r], plan) /\ plan.steps[i].status = s
      /\ \A j \in DOMAIN mem[r].steps \ {i} : plan.steps[j] = mem[r].steps[j]
  BY <1>1, SetStepLemma, SetStepPlan DEF StepStatus
<1>3. plan.status = mem[r].status
  BY <1>1 DEF SetStep, Plan
<1>4. plan.steps[i].isApprovalGate = mem[r].steps[i].isApprovalGate
  BY <1>1, <1>2 DEF SamePlan, SameShape
<1>5. /\ SetStatus(plan, "running") \in Plan
      /\ SetStatus(plan, "running").status = "running"
      /\ SetStatus(plan, "running").steps = plan.steps
  BY <1>2, SetStatusPlan, SetStatusLemma DEF PlanStatus
<1> HIDE DEF plan
<1>6. /\ q \in Plan /\ q.steps = plan.steps
      /\ q.status = IF mem[r].steps[i].isApprovalGate /\ s = "succeeded"
                    THEN "running" ELSE mem[r].status
  BY <1>2, <1>3, <1>4, <1>5
<1>7. mem' = [mem EXCEPT ![r] = q] /\ Goto(r, i, "reporting") /\ UNCHANGED <<pc, published>>
  BY DEF Result, plan
<1> HIDE DEF q
<1>8. SamePlan(mem[r], q) /\ q.steps[i].isApprovalGate = mem[r].steps[i].isApprovalGate
  BY <1>1, <1>2, <1>6 DEF SamePlan, SameShape
<1>9. ProgressAt(q, pc[r], "reporting", i)
  BY <1>2, <1>6 DEF ProgressAt
<1>10. NoParallelGate(mem[r]) /\ q.status = "running" =>
         \/ mem[r].status = "running"
         \/ \A j \in DOMAIN mem[r].steps \ {i} : task[r][j] = "none"
  BY <1>1, <1>6, GateAlone
<1>11. OutcomeOK(mem[r], task[r], published[r]) =>
         OutcomeAt(q, "reporting", published[r], i) /\ mem[r].status \notin DOMAIN EventOf
  BY <1>1, <1>2, <1>6, <1>8 DEF OutcomeAt, Active, EventOf, Fatal
<1>12. Stretch(mem[r], q, pc[r], pc[r], task[r], "reporting", published[r], published[r], i)
  BY <1>1, <1>2, <1>6, <1>8, <1>9, <1>10, <1>11 DEF Stretch, Active, Fatal
<1> QED
  BY <1>1, <1>6, <1>7, <1>12, RunStepKeeps

(* A failure is judged, and its outcome is not yet published; a step that did
   not fail for good leaves the plan as it is. *)
LEMMA ReportedRuns ==
  ASSUME IInv, RunsOK, NEW r \in Run, NEW i \in DOMAIN task[r], Reported(r, i)
  PROVE  RunsOK'
<1> DEFINE step == mem[r].steps[i]
<1>1. /\ mem[r] \in Plan /\ i \in DOMAIN mem[r].steps /\ TypeOK /\ step \in PlanStep
      /\ task[r][i] = "reporting"
      /\ ProgressAt(mem[r], pc[r], "reporting", i)
      /\ OutcomeOK(mem[r], task[r], published[r]) =>
           OutcomeAt(mem[r], "reporting", published[r], i)
      /\ mem = [mem EXCEPT ![r] = mem[r]]
  BY StepFacts DEF IInv, TypeOK, Reported, At
<1>2. UNCHANGED <<pc, published>>
  BY DEF Reported
<1>3. CASE step.status = "failed" /\ step.onFailure # "continue"
  <2> DEFINE q == SetStatus(mem[r], Verdict(step))
  <2>1. Verdict(step) \in {"rolled_back", "aborted"}
        /\ (Verdict(step) = "rolled_back" <=> step.onFailure = "rollback")
    BY DEF Verdict
  <2>2. /\ q \in Plan /\ SamePlan(mem[r], q) /\ q.status = Verdict(step)
        /\ q.steps = mem[r].steps
    <3>1. Verdict(step) \in PlanStatus
      BY <2>1 DEF PlanStatus
    <3> QED
      BY <1>1, <3>1, SetStatusPlan, SetStatusLemma
  <2>3. mem' = [mem EXCEPT ![r] = q] /\ Goto(r, i, "announcing")
    BY <1>3 DEF Reported
  <2> HIDE DEF q
  <2>4. ProgressAt(q, pc[r], "announcing", i)
    BY <1>3, <2>2 DEF ProgressAt
  <2>5. EventOf[q.status] = {Announcement(q.steps[i])} /\ q.status \in DOMAIN EventOf
    <3>1. step.onFailure \in {"rollback", "abort"}
      BY <1>1, <1>3 DEF PlanStep, OnFailure
    <3> QED
      BY <1>3, <2>1, <2>2, <3>1 DEF EventOf, Announcement
  <2>6. OutcomeOK(mem[r], task[r], published[r]) => OutcomeAt(q, "announcing", published[r], i)
    BY <1>1, <2>5 DEF OutcomeAt, Active
  <2>7. Stretch(mem[r], q, pc[r], pc[r], task[r], "announcing", published[r], published[r], i)
    BY <1>1, <2>1, <2>2, <2>4, <2>5, <2>6 DEF Stretch, Active
  <2> QED
    BY <1>1, <1>2, <2>2, <2>3, <2>7, RunStepKeeps
<1>4. CASE ~(step.status = "failed" /\ step.onFailure # "continue")
  <2> DEFINE x == IF step.status # "failed" /\ mem[r].checksResolved
                  THEN "checking" ELSE "finished"
  <2>1. mem' = [mem EXCEPT ![r] = mem[r]] /\ Goto(r, i, x)
    BY <1>1, <1>4 DEF Reported
  <2>2. x \in {"checking", "finished"} /\ (x = "checking" => step.status = "succeeded")
    BY <1>1 DEF ProgressAt
  <2> HIDE DEF x
  <2>3. ProgressAt(mem[r], pc[r], x, i) /\ ~Fatal(mem[r], x, i)
    BY <1>1, <1>4, <2>2 DEF ProgressAt, Fatal
  <2>4. ASSUME OutcomeOK(mem[r], task[r], published[r])
        PROVE  /\ OutcomeAt(mem[r], x, published[r], i)
               /\ OutcomeAtRest(mem[r], published[r])
               /\ mem[r].status \notin DOMAIN EventOf
    <3>1. /\ mem[r].status \notin DOMAIN EventOf /\ published[r] = {}
          /\ step.status = "succeeded" \/ ~step.isApprovalGate => mem[r].status = "running"
      BY <1>1, <2>4 DEF OutcomeAt, Active
    <3>2. step.status = "succeeded" \/ FailedOn(mem[r])
      BY <1>1, <1>4 DEF FailedOn, ProgressAt
    <3> QED
      BY <2>2, <2>3, <3>1, <3>2 DEF OutcomeAt, OutcomeAtRest
  <2>5. Stretch(mem[r], mem[r], pc[r], pc[r], task[r], x, published[r], published[r], i)
    BY <1>1, <2>2, <2>3, <2>4, SamePlanRefl DEF Stretch, Active
  <2> QED
    BY <1>1, <1>2, <2>1, <2>5, RunStepKeeps
<1> QED
  BY <1>3, <1>4

(* The criterion is met: the plan has succeeded, which is not yet published. *)
LEMMA CriterionMetRuns ==
  ASSUME IInv, RunsOK, NEW r \in Run, NEW i \in DOMAIN task[r], CriterionMet(r, i)
  PROVE  RunsOK'
<1> DEFINE q == SetStatus(mem[r], "succeeded")
<1>1. /\ mem[r] \in Plan /\ i \in DOMAIN mem[r].steps /\ TypeOK
      /\ task[r][i] = "checking"
      /\ mem[r].steps[i].status = "succeeded"
      /\ OutcomeOK(mem[r], task[r], published[r]) => published[r] = {}
  BY StepFacts DEF IInv, CriterionMet, At, ProgressAt, OutcomeAt, Active
<1>2. /\ q \in Plan /\ SamePlan(mem[r], q) /\ q.status = "succeeded"
      /\ q.steps = mem[r].steps
  BY <1>1, SetStatusPlan, SetStatusLemma DEF PlanStatus
<1>3. mem' = [mem EXCEPT ![r] = q] /\ Goto(r, i, "announcing") /\ UNCHANGED <<pc, published>>
  BY DEF CriterionMet
<1> HIDE DEF q
<1>4. ProgressAt(q, pc[r], "announcing", i)
  BY <1>1, <1>2 DEF ProgressAt
<1>5. EventOf[q.status] = {Announcement(q.steps[i])} /\ q.status \in DOMAIN EventOf
  BY <1>1, <1>2 DEF EventOf, Announcement
<1>6. OutcomeOK(mem[r], task[r], published[r]) => OutcomeAt(q, "announcing", published[r], i)
  BY <1>1, <1>5 DEF OutcomeAt, Active
<1>7. Stretch(mem[r], q, pc[r], pc[r], task[r], "announcing", published[r], published[r], i)
  BY <1>1, <1>2, <1>4, <1>5, <1>6 DEF Stretch, Active
<1> QED
  BY <1>1, <1>2, <1>3, <1>7, RunStepKeeps

(* What is published is the outcome that the plan already has. *)
LEMMA AnnouncedRuns ==
  ASSUME IInv, RunsOK, NEW r \in Run, NEW i \in DOMAIN task[r], Announced(r, i)
  PROVE  RunsOK'
<1> DEFINE v == published[r] \cup {Announcement(mem[r].steps[i])}
<1>1. /\ mem[r] \in Plan /\ i \in DOMAIN mem[r].steps /\ TypeOK
      /\ task[r][i] = "announcing"
      /\ ProgressAt(mem[r], pc[r], "announcing", i)
      /\ OutcomeOK(mem[r], task[r], published[r]) =>
           OutcomeAt(mem[r], "announcing", published[r], i)
      /\ HaltOK(mem[r], pc[r], task[r])
      /\ mem = [mem EXCEPT ![r] = mem[r]]
  BY StepFacts DEF IInv, TypeOK, Announced, At
<1>2. /\ published' = [published EXCEPT ![r] = v] /\ published \in [Run -> SUBSET PlanEvent]
      /\ Goto(r, i, "finished") /\ UNCHANGED <<mem, pc>>
  BY <1>1 DEF Announced, TypeOK
<1>3. published'[r] = v /\ \A s \in Run \ {r} : published'[s] = published[s]
  BY <1>2
<1>4. ProgressAt(mem[r], pc[r], "finished", i)
  BY <1>1 DEF ProgressAt
<1>5. NoParallelGate(mem[r]) /\ pc[r] # "dead" /\ mem[r].status = "running" =>
        ~Fatal(mem[r], "finished", i)
  BY <1>1 DEF HaltOK, Fatal
<1>6. OutcomeOK(mem[r], task[r], published[r]) =>
        OutcomeAt(mem[r], "finished", v, i) /\ OutcomeAtRest(mem[r], v)
  BY <1>1 DEF OutcomeAt, OutcomeAtRest, Active, Fatal
<1>7. Stretch(mem[r], mem[r], pc[r], pc[r], task[r], "finished", published[r], v, i)
  <2> HIDE DEF v
  <2> QED
    BY <1>1, <1>4, <1>5, <1>6, SamePlanRefl DEF Stretch, Active
<1> QED
  BY <1>1, <1>2, <1>3, <1>7, RunStepKeeps

(* Every stretch of a step. *)
LEMMA StepActionRuns ==
  ASSUME IInv, RunsOK, NEW r \in Run, NEW i \in DOMAIN task[r], StepAction(r, i)
  PROVE  RunsOK'
<1>1. CASE GateOpens(r, i)
  BY <1>1, GateOpensRuns
<1>2. CASE Act(r, i)
  <2>1. task[r][i] = "handler" /\ Goto(r, i, "acted") /\ UNCHANGED <<mem, pc, published>>
    BY <1>2 DEF Act, At
  <2> QED
    BY <2>1, QuietStretch
<1>3. CASE PollApproved(r, i)
  <2>1. task[r][i] = "handler" /\ Goto(r, i, "acted") /\ UNCHANGED <<mem, pc, published>>
    BY <1>3 DEF PollApproved, At
  <2> QED
    BY <2>1, QuietStretch
<1>4. CASE StepSucceeds(r, i)
  BY <1>4, ResultRuns DEF StepSucceeds, At
<1>5. CASE StepFails(r, i)
  BY <1>5, ResultRuns DEF StepFails, At
<1>6. CASE Reported(r, i)
  BY <1>6, ReportedRuns
<1>7. CASE CriterionMet(r, i)
  BY <1>7, CriterionMetRuns
<1>8. CASE CriterionNotMet(r, i)
  <2>1. task[r][i] = "checking" /\ Goto(r, i, "finished") /\ UNCHANGED <<mem, pc, published>>
    BY <1>8 DEF CriterionNotMet, At
  <2> QED
    BY <2>1, QuietStretch
<1>9. CASE Announced(r, i)
  BY <1>9, AnnouncedRuns
<1> QED
  BY <1>1, <1>2, <1>3, <1>4, <1>5, <1>6, <1>7, <1>8, <1>9 DEF StepAction

(* An action of run r leaves the others alone. *)
LEMMA OneRun ==
  ASSUME RunsOK, NEW r \in Run,
         \A s \in Run \ {r} : /\ mem'[s] = mem[s] /\ pc'[s] = pc[s]
                              /\ task'[s] = task[s] /\ published'[s] = published[s],
         RunOK(mem'[r], pc'[r], task'[r], published'[r])
  PROVE  RunsOK'
<1>1. \A s \in Run \ {r} : RunOK(mem[s], pc[s], task[s], published[s])
  BY DEF RunsOK
<1>2. ASSUME NEW s \in Run \ {r} PROVE RunOK(mem'[s], pc'[s], task'[s], published'[s])
  BY <1>1
<1> QED
  BY <1>2 DEF RunsOK

(* A run that has just fetched the plan has started nothing of it. *)
LEMMA FetchRuns ==
  ASSUME TypeOK, RunsOK, NEW r \in Run, Fetch(r)
  PROVE  RunsOK'
<1> DEFINE t == [i \in DOMAIN store.steps |-> "none"]
<1>1. /\ mem'[r] = store /\ pc'[r] = "fetched" /\ task'[r] = t /\ published'[r] = published[r]
      /\ \A s \in Run \ {r} : /\ mem'[s] = mem[s] /\ pc'[s] = pc[s]
                              /\ task'[s] = task[s] /\ published'[s] = published[s]
  BY DEF Fetch, TypeOK
<1>2. published[r] = {}
  BY DEF RunsOK, RunOK, PhaseOK, Fetch
<1>3. \A i \in DOMAIN store.steps : t[i] = "none"
  OBVIOUS
<1>4. store \in Plan
  BY DEF TypeOK
<1> HIDE DEF t
<1>5. PhaseOK(store, "fetched", t, {})
  BY <1>3 DEF PhaseOK, AtRest
<1>6. ProgressOK(store, "fetched", t) /\ HaltOK(store, "fetched", t)
  BY <1>3 DEF ProgressOK, ProgressAt, HaltOK, Fatal
<1>7. InTurn(store, t) => OrderOK(store, t)
  <2>1. \A i \in DOMAIN store.steps : 1..i \subseteq DOMAIN store.steps
    BY <1>4, StepsLemma
  <2> QED
    BY <1>3, <2>1 DEF InTurn, OrderOK, FoundIn, Active
<1>8. RunOK(store, "fetched", t, {})
  BY <1>5, <1>6, <1>7 DEF RunOK, TurnOK
<1> QED
  BY <1>1, <1>2, <1>8, OneRun

(* With the steps as they are, the order in which they are taken is, too. *)
LEMMA SameSteps ==
  ASSUME NEW p \in Plan, NEW q \in Plan, q.steps = p.steps, NEW t
  PROVE  /\ SamePlan(p, q)
         /\ AtRest(q, t) <=> AtRest(p, t)
         /\ InTurn(q, t) <=> InTurn(p, t)
         /\ OrderOK(q, t) <=> OrderOK(p, t)
         /\ NoParallelGate(q) <=> NoParallelGate(p)
         /\ \A i \in DOMAIN p.steps : \A x : Fatal(q, x, i) <=> Fatal(p, x, i)
<1>1. SamePlan(p, q)
  BY DEF SamePlan, SameShape
<1>2. InTurn(q, t) <=> InTurn(p, t)
  BY <1>1, SameTurn
<1> QED
  BY <1>1, <1>2, SamePlanLemma DEF AtRest, OrderOK, Fatal

(* The run begins: the plan is running, and nothing is published. *)
LEMMA ExecuteRuns ==
  ASSUME TypeOK, RunsOK, NEW r \in Run, Execute(r)
  PROVE  RunsOK'
<1> DEFINE p == mem[r]
           q == SetStatus(p, "running")
           t == task[r]
<1>1. p \in Plan /\ q \in Plan /\ q.steps = p.steps /\ q.status = "running"
  BY SetStatusLemma, SetStatusPlan DEF TypeOK, PlanStatus
<1>2. /\ mem'[r] = q /\ pc'[r] = "starting" /\ task'[r] = t /\ published'[r] = published[r]
      /\ \A s \in Run \ {r} : /\ mem'[s] = mem[s] /\ pc'[s] = pc[s]
                              /\ task'[s] = task[s] /\ published'[s] = published[s]
  BY DEF Execute, TypeOK
<1>3. RunOK(p, "fetched", t, published[r])
  BY DEF RunsOK, Execute
<1> HIDE DEF p, q, t
<1>4. published[r] = {} /\ \A i \in DOMAIN p.steps : t[i] = "none"
  BY <1>3 DEF RunOK, PhaseOK
<1>5. PhaseOK(q, "starting", t, {})
  BY <1>1, <1>4 DEF PhaseOK, AtRest
<1>6. ProgressOK(q, "starting", t) /\ HaltOK(q, "starting", t)
  BY <1>1, <1>4 DEF ProgressOK, ProgressAt, HaltOK, Fatal
<1>7. InTurn(q, t) => OrderOK(q, t)
  BY <1>1, <1>3, SameSteps DEF RunOK, TurnOK
<1>8. OutcomeOK(q, t, {})
  BY <1>1, <1>4 DEF OutcomeOK, OutcomeAtRest, OutcomeAt, EventOf, Fatal, Active
<1>9. RunOK(q, "starting", t, {})
  BY <1>5, <1>6, <1>7, <1>8 DEF RunOK, TurnOK
<1> QED
  BY <1>2, <1>4, <1>9, OneRun

(* execute() goes on between two waves: the plan is as it was. *)
LEMMA MovesOn ==
  ASSUME NEW p, NEW c, NEW d, NEW t, NEW u, RunOK(p, c, t, u), AtRest(p, t),
         c \notin {"idle", "fetched", "dead"},
         d \in {"loop", "joined", "done"},
         d = "done" /\ InTurn(p, t) => OpenOK(p, t)
  PROVE  RunOK(p, d, t, u)
<1>1. PhaseOK(p, d, t, u)
  BY DEF PhaseOK
<1>2. ProgressOK(p, d, t) /\ HaltOK(p, d, t)
  BY DEF RunOK, ProgressOK, ProgressAt, HaltOK
<1>3. TurnOK(p, d, t, u)
  BY DEF RunOK, TurnOK
<1> QED
  BY <1>1, <1>2, <1>3 DEF RunOK

(* A save by execute() changes no plan in memory; the last one is of a plan that
   has succeeded. *)
LEMMA SaveLandsRuns ==
  ASSUME TypeOK, RunsOK, NEW r \in Run, SaveLands(r)
  PROVE  RunsOK'
<1>1. /\ pc[r] \in {"starting", "joined", "finishing"}
      /\ pc'[r] = (IF pc[r] = "finishing" THEN "done" ELSE "loop")
      /\ \A s \in Run \ {r} : pc'[s] = pc[s]
      /\ UNCHANGED <<mem, task, published>>
  BY DEF SaveLands, TypeOK
<1>2. RunOK(mem[r], pc[r], task[r], published[r])
  BY DEF RunsOK
<1>3. AtRest(mem[r], task[r]) /\ (pc[r] = "finishing" => mem[r].status = "succeeded")
  BY <1>1, <1>2 DEF RunOK, PhaseOK
<1>4. pc'[r] = "done" => OpenOK(mem[r], task[r])
  BY <1>1, <1>3 DEF OpenOK, EventOf
<1>5. RunOK(mem[r], pc'[r], task[r], published[r])
  <2> DEFINE d == pc'[r]
  <2>1. d \in {"loop", "joined", "done"} /\ (d = "done" => OpenOK(mem[r], task[r]))
    BY <1>1, <1>4
  <2> HIDE DEF d
  <2>2. RunOK(mem[r], d, task[r], published[r])
    BY <1>1, <1>2, <1>3, <2>1, MovesOn
  <2> QED
    BY <2>2 DEF d
<1> QED
  BY <1>1, <1>5, OneRun

(* The wave has joined. *)
LEMMA WaveJoinsRuns ==
  ASSUME TypeOK, RunsOK, NEW r \in Run, WaveJoins(r)
  PROVE  RunsOK'
<1>1. /\ pc[r] = "wave" /\ pc'[r] = "joined" /\ \A s \in Run \ {r} : pc'[s] = pc[s]
      /\ UNCHANGED <<mem, task, published>>
  BY DEF WaveJoins, TypeOK
<1>2. AtRest(mem[r], task[r])
  BY DEF WaveJoins, TypeOK, AtRest
<1>3. RunOK(mem[r], "wave", task[r], published[r])
  BY <1>1 DEF RunsOK
<1>4. RunOK(mem[r], "joined", task[r], published[r])
  BY <1>2, <1>3, MovesOn
<1> QED
  BY <1>1, <1>4, OneRun

(* Why the loop is left without an outcome: every step is one that waits for a
   failed one, or for one that the run found not succeeded.  The witness is
   before the first step that is not complete, or that step itself. *)
LEMMA StuckLemma ==
  ASSUME NEW p \in Plan, NEW t \in [DOMAIN p.steps -> TaskState], NEW u,
         RunOK(p, "loop", t, u), InTurn(p, t),
         ~IsComplete(p), ReadySteps(p) = {}, p.status = "running"
  PROVE  OpenOK(p, t)
<1> DEFINE X == {i \in DOMAIN p.steps : p.steps[i].status \notin {"succeeded", "skipped"}}
<1>1. /\ DOMAIN p.steps = 1..Len(p.steps) /\ Len(p.steps) \in Nat
      /\ \A i \in DOMAIN p.steps : p.steps[i] \in PlanStep
  BY StepsLemma
<1>2. /\ OutcomeOK(p, t, u) /\ AtRest(p, t) /\ ProgressOK(p, "loop", t)
  BY DEF RunOK, TurnOK, PhaseOK
(* A step that is over was found so, or it failed. *)
<1>3. ASSUME NEW i \in DOMAIN p.steps, p.steps[i].status \notin {"pending", "succeeded"}
      PROVE  OpenOK(p, t)
  <2>1. CASE t[i] = "none"
    BY <1>3, <2>1 DEF OpenOK, FoundIn
  <2>2. CASE t[i] = "finished"
    <3>1. p.steps[i].status = "failed"
      BY <1>2, <1>3, <2>2 DEF ProgressOK, ProgressAt
    <3>2. OutcomeAt(p, t[i], u, i)
      BY <1>2 DEF OutcomeOK
    <3> QED
      BY <2>2, <3>1, <3>2 DEF OutcomeAt, Fatal, OpenOK, FailedOn
  <2> QED
    BY <1>2, <2>1, <2>2 DEF AtRest
<1>4. CASE \A i \in X : p.steps[i].status = "pending"
  <2>1. X \in SUBSET Nat /\ X # {}
    BY <1>1 DEF IsComplete
  <2>2. PICK f \in X : \A n \in X : f <= n
    BY <2>1, LeastLemma
  <2>3. f \in DOMAIN p.steps /\ p.steps[f].status = "pending" /\ f \notin ReadySteps(p)
    BY <1>4, <2>2
  <2>4. ~(p.steps[f].dependsOn \subseteq SucceededIds(p))
    BY <2>3 DEF ReadySteps
  <2>5. f # 1 /\ p.steps[f].dependsOn = {p.steps[f-1].id}
    BY <2>3, <2>4 DEF InTurn, IsChain
  <2>6. f-1 \in DOMAIN p.steps /\ f-1 \notin X
    BY <1>1, <2>2, <2>3, <2>5
  <2>7. p.steps[f-1].status \in {"succeeded", "skipped"}
    BY <2>6
  <2>8. p.steps[f-1].status # "succeeded"
    BY <2>4, <2>5, <2>6 DEF SucceededIds
  <2> QED
    BY <1>3, <2>6, <2>7, <2>8
<1>5. CASE \E i \in X : p.steps[i].status # "pending"
  BY <1>3, <1>5
<1> QED
  BY <1>4, <1>5

(* The loop is left. *)
LEMMA FinishRuns ==
  ASSUME TypeOK, RunsOK, NEW r \in Run, Finish(r)
  PROVE  RunsOK'
<1> DEFINE p == mem[r]
           t == task[r]
           u == published[r]
<1>1. /\ p \in Plan /\ t \in [DOMAIN p.steps -> TaskState]
      /\ pc[r] = "loop"
      /\ task' = task /\ published' = published
  BY DEF Finish, TypeOK
<1>2. RunOK(p, "loop", t, u)
  BY <1>1 DEF RunsOK
<1>3. AtRest(p, t)
  BY <1>2 DEF RunOK, PhaseOK
<1>4. CASE p.status = "running" /\ IsComplete(p)
  <2> DEFINE q == SetStatus(p, "succeeded")
  <2>1. q \in Plan /\ q.steps = p.steps /\ q.status = "succeeded"
    BY <1>1, SetStatusLemma, SetStatusPlan DEF PlanStatus
  <2>2. /\ mem'[r] = q /\ pc'[r] = "finishing"
        /\ \A s \in Run \ {r} : mem'[s] = mem[s] /\ pc'[s] = pc[s]
    BY <1>1, <1>4 DEF Finish, TypeOK
  <2> HIDE DEF q, p, t, u
  <2>3. PhaseOK(q, "finishing", t, u)
    BY <1>1, <1>3, <2>1, SameSteps DEF PhaseOK
  <2>4. ProgressOK(q, "finishing", t)
    BY <1>2, <2>1 DEF RunOK, ProgressOK, ProgressAt
  <2>5. HaltOK(q, "finishing", t)
    BY <2>1 DEF HaltOK
  <2>6. InTurn(q, t) => OrderOK(q, t) /\ OutcomeOK(q, t, u)
    <3>1. SUFFICES ASSUME InTurn(q, t) PROVE OrderOK(q, t) /\ OutcomeOK(q, t, u)
      OBVIOUS
    <3>2. InTurn(p, t) /\ OrderOK(p, t) /\ OutcomeOK(p, t, u)
      BY <1>1, <1>2, <2>1, <3>1, SameSteps DEF RunOK, TurnOK
    <3>3. u = {}
      BY <1>3, <1>4, <3>2 DEF OutcomeOK, OutcomeAtRest, EventOf
    <3>4. \A i \in DOMAIN p.steps : t[i] \notin Active
      BY <1>3 DEF AtRest, Active
    <3>5. OutcomeOK(q, t, u)
      BY <2>1, <3>3, <3>4 DEF OutcomeOK, OutcomeAtRest, OutcomeAt, EventOf, Active
    <3> QED
      BY <1>1, <2>1, <3>2, <3>5, SameSteps
  <2>7. RunOK(q, "finishing", t, u)
    BY <2>3, <2>4, <2>5, <2>6 DEF RunOK, TurnOK
  <2>8. RunOK(mem'[r], pc'[r], task'[r], published'[r])
    BY <1>1, <2>2, <2>7 DEF t, u
  <2> QED
    BY <1>1, <2>2, <2>8, OneRun
<1>5. CASE ~(p.status = "running" /\ IsComplete(p))
  <2>1. /\ mem' = mem /\ pc'[r] = "done" /\ \A s \in Run \ {r} : pc'[s] = pc[s]
        /\ ~GoesOn(p) \/ ReadySteps(p) = {}
    BY <1>5 DEF Finish, TypeOK
  <2> HIDE DEF p, t, u
  <2>2. ASSUME InTurn(p, t) PROVE OpenOK(p, t)
    <3>1. OutcomeAtRest(p, u)
      BY <1>2, <1>3, <2>2 DEF RunOK, TurnOK, OutcomeOK
    <3>2. CASE p.status # "running"
      BY <3>1, <3>2 DEF OutcomeAtRest, OpenOK
    <3>3. CASE p.status = "running"
      BY <1>1, <1>2, <1>5, <2>1, <2>2, <3>3, StuckLemma DEF GoesOn
    <3> QED
      BY <3>2, <3>3
  <2>3. RunOK(p, "done", t, u)
    BY <1>2, <1>3, <2>2, MovesOn
  <2>4. RunOK(mem'[r], pc'[r], task'[r], published'[r])
    BY <1>1, <2>1, <2>3 DEF p, t, u
  <2> QED
    BY <1>1, <2>1, <2>4, OneRun
<1> QED
  BY <1>4, <1>5

(* A run that takes its steps one by one has no two of them ready: the earlier
   one would be pending behind a step that has succeeded. *)
LEMMA OneReady ==
  ASSUME NEW p \in Plan, NEW t, InTurn(p, t), OrderOK(p, t), NEW k \in ReadySteps(p)
  PROVE  /\ \A i \in ReadySteps(p) : i = k
         /\ \A i \in 1..k : i # k => p.steps[i].status # "pending"
<1>1. /\ DOMAIN p.steps = 1..Len(p.steps) /\ Len(p.steps) \in Nat
      /\ ReadySteps(p) \subseteq DOMAIN p.steps
      /\ \A i \in ReadySteps(p) : /\ p.steps[i].status = "pending"
                                  /\ p.steps[i].dependsOn \subseteq SucceededIds(p)
  BY StepsLemma DEF ReadySteps
<1>2. ASSUME NEW i \in ReadySteps(p), NEW j \in 1..i, j # i
      PROVE  p.steps[j].status # "pending"
  <2>1. i \in DOMAIN p.steps /\ i-1 \in DOMAIN p.steps /\ i # 1 /\ j \in 1..(i-1)
    BY <1>1, <1>2
  <2>2. p.steps[i-1].id \in SucceededIds(p)
    BY <1>1, <2>1 DEF InTurn, IsChain
  <2>3. PICK m \in DOMAIN p.steps : /\ p.steps[m].status = "succeeded"
                                    /\ p.steps[m].id = p.steps[i-1].id
    BY <2>2 DEF SucceededIds
  <2>4. m = i-1
    BY <2>1, <2>3 DEF InTurn, IsChain
  <2> QED
    BY <2>1, <2>3, <2>4 DEF OrderOK
<1>3. ASSUME NEW i \in ReadySteps(p) PROVE i = k
  <2>1. i \in Nat /\ k \in Nat /\ i >= 1 /\ k >= 1
    BY <1>1
  <2>2. ~(i < k) /\ ~(k < i)
    BY <1>1, <1>2, <2>1
  <2> QED
    BY <2>1, <2>2
<1> QED
  BY <1>2, <1>3

(* A wave starts: its steps have no task yet, and the plan no outcome. *)
LEMMA LaunchRuns ==
  ASSUME NEW p \in Plan, NEW t \in [DOMAIN p.steps -> TaskState], NEW u, NEW y,
         RunOK(p, "loop", t, u), GoesOn(p), ReadySteps(p) # {},
         \A i \in DOMAIN p.steps :
           y[i] = IF i \in ReadySteps(p) THEN FirstTask(p.steps[i]) ELSE t[i]
  PROVE  RunOK(Launch(p, ReadySteps(p)), "wave", y, u)
<1> DEFINE R == ReadySteps(p)
           q == Launch(p, R)
<1>1. /\ DOMAIN p.steps = 1..Len(p.steps) /\ Len(p.steps) \in Nat
      /\ \A i \in DOMAIN p.steps : p.steps[i] \in PlanStep
  BY StepsLemma
<1>2. /\ q \in Plan /\ SamePlan(p, q) /\ q.status = "running"
      /\ \A i \in DOMAIN p.steps : q.steps[i].status =
           IF i \in R THEN Launched(p.steps[i]) ELSE p.steps[i].status
  BY LaunchLemma, LaunchPlan DEF GoesOn
<1>3. /\ p.status = "running" /\ R \subseteq DOMAIN p.steps
      /\ \A i \in R : p.steps[i].status = "pending"
  BY DEF GoesOn, ReadySteps
<1>4. /\ AtRest(p, t) /\ ProgressOK(p, "loop", t) /\ HaltOK(p, "loop", t)
      /\ TurnOK(p, "loop", t, u)
  BY DEF RunOK, PhaseOK
<1>5. \A i \in R : t[i] = "none"
  BY <1>3, <1>4 DEF ProgressOK, ProgressAt
<1>6. /\ DOMAIN q.steps = DOMAIN p.steps
      /\ \A i \in DOMAIN p.steps : /\ q.steps[i].isApprovalGate = p.steps[i].isApprovalGate
                                   /\ q.steps[i].onFailure = p.steps[i].onFailure
  BY <1>2 DEF SamePlan, SameShape
<1>7. ASSUME NEW i \in R
      PROVE  \/ /\ y[i] = "saving" /\ q.steps[i].status = "waiting_approval"
                /\ q.steps[i].isApprovalGate
             \/ /\ y[i] = "handler" /\ q.steps[i].status = "running"
             \/ /\ y[i] = "reporting" /\ q.steps[i].status = "failed"
                /\ ~q.steps[i].isApprovalGate
  <2>1. p.steps[i].isApprovalGate \in BOOLEAN
    BY <1>1, <1>3 DEF PlanStep
  <2>2. y[i] = FirstTask(p.steps[i]) /\ q.steps[i].status = Launched(p.steps[i])
    BY <1>2, <1>3
  <2> QED
    BY <1>3, <1>6, <2>1, <2>2 DEF FirstTask, Launched
<1>8. \A i \in DOMAIN p.steps \ R : y[i] = t[i] /\ q.steps[i].status = p.steps[i].status
  BY <1>2
<1>9. \A i \in R : y[i] \in {"saving", "handler", "reporting"} /\ q.steps[i].status # "pending"
  BY <1>7
<1>10. \A i \in DOMAIN p.steps \ R : y[i] \in {"none", "finished"}
  BY <1>4, <1>8 DEF AtRest
<1> HIDE DEF R, q
<1>11. PhaseOK(q, "wave", y, u)
  BY DEF PhaseOK
<1>12. ProgressOK(q, "wave", y)
  <2>1. ASSUME NEW i \in R PROVE ProgressAt(q, "wave", y[i], i)
    BY <1>7 DEF ProgressAt
  <2>2. ASSUME NEW i \in DOMAIN p.steps \ R PROVE ProgressAt(q, "wave", y[i], i)
    BY <1>4, <1>6, <1>8 DEF ProgressOK, ProgressAt
  <2> QED
    BY <1>6, <2>1, <2>2 DEF ProgressOK
<1>13. \A i \in DOMAIN p.steps : Fatal(q, y[i], i) => i \notin R /\ Fatal(p, t[i], i)
  BY <1>6, <1>8, <1>9 DEF Fatal
<1>14. HaltOK(q, "wave", y)
  BY <1>2, <1>3, <1>4, <1>6, <1>13, SamePlanLemma DEF HaltOK
<1>15. TurnOK(q, "wave", y, u)
  <2>1. SUFFICES ASSUME InTurn(q, y) PROVE OrderOK(q, y) /\ OutcomeOK(q, y, u)
    BY DEF TurnOK
  <2>2. InTurn(p, t)
    <3>1. \A j \in DOMAIN p.steps : (y[j] = "none" /\ q.steps[j].status # "pending") <=>
                                   (t[j] = "none" /\ p.steps[j].status # "pending")
      BY <1>3, <1>8, <1>9
    <3>2. q \in Plan /\ SamePlan(p, q)
      BY <1>2
    <3>3. InTurn(q, y) <=> InTurn(p, t)
      BY <3>1, <3>2, SameTurn
    <3> QED
      BY <2>1, <3>3
  <2>3. OrderOK(p, t) /\ OutcomeOK(p, t, u)
    BY <1>4, <2>2 DEF TurnOK
  <2>4. PICK k \in R : TRUE
    BY DEF R
  <2>5. /\ \A i \in R : i = k
        /\ \A i \in 1..k : i # k => p.steps[i].status # "pending"
    BY <2>2, <2>3, OneReady DEF R
  <2>6. OrderOK(q, y)
    <3>1. \A i, j \in DOMAIN q.steps : y[i] \in Active /\ y[j] \in Active => i = j
      BY <1>6, <1>10, <2>5 DEF Active
    <3>2. ASSUME NEW i \in DOMAIN q.steps, q.steps[i].status # "pending", NEW j \in 1..i
          PROVE  q.steps[j].status # "pending"
      <4>1. j \in DOMAIN p.steps /\ i \in DOMAIN p.steps
        BY <1>1, <1>6
      <4>2. CASE i \in R
        BY <1>8, <1>9, <2>5, <4>1, <4>2
      <4>3. CASE i \notin R
        BY <1>8, <1>9, <2>3, <3>2, <4>1, <4>3 DEF OrderOK
      <4> QED
        BY <4>2, <4>3
    <3> QED
      BY <3>1, <3>2 DEF OrderOK
  <2>7. u = {}
    BY <1>3, <1>4, <2>3 DEF OutcomeOK, OutcomeAtRest, EventOf
  <2>8. ~AtRest(q, y)
    BY <1>3, <1>6, <1>9, <2>4 DEF AtRest
  <2>9. ASSUME NEW i \in DOMAIN p.steps PROVE OutcomeAt(q, y[i], u, i)
    <3>1. ~Fatal(q, y[i], i)
      BY <1>3, <1>13, <2>3 DEF OutcomeOK, OutcomeAt, EventOf
    <3>2. y[i] # "announcing"
      BY <1>9, <1>10
    <3> QED
      BY <1>2, <2>7, <3>1, <3>2 DEF OutcomeAt, EventOf
  <2> QED
    BY <1>6, <2>6, <2>8, <2>9 DEF OutcomeOK
<1>16. RunOK(q, "wave", y, u)
  BY <1>11, <1>12, <1>14, <1>15 DEF RunOK
<1> QED
  BY <1>16 DEF q, R

(* What a run makes of the ready steps it starts. *)
LEMMA StartWaveRuns ==
  ASSUME TypeOK, RunsOK, NEW r \in Run, StartWave(r)
  PROVE  RunsOK'
<1> DEFINE p == mem[r]
           t == task[r]
           u == published[r]
           y == [i \in DOMAIN p.steps |-> IF i \in ReadySteps(p) THEN FirstTask(p.steps[i])
                                          ELSE t[i]]
<1>1. p \in Plan /\ t \in [DOMAIN p.steps -> TaskState] /\ pc[r] = "loop"
  BY DEF StartWave, TypeOK
<1>2. /\ mem'[r] = Launch(p, ReadySteps(p)) /\ pc'[r] = "wave" /\ task'[r] = y
      /\ published'[r] = u
      /\ \A s \in Run \ {r} : /\ mem'[s] = mem[s] /\ pc'[s] = pc[s]
                              /\ task'[s] = task[s] /\ published'[s] = published[s]
      /\ GoesOn(p) /\ ReadySteps(p) # {}
  BY DEF StartWave, TypeOK
<1>3. RunOK(p, "loop", t, u)
  BY <1>1 DEF RunsOK
<1>4. \A i \in DOMAIN p.steps :
        y[i] = IF i \in ReadySteps(p) THEN FirstTask(p.steps[i]) ELSE t[i]
  OBVIOUS
<1> HIDE DEF p, t, u, y
<1>5. RunOK(Launch(p, ReadySteps(p)), "wave", y, u)
  BY <1>1, <1>2, <1>3, <1>4, LaunchRuns
<1>6. RunOK(mem'[r], pc'[r], task'[r], published'[r])
  BY <1>2, <1>5
<1> QED
  BY <1>2, <1>6, OneRun

(* A run that is left by an exception promises less. *)
LEMMA DeadRun ==
  ASSUME NEW p, NEW c, NEW t, NEW u, RunOK(p, c, t, u)
  PROVE  RunOK(p, "dead", t, u)
<1>1. PhaseOK(p, "dead", t, u) /\ HaltOK(p, "dead", t)
  BY DEF PhaseOK, HaltOK
<1>2. ProgressOK(p, "dead", t)
  BY DEF RunOK, ProgressOK, ProgressAt
<1>3. TurnOK(p, "dead", t, u)
  BY DEF RunOK, TurnOK
<1> QED
  BY <1>1, <1>2, <1>3 DEF RunOK

(* A step whose task ends with an exception. *)
LEMMA StepDies ==
  ASSUME IInv, RunsOK, NEW r \in Run, NEW i \in DOMAIN task[r], task[r][i] \in Active,
         Goto(r, i, "finished"), Dead(r), UNCHANGED <<mem, published>>
  PROVE  RunsOK'
<1>1. /\ mem[r] \in Plan /\ i \in DOMAIN mem[r].steps /\ TypeOK
      /\ ProgressAt(mem[r], pc[r], task[r][i], i)
      /\ mem = [mem EXCEPT ![r] = mem[r]]
  BY StepFacts DEF IInv, TypeOK
<1>2. pc'[r] = "dead" /\ \A s \in Run \ {r} : pc'[s] = pc[s]
  BY <1>1 DEF Dead, TypeOK
<1>3. ProgressAt(mem[r], "dead", "finished", i)
  BY <1>1 DEF ProgressAt, Active
<1>4. Stretch(mem[r], mem[r], pc[r], "dead", task[r], "finished", published[r], published[r], i)
  BY <1>1, <1>3, SamePlanRefl DEF Stretch
<1> QED
  BY <1>1, <1>2, <1>4, RunStepKeeps

(* A step of a save under way waits for it. *)
LEMMA SavingStep ==
  ASSUME IInv, NEW w \in saving
  PROVE  /\ w.run \in Run /\ w.step \in DOMAIN task[w.run]
         /\ task[w.run][w.step] = "saving"
<1>1. w.run \in Run /\ DOMAIN task[w.run] = DOMAIN mem[w.run].steps
  BY DEF IInv, TypeOK
<1> QED
  BY <1>1 DEF IInv, SavingOK

(* The service dies: every task is over, and so is every run that had begun. *)
LEMMA CrashRuns ==
  ASSUME TypeOK, RunsOK, Crash
  PROVE  RunsOK'
<1> SUFFICES ASSUME NEW r \in Run
             PROVE  RunOK(mem[r], pc'[r], task'[r], published[r])
  BY DEF RunsOK, Crash
<1> DEFINE p == mem[r]
           t == task[r]
           u == published[r]
           y == [i \in DOMAIN t |-> IF t[i] = "none" THEN "none" ELSE "finished"]
<1>1. /\ t \in [DOMAIN p.steps -> TaskState] /\ task'[r] = y
      /\ pc'[r] = IF pc[r] \in {"idle", "fetched", "done"} THEN pc[r] ELSE "dead"
  BY DEF Crash, TypeOK
<1>2. RunOK(p, pc[r], t, u)
  BY DEF RunsOK
<1> HIDE DEF p, t, u
<1>3. CASE pc[r] \in {"idle", "fetched", "done"}
  <2>1. AtRest(p, t)
    BY <1>2, <1>3 DEF RunOK, PhaseOK
  <2>2. y = t
    BY <1>1, <2>1 DEF AtRest
  <2> QED
    BY <1>1, <1>2, <1>3, <2>2 DEF p, u
<1>4. CASE pc[r] \notin {"idle", "fetched", "done"}
  <2>1. RunOK(p, "dead", t, u)
    BY <1>2, DeadRun
  <2>2. \A i \in DOMAIN p.steps : /\ y[i] \in {"none", "finished"}
                                  /\ y[i] = "none" <=> t[i] = "none"
    BY <1>1
  <2> HIDE DEF y
  <2>3. PhaseOK(p, "dead", y, u) /\ HaltOK(p, "dead", y)
    BY DEF PhaseOK, HaltOK
  <2>4. ProgressOK(p, "dead", y)
    BY <2>1, <2>2 DEF RunOK, ProgressOK, ProgressAt
  <2>5. InTurn(p, y) => OrderOK(p, y)
    <3>1. FoundIn(p, y) = FoundIn(p, t)
      BY <2>2 DEF FoundIn
    <3>2. InTurn(p, y) => OrderOK(p, t)
      BY <2>1, <3>1 DEF RunOK, TurnOK, InTurn
    <3> QED
      BY <2>2, <3>2 DEF OrderOK, Active
  <2>6. RunOK(p, "dead", y, u)
    BY <2>3, <2>4, <2>5 DEF RunOK, TurnOK
  <2> QED
    BY <1>1, <1>4, <2>6 DEF p, u
<1> QED
  BY <1>3, <1>4

(* Every action. *)
LEMMA RunsStep == IInv /\ RunsOK /\ [Next]_vars => RunsOK'
<1> SUFFICES ASSUME IInv, RunsOK, [Next]_vars PROVE RunsOK'
  OBVIOUS
<1>0. TypeOK
  BY DEF IInv
<1>1. ASSUME NEW r \in Run, Fetch(r) PROVE RunsOK'
  BY <1>0, <1>1, FetchRuns
<1>2. ASSUME NEW r \in Run, RunAction(r) PROVE RunsOK'
  <2>1. CASE Execute(r)
    BY <1>0, <2>1, ExecuteRuns
  <2>2. CASE SaveLands(r)
    BY <1>0, <2>2, SaveLandsRuns
  <2>3. CASE StartWave(r)
    BY <1>0, <2>3, StartWaveRuns
  <2>4. CASE WaveJoins(r)
    BY <1>0, <2>4, WaveJoinsRuns
  <2>5. CASE Finish(r)
    BY <1>0, <2>5, FinishRuns
  <2>6. ASSUME NEW w \in saving, GateSaveLands(w) PROVE RunsOK'
    <3>1. /\ w.run \in Run /\ w.step \in DOMAIN task[w.run]
          /\ task[w.run][w.step] = "saving"
      BY SavingStep
    <3>2. Goto(w.run, w.step, "saved") /\ UNCHANGED <<mem, pc, published>>
      BY <2>6 DEF GateSaveLands
    <3> QED
      BY <3>1, <3>2, QuietStretch
  <2>7. ASSUME NEW i \in DOMAIN task[r], StepAction(r, i) PROVE RunsOK'
    BY <2>7, StepActionRuns
  <2> QED
    BY <1>2, <2>1, <2>2, <2>3, <2>4, <2>5, <2>6, <2>7 DEF RunAction
<1>3. CASE ApiAction
  <2>1. UNCHANGED <<mem, pc, task, published>>
    BY <1>3 DEF ApiAction, ApproveReads, DeleteReads, AppendReads, Reads, RequestWrites
  <2> QED
    BY <2>1 DEF RunsOK
<1>4. CASE Failure
  <2>1. ASSUME NEW r \in Run, SaveFails(r) PROVE RunsOK'
    <3>1. /\ pc'[r] = "dead" /\ \A s \in Run \ {r} : pc'[s] = pc[s]
          /\ UNCHANGED <<mem, task, published>>
      BY <1>0, <2>1 DEF SaveFails, Dead, TypeOK
    <3>2. RunOK(mem[r], pc[r], task[r], published[r])
      BY DEF RunsOK
    <3>3. RunOK(mem[r], "dead", task[r], published[r])
      BY <3>2, DeadRun
    <3> QED
      BY <3>1, <3>3, OneRun
  <2>2. ASSUME NEW r \in Run, NEW i \in DOMAIN task[r], EmitFails(r, i) PROVE RunsOK'
    <3>1. /\ task[r][i] \in Active /\ Goto(r, i, "finished") /\ Dead(r)
          /\ UNCHANGED <<mem, published>>
      BY <2>2 DEF EmitFails, At, Active
    <3> QED
      BY <3>1, StepDies
  <2>3. ASSUME NEW w \in saving, GateSaveFails(w) PROVE RunsOK'
    <3>1. /\ w.run \in Run /\ w.step \in DOMAIN task[w.run]
          /\ task[w.run][w.step] \in Active
      BY SavingStep DEF Active
    <3>2. /\ Goto(w.run, w.step, "finished") /\ Dead(w.run)
          /\ UNCHANGED <<mem, published>>
      BY <2>3 DEF GateSaveFails
    <3> QED
      BY <3>1, <3>2, StepDies
  <2>4. CASE Crash
    BY <1>0, <2>4, CrashRuns
  <2> QED
    BY <1>4, <2>1, <2>2, <2>3, <2>4 DEF Failure
<1>5. CASE UNCHANGED vars
  BY <1>5 DEF vars, RunsOK
<1> QED
  BY <1>1, <1>2, <1>3, <1>4, <1>5 DEF Next

-------------------------------------------------------------------------------
(* What is in Redis *)

(* A task is under way only in a wave, or behind an exception. *)
LEMMA Busy ==
  ASSUME IInv, RunsOK, NEW r \in Run, NEW i \in DOMAIN task[r],
         task[r][i] \notin {"none", "finished"}
  PROVE  pc[r] \in {"wave", "dead"}
<1>1. i \in DOMAIN mem[r].steps
  BY DEF IInv, TypeOK
<1>2. PhaseOK(mem[r], pc[r], task[r], published[r])
  BY DEF RunsOK, RunOK
<1> QED
  BY <1>1, <1>2 DEF PhaseOK, AtRest

(* A stretch of a step concerns a task under way, and neither Redis nor
   execute(). *)
LEMMA StretchOfTask ==
  ASSUME NEW r \in Run, NEW i \in DOMAIN task[r], StepAction(r, i)
  PROVE  /\ task[r][i] \notin {"none", "finished", "saving"}
         /\ UNCHANGED <<store, pc, calls, requests, saving>>
BY DEF StepAction, GateOpens, Act, PollApproved, StepSucceeds, StepFails, Result, Reported,
       CriterionMet, CriterionNotMet, Announced, At

LEMMA StoreStep == IInv /\ RunsOK /\ StoreOK /\ [Next]_vars => StoreOK'
<1> SUFFICES ASSUME IInv, RunsOK, StoreOK, [Next]_vars PROVE StoreOK'
  OBVIOUS
<1>0. TypeOK /\ calls \in Nat
  BY BoundsAssumption DEF IInv, TypeOK
<1>1. calls' = 0 => calls = 0 /\ requests' \subseteq requests
  <2>1. ASSUME NEW p, Reads(p) PROVE calls' # 0
    BY <1>0, <2>1 DEF Reads
  <2>2. CASE ApiAction
    <3>1. ASSUME NEW q \in requests, RequestWrites(q)
          PROVE  calls' = calls /\ requests' \subseteq requests
      BY <3>1 DEF RequestWrites
    <3> QED
      BY <2>1, <2>2, <3>1 DEF ApiAction, ApproveReads, DeleteReads, AppendReads
  <2>3. CASE \E r \in Run : Fetch(r) \/ RunAction(r)
    BY <2>3, StretchOfTask DEF Fetch, RunAction, Execute, SaveLands, StartWave, WaveJoins,
       Finish, GateSaveLands
  <2>4. CASE Failure
    BY <2>4 DEF Failure, SaveFails, EmitFails, GateSaveFails, Crash
  <2> QED
    BY <2>2, <2>3, <2>4 DEF Next, vars
<1>2. calls' = 0 => requests' = {}
  BY <1>1 DEF StoreOK
<1>3. ASSUME NEW r \in Run, calls' = 0, \A s \in Run \ {r} : pc'[s] = "idle",
             pc'[r] \in {"loop", "done"}
      PROVE  store' = mem'[r]
  <2>1. requests = {}
    BY <1>1, <1>3 DEF StoreOK
  <2>2. (\A s \in Run \ {r} : pc[s] = "idle") /\ pc[r] \in {"loop", "done"} => store = mem[r]
    BY <1>1, <1>3 DEF StoreOK, Alone
  <2>3. ASSUME NEW s \in Run, Fetch(s) PROVE FALSE
    BY <1>0, <1>3, <2>3 DEF Fetch, TypeOK
  <2>4. ASSUME NEW s \in Run, NEW i \in DOMAIN task[s],
               task[s][i] \notin {"none", "finished"}, pc' = pc
        PROVE  FALSE
    <3>1. pc[s] \in {"wave", "dead"}
      BY <2>4, Busy
    <3> QED
      BY <1>3, <2>4, <3>1
  <2>5. ASSUME NEW s \in Run, RunAction(s) PROVE store' = mem'[r]
    <3>1. CASE Execute(s)
      BY <1>0, <1>3, <3>1 DEF Execute, TypeOK
    <3>2. CASE SaveLands(s)
      <4>1. s = r
        BY <1>0, <1>3, <3>2 DEF SaveLands, TypeOK
      <4> QED
        BY <3>2, <4>1 DEF SaveLands
    <3>3. CASE StartWave(s)
      BY <1>0, <1>3, <3>3 DEF StartWave, TypeOK
    <3>4. CASE WaveJoins(s)
      BY <1>0, <1>3, <3>4 DEF WaveJoins, TypeOK
    <3>5. CASE Finish(s)
      <4>1. pc[s] = "loop" /\ pc'[s] \in {"finishing", "done"} /\ store' = store
            /\ \A z \in Run \ {s} : pc'[z] = pc[z]
        BY <1>0, <3>5 DEF Finish, TypeOK
      <4>2. s = r
        BY <1>3, <4>1
      <4>3. pc'[r] = "done" /\ mem' = mem
        BY <1>0, <1>3, <3>5, <4>1, <4>2 DEF Finish, TypeOK
      <4> QED
        BY <1>3, <2>2, <4>1, <4>2, <4>3
    <3>6. ASSUME NEW w \in saving, GateSaveLands(w) PROVE FALSE
      <4>1. w.run \in Run /\ w.step \in DOMAIN task[w.run] /\ task[w.run][w.step] = "saving"
        BY SavingStep
      <4>2. pc' = pc
        BY <3>6 DEF GateSaveLands
      <4> QED
        BY <2>4, <4>1, <4>2
    <3>7. ASSUME NEW i \in DOMAIN task[s], StepAction(s, i) PROVE FALSE
      BY <2>4, <3>7, StretchOfTask
    <3> QED
      BY <2>5, <3>1, <3>2, <3>3, <3>4, <3>5, <3>6, <3>7 DEF RunAction
  <2>6. CASE ApiAction
    <3>1. ASSUME NEW p, Reads(p) PROVE FALSE
      BY <1>0, <1>3, <3>1 DEF Reads
    <3> QED
      BY <2>1, <2>6, <3>1 DEF ApiAction, ApproveReads, DeleteReads, AppendReads
  <2>7. CASE Failure
    <3>1. ASSUME NEW s \in Run, Dead(s) PROVE FALSE
      BY <1>0, <1>3, <3>1 DEF Dead, TypeOK
    <3>2. CASE Crash
      <4>1. /\ \A s \in Run : /\ pc'[s] = "idle" => pc[s] = "idle"
                              /\ pc'[s] \in {"loop", "done"} => pc[s] = "done"
            /\ UNCHANGED <<store, mem>>
        BY <1>0, <3>2 DEF Crash, TypeOK
      <4> QED
        BY <1>3, <2>2, <4>1
    <3>3. ASSUME NEW w \in saving PROVE w.run \in Run
      BY <1>0 DEF TypeOK
    <3> QED
      BY <2>7, <3>1, <3>2, <3>3 DEF Failure, SaveFails, EmitFails, GateSaveFails
  <2>8. CASE UNCHANGED vars
    BY <1>3, <2>2, <2>8 DEF vars
  <2> QED
    BY <2>3, <2>5, <2>6, <2>7, <2>8 DEF Next
<1> QED
  BY <1>2, <1>3 DEF StoreOK, Alone

-------------------------------------------------------------------------------
(* The invariant holds, and what follows from it *)

LEMMA OutcomeInit == Init => OInv
<1> SUFFICES ASSUME Init PROVE OInv
  OBVIOUS
<1>1. IInv
  BY InvInit
<1>2. store \in Plan
  BY <1>1 DEF IInv, TypeOK
<1> DEFINE t == [i \in DOMAIN store.steps |-> "none"]
<1>3. \A i \in DOMAIN store.steps : t[i] = "none" /\ store.steps[i].status = "pending"
  BY PlansAssumption DEF Init
<1>4. ASSUME NEW r \in Run
      PROVE  mem[r] = store /\ pc[r] = "idle" /\ task[r] = t /\ published[r] = {}
  BY DEF Init
<1> HIDE DEF t
<1>5. RunOK(store, "idle", t, {})
  BY <1>3 DEF RunOK, PhaseOK, AtRest, ProgressOK, ProgressAt, HaltOK, Fatal, TurnOK, OrderOK,
     Active
<1>6. RunsOK
  BY <1>4, <1>5 DEF RunsOK
<1>7. StoreOK
  BY <1>4 DEF StoreOK, Init
<1> QED
  BY <1>1, <1>6, <1>7 DEF OInv

LEMMA OutcomeStep == OInv /\ [Next]_vars => OInv'
BY InvStep, RunsStep, StoreStep DEF OInv

(* The inductive invariant of how a run ends, with that of the approval gates
   (runner.py:21-107, monitor.py:33-86). *)
THEOREM OutcomeInvariance == Spec => []OInv
BY OutcomeInit, OutcomeStep, PTL DEF Spec

(* When the only run is over and the Planning API was not called, Redis holds
   the plan as the run left it: no save of a gate lands late over the last save
   of the loop (runner.py:46-52, 59), whatever the plan and its parallel gates. *)
THEOREM RedisHasTheEnd == Spec => []StoreAgrees
<1>1. OInv => StoreAgrees
  BY DEF OInv, StoreOK, Alone, StoreAgrees
<1> QED
  BY <1>1, OutcomeInvariance, PTL

(* For a run that takes its steps one by one, InTurn says the same. *)
LEMMA OneByOneLemma ==
  ASSUME NEW r \in Run
  PROVE  /\ Found(r) = FoundIn(mem[r], task[r])
         /\ OneByOne(r) <=> InTurn(mem[r], task[r])
BY DEF Found, FoundIn, OneByOne, InTurn

(* When a run takes its steps one by one, what the monitor has published is the
   outcome the run ends with (monitor.py:39-51, runner.py:103-104). *)
THEOREM PublishedIsTheOutcome == Spec => []PublishedOutcomeIsFinal
<1>1. OInv => PublishedOutcomeIsFinal
  <2> SUFFICES ASSUME OInv, NEW r \in Run, pc[r] \in {"loop", "joined", "done"}, OneByOne(r)
               PROVE  IF mem[r].status \in DOMAIN EventOf
                      THEN published[r] \subseteq EventOf[mem[r].status]
                      ELSE published[r] = {}
    BY DEF PublishedOutcomeIsFinal
  <2>1. RunOK(mem[r], pc[r], task[r], published[r])
    BY DEF OInv, RunsOK
  <2>2. AtRest(mem[r], task[r]) /\ OutcomeOK(mem[r], task[r], published[r])
    BY <2>1, OneByOneLemma DEF RunOK, PhaseOK, TurnOK
  <2> QED
    BY <2>2 DEF OutcomeOK, OutcomeAtRest
<1> QED
  BY <1>1, OutcomeInvariance, PTL

(* A run that takes its steps one by one leaves its plan open only behind a step
   that failed with on_failure "continue", or one that it found neither to do
   nor succeeded (runner.py:35-54). *)
THEOREM OpenOnlyBehind == Spec => []LeftOpenOnlyBehind
<1>1. OInv => LeftOpenOnlyBehind
  <2> SUFFICES ASSUME OInv, NEW r \in Run, pc[r] = "done", OneByOne(r),
                      mem[r].status \notin {"succeeded", "rolled_back", "aborted"}
               PROVE  \E i \in DOMAIN mem[r].steps :
                        \/ /\ mem[r].steps[i].status = "failed"
                           /\ mem[r].steps[i].onFailure = "continue"
                        \/ i \in Found(r) /\ mem[r].steps[i].status # "succeeded"
    BY DEF LeftOpenOnlyBehind
  <2>1. OpenOK(mem[r], task[r])
    BY OneByOneLemma DEF OInv, RunsOK, RunOK, TurnOK
  <2> QED
    BY <2>1, OneByOneLemma DEF OpenOK, EventOf, FailedOn, FoundIn
<1> QED
  BY <1>1, OutcomeInvariance, PTL

-------------------------------------------------------------------------------
(* What no step may do *)

(* Only StartWave begins a wave. *)
LEMMA WaveStarts ==
  ASSUME IInv, RunsOK, [Next]_vars, NEW r \in Run, pc[r] = "loop", pc'[r] = "wave"
  PROVE  StartWave(r)
<1>0. pc \in [Run -> RunState]
  BY DEF IInv, TypeOK
<1>1. ASSUME NEW s \in Run, Fetch(s) PROVE FALSE
  BY <1>0, <1>1 DEF Fetch
<1>2. ASSUME NEW s \in Run, RunAction(s) PROVE StartWave(r)
  <2>1. CASE StartWave(s)
    <3>1. s = r
      BY <1>0, <2>1 DEF StartWave
    <3> QED
      BY <2>1, <3>1
  <2>2. CASE \E w \in saving : GateSaveLands(w)
    BY <2>2 DEF GateSaveLands
  <2>3. CASE \E i \in DOMAIN task[s] : StepAction(s, i)
    BY <2>3, StretchOfTask
  <2>4. CASE Execute(s) \/ SaveLands(s) \/ WaveJoins(s) \/ Finish(s)
    BY <1>0, <2>4 DEF Execute, SaveLands, WaveJoins, Finish
  <2> QED
    BY <1>2, <2>1, <2>2, <2>3, <2>4 DEF RunAction
<1>3. CASE ApiAction
  BY <1>3 DEF ApiAction, ApproveReads, DeleteReads, AppendReads, Reads, RequestWrites
<1>4. CASE Failure
  BY <1>0, <1>4 DEF Failure, SaveFails, EmitFails, GateSaveFails, Dead, Crash
<1>5. CASE UNCHANGED vars
  BY <1>5 DEF vars
<1> QED
  BY <1>1, <1>2, <1>3, <1>4, <1>5 DEF Next

(* After a failure that calls for rollback or abort, a run starts no further
   wave, unless an approval gate shared the wave of the failed step
   (runner.py:35, 103-104). *)
THEOREM FailureHalts == Spec => HaltsOnFailure
<1>1. OInv /\ [Next]_vars =>
        \A r \in Run : /\ pc[r] = "loop" /\ pc'[r] = "wave"
                       /\ NoParallelGate(mem[r])
                       => Failed(r) = {}
  <2> SUFFICES ASSUME OInv, [Next]_vars, NEW r \in Run, pc[r] = "loop", pc'[r] = "wave",
                      NoParallelGate(mem[r]), NEW i \in Failed(r)
               PROVE  FALSE
    OBVIOUS
  <2>1. StartWave(r)
    BY WaveStarts DEF OInv
  <2>2. mem[r].status = "running"
    BY <2>1 DEF StartWave, GoesOn
  <2>3. RunOK(mem[r], "loop", task[r], published[r]) /\ i \in DOMAIN mem[r].steps
    BY DEF OInv, RunsOK, IInv, TypeOK, Failed
  <2>4. task[r][i] = "finished"
    BY <2>3 DEF RunOK, PhaseOK, AtRest, Failed
  <2>5. Fatal(mem[r], task[r][i], i)
    BY <2>4 DEF Fatal, Failed
  <2> QED
    BY <2>2, <2>3, <2>5 DEF RunOK, HaltOK
<1> QED
  BY <1>1, OutcomeInvariance, PTL DEF Spec, HaltsOnFailure

(* While a run polls the only gate of its plan, an approval that has reached
   Redis is undone only by an API call that had read the plan before
   (runner.py:80-89, planning/api.py:81-96): neither a save of this run nor one
   of its gate's can land then. *)
THEOREM OnlyStaleWrites == Spec => OnlyStaleWritesUndo
<1> DEFINE Undone(r, i) ==
             /\ GatesOf(mem[r]) = {i}
             /\ At(r, i, "handler") /\ At(r, i, "handler")'
             /\ \A s \in Run \ {r} : pc[s] = "idle"
             /\ Recorded(store, i) /\ ~Recorded(store', i)
<1>1. OInv /\ [Next]_vars =>
        \A r \in Run : \A i \in DOMAIN mem[r].steps :
          Undone(r, i) => \E q \in requests \ requests' : store' = q.plan
  <2> SUFFICES ASSUME OInv, [Next]_vars, NEW r \in Run, NEW i \in DOMAIN mem[r].steps,
                      Undone(r, i)
               PROVE  \E q \in requests \ requests' : store' = q.plan
    OBVIOUS
  <2>0. IInv /\ RunsOK /\ store' # store
    BY DEF OInv
  <2>1. ASSUME NEW s \in Run, NEW j \in DOMAIN task[s], task[s][j] \notin {"none", "finished"}
        PROVE  s = r /\ pc[s] \in {"wave", "dead"}
    BY <2>0, <2>1, Busy
  <2>2. ASSUME NEW s \in Run, SaveLands(s) PROVE FALSE
    <3>1. s = r
      BY <2>2 DEF SaveLands
    <3>2. pc[r] \in {"wave", "dead"}
      BY <2>1 DEF At
    <3> QED
      BY <2>2, <3>1, <3>2 DEF SaveLands
  <2>3. ASSUME NEW w \in saving, GateSaveLands(w) PROVE FALSE
    <3>1. w.run \in Run /\ w.step \in DOMAIN task[w.run] /\ task[w.run][w.step] = "saving"
      BY <2>0, SavingStep
    <3>2. w.run = r
      BY <2>1, <3>1
    <3>3. /\ w.step \in DOMAIN mem[r].steps
          /\ ProgressAt(mem[r], pc[r], task[r][w.step], w.step)
      BY <2>0, <3>1, <3>2, StepFacts
    <3>4. w.step \in GatesOf(mem[r])
      BY <3>1, <3>2, <3>3 DEF GatesOf, ProgressAt
    <3>5. w.step = i
      BY <3>4
    <3> QED
      BY <3>1, <3>2, <3>5 DEF At
  <2>4. ASSUME NEW s \in Run, Fetch(s) \/ RunAction(s) PROVE FALSE
    <3>1. CASE \E j \in DOMAIN task[s] : StepAction(s, j)
      BY <2>0, <3>1, StretchOfTask
    <3>2. CASE Fetch(s) \/ Execute(s) \/ StartWave(s) \/ WaveJoins(s) \/ Finish(s)
      BY <2>0, <3>2 DEF Fetch, Execute, StartWave, WaveJoins, Finish
    <3> QED
      BY <2>2, <2>3, <2>4, <3>1, <3>2 DEF RunAction
  <2>5. CASE ApiAction
    <3>1. ASSUME NEW p, Reads(p) PROVE FALSE
      BY <2>0, <3>1 DEF Reads
    <3>2. PICK q \in requests : RequestWrites(q)
      BY <2>5, <3>1 DEF ApiAction, ApproveReads, DeleteReads, AppendReads
    <3> QED
      BY <3>2 DEF RequestWrites
  <2>6. CASE Failure
    BY <2>0, <2>6 DEF Failure, SaveFails, EmitFails, GateSaveFails, Crash
  <2>7. CASE UNCHANGED vars
    BY <2>0, <2>7 DEF vars
  <2> QED
    BY <2>4, <2>5, <2>6, <2>7 DEF Next
<1> QED
  BY <1>1, OutcomeInvariance, PTL DEF Spec, OnlyStaleWritesUndo

-------------------------------------------------------------------------------
(* A run seen from outside.  That it implements SequentialRun takes more than
   how it ends: no action is performed before its handler is left, what is
   under way is the last step that was begun and does not outlive an
   exception, and a plan that has neither an outcome nor goes on has failed at
   the last step that was begun. *)

(* The steps of its plan whose action run r has performed. *)
Tried(r) == {i \in DOMAIN mem[r].steps : <<r, i>> \in performed}

(* Where a task may be that has not performed its step's action. *)
Before == {"none", "saving", "saved", "handler"}

LastFailed(p) == \E i \in DOMAIN p.steps :
                   /\ p.steps[i].status = "failed"
                   /\ \A j \in DOMAIN p.steps : i < j => p.steps[j].status = "pending"

SeqOK(p, c, t, f) ==
  /\ \A i \in DOMAIN p.steps : t[i] \in Before => i \notin f
  /\ InTurn(p, t) =>
       /\ c = "dead" => AtRest(p, t)
       /\ \A i, j \in DOMAIN p.steps :
            t[i] \in Active /\ i < j => p.steps[j].status = "pending"
       /\ c \notin {"idle", "fetched", "dead"} /\ AtRest(p, t) =>
            p.status \in DOMAIN EventOf \cup {"running"} \/ LastFailed(p)

RunSeqOK(r) == SeqOK(mem[r], pc[r], task[r], Tried(r))

SInv == OInv /\ \A r \in Run : RunSeqOK(r)

(* What SequentialRun sees of a run that takes its steps one by one. *)
Shown(p, t) == [i \in DOMAIN p.steps |-> StepSeen(p.steps[i].status, t[i])]

OutcomeOf(p) == IF p.status \in DOMAIN EventOf THEN p.status ELSE "none"

Said(u) == {s \in DOMAIN EventOf : EventOf[s] \cap u # {}}

StageAt(c) == IF c \in {"done", "dead"} THEN c ELSE "running"

LEMMA SeenView ==
  ASSUME NEW r \in Run
  PROVE  /\ Seen(r) <=> pc[r] \notin {"idle", "fetched"} /\ InTurn(mem[r], task[r])
         /\ Seen(r) => /\ Stage(r) = StageAt(pc[r])
                       /\ StepsSeen(r) = Shown(mem[r], task[r])
                       /\ PerformedSeen(r) = Tried(r)
                       /\ OutcomeSeen(r) = OutcomeOf(mem[r])
                       /\ AnnouncedSeen(r) = Said(published[r])
         /\ ~Seen(r) => /\ Stage(r) = IF pc[r] \in {"idle", "fetched"} THEN "waiting" ELSE "other"
                        /\ StepsSeen(r) = <<>> /\ PerformedSeen(r) = {}
                        /\ OutcomeSeen(r) = "none" /\ AnnouncedSeen(r) = {}
<1>1. Seen(r) <=> pc[r] \notin {"idle", "fetched"} /\ InTurn(mem[r], task[r])
  BY OneByOneLemma DEF Seen
<1> QED
  BY <1>1 DEF Stage, StageAt, StepsSeen, Shown, PerformedSeen, Tried, OutcomeSeen, OutcomeOf,
     AnnouncedSeen, Said

LEMMA SeenViewPrimed ==
  ASSUME NEW r \in Run
  PROVE  /\ Seen(r)' <=> pc'[r] \notin {"idle", "fetched"} /\ InTurn(mem'[r], task'[r])
         /\ Seen(r)' => /\ Stage(r)' = StageAt(pc'[r])
                        /\ StepsSeen(r)' = Shown(mem'[r], task'[r])
                        /\ PerformedSeen(r)' = Tried(r)'
                        /\ OutcomeSeen(r)' = OutcomeOf(mem'[r])
                        /\ AnnouncedSeen(r)' = Said(published'[r])
         /\ ~Seen(r)' => /\ Stage(r)' = IF pc'[r] \in {"idle", "fetched"} THEN "waiting" ELSE "other"
                         /\ StepsSeen(r)' = <<>> /\ PerformedSeen(r)' = {}
                         /\ OutcomeSeen(r)' = "none" /\ AnnouncedSeen(r)' = {}
<1>1. Seen(r)' <=> pc'[r] \notin {"idle", "fetched"} /\ InTurn(mem'[r], task'[r])
  BY DEF Seen, OneByOne, Found, InTurn, FoundIn
<1> QED
  BY <1>1 DEF Stage, StageAt, StepsSeen, Shown, PerformedSeen, Tried, OutcomeSeen, OutcomeOf,
     AnnouncedSeen, Said

(* What an action owes SequentialRun. *)
Follows(r) == UNCHANGED Sequential(r)!vars \/ Sequential(r)!Next

(* An action that does not concern run r. *)
Untouched(r) ==
  /\ mem'[r] = mem[r] /\ pc'[r] = pc[r] /\ task'[r] = task[r] /\ published'[r] = published[r]
  /\ \A i \in Nat : <<r, i>> \in performed' <=> <<r, i>> \in performed

LEMMA UntouchedFollows ==
  ASSUME TypeOK, NEW r \in Run, RunSeqOK(r), Untouched(r)
  PROVE  RunSeqOK(r)' /\ Follows(r)
<1>1. DOMAIN mem[r].steps \subseteq Nat
  BY StepsLemma DEF TypeOK
<1>2. Tried(r)' = Tried(r)
  BY <1>1 DEF Tried, Untouched
<1>3. RunSeqOK(r)'
  BY <1>2 DEF RunSeqOK, Untouched
<1>4. UNCHANGED <<Stage(r), StepsSeen(r), PerformedSeen(r), OutcomeSeen(r), AnnouncedSeen(r)>>
  BY <1>2, SeenView, SeenViewPrimed DEF Untouched
<1>5. UNCHANGED Sequential(r)!vars
  BY <1>4 DEF Sequential!vars
<1> QED
  BY <1>3, <1>5 DEF Follows

(* What is under way, and what may be taken next. *)
LEMMA ShownLemma ==
  ASSUME NEW p \in Plan, NEW t \in [DOMAIN p.steps -> TaskState]
  PROVE  /\ DOMAIN Shown(p, t) = DOMAIN p.steps
         /\ \A i \in DOMAIN p.steps :
              Shown(p, t)[i] = IF t[i] \in Active THEN "doing" ELSE Settled[p.steps[i].status]
         /\ \A i \in DOMAIN p.steps :
              Settled[p.steps[i].status] \in {"todo", "passed", "skipped", "open"}
         /\ \A i \in DOMAIN p.steps :
              Settled[p.steps[i].status] = "todo" <=> p.steps[i].status = "pending"
         /\ \A i \in DOMAIN p.steps :
              Settled[p.steps[i].status] = "passed" <=> p.steps[i].status = "succeeded"
         /\ \A i \in DOMAIN p.steps : Shown(p, t)[i] = "doing" <=> t[i] \in Active
<1>1. \A i \in DOMAIN p.steps : p.steps[i].status \in StepStatus
  BY StepsLemma DEF PlanStep
<1>2. \A i \in DOMAIN p.steps : t[i] \in Active <=> t[i] \notin {"none", "finished"}
  BY DEF TaskState, Active
<1>3. \A i \in DOMAIN p.steps :
        /\ Settled[p.steps[i].status] \in {"todo", "passed", "skipped", "open"}
        /\ Settled[p.steps[i].status] = "todo" <=> p.steps[i].status = "pending"
        /\ Settled[p.steps[i].status] = "passed" <=> p.steps[i].status = "succeeded"
  BY <1>1 DEF Settled, StepStatus
<1>4. \A i \in DOMAIN p.steps :
        Shown(p, t)[i] = IF t[i] \in Active THEN "doing" ELSE Settled[p.steps[i].status]
  BY <1>2 DEF Shown, StepSeen
<1> QED
  BY <1>3, <1>4 DEF Shown

(* Between two waves the step that may be taken is the one that is ready. *)
LEMMA DueIsReady ==
  ASSUME NEW p \in Plan, NEW t \in [DOMAIN p.steps -> TaskState], IsChain(p), AtRest(p, t)
  PROVE  \A i \in DOMAIN p.steps :
           i \in ReadySteps(p) <=>
             Shown(p, t)[i] = "todo" /\ (i = 1 \/ Shown(p, t)[i-1] = "passed")
<1>1. DOMAIN p.steps = 1..Len(p.steps) /\ Len(p.steps) \in Nat
  BY StepsLemma
<1>2. \A i \in DOMAIN p.steps : t[i] \notin Active
  BY DEF AtRest, Active
<1>3. \A i \in DOMAIN p.steps : /\ Shown(p, t)[i] = "todo" <=> p.steps[i].status = "pending"
                                /\ Shown(p, t)[i] = "passed" <=> p.steps[i].status = "succeeded"
  BY <1>2, ShownLemma
<1> SUFFICES ASSUME NEW i \in DOMAIN p.steps
             PROVE  p.steps[i].dependsOn \subseteq SucceededIds(p) <=>
                      (i = 1 \/ Shown(p, t)[i-1] = "passed")
  BY <1>3 DEF ReadySteps
<1>4. CASE i = 1
  BY <1>4 DEF IsChain
<1>5. CASE i # 1
  <2>1. i-1 \in DOMAIN p.steps
    BY <1>1, <1>5
  <2>2. p.steps[i].dependsOn = {p.steps[i-1].id}
    BY <1>5 DEF IsChain
  <2>3. \A m \in DOMAIN p.steps : p.steps[m].id = p.steps[i-1].id => m = i-1
    BY <2>1 DEF IsChain
  <2>4. p.steps[i-1].id \in SucceededIds(p) <=> p.steps[i-1].status = "succeeded"
    BY <2>1, <2>3 DEF SucceededIds
  <2> QED
    BY <1>3, <1>5, <2>1, <2>2, <2>4
<1> QED
  BY <1>4, <1>5

(* Behind a failed step after which nothing was begun, nothing is ready. *)
LEMMA NothingReady ==
  ASSUME NEW p \in Plan, NEW t, InTurn(p, t), OrderOK(p, t), LastFailed(p)
  PROVE  ReadySteps(p) = {}
<1>1. DOMAIN p.steps = 1..Len(p.steps) /\ Len(p.steps) \in Nat
  BY StepsLemma
<1>2. PICK f \in DOMAIN p.steps :
        /\ p.steps[f].status = "failed"
        /\ \A j \in DOMAIN p.steps : f < j => p.steps[j].status = "pending"
  BY DEF LastFailed
<1> SUFFICES ASSUME NEW k \in ReadySteps(p) PROVE FALSE
  OBVIOUS
<1>3. /\ k \in DOMAIN p.steps /\ p.steps[k].status = "pending"
      /\ p.steps[k].dependsOn \subseteq SucceededIds(p)
  BY DEF ReadySteps
<1>4. f < k
  <2>1. k \notin 1..f
    BY <1>2, <1>3 DEF OrderOK
  <2> QED
    BY <1>1, <1>3, <2>1
<1>5. k # 1 /\ k-1 \in DOMAIN p.steps /\ f <= k-1
  BY <1>1, <1>3, <1>4
<1>8. p.steps[k].dependsOn = {p.steps[k-1].id}
  BY <1>3, <1>5 DEF InTurn, IsChain
<1>6. PICK m \in DOMAIN p.steps : /\ p.steps[m].status = "succeeded"
                                  /\ p.steps[m].id = p.steps[k-1].id
  BY <1>3, <1>8 DEF SucceededIds
<1>7. m = k-1
  BY <1>5, <1>6 DEF InTurn, IsChain
<1> QED
  BY <1>1, <1>2, <1>5, <1>6, <1>7

-------------------------------------------------------------------------------
(* A stretch of step i of run r makes x of its task. *)
Moves(r, i, x) ==
  /\ SamePlan(mem[r], mem'[r])
  /\ \A j \in DOMAIN mem[r].steps \ {i} : mem'[r].steps[j].status = mem[r].steps[j].status
  /\ mem'[r].steps[i].status # "pending"
  /\ task[r][i] \in Active /\ x \in Active \cup {"finished"}
  /\ task'[r] = [task[r] EXCEPT ![i] = x]
  /\ pc'[r] = pc[r] \/ (pc'[r] = "dead" /\ x = "finished")
  /\ \A j \in Nat : <<r, j>> \in performed' =>
       <<r, j>> \in performed \/ (j = i /\ x \notin Before)
  /\ x \in Before => task[r][i] \in Before
  /\ Seen(r) /\ x = "finished" /\ pc'[r] # "dead" =>
       mem'[r].status \in DOMAIN EventOf \cup {"running"} \/ mem'[r].steps[i].status = "failed"

LEMMA MoveView ==
  ASSUME OInv, TypeOK', NEW r \in Run, RunSeqOK(r), NEW i \in DOMAIN mem[r].steps, NEW x,
         Moves(r, i, x)
  PROVE  /\ mem[r] \in Plan /\ mem'[r] \in Plan /\ DOMAIN mem'[r].steps = DOMAIN mem[r].steps
         /\ DOMAIN mem[r].steps \subseteq Nat
         /\ task[r] \in [DOMAIN mem[r].steps -> TaskState]
         /\ task'[r] \in [DOMAIN mem[r].steps -> TaskState]
         /\ pc[r] \in {"wave", "dead"}
         /\ Seen(r)' <=> Seen(r)
         /\ Seen(r) <=> InTurn(mem[r], task[r])
         /\ Seen(r) => /\ pc[r] = "wave"
                       /\ \A j \in DOMAIN mem[r].steps : task[r][j] \in Active => j = i
                       /\ OutcomeOK(mem[r], task[r], published[r])
<1>1. /\ TypeOK /\ mem[r] \in Plan /\ DOMAIN task[r] = DOMAIN mem[r].steps
      /\ task[r] \in [DOMAIN mem[r].steps -> TaskState]
      /\ RunOK(mem[r], pc[r], task[r], published[r])
  BY DEF OInv, IInv, TypeOK, RunsOK
<1>2. mem'[r] \in Plan /\ DOMAIN mem'[r].steps = DOMAIN mem[r].steps
  BY DEF TypeOK, Moves, SamePlan, SameShape
<1>3. task'[r] \in [DOMAIN mem[r].steps -> TaskState]
  BY <1>2 DEF TypeOK
<1>4. pc[r] \in {"wave", "dead"}
  BY <1>1, Busy DEF OInv, Moves, Active
<1>5. mem[r].steps[i].status # "pending"
  BY <1>1 DEF RunOK, ProgressOK, ProgressAt, Moves, Active
<1>6. InTurn(mem'[r], task'[r]) <=> InTurn(mem[r], task[r])
  <2>1. \A j \in DOMAIN mem[r].steps :
          (task'[r][j] = "none" /\ mem'[r].steps[j].status # "pending") <=>
            (task[r][j] = "none" /\ mem[r].steps[j].status # "pending")
    BY <1>1, <1>5 DEF Moves, Active
  <2>2. SamePlan(mem[r], mem'[r])
    BY DEF Moves
  <2> DEFINE p == mem[r]
             q == mem'[r]
             t == task[r]
             y == task'[r]
  <2>3. p \in Plan /\ q \in Plan /\ SamePlan(p, q)
    BY <1>1, <1>2, <2>2
  <2>4. \A j \in DOMAIN p.steps : (y[j] = "none" /\ q.steps[j].status # "pending") <=>
                                  (t[j] = "none" /\ p.steps[j].status # "pending")
    BY <2>1
  <2> HIDE DEF p, q, t, y
  <2>5. InTurn(q, y) <=> InTurn(p, t)
    BY <2>3, <2>4, SameTurn
  <2> QED
    BY <2>5 DEF p, q, t, y
<1>7. pc'[r] \in {"wave", "dead"}
  BY <1>4 DEF Moves
<1>8. (Seen(r)' <=> Seen(r)) /\ (Seen(r) <=> InTurn(mem[r], task[r]))
  BY <1>4, <1>6, <1>7, SeenView, SeenViewPrimed
<1>9. ASSUME InTurn(mem[r], task[r])
      PROVE  /\ pc[r] = "wave"
             /\ \A j \in DOMAIN mem[r].steps : task[r][j] \in Active => j = i
             /\ OutcomeOK(mem[r], task[r], published[r])
  <2>1. pc[r] = "wave"
    BY <1>4, <1>9 DEF RunSeqOK, SeqOK, AtRest, Moves, Active
  <2>2. OrderOK(mem[r], task[r]) /\ OutcomeOK(mem[r], task[r], published[r])
    BY <1>1, <1>9, <2>1 DEF RunOK, TurnOK
  <2> QED
    BY <2>1, <2>2 DEF OrderOK, Moves
<1> QED
  BY <1>1, <1>2, <1>3, <1>4, <1>8, <1>9, StepsLemma

(* A stretch keeps the invariant. *)
LEMMA MoveKeeps ==
  ASSUME OInv, TypeOK', NEW r \in Run, RunSeqOK(r), NEW i \in DOMAIN mem[r].steps, NEW x,
         Moves(r, i, x)
  PROVE  RunSeqOK(r)'
<1> DEFINE p == mem[r]
           q == mem'[r]
           t == task[r]
           y == task'[r]
<1>1. /\ p \in Plan /\ q \in Plan /\ DOMAIN q.steps = DOMAIN p.steps
      /\ DOMAIN p.steps \subseteq Nat /\ t \in [DOMAIN p.steps -> TaskState]
      /\ (pc'[r] \notin {"idle", "fetched"} /\ InTurn(q, y)) <=> Seen(r)
      /\ Seen(r) <=> InTurn(p, t)
      /\ Seen(r) => \A j \in DOMAIN p.steps : t[j] \in Active => j = i
      /\ pc[r] \in {"wave", "dead"}
  BY MoveView, SeenViewPrimed
<1>2. /\ y[i] = x /\ \A j \in DOMAIN p.steps \ {i} : y[j] = t[j]
      /\ x \in Active \cup {"finished"}
      /\ \A j \in DOMAIN p.steps \ {i} : q.steps[j].status = p.steps[j].status
      /\ t[i] \in Active
      /\ pc'[r] = "dead" => x = "finished" \/ pc[r] = "dead"
      /\ pc'[r] \in {"wave", "dead"}
  BY <1>1 DEF Moves
<1>3. SeqOK(p, pc[r], t, Tried(r))
  BY DEF RunSeqOK
<1>4. \A j \in DOMAIN q.steps : y[j] \in Before => j \notin Tried(r)'
  <2>1. \A j \in DOMAIN p.steps : t[j] \in Before => <<r, j>> \notin performed
    BY <1>3 DEF SeqOK, Tried
  <2>2. ASSUME NEW j \in DOMAIN p.steps, y[j] \in Before PROVE <<r, j>> \notin performed'
    <3>1. t[j] \in Before
      BY <1>2, <2>2 DEF Moves
    <3>2. j \in Nat
      BY <1>1
    <3> QED
      BY <1>2, <2>1, <2>2, <3>1, <3>2 DEF Moves
  <2> QED
    BY <1>1, <2>2 DEF Tried
<1>5. ASSUME InTurn(q, y)
      PROVE  /\ pc'[r] = "dead" => AtRest(q, y)
             /\ \A j, k \in DOMAIN q.steps :
                  y[j] \in Active /\ j < k => q.steps[k].status = "pending"
             /\ pc'[r] \notin {"idle", "fetched", "dead"} /\ AtRest(q, y) =>
                  q.status \in DOMAIN EventOf \cup {"running"} \/ LastFailed(q)
  <2>1. Seen(r) /\ InTurn(p, t)
    BY <1>1, <1>2, <1>5
  <2>2. \A j \in DOMAIN p.steps \ {i} : y[j] \in {"none", "finished"}
    BY <1>1, <1>2, <2>1 DEF TaskState, Active
  <2>3. /\ pc[r] # "dead"
        /\ \A k \in DOMAIN p.steps : i < k => p.steps[k].status = "pending"
    BY <1>2, <1>3, <2>1 DEF SeqOK, AtRest, Active
  <2>4. \A k \in DOMAIN p.steps : i < k => q.steps[k].status = "pending"
    BY <1>1, <1>2, <2>3
  <2>5. pc'[r] = "dead" => AtRest(q, y)
    BY <1>1, <1>2, <2>2, <2>3 DEF AtRest
  <2>6. \A j, k \in DOMAIN q.steps : y[j] \in Active /\ j < k => q.steps[k].status = "pending"
    BY <1>1, <2>2, <2>4 DEF Active
  <2>7. AtRest(q, y) => x = "finished"
    BY <1>1, <1>2 DEF AtRest, Active
  <2>8. q.steps[i].status = "failed" => LastFailed(q)
    BY <1>1, <2>4 DEF LastFailed
  <2> QED
    BY <2>1, <2>5, <2>6, <2>7, <2>8 DEF Moves
<1> QED
  BY <1>4, <1>5 DEF RunSeqOK, SeqOK

(* A stretch of a step of any other plan shows nothing. *)
LEMMA MoveUnseen ==
  ASSUME OInv, TypeOK', NEW r \in Run, RunSeqOK(r), NEW i \in DOMAIN mem[r].steps, NEW x,
         Moves(r, i, x), ~Seen(r)
  PROVE  Follows(r)
<1>1. ~Seen(r)' /\ pc[r] \in {"wave", "dead"} /\ pc'[r] \in {"wave", "dead"}
  BY MoveView DEF Moves
<1>2. UNCHANGED <<Stage(r), StepsSeen(r), PerformedSeen(r), OutcomeSeen(r), AnnouncedSeen(r)>>
  BY <1>1, SeenView, SeenViewPrimed
<1> QED
  BY <1>2 DEF Follows, Sequential!vars

(* A stretch of the step under way of a plan whose steps are taken one by one. *)
LEMMA MoveSeen ==
  ASSUME OInv, TypeOK', NEW r \in Run, RunSeqOK(r), NEW i \in DOMAIN mem[r].steps, NEW x,
         Moves(r, i, x), Seen(r)
  PROVE  /\ Stage(r) = "running" /\ Stage(r)' = StageAt(pc'[r]) /\ pc[r] = "wave"
         /\ Sequential(r)!UnderWay = {i}
         /\ x \in Active => StepsSeen(r)' = StepsSeen(r)
         /\ x = "finished" =>
              StepsSeen(r)' = [StepsSeen(r) EXCEPT ![i] = Settled[mem'[r].steps[i].status]]
         /\ Settled[mem'[r].steps[i].status] \in {"passed", "skipped", "open"}
         /\ Settled[mem'[r].steps[i].status] = "passed" <=> mem'[r].steps[i].status = "succeeded"
         /\ PerformedSeen(r) = Tried(r) /\ PerformedSeen(r)' = Tried(r)'
         /\ OutcomeSeen(r) = OutcomeOf(mem[r]) /\ OutcomeSeen(r)' = OutcomeOf(mem'[r])
         /\ AnnouncedSeen(r) = Said(published[r]) /\ AnnouncedSeen(r)' = Said(published'[r])
         /\ OutcomeAt(mem[r], task[r][i], published[r], i)
<1> DEFINE p == mem[r]
           q == mem'[r]
           t == task[r]
           y == task'[r]
<1>1. /\ p \in Plan /\ q \in Plan /\ DOMAIN q.steps = DOMAIN p.steps
      /\ t \in [DOMAIN p.steps -> TaskState]
      /\ y \in [DOMAIN q.steps -> TaskState]
      /\ pc[r] = "wave" /\ Seen(r)' /\ OutcomeOK(p, t, published[r])
      /\ \A j \in DOMAIN p.steps : t[j] \in Active => j = i
  BY MoveView
<1>2. /\ StepsSeen(r) = Shown(p, t) /\ StepsSeen(r)' = Shown(q, y)
      /\ Stage(r) = "running" /\ Stage(r)' = StageAt(pc'[r])
      /\ PerformedSeen(r) = Tried(r) /\ PerformedSeen(r)' = Tried(r)'
      /\ OutcomeSeen(r) = OutcomeOf(mem[r]) /\ OutcomeSeen(r)' = OutcomeOf(mem'[r])
      /\ AnnouncedSeen(r) = Said(published[r]) /\ AnnouncedSeen(r)' = Said(published'[r])
  BY <1>1, SeenView, SeenViewPrimed DEF StageAt
<1>3. /\ y[i] = x /\ \A j \in DOMAIN p.steps \ {i} : y[j] = t[j]
      /\ x \in Active \cup {"finished"} /\ t[i] \in Active
      /\ \A j \in DOMAIN p.steps \ {i} : q.steps[j].status = p.steps[j].status
      /\ q.steps[i].status # "pending"
  BY <1>1 DEF Moves
<1>4. OutcomeAt(p, t[i], published[r], i)
  BY <1>1 DEF OutcomeOK
<1> HIDE DEF p, q, t, y
<1>5. Sequential(r)!UnderWay = {i}
  <2>1. {j \in DOMAIN Shown(p, t) : Shown(p, t)[j] = "doing"} = {i}
    BY <1>1, <1>3, ShownLemma DEF p
  <2> QED
    BY <1>2, <2>1 DEF Sequential!UnderWay
<1>6. /\ Settled[q.steps[i].status] \in {"passed", "skipped", "open"}
      /\ Settled[q.steps[i].status] = "passed" <=> q.steps[i].status = "succeeded"
  BY <1>1, <1>3, ShownLemma DEF p
<1>7. \A j \in DOMAIN p.steps \ {i} : Shown(q, y)[j] = Shown(p, t)[j]
  BY <1>1, <1>3 DEF Shown
<1>8. DOMAIN Shown(q, y) = DOMAIN p.steps /\ DOMAIN Shown(p, t) = DOMAIN p.steps
  BY <1>1 DEF Shown
<1>9. /\ Shown(p, t)[i] = "doing"
      /\ x \in Active => Shown(q, y)[i] = "doing"
      /\ x = "finished" => Shown(q, y)[i] = Settled[q.steps[i].status]
  BY <1>1, <1>3, ShownLemma DEF p, Active
<1>10. x \in Active => Shown(q, y) = Shown(p, t)
  BY <1>7, <1>8, <1>9 DEF Shown
<1>11. x = "finished" => Shown(q, y) = [Shown(p, t) EXCEPT ![i] = Settled[q.steps[i].status]]
  BY <1>7, <1>8, <1>9 DEF Shown
<1> QED
  BY <1>1, <1>2, <1>4, <1>5, <1>6, <1>10, <1>11 DEF p, q, t, y

(* The announcement of an outcome announces it, and no other. *)
LEMMA SaidLemma ==
  /\ Said({}) = {}
  /\ \A s \in DOMAIN EventOf : Said(EventOf[s]) = {s}
  /\ DOMAIN EventOf = {"succeeded", "rolled_back", "aborted"}
<1>1. /\ DOMAIN EventOf = {"succeeded", "rolled_back", "aborted"}
      /\ EventOf["succeeded"] = {"plan_succeeded"}
      /\ EventOf["rolled_back"] = {"plan_rolling_back"}
      /\ EventOf["aborted"] = {"plan_aborted"}
  BY DEF EventOf
<1> QED
  BY <1>1 DEF Said

(* While its step is under way, such a run is in a wave and the plan's outcome
   and announcements are as the invariant says. *)
LEMMA SeenFacts ==
  ASSUME SInv, NEW r \in Run, NEW i \in DOMAIN task[r], task[r][i] \in Active, Seen(r)
  PROVE  pc[r] = "wave" /\ OutcomeAt(mem[r], task[r][i], published[r], i)
<1>1. /\ InTurn(mem[r], task[r]) /\ pc[r] \in {"wave", "dead"} /\ i \in DOMAIN mem[r].steps
      /\ RunSeqOK(r) /\ RunOK(mem[r], pc[r], task[r], published[r])
  BY SeenView, Busy DEF SInv, OInv, IInv, TypeOK, RunsOK, Active
<1>2. pc[r] = "wave"
  BY <1>1 DEF RunSeqOK, SeqOK, AtRest, Active
<1> QED
  BY <1>1, <1>2 DEF RunOK, TurnOK, OutcomeOK

(* A step goes on and nothing is decided: this is not seen. *)
LEMMA MoveStutters ==
  ASSUME SInv, TypeOK', NEW r \in Run, NEW i \in DOMAIN mem[r].steps, NEW x,
         Moves(r, i, x), x \in Active, task[r][i] # "announcing",
         Seen(r) => mem'[r].status \notin DOMAIN EventOf,
         published'[r] = published[r], performed' = performed
  PROVE  RunSeqOK(r)' /\ Follows(r)
<1>1. OInv /\ RunSeqOK(r)
  BY DEF SInv
<1>2. RunSeqOK(r)'
  BY <1>1, MoveKeeps
<1>3. CASE ~Seen(r)
  BY <1>1, <1>2, <1>3, MoveUnseen
<1>4. CASE Seen(r)
  <2>1. /\ pc[r] = "wave" /\ pc'[r] = "wave"
        /\ Stage(r) = "running" /\ Stage(r)' = StageAt(pc'[r])
        /\ StepsSeen(r)' = StepsSeen(r)
        /\ PerformedSeen(r) = Tried(r) /\ PerformedSeen(r)' = Tried(r)'
        /\ OutcomeSeen(r) = OutcomeOf(mem[r]) /\ OutcomeSeen(r)' = OutcomeOf(mem'[r])
        /\ AnnouncedSeen(r) = Said(published[r]) /\ AnnouncedSeen(r)' = Said(published'[r])
        /\ OutcomeAt(mem[r], task[r][i], published[r], i)
    BY <1>1, <1>4, MoveSeen DEF Moves, Active
  <2>2. OutcomeSeen(r) = "none" /\ OutcomeSeen(r)' = "none"
    BY <1>4, <2>1 DEF OutcomeAt, OutcomeOf, Moves
  <2>3. Tried(r)' = Tried(r)
    BY <1>1, MoveView DEF Tried
  <2> QED
    BY <1>2, <2>1, <2>2, <2>3 DEF Follows, Sequential!vars, StageAt
<1> QED
  BY <1>3, <1>4

(* The monitor's verdict decides the plan. *)
LEMMA MoveJudges ==
  ASSUME SInv, TypeOK', NEW r \in Run, NEW i \in DOMAIN mem[r].steps,
         Moves(r, i, "announcing"), task[r][i] # "announcing",
         mem'[r].status \in DOMAIN EventOf,
         published'[r] = published[r], performed' = performed
  PROVE  RunSeqOK(r)' /\ Follows(r)
<1>1. OInv /\ RunSeqOK(r)
  BY DEF SInv
<1>2. RunSeqOK(r)'
  BY <1>1, MoveKeeps
<1>3. CASE ~Seen(r)
  BY <1>1, <1>2, <1>3, MoveUnseen
<1>4. CASE Seen(r)
  <2>1. /\ pc[r] = "wave" /\ pc'[r] = "wave"
        /\ Stage(r) = "running" /\ Stage(r)' = StageAt(pc'[r])
        /\ Sequential(r)!UnderWay = {i}
        /\ StepsSeen(r)' = StepsSeen(r)
        /\ PerformedSeen(r) = Tried(r) /\ PerformedSeen(r)' = Tried(r)'
        /\ OutcomeSeen(r) = OutcomeOf(mem[r]) /\ OutcomeSeen(r)' = OutcomeOf(mem'[r])
        /\ AnnouncedSeen(r) = Said(published[r]) /\ AnnouncedSeen(r)' = Said(published'[r])
        /\ OutcomeAt(mem[r], task[r][i], published[r], i)
    BY <1>1, <1>4, MoveSeen DEF Moves, Active
  <2>2. OutcomeSeen(r) = "none"
    BY <1>4, <2>1 DEF OutcomeAt, OutcomeOf, Moves
  <2>3. OutcomeSeen(r)' \in {"succeeded", "rolled_back", "aborted"}
    BY <2>1, SaidLemma DEF OutcomeOf
  <2>4. Tried(r)' = Tried(r)
    BY <1>1, MoveView DEF Tried
  <2>5. Stage(r)' = "running" /\ AnnouncedSeen(r)' = AnnouncedSeen(r)
        /\ PerformedSeen(r)' = PerformedSeen(r)
    BY <2>1, <2>4 DEF StageAt
  <2>6. Sequential(r)!Judge
    BY <2>1, <2>2, <2>3, <2>5 DEF Sequential!Judge, Sequential!Undecided, Sequential!Outcome
  <2> QED
    BY <1>2, <2>6 DEF Follows, Sequential!Next
<1> QED
  BY <1>3, <1>4

(* The task ends: the step is concluded, or an exception has left execute(). *)
LEMMA MoveEnds ==
  ASSUME SInv, TypeOK', NEW r \in Run, NEW i \in DOMAIN mem[r].steps,
         Moves(r, i, "finished"), task[r][i] # "announcing" \/ pc'[r] = "dead",
         mem'[r] = mem[r], mem[r].steps[i].status # "skipped",
         published'[r] = published[r], performed' = performed
  PROVE  RunSeqOK(r)' /\ Follows(r)
<1>1. OInv /\ RunSeqOK(r)
  BY DEF SInv
<1>2. RunSeqOK(r)'
  BY <1>1, MoveKeeps
<1>3. CASE ~Seen(r)
  BY <1>1, <1>2, <1>3, MoveUnseen
<1>4. CASE Seen(r)
  <2> DEFINE s == Settled[mem[r].steps[i].status]
  <2>1. /\ pc[r] = "wave" /\ pc'[r] \in {"wave", "dead"}
        /\ Stage(r) = "running" /\ Stage(r)' = StageAt(pc'[r])
        /\ Sequential(r)!UnderWay = {i}
        /\ StepsSeen(r)' = [StepsSeen(r) EXCEPT ![i] = s]
        /\ PerformedSeen(r) = Tried(r) /\ PerformedSeen(r)' = Tried(r)'
        /\ OutcomeSeen(r) = OutcomeOf(mem[r]) /\ OutcomeSeen(r)' = OutcomeOf(mem'[r])
        /\ AnnouncedSeen(r) = Said(published[r]) /\ AnnouncedSeen(r)' = Said(published'[r])
        /\ OutcomeAt(mem[r], task[r][i], published[r], i)
    BY <1>1, <1>4, MoveSeen DEF Moves
  <2>2. s \in {"passed", "open"}
    <3>1. mem[r].steps[i].status \in StepStatus \ {"pending", "skipped"}
      BY <1>1, MoveView, StepsLemma DEF PlanStep, Moves
    <3> QED
      BY <3>1 DEF Settled, StepStatus
  <2>3. Tried(r)' = Tried(r)
    BY <1>1, MoveView DEF Tried
  <2> HIDE DEF s
  <2>4. CASE pc'[r] = "dead"
    <3>1. Sequential(r)!Break
      BY <2>1, <2>2, <2>3, <2>4 DEF Sequential!Break, Sequential!Ends, StageAt
    <3> QED
      BY <1>2, <3>1 DEF Follows, Sequential!Next
  <2>5. CASE pc'[r] = "wave"
    <3>1. OutcomeSeen(r) = "none"
      BY <2>1, <2>5 DEF OutcomeAt, OutcomeOf, Moves
    <3>2. Sequential(r)!Conclude
      BY <2>1, <2>2, <2>3, <2>5, <3>1
      DEF Sequential!Conclude, Sequential!Undecided, Sequential!Ends, StageAt
    <3> QED
      BY <1>2, <3>2 DEF Follows, Sequential!Next
  <2> QED
    BY <2>1, <2>4, <2>5
<1> QED
  BY <1>3, <1>4

(* The facts that every stretch starts from. *)
LEMMA MoveFacts ==
  ASSUME SInv, NEW r \in Run, NEW i \in DOMAIN task[r], task[r][i] \in Active
  PROVE  /\ mem[r] \in Plan /\ i \in DOMAIN mem[r].steps /\ mem[r].steps[i] \in PlanStep
         /\ TypeOK /\ IInv /\ RunsOK /\ RunSeqOK(r)
         /\ mem[r].steps[i].status # "pending"
         /\ ProgressAt(mem[r], pc[r], task[r][i], i)
         /\ Seen(r) => OutcomeAt(mem[r], task[r][i], published[r], i)
         /\ task[r][i] \in {"saving", "saved", "handler", "acted"} =>
              mem[r].steps[i].status \in {"running", "waiting_approval"}
         /\ SamePlan(mem[r], mem[r])
<1>1. IInv /\ RunsOK /\ RunSeqOK(r) /\ TypeOK
  BY DEF SInv, OInv, IInv
<1>2. /\ mem[r] \in Plan /\ i \in DOMAIN mem[r].steps /\ mem[r].steps[i] \in PlanStep
      /\ ProgressAt(mem[r], pc[r], task[r][i], i)
      /\ task[r][i] \in {"saving", "saved", "handler", "acted"} =>
           mem[r].steps[i].status \in {"running", "waiting_approval"}
  BY <1>1, StepFacts
<1>3. mem[r].steps[i].status # "pending"
  BY <1>2 DEF ProgressAt, Active
<1> QED
  BY <1>1, <1>2, <1>3, SeenFacts, SamePlanRefl

(* A task goes on and leaves the plan and what is published as they are. *)
LEMMA QuietMove ==
  ASSUME SInv, NEW r \in Run, NEW i \in DOMAIN task[r], task[r][i] \in Active, NEW x,
         x \in Active \cup {"finished"}, Goto(r, i, x), mem' = mem,
         pc'[r] = pc[r] \/ (pc'[r] = "dead" /\ x = "finished"),
         performed' = performed \/ (performed' = performed \cup {<<r, i>>} /\ x \notin Before),
         x \in Before => task[r][i] \in Before,
         Seen(r) /\ x = "finished" /\ pc'[r] # "dead" =>
           mem[r].status \in DOMAIN EventOf \cup {"running"} \/ mem[r].steps[i].status = "failed"
  PROVE  Moves(r, i, x)
<1>1. /\ SamePlan(mem[r], mem[r]) /\ TypeOK /\ mem[r].steps[i].status # "pending"
      /\ mem'[r] = mem[r]
  BY MoveFacts
<1>2. task'[r] = [task[r] EXCEPT ![i] = x]
  BY <1>1 DEF Goto, TypeOK
<1>3. \A j \in Nat : <<r, j>> \in performed' =>
        <<r, j>> \in performed \/ (j = i /\ x \notin Before)
  OBVIOUS
<1> QED
  BY <1>1, <1>2, <1>3 DEF Moves

LEMMA ActSeen ==
  ASSUME SInv, TypeOK', NEW r \in Run, NEW i \in DOMAIN task[r], Act(r, i)
  PROVE  RunSeqOK(r)' /\ Follows(r)
<1>1. /\ task[r][i] = "handler" /\ Goto(r, i, "acted") /\ mem' = mem /\ pc' = pc
      /\ performed' = performed \cup {<<r, i>>} /\ published' = published
      /\ "handler" \in Active /\ "acted" \in Active /\ "acted" \notin Before
  BY DEF Act, At, Active, Before
<1>2. Moves(r, i, "acted")
  BY <1>1, QuietMove
<1>3. i \in DOMAIN mem[r].steps /\ OInv /\ RunSeqOK(r)
  BY <1>1, MoveFacts DEF SInv
<1>4. RunSeqOK(r)'
  BY <1>2, <1>3, MoveKeeps
<1>5. CASE ~Seen(r)
  BY <1>2, <1>3, <1>4, <1>5, MoveUnseen
<1>6. CASE Seen(r)
  <2>1. /\ pc[r] = "wave"
        /\ Stage(r) = "running" /\ Stage(r)' = StageAt(pc'[r])
        /\ Sequential(r)!UnderWay = {i}
        /\ StepsSeen(r)' = StepsSeen(r)
        /\ PerformedSeen(r) = Tried(r) /\ PerformedSeen(r)' = Tried(r)'
        /\ OutcomeSeen(r) = OutcomeOf(mem[r]) /\ OutcomeSeen(r)' = OutcomeOf(mem'[r])
        /\ AnnouncedSeen(r) = Said(published[r]) /\ AnnouncedSeen(r)' = Said(published'[r])
        /\ OutcomeAt(mem[r], task[r][i], published[r], i)
    BY <1>1, <1>2, <1>3, <1>6, MoveSeen
  <2>2. OutcomeSeen(r) = "none" /\ OutcomeSeen(r)' = OutcomeSeen(r)
    BY <1>1, <2>1 DEF OutcomeAt, OutcomeOf
  <2>3. i \notin Tried(r)
    BY <1>1, <1>3 DEF RunSeqOK, SeqOK, Before
  <2>4. Tried(r)' = Tried(r) \cup {i}
    BY <1>1, <1>3 DEF Tried
  <2>5. Sequential(r)!Perform
    BY <1>1, <2>1, <2>2, <2>3, <2>4 DEF Sequential!Perform, Sequential!Undecided, StageAt
  <2> QED
    BY <1>4, <2>5 DEF Follows, Sequential!Next
<1> QED
  BY <1>5, <1>6

(* A save that lands and a poll are not seen. *)
LEMMA QuietSeen ==
  ASSUME SInv, TypeOK', NEW r \in Run, NEW i \in DOMAIN task[r], NEW x,
         <<task[r][i], x>> \in {<<"saving", "saved">>, <<"handler", "acted">>},
         Goto(r, i, x), UNCHANGED <<mem, pc, performed, published>>
  PROVE  RunSeqOK(r)' /\ Follows(r)
<1>1. /\ task[r][i] \in Active \ {"announcing"} /\ x \in Active
      /\ x \in Before => task[r][i] \in Before
      /\ x # "finished"
  BY DEF Active, Before
<1>2. Moves(r, i, x)
  BY <1>1, QuietMove
<1>3. i \in DOMAIN mem[r].steps /\ (Seen(r) => mem[r].status \notin DOMAIN EventOf)
  BY <1>1, MoveFacts DEF OutcomeAt
<1> QED
  BY <1>1, <1>2, <1>3, MoveStutters

LEMMA GateOpensSeen ==
  ASSUME SInv, TypeOK', NEW r \in Run, NEW i \in DOMAIN task[r], GateOpens(r, i)
  PROVE  RunSeqOK(r)' /\ Follows(r)
<1> DEFINE waiting == SetStatus(mem[r], "awaiting_approval")
           x == IF mem[r].steps[i].action \in Registered THEN "handler" ELSE "reporting"
<1>1. task[r][i] = "saved" /\ "saved" \in Active /\ "saved" \in Before
  BY DEF GateOpens, At, Active, Before
<1>2. /\ mem[r] \in Plan /\ i \in DOMAIN mem[r].steps /\ TypeOK
      /\ mem[r].steps[i].status # "pending"
  BY <1>1, MoveFacts
<1>3. /\ waiting \in Plan /\ SamePlan(mem[r], waiting) /\ waiting.status = "awaiting_approval"
      /\ waiting.steps = mem[r].steps
  BY <1>2, SetStatusPlan, SetStatusLemma DEF PlanStatus
<1>4. /\ task'[r] = [task[r] EXCEPT ![i] = x] /\ UNCHANGED <<pc, performed, published>>
      /\ mem'[r] = IF mem[r].steps[i].action \in Registered
                   THEN waiting ELSE SetStep(waiting, i, "failed")
  BY <1>2 DEF GateOpens, Goto, TypeOK
<1>5. /\ SamePlan(mem[r], mem'[r]) /\ mem'[r].status = "awaiting_approval"
      /\ mem'[r].steps[i].status # "pending"
      /\ \A j \in DOMAIN mem[r].steps \ {i} : mem'[r].steps[j].status = mem[r].steps[j].status
  <2> DEFINE q == SetStep(waiting, i, "failed")
  <2>1. /\ SamePlan(waiting, q) /\ q.steps[i].status = "failed"
        /\ \A j \in DOMAIN mem[r].steps \ {i} : q.steps[j] = mem[r].steps[j]
    BY <1>2, <1>3, SetStepLemma, SetStepPlan DEF StepStatus
  <2>2. q.status = "awaiting_approval"
    BY <1>3 DEF SetStep, Plan
  <2>3. SamePlan(mem[r], q)
    BY <1>3, <2>1 DEF SamePlan, SameShape
  <2> HIDE DEF q, waiting
  <2>4. mem'[r] = waiting \/ mem'[r] = q
    BY <1>4 DEF q
  <2> QED
    BY <1>2, <1>3, <2>1, <2>2, <2>3, <2>4
<1> HIDE DEF waiting
<1>6. x \in Active \ {"announcing"} /\ x # "finished"
  BY DEF Active
<1> HIDE DEF x
<1>7. Moves(r, i, x)
  BY <1>1, <1>4, <1>5, <1>6 DEF Moves
<1>8. mem'[r].status \notin DOMAIN EventOf
  BY <1>5, SaidLemma
<1> QED
  BY <1>1, <1>2, <1>4, <1>6, <1>7, <1>8, MoveStutters

LEMMA ResultSeen ==
  ASSUME SInv, TypeOK', NEW r \in Run, NEW i \in DOMAIN task[r],
         task[r][i] \in {"handler", "acted"},
         NEW s \in {"succeeded", "failed"}, Result(r, i, s)
  PROVE  RunSeqOK(r)' /\ Follows(r)
<1> DEFINE plan == SetStep(mem[r], i, s)
<1>1. task[r][i] \in Active \ {"announcing"}
  BY DEF Active
<1>2. /\ mem[r] \in Plan /\ i \in DOMAIN mem[r].steps /\ TypeOK
      /\ Seen(r) => mem[r].status \notin DOMAIN EventOf
  BY <1>1, MoveFacts DEF OutcomeAt
<1>3. /\ plan \in Plan /\ SamePlan(mem[r], plan) /\ plan.steps[i].status = s
      /\ \A j \in DOMAIN mem[r].steps \ {i} : plan.steps[j] = mem[r].steps[j]
  BY <1>2, SetStepLemma, SetStepPlan DEF StepStatus
<1>4. plan.status = mem[r].status
  BY <1>2 DEF SetStep, Plan
<1>5. mem'[r] = plan \/ mem'[r] = SetStatus(plan, "running")
  BY <1>2 DEF Result, TypeOK
<1>6. task'[r] = [task[r] EXCEPT ![i] = "reporting"] /\ UNCHANGED <<pc, performed, published>>
  BY <1>2 DEF Result, Goto, TypeOK
<1> HIDE DEF plan
<1>7. /\ SetStatus(plan, "running").steps = plan.steps
      /\ SetStatus(plan, "running").status = "running"
  BY <1>3, SetStatusPlan, SetStatusLemma DEF PlanStatus
<1>8. /\ mem'[r].steps = plan.steps
      /\ mem'[r].status = mem[r].status \/ mem'[r].status = "running"
  BY <1>4, <1>5, <1>7
<1>9. SamePlan(mem[r], mem'[r])
  BY <1>3, <1>8 DEF SamePlan, SameShape
<1>10. Moves(r, i, "reporting")
  BY <1>1, <1>2, <1>3, <1>6, <1>8, <1>9 DEF Moves, Active, Before
<1>11. Seen(r) => mem'[r].status \notin DOMAIN EventOf
  BY <1>2, <1>8, SaidLemma
<1> QED
  BY <1>1, <1>2, <1>6, <1>10, <1>11, MoveStutters DEF Active

(* The plan's status is set to an outcome, and nothing else changes of it. *)
LEMMA JudgedSeen ==
  ASSUME SInv, TypeOK', NEW r \in Run, NEW i \in DOMAIN task[r],
         task[r][i] \in {"reporting", "checking"}, NEW s \in DOMAIN EventOf,
         mem' = [mem EXCEPT ![r] = SetStatus(@, s)], Goto(r, i, "announcing"),
         UNCHANGED <<pc, performed, published>>
  PROVE  RunSeqOK(r)' /\ Follows(r)
<1>1. task[r][i] \in Active
  BY DEF Active
<1>2. /\ mem[r] \in Plan /\ i \in DOMAIN mem[r].steps /\ TypeOK
      /\ mem[r].steps[i].status # "pending"
  BY <1>1, MoveFacts
<1>3. mem'[r] = SetStatus(mem[r], s) /\ task'[r] = [task[r] EXCEPT ![i] = "announcing"]
  BY <1>2 DEF Goto, TypeOK
<1>4. /\ SamePlan(mem[r], mem'[r]) /\ mem'[r].status = s /\ mem'[r].steps = mem[r].steps
  <2>1. s \in PlanStatus
    BY SaidLemma DEF PlanStatus
  <2> QED
    BY <1>2, <1>3, <2>1, SetStatusPlan, SetStatusLemma
<1>5. Moves(r, i, "announcing")
  BY <1>1, <1>2, <1>3, <1>4 DEF Moves, Active, Before
<1> QED
  BY <1>2, <1>4, <1>5, MoveJudges

(* Only a failed gate ends with a plan that neither goes on nor is decided. *)
LEMMA ReportedSeen ==
  ASSUME SInv, TypeOK', NEW r \in Run, NEW i \in DOMAIN task[r], Reported(r, i)
  PROVE  RunSeqOK(r)' /\ Follows(r)
<1> DEFINE step == mem[r].steps[i]
<1>1. task[r][i] = "reporting" /\ "reporting" \in Active
  BY DEF Reported, At, Active
<1>2. /\ mem[r] \in Plan /\ i \in DOMAIN mem[r].steps /\ TypeOK
      /\ step.status \in {"succeeded", "failed"}
      /\ Seen(r) => /\ mem[r].status \notin DOMAIN EventOf
                    /\ step.status = "succeeded" => mem[r].status = "running"
  BY <1>1, MoveFacts DEF ProgressAt, OutcomeAt
<1>3. UNCHANGED <<pc, performed, published>>
  BY DEF Reported
<1>4. CASE step.status = "failed" /\ step.onFailure # "continue"
  <2>1. mem' = [mem EXCEPT ![r] = SetStatus(@, Verdict(step))] /\ Goto(r, i, "announcing")
    BY <1>4 DEF Reported
  <2>2. Verdict(step) \in DOMAIN EventOf
    BY SaidLemma DEF Verdict
  <2> QED
    BY <1>1, <1>3, <2>1, <2>2, JudgedSeen
<1>5. CASE ~(step.status = "failed" /\ step.onFailure # "continue")
  <2> DEFINE x == IF step.status # "failed" /\ mem[r].checksResolved
                  THEN "checking" ELSE "finished"
  <2>1. mem' = mem /\ Goto(r, i, x)
    BY <1>5 DEF Reported
  <2>2. x \in {"checking", "finished"}
    OBVIOUS
  <2> HIDE DEF x
  <2>3. x \in Active \cup {"finished"} /\ x \notin Before
    BY <2>2 DEF Active, Before
  <2>4. Seen(r) => mem[r].status \in DOMAIN EventOf \cup {"running"} \/ step.status = "failed"
    BY <1>2
  <2>5. Moves(r, i, x)
    BY <1>1, <1>3, <2>1, <2>3, <2>4, QuietMove
  <2>6. CASE x = "checking"
    BY <1>1, <1>2, <1>3, <2>1, <2>5, <2>6, MoveStutters DEF Active
  <2>7. CASE x = "finished"
    BY <1>1, <1>2, <1>3, <2>1, <2>5, <2>7, MoveEnds
  <2> QED
    BY <2>2, <2>6, <2>7
<1> QED
  BY <1>4, <1>5

LEMMA CriterionSeen ==
  ASSUME SInv, TypeOK', NEW r \in Run, NEW i \in DOMAIN task[r],
         CriterionMet(r, i) \/ CriterionNotMet(r, i)
  PROVE  RunSeqOK(r)' /\ Follows(r)
<1>1. task[r][i] = "checking" /\ "checking" \in Active /\ UNCHANGED <<pc, performed, published>>
  BY DEF CriterionMet, CriterionNotMet, At, Active
<1>2. /\ i \in DOMAIN mem[r].steps /\ mem[r].steps[i].status = "succeeded"
      /\ Seen(r) => mem[r].status = "running"
  BY <1>1, MoveFacts DEF ProgressAt, OutcomeAt
<1>3. CASE CriterionMet(r, i)
  <2>1. /\ mem' = [mem EXCEPT ![r] = SetStatus(@, "succeeded")] /\ Goto(r, i, "announcing")
        /\ "succeeded" \in DOMAIN EventOf
    BY <1>3, SaidLemma DEF CriterionMet
  <2> QED
    BY <1>1, <2>1, JudgedSeen
<1>4. CASE CriterionNotMet(r, i)
  <2>1. mem' = mem /\ Goto(r, i, "finished")
    BY <1>4 DEF CriterionNotMet
  <2>2. "finished" \in Active \cup {"finished"} /\ "finished" \notin Before
    BY DEF Before
  <2>3. Moves(r, i, "finished")
    BY <1>1, <1>2, <2>1, <2>2, QuietMove
  <2> QED
    BY <1>1, <1>2, <2>1, <2>3, MoveEnds
<1> QED
  BY <1>3, <1>4

LEMMA AnnouncedIsSeen ==
  ASSUME SInv, TypeOK', NEW r \in Run, NEW i \in DOMAIN task[r], Announced(r, i)
  PROVE  RunSeqOK(r)' /\ Follows(r)
<1>1. /\ task[r][i] = "announcing" /\ "announcing" \in Active
      /\ mem' = mem /\ pc' = pc /\ performed' = performed /\ Goto(r, i, "finished")
  BY DEF Announced, At, Active
<1>2. /\ i \in DOMAIN mem[r].steps /\ TypeOK /\ mem[r].steps[i] \in PlanStep
      /\ OInv /\ RunSeqOK(r)
      /\ mem[r].steps[i].status \in {"succeeded", "failed"}
      /\ Seen(r) => /\ published[r] = {} /\ mem[r].status \in DOMAIN EventOf
                    /\ EventOf[mem[r].status] = {Announcement(mem[r].steps[i])}
  BY <1>1, MoveFacts DEF ProgressAt, OutcomeAt, SInv
<1>3. "finished" \in Active \cup {"finished"} /\ "finished" \notin Before
  BY DEF Before
<1>4. Moves(r, i, "finished")
  BY <1>1, <1>2, <1>3, QuietMove
<1>5. RunSeqOK(r)'
  BY <1>2, <1>4, MoveKeeps
<1>6. CASE ~Seen(r)
  BY <1>2, <1>4, <1>5, <1>6, MoveUnseen
<1>7. CASE Seen(r)
  <2> DEFINE o == mem[r].status
             s == Settled[mem[r].steps[i].status]
  <2>1. /\ pc[r] = "wave"
        /\ Stage(r) = "running" /\ Stage(r)' = StageAt(pc'[r])
        /\ Sequential(r)!UnderWay = {i}
        /\ StepsSeen(r)' = [StepsSeen(r) EXCEPT ![i] = s]
        /\ PerformedSeen(r) = Tried(r) /\ PerformedSeen(r)' = Tried(r)'
        /\ OutcomeSeen(r) = OutcomeOf(mem[r]) /\ OutcomeSeen(r)' = OutcomeOf(mem'[r])
        /\ AnnouncedSeen(r) = Said(published[r]) /\ AnnouncedSeen(r)' = Said(published'[r])
    BY <1>1, <1>2, <1>4, <1>7, MoveSeen
  <2>2. published'[r] = EventOf[o]
    BY <1>2, <1>7 DEF Announced, TypeOK
  <2>3. /\ OutcomeSeen(r) = o /\ OutcomeSeen(r)' = o /\ o # "none"
        /\ AnnouncedSeen(r) = {} /\ AnnouncedSeen(r)' = {o}
    BY <1>1, <1>2, <1>7, <2>1, <2>2, SaidLemma DEF OutcomeOf
  <2>4. s = IF o = "succeeded" THEN "passed" ELSE "open"
    <3>1. o = "succeeded" <=> mem[r].steps[i].status = "succeeded"
      <4>1. o \in {"succeeded", "rolled_back", "aborted"}
        BY <1>2, <1>7, SaidLemma
      <4>2. o = "succeeded" <=> EventOf[o] = {"plan_succeeded"}
        BY <4>1 DEF EventOf
      <4> QED
        BY <1>2, <1>7, <4>2 DEF Announcement
    <3> QED
      BY <1>2, <3>1 DEF Settled
  <2>5. Tried(r)' = Tried(r)
    BY <1>1 DEF Tried
  <2> HIDE DEF o, s
  <2>6. Sequential(r)!Announce
    BY <1>1, <2>1, <2>3, <2>4, <2>5 DEF Sequential!Announce, Sequential!Ends, StageAt
  <2> QED
    BY <1>5, <2>6 DEF Follows, Sequential!Next
<1> QED
  BY <1>6, <1>7

(* An exception leaves execute() from the step under way. *)
LEMMA StepDiesSeen ==
  ASSUME SInv, TypeOK', NEW r \in Run, NEW i \in DOMAIN task[r],
         task[r][i] \in {"saving", "reporting", "announcing"},
         Goto(r, i, "finished"), Dead(r), UNCHANGED <<mem, performed, published>>
  PROVE  RunSeqOK(r)' /\ Follows(r)
<1>1. task[r][i] \in Active /\ "finished" \in Active \cup {"finished"} /\ "finished" \notin Before
  BY DEF Active, Before
<1>2. /\ TypeOK /\ i \in DOMAIN mem[r].steps /\ mem[r].steps[i].status # "skipped"
  BY <1>1, MoveFacts DEF ProgressAt
<1>3. pc'[r] = "dead"
  BY <1>2 DEF Dead, TypeOK
<1>4. Moves(r, i, "finished")
  BY <1>1, <1>3, QuietMove
<1> QED
  BY <1>1, <1>2, <1>3, <1>4, MoveEnds

(* Every stretch of a step of run r. *)
LEMMA StepActionSeen ==
  ASSUME SInv, TypeOK', NEW r \in Run, NEW i \in DOMAIN task[r], StepAction(r, i)
  PROVE  RunSeqOK(r)' /\ Follows(r)
<1>1. CASE GateOpens(r, i)
  BY <1>1, GateOpensSeen
<1>2. CASE Act(r, i)
  BY <1>2, ActSeen
<1>3. CASE PollApproved(r, i)
  <2>1. /\ task[r][i] = "handler" /\ Goto(r, i, "acted")
        /\ UNCHANGED <<mem, pc, performed, published>>
    BY <1>3 DEF PollApproved, At
  <2> QED
    BY <2>1, QuietSeen
<1>4. CASE StepSucceeds(r, i)
  BY <1>4, ResultSeen DEF StepSucceeds, At
<1>5. CASE StepFails(r, i)
  BY <1>5, ResultSeen DEF StepFails, At
<1>6. CASE Reported(r, i)
  BY <1>6, ReportedSeen
<1>7. CASE CriterionMet(r, i) \/ CriterionNotMet(r, i)
  BY <1>7, CriterionSeen
<1>8. CASE Announced(r, i)
  BY <1>8, AnnouncedIsSeen
<1> QED
  BY <1>1, <1>2, <1>3, <1>4, <1>5, <1>6, <1>7, <1>8 DEF StepAction

(* Between two waves: nothing is under way, and the steps stay as they are. *)
RestMove(r) ==
  /\ mem'[r].steps = mem[r].steps /\ task'[r] = task[r]
  /\ published'[r] = published[r] /\ performed' = performed
  /\ AtRest(mem[r], task[r])

LEMMA RestKeeps ==
  ASSUME TypeOK, TypeOK', NEW r \in Run, RunSeqOK(r), RestMove(r),
         InTurn(mem[r], task[r]) /\ pc'[r] \notin {"idle", "fetched", "dead"} =>
           mem'[r].status \in DOMAIN EventOf \cup {"running"} \/ LastFailed(mem[r])
  PROVE  RunSeqOK(r)'
<1> DEFINE p == mem[r]
           q == mem'[r]
           t == task[r]
           d == pc'[r]
<1>1. p \in Plan /\ q \in Plan /\ q.steps = p.steps /\ task'[r] = t /\ AtRest(p, t)
  BY DEF TypeOK, RestMove
<1>2. Tried(r)' = Tried(r)
  BY <1>1 DEF Tried, RestMove
<1>3. SeqOK(p, pc[r], t, Tried(r))
  BY DEF RunSeqOK
<1>4. InTurn(p, t) /\ d \notin {"idle", "fetched", "dead"} =>
        q.status \in DOMAIN EventOf \cup {"running"} \/ LastFailed(p)
  OBVIOUS
<1> HIDE DEF p, q, t, d
<1>5. (InTurn(q, t) <=> InTurn(p, t)) /\ (AtRest(q, t) <=> AtRest(p, t))
  BY <1>1, SameSteps
<1>6. LastFailed(q) <=> LastFailed(p)
  BY <1>1 DEF LastFailed
<1>7. \A i \in DOMAIN q.steps : t[i] \notin Active
  BY <1>1 DEF AtRest, Active
<1>8. SeqOK(q, d, t, Tried(r))
  BY <1>1, <1>3, <1>4, <1>5, <1>6, <1>7 DEF SeqOK
<1> QED
  BY <1>1, <1>2, <1>8 DEF RunSeqOK, q, d

LEMMA RestView ==
  ASSUME TypeOK, TypeOK', NEW r \in Run, RestMove(r),
         pc[r] \notin {"idle", "fetched"}, pc'[r] \notin {"idle", "fetched"}
  PROVE  /\ Seen(r)' <=> Seen(r)
         /\ ~Seen(r) => Follows(r)
         /\ Seen(r) =>
              /\ InTurn(mem[r], task[r])
              /\ Stage(r) = StageAt(pc[r]) /\ Stage(r)' = StageAt(pc'[r])
              /\ StepsSeen(r) = Shown(mem[r], task[r])
              /\ UNCHANGED <<StepsSeen(r), PerformedSeen(r), AnnouncedSeen(r)>>
              /\ OutcomeSeen(r) = OutcomeOf(mem[r]) /\ OutcomeSeen(r)' = OutcomeOf(mem'[r])
              /\ Sequential(r)!UnderWay = {}
<1> DEFINE p == mem[r]
           q == mem'[r]
           t == task[r]
<1>1. /\ p \in Plan /\ q \in Plan /\ q.steps = p.steps /\ task'[r] = t /\ AtRest(p, t)
      /\ t \in [DOMAIN p.steps -> TaskState]
  BY DEF TypeOK, RestMove
<1>2. Tried(r)' = Tried(r)
  BY <1>1 DEF Tried, RestMove
<1>3. InTurn(q, task'[r]) <=> InTurn(p, t)
  <2> HIDE DEF p, q, t
  <2> QED
    BY <1>1, SameSteps
<1>4. (Seen(r)' <=> Seen(r)) /\ (Seen(r) <=> InTurn(p, t))
  BY <1>3, SeenView, SeenViewPrimed
<1>5. ASSUME ~Seen(r) PROVE Follows(r)
  BY <1>4, <1>5, SeenView, SeenViewPrimed DEF Follows, Sequential!vars
<1>6. Shown(q, task'[r]) = Shown(p, t)
  BY <1>1 DEF Shown
<1>7. ASSUME Seen(r)
      PROVE  /\ Stage(r) = StageAt(pc[r]) /\ Stage(r)' = StageAt(pc'[r])
             /\ StepsSeen(r) = Shown(p, t) /\ StepsSeen(r)' = Shown(p, t)
             /\ PerformedSeen(r)' = PerformedSeen(r) /\ AnnouncedSeen(r)' = AnnouncedSeen(r)
             /\ OutcomeSeen(r) = OutcomeOf(p) /\ OutcomeSeen(r)' = OutcomeOf(q)
  BY <1>2, <1>4, <1>6, <1>7, SeenView, SeenViewPrimed DEF RestMove
<1>8. \A i \in DOMAIN Shown(p, t) : Shown(p, t)[i] # "doing"
  <2> HIDE DEF p, t
  <2>1. \A i \in DOMAIN p.steps : t[i] \notin Active
    BY <1>1 DEF AtRest, Active
  <2> QED
    BY <1>1, <2>1, ShownLemma
<1>9. ASSUME Seen(r) PROVE Sequential(r)!UnderWay = {}
  BY <1>7, <1>8, <1>9 DEF Sequential!UnderWay
<1> QED
  BY <1>4, <1>5, <1>7, <1>9

(* Nothing that execute() does between two waves is seen but that it ends. *)
LEMMA SaveSeen ==
  ASSUME SInv, TypeOK', NEW r \in Run, SaveLands(r) \/ WaveJoins(r) \/ SaveFails(r)
  PROVE  RunSeqOK(r)' /\ Follows(r)
<1>1. /\ TypeOK /\ RunSeqOK(r) /\ RunOK(mem[r], pc[r], task[r], published[r])
  BY DEF SInv, OInv, IInv, RunsOK
<1>2. \/ SaveLands(r) /\ pc[r] \in {"starting", "joined"} /\ pc'[r] = "loop"
      \/ SaveLands(r) /\ pc[r] = "finishing" /\ pc'[r] = "done"
      \/ WaveJoins(r) /\ pc[r] = "wave" /\ pc'[r] = "joined"
      \/ SaveFails(r) /\ pc[r] \in {"starting", "joined", "finishing"} /\ pc'[r] = "dead"
  BY <1>1 DEF SaveLands, WaveJoins, SaveFails, Dead, TypeOK
<1>3. AtRest(mem[r], task[r])
  <2>1. CASE WaveJoins(r)
    BY <1>1, <2>1 DEF WaveJoins, TypeOK, AtRest
  <2>2. CASE ~WaveJoins(r)
    BY <1>1, <1>2, <2>2 DEF RunOK, PhaseOK
  <2> QED
    BY <2>1, <2>2
<1>4. mem' = mem /\ RestMove(r)
  BY <1>3 DEF RestMove, SaveLands, WaveJoins, SaveFails
<1>5. pc[r] \notin {"idle", "fetched"} /\ pc'[r] \notin {"idle", "fetched"}
  BY <1>2
<1>6. RunSeqOK(r)'
  <2>1. InTurn(mem[r], task[r]) /\ pc'[r] # "dead" =>
          mem[r].status \in DOMAIN EventOf \cup {"running"} \/ LastFailed(mem[r])
    BY <1>1, <1>2, <1>3 DEF RunSeqOK, SeqOK
  <2> QED
    BY <1>1, <1>4, <2>1, RestKeeps
<1>7. CASE ~Seen(r)
  BY <1>1, <1>4, <1>5, <1>6, <1>7, RestView
<1>8. CASE Seen(r)
  <2>1. /\ Stage(r) = "running" /\ Stage(r)' = StageAt(pc'[r])
        /\ UNCHANGED <<StepsSeen(r), PerformedSeen(r), AnnouncedSeen(r), OutcomeSeen(r)>>
        /\ OutcomeSeen(r) = OutcomeOf(mem[r])
        /\ Sequential(r)!UnderWay = {}
    BY <1>1, <1>2, <1>4, <1>5, <1>8, RestView DEF StageAt
  <2>2. CASE pc'[r] \in {"loop", "joined"}
    BY <1>6, <2>1, <2>2 DEF Follows, Sequential!vars, StageAt
  <2>3. CASE pc'[r] = "done"
    <3>1. mem[r].status = "succeeded"
      BY <1>1, <1>2, <2>3 DEF RunOK, PhaseOK
    <3>2. OutcomeSeen(r) # "none"
      BY <2>1, <3>1, SaidLemma DEF OutcomeOf
    <3>3. Sequential(r)!Stop
      BY <2>1, <2>3, <3>2 DEF Sequential!Stop, StageAt
    <3> QED
      BY <1>6, <3>3 DEF Follows, Sequential!Next
  <2>4. CASE pc'[r] = "dead"
    <3>1. Sequential(r)!Break
      BY <2>1, <2>4 DEF Sequential!Break, StageAt
    <3> QED
      BY <1>6, <3>1 DEF Follows, Sequential!Next
  <2> QED
    BY <1>2, <2>2, <2>3, <2>4
<1> QED
  BY <1>7, <1>8

(* The loop is left when the plan is complete, or has an outcome, or nothing of
   it can be taken. *)
LEMMA FinishSeen ==
  ASSUME SInv, TypeOK', NEW r \in Run, Finish(r)
  PROVE  RunSeqOK(r)' /\ Follows(r)
<1> DEFINE p == mem[r]
           t == task[r]
<1>1. /\ TypeOK /\ RunSeqOK(r) /\ RunOK(p, "loop", t, published[r]) /\ pc[r] = "loop"
      /\ p \in Plan /\ t \in [DOMAIN p.steps -> TaskState]
  BY DEF SInv, OInv, IInv, RunsOK, TypeOK, Finish
<1>2. AtRest(p, t)
  BY <1>1 DEF RunOK, PhaseOK
<1>3. \/ /\ p.status = "running" /\ IsComplete(p)
         /\ mem'[r] = SetStatus(p, "succeeded") /\ pc'[r] = "finishing"
      \/ /\ ~(p.status = "running" /\ IsComplete(p))
         /\ ~GoesOn(p) \/ ReadySteps(p) = {}
         /\ mem'[r] = p /\ pc'[r] = "done"
  BY <1>1 DEF Finish, TypeOK
<1>4. /\ SetStatus(p, "succeeded").steps = p.steps
      /\ SetStatus(p, "succeeded").status = "succeeded"
  BY <1>1, SetStatusLemma, SetStatusPlan DEF PlanStatus
<1>5. RestMove(r)
  BY <1>2, <1>3, <1>4 DEF RestMove, Finish
<1>6. pc[r] \notin {"idle", "fetched"} /\ pc'[r] \notin {"idle", "fetched", "dead"}
  BY <1>1, <1>3
<1>7. InTurn(p, t) => p.status \in DOMAIN EventOf \cup {"running"} \/ LastFailed(p)
  BY <1>1, <1>2 DEF RunSeqOK, SeqOK
<1>8. RunSeqOK(r)'
  <2>1. InTurn(p, t) => mem'[r].status \in DOMAIN EventOf \cup {"running"} \/ LastFailed(p)
    BY <1>3, <1>4, <1>7, SaidLemma
  <2> QED
    BY <1>1, <1>5, <2>1, RestKeeps
<1>9. CASE ~Seen(r)
  BY <1>1, <1>5, <1>6, <1>8, <1>9, RestView
<1>10. CASE Seen(r)
  <2>1. /\ Stage(r) = "running" /\ Stage(r)' = StageAt(pc'[r])
        /\ StepsSeen(r) = Shown(p, t)
        /\ UNCHANGED <<StepsSeen(r), PerformedSeen(r), AnnouncedSeen(r)>>
        /\ OutcomeSeen(r) = OutcomeOf(p) /\ OutcomeSeen(r)' = OutcomeOf(mem'[r])
        /\ Sequential(r)!UnderWay = {} /\ InTurn(p, t)
    BY <1>1, <1>5, <1>6, <1>10, RestView DEF StageAt
  <2>2. OrderOK(p, t)
    BY <1>1, <2>1 DEF RunOK, TurnOK
  <2> HIDE DEF p, t
  <2>3. CASE p.status = "running" /\ IsComplete(p)
    <3>1. OutcomeSeen(r) = "none" /\ OutcomeSeen(r)' = "succeeded"
      BY <1>3, <1>4, <2>1, <2>3, SaidLemma DEF OutcomeOf
    <3>2. \A i \in DOMAIN Shown(p, t) : Shown(p, t)[i] \in {"passed", "skipped"}
      <4>1. \A i \in DOMAIN p.steps : t[i] \notin Active
        BY <1>2 DEF AtRest, Active
      <4>2. \A i \in DOMAIN p.steps : Settled[p.steps[i].status] \in {"passed", "skipped"}
        BY <2>3 DEF IsComplete, Settled
      <4> QED
        BY <1>1, <4>1, <4>2, ShownLemma
    <3>3. pc'[r] = "finishing"
      BY <1>3, <2>3
    <3>4. Sequential(r)!Complete
      BY <2>1, <3>1, <3>2, <3>3 DEF Sequential!Complete, Sequential!Undecided, StageAt
    <3> QED
      BY <1>8, <3>4 DEF Follows, Sequential!Next
  <2>4. CASE ~(p.status = "running" /\ IsComplete(p))
    <3>1. mem'[r] = p /\ pc'[r] = "done" /\ (~GoesOn(p) \/ ReadySteps(p) = {})
      BY <1>3, <2>4
    <3>2. p.status \in DOMAIN EventOf \/ ReadySteps(p) = {}
      BY <1>1, <1>7, <2>1, <2>2, <2>4, <3>1, NothingReady DEF GoesOn
    <3>3. OutcomeSeen(r) # "none" \/ Sequential(r)!Due = {}
      <4>1. CASE p.status \in DOMAIN EventOf
        BY <2>1, <4>1, SaidLemma DEF OutcomeOf
      <4>2. CASE ReadySteps(p) = {}
        <5>1. DOMAIN Shown(p, t) = DOMAIN p.steps /\ IsChain(p)
          BY <2>1 DEF Shown, InTurn
        <5>2. \A i \in DOMAIN Shown(p, t) :
                ~(Shown(p, t)[i] = "todo" /\ (i = 1 \/ Shown(p, t)[i-1] = "passed"))
          BY <1>1, <1>2, <4>2, <5>1, DueIsReady
        <5> QED
          BY <2>1, <5>2 DEF Sequential!Due
      <4> QED
        BY <3>2, <4>1, <4>2
    <3>4. Sequential(r)!Stop
      BY <2>1, <3>1, <3>3 DEF Sequential!Stop, StageAt
    <3> QED
      BY <1>8, <3>4 DEF Follows, Sequential!Next
  <2> QED
    BY <2>3, <2>4
<1> QED
  BY <1>9, <1>10

LEMMA FetchSeen ==
  ASSUME SInv, TypeOK', NEW r \in Run, Fetch(r)
  PROVE  RunSeqOK(r)' /\ Follows(r)
<1>1. IInv /\ TypeOK /\ pc[r] = "idle"
  BY DEF SInv, OInv, IInv, Fetch
<1>2. pc'[r] = "fetched" /\ performed' = performed
      /\ task'[r] = [i \in DOMAIN mem'[r].steps |-> "none"]
  BY <1>1 DEF Fetch, TypeOK
<1>3. \A i : <<r, i>> \notin performed
  BY <1>1 DEF IInv, PerformedOK, TasksOK, TaskOK
<1>4. RunSeqOK(r)'
  BY <1>2, <1>3 DEF RunSeqOK, SeqOK, Tried, Active
<1>5. ~Seen(r) /\ ~Seen(r)'
  BY <1>1, <1>2, SeenView, SeenViewPrimed
<1>6. UNCHANGED <<Stage(r), StepsSeen(r), PerformedSeen(r), OutcomeSeen(r), AnnouncedSeen(r)>>
  BY <1>1, <1>2, <1>5, SeenView, SeenViewPrimed
<1> QED
  BY <1>4, <1>6 DEF Follows, Sequential!vars

(* The run begins with nothing of its own begun. *)
LEMMA ExecuteSeen ==
  ASSUME SInv, TypeOK', NEW r \in Run, Execute(r)
  PROVE  RunSeqOK(r)' /\ Follows(r)
<1> DEFINE p == mem[r]
           q == mem'[r]
           t == task[r]
<1>1. /\ TypeOK /\ RunSeqOK(r) /\ RunOK(p, "fetched", t, published[r]) /\ pc[r] = "fetched"
      /\ p \in Plan /\ q \in Plan /\ t \in [DOMAIN p.steps -> TaskState]
      /\ DOMAIN p.steps = 1..Len(p.steps) /\ Len(p.steps) \in Nat
  BY StepsLemma DEF SInv, OInv, IInv, RunsOK, TypeOK, Execute
<1>2. /\ q = SetStatus(p, "running") /\ pc'[r] = "starting" /\ task' = task
      /\ performed' = performed /\ published' = published
  BY <1>1 DEF Execute, TypeOK
<1>3. q.steps = p.steps /\ q.status = "running"
  <2>1. /\ SetStatus(p, "running").steps = p.steps
        /\ SetStatus(p, "running").status = "running"
    BY <1>1, SetStatusLemma, SetStatusPlan DEF PlanStatus
  <2> QED
    BY <1>2, <2>1
<1>4. published[r] = {} /\ \A i \in DOMAIN p.steps : t[i] = "none"
  BY <1>1 DEF RunOK, PhaseOK
<1>5. RestMove(r)
  BY <1>2, <1>3, <1>4 DEF RestMove, AtRest
<1>6. RunSeqOK(r)'
  BY <1>1, <1>3, <1>5, RestKeeps
<1>7. Tried(r)' = {}
  BY <1>1, <1>2, <1>3, <1>4 DEF RunSeqOK, SeqOK, Tried, Before
<1>8. /\ Stage(r) = "waiting" /\ StepsSeen(r) = <<>> /\ PerformedSeen(r) = {}
      /\ OutcomeSeen(r) = "none" /\ AnnouncedSeen(r) = {}
  BY <1>1, SeenView
<1>9. CASE ~Seen(r)'
  <2>1. /\ Stage(r)' = "other" /\ StepsSeen(r)' = <<>> /\ PerformedSeen(r)' = {}
        /\ OutcomeSeen(r)' = "none" /\ AnnouncedSeen(r)' = {}
    BY <1>2, <1>9, SeenViewPrimed
  <2>2. Sequential(r)!BeginOther
    BY <1>8, <2>1 DEF Sequential!BeginOther
  <2> QED
    BY <1>6, <2>2 DEF Follows, Sequential!Next
<1>10. CASE Seen(r)'
  <2>1. /\ Stage(r)' = "running" /\ StepsSeen(r)' = Shown(q, t) /\ PerformedSeen(r)' = {}
        /\ OutcomeSeen(r)' = "none" /\ AnnouncedSeen(r)' = {} /\ InTurn(q, t)
    BY <1>2, <1>3, <1>4, <1>7, <1>10, SeenViewPrimed, SaidLemma DEF StageAt, OutcomeOf
  <2> HIDE DEF p, q, t
  <2>2. OrderOK(p, t)
    <3>1. InTurn(p, t)
      BY <1>1, <1>3, <2>1, SameSteps
    <3> QED
      BY <1>1, <3>1 DEF RunOK, TurnOK
  <2>3. /\ DOMAIN Shown(q, t) = 1..Len(p.steps)
        /\ \A i \in 1..Len(p.steps) : Shown(q, t)[i] = Settled[p.steps[i].status]
        /\ \A i \in 1..Len(p.steps) : Settled[p.steps[i].status] \in Sequential(r)!Rest
        /\ \A i \in 1..Len(p.steps) :
             Settled[p.steps[i].status] = "todo" <=> p.steps[i].status = "pending"
    <3>1. \A i \in DOMAIN p.steps : t[i] \notin Active
      BY <1>4 DEF Active
    <3>2. /\ DOMAIN Shown(q, t) = DOMAIN p.steps
          /\ \A i \in DOMAIN p.steps :
               Shown(q, t)[i] = IF t[i] \in Active THEN "doing" ELSE Settled[p.steps[i].status]
          /\ \A i \in DOMAIN p.steps :
               Settled[p.steps[i].status] \in {"todo", "passed", "skipped", "open"}
          /\ \A i \in DOMAIN p.steps :
               Settled[p.steps[i].status] = "todo" <=> p.steps[i].status = "pending"
      BY <1>1, <1>3, ShownLemma
    <3> QED
      BY <1>1, <3>1, <3>2 DEF Sequential!Rest
  <2>4. Shown(q, t) \in Seq(Sequential(r)!Rest)
    <3>1. \A i \in 1..Len(p.steps) : Shown(q, t)[i] \in Sequential(r)!Rest
      BY <2>3
    <3>2. Shown(q, t) = [i \in 1..Len(p.steps) |-> Shown(q, t)[i]]
      BY <2>3 DEF Shown
    <3> QED
      BY <1>1, <3>1, <3>2
  <2>5. \A j \in DOMAIN Shown(q, t) : \A i \in 1..j :
          Shown(q, t)[i] = "todo" => Shown(q, t)[j] = "todo"
    <3>1. \A j \in 1..Len(p.steps) : 1..j \subseteq 1..Len(p.steps)
      BY <1>1
    <3> QED
      BY <1>1, <2>2, <2>3, <3>1 DEF OrderOK
  <2>6. Sequential(r)!Begin
    BY <1>8, <2>1, <2>4, <2>5 DEF Sequential!Begin
  <2> QED
    BY <1>6, <2>6 DEF Follows, Sequential!Next
<1> QED
  BY <1>9, <1>10

(* The wave is the one step that may be taken. *)
LEMMA StartWaveSeen ==
  ASSUME SInv, TypeOK', NEW r \in Run, StartWave(r)
  PROVE  RunSeqOK(r)' /\ Follows(r)
<1> DEFINE p == mem[r]
           q == mem'[r]
           t == task[r]
           y == task'[r]
           R == ReadySteps(p)
<1>1. /\ TypeOK /\ RunSeqOK(r) /\ RunOK(p, "loop", t, published[r]) /\ pc[r] = "loop"
      /\ p \in Plan /\ q \in Plan /\ t \in [DOMAIN p.steps -> TaskState]
      /\ DOMAIN p.steps = 1..Len(p.steps) /\ Len(p.steps) \in Nat
  BY StepsLemma DEF SInv, OInv, IInv, RunsOK, TypeOK, StartWave
<1>2. /\ q = Launch(p, R) /\ pc'[r] = "wave" /\ performed' = performed /\ published' = published
      /\ y = [i \in DOMAIN p.steps |-> IF i \in R THEN FirstTask(p.steps[i]) ELSE t[i]]
      /\ R # {} /\ p.status = "running"
  BY <1>1 DEF StartWave, TypeOK, GoesOn
<1>3. /\ SamePlan(p, q) /\ q.status = "running" /\ DOMAIN q.steps = DOMAIN p.steps
      /\ \A i \in DOMAIN p.steps : q.steps[i].status =
           IF i \in R THEN Launched(p.steps[i]) ELSE p.steps[i].status
  BY <1>1, <1>2, LaunchLemma, LaunchPlan DEF SamePlan, SameShape
<1>4. /\ R \subseteq DOMAIN p.steps /\ AtRest(p, t)
      /\ \A i \in R : p.steps[i].status = "pending" /\ t[i] = "none"
  BY <1>1 DEF RunOK, PhaseOK, AtRest, ProgressOK, ProgressAt, ReadySteps
<1>5. \A i \in R : /\ y[i] \in {"saving", "handler", "reporting"}
                   /\ q.steps[i].status # "pending"
  <2>1. ASSUME NEW i \in R PROVE p.steps[i].isApprovalGate \in BOOLEAN
    BY <1>1, <1>4, StepsLemma DEF PlanStep
  <2> QED
    BY <1>2, <1>3, <1>4, <2>1 DEF FirstTask, Launched
<1>6. \A i \in DOMAIN p.steps \ R : y[i] = t[i] /\ q.steps[i].status = p.steps[i].status
  BY <1>2, <1>3
<1> HIDE DEF p, q, t, y, R
<1>7. InTurn(q, y) <=> InTurn(p, t)
  <2>1. \A j \in DOMAIN p.steps : (y[j] = "none" /\ q.steps[j].status # "pending") <=>
                                  (t[j] = "none" /\ p.steps[j].status # "pending")
    BY <1>4, <1>5, <1>6
  <2>2. p \in Plan /\ q \in Plan /\ SamePlan(p, q)
    BY <1>1, <1>3
  <2> QED
    BY <2>1, <2>2, SameTurn
<1>8. ASSUME InTurn(p, t)
      PROVE  \E k \in R : /\ R = {k} /\ y[k] \in Active
                          /\ \A j \in DOMAIN p.steps : k < j => p.steps[j].status = "pending"
                          /\ \A j \in DOMAIN p.steps \ {k} :
                               y[j] = t[j] /\ q.steps[j].status = p.steps[j].status
  <2>1. PICK k \in R : TRUE
    BY <1>2
  <2>2. OrderOK(p, t)
    BY <1>1, <1>8 DEF RunOK, TurnOK
  <2>3. R = {k}
    BY <1>1, <1>8, <2>1, <2>2, OneReady DEF R
  <2>4. ASSUME NEW j \in DOMAIN p.steps, k < j PROVE p.steps[j].status = "pending"
    <3>1. k \in 1..j /\ k \in DOMAIN p.steps
      BY <1>1, <1>4, <2>1, <2>4
    <3> QED
      BY <1>4, <2>1, <2>2, <3>1 DEF OrderOK
  <2> QED
    BY <1>5, <1>6, <2>1, <2>3, <2>4 DEF Active
<1>9. RunSeqOK(r)'
  <2>1. SeqOK(p, "loop", t, Tried(r))
    BY <1>1 DEF RunSeqOK, p, t
  <2>2. Tried(r)' = Tried(r)
    BY <1>2, <1>3 DEF Tried, p, q
  <2>3. \A i \in DOMAIN q.steps : y[i] \in Before => i \notin Tried(r)
    BY <1>3, <1>4, <1>6, <2>1 DEF SeqOK, Before
  <2>4. \A i \in DOMAIN p.steps : t[i] \notin Active
    BY <1>4 DEF AtRest, Active
  <2>5. ASSUME InTurn(q, y)
        PROVE  /\ \A i, j \in DOMAIN q.steps :
                    y[i] \in Active /\ i < j => q.steps[j].status = "pending"
               /\ ~AtRest(q, y)
    <3>1. PICK k \in R : /\ R = {k} /\ y[k] \in Active
                         /\ \A j \in DOMAIN p.steps : k < j => p.steps[j].status = "pending"
                         /\ \A j \in DOMAIN p.steps \ {k} :
                              y[j] = t[j] /\ q.steps[j].status = p.steps[j].status
      BY <1>7, <1>8, <2>5
    <3>2. k \in DOMAIN p.steps /\ \A j \in DOMAIN p.steps : k < j => j # k
      BY <1>1, <1>4
    <3>3. \A i \in DOMAIN p.steps : y[i] \in Active => i = k
      BY <2>4, <3>1
    <3> QED
      BY <1>3, <3>1, <3>2, <3>3 DEF AtRest, Active
  <2>6. SeqOK(q, "wave", y, Tried(r))
    BY <2>3, <2>5 DEF SeqOK
  <2> QED
    BY <1>2, <2>2, <2>6 DEF RunSeqOK, q, y
<1>10. CASE ~InTurn(p, t)
  <2>1. ~Seen(r) /\ ~Seen(r)'
    BY <1>7, <1>10, SeenView, SeenViewPrimed DEF p, q, t, y
  <2>2. UNCHANGED <<Stage(r), StepsSeen(r), PerformedSeen(r), OutcomeSeen(r), AnnouncedSeen(r)>>
    BY <1>1, <1>2, <2>1, SeenView, SeenViewPrimed
  <2> QED
    BY <1>9, <2>2 DEF Follows, Sequential!vars
<1>11. CASE InTurn(p, t)
  <2>1. Seen(r) /\ Seen(r)'
    BY <1>1, <1>2, <1>7, <1>11, SeenView, SeenViewPrimed DEF p, q, t, y
  <2>2. /\ Stage(r) = "running" /\ Stage(r)' = "running"
        /\ StepsSeen(r) = Shown(p, t) /\ StepsSeen(r)' = Shown(q, y)
        /\ PerformedSeen(r) = Tried(r) /\ PerformedSeen(r)' = Tried(r)'
        /\ OutcomeSeen(r) = OutcomeOf(p) /\ OutcomeSeen(r)' = OutcomeOf(q)
        /\ AnnouncedSeen(r)' = AnnouncedSeen(r)
    BY <1>1, <1>2, <2>1, SeenView, SeenViewPrimed DEF StageAt, p, q, t, y
  <2>3. OutcomeSeen(r) = "none" /\ OutcomeSeen(r)' = "none"
    BY <1>2, <1>3, <2>2, SaidLemma DEF OutcomeOf
  <2>4. PerformedSeen(r)' = PerformedSeen(r)
    BY <1>2, <1>3, <2>2 DEF Tried, p, q
  <2>5. PICK k \in R : /\ R = {k} /\ y[k] \in Active
                       /\ \A j \in DOMAIN p.steps \ {k} :
                            y[j] = t[j] /\ q.steps[j].status = p.steps[j].status
    BY <1>8, <1>11
  <2>6. k \in DOMAIN p.steps /\ k \in ReadySteps(p)
    BY <1>4, <2>5 DEF R
  <2>7. DOMAIN Shown(p, t) = DOMAIN p.steps /\ DOMAIN Shown(q, y) = DOMAIN p.steps
    BY <1>3 DEF Shown
  <2>8. Sequential(r)!UnderWay = {}
    <3>1. \A i \in DOMAIN p.steps : t[i] \notin Active
      BY <1>4 DEF AtRest, Active
    <3>2. \A i \in DOMAIN Shown(p, t) : Shown(p, t)[i] # "doing"
      BY <1>1, <3>1, ShownLemma
    <3> QED
      BY <2>2, <3>2 DEF Sequential!UnderWay
  <2>9. k \in Sequential(r)!Due
    <3>1. Shown(p, t)[k] = "todo" /\ (k = 1 \/ Shown(p, t)[k-1] = "passed")
      BY <1>1, <1>4, <1>11, <2>6, DueIsReady DEF InTurn
    <3> QED
      BY <2>2, <2>6, <2>7, <3>1 DEF Sequential!Due
  <2>10. Shown(q, y) = [Shown(p, t) EXCEPT ![k] = "doing"]
    <3>1. Shown(q, y)[k] = "doing"
      BY <1>3, <2>5, <2>6 DEF Shown, StepSeen, Active
    <3>2. \A j \in DOMAIN p.steps \ {k} : Shown(q, y)[j] = Shown(p, t)[j]
      BY <1>3, <2>5 DEF Shown
    <3> QED
      BY <2>7, <3>1, <3>2 DEF Shown
  <2>11. Sequential(r)!Take
    BY <2>2, <2>3, <2>4, <2>8, <2>9, <2>10
    DEF Sequential!Take, Sequential!Undecided, Sequential!Ends
  <2> QED
    BY <1>9, <2>11 DEF Follows, Sequential!Next
<1> QED
  BY <1>10, <1>11

(* The service dies, and the step under way with it. *)
LEMMA CrashSeen ==
  ASSUME SInv, TypeOK', NEW r \in Run, Crash
  PROVE  RunSeqOK(r)' /\ Follows(r)
<1> DEFINE p == mem[r]
           t == task[r]
           y == [i \in DOMAIN t |-> IF t[i] = "none" THEN "none" ELSE "finished"]
<1>1. /\ TypeOK /\ RunSeqOK(r) /\ RunOK(p, pc[r], t, published[r])
      /\ p \in Plan /\ t \in [DOMAIN p.steps -> TaskState]
  BY DEF SInv, OInv, IInv, RunsOK, TypeOK
<1>2. /\ mem' = mem /\ performed' = performed /\ published' = published /\ task'[r] = y
      /\ pc'[r] = IF pc[r] \in {"idle", "fetched", "done"} THEN pc[r] ELSE "dead"
  BY <1>1 DEF Crash, TypeOK
<1>3. \A i \in DOMAIN p.steps : /\ y[i] \in {"none", "finished"}
                                /\ y[i] = "none" <=> t[i] = "none"
  BY <1>1
<1>4. DOMAIN y = DOMAIN p.steps
  BY <1>1
<1>5. CASE pc[r] \in {"idle", "fetched", "done"}
  <2>1. AtRest(p, t)
    BY <1>1, <1>5 DEF RunOK, PhaseOK
  <2>2. y = t
    BY <1>1, <2>1 DEF AtRest
  <2>3. Untouched(r)
    BY <1>2, <1>5, <2>2 DEF Untouched
  <2> QED
    BY <1>1, <2>3, UntouchedFollows
<1>6. CASE pc[r] \notin {"idle", "fetched", "done"}
  <2> HIDE DEF p, t, y
  <2>1. Tried(r)' = Tried(r)
    BY <1>2 DEF Tried
  <2>2. SeqOK(p, pc[r], t, Tried(r))
    BY <1>1 DEF RunSeqOK, p, t
  <2>3. AtRest(p, y)
    BY <1>3 DEF AtRest
  <2>4. SeqOK(p, "dead", y, Tried(r))
    BY <1>3, <2>2, <2>3 DEF SeqOK, Before, Active
  <2>5. RunSeqOK(r)'
    BY <1>2, <1>6, <2>1, <2>4 DEF RunSeqOK, p
  <2>6. InTurn(p, y) <=> InTurn(p, t)
    BY <1>3 DEF InTurn, FoundIn
  <2>7. Seen(r)' <=> Seen(r)
    BY <1>2, <1>6, <2>6, SeenView, SeenViewPrimed DEF p, t
  <2>8. CASE ~Seen(r)
    <3>1. UNCHANGED <<Stage(r), StepsSeen(r), PerformedSeen(r), OutcomeSeen(r), AnnouncedSeen(r)>>
      BY <1>2, <1>6, <2>7, <2>8, SeenView, SeenViewPrimed
    <3> QED
      BY <2>5, <3>1 DEF Follows, Sequential!vars
  <2>9. CASE Seen(r)
    <3>1. /\ InTurn(p, t) /\ Stage(r)' = "dead"
          /\ Stage(r) = IF pc[r] = "dead" THEN "dead" ELSE "running"
          /\ StepsSeen(r) = Shown(p, t) /\ StepsSeen(r)' = Shown(p, y)
          /\ UNCHANGED <<PerformedSeen(r), OutcomeSeen(r), AnnouncedSeen(r)>>
      BY <1>2, <1>6, <2>1, <2>7, <2>9, SeenView, SeenViewPrimed DEF StageAt, p, t
    <3>2. \A i \in DOMAIN p.steps : Shown(p, y)[i] = Settled[p.steps[i].status]
      BY <1>3 DEF Shown, StepSeen
    <3>3. DOMAIN Shown(p, t) = DOMAIN p.steps /\ DOMAIN Shown(p, y) = DOMAIN p.steps
      BY DEF Shown
    <3>4. \A i \in DOMAIN p.steps :
            Shown(p, t)[i] = IF t[i] \in Active THEN "doing" ELSE Settled[p.steps[i].status]
      BY <1>1, ShownLemma
    <3>5. CASE \A i \in DOMAIN p.steps : t[i] \notin Active
      <4>1. Shown(p, y) = Shown(p, t)
        BY <3>2, <3>3, <3>4, <3>5 DEF Shown
      <4>2. CASE pc[r] = "dead"
        BY <2>5, <3>1, <4>1, <4>2 DEF Follows, Sequential!vars
      <4>3. CASE pc[r] # "dead"
        <5>1. Sequential(r)!UnderWay = {}
          <6>1. \A i \in DOMAIN Shown(p, t) : Shown(p, t)[i] # "doing"
            BY <1>1, <3>5, ShownLemma
          <6> QED
            BY <3>1, <6>1 DEF Sequential!UnderWay
        <5>2. Sequential(r)!Break
          BY <3>1, <4>1, <4>3, <5>1 DEF Sequential!Break
        <5> QED
          BY <2>5, <5>2 DEF Follows, Sequential!Next
      <4> QED
        BY <4>2, <4>3
    <3>6. CASE \E i \in DOMAIN p.steps : t[i] \in Active
      <4>1. PICK i \in DOMAIN p.steps : t[i] \in Active
        BY <3>6
      <4>2. pc[r] # "dead"
        BY <2>2, <3>1, <4>1 DEF SeqOK, AtRest, Active
      <4>3. \A j \in DOMAIN p.steps : t[j] \in Active => j = i
        BY <1>1, <3>1, <4>1 DEF RunOK, TurnOK, OrderOK
      <4>4. Settled[p.steps[i].status] \in {"passed", "open"}
        <5>1. p.steps[i].status \in StepStatus \ {"pending", "skipped"}
          <6>1. i \in DOMAIN task[r] /\ task[r][i] \in Active
            BY <1>1, <4>1 DEF t
          <6>2. /\ mem[r].steps[i] \in PlanStep /\ mem[r].steps[i].status # "pending"
                /\ ProgressAt(mem[r], pc[r], task[r][i], i)
                /\ task[r][i] \in {"saving", "saved", "handler", "acted"} =>
                     mem[r].steps[i].status \in {"running", "waiting_approval"}
            BY <6>1, MoveFacts
          <6> QED
            BY <6>1, <6>2 DEF p, PlanStep, ProgressAt, Active
        <5> QED
          BY <5>1 DEF Settled, StepStatus
      <4>5. Shown(p, y) = [Shown(p, t) EXCEPT ![i] = Settled[p.steps[i].status]]
        <5>1. \A j \in DOMAIN p.steps \ {i} : Shown(p, y)[j] = Shown(p, t)[j]
          BY <3>2, <3>4, <4>3
        <5> QED
          BY <3>2, <3>3, <4>1, <5>1 DEF Shown
      <4>6. i \in Sequential(r)!UnderWay
        BY <3>1, <3>3, <3>4, <4>1 DEF Sequential!UnderWay
      <4>7. Sequential(r)!Break
        BY <3>1, <4>2, <4>4, <4>5, <4>6 DEF Sequential!Break, Sequential!Ends
      <4> QED
        BY <2>5, <4>7 DEF Follows, Sequential!Next
    <3> QED
      BY <3>5, <3>6
  <2> QED
    BY <2>8, <2>9
<1> QED
  BY <1>5, <1>6

(* The actions of run s are no business of run r. *)
LEMMA OthersUntouched ==
  ASSUME TypeOK, NEW r \in Run, NEW s \in Run \ {r},
         \/ Fetch(s) \/ Execute(s) \/ SaveLands(s) \/ StartWave(s) \/ WaveJoins(s)
         \/ Finish(s) \/ SaveFails(s)
         \/ \E i \in DOMAIN task[s] : StepAction(s, i) \/ EmitFails(s, i)
         \/ \E w \in saving : w.run = s /\ (GateSaveLands(w) \/ GateSaveFails(w))
  PROVE  Untouched(r)
<1>1. CASE Fetch(s) \/ Execute(s) \/ SaveLands(s) \/ StartWave(s) \/ WaveJoins(s)
           \/ Finish(s) \/ SaveFails(s)
  BY <1>1 DEF TypeOK, Untouched, Fetch, Execute, SaveLands, StartWave, WaveJoins, Finish,
     SaveFails, Dead
<1>2. ASSUME NEW i \in DOMAIN task[s], StepAction(s, i) PROVE Untouched(r)
  <2>1. task'[r] = task[r]
    BY <1>2 DEF StepAction, GateOpens, Act, PollApproved, StepSucceeds, StepFails, Result,
       Reported, CriterionMet, CriterionNotMet, Announced, Goto, TypeOK
  <2>2. /\ mem'[r] = mem[r] /\ pc' = pc /\ published'[r] = published[r]
        /\ performed' = performed \/ performed' = performed \cup {<<s, i>>}
    BY <1>2 DEF StepAction, GateOpens, Act, PollApproved, StepSucceeds, StepFails, Result,
       Reported, CriterionMet, CriterionNotMet, Announced, TypeOK
  <2> QED
    BY <2>1, <2>2 DEF Untouched
<1>3. ASSUME NEW i \in DOMAIN task[s], EmitFails(s, i) PROVE Untouched(r)
  BY <1>3 DEF EmitFails, Goto, Dead, TypeOK, Untouched
<1>4. ASSUME NEW w \in saving, w.run = s, GateSaveLands(w) \/ GateSaveFails(w)
      PROVE  Untouched(r)
  BY <1>4 DEF GateSaveLands, GateSaveFails, Goto, Dead, TypeOK, Untouched
<1> QED
  BY <1>1, <1>2, <1>3, <1>4

LEMMA SeqInit == Init => SInv /\ \A r \in Run : Sequential(r)!Init
<1> SUFFICES ASSUME Init PROVE SInv /\ \A r \in Run : Sequential(r)!Init
  OBVIOUS
<1>1. ASSUME NEW r \in Run PROVE RunSeqOK(r) /\ Sequential(r)!Init
  <2>1. /\ pc[r] = "idle" /\ performed = {}
        /\ \A i \in DOMAIN mem[r].steps : task[r][i] \notin Active
    BY DEF Init, Active
  <2>2. RunSeqOK(r)
    BY <2>1 DEF RunSeqOK, SeqOK, Tried
  <2>3. Sequential(r)!Init
    BY <2>1, SeenView DEF Sequential!Init
  <2> QED
    BY <2>2, <2>3
<1> QED
  BY <1>1, OutcomeInit DEF SInv

(* Every action. *)
LEMMA SeqStep ==
  ASSUME SInv, [Next]_vars
  PROVE  SInv' /\ \A r \in Run : Follows(r)
<1>1. OInv /\ IInv /\ TypeOK /\ OInv' /\ TypeOK'
  BY OutcomeStep DEF SInv, OInv, IInv
<1>2. SUFFICES ASSUME NEW r \in Run PROVE RunSeqOK(r)' /\ Follows(r)
  BY <1>1 DEF SInv
<1>3. RunSeqOK(r)
  BY DEF SInv
<1>4. ASSUME Untouched(r) PROVE RunSeqOK(r)' /\ Follows(r)
  BY <1>1, <1>3, <1>4, UntouchedFollows
<1>5. ASSUME NEW s \in Run, Fetch(s) PROVE RunSeqOK(r)' /\ Follows(r)
  <2>1. CASE s = r
    BY <1>1, <1>5, <2>1, FetchSeen
  <2>2. CASE s # r
    BY <1>1, <1>4, <1>5, <2>2, OthersUntouched
  <2> QED
    BY <2>1, <2>2
<1>6. ASSUME NEW s \in Run, Execute(s) \/ SaveLands(s) \/ StartWave(s) \/ WaveJoins(s)
                           \/ Finish(s) \/ SaveFails(s)
      PROVE  RunSeqOK(r)' /\ Follows(r)
  <2>1. CASE s = r
    BY <1>1, <1>6, <2>1, ExecuteSeen, SaveSeen, StartWaveSeen, FinishSeen
  <2>2. CASE s # r
    BY <1>1, <1>4, <1>6, <2>2, OthersUntouched
  <2> QED
    BY <2>1, <2>2
<1>7. ASSUME NEW s \in Run, NEW i \in DOMAIN task[s], StepAction(s, i)
      PROVE  RunSeqOK(r)' /\ Follows(r)
  <2>1. CASE s = r
    BY <1>1, <1>7, <2>1, StepActionSeen
  <2>2. CASE s # r
    BY <1>1, <1>4, <1>7, <2>2, OthersUntouched
  <2> QED
    BY <2>1, <2>2
<1>8. ASSUME NEW s \in Run, NEW i \in DOMAIN task[s], EmitFails(s, i)
      PROVE  RunSeqOK(r)' /\ Follows(r)
  <2>1. CASE s = r
    <3>1. /\ task[r][i] \in {"saving", "reporting", "announcing"} /\ i \in DOMAIN task[r]
          /\ Goto(r, i, "finished") /\ Dead(r) /\ UNCHANGED <<mem, performed, published>>
      BY <1>8, <2>1 DEF EmitFails, At
    <3> QED
      BY <1>1, <3>1, StepDiesSeen
  <2>2. CASE s # r
    BY <1>1, <1>4, <1>8, <2>2, OthersUntouched
  <2> QED
    BY <2>1, <2>2
<1>9. ASSUME NEW w \in saving, GateSaveLands(w) \/ GateSaveFails(w)
      PROVE  RunSeqOK(r)' /\ Follows(r)
  <2>1. w.run \in Run /\ w.step \in DOMAIN task[w.run] /\ task[w.run][w.step] = "saving"
    BY <1>1, SavingStep
  <2>2. CASE w.run = r /\ GateSaveLands(w)
    <3>1. /\ Goto(r, w.step, "saved") /\ UNCHANGED <<mem, pc, performed, published>>
          /\ w.step \in DOMAIN task[r] /\ task[r][w.step] = "saving"
      BY <2>1, <2>2 DEF GateSaveLands
    <3> QED
      BY <1>1, <3>1, QuietSeen
  <2>3. CASE w.run = r /\ GateSaveFails(w)
    <3>1. /\ Goto(r, w.step, "finished") /\ Dead(r) /\ UNCHANGED <<mem, performed, published>>
          /\ w.step \in DOMAIN task[r] /\ task[r][w.step] = "saving"
      BY <2>1, <2>3 DEF GateSaveFails
    <3> QED
      BY <1>1, <3>1, StepDiesSeen
  <2>4. CASE w.run # r
    BY <1>1, <1>4, <1>9, <2>1, <2>4, OthersUntouched
  <2> QED
    BY <1>9, <2>2, <2>3, <2>4
<1>10. CASE Crash
  BY <1>1, <1>10, CrashSeen
<1>11. CASE ApiAction \/ UNCHANGED vars
  <2>1. Untouched(r)
    BY <1>11 DEF Untouched, ApiAction, ApproveReads, DeleteReads, AppendReads, Reads,
       RequestWrites, vars
  <2> QED
    BY <1>4, <2>1
<1> QED
  BY <1>5, <1>6, <1>7, <1>8, <1>9, <1>10, <1>11 DEF Next, RunAction, Failure

(* The invariant of a run seen from outside, with that of how it ends
   (runner.py:21-107, monitor.py:33-86). *)
THEOREM SequentialInvariance == Spec => []SInv
BY SeqInit, SeqStep, PTL DEF Spec

(* Every run implements SequentialRun, whatever the plans, the API calls, the
   other runs and the failures around it: a step is taken in turn and once, and
   the outcome is decided once, announced once and followed by nothing
   (runner.py:35-54, 56-108, monitor.py:26-51). *)
THEOREM RunsAreSequential == Spec => RunsInSequence
<1>1. Init => \A r \in Run : Sequential(r)!Init
  BY SeqInit
<1>2. SInv /\ [Next]_vars =>
        [\A r \in Run : UNCHANGED Sequential(r)!vars \/ Sequential(r)!Next]_vars
  BY SeqStep DEF Follows
<1> QED
  BY <1>1, <1>2, SequentialInvariance, PTL DEF Spec, RunsInSequence

(* The same of one run: its behaviours are behaviours of SequentialRun. *)
THEOREM RunImplementsSequentialRun ==
  ASSUME NEW r \in Run
  PROVE  Spec => Sequential(r)!Spec
<1>1. Init => Sequential(r)!Init
  BY SeqInit
<1>2. SInv /\ [Next]_vars => [Sequential(r)!Next]_(Sequential(r)!vars)
  BY SeqStep DEF Follows
<1> QED
  BY <1>1, <1>2, SequentialInvariance, PTL DEF Spec, Sequential!Spec

-------------------------------------------------------------------------------
(* Which runs take their steps one by one: the properties above are of those.
   A plan whose steps form a chain stays one if an appended step gets an id of
   its own; and what one run finds under way of the work of another is then a
   beginning of the plan. *)

Tidy(p) == /\ IsChain(p)
           /\ Appendable # {} => \A i \in DOMAIN p.steps : p.steps[i].id < Len(p.steps)

(* No step is to do before one that is not. *)
Begun(p) == \A i, j \in DOMAIN p.steps :
              j < i /\ p.steps[i].status # "pending" => p.steps[j].status # "pending"

InTurnInv == /\ \A p \in Copies : Tidy(p) /\ Begun(p)
             /\ \A r \in Run : \A i \in Found(r) : 1..i \subseteq Found(r)

LEMMA ShapeTidy ==
  ASSUME NEW p, NEW q, SameShape(p, q), Tidy(p), NEW n \in Nat, DOMAIN p.steps = 1..n
  PROVE  Tidy(q)
<1>1. \A i \in DOMAIN p.steps : i # 1 => i - 1 \in DOMAIN p.steps
  OBVIOUS
<1>2. IsChain(q)
  <2>1. ASSUME NEW i \in DOMAIN p.steps
        PROVE  /\ q.steps[i].dependsOn = IF i = 1 THEN {} ELSE {q.steps[i-1].id}
               /\ \A j \in DOMAIN p.steps : q.steps[j].id = q.steps[i].id => j = i
    <3>1. /\ p.steps[i].dependsOn = IF i = 1 THEN {} ELSE {p.steps[i-1].id}
          /\ \A j \in DOMAIN p.steps : p.steps[j].id = p.steps[i].id => j = i
      BY DEF Tidy, IsChain
    <3> QED
      BY <1>1, <3>1 DEF SameShape
  <2> QED
    BY <2>1 DEF SameShape, IsChain
<1> QED
  BY <1>2 DEF SameShape, Tidy

(* A wave of a chain is at most one step, behind all that are not to do. *)
LEMMA WaveBegun ==
  ASSUME NEW p \in Plan, IsChain(p), Begun(p), NEW n \in Nat
  PROVE  Begun(Launch(p, {j \in ReadySteps(p) : j <= n}))
<1> DEFINE S == {j \in ReadySteps(p) : j <= n}
           q == Launch(p, S)
<1>1. DOMAIN p.steps = 1..Len(p.steps) /\ Len(p.steps) \in Nat
  BY StepsLemma
<1>2. /\ DOMAIN q.steps = DOMAIN p.steps
      /\ \A i \in DOMAIN p.steps :
           q.steps[i].status = IF i \in S THEN Launched(p.steps[i]) ELSE p.steps[i].status
  BY LaunchLemma DEF SameShape
<1>3. \A i \in DOMAIN p.steps : Launched(p.steps[i]) # "pending"
  <2>1. \A i \in DOMAIN p.steps : p.steps[i].isApprovalGate \in BOOLEAN
    BY StepsLemma DEF PlanStep
  <2> QED
    BY <2>1 DEF Launched
<1>4. \A i \in S : i \in DOMAIN p.steps /\ p.steps[i].dependsOn \subseteq SucceededIds(p)
  BY DEF ReadySteps
<1>5. ASSUME NEW i \in S, NEW j \in DOMAIN p.steps, j < i
      PROVE  p.steps[j].status # "pending"
  <2>1. i \in DOMAIN p.steps /\ i - 1 \in DOMAIN p.steps /\ i # 1
    BY <1>1, <1>4, <1>5
  <2>2. p.steps[i - 1].id \in SucceededIds(p)
    BY <1>4, <2>1 DEF IsChain
  <2>3. PICK k \in DOMAIN p.steps :
          p.steps[k].id = p.steps[i - 1].id /\ p.steps[k].status = "succeeded"
    BY <2>2 DEF SucceededIds
  <2>4. p.steps[i - 1].status # "pending"
    BY <2>1, <2>3 DEF IsChain
  <2>5. j = i - 1 \/ j < i - 1
    BY <1>1, <1>5, <2>1
  <2> QED
    BY <2>1, <2>4, <2>5 DEF Begun
<1> HIDE DEF S, q
<1>6. ASSUME NEW i \in DOMAIN q.steps, NEW j \in DOMAIN q.steps, j < i,
             q.steps[i].status # "pending"
      PROVE  q.steps[j].status # "pending"
  <2>1. i \in S \/ p.steps[i].status # "pending"
    BY <1>2, <1>6
  <2>2. p.steps[j].status # "pending"
    BY <1>2, <1>5, <1>6, <2>1 DEF Begun
  <2> QED
    BY <1>2, <1>3, <1>6, <2>2
<1>7. Begun(q)
  BY <1>6 DEF Begun
<1> QED
  BY <1>7 DEF q, S

(* An appended step that is to do comes behind everything, under a new id. *)
LEMMA AppendTidy ==
  ASSUME NEW p \in Plan, NEW step \in Appendable, step.status = "pending",
         Tidy(p), Begun(p)
  PROVE  Tidy(AppendStep(p, step)) /\ Begun(AppendStep(p, step))
<1> DEFINE q == AppendStep(p, step)
           n == Len(p.steps)
<1>1. /\ step \in PlanStep /\ n \in Nat /\ DOMAIN p.steps = 1..n
      /\ \A i \in 1..n : p.steps[i].id \in Nat /\ p.steps[i].id < n
  BY AppendableLemma, StepsLemma DEF Tidy, PlanStep
<1>2. /\ Len(q.steps) = n + 1 /\ DOMAIN q.steps = 1..(n + 1)
      /\ \A i \in 1..n : q.steps[i] = p.steps[i]
      /\ q.steps[n + 1].id = n /\ q.steps[n + 1].status = "pending"
  BY <1>1, AppendLemma
<1>3. q.steps[n + 1].dependsOn = IF n = 0 THEN {} ELSE {p.steps[n].id}
  <2> DEFINE new == [step EXCEPT !.id = n,
                       !.dependsOn = IF p.steps = <<>> THEN {} ELSE {p.steps[n].id}]
  <2>1. q.steps = Append(p.steps, new) /\ p.steps \in Seq(PlanStep)
    BY StepsLemma DEF AppendStep, Plan
  <2>2. q.steps[n + 1] = new
    BY <1>1, <2>1
  <2>3. new.dependsOn = IF p.steps = <<>> THEN {} ELSE {p.steps[n].id}
    BY <1>1 DEF PlanStep
  <2>4. p.steps = <<>> <=> n = 0
    BY <2>1
  <2> QED
    BY <2>2, <2>3, <2>4
<1> HIDE DEF q, n
<1>4. \A i \in DOMAIN q.steps : i \in 1..n \/ i = n + 1
  BY <1>1, <1>2
<1>5. IsChain(q)
  <2>1. ASSUME NEW i \in 1..n
        PROVE  /\ q.steps[i].dependsOn = IF i = 1 THEN {} ELSE {q.steps[i-1].id}
               /\ \A j \in DOMAIN q.steps : q.steps[j].id = q.steps[i].id => j = i
    <3>1. /\ p.steps[i].dependsOn = IF i = 1 THEN {} ELSE {p.steps[i-1].id}
          /\ \A j \in 1..n : p.steps[j].id = p.steps[i].id => j = i
      BY <1>1 DEF Tidy, IsChain
    <3>2. i # 1 => i - 1 \in 1..n
      BY <1>1
    <3>3. q.steps[n + 1].id # q.steps[i].id
      BY <1>1, <1>2
    <3> QED
      BY <1>2, <1>4, <3>1, <3>2, <3>3
  <2>2. /\ q.steps[n + 1].dependsOn = IF n + 1 = 1 THEN {} ELSE {q.steps[n + 1 - 1].id}
        /\ \A j \in DOMAIN q.steps : q.steps[j].id = q.steps[n + 1].id => j = n + 1
    <3>1. n + 1 - 1 = n /\ (n + 1 = 1 <=> n = 0) /\ (n # 0 => n \in 1..n)
      BY <1>1
    <3>2. \A j \in 1..n : q.steps[j].id # n
      BY <1>1, <1>2
    <3>3. q.steps[n + 1].dependsOn = IF n = 0 THEN {} ELSE {q.steps[n].id}
      BY <1>2, <1>3, <3>1
    <3>4. q.steps[n + 1].dependsOn = IF n + 1 = 1 THEN {} ELSE {q.steps[n + 1 - 1].id}
      BY <3>1, <3>3
    <3>5. \A j \in DOMAIN q.steps : q.steps[j].id = q.steps[n + 1].id => j = n + 1
      BY <1>2, <1>4, <3>2
    <3> QED
      BY <3>4, <3>5
  <2>3. ASSUME NEW i \in DOMAIN q.steps
        PROVE  /\ q.steps[i].dependsOn = IF i = 1 THEN {} ELSE {q.steps[i-1].id}
               /\ \A j \in DOMAIN q.steps : q.steps[j].id = q.steps[i].id => j = i
    <3>1. CASE i \in 1..n
      BY <2>1, <3>1
    <3>2. CASE i = n + 1
      <4>1. i - 1 = n + 1 - 1
        BY <1>1, <3>2
      <4> QED
        BY <2>2, <3>2, <4>1, Zenon
    <3> QED
      BY <1>4, <3>1, <3>2
  <2> QED
    BY <2>3 DEF IsChain
<1>6. Tidy(q)
  <2>1. \A i \in 1..n : q.steps[i].id < n + 1
    BY <1>1, <1>2
  <2>2. q.steps[n + 1].id < n + 1
    BY <1>1, <1>2
  <2> QED
    BY <1>2, <1>4, <1>5, <2>1, <2>2 DEF Tidy
<1>7. Begun(q)
  <2> SUFFICES ASSUME NEW i \in DOMAIN q.steps, NEW j \in DOMAIN q.steps, j < i,
                      q.steps[i].status # "pending"
               PROVE  q.steps[j].status # "pending"
    BY DEF Begun
  <2>1. i \in 1..n /\ j \in 1..n
    BY <1>1, <1>2, <1>4
  <2> QED
    BY <1>1, <1>2, <2>1 DEF Begun
<1> QED
  BY <1>6, <1>7 DEF q

LEMMA MadeTidy ==
  ASSUME NEW p \in Plan, NEW q, Made(p, q), Tidy(p), Begun(p),
         \A step \in Appendable : step.status = "pending"
  PROVE  Tidy(q) /\ Begun(q)
<1>1. Len(p.steps) \in Nat /\ DOMAIN p.steps = 1..Len(p.steps)
  BY StepsLemma
<1>2. CASE Restated(p, q)
  BY <1>1, <1>2, ShapeTidy DEF Restated, SameShape, Begun
<1>3. ASSUME NEW n \in Nat, q = Launch(p, {j \in ReadySteps(p) : j <= n})
      PROVE  Tidy(q) /\ Begun(q)
  <2>1. SameShape(p, q) /\ IsChain(p)
    BY <1>3, LaunchLemma DEF Tidy
  <2> QED
    BY <1>1, <1>3, <2>1, ShapeTidy, WaveBegun
<1> QED
  BY <1>2, <1>3, AppendTidy DEF Made

-------------------------------------------------------------------------------
(* What a run has found stays as it was when the plan was fetched. *)

LEMMA SameFound ==
  ASSUME NEW r \in Run, DOMAIN mem'[r].steps = DOMAIN mem[r].steps,
         \A i \in DOMAIN mem[r].steps :
           /\ task'[r][i] = "none" <=> task[r][i] = "none"
           /\ mem'[r].steps[i].status = "pending" <=> mem[r].steps[i].status = "pending"
  PROVE  Found(r)' = Found(r)
BY DEF Found

LEMMA WaveFound ==
  ASSUME TypeOK, NEW r \in Run, StartWave(r), NEW s \in Run
  PROVE  Found(s)' = Found(s)
<1> DEFINE ready == ReadySteps(mem[r])
<1>1. /\ mem' = [mem EXCEPT ![r] = Launch(mem[r], ready)]
      /\ task' = [task EXCEPT ![r] = [i \in DOMAIN mem[r].steps |->
                    IF i \in ready THEN FirstTask(mem[r].steps[i]) ELSE task[r][i]]]
  BY DEF StartWave
<1>2. CASE s # r
  BY <1>1, <1>2 DEF TypeOK, Found
<1>3. CASE s = r
  <2>1. /\ mem[r] \in Plan
        /\ mem'[r] = Launch(mem[r], ready)
        /\ \A i \in DOMAIN mem[r].steps :
             task'[r][i] = IF i \in ready THEN FirstTask(mem[r].steps[i]) ELSE task[r][i]
    BY <1>1 DEF TypeOK
  <2>2. /\ DOMAIN mem'[r].steps = DOMAIN mem[r].steps
        /\ \A i \in DOMAIN mem[r].steps \ ready :
             mem'[r].steps[i].status = mem[r].steps[i].status
    BY <2>1, LaunchLemma DEF SameShape
  <2>3. \A i \in DOMAIN mem[r].steps : FirstTask(mem[r].steps[i]) # "none"
    <3>1. \A i \in DOMAIN mem[r].steps : mem[r].steps[i].isApprovalGate \in BOOLEAN
      BY <2>1, StepsLemma DEF PlanStep
    <3> QED
      BY <3>1 DEF FirstTask, Launched
  <2>4. \A i \in ready : i \in DOMAIN mem[r].steps /\ mem[r].steps[i].status = "pending"
    BY DEF ReadySteps
  <2> QED
    BY <1>3, <2>1, <2>2, <2>3, <2>4 DEF Found
<1> QED
  BY <1>2, <1>3

LEMMA StepFound ==
  ASSUME IInv, [Next]_vars, NEW s \in Run, ~Fetch(s)
  PROVE  Found(s)' = Found(s)
<1>0. /\ TypeOK /\ \A r \in Run : mem[r] \in Plan /\ DOMAIN task[r] = DOMAIN mem[r].steps
  BY DEF IInv, TypeOK
<1>1. CASE \E r \in Run : Fetch(r)
  BY <1>0, <1>1 DEF Fetch, TypeOK, Found
<1>2. ASSUME NEW r \in Run, RunAction(r) PROVE Found(s)' = Found(s)
  <2>1. \A x \in PlanStatus : SetStatus(mem[r], x).steps = mem[r].steps
    BY <1>0, SetStatusLemma
  <2>2. CASE Execute(r) \/ Finish(r)
    <3>1. mem'[s].steps = mem[s].steps /\ task' = task
      BY <1>0, <2>1, <2>2 DEF Execute, Finish, TypeOK, PlanStatus
    <3> QED
      BY <3>1, SameFound
  <2>3. CASE SaveLands(r) \/ WaveJoins(r)
    BY <2>3, SameFound DEF SaveLands, WaveJoins
  <2>4. CASE StartWave(r)
    BY <1>0, <2>4, WaveFound
  <2>5. ASSUME NEW w \in saving, GateSaveLands(w) PROVE Found(s)' = Found(s)
    <3>1. mem' = mem /\ w.run \in Run /\ w.step \in DOMAIN mem[w.run].steps
          /\ task[w.run][w.step] = "saving"
      BY <1>0, <2>5 DEF GateSaveLands, IInv, SavingOK, TypeOK
    <3>2. \A i \in DOMAIN mem[s].steps : task'[s][i] = "none" <=> task[s][i] = "none"
      BY <1>0, <2>5, <3>1, GotoLemma DEF GateSaveLands, TaskState
    <3> QED
      BY <3>1, <3>2, SameFound
  <2>6. ASSUME NEW i \in DOMAIN task[r], StepAction(r, i) PROVE Found(s)' = Found(s)
    <3>1. PICK p : Restated(mem[r], p) /\ mem' = [mem EXCEPT ![r] = p]
      BY <2>6, StepActionCopy
    <3>2. PICK t \in TaskState \ {"none"} : Goto(r, i, t) /\ task[r][i] # "none"
      BY <2>6 DEF StepAction, GateOpens, Act, PollApproved, StepSucceeds, StepFails, Result,
                  Reported, CriterionMet, CriterionNotMet, Announced, At, TaskState
    <3>3. \A j \in DOMAIN mem[s].steps : task'[s][j] = "none" <=> task[s][j] = "none"
      BY <1>0, <3>2, GotoLemma
    <3>4. /\ DOMAIN mem'[s].steps = DOMAIN mem[s].steps
          /\ \A j \in DOMAIN mem[s].steps :
               mem'[s].steps[j].status = "pending" <=> mem[s].steps[j].status = "pending"
      BY <1>0, <3>1 DEF TypeOK, Restated, SameShape
    <3> QED
      BY <3>3, <3>4, SameFound
  <2> QED
    BY <1>2, <2>2, <2>3, <2>4, <2>5, <2>6 DEF RunAction
<1>3. CASE ApiAction \/ UNCHANGED vars
  <2>1. UNCHANGED <<mem, task>>
    BY <1>3 DEF ApiAction, ApproveReads, DeleteReads, AppendReads, Reads, RequestWrites, vars
  <2> QED
    BY <2>1 DEF Found
<1>4. CASE Failure
  <2>1. ASSUME NEW r \in Run, SaveFails(r) PROVE Found(s)' = Found(s)
    BY <2>1 DEF SaveFails, Found
  <2>2. ASSUME NEW r \in Run, NEW i \in DOMAIN task[r], EmitFails(r, i)
        PROVE  Found(s)' = Found(s)
    <3>1. mem' = mem /\ Goto(r, i, "finished") /\ task[r][i] # "none"
      BY <2>2 DEF EmitFails, At
    <3>2. \A j \in DOMAIN mem[s].steps : task'[s][j] = "none" <=> task[s][j] = "none"
      BY <1>0, <3>1, GotoLemma DEF TaskState
    <3> QED
      BY <3>1, <3>2, SameFound
  <2>3. ASSUME NEW w \in saving, GateSaveFails(w) PROVE Found(s)' = Found(s)
    <3>1. mem' = mem /\ w.run \in Run /\ w.step \in DOMAIN mem[w.run].steps
          /\ task[w.run][w.step] = "saving"
      BY <1>0, <2>3 DEF GateSaveFails, IInv, SavingOK, TypeOK
    <3>2. \A i \in DOMAIN mem[s].steps : task'[s][i] = "none" <=> task[s][i] = "none"
      BY <1>0, <2>3, <3>1, GotoLemma DEF GateSaveFails, TaskState
    <3> QED
      BY <3>1, <3>2, SameFound
  <2>4. CASE Crash
    <3>1. mem' = mem /\ \A i \in DOMAIN mem[s].steps :
                          task'[s][i] = IF task[s][i] = "none" THEN "none" ELSE "finished"
      BY <1>0, <2>4 DEF Crash
    <3> QED
      BY <3>1, SameFound
  <2> QED
    BY <1>4, <2>1, <2>2, <2>3, <2>4 DEF Failure
<1> QED
  BY <1>1, <1>2, <1>3, <1>4 DEF Next

LEMMA InTurnStep ==
  ASSUME IInv, InTurnInv, [Next]_vars, \A step \in Appendable : step.status = "pending"
  PROVE  InTurnInv'
<1>1. \A p \in Copies : p \in Plan
  BY DEF IInv, TypeOK, Copies
<1>2. ASSUME NEW q \in Copies' PROVE Tidy(q) /\ Begun(q)
  BY <1>1, <1>2, CopiesLemma, MadeTidy DEF InTurnInv
<1>3. ASSUME NEW r \in Run, NEW i \in Found(r)' PROVE 1..i \subseteq Found(r)'
  <2>1. CASE ~Fetch(r)
    BY <1>3, <2>1, StepFound DEF InTurnInv
  <2>2. CASE Fetch(r)
    <3>1. /\ mem'[r] = store /\ task'[r] = [j \in DOMAIN store.steps |-> "none"]
          /\ store \in Plan /\ store \in Copies
      BY <2>2 DEF Fetch, IInv, TypeOK, Copies
    <3>2. Found(r)' = {j \in DOMAIN store.steps : store.steps[j].status # "pending"}
      BY <3>1 DEF Found
    <3>3. DOMAIN store.steps = 1..Len(store.steps) /\ Len(store.steps) \in Nat /\ Begun(store)
      BY <3>1, StepsLemma DEF InTurnInv
    <3>4. ASSUME NEW j \in 1..i PROVE j \in Found(r)'
      BY <1>3, <3>2, <3>3, <3>4 DEF Begun
    <3> QED
      BY <3>4
  <2> QED
    BY <2>1, <2>2
<1> QED
  BY <1>2, <1>3 DEF InTurnInv

(* The runs of a chain take its steps one by one, with any number of runs, of
   calls and of faults, if what is appended is still to do and the ids of the
   plan begin at s0, or nothing is appended.  So the properties above, and
   SequentialRun, are of every run of such a plan (runner.py:35-47,
   planning/api.py:65-112). *)
THEOREM RunsTakeTurns ==
  ASSUME NEW plan, Tidy(plan), \A step \in Appendable : step.status = "pending"
  PROVE  Spec /\ store = plan => [](\A r \in Run : OneByOne(r))
<1>1. Init /\ store = plan => InTurnInv
  <2> SUFFICES ASSUME Init, store = plan PROVE InTurnInv
    OBVIOUS
  <2>1. \A p \in Copies : p = plan
    BY DEF Init, Copies
  <2>2. \A i \in DOMAIN plan.steps : plan.steps[i].status = "pending"
    BY PlansAssumption DEF Init
  <2>3. \A r \in Run : Found(r) = {}
    BY <2>2 DEF Init, Found
  <2> QED
    BY <2>1, <2>2, <2>3 DEF InTurnInv, Begun
<1>2. IInv /\ InTurnInv /\ [Next]_vars => InTurnInv'
  BY InTurnStep
<1>3. InTurnInv => \A r \in Run : OneByOne(r)
  BY DEF InTurnInv, Copies, Tidy, OneByOne
<1> QED
  BY <1>1, <1>2, <1>3, Invariance, PTL DEF Spec

(* A generated plan is such a plan, if it has the gate of SingleStepPlan or
   nothing is appended: ids that begin at s1 repeat with the first append
   (generator.py:100-141, planning/api.py:65-112). *)
THEOREM GeneratedPlansTakeTurns ==
  ASSUME NEW action \in STRING, NEW requiresApproval \in BOOLEAN,
         \/ Appendable = {}
         \/ action \notin DOMAIN Templates /\ requiresApproval,
         \A step \in Appendable : step.status = "pending"
  PROVE  Spec /\ store = Generate(action, requiresApproval) =>
           [](\A r \in Run : OneByOne(r))
<1> DEFINE plan == Generate(action, requiresApproval)
<1>1. IsChain(plan)
  BY GeneratedPlans DEF Fresh
<1>2. CASE Appendable = {}
  <2>1. Tidy(plan)
    BY <1>1, <1>2 DEF Tidy
  <2> QED
    BY <2>1, RunsTakeTurns
<1>3. CASE action \notin DOMAIN Templates /\ requiresApproval
  <2>1. Len(plan.steps) = 3 /\ \A i \in DOMAIN plan.steps : plan.steps[i].id < 3
    BY <1>3, GatedPlanLemma
  <2>2. Tidy(plan)
    BY <1>1, <2>1 DEF Tidy
  <2> HIDE DEF plan
  <2>3. Spec /\ store = plan => [](\A r \in Run : OneByOne(r))
    BY <2>2, RunsTakeTurns
  <2> QED
    BY <2>3 DEF plan
<1> QED
  BY <1>2, <1>3
================================================================================
