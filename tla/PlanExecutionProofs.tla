-------------------------- MODULE PlanExecutionProofs --------------------------
(***************************************************************************)
(* Type correctness of PlanExecution and its main safety property, that no *)
(* step behind an approval gate is performed without an approval, for any  *)
(* set of plans, any number of runs and of API calls; what PlanGenerator   *)
(* makes of a decision, and what of it every copy of the plan keeps.       *)
(***************************************************************************)
EXTENDS PlanExecution, PlanGenerator, SequenceTheorems, TLAPS

-------------------------------------------------------------------------------
(* The operators on plans *)

(* q is p with other statuses. *)
SameShape(p, q) ==
  /\ DOMAIN q.steps = DOMAIN p.steps
  /\ Len(q.steps) = Len(p.steps)
  /\ \A i \in DOMAIN p.steps :
       /\ q.steps[i].id = p.steps[i].id
       /\ q.steps[i].action = p.steps[i].action
       /\ q.steps[i].dependsOn = p.steps[i].dependsOn
       /\ q.steps[i].isApprovalGate = p.steps[i].isApprovalGate

(* What Plan says of a plan's steps. *)
LEMMA StepsLemma ==
  ASSUME NEW p \in Plan
  PROVE  /\ p.steps \in Seq(PlanStep)
         /\ Len(p.steps) \in Nat
         /\ DOMAIN p.steps = 1..Len(p.steps)
         /\ \A i \in DOMAIN p.steps : p.steps[i] \in PlanStep
<1>1. p.steps \in Seq(PlanStep)
  BY DEF Plan
<1> QED
  BY <1>1

(* A step given another status is the same step otherwise. *)
LEMMA NewStatusLemma ==
  ASSUME NEW step \in PlanStep, NEW s \in StepStatus
  PROVE  LET new == [step EXCEPT !.status = s]
         IN  /\ new \in PlanStep
             /\ new.status = s
             /\ new.id = step.id
             /\ new.action = step.action
             /\ new.dependsOn = step.dependsOn
             /\ new.isApprovalGate = step.isApprovalGate
BY DEF PlanStep

(* The plan's own status is no business of its steps. *)
LEMMA SetStatusLemma ==
  ASSUME NEW p \in Plan, NEW s \in PlanStatus
  PROVE  /\ SetStatus(p, s) \in Plan
         /\ SetStatus(p, s).steps = p.steps
BY DEF SetStatus, Plan

(* SetStep changes the status of one step and nothing else. *)
LEMMA SetStepLemma ==
  ASSUME NEW p \in Plan, NEW i \in DOMAIN p.steps, NEW s \in StepStatus
  PROVE  /\ SetStep(p, i, s) \in Plan
         /\ SameShape(p, SetStep(p, i, s))
         /\ SetStep(p, i, s).steps[i].status = s
         /\ \A j \in DOMAIN p.steps \ {i} : SetStep(p, i, s).steps[j] = p.steps[j]
<1> DEFINE new == [p.steps[i] EXCEPT !.status = s]
<1>1. p.steps \in Seq(PlanStep)
  BY StepsLemma
<1>2. i \in 1..Len(p.steps) /\ DOMAIN p.steps = 1..Len(p.steps)
  BY StepsLemma
<1>3. /\ new \in PlanStep /\ new.status = s
      /\ new.id = p.steps[i].id /\ new.action = p.steps[i].action
      /\ new.dependsOn = p.steps[i].dependsOn
      /\ new.isApprovalGate = p.steps[i].isApprovalGate
  BY StepsLemma, NewStatusLemma
<1>4. SetStep(p, i, s) = [p EXCEPT !.steps = [p.steps EXCEPT ![i] = new]]
  BY DEF SetStep
<1>5. /\ [p.steps EXCEPT ![i] = new] \in Seq(PlanStep)
      /\ Len([p.steps EXCEPT ![i] = new]) = Len(p.steps)
  BY <1>1, <1>2, <1>3, ExceptSeq
<1>6. SetStep(p, i, s).steps = [p.steps EXCEPT ![i] = new]
  BY <1>4 DEF Plan
<1>7. SetStep(p, i, s) \in Plan
  BY <1>4, <1>5 DEF Plan
<1>8. SameShape(p, SetStep(p, i, s))
  BY <1>1, <1>2, <1>3, <1>5, <1>6 DEF SameShape
<1> QED
  BY <1>1, <1>2, <1>3, <1>6, <1>7, <1>8

(* Launch changes the statuses of the steps in S and nothing else. *)
LEMMA LaunchLemma ==
  ASSUME NEW p \in Plan, NEW S
  PROVE  /\ Launch(p, S) \in Plan
         /\ SameShape(p, Launch(p, S))
         /\ \A i \in DOMAIN p.steps :
              Launch(p, S).steps[i].status =
                IF i \in S THEN Launched(p.steps[i]) ELSE p.steps[i].status
<1> DEFINE steps == [i \in DOMAIN p.steps |->
                       IF i \in S
                       THEN [p.steps[i] EXCEPT !.status = Launched(p.steps[i])]
                       ELSE p.steps[i]]
<1>1. /\ DOMAIN p.steps = 1..Len(p.steps) /\ Len(p.steps) \in Nat
      /\ \A i \in DOMAIN p.steps : p.steps[i] \in PlanStep
  BY StepsLemma
<1>2. \A i \in DOMAIN p.steps : Launched(p.steps[i]) \in StepStatus
  <2>1. \A step \in PlanStep : step.isApprovalGate \in BOOLEAN
    BY DEF PlanStep
  <2> QED
    BY <1>1, <2>1 DEF Launched, StepStatus
<1>3. \A i \in DOMAIN p.steps : steps[i] \in PlanStep
  BY <1>1, <1>2, NewStatusLemma
<1>4. steps \in Seq(PlanStep) /\ Len(steps) = Len(p.steps) /\ DOMAIN steps = DOMAIN p.steps
  <2>2. steps \in [1..Len(p.steps) -> PlanStep]
    BY <1>1, <1>3
  <2> QED
    BY <1>1, <2>2
<1>5. Launch(p, S) = [p EXCEPT !.steps = steps]
  BY DEF Launch
<1>6. Launch(p, S).steps = steps /\ Launch(p, S) \in Plan
  BY <1>4, <1>5 DEF Plan
<1>7. SameShape(p, Launch(p, S))
  BY <1>1, <1>2, <1>4, <1>6, NewStatusLemma DEF SameShape
<1> QED
  BY <1>1, <1>2, <1>6, <1>7, NewStatusLemma

(* A gate that approve finds waiting changes the steps: nothing else becomes
   "succeeded", and what is to do remains so. *)
LEMMA ApproveLemma ==
  ASSUME NEW p \in Plan
  PROVE  /\ Approve(p) \in Plan
         /\ SameShape(p, Approve(p))
         /\ \A i \in DOMAIN p.steps :
              Approve(p).steps[i].status = "succeeded" =>
                \/ p.steps[i].status = "succeeded"
                \/ Approve(p).steps # p.steps
         /\ \A i \in DOMAIN p.steps :
              Approve(p).steps[i].status = "pending" <=> p.steps[i].status = "pending"
<1> DEFINE steps == [i \in DOMAIN p.steps |->
                       IF /\ p.steps[i].isApprovalGate
                          /\ p.steps[i].status = "waiting_approval"
                       THEN [p.steps[i] EXCEPT !.status = "succeeded"]
                       ELSE p.steps[i]]
<1>1. /\ DOMAIN p.steps = 1..Len(p.steps) /\ Len(p.steps) \in Nat
      /\ \A i \in DOMAIN p.steps : p.steps[i] \in PlanStep
  BY StepsLemma
<1>2. \A i \in DOMAIN p.steps : steps[i] \in PlanStep
  BY <1>1, NewStatusLemma DEF StepStatus
<1>3. steps \in Seq(PlanStep) /\ Len(steps) = Len(p.steps) /\ DOMAIN steps = DOMAIN p.steps
  <2>2. steps \in [1..Len(p.steps) -> PlanStep]
    BY <1>1, <1>2
  <2> QED
    BY <1>1, <2>2
<1>4. Approve(p) = [p EXCEPT !.steps = steps,
                             !.status = IF p.status = "awaiting_approval" THEN "running"
                                        ELSE p.status]
  BY DEF Approve
<1>5. Approve(p).steps = steps /\ Approve(p) \in Plan
  BY <1>3, <1>4 DEF Plan, PlanStatus
<1>6. SameShape(p, Approve(p))
  BY <1>1, <1>3, <1>5, NewStatusLemma DEF SameShape, StepStatus
<1>7. \A i \in DOMAIN p.steps : steps[i].status = "pending" <=> p.steps[i].status = "pending"
  BY <1>1, NewStatusLemma DEF StepStatus
<1> QED
  BY <1>1, <1>5, <1>6, <1>7

-------------------------------------------------------------------------------
(* The inductive invariant.  GateRespected is not inductive: a step behind a
   gate is launched because the copy in memory says that the gate succeeded,
   the runner says so because a poll of Redis did, and Redis may hold any copy
   that a run, a gate or an API call has in flight. *)

(* In every copy of the plan a passed gate has been approved. *)
CopyOK(plan) == WellGated(plan) /\ (HasApprovedGate(plan) => approved)

CopiesOK ==
  /\ CopyOK(store)
  /\ \A r \in Run : CopyOK(mem[r])
  /\ \A w \in saving : CopyOK(w.plan)
  /\ \A q \in requests : CopyOK(q.plan)

(* A started step has its dependencies, and a gate's answer is an approval. *)
TaskOK(r, i) ==
  /\ pc[r] = "idle" => task[r][i] = "none"
  /\ task[r][i] # "none" => mem[r].steps[i].dependsOn \subseteq SucceededIds(mem[r])
  /\ task[r][i] \in {"saving", "saved", "handler", "acted"} =>
       mem[r].steps[i].status \in {"running", "waiting_approval"}
  /\ task[r][i] = "acted" /\ mem[r].steps[i].isApprovalGate => approved

TasksOK == \A r \in Run : \A i \in DOMAIN mem[r].steps : TaskOK(r, i)

(* A save under way belongs to one step, which waits for it. *)
SavingOK ==
  \A w \in saving :
    /\ w.step \in DOMAIN mem[w.run].steps
    /\ task[w.run][w.step] = "saving"
    /\ \A v \in saving : v.run = w.run /\ v.step = w.step => v = w

PerformedOK ==
  \A x \in performed : /\ x[2] \in DOMAIN mem[x[1]].steps
                       /\ task[x[1]][x[2]] # "none"

IInv == TypeOK /\ CopiesOK /\ TasksOK /\ SavingOK /\ PerformedOK

-------------------------------------------------------------------------------
(* Type correctness *)

(* AppendStep gives the plan one step more, and the new step is no gate. *)
LEMMA AppendLemma ==
  ASSUME NEW p \in Plan, NEW step \in PlanStep
  PROVE  LET q == AppendStep(p, step)
             n == Len(p.steps)
         IN  /\ q \in Plan
             /\ Len(q.steps) = n + 1
             /\ DOMAIN q.steps = 1..(n + 1)
             /\ \A i \in 1..n : q.steps[i] = p.steps[i]
             /\ q.steps[n + 1].id = n
             /\ q.steps[n + 1].isApprovalGate = step.isApprovalGate
             /\ q.steps[n + 1].status = step.status
<1> DEFINE n    == Len(p.steps)
           deps == IF p.steps = <<>> THEN {} ELSE {p.steps[n].id}
           new  == [step EXCEPT !.id = n, !.dependsOn = deps]
<1>1. /\ p.steps \in Seq(PlanStep) /\ n \in Nat /\ DOMAIN p.steps = 1..n
      /\ \A i \in 1..n : p.steps[i] \in PlanStep
  BY StepsLemma
<1>2. deps \in SUBSET Nat
  <2>1. CASE p.steps = <<>>
    BY <2>1
  <2>2. CASE p.steps # <<>>
    <3>1. n \in 1..n
      BY <1>1, <2>2
    <3>2. p.steps[n].id \in Nat
      BY <1>1, <3>1 DEF PlanStep
    <3> QED
      BY <2>2, <3>2
  <2> QED
    BY <2>1, <2>2
<1>3. /\ new \in PlanStep /\ new.id = n
      /\ new.isApprovalGate = step.isApprovalGate /\ new.status = step.status
  BY <1>1, <1>2 DEF PlanStep
<1>4. AppendStep(p, step) = [p EXCEPT !.steps = Append(p.steps, new)]
  BY DEF AppendStep
<1>5. Append(p.steps, new) \in Seq(PlanStep)
  BY <1>1, <1>3
<1>6. /\ AppendStep(p, step) \in Plan
      /\ AppendStep(p, step).steps = Append(p.steps, new)
  BY <1>4, <1>5 DEF Plan
<1> QED
  BY <1>1, <1>3, <1>5, <1>6

(* What the append endpoint may copy makes a plan of a plan. *)
LEMMA AppendableLemma ==
  ASSUME NEW p \in Plan, NEW step \in Appendable
  PROVE  step \in PlanStep /\ ~step.isApprovalGate /\ AppendStep(p, step) \in Plan
<1>1. step \in PlanStep /\ ~step.isApprovalGate
  BY AppendableAssumption
<1> QED
  BY <1>1, AppendLemma

(* TypeOK holds of a plan that nobody executes yet. *)
LEMMA TypeInit == Init => TypeOK
<1> SUFFICES ASSUME Init PROVE TypeOK
  OBVIOUS
<1>1. store \in Plan /\ mem \in [Run -> Plan]
  BY PlansAssumption DEF Init
<1>2. pc \in [Run -> RunState]
  BY DEF Init, RunState
<1>3. \A r \in Run : task[r] \in [DOMAIN mem[r].steps -> TaskState]
  BY DEF Init, TaskState
<1>4. calls \in 0..MaxCalls /\ faults \in 0..MaxFaults
  BY BoundsAssumption DEF Init
<1>5. published \in [Run -> SUBSET PlanEvent]
  BY DEF Init
<1> QED
  BY <1>1, <1>2, <1>3, <1>4, <1>5 DEF Init, TypeOK

(* A step of the run's plan is given a task state, and the rest stays. *)
LEMMA GotoLemma ==
  ASSUME TypeOK, NEW r \in Run, NEW i, NEW t \in TaskState, Goto(r, i, t)
  PROVE  /\ DOMAIN task' = Run
         /\ \A s \in Run : task'[s] \in [DOMAIN mem[s].steps -> TaskState]
         /\ i \in DOMAIN task[r] => task'[r][i] = t
         /\ \A s \in Run : \A j \in DOMAIN mem[s].steps :
              s # r \/ j # i => task'[s][j] = task[s][j]
BY DEF TypeOK, Goto

(* The run's plan gets other statuses: no task state loses its step. *)
LEMMA MemLemma ==
  ASSUME TypeOK, NEW r \in Run, NEW p \in Plan, SameShape(mem[r], p),
         mem' = [mem EXCEPT ![r] = p]
  PROVE  /\ mem' \in [Run -> Plan]
         /\ \A s \in Run : SameShape(mem[s], mem'[s])
         /\ \A s \in Run : DOMAIN mem'[s].steps = DOMAIN mem[s].steps
BY DEF TypeOK, SameShape

(* The stretches of _run_step and on_step_completed all do no more than this. *)
LEMMA StepTypeLemma ==
  ASSUME TypeOK, NEW r \in Run, NEW i \in DOMAIN task[r],
         NEW p \in Plan, SameShape(mem[r], p), NEW t \in TaskState,
         mem' = [mem EXCEPT ![r] = p], Goto(r, i, t),
         UNCHANGED <<store, calls, requests, approved, faults>>,
         saving' \subseteq saving,
         pc' \in [Run -> RunState],
         performed' \subseteq Run \X Nat,
         published' \in [Run -> SUBSET PlanEvent]
  PROVE  TypeOK'
<1>1. /\ DOMAIN task' = Run
      /\ \A s \in Run : task'[s] \in [DOMAIN mem[s].steps -> TaskState]
  BY GotoLemma
<1>2. /\ mem' \in [Run -> Plan]
      /\ \A s \in Run : DOMAIN mem'[s].steps = DOMAIN mem[s].steps
  BY MemLemma
<1> QED
  BY <1>1, <1>2 DEF TypeOK

(* A plan has its own shape. *)
LEMMA SameShapeRefl == ASSUME NEW p PROVE SameShape(p, p)
BY DEF SameShape

(* A step's result, with what it makes of the plan's status, is well typed. *)
LEMMA ResultTypeLemma ==
  ASSUME TypeOK, NEW r \in Run, NEW i \in DOMAIN task[r],
         NEW s \in {"succeeded", "failed"}, Result(r, i, s)
  PROVE  TypeOK'
<1> DEFINE p == SetStep(mem[r], i, s)
           q == IF p.steps[i].isApprovalGate /\ s = "succeeded"
                THEN SetStatus(p, "running") ELSE p
<1>1. mem[r] \in Plan /\ i \in DOMAIN mem[r].steps
  BY DEF TypeOK
<1>2. p \in Plan /\ SameShape(mem[r], p)
  BY <1>1, SetStepLemma DEF StepStatus
<1>3. q \in Plan /\ q.steps = p.steps
  BY <1>2, SetStatusLemma DEF PlanStatus
<1>4. SameShape(mem[r], q)
  BY <1>2, <1>3 DEF SameShape
<1>5. mem' = [mem EXCEPT ![r] = q] /\ Goto(r, i, "reporting")
  BY DEF Result
<1> QED
  BY <1>3, <1>4, <1>5, StepTypeLemma DEF Result, TypeOK, TaskState

(* Every action preserves TypeOK. *)
LEMMA TypeStep == TypeOK /\ [Next]_vars => TypeOK'
<1> SUFFICES ASSUME TypeOK, [Next]_vars PROVE TypeOK'
  OBVIOUS
<1>1. ASSUME NEW r \in Run, Fetch(r) PROVE TypeOK'
  <2>1. /\ DOMAIN mem'[r].steps = DOMAIN store.steps
        /\ mem' \in [Run -> Plan]
        /\ \A s \in Run \ {r} : mem'[s] = mem[s]
    BY <1>1 DEF Fetch, TypeOK
  <2>2. DOMAIN task' = Run /\ \A s \in Run : task'[s] \in [DOMAIN mem'[s].steps -> TaskState]
    BY <1>1, <2>1 DEF Fetch, TypeOK, TaskState
  <2> QED
    BY <1>1, <2>1, <2>2 DEF Fetch, TypeOK, RunState
<1>2. ASSUME NEW r \in Run, RunAction(r) PROVE TypeOK'
  <2>0. mem[r] \in Plan
    BY DEF TypeOK
  <2>1. CASE Execute(r)
    <3>1. SetStatus(mem[r], "running") \in Plan
          /\ SetStatus(mem[r], "running").steps = mem[r].steps
      BY <2>0, SetStatusLemma DEF PlanStatus
    <3> QED
      BY <2>1, <3>1 DEF Execute, TypeOK, RunState
  <2>2. CASE SaveLands(r)
    BY <2>2 DEF SaveLands, TypeOK, RunState
  <2>3. CASE StartWave(r)
    <3> DEFINE ready == ReadySteps(mem[r])
               p     == Launch(mem[r], ready)
               ts    == [i \in DOMAIN mem[r].steps |->
                           IF i \in ready THEN FirstTask(mem[r].steps[i])
                                          ELSE task[r][i]]
               new   == {[run |-> r, step |-> i,
                          plan |-> Snapshot(mem[r], ready, i)] :
                           i \in {k \in ready : mem[r].steps[k].isApprovalGate}}
    <3>1. p \in Plan /\ SameShape(mem[r], p)
      BY <2>0, LaunchLemma
    <3>2. mem' = [mem EXCEPT ![r] = p] /\ task' = [task EXCEPT ![r] = ts]
          /\ saving' = saving \cup new /\ pc' = [pc EXCEPT ![r] = "wave"]
      BY <2>3 DEF StartWave
    <3>3. /\ mem' \in [Run -> Plan]
          /\ \A s \in Run : DOMAIN mem'[s].steps = DOMAIN mem[s].steps
      BY <3>1, <3>2, MemLemma
    <3>4. \A i \in DOMAIN mem[r].steps : FirstTask(mem[r].steps[i]) \in TaskState
      <4>1. \A i \in DOMAIN mem[r].steps :
              Launched(mem[r].steps[i]) \in {"waiting_approval", "running", "failed"}
        <5>1. \A i \in DOMAIN mem[r].steps : mem[r].steps[i].isApprovalGate \in BOOLEAN
          BY <2>0, StepsLemma DEF PlanStep
        <5> QED
          BY <5>1 DEF Launched
      <4> QED
        BY <4>1 DEF FirstTask, TaskState
    <3>5. ts \in [DOMAIN mem[r].steps -> TaskState]
      BY <3>4 DEF TypeOK
    <3>6. DOMAIN task' = Run /\ \A s \in Run : task'[s] \in [DOMAIN mem'[s].steps -> TaskState]
      BY <3>2, <3>3, <3>5 DEF TypeOK
    <3>7. new \subseteq [run: Run, step: Nat, plan: Plan]
      <4>1. \A i \in ready : i \in Nat
        BY <2>0, StepsLemma DEF ReadySteps
      <4>2. \A i \in ready : Snapshot(mem[r], ready, i) \in Plan
        BY <2>0, LaunchLemma DEF Snapshot
      <4> QED
        BY <4>1, <4>2
    <3> QED
      BY <2>3, <3>2, <3>3, <3>6, <3>7 DEF StartWave, TypeOK, RunState
  <2>4. CASE WaveJoins(r)
    BY <2>4 DEF WaveJoins, TypeOK, RunState
  <2>5. CASE Finish(r)
    <3>1. SetStatus(mem[r], "succeeded") \in Plan
          /\ SetStatus(mem[r], "succeeded").steps = mem[r].steps
      BY <2>0, SetStatusLemma DEF PlanStatus
    <3> QED
      BY <2>5, <3>1 DEF Finish, TypeOK, RunState
  <2>6. ASSUME NEW w \in saving, w.run = r, GateSaveLands(w) PROVE TypeOK'
    <3>1. DOMAIN task' = Run /\ \A s \in Run : task'[s] \in [DOMAIN mem[s].steps -> TaskState]
      BY <2>6, GotoLemma DEF GateSaveLands, TaskState
    <3> QED
      BY <2>6, <3>1 DEF GateSaveLands, TypeOK
  <2>7. ASSUME NEW i \in DOMAIN task[r], StepAction(r, i) PROVE TypeOK'
    <3>0. i \in DOMAIN mem[r].steps /\ i \in Nat
      BY <2>0, StepsLemma DEF TypeOK
    <3>a. SameShape(mem[r], mem[r]) /\ mem = [mem EXCEPT ![r] = mem[r]]
      BY SameShapeRefl DEF TypeOK
    <3>b. \A s \in PlanStatus : SetStatus(mem[r], s) \in Plan /\ SameShape(mem[r], SetStatus(mem[r], s))
      BY <2>0, SetStatusLemma DEF SameShape
    <3>1. CASE GateOpens(r, i)
      <4> DEFINE p == SetStatus(mem[r], "awaiting_approval")
      <4>1. p \in Plan /\ SameShape(mem[r], p) /\ p.steps = mem[r].steps
        BY <2>0, <3>b, SetStatusLemma DEF PlanStatus
      <4>2. SetStep(p, i, "failed") \in Plan /\ SameShape(mem[r], SetStep(p, i, "failed"))
        BY <3>0, <4>1, SetStepLemma DEF StepStatus, SameShape
      <4>3. PICK q \in Plan, t \in {"handler", "reporting"} :
              SameShape(mem[r], q) /\ mem' = [mem EXCEPT ![r] = q] /\ Goto(r, i, t)
        BY <3>1, <4>1, <4>2 DEF GateOpens
      <4> QED
        BY <3>1, <4>3, StepTypeLemma DEF GateOpens, TypeOK, TaskState
    <3>2. CASE Act(r, i)
      <4>1. performed' \subseteq Run \X Nat
        BY <3>2, <3>0 DEF Act, TypeOK
      <4> QED
        BY <2>0, <3>2, <3>a, <4>1, StepTypeLemma DEF Act, TypeOK, TaskState
    <3>3. CASE PollApproved(r, i)
      BY <2>0, <3>3, <3>a, StepTypeLemma DEF PollApproved, TypeOK, TaskState
    <3>4. CASE StepSucceeds(r, i)
      BY <3>4, ResultTypeLemma DEF StepSucceeds
    <3>5. CASE StepFails(r, i)
      BY <3>5, ResultTypeLemma DEF StepFails
    <3>6. CASE Reported(r, i)
      <4>1. Verdict(mem[r].steps[i]) \in PlanStatus
        BY DEF Verdict, PlanStatus
      <4>2. PICK q \in Plan, t \in {"announcing", "checking", "finished"} :
              SameShape(mem[r], q) /\ mem' = [mem EXCEPT ![r] = q] /\ Goto(r, i, t)
        BY <2>0, <3>6, <3>a, <3>b, <4>1 DEF Reported
      <4> QED
        BY <3>6, <4>2, StepTypeLemma DEF Reported, TypeOK, TaskState
    <3>7. CASE CriterionMet(r, i)
      BY <3>7, <3>b, StepTypeLemma DEF CriterionMet, TypeOK, TaskState, PlanStatus
    <3>8. CASE CriterionNotMet(r, i)
      BY <2>0, <3>8, <3>a, StepTypeLemma DEF CriterionNotMet, TypeOK, TaskState
    <3>9. CASE Announced(r, i)
      <4>1. published' \in [Run -> SUBSET PlanEvent]
        BY <3>9 DEF Announced, Announcement, TypeOK, PlanEvent
      <4> QED
        BY <2>0, <3>9, <3>a, <4>1, StepTypeLemma DEF Announced, TypeOK, TaskState
    <3> QED
      BY <2>7, <3>1, <3>2, <3>3, <3>4, <3>5, <3>6, <3>7, <3>8, <3>9 DEF StepAction
  <2> QED
    BY <1>2, <2>1, <2>2, <2>3, <2>4, <2>5, <2>6, <2>7 DEF RunAction
<1>3. CASE ApiAction
  <2>0. store \in Plan
    BY DEF TypeOK
  <2>1. ASSUME NEW p \in Plan, Reads(p), approved' \in BOOLEAN PROVE TypeOK'
    <3>1. calls + 1 \in 1..MaxCalls
      BY <2>1, BoundsAssumption DEF Reads, TypeOK
    <3> QED
      BY <2>1, <3>1 DEF Reads, TypeOK
  <2>2. CASE ApproveReads
    BY <2>0, <2>1, <2>2, ApproveLemma DEF ApproveReads
  <2>3. CASE DeleteReads
    BY <2>0, <2>1, <2>3, SetStatusLemma DEF DeleteReads, PlanStatus, TypeOK
  <2>4. CASE AppendReads
    <3>1. PICK p \in {store} \cup {AppendStep(store, s) : s \in Appendable} : Reads(p)
      BY <2>4 DEF AppendReads
    <3>2. p \in Plan
      BY <2>0, <3>1, AppendableLemma
    <3> QED
      BY <2>1, <2>4, <3>1, <3>2 DEF AppendReads, TypeOK
  <2>5. ASSUME NEW q \in requests, RequestWrites(q) PROVE TypeOK'
    BY <2>5 DEF RequestWrites, TypeOK
  <2> QED
    BY <1>3, <2>2, <2>3, <2>4, <2>5 DEF ApiAction
<1>4. CASE Failure
  <2>0. Fault => faults' \in 0..MaxFaults
    BY BoundsAssumption DEF Fault, TypeOK
  <2>1. ASSUME NEW r \in Run, SaveFails(r) PROVE TypeOK'
    BY <2>0, <2>1 DEF SaveFails, Dead, TypeOK, RunState
  <2>2. ASSUME NEW r \in Run, NEW i \in DOMAIN task[r], EmitFails(r, i) PROVE TypeOK'
    <3>1. DOMAIN task' = Run /\ \A s \in Run : task'[s] \in [DOMAIN mem[s].steps -> TaskState]
      BY <2>2, GotoLemma DEF EmitFails, TaskState
    <3> QED
      BY <2>0, <2>2, <3>1 DEF EmitFails, Dead, TypeOK, RunState
  <2>3. ASSUME NEW w \in saving, GateSaveFails(w) PROVE TypeOK'
    <3>1. w.run \in Run
      BY DEF TypeOK
    <3>2. DOMAIN task' = Run /\ \A s \in Run : task'[s] \in [DOMAIN mem[s].steps -> TaskState]
      BY <2>3, <3>1, GotoLemma DEF GateSaveFails, TaskState
    <3> QED
      BY <2>0, <2>3, <3>2 DEF GateSaveFails, Dead, TypeOK, RunState
  <2>4. CASE Crash
    <3>1. pc' \in [Run -> RunState]
      BY <2>4 DEF Crash, TypeOK, RunState
    <3>2. DOMAIN task' = Run /\ \A s \in Run : task'[s] \in [DOMAIN mem[s].steps -> TaskState]
      BY <2>4 DEF Crash, TypeOK, TaskState
    <3> QED
      BY <2>0, <2>4, <3>1, <3>2 DEF Crash, TypeOK
  <2> QED
    BY <1>4, <2>1, <2>2, <2>3, <2>4 DEF Failure
<1>5. CASE UNCHANGED vars
  BY <1>5 DEF vars, TypeOK
<1> QED
  BY <1>1, <1>2, <1>3, <1>4, <1>5 DEF Next

(* Every variable keeps its type, however many runs and API calls write the
   copies of the plan over each other. *)
THEOREM TypeCorrect == Spec => []TypeOK
BY TypeInit, TypeStep, PTL DEF Spec

-------------------------------------------------------------------------------
(* The inductive invariant holds initially *)

(* No step has started, no gate has passed and nothing is in flight. *)
LEMMA InvInit == Init => IInv
<1> SUFFICES ASSUME Init PROVE IInv
  OBVIOUS
<1>1. CopyOK(store)
  <2>1. WellGated(store) /\ \A i \in DOMAIN store.steps : store.steps[i].status = "pending"
    BY PlansAssumption DEF Init
  <2> QED
    BY <2>1 DEF CopyOK, HasApprovedGate
<1>2. CopiesOK
  BY <1>1 DEF Init, CopiesOK
<1>3. TasksOK
  BY DEF Init, TasksOK, TaskOK
<1> QED
  BY <1>2, <1>3, TypeInit DEF Init, IInv, SavingOK, PerformedOK

-------------------------------------------------------------------------------
(* ... and is preserved *)

(* Statuses do not matter to the placing of the gates. *)
LEMMA ShapeGated ==
  ASSUME NEW p, NEW q, SameShape(p, q), WellGated(p)
  PROVE  WellGated(q)
<1>1. GateIds(q) = GateIds(p)
  BY DEF SameShape, GateIds
<1> QED
  BY <1>1 DEF WellGated, SameShape

(* Statuses that only leave "pending", or enter "succeeded", keep every
   dependency that was satisfied. *)
LEMMA SucceededGrows ==
  ASSUME NEW p, NEW q, SameShape(p, q),
         \A i \in DOMAIN p.steps :
           p.steps[i].status = "succeeded" => q.steps[i].status = "succeeded"
  PROVE  SucceededIds(p) \subseteq SucceededIds(q)
BY DEF SameShape, SucceededIds

(* What a stretch of step i of run r does to the invariant. *)
LEMMA StepInv ==
  ASSUME IInv, NEW r \in Run, NEW i \in DOMAIN task[r],
         task[r][i] \notin {"none", "saving"},
         NEW p \in Plan, SameShape(mem[r], p), NEW t \in TaskState \ {"none", "saving"},
         mem' = [mem EXCEPT ![r] = p], Goto(r, i, t),
         UNCHANGED <<store, saving, requests, approved>>,
         \A s \in Run : pc'[s] = "idle" => pc[s] = "idle",
         performed' \subseteq performed \cup {<<r, i>>},
         \A j \in DOMAIN mem[r].steps \ {i} : p.steps[j].status = mem[r].steps[j].status,
         mem[r].steps[i].status = "succeeded" => p.steps[i].status = "succeeded",
         t \in {"saved", "handler", "acted"} =>
           p.steps[i].status \in {"running", "waiting_approval"},
         t = "acted" /\ p.steps[i].isApprovalGate => approved,
         p.steps[i].isApprovalGate /\ p.steps[i].status = "succeeded" =>
           approved \/ mem[r].steps[i].status = "succeeded"
  PROVE  CopiesOK' /\ TasksOK' /\ SavingOK' /\ PerformedOK'
<1>1. /\ i \in DOMAIN mem[r].steps
      /\ mem' \in [Run -> Plan] /\ mem'[r] = p
      /\ \A s \in Run \ {r} : mem'[s] = mem[s]
      /\ \A s \in Run : DOMAIN mem'[s].steps = DOMAIN mem[s].steps
  BY MemLemma DEF IInv, TypeOK
<1>2. /\ task'[r][i] = t
      /\ \A s \in Run : \A j \in DOMAIN mem[s].steps :
           s # r \/ j # i => task'[s][j] = task[s][j]
  BY GotoLemma DEF IInv
<1>3. CopiesOK'
  <2>1. CopyOK(mem[r]) /\ WellGated(p)
    BY ShapeGated DEF IInv, CopiesOK, CopyOK
  <2>2. HasApprovedGate(p) => approved
    BY <1>1, <2>1 DEF HasApprovedGate, CopyOK, SameShape
  <2>3. \A s \in Run : WellGated(mem'[s]) /\ (HasApprovedGate(mem'[s]) => approved')
    BY <1>1, <2>1, <2>2 DEF IInv, CopiesOK, CopyOK
  <2> QED
    BY <2>3 DEF IInv, CopiesOK, CopyOK
<1>4. TasksOK'
  <2>1. SucceededIds(mem[r]) \subseteq SucceededIds(p)
    BY SucceededGrows
  <2>2. TaskOK(r, i)
    BY <1>1 DEF IInv, TasksOK
  <2>3. TaskOK(r, i)'
    BY <1>1, <1>2, <2>1, <2>2 DEF TaskOK, SameShape
  <2>4. ASSUME NEW j \in DOMAIN mem[r].steps \ {i} PROVE TaskOK(r, j)'
    <3>1. TaskOK(r, j)
      BY DEF IInv, TasksOK
    <3> QED
      BY <1>1, <1>2, <2>1, <3>1 DEF TaskOK, SameShape
  <2>5. ASSUME NEW s \in Run \ {r}, NEW j \in DOMAIN mem[s].steps PROVE TaskOK(s, j)'
    <3>1. TaskOK(s, j)
      BY DEF IInv, TasksOK
    <3> QED
      BY <1>1, <1>2, <3>1 DEF TaskOK
  <2> QED
    BY <1>1, <2>3, <2>4, <2>5 DEF TasksOK
<1>5. SavingOK'
  BY <1>1, <1>2 DEF IInv, SavingOK, TypeOK
<1>6. PerformedOK'
  <2>1. ASSUME NEW x \in performed' PROVE x[2] \in DOMAIN mem'[x[1]].steps /\ task'[x[1]][x[2]] # "none"
    <3>1. CASE x = <<r, i>>
      BY <1>1, <1>2, <3>1
    <3>2. CASE x \in performed /\ x # <<r, i>>
      <4>1. x[1] \in Run /\ x = <<x[1], x[2]>>
        BY <3>2 DEF IInv, TypeOK
      <4>2. x[2] \in DOMAIN mem[x[1]].steps /\ task[x[1]][x[2]] # "none"
        BY <3>2 DEF IInv, PerformedOK
      <4>3. x[1] # r \/ x[2] # i
        BY <3>2, <4>1
      <4> QED
        BY <1>1, <1>2, <4>1, <4>2, <4>3
    <3> QED
      BY <3>1, <3>2
  <2> QED
    BY <2>1 DEF PerformedOK
<1> QED
  BY <1>3, <1>4, <1>5, <1>6

(* A copy of the plan is judged by its steps alone. *)
LEMMA SameStepsCopy ==
  ASSUME NEW p, NEW q, q.steps = p.steps
  PROVE  /\ WellGated(q) <=> WellGated(p)
         /\ HasApprovedGate(q) <=> HasApprovedGate(p)
         /\ SucceededIds(q) = SucceededIds(p)
BY DEF WellGated, GateIds, HasApprovedGate, SucceededIds

(* The actions between the waves of a run, and those of the API, leave the
   steps of every plan in memory alone. *)
LEMMA QuietInv ==
  ASSUME IInv,
         \A s \in Run : mem'[s].steps = mem[s].steps,
         \A s \in Run : pc'[s] = "idle" => pc[s] = "idle",
         UNCHANGED <<task, saving, performed>>,
         approved => approved',
         CopyOK(store)',
         \A q \in requests' : CopyOK(q.plan)'
  PROVE  CopiesOK' /\ TasksOK' /\ SavingOK' /\ PerformedOK'
<1>1. CopiesOK'
  <2>1. ASSUME NEW s \in Run PROVE CopyOK(mem[s])'
    <3>1. CopyOK(mem[s])
      BY DEF IInv, CopiesOK
    <3>2. WellGated(mem'[s]) /\ (HasApprovedGate(mem'[s]) => approved')
      BY <3>1, SameStepsCopy DEF CopyOK
    <3> QED
      BY <3>2 DEF CopyOK
  <2>2. ASSUME NEW w \in saving PROVE WellGated(w.plan) /\ (HasApprovedGate(w.plan) => approved')
    BY DEF IInv, CopiesOK, CopyOK
  <2>3. \A w \in saving' : CopyOK(w.plan)'
    BY <2>2 DEF CopyOK
  <2> QED
    BY <2>1, <2>3 DEF CopiesOK
<1>2. TasksOK'
  <2>1. ASSUME NEW s \in Run, NEW i \in DOMAIN mem'[s].steps PROVE TaskOK(s, i)'
    <3>1. TaskOK(s, i) /\ SucceededIds(mem'[s]) = SucceededIds(mem[s])
      BY SameStepsCopy DEF IInv, TasksOK
    <3> QED
      BY <3>1 DEF TaskOK
  <2> QED
    BY <2>1 DEF TasksOK
<1>3. SavingOK'
  BY DEF IInv, SavingOK, TypeOK
<1>4. PerformedOK'
  <2>1. \A x \in performed : x[1] \in Run
    BY DEF IInv, TypeOK
  <2> QED
    BY <2>1 DEF IInv, PerformedOK
<1> QED
  BY <1>1, <1>2, <1>3, <1>4

(* Every stretch of _run_step preserves the invariant: each case is StepInv,
   with the plan and the task state the stretch leaves. *)
LEMMA StepActionInv ==
  ASSUME IInv, NEW r \in Run, NEW i \in DOMAIN task[r], StepAction(r, i)
  PROVE  CopiesOK' /\ TasksOK' /\ SavingOK' /\ PerformedOK'
<1> DEFINE plan == mem[r]
<1>0. /\ plan \in Plan /\ i \in DOMAIN plan.steps /\ TypeOK
      /\ mem = [mem EXCEPT ![r] = plan] /\ SameShape(plan, plan)
  BY SameShapeRefl DEF IInv, TypeOK
<1>1. TaskOK(r, i) /\ CopyOK(plan)
  BY <1>0 DEF IInv, TasksOK, CopiesOK
<1>2. \A s \in PlanStatus : /\ SetStatus(plan, s) \in Plan
                            /\ SetStatus(plan, s).steps = plan.steps
                            /\ SameShape(plan, SetStatus(plan, s))
  BY <1>0, SetStatusLemma DEF SameShape
<1>3. plan.steps[i].isApprovalGate => plan.steps[i].action \in Handoffs
  BY <1>0, <1>1 DEF CopyOK, WellGated
(* The stretches that leave every step's status alone. *)
<1>4. ASSUME NEW s \in PlanStatus, NEW t \in TaskState \ {"none", "saving"},
             mem' = [mem EXCEPT ![r] = SetStatus(plan, s)] \/ mem' = mem,
             Goto(r, i, t),
             UNCHANGED <<store, pc, saving, requests, approved>>,
             performed' \subseteq performed \cup {<<r, i>>},
             task[r][i] \notin {"none", "saving"},
             t \in {"saved", "handler", "acted"} => task[r][i] \in {"saved", "handler", "acted"},
             t = "acted" /\ plan.steps[i].isApprovalGate => approved
      PROVE  CopiesOK' /\ TasksOK' /\ SavingOK' /\ PerformedOK'
  <2>1. PICK p \in Plan : SameShape(plan, p) /\ mem' = [mem EXCEPT ![r] = p] /\ p.steps = plan.steps
    BY <1>0, <1>2, <1>4
  <2>2. t \in {"saved", "handler", "acted"} =>
          p.steps[i].status \in {"running", "waiting_approval"}
    BY <1>1, <1>4, <2>1 DEF TaskOK
  <2> QED
    BY <1>4, <2>1, <2>2, StepInv
(* Those that give the step its result. *)
<1>5. ASSUME NEW p \in Plan, NEW s \in {"succeeded", "failed"},
             mem' = [mem EXCEPT ![r] = p], p.steps = SetStep(plan, i, s).steps,
             Goto(r, i, "reporting"),
             UNCHANGED <<store, pc, saving, requests, approved, performed>>,
             task[r][i] \in {"saved", "handler", "acted"},
             s = "succeeded" => task[r][i] = "acted"
      PROVE  CopiesOK' /\ TasksOK' /\ SavingOK' /\ PerformedOK'
  <2>1. /\ SameShape(plan, SetStep(plan, i, s))
        /\ SetStep(plan, i, s).steps[i].status = s
        /\ \A j \in DOMAIN plan.steps \ {i} : SetStep(plan, i, s).steps[j] = plan.steps[j]
    BY <1>0, SetStepLemma DEF StepStatus
  <2>2. SameShape(plan, p)
    BY <1>5, <2>1 DEF SameShape
  <2>3. plan.steps[i].status # "succeeded"
    BY <1>1, <1>5 DEF TaskOK
  <2>4. p.steps[i].isApprovalGate /\ p.steps[i].status = "succeeded" => approved
    BY <1>0, <1>1, <1>5, <2>1, <2>2 DEF TaskOK, SameShape
  <2>5. \A j \in DOMAIN plan.steps \ {i} : p.steps[j].status = plan.steps[j].status
    BY <1>5, <2>1
  <2> QED
    BY <1>5, <2>2, <2>3, <2>4, <2>5, StepInv DEF TaskState
<1>6. ASSUME NEW s \in {"succeeded", "failed"}, Result(r, i, s),
             task[r][i] \in {"handler", "acted"}, s = "succeeded" => task[r][i] = "acted"
      PROVE  CopiesOK' /\ TasksOK' /\ SavingOK' /\ PerformedOK'
  <2> DEFINE q == SetStep(plan, i, s)
  <2>1. q \in Plan
    BY <1>0, SetStepLemma DEF StepStatus
  <2>2. PICK p \in Plan : p.steps = q.steps /\ mem' = [mem EXCEPT ![r] = p]
    BY <1>6, <2>1, SetStatusLemma DEF Result, PlanStatus
  <2> QED
    BY <1>5, <1>6, <2>2 DEF Result
<1>7. CASE GateOpens(r, i)
  <2>1. CASE plan.steps[i].action \in Registered
    BY <1>4, <1>7, <2>1 DEF GateOpens, At, TaskState, PlanStatus
  <2>2. CASE plan.steps[i].action \notin Registered
    <3> DEFINE w == SetStatus(plan, "awaiting_approval")
               p == SetStep(w, i, "failed")
    <3>1. w \in Plan /\ w.steps = plan.steps
      BY <1>2 DEF PlanStatus
    <3>2. p \in Plan
      BY <1>0, <3>1, SetStepLemma DEF StepStatus
    <3>3. p.steps = SetStep(plan, i, "failed").steps
      BY <1>0, <3>1 DEF SetStep, Plan
    <3> QED
      BY <1>5, <1>7, <2>2, <3>2, <3>3 DEF GateOpens, At
  <2> QED
    BY <2>1, <2>2
<1>8. CASE Act(r, i)
  BY <1>3, <1>4, <1>8 DEF Act, At, TaskState, PlanStatus
<1>9. CASE PollApproved(r, i)
  <2>1. HasApprovedGate(store)
    BY <1>9 DEF PollApproved, AnswersYes, HasApprovedGate
  <2>2. approved
    BY <2>1 DEF IInv, CopiesOK, CopyOK
  <2> QED
    BY <1>4, <1>9, <2>2 DEF PollApproved, At, TaskState, PlanStatus
<1>10. CASE StepSucceeds(r, i)
  BY <1>6, <1>10 DEF StepSucceeds, At
<1>11. CASE StepFails(r, i)
  BY <1>6, <1>11 DEF StepFails, At
<1>12. CASE Reported(r, i)
  BY <1>4, <1>12 DEF Reported, Verdict, At, TaskState, PlanStatus
<1>13. CASE CriterionMet(r, i)
  BY <1>4, <1>13 DEF CriterionMet, At, TaskState, PlanStatus
<1>14. CASE CriterionNotMet(r, i)
  BY <1>4, <1>14 DEF CriterionNotMet, At, TaskState, PlanStatus
<1>15. CASE Announced(r, i)
  BY <1>4, <1>15 DEF Announced, At, TaskState, PlanStatus
<1> QED
  BY <1>7, <1>8, <1>9, <1>10, <1>11, <1>12, <1>13, <1>14, <1>15 DEF StepAction

(* A wave launches pending steps whose dependencies have succeeded. *)
LEMMA StartWaveInv ==
  ASSUME IInv, NEW r \in Run, StartWave(r)
  PROVE  CopiesOK' /\ TasksOK' /\ SavingOK' /\ PerformedOK'
<1> DEFINE plan  == mem[r]
           ready == ReadySteps(plan)
           gates == {i \in ready : plan.steps[i].isApprovalGate}
           p     == Launch(plan, ready)
           ts    == [i \in DOMAIN plan.steps |->
                       IF i \in ready THEN FirstTask(plan.steps[i]) ELSE task[r][i]]
<1>1. /\ mem' = [mem EXCEPT ![r] = p] /\ task' = [task EXCEPT ![r] = ts]
      /\ saving' = saving \cup
           {[run |-> r, step |-> i, plan |-> Snapshot(plan, ready, i)] : i \in gates}
      /\ pc' = [pc EXCEPT ![r] = "wave"]
      /\ UNCHANGED <<store, requests, approved, performed>>
  BY DEF StartWave
<1>2. plan \in Plan /\ CopyOK(plan) /\ TypeOK
  BY DEF IInv, TypeOK, CopiesOK
<1>3. p \in Plan /\ SameShape(plan, p)
  BY <1>2, LaunchLemma
<1>4. /\ mem'[r] = p /\ \A s \in Run \ {r} : mem'[s] = mem[s]
      /\ \A s \in Run : DOMAIN mem'[s].steps = DOMAIN mem[s].steps
  BY <1>1, <1>2, <1>3, MemLemma DEF TypeOK
<1>5. task'[r] = ts /\ \A s \in Run \ {r} : task'[s] = task[s]
  BY <1>1, <1>2 DEF TypeOK
<1>6. \A i \in ready : /\ i \in DOMAIN plan.steps
                       /\ plan.steps[i].status = "pending"
                       /\ plan.steps[i].dependsOn \subseteq SucceededIds(plan)
  BY DEF ReadySteps
<1>7. \A i \in DOMAIN plan.steps :
        Launched(plan.steps[i]) \in {"waiting_approval", "running", "failed"}
  <2>1. \A i \in DOMAIN plan.steps : plan.steps[i].isApprovalGate \in BOOLEAN
    BY <1>2, StepsLemma DEF PlanStep
  <2> QED
    BY <2>1 DEF Launched
<1>8. ASSUME NEW S \in SUBSET ready
      PROVE  CopyOK(Launch(plan, S)) /\ SucceededIds(plan) \subseteq SucceededIds(Launch(plan, S))
  <2> DEFINE q == Launch(plan, S)
  <2>1. /\ SameShape(plan, q)
        /\ \A i \in DOMAIN plan.steps :
             q.steps[i].status = IF i \in S THEN Launched(plan.steps[i]) ELSE plan.steps[i].status
    BY <1>2, LaunchLemma
  <2>2. \A i \in DOMAIN plan.steps :
          q.steps[i].status = "succeeded" <=> plan.steps[i].status = "succeeded"
    BY <1>6, <1>7, <2>1
  <2> HIDE DEF q
  <2>3. WellGated(q)
    BY <1>2, <2>1, ShapeGated DEF CopyOK
  <2>4. HasApprovedGate(q) => approved
    BY <1>2, <2>1, <2>2 DEF HasApprovedGate, CopyOK, SameShape
  <2>5. SucceededIds(plan) \subseteq SucceededIds(q)
    BY <2>1, <2>2, SucceededGrows
  <2> QED
    BY <2>3, <2>4, <2>5 DEF CopyOK, q
<1>9. \A w \in saving' : \/ w \in saving
                         \/ /\ w.run = r /\ w.step \in gates
                            /\ w = [run |-> r, step |-> w.step, plan |-> Snapshot(plan, ready, w.step)]
                            /\ w.plan = Snapshot(plan, ready, w.step)
  BY <1>1
<1>10. CopiesOK'
  <2>1. CopyOK(p)
    BY <1>8
  <2>2. \A i \in ready : CopyOK(Snapshot(plan, ready, i))
    BY <1>8 DEF Snapshot
  <2>3. \A w \in saving' : CopyOK(w.plan)
    BY <1>9, <2>2 DEF IInv, CopiesOK
  <2>4. \A s \in Run : CopyOK(mem'[s])
    BY <1>4, <2>1 DEF IInv, CopiesOK
  <2> QED
    BY <1>1, <2>3, <2>4 DEF IInv, CopiesOK, CopyOK
<1>11. TasksOK'
  <2>1. ASSUME NEW i \in ready PROVE TaskOK(r, i)'
    <3>1. /\ mem'[r].steps[i].status = Launched(plan.steps[i])
          /\ mem'[r].steps[i].dependsOn = plan.steps[i].dependsOn
          /\ mem'[r].steps[i].isApprovalGate = plan.steps[i].isApprovalGate
      BY <1>2, <1>3, <1>4, <1>6, LaunchLemma DEF SameShape
    <3>2. task'[r][i] = FirstTask(plan.steps[i])
      BY <1>5, <1>6
    <3>3. FirstTask(plan.steps[i]) \in {"saving", "handler"} =>
            Launched(plan.steps[i]) \in {"waiting_approval", "running"}
      BY <1>6, <1>7 DEF FirstTask
    <3>4. FirstTask(plan.steps[i]) \in {"saving", "handler", "reporting"}
      BY <1>6, <1>7 DEF FirstTask
    <3>5. plan.steps[i].dependsOn \subseteq SucceededIds(mem'[r])
      BY <1>4, <1>6, <1>8
    <3>6. pc'[r] = "wave"
      BY <1>1, <1>2 DEF TypeOK
    <3> QED
      BY <3>1, <3>2, <3>3, <3>4, <3>5, <3>6 DEF TaskOK
  <2>2. ASSUME NEW i \in DOMAIN plan.steps \ ready PROVE TaskOK(r, i)'
    <3>1. TaskOK(r, i)
      BY DEF IInv, TasksOK
    <3>2. /\ mem'[r].steps[i].status = plan.steps[i].status
          /\ mem'[r].steps[i].dependsOn = plan.steps[i].dependsOn
          /\ mem'[r].steps[i].isApprovalGate = plan.steps[i].isApprovalGate
          /\ task'[r][i] = task[r][i]
      BY <1>2, <1>3, <1>4, <1>5, LaunchLemma DEF SameShape
    <3>3. SucceededIds(plan) \subseteq SucceededIds(mem'[r])
      BY <1>4, <1>8
    <3>4. pc'[r] = "wave" /\ approved' = approved
      BY <1>1, <1>2 DEF TypeOK
    <3> QED
      BY <3>1, <3>2, <3>3, <3>4 DEF TaskOK
  <2>3. ASSUME NEW s \in Run \ {r}, NEW i \in DOMAIN mem[s].steps PROVE TaskOK(s, i)'
    <3>1. TaskOK(s, i)
      BY DEF IInv, TasksOK
    <3>2. pc'[s] = pc[s] /\ approved' = approved
      BY <1>1, <1>2 DEF TypeOK
    <3> QED
      BY <1>4, <1>5, <3>1, <3>2 DEF TaskOK
  <2> QED
    BY <1>4, <2>1, <2>2, <2>3 DEF TasksOK
<1>12. \A s \in Run : \A i \in DOMAIN mem[s].steps :
         task[s][i] = "saving" => s # r \/ i \notin ready
  <2>1. \A i \in DOMAIN plan.steps : task[r][i] = "saving" => plan.steps[i].status # "pending"
    BY DEF IInv, TasksOK, TaskOK
  <2> QED
    BY <1>6, <2>1
<1>13. SavingOK'
  <2>1. \A i \in gates : i \in DOMAIN plan.steps /\ task'[r][i] = "saving"
    <3>1. \A i \in gates : Launched(plan.steps[i]) = "waiting_approval"
      BY DEF Launched
    <3>2. \A i \in gates : FirstTask(plan.steps[i]) = "saving"
      BY <3>1 DEF FirstTask
    <3> QED
      BY <1>5, <1>6, <3>2
  <2>2. \A w \in saving : /\ w.run \in Run /\ w.step \in DOMAIN mem[w.run].steps
                          /\ task[w.run][w.step] = "saving"
                          /\ w.run # r \/ w.step \notin ready
    BY <1>12 DEF IInv, SavingOK, TypeOK
  <2>3. \A w \in saving : task'[w.run][w.step] = "saving"
    BY <1>5, <2>2
  <2>4. ASSUME NEW w \in saving', NEW v \in saving', v.run = w.run, v.step = w.step
        PROVE  v = w
    BY <1>9, <2>2, <2>4 DEF IInv, SavingOK
  <2>5. ASSUME NEW w \in saving'
        PROVE  w.step \in DOMAIN mem'[w.run].steps /\ task'[w.run][w.step] = "saving"
    BY <1>4, <1>9, <2>1, <2>2, <2>3
  <2> QED
    BY <2>4, <2>5 DEF SavingOK
<1>14. PerformedOK'
  <2>1. ASSUME NEW x \in performed PROVE x[2] \in DOMAIN mem'[x[1]].steps /\ task'[x[1]][x[2]] # "none"
    <3>1. x[1] \in Run /\ x[2] \in DOMAIN mem[x[1]].steps /\ task[x[1]][x[2]] # "none"
      BY DEF IInv, TypeOK, PerformedOK
    <3>2. \A i \in ready : FirstTask(plan.steps[i]) # "none"
      BY <1>6, <1>7 DEF FirstTask
    <3> QED
      BY <1>4, <1>5, <3>1, <3>2
  <2> QED
    BY <1>1, <2>1 DEF PerformedOK
<1> QED
  BY <1>10, <1>11, <1>13, <1>14

(* The save of a gate lands, or a fault ends some of the steps of a run. *)
LEMMA EndInv ==
  ASSUME IInv,
         UNCHANGED <<mem, requests, approved, performed>>,
         CopyOK(store)',
         \A s \in Run : pc'[s] = "idle" => pc[s] = "idle",
         saving' \subseteq saving,
         \A s \in Run : \A i \in DOMAIN mem[s].steps :
           \/ task'[s][i] = task[s][i]
           \/ task[s][i] # "none" /\ task'[s][i] = "finished"
           \/ task[s][i] = "saving" /\ task'[s][i] = "saved",
         \A w \in saving' : task'[w.run][w.step] = "saving"
  PROVE  CopiesOK' /\ TasksOK' /\ SavingOK' /\ PerformedOK'
<1>1. CopiesOK'
  BY DEF IInv, CopiesOK, CopyOK
<1>2. TasksOK'
  <2>1. ASSUME NEW s \in Run, NEW i \in DOMAIN mem[s].steps PROVE TaskOK(s, i)'
    <3>1. TaskOK(s, i)
      BY DEF IInv, TasksOK
    <3> QED
      BY <3>1 DEF TaskOK
  <2> QED
    BY <2>1 DEF TasksOK
<1>3. SavingOK'
  BY DEF IInv, SavingOK
<1>4. PerformedOK'
  <2>1. \A x \in performed : x[1] \in Run
    BY DEF IInv, TypeOK
  <2> QED
    BY <2>1 DEF IInv, PerformedOK
<1> QED
  BY <1>1, <1>2, <1>3, <1>4

(* Every action preserves the invariant. *)
LEMMA InvStep == IInv /\ [Next]_vars => IInv'
<1> SUFFICES ASSUME IInv, [Next]_vars PROVE CopiesOK' /\ TasksOK' /\ SavingOK' /\ PerformedOK'
  BY TypeStep DEF IInv
<1> DEFINE Goal == CopiesOK' /\ TasksOK' /\ SavingOK' /\ PerformedOK'
<1>0. /\ TypeOK /\ CopyOK(store) /\ store \in Plan
      /\ \A r \in Run : CopyOK(mem[r]) /\ mem[r] \in Plan
      /\ \A w \in saving : CopyOK(w.plan) /\ w.run \in Run
      /\ \A q \in requests : CopyOK(q.plan)
  BY DEF IInv, CopiesOK, TypeOK
<1>1. ASSUME NEW r \in Run, Fetch(r) PROVE Goal
  <2>1. /\ mem'[r] = store /\ task'[r] = [i \in DOMAIN store.steps |-> "none"]
        /\ \A s \in Run \ {r} : mem'[s] = mem[s] /\ task'[s] = task[s] /\ pc'[s] = pc[s]
        /\ UNCHANGED <<store, saving, requests, approved, performed>>
    BY <1>0, <1>1 DEF Fetch, TypeOK
  <2>2. \A i \in DOMAIN mem[r].steps : task[r][i] = "none"
    BY <1>1 DEF Fetch, IInv, TasksOK, TaskOK
  <2>3. CopiesOK'
    BY <1>0, <2>1 DEF CopiesOK, CopyOK
  <2>4. TasksOK'
    <3>1. ASSUME NEW i \in DOMAIN mem'[r].steps PROVE TaskOK(r, i)'
      BY <2>1, <3>1 DEF TaskOK
    <3>2. ASSUME NEW s \in Run \ {r}, NEW i \in DOMAIN mem'[s].steps PROVE TaskOK(s, i)'
      <4>1. TaskOK(s, i)
        BY <2>1 DEF IInv, TasksOK
      <4> QED
        BY <2>1, <4>1 DEF TaskOK
    <3> QED
      BY <3>1, <3>2 DEF TasksOK
  <2>5. \A w \in saving : w.run # r
    BY <2>2 DEF IInv, SavingOK
  <2>6. SavingOK'
    BY <1>0, <2>1, <2>5 DEF IInv, SavingOK
  <2>7. \A x \in performed : x[1] \in Run /\ x[1] # r
    BY <2>2 DEF IInv, PerformedOK, TypeOK
  <2>8. PerformedOK'
    BY <2>1, <2>7 DEF IInv, PerformedOK
  <2> QED
    BY <2>3, <2>4, <2>6, <2>8
<1>2. ASSUME NEW r \in Run, RunAction(r) PROVE Goal
  <2>0. \A s \in PlanStatus : SetStatus(mem[r], s).steps = mem[r].steps
    BY <1>0, SetStatusLemma
  <2>q. \A q \in requests : CopyOK(q.plan)
    BY <1>0
  <2>1. CASE Execute(r)
    <3>1. \A s \in Run : mem'[s].steps = mem[s].steps
      BY <1>0, <2>0, <2>1 DEF Execute, TypeOK, PlanStatus
    <3>2. \A s \in Run : pc'[s] = "idle" => pc[s] = "idle"
      BY <1>0, <2>1 DEF Execute, TypeOK
    <3> QED
      BY <1>0, <2>1, <3>1, <3>2, QuietInv DEF Execute, CopyOK
  <2>2. CASE SaveLands(r)
    <3>1. CopyOK(store)'
      BY <1>0, <2>2 DEF SaveLands, CopyOK
    <3>2. \A s \in Run : pc'[s] = "idle" => pc[s] = "idle"
      BY <1>0, <2>2 DEF SaveLands, TypeOK
    <3> QED
      BY <1>0, <2>2, <3>1, <3>2, QuietInv DEF SaveLands, CopyOK
  <2>3. CASE StartWave(r)
    BY <2>3, StartWaveInv
  <2>4. CASE WaveJoins(r)
    <3>1. \A s \in Run : pc'[s] = "idle" => pc[s] = "idle"
      BY <1>0, <2>4 DEF WaveJoins, TypeOK
    <3> QED
      BY <1>0, <2>4, <3>1, QuietInv DEF WaveJoins, CopyOK
  <2>5. CASE Finish(r)
    <3>1. \A s \in Run : mem'[s].steps = mem[s].steps
      BY <1>0, <2>0, <2>5 DEF Finish, TypeOK, PlanStatus
    <3>2. \A s \in Run : pc'[s] = "idle" => pc[s] = "idle"
      BY <1>0, <2>5 DEF Finish, TypeOK
    <3> QED
      BY <1>0, <2>5, <3>1, <3>2, QuietInv DEF Finish, CopyOK
  <2>6. ASSUME NEW w \in saving, w.run = r, GateSaveLands(w) PROVE Goal
    <3>1. w.step \in DOMAIN task[r] /\ task[r][w.step] = "saving"
      BY <1>0, <2>6 DEF IInv, SavingOK, TypeOK
    <3>2. /\ task'[r][w.step] = "saved"
          /\ \A s \in Run : \A j \in DOMAIN mem[s].steps :
               s # r \/ j # w.step => task'[s][j] = task[s][j]
      BY <1>0, <2>6, <3>1, GotoLemma DEF GateSaveLands, TaskState
    <3>3. CopyOK(store)'
      BY <1>0, <2>6 DEF GateSaveLands, CopyOK
    <3>4. \A v \in saving' : task'[v.run][v.step] = "saving"
      <4>1. \A v \in saving' : v \in saving /\ v # w
        BY <2>6 DEF GateSaveLands
      <4>2. \A v \in saving' : v.run # r \/ v.step # w.step
        BY <2>6, <4>1 DEF IInv, SavingOK
      <4> QED
        BY <1>0, <3>2, <4>1, <4>2 DEF IInv, SavingOK
    <3>5. saving' \subseteq saving /\ UNCHANGED <<mem, pc, requests, approved, performed>>
      BY <2>6 DEF GateSaveLands
    <3>6. \A s \in Run : \A i \in DOMAIN mem[s].steps :
            task'[s][i] = task[s][i] \/ (task[s][i] = "saving" /\ task'[s][i] = "saved")
      <4>1. ASSUME NEW s \in Run, NEW i \in DOMAIN mem[s].steps
            PROVE  task'[s][i] = task[s][i] \/ (task[s][i] = "saving" /\ task'[s][i] = "saved")
        <5>1. CASE s = r /\ i = w.step
          BY <3>1, <3>2, <5>1
        <5>2. CASE s # r \/ i # w.step
          BY <3>2, <5>2
        <5> QED
          BY <5>1, <5>2
      <4> QED
        BY <4>1
    <3> QED
      BY <3>3, <3>4, <3>5, <3>6, EndInv
  <2>7. ASSUME NEW i \in DOMAIN task[r], StepAction(r, i) PROVE Goal
    BY <2>7, StepActionInv
  <2> QED
    BY <1>2, <2>1, <2>2, <2>3, <2>4, <2>5, <2>6, <2>7 DEF RunAction
<1>3. CASE ApiAction
  <2>1. ASSUME NEW p \in Plan, Reads(p), approved => approved',
               WellGated(p) /\ (HasApprovedGate(p) => approved')
        PROVE  Goal
    <3>1. \A q \in requests' : q \in requests \/ q.plan = p
      BY <2>1 DEF Reads
    <3>2. \A q \in requests' : CopyOK(q.plan)'
      BY <1>0, <2>1, <3>1 DEF CopyOK
    <3>3. CopyOK(store)'
      BY <1>0, <2>1 DEF Reads, CopyOK
    <3> QED
      BY <2>1, <3>2, <3>3, QuietInv DEF Reads
  <2>2. CASE ApproveReads
    <3> DEFINE p == Approve(store)
    <3>1. /\ p \in Plan /\ SameShape(store, p)
          /\ \A i \in DOMAIN store.steps : p.steps[i].status = "succeeded" =>
               store.steps[i].status = "succeeded" \/ p.steps # store.steps
      BY <1>0, ApproveLemma
    <3>2. Reads(p) /\ approved' = (approved \/ p.steps # store.steps)
      BY <2>2 DEF ApproveReads
    <3>3. WellGated(p)
      BY <1>0, <3>1, ShapeGated DEF CopyOK
    <3>4. HasApprovedGate(p) => approved'
      BY <1>0, <3>1, <3>2 DEF HasApprovedGate, CopyOK, SameShape
    <3> HIDE DEF p
    <3> QED
      BY <2>1, <3>1, <3>2, <3>3, <3>4
  <2>3. CASE DeleteReads
    <3>1. SetStatus(store, "aborted") \in Plan /\ SetStatus(store, "aborted").steps = store.steps
      BY <1>0, SetStatusLemma DEF PlanStatus
    <3>2. /\ WellGated(SetStatus(store, "aborted"))
          /\ HasApprovedGate(SetStatus(store, "aborted")) => approved
      BY <1>0, <3>1, SameStepsCopy DEF CopyOK
    <3> QED
      BY <2>1, <2>3, <3>1, <3>2 DEF DeleteReads
  <2>4. CASE AppendReads
    <3>1. ASSUME NEW step \in Appendable PROVE CopyOK(AppendStep(store, step))
      <4> DEFINE q == AppendStep(store, step)
                 n == Len(store.steps)
      <4>1. /\ step \in PlanStep /\ ~step.isApprovalGate
            /\ n \in Nat /\ DOMAIN store.steps = 1..n
        BY <1>0, AppendableLemma, StepsLemma
      <4>2. /\ Len(q.steps) = n + 1 /\ DOMAIN q.steps = 1..(n + 1)
            /\ \A i \in 1..n : q.steps[i] = store.steps[i]
            /\ q.steps[n + 1].id = n /\ ~q.steps[n + 1].isApprovalGate
        BY <1>0, <4>1, AppendLemma
      <4> HIDE DEF q, n
      <4>3. WellGated(q)
        <5>1. ASSUME NEW i \in 1..n, q.steps[i].isApprovalGate
              PROVE  /\ q.steps[i].action \in Handoffs /\ q.steps[i].id < n + 1
                     /\ \A j \in 1..n : q.steps[j].id = q.steps[i].id => j = i
                     /\ q.steps[n + 1].id # q.steps[i].id
          <6>1. /\ store.steps[i].action \in Handoffs /\ store.steps[i].id < n
                /\ \A j \in 1..n : store.steps[j].id = store.steps[i].id => j = i
            BY <1>0, <4>1, <4>2, <5>1 DEF CopyOK, WellGated, n
          <6>2. store.steps[i].id \in Nat
            BY <1>0, <4>1, StepsLemma DEF PlanStep
          <6>3. q.steps[i] = store.steps[i] /\ store.steps[i].id # n
            BY <4>1, <4>2, <6>1, <6>2
          <6>4. \A j \in 1..n : q.steps[j].id = q.steps[i].id => j = i
            BY <4>2, <6>1
          <6> QED
            BY <4>1, <4>2, <6>1, <6>2, <6>3, <6>4
        <5>2. \A i \in DOMAIN q.steps : i \in 1..n \/ i = n + 1
          BY <4>1, <4>2
        <5> QED
          BY <4>1, <4>2, <5>1, <5>2 DEF WellGated
      <4>4. HasApprovedGate(q) => approved
        <5>1. \A i \in DOMAIN q.steps : i \in 1..n \/ i = n + 1
          BY <4>1, <4>2
        <5> QED
          BY <1>0, <4>1, <4>2, <5>1 DEF HasApprovedGate, CopyOK
      <4> QED
        BY <4>3, <4>4 DEF CopyOK, q
    <3>2. PICK p \in {store} \cup {AppendStep(store, s) : s \in Appendable} : Reads(p)
      BY <2>4 DEF AppendReads
    <3>3. p \in Plan /\ CopyOK(p)
      BY <1>0, <3>1, <3>2, AppendableLemma
    <3> QED
      BY <2>1, <2>4, <3>2, <3>3 DEF AppendReads, CopyOK
  <2>5. ASSUME NEW q \in requests, RequestWrites(q) PROVE Goal
    <3>1. CopyOK(store)' /\ \A s \in requests' : CopyOK(s.plan)'
      BY <1>0, <2>5 DEF RequestWrites, CopyOK
    <3> QED
      BY <2>5, <3>1, QuietInv DEF RequestWrites
  <2> QED
    BY <1>3, <2>2, <2>3, <2>4, <2>5 DEF ApiAction
<1>4. CASE Failure
  <2>0. ASSUME NEW r \in Run, Dead(r) PROVE \A s \in Run : pc'[s] = "idle" => pc[s] = "idle"
    BY <1>0, <2>0 DEF Dead, TypeOK
  <2>c. ASSUME UNCHANGED <<store, approved>> PROVE CopyOK(store)'
    BY <1>0, <2>c DEF CopyOK
  <2>1. ASSUME NEW r \in Run, SaveFails(r) PROVE Goal
    <3>1. UNCHANGED <<store, mem, task, saving, requests, approved, performed>> /\ Dead(r)
      BY <2>1 DEF SaveFails
    <3>2. \A w \in saving' : task'[w.run][w.step] = "saving"
      BY <3>1 DEF IInv, SavingOK
    <3> QED
      BY <2>0, <2>c, <3>1, <3>2, EndInv
  <2>2. ASSUME NEW r \in Run, NEW i \in DOMAIN task[r], EmitFails(r, i) PROVE Goal
    <3>1. /\ UNCHANGED <<store, mem, saving, requests, approved, performed>> /\ Dead(r)
          /\ Goto(r, i, "finished") /\ task[r][i] \in {"reporting", "announcing"}
      BY <2>2 DEF EmitFails, At
    <3>2. /\ task'[r][i] = "finished"
          /\ \A s \in Run : \A j \in DOMAIN mem[s].steps :
               s # r \/ j # i => task'[s][j] = task[s][j]
      BY <1>0, <3>1, GotoLemma DEF TaskState
    <3>3. \A w \in saving' : task'[w.run][w.step] = "saving"
      BY <1>0, <3>1, <3>2 DEF IInv, SavingOK
    <3>4. \A s \in Run : \A j \in DOMAIN mem[s].steps :
            task'[s][j] = task[s][j] \/ (task[s][j] # "none" /\ task'[s][j] = "finished")
      <4>1. ASSUME NEW s \in Run, NEW j \in DOMAIN mem[s].steps
            PROVE  task'[s][j] = task[s][j] \/ (task[s][j] # "none" /\ task'[s][j] = "finished")
        <5>1. CASE s = r /\ j = i
          BY <3>1, <3>2, <5>1
        <5>2. CASE s # r \/ j # i
          BY <3>2, <5>2
        <5> QED
          BY <5>1, <5>2
      <4> QED
        BY <4>1
    <3> QED
      BY <2>0, <2>c, <3>1, <3>3, <3>4, EndInv
  <2>3. ASSUME NEW w \in saving, GateSaveFails(w) PROVE Goal
    <3>1. /\ w.run \in Run /\ w.step \in DOMAIN task[w.run] /\ task[w.run][w.step] = "saving"
          /\ UNCHANGED <<store, mem, requests, approved, performed>> /\ Dead(w.run)
          /\ saving' = saving \ {w} /\ Goto(w.run, w.step, "finished")
      BY <1>0, <2>3 DEF GateSaveFails, IInv, SavingOK, TypeOK
    <3>2. /\ task'[w.run][w.step] = "finished"
          /\ \A s \in Run : \A j \in DOMAIN mem[s].steps :
               s # w.run \/ j # w.step => task'[s][j] = task[s][j]
      BY <1>0, <3>1, GotoLemma DEF TaskState
    <3>3. \A v \in saving' : task'[v.run][v.step] = "saving"
      <4>1. \A v \in saving' : v.run # w.run \/ v.step # w.step
        BY <3>1 DEF IInv, SavingOK
      <4> QED
        BY <1>0, <3>1, <3>2, <4>1 DEF IInv, SavingOK
    <3>4. \A s \in Run : \A j \in DOMAIN mem[s].steps :
            task'[s][j] = task[s][j] \/ (task[s][j] # "none" /\ task'[s][j] = "finished")
      <4>1. ASSUME NEW s \in Run, NEW j \in DOMAIN mem[s].steps
            PROVE  task'[s][j] = task[s][j] \/ (task[s][j] # "none" /\ task'[s][j] = "finished")
        <5>1. CASE s = w.run /\ j = w.step
          BY <3>1, <3>2, <5>1
        <5>2. CASE s # w.run \/ j # w.step
          BY <3>2, <5>2
        <5> QED
          BY <5>1, <5>2
      <4> QED
        BY <4>1
    <3> QED
      BY <2>0, <2>c, <3>1, <3>3, <3>4, EndInv
  <2>4. CASE Crash
    <3>1. /\ UNCHANGED <<store, mem, requests, approved, performed>> /\ saving' = {}
          /\ \A s \in Run : pc'[s] = "idle" => pc[s] = "idle"
      BY <2>4 DEF Crash
    <3>2. \A s \in Run : \A j \in DOMAIN mem[s].steps :
            task'[s][j] = task[s][j] \/ (task[s][j] # "none" /\ task'[s][j] = "finished")
      <4>1. \A s \in Run : DOMAIN task[s] = DOMAIN mem[s].steps
        BY <1>0 DEF TypeOK
      <4>2. ASSUME NEW s \in Run, NEW j \in DOMAIN mem[s].steps
            PROVE  task'[s][j] = IF task[s][j] = "none" THEN "none" ELSE "finished"
        BY <2>4, <4>1 DEF Crash
      <4> QED
        BY <4>2
    <3> QED
      BY <2>c, <3>1, <3>2, EndInv
  <2> QED
    BY <1>4, <2>1, <2>2, <2>3, <2>4 DEF Failure
<1>5. CASE UNCHANGED vars
  BY <1>5 DEF vars, IInv, CopiesOK, CopyOK, TasksOK, TaskOK, SavingOK, PerformedOK
<1> QED
  BY <1>1, <1>2, <1>3, <1>4, <1>5 DEF Next

(* In every state each copy of the plan, wherever it is, has a passed gate only
   after an approval, and a started step has its dependencies. *)
THEOREM Invariance == Spec => []IInv
BY InvInit, InvStep, PTL DEF Spec

(* A performed step has started, so its gate has succeeded in the copy of its
   run; and no copy says so without an approval. *)
LEMMA InvImpliesGate == IInv => GateRespected
<1> SUFFICES ASSUME IInv, NEW r \in Run, NEW i \in DOMAIN mem[r].steps,
                    <<r, i>> \in performed,
                    mem[r].steps[i].dependsOn \cap GateIds(mem[r]) # {}
             PROVE  approved
  BY DEF GateRespected
<1>1. task[r][i] # "none"
  BY DEF IInv, PerformedOK
<1>2. mem[r].steps[i].dependsOn \subseteq SucceededIds(mem[r])
  BY <1>1 DEF IInv, TasksOK, TaskOK
<1>3. PICK g \in GateIds(mem[r]) : g \in SucceededIds(mem[r])
  BY <1>2
<1>4. PICK j \in DOMAIN mem[r].steps : /\ mem[r].steps[j].id = g
                                      /\ mem[r].steps[j].status = "succeeded"
  BY <1>3 DEF SucceededIds
<1>5. CopyOK(mem[r])
  BY DEF IInv, CopiesOK
<1>6. mem[r].steps[j].isApprovalGate
  BY <1>3, <1>4, <1>5 DEF CopyOK, WellGated, GateIds
<1> QED
  BY <1>4, <1>5, <1>6 DEF CopyOK, HasApprovedGate

(* No run performs the action of a step behind an approval gate unless an
   operator has approved the plan: for every set of plans, any number of runs
   of the same plan and of API calls, and every fault. *)
THEOREM GateSafety == Spec => []GateRespected
BY Invariance, InvImpliesGate, PTL

-------------------------------------------------------------------------------
(* What the generator makes of a decision.  It is what PlansAssumption asks
   for, so the theorems hold of every plan the generator makes. *)

Fresh(p) == /\ p \in Plan
            /\ WellGated(p)
            /\ IsChain(p)
            /\ \A i \in DOMAIN p.steps : p.steps[i].status = "pending"

Created(steps, checksResolved, gates) ==
  [steps |-> steps, checksResolved |-> checksResolved, approvalGates |-> gates,
   status |-> "created"]

(* Pending steps, each behind the one before it and under an id of its own. *)
InLineAt(s, i) ==
  /\ s[i].status = "pending"
  /\ s[i].dependsOn = IF i = 1 THEN {} ELSE {s[i-1].id}
  /\ s[i].isApprovalGate => s[i].action \in Handoffs /\ s[i].id < Len(s)
  /\ \A j \in DOMAIN s : s[j].id = s[i].id => j = i

InLine(s) == \A i \in DOMAIN s : InLineAt(s, i)

LEMMA InLineLemma ==
  ASSUME NEW s \in Seq(PlanStep), InLine(s),
         NEW c \in BOOLEAN, NEW g \in SUBSET Nat
  PROVE  Fresh(Created(s, c, g))
<1> DEFINE p == Created(s, c, g)
<1>1. p.steps = s /\ p \in Plan
  BY DEF Created, Plan, PlanStatus
<1> HIDE DEF p
<1>2. WellGated(p)
  BY <1>1 DEF WellGated, InLine, InLineAt
<1>3. IsChain(p)
  BY <1>1 DEF IsChain, InLine, InLineAt
<1>4. Fresh(p)
  BY <1>1, <1>2, <1>3 DEF Fresh, InLine, InLineAt
<1> QED
  BY <1>4 DEF p

(* A list of two steps, neither a gate, or of a gate and a step. *)
LEMMA TwoInLine ==
  ASSUME NEW a \in PlanStep, NEW b \in PlanStep,
         a.status = "pending", b.status = "pending",
         a.dependsOn = {}, b.dependsOn = {a.id}, a.id # b.id,
         a.isApprovalGate => a.action \in Handoffs /\ a.id < 2,
         ~b.isApprovalGate
  PROVE  <<a, b>> \in Seq(PlanStep) /\ Len(<<a, b>>) = 2 /\ InLine(<<a, b>>)
<1> DEFINE s == <<a, b>>
<1>1. /\ s \in Seq(PlanStep) /\ Len(s) = 2 /\ DOMAIN s = {1, 2}
      /\ s[1] = a /\ s[2] = b
  OBVIOUS
<1> HIDE DEF s
<1>2. InLineAt(s, 1) /\ InLineAt(s, 2)
  BY <1>1 DEF InLineAt
<1> QED
  BY <1>1, <1>2 DEF s, InLine

(* A list of three, the first of which may be a gate. *)
LEMMA ThreeInLine ==
  ASSUME NEW a \in PlanStep, NEW b \in PlanStep, NEW c \in PlanStep,
         a.status = "pending", b.status = "pending", c.status = "pending",
         a.dependsOn = {}, b.dependsOn = {a.id}, c.dependsOn = {b.id},
         a.id # b.id, a.id # c.id, b.id # c.id,
         a.isApprovalGate => a.action \in Handoffs /\ a.id < 3,
         ~b.isApprovalGate, ~c.isApprovalGate
  PROVE  LET s == <<a>> \o <<b, c>>
         IN  /\ s \in Seq(PlanStep) /\ Len(s) = 3 /\ InLine(s)
             /\ s[1] = a /\ s[2] = b
<1> DEFINE s == <<a>> \o <<b, c>>
<1>1. s \in Seq(PlanStep) /\ Len(s) = 3 /\ s[1] = a /\ s[2] = b /\ s[3] = c
  OBVIOUS
<1> HIDE DEF s
<1>2. DOMAIN s = {1, 2, 3}
  BY <1>1
<1>3. InLineAt(s, 1) /\ InLineAt(s, 2) /\ InLineAt(s, 3)
  BY <1>1, <1>2 DEF InLineAt
<1>4. InLine(s)
  BY <1>2, <1>3 DEF InLine
<1> QED
  BY <1>1, <1>4 DEF s

(* Whatever the decision, the plan is well typed, each of its steps waits for
   the one before it and for nothing else, nothing is done, and a gate is
   served by the handoff handler under an id of its own (generator.py:20-141,
   plan_templates.yaml). *)
THEOREM GeneratedPlans ==
  ASSUME NEW action \in STRING, NEW requiresApproval \in BOOLEAN
  PROVE  Fresh(Generate(action, requiresApproval))
<1> DEFINE p == Generate(action, requiresApproval)
           notify == NewStep(2, "send_alert", {1}, "continue", FALSE)
<1>0. /\ notify \in PlanStep /\ notify.id = 2 /\ notify.dependsOn = {1}
      /\ ~notify.isApprovalGate /\ notify.status = "pending"
  BY NamesAssumption DEF NewStep, PlanStep, OnFailure, StepStatus
<1>g. {0} \in SUBSET Nat /\ {1} \in SUBSET Nat
  OBVIOUS
<1>1. CASE action \notin DOMAIN Templates /\ requiresApproval
  <2> DEFINE gate == NewStep(0, "human_handoff", {}, "abort", TRUE)
             act  == NewStep(1, action, {0}, "rollback", FALSE)
             s    == <<gate>> \o <<act, notify>>
  <2>1. p = Created(s, FALSE, {0})
    BY <1>1 DEF Generate, SingleStepPlan, Created
  <2>2. /\ gate \in PlanStep /\ gate.id = 0 /\ gate.action = "human_handoff"
        /\ gate.dependsOn = {} /\ gate.isApprovalGate /\ gate.status = "pending"
    BY NamesAssumption DEF NewStep, PlanStep, OnFailure, StepStatus
  <2>3. /\ act \in PlanStep /\ act.id = 1 /\ act.dependsOn = {0}
        /\ ~act.isApprovalGate /\ act.status = "pending"
    BY DEF NewStep, PlanStep, OnFailure, StepStatus
  <2> HIDE DEF gate, act, notify
  <2>4. s \in Seq(PlanStep) /\ Len(s) = 3 /\ InLine(s)
    BY <1>0, <2>2, <2>3, ThreeInLine DEF Handoffs
  <2> HIDE DEF s
  <2> QED
    BY <1>g, <2>1, <2>4, InLineLemma
<1>2. CASE action \notin DOMAIN Templates /\ ~requiresApproval
  <2> DEFINE act  == NewStep(1, action, {}, "rollback", FALSE)
             s    == <<act, notify>>
  <2>1. p = Created(s, FALSE, {})
    <3>1. <<>> \o s = s
      OBVIOUS
    <3> QED
      BY <1>2, <3>1 DEF Generate, SingleStepPlan, Created
  <2>2. /\ act \in PlanStep /\ act.id = 1 /\ act.dependsOn = {}
        /\ ~act.isApprovalGate /\ act.status = "pending"
    BY DEF NewStep, PlanStep, OnFailure, StepStatus
  <2> HIDE DEF act, notify
  <2>3. s \in Seq(PlanStep) /\ Len(s) = 2 /\ InLine(s)
    BY <1>0, <2>2, TwoInLine
  <2> HIDE DEF s
  <2> QED
    BY <2>1, <2>3, InLineLemma
<1>3. CASE action = "scale_consumer_group"
  <2> DEFINE a == NewStep(1, "scale_consumer_group", {}, "rollback", FALSE)
             s == <<a, notify>>
  <2>1. p = Created(s, TRUE, {})
    BY <1>3 DEF Generate, FromTemplate, Templates, Created
  <2>2. /\ a \in PlanStep /\ a.id = 1 /\ a.dependsOn = {}
        /\ ~a.isApprovalGate /\ a.status = "pending"
    BY NamesAssumption DEF NewStep, PlanStep, OnFailure, StepStatus
  <2> HIDE DEF a, notify
  <2>3. s \in Seq(PlanStep) /\ Len(s) = 2 /\ InLine(s)
    BY <1>0, <2>2, TwoInLine
  <2> HIDE DEF s
  <2> QED
    BY <2>1, <2>3, InLineLemma
<1>4. CASE action = "restart_connection_pool"
  <2> DEFINE a == NewStep(1, "increase_log_verbosity", {}, "continue", FALSE)
             b == NewStep(2, "restart_connection_pool", {1}, "rollback", FALSE)
             s == <<a, b>>
  <2>1. p = Created(s, TRUE, {})
    BY <1>4 DEF Generate, FromTemplate, Templates, Created
  <2>2. /\ a \in PlanStep /\ a.id = 1 /\ a.dependsOn = {}
        /\ ~a.isApprovalGate /\ a.status = "pending"
        /\ b \in PlanStep /\ b.id = 2 /\ b.dependsOn = {1}
        /\ ~b.isApprovalGate /\ b.status = "pending"
    BY NamesAssumption DEF NewStep, PlanStep, OnFailure, StepStatus
  <2> HIDE DEF a, b
  <2>3. s \in Seq(PlanStep) /\ Len(s) = 2 /\ InLine(s)
    BY <2>2, TwoInLine
  <2> HIDE DEF s
  <2> QED
    BY <2>1, <2>3, InLineLemma
<1>5. CASE action = "restart_service"
  <2> DEFINE a == NewStep(0, "human_handoff", {}, "abort", TRUE)
             b == NewStep(1, "restart_service", {0}, "rollback", FALSE)
             s == <<a, b>>
  <2>1. p = Created(s, FALSE, {0})
    BY <1>5 DEF Generate, FromTemplate, Templates, Created
  <2>2. /\ a \in PlanStep /\ a.id = 0 /\ a.dependsOn = {} /\ a.action = "human_handoff"
        /\ a.isApprovalGate /\ a.status = "pending"
        /\ b \in PlanStep /\ b.id = 1 /\ b.dependsOn = {0}
        /\ ~b.isApprovalGate /\ b.status = "pending"
    BY NamesAssumption DEF NewStep, PlanStep, OnFailure, StepStatus
  <2> HIDE DEF a, b
  <2>3. s \in Seq(PlanStep) /\ Len(s) = 2 /\ InLine(s)
    BY <2>2, TwoInLine DEF Handoffs
  <2> HIDE DEF s
  <2> QED
    BY <1>g, <2>1, <2>3, InLineLemma
<1>6. CASE action = "escalate_to_human"
  <2> DEFINE a == NewStep(1, "human_handoff", {}, "continue", FALSE)
             s == <<a>>
  <2>1. p = Created(s, FALSE, {1})
    BY <1>6 DEF Generate, FromTemplate, Templates, Created
  <2>2. /\ a \in PlanStep /\ a.id = 1 /\ a.dependsOn = {}
        /\ ~a.isApprovalGate /\ a.status = "pending"
    BY NamesAssumption DEF NewStep, PlanStep, OnFailure, StepStatus
  <2> HIDE DEF a
  <2>3. s \in Seq(PlanStep) /\ Len(s) = 1 /\ DOMAIN s = {1} /\ s[1] = a
    BY <2>2
  <2> HIDE DEF s
  <2>4. InLine(s)
    BY <2>2, <2>3 DEF InLine, InLineAt
  <2> QED
    BY <1>g, <2>1, <2>3, <2>4, InLineLemma
<1>7. DOMAIN Templates = {"scale_consumer_group", "restart_connection_pool",
                          "restart_service", "escalate_to_human"}
  BY DEF Templates
<1> QED
  BY <1>1, <1>2, <1>3, <1>4, <1>5, <1>6, <1>7

-------------------------------------------------------------------------------
(* What no copy of a plan loses.  Copies are written over each other, and any
   of them may be the one a run works on; but whoever writes one has made it of
   another by setting statuses and by appending a step. *)

Copies == {store} \cup {mem[r] : r \in Run} \cup {w.plan : w \in saving}
            \cup {q.plan : q \in requests}

(* q has the steps of p, with whatever statuses, and possibly more. *)
Prolongs(p, q) ==
  \A i \in DOMAIN p.steps :
    /\ i \in DOMAIN q.steps
    /\ q.steps[i].id = p.steps[i].id
    /\ q.steps[i].action = p.steps[i].action
    /\ q.steps[i].dependsOn = p.steps[i].dependsOn
    /\ q.steps[i].isApprovalGate = p.steps[i].isApprovalGate

LEMMA ProlongsLemma ==
  ASSUME NEW o, NEW p, NEW q, Prolongs(o, p), Prolongs(p, q)
  PROVE  Prolongs(o, q)
BY DEF Prolongs

(* q is p with other statuses, and the same steps to do. *)
Restated(p, q) ==
  /\ SameShape(p, q)
  /\ \A i \in DOMAIN p.steps :
       q.steps[i].status = "pending" <=> p.steps[i].status = "pending"

(* A copy is made of another by a change of statuses, by a wave, up to any step
   of it, or by an append. *)
Made(p, q) ==
  \/ Restated(p, q)
  \/ \E n \in Nat : q = Launch(p, {j \in ReadySteps(p) : j <= n})
  \/ \E step \in Appendable : q = AppendStep(p, step)

LEMMA MadeProlongs ==
  ASSUME NEW p \in Plan, NEW q, Made(p, q)
  PROVE  Prolongs(p, q)
<1>1. CASE SameShape(p, q)
  BY <1>1 DEF SameShape, Prolongs
<1>2. ASSUME NEW step \in Appendable, q = AppendStep(p, step) PROVE Prolongs(p, q)
  <2>1. step \in PlanStep /\ Len(p.steps) \in Nat /\ DOMAIN p.steps = 1..Len(p.steps)
    BY AppendableLemma, StepsLemma
  <2> QED
    BY <1>2, <2>1, AppendLemma DEF Prolongs
<1> QED
  BY <1>1, <1>2, LaunchLemma DEF Made, Restated

(* A stretch of a step changes nothing of a plan in memory but statuses, and
   none that is still to do. *)
LEMMA StepActionCopy ==
  ASSUME IInv, NEW r \in Run, NEW i \in DOMAIN task[r], StepAction(r, i)
  PROVE  /\ \E p : Restated(mem[r], p) /\ mem' = [mem EXCEPT ![r] = p]
         /\ UNCHANGED <<store, saving, requests>>
<1> DEFINE plan == mem[r]
<1>0. plan \in Plan /\ i \in DOMAIN plan.steps /\ mem = [mem EXCEPT ![r] = plan]
  BY DEF IInv, TypeOK
<1>1. Restated(plan, plan)
  BY SameShapeRefl DEF Restated
<1>2. \A s \in PlanStatus : Restated(plan, SetStatus(plan, s))
  BY <1>0, SetStatusLemma DEF SameShape, Restated
<1>3. plan.steps[i].status = "pending" => ~At(r, i, "saved") /\ ~At(r, i, "handler") /\ ~At(r, i, "acted")
  BY <1>0 DEF IInv, TasksOK, TaskOK, At
<1>4. ASSUME NEW s \in {"succeeded", "failed"}, plan.steps[i].status # "pending"
      PROVE  Restated(plan, SetStep(plan, i, s)) /\ SetStep(plan, i, s) \in Plan
  <2> DEFINE q == SetStep(plan, i, s)
  <2>1. s \in StepStatus /\ s # "pending"
    BY DEF StepStatus
  <2>2. /\ q \in Plan /\ SameShape(plan, q) /\ q.steps[i].status = s
        /\ \A j \in DOMAIN plan.steps \ {i} : q.steps[j] = plan.steps[j]
    BY <1>0, <2>1, SetStepLemma
  <2> HIDE DEF q
  <2>3. Restated(plan, q)
    BY <1>4, <2>1, <2>2 DEF Restated
  <2> QED
    BY <2>2, <2>3 DEF q
<1>5. ASSUME NEW s \in {"succeeded", "failed"}, Result(r, i, s), plan.steps[i].status # "pending"
      PROVE  \E p : Restated(plan, p) /\ mem' = [mem EXCEPT ![r] = p]
  <2>1. Restated(plan, SetStatus(SetStep(plan, i, s), "running"))
    BY <1>4, <1>5, SetStatusLemma DEF SameShape, Restated, PlanStatus
  <2> QED
    BY <1>4, <1>5, <2>1 DEF Result
<1>6. CASE GateOpens(r, i)
  <2> DEFINE w == SetStatus(plan, "awaiting_approval")
  <2>1. w \in Plan /\ w.steps = plan.steps /\ Restated(plan, w)
    BY <1>0, <1>2, SetStatusLemma DEF PlanStatus
  <2>2. /\ SameShape(w, SetStep(w, i, "failed"))
        /\ SetStep(w, i, "failed").steps[i].status = "failed"
        /\ \A j \in DOMAIN w.steps \ {i} : SetStep(w, i, "failed").steps[j] = w.steps[j]
    BY <1>0, <2>1, SetStepLemma DEF StepStatus
  <2>3. plan.steps[i].status # "pending"
    BY <1>3, <1>6 DEF GateOpens
  <2> HIDE DEF w
  <2>4. Restated(plan, SetStep(w, i, "failed"))
    BY <2>1, <2>2, <2>3 DEF SameShape, Restated
  <2> QED
    BY <1>6, <2>1, <2>4 DEF GateOpens, w
<1>7. CASE Act(r, i) \/ PollApproved(r, i) \/ CriterionNotMet(r, i) \/ Announced(r, i)
  BY <1>0, <1>1, <1>7 DEF Act, PollApproved, CriterionNotMet, Announced
<1>8. CASE StepSucceeds(r, i) \/ StepFails(r, i)
  BY <1>3, <1>5, <1>8 DEF StepSucceeds, StepFails, Result
<1>9. CASE Reported(r, i) \/ CriterionMet(r, i)
  <2>1. Verdict(plan.steps[i]) \in PlanStatus /\ "succeeded" \in PlanStatus
    BY DEF Verdict, PlanStatus
  <2> QED
    BY <1>0, <1>1, <1>2, <1>9, <2>1 DEF Reported, CriterionMet
<1> QED
  BY <1>6, <1>7, <1>8, <1>9 DEF StepAction

(* Every copy that a step of the system makes is of one that was there. *)
LEMMA CopiesLemma ==
  ASSUME IInv, [Next]_vars, NEW q \in Copies'
  PROVE  \E p \in Copies : Made(p, q)
<1> DEFINE Kept(x) == \E p \in Copies : Made(p, x)
<1>0. /\ store \in Plan /\ store \in Copies
      /\ \A r \in Run : mem[r] \in Plan /\ mem[r] \in Copies
      /\ \A w \in saving : w.plan \in Copies /\ w.run \in Run
      /\ \A v \in requests : v.plan \in Copies
  BY DEF IInv, TypeOK, Copies
<1>1. ASSUME NEW p \in Copies, NEW x, Restated(p, x) PROVE Kept(x)
  BY <1>1 DEF Made
<1>2. \A p \in Copies : Kept(p)
  BY <1>1, SameShapeRefl DEF Restated
<1>3. q = store' \/ (\E r \in Run : q = mem'[r]) \/ (\E w \in saving' : q = w.plan)
        \/ (\E v \in requests' : q = v.plan)
  BY DEF Copies
<1> SUFFICES Kept(q)
  OBVIOUS
<1>w. ASSUME NEW r \in Run, NEW n \in Nat
      PROVE  Kept(Launch(mem[r], {j \in ReadySteps(mem[r]) : j <= n}))
  BY <1>0 DEF Made
<1>a. \A step \in Appendable : Kept(AppendStep(store, step))
  BY <1>0 DEF Made
<1> HIDE DEF Kept, Copies
(* A step that makes one plan in memory of another, and writes to Redis, or
   has in flight, nothing but copies that were there. *)
<1>4. ASSUME NEW r \in Run, NEW p, Kept(p), mem' = [mem EXCEPT ![r] = p],
             Kept(store'), \A w \in saving' : Kept(w.plan), \A v \in requests' : Kept(v.plan)
      PROVE  Kept(q)
  <2>1. \A s \in Run : mem'[s] = p \/ mem'[s] = mem[s]
    BY <1>4 DEF IInv, TypeOK
  <2> QED
    BY <1>0, <1>2, <1>3, <1>4, <2>1
<1>5. ASSUME UNCHANGED mem, Kept(store'), \A w \in saving' : Kept(w.plan),
             \A v \in requests' : Kept(v.plan)
      PROVE  Kept(q)
  BY <1>0, <1>2, <1>3, <1>5
<1>6. /\ Kept(store) /\ \A r \in Run : Kept(mem[r])
      /\ \A w \in saving : Kept(w.plan)
      /\ \A v \in requests : Kept(v.plan)
  BY <1>0, <1>2
<1>7. ASSUME NEW r \in Run, Fetch(r) PROVE Kept(q)
  BY <1>4, <1>6, <1>7 DEF Fetch
<1>8. ASSUME NEW r \in Run, RunAction(r) PROVE Kept(q)
  <2>1. ASSUME NEW s \in PlanStatus PROVE Kept(SetStatus(mem[r], s))
    <3>1. Restated(mem[r], SetStatus(mem[r], s))
      BY <1>0, SetStatusLemma DEF SameShape, Restated
    <3> QED
      BY <1>0, <1>1, <3>1
  <2>2. CASE Execute(r)
    BY <1>4, <1>6, <2>1, <2>2 DEF Execute, PlanStatus
  <2>3. CASE SaveLands(r) \/ WaveJoins(r)
    BY <1>5, <1>6, <2>3 DEF SaveLands, WaveJoins
  <2>4. CASE StartWave(r)
    <3> DEFINE ready == ReadySteps(mem[r])
               gates == {i \in ready : mem[r].steps[i].isApprovalGate}
    <3>1. /\ mem' = [mem EXCEPT ![r] = Launch(mem[r], ready)]
          /\ saving' = saving \cup {[run |-> r, step |-> i, plan |-> Snapshot(mem[r], ready, i)] :
                                      i \in gates}
          /\ UNCHANGED <<store, requests>>
      BY <2>4 DEF StartWave
    <3>2. Len(mem[r].steps) \in Nat /\ DOMAIN mem[r].steps = 1..Len(mem[r].steps)
      BY <1>0, StepsLemma
    <3>3. ready = {j \in ready : j <= Len(mem[r].steps)} /\ \A i \in gates : i \in Nat
      BY <3>2 DEF ReadySteps
    <3> HIDE DEF gates, ready
    <3>4. Kept(Launch(mem[r], ready))
      BY <1>w, <3>2, <3>3 DEF ready
    <3>5. \A w \in saving' : w \in saving \/ \E i \in gates : w.plan = Snapshot(mem[r], ready, i)
      BY <3>1
    <3>6. \A i \in gates : Kept(Snapshot(mem[r], ready, i))
      BY <1>w, <3>3 DEF Snapshot, ready
    <3> QED
      BY <1>4, <1>6, <3>1, <3>4, <3>5, <3>6
  <2>5. CASE Finish(r)
    <3>1. CASE UNCHANGED mem
      BY <1>5, <1>6, <2>5, <3>1 DEF Finish
    <3>2. CASE mem' = [mem EXCEPT ![r] = SetStatus(mem[r], "succeeded")]
      BY <1>4, <1>6, <2>1, <2>5, <3>2 DEF Finish, PlanStatus
    <3> QED
      BY <2>5, <3>1, <3>2 DEF Finish
  <2>6. ASSUME NEW w \in saving, GateSaveLands(w) PROVE Kept(q)
    BY <1>5, <1>6, <2>6 DEF GateSaveLands
  <2>7. ASSUME NEW i \in DOMAIN task[r], StepAction(r, i) PROVE Kept(q)
    <3>1. PICK p : Restated(mem[r], p) /\ mem' = [mem EXCEPT ![r] = p]
      BY <2>7, StepActionCopy
    <3>2. UNCHANGED <<store, saving, requests>>
      BY <2>7, StepActionCopy
    <3>3. Kept(p)
      BY <1>0, <1>1, <3>1
    <3> QED
      BY <1>4, <1>6, <3>1, <3>2, <3>3
  <2> QED
    BY <1>8, <2>2, <2>3, <2>4, <2>5, <2>6, <2>7 DEF RunAction
<1>9. CASE ApiAction
  <2>1. ASSUME NEW p, Reads(p), Kept(p) PROVE Kept(q)
    <3>1. \A v \in requests' : v \in requests \/ v.plan = p
      BY <2>1 DEF Reads
    <3> QED
      BY <1>5, <1>6, <2>1, <3>1 DEF Reads
  <2>2. CASE ApproveReads
    <3>1. Restated(store, Approve(store))
      BY <1>0, ApproveLemma DEF Restated
    <3> QED
      BY <1>0, <1>1, <2>1, <2>2, <3>1 DEF ApproveReads
  <2>3. CASE DeleteReads
    <3>1. Restated(store, SetStatus(store, "aborted"))
      BY <1>0, SetStatusLemma DEF SameShape, Restated, PlanStatus
    <3> QED
      BY <1>0, <1>1, <2>1, <2>3, <3>1 DEF DeleteReads
  <2>4. CASE AppendReads
    <3>1. PICK p \in {store} \cup {AppendStep(store, s) : s \in Appendable} : Reads(p)
      BY <2>4 DEF AppendReads
    <3> QED
      BY <1>6, <1>a, <2>1, <3>1
  <2>5. ASSUME NEW v \in requests, RequestWrites(v) PROVE Kept(q)
    BY <1>5, <1>6, <2>5 DEF RequestWrites
  <2> QED
    BY <1>9, <2>2, <2>3, <2>4, <2>5 DEF ApiAction
<1>10. CASE Failure
  <2>1. UNCHANGED <<store, mem, requests>> /\ saving' \subseteq saving
    BY <1>10 DEF Failure, SaveFails, EmitFails, GateSaveFails, Crash
  <2> QED
    BY <1>5, <1>6, <2>1
<1>11. CASE UNCHANGED vars
  BY <1>5, <1>6, <1>11 DEF vars
<1> QED
  BY <1>7, <1>8, <1>9, <1>10, <1>11 DEF Next

(* A plan keeps its steps, and each keeps its id, its action, its dependencies
   and its gate, in Redis, in every run's memory and in every copy in flight,
   however these are written over each other: what runs and calls contend for
   are statuses, and steps at the end (runner.py:30-52, planning/api.py:65-112). *)
THEOREM PlanIsKept ==
  ASSUME NEW plan
  PROVE  Spec /\ store = plan => [](\A q \in Copies : Prolongs(plan, q))
<1> DEFINE Kept == \A q \in Copies : Prolongs(plan, q)
<1>1. Init /\ store = plan => Kept
  BY DEF Init, Copies, Prolongs
<1>2. IInv /\ Kept /\ [Next]_vars => Kept'
  <2>1. IInv => \A p \in Copies : p \in Plan
    BY DEF IInv, TypeOK, Copies
  <2> QED
    BY <2>1, CopiesLemma, MadeProlongs, ProlongsLemma
<1> QED
  BY <1>1, <1>2, Invariance, PTL DEF Spec

(* The plan of an action without a template that needs approval. *)
LEMMA GatedPlanLemma ==
  ASSUME NEW action \in STRING \ DOMAIN Templates
  PROVE  LET plan == Generate(action, TRUE)
         IN  /\ Len(plan.steps) = 3 /\ DOMAIN plan.steps = 1..3
             /\ plan.steps[1].id = 0 /\ plan.steps[1].isApprovalGate
             /\ plan.steps[2].action = action /\ plan.steps[2].dependsOn = {0}
             /\ \A i \in DOMAIN plan.steps : plan.steps[i].id < 3
<1> DEFINE plan   == Generate(action, TRUE)
           gate   == NewStep(0, "human_handoff", {}, "abort", TRUE)
           act    == NewStep(1, action, {0}, "rollback", FALSE)
           notify == NewStep(2, "send_alert", {1}, "continue", FALSE)
           S      == {gate, act, notify}
<1>1. plan.steps = <<gate>> \o <<act, notify>>
  BY DEF Generate, SingleStepPlan
<1>2. /\ gate.id = 0 /\ gate.isApprovalGate
      /\ act.id = 1 /\ act.action = action /\ act.dependsOn = {0}
      /\ notify.id = 2
  BY DEF NewStep
<1> HIDE DEF gate, act, notify, plan
<1>3. /\ plan.steps \in Seq(S) /\ Len(plan.steps) = 3
      /\ plan.steps[1] = gate /\ plan.steps[2] = act /\ plan.steps[3] = notify
  <2>1. gate \in S /\ act \in S /\ notify \in S
    OBVIOUS
  <2> HIDE DEF S
  <2> QED
    BY <1>1, <2>1
<1>4. DOMAIN plan.steps = 1..3
  BY <1>3
<1>5. \A i \in DOMAIN plan.steps : plan.steps[i].id < 3
  BY <1>2, <1>3, <1>4
<1> QED
  BY <1>2, <1>3, <1>4, <1>5 DEF plan

(* An action without a template that was decided on with approval required is
   performed by no run unless an operator has approved, whatever runs, calls
   and failures there are: what PlanGenerator promises of the decision, the
   runner keeps (generator.py:100-141, runner.py:30-62, human.py:34-38).  Of
   templates it is not so: they never consult the decision
   (generator.py:36-98). *)
THEOREM DecisionAwaitsApproval ==
  ASSUME NEW action \in STRING \ DOMAIN Templates
  PROVE  Spec /\ store = Generate(action, TRUE) =>
           [](\A r \in Run : /\ mem[r].steps[2].action = action
                             /\ <<r, 2>> \in performed => approved)
<1> DEFINE plan == Generate(action, TRUE)
           Kept == \A q \in Copies : Prolongs(plan, q)
           Held == \A r \in Run : /\ mem[r].steps[2].action = action
                                  /\ <<r, 2>> \in performed => approved
<1>1. /\ DOMAIN plan.steps = 1..3
      /\ plan.steps[1].id = 0 /\ plan.steps[1].isApprovalGate
      /\ plan.steps[2].action = action /\ plan.steps[2].dependsOn = {0}
  BY GatedPlanLemma
<1> HIDE DEF plan
<1>2. Kept /\ GateRespected => Held
  <2> SUFFICES ASSUME Kept, GateRespected, NEW r \in Run
               PROVE  /\ mem[r].steps[2].action = action
                      /\ <<r, 2>> \in performed => approved
    OBVIOUS
  <2>1. Prolongs(plan, mem[r])
    BY DEF Copies
  <2>2. /\ 1 \in DOMAIN mem[r].steps /\ 2 \in DOMAIN mem[r].steps
        /\ mem[r].steps[1].id = 0 /\ mem[r].steps[1].isApprovalGate
        /\ mem[r].steps[2].action = action /\ mem[r].steps[2].dependsOn = {0}
    BY <1>1, <2>1 DEF Prolongs
  <2>3. 0 \in GateIds(mem[r])
    BY <2>2 DEF GateIds
  <2> QED
    BY <2>2, <2>3 DEF GateRespected
<1>3. Spec /\ store = plan => []Kept
  BY PlanIsKept
<1>4. Spec /\ store = plan => []Held
  BY <1>2, <1>3, GateSafety, PTL
<1> QED
  BY <1>4 DEF plan
================================================================================
