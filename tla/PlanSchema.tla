------------------------------ MODULE PlanSchema ------------------------------
(***************************************************************************)
(* The plan object that the Planning System produces, PlanStore keeps in   *)
(* Redis and PlanRunner executes (planning/schema.py), with the two        *)
(* derived questions the runner asks of it.  A step's parameters, texts    *)
(* and timestamps are left out; a timeout is a nondeterministic choice.    *)
(***************************************************************************)
EXTENDS Naturals, Sequences

StepStatus == {"pending", "running", "succeeded", "failed", "skipped",
               "waiting_approval"}

PlanStatus == {"created", "running", "succeeded", "failed", "rolled_back",
               "awaiting_approval", "aborted"}

OnFailure == {"rollback", "continue", "abort"}

(* A step id "s<n>" is the number n. *)
PlanStep == [id: Nat, action: STRING, dependsOn: SUBSET Nat,
             onFailure: OnFailure, isApprovalGate: BOOLEAN,
             status: StepStatus]

(* checksResolved: the plan has a criterion PlanMonitor can find satisfied,
   a world_model_query of the form "anomaly:... resolved".
   approvalGates: the ids the plan lists as gates, which is a field of its
   own beside the flag on each step. *)
Plan == [steps: Seq(PlanStep), checksResolved: BOOLEAN,
         approvalGates: SUBSET Nat, status: PlanStatus]

NewStep(id, action, dependsOn, onFailure, gate) ==
  [id |-> id, action |-> action, dependsOn |-> dependsOn,
   onFailure |-> onFailure, isApprovalGate |-> gate, status |-> "pending"]

SetStep(plan, i, s) == [plan EXCEPT !.steps[i].status = s]

SetStatus(plan, s) == [plan EXCEPT !.status = s]

SucceededIds(plan) ==
  {plan.steps[i].id : i \in {j \in DOMAIN plan.steps :
                               plan.steps[j].status = "succeeded"}}

ReadySteps(plan) ==
  {i \in DOMAIN plan.steps : /\ plan.steps[i].status = "pending"
                             /\ plan.steps[i].dependsOn \subseteq SucceededIds(plan)}

IsComplete(plan) ==
  \A i \in DOMAIN plan.steps : plan.steps[i].status \in {"succeeded", "skipped"}
===============================================================================
