---------------------------- MODULE MCPlanExecution ----------------------------
(* Plans for TLC: what the generator makes of decisions, and plans with
   parallel steps, which tests/test_plan_runner.py executes and the runner
   supports. *)
EXTENDS PlanExecution, PlanGenerator

ChainPlans ==
  {Generate("scale_consumer_group", FALSE), Generate("restart_connection_pool", FALSE),
   Generate("restart_service", TRUE), Generate("escalate_to_human", TRUE),
   Generate("kill_slow_query", TRUE), Generate("purge_dead_letter_queue", FALSE)}

ParallelPlans ==
  {[steps |-> <<NewStep(1, "send_alert", {}, "rollback", FALSE),
                NewStep(2, "send_alert", {}, "rollback", FALSE),
                NewStep(3, "kill_slow_query", {2}, "rollback", FALSE)>>,
    checksResolved |-> FALSE, approvalGates |-> {}, status |-> "created"],
   [steps |-> <<NewStep(1, "scale_consumer_group", {}, "rollback", FALSE),
                NewStep(2, "send_alert", {}, "continue", FALSE)>>,
    checksResolved |-> TRUE, approvalGates |-> {}, status |-> "created"],
   [steps |-> <<NewStep(0, "human_handoff", {}, "abort", TRUE),
                NewStep(1, "send_alert", {}, "rollback", FALSE),
                NewStep(2, "restart_service", {0}, "rollback", FALSE)>>,
    checksResolved |-> FALSE, approvalGates |-> {0}, status |-> "created"]}

AllPlans == ChainPlans \cup ParallelPlans

(* The step appended may have been executed in the plan it comes from. *)
MCAppendable ==
  LET step == NewStep(0, "send_alert", {}, "rollback", FALSE)
  IN  {[step EXCEPT !.status = s] : s \in {"pending", "succeeded"}}
================================================================================
