----------------------------- MODULE PlanGenerator -----------------------------
(***************************************************************************)
(* PlanGenerator (planning/generator.py): a decision becomes a plan, from  *)
(* a template of plan_templates.yaml when the action has one and otherwise *)
(* as the single-step plan.  Rendering of texts is left out.               *)
(***************************************************************************)
EXTENDS PlanSchema

(* The names of actions are strings. *)
ASSUME NamesAssumption ==
  {"human_handoff", "send_alert", "increase_log_verbosity", "scale_consumer_group",
   "restart_connection_pool", "restart_service"} \subseteq STRING

Templates ==
  [scale_consumer_group |->
     [steps |-> <<NewStep(1, "scale_consumer_group", {}, "rollback", FALSE),
                  NewStep(2, "send_alert", {1}, "continue", FALSE)>>,
      checksResolved |-> TRUE, approvalGates |-> {}],
   restart_connection_pool |->
     [steps |-> <<NewStep(1, "increase_log_verbosity", {}, "continue", FALSE),
                  NewStep(2, "restart_connection_pool", {1}, "rollback", FALSE)>>,
      checksResolved |-> TRUE, approvalGates |-> {}],
   restart_service |->
     [steps |-> <<NewStep(0, "human_handoff", {}, "abort", TRUE),
                  NewStep(1, "restart_service", {0}, "rollback", FALSE)>>,
      checksResolved |-> FALSE, approvalGates |-> {0}],
   escalate_to_human |->
     [steps |-> <<NewStep(1, "human_handoff", {}, "continue", FALSE)>>,
      checksResolved |-> FALSE, approvalGates |-> {1}]]

(* The approval a decision asks for is not consulted on this path. *)
FromTemplate(tmpl) ==
  [steps |-> tmpl.steps, checksResolved |-> tmpl.checksResolved,
   approvalGates |-> tmpl.approvalGates, status |-> "created"]

SingleStepPlan(action, requiresApproval) ==
  LET gate   == NewStep(0, "human_handoff", {}, "abort", TRUE)
      act    == NewStep(1, action, IF requiresApproval THEN {0} ELSE {},
                        "rollback", FALSE)
      notify == NewStep(2, "send_alert", {1}, "continue", FALSE)
  IN  [steps |-> (IF requiresApproval THEN <<gate>> ELSE <<>>) \o <<act, notify>>,
       checksResolved |-> FALSE,
       approvalGates  |-> IF requiresApproval THEN {0} ELSE {},
       status |-> "created"]

Generate(action, requiresApproval) ==
  IF action \in DOMAIN Templates
  THEN FromTemplate(Templates[action])
  ELSE SingleStepPlan(action, requiresApproval)
================================================================================
