------------------------------ MODULE MCLearningLoop ------------------------------
(* One planner, of the domain queue, beside run_loop, and an anomaly of its domain
   and one of no domain.
   The plan for a consumer lag has a second step, which is of another action. *)
EXTENDS LearningLoop

CONSTANTS queuePlanner, dec1, dec2, scalePlaybook

MCDecision == {dec1, dec2}
MCPlanner == {queuePlanner}
MCDomainOf == [p \in MCPlanner |-> "queue"]

Lag == [type |-> "consumer_lag_critical", severity |-> "critical", isolated |-> FALSE]
Restarts == [type |-> "pod_restart_loop", severity |-> "medium", isolated |-> FALSE]

MCAnomaly == {Lag, Restarts}
MCAtFirst == {Lag}
MCKeyword == {<<"queue", Lag>>} \cup ({"general"} \X MCAnomaly)
MCAction == {"scale_consumer_group", "send_alert"}
MCStepsOf ==
  [a \in MCAction |-> CASE a = "scale_consumer_group" -> <<a, "send_alert">>
                        [] OTHER -> <<a>>]
MCPlaybook == {scalePlaybook}
MCRecommended == [p \in MCPlaybook |-> "scale_consumer_group"]
MCAdvice == {"scale_consumer_group"}
MCGated == {"scale_consumer_group"}
================================================================================
