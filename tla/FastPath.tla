--------------------------------- MODULE FastPath ---------------------------------
(***************************************************************************)
(* RuleEngine (reasoning/fast_path.py): the decisions that are made        *)
(* without the LLM.  An anomaly is a record with its type, its severity    *)
(* and whether it is isolated (blast_radius_count = 0); a situation is the *)
(* sequence of the anomalies, ranked.  Confidences and rates are per cent. *)
(***************************************************************************)
EXTENDS Naturals, Sequences

Severities == {"critical", "high", "medium", "low", "info"}

(* The condition of a rule is about the top anomaly, or about any of them. *)
TopIs(situation, types, severities) ==
  /\ situation # <<>>
  /\ Head(situation).type \in types
  /\ Head(situation).severity \in severities

SomeIs(situation, types) == \E i \in DOMAIN situation : situation[i].type \in types

Rule(priority, action, confidence) ==
  [priority |-> priority, action |-> action, confidence |-> confidence]

(* The rules whose condition the situation meets. *)
Matching(sit) ==
  LET When(condition, rule) == IF condition THEN {rule} ELSE {}
  IN  When(sit = <<>>, Rule(100, "monitor_and_wait", 99))
      \cup When(SomeIs(sit, {"consumer_lag_critical", "consumer_lag_high"}),
                Rule(90, "scale_consumer_group", 95))
      \cup When(TopIs(sit, {"service_unreachable"}, {"critical"}),
                Rule(89, "restart_service", 88))
      \cup When(TopIs(sit, {"api_latency_spike"}, {"high", "critical"}),
                Rule(85, "restart_service", 82))
      \cup When(TopIs(sit, {"slow_query_detected"}, {"high", "critical", "medium"}),
                Rule(84, "kill_slow_query", 86))
      \cup When(TopIs(sit, {"redis_memory_critical", "cache_eviction_spike"},
                      {"critical", "high"}),
                Rule(87, "restart_service", 80))
      \cup When(TopIs(sit, {"service_health_degraded"}, {"high"}),
                Rule(83, "restart_service", 78))
      \cup When(TopIs(sit, {"connection_pool_exhausted", "max_connections_reached"},
                      {"critical"}),
                Rule(88, "restart_connection_pool", 92))
      \cup When(TopIs(sit, {"disk_full", "disk_space_for_db_low"}, Severities),
                Rule(95, "escalate_to_human", 99))
      \cup When(TopIs(sit, {"cpu_spike", "cpu_sustained_high"}, Severities)
                  /\ Head(sit).isolated,
                Rule(50, "increase_log_verbosity", 80))

MinSuccessRate == 40

ApprovalBelow == 65

(* What is known of the action, or nothing. *)
RecordOf(rule, rates) == IF rule.action \in DOMAIN rates THEN rates[rule.action] ELSE 100

Effective(rule, rates) ==
  IF RecordOf(rule, rates) < rule.confidence THEN RecordOf(rule, rates) ELSE rule.confidence

(* Mutant: the gate looks at the confidence of the rule. *)
TrustedByConfidence(sit, rates) ==
  {r \in Matching(sit) : r.confidence >= MinSuccessRate}

(* The matching rules whose action has not too bad a record. *)
Trusted(sit, rates) == {r \in Matching(sit) : RecordOf(r, rates) >= MinSuccessRate}

(* evaluate: no decision, or that of the trusted rule of the highest priority. *)
Evaluate(sit, rates) ==
  {[action |-> r.action,
    approval |-> Effective(r, rates) < ApprovalBelow \/ r.action = "escalate_to_human"] :
     r \in {r \in Trusted(sit, rates) :
              \A s \in Trusted(sit, rates) : s.priority <= r.priority}}
================================================================================
