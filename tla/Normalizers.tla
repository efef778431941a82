------------------------------- MODULE Normalizers -------------------------------
(***************************************************************************)
(* What the normalizers (cognitive_perception/normalizers) and the checks  *)
(* of the database and Redis adapters make of a reading: an event type and *)
(* a severity.  A reading keeps of the raw input what they look at, with   *)
(* numbers as the side of the threshold they are on.                       *)
(***************************************************************************)
EXTENDS Naturals, Sequences

Severities == {"critical", "high", "medium", "low", "info"}

(* The types that end in _resolved or _restored.  alert_resolved stands for
   what MetricNormalizer makes of any type by its suffix. *)
Resolving == {"service_health_restored", "consumer_lag_resolved", "alert_resolved"}

Event(kind, severity) == [kind |-> kind, severity |-> severity]

(* The first of the rows <<condition, type, severity>> whose condition holds. *)
FirstOf(rows) ==
  LET i == CHOOSE i \in DOMAIN rows : rows[i][1] /\ \A j \in 1 .. i - 1 : ~rows[j][1]
  IN  Event(rows[i][2], rows[i][3])

(* What a check sends: an event, if it finds something. *)
IfSo(found, kind, severity) == IF found THEN <<Event(kind, severity)>> ELSE <<>>

Lookup(table, name, default) == IF name \in DOMAIN table THEN table[name] ELSE default

-------------------------------------------------------------------------------
(* APIs *)

(* pool: the answer is a 503 that names a pool.  ssl: the days that are left. *)
ApiReading == [status : {"none", "expected", "unexpected", "4xx", "5xx"}, pool : BOOLEAN,
               ssl : {"unknown", "fine", "month", "week", "expired"},
               latency : {"ok", "slow", "very_slow"}]

(* Mutant: the type of a recovery does not say so. *)
ApiEventOfHealth(r) ==
  FirstOf(<<
    <<r.status = "none",             "service_unreachable",       "critical">>,
    <<r.status \in {"4xx", "5xx"},   "service_health_degraded",   "high">>,
    <<r.latency # "ok",              "api_latency_spike",         "medium">>,
    <<TRUE,                          "service_health_ok",         "info">> >>)

ApiEvent(r) ==
  FirstOf(<<
    <<r.status = "none",             "service_unreachable",       "critical">>,
    <<r.status = "5xx" /\ r.pool,    "connection_pool_exhausted", "critical">>,
    <<r.status = "5xx",              "service_health_degraded",   "high">>,
    <<r.status = "4xx",              "api_4xx_rate_high",         "medium">>,
    <<r.ssl = "expired",             "service_ssl_expired",       "critical">>,
    <<r.ssl = "week",                "service_ssl_expiring",      "high">>,
    <<r.ssl = "month",               "service_ssl_expiring",      "medium">>,
    <<r.latency = "very_slow",       "api_latency_spike",         "high">>,
    <<r.latency = "slow",            "api_latency_spike",         "medium">>,
    <<r.status = "expected",         "service_health_restored",   "info">>,
    <<TRUE,                          "service_health_degraded",   "medium">> >>)

-------------------------------------------------------------------------------
(* Queues *)

QueueReading == [consumers : BOOLEAN, lag : {"none", "some", "high", "critical"},
                 depth : {"none", "some", "high"}, moving : BOOLEAN,
                 dead : BOOLEAN, old : BOOLEAN]

(* What the two collectors can return.  Neither counts dead letters or the age
   of messages, and that of Kafka takes the lag for the depth, and neither
   counts consumers nor throughput. *)
Collected ==
  [kafka |-> {r \in QueueReading : r.consumers /\ ~r.moving /\ ~r.dead /\ ~r.old
                                     /\ (r.depth = "none" <=> r.lag = "none")},
   rabbitmq |-> {r \in QueueReading : ~r.dead /\ ~r.old}]

QueueEvent(r) ==
  FirstOf(<<
    <<~r.consumers /\ r.depth # "none", "consumer_group_stopped",    "critical">>,
    <<r.lag = "critical",               "consumer_lag_critical",     "critical">>,
    <<r.dead,                           "dead_letter_queue_growing", "high">>,
    <<r.lag = "high",                   "consumer_lag_high",         "high">>,
    <<r.old,                            "message_age_exceeded",      "medium">>,
    <<r.depth = "high",                 "queue_depth_high",          "medium">>,
    <<~r.moving /\ r.depth # "none",    "consumer_group_stopped",    "high">>,
    <<TRUE,                             "consumer_lag_resolved",     "info">> >>)

-------------------------------------------------------------------------------
(* Databases and Redis: a reading is the set of what the checks have found. *)

DatabaseFinding == {"slow query", "very slow query", "leak", "pool full", "pool high",
                    "replica far behind", "replica behind", "locks"}

DatabaseEvents(found) ==
  IfSo("very slow query" \in found,         "slow_query_detected",       "high")
    \o IfSo("slow query" \in found,         "slow_query_detected",       "medium")
    \o IfSo("leak" \in found,               "connection_leak_detected",  "high")
    \o IfSo("pool full" \in found,          "connection_pool_exhausted", "critical")
    \o IfSo("pool high" \in found,          "connection_pool_high",      "medium")
    \o IfSo("replica far behind" \in found, "replication_lag_high",      "high")
    \o IfSo("replica behind" \in found,     "replication_lag_high",      "medium")
    \o IfSo("locks" \in found,              "lock_wait_timeout",         "high")

RedisFinding == {"memory critical", "memory high", "evictions", "misses"}

RedisEvents(found) ==
  IfSo("memory critical" \in found,   "redis_memory_critical",   "critical")
    \o IfSo("memory high" \in found,  "cache_eviction_spike",    "high")
    \o IfSo("evictions" \in found,    "cache_eviction_spike",    "high")
    \o IfSo("misses" \in found,       "cache_hit_ratio_dropped", "medium")

-------------------------------------------------------------------------------
(* Logs *)

(* LOG_PATTERNS: the first that is found in the message wins. *)
LogPatterns == <<
  <<"pool exhausted",      "connection_pool_exhausted",   "critical">>,
  <<"connection failed",   "database_connection_timeout", "high">>,
  <<"query timeout",       "database_query_timeout",      "medium">>,
  <<"jwt",                 "jwt_validation_failure",      "medium">>,
  <<"500",                 "http_500_error",              "high">>,
  <<"permission denied",   "permission_denied",           "medium">>,
  <<"out of memory",       "memory_leak_warning",         "high">>,
  <<"crash",               "service_crashed",             "critical">>,
  <<"rate limit",          "rate_limit_hit",              "low">>,
  <<"deployment start",    "deployment_started",          "info">>,
  <<"deployment complete", "deployment_completed",        "info">>,
  <<"deployment fail",     "deployment_failed",           "high">>,
  <<"dependency failed",   "dependency_call_failed",      "high">>,
  <<"disk full",           "disk_write_failed",           "high">>,
  <<"traceback",           "unhandled_exception",         "high">> >>

LevelSeverity == [fatal |-> "critical", critical |-> "critical", error |-> "high",
                  err |-> "high", warn |-> "medium", warning |-> "medium"]

(* form: a JSON object, other JSON, or none.  text: it has a message field. *)
LogReading == [form : {"object", "other", "broken"}, text : BOOLEAN,
               found : SUBSET {LogPatterns[i][1] : i \in DOMAIN LogPatterns},
               level : DOMAIN LevelSeverity \cup {"info"}]

(* A message without a text becomes a PerceptionFailure. *)
LogEvents(r) ==
  IF ~r.text THEN <<>>
  ELSE LET rows == [i \in DOMAIN LogPatterns |->
                      <<LogPatterns[i][1] \in r.found, LogPatterns[i][2], LogPatterns[i][3]>>]
           rest == <<TRUE, "unhandled_exception", Lookup(LevelSeverity, r.level, "info")>>
       IN  <<FirstOf(Append(rows, rest))>>

-------------------------------------------------------------------------------
(* Files *)

FileReading == [event : {"created", "modified", "deleted", "moved"},
                type : {"certificate", "config", "archive", "directory", "other"},
                secret : BOOLEAN, days : {"unknown", "fine", "month", "week", "expired"}]

FileEvent(r) ==
  LET certificate == r.type = "certificate"
      config == r.type = "config"
  IN  FirstOf(<<
    <<certificate /\ r.days = "expired",    "certificate_expired",         "critical">>,
    <<certificate /\ r.days = "week",       "certificate_expiry_warning",  "critical">>,
    <<certificate /\ r.days = "month",      "certificate_expiry_warning",  "high">>,
    <<r.secret,                             "secret_file_modified",        "high">>,
    <<certificate /\ r.event \in {"modified", "created"},
                                            "certificate_file_changed",    "medium">>,
    <<config /\ r.event = "modified",       "config_file_modified",        "medium">>,
    <<config /\ r.event = "deleted",        "config_file_deleted",         "high">>,
    <<r.type = "archive" /\ r.event = "created",
                                            "deployment_artifact_created", "info">>,
    <<r.type # "directory" /\ r.event = "deleted",
                                            "static_asset_missing",        "medium">>,
    <<TRUE,                                 "config_file_modified",        "low">> >>)

-------------------------------------------------------------------------------
(* What is pushed: alerts, events of users and browsers, security events, and
   events of agents and of deployments, which are not normalized *)

(* ALERT_MAP *)
AlertMap == [
  HighCPUUsage |-> Event("cpu_spike", "high"),
  SustainedHighCPU |-> Event("cpu_sustained_high", "high"),
  CPUReturned |-> Event("cpu_returned_normal", "info"),
  HighMemoryPressure |-> Event("memory_pressure_high", "high"),
  MemoryExhaustion |-> Event("memory_exhaustion", "critical"),
  HighSwapUsage |-> Event("swap_usage_high", "medium"),
  HighDiskUsage |-> Event("disk_usage_high", "medium"),
  DiskIOSaturation |-> Event("disk_io_saturation", "medium"),
  DiskFull |-> Event("disk_full", "critical"),
  NetworkThroughputSpike |-> Event("network_throughput_spike", "medium"),
  PacketLossDetected |-> Event("packet_loss_detected", "high"),
  HighThreadCount |-> Event("thread_count_spike", "medium"),
  FDLimitApproaching |-> Event("fd_limit_approaching", "high"),
  ExcessiveGCPause |-> Event("gc_pause_excessive", "high"),
  HighGCFrequency |-> Event("gc_frequency_high", "medium"),
  ContainerOOMKilled |-> Event("container_oom_killed", "critical"),
  ContainerRestart |-> Event("container_restart", "high"),
  ContainerCPUThrottled |-> Event("container_cpu_throttled", "medium"),
  PodPendingTooLong |-> Event("pod_pending_too_long", "high"),
  NodeNotReady |-> Event("node_not_ready", "critical"),
  KafkaConsumerLagHigh |-> Event("consumer_lag_critical", "critical"),
  ShopCoreGatewayLatencyHigh |-> Event("api_latency_spike", "high"),
  ShopCoreGatewayErrorRate |-> Event("service_health_degraded", "high"),
  ShopCoreServiceDown |-> Event("service_unreachable", "critical"),
  ShopCoreProductPoolExhausted |-> Event("connection_pool_exhausted", "critical")]

PromSeverity == [critical |-> "critical", high |-> "high", warning |-> "medium",
                 info |-> "info", page |-> "critical"]

(* An alert that is not in the map has its own name as its type. *)
AlertEvent(r) ==
  IF r.resolved THEN Event("alert_resolved", "info")
  ELSE Lookup(AlertMap, r.name, Event(r.name, Lookup(PromSeverity, r.label, "medium")))

(* A vital is good, needs improvement or is poor by CWV_THRESHOLDS. *)
BrowserEvent(r) ==
  FirstOf(<<
    <<r.type = "vital" /\ r.detail = "poor",         "vital_poor",                "high">>,
    <<r.type = "vital" /\ r.detail = "mediocre",     "vital_needs_improvement",   "medium">>,
    <<r.type = "vital",                              "page_load_slow",            "info">>,
    <<r.type = "js_error" /\ r.detail = "chunk",     "js_chunk_load_failed",      "high">>,
    <<r.type = "js_error" /\ r.detail = "hydration", "hydration_failure",         "high">>,
    <<r.type = "js_error" /\ r.detail = "type",      "js_exception",              "high">>,
    <<r.type = "js_error",                           "js_exception",              "medium">>,
    <<r.type = "rejection",                          "promise_rejection",         "medium">>,
    <<r.type = "hydration_fail",                     "hydration_failure",         "high">>,
    <<r.type = "asset_fail",                         "asset_load_failed",         "medium">>,
    <<r.type = "network_error",                      "api_request_failed_client", "medium">>,
    <<r.type = "render_error",                       "render_error",              "critical">>,
    <<TRUE,                                          "js_exception",              "low">> >>)

(* RULE_MAP *)
RuleMap == [
  WAF_BLOCK |-> Event("waf_rule_triggered", "medium"),
  WAF_CHALLENGE |-> Event("waf_rule_triggered", "low"),
  SQL_INJECTION |-> Event("sql_injection_attempt", "critical"),
  XSS |-> Event("xss_attempt", "high"),
  PATH_TRAVERSAL |-> Event("path_traversal_attempt", "high"),
  COMMAND_INJECTION |-> Event("waf_rule_triggered", "critical"),
  RATE_LIMIT |-> Event("rate_limit_abuse", "medium"),
  BRUTE_FORCE |-> Event("brute_force_detected", "high"),
  CREDENTIAL_STUFFING |-> Event("credential_stuffing_detected", "critical"),
  MFA_BYPASS |-> Event("mfa_bypass_attempt", "critical"),
  ACCOUNT_LOCKOUT |-> Event("account_lockout_triggered", "medium"),
  DDOS |-> Event("ddos_detected", "critical"),
  BOT_DETECTED |-> Event("bot_traffic_detected", "low"),
  SCRAPING |-> Event("scraping_detected", "medium"),
  GEO_ANOMALY |-> Event("geo_anomaly_detected", "medium"),
  PRIVILEGE_ESCALATION |-> Event("privilege_escalation_attempt", "critical"),
  SUSPICIOUS_ADMIN |-> Event("suspicious_admin_action", "high"),
  UNUSUAL_DATA_ACCESS |-> Event("data_exfiltration_pattern", "high")]

(* Many requests make a mild event a high one. *)
SecurityEvent(r) ==
  LET ev == Lookup(RuleMap, r.rule, Event("unusual_traffic_pattern", "medium"))
  IN  IF r.many /\ ev.severity \in {"medium", "low"} THEN [ev EXCEPT !.severity = "high"] ELSE ev

(* EVENT_MAP, without the rows that lead to an info event *)
UserMap == [
  rage_click |-> Event("rage_click_detected", "medium"),
  dead_click |-> Event("dead_click_detected", "low"),
  form_error |-> Event("form_validation_failed", "medium"),
  form_server_error |-> Event("form_submission_error", "high"),
  cart_abandon |-> Event("cart_abandoned", "high"),
  checkout_fail |-> Event("checkout_failed", "high"),
  checkout_error |-> Event("checkout_failed", "high"),
  signup_abandon |-> Event("signup_abandoned", "medium"),
  search_no_results |-> Event("search_zero_results", "medium"),
  bounce |-> Event("session_duration_short", "medium")]

UserEvent(r) == Lookup(UserMap, r.type, Event("page_viewed", "info"))

(* What the endpoints accept.  A severity that is none raises. *)
IsPushed(r) ==
  /\ r.to \in {"prometheus-alerts", "browser-events", "security-events", "user-events",
               "agent-events", "deployment-events"}
  /\ r.to = "agent-events" => r.severity \in Severities

(* What each endpoint makes of what it is sent. *)
PushedEvent(r) ==
  CASE r.to = "prometheus-alerts" -> AlertEvent(r)
    [] r.to = "browser-events" -> BrowserEvent(r)
    [] r.to = "security-events" -> SecurityEvent(r)
    [] r.to = "user-events" -> UserEvent(r)
    [] r.to = "agent-events" -> Event(r.kind, r.severity)
    [] r.to = "deployment-events" -> Event("deployment_started", "info")
================================================================================
