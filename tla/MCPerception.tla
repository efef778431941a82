------------------------------ MODULE MCPerception ------------------------------
(* An instance of Perception: two sources at a time, of every type there is. *)
EXTENDS Perception

MCSource == {"gateway", "shop", "site", "shoplog", "store1", "store2", "store3", "cache",
             "orders", "jobs", "alerts", "certs"}

MCTypeOf == [gateway |-> "api", shop |-> "api", site |-> "api", shoplog |-> "log",
             store1 |-> "database", store2 |-> "database", store3 |-> "database",
             cache |-> "redis", orders |-> "queue", jobs |-> "queue", alerts |-> "push",
             certs |-> "file"]

MCEntity == {"svc", "db1", "db2", "redis", "queue", "monitor"}

MCPrefix == {<<e, e>> : e \in MCEntity}

(* The log of the shop and some alerts are about the service that exhausted pools
   are laid to. *)
MCAbout == [gateway |-> {"svc"}, shop |-> {"svc"}, site |-> {"svc"}, shoplog |-> {"svc"},
            store1 |-> {"db1"}, store2 |-> {"db2"}, store3 |-> {"db1"},
            cache |-> {"redis"}, orders |-> {"queue"}, jobs |-> {"queue"},
            alerts |-> {"svc"}, certs |-> {"svc"}]

Answer(status, pool, ssl, latency) ==
  [status |-> status, pool |-> pool, ssl |-> ssl, latency |-> latency]

Depth(consumers, lag, depth, moving) ==
  [consumers |-> consumers, lag |-> lag, depth |-> depth, moving |-> moving,
   dead |-> FALSE, old |-> FALSE]

Line(form, text, found, level) ==
  [form |-> form, text |-> text, found |-> found, level |-> level]

Alert(name, resolved, old) ==
  [to |-> "prometheus-alerts", name |-> name, label |-> "page", resolved |-> resolved,
   old |-> old]

MCReading ==
  [gateway |-> {Answer("none", FALSE, "unknown", "ok"), Answer("5xx", TRUE, "fine", "slow"),
                Answer("5xx", FALSE, "fine", "slow"), Answer("expected", FALSE, "fine", "ok")},
   shop |-> {Answer("none", FALSE, "unknown", "ok"), Answer("5xx", TRUE, "fine", "slow"),
             Answer("expected", FALSE, "fine", "ok")},
   site |-> {Answer("none", FALSE, "unknown", "ok"), Answer("expected", FALSE, "fine", "ok")},
   shoplog |-> {Line("object", TRUE, {"pool exhausted", "500"}, "error"),
                Line("object", FALSE, {}, "info"), Line("other", FALSE, {}, "info"),
                Line("broken", FALSE, {}, "info")},
   store1 |-> {{}, {"slow query", "pool full"}},
   store2 |-> {{}, {"locks"}},
   store3 |-> {{}, {"pool full"}},
   cache |-> {{}, {"memory critical", "misses"}},
   orders |-> {Depth(TRUE, "some", "some", FALSE), Depth(TRUE, "none", "none", FALSE)},
   jobs |-> {Depth(FALSE, "some", "some", FALSE), Depth(TRUE, "some", "some", TRUE),
             Depth(TRUE, "none", "none", TRUE), Depth(TRUE, "none", "high", TRUE)},
   alerts |-> {Alert("ShopCoreServiceDown", FALSE, FALSE),
               Alert("ShopCoreProductPoolExhausted", FALSE, TRUE),
               Alert("ShopCoreServiceDown", TRUE, FALSE)},
   certs |-> {[event |-> "created", type |-> "certificate", secret |-> FALSE, days |-> "week"],
              [event |-> "created", type |-> "archive", secret |-> FALSE,
               days |-> "unknown"]}]

MCDeployments ==
  {[sources |-> {"site"}, watched |-> TRUE],
   [sources |-> {"gateway"}, watched |-> FALSE],
   [sources |-> {"shop", "shoplog"}, watched |-> FALSE],
   [sources |-> {"site", "store1"}, watched |-> FALSE],
   [sources |-> {"store2", "store3"}, watched |-> FALSE],
   [sources |-> {"cache", "certs"}, watched |-> FALSE],
   [sources |-> {"orders", "jobs"}, watched |-> FALSE],
   [sources |-> {"store1", "alerts"}, watched |-> FALSE]}
================================================================================
