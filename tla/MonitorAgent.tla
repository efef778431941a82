------------------------------- MODULE MonitorAgent -------------------------------
(***************************************************************************)
(* MonitorAgent (agents/monitor_agent.py): it polls the situation that the *)
(* World Model assesses (world_model/situation_assessor.py), and signals   *)
(* what it finds there to the planners, with an event that the World Model *)
(* takes as any other.                                                     *)
(*                                                                         *)
(* Of the World Model the open anomalies are kept, as AnomalyRegistry has  *)
(* them when its loops are quiet.  Time passes in units of the threshold   *)
(* after which an anomaly is stale.                                        *)
(***************************************************************************)
EXTENDS Normalizers, FiniteSets

CONSTANTS Entity,     \* entity ids
          Prefix,     \* <<e, f>>: the id of f starts with the id of e
          Monitor,    \* the agent id of the monitor, an entity too
          TopN,       \* how many anomalies a situation lists
          MaxFaults   \* bound on what fails

ASSUME MonitorAssumption ==
  /\ Monitor \in Entity
  /\ Prefix \subseteq Entity \X Entity /\ \A e \in Entity : <<e, e>> \in Prefix
  /\ TopN \in Nat /\ MaxFaults \in Nat

VARIABLES
  open,       \* the open anomalies: severity, whether seen in this unit, and the
              \* reporters of each <<entity, type>>
  listed,     \* ranked_anomalies of the poll under way: those left
  sending,    \* the anomaly whose signal is being sent, if any
  lastSig,    \* _last_sig: the last anomaly signalled for each entity, if any
  signalled,  \* open anomalies of which a signal was sent (history)
  missed,     \* open anomalies of which a signal was not sent, since an attempt
              \* failed (history)
  reviewed,   \* open anomalies that a poll was through with (history)
  faults      \* what has failed so far

monitorVars == <<listed, sending, lastSig, signalled, missed, reviewed>>

Score == [critical |-> 5, high |-> 4, medium |-> 3, low |-> 2, info |-> 1]

MinSeverity == "medium"

(* An anomaly_id: the key it was opened under, and whether it is open still.  A
   later anomaly of the same key has an id of its own. *)
AnomalyId(k) == [key |-> k, current |-> TRUE]

MonitorTypeOK ==
  /\ \A k \in DOMAIN open :
       /\ k[1] \in Entity /\ k[2] \notin Resolving
       /\ open[k].severity \in Severities \ {"info"} /\ open[k].seen \in BOOLEAN
  /\ \A x \in listed \cup sending : x.severity \in Severities /\ x.id.key[1] \in Entity
  /\ Cardinality(sending) <= 1 /\ Cardinality(listed) <= TopN
  /\ \A x \in listed \cup sending : x.id.current => x.id.key \in DOMAIN open
  /\ \A e \in DOMAIN lastSig :
       /\ lastSig[e].key[1] = e
       /\ lastSig[e].current => lastSig[e].key \in DOMAIN open
  /\ signalled \cup missed \cup reviewed \subseteq DOMAIN open
  /\ faults \in 0..MaxFaults

MonitorInit ==
  /\ open = << >>
  /\ listed = {} /\ sending = {} /\ lastSig = << >>
  /\ signalled = {} /\ missed = {} /\ reviewed = {}
  /\ faults = 0

Fault == faults < MaxFaults /\ faults' = faults + 1

-------------------------------------------------------------------------------
(* The World Model *)

Worse(s, t) == IF Score[s] > Score[t] THEN s ELSE t

(* A resolution closes what its entities, or ids that begin with theirs, have open. *)
ClosedBy(refs, ev) ==
  IF ev.kind \in Resolving THEN {k \in DOMAIN open : \E e \in refs : <<e, k[1]>> \in Prefix}
  ELSE {}

(* Mutant: informational events open anomalies. *)
OpenedByAny(refs, ev) ==
  IF ev.kind \in Resolving THEN {} ELSE {<<e, ev.kind>> : e \in refs}

OpenedBy(refs, ev) ==
  IF ev.kind \in Resolving \/ ev.severity = "info" THEN {}
  ELSE {<<e, ev.kind>> : e \in refs}

(* An event that happened in the unit before is stale from the beginning. *)
OpenAfter(refs, ev, by, old) ==
  [k \in (DOMAIN open \ ClosedBy(refs, ev)) \cup OpenedBy(refs, ev) |->
     IF k \notin OpenedBy(refs, ev) THEN open[k]
     ELSE IF k \in DOMAIN open
     THEN [severity |-> Worse(ev.severity, open[k].severity), seen |-> ~old,
           by |-> open[k].by \cup {by}]
     ELSE [severity |-> ev.severity, seen |-> ~old, by |-> {by}]]

Past(id, closed) == IF id.key \in closed THEN [id EXCEPT !.current = FALSE] ELSE id

PastOf(items, closed) == {[x EXCEPT !.id = Past(x.id, closed)] : x \in items}

(* What is closed is not current any more, wherever its id is kept. *)
Forget(closed) ==
  /\ listed' = PastOf(listed, closed)
  /\ sending' = PastOf(sending, closed)
  /\ lastSig' = [e \in DOMAIN lastSig |-> Past(lastSig[e], closed)]
  /\ signalled' = signalled \ closed
  /\ missed' = missed \ closed
  /\ reviewed' = reviewed \ closed

(* An event is taken. *)
Take(refs, ev, by, old) ==
  /\ open' = OpenAfter(refs, ev, by, old)
  /\ Forget(ClosedBy(refs, ev))

Stale == {k \in DOMAIN open : ~open[k].seen}

(* An anomaly that was not seen for a unit is closed by the expiry loop. *)
ExpireAnomaly(k) ==
  /\ k \in Stale
  /\ open' = [l \in DOMAIN open \ {k} |-> open[l]]
  /\ Forget({k})

-------------------------------------------------------------------------------
(* The monitor *)

(* The assessment lists the first of the open anomalies, in an order that
   depends on severity, confidence, blast radius and age. *)
Assessments ==
  {top \in SUBSET DOMAIN open :
     Cardinality(top) = IF Cardinality(DOMAIN open) < TopN THEN Cardinality(DOMAIN open)
                        ELSE TopN}

MonitorPolls ==
  /\ listed = {} /\ sending = {}
  /\ \E top \in Assessments :
       /\ top # {}
       /\ listed' = {[id |-> AnomalyId(k), severity |-> open[k].severity] : k \in top}
  /\ lastSig' = [e \in {e \in DOMAIN lastSig : lastSig[e].current} |-> lastSig[e]]
  /\ UNCHANGED <<open, sending, signalled, missed, reviewed, faults>>

IsSignalled(x) ==
  LET e == x.id.key[1] IN e \in DOMAIN lastSig /\ lastSig[e] = x.id

Passed(x) ==
  IF x.id.current THEN reviewed \cup {x.id.key} ELSE reviewed

(* Too mild, or the last that was signalled of its entity. *)
SkipNext(x) ==
  /\ x \in listed /\ sending = {}
  /\ Score[x.severity] < Score[MinSeverity] \/ IsSignalled(x)
  /\ listed' = listed \ {x}
  /\ reviewed' = IF IsSignalled(x) THEN Passed(x) ELSE reviewed
  /\ UNCHANGED <<open, sending, lastSig, signalled, missed, faults>>

(* Mutant: what was listed is marked at once. *)
MarkAll(x) ==
  [e \in DOMAIN lastSig \cup {y.id.key[1] : y \in listed} |->
     IF \E y \in listed : y.id.key[1] = e
     THEN (CHOOSE y \in listed : y.id.key[1] = e /\ (x.id.key[1] = e => y = x)).id
     ELSE lastSig[e]]

Mark(x) ==
  [e \in DOMAIN lastSig \cup {x.id.key[1]} |->
     IF e = x.id.key[1] THEN x.id ELSE lastSig[e]]

(* It is marked, and then its signal is sent. *)
SignalNext(x) ==
  /\ x \in listed /\ sending = {}
  /\ Score[x.severity] >= Score[MinSeverity] /\ ~IsSignalled(x)
  /\ lastSig' = Mark(x)
  /\ listed' = listed \ {x}
  /\ sending' = {x}
  /\ UNCHANGED <<open, signalled, missed, reviewed, faults>>

(* The signal is an event about the entity and about the monitor. *)
SignalSent(x) ==
  /\ x \in sending
  /\ open' = OpenAfter({x.id.key[1], Monitor}, Event("task_delegated", x.severity), Monitor,
                       FALSE)
  /\ sending' = {}
  /\ signalled' = IF x.id.current THEN signalled \cup {x.id.key} ELSE signalled
  /\ reviewed' = Passed(x)
  /\ UNCHANGED <<listed, lastSig, missed, faults>>

(* The exception ends the poll. *)
SignalFails(x) ==
  /\ x \in sending /\ Fault
  /\ sending' = {} /\ listed' = {}
  /\ missed' = IF x.id.current THEN missed \cup {x.id.key} ELSE missed
  /\ reviewed' = Passed(x)
  /\ UNCHANGED <<open, lastSig, signalled>>

MonitorStep ==
  \/ MonitorPolls
  \/ \E x \in listed : SkipNext(x) \/ SignalNext(x)
  \/ \E x \in sending : SignalSent(x) \/ SignalFails(x)

-------------------------------------------------------------------------------
(* Properties *)

(* An open anomaly that a poll was through with, because it was signalled or
   taken for signalled, was signalled while it was open, unless a send of just
   this signal had failed: the one mark per entity is never another anomaly's,
   although each new signal of the entity replaces it, and although a signal
   opens anomalies itself (monitor_agent.py:47-66). *)
EachSignalled == reviewed \subseteq signalled \cup missed
================================================================================
