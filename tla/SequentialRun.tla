----------------------------- MODULE SequentialRun -----------------------------
(***************************************************************************)
(* What the runner promises about one run of a plan whose steps each wait  *)
(* for the one before: a step is taken only when the one before it has     *)
(* passed and nothing is under way, its action is performed at most once,  *)
(* an outcome is decided at most once, by the step under way, is announced *)
(* at most once, when this step ends, and lets no further step be taken.   *)
(* The run is over only when it is decided or no step can be taken, and a  *)
(* run that breaks off leaves nothing under way.                           *)
(***************************************************************************)
EXTENDS Naturals, Sequences

VARIABLES stage,      \* where the run is
          steps,      \* what is known of each step of its plan
          performed,  \* the steps whose action it has performed
          outcome,    \* what is decided of the plan
          announced   \* the outcomes that have been published

vars == <<stage, steps, performed, outcome, announced>>

Outcome == {"succeeded", "rolled_back", "aborted"}

(* open: neither to do nor passed nor skipped *)
Rest == {"todo", "passed", "skipped", "open"}

Init ==
  /\ stage = "waiting"
  /\ steps = <<>>
  /\ performed = {}
  /\ outcome = "none"
  /\ announced = {}

UnderWay == {i \in DOMAIN steps : steps[i] = "doing"}

Due == {i \in DOMAIN steps : steps[i] = "todo" /\ (i = 1 \/ steps[i-1] = "passed")}

Ends(i, s) == steps' = [steps EXCEPT ![i] = s]

(* Some first steps of the plan may be over already. *)
Begin ==
  /\ stage = "waiting" /\ stage' = "running"
  /\ steps' \in Seq(Rest)
  /\ \A j \in DOMAIN steps' : \A i \in 1..j : steps'[i] = "todo" => steps'[j] = "todo"
  /\ UNCHANGED <<performed, outcome, announced>>

(* The plan is no such chain, and nothing is promised of its run. *)
BeginOther ==
  /\ stage = "waiting" /\ stage' = "other"
  /\ UNCHANGED <<steps, performed, outcome, announced>>

Undecided == stage = "running" /\ outcome = "none" /\ UNCHANGED <<stage, announced>>

Take ==
  /\ Undecided
  /\ UnderWay = {}
  /\ \E i \in Due : Ends(i, "doing")
  /\ UNCHANGED <<performed, outcome>>

Perform ==
  /\ Undecided
  /\ \E i \in UnderWay \ performed : performed' = performed \cup {i}
  /\ UNCHANGED <<steps, outcome>>

(* The step under way is found to decide the plan. *)
Judge ==
  /\ Undecided
  /\ UnderWay # {}
  /\ outcome' \in Outcome
  /\ UNCHANGED <<steps, performed>>

Conclude ==
  /\ Undecided
  /\ \E i \in UnderWay, s \in {"passed", "open"} : Ends(i, s)
  /\ UNCHANGED <<performed, outcome>>

(* Nothing is left to do. *)
Complete ==
  /\ Undecided
  /\ \A i \in DOMAIN steps : steps[i] \in {"passed", "skipped"}
  /\ outcome' = "succeeded"
  /\ UNCHANGED <<steps, performed>>

Announce ==
  /\ stage = "running" /\ outcome # "none" /\ announced = {}
  /\ announced' = {outcome}
  /\ \E i \in UnderWay : Ends(i, IF outcome = "succeeded" THEN "passed" ELSE "open")
  /\ UNCHANGED <<stage, performed, outcome>>

Stop ==
  /\ stage = "running" /\ stage' = "done"
  /\ UnderWay = {}
  /\ outcome # "none" \/ Due = {}
  /\ UNCHANGED <<steps, performed, outcome, announced>>

(* An exception or a crash. *)
Break ==
  /\ stage = "running" /\ stage' = "dead"
  /\ \/ UnderWay = {} /\ UNCHANGED steps
     \/ \E i \in UnderWay, s \in {"passed", "open"} : Ends(i, s)
  /\ UNCHANGED <<performed, outcome, announced>>

Next == \/ Begin \/ BeginOther \/ Take \/ Perform \/ Judge \/ Conclude
        \/ Complete \/ Announce \/ Stop \/ Break

Spec == Init /\ [][Next]_vars
================================================================================
