------------------------------ MODULE DecisionLedger ------------------------------
(***************************************************************************)
(* What the learning loop promises about each decision of the reasoning    *)
(* engine: it is remembered at most once, it is judged only when it has    *)
(* been linked to its plan, by a verdict that feedback on this plan has    *)
(* come to, and it keeps the outcome it has got.                           *)
(***************************************************************************)
CONSTANTS Decision,  \* decisions
          Outcome    \* what a decision may be judged to be

VARIABLES ledger,    \* what is remembered of each decision
          verdicts   \* the verdicts feedback has come to about its plan

Entry == {"none", "made", "linked"} \cup Outcome

Init ==
  /\ ledger = [d \in Decision |-> "none"]
  /\ verdicts = [d \in Decision |-> {}]

Remember(d) ==
  /\ ledger[d] = "none"
  /\ ledger' = [ledger EXCEPT ![d] = "made"]
  /\ UNCHANGED verdicts

Link(d) ==
  /\ ledger[d] = "made"
  /\ ledger' = [ledger EXCEPT ![d] = "linked"]
  /\ UNCHANGED verdicts

Verdict(d) ==
  /\ \E o \in Outcome : verdicts' = [verdicts EXCEPT ![d] = @ \cup {o}]
  /\ UNCHANGED ledger

Judge(d) ==
  /\ ledger[d] = "linked"
  /\ \E o \in verdicts[d] : ledger' = [ledger EXCEPT ![d] = o]
  /\ UNCHANGED verdicts

Next == \E d \in Decision : Remember(d) \/ Link(d) \/ Verdict(d) \/ Judge(d)

Spec == Init /\ [][Next]_<<ledger, verdicts>>
================================================================================
