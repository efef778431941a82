-------------------------- MODULE TaskDelegationProofs --------------------------
(***************************************************************************)
(* Proofs about TaskDelegation, for every number of tasks, jobs, requests  *)
(* and faults, every set of executors and targets: its type correctness,   *)
(* that PostgreSQL and the graph agree about a task, that the loser of a   *)
(* conflict is pending in neither once its cancellation is answered, and   *)
(* that a task once settled never becomes pending again.                   *)
(***************************************************************************)
EXTENDS TaskDelegation, SequenceTheorems, TLAPS

-------------------------------------------------------------------------------
(* The inductive invariant *)

(* Whoever works at a task works at one that exists, and a loser has a node. *)
KnownInv ==
  /\ \A q \in requests : q.status # "none"
  /\ \A t \in Task : jobs[t] > 0 => t <= created
  /\ \A c \in resolves : \A t \in c.losers : t <= created /\ graph[t] # "none"

(* A task is made pending once: by the request that creates it, which is over
   when its node is there. *)
PendingOnceInv ==
  /\ \A q, r \in requests :
       q.status = "pending" /\ r.status = "pending" /\ q.task = r.task => q = r
  /\ \A q \in requests : q.status = "pending" => graph[q.task] = "none"

(* A task that is not in doubt has one write under way at most; between its two
   stores PostgreSQL is ahead.  Without a node the write is that which makes
   it. *)
AgreeInv ==
  \A t \in Task \ unsure :
    /\ \A q, r \in requests : q.task = t /\ r.task = t => q = r
    /\ \A q \in requests : q.task = t =>
         postgres[t] = IF q.next = "graph" THEN q.status ELSE graph[t]
    /\ (\A q \in requests : q.task # t) => postgres[t] = graph[t]
    /\ t <= created /\ graph[t] = "none" =>
         \E q \in requests : q.task = t /\ q.status = "pending"

Cancelling(t, store) ==
  \E q \in requests : q.task = t /\ q.status = "cancelled" /\ q.next = store

(* The cancellation of a loser goes through both stores, and none of them makes
   it pending again behind it. *)
LosersInv ==
  faults = 0 =>
    \A c \in resolves : \A t \in c.losers \ c.left :
      \/ Cancelling(t, "postgres")
      \/ postgres[t] # "pending" /\ (graph[t] # "pending" \/ Cancelling(t, "graph"))

Inv == TypeOK /\ KnownInv /\ PendingOnceInv /\ AgreeInv /\ LosersInv

-------------------------------------------------------------------------------
(* The parts of the types *)

(* The tasks and their stores *)
StoreTypes ==
  /\ postgres \in [Task -> TaskStatus] /\ graph \in [Task -> TaskStatus]
  /\ \A t \in Task : t > created => postgres[t] = "none" /\ graph[t] = "none"
  /\ requests \subseteq Request /\ \A q \in requests : q.task <= created
  /\ unsure \subseteq Task

TaskTypes ==
  /\ created \in 0..MaxTasks
  /\ executor \in [1..created -> Executor] /\ target \in [1..created -> Target]
  /\ lost \subseteq 1..created

(* The agents *)
AgentTypes ==
  /\ jobs \in [Task -> 0..MaxJobs]
  /\ \A c \in resolves : c \in Resolve /\ c.left \subseteq c.losers
  /\ ended \subseteq Executor
  /\ faults \in 0..MaxFaults

LEMMA TypesSplit ==
  /\ TypeOK <=> TaskTypes /\ StoreTypes /\ AgentTypes
  /\ (TaskTypes /\ StoreTypes /\ AgentTypes)' => TypeOK'
BY DEF TypeOK, TaskTypes, StoreTypes, AgentTypes

LEMMA FaultLemma ==
  ASSUME faults \in 0..MaxFaults, Fault
  PROVE  faults' \in 0..MaxFaults /\ faults' # 0
BY DelegationAssumption DEF Fault

LEMMA TaskLemma ==
  ASSUME created \in 0..MaxTasks
  PROVE  1..created \subseteq Task /\ Task \subseteq Nat /\ created \in Nat
BY DelegationAssumption DEF Task

-------------------------------------------------------------------------------
(* The stores *)

StoreInv == StoreTypes /\ PendingOnceInv /\ AgreeInv /\ \A q \in requests : q.status # "none"

(* A loser's way to its cancellation *)
Settling(t) ==
  \/ Cancelling(t, "postgres")
  \/ postgres[t] # "pending" /\ (graph[t] # "pending" \/ Cancelling(t, "graph"))

LEMMA SameStores ==
  ASSUME StoreInv, UNCHANGED <<created, storeVars>>
  PROVE  StoreInv' /\ \A t : Settling(t) => Settling(t)'
<1> USE DEF storeVars
<1>1. StoreTypes' /\ \A q \in requests' : q.status # "none"
  BY DEF StoreInv, StoreTypes
<1>2. PendingOnceInv' /\ AgreeInv'
  BY DEF StoreInv, PendingOnceInv, AgreeInv
<1>3. \A t : Settling(t) => Settling(t)'
  BY DEF Settling, Cancelling
<1> QED
  BY <1>1, <1>2, <1>3 DEF StoreInv

(* A task that exists is settled, or cancelled. *)
LEMMA AskStores ==
  ASSUME TaskTypes, StoreInv, NEW t \in 1..created,
         NEW s \in {"completed", "failed", "cancelled"}, Ask(t, s),
         UNCHANGED <<created, postgres, graph>>
  PROVE  /\ StoreInv'
         /\ \A u : Settling(u) => Settling(u)'
         /\ s = "cancelled" => Settling(t)'
<1> DEFINE new == [task |-> t, status |-> s, next |-> "postgres"]
<1>1. t \in Task
  BY TaskLemma DEF TaskTypes
<1>2. /\ requests' = requests \cup {new}
      /\ unsure' = IF \E q \in requests : q.task = t THEN unsure \cup {t} ELSE unsure
  BY DEF Ask
<1>3. new \in Request /\ new.task = t /\ new.status = s /\ new.next = "postgres"
  BY <1>1 DEF Request, TaskStatus
<1> HIDE DEF new
<1>4. unsure \subseteq unsure' /\ unsure' \subseteq Task
  BY <1>1, <1>2 DEF StoreInv, StoreTypes
<1>5. t <= created
  BY DEF TaskTypes
<1>6. StoreTypes' /\ \A q \in requests' : q.status # "none"
  BY <1>2, <1>3, <1>4, <1>5 DEF StoreInv, StoreTypes
<1>7. PendingOnceInv'
  BY <1>2, <1>3 DEF StoreInv, PendingOnceInv
<1>8. ASSUME NEW u \in Task \ unsure'
      PROVE  /\ \A q, r \in requests' : q.task = u /\ r.task = u => q = r
             /\ \A q \in requests' : q.task = u =>
                  postgres[u] = IF q.next = "graph" THEN q.status ELSE graph[u]
             /\ (\A q \in requests' : q.task # u) => postgres[u] = graph[u]
             /\ u <= created /\ graph[u] = "none" =>
                  \E q \in requests' : q.task = u /\ q.status = "pending"
  <2>1. CASE u = t
    <3>1. \A q \in requests : q.task # t
      BY <1>2, <1>8, <2>1
    <3>2. postgres[t] = graph[t] /\ graph[t] # "none"
      BY <1>1, <1>4, <1>5, <1>8, <2>1, <3>1 DEF StoreInv, AgreeInv
    <3> QED
      BY <1>2, <1>3, <2>1, <3>1, <3>2
  <2>2. CASE u # t
    <3>1. \A q \in requests' : q.task = u <=> q.task = u /\ q \in requests
      BY <1>2, <1>3, <2>2
    <3> QED
      BY <1>2, <1>4, <1>8, <3>1 DEF StoreInv, AgreeInv
  <2> QED
    BY <2>1, <2>2
<1>9. AgreeInv'
  BY <1>8 DEF AgreeInv
<1>10. \A u : Settling(u) => Settling(u)'
  BY <1>2 DEF Settling, Cancelling
<1>11. s = "cancelled" => Settling(t)'
  BY <1>2, <1>3 DEF Settling, Cancelling
<1> QED
  BY <1>6, <1>7, <1>9, <1>10, <1>11 DEF StoreInv

(* A new task, which nothing has been asked about. *)
LEMMA DelegateStores ==
  ASSUME TaskTypes, StoreInv, NEW e, NEW x, PlannerDelegates(e, x)
  PROVE  StoreInv' /\ \A u : Settling(u) => Settling(u)'
<1>1. PICK t : t = created + 1
  OBVIOUS
<1> DEFINE new == [task |-> t, status |-> "pending", next |-> "postgres"]
<1>2. t \in Task /\ t > created /\ created \in Nat
  BY <1>1, DelegationAssumption DEF PlannerDelegates, TaskTypes, Task
<1>3. requests' = requests \cup {new} /\ created' = t /\ UNCHANGED <<postgres, graph>>
  BY <1>1 DEF PlannerDelegates, Ask
<1>4. new \in Request /\ new.task = t /\ new.status = "pending" /\ new.next = "postgres"
  BY <1>2 DEF Request, TaskStatus
<1> HIDE DEF new
<1>5. \A q \in requests : q.task \in Task /\ q.task <= created /\ q.task # t
  <2>1. \A q \in requests : q.task \in Task /\ q.task <= created
    BY DEF StoreInv, StoreTypes, Request
  <2> QED
    BY <1>2, <2>1, TaskLemma DEF TaskTypes
<1>6. unsure' = unsure
  BY <1>1, <1>5 DEF PlannerDelegates, Ask
<1>7. graph[t] = "none" /\ postgres[t] = "none"
  BY <1>2 DEF StoreInv, StoreTypes
<1>8. \A u \in Task : (u > t => u > created) /\ (u <= t => u <= created \/ u = t)
  BY <1>1, <1>2 DEF Task
<1>9. \A q \in requests' : q.task <= t
  <2>1. t \in Nat /\ \A q \in requests : q.task \in Nat
    BY <1>2, <1>5, TaskLemma DEF TaskTypes
  <2>2. t <= t /\ \A q \in requests : q.task <= t
    BY <1>1, <1>2, <1>5, <2>1
  <2> QED
    BY <1>3, <1>4, <2>2
<1>10. StoreTypes' /\ \A q \in requests' : q.status # "none"
  <2>1. \A u \in Task : u > t => postgres[u] = "none" /\ graph[u] = "none"
    BY <1>8 DEF StoreInv, StoreTypes
  <2> QED
    BY <1>3, <1>4, <1>6, <1>9, <2>1 DEF StoreInv, StoreTypes
<1>11. PendingOnceInv'
  BY <1>3, <1>4, <1>5, <1>7 DEF StoreInv, PendingOnceInv
<1>12. ASSUME NEW u \in Task \ unsure'
       PROVE  /\ \A q, r \in requests' : q.task = u /\ r.task = u => q = r
              /\ \A q \in requests' : q.task = u =>
                   postgres[u] = IF q.next = "graph" THEN q.status ELSE graph[u]
              /\ (\A q \in requests' : q.task # u) => postgres[u] = graph[u]
              /\ u <= t /\ graph[u] = "none" =>
                   \E q \in requests' : q.task = u /\ q.status = "pending"
  <2>1. CASE u = t
    BY <1>3, <1>4, <1>5, <1>7, <2>1
  <2>2. CASE u # t
    <3>1. \A q \in requests' : q.task = u <=> q.task = u /\ q \in requests
      BY <1>3, <1>4, <2>2
    <3>2. u <= t => u <= created
      BY <1>8, <2>2
    <3> QED
      BY <1>3, <1>6, <1>12, <3>1, <3>2 DEF StoreInv, AgreeInv
  <2> QED
    BY <2>1, <2>2
<1>13. AgreeInv'
  BY <1>3, <1>12 DEF AgreeInv
<1>14. \A u : Settling(u) => Settling(u)'
  BY <1>3 DEF Settling, Cancelling
<1> QED
  BY <1>10, <1>11, <1>13, <1>14 DEF StoreInv

(* The first half of a write. *)
LEMMA PostgresStores ==
  ASSUME TaskTypes, StoreInv, NEW q \in requests, WriteLands(q), q.next = "postgres"
  PROVE  /\ StoreInv'
         /\ \A u \in Task : graph[u] # "none" /\ Settling(u) => Settling(u)'
<1> DEFINE r == [q EXCEPT !.next = "graph"]
<1>1. /\ postgres' = [postgres EXCEPT ![q.task] = q.status]
      /\ requests' = (requests \ {q}) \cup {r}
      /\ UNCHANGED <<created, graph, unsure>>
  BY DEF WriteLands, taskVars
<1>2. q \in Request /\ q.task \in Task /\ q.status \in TaskStatus /\ q.task <= created
  BY DEF StoreInv, StoreTypes, Request
<1>3. r \in Request /\ r.task = q.task /\ r.status = q.status /\ r.next = "graph"
  BY <1>2 DEF Request
<1> HIDE DEF r
<1>4. postgres' \in [Task -> TaskStatus] /\ postgres'[q.task] = q.status
      /\ \A u \in Task : u # q.task => postgres'[u] = postgres[u]
  BY <1>1, <1>2 DEF StoreInv, StoreTypes
<1>5. \A u \in Task : u > created => u # q.task
  BY <1>2, TaskLemma DEF TaskTypes
<1>6. StoreTypes' /\ \A p \in requests' : p.status # "none"
  BY <1>1, <1>2, <1>3, <1>4, <1>5 DEF StoreInv, StoreTypes
<1>7. PendingOnceInv'
  BY <1>1, <1>3 DEF StoreInv, PendingOnceInv
<1>8. ASSUME NEW u \in Task \ unsure
      PROVE  /\ \A p, s \in requests' : p.task = u /\ s.task = u => p = s
             /\ \A p \in requests' : p.task = u =>
                  postgres'[u] = IF p.next = "graph" THEN p.status ELSE graph[u]
             /\ (\A p \in requests' : p.task # u) => postgres'[u] = graph[u]
             /\ u <= created /\ graph[u] = "none" =>
                  \E p \in requests' : p.task = u /\ p.status = "pending"
  <2>1. CASE u = q.task
    <3>1. \A p \in requests : p.task = u => p = q
      BY <1>8, <2>1 DEF StoreInv, AgreeInv
    <3>2. \A p \in requests' : p.task = u => p = r
      BY <1>1, <3>1
    <3>3. r \in requests' /\ r.task = u
      BY <1>1, <1>3, <2>1
    <3>4. u <= created /\ graph[u] = "none" => q.status = "pending"
      BY <1>8, <3>1 DEF StoreInv, AgreeInv
    <3> QED
      BY <1>3, <1>4, <2>1, <3>2, <3>3, <3>4
  <2>2. CASE u # q.task
    <3>1. \A p : p \in requests' /\ p.task = u <=> p \in requests /\ p.task = u
      BY <1>1, <1>3, <2>2
    <3> QED
      BY <1>4, <1>8, <2>2, <3>1 DEF StoreInv, AgreeInv
  <2> QED
    BY <2>1, <2>2
<1>9. AgreeInv'
  BY <1>1, <1>8 DEF AgreeInv
<1>10. ASSUME NEW u \in Task, graph[u] # "none", Settling(u)
       PROVE  Settling(u)'
  <2>1. u = q.task => q.status # "pending"
    BY <1>10 DEF StoreInv, PendingOnceInv
  <2>2. \A p \in requests : p # q => p \in requests'
    BY <1>1
  <2>3. CASE Cancelling(u, "postgres")
    <3>1. PICK p \in requests : p.task = u /\ p.status = "cancelled" /\ p.next = "postgres"
      BY <2>3 DEF Cancelling
    <3>2. CASE p = q
      <4>1. r \in requests' /\ r.task = u /\ r.status = "cancelled" /\ postgres'[u] # "pending"
        BY <1>1, <1>3, <1>4, <3>1, <3>2
      <4> QED
        BY <1>3, <4>1 DEF Settling, Cancelling
    <3>3. CASE p # q
      BY <2>2, <3>1, <3>3 DEF Settling, Cancelling
    <3> QED
      BY <3>2, <3>3
  <2>4. CASE postgres[u] # "pending" /\ (graph[u] # "pending" \/ Cancelling(u, "graph"))
    <3>1. postgres'[u] # "pending"
      BY <1>4, <2>1, <2>4
    <3>2. Cancelling(u, "graph") => Cancelling(u, "graph")'
      BY <2>2 DEF Cancelling
    <3> QED
      BY <1>1, <2>4, <3>1, <3>2 DEF Settling
  <2> QED
    BY <1>10, <2>3, <2>4 DEF Settling
<1> QED
  BY <1>6, <1>7, <1>9, <1>10 DEF StoreInv

(* The second half. *)
LEMMA GraphStores ==
  ASSUME TaskTypes, StoreInv, NEW q \in requests, WriteLands(q), q.next # "postgres"
  PROVE  /\ StoreInv'
         /\ \A u \in Task : graph[u] # "none" => graph'[u] # "none"
         /\ \A u \in Task : graph[u] # "none" /\ Settling(u) => Settling(u)'
<1>1. /\ graph' = IF q.status = "pending" \/ graph[q.task] # "none"
                  THEN [graph EXCEPT ![q.task] = q.status] ELSE graph
      /\ requests' = requests \ {q}
      /\ UNCHANGED <<created, postgres, unsure>>
  BY DEF WriteLands, taskVars
<1>2. q.task \in Task /\ q.status \in TaskStatus /\ q.task <= created /\ q.next = "graph"
      /\ q.status # "none"
  BY DEF StoreInv, StoreTypes, Request
<1>3. /\ graph' \in [Task -> TaskStatus]
      /\ q.status = "pending" \/ graph[q.task] # "none" => graph'[q.task] = q.status
      /\ q.status # "pending" /\ graph[q.task] = "none" => graph'[q.task] = "none"
      /\ \A u \in Task : u # q.task => graph'[u] = graph[u]
  BY <1>1, <1>2 DEF StoreInv, StoreTypes
<1>4. \A u \in Task : u > created => u # q.task
  BY <1>2, TaskLemma DEF TaskTypes
<1>5. StoreTypes' /\ \A p \in requests' : p.status # "none"
  BY <1>1, <1>3, <1>4 DEF StoreInv, StoreTypes
<1>6. PendingOnceInv'
  <2>1. ASSUME NEW p \in requests', p.status = "pending"
        PROVE  graph'[p.task] = "none"
    <3>1. graph[p.task] = "none" /\ p.task \in Task
      BY <1>1, <2>1 DEF StoreInv, PendingOnceInv, StoreTypes, Request
    <3>2. p.task = q.task => q.status # "pending"
      BY <1>1, <2>1 DEF StoreInv, PendingOnceInv
    <3> QED
      BY <1>3, <3>1, <3>2
  <2> QED
    BY <1>1, <2>1 DEF StoreInv, PendingOnceInv
<1>7. ASSUME NEW u \in Task \ unsure
      PROVE  /\ \A p, s \in requests' : p.task = u /\ s.task = u => p = s
             /\ \A p \in requests' : p.task = u =>
                  postgres[u] = IF p.next = "graph" THEN p.status ELSE graph'[u]
             /\ (\A p \in requests' : p.task # u) => postgres[u] = graph'[u]
             /\ u <= created /\ graph'[u] = "none" =>
                  \E p \in requests' : p.task = u /\ p.status = "pending"
  <2>1. CASE u = q.task
    <3>1. \A p \in requests : p.task = u => p = q
      BY <1>7, <2>1 DEF StoreInv, AgreeInv
    <3>2. \A p \in requests' : p.task # u
      BY <1>1, <3>1
    <3>3. q.status = "pending" \/ graph[u] # "none"
      BY <1>2, <1>7, <2>1, <3>1 DEF StoreInv, AgreeInv
    <3>4. graph'[u] = q.status /\ postgres[u] = q.status
      BY <1>2, <1>3, <1>7, <2>1, <3>3 DEF StoreInv, AgreeInv
    <3> QED
      BY <1>2, <3>2, <3>4
  <2>2. CASE u # q.task
    <3>1. \A p : p \in requests' /\ p.task = u <=> p \in requests /\ p.task = u
      BY <1>1, <2>2
    <3> QED
      BY <1>3, <1>7, <2>2, <3>1 DEF StoreInv, AgreeInv
  <2> QED
    BY <2>1, <2>2
<1>8. AgreeInv'
  BY <1>1, <1>7 DEF AgreeInv
<1>9. \A u \in Task : graph[u] # "none" => graph'[u] # "none"
  BY <1>2, <1>3
<1>10. ASSUME NEW u \in Task, graph[u] # "none", Settling(u)
       PROVE  Settling(u)'
  <2>1. u = q.task => q.status # "pending" /\ graph'[u] = q.status
    BY <1>3, <1>10 DEF StoreInv, PendingOnceInv
  <2>2. \A p \in requests : p # q => p \in requests'
    BY <1>1
  <2>3. Cancelling(u, "postgres") => Cancelling(u, "postgres")'
    BY <1>2, <2>2 DEF Cancelling
  <2>4. CASE postgres[u] # "pending" /\ (graph[u] # "pending" \/ Cancelling(u, "graph"))
    <3>1. CASE u = q.task
      BY <1>1, <2>1, <2>4, <3>1 DEF Settling
    <3>2. CASE u # q.task
      <4>1. Cancelling(u, "graph") => Cancelling(u, "graph")'
        BY <2>2, <3>2 DEF Cancelling
      <4> QED
        BY <1>1, <1>3, <2>4, <3>2, <4>1 DEF Settling
    <3> QED
      BY <3>1, <3>2
  <2> QED
    BY <1>10, <2>3, <2>4 DEF Settling
<1> QED
  BY <1>5, <1>6, <1>8, <1>9, <1>10 DEF StoreInv

LEMMA FailsStores ==
  ASSUME StoreInv, NEW q \in requests, WriteFails(q)
  PROVE  StoreInv'
<1>1. /\ requests' = requests \ {q} /\ unsure' = unsure \cup {q.task}
      /\ UNCHANGED <<created, postgres, graph>>
  BY DEF WriteFails, taskVars
<1>2. StoreTypes' /\ \A p \in requests' : p.status # "none"
  BY <1>1 DEF StoreInv, StoreTypes, Request
<1>3. PendingOnceInv'
  BY <1>1 DEF StoreInv, PendingOnceInv
<1>4. AgreeInv'
  BY <1>1 DEF StoreInv, AgreeInv
<1> QED
  BY <1>2, <1>3, <1>4 DEF StoreInv

-------------------------------------------------------------------------------
(* The tasks and the agents *)

(* Whatever an agent does to its own state, when nothing of the tasks' changes. *)
AgentInv == AgentTypes /\ KnownInv /\ LosersInv

LEMMA InvSplit ==
  /\ Inv <=> TaskTypes /\ StoreInv /\ AgentInv
  /\ (TaskTypes /\ StoreInv /\ AgentInv)' => Inv'
  /\ LosersInv <=> (faults = 0 => \A c \in resolves : \A t \in c.losers \ c.left : Settling(t))
BY TypesSplit DEF Inv, StoreInv, AgentInv, KnownInv, LosersInv, Settling

LEMMA LosersLemma ==
  ASSUME TaskTypes, AgentTypes, KnownInv, NEW c \in resolves, NEW t \in c.losers
  PROVE  t \in 1..created /\ t \in Task /\ graph[t] # "none"
BY DEF AgentTypes, Resolve, KnownInv, TaskTypes, Task

(* The stores go on, the agents do not. *)
LEMMA SameAgents ==
  ASSUME TaskTypes, AgentInv, UNCHANGED <<ended, jobs, resolves, faults>>,
         created <= created', created' \in Nat, \A q \in requests' : q.status # "none",
         \A u \in Task : graph[u] # "none" => graph'[u] # "none",
         \A u \in Task : graph[u] # "none" /\ Settling(u) => Settling(u)'
  PROVE  AgentInv'
<1>1. AgentTypes'
  BY DEF AgentInv, AgentTypes
<1>2. \A t \in Task : t <= created => t <= created'
  BY TaskLemma DEF TaskTypes
<1>3. KnownInv'
  <2>1. \A t \in Task : jobs'[t] > 0 => t <= created'
    BY <1>2 DEF AgentInv, KnownInv
  <2>2. \A c \in resolves' : \A t \in c.losers : t <= created' /\ graph'[t] # "none"
    BY <1>2, LosersLemma DEF AgentInv, KnownInv
  <2> QED
    BY <2>1, <2>2 DEF KnownInv
<1>4. LosersInv'
  <2> SUFFICES ASSUME faults = 0, NEW c \in resolves, NEW t \in c.losers \ c.left
               PROVE  Settling(t)'
    BY DEF LosersInv, Settling
  <2>1. t \in Task /\ graph[t] # "none"
    BY LosersLemma DEF AgentInv
  <2>2. Settling(t)
    BY DEF AgentInv, LosersInv, Settling
  <2> QED
    BY <2>1, <2>2
<1> QED
  BY <1>1, <1>3, <1>4 DEF AgentInv

LEMMA DelegateInv ==
  ASSUME Inv, NEW e \in Executor, NEW x \in Target, PlannerDelegates(e, x)
  PROVE  Inv'
<1>1. TaskTypes /\ StoreInv /\ AgentInv
  BY InvSplit
<1>2. /\ created < MaxTasks /\ created' = created + 1
      /\ executor' = Append(executor, e) /\ target' = Append(target, x)
      /\ UNCHANGED <<graph, lost, ended, jobs, resolves, faults>>
  BY DEF PlannerDelegates
<1>3. created \in Nat /\ created' \in 0..MaxTasks /\ created <= created' /\ created' \in Nat
  BY <1>1, <1>2, DelegationAssumption DEF TaskTypes
<1>4. executor' \in [1..created' -> Executor] /\ target' \in [1..created' -> Target]
  <2>1. executor \in Seq(Executor) /\ Len(executor) = created
    BY <1>1, <1>3, SeqDef DEF TaskTypes
  <2>2. target \in Seq(Target) /\ Len(target) = created
    BY <1>1, <1>3, SeqDef DEF TaskTypes
  <2>3. executor' \in Seq(Executor) /\ Len(executor') = created'
    BY <1>2, <2>1, AppendProperties
  <2>4. target' \in Seq(Target) /\ Len(target') = created'
    BY <1>2, <2>2, AppendProperties
  <2> QED
    BY <2>3, <2>4
<1>5. lost' \subseteq 1..created'
  BY <1>1, <1>2, <1>3 DEF TaskTypes
<1>6. TaskTypes'
  BY <1>3, <1>4, <1>5 DEF TaskTypes
<1>7. StoreInv' /\ \A u : Settling(u) => Settling(u)'
  BY <1>1, DelegateStores
<1>8. AgentInv'
  BY <1>1, <1>2, <1>3, <1>7, SameAgents DEF StoreInv
<1> QED
  BY <1>6, <1>7, <1>8, InvSplit

LEMMA WriteLandsInv ==
  ASSUME Inv, NEW q \in requests, WriteLands(q)
  PROVE  Inv'
<1>1. TaskTypes /\ StoreInv /\ AgentInv
  BY InvSplit
<1>2. UNCHANGED <<taskVars, lost, ended, jobs, resolves, faults>>
  BY DEF WriteLands
<1>3. TaskTypes' /\ created <= created' /\ created' \in Nat
  BY <1>1, <1>2, TaskLemma DEF TaskTypes, taskVars
<1>4. /\ StoreInv'
      /\ \A u \in Task : graph[u] # "none" => graph'[u] # "none"
      /\ \A u \in Task : graph[u] # "none" /\ Settling(u) => Settling(u)'
  <2>1. CASE q.next = "postgres"
    BY <1>1, <2>1, PostgresStores DEF WriteLands
  <2>2. CASE q.next # "postgres"
    BY <1>1, <2>2, GraphStores
  <2> QED
    BY <2>1, <2>2
<1>5. AgentInv'
  BY <1>1, <1>2, <1>3, <1>4, SameAgents DEF StoreInv
<1> QED
  BY <1>3, <1>4, <1>5, InvSplit

(* A job more, or less, of a task that exists. *)
LEMMA JobsAgents ==
  ASSUME TaskTypes, AgentInv, UNCHANGED <<created, graph, ended, resolves, faults>>,
         jobs' \in [Task -> 0..MaxJobs],
         \A t \in Task : jobs'[t] > 0 => jobs[t] > 0 \/ t <= created,
         \A q \in requests' : q.status # "none",
         \A u : Settling(u) => Settling(u)'
  PROVE  AgentInv'
<1>1. AgentTypes'
  BY DEF AgentInv, AgentTypes
<1>2. KnownInv'
  BY DEF AgentInv, KnownInv
<1>3. LosersInv'
  <2> SUFFICES ASSUME faults = 0, NEW c \in resolves, NEW t \in c.losers \ c.left
               PROVE  Settling(t)'
    BY DEF LosersInv, Settling
  <2> QED
    BY DEF AgentInv, LosersInv, Settling
<1> QED
  BY <1>1, <1>2, <1>3 DEF AgentInv

LEMMA JobsLemma ==
  ASSUME AgentTypes, NEW t \in Task, jobs[t] > 0, jobs' = [jobs EXCEPT ![t] = jobs[t] - 1]
  PROVE  jobs' \in [Task -> 0..MaxJobs] /\ \A u \in Task : jobs'[u] > 0 => jobs[u] > 0
<1>1. jobs[t] \in 0..MaxJobs /\ MaxJobs \in Nat
  BY DelegationAssumption DEF AgentTypes
<1>2. jobs[t] - 1 \in 0..MaxJobs
  BY <1>1
<1> QED
  BY <1>2 DEF AgentTypes

LEMMA PollInv ==
  ASSUME Inv, NEW e \in Executor, ExecutorPolls(e)
  PROVE  Inv'
<1>1. TaskTypes /\ StoreInv /\ AgentInv
  BY InvSplit
<1>2. /\ jobs' = [t \in Task |-> IF t \in Pending(e) /\ jobs[t] < MaxJobs
                                 THEN jobs[t] + 1 ELSE jobs[t]]
      /\ UNCHANGED <<taskVars, storeVars, lost, ended, resolves, faults>>
  BY DEF ExecutorPolls
<1>3. jobs' \in [Task -> 0..MaxJobs]
  <2>1. \A t \in Task : jobs[t] \in 0..MaxJobs /\ (jobs[t] < MaxJobs => jobs[t] + 1 \in 0..MaxJobs)
    BY <1>1, DelegationAssumption DEF AgentInv, AgentTypes
  <2> QED
    BY <1>2, <2>1
<1>4. \A t \in Task : jobs'[t] > 0 => jobs[t] > 0 \/ t <= created
  BY <1>1, <1>2 DEF Pending, TaskTypes
<1>5. TaskTypes'
  BY <1>1, <1>2 DEF TaskTypes, taskVars
<1>6. StoreInv' /\ \A u : Settling(u) => Settling(u)'
  BY <1>1, <1>2, SameStores DEF taskVars
<1>7. AgentInv'
  BY <1>1, <1>2, <1>3, <1>4, <1>6, JobsAgents DEF taskVars, storeVars, StoreInv
<1> QED
  BY <1>5, <1>6, <1>7, InvSplit

LEMMA JobInv ==
  ASSUME Inv, NEW t \in Task, JobPosts(t) \/ JobReturns(t)
  PROVE  Inv'
<1>1. TaskTypes /\ StoreInv /\ AgentInv
  BY InvSplit
<1>2. /\ jobs[t] > 0 /\ jobs' = [jobs EXCEPT ![t] = jobs[t] - 1]
      /\ UNCHANGED <<taskVars, graph, postgres, lost, ended, resolves, faults>>
  BY DEF JobPosts, JobReturns, storeVars
<1>3. TaskTypes'
  BY <1>1, <1>2 DEF TaskTypes, taskVars
<1>4. t \in 1..created
  BY <1>1, <1>2, TaskLemma DEF AgentInv, KnownInv, TaskTypes, Task
<1>5. StoreInv' /\ \A u : Settling(u) => Settling(u)'
  <2>1. CASE JobPosts(t)
    <3>1. PICK s \in {"completed", "failed"} : Ask(t, s)
      BY <2>1 DEF JobPosts
    <3> QED
      BY <1>1, <1>2, <1>4, <3>1, AskStores DEF taskVars
  <2>2. CASE JobReturns(t)
    BY <1>1, <1>2, <2>2, SameStores DEF JobReturns, taskVars
  <2> QED
    BY <2>1, <2>2
<1>6. jobs' \in [Task -> 0..MaxJobs] /\ \A u \in Task : jobs'[u] > 0 => jobs[u] > 0
  BY <1>1, <1>2, JobsLemma DEF AgentInv
<1>7. AgentInv'
  BY <1>1, <1>2, <1>5, <1>6, JobsAgents DEF taskVars, StoreInv
<1> QED
  BY <1>3, <1>5, <1>7, InvSplit

-------------------------------------------------------------------------------
(* The resolver *)

LEMMA DetectInv ==
  ASSUME Inv, DetectConflicts
  PROVE  Inv'
<1>1. TaskTypes /\ StoreInv /\ AgentInv
  BY InvSplit
<1> DEFINE conflicts == {x \in Target : \E t, u \in Competing(x) : t # u}
<1>2. PICK winner \in [conflicts -> Task] :
           resolves' = resolves \cup
                {[losers |-> Competing(x) \ {winner[x]},
                  left |-> Competing(x) \ {winner[x]}, sent |-> 0] : x \in conflicts}
  BY DEF DetectConflicts
<1>3. UNCHANGED <<taskVars, storeVars, lost, ended, jobs, faults>>
  BY DEF DetectConflicts
<1>4. \A c \in resolves' : c \in resolves
         \/ \E x \in Target : /\ c.losers = Competing(x) \ {winner[x]} /\ c.left = c.losers
                              /\ c = [losers |-> c.losers, left |-> c.left, sent |-> 0]
  <2>1. conflicts \subseteq Target
    OBVIOUS
  <2> HIDE DEF conflicts
  <2>2. \A c \in resolves' : c \in resolves
           \/ \E x \in conflicts : c = [losers |-> Competing(x) \ {winner[x]},
                                       left |-> Competing(x) \ {winner[x]}, sent |-> 0]
    BY <1>2
  <2>3. ASSUME NEW c, NEW x \in conflicts,
               c = [losers |-> Competing(x) \ {winner[x]},
                    left |-> Competing(x) \ {winner[x]}, sent |-> 0]
        PROVE  /\ c.losers = Competing(x) \ {winner[x]} /\ c.left = c.losers
               /\ c = [losers |-> c.losers, left |-> c.left, sent |-> 0]
    BY <2>3
  <2> QED
    BY <2>1, <2>2, <2>3
<1>5. \A x : \A t \in Competing(x) : t \in Task /\ t <= created /\ graph[t] # "none"
  BY <1>1, TaskLemma DEF Competing, TaskTypes
<1> HIDE DEF conflicts
<1>6. StoreInv' /\ TaskTypes' /\ \A u : Settling(u) => Settling(u)'
  BY <1>1, <1>3, SameStores DEF taskVars, TaskTypes
<1>7. AgentTypes'
  <2>1. ASSUME NEW c \in resolves'
        PROVE  c \in Resolve /\ c.left \subseteq c.losers
    <3>1. CASE c \in resolves
      BY <1>1, <3>1 DEF AgentInv, AgentTypes
    <3>2. CASE \E x \in Target :
                  /\ c.losers = Competing(x) \ {winner[x]} /\ c.left = c.losers
                  /\ c = [losers |-> c.losers, left |-> c.left, sent |-> 0]
      <4>1. c.losers \subseteq Task /\ c.left \subseteq Task
        BY <1>5, <3>2
      <4>2. 0 \in 0..MaxTasks
        BY DelegationAssumption
      <4> QED
        BY <3>2, <4>1, <4>2 DEF Resolve
    <3> QED
      BY <1>4, <3>1, <3>2
  <2> QED
    BY <1>1, <1>3, <2>1 DEF AgentInv, AgentTypes
<1>8. KnownInv'
  <2>1. \A c \in resolves' : \A t \in c.losers : t <= created /\ graph[t] # "none"
    BY <1>1, <1>4, <1>5 DEF AgentInv, KnownInv
  <2> QED
    BY <1>1, <1>3, <2>1 DEF AgentInv, KnownInv, taskVars, storeVars
<1>9. LosersInv'
  <2> SUFFICES ASSUME faults = 0, NEW c \in resolves', NEW t \in c.losers \ c.left
               PROVE  Settling(t)'
    BY <1>3 DEF LosersInv, Settling
  <2>1. c \in resolves
    BY <1>4
  <2> QED
    BY <1>1, <1>6, <2>1 DEF AgentInv, LosersInv, Settling
<1> QED
  BY <1>6, <1>7, <1>8, <1>9, InvSplit DEF AgentInv

LEMMA CancelInv ==
  ASSUME Inv, NEW c \in resolves, CancelNext(c)
  PROVE  Inv'
<1>1. TaskTypes /\ StoreInv /\ AgentInv
  BY InvSplit
<1>2. PICK t \in c.left :
        /\ Ask(t, "cancelled")
        /\ resolves' = (resolves \ {c}) \cup {[c EXCEPT !.left = c.left \ {t}, !.sent = t]}
  BY DEF CancelNext
<1>3. UNCHANGED <<taskVars, postgres, graph, lost, ended, jobs, faults>>
  BY DEF CancelNext
<1>4. c \in Resolve /\ t \in c.losers /\ c.left \subseteq c.losers
  BY <1>1 DEF AgentInv, AgentTypes
<1>5. t \in 1..created /\ t \in Task
  BY <1>1, <1>4, LosersLemma DEF AgentInv
<1>6. PICK d : d = [c EXCEPT !.left = c.left \ {t}, !.sent = t]
  OBVIOUS
<1>7. d \in Resolve /\ d.losers = c.losers /\ d.left = c.left \ {t}
  <2>1. t \in 0..MaxTasks
    BY <1>5, DelegationAssumption DEF Task
  <2> QED
    BY <1>4, <1>6, <2>1 DEF Resolve
<1>8. resolves' = (resolves \ {c}) \cup {d}
  BY <1>2, <1>6
<1>9. StoreInv' /\ Settling(t)' /\ \A u : Settling(u) => Settling(u)'
  BY <1>1, <1>2, <1>3, <1>5, AskStores DEF taskVars
<1>10. TaskTypes'
  BY <1>1, <1>3 DEF TaskTypes, taskVars
<1>11. AgentTypes'
  BY <1>1, <1>3, <1>4, <1>7, <1>8 DEF AgentInv, AgentTypes
<1>12. KnownInv'
  BY <1>1, <1>3, <1>7, <1>8, <1>9 DEF AgentInv, KnownInv, taskVars, StoreInv
<1>13. LosersInv'
  <2> SUFFICES ASSUME faults = 0, NEW b \in resolves', NEW u \in b.losers \ b.left
               PROVE  Settling(u)'
    BY <1>3 DEF LosersInv, Settling
  <2>1. CASE b \in resolves
    BY <1>1, <1>9, <2>1 DEF AgentInv, LosersInv, Settling
  <2>2. CASE b = d /\ u = t
    BY <1>9, <2>2
  <2>3. CASE b = d /\ u # t
    <3>1. u \in c.losers \ c.left
      BY <1>7, <2>3
    <3> QED
      BY <1>1, <1>9, <3>1 DEF AgentInv, LosersInv, Settling
  <2> QED
    BY <1>8, <2>1, <2>2, <2>3
<1> QED
  BY <1>9, <1>10, <1>11, <1>12, <1>13, InvSplit DEF AgentInv

LEMMA ResolveEndsInv ==
  ASSUME Inv, NEW c \in resolves, ResolveEnds(c)
  PROVE  Inv'
<1>1. TaskTypes /\ StoreInv /\ AgentInv
  BY InvSplit
<1>2. resolves' \subseteq resolves /\ UNCHANGED <<taskVars, storeVars, lost, ended, jobs, faults>>
  BY DEF ResolveEnds
<1>3. StoreInv' /\ TaskTypes' /\ \A u : Settling(u) => Settling(u)'
  BY <1>1, <1>2, SameStores DEF taskVars, TaskTypes
<1>4. AgentTypes' /\ KnownInv'
  BY <1>1, <1>2 DEF AgentInv, AgentTypes, KnownInv, taskVars, storeVars
<1>5. LosersInv'
  <2> SUFFICES ASSUME faults = 0, NEW b \in resolves', NEW u \in b.losers \ b.left
               PROVE  Settling(u)'
    BY <1>2 DEF LosersInv, Settling
  <2> QED
    BY <1>1, <1>2, <1>3 DEF AgentInv, LosersInv, Settling
<1> QED
  BY <1>3, <1>4, <1>5, InvSplit DEF AgentInv

(* After a fault nothing is said of the losers. *)
LEMMA FailureInv ==
  ASSUME Inv, Failure
  PROVE  Inv'
<1>1. TaskTypes /\ StoreInv /\ AgentInv
  BY InvSplit
<1>2. UNCHANGED <<taskVars, postgres, graph>> /\ Fault /\ resolves' \subseteq resolves
  BY DEF Failure, WriteFails, JobFails, ExecutorEnds, PlanLost,
         ResolveFails, CoordinatorRestarts, storeVars
<1>3. faults' \in 0..MaxFaults /\ faults' # 0
  BY <1>1, <1>2, FaultLemma DEF AgentInv, AgentTypes
<1>4. TaskTypes'
  <2>1. lost' \subseteq 1..created
    BY <1>1 DEF Failure, WriteFails, JobFails, ExecutorEnds, PlanLost,
                ResolveFails, CoordinatorRestarts,
                TaskTypes
  <2> QED
    BY <1>1, <1>2, <2>1 DEF TaskTypes, taskVars
<1>5. StoreInv'
  <2>1. CASE \E q \in requests : WriteFails(q)
    BY <1>1, <2>1, FailsStores
  <2>2. CASE UNCHANGED storeVars
    BY <1>1, <1>2, <2>2, SameStores DEF taskVars
  <2> QED
    BY <2>1, <2>2 DEF Failure, JobFails, ExecutorEnds, PlanLost, ResolveFails, CoordinatorRestarts
<1>6. jobs' \in [Task -> 0..MaxJobs] /\ \A u \in Task : jobs'[u] > 0 => jobs[u] > 0
  <2>1. CASE \E t \in Task : JobFails(t)
    BY <1>1, <2>1, JobsLemma DEF JobFails, AgentInv
  <2>2. CASE jobs' = jobs
    BY <1>1, <2>2 DEF AgentInv, AgentTypes
  <2>3. CASE CoordinatorRestarts
    BY <2>3, DelegationAssumption DEF CoordinatorRestarts
  <2> QED
    BY <2>1, <2>2, <2>3 DEF Failure, WriteFails, ExecutorEnds, PlanLost, ResolveFails
<1>7. AgentTypes'
  <2>1. ended' \subseteq Executor
    BY <1>1 DEF Failure, WriteFails, JobFails, ExecutorEnds, PlanLost, ResolveFails,
                CoordinatorRestarts, AgentInv, AgentTypes
  <2> QED
    BY <1>1, <1>2, <1>3, <1>6, <2>1 DEF AgentInv, AgentTypes
<1>8. KnownInv'
  BY <1>1, <1>2, <1>5, <1>6 DEF AgentInv, KnownInv, StoreInv, taskVars
<1>9. LosersInv'
  BY <1>3 DEF LosersInv
<1> QED
  BY <1>4, <1>5, <1>7, <1>8, <1>9, InvSplit DEF AgentInv

-------------------------------------------------------------------------------
(* The theorems *)

LEMMA InitInv == Init => Inv
<1> SUFFICES ASSUME Init PROVE Inv
  OBVIOUS
<1>1. 0 \in 0..MaxTasks /\ 0 \in 0..MaxJobs /\ 0 \in 0..MaxFaults /\ 1..0 = {}
  BY DelegationAssumption
<1>2. executor \in [1..created -> Executor] /\ target \in [1..created -> Target]
  BY DEF Init
<1>3. TypeOK
  BY <1>1, <1>2 DEF Init, TypeOK, TaskStatus
<1>4. \A t \in Task : t > 0 /\ ~(t <= 0)
  BY DEF Task
<1>5. AgreeInv
  BY <1>4 DEF Init, AgreeInv
<1> QED
  BY <1>3, <1>5 DEF Init, Inv, KnownInv, PendingOnceInv, LosersInv

LEMMA StepInv ==
  ASSUME Inv, [Next]_vars
  PROVE  Inv'
<1>1. CASE UNCHANGED vars
  <2>1. TaskTypes /\ StoreInv /\ AgentInv
    BY InvSplit
  <2>2. StoreInv' /\ TaskTypes' /\ \A u : Settling(u) => Settling(u)'
    BY <1>1, <2>1, SameStores DEF vars, taskVars, TaskTypes
  <2>3. AgentInv'
    BY <1>1, <2>1, <2>2, JobsAgents DEF vars, taskVars, storeVars, StoreInv, AgentInv, AgentTypes
  <2> QED
    BY <2>2, <2>3, InvSplit
<1> QED
  BY <1>1, DelegateInv, WriteLandsInv, PollInv, JobInv, DetectInv, CancelInv, ResolveEndsInv,
     FailureInv DEF Next, ResolverAction

(* The invariant of the stores, the executors and the resolver (core.py:217-264,
   executor_agent.py:22-62, conflict_resolver.py:16-59). *)
THEOREM DelegationInvariant == Spec => []Inv
<1>1. Init => Inv
  BY InitInv
<1>2. Inv /\ [Next]_vars => Inv'
  BY StepInv
<1> QED
  BY <1>1, <1>2, PTL DEF Spec

(* Nothing is written of a task that does not exist, the jobs of a task are
   counted, and a resolution has only losers left (core.py:217-264). *)
THEOREM TypeCorrect == Spec => []TypeOK
<1>1. Inv => TypeOK
  BY DEF Inv
<1> QED
  BY <1>1, DelegationInvariant, PTL

(* PostgreSQL and the graph have the same status of a task when no write of it
   is under way, none failed and no two were at once (core.py:217-236, 256-264,
   causal_engine.py:158-164). *)
THEOREM BothStoresAgree == Spec => []StoresAgree
<1>1. Inv => StoresAgree
  BY DEF Inv, AgreeInv, StoresAgree
<1> QED
  BY <1>1, DelegationInvariant, PTL

(* Without faults, the loser of a conflict whose cancellation is answered is
   pending in neither store, whatever its executor has written meanwhile
   (conflict_resolver.py:50-59, core.py:256-264). *)
THEOREM LosersAreSettled == Spec => []LosersSettled
<1>1. Inv => LosersSettled
  BY DEF Inv, LosersInv, Cancelling, LosersSettled
<1> QED
  BY <1>1, DelegationInvariant, PTL

-------------------------------------------------------------------------------
(* A task is settled for good. *)

(* Until its row is inserted nothing else happens to a task, and what inserts it
   finds none. *)
RowFirstInv ==
  /\ \A t \in Task : postgres[t] = "none" =>
       /\ jobs[t] = 0 /\ graph[t] = "none"
       /\ \A q \in requests : q.task = t => q.status = "pending" /\ q.next = "postgres"
  /\ \A q \in requests : q.status = "pending" /\ q.next = "postgres" =>
       postgres[q.task] = "none"

LEMMA AskAfterRow ==
  ASSUME RowFirstInv, NEW t \in Task, NEW s \in {"completed", "failed", "cancelled"}, Ask(t, s),
         postgres[t] # "none", UNCHANGED <<postgres, graph>>,
         \A u \in Task : jobs[u] = 0 => jobs'[u] = 0
  PROVE  RowFirstInv'
<1> DEFINE new == [task |-> t, status |-> s, next |-> "postgres"]
<1>1. requests' = requests \cup {new} /\ new.task = t /\ new.status # "pending"
  BY DEF Ask
<1> HIDE DEF new
<1> QED
  BY <1>1 DEF RowFirstInv

LEMMA DelegatesRow ==
  ASSUME Inv, RowFirstInv, NEW e \in Executor, NEW x \in Target, PlannerDelegates(e, x)
  PROVE  RowFirstInv'
<1> DEFINE t == created + 1
           new == [task |-> t, status |-> "pending", next |-> "postgres"]
<1>1. requests' = requests \cup {new} /\ UNCHANGED <<postgres, graph, jobs>>
  BY DEF PlannerDelegates, Ask
<1>2. t \in Task /\ t > created /\ created \in Nat
  BY DelegationAssumption DEF Inv, TypeOK, PlannerDelegates, Task
<1>3. postgres[t] = "none"
  BY <1>2 DEF Inv, TypeOK
<1> QED
  BY <1>1, <1>3 DEF RowFirstInv

LEMMA WriteLandsRow ==
  ASSUME Inv, RowFirstInv, NEW q \in requests, WriteLands(q)
  PROVE  RowFirstInv'
<1>1. /\ q \in Request /\ q.task \in Task /\ q.status # "none" /\ jobs' = jobs
      /\ postgres \in [Task -> TaskStatus] /\ graph \in [Task -> TaskStatus]
      /\ requests \subseteq Request
  BY DEF Inv, TypeOK, KnownInv, Request, WriteLands
<1>2. CASE q.next = "postgres"
  <2> DEFINE new == [q EXCEPT !.next = "graph"]
  <2>1. /\ postgres' = [postgres EXCEPT ![q.task] = q.status] /\ graph' = graph
        /\ requests' = (requests \ {q}) \cup {new}
    BY <1>2 DEF WriteLands
  <2>2. new.task = q.task /\ new.next = "graph"
    BY <1>1 DEF Request
  <2> HIDE DEF new
  <2>3. ASSUME NEW u \in Task, postgres'[u] = "none"
        PROVE  u # q.task /\ postgres[u] = "none"
    BY <1>1, <2>1, <2>3
  <2>4. ASSUME NEW r \in requests, r # q, r.status = "pending", r.next = "postgres"
        PROVE  r.task # q.task
    <3> SUFFICES ASSUME r.task = q.task PROVE FALSE
      OBVIOUS
    <3>1. postgres[q.task] = "none"
      BY <2>4 DEF RowFirstInv
    <3>2. q.status = "pending"
      BY <1>1, <3>1 DEF RowFirstInv
    <3> QED
      BY <2>4, <3>2 DEF Inv, PendingOnceInv
  <2> QED
    BY <1>1, <2>1, <2>2, <2>3, <2>4 DEF RowFirstInv
<1>3. CASE q.next # "postgres"
  <2>1. /\ postgres' = postgres /\ requests' = requests \ {q}
        /\ graph' = graph \/ graph' = [graph EXCEPT ![q.task] = q.status]
    BY <1>3 DEF WriteLands
  <2>2. postgres[q.task] # "none"
    BY <1>1, <1>3 DEF RowFirstInv
  <2> QED
    BY <1>1, <2>1, <2>2 DEF RowFirstInv
<1> QED
  BY <1>2, <1>3

LEMMA RowFirstStep ==
  ASSUME Inv, RowFirstInv, [Next]_vars
  PROVE  RowFirstInv'
<1>a. ASSUME UNCHANGED <<postgres, graph>>, requests' \subseteq requests,
             \A u \in Task : postgres[u] = "none" /\ jobs[u] = 0 => jobs'[u] = 0
      PROVE  RowFirstInv'
  BY <1>a DEF RowFirstInv
<1>b. jobs \in [Task -> 0 .. MaxJobs] /\ MaxJobs \in Nat
  BY DelegationAssumption DEF Inv, TypeOK
<1>1. ASSUME NEW e \in Executor, NEW x \in Target, PlannerDelegates(e, x) PROVE RowFirstInv'
  BY <1>1, DelegatesRow
<1>2. ASSUME NEW q \in requests, WriteLands(q) PROVE RowFirstInv'
  BY <1>2, WriteLandsRow
<1>3. ASSUME NEW e \in Executor, ExecutorPolls(e) PROVE RowFirstInv'
  BY <1>3, <1>a DEF ExecutorPolls, Pending, storeVars
<1>4. ASSUME NEW t \in Task, jobs[t] > 0, jobs' = [jobs EXCEPT ![t] = jobs[t] - 1]
      PROVE  /\ postgres[t] # "none"
             /\ \A u \in Task : jobs[u] = 0 => jobs'[u] = 0
  BY <1>4, <1>b DEF RowFirstInv
<1>5. ASSUME NEW t \in Task, JobPosts(t) PROVE RowFirstInv'
  <2>1. PICK s \in {"completed", "failed"} : Ask(t, s)
    BY <1>5 DEF JobPosts
  <2>2. /\ jobs[t] > 0 /\ jobs' = [jobs EXCEPT ![t] = jobs[t] - 1]
        /\ UNCHANGED <<postgres, graph>>
    BY <1>5 DEF JobPosts
  <2> QED
    BY <1>4, <2>1, <2>2, AskAfterRow
<1>6. ASSUME NEW t \in Task, JobReturns(t) PROVE RowFirstInv'
  BY <1>6, <1>4, <1>a DEF JobReturns, storeVars
<1>7. ASSUME NEW c \in resolves, CancelNext(c) PROVE RowFirstInv'
  <2>1. PICK t \in c.left : Ask(t, "cancelled")
    BY <1>7 DEF CancelNext
  <2>2. t \in Task /\ postgres[t] # "none" /\ UNCHANGED <<postgres, graph, jobs>>
    <3>1. t \in Task /\ t \in c.losers
      BY DEF Inv, TypeOK, Resolve
    <3>2. graph[t] # "none"
      BY <3>1 DEF Inv, KnownInv
    <3> QED
      BY <1>7, <3>1, <3>2 DEF CancelNext, RowFirstInv
  <2> QED
    BY <2>1, <2>2, AskAfterRow
<1>8. CASE DetectConflicts \/ \E c \in resolves : ResolveEnds(c)
  BY <1>8, <1>a DEF DetectConflicts, ResolveEnds, storeVars
<1>9. CASE Failure
  <2>1. UNCHANGED <<postgres, graph>> /\ requests' \subseteq requests
    BY <1>9 DEF Failure, WriteFails, JobFails, ExecutorEnds, PlanLost,
                ResolveFails, CoordinatorRestarts, storeVars
  <2>2. \A u \in Task : jobs[u] = 0 => jobs'[u] = 0
    BY <1>9, <1>4 DEF Failure, WriteFails, JobFails, ExecutorEnds, PlanLost,
                      ResolveFails, CoordinatorRestarts
  <2> QED
    BY <1>a, <2>1, <2>2
<1>10. CASE UNCHANGED vars
  BY <1>10, <1>a DEF vars, storeVars
<1> QED
  BY <1>1, <1>2, <1>3, <1>5, <1>6, <1>7, <1>8, <1>9, <1>10 DEF Next, ResolverAction

(* A task that was settled in PostgreSQL, where executors look for their tasks,
   never becomes pending again: no late insert, poll, retry or cancellation
   takes it up anew, whatever requests fail (core.py:217-264,
   executor_agent.py:22-62). *)
SettledForGood ==
  [][\A t \in Task : postgres[t] \notin {"none", "pending"} =>
       postgres'[t] \notin {"none", "pending"}]_vars

(* Whatever the executors, the resolver and the failures do to it, a task that
   was settled stays settled (core.py:256-264, executor_agent.py:22-35). *)
THEOREM TasksAreSettledForGood == Spec => SettledForGood
<1>1. Init => RowFirstInv
  BY DEF Init, RowFirstInv
<1>2. Inv /\ RowFirstInv /\ [Next]_vars => RowFirstInv'
  BY RowFirstStep
<1>3. Inv /\ RowFirstInv /\ [Next]_vars =>
        [\A t \in Task : postgres[t] \notin {"none", "pending"} =>
           postgres'[t] \notin {"none", "pending"}]_vars
  <2> SUFFICES ASSUME Inv, RowFirstInv, [Next]_vars, NEW t \in Task,
                      postgres[t] \notin {"none", "pending"}
               PROVE  postgres'[t] \notin {"none", "pending"}
    OBVIOUS
  <2>1. ASSUME NEW q \in requests, WriteLands(q) PROVE postgres'[t] \notin {"none", "pending"}
    <3>1. \/ postgres' = postgres
          \/ q.next = "postgres" /\ postgres' = [postgres EXCEPT ![q.task] = q.status]
      BY <2>1 DEF WriteLands
    <3>2. q.status # "none" /\ postgres \in [Task -> TaskStatus]
      BY DEF Inv, KnownInv, TypeOK
    <3>3. q.next = "postgres" /\ q.status = "pending" => q.task # t
      BY DEF RowFirstInv
    <3> QED
      BY <3>1, <3>2, <3>3
  <2>2. CASE ~ \E q \in requests : WriteLands(q)
    <3>1. postgres' = postgres
      BY <2>2 DEF Next, PlannerDelegates, ExecutorPolls, JobPosts, JobReturns, ResolverAction,
                  DetectConflicts, CancelNext, ResolveEnds, Failure, WriteFails, JobFails,
                  ExecutorEnds, PlanLost, ResolveFails, CoordinatorRestarts, storeVars, vars
    <3> QED
      BY <3>1
  <2> QED
    BY <2>1, <2>2
<1> QED
  BY <1>1, <1>2, <1>3, DelegationInvariant, PTL DEF Spec, SettledForGood
================================================================================
