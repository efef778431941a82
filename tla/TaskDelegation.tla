----------------------------- MODULE TaskDelegation -----------------------------
(***************************************************************************)
(* From a signal to the execution of a plan: a planner agent has a plan    *)
(* made and a task created, the executor agent of that planner polls its   *)
(* pending tasks and posts their plans for execution, and the coordinator  *)
(* has the conflict resolver cancel tasks that compete for an entity       *)
(* (agents/, coordinator/).  MonitorAgent sends the signals.               *)
(*                                                                         *)
(* The World Model keeps every task twice, in PostgreSQL for the executors *)
(* and as a node in Neo4j for the conflicts, and writes one after the      *)
(* other (world_model/core.py, causal_engine.py).  A Task node carries     *)
(* neither plan, risk nor confidence, so that all tasks score alike: the   *)
(* winner of a conflict is whichever comes first, and a merge never        *)
(* happens.                                                                *)
(***************************************************************************)
EXTENDS Naturals, Sequences, FiniteSets

CONSTANTS Executor,   \* executor agents, one behind each planner
          Target,     \* the entities decisions name, "general" for none
          MaxTasks,   \* bound on the tasks created
          MaxJobs,    \* bound on the jobs of one task at a time
          MaxRequests,\* bound on the writes of one task under way
          MaxResolves,\* bound on the resolve() calls at a time
          MaxFaults   \* bound on failed requests and restarts

ASSUME DelegationAssumption ==
  /\ MaxTasks \in Nat \ {0} /\ MaxJobs \in Nat \ {0}
  /\ MaxRequests \in Nat \ {0} /\ MaxResolves \in Nat \ {0} /\ MaxFaults \in Nat

Task == 1..MaxTasks

TaskStatus == {"none", "pending", "completed", "failed", "cancelled"}

VARIABLES
  created,    \* tasks created so far: 1..created
  executor,   \* the executor of each
  target,     \* and the entity its node targets
  postgres,   \* its status in agent_tasks
  graph,      \* the status of its node
  requests,   \* writes of a status under way, and which store is next
  lost,       \* tasks whose plan cannot be read any more
  ended,      \* executors whose run() has ended
  jobs,       \* how many _execute_task of each task are under way
  resolves,   \* resolve() calls under way
  unsure,     \* tasks with two writes under way at once, or one that failed
  faults      \* faults so far

taskVars == <<created, executor, target>>
storeVars == <<postgres, graph, requests, unsure>>
vars == <<taskVars, storeVars, lost, ended, jobs, resolves, faults>>

Request == [task: Task, status: TaskStatus, next: {"postgres", "graph"}]

(* sent: the loser whose cancellation is awaited, 0 at first. *)
Resolve == [losers: SUBSET Task, left: SUBSET Task, sent: 0..MaxTasks]

TypeOK ==
  /\ created \in 0..MaxTasks
  /\ executor \in [1..created -> Executor] /\ target \in [1..created -> Target]
  /\ postgres \in [Task -> TaskStatus] /\ graph \in [Task -> TaskStatus]
  /\ \A t \in Task : t > created => postgres[t] = "none" /\ graph[t] = "none"
  /\ requests \subseteq Request /\ \A q \in requests : q.task <= created
  /\ lost \subseteq 1..created
  /\ ended \subseteq Executor
  /\ jobs \in [Task -> 0..MaxJobs]
  /\ \A c \in resolves : c \in Resolve /\ c.left \subseteq c.losers
  /\ unsure \subseteq Task
  /\ faults \in 0..MaxFaults

Init ==
  /\ created = 0 /\ executor = <<>> /\ target = <<>>
  /\ postgres = [t \in Task |-> "none"] /\ graph = [t \in Task |-> "none"]
  /\ requests = {} /\ lost = {} /\ ended = {} /\ jobs = [t \in Task |-> 0]
  /\ resolves = {} /\ unsure = {} /\ faults = 0

Fault == faults < MaxFaults /\ faults' = faults + 1

-------------------------------------------------------------------------------
(* The World Model writes a status: PostgreSQL first, then the node.  A task
   row is inserted and a node merged; any other write updates what is there,
   and so does nothing to a node that is not. *)

(* Mutant: the node is not told of an update. *)
WriteLandsHalfway(q) ==
  /\ q \in requests
  /\ IF q.next = "postgres"
     THEN /\ postgres' = [postgres EXCEPT ![q.task] = q.status]
          /\ requests' = IF q.status = "pending"
                         THEN (requests \ {q}) \cup {[q EXCEPT !.next = "graph"]}
                         ELSE requests \ {q}
          /\ UNCHANGED graph
     ELSE /\ graph' = [graph EXCEPT ![q.task] = q.status]
          /\ requests' = requests \ {q}
          /\ UNCHANGED postgres
  /\ UNCHANGED <<taskVars, lost, ended, jobs, resolves, unsure, faults>>

WriteLands(q) ==
  /\ q \in requests
  /\ IF q.next = "postgres"
     THEN /\ postgres' = [postgres EXCEPT ![q.task] = q.status]
          /\ requests' = (requests \ {q}) \cup {[q EXCEPT !.next = "graph"]}
          /\ UNCHANGED graph
     ELSE /\ graph' = IF q.status = "pending" \/ graph[q.task] # "none"
                      THEN [graph EXCEPT ![q.task] = q.status] ELSE graph
          /\ requests' = requests \ {q}
          /\ UNCHANGED postgres
  /\ UNCHANGED <<taskVars, lost, ended, jobs, resolves, unsure, faults>>

(* A failed insert leaves no node either; whoever asked is told and does not
   ask again, unless a poll makes it. *)
WriteFails(q) ==
  /\ q \in requests
  /\ Fault
  /\ requests' = requests \ {q}
  /\ unsure' = unsure \cup {q.task}
  /\ UNCHANGED <<taskVars, postgres, graph, lost, ended, jobs, resolves>>

Ask(t, status) ==
  /\ Cardinality({q \in requests : q.task = t}) < MaxRequests
  /\ requests' = requests \cup {[task |-> t, status |-> status, next |-> "postgres"]}
  /\ unsure' = IF \E q \in requests : q.task = t THEN unsure \cup {t} ELSE unsure

-------------------------------------------------------------------------------
(* PlannerAgent: one of the group takes a signal, and when there is a decision
   and a plan has been made, has a task created for its executor. *)

PlannerDelegates(e, x) ==
  /\ created < MaxTasks
  /\ created' = created + 1
  /\ executor' = Append(executor, e)
  /\ target' = Append(target, x)
  /\ Ask(created + 1, "pending")
  /\ UNCHANGED <<postgres, graph, lost, ended, jobs, resolves, faults>>

-------------------------------------------------------------------------------
(* ExecutorAgent: every poll starts a job for each pending task, those of an
   earlier poll that are not done yet included. *)

Pending(e) == {t \in 1..created : executor[t] = e /\ postgres[t] = "pending"}

ExecutorPolls(e) ==
  /\ e \notin ended
  /\ \E t \in Pending(e) : jobs[t] < MaxJobs
  /\ jobs' = [t \in Task |->
                IF t \in Pending(e) /\ jobs[t] < MaxJobs
                THEN jobs[t] + 1 ELSE jobs[t]]
  /\ UNCHANGED <<taskVars, storeVars, lost, ended, resolves, faults>>

(* Mutant: a plan that was not accepted leaves its task as it is. *)
JobPostsOrGivesUp(t) ==
  /\ jobs[t] > 0 /\ t \notin lost
  /\ jobs' = [jobs EXCEPT ![t] = @ - 1]
  /\ Ask(t, "completed") \/ UNCHANGED <<requests, unsure>>
  /\ UNCHANGED <<taskVars, postgres, graph, lost, ended, resolves, faults>>

(* Mutant: the task is settled in the words plans use. *)
JobPostsAsPlan(t) ==
  /\ jobs[t] > 0 /\ t \notin lost
  /\ jobs' = [jobs EXCEPT ![t] = @ - 1]
  /\ \E status \in {"succeeded", "failed"} : Ask(t, status)
  /\ UNCHANGED <<taskVars, postgres, graph, lost, ended, resolves, faults>>

(* The plan is read and posted for execution, and the task is settled with what the
   execution service says of the request. *)
JobPosts(t) ==
  /\ jobs[t] > 0 /\ t \notin lost
  /\ jobs' = [jobs EXCEPT ![t] = @ - 1]
  /\ \E status \in {"completed", "failed"} : Ask(t, status)
  /\ UNCHANGED <<taskVars, postgres, graph, lost, ended, resolves, faults>>

(* Without its plan a job returns, and so does the job of every later poll;
   and the client of an executor that has ended is closed. *)
JobReturns(t) ==
  /\ jobs[t] > 0
  /\ t \in lost \/ executor[t] \in ended
  /\ jobs' = [jobs EXCEPT ![t] = @ - 1]
  /\ UNCHANGED <<taskVars, storeVars, lost, ended, resolves, faults>>

(* A request fails; the plan may be under execution all the same.  The task
   stays pending. *)
JobFails(t) ==
  /\ Fault
  /\ jobs[t] > 0
  /\ jobs' = [jobs EXCEPT ![t] = @ - 1]
  /\ UNCHANGED <<taskVars, storeVars, lost, ended, resolves>>

(* The heartbeats are gathered with the polls: when one cannot be sent, or the
   agent could not start, run() ends and stops the agent.  Whoever runs it
   writes "crashed" into a registry and does nothing else. *)
ExecutorEnds(e) ==
  /\ e \notin ended
  /\ Fault
  /\ ended' = ended \cup {e}
  /\ UNCHANGED <<taskVars, storeVars, lost, jobs, resolves>>

(* Plans are kept for a day. *)
PlanLost(t) ==
  /\ t \in 1..created /\ t \notin lost
  /\ Fault
  /\ lost' = lost \cup {t}
  /\ UNCHANGED <<taskVars, storeVars, ended, jobs, resolves>>

-------------------------------------------------------------------------------
(* AgentCoordinator and ConflictResolver *)

Competing(x) == {t \in 1..created : target[t] = x /\ graph[t] = "pending"}

(* One resolve() for each entity with more than one pending node. *)
DetectConflicts ==
  LET conflicts == {x \in Target : \E t, u \in Competing(x) : t # u}
  IN  /\ conflicts # {}
      /\ Cardinality(resolves) + Cardinality(conflicts) <= MaxResolves
      /\ \E winner \in [conflicts -> Task] :
           /\ \A x \in conflicts : winner[x] \in Competing(x)
           /\ resolves' = resolves \cup
                {[losers |-> Competing(x) \ {winner[x]},
                  left |-> Competing(x) \ {winner[x]}, sent |-> 0] : x \in conflicts}
  /\ UNCHANGED <<taskVars, storeVars, lost, ended, jobs, faults>>

Answered(c) ==
  \A q \in requests : ~(q.task = c.sent /\ q.status = "cancelled")

(* Mutant: as when plans are merged, only the loser's plan is deleted. *)
CancelNextPlanOnly(c) ==
  /\ c \in resolves /\ Answered(c)
  /\ \E t \in c.left :
       resolves' = (resolves \ {c}) \cup {[c EXCEPT !.left = @ \ {t}, !.sent = t]}
  /\ UNCHANGED <<taskVars, storeVars, lost, ended, jobs, faults>>

(* The plan to delete is "plan_unknown", for want of another: nothing comes of
   it.  Then the task is cancelled. *)
CancelNext(c) ==
  /\ c \in resolves /\ Answered(c)
  /\ \E t \in c.left :
       /\ Ask(t, "cancelled")
       /\ resolves' = (resolves \ {c}) \cup {[c EXCEPT !.left = @ \ {t}, !.sent = t]}
  /\ UNCHANGED <<taskVars, postgres, graph, lost, ended, jobs, faults>>

ResolveEnds(c) ==
  /\ c \in resolves /\ Answered(c) /\ c.left = {}
  /\ resolves' = resolves \ {c}
  /\ UNCHANGED <<taskVars, storeVars, lost, ended, jobs, faults>>

ResolveFails(c) ==
  /\ c \in resolves
  /\ Fault
  /\ resolves' = resolves \ {c}
  /\ UNCHANGED <<taskVars, storeVars, lost, ended, jobs>>

(* The process of the coordinator and all its agents is started anew.  What
   the World Model has been asked it still does. *)
CoordinatorRestarts ==
  /\ Fault
  /\ jobs' = [t \in Task |-> 0]
  /\ ended' = {} /\ resolves' = {}
  /\ UNCHANGED <<taskVars, storeVars, lost>>

-------------------------------------------------------------------------------
ResolverAction ==
  \/ DetectConflicts
  \/ \E c \in resolves : CancelNext(c) \/ ResolveEnds(c)

Failure ==
  \/ \E q \in requests : WriteFails(q)
  \/ \E t \in Task : JobFails(t) \/ PlanLost(t)
  \/ \E e \in Executor : ExecutorEnds(e)
  \/ \E c \in resolves : ResolveFails(c)
  \/ CoordinatorRestarts

Next ==
  \/ \E e \in Executor, x \in Target : PlannerDelegates(e, x)
  \/ \E q \in requests : WriteLands(q)
  \/ \E e \in Executor : ExecutorPolls(e)
  \/ \E t \in Task : JobPosts(t) \/ JobReturns(t)
  \/ ResolverAction
  \/ Failure

Spec == Init /\ [][Next]_vars

(* Timers run the polls of an executor that has not ended, and requests are
   answered or fail.  Nothing is assumed of the planners, since a signal may
   come to nothing, and nothing starts an executor again but a restart of all,
   which need not come. *)
FairSpec ==
  /\ Spec
  /\ \A e \in Executor : WF_vars(ExecutorPolls(e))
  /\ \A t \in Task : WF_vars(JobPosts(t) \/ JobReturns(t))
  /\ \A t \in Task : WF_vars(\E q \in requests : q.task = t /\ WriteLands(q))

-------------------------------------------------------------------------------
(* Properties *)

(* The two stores agree on a task no write of which is under way, unless two
   writes of it were at once, which may take effect in one order in one store
   and in the other order in the other, or one failed (core.py:217-236,
   256-264; causal_engine.py:158-164). *)
StoresAgree ==
  \A t \in Task : t \notin unsure /\ (\A q \in requests : q.task # t) =>
    postgres[t] = graph[t]

(* A loser whose cancellation has been asked for and answered is pending in
   neither store, so that no executor picks it up again, when no request fails:
   it is cancelled, or settled by an executor at the same time
   (conflict_resolver.py:50-59, core.py:256-264). *)
LosersSettled ==
  faults = 0 =>
    \A c \in resolves : \A t \in c.losers \ c.left :
      (\A q \in requests : ~(q.task = t /\ q.status = "cancelled")) =>
        postgres[t] # "pending" /\ graph[t] # "pending"

(* An executor settles every task it is given, or sees it cancelled, unless
   its plan is lost or the executor ends: a job that dies, with a request of
   its own or with the process, leaves its task to the next poll
   (executor_agent.py:20-29, 38-62).  An executor that ends, as one failed
   heartbeat makes it (executor_agent.py:14, base_agent.py:113-117), leaves its
   tasks pending for good: coordinator.py:102-111 starts nobody again. *)
Settles ==
  \A t \in Task :
    postgres[t] = "pending" ~>
      postgres[t] # "pending" \/ t \in lost \/ executor[t] \in ended

===============================================================================
