----------------------------- MODULE PlanExecution -----------------------------
(***************************************************************************)
(* One plan while it is executed: PlanRunner (execution/runner.py) with    *)
(* PlanMonitor (planning/monitor.py) and the human handoff handler on one  *)
(* side, the Planning API (planning/api.py) on the other.  The two sides   *)
(* share nothing but the copy in Redis (planning/store.py), and each       *)
(* writes that copy as a whole: the runner from the plan it holds in       *)
(* memory, which it never reads again, an API call from the copy it read   *)
(* before an await.                                                        *)
(*                                                                         *)
(* asyncio runs a coroutine without interruption up to its next await, so  *)
(* an action is a stretch of code from one await to the next.              *)
(***************************************************************************)
EXTENDS PlanSchema, FiniteSets

CONSTANTS Plans,       \* the plans PlanStore may hold when execution begins
          Run,         \* calls of PlanRunner.execute for this plan
          MaxCalls,    \* bound on calls of approve, delete and append
          Appendable,  \* steps of other plans the append endpoint may copy
          MaxFaults    \* bound on failed Kafka sends, failed saves and crashes

(* The ids of the gates of a plan. *)
GateIds(plan) == {plan.steps[i].id :
                    i \in {j \in DOMAIN plan.steps : plan.steps[j].isApprovalGate}}

(* The actions HumanHandoffHandler serves. *)
Handoffs == {"human_handoff", "escalate_to_human"}

(* A gate is served by the handoff handler; its id is no other step's, and
   below the "s{len(steps)}" that an appended step is given. *)
WellGated(plan) ==
  \A i \in DOMAIN plan.steps :
    plan.steps[i].isApprovalGate =>
      /\ plan.steps[i].action \in Handoffs
      /\ plan.steps[i].id < Len(plan.steps)
      /\ \A j \in DOMAIN plan.steps : plan.steps[j].id = plan.steps[i].id => j = i

(* No plan arrives with a step already done. *)
ASSUME PlansAssumption ==
  \A p \in Plans :
    /\ p \in Plan
    /\ WellGated(p)
    /\ \A i \in DOMAIN p.steps : p.steps[i].status = "pending"

(* "human_handoff" is no action of actions.yaml, so no task asks for it and
   the append endpoint never copies a gate. *)
ASSUME AppendableAssumption ==
  Appendable \subseteq {s \in PlanStep : ~s.isApprovalGate}

ASSUME BoundsAssumption == MaxCalls \in Nat /\ MaxFaults \in Nat

(* ActionRegistry._map: the actions with a handler. *)
Registered == {"scale_consumer_group", "restart_connection_pool",
               "kill_slow_query", "scale_read_replicas",
               "scale_service_horizontal", "enable_circuit_breaker",
               "restart_service", "send_alert", "escalate_to_human",
               "human_handoff", "increase_log_verbosity", "monitor_and_wait"}

VARIABLES
  store,      \* the plan's value in Redis
  mem,        \* the Plan object each run works on
  pc,         \* where each run's execute() is
  task,       \* where the _run_step of each step of each run is
  saving,     \* copies of the plan that gates are writing to Redis
  calls,      \* API calls so far
  requests,   \* the API calls under way, each with the copy it is to write
  approved,   \* whether an operator has ever approved a waiting gate
  performed,  \* <<r, i>>: run r has performed the action of its step i
  published,  \* plan events each run's monitor has published
  faults      \* faults so far

vars == <<store, mem, pc, task, saving, calls, requests, approved, performed,
          published, faults>>

(* dead: execute() left by an exception, or lost with its process. *)
RunState == {"idle", "fetched", "starting", "loop", "wave", "joined",
             "finishing", "done", "dead"}

TaskState == {"none", "saving", "saved", "handler", "acted", "reporting",
              "checking", "announcing", "finished"}

PlanEvent == {"plan_succeeded", "plan_rolling_back", "plan_aborted"}

TypeOK ==
  /\ store \in Plan
  /\ mem \in [Run -> Plan]
  /\ pc \in [Run -> RunState]
  /\ DOMAIN task = Run
  /\ \A r \in Run : task[r] \in [DOMAIN mem[r].steps -> TaskState]
  /\ saving \subseteq [run: Run, step: Nat, plan: Plan]
  /\ calls \in 0..MaxCalls
  /\ requests \subseteq [call: 1..MaxCalls, plan: Plan]
  /\ approved \in BOOLEAN
  /\ performed \subseteq Run \X Nat
  /\ published \in [Run -> SUBSET PlanEvent]
  /\ faults \in 0..MaxFaults

Init ==
  /\ store \in Plans
  /\ mem = [r \in Run |-> store]
  /\ pc = [r \in Run |-> "idle"]
  /\ task = [r \in Run |-> [i \in DOMAIN store.steps |-> "none"]]
  /\ saving = {}
  /\ calls = 0
  /\ requests = {}
  /\ approved = FALSE
  /\ performed = {}
  /\ published = [r \in Run |-> {}]
  /\ faults = 0

-------------------------------------------------------------------------------
(* PlanRunner.execute *)

(* An executor reads the plan, to post it to the execution service. *)
Fetch(r) ==
  /\ pc[r] = "idle"
  /\ mem' = [mem EXCEPT ![r] = store]
  /\ task' = [task EXCEPT ![r] = [i \in DOMAIN store.steps |-> "none"]]
  /\ pc' = [pc EXCEPT ![r] = "fetched"]
  /\ UNCHANGED <<store, saving, calls, requests, approved, performed, published, faults>>

(* Whatever status the plan came with, it is now running. *)
Execute(r) ==
  /\ pc[r] = "fetched"
  /\ mem' = [mem EXCEPT ![r] = SetStatus(@, "running")]
  /\ pc' = [pc EXCEPT ![r] = "starting"]
  /\ UNCHANGED <<store, task, saving, calls, requests, approved, performed, published,
                 faults>>

(* Mutant: the plan is also saved while its steps are under way. *)
SaveLandsAnyTime(r) ==
  /\ pc[r] \in {"starting", "wave", "joined", "finishing"}
  /\ store' = mem[r]
  /\ pc' = [pc EXCEPT ![r] = IF @ = "finishing" THEN "done"
                             ELSE IF @ = "wave" THEN @ ELSE "loop"]
  /\ UNCHANGED <<mem, task, saving, calls, requests, approved, performed,
                 published, faults>>

(* A save made by execute() itself.  Nothing of the run is active meanwhile,
   so what it writes is the plan in memory. *)
SaveLands(r) ==
  /\ pc[r] \in {"starting", "joined", "finishing"}
  /\ store' = mem[r]
  /\ pc' = [pc EXCEPT ![r] = IF @ = "finishing" THEN "done" ELSE "loop"]
  /\ UNCHANGED <<mem, task, saving, calls, requests, approved, performed, published,
                 faults>>

(* Mutant: the loop does not look at the plan's status. *)
GoesOnWhileIncomplete(plan) == ~IsComplete(plan)

GoesOn(plan) == ~IsComplete(plan) /\ plan.status = "running"

(* The first stretch of _run_step: what it makes of its step. *)
Launched(step) ==
  CASE step.isApprovalGate          -> "waiting_approval"
    [] ~step.isApprovalGate /\ step.action \in Registered    -> "running"
    [] ~step.isApprovalGate /\ step.action \notin Registered -> "failed"

Launch(plan, S) ==
  [plan EXCEPT !.steps =
     [i \in DOMAIN plan.steps |->
        IF i \in S
        THEN [plan.steps[i] EXCEPT !.status = Launched(plan.steps[i])]
        ELSE plan.steps[i]]]

(* Mutant: the save of a gate is not awaited. *)
FirstTaskNotAwaiting(step) ==
  CASE Launched(step) = "waiting_approval" -> "saved"
    [] Launched(step) = "running"          -> "handler"
    [] Launched(step) = "failed"           -> "reporting"

FirstTask(step) ==
  CASE Launched(step) = "waiting_approval" -> "saving"
    [] Launched(step) = "running"          -> "handler"
    [] Launched(step) = "failed"           -> "reporting"

(* gather starts the ready steps in list order, each up to its first await.
   A gate serialises the plan there: its copy has the steps before it
   launched and those after it not yet. *)
Snapshot(plan, ready, i) == Launch(plan, {j \in ready : j <= i})

StartWave(r) ==
  LET plan  == mem[r]
      ready == ReadySteps(plan)
      gates == {i \in ready : plan.steps[i].isApprovalGate}
  IN  /\ pc[r] = "loop"
      /\ GoesOn(plan)
      /\ ready # {}
      /\ mem' = [mem EXCEPT ![r] = Launch(plan, ready)]
      /\ task' = [task EXCEPT ![r] =
                    [i \in DOMAIN plan.steps |->
                       IF i \in ready THEN FirstTask(plan.steps[i])
                                      ELSE task[r][i]]]
      /\ saving' = saving \cup
                   {[run |-> r, step |-> i,
                     plan |-> Snapshot(plan, ready, i)] : i \in gates}
      /\ pc' = [pc EXCEPT ![r] = "wave"]
      /\ UNCHANGED <<store, calls, requests, approved, performed, published, faults>>

(* gather returns when every step of the wave has. *)
WaveJoins(r) ==
  /\ pc[r] = "wave"
  /\ \A i \in DOMAIN task[r] : task[r][i] \in {"none", "finished"}
  /\ pc' = [pc EXCEPT ![r] = "joined"]
  /\ UNCHANGED <<store, mem, task, saving, calls, requests, approved, performed,
                 published, faults>>

(* The loop is left: the plan is complete, no longer running, or nothing is
   ready. *)
Finish(r) ==
  /\ pc[r] = "loop"
  /\ ~GoesOn(mem[r]) \/ ReadySteps(mem[r]) = {}
  /\ IF mem[r].status = "running" /\ IsComplete(mem[r])
     THEN /\ mem' = [mem EXCEPT ![r] = SetStatus(@, "succeeded")]
          /\ pc' = [pc EXCEPT ![r] = "finishing"]
     ELSE /\ pc' = [pc EXCEPT ![r] = "done"]
          /\ UNCHANGED mem
  /\ UNCHANGED <<store, task, saving, calls, requests, approved, performed, published,
                 faults>>

-------------------------------------------------------------------------------
(* PlanRunner._run_step for step i of run r *)

At(r, i, t) == i \in DOMAIN task[r] /\ task[r][i] = t

Goto(r, i, t) == task' = [task EXCEPT ![r][i] = t]

(* The save of a gate reaches Redis. *)
GateSaveLands(w) ==
  /\ w \in saving
  /\ store' = w.plan
  /\ saving' = saving \ {w}
  /\ Goto(w.run, w.step, "saved")
  /\ UNCHANGED <<mem, pc, calls, requests, approved, performed, published, faults>>

(* Only now does the plan await approval, and only in memory. *)
GateOpens(r, i) ==
  /\ At(r, i, "saved")
  /\ LET waiting == SetStatus(mem[r], "awaiting_approval")
     IN  IF mem[r].steps[i].action \in Registered
         THEN /\ mem' = [mem EXCEPT ![r] = waiting]
              /\ Goto(r, i, "handler")
         ELSE /\ mem' = [mem EXCEPT ![r] = SetStep(waiting, i, "failed")]
              /\ Goto(r, i, "reporting")
  /\ UNCHANGED <<store, pc, saving, calls, requests, approved, performed, published,
                 faults>>

(* A handler other than the handoff performs its action. *)
Act(r, i) ==
  /\ At(r, i, "handler")
  /\ mem[r].steps[i].action \notin Handoffs
  /\ performed' = performed \cup {<<r, i>>}
  /\ Goto(r, i, "acted")
  /\ UNCHANGED <<store, mem, pc, saving, calls, requests, approved, published, faults>>

(* Mutant: a gate that has not been rejected counts as approved. *)
AnswersNotNo(plan) ==
  \E i \in DOMAIN plan.steps : /\ plan.steps[i].isApprovalGate
                               /\ plan.steps[i].status # "failed"

(* HumanHandoffHandler goes through the steps of the stored plan.  The first
   decided gate it meets is the answer, whichever step is asking. *)
AnswersYes(plan) ==
  \E i \in DOMAIN plan.steps :
    /\ plan.steps[i].isApprovalGate
    /\ plan.steps[i].status = "succeeded"
    /\ \A j \in 1..(i-1) :
         ~(plan.steps[j].isApprovalGate /\ plan.steps[j].status = "failed")

PollApproved(r, i) ==
  /\ At(r, i, "handler")
  /\ mem[r].steps[i].action \in Handoffs
  /\ AnswersYes(store)
  /\ Goto(r, i, "acted")
  /\ UNCHANGED <<store, mem, pc, saving, calls, requests, approved, performed,
                 published, faults>>

(* Mutant: a passed gate does not set the plan running again. *)
ResultLeavingStatus(r, i, status) ==
  /\ mem' = [mem EXCEPT ![r] = SetStep(@, i, status)]
  /\ Goto(r, i, "reporting")
  /\ UNCHANGED <<store, pc, saving, calls, requests, approved, performed,
                 published, faults>>

(* The step gets its result, and a passed gate sets the plan running again. *)
Result(r, i, status) ==
  LET plan == SetStep(mem[r], i, status)
  IN  /\ mem' = [mem EXCEPT ![r] =
                   IF plan.steps[i].isApprovalGate /\ status = "succeeded"
                   THEN SetStatus(plan, "running") ELSE plan]
      /\ Goto(r, i, "reporting")
      /\ UNCHANGED <<store, pc, saving, calls, requests, approved, performed,
                     published, faults>>

StepSucceeds(r, i) ==
  /\ At(r, i, "acted")
  /\ Result(r, i, "succeeded")

(* Mutant: a handoff has no timeout. *)
StepFailsUnlessHandoff(r, i) ==
  /\ \/ At(r, i, "handler") /\ mem[r].steps[i].action \notin Handoffs
     \/ At(r, i, "acted")
  /\ Result(r, i, "failed")

(* The handler raises, an operator's rejection is polled, or the timeout
   strikes, which it also may between the action and its answer. *)
StepFails(r, i) ==
  /\ At(r, i, "handler") \/ At(r, i, "acted")
  /\ Result(r, i, "failed")

-------------------------------------------------------------------------------
(* PlanMonitor.on_step_completed *)

(* Mutant: the failure policy is taken for the status. *)
VerdictAsPolicy(step) == step.onFailure

Verdict(step) ==
  IF step.onFailure = "rollback" THEN "rolled_back" ELSE "aborted"

(* Mutant: after a rollback or an abort the criteria are checked all the same. *)
ReportedNotReturning(r, i) ==
  LET step == mem[r].steps[i]
  IN  /\ At(r, i, "reporting")
      /\ IF step.status = "failed" /\ step.onFailure # "continue"
         THEN mem' = [mem EXCEPT ![r] = SetStatus(@, Verdict(step))]
         ELSE UNCHANGED mem
      /\ Goto(r, i, IF mem[r].checksResolved THEN "checking" ELSE "finished")
      /\ UNCHANGED <<store, pc, saving, calls, requests, approved, performed,
                     published, faults>>

(* The step's event is sent, and its outcome is judged. *)
Reported(r, i) ==
  LET step == mem[r].steps[i]
  IN  /\ At(r, i, "reporting")
      /\ IF step.status = "failed" /\ step.onFailure # "continue"
         THEN /\ mem' = [mem EXCEPT ![r] = SetStatus(@, Verdict(step))]
              /\ Goto(r, i, "announcing")
         ELSE /\ UNCHANGED mem
              /\ Goto(r, i, IF step.status # "failed" /\ mem[r].checksResolved
                            THEN "checking" ELSE "finished")
      /\ UNCHANGED <<store, pc, saving, calls, requests, approved, performed,
                     published, faults>>

(* No anomaly of the criterion's type is open: the plan has succeeded,
   whatever steps it still has. *)
CriterionMet(r, i) ==
  /\ At(r, i, "checking")
  /\ mem' = [mem EXCEPT ![r] = SetStatus(@, "succeeded")]
  /\ Goto(r, i, "announcing")
  /\ UNCHANGED <<store, pc, saving, calls, requests, approved, performed, published,
                 faults>>

(* One is open, or the World Model does not answer. *)
CriterionNotMet(r, i) ==
  /\ At(r, i, "checking")
  /\ Goto(r, i, "finished")
  /\ UNCHANGED <<store, mem, pc, saving, calls, requests, approved, performed,
                 published, faults>>

Announcement(step) == IF step.status # "failed" THEN "plan_succeeded"
                      ELSE IF step.onFailure = "abort" THEN "plan_aborted"
                      ELSE "plan_rolling_back"

(* The plan's event is sent.  The rollback_executed events that follow a
   plan_rolling_back change no state. *)
Announced(r, i) ==
  /\ At(r, i, "announcing")
  /\ published' = [published EXCEPT ![r] = @ \cup {Announcement(mem[r].steps[i])}]
  /\ Goto(r, i, "finished")
  /\ UNCHANGED <<store, mem, pc, saving, calls, requests, approved, performed, faults>>

-------------------------------------------------------------------------------
(* Failures.  An exception leaves execute() through gather, which does not
   stop the other steps of the wave; nothing calls execute() again. *)

Dead(r) == pc' = [pc EXCEPT ![r] = "dead"]

Fault == faults < MaxFaults /\ faults' = faults + 1

EmitFails(r, i) ==
  /\ At(r, i, "reporting") \/ At(r, i, "announcing")
  /\ Fault
  /\ Goto(r, i, "finished")
  /\ Dead(r)
  /\ UNCHANGED <<store, mem, saving, calls, requests, approved, performed, published>>

SaveFails(r) ==
  /\ pc[r] \in {"starting", "joined", "finishing"}
  /\ Fault
  /\ Dead(r)
  /\ UNCHANGED <<store, mem, task, saving, calls, requests, approved, performed, published>>

GateSaveFails(w) ==
  /\ w \in saving
  /\ Fault
  /\ saving' = saving \ {w}
  /\ Goto(w.run, w.step, "finished")
  /\ Dead(w.run)
  /\ UNCHANGED <<store, mem, calls, requests, approved, performed, published>>

(* The execution service dies with the runs it holds. *)
Crash ==
  /\ Fault
  /\ pc' = [r \in Run |-> IF pc[r] \in {"idle", "fetched", "done"} THEN pc[r]
                                                              ELSE "dead"]
  /\ task' = [r \in Run |-> [i \in DOMAIN task[r] |->
                IF task[r][i] = "none" THEN "none" ELSE "finished"]]
  /\ saving' = {}
  /\ UNCHANGED <<store, mem, calls, requests, approved, performed, published>>

-------------------------------------------------------------------------------
(* Planning API: each call reads the plan, changes its copy, and writes the
   copy back later. *)

Approve(plan) ==
  LET steps == [i \in DOMAIN plan.steps |->
                  IF /\ plan.steps[i].isApprovalGate
                     /\ plan.steps[i].status = "waiting_approval"
                  THEN [plan.steps[i] EXCEPT !.status = "succeeded"]
                  ELSE plan.steps[i]]
  IN  [plan EXCEPT !.steps = steps,
                   !.status = IF @ = "awaiting_approval" THEN "running" ELSE @]

(* A step of another plan goes to the end, under a new id, behind the last. *)
AppendStep(plan, step) ==
  LET last == plan.steps[Len(plan.steps)]
      new  == [step EXCEPT !.id = Len(plan.steps),
                           !.dependsOn = IF plan.steps = <<>> THEN {} ELSE {last.id}]
  IN  [plan EXCEPT !.steps = Append(@, new)]

Reads(plan) ==
  /\ calls < MaxCalls
  /\ calls' = calls + 1
  /\ requests' = requests \cup {[call |-> calls + 1, plan |-> plan]}
  /\ UNCHANGED <<store, mem, pc, task, saving, performed, published, faults>>

ApproveReads ==
  /\ Reads(Approve(store))
  /\ approved' = (approved \/ Approve(store).steps # store.steps)

DeleteReads == Reads(SetStatus(store, "aborted")) /\ UNCHANGED approved

(* The other plan may also lack the wanted step: the plan is saved as read. *)
AppendReads ==
  /\ \E plan \in {store} \cup {AppendStep(store, s) : s \in Appendable} : Reads(plan)
  /\ UNCHANGED approved

RequestWrites(q) ==
  /\ q \in requests
  /\ store' = q.plan
  /\ requests' = requests \ {q}
  /\ UNCHANGED <<mem, pc, task, saving, calls, approved, performed, published,
                 faults>>

-------------------------------------------------------------------------------
StepAction(r, i) ==
  \/ GateOpens(r, i)
  \/ Act(r, i)
  \/ PollApproved(r, i)
  \/ StepSucceeds(r, i)
  \/ StepFails(r, i)
  \/ Reported(r, i)
  \/ CriterionMet(r, i)
  \/ CriterionNotMet(r, i)
  \/ Announced(r, i)

RunAction(r) ==
  \/ Execute(r)
  \/ SaveLands(r)
  \/ StartWave(r)
  \/ WaveJoins(r)
  \/ Finish(r)
  \/ \E w \in saving : w.run = r /\ GateSaveLands(w)
  \/ \E i \in DOMAIN task[r] : StepAction(r, i)

Failure ==
  \/ \E r \in Run : SaveFails(r) \/ \E i \in DOMAIN task[r] : EmitFails(r, i)
  \/ \E w \in saving : GateSaveFails(w)
  \/ Crash

ApiAction ==
  \/ ApproveReads
  \/ DeleteReads
  \/ AppendReads
  \/ \E q \in requests : RequestWrites(q)

Next ==
  \/ \E r \in Run : Fetch(r) \/ RunAction(r)
  \/ ApiAction
  \/ Failure

Spec == Init /\ [][Next]_vars

(* The event loop runs every coroutine that can go on, Kafka and Redis answer
   or fail, and wait_for ends every handler (StepFails).  Nothing is assumed
   of the operator, the executor or the conflict resolver. *)
FairSpec == Spec /\ \A r \in Run : WF_vars(RunAction(r))

-------------------------------------------------------------------------------
(* Properties *)

(* Every step waits for the one before it and nothing else.  Appending to a
   plan whose ids begin at s1 repeats an id, and a second append then waits for
   either of its bearers. *)
IsChain(plan) ==
  \A i \in DOMAIN plan.steps :
    /\ plan.steps[i].dependsOn = IF i = 1 THEN {} ELSE {plan.steps[i-1].id}
    /\ \A j \in DOMAIN plan.steps : plan.steps[j].id = plan.steps[i].id => j = i

(* The steps that are under way or over without run r having started them: by
   another run, or as steps of the plan they were appended from. *)
Found(r) == {i \in DOMAIN mem[r].steps : /\ task[r][i] = "none"
                                         /\ mem[r].steps[i].status # "pending"}

(* Run r takes the steps of a chain one by one.  It would start two in one wave
   if a step that came as done were appended behind steps still to do. *)
OneByOne(r) == IsChain(mem[r]) /\ \A i \in Found(r) : 1..i \subseteq Found(r)

HasApprovedGate(plan) ==
  \E i \in DOMAIN plan.steps : /\ plan.steps[i].isApprovalGate
                               /\ plan.steps[i].status = "succeeded"

(* No run performs the action of a step behind an approval gate unless an
   operator has approved the plan, whatever copies of the plan are written
   over each other in Redis and whichever run polls them (runner.py:30,
   human.py:34-38). *)
GateRespected ==
  \A r \in Run : \A i \in DOMAIN mem[r].steps :
    /\ <<r, i>> \in performed
    /\ mem[r].steps[i].dependsOn \cap GateIds(mem[r]) # {}
    => approved

(* When the only run is over and the Planning API was not called, Redis holds
   the plan as the run left it: no save of a gate lands late over the last
   save of the loop (runner.py:46-52, 59). *)
StoreAgrees ==
  \A r \in Run :
    /\ pc[r] = "done"
    /\ calls = 0
    /\ \A s \in Run \ {r} : pc[s] = "idle"
    => store = mem[r]

EventOf == [succeeded |-> {"plan_succeeded"}, rolled_back |-> {"plan_rolling_back"},
            aborted |-> {"plan_aborted"}]

(* When a run takes its steps one by one, what the monitor has published is the
   outcome the run ends with: no plan is announced as rolled back or aborted and then
   set running or succeeded (monitor.py:39-51, runner.py:103-104). *)
PublishedOutcomeIsFinal ==
  \A r \in Run :
    pc[r] \in {"loop", "joined", "done"} /\ OneByOne(r) =>
      IF mem[r].status \in DOMAIN EventOf
      THEN published[r] \subseteq EventOf[mem[r].status]
      ELSE published[r] = {}

(* When a run that takes its steps one by one is over, and its plan is neither
   succeeded, rolled back nor aborted, it has stopped at a step that failed with
   on_failure "continue", or at one that it found neither to do nor succeeded
   (runner.py:35-54): nothing else leaves a plan open for ever. *)
LeftOpenOnlyBehind ==
  \A r \in Run :
    /\ pc[r] = "done"
    /\ OneByOne(r)
    /\ mem[r].status \notin {"succeeded", "rolled_back", "aborted"}
    => \E i \in DOMAIN mem[r].steps :
         LET step == mem[r].steps[i]
         IN  \/ step.status = "failed" /\ step.onFailure = "continue"
             \/ i \in Found(r) /\ step.status # "succeeded"

Failed(r) == {i \in DOMAIN task[r] : /\ task[r][i] # "none"
                                    /\ mem[r].steps[i].status = "failed"
                                    /\ mem[r].steps[i].onFailure # "continue"}

NoParallelGate(plan) ==
  \A i \in DOMAIN plan.steps : plan.steps[i].isApprovalGate =>
    \A j \in DOMAIN plan.steps \ {i} : plan.steps[i].id \in plan.steps[j].dependsOn

(* After a failure that calls for rollback or abort, a run starts no further
   wave, unless an approval gate shared the wave of the failed step: the gate,
   once passed, sets the plan running again (runner.py:35, 103-104). *)
HaltsOnFailure ==
  [][\A r \in Run : /\ pc[r] = "loop" /\ pc'[r] = "wave"
                    /\ NoParallelGate(mem[r])
                    => Failed(r) = {}]_vars

GatesOf(plan) == {i \in DOMAIN plan.steps : plan.steps[i].isApprovalGate}

Recorded(plan, i) ==
  i \in DOMAIN plan.steps /\ plan.steps[i].status = "succeeded"

(* While a run polls the only gate of its plan, an approval that has reached
   Redis is undone only by an API call that had read the plan before
   (runner.py:80-89, planning/api.py:81-96). *)
OnlyStaleWritesUndo ==
  [][\A r \in Run : \A i \in DOMAIN mem[r].steps :
       /\ GatesOf(mem[r]) = {i}
       /\ At(r, i, "handler") /\ At(r, i, "handler")'
       /\ \A s \in Run \ {r} : pc[s] = "idle"
       /\ Recorded(store, i) /\ ~Recorded(store', i)
       => \E q \in requests \ requests' : store' = q.plan]_vars

(* Run r seen from outside: the steps, the outcome and the announcements of a
   plan whose steps it takes one by one. *)
Seen(r) == pc[r] \notin {"idle", "fetched"} /\ OneByOne(r)

Stage(r) == CASE pc[r] \in {"idle", "fetched"}        -> "waiting"
              [] pc[r] \in {"done", "dead"}           -> IF Seen(r) THEN pc[r] ELSE "other"
              [] pc[r] \notin {"idle", "fetched", "done", "dead"}
                                                     -> IF Seen(r) THEN "running" ELSE "other"

Settled == [pending |-> "todo", succeeded |-> "passed", skipped |-> "skipped",
            running |-> "open", failed |-> "open", waiting_approval |-> "open"]

StepSeen(status, t) == IF t \in {"none", "finished"} THEN Settled[status] ELSE "doing"

StepsSeen(r) ==
  IF Seen(r)
  THEN [i \in DOMAIN mem[r].steps |-> StepSeen(mem[r].steps[i].status, task[r][i])]
  ELSE <<>>

PerformedSeen(r) ==
  IF Seen(r) THEN {i \in DOMAIN mem[r].steps : <<r, i>> \in performed} ELSE {}

OutcomeSeen(r) ==
  IF Seen(r) /\ mem[r].status \in DOMAIN EventOf THEN mem[r].status ELSE "none"

AnnouncedSeen(r) ==
  IF Seen(r) THEN {s \in DOMAIN EventOf : EventOf[s] \cap published[r] # {}} ELSE {}

Sequential(r) == INSTANCE SequentialRun WITH
  stage <- Stage(r), steps <- StepsSeen(r), performed <- PerformedSeen(r),
  outcome <- OutcomeSeen(r), announced <- AnnouncedSeen(r)

(* Every run implements SequentialRun, whatever the API calls, the other runs
   and the failures around it: no step is taken out of turn or twice, and the
   outcome is decided once, announced once and followed by nothing
   (runner.py:35-54, 56-108, monitor.py:26-51). *)
RunsInSequence ==
  /\ \A r \in Run : Sequential(r)!Init
  /\ [][\A r \in Run : UNCHANGED Sequential(r)!vars \/ Sequential(r)!Next]_vars

(* Every execution ends, whether or not an operator ever answers: it runs to
   its last save or is left by an exception (runner.py:35-54, 80-98). *)
RunEnds == \A r \in Run : pc[r] = "starting" ~> pc[r] \in {"done", "dead"}

-------------------------------------------------------------------------------
(* What the documentation says and the code does not do *)

(* runner.py:28, "Drive a Plan to completion or failure." *)
DrivesToEnd ==
  \A r \in Run : pc[r] = "done" =>
    mem[r].status \in {"succeeded", "failed", "rolled_back", "aborted"}

(* planning/api.py:102, "Mark a plan as aborted/cancelled." *)
AbortStands == [][store.status = "aborted" => store'.status = "aborted"]_vars
================================================================================
