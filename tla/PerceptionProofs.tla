----------------------------- MODULE PerceptionProofs -----------------------------
(***************************************************************************)
(* Proofs about Perception, for every set of sources, of readings and of   *)
(* deployments: the sources that are polled, the logs, the monitor's       *)
(* marks, the reports of the pollers, the recoveries and problems that the *)
(* World Model is told, and the types.  Each has an inductive invariant of *)
(* its own, over the variables it is about, and may rest on earlier ones.  *)
(***************************************************************************)
EXTENDS Perception, FiniteSetTheorems, SequenceTheorems, WellFoundedInduction, TLAPS

(* Every step leaves the deployment alone. *)
LEMMA DeploymentIsFixed == [Next]_perceptionVars => deployment' = deployment
<1> SUFFICES ASSUME [Next]_perceptionVars PROVE deployment' = deployment
  OBVIOUS
<1>1. CASE \E t \in Used : Start(t)
  BY <1>1 DEF Start
<1>2. CASE Crash
  BY <1>2 DEF Crash
<1>3. CASE \E p \in DOMAIN poller : PollerStep(p)
  BY <1>3 DEF PollerStep, Observe, Check, PollBreaks, Breaks, Send, SendFails,
              RecoveryFails, deployVars
<1>4. CASE \E s \in Arriving : ArrivalStep(s)
  BY <1>4 DEF ArrivalStep, Arrives, SendArrived, DropArrived, CommitLog, CommitFails,
              LogRaises, LogBreaks, deployVars
<1>5. CASE Tick
  BY <1>5 DEF Tick, deployVars
<1>6. CASE deployment.watched /\ MonitorStep /\ UNCHANGED <<deployVars, pollVars, arrivalVars>>
  BY <1>6 DEF deployVars
<1>7. CASE \E k \in Stale : ExpireAnomaly(k)
             /\ UNCHANGED <<faults, deployVars, pollVars, arrivalVars>>
  BY <1>7 DEF deployVars
<1>8. CASE UNCHANGED perceptionVars
  BY <1>8 DEF perceptionVars, deployVars
<1> QED
  BY <1>1, <1>2, <1>3, <1>4, <1>5, <1>6, <1>7, <1>8 DEF Next

-------------------------------------------------------------------------------
(* The orchestrator *)

(* The adapters are those of the types in use, each has a generation, and a
   running one has a poller of that generation for every source. *)
PollersInv ==
  /\ DOMAIN adapter = Used
  /\ generation \in [Used -> Nat]
  /\ EverySourcePolled

LEMMA PollersInit == Init => PollersInv
<1> SUFFICES ASSUME Init PROVE PollersInv
  OBVIOUS
<1>1. \A s \in Polled : TypeOf[s] \in Used
  BY DEF Polled, Used
<1> QED
  BY <1>1 DEF Init, PollersInv, EverySourcePolled

LEMMA PollersStep == PollersInv /\ [Next]_perceptionVars => PollersInv'
<1> SUFFICES ASSUME PollersInv, [Next]_perceptionVars PROVE PollersInv'
  OBVIOUS
<1> USE DEF PollersInv
<1>0. deployment' = deployment
  BY DeploymentIsFixed
<1>a. Used' = Used /\ Polled' = Polled /\ Arriving' = Arriving
  BY <1>0 DEF Used, Polled, Arriving, Enabled
<1>b. \A s \in Polled : TypeOf[s] \in Used
  BY DEF Polled, Used
<1>c. ASSUME UNCHANGED <<adapter, generation>>, DOMAIN poller \subseteq DOMAIN poller'
      PROVE  PollersInv'
  BY <1>a, <1>c DEF EverySourcePolled, Alive
<1>1. ASSUME NEW t \in Used, Start(t) PROVE PollersInv'
  <2> DEFINE new == {<<s, generation[t] + 1>> : s \in {s \in Polled : TypeOf[s] = t}}
  <2>1. CASE /\ adapter' = [adapter EXCEPT ![t] = "running"]
             /\ generation' = [generation EXCEPT ![t] = IF new = {} THEN @ ELSE @ + 1]
             /\ DOMAIN poller' = DOMAIN poller \cup new
    <3>1. DOMAIN adapter' = Used' /\ generation' \in [Used' -> Nat]
      BY <1>a, <2>1
    <3>2. ASSUME NEW s \in Polled, adapter'[TypeOf[s]] = "running"
          PROVE  <<s, generation'[TypeOf[s]]>> \in DOMAIN poller'
      <4>1. CASE TypeOf[s] = t
        <5>1. <<s, generation[t] + 1>> \in new
          BY <4>1
        <5>2. generation'[t] = generation[t] + 1
          BY <2>1, <5>1
        <5> QED
          BY <2>1, <4>1, <5>1, <5>2
      <4>2. CASE TypeOf[s] # t
        <5>1. adapter[TypeOf[s]] = "running" /\ generation'[TypeOf[s]] = generation[TypeOf[s]]
          BY <1>b, <2>1, <3>2, <4>2
        <5> QED
          BY <2>1, <5>1 DEF EverySourcePolled, Alive
      <4> QED
        BY <4>1, <4>2
    <3> QED
      BY <1>a, <3>1, <3>2 DEF EverySourcePolled, Alive
  <2>2. CASE /\ adapter' = [adapter EXCEPT ![t] = IF t = "push" THEN "offline" ELSE @]
             /\ UNCHANGED <<generation, poller>>
    BY <1>a, <1>b, <2>2 DEF EverySourcePolled, Alive
  <2> QED
    BY <1>1, <2>1, <2>2 DEF Start
<1>2. CASE Crash
  BY <1>2, <1>a, <1>b DEF Crash, EverySourcePolled
<1>3. ASSUME NEW p \in DOMAIN poller, PollerStep(p) PROVE PollersInv'
  <2>1. CASE RecoveryFails(p)
    <3> DEFINE t == TypeOf[p[1]]
    <3>1. /\ DOMAIN poller' = DOMAIN poller \ {p}
          /\ adapter' = [adapter EXCEPT ![t] = IF p[2] = generation[t] THEN "starting" ELSE @]
          /\ UNCHANGED generation
      BY <2>1 DEF RecoveryFails
    <3>2. ASSUME NEW s \in Polled, adapter'[TypeOf[s]] = "running"
          PROVE  <<s, generation[TypeOf[s]]>> \in DOMAIN poller \ {p}
      <4>1. adapter[TypeOf[s]] = "running"
        BY <1>b, <3>1, <3>2
      <4>2. CASE <<s, generation[TypeOf[s]]>> = p
        <5>1. p[1] = s /\ p[2] = generation[t]
          BY <4>2
        <5> QED
          BY <1>b, <3>1, <3>2, <5>1
      <4> QED
        BY <4>1, <4>2 DEF EverySourcePolled, Alive
    <3> QED
      BY <1>a, <3>1, <3>2 DEF EverySourcePolled, Alive
  <2>2. CASE ~ RecoveryFails(p)
    BY <1>3, <1>c, <2>2 DEF PollerStep, Observe, Check, PollBreaks, Breaks, Send, SendFails,
                            Resume, deployVars
  <2> QED
    BY <2>1, <2>2
<1>4. ASSUME NEW s \in Arriving, ArrivalStep(s) PROVE PollersInv'
  <2>1. CASE LogBreaks(s)
    BY <2>1, <1>a, <1>b DEF LogBreaks, EverySourcePolled, Alive, pollVars
  <2>2. CASE ~ LogBreaks(s)
    BY <1>4, <1>c, <2>2 DEF ArrivalStep, Arrives, SendArrived, DropArrived, CommitLog,
                            CommitFails, LogRaises, deployVars, pollVars
  <2> QED
    BY <2>1, <2>2
<1>5. CASE Tick
  BY <1>5, <1>c DEF Tick, deployVars
<1>6. CASE deployment.watched /\ MonitorStep /\ UNCHANGED <<deployVars, pollVars, arrivalVars>>
  BY <1>6, <1>c DEF deployVars, pollVars
<1>7. CASE \E k \in Stale : ExpireAnomaly(k)
             /\ UNCHANGED <<faults, deployVars, pollVars, arrivalVars>>
  BY <1>7, <1>c DEF deployVars, pollVars
<1>8. CASE UNCHANGED perceptionVars
  BY <1>8, <1>c DEF perceptionVars, deployVars, pollVars
<1> QED
  BY <1>1, <1>2, <1>3, <1>4, <1>5, <1>6, <1>7, <1>8 DEF Next

(* No source of a running adapter is left without a poller, whatever fails:
   perception_main.py:254-271, database_adapter.py:110-144. *)
THEOREM SourcesStayPolled == Spec => []EverySourcePolled
<1>1. PollersInv => EverySourcePolled
  BY DEF PollersInv
<1> QED
  BY <1>1, PollersInit, PollersStep, PTL DEF Spec

-------------------------------------------------------------------------------
(* The log adapter *)

Arrival == UNION {Reading[s] : s \in Arriving}

Outcome == {"waiting", "sent", "unsent", "uncommitted", "raised", "lost"}

(* What can have become of a log that was handled. *)
Handlings(s, i) ==
  IF IsReadable(s, i) THEN {"sent", "unsent", "uncommitted"} ELSE {"raised"}

(* What has become of everything the consumer is past is known, and the
   committed offset is not beyond it. *)
LogsInv ==
  /\ arrived \in [Arriving -> Seq(Arrival)]
  /\ result \in [Arriving -> Seq(Outcome)]
  /\ position \in [Arriving -> Nat]
  /\ committed \in [Arriving -> Nat]
  /\ \A s \in Arriving :
       /\ Len(result[s]) = Len(arrived[s]) /\ Len(arrived[s]) <= MaxArrivals
       /\ \A i \in 1 .. Len(arrived[s]) : arrived[s][i] \in Reading[s]
       /\ committed[s] <= position[s] /\ position[s] <= Len(arrived[s])
       /\ TypeOf[s] = "log" =>
            \A i \in 1 .. position[s] : result[s][i] \in Handlings(s, i)

LEMMA LogsInit == Init => LogsInv
<1> SUFFICES ASSUME Init PROVE LogsInv
  OBVIOUS
<1> QED
  BY PerceptionAssumption DEF Init, LogsInv

LEMMA LogsAreAccountedFor == LogsInv => LogsAccountedFor
<1> SUFFICES ASSUME LogsInv, NEW s \in Arriving, NEW i \in 1 .. committed[s], TypeOf[s] = "log"
             PROVE  result[s][i] \in Handlings(s, i)
  BY DEF LogsAccountedFor, Handlings
<1>1. i \in 1 .. position[s]
  BY DEF LogsInv
<1> QED
  BY <1>1 DEF LogsInv

(* What was done of an arrival is noted, and the consumer of the logs is past it
   then; the commit covers no more than what it was past before. *)
LEMMA DoneKeepsLogs ==
  ASSUME LogsInv, NEW s \in Arriving, NEW i \in 1 .. Len(arrived[s]), NEW what \in Outcome,
         TypeOf[s] # "push" => i \in {position[s], position[s] + 1},
         TypeOf[s] = "log" => what \in Handlings(s, i),
         Done(s, i, what), UNCHANGED <<deployment, arrived>>,
         committed' \in {committed, [committed EXCEPT ![s] = position[s]]}
  PROVE  LogsInv'
<1>1. committed \in [Arriving -> Nat]
  BY DEF LogsInv
<1>2. ASSUME NEW u \in Arriving
      PROVE  committed'[u] = committed[u] \/ (u = s /\ committed'[u] = position[u])
  <2>1. CASE committed' = [committed EXCEPT ![s] = position[s]]
    BY <1>1, <2>1
  <2> QED
    BY <2>1
<1> USE DEF LogsInv
<1>a. Arriving' = Arriving /\ Arrival' = Arrival
  BY DEF Arrival, Polled, Arriving, Enabled
<1>4. position' \in [Arriving -> Nat] /\ committed' \in [Arriving -> Nat]
  BY DEF Done
<1>5. [result[s] EXCEPT ![i] = what] \in Seq(Outcome)
      /\ Len([result[s] EXCEPT ![i] = what]) = Len(result[s])
  OBVIOUS
<1>6. result' \in [Arriving -> Seq(Outcome)]
      /\ \A u \in Arriving : Len(result'[u]) = Len(arrived[u])
  BY <1>5 DEF Done
<1>7. ASSUME NEW u \in Arriving
      PROVE  committed'[u] <= position'[u] /\ position'[u] <= Len(arrived[u])
  <2>1. position[u] <= position'[u] /\ position'[u] <= Len(arrived[u])
    BY DEF Done
  <2>2. committed'[u] <= position[u]
    <3>1. committed[u] <= position[u] /\ position[u] \in Nat
      OBVIOUS
    <3> QED
      BY <1>2, <3>1
  <2> QED
    BY <1>4, <2>1, <2>2
<1>8. ASSUME NEW u \in Arriving, TypeOf[u] = "log"
      PROVE  \A j \in 1 .. position'[u] : result'[u][j] \in Handlings(u, j)
  <2>1. CASE u = s
    <3>1. position'[u] = i /\ i \in {position[u], position[u] + 1}
      BY <1>8, <2>1 DEF Done
    <3>2. ASSUME NEW j \in 1 .. position'[u] PROVE j = i \/ j \in 1 .. position[u]
      BY <1>4, <3>1, <3>2
    <3>3. result'[u][i] = what /\ what \in Handlings(u, i)
      BY <1>8, <2>1 DEF Done
    <3>4. \A j \in 1 .. position[u] : j # i => result'[u][j] = result[u][j]
      BY <2>1 DEF Done
    <3>5. \A j \in 1 .. position[u] : result[u][j] \in Handlings(u, j)
      BY <1>8
    <3> QED
      BY <3>2, <3>3, <3>4, <3>5
  <2>2. CASE u # s
    BY <1>8, <2>2 DEF Done
  <2> QED
    BY <2>1, <2>2
<1>9. \A u \in Arriving : \A j : Handlings(u, j)' = Handlings(u, j)
  BY DEF Handlings, IsReadable
<1> QED
  BY <1>a, <1>4, <1>6, <1>7, <1>8, <1>9

(* The same where the log, or what else arrived, is a next one. *)
LEMMA NextIsDone ==
  ASSUME LogsInv, NEW s \in Arriving, NEW i \in Pending(s), NEW what \in Outcome,
         TypeOf[s] = "log" => what \in Handlings(s, i),
         Done(s, i, what), UNCHANGED <<deployment, arrived, committed>>
  PROVE  LogsInv'
<1>1. i \in 1 .. Len(arrived[s])
  BY DEF Pending, Waiting, LogsInv
<1>2. TypeOf[s] # "push" => i = position[s] + 1
  BY DEF Pending
<1> QED
  BY <1>1, <1>2, DoneKeepsLogs

LEMMA LogsStep == LogsInv /\ [Next]_perceptionVars => LogsInv'
<1> SUFFICES ASSUME LogsInv, [Next]_perceptionVars PROVE LogsInv'
  OBVIOUS
<1> USE DEF LogsInv
<1>0. deployment' = deployment
  BY DeploymentIsFixed
<1>a. Arriving' = Arriving /\ Arrival' = Arrival
  BY <1>0 DEF Arrival, Polled, Arriving, Enabled
<1>c. ASSUME NEW s \in Arriving, NEW i, arrived'[s][i] = arrived[s][i]
      PROVE  Handlings(s, i)' = Handlings(s, i)
  BY <1>c DEF Handlings, IsReadable
<1>b. ASSUME UNCHANGED arrivalVars PROVE LogsInv'
  BY <1>a, <1>b, <1>c DEF arrivalVars
<1>1. ASSUME NEW t \in Used, Start(t) PROVE LogsInv'
  <2>1. CASE UNCHANGED position
    BY <1>1, <1>b, <2>1 DEF Start, arrivalVars
  <2>2. CASE position' = [s \in Arriving |-> IF TypeOf[s] = t /\ t = "log" THEN committed[s]
                                             ELSE position[s]]
    BY <1>1, <1>a, <1>c, <2>2 DEF Start
  <2> QED
    BY <1>1, <2>1, <2>2 DEF Start
<1>2. CASE Crash
  <2>1. UNCHANGED <<arrived, committed>>
    BY <1>2 DEF Crash
  <2>2. position' = [s \in Arriving |-> IF TypeOf[s] = "log" THEN committed[s]
                                        ELSE Len(arrived[s])]
    BY <1>2 DEF Crash
  <2>3. result' = [s \in Arriving |-> [i \in DOMAIN result[s] |->
                    IF i \in Waiting(s) /\ TypeOf[s] # "log" THEN "lost" ELSE result[s][i]]]
    BY <1>2 DEF Crash
  <2>4. ASSUME NEW s \in Arriving
        PROVE  /\ result'[s] \in Seq(Outcome)
               /\ Len(result'[s]) = Len(result[s])
               /\ TypeOf[s] = "log" =>
                    \A i \in 1 .. Len(result[s]) : result'[s][i] = result[s][i]
    <3>1. result[s] \in Seq(Outcome)
      OBVIOUS
    <3>2. DOMAIN result[s] = 1 .. Len(result[s]) /\ Len(result[s]) \in Nat
      BY <3>1
    <3>3. result'[s] = [i \in 1 .. Len(result[s]) |->
                         IF i \in Waiting(s) /\ TypeOf[s] # "log" THEN "lost" ELSE result[s][i]]
      BY <2>3, <3>2
    <3>4. \A i \in 1 .. Len(result[s]) : result'[s][i] \in Outcome
      BY <3>1, <3>3 DEF Outcome
    <3> QED
      BY <3>2, <3>3, <3>4
  <2>5. /\ position' \in [Arriving -> Nat]
        /\ result' \in [Arriving -> Seq(Outcome)]
    <3>1. \A s \in Arriving : Len(arrived[s]) \in Nat
      OBVIOUS
    <3>2. position' \in [Arriving -> Nat]
      BY <2>2, <3>1
    <3>3. result' \in [Arriving -> Seq(Outcome)]
      <4> DEFINE F(s) == [i \in DOMAIN result[s] |->
                    IF i \in Waiting(s) /\ TypeOf[s] # "log" THEN "lost" ELSE result[s][i]]
      <4>1. \A s \in Arriving : F(s) \in Seq(Outcome)
        BY <2>3, <2>4
      <4>2. result' = [s \in Arriving |-> F(s)]
        BY <2>3
      <4> HIDE DEF F
      <4> QED
        BY <4>1, <4>2
    <3> QED
      BY <3>2, <3>3
  <2>6. ASSUME NEW s \in Arriving
        PROVE  /\ Len(result'[s]) = Len(arrived'[s]) /\ Len(arrived'[s]) <= MaxArrivals
               /\ \A i \in 1 .. Len(arrived'[s]) : arrived'[s][i] \in Reading[s]
               /\ committed'[s] <= position'[s] /\ position'[s] <= Len(arrived'[s])
    BY <2>1, <2>2, <2>4
  <2>7. ASSUME NEW s \in Arriving, TypeOf[s] = "log"
        PROVE  \A i \in 1 .. position'[s] : result'[s][i] \in Handlings(s, i)'
    <3>1. position'[s] = committed[s] /\ committed[s] <= position[s]
          /\ position[s] <= Len(result[s])
      BY <2>2, <2>7
    <3>2. ASSUME NEW i \in 1 .. position'[s] PROVE result'[s][i] \in Handlings(s, i)'
      <4>1. i \in 1 .. position[s] /\ i \in 1 .. Len(result[s])
        BY <3>1, <3>2
      <4>2. result'[s][i] = result[s][i] /\ result[s][i] \in Handlings(s, i)
        BY <2>4, <2>7, <4>1
      <4>3. Handlings(s, i)' = Handlings(s, i)
        BY <1>c, <2>1
      <4> QED
        BY <4>2, <4>3
    <3> QED
      BY <3>2
  <2> QED
    BY <1>a, <2>1, <2>5, <2>6, <2>7
<1>3. ASSUME NEW p \in DOMAIN poller, PollerStep(p) PROVE LogsInv'
  BY <1>3, <1>b DEF PollerStep, Observe, Check, PollBreaks, Breaks, Send, SendFails,
                    RecoveryFails, arrivalVars
<1>4. ASSUME NEW s \in Arriving, ArrivalStep(s) PROVE LogsInv'
  <2>1. ASSUME NEW r \in Reading[s], Arrives(s, r) PROVE LogsInv'
    <3>1. r \in Arrival
      BY DEF Arrival
    <3>2. ASSUME NEW u \in Arriving
          PROVE  /\ arrived'[u] \in Seq(Arrival)
                 /\ result'[u] \in Seq(Outcome)
                 /\ Len(result'[u]) = Len(arrived'[u]) /\ Len(arrived'[u]) <= MaxArrivals
                 /\ \A i \in 1 .. Len(arrived'[u]) : arrived'[u][i] \in Reading[u]
                 /\ Len(arrived[u]) <= Len(arrived'[u])
                 /\ \A i \in 1 .. Len(arrived[u]) :
                      arrived'[u][i] = arrived[u][i] /\ result'[u][i] = result[u][i]
      BY <2>1, <3>1, PerceptionAssumption DEF Arrives, Outcome
    <3>3. /\ arrived' \in [Arriving -> Seq(Arrival)]
          /\ result' \in [Arriving -> Seq(Outcome)]
      BY <2>1, <3>2 DEF Arrives
    <3>4. UNCHANGED <<position, committed>>
      BY <2>1 DEF Arrives
    <3>5. ASSUME NEW u \in Arriving PROVE position'[u] <= Len(arrived'[u])
      <4>1. /\ position[u] \in Nat /\ position[u] <= Len(arrived[u])
            /\ Len(arrived[u]) \in Nat /\ Len(arrived'[u]) \in Nat
        BY <3>3
      <4> QED
        BY <3>2, <3>4, <4>1
    <3>6. ASSUME NEW u \in Arriving, TypeOf[u] = "log"
          PROVE  \A i \in 1 .. position'[u] : result'[u][i] \in Handlings(u, i)'
      <4>1. ASSUME NEW i \in 1 .. position'[u] PROVE result'[u][i] \in Handlings(u, i)'
        <5>1. i \in 1 .. position[u] /\ i \in 1 .. Len(arrived[u])
          BY <3>4, <4>1
        <5>2. Handlings(u, i)' = Handlings(u, i)
          BY <1>c, <3>2, <5>1
        <5> QED
          BY <3>2, <3>6, <5>1, <5>2
      <4> QED
        BY <4>1
    <3> QED
      BY <1>a, <3>2, <3>3, <3>4, <3>5, <3>6
  <2>2. ASSUME NEW i \in DOMAIN arrived[s], SendArrived(s, i) PROVE LogsInv'
    BY <1>0, <2>2, NextIsDone DEF SendArrived, Handlings, Outcome
  <2>3. ASSUME NEW i \in DOMAIN arrived[s], DropArrived(s, i) PROVE LogsInv'
    BY <1>0, <2>3, NextIsDone DEF DropArrived, Handlings, Outcome
  <2>4. CASE CommitLog(s)
    BY <1>a, <1>c, <2>4 DEF CommitLog
  <2>5. CASE LogBreaks(s)
    BY <1>b, <2>5 DEF LogBreaks
  <2>6. CASE CommitFails(s)
    <3>1. position[s] \in 1 .. Len(arrived[s]) /\ TypeOf[s] = "log"
      BY <2>6 DEF CommitFails
    <3>2. result[s][position[s]] \in Handlings(s, position[s])
          /\ result[s][position[s]] = "sent"
      BY <2>6, <3>1 DEF CommitFails
    <3>3. "uncommitted" \in Handlings(s, position[s]) /\ "uncommitted" \in Outcome
      BY <3>2 DEF Handlings, Outcome
    <3> QED
      BY <1>0, <2>6, <3>1, <3>3, DoneKeepsLogs DEF CommitFails
  <2>7. CASE LogRaises(s)
    <3>1. PICK i \in Pending(s) : arrived[s][i].form = "other" /\ Done(s, i, "raised")
      BY <2>7 DEF LogRaises
    <3>2. "raised" \in Handlings(s, i) /\ "raised" \in Outcome
      BY <2>7, <3>1 DEF LogRaises, Handlings, IsReadable, Outcome
    <3> QED
      BY <1>0, <2>7, <3>1, <3>2, NextIsDone DEF LogRaises
  <2> QED
    BY <1>4, <2>1, <2>2, <2>3, <2>4, <2>5, <2>6, <2>7 DEF ArrivalStep
<1>5. CASE Tick
  BY <1>5, <1>b DEF Tick, arrivalVars
<1>6. CASE deployment.watched /\ MonitorStep /\ UNCHANGED <<deployVars, pollVars, arrivalVars>>
  BY <1>6, <1>b
<1>7. CASE \E k \in Stale : ExpireAnomaly(k)
             /\ UNCHANGED <<faults, deployVars, pollVars, arrivalVars>>
  BY <1>7, <1>b
<1>8. CASE UNCHANGED perceptionVars
  BY <1>8, <1>b DEF perceptionVars
<1> QED
  BY <1>1, <1>2, <1>3, <1>4, <1>5, <1>6, <1>7, <1>8 DEF Next

(* No log below the committed offset was skipped, however the consumer fails and
   starts again: log_adapter.py:79-93. *)
THEOREM NoLogIsSkipped == Spec => []LogsAccountedFor
<1> QED
  BY LogsInit, LogsStep, LogsAreAccountedFor, PTL DEF Spec

-------------------------------------------------------------------------------
(* The monitor *)

IsAnomaly(x) ==
  /\ x = [id |-> [key |-> x.id.key, current |-> x.id.current], severity |-> x.severity]
  /\ x.id.current \in BOOLEAN

SendingKeys == {x.id.key : x \in {x \in sending : x.id.current}}

(* An open anomaly that is marked was signalled, or its signal has failed, or is
   being sent. *)
MarksInv ==
  /\ \A x \in sending \cup listed : IsAnomaly(x)
  /\ \A x, y \in sending : x = y
  /\ \A e \in DOMAIN lastSig :
       /\ lastSig[e] = [key |-> lastSig[e].key, current |-> lastSig[e].current]
       /\ lastSig[e].current \in BOOLEAN
       /\ lastSig[e].current => lastSig[e].key \in signalled \cup missed \cup SendingKeys
  /\ EachSignalled

LEMMA MarksInit == Init => MarksInv
BY DEF Init, MonitorInit, MarksInv, EachSignalled

(* Anomalies that are closed lose their mark with their signal. *)
LEMMA ForgetKeepsMarks ==
  ASSUME MarksInv, NEW closed, Forget(closed)
  PROVE  MarksInv'
<1> USE DEF MarksInv
<1>1. ASSUME NEW id, id = [key |-> id.key, current |-> id.current], id.current \in BOOLEAN
      PROVE  /\ Past(id, closed) = [key |-> id.key, current |-> Past(id, closed).current]
             /\ Past(id, closed).current \in BOOLEAN
             /\ Past(id, closed).key = id.key
             /\ Past(id, closed).current <=> id.current /\ id.key \notin closed
  BY <1>1 DEF Past
<1>2. ASSUME NEW x, IsAnomaly(x)
      PROVE  /\ [x EXCEPT !.id = Past(x.id, closed)].id = Past(x.id, closed)
             /\ IsAnomaly([x EXCEPT !.id = Past(x.id, closed)])
  <2> DEFINE y == [x EXCEPT !.id = Past(x.id, closed)]
  <2>1. y = [id |-> Past(x.id, closed), severity |-> x.severity]
    BY <1>2 DEF IsAnomaly
  <2>2. x.id = [key |-> x.id.key, current |-> x.id.current] /\ x.id.current \in BOOLEAN
    BY <1>2 DEF IsAnomaly
  <2> HIDE DEF y
  <2>3. y.id = Past(x.id, closed) /\ y.severity = x.severity
    BY <2>1
  <2>4. /\ Past(x.id, closed) = [key |-> x.id.key, current |-> Past(x.id, closed).current]
        /\ Past(x.id, closed).current \in BOOLEAN /\ Past(x.id, closed).key = x.id.key
    BY <2>2, <1>1
  <2>5. IsAnomaly(y)
    BY <2>1, <2>3, <2>4 DEF IsAnomaly
  <2> QED
    BY <2>3, <2>5 DEF y
<1>3. \A x \in sending' \cup listed' : IsAnomaly(x)
  BY <1>2 DEF Forget, PastOf
<1>4. \A x, y \in sending' : x = y
  BY DEF Forget, PastOf
<1>5. ASSUME NEW k \in SendingKeys, k \notin closed
      PROVE  k \in SendingKeys'
  <2>1. PICK x \in sending : x.id.current /\ x.id.key = k
    BY DEF SendingKeys
  <2> DEFINE y == [x EXCEPT !.id = Past(x.id, closed)]
  <2>2. y \in sending' /\ y.id = Past(x.id, closed)
    BY <1>2 DEF Forget, PastOf
  <2>3. Past(x.id, closed) = x.id
    BY <1>5, <2>1 DEF Past
  <2> QED
    BY <2>1, <2>2, <2>3 DEF SendingKeys
<1>6. ASSUME NEW e \in DOMAIN lastSig'
      PROVE  /\ lastSig'[e] = [key |-> lastSig'[e].key, current |-> lastSig'[e].current]
             /\ lastSig'[e].current \in BOOLEAN
             /\ lastSig'[e].current => lastSig'[e].key \in signalled' \cup missed' \cup SendingKeys'
  <2>1. e \in DOMAIN lastSig /\ lastSig'[e] = Past(lastSig[e], closed)
    BY DEF Forget
  <2>2. /\ lastSig'[e] = [key |-> lastSig[e].key, current |-> lastSig'[e].current]
        /\ lastSig'[e].current \in BOOLEAN /\ lastSig'[e].key = lastSig[e].key
        /\ lastSig'[e].current <=> lastSig[e].current /\ lastSig[e].key \notin closed
    BY <1>1, <2>1
  <2>3. lastSig'[e].current => lastSig[e].key \in signalled' \cup missed' \cup SendingKeys'
    BY <1>5, <2>1, <2>2 DEF Forget
  <2> QED
    BY <2>2, <2>3
<1>7. EachSignalled'
  BY DEF EachSignalled, Forget
<1> QED
  BY <1>3, <1>4, <1>6, <1>7

(* A step of the monitor keeps the marks. *)
LEMMA MonitorKeepsMarks ==
  ASSUME MarksInv, MonitorStep
  PROVE  MarksInv'
<1> USE DEF MarksInv
<1>1. CASE MonitorPolls
  <2>1. \A x \in listed' : IsAnomaly(x)
    <3>1. ASSUME NEW k
          PROVE  IsAnomaly([id |-> AnomalyId(k), severity |-> open[k].severity])
      BY DEF IsAnomaly, AnomalyId
    <3> QED
      BY <1>1, <3>1 DEF MonitorPolls
  <2> QED
    BY <1>1, <2>1 DEF MonitorPolls, EachSignalled, SendingKeys
<1>2. ASSUME NEW x \in listed, SkipNext(x) PROVE MarksInv'
  <2>1. SendingKeys = {} /\ SendingKeys' = {}
    BY <1>2 DEF SkipNext, SendingKeys
  <2>2. IsSignalled(x) /\ x.id.current => x.id.key \in signalled \cup missed
    BY <2>1 DEF IsSignalled
  <2>3. EachSignalled'
    BY <1>2, <2>2 DEF SkipNext, Passed, EachSignalled
  <2> QED
    BY <1>2, <2>1, <2>3 DEF SkipNext
<1>3. ASSUME NEW x \in listed, SignalNext(x) PROVE MarksInv'
  <2>1. x.id.current => x.id.key \in SendingKeys'
    BY <1>3 DEF SignalNext, SendingKeys
  <2>2. x.id = [key |-> x.id.key, current |-> x.id.current] /\ x.id.current \in BOOLEAN
    BY DEF IsAnomaly
  <2>3. SendingKeys = {}
    BY <1>3 DEF SignalNext, SendingKeys
  <2>4. ASSUME NEW e \in DOMAIN lastSig'
        PROVE  /\ lastSig'[e] = [key |-> lastSig'[e].key, current |-> lastSig'[e].current]
               /\ lastSig'[e].current \in BOOLEAN
               /\ lastSig'[e].current =>
                    lastSig'[e].key \in signalled' \cup missed' \cup SendingKeys'
    <3>1. CASE lastSig'[e] = x.id
      BY <1>3, <2>2, <2>1, <3>1 DEF SignalNext
    <3>2. CASE e \in DOMAIN lastSig /\ lastSig'[e] = lastSig[e]
      BY <1>3, <2>3, <3>2 DEF SignalNext
    <3> QED
      BY <1>3, <3>1, <3>2 DEF SignalNext, Mark
  <2> QED
    BY <1>3, <2>4 DEF SignalNext, EachSignalled
<1>4. ASSUME NEW x \in sending, SignalSent(x) PROVE MarksInv'
  <2>1. SendingKeys \subseteq {x.id.key} /\ (SendingKeys # {} => x.id.current)
    BY DEF SendingKeys
  <2> QED
    BY <1>4, <2>1 DEF SignalSent, Passed, EachSignalled
<1>5. ASSUME NEW x \in sending, SignalFails(x) PROVE MarksInv'
  <2>1. SendingKeys \subseteq {x.id.key} /\ (SendingKeys # {} => x.id.current)
    BY DEF SendingKeys
  <2> QED
    BY <1>5, <2>1 DEF SignalFails, Passed, EachSignalled
<1> QED
  BY <1>1, <1>2, <1>3, <1>4, <1>5 DEF MonitorStep

LEMMA MarksStep == MarksInv /\ [Next]_perceptionVars => MarksInv'
<1> SUFFICES ASSUME MarksInv, [Next]_perceptionVars PROVE MarksInv'
  OBVIOUS
<1>a. ASSUME UNCHANGED monitorVars PROVE MarksInv'
  BY <1>a DEF MarksInv, monitorVars, EachSignalled, SendingKeys
<1>1. CASE \E t \in Used : Start(t)
  BY <1>1, <1>a DEF Start
<1>2. CASE Crash
  BY <1>2, <1>a DEF Crash
<1>3. ASSUME NEW p \in DOMAIN poller, PollerStep(p) PROVE MarksInv'
  <2>1. CASE Send(p)
    BY <2>1, ForgetKeepsMarks DEF Send, Take
  <2>2. CASE ~ Send(p)
    BY <1>3, <1>a, <2>2 DEF PollerStep, Observe, Check, PollBreaks, Breaks, SendFails,
                            RecoveryFails
  <2> QED
    BY <2>1, <2>2
<1>4. ASSUME NEW s \in Arriving, ArrivalStep(s) PROVE MarksInv'
  <2>1. ASSUME NEW i \in DOMAIN arrived[s], SendArrived(s, i) PROVE MarksInv'
    <3>1. Publish(s, arrived[s][i])
      BY <2>1 DEF SendArrived
    <3> QED
      BY <3>1, <1>a, ForgetKeepsMarks DEF Publish, Take
  <2>2. CASE ~ \E i \in DOMAIN arrived[s] : SendArrived(s, i)
    BY <1>4, <1>a, <2>2 DEF ArrivalStep, Arrives, DropArrived, CommitLog, CommitFails,
                            LogRaises, LogBreaks
  <2> QED
    BY <2>1, <2>2
<1>5. CASE Tick
  BY <1>5, <1>a DEF Tick
<1>6. CASE deployment.watched /\ MonitorStep /\ UNCHANGED <<deployVars, pollVars, arrivalVars>>
  BY <1>6, MonitorKeepsMarks
<1>7. CASE \E k \in Stale : ExpireAnomaly(k)
             /\ UNCHANGED <<faults, deployVars, pollVars, arrivalVars>>
  BY <1>7, ForgetKeepsMarks DEF ExpireAnomaly
<1>8. CASE UNCHANGED perceptionVars
  BY <1>8, <1>a DEF perceptionVars
<1> QED
  BY <1>1, <1>2, <1>3, <1>4, <1>5, <1>6, <1>7, <1>8 DEF Next

(* Each open anomaly that the monitor is through with was signalled, unless the
   send of its signal has failed: monitor_agent.py:47-66. *)
THEOREM NoSignalIsTakenForAnother == Spec => []EachSignalled
<1>1. MarksInv => EachSignalled
  BY DEF MarksInv
<1> QED
  BY <1>1, MarksInit, MarksStep, PTL DEF Spec
-------------------------------------------------------------------------------
(* The reports of the pollers *)

Suppressing == {s \in Polled : TypeOf[s] \in SuppressingType}

FindingKinds ==
  {"service_unreachable", "slow_query_detected", "connection_leak_detected",
   "connection_pool_exhausted", "connection_pool_high", "replication_lag_high",
   "lock_wait_timeout", "redis_memory_critical", "cache_eviction_spike",
   "cache_hit_ratio_dropped"}

(* What the checks of databases and of Redis can send. *)
Finding == {Event(kind, severity) : kind \in FindingKinds, severity \in Severities}

Recovering(s) == \E p \in DOMAIN poller : p[1] = s /\ poller[p].at = "recovering"

(* A poller that is not asleep has something to send: that of an API or a queue,
   which is the only one of its source, the event of its last reading, and one
   that recovers, service_unreachable. *)
PollerOK(p) ==
  /\ p = <<p[1], p[2]>> /\ p[1] \in Polled
  /\ poller[p].at \in {"asleep", "sending", "recovering"}
  /\ poller[p].at = "asleep" => poller[p].todo = <<>>
  /\ TypeOf[p[1]] \in CheckingType =>
       /\ poller[p].todo \in Seq(Finding)
       /\ poller[p].at # "asleep" => poller[p].todo # <<>>
       /\ poller[p].at = "recovering" => poller[p].todo = Outage
  /\ TypeOf[p[1]] \in SuppressingType =>
       /\ \A q \in DOMAIN poller : q[1] = p[1] => q = p
       /\ adapter[TypeOf[p[1]]] # "starting"
       /\ poller[p].at \in {"asleep", "sending"}
       /\ poller[p].at = "sending" =>
            /\ p[1] \in DOMAIN seen /\ IsKnown(p[1], seen[p[1]])
            /\ poller[p].todo = Reports(p[1], seen[p[1]])

(* What the state key, the last reading and the last that was published say of an
   API or a queue, while nothing is being sent and the last send has not failed,
   is the same. *)
SourceOK(s) ==
  /\ s \in DOMAIN seen => seen[s] \in Reading[s]
  /\ s \in recent => s \in DOMAIN told
  /\ s \notin lost /\ ~IsSending(s) =>
       /\ s \in DOMAIN known => s \in DOMAIN told /\ IsKnown(s, told[s])
       /\ s \in DOMAIN seen \cap DOMAIN told => State(s, seen[s]) = State(s, told[s])

ReportsInv ==
  /\ deployment \in Deployments
  /\ DOMAIN seen \cup DOMAIN told \subseteq Polled
  /\ \A p \in DOMAIN poller : PollerOK(p)
  /\ \A s \in Suppressing : SourceOK(s)

(* An API or a queue that works, by a reading. *)
Works(s, r) ==
  \/ TypeOf[s] = "api" /\ r.status = "expected" /\ r.latency = "ok"
       /\ r.ssl \in {"unknown", "fine"}
  \/ TypeOf[s] = "queue" /\ r.lag = "none" /\ r.depth = "none"

(* An API or a queue has reported of its own entities only, and nothing that is
   open if it was last published that it works. *)
OwnInv ==
  \A s \in Suppressing : \A k \in DOMAIN open : s \in open[k].by =>
    /\ k[1] \in About[s]
    /\ s \in DOMAIN told => ~Works(s, told[s])

(* An anomaly that the source has reported is open, and was seen in this unit. *)
IsTold(s, k) == k \in DOMAIN open /\ open[k].seen /\ s \in open[k].by

(* What the pollers of a source still have to send opens an anomaly. *)
IsComing(s, k) ==
  \E p \in DOMAIN poller : \E i \in DOMAIN poller[p].todo :
    p[1] = s /\ k \in OpenedBy(Refs(s, poller[p].todo[i]), poller[p].todo[i])

(* Unless an event of another source has closed it, each problem of a source is
   open: of an API, what was published in this unit, of a queue, what was read
   in it.  Of a database or of Redis it may also be in the hands of a poller, or
   all of it lost, and then none recovers that could take this back. *)
ProblemsOK(s) ==
  /\ TypeOf[s] = "api" /\ s \in recent \ lost /\ ~IsSending(s) =>
       \A k \in ProblemsOf(s, told[s]) : IsTold(s, k)
  /\ TypeOf[s] = "queue" /\ s \in (polled \cap DOMAIN seen) \ lost /\ ~IsSending(s) =>
       \A k \in ProblemsOf(s, seen[s]) : IsTold(s, k)
  /\ TypeOf[s] \in CheckingType /\ s \in polled \cap DOMAIN seen =>
       \/ s \in lost /\ ~Recovering(s)
       \/ \A k \in ProblemsOf(s, seen[s]) : IsTold(s, k) \/ IsComing(s, k)

ProblemsInv == \A s \in Polled \ eclipsed : ProblemsOK(s)

(* A check sends a finding or nothing. *)
LEMMA FindingIsSent ==
  ASSUME NEW found, NEW kind \in FindingKinds, NEW severity \in Severities
  PROVE  IfSo(found, kind, severity) \in Seq(Finding)
<1>1. Event(kind, severity) \in Finding
  BY DEF Finding
<1>2. <<Event(kind, severity)>> \in Seq(Finding) /\ <<>> \in Seq(Finding)
  BY <1>1
<1> QED
  BY <1>2 DEF IfSo

LEMMA FindingsAreSent ==
  ASSUME NEW s, TypeOf[s] \in CheckingType, NEW r
  PROVE  Reports(s, r) \in Seq(Finding) /\ (r = Unreachable => Reports(s, r) = Outage)
<1>a. \A t, u \in Seq(Finding) : t \o u \in Seq(Finding)
  OBVIOUS
<1>1. DatabaseEvents(r) \in Seq(Finding)
  <2>1. IfSo("very slow query" \in r, "slow_query_detected", "high") \in Seq(Finding)
    BY FindingIsSent DEF FindingKinds, Severities
  <2>2. IfSo("slow query" \in r, "slow_query_detected", "medium") \in Seq(Finding)
    BY FindingIsSent DEF FindingKinds, Severities
  <2>3. IfSo("leak" \in r, "connection_leak_detected", "high") \in Seq(Finding)
    BY FindingIsSent DEF FindingKinds, Severities
  <2>4. IfSo("pool full" \in r, "connection_pool_exhausted", "critical") \in Seq(Finding)
    BY FindingIsSent DEF FindingKinds, Severities
  <2>5. IfSo("pool high" \in r, "connection_pool_high", "medium") \in Seq(Finding)
    BY FindingIsSent DEF FindingKinds, Severities
  <2>6. IfSo("replica far behind" \in r, "replication_lag_high", "high") \in Seq(Finding)
    BY FindingIsSent DEF FindingKinds, Severities
  <2>7. IfSo("replica behind" \in r, "replication_lag_high", "medium") \in Seq(Finding)
    BY FindingIsSent DEF FindingKinds, Severities
  <2>8. IfSo("locks" \in r, "lock_wait_timeout", "high") \in Seq(Finding)
    BY FindingIsSent DEF FindingKinds, Severities
  <2> QED
    BY <1>a, <2>1, <2>2, <2>3, <2>4, <2>5, <2>6, <2>7, <2>8 DEF DatabaseEvents
<1>2. RedisEvents(r) \in Seq(Finding)
  <2>1. IfSo("memory critical" \in r, "redis_memory_critical", "critical") \in Seq(Finding)
    BY FindingIsSent DEF FindingKinds, Severities
  <2>2. IfSo("memory high" \in r, "cache_eviction_spike", "high") \in Seq(Finding)
    BY FindingIsSent DEF FindingKinds, Severities
  <2>3. IfSo("evictions" \in r, "cache_eviction_spike", "high") \in Seq(Finding)
    BY FindingIsSent DEF FindingKinds, Severities
  <2>4. IfSo("misses" \in r, "cache_hit_ratio_dropped", "medium") \in Seq(Finding)
    BY FindingIsSent DEF FindingKinds, Severities
  <2> QED
    BY <1>a, <2>1, <2>2, <2>3, <2>4 DEF RedisEvents
<1>3. Outage \in Seq(Finding)
  BY DEF Outage, Finding, FindingKinds, Severities
<1>4. CASE TypeOf[s] = "database"
  BY <1>1, <1>3, <1>4 DEF Reports
<1>5. CASE TypeOf[s] = "redis"
  BY <1>2, <1>3, <1>5 DEF Reports
<1> QED
  BY <1>4, <1>5 DEF CheckingType

(* An API or a queue leads to one event. *)
LEMMA OneReport ==
  ASSUME NEW s, TypeOf[s] \in SuppressingType, NEW r
  PROVE  /\ Reports(s, r) = <<Reports(s, r)[1]>>
         /\ Head(Reports(s, r)) = Reports(s, r)[1] /\ Tail(Reports(s, r)) = <<>>
         /\ Reports(s, r) # <<>>
<1>1. CASE TypeOf[s] = "api"
  BY <1>1 DEF Reports
<1>2. CASE TypeOf[s] = "queue"
  BY <1>2 DEF Reports
<1> QED
  BY <1>1, <1>2 DEF SuppressingType

FirstHolds(rows, n, i) ==
  /\ n \in Nat /\ DOMAIN rows = 1 .. n /\ i \in 1 .. n
  /\ rows[i][1] /\ \A j \in 1 .. i - 1 : ~rows[j][1]

(* The first row that holds decides. *)
LEMMA FirstRow ==
  ASSUME NEW n, NEW rows, NEW i, FirstHolds(rows, n, i)
  PROVE  FirstOf(rows) = Event(rows[i][2], rows[i][3])
<1> USE DEF FirstHolds
<1> DEFINE First(j) == rows[j][1] /\ \A l \in 1 .. j - 1 : ~rows[l][1]
           c == CHOOSE j \in DOMAIN rows : First(j)
<1>1. First(i)
  OBVIOUS
<1>2. c \in DOMAIN rows /\ First(c)
  BY <1>1
<1>3. c = i
  BY <1>1, <1>2
<1>4. FirstOf(rows) = Event(rows[c][2], rows[c][3])
  BY DEF FirstOf
<1> QED
  BY <1>3, <1>4

(* One that works is reported to be resolved or restored. *)
LEMMA RecoveryIsTold ==
  ASSUME NEW s \in Source, TypeOf[s] \in SuppressingType, NEW r \in Reading[s], Works(s, r)
  PROVE  Reports(s, r)[1].kind \in Resolving
<1>1. CASE TypeOf[s] = "api"
  <2>1. r.status = "expected" /\ r.latency = "ok" /\ r.ssl \in {"unknown", "fine"}
    BY <1>1 DEF Works
  <2> DEFINE rows == <<
    <<r.status = "none",             "service_unreachable",       "critical">>,
    <<r.status = "5xx" /\ r.pool,    "connection_pool_exhausted", "critical">>,
    <<r.status = "5xx",              "service_health_degraded",   "high">>,
    <<r.status = "4xx",              "api_4xx_rate_high",         "medium">>,
    <<r.ssl = "expired",             "service_ssl_expired",       "critical">>,
    <<r.ssl = "week",                "service_ssl_expiring",      "high">>,
    <<r.ssl = "month",               "service_ssl_expiring",      "medium">>,
    <<r.latency = "very_slow",       "api_latency_spike",         "high">>,
    <<r.latency = "slow",            "api_latency_spike",         "medium">>,
    <<r.status = "expected",         "service_health_restored",   "info">>,
    <<TRUE,                          "service_health_degraded",   "medium">> >>
  <2>2. DOMAIN rows = 1 .. 11 /\ rows[10][1] /\ rows[10][2] = "service_health_restored"
    <3>1. DOMAIN rows = 1 .. 11
      OBVIOUS
    <3>2. rows[10][1] <=> r.status = "expected"
      OBVIOUS
    <3>3. rows[10][2] = "service_health_restored"
      OBVIOUS
    <3> HIDE DEF rows
    <3> QED
      BY <2>1, <3>1, <3>2, <3>3
  <2>3. ~rows[1][1] /\ ~rows[2][1] /\ ~rows[3][1] /\ ~rows[4][1] /\ ~rows[5][1]
        /\ ~rows[6][1] /\ ~rows[7][1] /\ ~rows[8][1] /\ ~rows[9][1]
    <3>1. r.status # "none" /\ r.status # "5xx" /\ r.status # "4xx"
      BY <2>1
    <3>2. r.latency # "very_slow" /\ r.latency # "slow"
      BY <2>1
    <3>3. r.ssl # "expired" /\ r.ssl # "week" /\ r.ssl # "month"
      BY <2>1
    <3>4. ~rows[1][1] /\ ~rows[2][1] /\ ~rows[3][1] /\ ~rows[4][1]
      BY <3>1
    <3>5. ~rows[5][1] /\ ~rows[6][1] /\ ~rows[7][1]
      BY <3>3
    <3>6. ~rows[8][1] /\ ~rows[9][1]
      BY <3>2
    <3> QED
      BY <3>4, <3>5, <3>6
  <2>4. ApiEvent(r) = FirstOf(rows)
    BY DEF ApiEvent
  <2> HIDE DEF rows
  <2>5. FirstHolds(rows, 11, 10)
    BY <2>2, <2>3 DEF FirstHolds
  <2>6. ApiEvent(r) = Event("service_health_restored", rows[10][3])
    BY <2>2, <2>4, <2>5, FirstRow
  <2> QED
    BY <1>1, <2>6 DEF Reports, Event, Resolving
<1>2. CASE TypeOf[s] = "queue"
  <2>1. r.lag = "none" /\ r.depth = "none"
    BY <1>2 DEF Works
  <2>2. ~r.dead /\ ~r.old
    <3>1. r \in ReadingOf["queue"]
      BY <1>2, PerceptionAssumption
    <3>2. r \in Collected.kafka \cup Collected.rabbitmq
      BY <3>1 DEF ReadingOf
    <3> QED
      BY <3>2 DEF Collected
  <2> DEFINE rows == <<
    <<~r.consumers /\ r.depth # "none", "consumer_group_stopped",    "critical">>,
    <<r.lag = "critical",               "consumer_lag_critical",     "critical">>,
    <<r.dead,                           "dead_letter_queue_growing", "high">>,
    <<r.lag = "high",                   "consumer_lag_high",         "high">>,
    <<r.old,                            "message_age_exceeded",      "medium">>,
    <<r.depth = "high",                 "queue_depth_high",          "medium">>,
    <<~r.moving /\ r.depth # "none",    "consumer_group_stopped",    "high">>,
    <<TRUE,                             "consumer_lag_resolved",     "info">> >>
  <2>3. DOMAIN rows = 1 .. 8 /\ rows[8][1] /\ rows[8][2] = "consumer_lag_resolved"
    OBVIOUS
  <2>4. ~rows[1][1] /\ ~rows[2][1] /\ ~rows[3][1] /\ ~rows[4][1] /\ ~rows[5][1]
        /\ ~rows[6][1] /\ ~rows[7][1]
    BY <2>1, <2>2
  <2>5. QueueEvent(r) = FirstOf(rows)
    BY DEF QueueEvent
  <2> HIDE DEF rows
  <2>6. FirstHolds(rows, 8, 8)
    BY <2>3, <2>4 DEF FirstHolds
  <2>7. QueueEvent(r) = Event("consumer_lag_resolved", rows[8][3])
    BY <2>3, <2>5, <2>6, FirstRow
  <2> QED
    BY <1>2, <2>7 DEF Reports, Event, Resolving
<1> QED
  BY <1>1, <1>2 DEF SuppressingType

(* A poller whose own source is not touched stays as it is. *)
LEMMA PollerStays ==
  ASSUME NEW p \in DOMAIN poller, PollerOK(p), deployment' = deployment,
         p \in DOMAIN poller', poller'[p] = poller[p],
         TypeOf[p[1]] \in SuppressingType =>
           /\ \A q \in DOMAIN poller' : q[1] = p[1] => q \in DOMAIN poller
           /\ adapter[TypeOf[p[1]]] # "starting" => adapter'[TypeOf[p[1]]] # "starting"
           /\ poller[p].at = "sending" =>
                /\ p[1] \in DOMAIN seen' /\ seen'[p[1]] = seen[p[1]]
                /\ p[1] \in DOMAIN known' /\ known'[p[1]].state = known[p[1]].state
  PROVE  PollerOK(p)'
<1>1. Polled' = Polled
  BY DEF Polled, Enabled
<1> QED
  BY <1>1 DEF PollerOK, IsKnown

(* So does a source of which less is known, unless something was lost. *)
LEMMA SourceStays ==
  ASSUME NEW s, SourceOK(s),
         s \in DOMAIN seen' => s \in DOMAIN seen /\ seen'[s] = seen[s],
         s \in DOMAIN told <=> s \in DOMAIN told',
         s \in DOMAIN told => told'[s] = told[s],
         s \in DOMAIN known' => s \in DOMAIN known /\ known'[s].state = known[s].state,
         s \in recent' => s \in recent,
         s \notin lost' /\ ~IsSending(s)' => s \notin lost /\ ~IsSending(s)
  PROVE  SourceOK(s)'
BY DEF SourceOK, IsKnown

(* If only adapters change, and none that polls is stopped. *)
LEMMA ReportsStay ==
  ASSUME ReportsInv, UNCHANGED <<deployment, poller, known, seen, told, recent, lost>>,
         \A t \in SuppressingType : adapter[t] # "starting" => adapter'[t] # "starting"
  PROVE  ReportsInv'
<1>1. \A p \in DOMAIN poller : PollerOK(p)'
  BY PollerStays DEF ReportsInv, PollerOK, IsKnown
<1>2. \A s \in Suppressing : SourceOK(s)'
  BY SourceStays DEF ReportsInv, IsSending
<1>3. Suppressing' = Suppressing /\ Polled' = Polled
  BY DEF Suppressing, Polled, Enabled
<1> QED
  BY <1>1, <1>2, <1>3 DEF ReportsInv

(* A step of a poller leaves what is known of the other sources, and their
   pollers, alone. *)
LEMMA StepOfAnother ==
  ASSUME NEW p \in DOMAIN poller, PollerStep(p), NEW s, s # p[1]
  PROVE  /\ s \in DOMAIN seen <=> s \in DOMAIN seen'
         /\ s \in DOMAIN seen => seen'[s] = seen[s]
         /\ s \in DOMAIN told <=> s \in DOMAIN told'
         /\ s \in DOMAIN told => told'[s] = told[s]
         /\ s \in DOMAIN known <=> s \in DOMAIN known'
         /\ s \in DOMAIN known => known'[s] = known[s]
         /\ s \in recent' <=> s \in recent
         /\ s \in polled' <=> s \in polled
         /\ s \in lost' <=> s \in lost
         /\ s \in eclipsed => s \in eclipsed'
<1>1. CASE \E r \in Readings(p[1]) : Observe(p, r)
  BY <1>1 DEF Observe, See, Remember
<1>2. CASE \E r \in Readings(p[1]) : Check(p, r)
  BY <1>2 DEF Check, See
<1>3. CASE PollBreaks(p)
  BY <1>3 DEF PollBreaks
<1>4. CASE Breaks(p)
  BY <1>4 DEF Breaks, See
<1>5. CASE Send(p)
  BY <1>5 DEF Send
<1>6. CASE SendFails(p)
  BY <1>6 DEF SendFails, See
<1>7. CASE RecoveryFails(p)
  BY <1>7 DEF RecoveryFails
<1> QED
  BY <1>1, <1>2, <1>3, <1>4, <1>5, <1>6, <1>7 DEF PollerStep

LEMMA PollersOfStep ==
  ASSUME NEW p \in DOMAIN poller, PollerStep(p)
  PROVE  /\ DOMAIN poller' \subseteq DOMAIN poller
         /\ DOMAIN poller \ {p} \subseteq DOMAIN poller'
         /\ \A q \in DOMAIN poller \ {p} : poller'[q] = poller[q]
BY DEF PollerStep, Observe, Check, PollBreaks, Breaks, Send, SendFails, RecoveryFails, Resume

(* A step of a poller leaves the other pollers and the other sources alone. *)
LEMMA OthersStay ==
  ASSUME ReportsInv, NEW p \in DOMAIN poller, PollerStep(p), deployment' = deployment
  PROVE  /\ DOMAIN poller' \subseteq DOMAIN poller
         /\ \A q \in DOMAIN poller' \ {p} : PollerOK(q)'
         /\ \A s \in Suppressing \ {p[1]} : SourceOK(s)'
         /\ DOMAIN seen' \cup DOMAIN told' \subseteq Polled
<1>1. /\ DOMAIN poller' \subseteq DOMAIN poller
      /\ DOMAIN poller \ {p} \subseteq DOMAIN poller'
      /\ \A q \in DOMAIN poller \ {p} : poller'[q] = poller[q]
  BY PollersOfStep
<1>2. \A t \in SuppressingType : adapter[t] # "starting" => adapter'[t] # "starting"
  <2>1. CASE RecoveryFails(p)
    <3>1. TypeOf[p[1]] \notin SuppressingType
      BY <2>1 DEF RecoveryFails, ReportsInv, PollerOK
    <3> QED
      BY <2>1, <3>1 DEF RecoveryFails
  <2>2. CASE ~RecoveryFails(p)
    BY <2>2 DEF PollerStep, Observe, Check, PollBreaks, Breaks, Send, SendFails, deployVars
  <2> QED
    BY <2>1, <2>2
<1>3. ASSUME NEW s, s # p[1]
      PROVE  /\ s \in DOMAIN seen <=> s \in DOMAIN seen'
             /\ s \in DOMAIN seen => seen'[s] = seen[s]
             /\ s \in DOMAIN told <=> s \in DOMAIN told'
             /\ s \in DOMAIN told => told'[s] = told[s]
             /\ s \in DOMAIN known <=> s \in DOMAIN known'
             /\ s \in DOMAIN known => known'[s] = known[s]
             /\ s \in recent' => s \in recent
             /\ s \in lost => s \in lost'
  BY <1>3, StepOfAnother
<1>4. ASSUME NEW q \in DOMAIN poller' \ {p} PROVE PollerOK(q)'
  <2>1. PollerOK(q) /\ PollerOK(p) /\ q \in DOMAIN poller
    BY <1>1 DEF ReportsInv
  <2>2. TypeOf[q[1]] \in SuppressingType => q[1] # p[1]
    BY <2>1 DEF PollerOK
  <2>3. TypeOf[q[1]] \in SuppressingType /\ poller[q].at = "sending" =>
          q[1] \in DOMAIN seen /\ q[1] \in DOMAIN known
    BY <2>1 DEF PollerOK, IsKnown
  <2> QED
    BY <1>1, <1>2, <1>3, <2>1, <2>2, <2>3, PollerStays
<1>5. ASSUME NEW s \in Suppressing \ {p[1]} PROVE SourceOK(s)'
  <2>1. IsSending(s) => IsSending(s)'
    BY <1>1, <1>5 DEF IsSending
  <2> QED
    BY <1>3, <2>1, SourceStays DEF ReportsInv
<1>6. p[1] \in Polled /\ DOMAIN seen \cup DOMAIN told \subseteq Polled
  BY DEF ReportsInv, PollerOK
<1> QED
  BY <1>1, <1>3, <1>4, <1>5, <1>6

LEMMA TypesArePartitioned ==
  ASSUME ReportsInv
  PROVE  /\ Polled \subseteq Source
         /\ Suppressing \subseteq Polled
         /\ \A s \in Polled : TypeOf[s] \in SuppressingType \/ TypeOf[s] \in CheckingType
         /\ \A t \in CheckingType : t \notin SuppressingType
<1>1. Enabled \subseteq Source
  BY PerceptionAssumption DEF ReportsInv, Enabled
<1> QED
  BY <1>1, PerceptionAssumption DEF Polled, Suppressing, Types, SuppressingType, CheckingType,
                                    ArrivingType

(* The poller that takes a step is left in order. *)
LEMMA PollerIsLeft ==
  ASSUME ReportsInv, NEW p \in DOMAIN poller, PollerStep(p), deployment' = deployment,
         p \in DOMAIN poller', NEW s, s = p[1]
  PROVE  PollerOK(p)'
<1>a. PollerOK(p) /\ Polled' = Polled
  BY DEF ReportsInv, Polled, Enabled
<1>b. s \in Polled /\ p = <<p[1], p[2]>>
  BY <1>a DEF PollerOK
<1>c. s \in Suppressing <=> TypeOf[s] \in SuppressingType
  BY <1>b DEF Suppressing
<1>d. TypeOf[s] \in CheckingType \/ TypeOf[s] \in SuppressingType
  BY <1>b, TypesArePartitioned
<1>e. ASSUME NEW at, NEW todo, Resume(p, at, todo)
      PROVE  /\ poller'[p] = [at |-> at, todo |-> todo] /\ DOMAIN poller' = DOMAIN poller
             /\ poller'[p].at = at /\ poller'[p].todo = todo
  BY <1>e DEF Resume
<1>f. ASSUME TypeOf[s] \in CheckingType, NEW at \in {"asleep", "sending", "recovering"}, NEW todo,
             Resume(p, at, todo), todo \in Seq(Finding), at = "asleep" <=> todo = <<>>,
             at = "recovering" => todo = Outage
      PROVE  PollerOK(p)'
  <2>1. TypeOf[s] \notin SuppressingType
    BY <1>f, TypesArePartitioned
  <2> QED
    BY <1>a, <1>b, <1>e, <1>f, <2>1 DEF PollerOK
<1>g. TypeOf[s] \in CheckingType =>
        Reports(s, Unreachable) = Outage /\ Outage \in Seq(Finding) /\ Outage # <<>>
  BY FindingsAreSent DEF Outage
<1>1. ASSUME NEW r \in Readings(s), Observe(p, r) PROVE PollerOK(p)'
  <2>1. /\ TypeOf[s] \in SuppressingType /\ UNCHANGED adapter
        /\ s \in DOMAIN seen' /\ seen'[s] = r
    BY <1>1 DEF Observe, See, deployVars
  <2>2. CASE Remember(s, r) /\ Resume(p, "sending", Reports(s, r))
    <3>1. IsKnown(s, seen[s])'
      BY <2>1, <2>2 DEF IsKnown, Remember
    <3>2. TypeOf[s] \notin CheckingType
      BY <2>1, TypesArePartitioned
    <3>3. poller'[p].at = "sending" /\ poller'[p].todo = Reports(s, r) /\ DOMAIN poller' = DOMAIN poller
      BY <1>e, <2>2
    <3> QED
      BY <1>a, <1>b, <2>1, <3>1, <3>2, <3>3 DEF PollerOK
  <2>3. CASE UNCHANGED <<known, poller>>
    <3>1. poller[p].at = "asleep"
      BY <1>1 DEF Observe
    <3> QED
      BY <1>a, <2>1, <2>3, <3>1 DEF PollerOK
  <2> QED
    BY <1>1, <2>2, <2>3 DEF Observe
<1>2. ASSUME NEW r \in Readings(s), Check(p, r) PROVE PollerOK(p)'
  <2> DEFINE at == IF r = Unreachable THEN "recovering"
                   ELSE IF Reports(s, r) = <<>> THEN "asleep" ELSE "sending"
  <2>1. TypeOf[s] \in CheckingType /\ Resume(p, at, Reports(s, r))
    BY <1>2 DEF Check
  <2>2. Reports(s, r) \in Seq(Finding) /\ (r = Unreachable => Reports(s, r) = Outage)
    BY <2>1, FindingsAreSent
  <2> QED
    BY <1>f, <1>g, <2>1, <2>2
<1>3. CASE PollBreaks(p)
  BY <1>3, <1>a DEF PollBreaks, PollerOK, deployVars
<1>4. CASE Breaks(p)
  <2>1. TypeOf[s] \in CheckingType /\ Resume(p, "recovering", Reports(s, Unreachable))
    BY <1>4 DEF Breaks, CheckingType
  <2> QED
    BY <1>f, <1>g, <2>1
<1>5. CASE Send(p)
  <2> DEFINE rest == Tail(poller[p].todo)
  <2>1. Resume(p, IF rest = <<>> THEN "asleep" ELSE poller[p].at, rest)
        /\ poller[p].at # "asleep" /\ UNCHANGED <<adapter, seen, known>>
    BY <1>5 DEF Send, deployVars
  <2>2. CASE TypeOf[s] \in CheckingType
    <3>1. rest \in Seq(Finding)
      BY <1>a, <2>1, <2>2 DEF PollerOK
    <3>2. poller[p].at = "recovering" => rest = <<>>
      <4>1. Tail(Outage) = <<>>
        BY DEF Outage
      <4> QED
        BY <1>a, <2>2, <4>1 DEF PollerOK
    <3>3. poller[p].at \in {"sending", "recovering"}
      BY <1>a, <2>1 DEF PollerOK
    <3> HIDE DEF rest
    <3> QED
      BY <1>f, <2>1, <2>2, <3>1, <3>2, <3>3
  <2>3. CASE TypeOf[s] \in SuppressingType
    <3>1. poller[p].todo = Reports(s, seen[s])
      BY <1>a, <2>1, <2>3 DEF PollerOK
    <3>2. rest = <<>>
      BY <2>3, <3>1, OneReport
    <3>3. poller'[p].at = "asleep" /\ poller'[p].todo = <<>> /\ DOMAIN poller' = DOMAIN poller
      BY <1>e, <2>1, <3>2
    <3>4. TypeOf[s] \notin CheckingType
      BY <2>3, TypesArePartitioned
    <3> QED
      BY <1>a, <2>1, <3>3, <3>4 DEF PollerOK
  <2> QED
    BY <1>d, <2>2, <2>3
<1>6. CASE SendFails(p)
  <2>1. CASE TypeOf[s] \in CheckingType
    <3>1. TypeOf[s] \notin SuppressingType
      BY <2>1, TypesArePartitioned
    <3>2. Resume(p, "recovering", Reports(s, Unreachable))
      BY <1>6, <3>1 DEF SendFails
    <3> QED
      BY <1>f, <1>g, <2>1, <3>2
  <2>2. CASE TypeOf[s] \in SuppressingType
    <3>1. Resume(p, "asleep", <<>>) /\ UNCHANGED <<adapter, seen, known>>
      BY <1>6, <2>2 DEF SendFails, deployVars
    <3>2. poller'[p].at = "asleep" /\ poller'[p].todo = <<>> /\ DOMAIN poller' = DOMAIN poller
      BY <1>e, <3>1
    <3>3. TypeOf[s] \notin CheckingType
      BY <2>2, TypesArePartitioned
    <3> QED
      BY <1>a, <3>1, <3>2, <3>3 DEF PollerOK
  <2> QED
    BY <1>d, <2>1, <2>2
<1>7. CASE RecoveryFails(p)
  BY <1>7 DEF RecoveryFails
<1> QED
  BY <1>1, <1>2, <1>3, <1>4, <1>5, <1>6, <1>7 DEF PollerStep

(* So is its source, if it is an API or a queue. *)
LEMMA SourceIsLeft ==
  ASSUME ReportsInv, NEW p \in DOMAIN poller, PollerStep(p), deployment' = deployment,
         NEW s \in Suppressing, s = p[1]
  PROVE  SourceOK(s)'
<1>a. PollerOK(p) /\ SourceOK(s)
  BY DEF ReportsInv
<1>b. TypeOf[s] \in SuppressingType /\ TypeOf[s] \notin CheckingType
  BY TypesArePartitioned DEF Suppressing
<1>c. \A q \in DOMAIN poller : q[1] = s => q = p
  BY <1>a, <1>b DEF PollerOK
<1>d. IsSending(s) <=> poller[p].at # "asleep"
  BY <1>c DEF IsSending
<1>1. ASSUME NEW r \in Readings(s), Observe(p, r) PROVE SourceOK(s)'
  <2>1. s \in DOMAIN seen' /\ seen'[s] = r /\ r \in Reading[s] /\ UNCHANGED <<told, recent>>
    BY <1>1 DEF Observe, See
  <2>2. CASE Remember(s, r) /\ Resume(p, "sending", Reports(s, r))
    <3>1. IsSending(s)'
      BY <2>2 DEF IsSending, Resume
    <3> QED
      BY <1>a, <2>1, <3>1 DEF SourceOK
  <2>3. CASE IsKnown(s, r) /\ UNCHANGED <<known, poller, lost>>
    <3>1. ~IsSending(s)
      BY <1>1, <1>d DEF Observe
    <3> QED
      BY <1>a, <2>1, <2>3, <3>1 DEF SourceOK, IsKnown, IsSending
  <2>4. ~IsKnown(s, r) => Publishes(s, r) = {TRUE}
    BY DEF Publishes
  <2>5. \/ Remember(s, r) /\ Resume(p, "sending", Reports(s, r))
        \/ FALSE \in Publishes(s, r) /\ UNCHANGED <<known, poller, lost>>
    <3>1. CASE FALSE \in Publishes(s, r)
      BY <1>1, <3>1 DEF Observe
    <3>2. CASE FALSE \notin Publishes(s, r)
      <4>1. Publishes(s, r) = {TRUE}
        BY <3>2 DEF Publishes
      <4>2. \E publishes \in {TRUE} :
              IF publishes
              THEN /\ Remember(s, r)
                   /\ Resume(p, "sending", Reports(s, r))
                   /\ eclipsed' = eclipsed \ {s} /\ lost' = lost \ {s}
              ELSE UNCHANGED <<known, poller, eclipsed, lost>>
        BY <1>1, <4>1 DEF Observe
      <4> QED
        BY <4>2
    <3> QED
      BY <3>1, <3>2
  <2> QED
    BY <2>2, <2>3, <2>4, <2>5
<1>2. CASE PollBreaks(p)
  BY <1>2, <1>a, SourceStays DEF PollBreaks, IsSending
<1>3. CASE Send(p)
  <2>1. /\ poller[p].at # "asleep"
        /\ Resume(p, IF Tail(poller[p].todo) = <<>> THEN "asleep" ELSE poller[p].at,
                     Tail(poller[p].todo))
        /\ UNCHANGED <<seen, known>>
    BY <1>3 DEF Send
  <2>2. /\ poller[p].at = "sending" /\ s \in DOMAIN seen /\ IsKnown(s, seen[s])
        /\ poller[p].todo = Reports(s, seen[s])
    BY <1>a, <1>b, <2>1 DEF PollerOK
  <2>3. Tail(poller[p].todo) = <<>>
    BY <1>b, <2>2, OneReport
  <2>4. ~IsSending(s)'
    BY <1>c, <2>1, <2>3 DEF Resume, IsSending
  <2>5. s \in DOMAIN told' /\ told'[s] = seen[s]
    BY <1>3, <2>2 DEF Send
  <2> QED
    BY <1>a, <2>1, <2>2, <2>4, <2>5 DEF SourceOK, IsKnown
<1>4. CASE SendFails(p)
  <2>1. s \in lost' /\ UNCHANGED <<seen, known, told, recent>>
    BY <1>4, <1>b DEF SendFails
  <2> QED
    BY <1>a, <2>1 DEF SourceOK
<1>5. ~Check(p, seen) /\ ~Breaks(p) /\ ~RecoveryFails(p) /\ \A r : ~Check(p, r)
  BY <1>a, <1>b DEF Check, Breaks, RecoveryFails, PollerOK, CheckingType
<1> QED
  BY <1>1, <1>2, <1>3, <1>4, <1>5 DEF PollerStep

LEMMA ReportsInit == Init => ReportsInv
<1> SUFFICES ASSUME Init PROVE ReportsInv
  OBVIOUS
<1> QED
  BY DEF Init, ReportsInv, SourceOK

LEMMA ReportsStep == ReportsInv /\ PollersInv /\ [Next]_perceptionVars => ReportsInv'
<1> SUFFICES ASSUME ReportsInv, PollersInv, [Next]_perceptionVars PROVE ReportsInv'
  OBVIOUS
<1>0. deployment' = deployment
  BY DeploymentIsFixed
<1>a. Polled' = Polled /\ Suppressing' = Suppressing
  BY <1>0 DEF Polled, Suppressing, Enabled
<1>b. ASSUME UNCHANGED <<poller, known, seen, told, recent, lost>>,
             \A t \in SuppressingType : adapter[t] # "starting" => adapter'[t] # "starting"
      PROVE  ReportsInv'
  BY <1>0, <1>b, ReportsStay
<1>c. ASSUME UNCHANGED <<deployVars, pollVars>> PROVE ReportsInv'
  BY <1>b, <1>c DEF deployVars, pollVars
<1>1. ASSUME NEW t \in Used, Start(t) PROVE ReportsInv'
  <2> DEFINE new == {<<s, generation[t] + 1>> : s \in {s \in Polled : TypeOf[s] = t}}
  <2>0. /\ adapter[t] = "starting"
        /\ UNCHANGED <<known, seen, told, recent, lost>>
    BY <1>1 DEF Start
  <2>1. CASE /\ adapter' = [adapter EXCEPT ![t] = "running"]
             /\ poller' = [p \in DOMAIN poller \cup new |->
                             IF p \in new THEN [at |-> "asleep", todo |-> <<>>] ELSE poller[p]]
    <3>1. \A u : adapter[u] # "starting" => adapter'[u] # "starting"
      BY <2>1 DEF PollersInv
    <3>2. ASSUME NEW p \in DOMAIN poller, TypeOf[p[1]] = t PROVE t \notin SuppressingType
      BY <2>0, <3>2 DEF ReportsInv, PollerOK
    <3>3. ASSUME NEW p \in new PROVE PollerOK(p)'
      <4>1. PICK s \in Polled : TypeOf[s] = t /\ p = <<s, generation[t] + 1>>
        OBVIOUS
      <4>2. poller'[p].at = "asleep" /\ poller'[p].todo = <<>> /\ DOMAIN poller' = DOMAIN poller \cup new
        BY <2>1
      <4>3. p = <<p[1], p[2]>> /\ p[1] = s /\ p[1] \in Polled'
        BY <1>a, <4>1
      <4>4. t \in CheckingType => <<>> \in Seq(Finding) /\ t \notin SuppressingType
        BY TypesArePartitioned
      <4>5. t \in SuppressingType => \A q \in DOMAIN poller' : q[1] = s => q = p
        <5>1. \A q \in new : q[1] = s => q = p
          BY <4>1
        <5>2. t \in SuppressingType => \A q \in DOMAIN poller : q[1] # s
          BY <3>2, <4>1
        <5> QED
          BY <4>2, <5>1, <5>2
      <4>6. adapter'[t] = "running"
        BY <2>1 DEF PollersInv
      <4> HIDE DEF new
      <4> QED
        BY <4>1, <4>2, <4>3, <4>4, <4>5, <4>6 DEF PollerOK
    <3>4. ASSUME NEW p \in DOMAIN poller, p \notin new PROVE PollerOK(p)'
      <4>1. TypeOf[p[1]] \in SuppressingType => \A q \in new : q[1] # p[1]
        BY <3>2
      <4>2. poller'[p] = poller[p] /\ p \in DOMAIN poller'
        BY <2>1, <3>4
      <4>3. PollerOK(p)
        BY DEF ReportsInv
      <4>4. DOMAIN poller' = DOMAIN poller \cup new
        BY <2>1
      <4> HIDE DEF new
      <4>5. poller[p].at = "sending" /\ TypeOf[p[1]] \in SuppressingType =>
              p[1] \in DOMAIN seen /\ p[1] \in DOMAIN known
        BY <4>3 DEF PollerOK, IsKnown
      <4> QED
        BY <1>0, <2>0, <3>1, <4>1, <4>2, <4>3, <4>4, <4>5, PollerStays
    <3>5. \A p \in DOMAIN poller' : PollerOK(p)'
      BY <2>1, <3>3, <3>4
    <3>6. ASSUME NEW s \in Suppressing PROVE SourceOK(s)'
      <4>1. IsSending(s) => IsSending(s)'
        <5>1. SUFFICES ASSUME NEW p \in DOMAIN poller, p[1] = s, poller[p].at # "asleep"
                       PROVE  IsSending(s)'
          BY DEF IsSending
        <5>2. p \notin new
          BY <3>2, <5>1 DEF Suppressing
        <5>3. poller'[p] = poller[p] /\ p \in DOMAIN poller'
          BY <2>1, <5>2
        <5> QED
          BY <5>1, <5>3 DEF IsSending
      <4> QED
        BY <2>0, <4>1, SourceStays DEF ReportsInv
    <3> QED
      BY <1>0, <1>a, <2>0, <3>5, <3>6 DEF ReportsInv
  <2>2. CASE /\ adapter' = [adapter EXCEPT ![t] = IF t = "push" THEN "offline" ELSE @]
             /\ UNCHANGED poller
    <3>1. \A u \in SuppressingType : adapter[u] # "starting" => adapter'[u] # "starting"
      BY <2>2, <2>0 DEF PollersInv
    <3> QED
      BY <1>b, <2>0, <2>2, <3>1
  <2> QED
    BY <1>1, <2>1, <2>2 DEF Start
<1>2. CASE Crash
  <2>1. /\ DOMAIN poller' = {} /\ UNCHANGED <<known, seen, told, recent>>
        /\ lost' = lost \cup {p[1] : p \in {p \in DOMAIN poller : poller[p].at # "asleep"}}
    BY <1>2 DEF Crash
  <2>2. ASSUME NEW s \in Suppressing PROVE SourceOK(s)'
    <3>1. s \notin lost' => s \notin lost /\ ~IsSending(s)
      BY <2>1 DEF IsSending
    <3> QED
      BY <2>1, <3>1, SourceStays DEF ReportsInv
  <2> QED
    BY <1>0, <1>a, <2>1, <2>2 DEF ReportsInv
<1>3. ASSUME NEW p \in DOMAIN poller, PollerStep(p) PROVE ReportsInv'
  <2>1. \A q \in DOMAIN poller' : PollerOK(q)'
    BY <1>0, <1>3, OthersStay, PollerIsLeft
  <2>2. \A s \in Suppressing : SourceOK(s)'
    BY <1>0, <1>3, OthersStay, SourceIsLeft
  <2>3. DOMAIN seen' \cup DOMAIN told' \subseteq Polled
    BY <1>0, <1>3, OthersStay
  <2> QED
    BY <1>0, <1>a, <2>1, <2>2, <2>3 DEF ReportsInv
<1>4. ASSUME NEW s \in Arriving, ArrivalStep(s) PROVE ReportsInv'
  <2>1. UNCHANGED <<poller, known, seen, told, recent, lost>>
    BY <1>4 DEF ArrivalStep, Arrives, SendArrived, DropArrived, CommitLog, CommitFails,
                LogRaises, LogBreaks, pollVars
  <2>2. \A t \in SuppressingType : adapter'[t] = adapter[t]
    <3>1. CASE LogBreaks(s)
      BY <3>1 DEF LogBreaks, SuppressingType
    <3>2. CASE UNCHANGED adapter
      BY <3>2
    <3> QED
      BY <1>4, <3>1, <3>2 DEF ArrivalStep, Arrives, SendArrived, DropArrived, CommitLog,
                              CommitFails, LogRaises, deployVars
  <2> QED
    BY <1>b, <2>1, <2>2
<1>5. CASE Tick
  <2>1. /\ \A p \in DOMAIN poller : poller[p].at = "asleep"
        /\ UNCHANGED <<adapter, poller, seen, told, lost>> /\ recent' = {}
        /\ known' = [s \in {s \in DOMAIN known : known[s].left > 1} |->
                       [known[s] EXCEPT !.left = @ - 1]]
    BY <1>5 DEF Tick, Quiet, deployVars
  <2>2. \A p \in DOMAIN poller : PollerOK(p)'
    BY <1>0, <2>1, PollerStays DEF ReportsInv
  <2>3. ASSUME NEW s \in Suppressing PROVE SourceOK(s)'
    <3>1. ~IsSending(s) /\ ~IsSending(s)'
      BY <2>1 DEF IsSending
    <3>2. SourceOK(s)
      BY DEF ReportsInv
    <3>3. s \notin lost /\ s \in DOMAIN known' =>
            s \in DOMAIN known /\ known'[s].state = known[s].state
      <4>1. SUFFICES ASSUME s \notin lost, s \in DOMAIN known'
                     PROVE  s \in DOMAIN known /\ known'[s].state = known[s].state
        OBVIOUS
      <4>2. s \in DOMAIN known /\ known'[s] = [known[s] EXCEPT !.left = @ - 1]
        BY <2>1, <4>1
      <4> QED
        BY <4>2
    <3> QED
      BY <2>1, <3>1, <3>2, <3>3 DEF SourceOK, IsKnown
  <2> QED
    BY <1>0, <1>a, <2>1, <2>2, <2>3 DEF ReportsInv
<1>6. CASE deployment.watched /\ MonitorStep /\ UNCHANGED <<deployVars, pollVars, arrivalVars>>
  BY <1>6, <1>c
<1>7. CASE \E k \in Stale : ExpireAnomaly(k)
             /\ UNCHANGED <<faults, deployVars, pollVars, arrivalVars>>
  BY <1>7, <1>c
<1>8. CASE UNCHANGED perceptionVars
  BY <1>8, <1>c DEF perceptionVars
<1> QED
  BY <1>1, <1>2, <1>3, <1>4, <1>5, <1>6, <1>7, <1>8 DEF Next

(* What an API or a queue was last published to be is what it was last read to be:
   the state key never suppresses a change, api_adapter.py:150-166 and
   queue_adapter.py:200-218. *)
THEOREM ChangesAreReported == Spec => []ReportStands
<1>1. ReportsInv => ReportStands
  <2> SUFFICES ASSUME ReportsInv, NEW s \in (DOMAIN seen \cap DOMAIN told) \ lost,
                      TypeOf[s] \in SuppressingType, ~IsSending(s)
               PROVE  State(s, seen[s]) = State(s, told[s])
    BY DEF ReportStands, State, SuppressingType
  <2> QED
    BY DEF ReportsInv, SourceOK, Suppressing
<1> QED
  BY <1>1, PollersInit, PollersStep, ReportsInit, ReportsStep, PTL DEF Spec

(* Who has reported what is open after an event. *)
LEMMA ReportersAfter ==
  ASSUME NEW refs, NEW ev, NEW by, NEW old,
         NEW k \in DOMAIN OpenAfter(refs, ev, by, old),
         NEW s \in OpenAfter(refs, ev, by, old)[k].by
  PROVE  \/ k \in DOMAIN open /\ k \notin ClosedBy(refs, ev) /\ s \in open[k].by
         \/ s = by /\ k \in OpenedBy(refs, ev)
<1>1. k \in (DOMAIN open \ ClosedBy(refs, ev)) \cup OpenedBy(refs, ev)
  BY DEF OpenAfter
<1>2. CASE k \notin OpenedBy(refs, ev)
  BY <1>1, <1>2 DEF OpenAfter
<1>3. CASE k \in OpenedBy(refs, ev) /\ k \in DOMAIN open
  <2>1. s \in open[k].by \cup {by}
    BY <1>3 DEF OpenAfter
  <2>2. k \notin ClosedBy(refs, ev)
    BY <1>3 DEF OpenedBy, ClosedBy
  <2> QED
    BY <1>3, <2>1, <2>2
<1>4. CASE k \in OpenedBy(refs, ev) /\ k \notin DOMAIN open
  BY <1>1, <1>4 DEF OpenAfter
<1> QED
  BY <1>2, <1>3, <1>4

(* An open anomaly keeps its severity, whether it was seen, and its reporters. *)
OpenInv ==
  \A k \in DOMAIN open :
    open[k] = [severity |-> open[k].severity, seen |-> open[k].seen, by |-> open[k].by]

LEMMA OpenInit == Init => OpenInv
BY DEF Init, MonitorInit, OpenInv

LEMMA OpenStep == OpenInv /\ [Next]_perceptionVars => OpenInv'
<1> SUFFICES ASSUME OpenInv, [Next]_perceptionVars PROVE OpenInv'
  OBVIOUS
<1>a. ASSUME UNCHANGED open PROVE OpenInv'
  BY <1>a DEF OpenInv
<1>b. ASSUME NEW refs, NEW ev, NEW by, NEW old, open' = OpenAfter(refs, ev, by, old)
      PROVE  OpenInv'
  <2>1. SUFFICES ASSUME NEW k \in DOMAIN open'
                 PROVE  open'[k] = [severity |-> open'[k].severity, seen |-> open'[k].seen,
                                    by |-> open'[k].by]
    BY DEF OpenInv
  <2>2. CASE k \notin OpenedBy(refs, ev)
    BY <1>b, <2>1, <2>2 DEF OpenInv, OpenAfter
  <2>3. CASE k \in OpenedBy(refs, ev) /\ k \in DOMAIN open
    BY <1>b, <2>1, <2>3 DEF OpenAfter
  <2>4. CASE k \in OpenedBy(refs, ev) /\ k \notin DOMAIN open
    BY <1>b, <2>1, <2>4 DEF OpenAfter
  <2> QED
    BY <2>2, <2>3, <2>4
<1>1. CASE \E t \in Used : Start(t)
  BY <1>1, <1>a DEF Start
<1>2. CASE Crash
  BY <1>2, <1>a DEF Crash
<1>3. ASSUME NEW p \in DOMAIN poller, PollerStep(p) PROVE OpenInv'
  BY <1>3, <1>a, <1>b DEF PollerStep, Observe, Check, PollBreaks, Breaks, Send, Take, SendFails,
                          RecoveryFails
<1>4. ASSUME NEW s \in Arriving, ArrivalStep(s) PROVE OpenInv'
  BY <1>4, <1>a, <1>b DEF ArrivalStep, Arrives, SendArrived, Publish, Take, DropArrived,
                          CommitLog, CommitFails, LogRaises, LogBreaks
<1>5. CASE Tick
  <2>1. open' = [k \in DOMAIN open |-> [open[k] EXCEPT !.seen = FALSE]]
    BY <1>5 DEF Tick
  <2>2. SUFFICES ASSUME NEW k \in DOMAIN open
                 PROVE  open'[k] = [severity |-> open'[k].severity, seen |-> open'[k].seen,
                                    by |-> open'[k].by]
    BY <2>1 DEF OpenInv
  <2>3. \A a, b, c, d : [[severity |-> a, seen |-> b, by |-> c] EXCEPT !.seen = d]
                       = [severity |-> a, seen |-> d, by |-> c]
    OBVIOUS
  <2>4. PICK a, c : open'[k] = [severity |-> a, seen |-> FALSE, by |-> c]
    <3>1. PICK a, b, c : open[k] = [severity |-> a, seen |-> b, by |-> c]
      BY DEF OpenInv
    <3>2. open'[k] = [open[k] EXCEPT !.seen = FALSE]
      BY <2>1
    <3>3. open'[k] = [[severity |-> a, seen |-> b, by |-> c] EXCEPT !.seen = FALSE]
      BY <3>1, <3>2
    <3> QED
      BY <2>3, <3>3
  <2> QED
    BY <2>4
<1>6. CASE deployment.watched /\ MonitorStep /\ UNCHANGED <<deployVars, pollVars, arrivalVars>>
  BY <1>6, <1>a, <1>b DEF MonitorStep, MonitorPolls, SkipNext, SignalNext, SignalSent, SignalFails
<1>7. CASE \E k \in Stale : ExpireAnomaly(k)
             /\ UNCHANGED <<faults, deployVars, pollVars, arrivalVars>>
  BY <1>7 DEF ExpireAnomaly, OpenInv
<1>8. CASE UNCHANGED perceptionVars
  BY <1>8, <1>a DEF perceptionVars
<1> QED
  BY <1>1, <1>2, <1>3, <1>4, <1>5, <1>6, <1>7, <1>8 DEF Next

LEMMA OwnInit == Init => OwnInv
BY DEF Init, MonitorInit, OwnInv

(* Where nothing new is reported, and nothing published of a poller. *)
LEMMA OwnStays ==
  ASSUME OwnInv, UNCHANGED <<deployment, told>>,
         \A k \in DOMAIN open' : \A s \in open'[k].by \cap Suppressing :
           k \in DOMAIN open /\ s \in open[k].by
  PROVE  OwnInv'
<1>1. Suppressing' = Suppressing
  BY DEF Suppressing, Polled, Enabled
<1> QED
  BY <1>1 DEF OwnInv

LEMMA OwnStep == OwnInv /\ ReportsInv /\ OpenInv /\ [Next]_perceptionVars => OwnInv'
<1> SUFFICES ASSUME OwnInv, ReportsInv, OpenInv, [Next]_perceptionVars PROVE OwnInv'
  OBVIOUS
<1>0. deployment' = deployment
  BY DeploymentIsFixed
<1>a. Polled' = Polled /\ Suppressing' = Suppressing
  BY <1>0 DEF Polled, Suppressing, Enabled
<1>b. ASSUME UNCHANGED <<open, told>> PROVE OwnInv'
  BY <1>0, <1>b, OwnStays
<1>c. ASSUME UNCHANGED told, NEW refs, NEW ev, NEW by, NEW old, by \notin Suppressing,
             open' = OpenAfter(refs, ev, by, old)
      PROVE  OwnInv'
  BY <1>0, <1>c, OwnStays, ReportersAfter
<1>1. ASSUME NEW t \in Used, Start(t) PROVE OwnInv'
  BY <1>1, <1>b DEF Start
<1>2. CASE Crash
  BY <1>2, <1>b DEF Crash
<1>3. ASSUME NEW p \in DOMAIN poller, PollerStep(p) PROVE OwnInv'
  <2>1. CASE Send(p)
    <3>1. PICK u, ev : u = p[1] /\ ev = Head(poller[p].todo)
      OBVIOUS
    <3>2. /\ open' = OpenAfter(Refs(u, ev), ev, u, FALSE) /\ poller[p].at # "asleep"
          /\ told' = IF u \in DOMAIN seen
                     THEN [t \in DOMAIN told \cup {u} |-> IF t = u THEN seen[u] ELSE told[t]]
                     ELSE told
      BY <2>1, <3>1 DEF Send, Take
    <3>3. SUFFICES ASSUME NEW s \in Suppressing, NEW k \in DOMAIN open', s \in open'[k].by
                   PROVE  k[1] \in About[s] /\ (s \in DOMAIN told' => ~Works(s, told'[s]))
      BY <1>a DEF OwnInv
    <3>4. \/ k \in DOMAIN open /\ k \notin ClosedBy(Refs(u, ev), ev) /\ s \in open[k].by
          \/ s = u /\ k \in OpenedBy(Refs(u, ev), ev)
      BY <3>2, <3>3, ReportersAfter
    <3>5. CASE s # u
      BY <3>2, <3>4, <3>5 DEF OwnInv
    <3>6. CASE s = u
      <4>1. PollerOK(p) /\ TypeOf[s] \in SuppressingType /\ s \in Source
        BY TypesArePartitioned DEF ReportsInv, Suppressing
      <4>2. s \in DOMAIN seen /\ poller[p].todo = Reports(s, seen[s])
        BY <3>1, <3>2, <3>6, <4>1 DEF PollerOK
      <4>3. ev = Reports(s, seen[s])[1]
        BY <3>1, <4>1, <4>2, OneReport
      <4>4. seen[s] \in Reading[s]
        BY <4>2 DEF ReportsInv, SourceOK
      <4>5. Works(s, seen[s]) => ev.kind \in Resolving
        BY <4>1, <4>3, <4>4, RecoveryIsTold
      <4>6. told'[s] = seen[s]
        BY <3>2, <3>6, <4>2
      <4>7. Refs(u, ev) = About[s]
        BY <3>6, <4>1 DEF Refs, SuppressingType
      <4>8. CASE k \in OpenedBy(Refs(u, ev), ev)
        <5>1. k[1] \in About[s] /\ ev.kind \notin Resolving
          BY <4>7, <4>8 DEF OpenedBy
        <5> QED
          BY <4>5, <4>6, <5>1
      <4>9. CASE k \in DOMAIN open /\ k \notin ClosedBy(Refs(u, ev), ev) /\ s \in open[k].by
        <5>1. k[1] \in About[s] /\ k[1] \in Entity
          BY <4>1, <4>9, PerceptionAssumption DEF OwnInv
        <5>2. ev.kind \notin Resolving
          BY <4>7, <4>9, <5>1, MonitorAssumption DEF ClosedBy
        <5> QED
          BY <4>5, <4>6, <5>1, <5>2
      <4> QED
        BY <3>4, <4>8, <4>9
    <3> QED
      BY <3>5, <3>6
  <2>2. CASE ~Send(p)
    BY <1>3, <1>b, <2>2 DEF PollerStep, Observe, Check, PollBreaks, Breaks, SendFails,
                            RecoveryFails
  <2> QED
    BY <2>1, <2>2
<1>4. ASSUME NEW s \in Arriving, ArrivalStep(s) PROVE OwnInv'
  <2>1. ASSUME NEW i \in DOMAIN arrived[s], SendArrived(s, i) PROVE OwnInv'
    <3>1. Publish(s, arrived[s][i]) /\ UNCHANGED told
      BY <2>1 DEF SendArrived
    <3>2. s \notin Suppressing
      BY DEF Arriving, Suppressing
    <3>3. CASE UNCHANGED open
      BY <1>b, <3>1, <3>3
    <3>4. CASE Events(s, arrived[s][i]) # <<>>
      <4>1. PICK ev : open' = OpenAfter(About[s], ev, s, IsOld(s, arrived[s][i]))
        BY <3>1, <3>4 DEF Publish, Take
      <4> QED
        BY <1>c, <3>1, <3>2, <4>1
    <3> QED
      BY <3>1, <3>3, <3>4 DEF Publish
  <2>2. CASE ~ \E i \in DOMAIN arrived[s] : SendArrived(s, i)
    BY <1>4, <1>b, <2>2 DEF ArrivalStep, Arrives, DropArrived, CommitLog, CommitFails,
                            LogRaises, LogBreaks, pollVars
  <2> QED
    BY <2>1, <2>2
<1>5. CASE Tick
  <2>1. DOMAIN open' = DOMAIN open /\ \A k \in DOMAIN open : open'[k].by = open[k].by
    BY <1>5 DEF Tick, OpenInv
  <2> QED
    BY <1>0, <1>5, <2>1, OwnStays DEF Tick
<1>6. CASE deployment.watched /\ MonitorStep /\ UNCHANGED <<deployVars, pollVars, arrivalVars>>
  <2>1. CASE UNCHANGED open
    BY <1>6, <1>b, <2>1 DEF pollVars
  <2>2. ASSUME NEW x \in sending, SignalSent(x) PROVE OwnInv'
    <3>1. Monitor \notin Suppressing
      BY TypesArePartitioned, PerceptionAssumption
    <3> QED
      BY <1>6, <1>c, <2>2, <3>1 DEF SignalSent, pollVars
  <2> QED
    BY <1>6, <2>1, <2>2 DEF MonitorStep, MonitorPolls, SkipNext, SignalNext, SignalFails
<1>7. ASSUME NEW k \in Stale, ExpireAnomaly(k), UNCHANGED pollVars PROVE OwnInv'
  <2>1. open' = [l \in DOMAIN open \ {k} |-> open[l]]
    BY <1>7 DEF ExpireAnomaly
  <2> QED
    BY <1>0, <1>7, <2>1, OwnStays DEF pollVars
<1>8. CASE UNCHANGED perceptionVars
  BY <1>8, <1>b DEF perceptionVars, pollVars
<1> QED
  BY <1>1, <1>2, <1>3, <1>4, <1>5, <1>6, <1>7, <1>8 DEF Next

(* Once it is published that an API or a queue works, nothing is open that it has
   reported: api_normalizer.py:48-120, queue_normalizer.py:43-96. *)
THEOREM RecoveryClosesAll == Spec => []RecoveryClears
<1>1. OwnInv /\ ReportsInv => RecoveryClears
  <2> SUFFICES ASSUME OwnInv, ReportsInv, NEW s \in DOMAIN told, Works(s, told[s]),
                      NEW k \in DOMAIN open
               PROVE  s \notin open[k].by
    BY DEF RecoveryClears, Works
  <2>1. s \in Suppressing
    BY DEF ReportsInv, Works, Suppressing, SuppressingType
  <2> QED
    BY <2>1 DEF OwnInv
<1> QED
  BY <1>1, PollersInit, PollersStep, ReportsInit, ReportsStep, OpenInit, OpenStep, OwnInit, OwnStep, PTL
     DEF Spec

(* No poller is of a start that is still to come. *)
GenerationsInv ==
  \A p \in DOMAIN poller : p[2] \in Nat /\ p[2] <= generation[TypeOf[p[1]]]

LEMMA GenerationsInit == Init => GenerationsInv
BY DEF Init, GenerationsInv

LEMMA GenerationsStep ==
  GenerationsInv /\ PollersInv /\ ReportsInv /\ [Next]_perceptionVars => GenerationsInv'
<1> SUFFICES ASSUME GenerationsInv, PollersInv, ReportsInv, [Next]_perceptionVars
             PROVE  GenerationsInv'
  OBVIOUS
<1>a. ASSUME UNCHANGED generation, DOMAIN poller' \subseteq DOMAIN poller PROVE GenerationsInv'
  BY <1>a DEF GenerationsInv
<1>1. ASSUME NEW t \in Used, Start(t) PROVE GenerationsInv'
  <2> DEFINE new == {<<s, generation[t] + 1>> : s \in {s \in Polled : TypeOf[s] = t}}
  <2>1. CASE /\ generation' = [generation EXCEPT ![t] = IF new = {} THEN @ ELSE @ + 1]
             /\ DOMAIN poller' = DOMAIN poller \cup new
    <3>1. generation[t] \in Nat /\ t \in DOMAIN generation
      BY DEF PollersInv
    <3>2. ASSUME NEW p \in new
          PROVE  p[2] \in Nat /\ p[2] <= generation'[TypeOf[p[1]]]
      <4>1. PICK s \in Polled : TypeOf[s] = t /\ p = <<s, generation[t] + 1>>
        OBVIOUS
      <4>2. generation'[t] = generation[t] + 1
        BY <2>1, <3>1
      <4> QED
        BY <3>1, <4>1, <4>2
    <3>3. ASSUME NEW p \in DOMAIN poller
          PROVE  p[2] \in Nat /\ p[2] <= generation'[TypeOf[p[1]]]
      <4>1. p[1] \in Polled
        BY DEF ReportsInv, PollerOK
      <4>2. TypeOf[p[1]] \in Used
        BY <4>1 DEF Used, Polled
      <4>3. generation[TypeOf[p[1]]] \in Nat
        BY <4>2 DEF PollersInv
      <4>4. generation'[TypeOf[p[1]]] \in {generation[TypeOf[p[1]]], generation[TypeOf[p[1]]] + 1}
        BY <2>1, <3>1, <4>2 DEF PollersInv
      <4> QED
        BY <4>3, <4>4 DEF GenerationsInv
    <3> QED
      BY <2>1, <3>2, <3>3 DEF GenerationsInv
  <2>2. CASE UNCHANGED <<generation, poller>>
    BY <1>a, <2>2
  <2> QED
    BY <1>1, <2>1, <2>2 DEF Start
<1>2. CASE Crash
  BY <1>2 DEF Crash, GenerationsInv
<1>3. ASSUME NEW p \in DOMAIN poller, PollerStep(p) PROVE GenerationsInv'
  BY <1>3, <1>a DEF PollerStep, Observe, Check, PollBreaks, Breaks, Send, SendFails, RecoveryFails,
                    Resume, deployVars
<1>4. ASSUME NEW s \in Arriving, ArrivalStep(s) PROVE GenerationsInv'
  BY <1>4, <1>a DEF ArrivalStep, Arrives, SendArrived, DropArrived, CommitLog, CommitFails,
                    LogRaises, LogBreaks, pollVars, deployVars
<1>5. CASE Tick
  BY <1>5, <1>a DEF Tick, deployVars
<1>6. CASE deployment.watched /\ MonitorStep /\ UNCHANGED <<deployVars, pollVars, arrivalVars>>
  BY <1>6, <1>a DEF deployVars, pollVars
<1>7. CASE \E k \in Stale : ExpireAnomaly(k)
             /\ UNCHANGED <<faults, deployVars, pollVars, arrivalVars>>
  BY <1>7, <1>a DEF deployVars, pollVars
<1>8. CASE UNCHANGED perceptionVars
  BY <1>8, <1>a DEF perceptionVars, deployVars, pollVars
<1> QED
  BY <1>1, <1>2, <1>3, <1>4, <1>5, <1>6, <1>7, <1>8 DEF Next

(* What was told stays so after an event that does not close it, and is not an
   old one of the same type. *)
LEMMA ToldAfter ==
  ASSUME NEW refs, NEW ev, NEW by, NEW old, open' = OpenAfter(refs, ev, by, old),
         NEW s, NEW k, IsTold(s, k), k \notin ClosedBy(refs, ev),
         old = FALSE \/ k \notin OpenedBy(refs, ev)
  PROVE  IsTold(s, k)'
<1>1. k \in DOMAIN open'
  BY DEF IsTold, OpenAfter
<1>2. CASE k \notin OpenedBy(refs, ev)
  BY <1>1, <1>2 DEF IsTold, OpenAfter
<1>3. CASE k \in OpenedBy(refs, ev) /\ old = FALSE
  <2>1. open'[k] = [severity |-> Worse(ev.severity, open[k].severity), seen |-> ~old,
                    by |-> open[k].by \cup {by}]
    BY <1>1, <1>3 DEF IsTold, OpenAfter
  <2>a. \A x, a, b, c : x = [severity |-> a, seen |-> b, by |-> c] => x.seen = b /\ x.by = c
    OBVIOUS
  <2>b. open'[k].seen = (~old) /\ open'[k].by = open[k].by \cup {by}
    BY <2>1, <2>a
  <2>2. open'[k].seen /\ open'[k].by = open[k].by \cup {by}
    BY <1>3, <2>b
  <2> QED
    BY <1>1, <2>2 DEF IsTold
<1> QED
  BY <1>2, <1>3

(* An event tells what it opens. *)
LEMMA EventTells ==
  ASSUME NEW refs, NEW ev, NEW by, NEW old, old = FALSE,
         open' = OpenAfter(refs, ev, by, old),
         NEW k \in OpenedBy(refs, ev)
  PROVE  IsTold(by, k)'
<1>1. k \in DOMAIN open'
  BY DEF OpenAfter
<1>2. \/ open'[k] = [severity |-> Worse(ev.severity, open[k].severity), seen |-> ~old,
                     by |-> open[k].by \cup {by}]
      \/ open'[k] = [severity |-> ev.severity, seen |-> ~old, by |-> {by}]
  BY DEF OpenAfter
<1>a. \A x, a, b, c : x = [severity |-> a, seen |-> b, by |-> c] => x.seen = b /\ x.by = c
  OBVIOUS
<1>b. open'[k].seen = (~old) /\ by \in open'[k].by
  BY <1>2, <1>a
<1>3. open'[k].seen /\ by \in open'[k].by
  BY <1>b
<1> QED
  BY <1>1, <1>3 DEF IsTold

(* The problems of a source stay in order if no more is known of it, nothing more
   is lost or sent of it, and what is open, or was to be sent, is open or to be
   sent. *)
LEMMA ProblemsStay ==
  ASSUME NEW s, ProblemsOK(s),
         TypeOf[s] = "api" /\ s \in recent' => s \in recent /\ told'[s] = told[s],
         TypeOf[s] # "api" /\ s \in polled' \cap DOMAIN seen' =>
           s \in polled \cap DOMAIN seen /\ seen'[s] = seen[s],
         TypeOf[s] \in SuppressingType /\ s \notin lost' /\ ~IsSending(s)' =>
           s \notin lost /\ ~IsSending(s),
         TypeOf[s] \in CheckingType /\ s \in lost /\ ~Recovering(s) =>
           s \in lost' /\ ~Recovering(s)',
         \A k : IsTold(s, k) => IsTold(s, k)',
         TypeOf[s] \in CheckingType =>
           \A k : IsComing(s, k) => IsTold(s, k)' \/ IsComing(s, k)'
  PROVE  ProblemsOK(s)'
<1>1. TypeOf[s] = "api" /\ s \in recent' \ lost' /\ ~IsSending(s)' =>
        \A k \in ProblemsOf(s, told'[s]) : IsTold(s, k)'
  BY DEF ProblemsOK, SuppressingType
<1>2. TypeOf[s] = "queue" /\ s \in (polled' \cap DOMAIN seen') \ lost' /\ ~IsSending(s)' =>
        \A k \in ProblemsOf(s, seen'[s]) : IsTold(s, k)'
  BY DEF ProblemsOK, SuppressingType
<1>3. TypeOf[s] \in CheckingType /\ s \in polled' \cap DOMAIN seen' =>
        \/ s \in lost' /\ ~Recovering(s)'
        \/ \A k \in ProblemsOf(s, seen'[s]) : IsTold(s, k)' \/ IsComing(s, k)'
  BY DEF ProblemsOK, CheckingType
<1> QED
  BY <1>1, <1>2, <1>3 DEF ProblemsOK

(* What a poller has to send is coming. *)
LEMMA ReadingIsComing ==
  ASSUME ReportsInv, NEW s, TypeOf[s] \in CheckingType, NEW r, s \in DOMAIN seen', seen'[s] = r,
         NEW p \in DOMAIN poller', p[1] = s, poller'[p].todo = Reports(s, r)
  PROVE  ProblemsOK(s)'
<1>1. ASSUME NEW k \in ProblemsOf(s, r) PROVE IsComing(s, k)'
  <2>1. PICK i \in DOMAIN Reports(s, r) : k \in OpenedBy(Refs(s, Reports(s, r)[i]), Reports(s, r)[i])
    BY DEF ProblemsOf
  <2> QED
    BY <2>1 DEF IsComing
<1>2. TypeOf[s] # "api" /\ TypeOf[s] # "queue"
  BY DEF CheckingType
<1> QED
  BY <1>1, <1>2 DEF ProblemsOK

(* The pollers of another source have what they had. *)
LEMMA PollersOfAnother ==
  ASSUME NEW p \in DOMAIN poller, PollerStep(p), NEW s, s # p[1]
  PROVE  /\ IsSending(s) <=> IsSending(s)'
         /\ Recovering(s) <=> Recovering(s)'
         /\ \A k : IsComing(s, k) => IsComing(s, k)'
<1>1. /\ DOMAIN poller' \subseteq DOMAIN poller
      /\ DOMAIN poller \ {p} \subseteq DOMAIN poller'
      /\ \A q \in DOMAIN poller \ {p} : poller'[q] = poller[q]
  BY PollersOfStep
<1>2. IsSending(s) <=> IsSending(s)'
  BY <1>1 DEF IsSending
<1>3. Recovering(s) <=> Recovering(s)'
  BY <1>1 DEF Recovering
<1>4. \A k : IsComing(s, k) => IsComing(s, k)'
  BY <1>1 DEF IsComing
<1> QED
  BY <1>2, <1>3, <1>4

(* An event of a poller keeps what another source was told of, or eclipses it. *)
LEMMA ProblemsOfAnother ==
  ASSUME ReportsInv, NEW p \in DOMAIN poller, PollerStep(p),
         NEW s \in Polled, s # p[1], s \notin eclipsed', ProblemsOK(s)
  PROVE  ProblemsOK(s)'
<1>1. ASSUME NEW k, IsTold(s, k) PROVE IsTold(s, k)'
  <2>1. CASE Send(p)
    <3>1. PICK u, ev : u = p[1] /\ ev = Head(poller[p].todo)
      OBVIOUS
    <3>2. /\ open' = OpenAfter(Refs(u, ev), ev, u, FALSE)
          /\ eclipsed' = eclipsed \cup (Eclipses(u, ClosedBy(Refs(u, ev), ev)) \cap Polled)
      BY <2>1, <3>1 DEF Send, Take
    <3>3. k \in ClosedBy(Refs(u, ev), ev) => s \in Eclipses(u, ClosedBy(Refs(u, ev), ev))
      BY <1>1, <3>1 DEF IsTold, Eclipses
    <3>4. k \notin ClosedBy(Refs(u, ev), ev)
      BY <3>2, <3>3
    <3> QED
      BY <1>1, <3>2, <3>4, ToldAfter
  <2>2. CASE UNCHANGED open
    BY <1>1, <2>2 DEF IsTold
  <2> QED
    BY <2>1, <2>2 DEF PollerStep, Observe, Check, PollBreaks, Breaks, SendFails, RecoveryFails
<1>2. TypeOf[s] = "api" /\ s \in recent => s \in DOMAIN told
  BY DEF ReportsInv, SourceOK, Suppressing, SuppressingType
<1>3. TypeOf[s] = "api" /\ s \in recent' => s \in recent /\ told'[s] = told[s]
  BY <1>2, StepOfAnother
<1>4. s \in polled' \cap DOMAIN seen' => s \in polled \cap DOMAIN seen /\ seen'[s] = seen[s]
  BY StepOfAnother
<1>5. s \in lost' <=> s \in lost
  BY StepOfAnother
<1> QED
  BY <1>1, <1>3, <1>4, <1>5, PollersOfAnother, ProblemsStay

(* What an API or a queue leads to. *)
LEMMA ProblemsOfOne ==
  ASSUME NEW s, TypeOf[s] \in SuppressingType, NEW r
  PROVE  ProblemsOf(s, r) = OpenedBy(Refs(s, Reports(s, r)[1]), Reports(s, r)[1])
<1>1. Reports(s, r) = <<Reports(s, r)[1]>>
  BY OneReport
<1>2. DOMAIN Reports(s, r) = {1}
  BY <1>1
<1> QED
  BY <1>2 DEF ProblemsOf

(* The problems of an API or a queue are in order after a step of its poller. *)
LEMMA ProblemsOfSuppressing ==
  ASSUME ReportsInv, NEW p \in DOMAIN poller, PollerStep(p), deployment' = deployment,
         NEW s \in Suppressing, s = p[1], s \notin eclipsed',
         s \notin eclipsed => ProblemsOK(s)
  PROVE  ProblemsOK(s)'
<1>a. PollerOK(p) /\ SourceOK(s) /\ p[1] \in Polled
  BY DEF ReportsInv, Suppressing
<1>b. TypeOf[s] \in SuppressingType /\ TypeOf[s] \notin CheckingType
  BY TypesArePartitioned DEF Suppressing
<1>c. \A q \in DOMAIN poller : q[1] = s => q = p
  BY <1>a, <1>b DEF PollerOK
<1>d. IsSending(s) <=> poller[p].at # "asleep"
  BY <1>c DEF IsSending
<1>e. \/ TypeOf[s] = "api" /\ TypeOf[s] # "queue"
      \/ TypeOf[s] = "queue" /\ TypeOf[s] # "api"
  BY <1>b DEF SuppressingType
<1>1. ASSUME NEW r \in Readings(s), Observe(p, r) PROVE ProblemsOK(s)'
  <2>1. /\ poller[p].at = "asleep"
        /\ seen' = [t \in DOMAIN seen \cup {s} |-> IF t = s THEN r ELSE seen[t]]
        /\ UNCHANGED <<open, told, recent>>
    BY <1>1 DEF Observe, See
  <2>2. CASE Resume(p, "sending", Reports(s, r))
    <3>1. IsSending(s)'
      BY <2>2 DEF IsSending, Resume
    <3> QED
      BY <1>b, <3>1 DEF ProblemsOK
  <2>3. CASE FALSE \in Publishes(s, r) /\ UNCHANGED <<known, poller, eclipsed, lost>>
    <3>1. ~IsSending(s) /\ ~IsSending(s)' /\ ProblemsOK(s)
      BY <1>d, <2>1, <2>3 DEF IsSending
    <3>2. CASE TypeOf[s] = "api"
      BY <1>b, <1>e, <2>1, <2>3, <3>1, <3>2 DEF ProblemsOK, IsTold
    <3>3. CASE TypeOf[s] = "queue"
      <4>1. QueueEvent(r).severity = "info"
        BY <2>3, <3>3 DEF Publishes
      <4>2. Reports(s, r)[1] = QueueEvent(r)
        BY <3>3 DEF Reports
      <4>3. ProblemsOf(s, r) = {}
        BY <1>b, <4>1, <4>2, ProblemsOfOne DEF OpenedBy
      <4>4. seen'[s] = r
        BY <2>1
      <4> QED
        BY <1>b, <1>e, <3>3, <4>3, <4>4 DEF ProblemsOK
    <3> QED
      BY <1>e, <3>2, <3>3
  <2>4. CASE FALSE \notin Publishes(s, r)
    <3>1. Publishes(s, r) = {TRUE}
      BY <2>4 DEF Publishes
    <3>2. \E publishes \in {TRUE} :
            IF publishes
            THEN /\ Remember(s, r)
                 /\ Resume(p, "sending", Reports(s, r))
                 /\ eclipsed' = eclipsed \ {s} /\ lost' = lost \ {s}
            ELSE UNCHANGED <<known, poller, eclipsed, lost>>
      BY <1>1, <3>1 DEF Observe
    <3> QED
      BY <2>2, <3>2
  <2>5. \/ Resume(p, "sending", Reports(s, r))
        \/ UNCHANGED <<known, poller, eclipsed, lost>>
    BY <1>1 DEF Observe
  <2> QED
    BY <2>2, <2>3, <2>4, <2>5
<1>2. CASE PollBreaks(p)
  <2>1. /\ UNCHANGED <<open, told, recent, poller, lost, eclipsed>>
        /\ s \notin DOMAIN seen'
    BY <1>2 DEF PollBreaks
  <2>2. ProblemsOK(s) /\ (IsSending(s) <=> IsSending(s)')
    BY <2>1 DEF IsSending
  <2> QED
    BY <1>b, <1>e, <2>1, <2>2 DEF ProblemsOK, IsTold
<1>3. CASE Send(p)
  <2>1. poller[p].at # "asleep" /\ UNCHANGED seen
    BY <1>3 DEF Send
  <2>2. s \in DOMAIN seen /\ poller[p].todo = Reports(s, seen[s])
    BY <1>a, <1>b, <2>1 DEF PollerOK
  <2>3. PICK ev : ev = Head(poller[p].todo)
    OBVIOUS
  <2>4. ev = Reports(s, seen[s])[1]
    BY <1>b, <2>2, <2>3, OneReport
  <2>5. open' = OpenAfter(Refs(s, ev), ev, s, FALSE)
    BY <1>3, <2>3 DEF Send, Take
  <2>6. \A k \in ProblemsOf(s, seen[s]) : IsTold(s, k)'
    <3>1. ProblemsOf(s, seen[s]) = OpenedBy(Refs(s, ev), ev)
      BY <1>b, <2>4, ProblemsOfOne
    <3> QED
      BY <2>5, <3>1, EventTells
  <2>7. told'[s] = seen[s]
    BY <1>3, <2>2 DEF Send
  <2> QED
    BY <1>b, <2>1, <2>6, <2>7 DEF ProblemsOK
<1>4. CASE SendFails(p)
  BY <1>4, <1>b DEF SendFails, ProblemsOK
<1>5. \A r : ~Check(p, r)
  BY <1>b DEF Check
<1>6. ~Breaks(p) /\ ~RecoveryFails(p)
  BY <1>a, <1>b DEF Breaks, RecoveryFails, PollerOK, CheckingType
<1> QED
  BY <1>1, <1>2, <1>3, <1>4, <1>5, <1>6 DEF PollerStep

(* The problems of a database or of Redis are in order after a step of one of its
   pollers. *)
LEMMA ProblemsOfChecking ==
  ASSUME ReportsInv, NEW p \in DOMAIN poller, PollerStep(p), deployment' = deployment,
         NEW s, TypeOf[s] \in CheckingType, s = p[1], s \notin eclipsed',
         s \notin eclipsed => ProblemsOK(s)
  PROVE  ProblemsOK(s)'
<1>a. PollerOK(p)
  BY DEF ReportsInv
<1>b. TypeOf[s] \notin SuppressingType /\ TypeOf[s] # "api" /\ TypeOf[s] # "queue"
  BY TypesArePartitioned DEF CheckingType
<1>c. ASSUME NEW r, See(s, r), NEW at, Resume(p, at, Reports(s, r)) PROVE ProblemsOK(s)'
  <2>1. s \in DOMAIN seen' /\ seen'[s] = r
    BY <1>c DEF See
  <2>2. p \in DOMAIN poller' /\ poller'[p].todo = Reports(s, r)
    BY <1>c DEF Resume
  <2> QED
    BY <2>1, <2>2, ReadingIsComing
<1>1. ASSUME NEW r \in Readings(s), Check(p, r) PROVE ProblemsOK(s)'
  BY <1>1, <1>c DEF Check
<1>2. CASE Breaks(p)
  BY <1>2, <1>c DEF Breaks
<1>3. CASE SendFails(p)
  BY <1>3, <1>b, <1>c DEF SendFails
<1>4. CASE Send(p)
  <2>1. PICK ev : ev = Head(poller[p].todo)
    OBVIOUS
  <2>2. /\ poller[p].at # "asleep"
        /\ open' = OpenAfter(Refs(s, ev), ev, s, FALSE)
        /\ Resume(p, IF Tail(poller[p].todo) = <<>> THEN "asleep" ELSE poller[p].at,
                     Tail(poller[p].todo))
        /\ UNCHANGED <<seen, polled>>
        /\ lost' = IF poller[p].at = "recovering" THEN lost \ {s} ELSE lost
        /\ eclipsed \subseteq eclipsed'
    BY <1>4, <2>1 DEF Send, Take
  <2>3. poller[p].todo \in Seq(Finding) /\ poller[p].todo # <<>>
    BY <1>a, <2>2 DEF PollerOK
  <2>4. ev \in Finding
    BY <2>1, <2>3
  <2>5. ClosedBy(Refs(s, ev), ev) = {}
    <3>1. PICK kind \in FindingKinds, severity \in Severities : ev = Event(kind, severity)
      BY <2>4 DEF Finding
    <3>2. ev.kind = kind
      BY <3>1 DEF Event
    <3>3. ev.kind \notin Resolving
      BY <3>2 DEF FindingKinds, Resolving
    <3> QED
      BY <3>3 DEF ClosedBy
  <2>6. \A k : IsTold(s, k) => IsTold(s, k)'
    BY <2>2, <2>5, ToldAfter
  <2>7. ASSUME NEW k, IsComing(s, k) PROVE IsTold(s, k)' \/ IsComing(s, k)'
    <3>0. PICK q \in DOMAIN poller : \E i \in DOMAIN poller[q].todo :
            q[1] = s /\ k \in OpenedBy(Refs(s, poller[q].todo[i]), poller[q].todo[i])
      BY <2>7 DEF IsComing
    <3>1. PICK i \in DOMAIN poller[q].todo :
            q[1] = s /\ k \in OpenedBy(Refs(s, poller[q].todo[i]), poller[q].todo[i])
      BY <3>0
    <3>2. CASE q # p
      <4>1. q \in DOMAIN poller' /\ poller'[q] = poller[q]
        BY <3>2, PollersOfStep
      <4> QED
        BY <3>1, <4>1 DEF IsComing
    <3>3. CASE q = p /\ i = 1
      <4>1. k \in OpenedBy(Refs(s, ev), ev)
        BY <2>1, <2>3, <3>1, <3>3
      <4> QED
        BY <2>2, <4>1, EventTells
    <3>4. CASE q = p /\ i # 1
      <4>1. /\ i - 1 \in DOMAIN Tail(poller[p].todo)
            /\ Tail(poller[p].todo)[i - 1] = poller[p].todo[i]
        BY <2>3, <3>1, <3>4
      <4>2. p \in DOMAIN poller' /\ poller'[p].todo = Tail(poller[p].todo)
        BY <2>2 DEF Resume
      <4> QED
        BY <3>1, <3>4, <4>1, <4>2 DEF IsComing
    <3> QED
      BY <3>2, <3>3, <3>4
  <2>8. s \in lost /\ ~Recovering(s) => s \in lost' /\ ~Recovering(s)'
    <3>1. SUFFICES ASSUME s \in lost, ~Recovering(s) PROVE s \in lost' /\ ~Recovering(s)'
      OBVIOUS
    <3>2. poller[p].at # "recovering"
      BY <3>1 DEF Recovering
    <3>3. \A q \in DOMAIN poller' : poller'[q].at = "recovering" => q \in DOMAIN poller /\ poller[q].at = "recovering"
      <4>1. poller'[p].at \in {"asleep", poller[p].at}
        BY <2>2 DEF Resume
      <4> QED
        BY <3>2, <4>1, PollersOfStep
    <3> QED
      BY <2>2, <3>1, <3>2, <3>3 DEF Recovering
  <2>9. ProblemsOK(s)
    BY <2>2
  <2> QED
    BY <1>b, <2>2, <2>6, <2>7, <2>8, <2>9, ProblemsStay
<1>5. CASE RecoveryFails(p)
  <2>1. /\ poller[p].at = "recovering" /\ s \in lost'
        /\ UNCHANGED <<open, seen, polled, eclipsed>>
        /\ poller' = [q \in DOMAIN poller \ {p} |-> poller[q]]
    BY <1>5 DEF RecoveryFails
  <2>2. CASE Recovering(s)'
    <3>1. PICK q \in DOMAIN poller \ {p} : q[1] = s /\ poller[q].at = "recovering"
      BY <2>1, <2>2 DEF Recovering
    <3>2. poller[q].todo = Outage /\ poller[p].todo = Outage
      <4>1. PollerOK(q)
        BY <3>1 DEF ReportsInv
      <4> QED
        BY <1>a, <2>1, <3>1, <4>1 DEF PollerOK
    <3>3. ASSUME NEW k, IsComing(s, k) PROVE IsComing(s, k)'
      <4>0. PICK q2 \in DOMAIN poller : \E i \in DOMAIN poller[q2].todo :
              q2[1] = s /\ k \in OpenedBy(Refs(s, poller[q2].todo[i]), poller[q2].todo[i])
        BY <3>3 DEF IsComing
      <4>1. PICK i \in DOMAIN poller[q2].todo :
              q2[1] = s /\ k \in OpenedBy(Refs(s, poller[q2].todo[i]), poller[q2].todo[i])
        BY <4>0
      <4>2. CASE q2 # p
        BY <2>1, <4>1, <4>2 DEF IsComing
      <4>3. CASE q2 = p
        <5>1. i \in DOMAIN poller'[q].todo /\ poller'[q].todo[i] = poller[q2].todo[i]
          BY <2>1, <3>1, <3>2, <4>1, <4>3
        <5> QED
          BY <2>1, <3>1, <4>1, <5>1 DEF IsComing
      <4> QED
        BY <4>2, <4>3
    <3>4. Recovering(s) /\ ProblemsOK(s)
      BY <2>1 DEF Recovering
    <3>5. \A k : IsTold(s, k) => IsTold(s, k)'
      BY <2>1 DEF IsTold
    <3> QED
      BY <1>b, <2>1, <3>3, <3>4, <3>5, ProblemsStay
  <2>3. CASE ~Recovering(s)'
    BY <1>b, <2>1, <2>3 DEF ProblemsOK
  <2> QED
    BY <2>2, <2>3
<1>6. /\ \A r : ~Observe(p, r)
      /\ ~PollBreaks(p)
  BY <1>b DEF Observe, PollBreaks
<1> QED
  BY <1>1, <1>2, <1>3, <1>4, <1>5, <1>6 DEF PollerStep

LEMMA ProblemsInit == Init => ProblemsInv
BY DEF Init, ProblemsInv, ProblemsOK

(* If pollers and sources are left alone. *)
LEMMA ProblemsOfAll ==
  ASSUME ProblemsInv, deployment' = deployment,
         UNCHANGED <<poller, seen, told, polled, recent, lost>>, eclipsed \subseteq eclipsed',
         \A s \in Polled \ eclipsed' : \A k : IsTold(s, k) => IsTold(s, k)'
  PROVE  ProblemsInv'
<1>1. Polled' = Polled
  BY DEF Polled, Enabled
<1>2. ASSUME NEW s \in Polled \ eclipsed' PROVE ProblemsOK(s)'
  <2>1. (IsSending(s) <=> IsSending(s)') /\ (Recovering(s) <=> Recovering(s)')
    BY DEF IsSending, Recovering
  <2>2. \A k : IsComing(s, k) => IsComing(s, k)'
    BY DEF IsComing
  <2>3. ProblemsOK(s)
    BY DEF ProblemsInv
  <2> QED
    BY <2>1, <2>2, <2>3, ProblemsStay
<1> QED
  BY <1>1, <1>2 DEF ProblemsInv

LEMMA ProblemsStep ==
  /\ ProblemsInv /\ ReportsInv /\ PollersInv /\ GenerationsInv
  /\ [Next]_perceptionVars
  => ProblemsInv'
<1> SUFFICES ASSUME ProblemsInv, ReportsInv, PollersInv, GenerationsInv, [Next]_perceptionVars
             PROVE  ProblemsInv'
  OBVIOUS
<1>0. deployment' = deployment
  BY DeploymentIsFixed
<1>a. Polled' = Polled
  BY <1>0 DEF Polled, Enabled
<1>b. ASSUME UNCHANGED <<open, pollVars>> PROVE ProblemsInv'
  BY <1>0, <1>b, ProblemsOfAll DEF pollVars, IsTold
<1>1. ASSUME NEW t \in Used, Start(t) PROVE ProblemsInv'
  <2> DEFINE new == {<<s, generation[t] + 1>> : s \in {s \in Polled : TypeOf[s] = t}}
  <2>0. UNCHANGED <<open, seen, told, polled, recent, lost, eclipsed>>
    BY <1>1 DEF Start
  <2>1. CASE poller' = [p \in DOMAIN poller \cup new |->
                          IF p \in new THEN [at |-> "asleep", todo |-> <<>>] ELSE poller[p]]
    <3>1. ASSUME NEW p \in DOMAIN poller PROVE p \in DOMAIN poller' /\ poller'[p] = poller[p]
      <4>1. p \notin new
        <5>1. SUFFICES ASSUME NEW s \in Polled, TypeOf[s] = t, p = <<s, generation[t] + 1>>
                       PROVE  FALSE
          OBVIOUS
        <5>2. p[2] = generation[t] + 1 /\ TypeOf[p[1]] = t /\ p[2] <= generation[t] /\ p[2] \in Nat
          BY <5>1 DEF GenerationsInv
        <5>3. generation[t] \in Nat
          BY DEF PollersInv
        <5> QED
          BY <5>2, <5>3
      <4> QED
        BY <2>1, <4>1
    <3>2. \A p \in DOMAIN poller' : p \notin DOMAIN poller => poller'[p].at = "asleep"
      BY <2>1
    <3>3. ASSUME NEW s \in Polled \ eclipsed' PROVE ProblemsOK(s)'
      <4>1. IsSending(s) => IsSending(s)'
        BY <3>1 DEF IsSending
      <4>2. Recovering(s)' => Recovering(s)
        BY <3>1, <3>2 DEF Recovering
      <4>3. \A k : IsComing(s, k) => IsComing(s, k)'
        BY <3>1 DEF IsComing
      <4>4. \A k : IsTold(s, k) => IsTold(s, k)'
        BY <2>0 DEF IsTold
      <4>5. ProblemsOK(s)
        BY <2>0 DEF ProblemsInv
      <4> QED
        BY <2>0, <4>1, <4>2, <4>3, <4>4, <4>5, ProblemsStay
    <3> QED
      BY <1>a, <3>3 DEF ProblemsInv
  <2>2. CASE UNCHANGED <<known, poller>>
    BY <1>b, <2>0, <2>2 DEF pollVars
  <2> QED
    BY <1>1, <2>1, <2>2 DEF Start
<1>2. CASE Crash
  <2>1. /\ DOMAIN poller' = {} /\ UNCHANGED <<open, seen, told, polled, recent, eclipsed>>
        /\ lost' = lost \cup {p[1] : p \in {p \in DOMAIN poller : poller[p].at # "asleep"}}
    BY <1>2 DEF Crash
  <2>2. ASSUME NEW s \in Polled \ eclipsed' PROVE ProblemsOK(s)'
    <3>1. s \notin lost' => s \notin lost /\ ~IsSending(s)
      BY <2>1 DEF IsSending
    <3>2. ~Recovering(s)'
      BY <2>1 DEF Recovering
    <3>3. \A k : IsTold(s, k) => IsTold(s, k)'
      BY <2>1 DEF IsTold
    <3>4. ProblemsOK(s)
      BY <2>1 DEF ProblemsInv
    <3>5. CASE s \in lost'
      BY <3>2, <3>5 DEF ProblemsOK
    <3>6. CASE s \notin lost'
      <4>1. ~IsSending(s) /\ s \notin lost
        BY <3>1, <3>6
      <4>2. \A k : ~IsComing(s, k)
        <5>1. \A p \in DOMAIN poller : p[1] = s => poller[p].todo = <<>>
          BY <4>1 DEF IsSending, ReportsInv, PollerOK
        <5> QED
          BY <5>1 DEF IsComing
      <4> QED
        BY <2>1, <3>3, <3>4, <4>1, <4>2, ProblemsStay
    <3> QED
      BY <3>5, <3>6
  <2> QED
    BY <1>a, <2>2 DEF ProblemsInv
<1>3. ASSUME NEW p \in DOMAIN poller, PollerStep(p) PROVE ProblemsInv'
  <2>1. ASSUME NEW s \in Polled \ eclipsed' PROVE ProblemsOK(s)'
    <3>1. CASE s # p[1]
      <4>1. ProblemsOK(s)
        BY <1>3, <2>1, <3>1, StepOfAnother DEF ProblemsInv
      <4> QED
        BY <1>3, <2>1, <3>1, <4>1, ProblemsOfAnother
    <3>2. CASE s = p[1] /\ TypeOf[s] \in SuppressingType
      <4>1. s \in Suppressing /\ (s \notin eclipsed => ProblemsOK(s))
        BY <2>1, <3>2 DEF Suppressing, ProblemsInv
      <4> QED
        BY <1>0, <1>3, <2>1, <3>2, <4>1, ProblemsOfSuppressing
    <3>3. CASE s = p[1] /\ TypeOf[s] \in CheckingType
      <4>1. s \notin eclipsed => ProblemsOK(s)
        BY <2>1 DEF ProblemsInv
      <4> QED
        BY <1>0, <1>3, <2>1, <3>3, <4>1, ProblemsOfChecking
    <3> QED
      BY <3>1, <3>2, <3>3, TypesArePartitioned
  <2> QED
    BY <1>a, <2>1 DEF ProblemsInv
<1>4. ASSUME NEW a \in Arriving, ArrivalStep(a) PROVE ProblemsInv'
  <2>1. ASSUME NEW i \in DOMAIN arrived[a], SendArrived(a, i) PROVE ProblemsInv'
    <3>0. /\ UNCHANGED <<poller, seen, told, polled, recent, lost>>
          /\ Publish(a, arrived[a][i])
      BY <2>1 DEF SendArrived
    <3>1. CASE UNCHANGED <<open, eclipsed>>
      BY <1>0, <3>0, <3>1, ProblemsOfAll DEF IsTold
    <3>2. CASE Events(a, arrived[a][i]) # <<>>
      <4>1. PICK r, ev : r = arrived[a][i] /\ ev = Head(Events(a, r))
        OBVIOUS
      <4>2. /\ open' = OpenAfter(About[a], ev, a, IsOld(a, r))
            /\ eclipsed' = eclipsed \cup
                 (Eclipses(a, ClosedBy(About[a], ev) \cup Aged(a, r, ev)) \cap Polled)
        BY <3>0, <3>2, <4>1 DEF Publish, Take
      <4>3. ASSUME NEW s \in Polled \ eclipsed', NEW k, IsTold(s, k)
            PROVE  IsTold(s, k)'
        <5>1. s # a
          BY DEF Arriving
        <5>2. k \notin ClosedBy(About[a], ev) \cup Aged(a, r, ev)
          BY <4>2, <4>3, <5>1 DEF Eclipses, IsTold
        <5>3. IsOld(a, r) = FALSE \/ k \notin OpenedBy(About[a], ev)
          <6>1. IsOld(a, r) => k \notin OpenedBy(About[a], ev)
            BY <4>3, <5>2 DEF Aged, IsTold
          <6>2. IsOld(a, r) \in BOOLEAN
            BY DEF IsOld
          <6> QED
            BY <6>1, <6>2
        <5> QED
          BY <4>2, <4>3, <5>2, <5>3, ToldAfter
      <4> QED
        BY <1>0, <3>0, <4>2, <4>3, ProblemsOfAll
    <3> QED
      BY <3>0, <3>1, <3>2 DEF Publish
  <2>2. CASE ~ \E i \in DOMAIN arrived[a] : SendArrived(a, i)
    BY <1>4, <1>b, <2>2 DEF ArrivalStep, Arrives, DropArrived, CommitLog, CommitFails,
                            LogRaises, LogBreaks
  <2> QED
    BY <2>1, <2>2
<1>5. CASE Tick
  <2>1. polled' = {} /\ recent' = {} /\ UNCHANGED <<poller, eclipsed>>
    BY <1>5 DEF Tick
  <2> QED
    BY <1>a, <2>1 DEF ProblemsInv, ProblemsOK
<1>6. CASE deployment.watched /\ MonitorStep /\ UNCHANGED <<deployVars, pollVars, arrivalVars>>
  <2>1. CASE UNCHANGED open
    BY <1>6, <1>b, <2>1
  <2>2. ASSUME NEW x \in sending, SignalSent(x) PROVE ProblemsInv'
    <3>1. PICK refs, ev : /\ ev = Event("task_delegated", x.severity)
                          /\ open' = OpenAfter(refs, ev, Monitor, FALSE)
      BY <2>2 DEF SignalSent
    <3>2. ClosedBy(refs, ev) = {}
      BY <3>1 DEF ClosedBy, Event, Resolving
    <3>3. \A s, k : IsTold(s, k) => IsTold(s, k)'
      BY <3>1, <3>2, ToldAfter
    <3> QED
      BY <1>0, <1>6, <3>3, ProblemsOfAll DEF pollVars
  <2> QED
    BY <1>6, <2>1, <2>2 DEF MonitorStep, MonitorPolls, SkipNext, SignalNext, SignalFails
<1>7. ASSUME NEW k \in Stale, ExpireAnomaly(k), UNCHANGED pollVars PROVE ProblemsInv'
  <2>1. open' = [l \in DOMAIN open \ {k} |-> open[l]] /\ ~open[k].seen
    BY <1>7 DEF ExpireAnomaly, Stale
  <2>2. \A s, l : IsTold(s, l) => IsTold(s, l)'
    BY <2>1 DEF IsTold
  <2> QED
    BY <1>0, <1>7, <2>2, ProblemsOfAll DEF pollVars
<1>8. CASE UNCHANGED perceptionVars
  BY <1>8, <1>b DEF perceptionVars
<1> QED
  BY <1>1, <1>2, <1>3, <1>4, <1>5, <1>6, <1>7, <1>8 DEF Next

(* Every problem that the last poll has found is open when the unit is over:
   api_adapter.py:150-168, queue_adapter.py:200-213, database_adapter.py:120-144,
   redis_adapter.py:75-98. *)
THEOREM ProblemsAreOpen == Spec => []ProblemIsOpen
<1>1. ProblemsInv /\ ReportsInv => ProblemIsOpen
  <2> SUFFICES ASSUME ProblemsInv, ReportsInv, Quiet, NEW s \in Polled \ (lost \cup eclipsed),
                      NEW r \in Due(s), NEW k \in ProblemsOf(s, r)
               PROVE  k \in DOMAIN open
    BY DEF ProblemIsOpen
  <2>1. s \in polled /\ ~IsSending(s) /\ \A p \in DOMAIN poller : poller[p].at = "asleep"
    BY DEF Quiet, IsSending
  <2>2. ProblemsOK(s)
    BY DEF ProblemsInv
  <2>3. ~IsComing(s, k)
    <3>1. \A p \in DOMAIN poller : poller[p].todo = <<>>
      BY <2>1 DEF ReportsInv, PollerOK
    <3> QED
      BY <3>1 DEF IsComing
  <2>4. CASE TypeOf[s] = "api"
    <3>1. s \in recent /\ r = told[s]
      BY <2>4 DEF Due
    <3> QED
      BY <2>1, <2>2, <2>4, <3>1 DEF ProblemsOK, IsTold
  <2>5. CASE TypeOf[s] # "api"
    <3>1. s \in DOMAIN seen /\ r = seen[s]
      BY <2>5 DEF Due
    <3>2. TypeOf[s] = "queue" \/ TypeOf[s] \in CheckingType
      BY <2>5, TypesArePartitioned DEF SuppressingType
    <3> QED
      BY <2>1, <2>2, <2>3, <3>1, <3>2 DEF ProblemsOK, IsTold
  <2> QED
    BY <2>4, <2>5
<1> QED
  BY <1>1, PollersInit, PollersStep, ReportsInit, ReportsStep, GenerationsInit, GenerationsStep,
     ProblemsInit, ProblemsStep, PTL DEF Spec

-------------------------------------------------------------------------------
(* Types *)

(* A table of n rows, the last of which always holds. *)
IsTable(rows, n) ==
  /\ n \in Nat \ {0} /\ DOMAIN rows = 1 .. n /\ rows[n][1]
  /\ \A i \in 1 .. n : rows[i][3] \in Severities

(* The first of the rows that hold is one of them. *)
LEMMA RowsSeverity ==
  ASSUME NEW n, NEW rows, IsTable(rows, n)
  PROVE  FirstOf(rows).severity \in Severities
<1> USE DEF IsTable
<1> DEFINE S == {i \in 1 .. n : rows[i][1]}
<1>1. S \in SUBSET Nat /\ n \in S
  OBVIOUS
<1>2. PICK i \in S : \A j \in S : <<j, i>> \notin OpToRel(<, Nat)
  BY <1>1, NatLessThanWellFounded, WFMin
<1>3. \A j \in S : ~ (j < i)
  BY <1>1, <1>2 DEF OpToRel
<1>4. FirstHolds(rows, n, i)
  BY <1>3 DEF FirstHolds
<1>5. FirstOf(rows) = Event(rows[i][2], rows[i][3])
  BY <1>4, FirstRow
<1> QED
  BY <1>5 DEF Event

LEMMA ApiSeverity == ASSUME NEW r PROVE ApiEvent(r).severity \in Severities
<1> DEFINE rows == <<
    <<r.status = "none",             "service_unreachable",       "critical">>,
    <<r.status = "5xx" /\ r.pool,    "connection_pool_exhausted", "critical">>,
    <<r.status = "5xx",              "service_health_degraded",   "high">>,
    <<r.status = "4xx",              "api_4xx_rate_high",         "medium">>,
    <<r.ssl = "expired",             "service_ssl_expired",       "critical">>,
    <<r.ssl = "week",                "service_ssl_expiring",      "high">>,
    <<r.ssl = "month",               "service_ssl_expiring",      "medium">>,
    <<r.latency = "very_slow",       "api_latency_spike",         "high">>,
    <<r.latency = "slow",            "api_latency_spike",         "medium">>,
    <<r.status = "expected",         "service_health_restored",   "info">>,
    <<TRUE,                          "service_health_degraded",   "medium">> >>
<1>1. ApiEvent(r) = FirstOf(rows)
  BY DEF ApiEvent
<1>2. DOMAIN rows = 1 .. 11 /\ rows[11][1]
  OBVIOUS
<1>3. \A i \in 1 .. 11 : rows[i][3] \in Severities
  BY DEF Severities
<1> HIDE DEF rows
<1>4. IsTable(rows, 11)
  BY <1>2, <1>3 DEF IsTable
<1> QED
  BY <1>1, <1>4, RowsSeverity

LEMMA QueueSeverity == ASSUME NEW r PROVE QueueEvent(r).severity \in Severities
<1> DEFINE rows == <<
    <<~r.consumers /\ r.depth # "none", "consumer_group_stopped",    "critical">>,
    <<r.lag = "critical",               "consumer_lag_critical",     "critical">>,
    <<r.dead,                           "dead_letter_queue_growing", "high">>,
    <<r.lag = "high",                   "consumer_lag_high",         "high">>,
    <<r.old,                            "message_age_exceeded",      "medium">>,
    <<r.depth = "high",                 "queue_depth_high",          "medium">>,
    <<~r.moving /\ r.depth # "none",    "consumer_group_stopped",    "high">>,
    <<TRUE,                             "consumer_lag_resolved",     "info">> >>
<1>1. QueueEvent(r) = FirstOf(rows)
  BY DEF QueueEvent
<1>2. DOMAIN rows = 1 .. 8 /\ rows[8][1]
  OBVIOUS
<1>3. \A i \in 1 .. 8 : rows[i][3] \in Severities
  BY DEF Severities
<1> HIDE DEF rows
<1>4. IsTable(rows, 8)
  BY <1>2, <1>3 DEF IsTable
<1> QED
  BY <1>1, <1>4, RowsSeverity

LEMMA AppendedRow ==
  ASSUME NEW n \in Nat, NEW f, f = [i \in 1 .. n |-> f[i]], NEW x
  PROVE  LET q == Append(f, x)
         IN  /\ DOMAIN q = 1 .. n + 1 /\ q[n + 1] = x
             /\ \A i \in 1 .. n : q[i] = f[i]
<1> DEFINE T == {f[i] : i \in 1 .. n} \cup {x}
<1>1. f \in Seq(T) /\ x \in T
  OBVIOUS
<1>2. Len(f) = n
  OBVIOUS
<1> QED
  BY <1>1, <1>2, AppendProperties

LEMMA LogSeverity ==
  ASSUME NEW r \in LogReading, LogEvents(r) # <<>>
  PROVE  Head(LogEvents(r)).severity \in Severities
<1> DEFINE rows == [i \in DOMAIN LogPatterns |->
                      <<LogPatterns[i][1] \in r.found, LogPatterns[i][2], LogPatterns[i][3]>>]
           rest == <<TRUE, "unhandled_exception", Lookup(LevelSeverity, r.level, "info")>>
           all  == Append(rows, rest)
<1>1. Head(LogEvents(r)) = FirstOf(all)
  BY DEF LogEvents
<1>2. DOMAIN LogPatterns = 1 .. 15 /\ \A i \in 1 .. 15 : LogPatterns[i][3] \in Severities
  BY DEF LogPatterns, Severities
<1>3. /\ rows = [i \in 1 .. 15 |-> rows[i]] /\ DOMAIN rows = 1 .. 15
      /\ \A i \in 1 .. 15 : rows[i][3] \in Severities
  BY <1>2
<1>4. DOMAIN all = 1 .. 16 /\ all[16] = rest /\ \A i \in 1 .. 15 : all[i] = rows[i]
  <2>1. \A x : LET table == Append(rows, x)
               IN  /\ DOMAIN table = 1 .. 16 /\ table[16] = x
                   /\ \A i \in 1 .. 15 : table[i] = rows[i]
    BY <1>3, AppendedRow
  <2> QED
    BY <2>1
<1>5. rest[3] \in Severities /\ rest[1]
  BY DEF Lookup, LevelSeverity, Severities
<1> HIDE DEF all, rows, rest
<1>6. IsTable(all, 16)
  BY <1>3, <1>4, <1>5 DEF IsTable
<1> QED
  BY <1>1, <1>6, RowsSeverity

LEMMA FileSeverity == ASSUME NEW r PROVE FileEvent(r).severity \in Severities
<1> DEFINE certificate == r.type = "certificate"
           config == r.type = "config"
           rows == <<
    <<certificate /\ r.days = "expired",    "certificate_expired",         "critical">>,
    <<certificate /\ r.days = "week",       "certificate_expiry_warning",  "critical">>,
    <<certificate /\ r.days = "month",      "certificate_expiry_warning",  "high">>,
    <<r.secret,                             "secret_file_modified",        "high">>,
    <<certificate /\ r.event \in {"modified", "created"},
                                            "certificate_file_changed",    "medium">>,
    <<config /\ r.event = "modified",       "config_file_modified",        "medium">>,
    <<config /\ r.event = "deleted",        "config_file_deleted",         "high">>,
    <<r.type = "archive" /\ r.event = "created",
                                            "deployment_artifact_created", "info">>,
    <<r.type # "directory" /\ r.event = "deleted",
                                            "static_asset_missing",        "medium">>,
    <<TRUE,                                 "config_file_modified",        "low">> >>
<1>1. FileEvent(r) = FirstOf(rows)
  BY DEF FileEvent
<1>2. DOMAIN rows = 1 .. 10 /\ rows[10][1]
  OBVIOUS
<1>3. \A i \in 1 .. 10 : rows[i][3] \in Severities
  BY DEF Severities
<1> HIDE DEF rows
<1>4. IsTable(rows, 10)
  BY <1>2, <1>3 DEF IsTable
<1> QED
  BY <1>1, <1>4, RowsSeverity

LEMMA BrowserSeverity == ASSUME NEW r PROVE BrowserEvent(r).severity \in Severities
<1> DEFINE rows == <<
    <<r.type = "vital" /\ r.detail = "poor",         "vital_poor",                "high">>,
    <<r.type = "vital" /\ r.detail = "mediocre",     "vital_needs_improvement",   "medium">>,
    <<r.type = "vital",                              "page_load_slow",            "info">>,
    <<r.type = "js_error" /\ r.detail = "chunk",     "js_chunk_load_failed",      "high">>,
    <<r.type = "js_error" /\ r.detail = "hydration", "hydration_failure",         "high">>,
    <<r.type = "js_error" /\ r.detail = "type",      "js_exception",              "high">>,
    <<r.type = "js_error",                           "js_exception",              "medium">>,
    <<r.type = "rejection",                          "promise_rejection",         "medium">>,
    <<r.type = "hydration_fail",                     "hydration_failure",         "high">>,
    <<r.type = "asset_fail",                         "asset_load_failed",         "medium">>,
    <<r.type = "network_error",                      "api_request_failed_client", "medium">>,
    <<r.type = "render_error",                       "render_error",              "critical">>,
    <<TRUE,                                          "js_exception",              "low">> >>
<1>1. BrowserEvent(r) = FirstOf(rows)
  BY DEF BrowserEvent
<1>2. DOMAIN rows = 1 .. 13 /\ rows[13][1]
  OBVIOUS
<1>3. \A i \in 1 .. 13 : rows[i][3] \in Severities
  BY DEF Severities
<1> HIDE DEF rows
<1>4. IsTable(rows, 13)
  BY <1>2, <1>3 DEF IsTable
<1> QED
  BY <1>1, <1>4, RowsSeverity

(* What a table says, or the default. *)
LEMMA LookupSeverity ==
  ASSUME NEW table, NEW name, NEW default, default.severity \in Severities,
         \A x \in DOMAIN table : table[x].severity \in Severities
  PROVE  Lookup(table, name, default).severity \in Severities
BY DEF Lookup

LEMMA PushedSeverity ==
  ASSUME NEW r, IsPushed(r)
  PROVE  PushedEvent(r).severity \in Severities
<1>a. \A kind, severity : Event(kind, severity).severity = severity
  BY DEF Event
<1>1. AlertEvent(r).severity \in Severities
  <2>1. \A x \in DOMAIN AlertMap : AlertMap[x].severity \in Severities
    BY DEF AlertMap, Event, Severities
  <2>2. Lookup(PromSeverity, r.label, "medium") \in Severities
    BY DEF Lookup, PromSeverity, Severities
  <2> QED
    BY <1>a, <2>1, <2>2, LookupSeverity DEF AlertEvent, Severities
<1>2. BrowserEvent(r).severity \in Severities
  BY BrowserSeverity
<1>3. SecurityEvent(r).severity \in Severities
  <2>1. \A x \in DOMAIN RuleMap : RuleMap[x].severity \in Severities
    BY DEF RuleMap, Event, Severities
  <2> DEFINE ev == Lookup(RuleMap, r.rule, Event("unusual_traffic_pattern", "medium"))
  <2>2. ev.severity \in Severities
    BY <1>a, <2>1, LookupSeverity DEF Severities
  <2>3. ev = [kind |-> ev.kind, severity |-> ev.severity]
    BY DEF Lookup, RuleMap, Event
  <2>4. [ev EXCEPT !.severity = "high"].severity = "high"
    BY <2>3
  <2> HIDE DEF ev
  <2>5. SecurityEvent(r) \in {ev, [ev EXCEPT !.severity = "high"]}
    BY DEF SecurityEvent, ev
  <2> QED
    BY <2>2, <2>4, <2>5 DEF Severities
<1>4. UserEvent(r).severity \in Severities
  <2>1. \A x \in DOMAIN UserMap : UserMap[x].severity \in Severities
    BY DEF UserMap, Event, Severities
  <2> QED
    BY <1>a, <2>1, LookupSeverity DEF UserEvent, Severities
<1> QED
  BY <1>a, <1>1, <1>2, <1>3, <1>4 DEF IsPushed, PushedEvent, Severities

(* What the World Model has open has a severity and names an entity. *)
OpenTypes ==
  /\ IsFiniteSet(DOMAIN open)
  /\ \A k \in DOMAIN open :
       /\ k[1] \in Entity /\ k[2] \notin Resolving
       /\ open[k].severity \in Severities \ {"info"} /\ open[k].seen \in BOOLEAN

(* What the monitor has marked or listed as current is open. *)
MonitorTypes ==
  /\ \A x \in listed \cup sending :
       /\ x.severity \in Severities /\ x.id.key[1] \in Entity
       /\ x.id.current => x.id.key \in DOMAIN open
  /\ IsFiniteSet(listed) /\ Cardinality(listed) <= TopN
  /\ \A e \in DOMAIN lastSig :
       /\ lastSig[e].key[1] = e
       /\ lastSig[e].current => lastSig[e].key \in DOMAIN open
  /\ signalled \cup missed \cup reviewed \subseteq DOMAIN open
  /\ faults \in 0 .. MaxFaults

LEMMA MonitorIsTyped == OpenTypes /\ MonitorTypes /\ MarksInv => MonitorTypeOK
<1> SUFFICES ASSUME OpenTypes, MonitorTypes, MarksInv PROVE MonitorTypeOK
  OBVIOUS
<1>1. Cardinality(sending) <= 1
  <2>1. CASE sending = {}
    BY <2>1, FS_EmptySet
  <2>2. CASE sending # {}
    <3>1. PICK x : x \in sending
      BY <2>2
    <3>2. sending = {x}
      BY <3>1 DEF MarksInv
    <3>3. Cardinality({x}) = 1
      BY FS_Singleton
    <3> QED
      BY <3>2, <3>3
  <2> QED
    BY <2>1, <2>2
<1> QED
  BY <1>1 DEF OpenTypes, MonitorTypes, MonitorTypeOK

(* An image is no larger than the set. *)
LEMMA ImageSize ==
  ASSUME NEW S, IsFiniteSet(S), NEW f, f = [x \in S |-> f[x]], NEW T, T = {f[x] : x \in S}
  PROVE  IsFiniteSet(T) /\ Cardinality(T) <= Cardinality(S)
<1>1. f \in Surjection(S, T)
  BY DEF Surjection
<1> QED
  BY <1>1, FS_Surjection

LEMMA ForgetKeepsTypes ==
  ASSUME MonitorTypes, MarksInv, NEW closed, Forget(closed),
         DOMAIN open \ closed \subseteq DOMAIN open', faults' \in 0 .. MaxFaults
  PROVE  MonitorTypes'
<1> USE DEF MonitorTypes
<1>1. ASSUME NEW id, id = [key |-> id.key, current |-> id.current]
      PROVE  /\ Past(id, closed).key = id.key
             /\ Past(id, closed).current => id.current /\ id.key \notin closed
  BY <1>1 DEF Past
<1> DEFINE past(x) == [x EXCEPT !.id = Past(x.id, closed)]
<1>2. ASSUME NEW x \in listed \cup sending
      PROVE  /\ past(x).severity = x.severity /\ past(x).id.key = x.id.key
             /\ past(x).id.current => x.id.current /\ x.id.key \notin closed
  <2>1. /\ x = [id |-> x.id, severity |-> x.severity]
        /\ x.id = [key |-> x.id.key, current |-> x.id.current]
    BY DEF MarksInv, IsAnomaly
  <2>2. past(x).severity = x.severity /\ past(x).id = Past(x.id, closed)
    BY <2>1
  <2> HIDE DEF past
  <2> QED
    BY <1>1, <2>1, <2>2
<1>3. listed' = {past(x) : x \in listed} /\ sending' = {past(x) : x \in sending}
  BY DEF Forget, PastOf
<1> HIDE DEF past
<1>4. ASSUME NEW y \in listed' \cup sending'
      PROVE  /\ y.severity \in Severities /\ y.id.key[1] \in Entity
             /\ y.id.current => y.id.key \in DOMAIN open'
  <2>1. PICK x \in listed \cup sending : y = past(x)
    BY <1>3
  <2> QED
    BY <1>2, <2>1
<1>5. IsFiniteSet(listed') /\ Cardinality(listed') <= TopN
  <2> DEFINE f == [x \in listed |-> past(x)]
  <2>1. f = [x \in listed |-> f[x]] /\ listed' = {f[x] : x \in listed}
    BY <1>3
  <2> HIDE DEF f
  <2>2. IsFiniteSet(listed') /\ Cardinality(listed') <= Cardinality(listed)
    BY <2>1, ImageSize
  <2>3. Cardinality(listed) \in Nat /\ Cardinality(listed') \in Nat /\ TopN \in Nat
    BY <2>2, FS_CardinalityType, MonitorAssumption
  <2> QED
    BY <2>2, <2>3
<1>6. ASSUME NEW e \in DOMAIN lastSig'
      PROVE  /\ lastSig'[e].key[1] = e
             /\ lastSig'[e].current => lastSig'[e].key \in DOMAIN open'
  <2>1. e \in DOMAIN lastSig /\ lastSig'[e] = Past(lastSig[e], closed)
    BY DEF Forget
  <2>2. lastSig[e] = [key |-> lastSig[e].key, current |-> lastSig[e].current]
    BY <2>1 DEF MarksInv
  <2> QED
    BY <1>1, <2>1, <2>2
<1>7. signalled' \cup missed' \cup reviewed' \subseteq DOMAIN open'
  BY DEF Forget
<1> QED
  BY <1>4, <1>5, <1>6, <1>7

(* An event of a severity, about entities, opens anomalies of entities. *)
LEMMA EventKeepsTypes ==
  ASSUME OpenTypes, NEW refs \in SUBSET Entity, IsFiniteSet(refs), NEW ev,
         ev.severity \in Severities, NEW by, NEW old, open' = OpenAfter(refs, ev, by, old)
  PROVE  OpenTypes' /\ DOMAIN open' = (DOMAIN open \ ClosedBy(refs, ev)) \cup OpenedBy(refs, ev)
<1>1. DOMAIN open' = (DOMAIN open \ ClosedBy(refs, ev)) \cup OpenedBy(refs, ev)
  BY DEF OpenAfter
<1>2. IsFiniteSet(OpenedBy(refs, ev))
  <2>1. CASE OpenedBy(refs, ev) = {}
    BY <2>1, FS_EmptySet
  <2>2. CASE OpenedBy(refs, ev) = {<<e, ev.kind>> : e \in refs}
    <3> DEFINE f == [e \in refs |-> <<e, ev.kind>>]
    <3>1. f = [e \in refs |-> f[e]] /\ OpenedBy(refs, ev) = {f[e] : e \in refs}
      BY <2>2
    <3> HIDE DEF f
    <3> QED
      BY <3>1, ImageSize
  <2> QED
    BY <2>1, <2>2 DEF OpenedBy
<1>3. IsFiniteSet(DOMAIN open')
  <2>1. IsFiniteSet(DOMAIN open \ ClosedBy(refs, ev))
    BY FS_Difference DEF OpenTypes
  <2> QED
    BY <1>1, <1>2, <2>1, FS_Union
<1>4. ASSUME NEW k \in OpenedBy(refs, ev)
      PROVE  k[1] \in Entity /\ k[2] \notin Resolving /\ ev.severity # "info"
  BY DEF OpenedBy
<1>5. ASSUME NEW k \in DOMAIN open'
      PROVE  /\ k[1] \in Entity /\ k[2] \notin Resolving
             /\ open'[k].severity \in Severities \ {"info"} /\ open'[k].seen \in BOOLEAN
  <2>1. CASE k \notin OpenedBy(refs, ev)
    BY <1>1, <1>5, <2>1 DEF OpenAfter, OpenTypes
  <2>2. CASE k \in OpenedBy(refs, ev) /\ k \in DOMAIN open
    <3>1. open'[k] = [severity |-> Worse(ev.severity, open[k].severity), seen |-> ~old,
                      by |-> open[k].by \cup {by}]
      BY <1>1, <2>2 DEF OpenAfter
    <3>2. Worse(ev.severity, open[k].severity) \in Severities \ {"info"}
      BY <1>4, <2>2 DEF Worse, OpenTypes
    <3> QED
      BY <1>4, <2>2, <3>1, <3>2
  <2>3. CASE k \in OpenedBy(refs, ev) /\ k \notin DOMAIN open
    <3>1. open'[k] = [severity |-> ev.severity, seen |-> ~old, by |-> {by}]
      BY <1>1, <2>3 DEF OpenAfter
    <3> QED
      BY <1>4, <2>3, <3>1
  <2> QED
    BY <2>1, <2>2, <2>3
<1> QED
  BY <1>1, <1>3, <1>5 DEF OpenTypes

LEMMA TakeKeepsTypes ==
  ASSUME OpenTypes, MonitorTypes, MarksInv, NEW refs \in SUBSET Entity, IsFiniteSet(refs),
         NEW ev, ev.severity \in Severities, NEW by, NEW old, Take(refs, ev, by, old),
         faults' \in 0 .. MaxFaults
  PROVE  OpenTypes' /\ MonitorTypes'
BY EventKeepsTypes, ForgetKeepsTypes DEF Take

LEMMA FewerListed ==
  ASSUME MonitorTypes, NEW x
  PROVE  IsFiniteSet(listed \ {x}) /\ Cardinality(listed \ {x}) <= TopN
<1> DEFINE left == listed \ {x}
<1>1. left \in SUBSET listed /\ IsFiniteSet(listed) /\ Cardinality(listed) <= TopN
  BY DEF MonitorTypes
<1> HIDE DEF left
<1>2. IsFiniteSet(left) /\ Cardinality(left) <= Cardinality(listed)
  BY <1>1, FS_Subset
<1>3. Cardinality(left) \in Nat /\ Cardinality(listed) \in Nat /\ TopN \in Nat
  BY <1>1, <1>2, FS_CardinalityType, MonitorAssumption
<1>4. IsFiniteSet(left) /\ Cardinality(left) <= TopN
  BY <1>1, <1>2, <1>3
<1> QED
  BY <1>4 DEF left

LEMMA MonitorKeepsTypes ==
  ASSUME OpenTypes, MonitorTypes, MarksInv, MonitorStep
  PROVE  OpenTypes' /\ MonitorTypes'
<1> USE DEF MonitorTypes
<1>1. CASE MonitorPolls
  <2>1. PICK top \in Assessments :
          listed' = {[id |-> AnomalyId(k), severity |-> open[k].severity] : k \in top}
    BY <1>1 DEF MonitorPolls
  <2>2. top \subseteq DOMAIN open /\ IsFiniteSet(top) /\ Cardinality(top) <= TopN
    <3>1. IsFiniteSet(DOMAIN open) /\ top \in SUBSET DOMAIN open
      BY DEF Assessments, OpenTypes
    <3>2. Cardinality(DOMAIN open) \in Nat /\ TopN \in Nat
      BY <3>1, FS_CardinalityType, MonitorAssumption
    <3> QED
      BY <3>1, <3>2, FS_Subset DEF Assessments
  <2>3. IsFiniteSet(listed') /\ Cardinality(listed') <= TopN
    <3> DEFINE f == [k \in top |-> [id |-> AnomalyId(k), severity |-> open[k].severity]]
    <3>1. f = [k \in top |-> f[k]] /\ listed' = {f[k] : k \in top}
      BY <2>1
    <3> HIDE DEF f
    <3>2. IsFiniteSet(listed') /\ Cardinality(listed') <= Cardinality(top)
      BY <2>2, <3>1, ImageSize
    <3>3. Cardinality(listed') \in Nat /\ Cardinality(top) \in Nat /\ TopN \in Nat
      BY <2>2, <3>2, FS_CardinalityType, MonitorAssumption
    <3> QED
      BY <2>2, <3>2, <3>3
  <2>4. \A x \in listed' : /\ x.severity \in Severities /\ x.id.key[1] \in Entity
                           /\ x.id.key \in DOMAIN open
    BY <2>1, <2>2 DEF AnomalyId, OpenTypes
  <2> QED
    BY <1>1, <2>3, <2>4 DEF MonitorPolls, OpenTypes
<1>2. ASSUME NEW x \in listed, SkipNext(x) PROVE OpenTypes' /\ MonitorTypes'
  <2>1. IsFiniteSet(listed') /\ Cardinality(listed') <= TopN
    BY <1>2, FewerListed DEF SkipNext
  <2> QED
    BY <1>2, <2>1 DEF SkipNext, Passed, OpenTypes
<1>3. ASSUME NEW x \in listed, SignalNext(x) PROVE OpenTypes' /\ MonitorTypes'
  <2>1. IsFiniteSet(listed') /\ Cardinality(listed') <= TopN
    BY <1>3, FewerListed DEF SignalNext
  <2>2. ASSUME NEW e \in DOMAIN lastSig'
        PROVE  /\ lastSig'[e].key[1] = e
               /\ lastSig'[e].current => lastSig'[e].key \in DOMAIN open
    BY <1>3 DEF SignalNext, Mark
  <2> QED
    BY <1>3, <2>1, <2>2 DEF SignalNext, OpenTypes
<1>4. ASSUME NEW x \in sending, SignalSent(x) PROVE OpenTypes' /\ MonitorTypes'
  <2> DEFINE refs == {x.id.key[1], Monitor}
             ev == Event("task_delegated", x.severity)
  <2>1. ev.severity \in Severities /\ ev.kind = "task_delegated"
    BY DEF Event
  <2>a. refs \in SUBSET Entity /\ IsFiniteSet(refs)
    <3>1. refs = {x.id.key[1]} \cup {Monitor}
      OBVIOUS
    <3>2. IsFiniteSet({x.id.key[1]}) /\ IsFiniteSet({Monitor})
      BY FS_Singleton
    <3>3. IsFiniteSet({x.id.key[1]} \cup {Monitor})
      BY <3>2, FS_Union
    <3>4. x.id.key[1] \in Entity /\ Monitor \in Entity
      BY MonitorAssumption
    <3> QED
      BY <3>1, <3>3, <3>4
  <2>2. open' = OpenAfter(refs, ev, Monitor, FALSE)
    BY <1>4 DEF SignalSent
  <2>3. ClosedBy(refs, ev) = {}
    BY <2>1 DEF ClosedBy, Resolving
  <2> HIDE DEF refs, ev
  <2>4. OpenTypes' /\ DOMAIN open \subseteq DOMAIN open'
    BY <2>1, <2>a, <2>2, <2>3, EventKeepsTypes
  <2>5. sending' = {} /\ UNCHANGED <<listed, lastSig, missed, faults>>
    BY <1>4 DEF SignalSent
  <2>6. signalled' \cup reviewed' \subseteq DOMAIN open'
    <3>1. x.id.current => x.id.key \in DOMAIN open
      OBVIOUS
    <3>2. signalled' = (IF x.id.current THEN signalled \cup {x.id.key} ELSE signalled)
      BY <1>4 DEF SignalSent
    <3>3. reviewed' = (IF x.id.current THEN reviewed \cup {x.id.key} ELSE reviewed)
      BY <1>4 DEF SignalSent, Passed
    <3>4. signalled' \cup reviewed' \subseteq DOMAIN open
      BY <3>1, <3>2, <3>3
    <3> QED
      BY <2>4, <3>4
  <2>7. \A y \in listed : /\ y.severity \in Severities /\ y.id.key[1] \in Entity
                          /\ y.id.current => y.id.key \in DOMAIN open'
    BY <2>4
  <2>8. \A e \in DOMAIN lastSig :
          /\ lastSig[e].key[1] = e
          /\ lastSig[e].current => lastSig[e].key \in DOMAIN open'
    BY <2>4
  <2> QED
    BY <2>4, <2>5, <2>6, <2>7, <2>8
<1>5. ASSUME NEW x \in sending, SignalFails(x) PROVE OpenTypes' /\ MonitorTypes'
  <2>1. IsFiniteSet({}) /\ Cardinality({}) <= TopN
    BY FS_EmptySet, MonitorAssumption
  <2>2. faults' \in 0 .. MaxFaults
    BY <1>5, MonitorAssumption DEF SignalFails, Fault
  <2> QED
    BY <1>5, <2>1, <2>2 DEF SignalFails, Passed, OpenTypes
<1> QED
  BY <1>1, <1>2, <1>3, <1>4, <1>5 DEF MonitorStep

(* What a poller is about to send has a severity, and an entity. *)
LEMMA PollersTodo ==
  ASSUME ReportsInv, NEW p \in DOMAIN poller
  PROVE  /\ poller[p].todo = <<>> <=> poller[p].at = "asleep"
         /\ \A i \in DOMAIN poller[p].todo : poller[p].todo[i].severity \in Severities
         /\ poller[p].at # "asleep" => Head(poller[p].todo).severity \in Severities
<1>1. PollerOK(p) /\ p[1] \in Polled
  BY DEF ReportsInv, PollerOK
<1>2. CASE TypeOf[p[1]] \in CheckingType
  <2>1. poller[p].todo \in Seq(Finding) /\ (poller[p].at # "asleep" => poller[p].todo # <<>>)
        /\ (poller[p].at = "asleep" => poller[p].todo = <<>>)
    BY <1>1, <1>2 DEF PollerOK
  <2>2. \A ev \in Finding : ev.severity \in Severities
    BY DEF Finding, Event
  <2> QED
    BY <2>1, <2>2
<1>3. CASE TypeOf[p[1]] \in SuppressingType /\ poller[p].at = "asleep"
  <2>1. poller[p].todo = <<>>
    BY <1>1, <1>3 DEF PollerOK
  <2> QED
    BY <1>3, <2>1
<1>4. CASE TypeOf[p[1]] \in SuppressingType /\ poller[p].at # "asleep"
  <2> DEFINE ev == Reports(p[1], seen[p[1]])[1]
  <2>1. poller[p].todo = Reports(p[1], seen[p[1]])
    BY <1>1, <1>4 DEF PollerOK
  <2>2. ev.severity \in Severities
    BY <1>4, ApiSeverity, QueueSeverity DEF Reports, SuppressingType
  <2>3. poller[p].todo = <<ev>> /\ Head(poller[p].todo) = ev
    BY <1>4, <2>1, OneReport
  <2> HIDE DEF ev
  <2>4. <<ev>> # <<>> /\ DOMAIN <<ev>> = {1} /\ <<ev>>[1] = ev
    OBVIOUS
  <2> QED
    BY <1>4, <2>2, <2>3, <2>4
<1> QED
  BY <1>1, <1>2, <1>3, <1>4, TypesArePartitioned

LEMMA ArrivedSeverity ==
  ASSUME NEW s \in Source, TypeOf[s] \in ArrivingType, NEW r \in Reading[s],
         Events(s, r) # <<>>
  PROVE  Head(Events(s, r)).severity \in Severities
<1>1. CASE TypeOf[s] = "log"
  <2>1. r \in LogReading
    BY <1>1, PerceptionAssumption DEF ReadingOf
  <2> QED
    BY <1>1, <2>1, LogSeverity DEF Events
<1>2. CASE TypeOf[s] = "file"
  BY <1>2, FileSeverity DEF Events
<1>3. CASE TypeOf[s] = "push"
  <2>1. IsPushed(r)
    BY <1>3, PerceptionAssumption
  <2> QED
    BY <1>3, <2>1, PushedSeverity DEF Events
<1> QED
  BY <1>1, <1>2, <1>3 DEF ArrivingType

WatchInv == OpenTypes /\ MonitorTypes

LEMMA WatchInit == Init => WatchInv
<1> SUFFICES ASSUME Init PROVE WatchInv
  OBVIOUS
<1>1. IsFiniteSet({}) /\ Cardinality({}) = 0
  BY FS_EmptySet
<1>2. DOMAIN open = {} /\ listed = {} /\ sending = {} /\ DOMAIN lastSig = {}
      /\ signalled \cup missed \cup reviewed = {} /\ faults = 0
  BY DEF Init, MonitorInit
<1> QED
  BY <1>1, <1>2, MonitorAssumption DEF WatchInv, OpenTypes, MonitorTypes

LEMMA WatchStep ==
  /\ WatchInv /\ MarksInv /\ OpenInv /\ ReportsInv /\ LogsInv
  /\ [Next]_perceptionVars
  => WatchInv'
<1> SUFFICES ASSUME WatchInv, MarksInv, OpenInv, ReportsInv, LogsInv, [Next]_perceptionVars
             PROVE  WatchInv'
  OBVIOUS
<1> USE DEF WatchInv
<1>a. ASSUME UNCHANGED <<open, monitorVars>>, UNCHANGED faults \/ Fault PROVE WatchInv'
  BY <1>a, MonitorAssumption DEF OpenTypes, MonitorTypes, monitorVars, Fault
<1>b. faults \in 0 .. MaxFaults
  BY DEF MonitorTypes
<1>1. CASE \E t \in Used : Start(t)
  BY <1>1, <1>a DEF Start
<1>2. CASE Crash
  BY <1>2, <1>a DEF Crash
<1>3. ASSUME NEW p \in DOMAIN poller, PollerStep(p) PROVE WatchInv'
  <2>1. CASE Send(p)
    <3> DEFINE ev == Head(poller[p].todo)
    <3>1. p[1] \in Source
      BY TypesArePartitioned DEF ReportsInv, PollerOK
    <3>2. Refs(p[1], ev) \in SUBSET Entity /\ IsFiniteSet(Refs(p[1], ev))
      <4>1. About[p[1]] \in SUBSET Entity /\ IsFiniteSet(About[p[1]]) /\ Pooled \in Entity
        BY <3>1, PerceptionAssumption
      <4>2. IsFiniteSet({Pooled})
        BY FS_Singleton
      <4>3. IsFiniteSet(About[p[1]] \cup {Pooled})
        BY <4>1, <4>2, FS_Union
      <4> QED
        BY <4>1, <4>3 DEF Refs
    <3>3. ev.severity \in Severities
      BY <2>1, PollersTodo DEF Send
    <3>4. Take(Refs(p[1], ev), ev, p[1], FALSE) /\ UNCHANGED faults
      BY <2>1 DEF Send
    <3> HIDE DEF ev
    <3> QED
      BY <1>b, <3>2, <3>3, <3>4, TakeKeepsTypes
  <2>2. CASE ~ Send(p)
    BY <1>3, <1>a, <2>2 DEF PollerStep, Observe, Check, PollBreaks, Breaks, SendFails,
                            RecoveryFails, Fails
  <2> QED
    BY <2>1, <2>2
<1>4. ASSUME NEW s \in Arriving, ArrivalStep(s) PROVE WatchInv'
  <2>1. ASSUME NEW i \in DOMAIN arrived[s], SendArrived(s, i) PROVE WatchInv'
    <3> DEFINE r == arrived[s][i]
    <3>0. Publish(s, r) /\ UNCHANGED faults
      BY <2>1 DEF SendArrived
    <3>1. s \in Source /\ TypeOf[s] \in ArrivingType
      BY PerceptionAssumption DEF ReportsInv, Arriving, Polled, Enabled
    <3>2. r \in Reading[s]
      <4>1. i \in 1 .. Len(arrived[s])
        BY <2>1 DEF LogsInv
      <4> QED
        BY <4>1 DEF LogsInv
    <3>3. About[s] \in SUBSET Entity /\ IsFiniteSet(About[s])
      BY <3>1, PerceptionAssumption
    <3> HIDE DEF r
    <3>4. CASE Events(s, r) = <<>>
      BY <1>a, <3>0, <3>4 DEF Publish
    <3>5. CASE Events(s, r) # <<>>
      <4>1. Head(Events(s, r)).severity \in Severities
        BY <3>1, <3>2, <3>5, ArrivedSeverity
      <4>2. Take(About[s], Head(Events(s, r)), s, IsOld(s, r))
        BY <3>0, <3>5 DEF Publish
      <4> QED
        BY <1>b, <3>0, <3>3, <4>1, <4>2, TakeKeepsTypes
    <3> QED
      BY <3>4, <3>5
  <2>2. CASE ~ \E i \in DOMAIN arrived[s] : SendArrived(s, i)
    BY <1>4, <1>a, <2>2 DEF ArrivalStep, Arrives, DropArrived, CommitLog, CommitFails,
                            LogRaises, LogBreaks, Fails
  <2> QED
    BY <2>1, <2>2
<1>5. CASE Tick
  <2>1. /\ UNCHANGED <<monitorVars, faults>>
        /\ open' = [k \in DOMAIN open |-> [open[k] EXCEPT !.seen = FALSE]]
    BY <1>5 DEF Tick
  <2>2. ASSUME NEW k \in DOMAIN open
        PROVE  open'[k].severity = open[k].severity /\ open'[k].seen = FALSE
    <3>1. \A a, b, c : LET x == [[severity |-> a, seen |-> b, by |-> c] EXCEPT !.seen = FALSE]
                       IN  x.severity = a /\ x.seen = FALSE
      OBVIOUS
    <3>2. PICK a, b, c : open[k] = [severity |-> a, seen |-> b, by |-> c]
      BY DEF OpenInv
    <3>3. open'[k] = [[severity |-> a, seen |-> b, by |-> c] EXCEPT !.seen = FALSE]
      BY <2>1, <3>2
    <3>4. open[k].severity = a
      BY <3>2
    <3> QED
      BY <3>1, <3>3, <3>4
  <2>3. DOMAIN open' = DOMAIN open
    BY <2>1
  <2>4. OpenTypes'
    BY <2>2, <2>3 DEF OpenTypes
  <2>5. MonitorTypes'
    BY <2>1, <2>3 DEF MonitorTypes, monitorVars
  <2> QED
    BY <2>4, <2>5
<1>6. CASE deployment.watched /\ MonitorStep /\ UNCHANGED <<deployVars, pollVars, arrivalVars>>
  BY <1>6, MonitorKeepsTypes
<1>7. ASSUME NEW k \in Stale, ExpireAnomaly(k), UNCHANGED faults PROVE WatchInv'
  <2>1. /\ open' = [l \in DOMAIN open \ {k} |-> open[l]] /\ Forget({k})
    BY <1>7 DEF ExpireAnomaly
  <2>2. IsFiniteSet(DOMAIN open \ {k})
    BY FS_RemoveElement DEF OpenTypes
  <2>3. DOMAIN open' = DOMAIN open \ {k} /\ \A l \in DOMAIN open' : open'[l] = open[l]
    BY <2>1
  <2>4. OpenTypes'
    BY <2>2, <2>3 DEF OpenTypes
  <2>5. MonitorTypes'
    BY <1>b, <1>7, <2>1, <2>3, ForgetKeepsTypes
  <2> QED
    BY <2>4, <2>5
<1>8. CASE UNCHANGED perceptionVars
  BY <1>8, <1>a DEF perceptionVars
<1> QED
  BY <1>1, <1>2, <1>3, <1>4, <1>5, <1>6, <1>7, <1>8 DEF Next

(* An adapter that runs was started once more often than it has failed, at the
   most, since each failure of one that polls is a fault. *)
StartsInv ==
  /\ \A t \in Used :
       /\ adapter[t] \in {"starting", "running", "offline"}
       /\ adapter[t] = "offline" => t = "push"
       /\ generation[t] <= faults + (IF adapter[t] = "starting" THEN 0 ELSE 1)
       /\ t \in ArrivingType => generation[t] = 0
  /\ \A p \in DOMAIN poller : p[2] # 0

LEMMA StartsInit == Init => StartsInv
BY DEF Init, MonitorInit, StartsInv

LEMMA StartsStep ==
  /\ StartsInv /\ WatchInv /\ PollersInv /\ GenerationsInv /\ ReportsInv
  /\ [Next]_perceptionVars
  => StartsInv'
<1> SUFFICES ASSUME StartsInv, WatchInv, PollersInv, GenerationsInv, ReportsInv,
                    [Next]_perceptionVars
             PROVE  StartsInv'
  OBVIOUS
<1>0. deployment' = deployment
  BY DeploymentIsFixed
<1>a. Used' = Used /\ Polled' = Polled
  BY <1>0 DEF Used, Polled, Enabled
<1>b. faults \in Nat /\ \A t \in Used : generation[t] \in Nat
  BY MonitorAssumption DEF WatchInv, MonitorTypes, PollersInv
<1>c. \A p \in DOMAIN poller : TypeOf[p[1]] \in Used \ ArrivingType
  BY DEF ReportsInv, PollerOK, Used, Polled
<1>d. ASSUME UNCHANGED <<adapter, generation>>, DOMAIN poller' \subseteq DOMAIN poller,
             UNCHANGED faults \/ Fault
      PROVE  StartsInv'
  BY <1>a, <1>b, <1>d DEF StartsInv, Fault
<1>1. ASSUME NEW t \in Used, Start(t) PROVE StartsInv'
  <2> DEFINE new == {<<s, generation[t] + 1>> : s \in {s \in Polled : TypeOf[s] = t}}
  <2>0. adapter[t] = "starting"
    BY <1>1 DEF Start
  <2>1. CASE /\ adapter' = [adapter EXCEPT ![t] = "running"]
             /\ generation' = [generation EXCEPT ![t] = IF new = {} THEN @ ELSE @ + 1]
             /\ DOMAIN poller' = DOMAIN poller \cup new
             /\ UNCHANGED faults
    <3>1. \A p \in DOMAIN poller' : p[2] # 0
      BY <1>b, <2>1 DEF StartsInv
    <3>2. t \in ArrivingType => new = {}
      BY DEF Polled
    <3>3. adapter'[t] = "running" /\ generation'[t] \in {generation[t], generation[t] + 1}
          /\ (t \in ArrivingType => generation'[t] = generation[t])
      BY <2>1, <3>2 DEF PollersInv
    <3>4. \A u \in Used \ {t} : adapter'[u] = adapter[u] /\ generation'[u] = generation[u]
      BY <2>1 DEF PollersInv
    <3>5. generation[t] <= faults
      BY <1>b, <2>0 DEF StartsInv
    <3> HIDE DEF new
    <3> QED
      BY <1>a, <1>b, <2>1, <3>1, <3>3, <3>4, <3>5 DEF StartsInv
  <2>2. CASE /\ adapter' = [adapter EXCEPT ![t] = IF t = "push" THEN "offline" ELSE @]
             /\ Fault /\ UNCHANGED <<generation, poller>>
    <3>1. \A u \in Used \ {t} : adapter'[u] = adapter[u]
      BY <2>2
    <3>2. adapter'[t] = IF t = "push" THEN "offline" ELSE "starting"
      BY <2>0, <2>2 DEF PollersInv
    <3> QED
      BY <1>a, <1>b, <2>0, <2>2, <3>1, <3>2 DEF StartsInv, Fault
  <2> QED
    BY <1>1, <2>1, <2>2 DEF Start
<1>2. CASE Crash
  <2>1. /\ adapter' = [t \in Used |-> "starting"] /\ generation' = [t \in Used |-> 0]
        /\ DOMAIN poller' = {} /\ faults' = faults + 1
    BY <1>2 DEF Crash, Fault
  <2> QED
    BY <1>a, <1>b, <2>1 DEF StartsInv
<1>3. ASSUME NEW p \in DOMAIN poller, PollerStep(p) PROVE StartsInv'
  <2>1. CASE RecoveryFails(p)
    <3> DEFINE t == TypeOf[p[1]]
    <3>1. /\ DOMAIN poller' = DOMAIN poller \ {p}
          /\ adapter' = [adapter EXCEPT ![t] = IF p[2] = generation[t] THEN "starting" ELSE @]
          /\ UNCHANGED generation /\ Fails(t)
      BY <2>1 DEF RecoveryFails
    <3>2. t \in Used /\ t \notin ArrivingType
      BY <1>c
    <3>3. \A u \in Used \ {t} : adapter'[u] = adapter[u]
      BY <3>1
    <3>4. adapter'[t] = IF p[2] = generation[t] THEN "starting" ELSE adapter[t]
      BY <3>1, <3>2 DEF PollersInv
    <3>5. CASE adapter[t] = "running"
      <4>1. faults' = faults + 1
        BY <3>1, <3>5 DEF Fails, Fault
      <4>2. generation[t] <= faults + 1
        BY <3>2, <3>5 DEF StartsInv
      <4>3. ASSUME NEW u \in Used \ {t}
            PROVE  generation[u] <= faults' + (IF adapter'[u] = "starting" THEN 0 ELSE 1)
        BY <1>b, <3>3, <4>1 DEF StartsInv
      <4>4. generation[t] <= faults' + (IF adapter'[t] = "starting" THEN 0 ELSE 1)
        BY <1>b, <3>2, <4>1, <4>2
      <4> HIDE DEF t
      <4> QED
        BY <1>a, <3>1, <3>2, <3>3, <3>4, <4>3, <4>4 DEF StartsInv
    <3>6. CASE adapter[t] # "running"
      <4>1. UNCHANGED faults
        BY <3>1, <3>6 DEF Fails
      <4>2. t # "push"
        BY <3>2 DEF ArrivingType
      <4>3. adapter[t] = "starting"
        BY <3>2, <3>6, <4>2 DEF StartsInv
      <4>4. \A u \in Used : adapter'[u] = adapter[u]
        BY <3>3, <3>4, <4>3
      <4> QED
        BY <1>a, <3>1, <4>1, <4>4 DEF StartsInv
    <3> QED
      BY <3>5, <3>6
  <2>2. CASE ~ RecoveryFails(p)
    BY <1>3, <1>d, <2>2 DEF PollerStep, Observe, Check, PollBreaks, Breaks, Send, SendFails,
                            Resume, deployVars, Fails
  <2> QED
    BY <2>1, <2>2
<1>4. ASSUME NEW s \in Arriving, ArrivalStep(s) PROVE StartsInv'
  <2>1. CASE LogBreaks(s)
    <3>1. /\ adapter' = [adapter EXCEPT !["log"] = "starting"]
          /\ UNCHANGED <<generation, poller, faults>>
      BY <2>1 DEF LogBreaks, pollVars
    <3>2. "log" \in Used => generation["log"] = 0
      BY DEF StartsInv, ArrivingType
    <3>3. \A t \in Used : adapter'[t] = IF t = "log" THEN "starting" ELSE adapter[t]
      BY <3>1 DEF PollersInv
    <3> QED
      BY <1>a, <1>b, <3>1, <3>2, <3>3 DEF StartsInv
  <2>2. CASE ~ LogBreaks(s)
    BY <1>4, <1>d, <2>2 DEF ArrivalStep, Arrives, SendArrived, DropArrived, CommitLog,
                            CommitFails, LogRaises, deployVars, pollVars, Fails
  <2> QED
    BY <2>1, <2>2
<1>5. CASE Tick
  BY <1>5, <1>d DEF Tick, deployVars
<1>6. CASE deployment.watched /\ MonitorStep /\ UNCHANGED <<deployVars, pollVars, arrivalVars>>
  <2>1. UNCHANGED faults \/ Fault
    BY <1>6 DEF MonitorStep, MonitorPolls, SkipNext, SignalNext, SignalSent, SignalFails
  <2> QED
    BY <1>6, <1>d, <2>1 DEF deployVars, pollVars
<1>7. CASE \E k \in Stale : ExpireAnomaly(k)
             /\ UNCHANGED <<faults, deployVars, pollVars, arrivalVars>>
  BY <1>7, <1>d DEF deployVars, pollVars
<1>8. CASE UNCHANGED perceptionVars
  BY <1>8, <1>d DEF perceptionVars, deployVars, pollVars
<1> QED
  BY <1>1, <1>2, <1>3, <1>4, <1>5, <1>6, <1>7, <1>8 DEF Next

(* State keys are those of APIs and queues, and what is noted of a poll is of a
   source that is polled. *)
KeysInv ==
  /\ \A s \in DOMAIN known :
       /\ TypeOf[s] \in SuppressingType
       /\ known[s] = [state |-> known[s].state, left |-> known[s].left]
       /\ known[s].left \in 1 .. KeepsFor
  /\ polled \cup recent \cup lost \cup eclipsed \subseteq Polled

LEMMA KeysInit == Init => KeysInv
BY DEF Init, KeysInv

LEMMA KeysStep == KeysInv /\ ReportsInv /\ [Next]_perceptionVars => KeysInv'
<1> SUFFICES ASSUME KeysInv, ReportsInv, [Next]_perceptionVars PROVE KeysInv'
  OBVIOUS
<1>0. deployment' = deployment
  BY DeploymentIsFixed
<1>a. Polled' = Polled
  BY <1>0 DEF Polled, Enabled
<1>b. ASSUME UNCHANGED known,
             polled' \cup recent' \cup lost' \cup eclipsed' \subseteq Polled
      PROVE  KeysInv'
  BY <1>a, <1>b DEF KeysInv
<1>c. polled \cup recent \cup lost \cup eclipsed \subseteq Polled
  BY DEF KeysInv
<1>d. \A p \in DOMAIN poller : p[1] \in Polled
  BY DEF ReportsInv, PollerOK
<1>1. CASE \E t \in Used : Start(t)
  BY <1>1, <1>b, <1>c DEF Start
<1>2. CASE Crash
  BY <1>2, <1>b, <1>c, <1>d DEF Crash
<1>3. ASSUME NEW p \in DOMAIN poller, PollerStep(p) PROVE KeysInv'
  <2>1. ASSUME NEW r, Observe(p, r) PROVE KeysInv'
    <3>1. TypeOf[p[1]] \in SuppressingType
      BY <2>1 DEF Observe
    <3>2. polled' \cup recent' \cup lost' \cup eclipsed' \subseteq Polled
      BY <1>c, <1>d, <2>1 DEF Observe, See
    <3>3. CASE Remember(p[1], r)
      <4>1. DOMAIN known' = DOMAIN known \cup {p[1]}
        BY <3>3 DEF Remember
      <4>2. known'[p[1]] = [state |-> State(p[1], r), left |-> KeepsFor]
        BY <3>3 DEF Remember
      <4>3. \A s \in DOMAIN known' \ {p[1]} : s \in DOMAIN known /\ known'[s] = known[s]
        BY <3>3 DEF Remember
      <4>4. KeepsFor \in 1 .. KeepsFor
        BY PerceptionAssumption
      <4>5. known'[p[1]].state = State(p[1], r) /\ known'[p[1]].left = KeepsFor
        BY <4>2
      <4> QED
        BY <1>a, <3>1, <3>2, <4>1, <4>2, <4>3, <4>4, <4>5 DEF KeysInv
    <3>4. CASE UNCHANGED known
      BY <1>b, <3>2, <3>4
    <3> QED
      BY <2>1, <3>3, <3>4 DEF Observe
  <2>2. CASE ~ \E r : Observe(p, r)
    <3>0. p[1] \in Polled
      BY <1>d
    <3>1. ASSUME NEW r, Check(p, r) PROVE KeysInv'
      BY <1>b, <1>c, <3>0, <3>1 DEF Check, See
    <3>2. CASE PollBreaks(p) \/ Breaks(p)
      BY <1>b, <1>c, <3>0, <3>2 DEF PollBreaks, Breaks, See
    <3>3. CASE Send(p)
      BY <1>b, <1>c, <3>0, <3>3 DEF Send
    <3>4. CASE SendFails(p) \/ RecoveryFails(p)
      BY <1>b, <1>c, <3>0, <3>4 DEF SendFails, RecoveryFails, See
    <3> QED
      BY <1>3, <2>2, <3>1, <3>2, <3>3, <3>4 DEF PollerStep
  <2> QED
    BY <2>1, <2>2
<1>4. ASSUME NEW s \in Arriving, ArrivalStep(s) PROVE KeysInv'
  <2>1. ASSUME NEW i \in DOMAIN arrived[s], SendArrived(s, i) PROVE KeysInv'
    <3>1. UNCHANGED <<known, polled, recent, lost>> /\ Publish(s, arrived[s][i])
      BY <2>1 DEF SendArrived
    <3>2. eclipsed' \subseteq Polled
      BY <1>c, <3>1 DEF Publish
    <3> QED
      BY <1>b, <1>c, <3>1, <3>2
  <2>2. CASE ~ \E i \in DOMAIN arrived[s] : SendArrived(s, i)
    BY <1>4, <1>b, <1>c, <2>2 DEF ArrivalStep, Arrives, DropArrived, CommitLog, CommitFails,
                                  LogRaises, LogBreaks, pollVars
  <2> QED
    BY <2>1, <2>2
<1>5. CASE Tick
  <2>1. /\ known' = [s \in {s \in DOMAIN known : known[s].left > 1} |->
                       [known[s] EXCEPT !.left = @ - 1]]
        /\ polled' = {} /\ recent' = {} /\ UNCHANGED <<lost, eclipsed>>
    BY <1>5 DEF Tick
  <2>2. ASSUME NEW s \in DOMAIN known'
        PROVE  /\ TypeOf[s] \in SuppressingType
               /\ known'[s] = [state |-> known'[s].state, left |-> known'[s].left]
               /\ known'[s].left \in 1 .. KeepsFor
    <3>1. \A a, b : [[state |-> a, left |-> b] EXCEPT !.left = @ - 1]
                    = [state |-> a, left |-> b - 1]
      OBVIOUS
    <3>2. s \in DOMAIN known /\ known[s].left > 1
          /\ known'[s] = [known[s] EXCEPT !.left = @ - 1]
      BY <2>1
    <3>3. PICK a, b : known[s] = [state |-> a, left |-> b]
      BY <3>2 DEF KeysInv
    <3>4. known'[s] = [state |-> a, left |-> b - 1]
      BY <3>1, <3>2, <3>3
    <3>5. b \in 1 .. KeepsFor /\ b > 1
      BY <3>2, <3>3 DEF KeysInv
    <3>6. b - 1 \in 1 .. KeepsFor
      BY <3>5, PerceptionAssumption
    <3> QED
      BY <3>2, <3>4, <3>6 DEF KeysInv
  <2> QED
    BY <1>a, <1>c, <2>1, <2>2 DEF KeysInv
<1>6. CASE deployment.watched /\ MonitorStep /\ UNCHANGED <<deployVars, pollVars, arrivalVars>>
  BY <1>6, <1>b, <1>c DEF pollVars
<1>7. CASE \E k \in Stale : ExpireAnomaly(k)
             /\ UNCHANGED <<faults, deployVars, pollVars, arrivalVars>>
  BY <1>7, <1>b, <1>c DEF pollVars
<1>8. CASE UNCHANGED perceptionVars
  BY <1>8, <1>b, <1>c DEF perceptionVars, pollVars
<1> QED
  BY <1>1, <1>2, <1>3, <1>4, <1>5, <1>6, <1>7, <1>8 DEF Next

(* The types of all there is: what a situation lists as current is open, no
   adapter is started more often than it fails, and the committed offset never
   passes the position of the consumer. *)
THEOREM TypeCorrect == Spec => []TypeOK
<1>1. /\ WatchInv /\ MarksInv /\ StartsInv /\ PollersInv /\ GenerationsInv /\ ReportsInv
      /\ KeysInv /\ LogsInv
      => TypeOK
  <2> SUFFICES ASSUME WatchInv, MarksInv, StartsInv, PollersInv, GenerationsInv, ReportsInv,
                      KeysInv, LogsInv
               PROVE  TypeOK
    OBVIOUS
  <2>1. MonitorTypeOK
    BY MonitorIsTyped DEF WatchInv
  <2>2. /\ deployment \in Deployments
        /\ DOMAIN adapter = Used
        /\ \A t \in Used : adapter[t] \in {"starting", "running", "offline"}
        /\ \A t \in Used : adapter[t] = "offline" => t = "push"
    BY DEF ReportsInv, PollersInv, StartsInv
  <2>3. generation \in [Used -> 0 .. MaxFaults + 1]
    <3>1. ASSUME NEW t \in Used PROVE generation[t] \in 0 .. MaxFaults + 1
      <4>1. generation[t] \in Nat /\ faults \in 0 .. MaxFaults /\ MaxFaults \in Nat
        BY MonitorAssumption DEF PollersInv, WatchInv, MonitorTypes
      <4>2. generation[t] <= faults + 1
        BY <4>1 DEF StartsInv
      <4> QED
        BY <4>1, <4>2
    <3> QED
      BY <3>1 DEF PollersInv
  <2>4. ASSUME NEW p \in DOMAIN poller
        PROVE  /\ p[1] \in Polled /\ p[2] \in 1 .. generation[TypeOf[p[1]]]
               /\ poller[p].at \in {"asleep", "sending", "recovering"}
               /\ (poller[p].todo = <<>>) = (poller[p].at = "asleep")
               /\ poller[p].at = "recovering" => TypeOf[p[1]] \in CheckingType
               /\ \A i \in DOMAIN poller[p].todo : poller[p].todo[i].severity \in Severities
    <3>1. PollerOK(p) /\ p[1] \in Polled
      BY DEF ReportsInv, PollerOK
    <3>2. TypeOf[p[1]] \in Used
      BY <3>1 DEF Used, Polled
    <3>3. p[2] \in 1 .. generation[TypeOf[p[1]]]
      BY <3>2 DEF GenerationsInv, StartsInv, PollersInv
    <3>4. poller[p].at = "recovering" => TypeOf[p[1]] \in CheckingType
      BY <3>1, TypesArePartitioned DEF PollerOK
    <3> QED
      BY <3>1, <3>3, <3>4, PollersTodo DEF PollerOK
  <2>5. /\ \A s \in DOMAIN known : TypeOf[s] \in SuppressingType /\ known[s].left \in 1 .. KeepsFor
        /\ DOMAIN seen \cup DOMAIN told \subseteq Polled
        /\ polled \cup recent \cup lost \cup eclipsed \subseteq Polled
    BY DEF KeysInv, ReportsInv
  <2>6. \A s \in Arriving :
          /\ Len(result[s]) = Len(arrived[s]) /\ Len(arrived[s]) <= MaxArrivals
          /\ committed[s] <= position[s] /\ position[s] <= Len(arrived[s])
    BY DEF LogsInv
  <2> QED
    BY <2>1, <2>2, <2>3, <2>4, <2>5, <2>6 DEF TypeOK
<1> QED
  BY <1>1, WatchInit, WatchStep, MarksInit, MarksStep, StartsInit, StartsStep, PollersInit,
     PollersStep, GenerationsInit, GenerationsStep, ReportsInit, ReportsStep, KeysInit, KeysStep,
     LogsInit, LogsStep, OpenInit, OpenStep, PTL DEF Spec
================================================================================
