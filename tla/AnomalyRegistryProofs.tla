-------------------------- MODULE AnomalyRegistryProofs --------------------------
(***************************************************************************)
(* Proofs about AnomalyRegistry, for every set of entities and kinds of    *)
(* events, every clock and any number of faults: its type correctness,     *)
(* that memory and Redis agree, and that a resolution closes what it is    *)
(* about.                                                                  *)
(***************************************************************************)
EXTENDS AnomalyRegistry, SequenceTheorems, TLAPS

-------------------------------------------------------------------------------
(* The inductive invariant *)

(* A write under way belongs to a loop that is at work, and waits for it. *)
SendingInv ==
  \A w \in sending : IF w.by = "kafka" THEN kafka # "idle" ELSE expiry = "expiring"

(* A key that is not in doubt has at most one write under way, of what memory
   has under it; with none Redis has that. *)
AgreeInv ==
  \A k \in Key \ unsure :
    /\ \A w, x \in sending : w.key = k /\ x.key = k => w = x
    /\ \A w \in sending : w.key = k =>
         IF IsOpen(k) THEN w.anomaly = memory[k] ELSE w.anomaly.status # "open"
    /\ (\A w \in sending : w.key # k) =>
         IF IsOpen(k) THEN redis[k] = memory[k] ELSE redis[k].status # "open"

(* While an event resolves, the anomalies of an entity that it is through with
   are closed, or about to be. *)
ResolvingInv ==
  kafka = "resolving" =>
    \A i \in DOMAIN event.refs :
      \/ KeysToClose(event.refs[i]) \subseteq closing
      \/ \E j \in DOMAIN todo : todo[j] = event.refs[i]

Inv == TypeOK /\ SendingInv /\ AgreeInv /\ ResolvingInv

-------------------------------------------------------------------------------
(* Types *)

LEMMA NoneIsAnomaly ==
  /\ None \in Anomaly /\ None.status # "open"
  /\ "info" \in Severity /\ Severity = {"critical", "high", "medium", "low", "info"}
BY RegistryBounds DEF None, Anomaly, Severity, Rank, Time

(* Of two severities the worse is one of them, and critical if one is. *)
LEMMA WorseLemma ==
  ASSUME NEW s \in Severity, NEW t \in Severity
  PROVE  /\ Worse(s, t) \in Severity
         /\ s = "critical" \/ t = "critical" => Worse(s, t) = "critical"
<1>1. Worse(s, t) \in Severity
  BY DEF Worse
<1>2. s = "critical" \/ t = "critical" => Worse(s, t) = "critical"
  BY DEF Worse, Severity, Rank
<1> QED
  BY <1>1, <1>2

LEMMA ResolvedLemma ==
  ASSUME NEW a \in Anomaly
  PROVE  /\ [a EXCEPT !.status = "resolved"] \in Anomaly
         /\ [a EXCEPT !.status = "resolved"].status = "resolved"
BY DEF Anomaly

(* What an event makes of an anomaly. *)
LEMMA SeenLemma ==
  ASSUME TypeOK, kafka = "updating", NEW k \in Key
  PROVE  /\ Seen(k) \in Anomaly /\ Seen(k).status = "open"
         /\ Seen(k).severity \in Severity
         /\ event.severity = "critical" => Seen(k).severity = "critical"
         /\ IsOpen(k) /\ memory[k].severity = "critical" => Seen(k).severity = "critical"
<1>1. event.severity \in Severity /\ event.ts \in Time
  BY RegistryAssumption DEF TypeOK, Event
<1>2. memory[k].severity \in Severity
  BY DEF TypeOK, Anomaly
<1> QED
  BY <1>1, <1>2, WorseLemma DEF Seen, Anomaly

(* The part of the types that sending a write can disturb. *)
SendingTypeOK ==
  /\ memory \in [Key -> Anomaly]
  /\ \A k \in Key : memory[k] = None \/ memory[k].status = "open"
  /\ sending \subseteq [by : Loop, key : Key, anomaly : Anomaly]
  /\ \A w, x \in sending : w.by = x.by => w = x
  /\ unsure \subseteq Key

LEMMA SendTypes ==
  ASSUME SendingTypeOK, NEW loop \in Loop, Answered(loop), NEW k \in Key,
         NEW a \in Anomaly, NEW m \in Anomaly, m = None \/ m.status = "open",
         memory' = [memory EXCEPT ![k] = m], Send(loop, k, a)
  PROVE  SendingTypeOK'
<1>1. \A w \in sending : w.by # loop
  BY DEF Answered
<1>2. [by |-> loop, key |-> k, anomaly |-> a] \in [by : Loop, key : Key, anomaly : Anomaly]
  OBVIOUS
<1>3. /\ sending' \subseteq [by : Loop, key : Key, anomaly : Anomaly]
      /\ \A w, x \in sending' : w.by = x.by => w = x
  BY <1>1, <1>2 DEF Send, SendingTypeOK
<1>4. unsure' \subseteq Key
  BY DEF Send, SendingTypeOK
<1>5. /\ memory' \in [Key -> Anomaly]
      /\ \A x \in Key : memory'[x] = None \/ memory'[x].status = "open"
  BY DEF SendingTypeOK
<1> QED
  BY <1>3, <1>4, <1>5 DEF SendingTypeOK

LEMMA CloseTypes ==
  ASSUME SendingTypeOK, NEW loop \in Loop, Answered(loop), NEW k \in Key, Close(loop, k)
  PROVE  SendingTypeOK'
<1>1. memory[k] \in Anomaly
  BY DEF SendingTypeOK
<1> QED
  BY <1>1, NoneIsAnomaly, ResolvedLemma, SendTypes DEF Close

LEMMA EndTypes ==
  ASSUME EventEnds
  PROVE  /\ kafka' = "idle" /\ todo' \in Seq(Entity) /\ closing' \subseteq Key
BY DEF EventEnds

LEMMA KeysLemma == \A e : KeysToClose(e) \subseteq Key
BY DEF KeysToClose

(* Every step but the end of a write keeps the types. *)
LEMMA TypesSplit ==
  /\ TypeOK => SendingTypeOK
  /\ SendingTypeOK' /\ TypeOK
       /\ now' \in Time /\ redis' \in [Key -> Anomaly]
       /\ kafka' \in {"idle", "updating", "resolving"} /\ (kafka' # "idle" => event' \in Event)
       /\ todo' \in Seq(Entity) /\ closing' \subseteq Key
       /\ expiry' \in {"asleep", "expiring", "dead"} /\ expiring' \subseteq Key
       /\ (expiry' # "expiring" => expiring' = {})
       /\ taken' \in 0..MaxEvents /\ faults' \in 0..MaxFaults
     => TypeOK'
BY DEF TypeOK, SendingTypeOK

LEMMA InitTypes == Init => TypeOK
<1> SUFFICES ASSUME Init PROVE TypeOK
  OBVIOUS
<1>1. 0 \in Time /\ 0 \in 0..MaxEvents /\ 0 \in 0..MaxFaults
  BY RegistryBounds DEF Time
<1>2. memory \in [Key -> Anomaly] /\ redis \in [Key -> Anomaly]
  BY NoneIsAnomaly DEF Init
<1> QED
  BY <1>1, <1>2 DEF Init, TypeOK

-------------------------------------------------------------------------------
(* The steps keep the types, and a write with the loop that waits for it. *)

LEMMA TickTypes ==
  ASSUME TypeOK, SendingInv, Tick
  PROVE  TypeOK' /\ SendingInv'
<1>1. now' \in Time
  BY RegistryBounds DEF Tick, TypeOK, Time
<1> QED
  BY <1>1 DEF Tick, TypeOK, SendingInv

LEMMA DeliverTypes ==
  ASSUME TypeOK, SendingInv, Deliver
  PROVE  TypeOK' /\ SendingInv'
<1>1. event' \in Event /\ todo' \in Seq(Entity)
  BY RegistryAssumption DEF Deliver, Event
<1>2. kafka' \in {"idle", "updating", "resolving"}
  BY DEF Deliver
<1>3. taken' \in 0..MaxEvents
  BY RegistryBounds DEF Deliver, TypeOK
<1>4. UNCHANGED <<now, memory, redis, sending, closing, expiry, expiring, unsure, faults>>
      /\ kafka = "idle"
  BY DEF Deliver
<1>5. SendingInv'
  BY <1>2, <1>4 DEF SendingInv
<1> QED
  BY <1>1, <1>2, <1>3, <1>4, <1>5 DEF TypeOK

LEMMA UpdateTypes ==
  ASSUME TypeOK, SendingInv, Update
  PROVE  TypeOK' /\ SendingInv'
<1>1. UNCHANGED <<now, redis, event, expiry, expiring, taken, faults>> /\ kafka = "updating"
      /\ Answered("kafka")
  BY DEF Update
<1>2. CASE todo = <<>>
  <2>1. EventEnds /\ UNCHANGED <<memory, sending, unsure>>
    BY <1>2 DEF Update
  <2>2. SendingTypeOK'
    BY <2>1, TypesSplit DEF SendingTypeOK
  <2>3. TypeOK'
    BY <1>1, <2>1, <2>2, EndTypes, TypesSplit DEF TypeOK
  <2>4. SendingInv'
    BY <1>1, <2>1 DEF SendingInv, Answered
  <2> QED
    BY <2>3, <2>4
<1>3. CASE todo # <<>>
  <2> DEFINE k == <<Head(todo), event.kind>>
  <2>1. /\ memory' = [memory EXCEPT ![k] = Seen(k)]
        /\ Send("kafka", k, Seen(k))
        /\ todo' = Tail(todo)
        /\ UNCHANGED <<kafka, closing>>
    BY <1>3 DEF Update
  <2>2. k \in Key /\ todo' \in Seq(Entity)
    BY <1>1, <1>3, <2>1, HeadTailProperties DEF TypeOK, Event, Key
  <2>3. Seen(k) \in Anomaly /\ Seen(k).status = "open"
    BY <1>1, <2>2, SeenLemma
  <2> HIDE DEF k
  <2>4. SendingTypeOK'
    BY <1>1, <2>1, <2>2, <2>3, SendTypes, TypesSplit DEF Loop
  <2>5. TypeOK'
    BY <1>1, <2>1, <2>2, <2>4, TypesSplit DEF TypeOK
  <2>6. SendingInv'
    BY <1>1, <2>1 DEF SendingInv, Send
  <2> QED
    BY <2>5, <2>6
<1> QED
  BY <1>2, <1>3

(* An event that resolves closes a key, and goes on, or ends without a write. *)
LEMMA ResolveSteps ==
  ASSUME TypeOK, Resolve
  PROVE  \/ EventEnds /\ UNCHANGED <<memory, sending, unsure>>
         \/ /\ \E k \in Key : Close("kafka", k)
            /\ UNCHANGED kafka
            /\ todo' \in Seq(Entity) /\ closing' \subseteq Key
<1>1. CASE ResolveNext
  BY <1>1 DEF ResolveNext, TypeOK
<1>2. CASE ResolveEntity
  <2>1. SUFFICES ASSUME ~(EventEnds /\ UNCHANGED <<memory, sending, unsure>>)
                 PROVE  /\ \E k \in Key : Close("kafka", k)
                        /\ UNCHANGED kafka
                        /\ todo' \in Seq(Entity) /\ closing' \subseteq Key
    OBVIOUS
  <2>2. PICK i \in DOMAIN todo :
          /\ \E k \in KeysToClose(todo[i]) :
               /\ Close("kafka", k)
               /\ closing' = KeysToClose(todo[i]) \ {k}
          /\ todo' = SubSeq(todo, i + 1, Len(todo))
          /\ UNCHANGED kafka
    BY <1>2, <2>1 DEF ResolveEntity
  <2>3. todo' \in Seq(Entity)
    BY <2>2, SubSeqProperties DEF TypeOK
  <2> QED
    BY <2>2, <2>3, KeysLemma
<1> QED
  BY <1>1, <1>2 DEF Resolve

LEMMA ResolveTypes ==
  ASSUME TypeOK, SendingInv, Resolve
  PROVE  TypeOK' /\ SendingInv'
<1>1. UNCHANGED <<now, redis, event, expiry, expiring, taken, faults>> /\ kafka = "resolving"
      /\ Answered("kafka")
  BY DEF Resolve
<1>2. CASE EventEnds /\ UNCHANGED <<memory, sending, unsure>>
  <2>1. SendingTypeOK'
    BY <1>2, TypesSplit DEF SendingTypeOK
  <2>2. TypeOK'
    BY <1>1, <1>2, <2>1, EndTypes, TypesSplit DEF TypeOK
  <2>3. SendingInv'
    BY <1>1, <1>2 DEF SendingInv, Answered
  <2> QED
    BY <2>2, <2>3
<1>3. CASE /\ \E k \in Key : Close("kafka", k)
           /\ UNCHANGED kafka
           /\ todo' \in Seq(Entity) /\ closing' \subseteq Key
  <2>1. PICK k \in Key : Close("kafka", k)
    BY <1>3
  <2>2. SendingTypeOK'
    BY <1>1, <2>1, CloseTypes, TypesSplit DEF Loop
  <2>3. TypeOK'
    BY <1>1, <1>3, <2>2, TypesSplit DEF TypeOK
  <2>4. SendingInv'
    BY <1>1, <1>3, <2>1 DEF SendingInv, Close, Send
  <2> QED
    BY <2>3, <2>4
<1> QED
  BY <1>2, <1>3, ResolveSteps

LEMMA ExpireStaleTypes ==
  ASSUME TypeOK, SendingInv, ExpireStale
  PROVE  TypeOK' /\ SendingInv'
<1>1. /\ expiry = "asleep" /\ expiry' = "expiring"
      /\ UNCHANGED <<now, redis, kafka, event, todo, closing, taken, faults>>
  BY DEF ExpireStale
<1>2. PICK k \in Stale : Close("expiry", k) /\ expiring' = Stale \ {k}
  BY DEF ExpireStale
<1>3. k \in Key /\ expiring' \subseteq Key
  BY <1>2 DEF Stale
<1>4. Answered("expiry")
  BY <1>1 DEF SendingInv, Answered
<1>5. SendingTypeOK'
  BY <1>2, <1>3, <1>4, CloseTypes, TypesSplit DEF Loop
<1>6. TypeOK'
  BY <1>1, <1>3, <1>5, TypesSplit DEF TypeOK
<1>7. SendingInv'
  BY <1>1, <1>2 DEF SendingInv, Close, Send
<1> QED
  BY <1>6, <1>7

LEMMA ExpireNextTypes ==
  ASSUME TypeOK, SendingInv, ExpireNext
  PROVE  TypeOK' /\ SendingInv'
<1>1. /\ expiry = "expiring" /\ Answered("expiry")
      /\ UNCHANGED <<now, redis, kafka, event, todo, closing, taken, faults>>
  BY DEF ExpireNext
<1>2. CASE /\ UNCHANGED <<memory, sending, unsure>>
           /\ expiry' \in {"asleep", "dead"} /\ expiring' = {}
  <2>1. SendingTypeOK'
    BY <1>2, TypesSplit DEF SendingTypeOK
  <2>2. TypeOK'
    BY <1>1, <1>2, <2>1, TypesSplit DEF TypeOK
  <2>3. SendingInv'
    BY <1>1, <1>2 DEF SendingInv, Answered, TypeOK, Loop
  <2> QED
    BY <2>2, <2>3
<1>3. CASE /\ \E k \in expiring : Close("expiry", k) /\ expiring' = expiring \ {k}
           /\ UNCHANGED expiry
  <2>1. PICK k \in expiring : Close("expiry", k) /\ expiring' = expiring \ {k}
    BY <1>3
  <2>2. k \in Key
    BY DEF TypeOK
  <2>3. SendingTypeOK'
    BY <1>1, <2>1, <2>2, CloseTypes, TypesSplit DEF Loop
  <2>4. TypeOK'
    BY <1>1, <1>3, <2>1, <2>3, TypesSplit DEF TypeOK
  <2>5. SendingInv'
    BY <1>1, <1>3, <2>1 DEF SendingInv, Close, Send
  <2> QED
    BY <2>4, <2>5
<1> QED
  BY <1>2, <1>3 DEF ExpireNext

LEMMA WriteTypes ==
  ASSUME TypeOK, SendingInv, NEW w \in sending, WriteLands(w) \/ WriteFails(w)
  PROVE  TypeOK' /\ SendingInv'
<1>1. w.key \in Key /\ w.anomaly \in Anomaly /\ w.by \in Loop
  BY DEF TypeOK
<1>2. redis' \in [Key -> Anomaly]
  BY <1>1 DEF WriteLands, WriteFails, TypeOK
<1>3. /\ memory' = memory /\ sending' = sending \ {w} /\ unsure' \subseteq Key
      /\ UNCHANGED <<now, event, taken>>
  BY <1>1 DEF WriteLands, WriteFails, TypeOK
<1>4. SendingTypeOK'
  BY <1>3, TypesSplit DEF SendingTypeOK
<1>5. CASE WriteLands(w)
  <2>1. UNCHANGED <<kafka, todo, closing, expiry, expiring, faults>>
    BY <1>5 DEF WriteLands
  <2>2. TypeOK'
    BY <1>2, <1>3, <1>4, <2>1, TypesSplit DEF TypeOK
  <2>3. SendingInv'
    BY <1>3, <2>1 DEF SendingInv
  <2> QED
    BY <2>2, <2>3
<1>6. CASE WriteFails(w)
  <2>1. faults' \in 0..MaxFaults
    BY <1>6, RegistryBounds DEF WriteFails, Fault, TypeOK
  <2>2. CASE w.by = "kafka"
    <3>1. EventEnds /\ UNCHANGED <<expiry, expiring>>
      BY <1>6, <2>2 DEF WriteFails
    <3>2. TypeOK'
      BY <1>2, <1>3, <1>4, <2>1, <3>1, EndTypes, TypesSplit DEF TypeOK
    <3>3. SendingInv'
      BY <1>3, <2>2, <3>1 DEF SendingInv, TypeOK
    <3> QED
      BY <3>2, <3>3
  <2>3. CASE w.by # "kafka"
    <3>1. expiry' = "dead" /\ expiring' = {} /\ UNCHANGED <<kafka, todo, closing>>
      BY <1>6, <2>3 DEF WriteFails
    <3>2. TypeOK'
      BY <1>2, <1>3, <1>4, <2>1, <3>1, TypesSplit DEF TypeOK
    <3>3. \A x \in sending' : x.by = "kafka"
      BY <1>1, <1>3, <2>3 DEF TypeOK, Loop
    <3>4. SendingInv'
      BY <1>3, <3>1, <3>3 DEF SendingInv
    <3> QED
      BY <3>2, <3>4
  <2> QED
    BY <2>2, <2>3
<1> QED
  BY <1>5, <1>6

LEMMA RestartTypes ==
  ASSUME TypeOK, Restart
  PROVE  TypeOK' /\ SendingInv'
<1>1. /\ memory' = [k \in Key |-> IF redis[k].status = "open" THEN redis[k] ELSE None]
      /\ sending' = {} /\ unsure' = {} /\ expiry' = "asleep" /\ expiring' = {}
      /\ EventEnds /\ UNCHANGED <<now, redis, event, taken>>
  BY DEF Restart
<1>2. SendingTypeOK'
  BY <1>1, NoneIsAnomaly DEF SendingTypeOK, TypeOK
<1>3. faults' \in 0..MaxFaults
  BY RegistryBounds DEF Restart, Fault, TypeOK
<1>4. TypeOK'
  BY <1>1, <1>2, <1>3, EndTypes, TypesSplit DEF TypeOK
<1> QED
  BY <1>1, <1>4 DEF SendingInv

-------------------------------------------------------------------------------
(* Memory and Redis *)

(* A write is sent with what it puts into memory, or when that is no longer
   open with an anomaly that is not. *)
LEMMA SendAgrees ==
  ASSUME TypeOK, AgreeInv, NEW loop \in Loop, NEW k \in Key, NEW a, NEW m,
         IF m.status = "open" THEN a = m ELSE a.status # "open",
         memory' = [memory EXCEPT ![k] = m], Send(loop, k, a), redis' = redis
  PROVE  AgreeInv'
<1> DEFINE new == [by |-> loop, key |-> k, anomaly |-> a]
<1>1. sending' = sending \cup {new} /\ unsure \subseteq unsure'
  BY DEF Send
<1>2. new.key = k /\ new.anomaly = a
  OBVIOUS
<1>3. memory'[k] = m
  BY DEF TypeOK
<1> SUFFICES ASSUME NEW x \in Key \ unsure'
             PROVE  /\ \A w, y \in sending' : w.key = x /\ y.key = x => w = y
                    /\ \A w \in sending' : w.key = x =>
                         IF memory'[x].status = "open"
                         THEN w.anomaly = memory'[x] ELSE w.anomaly.status # "open"
                    /\ (\A w \in sending' : w.key # x) =>
                         IF memory'[x].status = "open"
                         THEN redis'[x] = memory'[x] ELSE redis'[x].status # "open"
  BY DEF AgreeInv, IsOpen
<1> HIDE DEF new
<1>4. CASE x = k
  <2>1. \A w \in sending : w.key # k
    BY <1>4 DEF Send
  <2> QED
    BY <1>1, <1>2, <1>3, <1>4, <2>1
<1>5. CASE x # k
  <2>1. memory'[x] = memory[x]
    BY <1>5 DEF TypeOK
  <2>2. \A w \in sending' : w.key = x => w \in sending
    BY <1>1, <1>2, <1>5
  <2>3. x \in Key \ unsure
    BY <1>1
  <2> QED
    BY <1>1, <2>1, <2>2, <2>3 DEF AgreeInv, IsOpen
<1> QED
  BY <1>4, <1>5

LEMMA CloseAgrees ==
  ASSUME TypeOK, AgreeInv, NEW loop \in Loop, NEW k \in Key, Close(loop, k), redis' = redis
  PROVE  AgreeInv'
<1>1. memory[k] \in Anomaly
  BY DEF TypeOK
<1> QED
  BY <1>1, NoneIsAnomaly, ResolvedLemma, SendAgrees DEF Close

LEMMA SameAgrees ==
  ASSUME AgreeInv, UNCHANGED <<memory, redis, sending, unsure>>
  PROVE  AgreeInv'
BY DEF AgreeInv, IsOpen

LEMMA UpdateAgrees ==
  ASSUME TypeOK, AgreeInv, Update
  PROVE  AgreeInv'
<1>1. UNCHANGED redis /\ kafka = "updating"
  BY DEF Update
<1>2. CASE todo = <<>>
  BY <1>1, <1>2, SameAgrees DEF Update
<1>3. CASE todo # <<>>
  <2> DEFINE k == <<Head(todo), event.kind>>
  <2>1. memory' = [memory EXCEPT ![k] = Seen(k)] /\ Send("kafka", k, Seen(k))
    BY <1>3 DEF Update
  <2>2. k \in Key
    BY <1>1, <1>3, HeadTailProperties DEF TypeOK, Event, Key
  <2> HIDE DEF k
  <2>3. Seen(k).status = "open"
    BY <1>1, <2>2, SeenLemma
  <2> QED
    BY <1>1, <2>1, <2>2, <2>3, SendAgrees DEF Loop
<1> QED
  BY <1>2, <1>3

LEMMA ResolveAgrees ==
  ASSUME TypeOK, AgreeInv, Resolve
  PROVE  AgreeInv'
<1>1. redis' = redis
  BY DEF Resolve
<1>2. CASE UNCHANGED <<memory, sending, unsure>>
  BY <1>1, <1>2, SameAgrees
<1>3. CASE \E k \in Key : Close("kafka", k)
  BY <1>1, <1>3, CloseAgrees DEF Loop
<1> QED
  BY <1>2, <1>3, ResolveSteps

LEMMA ExpireAgrees ==
  ASSUME TypeOK, AgreeInv, ExpireStale \/ ExpireNext
  PROVE  AgreeInv'
<1>1. redis' = redis
  BY DEF ExpireStale, ExpireNext
<1>2. UNCHANGED <<memory, sending, unsure>> \/ \E k \in Key : Close("expiry", k)
  BY DEF ExpireStale, ExpireNext, Stale, TypeOK
<1> QED
  BY <1>1, <1>2, SameAgrees, CloseAgrees DEF Loop

LEMMA WriteAgrees ==
  ASSUME TypeOK, AgreeInv, NEW w \in sending, WriteLands(w) \/ WriteFails(w)
  PROVE  AgreeInv'
<1>1. w.key \in Key /\ memory' = memory /\ sending' = sending \ {w}
  BY DEF TypeOK, WriteLands, WriteFails
<1>2. \A k \in Key : k # w.key => redis'[k] = redis[k]
  BY DEF TypeOK, WriteLands, WriteFails
<1>3. unsure \subseteq unsure'
  BY DEF WriteLands, WriteFails
<1>4. w.key \notin unsure' => redis'[w.key] = w.anomaly
  BY <1>1 DEF TypeOK, WriteLands, WriteFails
<1> SUFFICES ASSUME NEW x \in Key \ unsure'
             PROVE  /\ \A v, y \in sending' : v.key = x /\ y.key = x => v = y
                    /\ \A v \in sending' : v.key = x =>
                         IF memory'[x].status = "open"
                         THEN v.anomaly = memory'[x] ELSE v.anomaly.status # "open"
                    /\ (\A v \in sending' : v.key # x) =>
                         IF memory'[x].status = "open"
                         THEN redis'[x] = memory'[x] ELSE redis'[x].status # "open"
  BY DEF AgreeInv, IsOpen
<1>5. x \in Key \ unsure
  BY <1>3
<1>6. CASE x = w.key
  BY <1>1, <1>4, <1>5, <1>6 DEF AgreeInv, IsOpen
<1>7. CASE x # w.key
  BY <1>1, <1>2, <1>5, <1>7 DEF AgreeInv, IsOpen
<1> QED
  BY <1>6, <1>7

(* The process starts with what Redis has. *)
LEMMA RestartAgrees ==
  ASSUME TypeOK, Restart
  PROVE  AgreeInv'
<1>1. /\ memory' = [k \in Key |-> IF redis[k].status = "open" THEN redis[k] ELSE None]
      /\ sending' = {} /\ redis' = redis
  BY DEF Restart
<1> SUFFICES ASSUME NEW x \in Key
             PROVE  IF memory'[x].status = "open"
                    THEN redis'[x] = memory'[x] ELSE redis'[x].status # "open"
  BY <1>1 DEF AgreeInv, IsOpen
<1> QED
  BY <1>1, NoneIsAnomaly

-------------------------------------------------------------------------------
(* What a resolution has closed *)

LEMMA SameResolving ==
  ASSUME ResolvingInv, UNCHANGED <<memory, kafka, event, todo, closing>>
  PROVE  ResolvingInv'
<1>1. \A e : KeysToClose(e)' = KeysToClose(e)
  BY DEF KeysToClose, IsOpen
<1> QED
  BY <1>1 DEF ResolvingInv

(* Closing a key leaves the others as they were. *)
LEMMA CloseCloses ==
  ASSUME TypeOK, NEW loop, NEW k \in Key, Close(loop, k)
  PROVE  \A e : KeysToClose(e)' = KeysToClose(e) \ {k}
<1>1. \A x \in Key : IsOpen(x)' <=> IsOpen(x) /\ x # k
  BY NoneIsAnomaly DEF TypeOK, Close, IsOpen
<1> QED
  BY <1>1 DEF KeysToClose

LEMMA DeliverResolving ==
  ASSUME TypeOK, Deliver
  PROVE  ResolvingInv'
BY DEF Deliver, ResolvingInv

(* An event that resolves closes keys until none is left, and ends then. *)
LEMMA ResolveResolving ==
  ASSUME TypeOK, ResolvingInv, Resolve
  PROVE  /\ ResolvingInv'
         /\ kafka' = "idle" /\ closing = {} =>
              \A i \in DOMAIN event.refs : KeysToClose(event.refs[i])' = {}
<1>1. kafka = "resolving" /\ event' = event
  BY DEF Resolve
<1>2. CASE ResolveNext
  <2>1. closing # {}
    BY <1>2 DEF ResolveNext
  <2>2. CASE EventEnds
    BY <2>1, <2>2 DEF EventEnds, ResolvingInv
  <2>3. CASE ~EventEnds
    <3>1. PICK k \in closing : Close("kafka", k) /\ closing' = closing \ {k}
                               /\ UNCHANGED <<kafka, todo>>
      BY <1>2, <2>3 DEF ResolveNext
    <3>2. k \in Key
      BY DEF TypeOK
    <3>3. \A e : KeysToClose(e)' = KeysToClose(e) \ {k}
      BY <3>1, <3>2, CloseCloses
    <3>4. ResolvingInv'
      BY <1>1, <3>1, <3>3 DEF ResolvingInv
    <3> QED
      BY <2>1, <3>4
  <2> QED
    BY <2>2, <2>3
<1>3. CASE ResolveEntity
  <2> DEFINE found == {i \in DOMAIN todo : KeysToClose(todo[i]) # {}}
  <2>1. closing = {}
    BY <1>3 DEF ResolveEntity
  <2>2. CASE found = {} /\ EventEnds /\ UNCHANGED <<memory, sending, unsure>>
    <3>1. \A e : KeysToClose(e)' = KeysToClose(e)
      BY <2>2 DEF KeysToClose, IsOpen
    <3>2. \A i \in DOMAIN event.refs : KeysToClose(event.refs[i]) = {}
      BY <1>1, <2>1, <2>2 DEF ResolvingInv
    <3> QED
      BY <1>1, <2>2, <3>1, <3>2 DEF EventEnds, ResolvingInv
  <2>3. CASE \E i \in found :
               /\ \A j \in found : i <= j
               /\ \E k \in KeysToClose(todo[i]) :
                    /\ Close("kafka", k)
                    /\ closing' = KeysToClose(todo[i]) \ {k}
               /\ todo' = SubSeq(todo, i + 1, Len(todo))
               /\ UNCHANGED kafka
    <3>1. PICK i \in found :
               /\ \A j \in found : i <= j
               /\ \E k \in KeysToClose(todo[i]) :
                    /\ Close("kafka", k)
                    /\ closing' = KeysToClose(todo[i]) \ {k}
               /\ todo' = SubSeq(todo, i + 1, Len(todo))
               /\ UNCHANGED kafka
      BY <2>3
    <3>2. PICK k \in KeysToClose(todo[i]) :
               Close("kafka", k) /\ closing' = KeysToClose(todo[i]) \ {k}
      BY <3>1
    <3>3. \A e : KeysToClose(e)' = KeysToClose(e) \ {k}
      BY <3>2, KeysLemma, CloseCloses
    <3>4. todo \in Seq(Entity) /\ DOMAIN todo = 1 .. Len(todo) /\ Len(todo) \in Nat
      BY DEF TypeOK
    <3>5. ASSUME NEW e, NEW j \in DOMAIN todo, todo[j] = e
          PROVE  \/ KeysToClose(e)' \subseteq closing'
                 \/ \E m \in DOMAIN todo' : todo'[m] = e
      <4>1. i \in 1 .. Len(todo) /\ j \in 1 .. Len(todo)
        BY <3>4
      <4>2. CASE j < i
        <5> HIDE DEF found
        <5>1. j \notin found
          BY <3>1, <4>1, <4>2
        <5> QED
          BY <3>3, <3>5, <5>1 DEF found
      <4>3. CASE j = i
        BY <3>2, <3>3, <3>5, <4>3
      <4>4. CASE j > i
        <5>1. /\ Len(todo') = Len(todo) - i
              /\ \A m \in 1 .. Len(todo) - i : todo'[m] = todo[i + m]
          BY <3>1, <3>4, <4>1, SubSeqProperties
        <5>2. j - i \in DOMAIN todo' /\ todo'[j - i] = e
          BY <3>5, <3>1, <3>4, <4>1, <4>4, <5>1, SubSeqProperties
        <5> QED
          BY <5>2
      <4> QED
        BY <4>1, <4>2, <4>3, <4>4
    <3>6. ASSUME NEW e, NEW n \in DOMAIN event.refs, event.refs[n] = e
          PROVE  \/ KeysToClose(e)' \subseteq closing'
                 \/ \E m \in DOMAIN todo' : todo'[m] = e
      <4>1. CASE KeysToClose(e) = {}
        BY <3>3, <4>1
      <4>2. CASE KeysToClose(e) # {}
        <5>1. PICK j \in DOMAIN todo : todo[j] = e
          BY <1>1, <2>1, <3>6, <4>2 DEF ResolvingInv
        <5> QED
          BY <3>5, <5>1
      <4> QED
        BY <4>1, <4>2
    <3>7. ResolvingInv'
      BY <1>1, <3>6 DEF ResolvingInv
    <3> QED
      BY <1>1, <3>1, <3>7
  <2> QED
    BY <1>3, <2>2, <2>3 DEF ResolveEntity
<1> QED
  BY <1>2, <1>3 DEF Resolve

(* The expiry loop only closes. *)
LEMMA ExpireResolving ==
  ASSUME TypeOK, ResolvingInv, ExpireStale \/ ExpireNext
  PROVE  ResolvingInv'
<1>1. UNCHANGED <<kafka, event, todo, closing>>
  BY DEF ExpireStale, ExpireNext
<1>2. UNCHANGED memory \/ \E k \in Key : Close("expiry", k)
  BY DEF ExpireStale, ExpireNext, Stale, TypeOK
<1>3. CASE UNCHANGED memory
  BY <1>1, <1>3, SameResolving
<1>4. CASE \E k \in Key : Close("expiry", k)
  <2>1. \A e : KeysToClose(e)' \subseteq KeysToClose(e)
    BY <1>4, CloseCloses
  <2> QED
    BY <1>1, <2>1 DEF ResolvingInv
<1> QED
  BY <1>2, <1>3, <1>4

LEMMA WriteResolving ==
  ASSUME ResolvingInv, NEW w \in sending, WriteLands(w) \/ WriteFails(w)
  PROVE  ResolvingInv'
<1>1. CASE UNCHANGED <<memory, kafka, event, todo, closing>>
  BY <1>1, SameResolving
<1>2. CASE kafka' = "idle"
  BY <1>2 DEF ResolvingInv
<1> QED
  BY <1>1, <1>2 DEF WriteLands, WriteFails, EventEnds

-------------------------------------------------------------------------------
(* Every step *)

LEMMA InitInv == Init => Inv
<1> SUFFICES ASSUME Init PROVE Inv
  OBVIOUS
<1>1. SendingInv /\ ResolvingInv
  BY DEF Init, SendingInv, ResolvingInv
<1>2. AgreeInv
  BY NoneIsAnomaly DEF Init, AgreeInv, IsOpen
<1> QED
  BY <1>1, <1>2, InitTypes DEF Inv

LEMMA StepInv ==
  ASSUME Inv, [Next]_vars
  PROVE  Inv'
<1> USE DEF Inv
<1>1. CASE Tick
  <2>1. UNCHANGED <<memory, redis, sending, unsure, kafka, event, todo, closing>>
    BY <1>1 DEF Tick
  <2> QED
    BY <1>1, <2>1, TickTypes, SameAgrees, SameResolving
<1>2. CASE Deliver
  <2>1. UNCHANGED <<memory, redis, sending, unsure>>
    BY <1>2 DEF Deliver
  <2> QED
    BY <1>2, <2>1, DeliverTypes, SameAgrees, DeliverResolving
<1>3. CASE Update
  <2>1. ResolvingInv'
    BY <1>3 DEF Update, EventEnds, ResolvingInv
  <2> QED
    BY <1>3, <2>1, UpdateTypes, UpdateAgrees
<1>4. CASE Resolve
  BY <1>4, ResolveTypes, ResolveAgrees, ResolveResolving
<1>5. CASE ExpireStale
  BY <1>5, ExpireStaleTypes, ExpireAgrees, ExpireResolving
<1>6. CASE ExpireNext
  BY <1>6, ExpireNextTypes, ExpireAgrees, ExpireResolving
<1>7. CASE \E w \in sending : WriteLands(w) \/ WriteFails(w)
  BY <1>7, WriteTypes, WriteAgrees, WriteResolving
<1>8. CASE Restart
  <2>1. ResolvingInv'
    BY <1>8 DEF Restart, EventEnds, ResolvingInv
  <2> QED
    BY <1>8, <2>1, RestartTypes, RestartAgrees
<1>9. CASE UNCHANGED vars
  <2>1. AgreeInv' /\ ResolvingInv'
    BY <1>9, SameAgrees, SameResolving DEF vars
  <2> QED
    BY <1>9, <2>1 DEF vars, TypeOK, SendingInv
<1> QED
  BY <1>1, <1>2, <1>3, <1>4, <1>5, <1>6, <1>7, <1>8, <1>9 DEF Next

-------------------------------------------------------------------------------
(* The theorems *)

(* The invariant of both loops and every write between them
   (anomaly_registry.py:50-59, 69-124). *)
THEOREM RegistryInvariant == Spec => []Inv
<1>1. Init => Inv
  BY InitInv
<1>2. Inv /\ [Next]_vars => Inv'
  BY StepInv
<1> QED
  BY <1>1, <1>2, PTL DEF Spec

(* Each loop has one write under way at most, what is in the dict is open, and
   only a list of stale keys keeps the expiry loop at work
   (anomaly_registry.py:50-59, 105-117). *)
THEOREM TypeCorrect == Spec => []TypeOK
<1>1. Inv => TypeOK
  BY DEF Inv
<1> QED
  BY <1>1, RegistryInvariant, PTL

(* Redis has what memory has, of every key whose writes were not mixed and did
   not fail, when none is under way: a restart brings back the same anomalies
   (anomaly_registry.py:50-59, 103, 117, 124). *)
THEOREM RedisHasWhatIsOpen == Spec => []RedisAgrees
<1>1. Inv => RedisAgrees
  BY DEF Inv, AgreeInv, RedisAgrees
<1> QED
  BY <1>1, RegistryInvariant, PTL

(* Only Resolve ends a resolution without a fault. *)
LEMMA ResolutionEnds ==
  ASSUME Inv, [Next]_vars, kafka = "resolving", kafka' = "idle", closing = {},
         faults' = faults
  PROVE  \A i \in DOMAIN event.refs : KeysToClose(event.refs[i])' = {}
<1>1. Resolve
  <2>1. ~Restart /\ \A w \in sending : ~WriteFails(w)
    BY DEF Restart, WriteFails, Fault, Inv, TypeOK
  <2>2. ~Tick /\ ~Deliver /\ ~Update /\ ~ExpireStale /\ ~ExpireNext
    BY DEF Tick, Deliver, Update, ExpireStale, ExpireNext
  <2>3. \A w \in sending : ~WriteLands(w)
    BY DEF WriteLands
  <2> QED
    BY <2>1, <2>2, <2>3 DEF Next, vars
<1> QED
  BY <1>1, ResolveResolving DEF Inv

(* A resolution event that comes to its end has closed every open anomaly of
   its entities, whatever the expiry loop does meanwhile
   (anomaly_registry.py:69-72, 119-124). *)
THEOREM ResolutionClosesAll == Spec => ResolutionCloses
<1>1. Inv /\ [Next]_vars
        => [kafka = "resolving" /\ kafka' = "idle" /\ closing = {} /\ faults' = faults =>
              \A i \in DOMAIN event.refs : KeysToClose(event.refs[i])' = {}]_vars
  BY ResolutionEnds
<1> QED
  BY <1>1, RegistryInvariant, PTL DEF Spec, ResolutionCloses
================================================================================
