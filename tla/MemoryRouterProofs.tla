--------------------------- MODULE MemoryRouterProofs ---------------------------
(***************************************************************************)
(* What is proved of MemoryRouter, for every set of events, every length   *)
(* of the topic and every number of faults: its type correctness, that an  *)
(* event strengthens its edges at most once while its dedup key lives, and *)
(* that what becomes of every write is accounted for.                      *)
(***************************************************************************)
EXTENDS MemoryRouter, SequenceTheorems, TLAPS

-------------------------------------------------------------------------------
(* Types *)

(* What is owed, begun and excused of an event are writes. *)
LEMMA WritesLemma ==
  /\ \A e \in Event : Owed(e) \subseteq Write
  /\ \A e \in Event, stale \in BOOLEAN : Tasks(e, stale) \subseteq Write \ {"edges"}
  /\ \A w \in Write : writing \subseteq Write => After(w) \subseteq Write
BY DEF Owed, Tasks, After, Write

(* The bookkeeping of excuses keeps its type. *)
LEMMA ExcuseLemma ==
  ASSUME NEW e \in Event, NEW W \in SUBSET Write,
         excused \subseteq Event \X Write, Excuse(e, W)
  PROVE  excused' \subseteq Event \X Write
BY DEF Excuse

(* A write that takes effect keeps the types of what it writes. *)
LEMMA ApplyLemma ==
  ASSUME NEW e \in Event, NEW w \in Write, Apply(e, w),
         stored \in [Write -> SUBSET Event], strengthened \in [Event -> Nat]
  PROVE  /\ stored' \in [Write -> SUBSET Event]
         /\ strengthened' \in [Event -> Nat]
BY DEF Apply

(* Every step keeps the types: messages the router is busy with are events,
   the consumer is within the topic and not behind the committed offset. *)
LEMMA TypeStep == TypeOK /\ [Next]_vars => TypeOK'
<1> USE EventsAssumption, RouterBounds
<1> SUFFICES ASSUME TypeOK, [Next]_vars PROVE TypeOK'
  OBVIOUS
<1>1. ASSUME NEW m \in Message, Publish(m) PROVE TypeOK'
  <2>1. log' \in Seq(Message) /\ Len(log') = Len(log) + 1
        /\ \A i \in 1..Len(log) : log'[i] = log[i]
    BY <1>1, AppendProperties DEF Publish, TypeOK
  <2>2. pc \in {"marking", "writing"} => position \in 1..Len(log)
    BY DEF TypeOK
  <2> QED
    BY <1>1, <2>1, <2>2 DEF Publish, TypeOK
<1>2. ASSUME NEW e \in Event, DedupExpires(e) PROVE TypeOK'
  BY <1>2 DEF DedupExpires, TypeOK
<1>3. ASSUME Start PROVE TypeOK'
  BY <1>3 DEF Start, TypeOK, RouterState
<1>4. ASSUME LoadModel PROVE TypeOK'
  BY <1>4 DEF LoadModel, TypeOK
<1>5. ASSUME Receive PROVE TypeOK'
  <2>1. position + 1 \in 1..Len(log) /\ log[position + 1] \in Message
    BY <1>5, ElementOfSeq DEF Receive, TypeOK, Message
  <2> QED
    BY <1>5, <2>1 DEF Receive, TypeOK, RouterState, Message
<1>6. ASSUME NEW e \in Event, Mark(e) PROVE TypeOK'
  <2>1. CASE e \in dedup
    BY <1>6, <2>1 DEF Mark, TypeOK, RouterState
  <2>2. CASE e \notin dedup
    <3>1. PICK stale \in BOOLEAN :
            /\ writing' = Tasks(e, stale)
            /\ Excuse(e, IF stale THEN {"working"} ELSE {})
      BY <1>6, <2>2 DEF Mark
    <3>2. writing' \subseteq Write
      BY <3>1, WritesLemma
    <3>3. excused' \subseteq Event \X Write
      BY <3>1, ExcuseLemma DEF TypeOK, Write
    <3> QED
      BY <1>6, <2>2, <3>2, <3>3 DEF Mark, Msg, TypeOK, RouterState
  <2> QED
    BY <2>1, <2>2
<1>7. ASSUME NEW w \in Write, WriteLands(w) PROVE TypeOK'
  <2>1. pc = "writing" /\ Msg \in Event
    BY <1>7 DEF WriteLands, Msg, TypeOK
  <2>2. stored' \in [Write -> SUBSET Event] /\ strengthened' \in [Event -> Nat]
    BY <1>7, <2>1, ApplyLemma DEF WriteLands, TypeOK
  <2>3. writing' \subseteq Write
    BY <1>7, WritesLemma DEF WriteLands, TypeOK
  <2> QED
    BY <1>7, <2>1, <2>2, <2>3 DEF WriteLands, TypeOK
<1>8. ASSUME VectorSkips PROVE TypeOK'
  <2>1. pc = "writing" /\ Msg \in Event
    BY <1>8 DEF VectorSkips, Msg, TypeOK
  <2>2. excused' \subseteq Event \X Write
    BY <1>8, <2>1, ExcuseLemma DEF VectorSkips, TypeOK, Write
  <2> QED
    BY <1>8, <2>1, <2>2 DEF VectorSkips, TypeOK
<1>9. ASSUME Gather PROVE TypeOK'
  BY <1>9 DEF Gather, TypeOK, RouterState
<1>10. ASSUME Commit PROVE TypeOK'
  BY <1>10 DEF Commit, TypeOK, RouterState
<1>11. ASSUME NEW e \in Event, MarkFails(e) PROVE TypeOK'
  <2>1. excused' \subseteq Event \X Write
    BY <1>11, ExcuseLemma, WritesLemma DEF MarkFails, TypeOK
  <2> QED
    BY <1>11, <2>1 DEF MarkFails, Fault, TypeOK, RouterState
<1>12. ASSUME NEW w \in Write, WriteFails(w) PROVE TypeOK'
  <2>1. pc = "writing" /\ Msg \in Event
    BY <1>12 DEF WriteFails, Msg, TypeOK
  <2>2. stored' \in [Write -> SUBSET Event] /\ strengthened' \in [Event -> Nat]
    BY <1>12, <2>1, ApplyLemma DEF WriteFails, TypeOK
  <2>3. excused' \subseteq Event \X Write
    BY <1>12, <2>1, ExcuseLemma DEF WriteFails, TypeOK, Write
  <2> QED
    BY <1>12, <2>1, <2>2, <2>3 DEF WriteFails, Fault, TypeOK
<1>13. ASSUME CommitFails PROVE TypeOK'
  BY <1>13 DEF CommitFails, Fault, TypeOK, RouterState
<1>14. ASSUME Crash PROVE TypeOK'
  <2>1. excused' \subseteq Event \X Write
    <3>1. CASE pc = "writing"
      <4>1. Msg \in Event
        BY <3>1 DEF Msg, TypeOK
      <4>2. writing \cup UNION {After(w) : w \in writing} \subseteq Write
        BY WritesLemma DEF TypeOK
      <4> QED
        BY <1>14, <3>1, <4>1, <4>2, ExcuseLemma DEF Crash, TypeOK
    <3>2. CASE pc # "writing"
      BY <1>14, <3>2 DEF Crash, TypeOK
    <3> QED
      BY <3>1, <3>2
  <2>2. /\ pc' = "down" /\ writing' = {} /\ raised' = FALSE /\ model' = FALSE
        /\ faults < MaxFaults /\ faults' = faults + 1
        /\ UNCHANGED <<log, committed, position, dedup, stored, strengthened, expired>>
    BY <1>14 DEF Crash, Fault
  <2>3. writing' \subseteq Write /\ raised' \in BOOLEAN /\ model' \in BOOLEAN
    BY <2>2
  <2>4. pc' \in RouterState /\ pc' \notin {"marking", "writing"}
    BY <2>2 DEF RouterState
  <2> QED
    BY <2>1, <2>2, <2>3, <2>4 DEF TypeOK
<1>15. ASSUME ReceiveBreaks PROVE TypeOK'
  BY <1>15 DEF ReceiveBreaks, TypeOK, RouterState
<1>16. CASE UNCHANGED vars
  BY <1>16 DEF vars, TypeOK
<1> QED
  BY <1>1, <1>2, <1>3, <1>4, <1>5, <1>6, <1>7, <1>8, <1>9, <1>10, <1>11, <1>12, <1>13, <1>14, <1>15,
     <1>16
     DEF Next, RouterAction, Failure

(* The router's variables have their types in every reachable state. *)
THEOREM RouterTypeCorrect == Spec => []TypeOK
<1>1. Init => TypeOK
  <2> SUFFICES ASSUME Init PROVE TypeOK
    OBVIOUS
  <2>1. log \in Seq(Message) /\ Len(log) = 0
    BY DEF Init
  <2>2. stored \in [Write -> SUBSET Event] /\ strengthened \in [Event -> Nat]
    BY DEF Init
  <2>3. /\ writing \subseteq Write /\ dedup \subseteq Event /\ expired \subseteq Event
        /\ excused \subseteq Event \X Write
        /\ raised \in BOOLEAN /\ model \in BOOLEAN
    BY DEF Init
  <2>4. pc \in RouterState /\ pc \notin {"marking", "writing"}
    BY DEF Init, RouterState
  <2> QED
    BY <2>1, <2>2, <2>3, <2>4, RouterBounds DEF Init, TypeOK
<1> QED
  BY <1>1, TypeStep, PTL DEF Spec

-------------------------------------------------------------------------------
(* Strengthenings *)

(* An event that has strengthened its edges still has its dedup key, unless
   the key has expired. *)
MarkedOnceStrengthened ==
  \A e \in Event \ expired :
    strengthened[e] <= 1 /\ (strengthened[e] # 0 => e \in dedup)

(* While the semantic layer has writes to make for the message, the message
   has its dedup key, and has not strengthened anything. *)
FreshWhileLinking ==
  writing \cap {"nodes", "edges"} # {} =>
    Msg \in dedup /\ (Msg \notin expired => strengthened[Msg] = 0)

(* The edges are begun when the nodes have been made. *)
NodesThenEdges == ~ ({"nodes", "edges"} \subseteq writing)

OnceInv == MarkedOnceStrengthened /\ FreshWhileLinking /\ NodesThenEdges

(* A write w that takes effect for the message and is then no longer under
   way: only the edges strengthen, and then nothing is left to link. *)
LEMMA EffectLemma ==
  ASSUME TypeOK, OnceInv, NEW w \in writing, Apply(Msg, w),
         writing' = After(w) \/ writing' = writing \ {w},
         UNCHANGED <<log, position, dedup, expired>>
  PROVE  OnceInv'
<1>1. Msg \in Event /\ Msg' = Msg
  BY DEF Msg, TypeOK
<1>2. CASE w = "edges"
  <2>1. writing' \cap {"nodes", "edges"} = {}
    BY <1>2 DEF After, OnceInv, NodesThenEdges
  <2>2. Msg \in dedup /\ (Msg \notin expired => strengthened[Msg] = 0)
    BY <1>2 DEF OnceInv, FreshWhileLinking
  <2>3. \A e \in Event : strengthened'[e] = strengthened[e] + (IF e = Msg THEN 1 ELSE 0)
    BY <1>1, <1>2 DEF Apply, TypeOK
  <2>4. MarkedOnceStrengthened'
    BY <2>2, <2>3 DEF OnceInv, MarkedOnceStrengthened, TypeOK
  <2> QED
    BY <2>1, <2>4 DEF OnceInv, FreshWhileLinking, NodesThenEdges
<1>3. CASE w # "edges"
  <2>1. strengthened' = strengthened
    BY <1>3 DEF Apply
  <2>2. MarkedOnceStrengthened'
    BY <2>1 DEF OnceInv, MarkedOnceStrengthened
  <2>3. NodesThenEdges'
    BY DEF After, OnceInv, NodesThenEdges
  <2>4. writing' \cap {"nodes", "edges"} # {} => writing \cap {"nodes", "edges"} # {}
    BY DEF After
  <2>5. FreshWhileLinking'
    BY <1>1, <2>1, <2>4 DEF OnceInv, FreshWhileLinking
  <2> QED
    BY <2>2, <2>3, <2>5 DEF OnceInv
<1> QED
  BY <1>2, <1>3

(* A step that strengthens nothing, takes no dedup key away and begins no
   write; it may give the message up, or go to the next when nothing is under
   way. *)
LEMMA QuietLemma ==
  ASSUME TypeOK, OnceInv,
         writing' \subseteq writing,
         writing' = {} \/ Msg' = Msg,
         dedup \subseteq dedup',
         UNCHANGED <<strengthened, expired>>
  PROVE  OnceInv'
<1>1. MarkedOnceStrengthened'
  BY DEF OnceInv, MarkedOnceStrengthened
<1>2. FreshWhileLinking'
  BY DEF OnceInv, FreshWhileLinking
<1>3. NodesThenEdges'
  BY DEF OnceInv, NodesThenEdges
<1> QED
  BY <1>1, <1>2, <1>3 DEF OnceInv

(* Every step keeps OnceInv. *)
LEMMA OnceStep == TypeOK /\ OnceInv /\ [Next]_vars => OnceInv'
<1> USE EventsAssumption
<1> SUFFICES ASSUME TypeOK, OnceInv, [Next]_vars PROVE OnceInv'
  OBVIOUS
<1>1. ASSUME NEW m \in Message, Publish(m) PROVE OnceInv'
  <2>1. writing' = {} \/ Msg' = Msg
    BY <1>1, AppendProperties DEF Publish, Msg, TypeOK
  <2> QED
    BY <1>1, <2>1, QuietLemma DEF Publish
<1>2. ASSUME NEW e \in Event, DedupExpires(e) PROVE OnceInv'
  <2>1. Msg' = Msg
    BY <1>2 DEF DedupExpires, Msg
  <2>2. writing \cap {"nodes", "edges"} # {} => Msg # e
    BY <1>2 DEF DedupExpires, Msg, TypeOK
  <2>3. MarkedOnceStrengthened'
    BY <1>2 DEF DedupExpires, OnceInv, MarkedOnceStrengthened
  <2>4. FreshWhileLinking'
    BY <1>2, <2>1, <2>2 DEF DedupExpires, OnceInv, FreshWhileLinking
  <2>5. NodesThenEdges'
    BY <1>2 DEF DedupExpires, OnceInv, NodesThenEdges
  <2> QED
    BY <2>3, <2>4, <2>5 DEF OnceInv
<1>3. ASSUME Start PROVE OnceInv'
  BY <1>3, QuietLemma DEF Start, TypeOK
<1>4. ASSUME LoadModel PROVE OnceInv'
  BY <1>4, QuietLemma DEF LoadModel, TypeOK, Msg
<1>5. ASSUME Receive PROVE OnceInv'
  BY <1>5, QuietLemma DEF Receive, TypeOK
<1>6. ASSUME NEW e \in Event, Mark(e) PROVE OnceInv'
  <2>1. CASE e \in dedup
    BY <1>6, <2>1, QuietLemma DEF Mark, TypeOK
  <2>2. CASE e \notin dedup
    <3>1. "edges" \notin writing' /\ dedup' = dedup \cup {e}
          /\ UNCHANGED <<strengthened, expired>> /\ Msg' = e
      BY <1>6, <2>2, WritesLemma DEF Mark, Msg
    <3>2. MarkedOnceStrengthened'
      BY <3>1 DEF OnceInv, MarkedOnceStrengthened
    <3>3. FreshWhileLinking'
      BY <2>2, <3>1 DEF OnceInv, MarkedOnceStrengthened, FreshWhileLinking
    <3> QED
      BY <3>1, <3>2, <3>3 DEF OnceInv, NodesThenEdges
  <2> QED
    BY <2>1, <2>2
<1>7. ASSUME NEW w \in Write, WriteLands(w) PROVE OnceInv'
  BY <1>7, EffectLemma DEF WriteLands
<1>8. ASSUME VectorSkips PROVE OnceInv'
  BY <1>8, QuietLemma DEF VectorSkips, TypeOK, Msg
<1>9. ASSUME Gather PROVE OnceInv'
  BY <1>9, QuietLemma DEF Gather, TypeOK
<1>10. ASSUME Commit PROVE OnceInv'
  BY <1>10, QuietLemma DEF Commit, TypeOK
<1>11. ASSUME NEW e \in Event, MarkFails(e) PROVE OnceInv'
  BY <1>11, QuietLemma DEF MarkFails, TypeOK
<1>12. ASSUME NEW w \in Write, WriteFails(w) PROVE OnceInv'
  <2>1. CASE Apply(Msg, w)
    BY <1>12, <2>1, EffectLemma DEF WriteFails
  <2>2. CASE UNCHANGED <<stored, strengthened>>
    BY <1>12, <2>2, QuietLemma DEF WriteFails, Msg
  <2> QED
    BY <1>12, <2>1, <2>2 DEF WriteFails
<1>13. ASSUME CommitFails PROVE OnceInv'
  BY <1>13, QuietLemma DEF CommitFails, TypeOK
<1>14. ASSUME Crash PROVE OnceInv'
  BY <1>14, QuietLemma DEF Crash, TypeOK
<1>15. ASSUME ReceiveBreaks PROVE OnceInv'
  BY <1>15, QuietLemma DEF ReceiveBreaks, TypeOK
<1>16. CASE UNCHANGED vars
  BY <1>16, QuietLemma DEF vars, Msg
<1> QED
  BY <1>1, <1>2, <1>3, <1>4, <1>5, <1>6, <1>7, <1>8, <1>9, <1>10, <1>11, <1>12, <1>13, <1>14, <1>15,
     <1>16
     DEF Next, RouterAction, Failure

(* An event strengthens the edges between its entities at most once while its
   dedup key lives, whatever is published twice, delivered twice, fails or
   crashes, and however often (memory/router.py:119-124). *)
THEOREM EdgesStrengthenedOnce == Spec => []StrengthenedOnce
<1>1. Init => OnceInv
  BY DEF Init, OnceInv, MarkedOnceStrengthened, FreshWhileLinking, NodesThenEdges
<1>2. OnceInv => StrengthenedOnce
  BY DEF OnceInv, MarkedOnceStrengthened, StrengthenedOnce
<1> QED
  BY <1>1, <1>2, OnceStep, RouterTypeCorrect, PTL DEF Spec

-------------------------------------------------------------------------------
(* Writes *)

(* Every write owed for e has been made, or is excused. *)
Accounted(e) == \A w \in Owed(e) : e \in stored[w] \/ <<e, w>> \in excused

(* An event with a dedup key, which a second copy of it would be dropped for,
   is accounted for, or it is the one that is being written. *)
MarkedAccounted == \A e \in dedup : Accounted(e) \/ (pc = "writing" /\ Msg = e)

(* What is owed for the message under way and is neither made nor excused is
   under way, or is the edges behind the nodes that are. *)
OwedUnderWay ==
  pc = "writing" =>
    \A w \in Owed(Msg) : \/ Msg \in stored[w] \/ <<Msg, w>> \in excused
                         \/ w \in writing \/ (w = "edges" /\ "nodes" \in writing)

AccountInv == MarkedAccounted /\ OwedUnderWay /\ WritesAccountedFor

(* What has been made and excused stays so. *)
Grows == (\A w \in Write : stored[w] \subseteq stored'[w]) /\ excused \subseteq excused'

LEMMA GrowsStep == TypeOK /\ [Next]_vars => Grows
<1> SUFFICES ASSUME TypeOK, [Next]_vars PROVE Grows
  OBVIOUS
<1>1. ASSUME UNCHANGED <<stored, excused>> PROVE Grows
  BY <1>1 DEF Grows
<1>2. ASSUME NEW e, NEW w \in Write, Apply(e, w) PROVE \A x \in Write : stored[x] \subseteq stored'[x]
  BY <1>2 DEF Apply, TypeOK
<1>3. ASSUME NEW e, NEW W, Excuse(e, W) PROVE excused \subseteq excused'
  BY <1>3 DEF Excuse
<1>4. ASSUME NEW e \in Event, Mark(e) PROVE Grows
  BY <1>1, <1>3, <1>4 DEF Mark, Grows
<1>5. ASSUME NEW w \in Write, WriteLands(w) PROVE Grows
  BY <1>2, <1>5 DEF WriteLands, Grows
<1>6. ASSUME NEW w \in Write, WriteFails(w) PROVE Grows
  BY <1>2, <1>3, <1>6 DEF WriteFails, Grows
<1>7. ASSUME Crash PROVE Grows
  BY <1>1, <1>3, <1>7 DEF Crash, Grows
<1>8. ASSUME VectorSkips PROVE Grows
  BY <1>3, <1>8 DEF VectorSkips, Grows
<1>9. ASSUME NEW e \in Event, MarkFails(e) PROVE Grows
  BY <1>3, <1>9 DEF MarkFails, Grows
<1> QED
  BY <1>1, <1>4, <1>5, <1>6, <1>7, <1>8, <1>9
     DEF Next, RouterAction, Failure, Publish, DedupExpires, Start, LoadModel, Receive,
         ReceiveBreaks, Gather,
         Commit, CommitFails, vars

LEMMA AccountedStays ==
  ASSUME Grows, NEW e, Accounted(e)
  PROVE  Accounted(e)'
<1>1. Owed(e) \subseteq Write
  BY DEF Owed, Write
<1> QED
  BY <1>1 DEF Accounted, Grows, Owed

(* A step by which no message is left behind keeps WritesAccountedFor. *)
LEMMA NoneLeft ==
  ASSUME Grows, AccountInv, TypeOK,
         \A i \in DOMAIN log' : log'[i] \in Event /\ LeftBehind(i)' =>
           Accounted(log[i])' \/ (i \in DOMAIN log /\ log'[i] = log[i] /\ LeftBehind(i))
  PROVE  WritesAccountedFor'
<1>1. \A e : Accounted(e) => Accounted(e)'
  BY AccountedStays
<1>2. ASSUME NEW i \in DOMAIN log', NEW e \in Event, log'[i] = e, LeftBehind(i)'
      PROVE  \A w \in Owed(e) : e \in stored'[w] \/ <<e, w>> \in excused'
  <2>1. CASE Accounted(log[i])'
    BY <1>2, <2>1 DEF Accounted
  <2>2. CASE i \in DOMAIN log /\ log'[i] = log[i] /\ LeftBehind(i)
    <3>1. Accounted(e)
      BY <1>2, <2>2 DEF AccountInv, WritesAccountedFor, Accounted
    <3> QED
      BY <1>1, <3>1 DEF Accounted
  <2> QED
    BY <1>2, <2>1, <2>2
<1> QED
  BY <1>2 DEF WritesAccountedFor

(* Nothing is being written after the step, and keys are given only to events
   that are accounted for. *)
LEMMA NoneWriting ==
  ASSUME Grows, AccountInv, pc' # "writing",
         \A e \in dedup' : Accounted(e)' \/ (e \in dedup /\ ~ (pc = "writing" /\ Msg = e))
  PROVE  MarkedAccounted' /\ OwedUnderWay'
BY AccountedStays DEF AccountInv, MarkedAccounted, OwedUnderWay

(* Every step keeps AccountInv. *)
LEMMA AccountStep == TypeOK /\ AccountInv /\ [Next]_vars => AccountInv'
<1> USE EventsAssumption
<1> SUFFICES ASSUME TypeOK, AccountInv, [Next]_vars PROVE AccountInv'
  OBVIOUS
<1>a. Grows
  BY GrowsStep
<1>b. \A e : Accounted(e) => Accounted(e)'
  BY <1>a, AccountedStays
<1>c. /\ log \in Seq(Message) /\ committed \in 0 .. position /\ position \in 0 .. Len(log)
      /\ pc \in {"marking", "writing"} => position > 0 /\ log[position] \in Event
  BY DEF TypeOK
(* The topic and the place of the consumer in it stay. *)
<1>d. ASSUME UNCHANGED <<log, committed, position>>,
             pc' \in {"idle", "committing"} => pc \in {"idle", "committing"}
      PROVE  WritesAccountedFor'
  BY <1>a, <1>d, NoneLeft DEF LeftBehind
<1>e. ASSUME UNCHANGED <<log, position, committed>>, pc = "writing" \/ pc = "marking",
             NEW e \in Event, Msg = e, Accounted(e)'
      PROVE  WritesAccountedFor'
  <2>1. \A i \in DOMAIN log' : log'[i] \in Event /\ LeftBehind(i)' =>
           Accounted(log[i])' \/ (i \in DOMAIN log /\ log'[i] = log[i] /\ LeftBehind(i))
    <3> SUFFICES ASSUME NEW i \in DOMAIN log', LeftBehind(i)', ~ LeftBehind(i)
                 PROVE  Accounted(log[i])'
      BY <1>e
    <3>1. i = position
      BY <1>e DEF LeftBehind
    <3>2. log'[i] = e
      BY <1>e, <3>1 DEF Msg
    <3> QED
      BY <1>e, <3>2 DEF Accounted
  <2> QED
    BY <1>a, <2>1, NoneLeft
<1>f. ASSUME pc' = pc, UNCHANGED <<log, position>>, dedup' \subseteq dedup,
             pc = "writing" =>
               \A w \in Owed(Msg) : \/ Msg \in stored'[w] \/ <<Msg, w>> \in excused'
                                    \/ w \in writing' \/ (w = "edges" /\ "nodes" \in writing')
      PROVE  MarkedAccounted' /\ OwedUnderWay'
  BY <1>b, <1>f DEF AccountInv, MarkedAccounted, OwedUnderWay, Msg
<1>g. pc = "writing" => \A w \in Owed(Msg) :
        \/ Msg \in stored'[w] \/ <<Msg, w>> \in excused'
        \/ w \in writing \/ (w = "edges" /\ "nodes" \in writing)
  <2>1. \A w \in Owed(Msg) : w \in Write
    BY DEF Owed, Write
  <2> QED
    BY <1>a, <2>1 DEF AccountInv, OwedUnderWay, Grows
<1>1. ASSUME NEW m \in Message, Publish(m) PROVE AccountInv'
  <2>1. /\ Len(log') = Len(log) + 1 /\ log' \in Seq(Message)
        /\ \A i \in 1 .. Len(log) : log'[i] = log[i]
    BY <1>1, <1>c, AppendProperties DEF Publish
  <2>2. WritesAccountedFor'
    BY <1>1, <1>a, <1>c, <2>1, NoneLeft DEF Publish, LeftBehind
  <2>3. pc = "writing" => Msg' = Msg
    BY <1>1, <1>c, <2>1 DEF Msg, Publish
  <2>4. MarkedAccounted' /\ OwedUnderWay'
    BY <1>1, <1>b, <1>g, <2>3 DEF Publish, AccountInv, MarkedAccounted, OwedUnderWay
  <2> QED
    BY <2>2, <2>4 DEF AccountInv
<1>2. ASSUME NEW e \in Event, DedupExpires(e) PROVE AccountInv'
  BY <1>2, <1>d, <1>f, <1>g DEF DedupExpires, AccountInv
<1>3. ASSUME Start PROVE AccountInv'
  <2>1. WritesAccountedFor'
    BY <1>3, <1>a, <1>c, NoneLeft DEF Start, LeftBehind
  <2>2. MarkedAccounted' /\ OwedUnderWay'
    BY <1>3, <1>a, NoneWriting DEF Start
  <2> QED
    BY <2>1, <2>2 DEF AccountInv
<1>4. ASSUME LoadModel PROVE AccountInv'
  BY <1>4, <1>d, <1>f, <1>g DEF LoadModel, AccountInv
<1>5. ASSUME Receive PROVE AccountInv'
  <2>1. WritesAccountedFor'
    BY <1>5, <1>a, <1>c, NoneLeft DEF Receive, LeftBehind
  <2>2. MarkedAccounted' /\ OwedUnderWay'
    BY <1>5, <1>a, NoneWriting DEF Receive
  <2> QED
    BY <2>1, <2>2 DEF AccountInv
<1>6. ASSUME NEW e \in Event, Mark(e) PROVE AccountInv'
  <2>1. CASE e \in dedup
    <3>1. Accounted(e)' /\ pc' = "committing" /\ pc = "marking" /\ Msg = e /\ dedup' = dedup
          /\ UNCHANGED <<log, position, committed>>
      BY <1>6, <1>b, <2>1 DEF Mark, AccountInv, MarkedAccounted
    <3>2. WritesAccountedFor'
      BY <1>e, <3>1
    <3>3. MarkedAccounted' /\ OwedUnderWay'
      BY <1>a, <3>1, NoneWriting
    <3> QED
      BY <3>2, <3>3 DEF AccountInv
  <2>2. CASE e \notin dedup
    <3>1. /\ pc' = "writing" /\ pc = "marking" /\ Msg = e /\ dedup' = dedup \cup {e}
          /\ UNCHANGED <<log, position, committed>>
      BY <1>6, <2>2 DEF Mark
    <3>2. WritesAccountedFor'
      BY <1>d, <3>1
    <3>3. MarkedAccounted'
      BY <1>b, <3>1 DEF AccountInv, MarkedAccounted, Msg
    <3>4. \A w \in Owed(e) : \/ <<e, w>> \in excused'
                             \/ w \in writing' \/ (w = "edges" /\ "nodes" \in writing')
      BY <1>6, <2>2 DEF Mark, Owed, Tasks, Excuse
    <3>5. OwedUnderWay'
      BY <3>1, <3>4 DEF OwedUnderWay, Msg
    <3> QED
      BY <3>2, <3>3, <3>5 DEF AccountInv
  <2> QED
    BY <2>1, <2>2
<1>7. ASSUME NEW w \in Write, WriteLands(w) PROVE AccountInv'
  <2>1. Msg \in stored'[w] /\ writing' = After(w) /\ pc = "writing"
    BY <1>7 DEF WriteLands, Apply, TypeOK
  <2>2. MarkedAccounted' /\ OwedUnderWay'
    BY <1>7, <1>f, <1>g, <2>1 DEF WriteLands, After
  <2> QED
    BY <1>7, <1>d, <2>2 DEF WriteLands, AccountInv
<1>8. ASSUME VectorSkips PROVE AccountInv'
  <2>1. <<Msg, "vector">> \in excused' /\ writing' = writing \ {"vector"}
    BY <1>8 DEF VectorSkips, Excuse
  <2>2. MarkedAccounted' /\ OwedUnderWay'
    BY <1>8, <1>f, <1>g, <2>1 DEF VectorSkips
  <2> QED
    BY <1>8, <1>d, <2>2 DEF VectorSkips, AccountInv
<1>9. ASSUME Gather PROVE AccountInv'
  <2>1. Msg \in Event /\ Accounted(Msg)
    BY <1>9, <1>c DEF Gather, AccountInv, OwedUnderWay, Accounted, Msg
  <2> DEFINE e == Msg
  <2>2. /\ UNCHANGED <<log, position, committed, dedup, stored, excused>>
        /\ pc = "writing" /\ pc' # "writing"
    BY <1>9 DEF Gather
  <2>3. e \in Event /\ Msg = e /\ Accounted(e)
    BY <2>1
  <2> HIDE DEF e
  <2>4. WritesAccountedFor'
    BY <1>b, <1>e, <2>2, <2>3
  <2>5. MarkedAccounted' /\ OwedUnderWay'
    BY <1>a, <1>b, <2>2, <2>3, NoneWriting DEF AccountInv, MarkedAccounted
  <2> QED
    BY <2>4, <2>5 DEF AccountInv
<1>10. ASSUME Commit \/ CommitFails PROVE AccountInv'
  <2>1. WritesAccountedFor'
    BY <1>10, <1>a, <1>c, NoneLeft DEF Commit, CommitFails, LeftBehind
  <2>2. MarkedAccounted' /\ OwedUnderWay'
    BY <1>10, <1>a, NoneWriting DEF Commit, CommitFails
  <2> QED
    BY <2>1, <2>2 DEF AccountInv
<1>11. ASSUME NEW e \in Event, MarkFails(e) PROVE AccountInv'
  <2>1. /\ pc = "marking" /\ pc' = "idle" /\ Msg = e /\ dedup' \subseteq dedup \cup {e}
        /\ UNCHANGED <<log, position, committed>>
    BY <1>11 DEF MarkFails
  <2>2. Accounted(e)'
    BY <1>11 DEF MarkFails, Excuse, Accounted, Owed
  <2>3. WritesAccountedFor'
    BY <1>e, <2>1, <2>2
  <2>4. MarkedAccounted' /\ OwedUnderWay'
    BY <1>a, <2>1, <2>2, NoneWriting
  <2> QED
    BY <2>3, <2>4 DEF AccountInv
<1>12. ASSUME NEW w \in Write, WriteFails(w) PROVE AccountInv'
  <2>1. /\ <<Msg, w>> \in excused' /\ (w = "nodes" => <<Msg, "edges">> \in excused')
        /\ writing' = writing \ {w}
    BY <1>12 DEF WriteFails, Excuse
  <2>2. MarkedAccounted' /\ OwedUnderWay'
    BY <1>12, <1>f, <1>g, <2>1 DEF WriteFails
  <2> QED
    BY <1>12, <1>d, <2>2 DEF WriteFails, AccountInv
<1>13. ASSUME Crash PROVE AccountInv'
  <2>1. WritesAccountedFor'
    BY <1>13, <1>d DEF Crash
  <2>2. ASSUME NEW e \in dedup, pc = "writing", Msg = e PROVE Accounted(e)'
    <3>1. excused' = excused \cup {<<e, w>> : w \in writing \cup UNION {After(w) : w \in writing}}
      BY <1>13, <2>2 DEF Crash, Excuse
    <3>2. "nodes" \in writing => "edges" \in UNION {After(w) : w \in writing}
      BY DEF After
    <3> QED
      BY <1>g, <2>2, <3>1, <3>2 DEF Accounted
  <2>3. MarkedAccounted' /\ OwedUnderWay'
    BY <1>13, <1>a, <2>2, NoneWriting DEF Crash
  <2> QED
    BY <2>1, <2>3 DEF AccountInv
<1>14. ASSUME ReceiveBreaks PROVE AccountInv'
  <2>1. WritesAccountedFor'
    BY <1>14, <1>d DEF ReceiveBreaks
  <2>2. MarkedAccounted' /\ OwedUnderWay'
    BY <1>14, <1>a, NoneWriting DEF ReceiveBreaks
  <2> QED
    BY <2>1, <2>2 DEF AccountInv
<1>15. CASE UNCHANGED vars
  BY <1>15, <1>d, <1>f, <1>g DEF vars, AccountInv
<1> QED
  BY <1>1, <1>2, <1>3, <1>4, <1>5, <1>6, <1>7, <1>8, <1>9, <1>10, <1>11, <1>12, <1>13, <1>14, <1>15
     DEF Next, RouterAction, Failure

(* Whatever fails, crashes or is published twice, every write owed for an event
   that was left behind has been made, or a fault hit that write, or the code
   declined it: no failure of one layer or message takes a write of another
   (memory/router.py:99-107, 119-124, 163-174). *)
THEOREM NoWriteIsForgotten == Spec => []WritesAccountedFor
<1>1. Init => AccountInv
  BY DEF Init, AccountInv, MarkedAccounted, OwedUnderWay, WritesAccountedFor
<1>2. AccountInv => WritesAccountedFor
  BY DEF AccountInv
<1> QED
  BY <1>1, <1>2, AccountStep, RouterTypeCorrect, PTL DEF Spec
================================================================================
