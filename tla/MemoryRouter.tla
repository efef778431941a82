------------------------------ MODULE MemoryRouter ------------------------------
(***************************************************************************)
(* MemoryRouter (memory/router.py): one consumer of cognitive.events that  *)
(* fans every event out to the memory layers and commits its offset by     *)
(* hand.  The deduplication key in Redis is set before the writes, and     *)
(* commit() commits the position of the consumer, not the message that     *)
(* has just been routed.                                                   *)
(*                                                                         *)
(* An action is a stretch of run() from one await to the next.  A request  *)
(* that is under way when the process dies takes effect or does not, as    *)
(* if it had been answered, or not, just before.                           *)
(***************************************************************************)
EXTENDS Naturals, Sequences

CONSTANTS Event,      \* event ids
          NoId,       \* a message without an event_id
          Garbled,    \* a message that is no JSON object
          Urgent,     \* events of severity high or critical
          Notable,    \* events of a severity above low, when events are embedded
          Linked,     \* events that name entities, two or more of them
          MaxLog,     \* bound on the length of the topic
          MaxFaults   \* bound on failed requests and crashes

ASSUME EventsAssumption ==
  /\ NoId \notin Event /\ Garbled \notin Event /\ Garbled # NoId
  /\ Urgent \subseteq Event /\ Notable \subseteq Event /\ Linked \subseteq Event

ASSUME RouterBounds == MaxLog \in Nat /\ MaxFaults \in Nat

Message == Event \cup {NoId, Garbled}

(* The writes of the layers.  The semantic layer makes two, in turn: the
   entity nodes, then the edges between them. *)
Write == {"episodic", "procedural", "working", "nodes", "edges", "vector"}

RouterState == {"down", "idle", "marking", "writing", "committing"}

VARIABLES
  log,           \* the topic
  committed,     \* the offset committed for the group: messages 1..committed
  position,      \* the messages this consumer has been given: 1..position
  pc,            \* where run() is; its message is log[position]
  dedup,         \* event ids whose dedup key is in Redis
  writing,       \* writes of the message under way
  raised,        \* whether one of them has raised
  stored,        \* the events each write has been made for
  strengthened,  \* how often each event has strengthened its edges
  model,         \* whether the embedding model is loaded
  expired,       \* events whose dedup key has expired
  excused,       \* <<e, w>>: write w of e not made, or perhaps not, for a cause
  faults         \* faults so far

vars == <<log, committed, position, pc, dedup, writing, raised, stored, strengthened,
          model, expired, excused, faults>>

TypeOK ==
  /\ log \in Seq(Message) /\ Len(log) <= MaxLog
  /\ committed \in 0..position /\ position \in 0..Len(log)
  /\ pc \in RouterState
  /\ pc \in {"marking", "writing"} => position > 0 /\ log[position] \in Event
  /\ dedup \subseteq Event
  /\ writing \subseteq Write /\ (pc # "writing" => writing = {})
  /\ raised \in BOOLEAN
  /\ stored \in [Write -> SUBSET Event]
  /\ strengthened \in [Event -> Nat]
  /\ model \in BOOLEAN
  /\ expired \subseteq Event
  /\ excused \subseteq Event \X Write
  /\ faults \in 0..MaxFaults

Init ==
  /\ log = <<>> /\ committed = 0 /\ position = 0
  /\ pc = "down"
  /\ dedup = {} /\ writing = {} /\ raised = FALSE
  /\ stored = [w \in Write |-> {}]
  /\ strengthened = [e \in Event |-> 0]
  /\ model = FALSE
  /\ expired = {} /\ excused = {} /\ faults = 0

-------------------------------------------------------------------------------
(* Around the router: anybody appends, a producer's retry repeats an event,
   keys expire after a day, which no routing lasts, and somebody starts the
   process. *)

Publish(m) ==
  /\ Len(log) < MaxLog
  /\ log' = Append(log, m)
  /\ UNCHANGED <<committed, position, pc, dedup, writing, raised, stored, strengthened,
                 model, expired, excused, faults>>

DedupExpires(e) ==
  /\ e \in dedup
  /\ ~(pc = "writing" /\ log[position] = e)
  /\ dedup' = dedup \ {e}
  /\ expired' = expired \cup {e}
  /\ UNCHANGED <<log, committed, position, pc, writing, raised, stored, strengthened,
                 model, excused, faults>>

(* Mutant: every consumer begins at the earliest message. *)
StartAtEarliest ==
  /\ pc = "down"
  /\ pc' = "idle"
  /\ position' = 0
  /\ UNCHANGED <<log, committed, dedup, writing, raised, stored, strengthened, model,
                 expired, excused, faults>>

(* The consumer begins where the group has committed. *)
Start ==
  /\ pc = "down"
  /\ pc' = "idle"
  /\ position' = committed
  /\ UNCHANGED <<log, committed, dedup, writing, raised, stored, strengthened, model,
                 expired, excused, faults>>

(* In the background, and perhaps never. *)
LoadModel ==
  /\ pc # "down" /\ ~model
  /\ model' = TRUE
  /\ UNCHANGED <<log, committed, position, pc, dedup, writing, raised, stored,
                 strengthened, expired, excused, faults>>

-------------------------------------------------------------------------------
(* run() and _route() *)

Msg == log[position]

(* An event without an id is not routed, but its offset is committed. *)
Receive ==
  /\ pc = "idle" /\ position < Len(log)
  /\ log[position + 1] # Garbled
  /\ position' = position + 1
  /\ pc' = IF log[position + 1] = NoId THEN "committing" ELSE "marking"
  /\ UNCHANGED <<log, committed, dedup, writing, raised, stored, strengthened, model,
                 expired, excused, faults>>

(* Bytes that are not JSON raise in the deserializer, outside the try of the
   loop; other JSON than an object has no get(), for _route() nor for the
   handler that would log its failure.  Either way run() ends, everything is
   stopped, and nothing has been committed: a new start meets the message
   again. *)
ReceiveBreaks ==
  /\ pc = "idle" /\ position < Len(log)
  /\ log[position + 1] = Garbled
  /\ pc' = "down"
  /\ model' = FALSE
  /\ UNCHANGED <<log, committed, position, dedup, writing, raised, stored, strengthened,
                 expired, excused, faults>>

(* What is to be written of e, and the part of it that is begun at once. *)
Owed(e) ==
  {"episodic", "procedural"}
    \cup (IF e \in Urgent  THEN {"working"} ELSE {})
    \cup (IF e \in Linked  THEN {"nodes", "edges"} ELSE {})
    \cup (IF e \in Notable THEN {"vector"} ELSE {})

Tasks(e, stale) == Owed(e) \ ({"edges"} \cup (IF stale THEN {"working"} ELSE {}))

Excuse(e, W) == excused' = excused \cup {<<e, w>> : w \in W}

(* Mutant: the reply of SET NX is not looked at. *)
MarkAnyway(e) ==
  /\ pc = "marking" /\ Msg = e
  /\ \E stale \in BOOLEAN :
       /\ pc' = "writing"
       /\ dedup' = dedup \cup {e}
       /\ writing' = Tasks(e, stale)
       /\ Excuse(e, IF stale THEN {"working"} ELSE {})
  /\ UNCHANGED <<log, committed, position, raised, stored, strengthened, model,
                 expired, faults>>

(* SET NX: a duplicate is dropped and committed.  An event 120 s old is kept
   out of the working memory. *)
Mark(e) ==
  /\ pc = "marking" /\ Msg = e
  /\ \/ /\ e \in dedup
        /\ pc' = "committing"
        /\ UNCHANGED <<dedup, writing, excused>>
     \/ /\ e \notin dedup
        /\ pc' = "writing"
        /\ dedup' = dedup \cup {e}
        /\ \E stale \in BOOLEAN :
             /\ writing' = Tasks(e, stale)
             /\ Excuse(e, IF stale THEN {"working"} ELSE {})
  /\ UNCHANGED <<log, committed, position, raised, stored, strengthened, model,
                 expired, faults>>

(* What is under way once w has been made. *)
After(w) == (writing \ {w}) \cup (IF w = "nodes" THEN {"edges"} ELSE {})

Apply(e, w) ==
  /\ stored' = [stored EXCEPT ![w] = @ \cup {e}]
  /\ strengthened' = IF w = "edges" THEN [strengthened EXCEPT ![e] = @ + 1]
                                    ELSE strengthened

WriteLands(w) ==
  /\ w \in writing
  /\ w = "vector" => model
  /\ Apply(Msg, w)
  /\ writing' = After(w)
  /\ UNCHANGED <<log, committed, position, pc, dedup, raised, model, expired, excused,
                 faults>>

(* Without its model the vector layer returns as if it had stored. *)
VectorSkips ==
  /\ "vector" \in writing /\ ~model
  /\ writing' = writing \ {"vector"}
  /\ Excuse(Msg, {"vector"})
  /\ UNCHANGED <<log, committed, position, pc, dedup, raised, stored, strengthened, model,
                 expired, faults>>

(* Mutant: run() does not go on behind a message that failed. *)
GatherStuckOnException ==
  /\ pc = "writing" /\ writing = {} /\ ~raised
  /\ pc' = "committing"
  /\ UNCHANGED <<log, committed, position, dedup, writing, raised, stored, strengthened,
                 model, expired, excused, faults>>

(* gather has every result.  An exception keeps run() from the commit, and
   the next message is taken. *)
Gather ==
  /\ pc = "writing" /\ writing = {}
  /\ raised' = FALSE
  /\ pc' = IF raised THEN "idle" ELSE "committing"
  /\ UNCHANGED <<log, committed, position, dedup, writing, stored, strengthened, model,
                 expired, excused, faults>>

(* The position also covers the messages before this one that failed. *)
Commit ==
  /\ pc = "committing"
  /\ committed' = position
  /\ pc' = "idle"
  /\ UNCHANGED <<log, position, dedup, writing, raised, stored, strengthened, model,
                 expired, excused, faults>>

-------------------------------------------------------------------------------
(* Failures.  A request that fails may have taken effect. *)

Fault == faults < MaxFaults /\ faults' = faults + 1

MarkFails(e) ==
  /\ pc = "marking" /\ Msg = e
  /\ Fault
  /\ dedup' \in {dedup, dedup \cup {e}}
  /\ pc' = "idle"
  /\ Excuse(e, Owed(e))
  /\ UNCHANGED <<log, committed, position, writing, raised, stored, strengthened, model,
                 expired>>

(* Mutant: an exception of one layer stops the others. *)
WriteFailsStoppingOthers(w) ==
  /\ w \in writing
  /\ Fault
  /\ UNCHANGED <<stored, strengthened>>
  /\ writing' = {}
  /\ raised' = TRUE
  /\ Excuse(Msg, {w} \cup (IF w = "nodes" THEN {"edges"} ELSE {}))
  /\ UNCHANGED <<log, committed, position, pc, dedup, model, expired>>

WriteFails(w) ==
  /\ w \in writing
  /\ Fault
  /\ \/ Apply(Msg, w)
     \/ UNCHANGED <<stored, strengthened>>
  /\ writing' = writing \ {w}
  /\ raised' = TRUE
  /\ Excuse(Msg, {w} \cup (IF w = "nodes" THEN {"edges"} ELSE {}))
  /\ UNCHANGED <<log, committed, position, pc, dedup, model, expired>>

CommitFails ==
  /\ pc = "committing"
  /\ Fault
  /\ committed' \in {committed, position}
  /\ pc' = "idle"
  /\ UNCHANGED <<log, position, dedup, writing, raised, stored, strengthened, model,
                 expired, excused>>

Crash ==
  /\ pc # "down"
  /\ Fault
  /\ pc' = "down"
  /\ writing' = {} /\ raised' = FALSE /\ model' = FALSE
  /\ IF pc = "writing"
     THEN Excuse(Msg, writing \cup UNION {After(w) : w \in writing})
     ELSE UNCHANGED excused
  /\ UNCHANGED <<log, committed, position, dedup, stored, strengthened, expired>>

-------------------------------------------------------------------------------
RouterAction ==
  \/ Receive
  \/ ReceiveBreaks
  \/ \E e \in Event : Mark(e)
  \/ \E w \in Write : WriteLands(w)
  \/ VectorSkips
  \/ Gather
  \/ Commit

Failure ==
  \/ \E e \in Event : MarkFails(e)
  \/ \E w \in Write : WriteFails(w)
  \/ CommitFails
  \/ Crash

Next ==
  \/ \E m \in Message : Publish(m)
  \/ \E e \in Event : DedupExpires(e)
  \/ Start
  \/ LoadModel
  \/ RouterAction
  \/ Failure

Spec == Init /\ [][Next]_vars

(* While the process lives its event loop goes on, and the stores and the
   broker answer or fail.  Nothing restarts it (memory/consumer.py:29). *)
FairSpec == Spec /\ WF_vars(RouterAction)

-------------------------------------------------------------------------------
(* Properties *)

(* The consumer, or the group it would start from, has left message i behind. *)
LeftBehind(i) ==
  \/ i <= committed
  \/ i < position
  \/ i = position /\ pc \in {"idle", "committing"}

(* Every write owed for an event that has been left behind has been made, or
   a fault hit that very write, or the code declined it (a stale event, a
   model not loaded).  So a layer that fails takes no other layer with it, a
   message that fails takes no other message, and the offsets, which can skip
   messages, skip none that nobody looked at (router.py:99-107, 119-124,
   163-174). *)
WritesAccountedFor ==
  \A i \in DOMAIN log : log[i] \in Event /\ LeftBehind(i) =>
    \A w \in Owed(log[i]) : log[i] \in stored[w] \/ <<log[i], w>> \in excused

(* However often an event is published or delivered again, by a producer or
   after a crash, it strengthens its edges at most once while its dedup key
   lives: the only write that is not idempotent (router.py:119-124,
   semantic.py:65-72). *)
StrengthenedOnce == \A e \in Event \ expired : strengthened[e] <= 1

(* No message up to i is one that ends run(). *)
Reachable(i) == Len(log) >= i /\ \A j \in 1..i : log[j] # Garbled

(* Every message of the topic is taken in the end, unless the process is dead,
   whatever failed for the messages before it: no event blocks the ones behind
   it, with a dedup key that fails, a layer that fails or a commit that fails
   (router.py:99-107).  Only a message that is no JSON object does: it ends
   run() at every start, and nothing is promised of what lies behind it. *)
Drains == \A i \in 1..MaxLog : Reachable(i) ~> position >= i \/ pc = "down"

(* router.py:6, "Manual offset commits — no event is lost": an event whose
   offset is committed is in the episodic memory, "Always write, no
   exceptions" (router.py:128). *)
NoEventLost ==
  \A i \in 1..committed : log[i] \in Event => log[i] \in stored["episodic"]
================================================================================
