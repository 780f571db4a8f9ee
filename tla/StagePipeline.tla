----------------------------- MODULE StagePipeline -----------------------------
(***************************************************************************)
(* Control messages on their way through the actors of a Ray pipeline: the *)
(* processing loops of source, stage and sink actors, the bounded queues   *)
(* between them, replicas that are added and stopped, and the queue flush  *)
(* (pause the sources, wait for a drain, rewire to new queues, resume).    *)
(*                                                                         *)
(* The stages form a chain 0..Last: 0 is the message broker source, Last   *)
(* the sink; edge e joins stage e to stage e + 1.  A flush replaces every  *)
(* queue, so a queue is an edge and a generation.  A loop runs in a thread *)
(* of its actor, beside the actor's remote methods.                        *)
(***************************************************************************)
EXTENDS Integers, FiniteSets, Sequences

CONSTANTS
  Jobs,       \* messages the broker hands out
  Last,       \* index of the sink stage
  Replicas,   \* actors
  StageOf,    \* the stage of each actor
  AtStart,    \* the actors the build creates; the others are added by scaling up
  Capacity,   \* queue_size of every edge
  MaxFlushes, \* bound: flushes that get as far as creating new queues
  MaxRaises,  \* bound: calls of put() that end in an exception
  NoJob

Stages  == 0..Last
Edges   == 0..Last - 1
Sources == {a \in Replicas : StageOf[a] = 0}
Queues  == Edges \X (0..MaxFlushes)

ASSUME PipelineAssumption ==
  /\ Last \in Nat \ {0}
  /\ StageOf \in [Replicas -> Stages]
  /\ AtStart \subseteq Replicas
  /\ Capacity \in Nat \ {0}
  /\ MaxFlushes \in Nat
  /\ MaxRaises \in Nat
  /\ IsFiniteSet(Replicas)
  /\ NoJob \notin Jobs

VARIABLES
  broker,     \* jobs waiting in the broker's task queue
  queue,      \* contents of every queue
  loop,       \* where the processing loop of each actor is
  hand,       \* its local control_message
  using,      \* generation of the queue its running get or put was called on
  active,     \* _active_processing
  running,    \* _running
  complete,   \* _shutdown_signal_complete
  paused,     \* ~ _pause_event.is_set()
  wired,      \* generation of the queues each actor uses, for <<actor, "in" | "out">>
  members,    \* actors in the topology
  pending,    \* actors pending removal
  scaling,    \* the scaling thread is inside a cycle
  edges,      \* generation of the topology's edge queues
  flush,      \* where _execute_queue_flush is
  snapshot,   \* the actors it knows
  newest,     \* generation of the newest queues created
  calls,      \* <<port, generation>>: its set_..._queue calls not executed yet
  unread,     \* what the statistics collector has still to read
  inflight,   \* what it has counted so far
  raised,     \* calls of put() that ended in an exception
  repeated,   \* history: how often each job was put again although a queue had it
  ends,       \* history: how often each job was delivered, failed or got lost
  late        \* history: messages each source put since it acknowledged its pause

putVars     == <<raised, repeated, late>>
flowVars    == <<broker, queue, loop, hand, using, active, ends, putVars>>
collectVars == <<unread, inflight>>
flushVars   == <<edges, flush, snapshot, newest, calls, collectVars>>
replicaVars == <<running, complete, paused, wired, members, pending, scaling>>
placeVars   == <<running, paused, wired, members, pending, scaling>>
vars == <<flowVars, replicaVars, flushVars>>

InQueue(a)  == <<StageOf[a] - 1, using[a]>>
OutQueue(a) == <<StageOf[a], using[a]>>
Ports == Replicas \X {"in", "out"}

\* The ports of an actor that are wired to a queue.
PortsOf(a) == (IF StageOf[a] > 0 THEN {<<a, "in">>} ELSE {})
                \union (IF StageOf[a] < Last THEN {<<a, "out">>} ELSE {})

-----------------------------------------------------------------------------
Init ==
  /\ broker = Jobs
  /\ queue = [q \in Queues |-> <<>>]
  /\ loop = [a \in Replicas |-> IF a \in AtStart THEN "head" ELSE "off"]
  /\ hand = [a \in Replicas |-> NoJob]
  /\ using = [a \in Replicas |-> 0]
  /\ active = [a \in Replicas |-> FALSE]
  /\ running = [a \in Replicas |-> a \in AtStart]
  /\ complete = [a \in Replicas |-> FALSE]
  /\ paused = [a \in Replicas |-> FALSE]
  /\ wired = [p \in Ports |-> 0]
  /\ members = AtStart
  /\ pending = {}
  /\ scaling = FALSE
  /\ edges = 0
  /\ flush = "off"
  /\ snapshot = {}
  /\ newest = 0
  /\ calls = {}
  /\ unread = {}
  /\ inflight = 0
  /\ raised = 0
  /\ repeated = [j \in Jobs |-> 0]
  /\ ends = [j \in Jobs |-> 0]
  /\ late = [a \in Replicas |-> {}]

-----------------------------------------------------------------------------
(* The processing loop of actor a. *)

At(a, here) == loop[a] = here
Goto(a, there) == loop' = [loop EXCEPT ![a] = there]
Take(a, j) == hand' = [hand EXCEPT ![a] = j]
Busy(a, b) == active' = [active EXCEPT ![a] = b]
Use(a, g)  == using' = [using EXCEPT ![a] = g]
Ends(j)    == ends' = [ends EXCEPT ![j] = @ + 1]

\* Mutant: every stage signals completion at the end of each turn, as the source does.
EndTurn_Complete(a) ==
  /\ Goto(a, "head")
  /\ Take(a, NoJob)
  /\ Use(a, 0)
  /\ Busy(a, FALSE)
  /\ complete' = [complete EXCEPT ![a] = TRUE]

\* The finally clause of one turn: the message is released.  The source stage also
\* sets _shutdown_signal_complete here.
EndTurn(a) ==
  /\ Goto(a, "head")
  /\ Take(a, NoJob)
  /\ Use(a, 0)
  /\ Busy(a, FALSE)
  /\ complete' = IF a \in Sources THEN [complete EXCEPT ![a] = TRUE] ELSE complete

\* The head of the loop: _running is looked at, and _read_input calls the broker or
\* get() on the input queue of the moment.
BeginRead(a) ==
  /\ At(a, "head")
  /\ running[a]
  /\ Goto(a, "reading")
  /\ Use(a, wired[<<a, "in">>])
  /\ UNCHANGED <<broker, queue, hand, active, ends, putVars, replicaVars, flushVars>>

\* The source's _read_input: a message from the broker, which is dropped if it does not
\* validate, or an empty turn (no message or a failed fetch).
Fetch(a) ==
  /\ a \in Sources
  /\ At(a, "reading")
  /\ \/ \E j \in broker :
          /\ broker' = broker \ {j}
          /\ \/ /\ Take(a, j)
                /\ Goto(a, "fetched")
                /\ UNCHANGED <<using, active, complete, ends>>
             \/ Ends(j) /\ EndTurn(a)
     \/ EndTurn(a) /\ UNCHANGED <<broker, ends>>
  /\ UNCHANGED <<queue, putVars, placeVars, flushVars>>

\* A stage's _read_input: queue.get and ray.get of the reference it returned.  A lost
\* object is swallowed, and the message with it; an empty queue times out.
Get(a) ==
  /\ a \notin Sources
  /\ At(a, "reading")
  /\ \/ /\ queue[InQueue(a)] # <<>>
        /\ queue' = [queue EXCEPT ![InQueue(a)] = Tail(@)]
        /\ \/ /\ Take(a, Head(queue[InQueue(a)]))
              /\ Goto(a, "fetched")
              /\ UNCHANGED <<using, active, complete, ends>>
           \/ Ends(Head(queue[InQueue(a)])) /\ EndTurn(a)
     \/ /\ queue[InQueue(a)] = <<>>
        /\ EndTurn(a)
        /\ UNCHANGED <<queue, ends>>
  /\ UNCHANGED <<broker, putVars, placeVars, flushVars>>

\* _active_processing is set only now, after the message left its queue.
Activate(a) ==
  /\ At(a, "fetched")
  /\ Goto(a, "active")
  /\ Busy(a, TRUE)
  /\ UNCHANGED <<broker, queue, hand, using, ends, putVars, replicaVars, flushVars>>

\* Mutant: the source looks at the pause event without waiting for it.
CheckPause_NoWait(a) ==
  /\ a \in Sources
  /\ At(a, "active")
  /\ Goto(a, "putting")
  /\ UNCHANGED <<broker, queue, hand, using, active, ends, putVars, replicaVars, flushVars>>

\* The source looks at the pause event; a paused source is not active while it waits.
CheckPause(a) ==
  /\ a \in Sources
  /\ At(a, "active")
  /\ IF paused[a] THEN Goto(a, "waiting") /\ Busy(a, FALSE)
                  ELSE Goto(a, "putting") /\ UNCHANGED active
  /\ UNCHANGED <<broker, queue, hand, using, ends, putVars, replicaVars, flushVars>>

\* _pause_event.wait() returns; _active_processing is set a moment later.
PauseEnds(a) ==
  /\ At(a, "waiting")
  /\ ~paused[a]
  /\ Goto(a, "resumed")
  /\ UNCHANGED <<broker, queue, hand, using, active, ends, putVars, replicaVars, flushVars>>

Reactivate(a) ==
  /\ At(a, "resumed")
  /\ Goto(a, "putting")
  /\ Busy(a, TRUE)
  /\ UNCHANGED <<broker, queue, hand, using, ends, putVars, replicaVars, flushVars>>

\* on_data: a result for the next stage, a delivery by the sink, or an error (or no
\* result, or one that the object store does not take), which drops the message.
OnData(a) ==
  /\ a \notin Sources
  /\ At(a, "active")
  /\ \/ /\ StageOf[a] < Last
        /\ Goto(a, "putting")
        /\ UNCHANGED <<hand, using, active, complete, ends>>
     \/ Ends(hand[a]) /\ EndTurn(a)
  /\ UNCHANGED <<broker, queue, putVars, placeVars, flushVars>>

\* The object store does not take the source's message: it is dropped.
StoreFails(a) ==
  /\ a \in Sources
  /\ (At(a, "active") /\ ~paused[a]) \/ At(a, "resumed")
  /\ Ends(hand[a])
  /\ EndTurn(a)
  /\ UNCHANGED <<broker, queue, putVars, placeVars, flushVars>>

\* put() is called on the output queue of the moment, again after an exception.
BeginPut(a) ==
  /\ At(a, "putting")
  /\ Goto(a, "blocked")
  /\ Use(a, wired[<<a, "out">>])
  /\ UNCHANGED <<broker, queue, hand, active, ends, putVars, replicaVars, flushVars>>

\* The queue takes the object.
Accept(a) ==
  /\ Len(queue[OutQueue(a)]) < Capacity
  /\ queue' = [queue EXCEPT ![OutQueue(a)] = Append(@, hand[a])]
  /\ late' = IF paused[a] THEN [late EXCEPT ![a] = @ \union {hand[a]}] ELSE late

\* Mutant: the put succeeds but the turn goes on with the message.
Put_Again(a) ==
  /\ At(a, "blocked")
  /\ Accept(a)
  /\ Goto(a, "putting")
  /\ UNCHANGED <<broker, hand, using, active, raised, repeated, ends, replicaVars, flushVars>>

\* Mutant: the queue's bound is ignored.
Put_Unbounded(a) ==
  /\ At(a, "blocked")
  /\ queue' = [queue EXCEPT ![OutQueue(a)] = Append(@, hand[a])]
  /\ EndTurn(a)
  /\ UNCHANGED <<broker, ends, putVars, placeVars, flushVars>>

\* Mutant: a stopped actor gives up its put, and with it the message.
Put_OnlyRunning(a) ==
  /\ At(a, "blocked")
  /\ running[a]
  /\ Accept(a)
  /\ EndTurn(a)
  /\ UNCHANGED <<broker, raised, repeated, ends, placeVars, flushVars>>

\* It blocks until there is room, whether or not the actor was told to stop.
Put(a) ==
  /\ At(a, "blocked")
  /\ Accept(a)
  /\ EndTurn(a)
  /\ UNCHANGED <<broker, raised, repeated, ends, placeVars, flushVars>>

\* put() raises, whether or not the queue has taken the object: it is called again,
\* without a look at _running or at the pause event.
PutRaises(a) ==
  /\ At(a, "blocked")
  /\ raised < MaxRaises
  /\ raised' = raised + 1
  /\ \/ Accept(a) /\ repeated' = [repeated EXCEPT ![hand[a]] = @ + 1]
     \/ UNCHANGED <<queue, repeated, late>>
  /\ Goto(a, "putting")
  /\ UNCHANGED <<broker, hand, using, active, ends, replicaVars, flushVars>>

\* The loop finds _running cleared.  The source's loop says nothing more.
EndLoop(a) ==
  /\ At(a, "head")
  /\ ~running[a]
  /\ Goto(a, "ended")
  /\ complete' = IF a \in Sources THEN complete ELSE [complete EXCEPT ![a] = TRUE]
  /\ UNCHANGED <<broker, queue, hand, using, active, ends, putVars, placeVars, flushVars>>

-----------------------------------------------------------------------------
(* Scaling: see ReplicaScaling for which replicas, and when. *)

\* _perform_scaling_and_maintenance: no cycle begins while a flush is under way, but a
\* flush may begin inside a cycle.
BeginCycle ==
  /\ ~scaling
  /\ flush = "off"
  /\ scaling' = TRUE
  /\ UNCHANGED <<flowVars, running, complete, paused, wired, members, pending, flushVars>>

EndCycle ==
  /\ scaling
  /\ \A a \in Replicas : ~At(a, "new")
  /\ scaling' = FALSE
  /\ UNCHANGED <<flowVars, running, complete, paused, wired, members, pending, flushVars>>

\* _get_wiring_refs_for_actor: a new replica gets the topology's queues of the moment.
Wire(a) ==
  /\ scaling
  /\ At(a, "off")
  /\ Goto(a, "new")
  /\ wired' = [p \in Ports |-> IF p[1] = a THEN edges ELSE wired[p]]
  /\ UNCHANGED <<broker, queue, hand, using, active, ends, putVars, running, complete, paused,
                 members, pending, scaling, flushVars>>

\* Started, then added to the topology.
StartReplica(a) ==
  /\ At(a, "new")
  /\ Goto(a, "head")
  /\ running' = [running EXCEPT ![a] = TRUE]
  /\ members' = members \union {a}
  /\ UNCHANGED <<broker, queue, hand, using, active, ends, putVars, complete, paused, wired,
                 pending, scaling, flushVars>>

\* stop and mark_actor_for_removal, of a replica its stage can do without.
StopReplica(a) ==
  /\ scaling
  /\ a \in members \ pending
  /\ \E b \in members \ (pending \union {a}) : StageOf[b] = StageOf[a]
  /\ running' = [running EXCEPT ![a] = FALSE]
  /\ pending' = pending \union {a}
  /\ UNCHANGED <<flowVars, complete, paused, wired, members, scaling, flushVars>>

\* The cleanup thread drops the last reference to an actor that says it is done; Ray
\* then ends its process, whatever the loop still holds.
Forget(a) ==
  /\ a \in pending
  /\ complete[a]
  /\ pending' = pending \ {a}
  /\ members' = members \ {a}
  /\ Goto(a, "gone")
  /\ Take(a, NoJob)
  /\ Use(a, 0)
  /\ Busy(a, FALSE)
  /\ IF hand[a] = NoJob THEN UNCHANGED ends ELSE Ends(hand[a])
  /\ UNCHANGED <<broker, queue, putVars, running, complete, paused, wired, scaling, flushVars>>

-----------------------------------------------------------------------------
(* The queue flush. *)

\* _execute_queue_flush: snapshots, and the pause calls of the sources.
BeginFlush ==
  /\ flush = "off"
  /\ newest < MaxFlushes
  /\ flush' = "pausing"
  /\ snapshot' = members
  /\ UNCHANGED <<flowVars, replicaVars, edges, newest, calls, collectVars>>

Known == snapshot \intersect Sources

PauseSource(a) ==
  /\ flush = "pausing"
  /\ a \in Known
  /\ ~paused[a]
  /\ paused' = [paused EXCEPT ![a] = TRUE]
  /\ late' = [late EXCEPT ![a] = {}]
  /\ UNCHANGED <<broker, queue, loop, hand, using, active, ends, raised, repeated, running, complete, wired,
                 members, pending, scaling, flushVars>>

\* collect_stats_now: if anything is pending removal every stage counts as busy and no
\* actor is asked; otherwise all are, while the queue sizes are read one by one.
BeginCollect ==
  /\ \/ flush = "pausing" /\ \A a \in Known : paused[a]
     \/ flush = "polling"
  /\ flush' = "collecting"
  /\ unread' = Edges \union (IF pending = {} THEN members ELSE {})
  /\ inflight' = IF pending = {} THEN 0 ELSE Cardinality(Stages)
  /\ UNCHANGED <<flowVars, replicaVars, edges, snapshot, newest, calls>>

\* get_stats: an actor that is not running reports no activity, except the source.  No
\* answer makes the collection unsuccessful, which stands here as activity.
ReadActor(a) ==
  /\ flush = "collecting"
  /\ a \in unread
  /\ unread' = unread \ {a}
  /\ inflight' = inflight + (IF At(a, "gone") \/ (active[a] /\ (running[a] \/ a \in Sources))
                               THEN 1 ELSE 0)
  /\ UNCHANGED <<flowVars, replicaVars, edges, flush, snapshot, newest, calls>>

ReadQueue(e) ==
  /\ flush = "collecting"
  /\ e \in unread
  /\ \A d \in Edges \intersect unread : e <= d
  /\ unread' = unread \ {e}
  /\ inflight' = inflight + Len(queue[<<e, edges>>])
  /\ UNCHANGED <<flowVars, replicaVars, edges, flush, snapshot, newest, calls>>

\* _wait_for_pipeline_drain: nothing in flight ends the wait, otherwise it polls again
\* or gives up at its timeout.
EndCollect ==
  /\ flush = "collecting"
  /\ unread = {}
  /\ inflight' = 0
  /\ \/ inflight = 0 /\ flush' = "drained"
     \/ inflight > 0 /\ flush' \in {"polling", "resuming"}
  /\ UNCHANGED <<flowVars, replicaVars, edges, snapshot, newest, calls, unread>>

\* New queues are created and the calls that rewire the known actors are sent.
SendRewire ==
  /\ flush = "drained"
  /\ flush' = "rewiring"
  /\ newest' = newest + 1
  /\ calls' = calls \union ({p \in Ports : p \in PortsOf(p[1]) /\ p[1] \in snapshot} \X {newest + 1})
  /\ UNCHANGED <<flowVars, replicaVars, edges, snapshot, collectVars>>

\* set_input_queue or set_output_queue, executed by the actor in the order they were sent.
Rewire(p) ==
  \E g \in 1..newest :
    /\ <<p, g>> \in calls
    /\ \A h \in 1..g - 1 : <<p, h>> \notin calls
    /\ ~At(p[1], "gone")
    /\ calls' = calls \ {<<p, g>>}
    /\ wired' = [wired EXCEPT ![p] = g]
    /\ UNCHANGED <<flowVars, running, complete, paused, members, pending, scaling, edges,
                   flush, snapshot, newest, collectVars>>

\* The commit point, set_edge_queues; or a rewiring call that failed or took too long,
\* and the calls that were sent are not taken back.
EndRewire ==
  /\ flush = "rewiring"
  /\ \/ /\ \A p \in Ports : <<p, newest>> \notin calls
        /\ edges' = newest
     \/ UNCHANGED edges
  /\ flush' = "resuming"
  /\ UNCHANGED <<flowVars, replicaVars, snapshot, newest, calls, collectVars>>

\* Mutant: only a flush that committed resumes the sources.
ResumeSource_Committed(a) ==
  /\ flush = "resuming"
  /\ edges = newest
  /\ a \in Known
  /\ paused[a]
  /\ paused' = [paused EXCEPT ![a] = FALSE]
  /\ UNCHANGED <<flowVars, running, complete, wired, members, pending, scaling, flushVars>>

\* The finally clause resumes every source it paused.
ResumeSource(a) ==
  /\ flush = "resuming"
  /\ a \in Known
  /\ paused[a]
  /\ paused' = [paused EXCEPT ![a] = FALSE]
  /\ UNCHANGED <<flowVars, running, complete, wired, members, pending, scaling, flushVars>>

EndFlush ==
  /\ flush = "resuming"
  /\ \A a \in Known : ~paused[a]
  /\ flush' = "off"
  /\ snapshot' = {}
  /\ UNCHANGED <<flowVars, replicaVars, edges, newest, calls, collectVars>>

-----------------------------------------------------------------------------
Loop(a) ==
  \/ BeginRead(a) \/ Fetch(a) \/ Get(a) \/ Activate(a)
  \/ CheckPause(a) \/ PauseEnds(a) \/ Reactivate(a) \/ StoreFails(a)
  \/ OnData(a) \/ BeginPut(a) \/ Put(a) \/ PutRaises(a) \/ EndLoop(a)

Flush ==
  \/ \E a \in Replicas : PauseSource(a) \/ ReadActor(a) \/ ResumeSource(a)
  \/ \E e \in Edges : ReadQueue(e)
  \/ \E p \in Ports : Rewire(p)
  \/ BeginCollect \/ EndCollect \/ SendRewire \/ EndRewire \/ EndFlush

Next ==
  \/ \E a \in Replicas : Loop(a) \/ Wire(a) \/ StartReplica(a) \/ StopReplica(a) \/ Forget(a)
  \/ BeginCycle \/ EndCycle
  \/ BeginFlush \/ Flush

Spec == Init /\ [][Next]_vars

\* Loops are scheduled, the cleanup thread polls, and every wait of a flush has a
\* timeout.  Whether anything is scaled or flushed, or a message is fetched, is free.
Fairness ==
  /\ \A a \in Replicas : WF_vars(Loop(a)) /\ WF_vars(Forget(a))
  /\ WF_vars(Flush)

FairSpec == Spec /\ Fairness

-----------------------------------------------------------------------------
(* Properties. *)

LoopState == {"off", "new", "head", "reading", "fetched", "active", "waiting", "resumed",
              "putting", "blocked", "ended", "gone"}
FlushState == {"off", "pausing", "polling", "collecting", "drained", "rewiring", "resuming"}

\* The variables have their types, and no queue holds more than its maxsize.
TypeOK ==
  /\ broker \subseteq Jobs
  /\ queue \in [Queues -> Seq(Jobs)]
  /\ \A q \in Queues : Len(queue[q]) <= Capacity
  /\ loop \in [Replicas -> LoopState]
  /\ hand \in [Replicas -> Jobs \union {NoJob}]
  /\ using \in [Replicas -> 0..MaxFlushes]
  /\ {active, running, complete, paused} \subseteq [Replicas -> BOOLEAN]
  /\ wired \in [Ports -> 0..MaxFlushes]
  /\ members \subseteq Replicas /\ pending \subseteq members /\ scaling \in BOOLEAN
  /\ snapshot \subseteq Replicas
  /\ edges \in 0..newest /\ newest \in 0..MaxFlushes
  /\ flush \in FlushState
  /\ calls \subseteq Ports \X (1..MaxFlushes)
  /\ unread \subseteq Edges \union Replicas
  /\ inflight \in Nat
  /\ raised \in 0..MaxRaises /\ repeated \in [Jobs -> Nat]
  /\ ends \in [Jobs -> Nat]
  /\ late \in [Replicas -> SUBSET Jobs]

\* The slots of the queues that hold a job, and the actors that do.
Slots(j) == {s \in Queues \X (1..Capacity) :
               s[2] \in DOMAIN queue[s[1]] /\ queue[s[1]][s[2]] = j}
Holders(j) == {a \in Replicas : hand[a] = j}

\* A job has as many copies as its puts that raised after the queue had taken it make
\* it have, one if there was none, and each copy is in one place: the broker, a slot of
\* a queue, an actor, or its end.  So nothing but such a retry doubles a job, and
\* neither a stop nor the removal of a replica makes one vanish unaccounted.  (A queue
\* that a flush has replaced still counts, whether or not anyone reads it.)
CopiesAccounted ==
  \A j \in Jobs :
    (IF j \in broker THEN 1 ELSE 0)
      + Cardinality(Slots(j)) + Cardinality(Holders(j)) + ends[j] = 1 + repeated[j]

\* A stage or sink that is told to stop finishes the message it has before the topology
\* lets go of it: scaling down one of them loses nothing.
ScaleDownLosesNothing ==
  [][\A a \in (members \ members') \ Sources : hand[a] = NoJob]_vars

\* Once a source has acknowledged pause(), at most one more message, the one it was
\* already putting, leaves it before it is resumed, though a retry may repeat it.
AtMostOneLate == \A a \in Sources : Cardinality(late[a]) <= 1

\* Every job a source fetched comes to an end, with all its copies, through bounded
\* queues, slow stages, puts that are repeated and replicas that come and go.
JobsEnd == \A j \in Jobs : j \notin broker ~> ends[j] = 1 + repeated[j]

\* Replicas that are told to stop leave the topology, all of them, even with a full queue
\* before them (no actor is started twice, so every wave of stops comes to its end).
StoppedLeaves == pending # {} ~> pending = {}

\* Nobody waits for ever on a bounded queue: neither a job nor a replica told to stop.
FlowEnds == JobsEnd /\ StoppedLeaves

\* A flush that drains, aborts or fails while it rewires resumes the sources it paused.
SourcesResume == \A a \in Sources : paused[a] ~> ~paused[a]

=============================================================================
