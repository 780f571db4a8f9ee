-------------------------- MODULE StagePipelineProofs --------------------------
(***************************************************************************)
(* Proofs about StagePipeline, for every chain of stages, any number of    *)
(* jobs and replicas, every queue size, any number of flushes and of puts  *)
(* that raise: type correctness with the bound of the queues, that the     *)
(* copies of a job are where and as many as its repeated puts say          *)
(* (CopiesAccounted), that scaling down a stage loses nothing              *)
(* (ScaleDownLosesNothing), and that a paused source lets at most one more *)
(* message go (AtMostOneLate).                                             *)
(***************************************************************************)
EXTENDS StagePipeline, FiniteSetTheorems, FunctionTheorems, TLAPS

-----------------------------------------------------------------------------
(* Type correctness. *)

Carrying == {"fetched", "active", "waiting", "resumed", "putting", "blocked"}

\* Where an actor is in its turn says whether it holds a message.  Only sources wait for
\* a pause to end, and only actors with a stage after theirs put.
Carry ==
  /\ \A a \in Replicas : hand[a] # NoJob <=> loop[a] \in Carrying
  /\ \A a \in Replicas : loop[a] \in {"putting", "blocked"} => StageOf[a] < Last
  /\ \A a \in Replicas : loop[a] \in {"waiting", "resumed"} => a \in Sources

\* A flush that may still create queues has a generation left for them.
Room == flush \in {"pausing", "polling", "collecting", "drained"} => newest < MaxFlushes

\* The types of the variables the actors' loops change.
FlowTypes ==
  /\ broker \subseteq Jobs
  /\ queue \in [Queues -> Seq(Jobs)]
  /\ \A q \in Queues : Len(queue[q]) <= Capacity
  /\ loop \in [Replicas -> LoopState]
  /\ hand \in [Replicas -> Jobs \union {NoJob}]
  /\ using \in [Replicas -> 0..MaxFlushes]
  /\ active \in [Replicas -> BOOLEAN]
  /\ complete \in [Replicas -> BOOLEAN]
  /\ raised \in 0..MaxRaises /\ repeated \in [Jobs -> Nat]
  /\ ends \in [Jobs -> Nat]
  /\ late \in [Replicas -> SUBSET Jobs]

\* The types of the others.
ControlTypes ==
  /\ running \in [Replicas -> BOOLEAN] /\ paused \in [Replicas -> BOOLEAN]
  /\ wired \in [Ports -> 0..MaxFlushes]
  /\ members \subseteq Replicas /\ pending \subseteq members /\ scaling \in BOOLEAN
  /\ snapshot \subseteq Replicas
  /\ edges \in 0..newest /\ newest \in 0..MaxFlushes
  /\ flush \in FlushState
  /\ calls \subseteq Ports \X (1..MaxFlushes)
  /\ unread \subseteq Edges \union Replicas
  /\ inflight \in Nat

Flow == FlowTypes /\ ControlTypes /\ Carry /\ Room

LEMMA FlowImpliesTypeOK == Flow => TypeOK
BY DEF Flow, FlowTypes, ControlTypes, TypeOK

LEMMA Constants ==
  /\ Last \in Nat \ {0} /\ MaxFlushes \in Nat /\ Capacity \in Nat \ {0} /\ MaxRaises \in Nat
  /\ \A a \in Replicas : StageOf[a] \in 0..Last
  /\ AtStart \subseteq Replicas /\ Sources \subseteq Replicas
  /\ NoJob \notin Jobs
BY PipelineAssumption DEF Stages, Sources

\* The queues an actor's calls go to exist.
LEMMA QueuesOfActor ==
  ASSUME Flow, NEW a \in Replicas
  PROVE  /\ a \notin Sources => InQueue(a) \in Queues
         /\ loop[a] = "blocked" => OutQueue(a) \in Queues
<1>1. using[a] \in 0..MaxFlushes /\ StageOf[a] \in 0..Last
  BY Constants DEF Flow, FlowTypes
<1>2. a \notin Sources => StageOf[a] - 1 \in Edges
  BY <1>1, Constants DEF Sources, Edges
<1>3. loop[a] = "blocked" => StageOf[a] \in Edges
  BY <1>1, Constants DEF Flow, Carry, Edges
<1> QED
  BY <1>1, <1>2, <1>3 DEF InQueue, OutQueue, Queues

LEMMA InitFlow == Init => Flow
<1> SUFFICES ASSUME Init PROVE Flow
  OBVIOUS
<1>1. /\ active \in [Replicas -> BOOLEAN] /\ running \in [Replicas -> BOOLEAN]
      /\ complete \in [Replicas -> BOOLEAN] /\ paused \in [Replicas -> BOOLEAN]
  BY DEF Init
<1>2. queue \in [Queues -> Seq(Jobs)] /\ \A q \in Queues : Len(queue[q]) <= Capacity
  BY Constants DEF Init
<1>3. /\ loop \in [Replicas -> LoopState] /\ hand \in [Replicas -> Jobs \union {NoJob}]
      /\ ends \in [Jobs -> Nat] /\ repeated \in [Jobs -> Nat] /\ raised \in 0..MaxRaises
  BY Constants DEF Init, LoopState
<1>4. using \in [Replicas -> 0..MaxFlushes] /\ wired \in [Ports -> 0..MaxFlushes]
      /\ late \in [Replicas -> SUBSET Jobs] /\ edges \in 0..newest /\ newest \in 0..MaxFlushes
  BY Constants DEF Init
<1>5. FlowTypes /\ ControlTypes
  BY <1>1, <1>2, <1>3, <1>4, Constants DEF Init, FlowTypes, ControlTypes, FlushState
<1>6. Carry /\ Room
  BY Constants DEF Init, Carry, Room, Carrying
<1> QED
  BY <1>5, <1>6 DEF Flow

\* The actor's own variables, and what it holds where.
ActorTypes ==
  /\ loop \in [Replicas -> LoopState]
  /\ hand \in [Replicas -> Jobs \union {NoJob}]
  /\ using \in [Replicas -> 0..MaxFlushes]
  /\ active \in [Replicas -> BOOLEAN]
  /\ complete \in [Replicas -> BOOLEAN]
  /\ Carry

LEMMA TurnEnds ==
  ASSUME Flow, NEW a \in Replicas, EndTurn(a)
  PROVE  ActorTypes'
<1>1. ActorTypes
  BY DEF Flow, FlowTypes, ActorTypes
<1>2. /\ loop' = [loop EXCEPT ![a] = "head"] /\ hand' = [hand EXCEPT ![a] = NoJob]
      /\ using' = [using EXCEPT ![a] = 0] /\ active' = [active EXCEPT ![a] = FALSE]
      /\ complete' \in {complete, [complete EXCEPT ![a] = TRUE]}
  BY DEF EndTurn, Goto, Take, Use, Busy
<1>3. /\ loop' \in [Replicas -> LoopState] /\ hand' \in [Replicas -> Jobs \union {NoJob}]
      /\ using' \in [Replicas -> 0..MaxFlushes]
  BY <1>1, <1>2, Constants DEF ActorTypes, LoopState
<1>5. active' \in [Replicas -> BOOLEAN] /\ complete' \in [Replicas -> BOOLEAN]
  BY <1>1, <1>2 DEF ActorTypes
<1>4. Carry'
  BY <1>1, <1>2 DEF ActorTypes, Carry, Carrying
<1> QED
  BY <1>3, <1>4, <1>5 DEF ActorTypes

LEMMA MessageTaken ==
  ASSUME Flow, NEW a \in Replicas, NEW j \in Jobs, Take(a, j), Goto(a, "fetched"),
         UNCHANGED <<using, active, complete>>
  PROVE  ActorTypes'
<1>1. ActorTypes
  BY DEF Flow, FlowTypes, ActorTypes
<1>2. loop' = [loop EXCEPT ![a] = "fetched"] /\ hand' = [hand EXCEPT ![a] = j]
  BY DEF Goto, Take
<1>3. loop' \in [Replicas -> LoopState] /\ hand' \in [Replicas -> Jobs \union {NoJob}]
  BY <1>1, <1>2 DEF ActorTypes, LoopState
<1>4. Carry'
  BY <1>1, <1>2, Constants DEF ActorTypes, Carry, Carrying
<1> QED
  BY <1>1, <1>3, <1>4 DEF ActorTypes

\* What the queue and the histories are when a put has been accepted.
LEMMA Accepted ==
  ASSUME Flow, NEW a \in Replicas, loop[a] = "blocked", Accept(a)
  PROVE  /\ OutQueue(a) \in Queues /\ hand[a] \in Jobs
         /\ queue' \in [Queues -> Seq(Jobs)] /\ \A q \in Queues : Len(queue'[q]) <= Capacity
         /\ late' \in [Replicas -> SUBSET Jobs]
<1>0. FlowTypes /\ Carry
  BY DEF Flow
<1>1. OutQueue(a) \in Queues /\ hand[a] \in Jobs
  BY <1>0, QueuesOfActor DEF FlowTypes, Carry, Carrying
<1>2. queue[OutQueue(a)] \in Seq(Jobs) /\ Len(queue[OutQueue(a)]) < Capacity
  BY <1>0, <1>1 DEF Accept, FlowTypes
<1>3. /\ Append(queue[OutQueue(a)], hand[a]) \in Seq(Jobs)
      /\ Len(Append(queue[OutQueue(a)], hand[a])) <= Capacity
  BY <1>1, <1>2, Constants
<1>4. queue' = [queue EXCEPT ![OutQueue(a)] = Append(queue[OutQueue(a)], hand[a])]
  BY DEF Accept
<1>5. queue' \in [Queues -> Seq(Jobs)] /\ \A q \in Queues : Len(queue'[q]) <= Capacity
  BY <1>0, <1>1, <1>3, <1>4 DEF FlowTypes
<1>6. late' \in [Replicas -> SUBSET Jobs]
  <2>1. late \in [Replicas -> SUBSET Jobs] /\ late[a] \union {hand[a]} \in SUBSET Jobs
    BY <1>0, <1>1 DEF FlowTypes
  <2> QED
    BY <2>1 DEF Accept
<1> QED
  BY <1>1, <1>5, <1>6

LEMMA OneEnds ==
  ASSUME ends \in [Jobs -> Nat], NEW j \in Jobs, Ends(j)
  PROVE  /\ ends' \in [Jobs -> Nat] /\ ends'[j] = ends[j] + 1
         /\ \A k \in Jobs \ {j} : ends'[k] = ends[k]
BY DEF Ends

\* Steps of a loop, once it is known what becomes of the queues.
LEMMA LoopFlow ==
  ASSUME Flow, NEW a \in Replicas, Loop(a)
  PROVE  Flow'
<1>0. FlowTypes /\ ControlTypes /\ Carry /\ Room
  BY DEF Flow
<1>1. ControlTypes' /\ Room'
  <2>1. UNCHANGED <<placeVars, flushVars>>
    BY DEF Loop, BeginRead, Fetch, Get, Activate, CheckPause, PauseEnds, Reactivate, StoreFails,
           OnData, BeginPut, Put, PutRaises, EndLoop, replicaVars, placeVars
  <2> QED
    BY <1>0, <2>1 DEF ControlTypes, Room, placeVars, flushVars, collectVars
<1> USE DEF At, Goto, Take, Use, Busy, LoopState, Carrying
<1>2. CASE BeginRead(a)
  <2>1. wired[<<a, "in">>] \in 0..MaxFlushes
    BY <1>0 DEF ControlTypes, Ports
  <2> QED
    BY <1>0, <1>1, <1>2, <2>1 DEF BeginRead, FlowTypes, Carry, Flow, replicaVars, putVars
<1>3. CASE Fetch(a)
  <2>1. ActorTypes'
    <3>1. ASSUME NEW j \in broker, Take(a, j), Goto(a, "fetched"),
                 UNCHANGED <<using, active, complete>>
          PROVE  ActorTypes'
      BY <1>0, <3>1, MessageTaken DEF FlowTypes
    <3>2. ASSUME EndTurn(a) PROVE ActorTypes'
      BY <3>2, TurnEnds
    <3> HIDE DEF Take, Goto
    <3> QED
      BY <1>3, <3>1, <3>2 DEF Fetch
  <2>2. broker' \subseteq broker /\ UNCHANGED <<queue, putVars>>
        /\ (ends' = ends \/ \E j \in broker : Ends(j))
    BY <1>3 DEF Fetch
  <2>4. ends' \in [Jobs -> Nat]
    BY <1>0, <2>2, OneEnds DEF FlowTypes
  <2>3. FlowTypes' /\ Carry'
    BY <1>0, <2>1, <2>2, <2>4 DEF ActorTypes, FlowTypes, putVars
  <2> QED
    BY <1>1, <2>3 DEF Flow
<1>4. CASE Get(a)
  <2>0. InQueue(a) \in Queues
    BY <1>4, QueuesOfActor DEF Get
  <2>1. \/ queue' = queue
        \/ /\ queue[InQueue(a)] # <<>>
           /\ queue' = [queue EXCEPT ![InQueue(a)] = Tail(queue[InQueue(a)])]
    BY <1>4 DEF Get
  <2>2. queue' \in [Queues -> Seq(Jobs)] /\ \A q \in Queues : Len(queue'[q]) <= Capacity
    <3>1. queue[InQueue(a)] \in Seq(Jobs) /\ Len(queue[InQueue(a)]) <= Capacity
      BY <1>0, <2>0 DEF FlowTypes
    <3>2. queue[InQueue(a)] # <<>> =>
            /\ Tail(queue[InQueue(a)]) \in Seq(Jobs)
            /\ Len(Tail(queue[InQueue(a)])) <= Capacity
      BY <3>1, Constants
    <3> QED
      BY <1>0, <2>0, <2>1, <3>2 DEF FlowTypes
  <2>3. queue[InQueue(a)] # <<>> => Head(queue[InQueue(a)]) \in Jobs
    BY <1>0, <2>0 DEF FlowTypes
  <2>4. ActorTypes'
    <3>1. ASSUME NEW j \in Jobs, Take(a, j), Goto(a, "fetched"),
                 UNCHANGED <<using, active, complete>>
          PROVE  ActorTypes'
      BY <3>1, MessageTaken
    <3>2. ASSUME EndTurn(a) PROVE ActorTypes'
      BY <3>2, TurnEnds
    <3> HIDE DEF Take, Goto
    <3> QED
      BY <1>4, <2>3, <3>1, <3>2 DEF Get
  <2>5. UNCHANGED <<broker, putVars>> /\ (ends' = ends \/ \E j \in Jobs : Ends(j))
    BY <1>4, <2>3 DEF Get
  <2>7. ends' \in [Jobs -> Nat]
    BY <1>0, <2>5, OneEnds DEF FlowTypes
  <2>6. FlowTypes' /\ Carry'
    BY <1>0, <2>2, <2>4, <2>5, <2>7 DEF ActorTypes, FlowTypes, putVars
  <2> QED
    BY <1>1, <2>6 DEF Flow
<1>5. CASE Activate(a) \/ CheckPause(a) \/ PauseEnds(a) \/ Reactivate(a)
  <2>1. FlowTypes'
    BY <1>0, <1>5
    DEF Activate, CheckPause, PauseEnds, Reactivate, FlowTypes, replicaVars, putVars
  <2>2. /\ hand' = hand /\ loop[a] \in Carrying
        /\ \E there \in {"active", "waiting", "putting", "resumed"} :
             /\ loop' = [loop EXCEPT ![a] = there]
             /\ there # "active" => a \in Sources
    BY <1>0, <1>5 DEF Activate, CheckPause, PauseEnds, Reactivate, Carry
  <2>3. a \in Sources => StageOf[a] < Last
    BY Constants DEF Sources
  <2>4. Carry'
    BY <1>0, <2>2, <2>3 DEF FlowTypes, Carry
  <2> QED
    BY <1>1, <2>1, <2>4 DEF Flow
<1>6. CASE OnData(a)
  <2>1. hand[a] \in Jobs
    BY <1>0, <1>6 DEF OnData, FlowTypes, Carry
  <2>2. ActorTypes'
    <3>1. ASSUME EndTurn(a) PROVE ActorTypes'
      BY <3>1, TurnEnds
    <3>2. ASSUME StageOf[a] < Last, Goto(a, "putting"),
                 UNCHANGED <<hand, using, active, complete>>
          PROVE  ActorTypes'
      BY <1>0, <1>6, <3>2 DEF OnData, FlowTypes, ActorTypes, Carry
    <3> HIDE DEF Goto
    <3> QED
      BY <1>6, <3>1, <3>2 DEF OnData
  <2>3. UNCHANGED <<broker, queue, putVars>> /\ (ends' = ends \/ Ends(hand[a]))
    BY <1>6 DEF OnData
  <2>5. ends' \in [Jobs -> Nat]
    BY <1>0, <2>1, <2>3, OneEnds DEF FlowTypes
  <2>4. FlowTypes' /\ Carry'
    BY <1>0, <2>2, <2>3, <2>5 DEF ActorTypes, FlowTypes, putVars
  <2> QED
    BY <1>1, <2>4 DEF Flow
<1>7. CASE BeginPut(a)
  <2>1. wired[<<a, "out">>] \in 0..MaxFlushes
    BY <1>0 DEF ControlTypes, Ports
  <2> QED
    BY <1>0, <1>1, <1>7, <2>1 DEF BeginPut, FlowTypes, Carry, Flow, replicaVars, putVars
<1>8. CASE Put(a)
  <2>1. /\ queue' \in [Queues -> Seq(Jobs)] /\ \A q \in Queues : Len(queue'[q]) <= Capacity
        /\ late' \in [Replicas -> SUBSET Jobs]
    BY <1>8, Accepted DEF Put
  <2>2. ActorTypes'
    BY <1>8, TurnEnds DEF Put
  <2>3. UNCHANGED <<broker, ends, raised, repeated>>
    BY <1>8 DEF Put
  <2>4. FlowTypes' /\ Carry'
    BY <1>0, <2>1, <2>2, <2>3 DEF ActorTypes, FlowTypes
  <2> QED
    BY <1>1, <2>4 DEF Flow
<1>10. CASE PutRaises(a)
  <2>1. hand[a] \in Jobs /\ repeated[hand[a]] \in Nat
    BY <1>0, <1>10 DEF PutRaises, FlowTypes, Carry
  <2>2. /\ queue' \in [Queues -> Seq(Jobs)] /\ \A q \in Queues : Len(queue'[q]) <= Capacity
        /\ late' \in [Replicas -> SUBSET Jobs] /\ repeated' \in [Jobs -> Nat]
    <3>1. CASE Accept(a) /\ repeated' = [repeated EXCEPT ![hand[a]] = repeated[hand[a]] + 1]
      <4>1. repeated' \in [Jobs -> Nat]
        BY <1>0, <2>1, <3>1 DEF FlowTypes
      <4> QED
        BY <1>10, <3>1, <4>1, Accepted DEF PutRaises
    <3>2. CASE UNCHANGED <<queue, repeated, late>>
      BY <1>0, <3>2 DEF FlowTypes
    <3> QED
      BY <1>10, <3>1, <3>2 DEF PutRaises
  <2>3. raised' \in 0..MaxRaises
    BY <1>0, <1>10, Constants DEF PutRaises, FlowTypes
  <2>4. loop' = [loop EXCEPT ![a] = "putting"] /\ loop[a] = "blocked"
        /\ UNCHANGED <<broker, hand, using, active, ends, complete>>
    BY <1>10 DEF PutRaises, replicaVars
  <2>5. FlowTypes'
    BY <1>0, <2>2, <2>3, <2>4 DEF FlowTypes
  <2>6. Carry'
    BY <1>0, <2>4 DEF FlowTypes, Carry
  <2> QED
    BY <1>1, <2>5, <2>6 DEF Flow
<1>11. CASE StoreFails(a)
  <2>1. hand[a] \in Jobs
    BY <1>0, <1>11 DEF StoreFails, FlowTypes, Carry
  <2>2. ActorTypes'
    BY <1>11, TurnEnds DEF StoreFails
  <2>3. UNCHANGED <<broker, queue, putVars>> /\ ends' \in [Jobs -> Nat]
    BY <1>0, <1>11, <2>1, OneEnds DEF StoreFails, FlowTypes
  <2>4. FlowTypes' /\ Carry'
    BY <1>0, <2>2, <2>3 DEF ActorTypes, FlowTypes, putVars
  <2> QED
    BY <1>1, <2>4 DEF Flow
<1>9. CASE EndLoop(a)
  <2>1. FlowTypes'
    BY <1>0, <1>9 DEF EndLoop, FlowTypes, putVars
  <2>2. Carry'
    BY <1>0, <1>9 DEF EndLoop, FlowTypes, Carry
  <2> QED
    BY <1>1, <2>1, <2>2 DEF Flow
<1> QED
  BY <1>2, <1>3, <1>4, <1>5, <1>6, <1>7, <1>8, <1>9, <1>10, <1>11 DEF Loop

\* Every step keeps them.
LEMMA StepFlow == Flow /\ [Next]_vars => Flow'
<1> SUFFICES ASSUME Flow, [Next]_vars PROVE Flow'
  OBVIOUS
<1>0. FlowTypes /\ ControlTypes /\ Carry /\ Room
  BY DEF Flow
<1>f. ASSUME UNCHANGED flowVars, complete' = complete PROVE FlowTypes' /\ Carry'
  BY <1>0, <1>f DEF FlowTypes, Carry, flowVars, putVars
<1>1. ASSUME NEW a \in Replicas, Loop(a) PROVE Flow'
  BY <1>1, LoopFlow
<1>2. CASE BeginCycle \/ EndCycle
  BY <1>0, <1>2, <1>f DEF BeginCycle, EndCycle, ControlTypes, Room, Flow, flushVars, collectVars
<1>3. ASSUME NEW a \in Replicas, Wire(a) PROVE Flow'
  <2>1. FlowTypes' /\ Carry'
    BY <1>0, <1>3 DEF Wire, At, Goto, FlowTypes, Carry, LoopState, Carrying, putVars
  <2>2. wired' \in [Ports -> 0..MaxFlushes]
    <3>1. edges \in 0..MaxFlushes
      BY <1>0, Constants DEF ControlTypes
    <3> QED
      BY <1>0, <1>3, <3>1 DEF Wire, ControlTypes
  <2> QED
    BY <1>0, <1>3, <2>1, <2>2 DEF Wire, ControlTypes, Room, Flow, flushVars, collectVars
<1>4. ASSUME NEW a \in Replicas, StartReplica(a) PROVE Flow'
  <2>1. FlowTypes' /\ Carry'
    BY <1>0, <1>4 DEF StartReplica, At, Goto, FlowTypes, Carry, LoopState, Carrying, putVars
  <2>2. ControlTypes'
    BY <1>0, <1>4 DEF StartReplica, ControlTypes, flushVars, collectVars
  <2> QED
    BY <1>0, <1>4, <2>1, <2>2 DEF StartReplica, Room, Flow, flushVars
<1>5. ASSUME NEW a \in Replicas, StopReplica(a) PROVE Flow'
  <2>1. ControlTypes'
    BY <1>0, <1>5 DEF StopReplica, ControlTypes, flushVars, collectVars
  <2> QED
    BY <1>0, <1>5, <1>f, <2>1 DEF StopReplica, Room, Flow, flushVars
<1>6. ASSUME NEW a \in Replicas, Forget(a) PROVE Flow'
  <2>1. /\ loop' = [loop EXCEPT ![a] = "gone"] /\ hand' = [hand EXCEPT ![a] = NoJob]
        /\ using' = [using EXCEPT ![a] = 0] /\ active' = [active EXCEPT ![a] = FALSE]
        /\ UNCHANGED <<broker, queue, complete, putVars>>
        /\ IF hand[a] = NoJob THEN ends' = ends ELSE Ends(hand[a])
    BY <1>6 DEF Forget, Goto, Take, Use, Busy
  <2>2. loop' \in [Replicas -> LoopState] /\ hand' \in [Replicas -> Jobs \union {NoJob}]
        /\ using' \in [Replicas -> 0..MaxFlushes] /\ active' \in [Replicas -> BOOLEAN]
    BY <1>0, <2>1, Constants DEF FlowTypes, LoopState
  <2>3. ends' \in [Jobs -> Nat]
    <3>1. hand[a] \in Jobs \union {NoJob} /\ ends \in [Jobs -> Nat]
      BY <1>0 DEF FlowTypes
    <3> QED
      BY <2>1, <3>1, OneEnds
  <2>4. FlowTypes'
    BY <1>0, <2>1, <2>2, <2>3 DEF FlowTypes, putVars
  <2>5. Carry'
    BY <1>0, <2>1 DEF FlowTypes, Carry, Carrying
  <2>6. ControlTypes'
    BY <1>0, <1>6 DEF Forget, ControlTypes, flushVars, collectVars
  <2> QED
    BY <1>0, <1>6, <2>4, <2>5, <2>6 DEF Forget, Room, Flow, flushVars
<1>7. CASE BeginFlush
  BY <1>0, <1>7, <1>f, Constants
  DEF BeginFlush, ControlTypes, Room, Flow, FlushState, replicaVars, collectVars
<1>8. ASSUME NEW a \in Replicas, PauseSource(a) PROVE Flow'
  <2>1. late' = [late EXCEPT ![a] = {}] /\ paused' = [paused EXCEPT ![a] = TRUE]
        /\ UNCHANGED <<broker, queue, loop, hand, using, active, ends, raised, repeated, complete>>
    BY <1>8 DEF PauseSource
  <2>2. FlowTypes' /\ Carry'
    BY <1>0, <2>1 DEF FlowTypes, Carry
  <2>3. ControlTypes'
    BY <1>0, <1>8 DEF PauseSource, ControlTypes, flushVars, collectVars
  <2> QED
    BY <1>0, <1>8, <2>2, <2>3 DEF PauseSource, Room, Flow, flushVars
<1>9. CASE BeginCollect
  <2>1. Cardinality(Stages) \in Nat
    BY FS_Interval, FS_CardinalityType, Constants DEF Stages
  <2>2. ControlTypes'
    BY <1>0, <1>9, <2>1 DEF BeginCollect, ControlTypes, FlushState, replicaVars
  <2> QED
    BY <1>0, <1>9, <1>f, <2>2 DEF BeginCollect, Room, Flow, replicaVars
<1>10. ASSUME NEW a \in Replicas, ReadActor(a) PROVE Flow'
  <2>1. ControlTypes'
    BY <1>0, <1>10 DEF ReadActor, ControlTypes, replicaVars
  <2> QED
    BY <1>0, <1>10, <1>f, <2>1 DEF ReadActor, Room, Flow, replicaVars
<1>11. ASSUME NEW e \in Edges, ReadQueue(e) PROVE Flow'
  <2>1. Len(queue[<<e, edges>>]) \in Nat
    <3>1. <<e, edges>> \in Queues
      BY <1>0, Constants DEF ControlTypes, Queues
    <3> QED
      BY <1>0, <3>1 DEF FlowTypes
  <2>2. ControlTypes'
    BY <1>0, <1>11, <2>1 DEF ReadQueue, ControlTypes, replicaVars
  <2> QED
    BY <1>0, <1>11, <1>f, <2>2 DEF ReadQueue, Room, Flow, replicaVars
<1>12. CASE EndCollect
  <2>1. ControlTypes'
    BY <1>0, <1>12 DEF EndCollect, ControlTypes, FlushState, replicaVars
  <2> QED
    BY <1>0, <1>12, <1>f, <2>1 DEF EndCollect, Room, Flow, replicaVars
<1>13. CASE SendRewire
  <2>1. newest' = newest + 1 /\ newest' \in 1..MaxFlushes /\ edges \in 0..newest'
    BY <1>0, <1>13, Constants DEF SendRewire, ControlTypes, Room
  <2>2. calls' \subseteq Ports \X (1..MaxFlushes)
    BY <1>0, <1>13, <2>1 DEF SendRewire, ControlTypes
  <2>3. ControlTypes'
    BY <1>0, <1>13, <2>1, <2>2, Constants
    DEF SendRewire, ControlTypes, FlushState, replicaVars, collectVars
  <2> QED
    BY <1>0, <1>13, <1>f, <2>3 DEF SendRewire, Room, Flow, replicaVars
<1>14. ASSUME NEW p \in Ports, Rewire(p) PROVE Flow'
  <2>1. PICK g \in 1..newest : calls' \subseteq calls /\ wired' = [wired EXCEPT ![p] = g]
    BY <1>14 DEF Rewire
  <2>2. g \in 0..MaxFlushes
    BY <1>0, Constants DEF ControlTypes
  <2>3. UNCHANGED <<flowVars, running, complete, paused, members, pending, scaling, edges,
                    flush, snapshot, newest, collectVars>>
    BY <1>14 DEF Rewire
  <2>4. ControlTypes'
    BY <1>0, <2>1, <2>2, <2>3 DEF ControlTypes, collectVars
  <2> QED
    BY <1>0, <1>f, <2>3, <2>4 DEF Room, Flow
<1>15. CASE EndRewire
  <2>1. ControlTypes'
    BY <1>0, <1>15, Constants DEF EndRewire, ControlTypes, FlushState, replicaVars, collectVars
  <2> QED
    BY <1>0, <1>15, <1>f, <2>1 DEF EndRewire, Room, Flow, replicaVars
<1>16. ASSUME NEW a \in Replicas, ResumeSource(a) PROVE Flow'
  <2>1. ControlTypes'
    BY <1>0, <1>16 DEF ResumeSource, ControlTypes, flushVars, collectVars
  <2> QED
    BY <1>0, <1>16, <1>f, <2>1 DEF ResumeSource, Room, Flow, flushVars
<1>17. CASE EndFlush
  <2>1. ControlTypes'
    BY <1>0, <1>17 DEF EndFlush, ControlTypes, FlushState, replicaVars, collectVars
  <2> QED
    BY <1>0, <1>17, <1>f, <2>1 DEF EndFlush, Room, Flow, replicaVars
<1>18. CASE UNCHANGED vars
  BY <1>0, <1>18, <1>f
  DEF vars, ControlTypes, Room, Flow, flowVars, replicaVars, flushVars, collectVars
<1> QED
  BY <1>1, <1>2, <1>3, <1>4, <1>5, <1>6, <1>7, <1>8, <1>9, <1>10, <1>11, <1>12, <1>13,
     <1>14, <1>15, <1>16, <1>17, <1>18
  DEF Next, Flush

\* The variables of every reachable state have their types, and no queue ever holds more
\* than its maxsize.
THEOREM TypeCorrect == Spec => []TypeOK
BY InitFlow, StepFlow, FlowImpliesTypeOK, PTL DEF Spec

-----------------------------------------------------------------------------
(* The copies of a job. *)

\* The size of a set that differs from another in at most one element.
LEMMA OneApart ==
  ASSUME NEW S, IsFiniteSet(S), NEW T, NEW x, \A y : y # x => (y \in S <=> y \in T)
  PROVE  /\ IsFiniteSet(T) /\ Cardinality(S) \in Nat /\ Cardinality(T) \in Nat
         /\ (x \in S <=> x \in T) => Cardinality(T) = Cardinality(S)
         /\ x \notin S /\ x \in T => Cardinality(T) = Cardinality(S) + 1
         /\ x \in S /\ x \notin T => Cardinality(T) = Cardinality(S) - 1
<1>1. CASE x \in S <=> x \in T
  <2>1. S = T
    BY <1>1
  <2> QED
    BY <2>1, FS_CardinalityType
<1>2. CASE x \notin S /\ x \in T
  <2>1. T = S \cup {x}
    BY <1>2
  <2> QED
    BY <1>2, <2>1, FS_AddElement, FS_CardinalityType
<1>3. CASE x \in S /\ x \notin T
  <2>1. T = S \ {x}
    BY <1>3
  <2> QED
    BY <1>3, <2>1, FS_RemoveElement, FS_CardinalityType
<1> QED
  BY <1>1, <1>2, <1>3

LEMMA CopiesFinite ==
  ASSUME NEW j \in Jobs
  PROVE  /\ IsFiniteSet(Slots(j)) /\ Cardinality(Slots(j)) \in Nat
         /\ IsFiniteSet(Holders(j)) /\ Cardinality(Holders(j)) \in Nat
<1>1. IsFiniteSet(Queues)
  <2>1. IsFiniteSet(0..Last - 1) /\ IsFiniteSet(0..MaxFlushes)
    BY FS_Interval, Constants
  <2> QED
    BY <2>1, FS_Product DEF Queues, Edges
<1>2. IsFiniteSet(Queues \X (1..Capacity))
  <2>1. IsFiniteSet(1..Capacity)
    BY FS_Interval, Constants
  <2> QED
    BY <1>1, <2>1, FS_Product
<1>3. Slots(j) \subseteq Queues \X (1..Capacity) /\ Holders(j) \subseteq Replicas
  BY DEF Slots, Holders
<1>4. IsFiniteSet(Slots(j)) /\ IsFiniteSet(Holders(j))
  BY <1>2, <1>3, FS_Subset, PipelineAssumption
<1> QED
  BY <1>4, FS_CardinalityType

\* A put adds a slot for its message and moves no other.
LEMMA AppendSlots ==
  ASSUME Flow, NEW q \in Queues, NEW j \in Jobs, Len(queue[q]) < Capacity,
         queue' = [queue EXCEPT ![q] = Append(queue[q], j)]
  PROVE  /\ \A k \in Jobs \ {j} : Slots(k)' = Slots(k)
         /\ Slots(j)' = Slots(j) \union {<<q, Len(queue[q]) + 1>>}
<1>1. queue[q] \in Seq(Jobs) /\ Len(queue[q]) \in Nat /\ Capacity \in Nat
      /\ queue \in [Queues -> Seq(Jobs)]
  BY Constants DEF Flow, FlowTypes
<1>2. /\ \A r \in Queues \ {q} : queue'[r] = queue[r]
      /\ queue'[q] = Append(queue[q], j)
  BY <1>1
<1>3. /\ DOMAIN Append(queue[q], j) = 1..Len(queue[q]) + 1
      /\ DOMAIN queue[q] = 1..Len(queue[q])
      /\ \A i \in 1..Len(queue[q]) : Append(queue[q], j)[i] = queue[q][i]
      /\ Append(queue[q], j)[Len(queue[q]) + 1] = j
  BY <1>1
<1>4. ASSUME NEW k \in Jobs, NEW s \in Queues \X (1..Capacity)
      PROVE  s \in Slots(k)' <=> s \in Slots(k) \/ (k = j /\ s = <<q, Len(queue[q]) + 1>>)
  <2>1. CASE s[1] # q
    BY <1>2, <2>1 DEF Slots
  <2>2. CASE s[1] = q
    <3>1. s \in Slots(k)' <=> s[2] \in 1..Len(queue[q]) + 1 /\ Append(queue[q], j)[s[2]] = k
      BY <1>2, <1>3, <2>2 DEF Slots
    <3>2. s \in Slots(k) <=> s[2] \in 1..Len(queue[q]) /\ queue[q][s[2]] = k
      BY <1>3, <2>2 DEF Slots
    <3>3. s = <<q, s[2]>> /\ s[2] \in 1..Capacity
      BY <2>2
    <3>4. s[2] \in 1..Len(queue[q]) + 1
            <=> s[2] \in 1..Len(queue[q]) \/ s[2] = Len(queue[q]) + 1
      BY <1>1, <3>3
    <3> QED
      BY <1>1, <1>3, <3>1, <3>2, <3>3, <3>4
  <2> QED
    BY <2>1, <2>2
<1>5. <<q, Len(queue[q]) + 1>> \in Queues \X (1..Capacity)
  BY <1>1
<1>6. \A k \in Jobs : Slots(k)' \subseteq Queues \X (1..Capacity)
                     /\ Slots(k) \subseteq Queues \X (1..Capacity)
  BY DEF Slots
<1> QED
  BY <1>4, <1>5, <1>6

\* So a put adds one slot to those of its message.
LEMMA AppendCounts ==
  ASSUME Flow, NEW q \in Queues, NEW j \in Jobs, Len(queue[q]) < Capacity,
         queue' = [queue EXCEPT ![q] = Append(queue[q], j)], NEW k \in Jobs
  PROVE  /\ k = j => Cardinality(Slots(k))' = Cardinality(Slots(k)) + 1
         /\ k # j => Cardinality(Slots(k))' = Cardinality(Slots(k))
<1>1. /\ \A i \in Jobs \ {j} : Slots(i)' = Slots(i)
      /\ Slots(j)' = Slots(j) \union {<<q, Len(queue[q]) + 1>>}
  BY AppendSlots
<1>2. CASE k # j
  <2>1. Slots(k)' = Slots(k)
    BY <1>1, <1>2
  <2> QED
    BY <1>2, <2>1
<1>3. CASE k = j
  <2>1. <<q, Len(queue[q]) + 1>> \notin Slots(j)
    <3>1. Len(queue[q]) \in Nat /\ DOMAIN queue[q] = 1..Len(queue[q])
      BY DEF Flow, FlowTypes
    <3>2. Len(queue[q]) + 1 \notin DOMAIN queue[q]
      BY <3>1
    <3> QED
      BY <3>2 DEF Slots
  <2> QED
    BY <1>1, <1>3, <2>1, CopiesFinite, FS_AddElement
<1> QED
  BY <1>2, <1>3

\* A get takes the head of its queue; the messages behind it move up by one slot.
LEMMA TailSlots ==
  ASSUME Flow, NEW q \in Queues, queue[q] # <<>>,
         queue' = [queue EXCEPT ![q] = Tail(queue[q])], NEW k \in Jobs
  PROVE  /\ \A r \in Queues, i \in Nat :
              <<r, i>> \in Slots(k)' <=> <<r, IF r = q THEN i + 1 ELSE i>> \in Slots(k) /\ i > 0
         /\ <<q, 1>> \in Slots(k) <=> k = Head(queue[q])
<1>1. queue[q] \in Seq(Jobs) /\ Len(queue[q]) \in Nat \ {0} /\ Capacity \in Nat
      /\ queue \in [Queues -> Seq(Jobs)] /\ Len(queue[q]) <= Capacity
  BY Constants DEF Flow, FlowTypes
<1>2. /\ \A r \in Queues \ {q} : queue'[r] = queue[r]
      /\ queue'[q] = Tail(queue[q])
  BY <1>1
<1>3. /\ DOMAIN Tail(queue[q]) = 1..Len(queue[q]) - 1
      /\ DOMAIN queue[q] = 1..Len(queue[q])
      /\ \A i \in 1..Len(queue[q]) - 1 : Tail(queue[q])[i] = queue[q][i + 1]
      /\ Head(queue[q]) = queue[q][1]
  BY <1>1
<1>4. ASSUME NEW r \in Queues, NEW i \in Nat
      PROVE  <<r, i>> \in Slots(k)' <=> <<r, IF r = q THEN i + 1 ELSE i>> \in Slots(k) /\ i > 0
  <2>1. CASE r # q
    <3>1. queue'[r] = queue[r]
      BY <1>2, <2>1
    <3>2. <<r, i>> \in Slots(k) => i > 0
      BY DEF Slots
    <3> QED
      BY <2>1, <3>1, <3>2 DEF Slots
  <2>2. CASE r = q
    <3>1. <<q, i>> \in Slots(k)' <=>
            i \in 1..Capacity /\ i \in 1..Len(queue[q]) - 1 /\ Tail(queue[q])[i] = k
      BY <1>2, <1>3 DEF Slots
    <3>2. <<q, i + 1>> \in Slots(k) <=>
            i + 1 \in 1..Capacity /\ i + 1 \in 1..Len(queue[q]) /\ queue[q][i + 1] = k
      BY <1>3 DEF Slots
    <3>3. /\ i \in 1..Capacity /\ i \in 1..Len(queue[q]) - 1 <=>
               i + 1 \in 1..Capacity /\ i + 1 \in 1..Len(queue[q]) /\ i > 0
      BY <1>1
    <3> QED
      BY <1>3, <2>2, <3>1, <3>2, <3>3
  <2> QED
    BY <2>1, <2>2
<1>5. <<q, 1>> \in Slots(k) <=> k = Head(queue[q])
  BY <1>1, <1>3 DEF Slots
<1> QED
  BY <1>4, <1>5

\* So it takes one slot from those of the head.
LEMMA TailCounts ==
  ASSUME Flow, NEW q \in Queues, queue[q] # <<>>,
         queue' = [queue EXCEPT ![q] = Tail(queue[q])], NEW k \in Jobs
  PROVE  /\ k = Head(queue[q]) => Cardinality(Slots(k))' = Cardinality(Slots(k)) - 1
         /\ k # Head(queue[q]) => Cardinality(Slots(k))' = Cardinality(Slots(k))
<1>1. /\ \A r \in Queues, i \in Nat :
           <<r, i>> \in Slots(k)' <=> <<r, IF r = q THEN i + 1 ELSE i>> \in Slots(k) /\ i > 0
      /\ <<q, 1>> \in Slots(k) <=> k = Head(queue[q])
  BY TailSlots
<1>2. /\ \A s \in Slots(k) : s = <<s[1], s[2]>> /\ s[1] \in Queues /\ s[2] \in Nat /\ s[2] > 0
      /\ \A s \in Slots(k)' : s = <<s[1], s[2]>> /\ s[1] \in Queues /\ s[2] \in Nat /\ s[2] > 0
  BY Constants DEF Slots
<1> DEFINE S == Slots(k)'
           T == Slots(k) \ {<<q, 1>>}
           F == [s \in S |-> <<s[1], IF s[1] = q THEN s[2] + 1 ELSE s[2]>>]
<1>3. F \in [S -> T]
  <2> SUFFICES ASSUME NEW s \in S
               PROVE  <<s[1], IF s[1] = q THEN s[2] + 1 ELSE s[2]>> \in T
    OBVIOUS
  <2>1. s = <<s[1], s[2]>> /\ s[1] \in Queues /\ s[2] \in Nat /\ s[2] > 0
    BY <1>2
  <2>2. <<s[1], IF s[1] = q THEN s[2] + 1 ELSE s[2]>> \in Slots(k)
    BY <1>1, <2>1
  <2>3. <<s[1], IF s[1] = q THEN s[2] + 1 ELSE s[2]>> # <<q, 1>>
    BY <2>1
  <2> QED
    BY <2>2, <2>3
<1>4. \A s, t \in S : F[s] = F[t] => s = t
  <2> SUFFICES ASSUME NEW s \in S, NEW t \in S, F[s] = F[t] PROVE s = t
    OBVIOUS
  <2>1. /\ s = <<s[1], s[2]>> /\ s[2] \in Nat
        /\ t = <<t[1], t[2]>> /\ t[2] \in Nat
    BY <1>2
  <2>2. s[1] = t[1] /\ (IF s[1] = q THEN s[2] + 1 ELSE s[2]) = (IF t[1] = q THEN t[2] + 1 ELSE t[2])
    OBVIOUS
  <2> QED
    BY <2>1, <2>2
<1>5. \A t \in T : \E s \in S : F[s] = t
  <2> SUFFICES ASSUME NEW t \in T PROVE \E s \in S : F[s] = t
    OBVIOUS
  <2>1. t = <<t[1], t[2]>> /\ t[1] \in Queues /\ t[2] \in Nat /\ t[2] > 0 /\ t # <<q, 1>>
    BY <1>2
  <2>2. CASE t[1] # q
    <3>1. t \in S
      BY <1>1, <2>1, <2>2
    <3>2. F[t] = <<t[1], t[2]>>
      BY <2>2, <3>1
    <3> QED
      BY <2>1, <3>1, <3>2
  <2>3. CASE t[1] = q
    <3>1. t[2] - 1 \in Nat /\ t[2] - 1 > 0 /\ (t[2] - 1) + 1 = t[2]
      BY <2>1, <2>3
    <3>2. <<q, t[2] - 1>> \in S
      BY <1>1, <2>1, <2>3, <3>1
    <3>3. F[<<q, t[2] - 1>>] = <<q, t[2]>>
      BY <3>1, <3>2
    <3> QED
      BY <2>1, <2>3, <3>2, <3>3
  <2> QED
    BY <2>2, <2>3
<1>6. IsFiniteSet(Slots(k)) /\ Cardinality(Slots(k)) \in Nat
  BY CopiesFinite
<1>7. /\ IsFiniteSet(T)
      /\ <<q, 1>> \in Slots(k) => Cardinality(T) = Cardinality(Slots(k)) - 1
      /\ <<q, 1>> \notin Slots(k) => Cardinality(T) = Cardinality(Slots(k))
  <2>1. <<q, 1>> \notin T /\ \A y : y # <<q, 1>> => (y \in Slots(k) <=> y \in T)
    OBVIOUS
  <2> HIDE DEF T
  <2> QED
    BY <1>6, <2>1, OneApart
<1>8. Cardinality(S) = Cardinality(T)
  <2> HIDE DEF F, S, T
  <2>1. F \in Bijection(S, T)
    BY <1>3, <1>4, <1>5 DEF Bijection, Injection, Surjection, IsInjective
  <2>2. ExistsBijection(T, S)
    <3>1. ExistsBijection(S, T)
      BY <2>1 DEF ExistsBijection
    <3> QED
      BY <3>1, Fun_ExistsBijSymmetric
  <2> QED
    BY <1>7, <2>2, FS_Bijection
<1>9. Cardinality(Slots(k)') = Cardinality(T)
  BY <1>8
<1> HIDE DEF S, T, F
<1> QED
  BY <1>1, <1>6, <1>7, <1>9

\* An actor takes a message, or lets one go.
LEMMA HandTakes ==
  ASSUME Flow, NEW a \in Replicas, hand[a] = NoJob, NEW j \in Jobs,
         hand' = [hand EXCEPT ![a] = j], NEW k \in Jobs
  PROVE  /\ k = j => Cardinality(Holders(k))' = Cardinality(Holders(k)) + 1
         /\ k # j => Cardinality(Holders(k))' = Cardinality(Holders(k))
<1>1. hand \in [Replicas -> Jobs \union {NoJob}] /\ NoJob \notin Jobs
  BY Constants DEF Flow, FlowTypes
<1>2. /\ \A b : b # a => (b \in Holders(k) <=> b \in Holders(k)')
      /\ a \notin Holders(k) /\ (a \in Holders(k)' <=> k = j)
  BY <1>1 DEF Holders
<1> QED
  BY <1>2, CopiesFinite, OneApart

LEMMA HandLets ==
  ASSUME Flow, NEW a \in Replicas, NEW j \in Jobs, hand[a] = j,
         hand' = [hand EXCEPT ![a] = NoJob], NEW k \in Jobs
  PROVE  /\ k = j => Cardinality(Holders(k))' = Cardinality(Holders(k)) - 1
         /\ k # j => Cardinality(Holders(k))' = Cardinality(Holders(k))
<1>1. hand \in [Replicas -> Jobs \union {NoJob}] /\ NoJob \notin Jobs
  BY Constants DEF Flow, FlowTypes
<1>2. /\ \A b : b # a => (b \in Holders(k) <=> b \in Holders(k)')
      /\ a \notin Holders(k)' /\ (a \in Holders(k) <=> k = j)
  BY <1>1 DEF Holders
<1> QED
  BY <1>2, CopiesFinite, OneApart

\* The copies of a job that are somewhere.
Waiting(j) == IF j \in broker THEN 1 ELSE 0
Copies(j) == Waiting(j) + Cardinality(Slots(j)) + Cardinality(Holders(j)) + ends[j]

LEMMA CopiesDef == CopiesAccounted <=> \A j \in Jobs : Copies(j) = 1 + repeated[j]
BY DEF CopiesAccounted, Copies, Waiting

LEMMA CopiesNat ==
  ASSUME Flow, NEW k \in Jobs
  PROVE  /\ Waiting(k) \in Nat /\ ends[k] \in Nat /\ repeated[k] \in Nat
         /\ Cardinality(Slots(k)) \in Nat /\ Cardinality(Holders(k)) \in Nat
BY CopiesFinite DEF Flow, FlowTypes, Waiting

\* A step that leaves the places of a job alone.
LEMMA CopiesStay ==
  ASSUME NEW k \in Jobs, Copies(k) = 1 + repeated[k],
         UNCHANGED <<broker, queue, hand, ends, repeated>>
  PROVE  Copies(k)' = 1 + repeated'[k]
BY DEF Copies, Waiting, Slots, Holders

LEMMA FetchCopies ==
  ASSUME Flow, NEW a \in Replicas, Fetch(a), NEW k \in Jobs, Copies(k) = 1 + repeated[k]
  PROVE  Copies(k)' = 1 + repeated'[k]
<1>1. hand[a] = NoJob /\ UNCHANGED <<queue, repeated>>
  BY DEF Fetch, At, Flow, Carry, Carrying, putVars
<1>2. /\ broker \subseteq Jobs /\ hand \in [Replicas -> Jobs \union {NoJob}]
      /\ ends \in [Jobs -> Nat]
  BY DEF Flow, FlowTypes
<1>3. Slots(k)' = Slots(k)
  BY <1>1 DEF Slots
<1>4. EndTurn(a) => hand' = hand /\ Holders(k)' = Holders(k)
  BY <1>1, <1>2 DEF EndTurn, Take, Holders
<1>5. ASSUME NEW j \in broker, broker' = broker \ {j},
             \/ Take(a, j) /\ ends' = ends
             \/ Ends(j) /\ EndTurn(a)
      PROVE  Copies(k)' = 1 + repeated'[k]
  <2>1. j \in Jobs
    BY <1>2
  <2>2. (k = j => Waiting(k)' = Waiting(k) - 1) /\ (k # j => Waiting(k)' = Waiting(k))
    BY <1>5 DEF Waiting
  <2>3. CASE Take(a, j) /\ ends' = ends
    <3>1. /\ k = j => Cardinality(Holders(k))' = Cardinality(Holders(k)) + 1
          /\ k # j => Cardinality(Holders(k))' = Cardinality(Holders(k))
      BY <1>1, <2>1, <2>3, HandTakes DEF Take
    <3> QED
      BY <1>1, <1>3, <2>2, <2>3, <3>1, CopiesNat DEF Copies
  <2>4. CASE Ends(j) /\ EndTurn(a)
    <3>1. (k = j => ends'[k] = ends[k] + 1) /\ (k # j => ends'[k] = ends[k])
      BY <1>2, <2>1, <2>4, OneEnds
    <3> QED
      BY <1>1, <1>3, <1>4, <2>2, <2>4, <3>1, CopiesNat DEF Copies
  <2> QED
    BY <1>5, <2>3, <2>4
<1>6. CASE EndTurn(a) /\ UNCHANGED <<broker, ends>>
  BY <1>1, <1>4, <1>6, CopiesStay
<1> QED
  BY <1>5, <1>6 DEF Fetch

LEMMA GetCopies ==
  ASSUME Flow, NEW a \in Replicas, Get(a), NEW k \in Jobs, Copies(k) = 1 + repeated[k]
  PROVE  Copies(k)' = 1 + repeated'[k]
<1>1. hand[a] = NoJob /\ UNCHANGED <<broker, repeated>>
  BY DEF Get, At, Flow, Carry, Carrying, putVars
<1>2. PICK q \in Queues : q = InQueue(a)
  BY QueuesOfActor DEF Get
<1>3. hand \in [Replicas -> Jobs \union {NoJob}] /\ ends \in [Jobs -> Nat]
  BY DEF Flow, FlowTypes
<1>4. EndTurn(a) => hand' = hand /\ Holders(k)' = Holders(k)
  BY <1>1, <1>3 DEF EndTurn, Take, Holders
<1>5. Waiting(k)' = Waiting(k)
  BY <1>1 DEF Waiting
<1>6. ASSUME queue[q] # <<>>, queue' = [queue EXCEPT ![q] = Tail(queue[q])],
             NEW j, j = Head(queue[q]),
             \/ Take(a, j) /\ ends' = ends
             \/ Ends(j) /\ EndTurn(a)
      PROVE  Copies(k)' = 1 + repeated'[k]
  <2>1. j \in Jobs
    BY <1>6 DEF Flow, FlowTypes
  <2>2. /\ k = j => Cardinality(Slots(k))' = Cardinality(Slots(k)) - 1
        /\ k # j => Cardinality(Slots(k))' = Cardinality(Slots(k))
    BY <1>6, TailCounts
  <2>3. CASE Take(a, j) /\ ends' = ends
    <3>1. /\ k = j => Cardinality(Holders(k))' = Cardinality(Holders(k)) + 1
          /\ k # j => Cardinality(Holders(k))' = Cardinality(Holders(k))
      BY <1>1, <2>1, <2>3, HandTakes DEF Take
    <3> QED
      BY <1>1, <1>5, <2>2, <2>3, <3>1, CopiesNat DEF Copies
  <2>4. CASE Ends(j) /\ EndTurn(a)
    <3>1. (k = j => ends'[k] = ends[k] + 1) /\ (k # j => ends'[k] = ends[k])
      BY <1>3, <2>1, <2>4, OneEnds
    <3> QED
      BY <1>1, <1>4, <1>5, <2>2, <2>4, <3>1, CopiesNat DEF Copies
  <2> QED
    BY <1>6, <2>3, <2>4
<1>7. CASE EndTurn(a) /\ UNCHANGED <<queue, ends>>
  BY <1>1, <1>4, <1>7, CopiesStay
<1> QED
  BY <1>2, <1>6, <1>7 DEF Get

\* An actor whose message comes to its end, with its turn or with its own life.
LEMMA EndCopies ==
  ASSUME Flow, NEW a \in Replicas, hand[a] \in Jobs, Take(a, NoJob), Ends(hand[a]),
         UNCHANGED <<broker, queue, repeated>>, NEW k \in Jobs, Copies(k) = 1 + repeated[k]
  PROVE  Copies(k)' = 1 + repeated'[k]
<1>1. /\ k = hand[a] => Cardinality(Holders(k))' = Cardinality(Holders(k)) - 1
      /\ k # hand[a] => Cardinality(Holders(k))' = Cardinality(Holders(k))
  BY HandLets DEF Take
<1>2. Waiting(k)' = Waiting(k) /\ Slots(k)' = Slots(k)
  BY DEF Waiting, Slots
<1>3. /\ k = hand[a] => ends'[k] = ends[k] + 1
      /\ k # hand[a] => ends'[k] = ends[k]
  BY OneEnds DEF Flow, FlowTypes
<1> QED
  BY <1>1, <1>2, <1>3, CopiesNat DEF Copies

\* A put that returns moves the message from the actor to a slot; one that raises leaves
\* it with the actor, beside the slot if the queue has it.
LEMMA PutCopies ==
  ASSUME Flow, NEW a \in Replicas, Put(a) \/ PutRaises(a),
         NEW k \in Jobs, Copies(k) = 1 + repeated[k]
  PROVE  Copies(k)' = 1 + repeated'[k]
<1>1. /\ hand[a] \in Jobs /\ OutQueue(a) \in Queues
      /\ repeated \in [Jobs -> Nat]
  BY QueuesOfActor DEF Put, PutRaises, At, Flow, FlowTypes, Carry, Carrying
<1>2. UNCHANGED <<broker, ends>> /\ Waiting(k)' = Waiting(k)
  BY DEF Put, PutRaises, Waiting
<1>3. ASSUME Accept(a)
      PROVE  /\ k = hand[a] => Cardinality(Slots(k))' = Cardinality(Slots(k)) + 1
             /\ k # hand[a] => Cardinality(Slots(k))' = Cardinality(Slots(k))
  <2>1. /\ Len(queue[OutQueue(a)]) < Capacity
        /\ queue' = [queue EXCEPT ![OutQueue(a)] = Append(queue[OutQueue(a)], hand[a])]
    BY <1>3 DEF Accept
  <2> QED
    BY <1>1, <2>1, AppendCounts
<1>4. CASE Put(a)
  <2>1. Accept(a) /\ repeated' = repeated /\ hand' = [hand EXCEPT ![a] = NoJob]
    BY <1>4 DEF Put, EndTurn, Take
  <2>2. /\ k = hand[a] => Cardinality(Holders(k))' = Cardinality(Holders(k)) - 1
        /\ k # hand[a] => Cardinality(Holders(k))' = Cardinality(Holders(k))
    BY <1>1, <2>1, HandLets
  <2> QED
    BY <1>2, <1>3, <2>1, <2>2, CopiesNat DEF Copies
<1>5. CASE PutRaises(a)
  <2>1. hand' = hand /\ Holders(k)' = Holders(k)
    BY <1>5 DEF PutRaises, Holders
  <2>2. CASE Accept(a) /\ repeated' = [repeated EXCEPT ![hand[a]] = repeated[hand[a]] + 1]
    <3>1. /\ k = hand[a] => repeated'[k] = repeated[k] + 1
          /\ k # hand[a] => repeated'[k] = repeated[k]
      BY <1>1, <2>2
    <3> QED
      BY <1>2, <1>3, <2>1, <2>2, <3>1, CopiesNat DEF Copies
  <2>3. CASE UNCHANGED <<queue, repeated, late>>
    BY <1>2, <2>1, <2>3, CopiesStay
  <2> QED
    BY <1>5, <2>2, <2>3 DEF PutRaises
<1> QED
  BY <1>4, <1>5

LEMMA StepCopies == Flow /\ CopiesAccounted /\ [Next]_vars => CopiesAccounted'
<1> SUFFICES ASSUME Flow, CopiesAccounted, [Next]_vars, NEW k \in Jobs
             PROVE  Copies(k)' = 1 + repeated'[k]
  BY DEF CopiesAccounted, Copies, Waiting
<1>0. Copies(k) = 1 + repeated[k]
  BY CopiesDef
<1>1. ASSUME NEW a \in Replicas, Fetch(a) \/ Get(a) \/ Put(a) \/ PutRaises(a)
      PROVE  Copies(k)' = 1 + repeated'[k]
  BY <1>0, <1>1, FetchCopies, GetCopies, PutCopies
<1>2. ASSUME NEW a \in Replicas, OnData(a) \/ StoreFails(a)
      PROVE  Copies(k)' = 1 + repeated'[k]
  <2>1. hand[a] \in Jobs /\ UNCHANGED <<broker, queue, repeated>>
    BY <1>2 DEF OnData, StoreFails, At, Flow, FlowTypes, Carry, Carrying, putVars
  <2>2. CASE UNCHANGED <<hand, ends>>
    BY <1>0, <2>1, <2>2, CopiesStay
  <2>3. CASE EndTurn(a) /\ Ends(hand[a])
    BY <1>0, <2>1, <2>3, EndCopies DEF EndTurn
  <2> QED
    BY <1>2, <2>2, <2>3 DEF OnData, StoreFails
<1>3. ASSUME NEW a \in Replicas, Forget(a) PROVE Copies(k)' = 1 + repeated'[k]
  <2>1. Take(a, NoJob) /\ UNCHANGED <<broker, queue, repeated>>
    BY <1>3 DEF Forget, putVars
  <2>2. hand \in [Replicas -> Jobs \union {NoJob}]
    BY DEF Flow, FlowTypes
  <2>3. CASE hand[a] = NoJob
    <3>1. hand' = hand /\ ends' = ends
      BY <1>3, <2>1, <2>2, <2>3 DEF Forget, Take
    <3> QED
      BY <1>0, <2>1, <3>1, CopiesStay
  <2>4. CASE hand[a] # NoJob
    <3>1. hand[a] \in Jobs /\ Ends(hand[a])
      BY <1>3, <2>2, <2>4 DEF Forget
    <3> QED
      BY <1>0, <2>1, <3>1, EndCopies
  <2> QED
    BY <2>3, <2>4
<1>4. CASE UNCHANGED <<broker, queue, hand, ends, repeated>>
  BY <1>0, <1>4, CopiesStay
<1> QED
  BY <1>1, <1>2, <1>3, <1>4
  DEF Next, Loop, Flush, vars, flowVars, putVars, BeginRead, Activate, CheckPause, PauseEnds,
      Reactivate, BeginPut, EndLoop, Wire, StartReplica, StopReplica, BeginCycle, EndCycle,
      BeginFlush, PauseSource, ReadActor, ResumeSource, ReadQueue, Rewire, BeginCollect,
      EndCollect, SendRewire, EndRewire, EndFlush

\* A job has one copy, and one more for each of its puts that raised after the queue had
\* taken it; each copy is in the broker, in a slot of a queue, with an actor, or at its
\* end.  Whatever else is retried, scaled, stopped, forgotten, paused or rewired neither
\* doubles a job nor makes a copy vanish unaccounted.
THEOREM JobsKept == Spec => []CopiesAccounted
<1>1. Init => CopiesAccounted
  <2> SUFFICES ASSUME Init, NEW j \in Jobs PROVE Copies(j) = 1 + repeated[j]
    BY CopiesDef
  <2>1. Slots(j) = {} /\ Holders(j) = {}
    BY Constants DEF Init, Slots, Holders
  <2>2. Cardinality(Slots(j)) = 0 /\ Cardinality(Holders(j)) = 0
    BY <2>1, FS_EmptySet
  <2> QED
    BY <2>2 DEF Init, Copies, Waiting
<1>2. Flow /\ CopiesAccounted /\ [Next]_vars => (Flow /\ CopiesAccounted)'
  BY StepFlow, StepCopies
<1> QED
  BY <1>1, <1>2, InitFlow, PTL DEF Spec

-----------------------------------------------------------------------------
(* Scaling down a stage loses nothing. *)

\* Only the source says that it is done while it may still hold a message.
DoneAtEnd == \A a \in Replicas \ Sources : complete[a] => loop[a] \in {"ended", "gone"}

LEMMA StepDoneAtEnd == Flow /\ DoneAtEnd /\ [Next]_vars => DoneAtEnd'
<1> SUFFICES ASSUME Flow, DoneAtEnd, [Next]_vars PROVE DoneAtEnd'
  OBVIOUS
<1>0. loop \in [Replicas -> LoopState] /\ complete \in [Replicas -> BOOLEAN]
  BY DEF Flow, FlowTypes
<1>1. ASSUME NEW a \in Replicas, loop[a] \notin {"ended", "gone"},
             \E there : Goto(a, there),
             complete' = IF a \in Sources THEN [complete EXCEPT ![a] = TRUE] ELSE complete
      PROVE  DoneAtEnd'
  BY <1>0, <1>1 DEF Goto, DoneAtEnd
<1>2. ASSUME NEW a \in Replicas, loop[a] \notin {"ended", "gone"},
             \E there : Goto(a, there), complete' = complete
      PROVE  DoneAtEnd'
  BY <1>0, <1>2 DEF Goto, DoneAtEnd
<1>3. ASSUME NEW a \in Replicas, Loop(a) PROVE DoneAtEnd'
  <2>1. CASE EndLoop(a)
    BY <1>0, <2>1 DEF EndLoop, Goto, DoneAtEnd
  <2>2. CASE ~EndLoop(a)
    BY <1>1, <1>2, <1>3, <2>2
    DEF Loop, BeginRead, Fetch, Get, Activate, CheckPause, PauseEnds, Reactivate, StoreFails,
        OnData, BeginPut, Put, PutRaises, At, EndTurn, replicaVars
  <2> QED
    BY <2>1, <2>2
<1>4. ASSUME NEW a \in Replicas, Wire(a) \/ StartReplica(a) PROVE DoneAtEnd'
  BY <1>2, <1>4 DEF Wire, StartReplica, At
<1>5. ASSUME NEW a \in Replicas, Forget(a) PROVE DoneAtEnd'
  BY <1>0, <1>5 DEF Forget, Goto, DoneAtEnd
<1>6. CASE UNCHANGED <<loop, complete>>
  BY <1>6 DEF DoneAtEnd
<1> QED
  BY <1>3, <1>4, <1>5, <1>6
  DEF Next, Flush, vars, flowVars, replicaVars, StopReplica, BeginCycle, EndCycle,
      BeginFlush, PauseSource, ReadActor, ResumeSource, ReadQueue, Rewire, BeginCollect,
      EndCollect, SendRewire, EndRewire, EndFlush

\* A replica of a stage or of the sink leaves the topology with empty hands: its last
\* message was passed on, delivered or given up before it said that it was done.
THEOREM ScaleDownSafe == Spec => ScaleDownLosesNothing
<1>1. Init => DoneAtEnd
  BY DEF Init, DoneAtEnd
<1>2. Flow /\ DoneAtEnd /\ [Next]_vars => (Flow /\ DoneAtEnd)'
  BY StepFlow, StepDoneAtEnd
<1>3. Flow /\ DoneAtEnd /\ [Next]_vars =>
        [\A a \in (members \ members') \ Sources : hand[a] = NoJob]_vars
  <2> SUFFICES ASSUME Flow, DoneAtEnd, [Next]_vars, NEW a \in (members \ members') \ Sources
               PROVE  hand[a] = NoJob
    OBVIOUS
  <2>1. a \in Replicas
    BY DEF Flow, ControlTypes
  <2>2. Forget(a)
    BY DEF Next, Loop, Flush, vars, replicaVars, placeVars, BeginRead, Fetch, Get, Activate,
           CheckPause, PauseEnds, Reactivate, StoreFails, OnData, BeginPut, Put, PutRaises,
           EndLoop, Wire, StartReplica, StopReplica, Forget, BeginCycle, EndCycle, BeginFlush, PauseSource,
           ReadActor, ResumeSource, ReadQueue, Rewire, BeginCollect, EndCollect, SendRewire,
           EndRewire, EndFlush
  <2>3. loop[a] \in {"ended", "gone"}
    BY <2>1, <2>2 DEF Forget, DoneAtEnd
  <2> QED
    BY <2>1, <2>3 DEF Flow, Carry, Carrying
<1> QED
  BY <1>1, <1>2, <1>3, InitFlow, PTL DEF Spec, ScaleDownLosesNothing

-----------------------------------------------------------------------------
(* A paused source lets at most one message go. *)

\* What a paused source has put since it acknowledged the pause is one message, and the
\* only one it may still be putting: its next message stops at the pause event.
LateOnce ==
  \A a \in Sources :
    /\ \A j, k \in late[a] : j = k
    /\ paused[a] /\ loop[a] \in {"resumed", "putting", "blocked"} => late[a] \subseteq {hand[a]}

LEMMA StepLateOnce == Flow /\ LateOnce /\ [Next]_vars => LateOnce'
<1> SUFFICES ASSUME Flow, LateOnce, [Next]_vars PROVE LateOnce'
  OBVIOUS
<1>0. /\ loop \in [Replicas -> LoopState] /\ late \in [Replicas -> SUBSET Jobs]
      /\ hand \in [Replicas -> Jobs \union {NoJob}]
      /\ paused \in [Replicas -> BOOLEAN] /\ Sources \subseteq Replicas
  BY Constants DEF Flow, FlowTypes, ControlTypes
<1>1. ASSUME NEW a \in Replicas, UNCHANGED <<late, paused>>,
             NEW there, Goto(a, there), hand' = hand,
             there \in {"resumed", "putting", "blocked"} =>
               \/ ~paused[a] \/ loop[a] \in {"resumed", "putting", "blocked"}
               \/ a \notin Sources
      PROVE  LateOnce'
  BY <1>0, <1>1 DEF Goto, LateOnce
<1>2. ASSUME NEW a \in Replicas, UNCHANGED <<late, paused>>,
             NEW there \in LoopState \ {"resumed", "putting", "blocked"}, Goto(a, there),
             NEW j, Take(a, j)
      PROVE  LateOnce'
  <2>1. /\ loop'[a] = there /\ \A b \in Replicas \ {a} : loop'[b] = loop[b] /\ hand'[b] = hand[b]
    BY <1>0, <1>2 DEF Goto, Take
  <2> QED
    BY <1>0, <1>2, <2>1 DEF LateOnce
<1>3. ASSUME NEW a \in Replicas, Put(a) \/ PutRaises(a) PROVE LateOnce'
  <2>1. /\ paused' = paused /\ loop[a] = "blocked"
        /\ late' \in {late, [late EXCEPT ![a] = late[a] \union {hand[a]}]}
        /\ late' = late \/ paused[a]
    BY <1>3 DEF Put, PutRaises, Accept, At, placeVars, replicaVars
  <2>2. /\ \/ loop' = [loop EXCEPT ![a] = "head"]
           \/ loop' = [loop EXCEPT ![a] = "putting"] /\ hand' = hand
        /\ \A b \in Replicas \ {a} : hand'[b] = hand[b]
    BY <1>0, <1>3 DEF Put, PutRaises, EndTurn, Goto, Take
  <2>3. ASSUME NEW b \in Sources, b # a
        PROVE  /\ \A j, k \in late'[b] : j = k
               /\ paused'[b] /\ loop'[b] \in {"resumed", "putting", "blocked"}
                    => late'[b] \subseteq {hand'[b]}
    <3>1. late'[b] = late[b] /\ loop'[b] = loop[b] /\ hand'[b] = hand[b]
      BY <1>0, <2>1, <2>2, <2>3
    <3> QED
      BY <2>1, <3>1 DEF LateOnce
  <2>4. ASSUME a \in Sources
        PROVE  /\ \A j, k \in late'[a] : j = k
               /\ paused'[a] /\ loop'[a] \in {"resumed", "putting", "blocked"}
                    => late'[a] \subseteq {hand'[a]}
    <3>1. paused[a] => late'[a] \subseteq {hand[a]}
      BY <1>0, <2>1, <2>4 DEF LateOnce
    <3>2. \A j, k \in late'[a] : j = k
      BY <2>1, <2>4, <3>1 DEF LateOnce
    <3>3. loop'[a] = "head" \/ hand'[a] = hand[a]
      BY <1>0, <2>2
    <3> QED
      BY <2>1, <3>1, <3>2, <3>3
  <2> QED
    BY <2>3, <2>4 DEF LateOnce
<1>4. ASSUME NEW a \in Replicas, Fetch(a) \/ Get(a) \/ OnData(a) \/ StoreFails(a) PROVE LateOnce'
  <2>1. UNCHANGED <<late, paused>>
    BY <1>4 DEF Fetch, Get, OnData, StoreFails, putVars, placeVars
  <2>2. CASE EndTurn(a)
    BY <1>2, <2>1, <2>2 DEF EndTurn, LoopState
  <2>3. CASE Goto(a, "fetched") /\ \E j : Take(a, j)
    BY <1>2, <2>1, <2>3 DEF LoopState
  <2>4. CASE a \notin Sources /\ Goto(a, "putting") /\ hand' = hand
    BY <1>1, <2>1, <2>4
  <2> QED
    BY <1>4, <2>2, <2>3, <2>4 DEF Fetch, Get, OnData, StoreFails
<1>5. ASSUME NEW a \in Replicas,
             BeginRead(a) \/ Activate(a) \/ CheckPause(a) \/ PauseEnds(a) \/ Reactivate(a)
               \/ BeginPut(a) \/ EndLoop(a) \/ Wire(a) \/ StartReplica(a)
      PROVE  LateOnce'
  BY <1>1, <1>5
  DEF BeginRead, Activate, CheckPause, PauseEnds, Reactivate, BeginPut, EndLoop, Wire,
      StartReplica, At, putVars, replicaVars, placeVars
<1>6. ASSUME NEW a \in Replicas, Forget(a) PROVE LateOnce'
  BY <1>2, <1>6 DEF Forget, LoopState, putVars
<1>7. ASSUME NEW a \in Replicas, PauseSource(a) PROVE LateOnce'
  <2>1. /\ paused' = [paused EXCEPT ![a] = TRUE] /\ late' = [late EXCEPT ![a] = {}]
        /\ UNCHANGED <<loop, hand>>
    BY <1>7 DEF PauseSource
  <2> QED
    BY <1>0, <2>1 DEF LateOnce
<1>8. ASSUME NEW a \in Replicas, ResumeSource(a) PROVE LateOnce'
  <2>1. paused' = [paused EXCEPT ![a] = FALSE] /\ UNCHANGED <<late, loop, hand>>
    BY <1>8 DEF ResumeSource, flowVars, putVars
  <2> QED
    BY <1>0, <2>1 DEF LateOnce
<1>9. CASE UNCHANGED <<loop, late, paused, hand>>
  BY <1>9 DEF LateOnce
<1> QED
  BY <1>3, <1>4, <1>5, <1>6, <1>7, <1>8, <1>9
  DEF Next, Loop, Flush, vars, flowVars, putVars, replicaVars, StopReplica, BeginCycle, EndCycle,
      BeginFlush, ReadActor, ReadQueue, Rewire, BeginCollect, EndCollect, SendRewire,
      EndRewire, EndFlush

\* Between its acknowledgement of pause() and its resumption, a source puts at most the one
\* message it was already putting, once or, if its put is repeated, more than once: the queue
\* flush counts on no more than that.
THEOREM OneLateMessage == Spec => []AtMostOneLate
<1>1. Init => LateOnce
  BY Constants DEF Init, LateOnce
<1>2. Flow /\ LateOnce /\ [Next]_vars => (Flow /\ LateOnce)'
  BY StepFlow, StepLateOnce
<1>3. LateOnce => AtMostOneLate
  <2> SUFFICES ASSUME NEW a \in Sources, \A j, k \in late[a] : j = k
               PROVE  Cardinality(late[a]) <= 1
    BY DEF LateOnce, AtMostOneLate
  <2>1. CASE late[a] = {}
    BY <2>1, FS_EmptySet
  <2>2. CASE late[a] # {}
    <3>1. PICK j : late[a] = {j}
      BY <2>2
    <3>2. Cardinality(late[a]) = 1
      BY <3>1, FS_Singleton
    <3> QED
      BY <3>2
  <2> QED
    BY <2>1, <2>2
<1> QED
  BY <1>1, <1>2, <1>3, InitFlow, PTL DEF Spec

===============================================================================
