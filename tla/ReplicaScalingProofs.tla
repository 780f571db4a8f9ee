------------------------- MODULE ReplicaScalingProofs -------------------------
(***************************************************************************)
(* Proofs about ReplicaScaling, for every set of stages, all bounds and    *)
(* any number of actors: type correctness, that scaling down never stops a *)
(* replica its stage must keep (KeepsMinimum), that a stage never exceeds  *)
(* its maximum (AtMostMaximum), that no running replica is unknown to the  *)
(* pipeline (NoOrphan), and that an actor is forgotten only when it is done*)
(* (ForgottenOnlyWhenDone).                                                *)
(*                                                                         *)
(* Why KeepsMinimum holds: the MinReplicas[s] oldest replicas of a stage,  *)
(* its anchors, are never chosen by a scale-down.  _scale_stage counts     *)
(* every member of the stage's list, the ones already stopping included,   *)
(* and takes the excess over a target that is at least MinReplicas[s] from *)
(* the young end of the list.                                              *)
(***************************************************************************)
EXTENDS ReplicaScaling, DataFacts

-----------------------------------------------------------------------------
(* Facts about the operators of the model. *)

\* Least chooses the least member of a nonempty set of actors.
LEMMA LeastMember ==
  ASSUME NEW S \in SUBSET Actors, S # {}
  PROVE  /\ Least(S) \in S
         /\ \A b \in S : Least(S) <= b
<1>1. S \in SUBSET Nat
  BY DEF Actors
<1>2. \E x \in S : \A y \in S : x <= y
  BY <1>1, LeastNatural
<1> QED
  BY <1>2 DEF Least

\* Sets of actors are finite.
LEMMA ActorSetsAreFinite ==
  ASSUME NEW S \in SUBSET Actors
  PROVE  IsFiniteSet(S) /\ Cardinality(S) \in Nat
<1>1. IsFiniteSet(Actors)
  BY FS_Interval, ScalingAssumption DEF Actors
<1>2. IsFiniteSet(S)
  BY <1>1, FS_Subset
<1> QED
  BY <1>2, FS_CardinalityType

LEMMA IntervalCardinality ==
  ASSUME NEW c \in Nat, NEW m \in Nat
  PROVE  Cardinality(c + 1 .. c + m) = m
<1> DEFINE a == c + 1
           b == c + m
<1>1. a \in Int /\ b \in Int
  OBVIOUS
<1> HIDE DEF a, b
<1>2. Cardinality(a..b) = IF a > b THEN 0 ELSE b - a + 1
  BY <1>1, FS_Interval
<1> QED
  BY <1>2 DEF a, b

LEMMA BoundTypes ==
  /\ MaxActors \in Nat /\ MaxTarget \in Nat
  /\ \A s \in Stages : /\ MinReplicas[s] \in Nat /\ MaxReplicas[s] \in Nat /\ Initial[s] \in Nat
                      /\ MinReplicas[s] <= Initial[s] /\ Initial[s] <= MaxReplicas[s]
BY ScalingAssumption

\* The target of a stage is never below its minimum.
LEMMA ClampBounds ==
  ASSUME NEW s \in Stages, NEW n \in 0..MaxTarget
  PROVE  Clamp(s, n) \in Nat /\ Clamp(s, n) >= MinReplicas[s]
BY BoundTypes DEF Clamp

-----------------------------------------------------------------------------
(* Type correctness. *)

\* SetStatus assigns one of the actor states.
LEMMA StatusType ==
  ASSUME NEW S, NEW to \in {"unborn", "dead"} \union Alive, SetStatus(S, to),
         status \in [Actors -> {"unborn", "dead"} \union Alive]
  PROVE  status' \in [Actors -> {"unborn", "dead"} \union Alive]
BY DEF SetStatus

\* New actors are actors.
LEMMA FreshActors ==
  ASSUME created \in 0..MaxActors, NEW n \in Int, created + n <= MaxActors
  PROVE  Fresh(n) \subseteq Actors
BY ScalingAssumption DEF Fresh, Actors

LEMMA InitTypeOK == Init => TypeOK
<1> SUFFICES ASSUME Init PROVE TypeOK
  OBVIOUS
<1>1. created \in 0..MaxActors
  BY BoundTypes DEF Init
<1>2. status \in [Actors -> {"unborn", "dead"} \union Alive]
  BY DEF Init
<1>3. stage_actors \in [Stages -> SUBSET Actors] /\ todo \in [Stages -> SUBSET Actors]
  BY DEF Init
<1>4. plan \subseteq Stages \X (0..MaxTarget)
  BY DEF Init
<1> QED
  BY <1>1, <1>2, <1>3, <1>4 DEF Init, TypeOK

\* Every step keeps the types.
LEMMA StepTypeOK == TypeOK /\ [Next]_vars => TypeOK'
<1> SUFFICES ASSUME TypeOK, [Next]_vars PROVE TypeOK'
  OBVIOUS
<1> USE DEF workerVars, cleanerVars
<1>a. ASSUME NEW s \in Stages, BuildStage(s) PROVE TypeOK'
  <2> created \in 0..MaxActors /\ created' = created + Initial[s]
      /\ created + Initial[s] <= MaxActors /\ Initial[s] > 0 /\ Initial[s] \in Nat
    BY <1>a, BoundTypes DEF TypeOK, BuildStage
  <2>1. created' \in 0..MaxActors
    BY BoundTypes
  <2>2. Fresh(Initial[s]) \subseteq Actors
    BY FreshActors
  <2>3. status' \in [Actors -> {"unborn", "dead"} \union Alive]
    BY <1>a, StatusType DEF TypeOK, BuildStage, Alive
  <2> QED
    BY <1>a, <2>1, <2>2, <2>3 DEF TypeOK, BuildStage
<1>b. CASE Start
  BY <1>b, StatusType DEF TypeOK, Start, Alive
<1>c. CASE Stop
  BY <1>c DEF TypeOK, Stop
<1>d. CASE JoinScaling
  BY <1>d DEF TypeOK, JoinScaling
<1>e. CASE SignalAll
  <2>1. Members \subseteq Actors
    <3>1. \A s \in Stages : stage_actors[s] \subseteq Actors
      BY DEF TypeOK
    <3> QED
      BY <3>1 DEF Members
  <2>2. status' \in [Actors -> {"unborn", "dead"} \union Alive]
    BY <1>e, StatusType DEF TypeOK, SignalAll, Signal, Alive
  <2> QED
    BY <1>e, <2>1, <2>2 DEF TypeOK, SignalAll, Signal
<1>f. CASE ClearRuntimeState
  BY <1>f DEF TypeOK, ClearRuntimeState
<1>g. CASE BeginCycle
  <2>1. plan' \subseteq Stages \X (0..MaxTarget)
    <3>1. PICK targets \in [Stages -> 0..MaxTarget] : plan' = {<<s, targets[s]>> : s \in Stages}
      BY <1>g DEF TypeOK, BeginCycle
    <3> QED
      BY <3>1
  <2> QED
    BY <1>g, <2>1 DEF TypeOK, BeginCycle
<1>h. CASE EndCycle
  BY <1>h DEF TypeOK, EndCycle
<1>i. ASSUME NEW s \in Stages, NEW n \in 0..MaxTarget, AtTarget(s, n) PROVE TypeOK'
  BY <1>i DEF TypeOK, AtTarget
<1>j. ASSUME NEW s \in Stages, NEW n \in 0..MaxTarget, ScaleUp(s, n) PROVE TypeOK'
  <2> DEFINE missing == Clamp(s, n) - Cardinality(stage_actors[s])
  <2>1. missing \in Int
    <3>1. Cardinality(stage_actors[s]) \in Nat
      BY ActorSetsAreFinite DEF TypeOK
    <3>2. Clamp(s, n) \in Nat
      BY ClampBounds
    <3> QED
      BY <3>1, <3>2
  <2>2. CASE created' = created + missing /\ created + missing <= MaxActors
    <3>1. missing > 0
      BY <1>j DEF TypeOK, ScaleUp
    <3>0. created' \in 0..MaxActors
      <4>1. created \in 0..MaxActors
        BY DEF TypeOK
      <4> HIDE DEF missing
      <4> QED
        BY <2>1, <2>2, <3>1, <4>1, BoundTypes
    <3>2. Fresh(missing) \subseteq Actors
      BY <2>1, <2>2, FreshActors DEF TypeOK
    <3>3. status' \in [Actors -> {"unborn", "dead"} \union Alive]
      BY <1>j, StatusType DEF TypeOK, ScaleUp, Alive
    <3>4. todo' \in [Stages -> SUBSET Actors]
      <4>1. todo' = [todo EXCEPT ![s] = Fresh(missing)] \/ todo' = todo
        BY <1>j DEF ScaleUp
      <4> HIDE DEF missing
      <4> QED
        BY <3>2, <4>1 DEF TypeOK
    <3>5. worker' \in [Stages -> {"idle", "starting", "adding", "removing"}]
          /\ scaling_state' \in [Stages -> {"Idle", "Scaling Up", "Scaling Down", "Error"}]
          /\ plan' \subseteq Stages \X (0..MaxTarget)
      BY <1>j DEF TypeOK, ScaleUp
    <3> QED
      BY <1>j, <3>0, <3>3, <3>4, <3>5 DEF TypeOK, ScaleUp
  <2>3. CASE UNCHANGED <<created, status, worker, todo>>
    BY <1>j, <2>3 DEF TypeOK, ScaleUp
  <2> QED
    BY <1>j, <2>2, <2>3 DEF TypeOK, ScaleUp
<1>k. ASSUME NEW s \in Stages, NEW n \in 0..MaxTarget, ScaleDown(s, n) PROVE TypeOK'
  BY <1>k, ZenonT(40) DEF TypeOK, ScaleDown
<1>l. ASSUME NEW s \in Stages, StartReplicas(s) PROVE TypeOK'
  BY <1>l, StatusType DEF TypeOK, StartReplicas, Alive
<1>m. ASSUME NEW s \in Stages, KillReplicas(s) PROVE TypeOK'
  BY <1>m, StatusType DEF TypeOK, KillReplicas
<1>n. ASSUME NEW s \in Stages, AddActor(s) PROVE TypeOK'
  <2>1. Least(todo[s]) \in Actors
    BY <1>n, LeastMember DEF TypeOK, AddActor
  <2> QED
    BY <1>n, <2>1 DEF TypeOK, AddActor
<1>o. ASSUME NEW s \in Stages, FinishScaleUp(s) PROVE TypeOK'
  BY <1>o DEF TypeOK, FinishScaleUp
<1>p. ASSUME NEW s \in Stages, StopActor(s) PROVE TypeOK'
  <2>1. Least(todo[s]) \in Actors
    BY <1>p, LeastMember DEF TypeOK, StopActor
  <2>2. status' \in [Actors -> {"unborn", "dead"} \union Alive]
    BY <1>p, StatusType DEF TypeOK, StopActor, Signal, Alive
  <2> QED
    BY <1>p, <2>1, <2>2 DEF TypeOK, StopActor, Signal
<1>q. ASSUME NEW s \in Stages, FinishScaleDown(s) PROVE TypeOK'
  BY <1>q DEF TypeOK, FinishScaleDown
<1>r. CASE CleanupScan
  BY <1>r DEF TypeOK, CleanupScan
<1>s. ASSUME NEW a \in Actors, CleanupPoll(a) PROVE TypeOK'
  BY <1>s DEF TypeOK, CleanupPoll
<1>t. CASE CleanupRemove
  BY <1>t DEF TypeOK, CleanupRemove
<1>u. CASE CleanupStop
  BY <1>u DEF TypeOK, CleanupStop
<1>v. ASSUME NEW a \in Actors, ActorFinishes(a) PROVE TypeOK'
  BY <1>v, StatusType DEF TypeOK, ActorFinishes, Alive
<1>w. ASSUME NEW a \in Actors, ActorDies(a) PROVE TypeOK'
  BY <1>w, StatusType DEF TypeOK, ActorDies
<1>x. CASE UNCHANGED vars
  BY <1>x DEF TypeOK, vars
<1> QED
  BY <1>a, <1>b, <1>c, <1>d, <1>e, <1>f, <1>g, <1>h, <1>i, <1>j, <1>k, <1>l, <1>m, <1>n,
     <1>o, <1>p, <1>q, <1>r, <1>s, <1>t, <1>u, <1>v, <1>w, <1>x
  DEF Next, Main, Shutdown, Worker, Cleanup, Stopped

\* The variables of every reachable state have their types.
THEOREM TypeCorrect == Spec => []TypeOK
BY InitTypeOK, StepTypeOK, PTL DEF Spec

-----------------------------------------------------------------------------
(* The inductive invariant behind KeepsMinimum. *)

Claimed(s) == stage_actors[s] \union todo[s]

\* No actor belongs to two stages.
Apart == \A s, t \in Stages : s # t => Claimed(s) \intersect Claimed(t) = {}

\* A stage only holds actors that were created.
Born == \A s \in Stages : Claimed(s) \subseteq 1..created

\* The actors a scale-up still has to add are younger than the members of its stage.
Younger ==
  \A s \in Stages : worker[s] \in {"starting", "adding"} =>
    \A a \in stage_actors[s], b \in todo[s] : a < b

\* Before the pipeline starts, nothing is scaled, stopped or cleaned up.
QuietBuild ==
  phase = "building" =>
    /\ signalled = {} /\ pending = {} /\ scan = {} /\ finished = {} /\ plan = {}
    /\ \A s \in Stages : worker[s] = "idle" /\ todo[s] = {}

\* A is a set of MinReplicas[s] members of the stage, older than all others, that nobody
\* has stopped, is stopping or is about to remove.
Anchors(s, A) ==
  /\ A \subseteq stage_actors[s]
  /\ Cardinality(A) = MinReplicas[s]
  /\ \A a \in A, b \in stage_actors[s] \ A : a < b
  /\ A \intersect (signalled \union pending \union scan \union finished) = {}
  /\ worker[s] = "removing" => A \intersect todo[s] = {}

HasAnchors(s) == \E A \in SUBSET Actors : Anchors(s, A)

AllAnchored ==
  \A s \in Stages :
    \/ phase = "building" /\ stage_actors[s] # {}
    \/ phase = "running"
    => HasAnchors(s)

IInv == TypeOK /\ Apart /\ Born /\ Younger /\ QuietBuild /\ AllAnchored

\* A scale-down to a target of at least MinReplicas[s] takes no anchor: an anchor among
\* the youngest would leave only older anchors, fewer than MinReplicas[s], behind.
LEMMA ScaleDownSparesAnchors ==
  ASSUME NEW members \in SUBSET Actors, NEW A \in SUBSET members, NEW last \in SUBSET members,
         \A a \in A, b \in members \ A : a < b,
         \A a \in last, b \in members \ last : b < a,
         Cardinality(members) - Cardinality(last) >= Cardinality(A)
  PROVE  A \intersect last = {}
<1> SUFFICES ASSUME NEW x \in A \intersect last PROVE FALSE
  OBVIOUS
<1>1. members \in SUBSET Nat
  BY DEF Actors
<1>2. members \ last \subseteq A \ {x}
  <2> SUFFICES ASSUME NEW b \in members \ last, b \notin A PROVE FALSE
    OBVIOUS
  <2>1. b < x /\ x < b
    OBVIOUS
  <2>2. b \in Nat /\ x \in Nat
    BY <1>1
  <2> QED
    BY <2>1, <2>2
<1>3. IsFiniteSet(members) /\ IsFiniteSet(last) /\ IsFiniteSet(A)
  BY ActorSetsAreFinite
<1>4. Cardinality(members \ last) = Cardinality(members) - Cardinality(last)
  <2>1. members \intersect last = last
    OBVIOUS
  <2> QED
    BY <1>3, <2>1, FS_Difference
<1>5. Cardinality(A \ {x}) = Cardinality(A) - 1 /\ IsFiniteSet(A \ {x})
  BY <1>3, FS_RemoveElement
<1>6. Cardinality(members \ last) <= Cardinality(A \ {x})
  BY <1>2, <1>5, FS_Subset
<1>7. Cardinality(A) \in Nat /\ Cardinality(members) \in Nat /\ Cardinality(last) \in Nat
  BY <1>3, FS_CardinalityType
<1> QED
  BY <1>4, <1>5, <1>6, <1>7

LEMMA InitIInv == Init => IInv
BY InitTypeOK DEF Init, IInv, Apart, Born, Younger, QuietBuild, AllAnchored, Claimed

\* What a step must keep, its types aside.
Rest == Apart /\ Born /\ Younger /\ QuietBuild /\ AllAnchored

\* Steps that touch no list, no removal and no worker.
LEMMA FrameStep ==
  ASSUME IInv,
         UNCHANGED <<created, stage_actors, pending, worker, todo, scan, finished, signalled>>,
         phase' = phase \/ phase' \notin {"building", "running"},
         plan' = plan \/ phase # "building"
  PROVE  Rest'
<1> USE DEF IInv, Rest
<1>1. Apart' /\ Born' /\ Younger'
  BY DEF Apart, Born, Younger, Claimed
<1>2. QuietBuild'
  BY DEF QuietBuild
<1>3. ASSUME NEW s \in Stages, HasAnchors(s) PROVE HasAnchors(s)'
  BY <1>3 DEF HasAnchors, Anchors
<1>4. AllAnchored'
  BY <1>3 DEF AllAnchored
<1> QED
  BY <1>1, <1>2, <1>4

\* The build: the first MinReplicas[s] of the new actors are the anchors of their stage.
LEMMA BuildStep ==
  ASSUME IInv, NEW s \in Stages, BuildStage(s)
  PROVE  Rest'
<1> USE DEF IInv, Rest
<1>0. /\ phase = "building" /\ phase' = phase
      /\ created \in Nat /\ Initial[s] \in Nat /\ MinReplicas[s] \in Nat
      /\ MinReplicas[s] <= Initial[s]
      /\ created' = created + Initial[s] /\ created' <= MaxActors
      /\ stage_actors[s] = {}
      /\ stage_actors' = [stage_actors EXCEPT ![s] = created + 1 .. created + Initial[s]]
      /\ stage_actors \in [Stages -> SUBSET Actors]
      /\ UNCHANGED <<pending, plan, worker, todo, scan, finished, signalled>>
  <2>1. created \in 0..MaxActors /\ stage_actors \in [Stages -> SUBSET Actors]
    BY DEF TypeOK
  <2>2. Initial[s] \in Nat /\ MinReplicas[s] \in Nat /\ MinReplicas[s] <= Initial[s]
    BY BoundTypes
  <2>3. created \in Nat
    BY <2>1, BoundTypes
  <2> QED
    BY <2>1, <2>2, <2>3 DEF BuildStage, Fresh, workerVars, cleanerVars
<1>1. /\ stage_actors'[s] = created + 1 .. created + Initial[s]
      /\ \A t \in Stages \ {s} : stage_actors'[t] = stage_actors[t]
      /\ \A t \in Stages : todo'[t] = {} /\ todo[t] = {} /\ worker'[t] = "idle"
      /\ \A t \in Stages : stage_actors[t] \subseteq 1..created
  BY <1>0 DEF QuietBuild, Born, Claimed
<1>2. Apart'
  BY <1>0, <1>1 DEF Apart, Claimed
<1>3. Born'
  BY <1>0, <1>1 DEF Born, Claimed
<1>4. Younger' /\ QuietBuild'
  BY <1>0, <1>1 DEF Younger, QuietBuild
<1>5. HasAnchors(s)'
  <2> DEFINE A == created + 1 .. created + MinReplicas[s]
  <2>1. Cardinality(A) = MinReplicas[s]
    BY <1>0, IntervalCardinality
  <2>2. A \subseteq stage_actors'[s] /\ A \in SUBSET Actors
    BY <1>0, <1>1, BoundTypes DEF Actors
  <2>3. \A a \in A, b \in stage_actors'[s] \ A : a < b
    BY <1>0, <1>1
  <2>4. signalled' \union pending' \union scan' \union finished' = {}
    BY <1>0 DEF QuietBuild
  <2> QED
    BY <1>1, <2>1, <2>2, <2>3, <2>4 DEF HasAnchors, Anchors
<1>6. ASSUME NEW t \in Stages \ {s}, HasAnchors(t) PROVE HasAnchors(t)'
  BY <1>0, <1>1, <1>6 DEF HasAnchors, Anchors
<1>7. AllAnchored'
  BY <1>0, <1>1, <1>5, <1>6 DEF AllAnchored
<1> QED
  BY <1>2, <1>3, <1>4, <1>7

\* start(): a stage without initial actors keeps none, so it needs no anchors.
LEMMA StartStep ==
  ASSUME IInv, Start
  PROVE  Rest'
<1> USE DEF IInv, Rest
<1>0. /\ phase = "building" /\ phase' \in {"running", "signalling"}
      /\ UNCHANGED <<created, stage_actors, pending, worker, todo, scan, finished, signalled>>
      /\ plan' = plan
  BY DEF Start, workerVars, cleanerVars
<1>1. Apart' /\ Born' /\ Younger' /\ QuietBuild'
  BY <1>0 DEF Apart, Born, Younger, Claimed, QuietBuild
<1>2. ASSUME NEW s \in Stages PROVE HasAnchors(s)'
  <2>1. CASE stage_actors[s] # {}
    BY <1>0, <2>1 DEF AllAnchored, HasAnchors, Anchors
  <2>2. CASE stage_actors[s] = {}
    <3>1. ~(Initial[s] > 0)
      BY <2>2 DEF Start, Built
    <3>2. MinReplicas[s] = 0
      BY <3>1, BoundTypes
    <3>3. Anchors(s, {})'
      BY <1>0, <3>2, FS_EmptySet DEF Anchors
    <3> QED
      BY <3>3 DEF HasAnchors
  <2> QED
    BY <2>1, <2>2
<1> QED
  BY <1>1, <1>2 DEF AllAnchored

LEMMA CreatedIsNat == TypeOK => created \in Nat
<1> SUFFICES ASSUME TypeOK PROVE created \in Nat
  OBVIOUS
<1>1. created \in 0..MaxActors
  BY DEF TypeOK
<1> QED
  BY <1>1, BoundTypes

\* What the scaling worker of a stage may do to its list of actors: drop some, take new
\* ones, or take members that are not anchors.
LEMMA WorkerStep ==
  ASSUME IInv, NEW s \in Stages, phase # "building", phase' = phase,
         UNCHANGED <<stage_actors, pending, scan, finished, signalled>>,
         created' \in Nat, created <= created',
         NEW T \in SUBSET Actors, NEW w,
         todo' = [todo EXCEPT ![s] = T], worker' = [worker EXCEPT ![s] = w],
         T \subseteq Claimed(s) \union (created + 1 .. created'),
         w \in {"starting", "adding"} => \A a \in stage_actors[s], b \in T : a < b,
         w = "removing" => \A A \in SUBSET Actors : Anchors(s, A) => A \intersect T = {}
  PROVE  Rest'
<1> USE DEF Rest
<1>0. /\ TypeOK /\ Apart /\ Born /\ Younger /\ AllAnchored /\ created \in Nat
      /\ todo \in [Stages -> SUBSET Actors]
      /\ worker \in [Stages -> {"idle", "starting", "adding", "removing"}]
  BY CreatedIsNat DEF IInv, TypeOK
<1>1. /\ todo'[s] = T /\ worker'[s] = w
      /\ \A t \in Stages \ {s} : todo'[t] = todo[t] /\ worker'[t] = worker[t]
  BY <1>0
<1>2. ASSUME NEW t \in Stages \ {s} PROVE Claimed(s)' \intersect Claimed(t)' = {}
  <2>1. Claimed(t)' = Claimed(t)
    BY <1>1 DEF Claimed
  <2>2. Claimed(t) \subseteq 1..created /\ Claimed(s) \intersect Claimed(t) = {}
    BY <1>0 DEF Apart, Born
  <2>3. Claimed(s)' \subseteq Claimed(s) \union (created + 1 .. created')
    BY <1>1 DEF Claimed
  <2>4. \A x \in created + 1 .. created' : x \notin 1..created
    BY <1>0
  <2> QED
    BY <2>1, <2>2, <2>3, <2>4
<1>3. Apart'
  <2>1. ASSUME NEW t \in Stages \ {s} PROVE Claimed(t)' = Claimed(t)
    BY <1>1 DEF Claimed
  <2> QED
    BY <1>0, <1>2, <2>1 DEF Apart
<1>4. Born'
  <2>1. ASSUME NEW t \in Stages, NEW x \in Claimed(t)'
        PROVE  x \in Claimed(t) \union (created + 1 .. created')
    BY <1>1 DEF Claimed
  <2>2. \A x \in (1..created) \union (created + 1 .. created') : x \in 1..created'
    BY <1>0
  <2> QED
    BY <1>0, <2>1, <2>2 DEF Born
<1>5. Younger'
  BY <1>0, <1>1 DEF Younger
<1>6. QuietBuild'
  BY DEF QuietBuild
<1>7. ASSUME NEW t \in Stages, HasAnchors(t) PROVE HasAnchors(t)'
  <2> PICK A \in SUBSET Actors : Anchors(t, A)
    BY <1>7 DEF HasAnchors
  <2>1. Anchors(t, A)'
    BY <1>1 DEF Anchors
  <2> QED
    BY <2>1 DEF HasAnchors
<1>8. AllAnchored'
  BY <1>0, <1>7 DEF AllAnchored
<1> QED
  BY <1>3, <1>4, <1>5, <1>6, <1>8

LEMMA ScaleUpStep ==
  ASSUME IInv, NEW s \in Stages, NEW n \in 0..MaxTarget, ScaleUp(s, n)
  PROVE  Rest'
<1> DEFINE missing == Clamp(s, n) - Cardinality(stage_actors[s])
           T == created + 1 .. created + missing
<1>0. TypeOK /\ created \in Nat /\ phase # "building" /\ phase' = phase
  BY CreatedIsNat DEF ScaleUp, IInv, QuietBuild
<1>1. CASE UNCHANGED <<created, status, worker, todo>>
  BY <1>0, <1>1, FrameStep DEF ScaleUp, cleanerVars
<1>2. CASE /\ created + missing <= MaxActors
           /\ created' = created + missing
           /\ worker' = [worker EXCEPT ![s] = "starting"]
           /\ todo' = [todo EXCEPT ![s] = Fresh(missing)]
  <2>1. missing \in Int /\ missing > 0
    <3>1. Cardinality(stage_actors[s]) \in Nat
      BY <1>0, ActorSetsAreFinite DEF TypeOK
    <3>2. Clamp(s, n) \in Nat
      BY ClampBounds
    <3>3. missing \in Int
      BY <3>1, <3>2
    <3>4. missing > 0
      BY DEF ScaleUp
    <3> QED
      BY <3>3, <3>4
  <2>2. T \in SUBSET Actors
    <3> HIDE DEF missing
    <3> QED
      BY <1>0, <1>2, <2>1, BoundTypes DEF Actors
  <2>3. \A a \in stage_actors[s], b \in T : a < b
    <3>1. stage_actors[s] \subseteq 1..created
      BY DEF IInv, Born, Claimed
    <3> HIDE DEF missing
    <3> QED
      BY <1>0, <2>1, <3>1
  <2>4. created' \in Nat /\ created <= created' /\ T = created + 1 .. created'
    <3> HIDE DEF missing
    <3> QED
      BY <1>0, <1>2, <2>1
  <2>5. todo' = [todo EXCEPT ![s] = T]
    BY <1>2 DEF Fresh
  <2>6. UNCHANGED <<stage_actors, pending, scan, finished, signalled>>
    BY DEF ScaleUp, cleanerVars
  <2> HIDE DEF T, missing
  <2> QED
    BY <1>0, <1>2, <2>2, <2>3, <2>4, <2>5, <2>6, WorkerStep
<1> QED
  BY <1>1, <1>2 DEF ScaleUp

LEMMA ScaleDownStep ==
  ASSUME IInv, NEW s \in Stages, NEW n \in 0..MaxTarget, ScaleDown(s, n)
  PROVE  Rest'
<1>0. TypeOK /\ created \in Nat /\ phase # "building" /\ phase' = phase
  BY CreatedIsNat DEF ScaleDown, IInv, QuietBuild
<1>1. PICK last \in SUBSET stage_actors[s] :
        /\ Cardinality(last) = Cardinality(stage_actors[s]) - Clamp(s, n)
        /\ \A a \in last, b \in stage_actors[s] \ last : b < a
        /\ todo' = [todo EXCEPT ![s] = last]
  BY DEF ScaleDown
<1>2. stage_actors[s] \in SUBSET Actors /\ last \in SUBSET Actors
  BY <1>0 DEF TypeOK
<1>3. ASSUME NEW A \in SUBSET Actors, Anchors(s, A) PROVE A \intersect last = {}
  <2>1. Cardinality(stage_actors[s]) - Cardinality(last) >= Cardinality(A)
    <3>1. Cardinality(stage_actors[s]) \in Nat
      BY <1>2, ActorSetsAreFinite
    <3>2. Clamp(s, n) \in Nat /\ Clamp(s, n) >= MinReplicas[s]
      BY ClampBounds
    <3>3. Cardinality(A) = MinReplicas[s] /\ MinReplicas[s] \in Nat
      BY <1>3, BoundTypes DEF Anchors
    <3> QED
      BY <1>1, <3>1, <3>2, <3>3
  <2> QED
    BY <1>1, <1>2, <1>3, <2>1, ScaleDownSparesAnchors DEF Anchors
<1>4. /\ UNCHANGED <<created, stage_actors, pending, scan, finished, signalled>>
      /\ worker' = [worker EXCEPT ![s] = "removing"]
  BY DEF ScaleDown, cleanerVars
<1>5. last \subseteq Claimed(s) \union (created + 1 .. created')
  BY DEF Claimed
<1>6. created' \in Nat /\ created <= created'
  BY <1>0, <1>4
<1> QED
  BY <1>0, <1>1, <1>2, <1>3, <1>4, <1>5, <1>6, WorkerStep

\* The other steps of a worker drop its actors or go on with them.
LEMMA WorkerMoves ==
  ASSUME IInv, NEW s \in Stages,
         \/ StartReplicas(s) \/ KillReplicas(s) \/ FinishScaleUp(s) \/ FinishScaleDown(s)
  PROVE  Rest'
<1>0. /\ TypeOK /\ created \in Nat /\ phase # "building" /\ phase' = phase
      /\ UNCHANGED <<created, stage_actors, pending, scan, finished, signalled>>
  BY CreatedIsNat
  DEF StartReplicas, KillReplicas, FinishScaleUp, FinishScaleDown, IInv, QuietBuild, cleanerVars
<1>1. todo[s] \in SUBSET Actors /\ todo = [todo EXCEPT ![s] = todo[s]]
  BY <1>0 DEF TypeOK
<1>a. created' \in Nat /\ created <= created'
  BY <1>0
<1>2. CASE StartReplicas(s)
  <2>1. \A a \in stage_actors[s], b \in todo[s] : a < b
    BY <1>2 DEF StartReplicas, IInv, Younger
  <2>2. todo' = [todo EXCEPT ![s] = todo[s]] /\ worker' = [worker EXCEPT ![s] = "adding"]
    BY <1>1, <1>2 DEF StartReplicas
  <2>3. todo[s] \subseteq Claimed(s) \union (created + 1 .. created')
    BY DEF Claimed
  <2> QED
    BY <1>0, <1>1, <1>a, <2>1, <2>2, <2>3, WorkerStep
<1>3. CASE KillReplicas(s) \/ FinishScaleUp(s) \/ FinishScaleDown(s)
  <2>1. todo' = [todo EXCEPT ![s] = {}] /\ worker' = [worker EXCEPT ![s] = "idle"]
    BY <1>1, <1>3 DEF KillReplicas, FinishScaleUp, FinishScaleDown
  <2>2. {} \in SUBSET Actors /\ {} \subseteq Claimed(s) \union (created + 1 .. created')
    OBVIOUS
  <2> QED
    BY <1>0, <1>a, <2>1, <2>2, WorkerStep
<1> QED
  BY <1>2, <1>3

\* The least actor still to add joins the list: younger than the members, older than
\* the rest.
LEMMA AddActorStep ==
  ASSUME IInv, NEW s \in Stages, AddActor(s)
  PROVE  Rest'
<1> USE DEF Rest
<1> DEFINE new == Least(todo[s])
<1>0. /\ TypeOK /\ Apart /\ Born /\ Younger /\ AllAnchored /\ created \in Nat
      /\ phase # "building" /\ phase' = phase
      /\ UNCHANGED <<created, pending, worker, scan, finished, signalled>>
      /\ worker[s] = "adding" /\ todo[s] # {}
      /\ stage_actors' = [stage_actors EXCEPT ![s] = stage_actors[s] \union {new}]
      /\ todo' = [todo EXCEPT ![s] = todo[s] \ {new}]
      /\ stage_actors \in [Stages -> SUBSET Actors] /\ todo \in [Stages -> SUBSET Actors]
  BY CreatedIsNat DEF AddActor, IInv, QuietBuild, cleanerVars, TypeOK
<1>1. new \in todo[s] /\ \A b \in todo[s] : new <= b
  BY <1>0, LeastMember
<1> HIDE DEF new
<1>2. /\ stage_actors'[s] = stage_actors[s] \union {new} /\ todo'[s] = todo[s] \ {new}
      /\ \A t \in Stages \ {s} : stage_actors'[t] = stage_actors[t] /\ todo'[t] = todo[t]
  BY <1>0
<1>3. \A t \in Stages : Claimed(t)' = Claimed(t)
  BY <1>1, <1>2 DEF Claimed
<1>4. Apart' /\ Born'
  BY <1>0, <1>3 DEF Apart, Born
<1>5. \A b \in todo'[s] : new < b
  <2>1. todo[s] \subseteq Nat
    BY <1>0 DEF Actors
  <2> QED
    BY <1>1, <1>2, <2>1
<1>6. Younger'
  BY <1>0, <1>2, <1>5 DEF Younger
<1>7. QuietBuild'
  BY <1>0 DEF QuietBuild
<1>8. ASSUME NEW t \in Stages, HasAnchors(t) PROVE HasAnchors(t)'
  <2> PICK A \in SUBSET Actors : Anchors(t, A)
    BY <1>8 DEF HasAnchors
  <2>1. Anchors(t, A)'
    <3>1. CASE t = s
      <4>1. \A a \in A : a < new
        BY <1>0, <1>1, <3>1 DEF Younger, Anchors
      <4> QED
        BY <1>0, <1>2, <3>1, <4>1 DEF Anchors
    <3>2. CASE t # s
      BY <1>0, <1>2, <3>2 DEF Anchors
    <3> QED
      BY <3>1, <3>2
  <2> QED
    BY <2>1 DEF HasAnchors
<1>9. AllAnchored'
  BY <1>0, <1>8 DEF AllAnchored
<1> QED
  BY <1>4, <1>6, <1>7, <1>9

\* A scale-down stops an actor of its own stage that is no anchor.
LEMMA StopActorStep ==
  ASSUME IInv, NEW s \in Stages, StopActor(s)
  PROVE  Rest'
<1> USE DEF Rest
<1> DEFINE old == Least(todo[s])
<1>0. /\ TypeOK /\ Apart /\ Born /\ Younger /\ AllAnchored
      /\ phase # "building" /\ phase' = phase
      /\ UNCHANGED <<created, stage_actors, worker, scan, finished>>
      /\ worker[s] = "removing" /\ todo[s] # {}
      /\ signalled' \subseteq signalled \union {old} /\ pending' \subseteq pending \union {old}
      /\ todo' = [todo EXCEPT ![s] = todo[s] \ {old}]
      /\ todo \in [Stages -> SUBSET Actors]
  BY DEF StopActor, Signal, IInv, QuietBuild, cleanerVars, TypeOK
<1>1. old \in todo[s]
  BY <1>0, LeastMember
<1> HIDE DEF old
<1>2. /\ todo'[s] = todo[s] \ {old}
      /\ \A t \in Stages \ {s} : todo'[t] = todo[t]
  BY <1>0
<1>3. \A t \in Stages : Claimed(t)' \subseteq Claimed(t)
  BY <1>0, <1>2 DEF Claimed
<1>4. Apart' /\ Born'
  BY <1>0, <1>3 DEF Apart, Born
<1>5. Younger' /\ QuietBuild'
  BY <1>0, <1>2 DEF Younger, QuietBuild
<1>6. ASSUME NEW t \in Stages, HasAnchors(t) PROVE HasAnchors(t)'
  <2> PICK A \in SUBSET Actors : Anchors(t, A)
    BY <1>6 DEF HasAnchors
  <2>1. old \notin A
    <3>1. CASE t = s
      BY <1>0, <1>1, <3>1 DEF Anchors
    <3>2. CASE t # s
      BY <1>0, <1>1, <3>2 DEF Anchors, Apart, Claimed
    <3> QED
      BY <3>1, <3>2
  <2>2. Anchors(t, A)'
    BY <1>0, <1>2, <2>1 DEF Anchors
  <2> QED
    BY <2>2 DEF HasAnchors
<1>7. AllAnchored'
  BY <1>0, <1>6 DEF AllAnchored
<1> QED
  BY <1>4, <1>5, <1>7

\* The cleanup thread only handles actors that were pending removal.
LEMMA CleanupStep ==
  ASSUME IInv, CleanupScan \/ (\E a \in Actors : CleanupPoll(a)) \/ CleanupRemove
  PROVE  Rest'
<1> USE DEF Rest
<1>0. /\ TypeOK /\ Apart /\ Born /\ Younger /\ QuietBuild /\ AllAnchored
      /\ stage_actors \in [Stages -> SUBSET Actors]
      /\ phase' = phase
      /\ UNCHANGED <<created, worker, todo, signalled, plan>>
      /\ scan' \subseteq scan \union pending /\ finished' \subseteq finished \union scan
      /\ pending' \subseteq pending
      /\ \/ stage_actors' = stage_actors
         \/ stage_actors' = [s \in Stages |-> stage_actors[s] \ finished]
  BY DEF CleanupScan, CleanupPoll, CleanupRemove, IInv, TypeOK, workerVars
<1>1. \A s \in Stages : /\ stage_actors'[s] \subseteq stage_actors[s]
                        /\ stage_actors[s] \ finished \subseteq stage_actors'[s]
  BY <1>0
<1>2. Apart' /\ Born' /\ Younger' /\ QuietBuild'
  BY <1>0, <1>1 DEF Apart, Born, Younger, QuietBuild, Claimed
<1>3. ASSUME NEW s \in Stages, HasAnchors(s) PROVE HasAnchors(s)'
  <2> PICK A \in SUBSET Actors : Anchors(s, A)
    BY <1>3 DEF HasAnchors
  <2>1. Anchors(s, A)'
    BY <1>0, <1>1 DEF Anchors
  <2> QED
    BY <2>1 DEF HasAnchors
<1>4. AllAnchored'
  BY <1>0, <1>1, <1>3 DEF AllAnchored
<1> QED
  BY <1>2, <1>4

LEMMA StepIInv == IInv /\ [Next]_vars => IInv'
<1> SUFFICES ASSUME IInv, [Next]_vars PROVE Rest'
  BY StepTypeOK DEF IInv, Rest
<1>1. ASSUME NEW s \in Stages, BuildStage(s) PROVE Rest'
  BY <1>1, BuildStep
<1>2. CASE Start
  BY <1>2, StartStep
<1>3. CASE Stop \/ JoinScaling
  BY <1>3, FrameStep DEF Stop, JoinScaling, workerVars, cleanerVars
<1>4. CASE SignalAll
  BY <1>4 DEF SignalAll, Signal, workerVars, cleanerVars, IInv, Rest, Apart, Born, Younger,
              QuietBuild, AllAnchored, Claimed
<1>5. CASE ClearRuntimeState
  BY <1>5 DEF ClearRuntimeState, workerVars, cleanerVars, IInv, Rest, Apart, Born, Younger,
              QuietBuild, AllAnchored, Claimed
<1>6. CASE BeginCycle
  BY <1>6, FrameStep DEF BeginCycle, cleanerVars
<1>7. CASE EndCycle
  BY <1>7, FrameStep DEF EndCycle, cleanerVars
<1>8. ASSUME NEW s \in Stages, NEW n \in 0..MaxTarget, AtTarget(s, n) PROVE Rest'
  BY <1>8, FrameStep DEF AtTarget, cleanerVars, IInv, QuietBuild
<1>9. ASSUME NEW s \in Stages, NEW n \in 0..MaxTarget, ScaleUp(s, n) \/ ScaleDown(s, n)
      PROVE  Rest'
  BY <1>9, ScaleUpStep, ScaleDownStep
<1>10. ASSUME NEW s \in Stages,
              \/ StartReplicas(s) \/ KillReplicas(s) \/ FinishScaleUp(s) \/ FinishScaleDown(s)
       PROVE  Rest'
  BY <1>10, WorkerMoves
<1>11. ASSUME NEW s \in Stages, AddActor(s) \/ StopActor(s) PROVE Rest'
  BY <1>11, AddActorStep, StopActorStep
<1>12. CASE CleanupScan \/ (\E a \in Actors : CleanupPoll(a)) \/ CleanupRemove
  BY <1>12, CleanupStep
<1>13. CASE CleanupStop
  BY <1>13, FrameStep DEF CleanupStop, workerVars
<1>14. ASSUME NEW a \in Actors, ActorFinishes(a) \/ ActorDies(a) PROVE Rest'
  BY <1>14, FrameStep DEF ActorFinishes, ActorDies, workerVars, cleanerVars
<1>15. CASE UNCHANGED vars
  BY <1>15, FrameStep DEF vars, workerVars, cleanerVars
<1> QED
  BY <1>1, <1>2, <1>3, <1>4, <1>5, <1>6, <1>7, <1>8, <1>9, <1>10, <1>11, <1>12, <1>13,
     <1>14, <1>15
  DEF Next, Main, Shutdown, Worker, Cleanup, Stopped

\* The anchors of a stage are members nobody stopped, so there are enough of them.
LEMMA IInvImpliesKeepsMinimum == IInv => KeepsMinimum
<1> SUFFICES ASSUME IInv, phase = "running", NEW s \in Stages
             PROVE  Cardinality(stage_actors[s] \ signalled) >= MinReplicas[s]
  BY DEF KeepsMinimum
<1>1. PICK A \in SUBSET Actors : Anchors(s, A)
  BY DEF IInv, AllAnchored, HasAnchors
<1>2. A \subseteq stage_actors[s] \ signalled /\ Cardinality(A) = MinReplicas[s]
  BY <1>1 DEF Anchors
<1>3. stage_actors[s] \ signalled \in SUBSET Actors
  BY DEF IInv, TypeOK
<1>4. IsFiniteSet(stage_actors[s] \ signalled)
  BY <1>3, ActorSetsAreFinite
<1>5. Cardinality(A) <= Cardinality(stage_actors[s] \ signalled)
  BY <1>2, <1>4, FS_Subset
<1>6. Cardinality(A) \in Nat /\ Cardinality(stage_actors[s] \ signalled) \in Nat
  BY <1>3, ActorSetsAreFinite
<1> QED
  BY <1>2, <1>5, <1>6

\* While the pipeline runs, however scale-downs overlap with a slow cleanup, each stage has
\* at least MinReplicas[s] members that were never told to stop.
THEOREM MinimumKept == Spec => []KeepsMinimum
<1>1. Init => IInv
  BY InitIInv
<1>2. IInv /\ [Next]_vars => IInv'
  BY StepIInv
<1>3. IInv => KeepsMinimum
  BY IInvImpliesKeepsMinimum
<1> QED
  BY <1>1, <1>2, <1>3, PTL DEF Spec

-----------------------------------------------------------------------------
(* The topology forgets only replicas that are done. *)

Done == {"complete", "dead"}

\* The cleanup thread has only counted actors that are done, and nothing happens to an
\* actor before it is created.
DoneInv ==
  /\ \A a \in finished : status[a] \in Done
  /\ \A a \in Actors : a > created => status[a] = "unborn"

LEMMA InitDoneInv == Init => DoneInv
BY DEF Init, DoneInv

\* SetStatus on actors that exist and are not done.
LEMMA StatusStep ==
  ASSUME IInv, DoneInv, finished' = finished, created' = created,
         NEW S \in SUBSET Actors, NEW to, SetStatus(S, to),
         \A a \in S : status[a] # "unborn" \/ a <= created,
         to \in Done \/ \A a \in S : status[a] \notin Done
  PROVE  DoneInv'
<1>1. finished \subseteq Actors /\ status \in [Actors -> {"unborn", "dead"} \union Alive]
  BY DEF IInv, TypeOK
<1>2. \A a \in Actors : status'[a] = IF a \in S THEN to ELSE status[a]
  BY DEF SetStatus
<1>3. ASSUME NEW a \in finished' PROVE status'[a] \in Done
  BY <1>1, <1>2, <1>3 DEF DoneInv
<1>4. ASSUME NEW a \in Actors, a > created PROVE status'[a] = "unborn"
  <2>1. created \in Nat /\ a \in Nat
    BY CreatedIsNat DEF IInv, Actors
  <2>2. a \notin S
    BY <1>4, <2>1 DEF DoneInv
  <2> QED
    BY <1>2, <1>4, <2>2 DEF DoneInv
<1> QED
  BY <1>3, <1>4 DEF DoneInv

\* New actors are neither counted nor done.
LEMMA CreateStep ==
  ASSUME IInv, DoneInv, finished' = finished, NEW n \in Nat, created' = created + n,
         SetStatus(Fresh(n), "created")
  PROVE  DoneInv'
<1>1. finished \subseteq Actors /\ created \in Nat
  BY CreatedIsNat DEF IInv, TypeOK
<1>2. \A a \in Actors : status'[a] = IF a \in Fresh(n) THEN "created" ELSE status[a]
  BY DEF SetStatus
<1>3. \A a \in Actors : a \in Fresh(n) <=> (a > created /\ a <= created')
  BY <1>1 DEF Fresh, Actors
<1>4. ASSUME NEW a \in finished PROVE status'[a] \in Done
  <2>1. a \in Actors /\ status[a] \in Done
    BY <1>1 DEF DoneInv
  <2>2. a \notin Fresh(n)
    BY <1>3, <2>1 DEF DoneInv, Done
  <2> QED
    BY <1>2, <2>1, <2>2
<1>5. ASSUME NEW a \in Actors, a > created' PROVE status'[a] = "unborn"
  <2>1. a > created /\ ~(a <= created')
    BY <1>1, <1>5 DEF Actors
  <2> QED
    BY <1>2, <1>3, <2>1 DEF DoneInv
<1> QED
  BY <1>4, <1>5 DEF DoneInv

LEMMA StepDoneInv == IInv /\ DoneInv /\ [Next]_vars => DoneInv'
<1> SUFFICES ASSUME IInv, DoneInv, [Next]_vars PROVE DoneInv'
  OBVIOUS
<1>0. /\ \A s \in Stages : todo[s] \subseteq Actors /\ stage_actors[s] \subseteq Actors
      /\ \A s \in Stages : \A a \in todo[s] : a <= created
      /\ Members \subseteq Actors
  <2>1. \A s \in Stages : todo[s] \subseteq Actors /\ stage_actors[s] \subseteq Actors
    BY DEF IInv, TypeOK
  <2>2. \A s \in Stages : todo[s] \subseteq 1..created
    BY DEF IInv, Born, Claimed
  <2>3. \A s \in Stages : \A a \in todo[s] : a <= created
    BY <2>2, CreatedIsNat DEF IInv
  <2>4. Members \subseteq Actors
    BY <2>1 DEF Members
  <2> QED
    BY <2>1, <2>3, <2>4
<1>1. ASSUME NEW s \in Stages, BuildStage(s) PROVE DoneInv'
  BY <1>1, CreateStep, BoundTypes DEF BuildStage, cleanerVars
<1>2. CASE Start
  <2>1. PICK S \in SUBSET {a \in Members : status[a] = "created"} : SetStatus(S, "running")
    BY <1>2 DEF Start
  <2>2. S \subseteq Actors /\ finished' = finished /\ created' = created
    BY <1>0, <1>2, <2>1 DEF Start, cleanerVars
  <2> QED
    BY <2>1, <2>2, StatusStep DEF Done
<1>3. CASE SignalAll
  BY <1>0, <1>3, StatusStep DEF SignalAll, Signal, cleanerVars, Done
<1>4. ASSUME NEW s \in Stages, NEW n \in 0..MaxTarget, ScaleUp(s, n) PROVE DoneInv'
  <2> DEFINE missing == Clamp(s, n) - Cardinality(stage_actors[s])
  <2>1. CASE UNCHANGED <<created, status, worker, todo>>
    BY <1>4, <2>1 DEF ScaleUp, cleanerVars, DoneInv
  <2>2. CASE created' = created + missing /\ SetStatus(Fresh(missing), "created")
    <3>1. Cardinality(stage_actors[s]) \in Nat /\ Clamp(s, n) \in Nat
      BY <1>0, ActorSetsAreFinite, ClampBounds
    <3>2. missing > 0
      BY <1>4 DEF ScaleUp
    <3>3. missing \in Nat
      BY <3>1, <3>2
    <3>4. finished' = finished
      BY <1>4 DEF ScaleUp, cleanerVars
    <3> HIDE DEF missing
    <3> QED
      BY <2>2, <3>3, <3>4, CreateStep
  <2> QED
    BY <1>4, <2>1, <2>2 DEF ScaleUp
<1>5. ASSUME NEW s \in Stages, StartReplicas(s) PROVE DoneInv'
  BY <1>0, <1>5, StatusStep DEF StartReplicas, cleanerVars, Done
<1>6. ASSUME NEW s \in Stages, KillReplicas(s) PROVE DoneInv'
  <2>1. \A a \in todo[s] : a <= created
    BY <1>0
  <2> QED
    BY <1>0, <1>6, <2>1, StatusStep DEF KillReplicas, cleanerVars, Done
<1>7. ASSUME NEW s \in Stages, StopActor(s) PROVE DoneInv'
  <2>1. Least(todo[s]) \in Actors
    BY <1>0, <1>7, LeastMember DEF StopActor
  <2>2. CASE Signal({Least(todo[s])})
    BY <1>7, <2>1, <2>2, StatusStep DEF StopActor, Signal, cleanerVars, Done
  <2>3. CASE UNCHANGED status
    BY <1>7, <2>3 DEF StopActor, cleanerVars, DoneInv
  <2> QED
    BY <1>7, <2>2, <2>3 DEF StopActor
<1>8. ASSUME NEW a \in Actors, CleanupPoll(a) PROVE DoneInv'
  BY <1>8 DEF CleanupPoll, DoneInv, Done
<1>9. CASE CleanupRemove
  BY <1>9 DEF CleanupRemove, DoneInv
<1>10. ASSUME NEW a \in Actors, ActorFinishes(a) \/ ActorDies(a) PROVE DoneInv'
  BY <1>10, StatusStep DEF ActorFinishes, ActorDies, Alive, cleanerVars, Done
<1>11. ASSUME UNCHANGED <<created, status, finished>> PROVE DoneInv'
  BY <1>11 DEF DoneInv
<1>12. \/ Stop \/ JoinScaling \/ ClearRuntimeState \/ BeginCycle \/ EndCycle
       \/ (\E s \in Stages : \E n \in 0..MaxTarget : AtTarget(s, n) \/ ScaleDown(s, n))
       \/ (\E s \in Stages : AddActor(s) \/ FinishScaleUp(s) \/ FinishScaleDown(s))
       \/ CleanupScan \/ CleanupStop \/ UNCHANGED vars
       => UNCHANGED <<created, status, finished>>
  BY DEF Stop, JoinScaling, ClearRuntimeState, BeginCycle, EndCycle, AtTarget, ScaleDown,
         AddActor, FinishScaleUp, FinishScaleDown, CleanupScan, CleanupStop, vars, cleanerVars
<1> QED
  BY <1>1, <1>2, <1>3, <1>4, <1>5, <1>6, <1>7, <1>8, <1>9, <1>10, <1>11, <1>12
  DEF Next, Main, Shutdown, Worker, Cleanup, Stopped

\* Only the cleanup thread, or stop(), takes an actor out of a list.
LEMMA OnlyDoneForgotten ==
  ASSUME IInv, DoneInv, [Next]_vars, phase # "clearing",
         NEW s \in Stages, NEW a \in stage_actors[s] \ stage_actors'[s]
  PROVE  status[a] \in Done
<1>1. stage_actors \in [Stages -> SUBSET Actors]
  BY DEF IInv, TypeOK
<1>2. ASSUME NEW t \in Stages, BuildStage(t) PROVE FALSE
  BY <1>1, <1>2 DEF BuildStage
<1>3. ASSUME NEW t \in Stages, AddActor(t) PROVE FALSE
  BY <1>1, <1>3 DEF AddActor
<1>4. CASE CleanupRemove
  BY <1>4 DEF CleanupRemove, DoneInv
<1>5. stage_actors' # stage_actors
  OBVIOUS
<1> QED
  BY <1>2, <1>3, <1>4, <1>5
  DEF Next, Main, Shutdown, Worker, Cleanup, Stopped, Start, Stop, JoinScaling, SignalAll,
      ClearRuntimeState, BeginCycle, EndCycle, AtTarget, ScaleUp, ScaleDown, StartReplicas,
      KillReplicas, FinishScaleUp, StopActor, FinishScaleDown, CleanupScan, CleanupPoll,
      CleanupStop, ActorFinishes, ActorDies, vars

\* Until stop() clears the topology, a replica leaves its stage's list only when its loop
\* has ended or its process is gone.
THEOREM ForgottenDone == Spec => ForgottenOnlyWhenDone
<1>1. Init => IInv /\ DoneInv
  BY InitIInv, InitDoneInv
<1>2. IInv /\ DoneInv /\ [Next]_vars => (IInv /\ DoneInv)'
  BY StepIInv, StepDoneInv
<1>3. IInv /\ DoneInv /\ [Next]_vars =>
        [phase # "clearing" =>
           \A s \in Stages : \A a \in stage_actors[s] \ stage_actors'[s] :
             status[a] \in {"complete", "dead"}]_vars
  BY OnlyDoneForgotten DEF Done
<1> QED
  BY <1>1, <1>2, <1>3, PTL DEF Spec, ForgottenOnlyWhenDone

-----------------------------------------------------------------------------
(* A stage never has more than its maximum. *)

\* A cycle hands each stage to its worker once, and the worker is idle until then: no
\* worker scales a list while actors of an earlier decision are still in its hands.
Turns ==
  /\ \A s \in Stages : worker[s] = "idle" => todo[s] = {}
  /\ \A s \in Stages, n \in 0..MaxTarget : <<s, n>> \in plan =>
       /\ cycle
       /\ worker[s] = "idle"
       /\ \A m \in 0..MaxTarget : <<s, m>> \in plan => m = n
  /\ ~cycle => \A s \in Stages : worker[s] = "idle"

\* The members of a stage and the actors being added to it.
Held(s) == stage_actors[s] \union (IF worker[s] = "removing" THEN {} ELSE todo[s])

WithinMaximum == \A s \in Stages : Cardinality(Held(s)) <= MaxReplicas[s]

\* A step of one worker on its own stage, which it was handed or is busy with.
LEMMA TurnOfWorker ==
  ASSUME TypeOK, Turns, NEW s \in Stages, cycle' = cycle,
         \A t \in Stages \ {s} : worker'[t] = worker[t] /\ todo'[t] = todo[t],
         worker'[s] = "idle" => todo'[s] = {},
         plan' \subseteq plan,
         worker'[s] = "idle" \/ (cycle /\ \A n \in 0..MaxTarget : <<s, n>> \notin plan')
  PROVE  Turns'
BY DEF Turns

LEMMA StepTurns == TypeOK /\ Turns /\ [Next]_vars => Turns'
<1> SUFFICES ASSUME TypeOK, Turns, [Next]_vars PROVE Turns'
  OBVIOUS
<1>0. /\ worker \in [Stages -> {"idle", "starting", "adding", "removing"}]
      /\ todo \in [Stages -> SUBSET Actors]
  BY DEF TypeOK
<1>1. CASE UNCHANGED <<plan, cycle, worker, todo>>
  BY <1>1 DEF Turns
<1>2. CASE BeginCycle
  <2>1. PICK targets \in [Stages -> 0..MaxTarget] : plan' = {<<s, targets[s]>> : s \in Stages}
    BY <1>2 DEF BeginCycle
  <2>2. /\ ~cycle /\ cycle' = TRUE /\ worker' = worker /\ todo' = todo
    BY <1>2 DEF BeginCycle
  <2>3. \A s \in Stages, n \in 0..MaxTarget : <<s, n>> \in plan' => n = targets[s]
    BY <2>1
  <2> QED
    BY <2>2, <2>3 DEF Turns
<1>3. CASE EndCycle
  BY <1>3 DEF EndCycle, Turns
<1>4. ASSUME NEW s \in Stages, NEW n \in 0..MaxTarget,
             AtTarget(s, n) \/ ScaleUp(s, n) \/ ScaleDown(s, n)
      PROVE  Turns'
  <2>1. <<s, n>> \in plan /\ plan' = plan \ {<<s, n>>} /\ cycle' = cycle
    BY <1>4 DEF AtTarget, ScaleUp, ScaleDown
  <2>2. cycle /\ worker[s] = "idle" /\ todo[s] = {}
        /\ \A m \in 0..MaxTarget : <<s, m>> \notin plan'
    BY <2>1 DEF Turns
  <2>3. \/ worker' = worker /\ todo' = todo
        \/ \E w \in {"starting", "removing"} : \E T :
             worker' = [worker EXCEPT ![s] = w] /\ todo' = [todo EXCEPT ![s] = T]
    BY <1>4 DEF AtTarget, ScaleUp, ScaleDown
  <2> QED
    BY <1>0, <2>1, <2>2, <2>3, TurnOfWorker
<1>5. ASSUME NEW s \in Stages,
             \/ StartReplicas(s) \/ KillReplicas(s) \/ AddActor(s) \/ FinishScaleUp(s)
             \/ StopActor(s) \/ FinishScaleDown(s)
      PROVE  Turns'
  <2>1. worker[s] # "idle" /\ plan' = plan /\ cycle' = cycle
    BY <1>5 DEF StartReplicas, KillReplicas, AddActor, FinishScaleUp, StopActor, FinishScaleDown
  <2>2. cycle /\ \A n \in 0..MaxTarget : <<s, n>> \notin plan
    BY <2>1 DEF Turns
  <2>3. \/ worker' = [worker EXCEPT ![s] = "adding"] /\ todo' = todo
        \/ worker' = [worker EXCEPT ![s] = "idle"] /\ todo' = [todo EXCEPT ![s] = {}]
        \/ worker' = [worker EXCEPT ![s] = "idle"] /\ todo' = todo /\ todo[s] = {}
        \/ worker' = worker /\ \E T : todo' = [todo EXCEPT ![s] = T]
    BY <1>5 DEF StartReplicas, KillReplicas, AddActor, FinishScaleUp, StopActor, FinishScaleDown
  <2> QED
    BY <1>0, <2>1, <2>2, <2>3, TurnOfWorker
<1> QED
  BY <1>1, <1>2, <1>3, <1>4, <1>5
  DEF Next, Main, Shutdown, Worker, Cleanup, Stopped, vars, workerVars, BuildStage, Start, Stop,
      JoinScaling, SignalAll, ClearRuntimeState, CleanupScan, CleanupPoll, CleanupRemove,
      CleanupStop, ActorFinishes, ActorDies

\* Sets of actors are held within the maximum by every step that adds none.
LEMMA HeldShrinks ==
  ASSUME TypeOK, WithinMaximum, NEW s \in Stages, Held(s)' \subseteq Held(s)
  PROVE  Cardinality(Held(s)') <= MaxReplicas[s]
<1>1. Held(s) \in SUBSET Actors
  BY DEF TypeOK, Held
<1>2. Cardinality(Held(s)') <= Cardinality(Held(s))
  BY <1>1, ActorSetsAreFinite, FS_Subset
<1>3. Held(s)' \in SUBSET Actors
  BY <1>1
<1>4. Cardinality(Held(s)) \in Nat /\ Cardinality(Held(s)') \in Nat
  BY <1>1, <1>3, ActorSetsAreFinite
<1> QED
  BY <1>2, <1>4, BoundTypes DEF WithinMaximum

\* A scale-up fills the list up to a target that is at most the maximum.
LEMMA ScaleUpWithin ==
  ASSUME TypeOK, Turns, WithinMaximum, NEW s \in Stages, NEW n \in 0..MaxTarget, ScaleUp(s, n)
  PROVE  WithinMaximum'
<1> DEFINE missing == Clamp(s, n) - Cardinality(stage_actors[s])
<1>0. /\ stage_actors \in [Stages -> SUBSET Actors] /\ todo \in [Stages -> SUBSET Actors]
      /\ worker \in [Stages -> {"idle", "starting", "adding", "removing"}]
      /\ stage_actors' = stage_actors
      /\ worker[s] = "idle" /\ todo[s] = {}
  BY DEF TypeOK, ScaleUp, Turns
<1>1. CASE UNCHANGED <<created, status, worker, todo>>
  BY <1>0, <1>1 DEF WithinMaximum, Held
<1>2. CASE /\ created + missing <= MaxActors
           /\ created' = created + missing
           /\ worker' = [worker EXCEPT ![s] = "starting"]
           /\ todo' = [todo EXCEPT ![s] = Fresh(missing)]
  <2>1. Cardinality(stage_actors[s]) \in Nat /\ Clamp(s, n) \in Nat
        /\ Clamp(s, n) <= MaxReplicas[s]
    <3>1. Cardinality(stage_actors[s]) \in Nat
      BY <1>0, ActorSetsAreFinite
    <3>2. Clamp(s, n) \in Nat /\ Clamp(s, n) <= MaxReplicas[s]
      BY BoundTypes DEF Clamp
    <3> QED
      BY <3>1, <3>2
  <2>2. missing \in Nat
    <3>1. missing > 0
      BY DEF ScaleUp
    <3> QED
      BY <2>1, <3>1
  <2>3. Held(s)' = stage_actors[s] \union Fresh(missing)
    BY <1>0, <1>2 DEF Held
  <2>4. Cardinality(Fresh(missing)) = missing /\ IsFiniteSet(Fresh(missing))
    <3>1. created \in Nat
      BY CreatedIsNat
    <3> HIDE DEF missing
    <3> QED
      BY <2>2, <3>1, IntervalCardinality, FS_Interval DEF Fresh
  <2>5. Cardinality(Held(s)') <= Cardinality(stage_actors[s]) + missing
    <3>1. IsFiniteSet(stage_actors[s])
      BY <1>0, ActorSetsAreFinite
    <3>2. IsFiniteSet(stage_actors[s] \intersect Fresh(missing))
      BY <3>1, FS_Subset
    <3>3. Cardinality(stage_actors[s] \intersect Fresh(missing)) \in Nat
      BY <3>2, FS_CardinalityType
    <3>4. Cardinality(Held(s)') = Cardinality(stage_actors[s]) + Cardinality(Fresh(missing))
                                    - Cardinality(stage_actors[s] \intersect Fresh(missing))
      BY <2>3, <2>4, <3>1, FS_Union
    <3> HIDE DEF missing
    <3> QED
      BY <2>1, <2>2, <2>4, <3>3, <3>4
  <2>6. Cardinality(Held(s)') <= MaxReplicas[s]
    <3>1. IsFiniteSet(Held(s)')
      <4>1. IsFiniteSet(stage_actors[s])
        BY <1>0, ActorSetsAreFinite
      <4>2. IsFiniteSet(stage_actors[s] \union Fresh(missing))
        BY <2>4, <4>1, FS_Union
      <4> QED
        BY <2>3, <4>2
    <3>2. Cardinality(Held(s)') \in Nat
      BY <3>1, FS_CardinalityType
    <3> QED
      BY <2>1, <2>5, <3>2, BoundTypes
  <2>7. ASSUME NEW t \in Stages \ {s} PROVE Held(t)' = Held(t)
    BY <1>0, <1>2 DEF Held
  <2> QED
    BY <2>6, <2>7 DEF WithinMaximum
<1> QED
  BY <1>1, <1>2 DEF ScaleUp

LEMMA StepWithinMaximum == IInv /\ Turns /\ WithinMaximum /\ [Next]_vars => WithinMaximum'
<1> SUFFICES ASSUME IInv, TypeOK, Turns, WithinMaximum, [Next]_vars PROVE WithinMaximum'
  BY DEF IInv
<1>0. /\ stage_actors \in [Stages -> SUBSET Actors] /\ todo \in [Stages -> SUBSET Actors]
      /\ worker \in [Stages -> {"idle", "starting", "adding", "removing"}]
  BY DEF TypeOK
<1>s. ASSUME \A s \in Stages : Held(s)' \subseteq Held(s) PROVE WithinMaximum'
  BY <1>s, HeldShrinks DEF WithinMaximum
<1>1. CASE UNCHANGED <<stage_actors, worker, todo>>
  BY <1>1 DEF WithinMaximum, Held
<1>2. ASSUME NEW s \in Stages, BuildStage(s) PROVE WithinMaximum'
  <2>1. /\ stage_actors'[s] = Fresh(Initial[s])
        /\ \A t \in Stages \ {s} : stage_actors'[t] = stage_actors[t]
        /\ worker' = worker /\ todo' = todo /\ stage_actors[s] = {}
    BY <1>0, <1>2 DEF BuildStage, workerVars
  <2>2. ASSUME NEW t \in Stages \ {s} PROVE Cardinality(Held(t)') <= MaxReplicas[t]
    BY <2>1, HeldShrinks DEF Held
  <2>3. Cardinality(Held(s)') <= MaxReplicas[s]
    <3>1. worker[s] = "idle" /\ todo[s] = {}
      BY <1>2 DEF BuildStage, IInv, QuietBuild
    <3>2. Held(s)' = Fresh(Initial[s])
      BY <2>1, <3>1 DEF Held
    <3>3. Cardinality(Fresh(Initial[s])) = Initial[s]
      BY CreatedIsNat, BoundTypes, IntervalCardinality DEF Fresh
    <3> QED
      BY <3>2, <3>3, BoundTypes
  <2> QED
    BY <2>2, <2>3 DEF WithinMaximum
<1>3. CASE ClearRuntimeState
  BY <1>0, <1>3, <1>s DEF ClearRuntimeState, Held, workerVars
<1>4. ASSUME NEW s \in Stages, NEW n \in 0..MaxTarget, ScaleUp(s, n) PROVE WithinMaximum'
  BY <1>4, ScaleUpWithin
<1>5. ASSUME NEW s \in Stages, NEW n \in 0..MaxTarget, ScaleDown(s, n) PROVE WithinMaximum'
  BY <1>0, <1>5, <1>s DEF ScaleDown, Held
<1>6. ASSUME NEW s \in Stages,
             \/ StartReplicas(s) \/ KillReplicas(s) \/ FinishScaleUp(s) \/ FinishScaleDown(s)
             \/ StopActor(s)
      PROVE  WithinMaximum'
  <2>1. /\ stage_actors' = stage_actors
        /\ \/ worker' = [worker EXCEPT ![s] = "adding"] /\ todo' = todo /\ worker[s] = "starting"
           \/ worker' = [worker EXCEPT ![s] = "idle"] /\ todo' = [todo EXCEPT ![s] = {}]
           \/ worker' = [worker EXCEPT ![s] = "idle"] /\ todo' = todo /\ todo[s] = {}
           \/ worker' = worker /\ todo' = [todo EXCEPT ![s] = @ \ {Least(@)}]
    BY <1>6 DEF StartReplicas, KillReplicas, FinishScaleUp, FinishScaleDown, StopActor
  <2> QED
    BY <1>0, <1>s, <2>1 DEF Held
<1>7. ASSUME NEW s \in Stages, AddActor(s) PROVE WithinMaximum'
  <2>1. Least(todo[s]) \in todo[s]
    BY <1>0, <1>7, LeastMember DEF AddActor
  <2> QED
    BY <1>0, <1>7, <1>s, <2>1 DEF AddActor, Held
<1>8. CASE CleanupRemove
  BY <1>0, <1>8, <1>s DEF CleanupRemove, Held, workerVars
<1> QED
  BY <1>1, <1>2, <1>3, <1>4, <1>5, <1>6, <1>7, <1>8
  DEF Next, Main, Shutdown, Worker, Cleanup, Stopped, vars, workerVars, Start, Stop,
      JoinScaling, SignalAll, BeginCycle, EndCycle, AtTarget, CleanupScan, CleanupPoll,
      CleanupStop, ActorFinishes, ActorDies

\* A stage never has more than max_replicas actors, counting those that are being started
\* and those that are still shutting down.
THEOREM MaximumKept == Spec => []AtMostMaximum
<1>1. Init => IInv /\ Turns /\ WithinMaximum
  <2>1. Init => Turns
    BY DEF Init, Turns
  <2>2. Init => \A s \in Stages : Held(s) = {}
    BY DEF Init, Held
  <2>3. Init => WithinMaximum
    BY <2>2, FS_EmptySet, BoundTypes DEF WithinMaximum
  <2> QED
    BY <2>1, <2>3, InitIInv
<1>2. IInv /\ Turns /\ WithinMaximum /\ [Next]_vars => (IInv /\ Turns /\ WithinMaximum)'
  BY StepIInv, StepTurns, StepWithinMaximum DEF IInv
<1>3. WithinMaximum => AtMostMaximum
  BY DEF WithinMaximum, AtMostMaximum, Held
<1> QED
  BY <1>1, <1>2, <1>3, PTL DEF Spec

-----------------------------------------------------------------------------
(* A running replica is known to the pipeline. *)

\* Before the pipeline starts no replica runs.  While it runs, the ones that process
\* messages are claimed by a stage, and what a scale-down still has to stop is a member
\* of its stage unless the cleanup thread has already found it done.
Traced ==
  /\ phase = "building" => \A a \in Actors : status[a] # "running"
  /\ phase = "running" =>
       /\ \A a \in Actors : status[a] = "running" => \E s \in Stages : a \in Claimed(s)
       /\ \A s \in Stages : worker[s] = "removing" =>
            \A a \in todo[s] : a \in stage_actors[s] \/ status[a] \in Done

\* Steps that start no actor, bring none back, and let go only of those that are done.
LEMMA TracedFrame ==
  ASSUME TypeOK, Traced,
         phase' = phase \/ phase' \notin {"building", "running"},
         \A a \in Actors : /\ status'[a] = "running" => status[a] = "running"
                           /\ status[a] \in Done => status'[a] \in Done,
         \A s \in Stages : \A a \in Claimed(s) \ Claimed(s)' : status[a] \in Done,
         \A s \in Stages : worker'[s] = "removing" =>
           /\ worker[s] = "removing" /\ todo'[s] \subseteq todo[s]
           /\ \A a \in stage_actors[s] \ stage_actors'[s] : status[a] \in Done
  PROVE  Traced'
<1>0. \A s \in Stages : todo[s] \subseteq Actors /\ stage_actors[s] \subseteq Actors
  BY DEF TypeOK
<1>1. phase' = "building" => \A a \in Actors : status'[a] # "running"
  BY DEF Traced
<1>2. ASSUME phase' = "running", NEW a \in Actors, status'[a] = "running"
      PROVE  \E s \in Stages : a \in Claimed(s)'
  <2>1. PICK s \in Stages : a \in Claimed(s)
    BY <1>2 DEF Traced
  <2> QED
    BY <1>2, <2>1 DEF Done
<1>3. ASSUME phase' = "running", NEW s \in Stages, worker'[s] = "removing", NEW a \in todo'[s]
      PROVE  a \in stage_actors'[s] \/ status'[a] \in Done
  BY <1>0, <1>3 DEF Traced
<1> QED
  BY <1>1, <1>2, <1>3 DEF Traced

LEMMA StepTraced == IInv /\ DoneInv /\ Turns /\ Traced /\ [Next]_vars => Traced'
<1> SUFFICES ASSUME IInv, TypeOK, DoneInv, Turns, Traced, [Next]_vars PROVE Traced'
  BY DEF IInv
<1>0. /\ stage_actors \in [Stages -> SUBSET Actors] /\ todo \in [Stages -> SUBSET Actors]
      /\ worker \in [Stages -> {"idle", "starting", "adding", "removing"}]
      /\ status \in [Actors -> {"unborn", "dead"} \union Alive]
  BY DEF TypeOK
<1>1. ASSUME NEW s \in Stages, BuildStage(s) PROVE Traced'
  BY <1>1 DEF BuildStage, SetStatus, Traced
<1>2. CASE Start
  <2>1. CASE phase' = "running"
    <3>1. \A a \in Actors : status'[a] = "running" => a \in Members
      BY <1>2, <2>1 DEF Start, SetStatus, Traced
    <3>2. \A s \in Stages : worker'[s] = "idle"
      BY <1>2, <2>1 DEF Start, IInv, QuietBuild, workerVars
    <3>3. stage_actors' = stage_actors
      BY <1>2 DEF Start
    <3> QED
      BY <2>1, <3>1, <3>2, <3>3 DEF Traced, Members, Claimed
  <2>2. CASE phase' = "signalling"
    BY <2>2 DEF Traced
  <2> QED
    BY <1>2, <2>1, <2>2 DEF Start
<1>3. CASE Stop \/ JoinScaling \/ SignalAll \/ ClearRuntimeState
  BY <1>3 DEF Stop, JoinScaling, SignalAll, ClearRuntimeState, Traced
<1>4. ASSUME NEW s \in Stages, NEW n \in 0..MaxTarget, ScaleUp(s, n) PROVE Traced'
  <2>1. /\ phase # "building" /\ phase' = phase /\ stage_actors' = stage_actors
        /\ worker[s] = "idle" /\ todo[s] = {}
        /\ <<s, n>> \in plan
    BY <1>4 DEF ScaleUp, Turns, IInv, QuietBuild
  <2>2. CASE UNCHANGED <<created, status, worker, todo>>
    BY <2>1, <2>2, TracedFrame DEF Claimed
  <2>3. CASE /\ \E S : SetStatus(S, "created") /\ \A a \in S \intersect Actors : a > created
             /\ worker' = [worker EXCEPT ![s] = "starting"]
             /\ \E T : todo' = [todo EXCEPT ![s] = T]
    <3>1. \A a \in Actors : /\ status'[a] = "running" => status[a] = "running"
                            /\ status[a] \in Done => status'[a] \in Done
      BY <2>3 DEF SetStatus, DoneInv, Done
    <3>2. /\ \A t \in Stages : todo[t] \subseteq todo'[t]
          /\ \A t \in Stages : worker'[t] = "removing" => t # s /\ worker[t] = "removing"
          /\ \A t \in Stages \ {s} : todo'[t] = todo[t]
      BY <1>0, <2>1, <2>3
    <3> QED
      BY <2>1, <3>1, <3>2, TracedFrame DEF Claimed
  <2>4. \A m \in Int : \A a \in Fresh(m) : a > created
    BY CreatedIsNat DEF Fresh
  <2>5. Clamp(s, n) - Cardinality(stage_actors[s]) \in Int
    <3>1. Cardinality(stage_actors[s]) \in Nat /\ Clamp(s, n) \in Nat
      BY <1>0, ActorSetsAreFinite, ClampBounds
    <3> QED
      BY <3>1
  <2> QED
    BY <1>4, <2>2, <2>3, <2>4, <2>5 DEF ScaleUp
<1>5. ASSUME NEW s \in Stages, NEW n \in 0..MaxTarget, ScaleDown(s, n) PROVE Traced'
  <2>1. /\ phase # "building" /\ phase' = phase /\ stage_actors' = stage_actors
        /\ status' = status
        /\ worker[s] = "idle" /\ todo[s] = {}
        /\ worker' = [worker EXCEPT ![s] = "removing"]
    BY <1>5 DEF ScaleDown, Turns, IInv, QuietBuild
  <2>2. PICK last \in SUBSET stage_actors[s] : todo' = [todo EXCEPT ![s] = last]
    BY <1>5 DEF ScaleDown
  <2>3. \A t \in Stages : Claimed(t)' = Claimed(t)
    BY <1>0, <2>1, <2>2 DEF Claimed
  <2> QED
    BY <1>0, <2>1, <2>2, <2>3 DEF Traced
<1>6. ASSUME NEW s \in Stages, StartReplicas(s) PROVE Traced'
  <2>1. /\ phase # "building" /\ phase' = phase /\ UNCHANGED <<stage_actors, todo>>
        /\ worker' = [worker EXCEPT ![s] = "adding"]
        /\ \A a \in Actors : /\ status'[a] = "running" => status[a] = "running" \/ a \in todo[s]
                             /\ status[a] \in Done => status'[a] \in Done
    BY <1>6 DEF StartReplicas, SetStatus, IInv, QuietBuild, Done
  <2> QED
    BY <1>0, <2>1 DEF Traced, Claimed
<1>7. ASSUME NEW s \in Stages, KillReplicas(s) PROVE Traced'
  <2>1. /\ phase # "building" /\ phase' = phase /\ stage_actors' = stage_actors
        /\ worker' = [worker EXCEPT ![s] = "idle"] /\ todo' = [todo EXCEPT ![s] = {}]
        /\ \A a \in Actors : status'[a] = IF a \in todo[s] THEN "dead" ELSE status[a]
    BY <1>7 DEF KillReplicas, SetStatus, IInv, QuietBuild
  <2> QED
    BY <1>0, <2>1 DEF Traced, Claimed, Done
<1>8. ASSUME NEW s \in Stages, AddActor(s) PROVE Traced'
  <2>1. Least(todo[s]) \in todo[s]
    BY <1>0, <1>8, LeastMember DEF AddActor
  <2>2. \A t \in Stages : Claimed(t)' = Claimed(t)
    BY <1>0, <1>8, <2>1 DEF AddActor, Claimed
  <2>3. /\ phase' = phase /\ status' = status /\ worker' = worker /\ worker[s] = "adding"
        /\ \A t \in Stages \ {s} : todo'[t] = todo[t] /\ stage_actors'[t] = stage_actors[t]
    BY <1>0, <1>8 DEF AddActor
  <2> QED
    BY <2>2, <2>3, TracedFrame
<1>9. ASSUME NEW s \in Stages, FinishScaleUp(s) \/ FinishScaleDown(s) PROVE Traced'
  <2>1. /\ phase' = phase /\ UNCHANGED <<status, todo, stage_actors>>
        /\ worker' = [worker EXCEPT ![s] = "idle"]
    BY <1>9 DEF FinishScaleUp, FinishScaleDown
  <2> QED
    BY <1>0, <2>1, TracedFrame DEF Claimed
<1>10. ASSUME NEW s \in Stages, StopActor(s) PROVE Traced'
  <2>1. /\ phase # "building" /\ phase' = phase /\ UNCHANGED <<stage_actors, worker>>
        /\ worker[s] = "removing"
        /\ Least(todo[s]) \in todo[s]
        /\ todo' = [todo EXCEPT ![s] = todo[s] \ {Least(todo[s])}]
    BY <1>0, <1>10, LeastMember DEF StopActor, IInv, QuietBuild
  <2>2. \A a \in Actors :
          /\ status'[a] = "running" => status[a] = "running" /\ a # Least(todo[s])
          /\ status[a] \in Done => status'[a] \in Done
        \/ status' = status
    BY <1>10 DEF StopActor, Signal, SetStatus, Done
  <2>3. phase = "running" /\ status[Least(todo[s])] \notin Done
          => Least(todo[s]) \in stage_actors[s]
    BY <2>1 DEF Traced
  <2>4. \A t \in Stages : \A a \in Claimed(t) \ Claimed(t)' :
          t = s /\ a = Least(todo[s]) /\ a \notin stage_actors[s]
    BY <1>0, <2>1 DEF Claimed
  <2>5. CASE phase = "running"
    <3>1. \A t \in Stages : \A a \in Claimed(t) \ Claimed(t)' : status[a] \in Done
      BY <2>3, <2>4, <2>5
    <3>2. \A a \in Actors : /\ status'[a] = "running" => status[a] = "running"
                            /\ status[a] \in Done => status'[a] \in Done
      BY <2>2
    <3>3. \A t \in Stages : todo'[t] \subseteq todo[t]
      BY <1>0, <2>1
    <3> QED
      BY <2>1, <3>1, <3>2, <3>3, TracedFrame
  <2>6. CASE phase # "running"
    BY <2>1, <2>6 DEF Traced
  <2> QED
    BY <2>5, <2>6
<1>11. CASE CleanupRemove
  <2>1. /\ phase' = phase /\ UNCHANGED <<status, worker, todo>>
        /\ \A s \in Stages : stage_actors'[s] = stage_actors[s] \ finished
        /\ \A a \in finished : status[a] \in Done
    BY <1>11 DEF CleanupRemove, DoneInv, workerVars
  <2> QED
    BY <2>1, TracedFrame DEF Claimed
<1>12. ASSUME NEW a \in Actors, ActorFinishes(a) \/ ActorDies(a) PROVE Traced'
  <2>1. /\ phase' = phase /\ UNCHANGED <<worker, todo, stage_actors>>
        /\ \A b \in Actors : /\ status'[b] = "running" => status[b] = "running"
                             /\ status[b] \in Done => status'[b] \in Done
    BY <1>12 DEF ActorFinishes, ActorDies, SetStatus, workerVars, Done
  <2> QED
    BY <2>1, TracedFrame DEF Claimed
<1>13. CASE UNCHANGED <<phase, status, worker, todo, stage_actors>>
  BY <1>13, TracedFrame DEF Claimed
<1> QED
  BY <1>1, <1>2, <1>3, <1>4, <1>5, <1>6, <1>7, <1>8, <1>9, <1>10, <1>11, <1>12, <1>13
  DEF Next, Main, Shutdown, Worker, Cleanup, Stopped, vars, workerVars, BeginCycle, EndCycle,
      AtTarget, CleanupScan, CleanupPoll, CleanupStop

\* While the pipeline runs, no replica processes messages that no stage knows of: stop()
\* and the cleanup thread can reach each one.
THEOREM NoReplicaOrphaned == Spec => []NoOrphan
<1>1. Init => IInv /\ DoneInv /\ Turns /\ Traced
  <2>1. Init => Turns /\ Traced
    BY DEF Init, Turns, Traced
  <2> QED
    BY <2>1, InitIInv, InitDoneInv
<1>2. IInv /\ DoneInv /\ Turns /\ Traced /\ [Next]_vars => (IInv /\ DoneInv /\ Turns /\ Traced)'
  BY StepIInv, StepDoneInv, StepTurns, StepTraced DEF IInv
<1>3. Traced => NoOrphan
  BY DEF Traced, NoOrphan, Claimed
<1> QED
  BY <1>1, <1>2, <1>3, PTL DEF Spec

===============================================================================
