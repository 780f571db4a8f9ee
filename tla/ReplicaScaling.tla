---------------------------- MODULE ReplicaScaling ----------------------------
(***************************************************************************)
(* Replica management of the Ray pipeline: PipelineTopology, the scaling   *)
(* workers of RayPipeline, the topology's cleanup thread, and the pipeline *)
(* life cycle build, start and stop.                                       *)
(*                                                                         *)
(* Four kinds of threads share the topology: the main thread (build, start,*)
(* stop), the scaling thread (one cycle at a time, under _state_lock), one *)
(* worker per stage inside a cycle, and the cleanup thread.  Ray actors    *)
(* change on their own: they finish a shutdown and they may die.           *)
(*                                                                         *)
(* Actors are numbered in the order they are created.  A stage's list is   *)
(* only appended to in that order and list.remove keeps it, so the list is *)
(* the set of its members and "the last n" are the n greatest.             *)
(***************************************************************************)
EXTENDS Integers, FiniteSets

CONSTANTS
  Stages,
  MinReplicas, MaxReplicas,  \* bounds of each stage
  Initial,                   \* how many actors the build creates for each stage
  MaxActors,                 \* bound: actors Ray can create before creation fails
  MaxTarget                  \* bound: largest target the autoscaler computes

Actors == 1..MaxActors

\* StageInfo bounds; _instantiate_initial_actors creates max_replicas actors, or
\* min_replicas (at least one for a source or a sink) under dynamic scaling.
ASSUME ScalingAssumption ==
  /\ MinReplicas \in [Stages -> Nat]
  /\ MaxReplicas \in [Stages -> Nat]
  /\ Initial \in [Stages -> Nat]
  /\ \A s \in Stages : MinReplicas[s] <= Initial[s] /\ Initial[s] <= MaxReplicas[s]
  /\ MaxActors \in Nat
  /\ MaxTarget \in Nat
  /\ IsFiniteSet(Stages)

VARIABLES
  created,        \* actors created so far: 1..created
  status,         \* life of each actor
  stage_actors,   \* topology._stage_actors: the members of each stage's list
  scaling_state,  \* topology._scaling_state
  pending,        \* topology._actors_pending_removal
  plan,           \* final_adjustments of the cycle not yet applied: <<stage, target>>
  cycle,          \* the scaling thread is inside a cycle
  worker,         \* what the scaling worker of each stage is doing
  todo,           \* the actors that worker has still to add or to stop
  cleaner,        \* where the cleanup thread is
  scan,           \* its copy of the pending set, not yet polled
  finished,       \* the polled actors it will remove
  phase,          \* where the main thread is
  signalled       \* history: actors that were told to stop

workerVars  == <<plan, cycle, worker, todo>>
cleanerVars == <<cleaner, scan, finished>>
vars == <<created, status, stage_actors, scaling_state, pending, workerVars, cleanerVars,
          phase, signalled>>

Clamp(s, n) == IF n < MinReplicas[s] THEN MinReplicas[s]
               ELSE IF n > MaxReplicas[s] THEN MaxReplicas[s] ELSE n

Fresh(n) == created + 1 .. created + n

SetStatus(S, to) == status' = [a \in Actors |-> IF a \in S THEN to ELSE status[a]]

Alive == {"created", "running", "stopping", "complete"}

-----------------------------------------------------------------------------
Init ==
  /\ created = 0
  /\ status = [a \in Actors |-> "unborn"]
  /\ stage_actors = [s \in Stages |-> {}]
  /\ scaling_state = [s \in Stages |-> "Idle"]
  /\ pending = {}
  /\ plan = {}
  /\ cycle = FALSE
  /\ worker = [s \in Stages |-> "idle"]
  /\ todo = [s \in Stages |-> {}]
  /\ cleaner = "stopped"
  /\ scan = {}
  /\ finished = {}
  /\ phase = "building"
  /\ signalled = {}

-----------------------------------------------------------------------------
(* The main thread. *)

\* _instantiate_initial_actors, one stage at a time; every stage is still empty.
BuildStage(s) ==
  /\ phase = "building"
  /\ stage_actors[s] = {}
  /\ Initial[s] > 0
  /\ created + Initial[s] <= MaxActors
  /\ created' = created + Initial[s]
  /\ SetStatus(Fresh(Initial[s]), "created")
  /\ stage_actors' = [stage_actors EXCEPT ![s] = Fresh(Initial[s])]
  /\ UNCHANGED <<scaling_state, pending, workerVars, cleanerVars, phase, signalled>>

Members == UNION {stage_actors[s] : s \in Stages}

Built == \A s \in Stages : Initial[s] > 0 => stage_actors[s] # {}

\* start: all actors confirm, then the background threads start.  Actors that do not
\* confirm make it call stop instead.
Start ==
  /\ phase = "building"
  /\ Built
  /\ Members # {}
  /\ \/ /\ SetStatus({a \in Members : status[a] = "created"}, "running")
        /\ cleaner' = "idle"
        /\ phase' = "running"
     \/ /\ phase' = "signalling"
        /\ \E S \in SUBSET {a \in Members : status[a] = "created"} : SetStatus(S, "running")
        /\ UNCHANGED cleaner
  /\ UNCHANGED <<created, stage_actors, scaling_state, pending, workerVars, scan, finished, signalled>>

\* stop: _stopping is set and _stop_scaling begins to join the scaling thread.
Stop ==
  /\ phase = "running" \/ (phase = "building" /\ Built)
  /\ phase' = "joining"
  /\ UNCHANGED <<created, status, stage_actors, scaling_state, pending, workerVars, cleanerVars, signalled>>

\* The join returns when the scaling thread is done or after 15 seconds; a scaling
\* cycle may take 180.
JoinScaling ==
  /\ phase = "joining"
  /\ phase' = "signalling"
  /\ UNCHANGED <<created, status, stage_actors, scaling_state, pending, workerVars, cleanerVars, signalled>>

\* A replica's stop() clears its _running flag; its loop ends later.  Calls on one actor
\* are executed in order, so a start() still queued runs before the stop().
Signal(S) ==
  /\ SetStatus({a \in S : status[a] \in {"created", "running"}}, "stopping")
  /\ signalled' = signalled \union S

\* stop() is declared with num_returns = 0, so the futures are None and ray.wait raises
\* at once; the error is logged and the shutdown goes on.
SignalAll ==
  /\ phase = "signalling"
  /\ Signal(Members)
  /\ phase' = "clearing"
  /\ UNCHANGED <<created, stage_actors, scaling_state, pending, workerVars, cleanerVars>>

\* stop_cleanup_thread joins for at most 5 seconds; clear_runtime_state forgets lists and
\* states and keeps _actors_pending_removal.
ClearRuntimeState ==
  /\ phase = "clearing"
  /\ phase' = "stopped"
  /\ stage_actors' = [s \in Stages |-> {}]
  /\ scaling_state' = [s \in Stages |-> "Idle"]
  /\ UNCHANGED <<created, status, pending, workerVars, cleanerVars, signalled>>

-----------------------------------------------------------------------------
(* The scaling thread. *)

\* _perform_scaling_and_maintenance, up to the targets of the autoscaler: _stopping was
\* looked at, _state_lock is held.
BeginCycle ==
  /\ phase = "running"
  /\ ~cycle
  /\ cycle' = TRUE
  /\ \E targets \in [Stages -> 0..MaxTarget] : plan' = {<<s, targets[s]>> : s \in Stages}
  /\ UNCHANGED <<created, status, stage_actors, scaling_state, pending, worker, todo,
                 cleanerVars, phase, signalled>>

\* _apply_scaling_actions returns when every worker has.
EndCycle ==
  /\ cycle
  /\ plan = {}
  /\ \A s \in Stages : worker[s] = "idle"
  /\ cycle' = FALSE
  /\ UNCHANGED <<created, status, stage_actors, scaling_state, pending, plan, worker, todo,
                 cleanerVars, phase, signalled>>

\* At the target: _apply_scaling_actions skips the stage, or, if the list changed after
\* it looked, _scale_stage resets an old "Error".
AtTarget(s, n) ==
  /\ <<s, n>> \in plan
  /\ plan' = plan \ {<<s, n>>}
  /\ Clamp(s, n) = Cardinality(stage_actors[s])
  /\ scaling_state' \in {scaling_state, [scaling_state EXCEPT ![s] = "Idle"]}
  /\ UNCHANGED <<created, status, stage_actors, pending, cycle, worker, todo, cleanerVars, phase, signalled>>

\* Mutant: the replicas pending removal are not counted.
ScaleUp_CountsLive(s, n) ==
  LET missing == Clamp(s, n) - Cardinality(stage_actors[s] \ pending) IN
  /\ <<s, n>> \in plan
  /\ plan' = plan \ {<<s, n>>}
  /\ missing > 0
  /\ created + missing <= MaxActors
  /\ created' = created + missing
  /\ SetStatus(Fresh(missing), "created")
  /\ worker' = [worker EXCEPT ![s] = "starting"]
  /\ todo' = [todo EXCEPT ![s] = Fresh(missing)]
  /\ scaling_state' = [scaling_state EXCEPT ![s] = "Scaling Up"]
  /\ UNCHANGED <<stage_actors, pending, cycle, cleanerVars, phase, signalled>>

\* Mutant: a creation that fails is not noticed.
ScaleUp_Unchecked(s, n) ==
  LET missing == Clamp(s, n) - Cardinality(stage_actors[s]) IN
  /\ <<s, n>> \in plan
  /\ plan' = plan \ {<<s, n>>}
  /\ missing > 0
  /\ created' = created + missing
  /\ SetStatus(Fresh(missing), "created")
  /\ worker' = [worker EXCEPT ![s] = "starting"]
  /\ todo' = [todo EXCEPT ![s] = Fresh(missing)]
  /\ scaling_state' = [scaling_state EXCEPT ![s] = "Scaling Up"]
  /\ UNCHANGED <<stage_actors, pending, cycle, cleanerVars, phase, signalled>>

\* _handle_scale_up: create the missing replicas, wire and start them.  A failure kills
\* every one of them.
ScaleUp(s, n) ==
  LET missing == Clamp(s, n) - Cardinality(stage_actors[s]) IN
  /\ <<s, n>> \in plan
  /\ plan' = plan \ {<<s, n>>}
  /\ missing > 0
  /\ \/ /\ created + missing <= MaxActors
        /\ created' = created + missing
        /\ SetStatus(Fresh(missing), "created")
        /\ worker' = [worker EXCEPT ![s] = "starting"]
        /\ todo' = [todo EXCEPT ![s] = Fresh(missing)]
        /\ scaling_state' = [scaling_state EXCEPT ![s] = "Scaling Up"]
     \/ /\ created + missing > MaxActors
        /\ scaling_state' = [scaling_state EXCEPT ![s] = "Error"]
        /\ UNCHANGED <<created, status, worker, todo>>
  /\ UNCHANGED <<stage_actors, pending, cycle, cleanerVars, phase, signalled>>

StartReplicas(s) ==
  /\ worker[s] = "starting"
  /\ SetStatus({a \in todo[s] : status[a] = "created"}, "running")
  /\ worker' = [worker EXCEPT ![s] = "adding"]
  /\ UNCHANGED <<created, stage_actors, scaling_state, pending, plan, cycle, todo, cleanerVars,
                 phase, signalled>>

\* Mutant: actors that had confirmed their start when another failed are left running.
KillReplicas_LeavesStarted(s) ==
  /\ worker[s] = "starting"
  /\ \E S \in SUBSET todo[s] : SetStatus(S, "running")
  /\ worker' = [worker EXCEPT ![s] = "idle"]
  /\ todo' = [todo EXCEPT ![s] = {}]
  /\ scaling_state' = [scaling_state EXCEPT ![s] = "Error"]
  /\ UNCHANGED <<created, stage_actors, pending, plan, cycle, cleanerVars, phase, signalled>>

KillReplicas(s) ==
  /\ worker[s] = "starting"
  /\ SetStatus(todo[s], "dead")
  /\ worker' = [worker EXCEPT ![s] = "idle"]
  /\ todo' = [todo EXCEPT ![s] = {}]
  /\ scaling_state' = [scaling_state EXCEPT ![s] = "Error"]
  /\ UNCHANGED <<created, stage_actors, pending, plan, cycle, cleanerVars, phase, signalled>>

Least(S) == CHOOSE a \in S : \A b \in S : a <= b

\* topology.add_actor_to_stage, one actor at a time, in creation order.
AddActor(s) ==
  /\ worker[s] = "adding"
  /\ todo[s] # {}
  /\ stage_actors' = [stage_actors EXCEPT ![s] = @ \union {Least(todo[s])}]
  /\ todo' = [todo EXCEPT ![s] = @ \ {Least(@)}]
  /\ UNCHANGED <<created, status, scaling_state, pending, plan, cycle, worker, cleanerVars, phase, signalled>>

\* The finally clause of _handle_scale_up.
FinishScaleUp(s) ==
  /\ worker[s] = "adding"
  /\ todo[s] = {}
  /\ worker' = [worker EXCEPT ![s] = "idle"]
  /\ scaling_state' = [scaling_state EXCEPT ![s] = "Idle"]
  /\ UNCHANGED <<created, status, stage_actors, pending, plan, cycle, todo, cleanerVars, phase, signalled>>

\* Mutant: members pending removal are counted, but others are stopped.
ScaleDown_Live(s, n) ==
  LET excess == Cardinality(stage_actors[s]) - Clamp(s, n) IN
  /\ <<s, n>> \in plan
  /\ plan' = plan \ {<<s, n>>}
  /\ excess > 0
  /\ worker' = [worker EXCEPT ![s] = "removing"]
  /\ \E last \in SUBSET (stage_actors[s] \ pending) :
       /\ Cardinality(last) = excess
       /\ todo' = [todo EXCEPT ![s] = last]
  /\ UNCHANGED <<created, status, stage_actors, scaling_state, pending, cycle, cleanerVars, phase, signalled>>

\* _handle_scale_down: the last (count - target) members of the list, whether or not
\* they are already pending removal.
ScaleDown(s, n) ==
  LET excess == Cardinality(stage_actors[s]) - Clamp(s, n) IN
  /\ <<s, n>> \in plan
  /\ plan' = plan \ {<<s, n>>}
  /\ excess > 0
  /\ worker' = [worker EXCEPT ![s] = "removing"]
  /\ \E last \in SUBSET stage_actors[s] :
       /\ Cardinality(last) = excess
       /\ \A a \in last, b \in stage_actors[s] \ last : b < a
       /\ todo' = [todo EXCEPT ![s] = last]
  /\ UNCHANGED <<created, status, stage_actors, scaling_state, pending, cycle, cleanerVars, phase, signalled>>

\* One turn of its loop: stop the actor and mark it for removal, or log a failed call.
StopActor(s) ==
  /\ worker[s] = "removing"
  /\ todo[s] # {}
  /\ \/ /\ Signal({Least(todo[s])})
        /\ pending' = pending \union {Least(todo[s])}
     \/ UNCHANGED <<status, signalled, pending>>
  /\ todo' = [todo EXCEPT ![s] = @ \ {Least(@)}]
  /\ UNCHANGED <<created, stage_actors, scaling_state, plan, cycle, worker, cleanerVars, phase>>

FinishScaleDown(s) ==
  /\ worker[s] = "removing"
  /\ todo[s] = {}
  /\ worker' = [worker EXCEPT ![s] = "idle"]
  /\ UNCHANGED <<created, status, stage_actors, scaling_state, pending, plan, cycle, todo,
                 cleanerVars, phase, signalled>>

-----------------------------------------------------------------------------
(* The cleanup thread. *)

\* It looks at _stop_cleanup before a round and copies the pending set under the lock.
CleanupScan ==
  /\ cleaner = "idle"
  /\ pending # {}
  /\ cleaner' = "polling"
  /\ scan' = pending
  /\ UNCHANGED <<created, status, stage_actors, scaling_state, pending, workerVars, finished,
                 phase, signalled>>

\* Mutant: the answer of the poll is not looked at.
CleanupPoll_Assumes(a) ==
  /\ cleaner = "polling"
  /\ a \in scan
  /\ scan' = scan \ {a}
  /\ finished' = finished \union {a}
  /\ UNCHANGED <<created, status, stage_actors, scaling_state, pending, workerVars, cleaner,
                 phase, signalled>>

\* Mutant: an actor that died is never counted as shut down.
CleanupPoll_IgnoresDead(a) ==
  /\ cleaner = "polling"
  /\ a \in scan
  /\ scan' = scan \ {a}
  /\ finished' = IF status[a] = "complete" THEN finished \union {a} ELSE finished
  /\ UNCHANGED <<created, status, stage_actors, scaling_state, pending, workerVars, cleaner,
                 phase, signalled>>

\* is_shutdown_complete; a RayActorError counts as a finished shutdown.
CleanupPoll(a) ==
  /\ cleaner = "polling"
  /\ a \in scan
  /\ scan' = scan \ {a}
  /\ finished' = IF status[a] \in {"complete", "dead"} THEN finished \union {a} ELSE finished
  /\ UNCHANGED <<created, status, stage_actors, scaling_state, pending, workerVars, cleaner,
                 phase, signalled>>

\* The removal, under the lock.
CleanupRemove ==
  /\ cleaner = "polling"
  /\ scan = {}
  /\ pending' = pending \ finished
  /\ stage_actors' = [s \in Stages |-> stage_actors[s] \ finished]
  /\ finished' = {}
  /\ cleaner' = "idle"
  /\ UNCHANGED <<created, status, scaling_state, workerVars, scan, phase, signalled>>

\* stop_cleanup_thread takes effect at the head of the loop.
CleanupStop ==
  /\ cleaner = "idle"
  /\ phase \in {"clearing", "stopped"}
  /\ cleaner' = "stopped"
  /\ UNCHANGED <<created, status, stage_actors, scaling_state, pending, workerVars, scan,
                 finished, phase, signalled>>

-----------------------------------------------------------------------------
(* Actors, on their own. *)

\* A signalled replica's loop ends after the item it is working on.
ActorFinishes(a) ==
  /\ status[a] = "stopping"
  /\ SetStatus({a}, "complete")
  /\ UNCHANGED <<created, stage_actors, scaling_state, pending, workerVars, cleanerVars, phase, signalled>>

\* max_restarts = 0: an actor whose process dies stays dead.
ActorDies(a) ==
  /\ status[a] \in Alive
  /\ SetStatus({a}, "dead")
  /\ UNCHANGED <<created, stage_actors, scaling_state, pending, workerVars, cleanerVars, phase, signalled>>

\* The pipeline is stopped and no thread is left in it.
Stopped ==
  /\ phase = "stopped"
  /\ ~cycle
  /\ cleaner = "stopped"
  /\ UNCHANGED vars

-----------------------------------------------------------------------------
Main == (\E s \in Stages : BuildStage(s)) \/ Start \/ Stop
Shutdown == JoinScaling \/ SignalAll \/ ClearRuntimeState

Worker(s) ==
  \/ \E n \in 0..MaxTarget : AtTarget(s, n) \/ ScaleUp(s, n) \/ ScaleDown(s, n)
  \/ StartReplicas(s) \/ KillReplicas(s) \/ AddActor(s) \/ FinishScaleUp(s)
  \/ StopActor(s) \/ FinishScaleDown(s)

Cleanup == CleanupScan \/ (\E a \in Actors : CleanupPoll(a)) \/ CleanupRemove \/ CleanupStop

Next ==
  \/ Main \/ Shutdown
  \/ BeginCycle \/ EndCycle
  \/ \E s \in Stages : Worker(s)
  \/ Cleanup
  \/ \E a \in Actors : ActorFinishes(a) \/ ActorDies(a)
  \/ Stopped

Spec == Init /\ [][Next]_vars

\* Threads are scheduled and every remote call they wait for returns or fails; a
\* signalled replica leaves its loop.  Whether a cycle starts, an actor dies or the
\* pipeline is stopped is nobody's duty.
Fairness ==
  /\ WF_vars(Shutdown)
  /\ WF_vars(EndCycle)
  /\ \A s \in Stages : WF_vars(Worker(s))
  /\ WF_vars(Cleanup)
  /\ \A a \in Actors : WF_vars(ActorFinishes(a))

FairSpec == Spec /\ Fairness

-----------------------------------------------------------------------------
(* Properties. *)

\* The variables have their types.
TypeOK ==
  /\ created \in 0..MaxActors
  /\ status \in [Actors -> {"unborn", "dead"} \union Alive]
  /\ stage_actors \in [Stages -> SUBSET Actors]
  /\ scaling_state \in [Stages -> {"Idle", "Scaling Up", "Scaling Down", "Error"}]
  /\ pending \subseteq Actors
  /\ plan \subseteq Stages \X (0..MaxTarget)
  /\ cycle \in BOOLEAN
  /\ worker \in [Stages -> {"idle", "starting", "adding", "removing"}]
  /\ todo \in [Stages -> SUBSET Actors]
  /\ cleaner \in {"stopped", "idle", "polling"}
  /\ scan \subseteq Actors
  /\ finished \subseteq Actors
  /\ phase \in {"building", "running", "joining", "signalling", "clearing", "stopped"}
  /\ signalled \subseteq Actors

\* Repeated scale-downs that overlap a slow cleanup never stop the replicas a stage must
\* keep: at least min_replicas members were never told to stop (_scale_stage counts the
\* members that are pending removal too).
KeepsMinimum ==
  phase = "running" =>
    \A s \in Stages : Cardinality(stage_actors[s] \ signalled) >= MinReplicas[s]

\* A stage never has more than max_replicas actors, the ones being started and the ones
\* still shutting down included.
AtMostMaximum ==
  phase \in {"running", "joining", "signalling"} =>
    \A s \in Stages :
      Cardinality(stage_actors[s] \union (IF worker[s] = "removing" THEN {} ELSE todo[s]))
        <= MaxReplicas[s]

\* While the pipeline runs, a replica that processes messages is known to it: a member
\* of a stage or in the hands of the worker that is adding it.
NoOrphan ==
  phase = "running" =>
    \A a \in Actors :
      status[a] = "running" => \E s \in Stages : a \in stage_actors[s] \union todo[s]

\* The topology forgets a replica only once its loop has ended or its process is gone,
\* except when stop() forgets everything.
ForgottenOnlyWhenDone ==
  [][phase # "clearing" =>
       \A s \in Stages : \A a \in stage_actors[s] \ stage_actors'[s] :
         status[a] \in {"complete", "dead"}]_vars

\* A replica told to stop does not stay in its stage's list while the pipeline runs.
StoppedIsRemoved ==
  \A s \in Stages, a \in Actors :
    (a \in stage_actors[s] /\ a \in signalled) ~> (a \notin stage_actors[s])

\* A stage does not stay in "Scaling Up".
ScalingSettles ==
  \A s \in Stages : scaling_state[s] = "Scaling Up" ~> scaling_state[s] # "Scaling Up"

\* Scaling in either direction ends: what is told to stop goes, what is being added settles.
ScalingEnds == StoppedIsRemoved /\ ScalingSettles

\* stop() "Stops the pipeline and all associated actors and threads"
\* (ray_pipeline.py:1560): no replica keeps running.
StopLeavesNothingRunning == phase = "stopped" => \A a \in Actors : status[a] # "running"

===============================================================================
