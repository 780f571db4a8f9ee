---------------------------- MODULE PidController ----------------------------
(***************************************************************************)
(* The first half of the autoscaler: PIDController.calculate_initial_-     *)
(* proposals for one stage, cycle after cycle, together with the stage it  *)
(* controls.  The controller keeps an accumulated error and a count of     *)
(* idle cycles; the stage's queue grows and drains by itself, and a        *)
(* proposal that passes the stage's bounds may or may not be carried out.  *)
(*                                                                         *)
(* The code computes with floats.  Here an error is counted in tenths and  *)
(* the gains are the defaults of ScalingConfig, kp = 0.2, ki = 0.01,       *)
(* penalty_factor = 0.1 and error_boost_factor = 1.5, as integers.         *)
(***************************************************************************)
EXTENDS Integers

CONSTANTS
  MinStage, MaxStage,   \* min_replicas and max_replicas of the stage
  TargetDepth,          \* target_queue_depth
  Depths,               \* bound: queue depths that are observed
  LeastIntegral, MaxIntegral   \* bounds: accumulated error, in tenths, between which
                               \* work may arrive and proposals may be refused

ASSUME PidAssumption ==
  /\ MinStage \in Nat /\ MaxStage \in Nat \ {0} /\ MinStage <= MaxStage
  /\ TargetDepth \in Nat /\ Depths \subseteq Nat
  /\ LeastIntegral \in Int /\ MaxIntegral \in Nat

VARIABLES
  replicas,         \* replicas of the stage when the cycle begins
  integral_error,   \* in tenths
  idle_cycles,      \* counted up to the number from which the penalty is at its limit
  busy              \* the environment still sends work

pidVars == <<replicas, integral_error, idle_cycles, busy>>

Kp == 200       \* thousandths
Ki == 10        \* thousandths
Boost == 15     \* tenths

\* min(8, penalty_factor * idle_cycles ** 2), in tenths
Penalty(idle) == IF idle * idle > 80 THEN 80 ELSE idle * idle

IdleLimit == 9   \* Penalty is constant from here on

\* round: half to even
Round(n, d) ==
  LET q == n \div d
      r == 2 * (n % d)
  IN  IF r > d \/ (r = d /\ q % 2 = 1) THEN q + 1 ELSE q

\* Mutant: a negative error is never accumulated, at the minimum or above it.
Accumulates_OnlyPositive(error) ==
  /\ ~(replicas >= MaxStage /\ error > 0)
  /\ ~(error < 0)

\* Anti-windup: not at a boundary the error pushes past.
Accumulates(error) ==
  /\ ~(replicas >= MaxStage /\ error > 0)
  /\ ~(replicas <= MinStage /\ error < 0)

\* kp * error + ki * integral, boosted when the queue is above its target.
Delta(error, integral) ==
  Round((Kp * error + Ki * integral) * (IF error > 0 THEN Boost ELSE 10), 100000)

\* Mutant: the pipeline's bounds leave out the maximum.
Bounded_Below(n, in_flight) == IF n < MinStage THEN MinStage ELSE n

\* _enforce_replica_bounds on the proposal, the pipeline being in flight or idle.
Bounded(n, in_flight) ==
  LET low == IF in_flight /\ MinStage = 0 THEN 1 ELSE MinStage
  IN  IF n < low THEN low ELSE IF n > MaxStage THEN MaxStage ELSE n

PidInit ==
  /\ replicas \in MinStage..MaxStage
  /\ integral_error = 0
  /\ idle_cycles = 0
  /\ busy = TRUE

\* calculate_initial_proposals, then the scaling cycle that follows: it reaches the
\* bounded proposal, or leaves the stage as it is.
ScalingCycle(depth, processing, applied) ==
  LET idle     == IF depth = 0 /\ ~processing THEN idle_cycles + 1 ELSE 0
      error    == 10 * (depth - TargetDepth) - Penalty(idle)
      integral == IF Accumulates(error) THEN integral_error + error ELSE integral_error
      target   == Bounded(replicas + Delta(error, integral), depth > 0 \/ processing)
  IN  /\ idle_cycles' = IF idle > IdleLimit THEN IdleLimit ELSE idle
      /\ integral_error' = integral
      /\ replicas' = IF applied THEN target ELSE replicas
      /\ UNCHANGED busy

\* Work arrives, or a proposal is not carried out, while the bound lasts.
BusyCycle ==
  /\ busy
  /\ integral_error \in LeastIntegral..MaxIntegral
  /\ \E depth \in Depths, processing, applied \in BOOLEAN :
       ScalingCycle(depth, processing, applied)

\* An idle pipeline whose proposals are carried out.
IdleCycle == ScalingCycle(0, FALSE, TRUE)

\* No more work will come.
FallSilent == busy /\ busy' = FALSE /\ UNCHANGED <<replicas, integral_error, idle_cycles>>

PidNext == BusyCycle \/ (~busy /\ IdleCycle) \/ FallSilent

PidTypeOK ==
  /\ replicas \in MinStage..MaxStage
  /\ integral_error \in Int /\ idle_cycles \in 0..IdleLimit /\ busy \in BOOLEAN

-----------------------------------------------------------------------------
\* The stage is at its minimum, if the pipeline is idle.
Shrunk == busy \/ replicas = MinStage

\* Whatever error a backlog has accumulated, once the pipeline is idle, which is for ever,
\* the penalty wins: the stage goes down to its minimum and stays there.
IdleShrinks == <>[]Shrunk
==============================================================================
