------------------------- MODULE ResourceConstraints -------------------------
(***************************************************************************)
(* The second half of the autoscaler: ResourceConstraintManager turns the  *)
(* replica counts the PID controller proposes into the counts the scaling  *)
(* cycle applies, in five phases.  It keeps no state, so the model is the  *)
(* function it computes, and a behaviour is one call: a request chosen     *)
(* among the bounded ones and the decision on it.  Memory is counted in    *)
(* units of MB and factors are kept as exact fractions.                    *)
(***************************************************************************)
EXTENDS Integers, FiniteSets, Selections

CONSTANTS
  Managed,              \* the stages of the pipeline
  Floor, Ceiling,       \* min_replicas and max_replicas of each
  CostMB,               \* conservative_cost_estimate of each
  MemoryLimit,          \* effective_memory_limit_mb
  MaxTotals,            \* self.max_replicas: the values it may have
  CoreLimits,           \* core_based_replica_limit: the values it may have
  MaxCurrent,           \* bound: replicas a stage may have
  Proposals,            \* bound: what the PID controller may propose
  MemoryUses,           \* bound: the memory that may be in use
  NoDecision

ASSUME ConstraintsAssumption ==
  /\ IsFiniteSet(Managed)
  /\ Floor \in [Managed -> Nat] /\ Ceiling \in [Managed -> Nat]
  /\ CostMB \in [Managed -> Nat \ {0}]
  /\ MemoryLimit \in Nat
  /\ MaxTotals \subseteq Nat /\ CoreLimits \subseteq Nat
  /\ MaxCurrent \in Nat /\ Proposals \subseteq Int /\ MemoryUses \subseteq Nat

VARIABLES
  request,      \* the arguments of apply_constraints and the manager's limits
  adjustments   \* what it returns

constraintVars == <<request, adjustments>>

Larger(a, b)  == IF a < b THEN b ELSE a
Smaller(a, b) == IF a < b THEN a ELSE b

Total(f) == SumOver(f, Managed)

\* _get_effective_min_replicas: while anything is in flight no stage may go to zero.
EffectiveMin(req, s) == IF req.in_flight > 0 THEN Larger(1, Floor[s]) ELSE Floor[s]

SumOfMins(req) == Total([s \in Managed |-> EffectiveMin(req, s)])

-----------------------------------------------------------------------------
\* _apply_aggressive_memory_scale_down: over the memory limit, a quarter of every
\* proposal above one goes, at least one replica, down to the effective minimum.
AggressiveScaleDown(req) ==
  [s \in Managed |->
     LET p   == req.proposed[s]
         cut == Larger(1, p \div 4)
     IN  IF req.memory > MemoryLimit /\ p > 1
           THEN Smaller(p, Larger(EffectiveMin(req, s), p - cut))
           ELSE p]

\* The minimums alone leave room under both replica caps.
RoomToScaleUp(req) == SumOfMins(req) < req.max_replicas /\ SumOfMins(req) < req.cores

\* What each stage asks for above its effective minimum.
Increase(req, prior) == [s \in Managed |-> Larger(0, prior[s] - EffectiveMin(req, s))]

IncreaseMB(req, prior) == Total([s \in Managed |-> Increase(req, prior)[s] * CostMB[s]])

\* The limits that bind, each as <<what may be added, what is asked for>>.
Factors(req, prior) ==
  LET asked  == Total(Increase(req, prior))
      caps   == {cap \in {req.max_replicas, req.cores} : SumOfMins(req) + asked > cap}
      memory == IncreaseMB(req, prior)
  IN  {<<Larger(0, cap - SumOfMins(req)), asked>> : cap \in caps}
        \union (IF req.memory + memory > MemoryLimit
                  THEN {<<Larger(0, MemoryLimit - req.memory), memory>>} ELSE {})

\* reduction_factor, the least of them, as a fraction.
ReductionFactor(req, prior) ==
  LET all == Factors(req, prior) \union {<<1, 1>>}
  IN  CHOOSE f \in all : \A g \in all : f[1] * g[2] <= g[1] * f[2]

FullyConstrained(req, prior) ==
  LET f == ReductionFactor(req, prior) IN f[1] * 1000 <= f[2]

\* A prior value that is respected below an effective minimum of zero only.
AtLeastMin(req, prior) ==
  [s \in Managed |-> IF EffectiveMin(req, s) = 0 THEN prior[s]
                     ELSE Larger(prior[s], EffectiveMin(req, s))]

\* Mutant: the share of a stage is rounded up.
Share_RoundedUp(f, asked) == (asked * f[1] + f[2] - 1) \div f[2]

\* math.floor(increase * reduction_factor)
Share(f, asked) == (asked * f[1]) \div f[2]

\* _apply_global_constraints_proportional
Proportional(req, prior) ==
  IF ~RoomToScaleUp(req)
    THEN [s \in Managed |-> Smaller(prior[s], req.current[s])]
  ELSE IF Total(Increase(req, prior)) = 0 \/ FullyConstrained(req, prior)
    THEN AtLeastMin(req, prior)
  ELSE LET f == ReductionFactor(req, prior)
       IN  [s \in Managed |-> EffectiveMin(req, s) + Share(f, Increase(req, prior)[s])]

\* _enforce_replica_bounds
EnforceBounds(req, n) ==
  [s \in Managed |-> Smaller(Larger(EffectiveMin(req, s), n[s]), Ceiling[s])]

\* _apply_global_consistency: when one stage leaves zero, every stage does.
GlobalConsistency(req, n) ==
  IF \E s \in Managed : req.current[s] = 0 /\ n[s] > 0
    THEN [s \in Managed |-> IF req.current[s] = 0 /\ n[s] = 0
                              THEN Smaller(Larger(1, Floor[s]), Ceiling[s]) ELSE n[s]]
    ELSE n

\* apply_constraints
ApplyConstraints(req) ==
  GlobalConsistency(req, EnforceBounds(req, Proportional(req, AggressiveScaleDown(req))))

-----------------------------------------------------------------------------
Requests ==
  [current : [Managed -> 0..MaxCurrent], proposed : [Managed -> Proposals],
   in_flight : {0, 1}, memory : MemoryUses, max_replicas : MaxTotals, cores : CoreLimits]

ConstraintsInit == request \in Requests /\ adjustments = NoDecision

\* _calculate_scaling_adjustments
CalculateScalingAdjustments ==
  /\ adjustments = NoDecision
  /\ adjustments' = ApplyConstraints(request)
  /\ UNCHANGED request

ConstraintsTypeOK ==
  request \in Requests /\ adjustments \in [Managed -> Nat] \union {NoDecision}

-----------------------------------------------------------------------------
Decided == adjustments # NoDecision

Exhausted ==
  LET prior == AggressiveScaleDown(request)
  IN  /\ RoomToScaleUp(request)
      /\ Total(Increase(request, prior)) > 0
      /\ FullyConstrained(request, prior)

\* Stages that the consistency phase takes from zero to its minimum.
Woken == {s \in Managed : request.current[s] = 0 /\ adjustments[s] = Larger(1, Floor[s])}

\* Proportional sharing respects every global limit at once: the decision exceeds the
\* replica caps, and what stages get above their minimums exceeds the free memory, by no
\* more than the woken stages.  When the minimums alone reach a cap, no stage grows past
\* its minimum.  Left out is the case in which a limit leaves nothing at all: there the code
\* logs that "Stages will remain at their effective minimums" (pid_controller.py:558) and
\* grants every proposal whole.
WithinLimits ==
  Decided /\ ~Exhausted =>
    IF RoomToScaleUp(request)
      THEN /\ Total(adjustments)
                <= Smaller(request.max_replicas, request.cores) + Cardinality(Woken)
           /\ IncreaseMB(request, adjustments)
                <= Larger(0, MemoryLimit - request.memory)
                     + SumOver(CostMB, Woken)
      ELSE \A s \in Managed :
             adjustments[s] <= Larger(request.current[s], Larger(1, EffectiveMin(request, s)))

\* While anything is in flight every stage that may have a replica gets one, whatever the
\* earlier phases cut, and a decision that wakes one stage wakes every other that is at
\* zero.  It does not hold back a stage that goes to zero in the same decision, with
\* nothing in flight: the wake-up looks at the current counts only, though its docstring
\* speaks of a pipeline that does not get stuck.
ZerosWake ==
  Decided => \A s \in Managed : Ceiling[s] > 0 =>
    /\ request.in_flight > 0 => adjustments[s] > 0
    /\ request.current[s] = 0 /\ (\E t \in Managed : request.current[t] = 0 /\ adjustments[t] > 0)
         => adjustments[s] > 0

\* A decision neither exceeds what there is, nor cuts a pipeline that has work, nor wakes
\* only some of the stages that are at zero.
DecisionsSound == WithinLimits /\ ZerosWake
=============================================================================
