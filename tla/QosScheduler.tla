----------------------------- MODULE QosScheduler -----------------------------
(***************************************************************************)
(* The scheduler by which a source stage takes jobs from the task queues   *)
(* of the service: one queue of immediate jobs and one per size category.  *)
(* A sweep (try_once) makes non-blocking fetches in an order that depends  *)
(* on the strategy, while the service adds jobs and other sources take     *)
(* them.  fetch_next only repeats sweeps; its simple mode, one blocking    *)
(* fetch of the base queue, has nothing to schedule and is left out.       *)
(*                                                                         *)
(* A queue is empty or not.  The weights the smooth round robin keeps sink *)
(* for ever while queues are empty, but only their differences count: they *)
(* are kept relative to the greatest.                                      *)
(***************************************************************************)
EXTENDS Integers, Sequences, FiniteSets, FiniteSetsExt

CONSTANTS
  Order,        \* _non_immediate_order, a sequence of categories
  Weight,       \* _weights of the categories
  Strategies,   \* the strategies to look at
  Immediate,    \* the queue of immediate jobs
  NoCategory

Categories == {Order[i] : i \in DOMAIN Order}
Size == Len(Order)

ASSUME QosAssumption ==
  /\ Order \in Seq(Categories) /\ Size > 0 /\ Cardinality(Categories) = Size
  /\ Weight \in [Categories -> Nat \ {0}]
  /\ Strategies \subseteq {"lottery", "round_robin", "weighted_round_robin"}
  /\ Immediate \notin Categories /\ NoCategory \notin Categories

VARIABLES
  strategy, prioritize_immediate,
  filled,     \* the queues that are not empty
  sweep,      \* where try_once is
  tried,      \* categories at which this sweep got nothing
  idx,        \* position of the round robin, from 0
  current,    \* _current of the weighted round robin, relative to the greatest
  steady,     \* history: queues that since the sweep began were never empty and no fetch failed at
  watched,    \* history: one category, to see how long it waits
  overtaken   \* history: jobs of other categories taken while it was never empty, nor a
              \*   fetch failed at it

sweepVars == <<sweep, tried, steady>>
qosVars == <<strategy, prioritize_immediate, filled, sweepVars, idx, current, watched,
             overtaken>>

TotalWeight == MapThenSumSet(LAMBDA c : Weight[c], Categories)

-----------------------------------------------------------------------------
QosInit ==
  /\ strategy \in Strategies
  /\ prioritize_immediate \in BOOLEAN
  /\ filled = {}
  /\ sweep = "idle" /\ tried = {} /\ steady = {}
  /\ idx = 0
  /\ current = [c \in Categories |-> 0]
  /\ watched \in IF strategy = "round_robin" THEN Categories ELSE {NoCategory}
  /\ overtaken = 0

\* The service submits a job.
Arrive(q) ==
  /\ q \notin filled
  /\ filled' = filled \union {q}
  /\ UNCHANGED <<strategy, prioritize_immediate, sweepVars, idx, current, watched, overtaken>>

\* A queue becomes empty, by this sweep's fetch or by another source.
Emptied(q) ==
  /\ filled' = filled \ {q}
  /\ steady' = steady \ {q}

\* Another source takes the last job of a queue.
TakenByOther(q) ==
  /\ q \in filled
  /\ Emptied(q)
  /\ overtaken' = IF q = watched THEN 0 ELSE overtaken
  /\ UNCHANGED <<strategy, prioritize_immediate, sweep, tried, idx, current, watched>>

BeginSweep ==
  /\ sweep = "idle"
  /\ sweep' = IF prioritize_immediate THEN "immediate" ELSE "choosing"
  /\ tried' = {}
  /\ steady' = filled
  /\ UNCHANGED <<strategy, prioritize_immediate, filled, idx, current, watched, overtaken>>

\* The sweep returns a job of queue q, which may have been its last.
Return(q) ==
  /\ sweep' = "idle"
  /\ tried' = {}
  /\ Emptied(q) \/ UNCHANGED <<filled, steady>>

\* fetch_message returns None: the queue is empty, or its pop failed, which the client
\* swallows.  If only the answer was lost, the job, perhaps the last, is gone.
NoneFetched(q) ==
  \/ q \notin filled /\ UNCHANGED <<filled, steady, overtaken>>
  \/ /\ q \in filled
     /\ filled' \in {filled, filled \ {q}}
     /\ steady' = steady \ {q}
     /\ overtaken' = IF q = watched THEN 0 ELSE overtaken

TryImmediate ==
  /\ sweep = "immediate"
  /\ \/ Immediate \in filled /\ Return(Immediate) /\ UNCHANGED overtaken
     \/ NoneFetched(Immediate) /\ sweep' = "choosing" /\ UNCHANGED tried
  /\ UNCHANGED <<strategy, prioritize_immediate, idx, current, watched>>

Active == Categories \ tried

Position(c) == CHOOSE i \in DOMAIN Order : Order[i] = c

\* _current after the weights of the active categories were added.
Raised == [c \in Categories |-> IF c \in Active THEN current[c] + Weight[c] ELSE current[c]]

\* max(active, key): the first of the greatest.
Heaviest(c) ==
  \A d \in Active : \/ Raised[d] < Raised[c]
                    \/ Raised[d] = Raised[c] /\ Position(c) <= Position(d)

Relative(f) == LET top == CHOOSE n \in Range(f) : \A m \in Range(f) : m <= n
               IN  [c \in Categories |-> f[c] - top]

\* The round robin looks at the positions from idx on.
InTurn(c) == c = Order[((idx + Cardinality(tried)) % Size) + 1]

\* Which category is tried next.
Choice(c) ==
  /\ c \in Active
  /\ CASE strategy = "lottery"              -> TRUE
       [] strategy = "round_robin"          -> InTurn(c)
       [] strategy = "weighted_round_robin" -> Heaviest(c)

\* Mutant: the rotation stays at the category that was served.
NextIdx_Stays(c) == Position(c) - 1

\* The rotation goes on after the category that was served.
NextIdx(c) == Position(c) % Size

\* A job of category c is taken: whoever was kept waiting waits longer.
Serve(c) ==
  /\ Return(c)
  /\ overtaken' = IF c # watched /\ watched \in filled THEN overtaken + 1 ELSE 0

AllTried(c) == tried \union {c} = Categories

\* The weights move before the fetch.
MoveWeights(c) ==
  current' = IF strategy = "weighted_round_robin"
               THEN Relative([Raised EXCEPT ![c] = @ - TotalWeight]) ELSE current

\* An attempt at the category the strategy chooses.
TryCategory(c) ==
  /\ sweep = "choosing"
  /\ Choice(c)
  /\ MoveWeights(c)
  /\ \/ /\ c \in filled
        /\ Serve(c)
        /\ idx' = IF strategy = "round_robin" THEN NextIdx(c) ELSE idx
     \/ /\ NoneFetched(c)
        /\ tried' = IF AllTried(c) THEN {} ELSE tried \union {c}
        /\ sweep' = CASE ~AllTried(c) -> "choosing"
                      [] AllTried(c) /\ strategy = "weighted_round_robin" -> "fallback"
                      [] OTHER -> "missed"
        /\ UNCHANGED idx
  /\ UNCHANGED <<strategy, prioritize_immediate, watched>>

\* The weighted round robin tries every category once more, in their order.
TryFallback ==
  /\ sweep = "fallback"
  /\ LET c == Order[Cardinality(tried) + 1]
     IN  \/ c \in filled /\ Serve(c)
         \/ /\ NoneFetched(c)
            /\ tried' = tried \union {c}
            /\ sweep' = IF AllTried(c) THEN "missed" ELSE "fallback"
  /\ UNCHANGED <<strategy, prioritize_immediate, idx, current, watched>>

\* try_once returns None.
EndMissed ==
  /\ sweep = "missed"
  /\ sweep' = "idle" /\ tried' = {}
  /\ UNCHANGED <<strategy, prioritize_immediate, filled, steady, idx, current, watched,
                 overtaken>>

QosNext ==
  \/ \E q \in Categories \union {Immediate} : Arrive(q) \/ TakenByOther(q)
  \/ BeginSweep \/ TryImmediate
  \/ \E c \in Categories : TryCategory(c)
  \/ TryFallback \/ EndMissed

-----------------------------------------------------------------------------
QosTypeOK ==
  /\ strategy \in Strategies /\ prioritize_immediate \in BOOLEAN
  /\ filled \subseteq Categories \union {Immediate} /\ steady \subseteq filled
  /\ sweep \in {"idle", "immediate", "choosing", "fallback", "missed"}
  /\ tried \subseteq Categories
  /\ idx \in 0..Size - 1
  /\ current \in [Categories -> Int] /\ \A c \in Categories : current[c] <= 0
  /\ watched \in Categories \union {NoCategory}
  /\ overtaken \in Nat

\* A sweep that comes back without a job overlooked none: every queue it covers was empty
\* at some moment of the sweep, or the pop from it failed.
NothingOverlooked ==
  sweep = "missed" =>
    steady \cap (IF prioritize_immediate THEN Categories \union {Immediate} ELSE Categories) = {}

\* No category starves under the round robin: every other category is served at most once
\* before one that waits, unless a pop from that one fails.  (The lottery promises nothing; the weighted round robin keeps no
\* bound of this kind when queues empty and fill up in the middle of its sweeps.)
NoStarvation == watched # NoCategory => overtaken < Size

\* What a category that has jobs may count on: no sweep passes it by, and under the round
\* robin the others do not keep it waiting.
WaitingIsServed == NothingOverlooked /\ NoStarvation
==============================================================================
