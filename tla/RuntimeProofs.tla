----------------------------- MODULE RuntimeProofs -----------------------------
(***************************************************************************)
(* Run-time components that share no state.  The queue scheduler, for any  *)
(* categories and any of its strategies, overlooks no waiting job and      *)
(* under the round robin starves no category; the autoscaler's controller  *)
(* keeps a stage within its bounds, and the resource manager what is       *)
(* decided within the memory and the cores; the batching client answers in *)
(* order and in bounded calls.  On a message's journey through the stages  *)
(* no task is lost or done twice, answers tell the truth, and the two      *)
(* halves of every UDF cache agree.  The last section puts them side by    *)
(* side with the extraction and the rows of PayloadProofs.                 *)
(***************************************************************************)
EXTENDS MCRuntime, PayloadProofs

QosSpec == QosInit /\ [][QosNext]_qosVars
PidControl == PidInit /\ [][PidNext]_pidVars

-----------------------------------------------------------------------------
(* The scheduler's invariant. *)

RoundRobin == strategy = "round_robin"

\* The types, without those of the weights.
Types ==
  /\ strategy \in Strategies /\ prioritize_immediate \in BOOLEAN
  /\ steady \subseteq filled
  /\ sweep \in {"idle", "immediate", "choosing", "fallback", "missed"}
  /\ tried \subseteq Categories
  /\ idx \in 0..Size - 1
  /\ watched \in Categories \union {NoCategory}
  /\ overtaken \in Nat

\* Before a sweep chooses, it tried nothing; while it chooses, something is left to try.
Sweeping ==
  /\ sweep \in {"idle", "immediate"} => tried = {}
  /\ sweep \in {"choosing", "fallback"} => tried # Categories
  /\ sweep = "fallback" => ~RoundRobin

\* What a sweep tried was empty at some moment of it, and so was all before the fallback.
SeenEmpty ==
  /\ sweep \in {"choosing", "fallback", "missed"} /\ prioritize_immediate => Immediate \notin steady
  /\ sweep = "choosing" => tried \intersect steady = {}
  /\ sweep \in {"fallback", "missed"} => steady \intersect Categories = {}

\* The category k places after a position of the rotation.
TurnFrom(i, k) == Order[((i + k) % Size) + 1]
Turn(k) == TurnFrom(idx, k)

\* The round robin tried the categories from its position on, without a gap.
Rotation ==
  RoundRobin /\ sweep = "choosing" => \A k \in 0..Cardinality(tried) - 1 : Turn(k) \in tried

\* A category that was overtaken has jobs, this sweep did not try it, and the rotation
\* reaches it before the others have overtaken it once each.
Overtaken ==
  /\ watched # NoCategory => RoundRobin
  /\ watched # NoCategory /\ overtaken > 0 =>
       /\ watched \in filled /\ watched \notin tried
       /\ \E d \in 0..Size - 1 : Turn(d) = watched /\ overtaken + d <= Size - 1

QosInv == Types /\ Sweeping /\ SeenEmpty /\ Rotation /\ Overtaken

-----------------------------------------------------------------------------
(* Positions in the order. *)

\* The order lists every category once.
LEMMA OrderLists ==
  /\ Size \in Nat \ {0} /\ DOMAIN Order = 1..Size
  /\ \A i \in 1..Size : Order[i] \in Categories
  /\ \A c \in Categories : \E i \in 1..Size : Order[i] = c
  /\ \A i, j \in 1..Size : Order[i] = Order[j] => i = j
  /\ IsFiniteSet(Categories)
<1>1. Size \in Nat \ {0} /\ DOMAIN Order = 1..Size /\ Order \in [1..Size -> Categories]
  BY QosAssumption DEF Size
<1>2. /\ \A i \in 1..Size : Order[i] \in Categories
      /\ \A c \in Categories : \E i \in 1..Size : Order[i] = c
  BY <1>1 DEF Categories
<1>3. Order \in Surjection(1..Size, Categories)
  BY <1>1, <1>2 DEF Surjection
<1>4. IsFiniteSet(1..Size) /\ Cardinality(1..Size) = Size
  BY <1>1, FS_Interval
<1>5. IsFiniteSet(Categories) /\ Order \in Injection(1..Size, Categories)
  BY <1>3, <1>4, FS_Surjection, QosAssumption
<1>6. \A i, j \in 1..Size : Order[i] = Order[j] => i = j
  BY <1>5 DEF Injection, IsInjective
<1>7. QED
  BY <1>1, <1>2, <1>5, <1>6

LEMMA PositionOf ==
  ASSUME NEW c \in Categories
  PROVE  Position(c) \in 1..Size /\ Order[Position(c)] = c
BY OrderLists DEF Position

LEMMA PositionIs ==
  ASSUME NEW i \in 1..Size
  PROVE  Position(Order[i]) = i
<1>1. Order[i] \in Categories
  BY OrderLists
<1>2. Position(Order[i]) \in 1..Size /\ Order[Position(Order[i])] = Order[i]
  BY <1>1, PositionOf
<1>3. QED
  BY <1>2, OrderLists

\* Going round once.
LEMMA Wrap ==
  \A n \in Nat \ {0} : \A i, k \in 0..n - 1 :
    (i + k) % n = IF i + k < n THEN i + k ELSE i + k - n
OBVIOUS

LEMMA TurnIs ==
  \A i, k \in 0..Size - 1 :
    LET place == (IF i + k < Size THEN i + k ELSE i + k - Size) + 1
    IN  place \in 1..Size /\ TurnFrom(i, k) = Order[place] /\ TurnFrom(i, k) \in Categories
<1> SUFFICES ASSUME NEW i \in 0..Size - 1, NEW k \in 0..Size - 1
             PROVE  LET place == (IF i + k < Size THEN i + k ELSE i + k - Size) + 1
                    IN  /\ place \in 1..Size /\ TurnFrom(i, k) = Order[place]
                        /\ TurnFrom(i, k) \in Categories
  OBVIOUS
<1>1. Size \in Nat \ {0}
  BY OrderLists
<1>2. i \in Int /\ k \in Int
  OBVIOUS
<1>3. (i + k) % Size = IF i + k < Size THEN i + k ELSE i + k - Size
  BY <1>1, Wrap
<1>4. (IF i + k < Size THEN i + k ELSE i + k - Size) + 1 \in 1..Size
  BY <1>1, <1>2
<1>5. QED
  BY <1>3, <1>4, OrderLists DEF TurnFrom

\* When category number m is served, the rotation goes on behind it: every other category
\* comes after at most all but one, and one that came after number m comes sooner.
LEMMA TurnAfter ==
  ASSUME NEW i \in 0..Size - 1, NEW m \in 0..Size - 1, NEW d \in 0..Size - 1,
         TurnFrom(i, d) # TurnFrom(i, m)
  PROVE  /\ NextIdx(TurnFrom(i, m)) \in 0..Size - 1
         /\ \E e \in 0..Size - 2 : /\ TurnFrom(NextIdx(TurnFrom(i, m)), e) = TurnFrom(i, d)
                                   /\ m < d => e <= d - 1
<1> DEFINE p == IF i + m < Size THEN i + m ELSE i + m - Size
           q == IF i + d < Size THEN i + d ELSE i + d - Size
           n == IF p + 1 < Size THEN p + 1 ELSE 0
           e == IF m < d THEN d - m - 1 ELSE d - m - 1 + Size
<1>1. Size \in Nat \ {0} /\ i \in Int /\ m \in Int /\ d \in Int
  BY OrderLists
<1>2. /\ p + 1 \in 1..Size /\ TurnFrom(i, m) = Order[p + 1]
      /\ q + 1 \in 1..Size /\ TurnFrom(i, d) = Order[q + 1]
  BY TurnIs
<1>3. NextIdx(TurnFrom(i, m)) = n
  <2>1. Position(TurnFrom(i, m)) = p + 1
    BY <1>2, PositionIs
  <2>2. p \in 0..Size - 1
    BY <1>1
  <2> HIDE DEF p
  <2>3. (p + 1) % Size = n
    <3>1. CASE p + 1 < Size
      BY <1>1, <2>2, <3>1
    <3>2. CASE p + 1 = Size
      BY <1>1, <2>2, <3>2
    <3>3. QED
      BY <1>1, <2>2, <3>1, <3>2
  <2>4. QED
    BY <2>1, <2>3 DEF NextIdx
<1>4. m # d
  OBVIOUS
<1>5. n \in 0..Size - 1 /\ e \in 0..Size - 2 /\ e \in 0..Size - 1 /\ (m < d => e <= d - 1)
  BY <1>1, <1>4
<1>6. (IF n + e < Size THEN n + e ELSE n + e - Size) = q
  BY <1>1, <1>4
<1>7. TurnFrom(n, e) = Order[q + 1]
  <2> HIDE DEF n, e, q, p
  <2>1. TurnFrom(n, e) = Order[(IF n + e < Size THEN n + e ELSE n + e - Size) + 1]
    BY <1>5, TurnIs
  <2>2. QED
    BY <1>6, <2>1
<1>8. QED
  <2> HIDE DEF n, e, q, p
  <2>1. QED
    BY <1>2, <1>3, <1>5, <1>7

\* Every category has its turn.
LEMMA TurnComes ==
  ASSUME NEW i \in 0..Size - 1, NEW c \in Categories
  PROVE  \E d \in 0..Size - 1 : TurnFrom(i, d) = c
<1>1. Size \in Nat \ {0} /\ i \in Int
  BY OrderLists
<1>2. PICK j \in 1..Size : Order[j] = c
  BY OrderLists
<1> DEFINE d == IF j > i THEN j - 1 - i ELSE j - 1 - i + Size
<1>3. d \in 0..Size - 1 /\ (IF i + d < Size THEN i + d ELSE i + d - Size) + 1 = j
  BY <1>1
<1>4. QED
  <2> HIDE DEF d
  <2>1. TurnFrom(i, d) = Order[j]
    BY <1>3, TurnIs
  <2>2. QED
    BY <1>2, <1>3, <2>1

-----------------------------------------------------------------------------
(* The invariant is inductive. *)

\* A category that was not tried, so that not all was, and one more that was.
LEMMA TriedOneMore ==
  ASSUME tried \subseteq Categories, NEW c \in Categories \ tried
  PROVE  /\ Cardinality(tried) \in 0..Size - 1
         /\ Cardinality(tried \union {c}) = Cardinality(tried) + 1
<1>1. IsFiniteSet(Categories) /\ Cardinality(Categories) = Size /\ Size \in Nat
  BY OrderLists, QosAssumption
<1>2. /\ IsFiniteSet(tried) /\ Cardinality(tried) <= Size
      /\ Cardinality(tried) = Size => tried = Categories
  BY <1>1, FS_Subset
<1>3. Cardinality(tried) \in Nat
  BY <1>2, FS_CardinalityType
<1>4. Cardinality(tried \union {c}) = Cardinality(tried) + 1
  BY <1>2, FS_AddElement
<1>5. Cardinality(tried) # Size
  BY <1>2
<1>6. QED
  BY <1>1, <1>2, <1>3, <1>4, <1>5

LEMMA QosInitially == QosInit => QosInv
<1> SUFFICES ASSUME QosInit PROVE QosInv
  OBVIOUS
<1>1. Types
  BY OrderLists DEF QosInit, Types
<1>2. Sweeping /\ SeenEmpty /\ Rotation
  BY DEF QosInit, Sweeping, SeenEmpty, Rotation
<1>3. Overtaken
  BY QosAssumption DEF QosInit, Overtaken, RoundRobin
<1>4. QED
  BY <1>1, <1>2, <1>3 DEF QosInv

\* NoneFetched of the sweep, the rotation and the wait changes, but that queues fill.
LEMMA QosArrive ==
  ASSUME QosInv, NEW q, Arrive(q)
  PROVE  QosInv'
BY DEF QosInv, Arrive, sweepVars, Types, Sweeping, SeenEmpty, Rotation, Overtaken, RoundRobin, Turn

LEMMA QosTaken ==
  ASSUME QosInv, NEW q, TakenByOther(q)
  PROVE  QosInv'
BY DEF QosInv, TakenByOther, Emptied, Types, Sweeping, SeenEmpty, Rotation, Overtaken,
       RoundRobin, Turn

\* The sweeps that end or begin: nothing is tried.
LEMMA QosTurnsOver ==
  ASSUME QosInv, BeginSweep \/ TryImmediate \/ EndMissed
  PROVE  QosInv'
<1>1. /\ tried' \in {{}, tried} /\ UNCHANGED <<strategy, prioritize_immediate, idx, watched>>
      /\ overtaken' \in {0, overtaken}
  BY DEF BeginSweep, TryImmediate, EndMissed, Return, NoneFetched, QosInv, Types
<1>2. /\ steady' \subseteq filled' /\ (steady' \subseteq steady \/ sweep = "idle")
      /\ filled' \union {Immediate} = filled \union {Immediate}
  BY DEF QosInv, Types, BeginSweep, TryImmediate, EndMissed, Return, Emptied, NoneFetched
<1>3. /\ sweep' \in {"idle", "immediate", "choosing"} /\ tried' = {}
      /\ sweep' = "choosing" /\ prioritize_immediate => Immediate \notin steady'
  BY DEF QosInv, Types, Sweeping, BeginSweep, TryImmediate, EndMissed, Return, NoneFetched
<1>4. Types'
  BY <1>1, <1>2, <1>3 DEF QosInv, Types
<1>5. Sweeping' /\ SeenEmpty'
  BY <1>1, <1>3, OrderLists DEF Sweeping, SeenEmpty
<1>6. Rotation'
  BY <1>3, FS_EmptySet DEF Rotation
<1>7. Overtaken'
  BY <1>1, <1>2, <1>3, QosAssumption DEF QosInv, Types, Overtaken, RoundRobin, Turn
<1>8. QED
  BY <1>4, <1>5, <1>6, <1>7 DEF QosInv

\* A fetch that returns nothing leaves its queue out of the steady ones; if it is watched,
\* its wait begins anew.
LEMMA NothingFetched ==
  ASSUME QosInv, NEW c, NoneFetched(c)
  PROVE  /\ c \notin steady' /\ steady' \subseteq steady /\ steady' \subseteq filled'
         /\ filled \ {c} \subseteq filled'
         /\ overtaken' \in {0, overtaken}
         /\ c = watched => overtaken' = 0 \/ (overtaken' = overtaken /\ c \notin filled)
BY DEF NoneFetched, QosInv, Types

\* A category at which nothing was fetched joins those that were tried.
LEMMA QosMissed ==
  ASSUME QosInv, NEW c \in Categories, TryCategory(c), NoneFetched(c),
         tried' = IF AllTried(c) THEN {} ELSE tried \union {c},
         sweep' = CASE ~AllTried(c) -> "choosing"
                    [] AllTried(c) /\ strategy = "weighted_round_robin" -> "fallback"
                    [] OTHER -> "missed",
         idx' = idx
  PROVE  QosInv'
<1>1. /\ sweep = "choosing" /\ c \in Categories \ tried /\ (RoundRobin => InTurn(c))
      /\ UNCHANGED <<strategy, prioritize_immediate, idx, watched>>
      /\ tried' = IF AllTried(c) THEN {} ELSE tried \union {c}
      /\ sweep' = CASE ~AllTried(c) -> "choosing"
                    [] AllTried(c) /\ strategy = "weighted_round_robin" -> "fallback"
                    [] OTHER -> "missed"
  BY DEF TryCategory, Choice, Active, RoundRobin
<1>2. /\ c \notin steady' /\ steady' \subseteq steady /\ steady' \subseteq filled'
      /\ filled \ {c} \subseteq filled' /\ overtaken' \in {0, overtaken}
      /\ c = watched => overtaken' = 0 \/ (overtaken' = overtaken /\ c \notin filled)
      /\ sweep' \in {"choosing", "fallback", "missed"}
  BY <1>1, NothingFetched
<1>3. Types'
  BY <1>1, <1>2 DEF QosInv, Types
<1>4. Sweeping'
  <2>1. Categories # {}
    BY OrderLists
  <2>2. QED
    BY <1>1, <1>2, <2>1 DEF QosInv, Sweeping, AllTried, RoundRobin
<1>5. SeenEmpty'
  BY <1>1, <1>2 DEF QosInv, SeenEmpty, AllTried
<1>6. Rotation'
  <2> SUFFICES ASSUME RoundRobin, ~AllTried(c), NEW k \in 0..Cardinality(tried') - 1
               PROVE  TurnFrom(idx, k) \in tried'
    BY <1>1 DEF Rotation, RoundRobin, Turn
  <2>1. tried' = tried \union {c} /\ c = TurnFrom(idx, Cardinality(tried))
    BY <1>1 DEF InTurn, TurnFrom
  <2>2. Cardinality(tried') = Cardinality(tried) + 1 /\ Cardinality(tried) \in 0..Size - 1
    BY <1>1, <2>1, TriedOneMore DEF QosInv, Types
  <2>3. k \in 0..Cardinality(tried) - 1 \/ k = Cardinality(tried)
    BY <2>2
  <2>4. QED
    BY <1>1, <2>1, <2>3 DEF QosInv, Rotation, Turn
<1>7. Overtaken'
  <2>1. watched' # NoCategory => RoundRobin'
    BY <1>1 DEF QosInv, Overtaken, RoundRobin
  <2> SUFFICES ASSUME watched # NoCategory, overtaken' > 0
               PROVE  /\ watched \in filled' /\ watched \notin tried'
                      /\ \E d \in 0..Size - 1 : Turn(d) = watched /\ overtaken + d <= Size - 1
                      /\ overtaken' = overtaken
    BY <1>1, <2>1 DEF Overtaken, Turn
  <2>2. overtaken' = overtaken /\ overtaken > 0
    BY <1>2
  <2>3. /\ watched \in filled /\ watched \notin tried
        /\ \E d \in 0..Size - 1 : Turn(d) = watched /\ overtaken + d <= Size - 1
    BY <2>2 DEF QosInv, Overtaken
  <2>4. c # watched
    BY <1>2, <2>2, <2>3
  <2>5. QED
    BY <1>1, <1>2, <2>2, <2>3, <2>4
<1>8. QED
  BY <1>3, <1>4, <1>5, <1>6, <1>7 DEF QosInv

\* Whoever serves a category ends the sweep; the wait is counted.
LEMMA ServeEnds ==
  ASSUME QosInv, NEW c \in Categories, Serve(c),
         UNCHANGED <<strategy, prioritize_immediate, watched>>, idx' \in 0..Size - 1
  PROVE  Types' /\ Sweeping' /\ SeenEmpty' /\ Rotation'
<1>1. /\ sweep' = "idle" /\ tried' = {} /\ steady' \subseteq filled'
      /\ overtaken' \in {0, overtaken + 1}
  BY DEF QosInv, Types, Serve, Return, Emptied
<1>2. Types'
  BY <1>1 DEF QosInv, Types
<1>3. QED
  BY <1>1, <1>2 DEF Sweeping, SeenEmpty, Rotation

\* The rotation serves a category: another one that waits comes nearer.
LEMMA QosServed ==
  ASSUME QosInv, NEW c \in Categories, TryCategory(c), Serve(c),
         idx' = IF strategy = "round_robin" THEN NextIdx(c) ELSE idx
  PROVE  QosInv'
<1>1. /\ sweep = "choosing" /\ c \in Categories \ tried /\ (RoundRobin => InTurn(c)) /\ Serve(c)
      /\ UNCHANGED <<strategy, prioritize_immediate, watched>>
      /\ idx' = IF RoundRobin THEN NextIdx(c) ELSE idx
  BY DEF TryCategory, Choice, Active, RoundRobin
<1> DEFINE m == Cardinality(tried)
<1>2. m \in 0..Size - 1 /\ idx \in 0..Size - 1 /\ Size \in Nat \ {0}
  BY <1>1, TriedOneMore, OrderLists DEF QosInv, Types
<1>3. RoundRobin => c = TurnFrom(idx, m)
  BY <1>1 DEF InTurn, TurnFrom
<1>4. idx' \in 0..Size - 1
  <2>1. Position(c) \in 1..Size
    BY PositionOf
  <2>2. NextIdx(c) \in 0..Size - 1
    BY <1>2, <2>1 DEF NextIdx
  <2>3. QED
    BY <1>1, <1>2, <2>2
<1>5. Types' /\ Sweeping' /\ SeenEmpty' /\ Rotation'
  BY <1>1, <1>4, ServeEnds
<1>6. Overtaken'
  <2>1. watched' # NoCategory => RoundRobin'
    BY <1>1 DEF QosInv, Overtaken, RoundRobin
  <2> SUFFICES ASSUME watched # NoCategory, overtaken' > 0
               PROVE  /\ watched \in filled' /\ watched \notin tried'
                      /\ \E e \in 0..Size - 1 : TurnFrom(idx', e) = watched
                                                /\ overtaken' + e <= Size - 1
    BY <1>1, <2>1 DEF Overtaken, Turn
  <2>2. watched # c /\ watched \in filled /\ overtaken' = overtaken + 1
    BY <1>1 DEF Serve
  <2>3. watched \in filled' /\ watched \notin tried'
    BY <1>1, <2>2 DEF Serve, Return, Emptied
  <2>4. RoundRobin /\ watched \in Categories /\ overtaken \in Nat
    BY DEF QosInv, Types, Overtaken
  <2>5. \E d \in 0..Size - 1 : /\ TurnFrom(idx, d) = watched
                               /\ overtaken > 0 => m < d /\ overtaken + d <= Size - 1
    <3>1. CASE overtaken > 0
      <4>1. PICK d \in 0..Size - 1 : TurnFrom(idx, d) = watched /\ overtaken + d <= Size - 1
        BY <3>1 DEF QosInv, Overtaken, Turn
      <4>2. watched \notin tried
        BY <3>1 DEF QosInv, Overtaken
      <4>3. d # m /\ d \notin 0..m - 1
        BY <1>1, <1>3, <2>2, <2>4, <4>1, <4>2 DEF QosInv, Rotation, Turn
      <4>4. m < d
        BY <1>2, <4>3
      <4>5. QED
        BY <4>1, <4>4
    <3>2. CASE overtaken = 0
      BY <1>2, <2>4, <3>2, TurnComes
    <3>3. QED
      BY <2>4, <3>1, <3>2
  <2>6. PICK d \in 0..Size - 1 : /\ TurnFrom(idx, d) = watched
                                 /\ overtaken > 0 => m < d /\ overtaken + d <= Size - 1
    BY <2>5
  <2>7. TurnFrom(idx, d) # TurnFrom(idx, m) /\ idx' = NextIdx(TurnFrom(idx, m))
    BY <1>1, <1>3, <2>2, <2>4, <2>6
  <2> HIDE DEF m
  <2>8. PICK e \in 0..Size - 2 : TurnFrom(idx', e) = watched /\ (m < d => e <= d - 1)
    BY <1>2, <2>6, <2>7, TurnAfter
  <2>9. e \in 0..Size - 1 /\ overtaken' + e <= Size - 1
    <3>1. CASE overtaken = 0
      BY <1>2, <2>2, <3>1
    <3>2. CASE overtaken > 0
      <4>1. overtaken + d <= Size - 1 /\ e <= d - 1
        BY <2>6, <2>8, <3>2
      <4>2. QED
        BY <1>2, <2>2, <2>4, <4>1
    <3>3. QED
      BY <2>4, <3>1, <3>2
  <2>10. QED
    BY <2>3, <2>8, <2>9
<1>7. QED
  BY <1>5, <1>6 DEF QosInv

\* The fallback of the weighted round robin, in which no wait is watched.
LEMMA QosFallback ==
  ASSUME QosInv, TryFallback
  PROVE  QosInv'
<1> DEFINE c == Order[Cardinality(tried) + 1]
<1>1. sweep = "fallback" /\ ~RoundRobin /\ tried # Categories /\ tried \subseteq Categories
  BY DEF TryFallback, QosInv, Types, Sweeping
<1>2. c \in Categories
  <2>1. PICK left \in Categories \ tried : TRUE
    BY <1>1
  <2>2. Cardinality(tried) \in 0..Size - 1 /\ Size \in Nat
    BY <1>1, <2>1, TriedOneMore, OrderLists
  <2>3. Cardinality(tried) + 1 \in 1..Size
    BY <2>2
  <2>4. QED
    BY <2>3, OrderLists
<1>3. UNCHANGED <<strategy, prioritize_immediate, idx, watched>> /\ watched = NoCategory
  BY <1>1 DEF TryFallback, QosInv, Overtaken
<1> HIDE DEF c
<1>4. Overtaken'
  BY <1>3 DEF Overtaken
<1>5. CASE Serve(c)
  <2>1. Serve(c)
    BY <1>5
  <2>2. idx' \in 0..Size - 1
    BY <1>3 DEF QosInv, Types
  <2>3. QED
    BY <1>2, <1>3, <1>4, <2>1, <2>2, ServeEnds DEF QosInv
<1>6. CASE /\ NoneFetched(c) /\ tried' = tried \union {c}
           /\ sweep' = IF AllTried(c) THEN "missed" ELSE "fallback"
  <2>1. /\ tried' = tried \union {c} /\ sweep' = IF AllTried(c) THEN "missed" ELSE "fallback"
        /\ steady' \subseteq steady /\ steady' \subseteq filled' /\ overtaken' \in {0, overtaken}
    BY <1>6, NothingFetched
  <2>2. Types'
    BY <1>1, <1>2, <1>3, <2>1 DEF QosInv, Types
  <2>3. Sweeping' /\ SeenEmpty' /\ Rotation'
    BY <1>1, <1>3, <2>1 DEF QosInv, Sweeping, SeenEmpty, Rotation, AllTried, RoundRobin
  <2>4. QED
    BY <1>4, <2>2, <2>3 DEF QosInv
<1>7. QED
  BY <1>5, <1>6 DEF TryFallback, c

LEMMA QosInductive == QosInv /\ [QosNext]_qosVars => QosInv'
<1> SUFFICES ASSUME QosInv, [QosNext]_qosVars PROVE QosInv'
  OBVIOUS
<1>1. CASE UNCHANGED qosVars
  BY <1>1 DEF qosVars, sweepVars, QosInv, Types, Sweeping, SeenEmpty, Rotation, Overtaken,
              RoundRobin, Turn
<1>2. ASSUME NEW c \in Categories, TryCategory(c) PROVE QosInv'
  <2>1. \/ /\ Serve(c)
           /\ idx' = IF strategy = "round_robin" THEN NextIdx(c) ELSE idx
        \/ /\ NoneFetched(c)
           /\ tried' = IF AllTried(c) THEN {} ELSE tried \union {c}
           /\ sweep' = CASE ~AllTried(c) -> "choosing"
                         [] AllTried(c) /\ strategy = "weighted_round_robin" -> "fallback"
                         [] OTHER -> "missed"
           /\ UNCHANGED idx
    BY <1>2 DEF TryCategory
  <2>2. QED
    BY <1>2, <2>1, QosServed, QosMissed
<1>3. QED
  BY <1>1, <1>2, QosArrive, QosTaken, QosTurnsOver, QosFallback DEF QosNext

\* No sweep passes a category that has jobs, unless the pop from it fails, and under the
\* round robin every other category is served at most once before one that waits
\* (qos_scheduler.py:39-167).
THEOREM WaitingServed == QosSpec => []WaitingIsServed
<1>1. QosInv => WaitingIsServed
  <2> SUFFICES ASSUME QosInv PROVE WaitingIsServed
    OBVIOUS
  <2>1. NothingOverlooked
    BY DEF QosInv, Types, SeenEmpty, NothingOverlooked
  <2>2. NoStarvation
    <3> SUFFICES ASSUME watched # NoCategory PROVE overtaken < Size
      BY DEF NoStarvation
    <3>1. overtaken \in Nat /\ Size \in Nat \ {0}
      BY OrderLists DEF QosInv, Types
    <3>2. CASE overtaken > 0
      <4>1. PICK d \in 0..Size - 1 : overtaken + d <= Size - 1
        BY <3>2 DEF QosInv, Overtaken
      <4>2. QED
        BY <3>1, <4>1
    <3>3. QED
      BY <3>1, <3>2
  <2>3. QED
    BY <2>1, <2>2 DEF WaitingIsServed
<1>2. QED
  BY <1>1, QosInitially, QosInductive, PTL DEF QosSpec

-----------------------------------------------------------------------------
(* The scheduler's weights. *)

WeightTypes == current \in [Categories -> Int] /\ \A c \in Categories : current[c] <= 0
QosTypes == filled \subseteq Categories \union {Immediate} /\ WeightTypes

\* The sum of the weights.
LEMMA TotalNatural == TotalWeight \in Nat
<1>1. IsFiniteSet(Categories) /\ \A c \in Categories : Weight[c] \in Nat
  BY OrderLists, QosAssumption
<1>2. SumOver(Weight, Categories) \in Nat
  BY <1>1, SumFacts
<1>3. QED
  BY <1>2 DEF TotalWeight, SumOver

\* Relative to the greatest, no weight is above 0.
LEMMA RelativeWeights ==
  ASSUME NEW f \in [Categories -> Int]
  PROVE  Relative(f) \in [Categories -> Int] /\ \A c \in Categories : Relative(f)[c] <= 0
<1> DEFINE S == {f[c] : c \in Categories}
           top == CHOOSE n \in Range(f) : \A m \in Range(f) : m <= n
<1>1. Range(f) = S /\ S \in SUBSET Int
  BY DEF Range
<1>2. IsFiniteSet(S) /\ S # {}
  <2>1. f \in Surjection(Categories, S)
    BY DEF Surjection
  <2>2. IsFiniteSet(Categories) /\ Categories # {}
    BY OrderLists
  <2>3. QED
    BY <2>1, <2>2, FS_Surjection
<1>3. \E n \in S : \A m \in S : m <= n
  <2> HIDE DEF S
  <2>1. QED
    BY <1>1, <1>2, GreatestInteger
<1>4. top \in S /\ \A m \in S : m <= top
  BY <1>1, <1>3
<1>5. Relative(f) = [c \in Categories |-> f[c] - top]
  BY DEF Relative
<1> HIDE DEF top
<1>6. QED
  BY <1>1, <1>4, <1>5

LEMMA WeightsMove ==
  ASSUME WeightTypes, NEW c \in Categories, MoveWeights(c)
  PROVE  WeightTypes'
<1> DEFINE g == [Raised EXCEPT ![c] = @ - TotalWeight]
<1>1. Raised \in [Categories -> Int]
  BY QosAssumption DEF WeightTypes, Raised
<1>2. g \in [Categories -> Int]
  BY <1>1, TotalNatural
<1>3. current' = Relative(g) \/ current' = current
  BY DEF MoveWeights
<1> HIDE DEF g
<1>4. QED
  BY <1>2, <1>3, RelativeWeights DEF WeightTypes

\* The variables of the scheduler have their types (qos_scheduler.py:11-290).
THEOREM SchedulerTypeOK == QosSpec => []QosTypeOK
<1>1. QosInit => QosTypes
  BY DEF QosInit, QosTypes, WeightTypes
<1>2. QosTypes /\ [QosNext]_qosVars => QosTypes'
  <2> SUFFICES ASSUME QosTypes, [QosNext]_qosVars PROVE QosTypes'
    OBVIOUS
  <2>1. ASSUME NEW q \in Categories \union {Immediate}, Arrive(q) \/ TakenByOther(q)
        PROVE  QosTypes'
    BY <2>1 DEF QosTypes, WeightTypes, Arrive, TakenByOther, Emptied
  <2>2. CASE BeginSweep \/ TryImmediate \/ EndMissed
    BY <2>2 DEF QosTypes, WeightTypes, BeginSweep, TryImmediate, EndMissed, Return, Emptied,
              NoneFetched
  <2>3. ASSUME NEW c \in Categories, TryCategory(c) PROVE QosTypes'
    <3>1. filled' \subseteq filled /\ MoveWeights(c)
      BY <2>3 DEF TryCategory, Serve, Return, Emptied, NoneFetched
    <3>2. QED
      BY <3>1, WeightsMove DEF QosTypes
  <2>4. CASE TryFallback
    BY <2>4 DEF QosTypes, WeightTypes, TryFallback, Serve, Return, Emptied, NoneFetched
  <2>5. CASE UNCHANGED qosVars
    BY <2>5 DEF qosVars, QosTypes, WeightTypes
  <2>6. QED
    BY <2>1, <2>2, <2>3, <2>4, <2>5 DEF QosNext
<1>3. QosInv /\ QosTypes => QosTypeOK
  BY DEF QosInv, Types, QosTypes, WeightTypes, QosTypeOK
<1>4. QED
  BY <1>1, <1>2, <1>3, QosInitially, QosInductive, PTL DEF QosSpec

-----------------------------------------------------------------------------
(* The autoscaler's controller. *)

LEMMA WithinBounds ==
  ASSUME NEW n \in Int, NEW in_flight \in BOOLEAN
  PROVE  Bounded(n, in_flight) \in MinStage..MaxStage
BY PidAssumption DEF Bounded

LEMMA DeltaInteger ==
  ASSUME NEW error \in Int, NEW integral \in Int
  PROVE  Delta(error, integral) \in Int
<1> DEFINE n == (Kp * error + Ki * integral) * (IF error > 0 THEN Boost ELSE 10)
<1>1. n \in Int
  BY DEF Kp, Ki, Boost
<1> HIDE DEF n
<1>2. n \div 100000 \in Int /\ n % 100000 \in Int
  BY <1>1
<1>3. Round(n, 100000) \in Int
  BY <1>2 DEF Round
<1>4. QED
  BY <1>3 DEF Delta, n

LEMMA CycleTypes ==
  ASSUME PidTypeOK, NEW depth \in Nat, NEW processing \in BOOLEAN, NEW applied \in BOOLEAN,
         ScalingCycle(depth, processing, applied)
  PROVE  PidTypeOK'
<1> DEFINE idle     == IF depth = 0 /\ ~processing THEN idle_cycles + 1 ELSE 0
           error    == 10 * (depth - TargetDepth) - Penalty(idle)
           integral == IF Accumulates(error) THEN integral_error + error ELSE integral_error
           in_flight == depth > 0 \/ processing
           target   == Bounded(replicas + Delta(error, integral), in_flight)
<1>1. idle \in Nat /\ MinStage..MaxStage \subseteq Int
  BY PidAssumption DEF PidTypeOK, IdleLimit
<1>2. error \in Int
  <2> HIDE DEF idle
  <2>1. Penalty(idle) \in Int
    BY <1>1 DEF Penalty
  <2>2. QED
    BY <2>1, PidAssumption
<1>3. integral \in Int
  <2> HIDE DEF error
  <2>1. QED
    BY <1>2 DEF PidTypeOK
<1>4. target \in MinStage..MaxStage
  <2> HIDE DEF error, integral
  <2>1. Delta(error, integral) \in Int
    BY <1>2, <1>3, DeltaInteger
  <2>2. replicas + Delta(error, integral) \in Int /\ in_flight \in BOOLEAN
    BY <1>1, <2>1 DEF PidTypeOK
  <2>3. QED
    BY <2>2, WithinBounds
<1>5. /\ idle_cycles' = IF idle > IdleLimit THEN IdleLimit ELSE idle
      /\ integral_error' = integral
      /\ replicas' = IF applied THEN target ELSE replicas
      /\ UNCHANGED busy
  BY DEF ScalingCycle
<1> HIDE DEF idle, error, integral, in_flight, target
<1>6. QED
  BY <1>1, <1>3, <1>4, <1>5 DEF PidTypeOK, IdleLimit

\* Whatever the queues do and whichever proposals are carried out, the controller keeps a
\* stage between its least and its greatest number of replicas (pid_controller.py:101-214,
\* 609-629).
THEOREM StageWithinBounds == PidControl => []PidTypeOK
<1>1. PidInit => PidTypeOK
  BY DEF PidInit, PidTypeOK, IdleLimit
<1>2. PidTypeOK /\ [PidNext]_pidVars => PidTypeOK'
  <2> SUFFICES ASSUME PidTypeOK, [PidNext]_pidVars PROVE PidTypeOK'
    OBVIOUS
  <2>1. CASE BusyCycle
    BY <2>1, CycleTypes, PidAssumption DEF BusyCycle
  <2>2. CASE IdleCycle
    BY <2>2, CycleTypes DEF IdleCycle
  <2>3. CASE FallSilent \/ UNCHANGED pidVars
    BY <2>3 DEF FallSilent, pidVars, PidTypeOK
  <2>4. QED
    BY <2>1, <2>2, <2>3 DEF PidNext
<1>3. QED
  BY <1>1, <1>2, PTL DEF PidControl

-----------------------------------------------------------------------------
(* The batching inference client. *)

NimSpec == NimInit /\ [][NimNext]_nimVars

Answering == batcher \in {"delivering", "failing"}

\* Only while futures are being set are some of the batch already set, and then not all.
BatchInHand ==
  /\ batcher \in {"filling", "inferring"} \/ Answering <=> batch # <<>>
  /\ ~Answering => given = 0
  /\ Answering => given < Len(batch)

\* While the server is being called every call was counted by one of the two counters, and
\* neither has reached its limit; the call that ends the batch is the only one in excess.
CallsCounted ==
  /\ batcher = "inferring" => calls = attempt + retries_429 /\ retries_429 < Max429
  /\ batcher # "inferring" => CallsBounded

NimInv == NimTypeOK /\ BatchInHand /\ CallsCounted

-----------------------------------------------------------------------------
\* A caller's position stays within its images when it moves on before the last one.
LEMMA NextImage ==
  ASSUME NEW c \in Callers, next \in [Callers -> Nat \ {0}],
         \A d \in Callers : next[d] <= Images[d],
         \/ next[c] < Images[c] /\ next' = [next EXCEPT ![c] = @ + 1]
         \/ next' = [next EXCEPT ![c] = 1]
         \/ UNCHANGED next
  PROVE  next' \in [Callers -> Nat \ {0}] /\ \A d \in Callers : next'[d] <= Images[d]
<1>1. \A d \in Callers : Images[d] \in Nat \ {0} /\ next[d] \in Nat \ {0}
  BY BatcherAssumption
<1>2. CASE next[c] < Images[c] /\ next' = [next EXCEPT ![c] = @ + 1]
  BY <1>1, <1>2
<1>3. CASE next' = [next EXCEPT ![c] = 1]
  BY <1>1, <1>3
<1>4. CASE UNCHANGED next
  BY <1>4
<1>5. QED
  BY <1>2, <1>3, <1>4

LEMMA InferenceOf ==
  ASSUME NEW c \in Callers, NEW i \in Nat \ {0}, i <= Images[c]
  PROVE  <<c, i>> \in Inferences
  BY BatcherAssumption DEF Inferences

LEMMA NimInvInit == NimInit => NimInv
<1> SUFFICES ASSUME NimInit PROVE NimInv
  OBVIOUS
<1>1. NimTypeOK
  <2>1. next \in [Callers -> Nat \ {0}] /\ \A c \in Callers : next[c] <= Images[c]
    BY BatcherAssumption DEF NimInit
  <2>2. /\ batch \in Seq(Inferences) /\ given \in 0..Len(batch) /\ submitted \in Seq(Inferences)
        /\ request_queue \in Seq(Inferences \union {None})
    BY DEF NimInit
  <2>3. attempt \in 0..MaxRetries - 1 /\ retries_429 \in 0..Max429 /\ calls \in Nat
    BY BatcherAssumption DEF NimInit
  <2>4. QED
    BY <2>1, <2>2, <2>3 DEF NimInit, NimTypeOK
<1>2. BatchInHand /\ CallsCounted
  BY BatcherAssumption DEF NimInit, BatchInHand, CallsCounted, CallsBounded, Answering
<1>3. QED
  BY <1>1, <1>2 DEF NimInv

\* Steps outside the batcher change neither its batch nor its counters.
LEMMA BatcherUntouched ==
  ASSUME NimInv, UNCHANGED batcherVars, NimTypeOK'
  PROVE  NimInv'
  BY DEF NimInv, batcherVars, serverVars, BatchInHand, CallsCounted, CallsBounded, Answering

LEMMA NimInvNext == NimInv /\ [NimNext]_nimVars => NimInv'
<1> SUFFICES ASSUME NimInv, [NimNext]_nimVars PROVE NimInv'
  OBVIOUS
<1> USE BatcherAssumption
<1>1. ASSUME NEW c \in Callers, StartInfer(c) PROVE NimInv'
  <2>1. FetchedSizes \subseteq {NotFetched, 1, ServerSize} /\ NotFetched \notin FetchedSizes
    BY <1>1 DEF NimInv, NimTypeOK, FetchedSizes, NotFetched
  <2>2. NimTypeOK'
    BY <1>1, <2>1 DEF NimInv, NimTypeOK, StartInfer, batcherVars, serverVars
  <2>3. QED
    BY <1>1, <2>2, BatcherUntouched DEF StartInfer
<1>2. ASSUME NEW c \in Callers, Submit(c) PROVE NimInv'
  <2>1. <<c, next[c]>> \in Inferences
    BY <1>2, InferenceOf DEF NimInv, NimTypeOK
  <2>2. next' \in [Callers -> Nat \ {0}] /\ \A d \in Callers : next'[d] <= Images[d]
    BY <1>2, NextImage DEF NimInv, NimTypeOK, Submit
  <2>3. /\ request_queue' \in Seq(Inferences \union {None}) /\ submitted' \in Seq(Inferences)
        /\ caller' \in [Callers -> {"idle", "submitting", "waiting", "returned", "raised"}]
    <3>1. request_queue' \in Seq(Inferences \union {None})
      BY <1>2, <2>1 DEF NimInv, NimTypeOK, Submit
    <3>2. submitted' \in Seq(Inferences)
      BY <1>2, <2>1 DEF NimInv, NimTypeOK, Submit
    <3>3. caller' \in [Callers -> {"idle", "submitting", "waiting", "returned", "raised"}]
      BY <1>2 DEF NimInv, NimTypeOK, Submit
    <3>4. QED
      BY <3>1, <3>2, <3>3
  <2>4. NimTypeOK'
    BY <1>2, <2>2, <2>3 DEF NimInv, NimTypeOK, Submit, batcherVars, serverVars
  <2>5. QED
    BY <1>2, <2>4, BatcherUntouched DEF Submit
<1>3. ASSUME NEW c \in Callers, AwaitFuture(c) PROVE NimInv'
  <2>1. next' \in [Callers -> Nat \ {0}] /\ \A d \in Callers : next'[d] <= Images[d]
    BY <1>3, NextImage DEF NimInv, NimTypeOK, AwaitFuture
  <2>2. NimTypeOK'
    BY <1>3, <2>1 DEF NimInv, NimTypeOK, AwaitFuture, batcherVars, serverVars
  <2>3. QED
    BY <1>3, <2>2, BatcherUntouched DEF AwaitFuture
<1>4. CASE CheckStop
  BY <1>4 DEF CheckStop, BatcherUnchanged, NimInv, NimTypeOK, BatchInHand, CallsCounted,
              CallsBounded, Answering, callerVars, serverVars
<1>5. CASE GetNothing
  <2>1. request_queue' \in Seq(Inferences \union {None})
    <3>1. CASE UNCHANGED request_queue
      BY <3>1 DEF NimInv, NimTypeOK
    <3>2. CASE request_queue # <<>> /\ request_queue' = Tail(request_queue)
      BY <3>2 DEF NimInv, NimTypeOK
    <3>3. QED
      BY <1>5, <3>1, <3>2 DEF GetNothing
  <2>2. QED
    BY <1>5, <2>1 DEF GetNothing, BatcherUnchanged, NimInv, NimTypeOK, BatchInHand,
                      CallsCounted, CallsBounded, Answering, callerVars, serverVars
<1>6. CASE GetFirst
  <2>1. /\ Head(request_queue) \in Inferences
        /\ request_queue' \in Seq(Inferences \union {None})
    BY <1>6 DEF GetFirst, NimInv, NimTypeOK
  <2>2. batch' \in Seq(Inferences) /\ batch' # <<>>
    BY <1>6, <2>1 DEF GetFirst
  <2>3. QED
    BY <1>6, <2>1, <2>2 DEF GetFirst, BatcherUnchanged, NimInv, NimTypeOK, BatchInHand,
                            CallsCounted, CallsBounded, Answering, callerVars, serverVars
<1>7. CASE Fill
  <2>1. /\ Head(request_queue) \in Inferences
        /\ request_queue' \in Seq(Inferences \union {None})
    BY <1>7 DEF Fill, NimInv, NimTypeOK
  <2>2. batch' \in Seq(Inferences) /\ batch' # <<>> /\ Len(batch') = Len(batch) + 1
    BY <1>7, <2>1 DEF Fill, NimInv, NimTypeOK
  <2>3. QED
    BY <1>7, <2>1, <2>2 DEF Fill, BatcherUnchanged, NimInv, NimTypeOK, BatchInHand,
                            CallsCounted, CallsBounded, Answering, callerVars, serverVars
<1>8. CASE StopFilling
  <2>1. Len(batch) > 0
    BY <1>8 DEF StopFilling, NimInv, NimTypeOK, BatchInHand
  <2>2. QED
    BY <1>8, <2>1 DEF StopFilling, Peek, BatcherUnchanged, NimInv, NimTypeOK, BatchInHand,
                      CallsCounted, CallsBounded, Answering, callerVars, serverVars
<1>9. ASSUME NEW answer \in Answers, Infer(answer) PROVE NimInv'
  <2>1. Len(batch) > 0 /\ given = 0
    BY <1>9 DEF Infer, NimInv, NimTypeOK, BatchInHand, Answering
  <2>2. /\ batcher = "inferring" /\ calls = attempt + retries_429 /\ retries_429 < Max429
        /\ attempt \in 0..MaxRetries - 1 /\ retries_429 \in 0..Max429
    BY <1>9 DEF Infer, NimInv, NimTypeOK, CallsCounted
  <2>3. /\ batcher' \in {"inferring", "delivering", "failing"}
        /\ attempt' \in 0..MaxRetries - 1 /\ retries_429' \in 0..Max429 /\ calls' \in Nat
        /\ batcher' = "inferring" => calls' = attempt' + retries_429' /\ retries_429' < Max429
        /\ calls' <= MaxRetries + Max429 - 1
    BY <1>9, <2>2 DEF Infer, Throttled
  <2>4. QED
    BY <1>9, <2>1, <2>3 DEF Infer, BatcherUnchanged, NimInv, NimTypeOK, BatchInHand,
                            CallsCounted, CallsBounded, Answering, callerVars
<1>10. CASE SetFuture
  <2>1. /\ batch[given + 1] \in Inferences /\ given \in Nat /\ given + 1 <= Len(batch)
    BY <1>10 DEF SetFuture, NimInv, NimTypeOK, BatchInHand, Answering
  <2>2. future' \in [Inferences -> {"pending", "result", "exception"}]
    BY <1>10, <2>1 DEF SetFuture, NimInv, NimTypeOK
  <2>3. batch' \in Seq(Inferences) /\ given' \in 0..Len(batch') /\ BatchInHand'
    <3>1. batch \in Seq(Inferences) /\ Len(batch) \in Nat /\ Answering
      BY <1>10 DEF SetFuture, NimInv, NimTypeOK, Answering
    <3>2. CASE LastGiven
      BY <1>10, <3>1, <3>2 DEF SetFuture, BatchInHand, Answering
    <3>3. CASE ~LastGiven
      BY <1>10, <2>1, <3>1, <3>3 DEF SetFuture, LastGiven, BatchInHand, Answering, NimInv
    <3>4. QED
      BY <3>2, <3>3
  <2>4. batcher' \in {"checking", "delivering", "failing"} /\ CallsCounted'
    BY <1>10 DEF SetFuture, NimInv, NimTypeOK, CallsCounted, CallsBounded, serverVars
  <2>5. QED
    BY <1>10, <2>2, <2>3, <2>4 DEF SetFuture, BatcherUnchanged, NimInv, NimTypeOK, callerVars,
                                   serverVars
<1>11. CASE SetStop \/ CloseClient
  <2>1. request_queue' \in Seq(Inferences \union {None})
    <3>1. UNCHANGED request_queue \/ request_queue' = Append(request_queue, None)
      BY <1>11 DEF SetStop, CloseClient, PutSentinel, JoinBatcher
    <3>2. None \in Inferences \union {None} /\ request_queue \in Seq(Inferences \union {None})
      BY DEF NimInv, NimTypeOK
    <3>3. CASE request_queue' = Append(request_queue, None)
      BY <3>2, <3>3, AppendProperties
    <3>4. QED
      BY <3>1, <3>2, <3>3
  <2>2. NimTypeOK'
    BY <1>11, <2>1 DEF SetStop, CloseClient, PutSentinel, JoinBatcher, NimInv, NimTypeOK,
                       batcherVars, serverVars, callerVars
  <2>3. QED
    BY <1>11, <2>2, BatcherUntouched DEF SetStop, CloseClient, PutSentinel, JoinBatcher
<1>12. CASE UNCHANGED nimVars
  <2>1. NimTypeOK'
    BY <1>12 DEF NimInv, NimTypeOK, nimVars, batcherVars, serverVars, callerVars
  <2>2. QED
    BY <1>12, <2>1, BatcherUntouched DEF nimVars
<1>13. QED
  BY <1>1, <1>2, <1>3, <1>4, <1>5, <1>6, <1>7, <1>8, <1>9, <1>10, <1>11, <1>12
     DEF NimNext, Batcher

\* Every variable of the batching client has its type at all times (nim_client.py:534-660).
THEOREM NimTypes == NimSpec => []NimTypeOK
<1>1. NimInv => NimTypeOK
  BY DEF NimInv
<1>2. QED
  BY <1>1, NimInvInit, NimInvNext, PTL DEF NimSpec

\* Whatever mix of errors and throttling the server answers with, a batch costs at most
\* max_retries + max_429_retries - 1 calls (nim_client.py:320-427, 451-532).
THEOREM CallsAreBounded == NimSpec => []CallsBounded
<1>1. NimInv => CallsBounded
  BY BatcherAssumption DEF NimInv, NimTypeOK, CallsCounted, CallsBounded
<1>2. QED
  BY <1>1, NimInvInit, NimInvNext, PTL DEF NimSpec

-----------------------------------------------------------------------------
(* Requests are answered in the order of their submission: what is left of the batch and
   then the queue hold the unanswered ones, in that order. *)

Sent(s, r) == \E i \in DOMAIN s : s[i] = r

Precedes(s, a, b) == \A i, j \in DOMAIN s : s[i] = a /\ s[j] = b => i < j

\* The positions of the batch that are not answered yet.
Left == (given + 1) .. Len(batch)

IsRequest(k) == k \in DOMAIN request_queue /\ request_queue[k] # None

SentOnce ==
  /\ \A i, j \in DOMAIN submitted : submitted[i] = submitted[j] => i = j
  /\ \A i \in DOMAIN submitted :
       LET c == submitted[i][1]
       IN  caller[c] # "idle" /\ (caller[c] = "submitting" => submitted[i][2] < next[c])
  /\ \A r \in Inferences : Answered(r) => Sent(submitted, r)

Covered ==
  \A i \in DOMAIN submitted :
    \/ Answered(submitted[i])
    \/ \E k \in Left : batch[k] = submitted[i]
    \/ \E k \in DOMAIN request_queue : request_queue[k] = submitted[i]

InTurnInv ==
  /\ \A k \in Left : Sent(submitted, batch[k])
  /\ \A k : IsRequest(k) => Sent(submitted, request_queue[k])
  /\ \A k, l \in Left : k < l => Precedes(submitted, batch[k], batch[l])
  /\ \A k, l : IsRequest(k) /\ IsRequest(l) /\ k < l => Precedes(submitted, request_queue[k], request_queue[l])
  /\ \A k \in Left : \A l : IsRequest(l) => Precedes(submitted, batch[k], request_queue[l])

OrderInv == SentOnce /\ Covered /\ InTurnInv /\ AnsweredInOrder

LEMMA OrderInit == NimInit => OrderInv
<1> SUFFICES ASSUME NimInit PROVE OrderInv
  OBVIOUS
<1>1. DOMAIN submitted = {} /\ DOMAIN request_queue = {} /\ Left = {}
  BY DEF NimInit, Left
<1>2. \A r \in Inferences : ~Answered(r)
  BY DEF NimInit, Answered
<1>3. QED
  BY <1>1, <1>2 DEF OrderInv, SentOnce, Covered, InTurnInv, IsRequest, AnsweredInOrder

\* A request is the pair of its caller and its image.
LEMMA InferencePair ==
  ASSUME NEW r \in Inferences
  PROVE  r[1] \in Callers /\ r[2] \in Nat /\ r = <<r[1], r[2]>>
<1>1. PICK c \in Callers : r \in {c} \X (1..Images[c])
  BY DEF Inferences
<1>2. Images[c] \in Nat
  BY BatcherAssumption
<1>3. QED
  BY <1>1, <1>2

\* The steps that move requests from the queue to the batch, or only look at them.
LEMMA OrderMoves ==
  ASSUME OrderInv, NimInv, NimInv',
         CheckStop \/ GetNothing \/ GetFirst \/ Fill \/ StopFilling
           \/ (\E answer \in Answers : Infer(answer))
  PROVE  OrderInv'
<1> DEFINE took == request_queue # <<>> /\ request_queue' = Tail(request_queue)
<1>1. UNCHANGED <<submitted, future, caller, next>> /\ given = 0 /\ given' = 0
  BY DEF CheckStop, GetNothing, GetFirst, Fill, StopFilling, Infer, BatcherUnchanged, callerVars,
         NimInv, BatchInHand, Answering
<1>2. /\ request_queue \in Seq(Inferences \union {None}) /\ batch \in Seq(Inferences)
      /\ DOMAIN batch = Left /\ DOMAIN batch' = Left'
  BY <1>1 DEF NimInv, NimTypeOK, Left
<1>3. \A a, b : Precedes(submitted', a, b) <=> Precedes(submitted, a, b)
  BY <1>1 DEF Precedes
<1>4. \A r : (Sent(submitted', r) <=> Sent(submitted, r)) /\ (Answered(r)' <=> Answered(r))
  BY <1>1 DEF Sent, Answered
<1>5. SentOnce' /\ AnsweredInOrder'
  BY <1>1, <1>4 DEF OrderInv, SentOnce, AnsweredInOrder
<1>6. CASE UNCHANGED <<batch, request_queue>>
  BY <1>1, <1>2, <1>3, <1>4, <1>5, <1>6 DEF OrderInv, Covered, InTurnInv, IsRequest
<1>7. CASE UNCHANGED batch /\ took /\ Head(request_queue) = None
  <2>1. /\ \A k \in DOMAIN request_queue' : k + 1 \in DOMAIN request_queue
                                           /\ request_queue'[k] = request_queue[k + 1]
        /\ \A k \in DOMAIN request_queue : k = 1 \/ k - 1 \in DOMAIN request_queue'
        /\ request_queue[1] = None
    BY <1>2, <1>7
  <2>2. Covered'
    <3> SUFFICES ASSUME NEW i \in DOMAIN submitted, ~Answered(submitted[i])
                 PROVE  \/ \E k \in Left' : batch'[k] = submitted[i]
                        \/ \E k \in DOMAIN request_queue' : request_queue'[k] = submitted[i]
      BY <1>1, <1>4 DEF Covered
    <3>1. submitted[i] # None
      BY BatcherAssumption DEF NimInv, NimTypeOK
    <3>2. CASE \E k \in Left : batch[k] = submitted[i]
      BY <1>1, <1>2, <1>7, <3>2
    <3>3. CASE \E k \in DOMAIN request_queue : request_queue[k] = submitted[i]
      <4>1. PICK k \in DOMAIN request_queue : request_queue[k] = submitted[i]
        BY <3>3
      <4>2. k # 1 /\ k - 1 \in DOMAIN request_queue' /\ k \in Int
        BY <1>2, <2>1, <3>1, <4>1
      <4>3. request_queue'[k - 1] = request_queue[(k - 1) + 1]
        BY <2>1, <4>2
      <4>4. QED
        BY <4>1, <4>2, <4>3
    <3>4. QED
      BY <3>2, <3>3 DEF OrderInv, Covered
  <2>3. InTurnInv'
    <3>1. \A k : IsRequest(k)' => k \in Nat /\ IsRequest(k + 1)
                                 /\ request_queue'[k] = request_queue[k + 1]
      BY <1>2, <2>1, <1>7 DEF IsRequest
    <3>2. Left' = Left /\ batch' = batch
      BY <1>1, <1>2, <1>7
    <3>3. QED
      BY <1>3, <1>4, <3>1, <3>2 DEF OrderInv, InTurnInv
  <2>4. QED
    BY <1>5, <2>2, <2>3 DEF OrderInv
<1>8. CASE took /\ Head(request_queue) # None /\ batch' = Append(batch, Head(request_queue))
  <2>1. /\ \A k \in DOMAIN request_queue' : k + 1 \in DOMAIN request_queue
                                           /\ request_queue'[k] = request_queue[k + 1]
        /\ \A k \in DOMAIN request_queue : k = 1 \/ k - 1 \in DOMAIN request_queue'
        /\ request_queue[1] # None /\ IsRequest(1)
    BY <1>2, <1>8 DEF IsRequest
  <2>2. /\ Len(batch) \in Nat /\ Left' = Left \union {Len(batch) + 1} /\ Left = 1..Len(batch)
        /\ \A k \in Left : batch'[k] = batch[k] /\ k < Len(batch) + 1
        /\ batch'[Len(batch) + 1] = request_queue[1]
    BY <1>1, <1>2, <1>8 DEF Left
  <2>3. Covered'
    <3> SUFFICES ASSUME NEW i \in DOMAIN submitted, ~Answered(submitted[i])
                 PROVE  \/ \E k \in Left' : batch'[k] = submitted[i]
                        \/ \E k \in DOMAIN request_queue' : request_queue'[k] = submitted[i]
      BY <1>1, <1>4 DEF Covered
    <3>1. CASE \E k \in Left : batch[k] = submitted[i]
      BY <2>2, <3>1
    <3>2. CASE \E k \in DOMAIN request_queue : request_queue[k] = submitted[i]
      <4>1. PICK k \in DOMAIN request_queue : request_queue[k] = submitted[i]
        BY <3>2
      <4>2. CASE k = 1
        BY <2>2, <4>1, <4>2
      <4>3. CASE k # 1
        <5>1. k - 1 \in DOMAIN request_queue' /\ k \in Int
          BY <1>2, <2>1, <4>1, <4>3
        <5>2. request_queue'[k - 1] = request_queue[(k - 1) + 1]
          BY <2>1, <5>1
        <5>3. QED
          BY <4>1, <5>1, <5>2
      <4>4. QED
        BY <4>2, <4>3
    <3>3. QED
      BY <3>1, <3>2 DEF OrderInv, Covered
  <2>4. InTurnInv'
    <3>1. \A k : IsRequest(k)' => /\ k \in Nat /\ 1 < k + 1 /\ IsRequest(k + 1)
                                 /\ request_queue'[k] = request_queue[k + 1]
      BY <1>2, <2>1, <1>8 DEF IsRequest
    <3>2. (\A k \in Left' : Sent(submitted, batch'[k])) /\ (\A k : IsRequest(k)' => Sent(submitted, request_queue'[k]))
      BY <2>1, <2>2, <3>1 DEF OrderInv, InTurnInv
    <3>3. \A k, l \in Left' : k < l => Precedes(submitted, batch'[k], batch'[l])
      BY <2>1, <2>2 DEF OrderInv, InTurnInv
    <3>4. \A k, l : IsRequest(k)' /\ IsRequest(l)' /\ k < l =>
                     Precedes(submitted, request_queue'[k], request_queue'[l])
      <4> SUFFICES ASSUME NEW k, NEW l, IsRequest(k)', IsRequest(l)', k < l
                   PROVE  Precedes(submitted, request_queue'[k], request_queue'[l])
        OBVIOUS
      <4>1. /\ IsRequest(k + 1) /\ request_queue'[k] = request_queue[k + 1] /\ k + 1 < l + 1
            /\ IsRequest(l + 1) /\ request_queue'[l] = request_queue[l + 1]
        BY <3>1
      <4>2. Precedes(submitted, request_queue[k + 1], request_queue[l + 1])
        BY <4>1 DEF OrderInv, InTurnInv
      <4>3. QED
        BY <4>1, <4>2
    <3>5. \A k \in Left' : \A l : IsRequest(l)' => Precedes(submitted, batch'[k], request_queue'[l])
      BY <2>1, <2>2, <3>1 DEF OrderInv, InTurnInv
    <3>6. QED
      BY <1>3, <1>4, <3>2, <3>3, <3>4, <3>5 DEF InTurnInv
  <2>5. QED
    BY <1>5, <2>3, <2>4 DEF OrderInv
<1>9. QED
  <2>1. GetFirst => took /\ Head(request_queue) # None /\ batch' = Append(batch, Head(request_queue))
    <3>1. GetFirst => batch = <<>>
      BY DEF GetFirst, NimInv, BatchInHand, Answering
    <3>2. GetFirst => Head(request_queue) \in Inferences
      BY <1>2 DEF GetFirst
    <3>3. QED
      BY <3>1, <3>2 DEF GetFirst
  <2>2. QED
    BY <1>6, <1>7, <1>8, <2>1 DEF CheckStop, GetNothing, Fill, StopFilling, Infer, Peek

\* A new request goes to the end of the queue, and to the end of the history.
LEMMA OrderSubmit ==
  ASSUME OrderInv, NimInv, NEW c \in Callers, Submit(c)
  PROVE  OrderInv'
<1> DEFINE new == <<c, next[c]>>
           n == Len(submitted) + 1
           m == Len(request_queue) + 1
<1>1. /\ new \in Inferences /\ new[1] = c /\ new[2] = next[c]
      /\ new # None /\ next[c] \in Nat \ {0} /\ caller[c] = "submitting"
  BY InferenceOf, BatcherAssumption DEF NimInv, NimTypeOK, Submit
<1>2. /\ submitted \in Seq(Inferences) /\ Len(submitted) \in Nat
      /\ DOMAIN submitted = 1..Len(submitted) /\ DOMAIN submitted' = 1..n
      /\ submitted'[n] = new /\ \A i \in DOMAIN submitted : submitted'[i] = submitted[i]
  BY <1>1, SMTT(40) DEF NimInv, NimTypeOK, Submit
<1>3. /\ request_queue \in Seq(Inferences \union {None}) /\ Len(request_queue) \in Nat
      /\ DOMAIN request_queue = 1..Len(request_queue) /\ DOMAIN request_queue' = 1..m
      /\ request_queue'[m] = new
      /\ \A k \in DOMAIN request_queue : request_queue'[k] = request_queue[k]
  BY <1>1, SMTT(40) DEF NimInv, NimTypeOK, Submit
<1>4. UNCHANGED <<batch, given, future>> /\ Left' = Left
  BY DEF Submit, batcherVars, Left
<1>5. ~Sent(submitted, new) /\ ~Answered(new)
  <2>1. ASSUME NEW i \in DOMAIN submitted, submitted[i] = new PROVE FALSE
    BY <1>1, <2>1 DEF OrderInv, SentOnce
  <2>2. QED
    BY <1>1, <2>1 DEF OrderInv, SentOnce, Sent
<1>6. \A r : Sent(submitted', r) <=> Sent(submitted, r) \/ r = new
  <2>1. ASSUME NEW r, Sent(submitted', r) PROVE Sent(submitted, r) \/ r = new
    <3>1. PICK i \in 1..n : submitted'[i] = r
      BY <1>2, <2>1 DEF Sent
    <3>2. CASE i = n
      BY <1>2, <3>1, <3>2
    <3>3. CASE i # n
      BY <1>2, <3>1, <3>3 DEF Sent
    <3>4. QED
      BY <3>2, <3>3
  <2>2. ASSUME NEW r, Sent(submitted, r) \/ r = new PROVE Sent(submitted', r)
    <3>1. CASE r = new
      <4>1. n \in DOMAIN submitted'
        BY <1>2
      <4>2. QED
        BY <1>2, <3>1, <4>1 DEF Sent
    <3>2. CASE Sent(submitted, r)
      <4>1. PICK i \in DOMAIN submitted : submitted[i] = r
        BY <3>2 DEF Sent
      <4>2. i \in DOMAIN submitted' /\ submitted'[i] = r
        BY <1>2, <4>1
      <4>3. QED
        BY <4>2 DEF Sent
    <3>3. QED
      BY <2>2, <3>1, <3>2
  <2>3. QED
    BY <2>1, <2>2
<1>7. \A a, b : Sent(submitted, a) /\ (Precedes(submitted, a, b) \/ b = new) => Precedes(submitted', a, b)
  <2> SUFFICES ASSUME NEW a, NEW b, Sent(submitted, a), Precedes(submitted, a, b) \/ b = new,
                      NEW i \in 1..n, NEW j \in 1..n, submitted'[i] = a, submitted'[j] = b
               PROVE  i < j
    BY <1>2 DEF Precedes
  <2>1. i # n /\ i \in DOMAIN submitted /\ submitted[i] = a
    BY <1>2, <1>5 DEF Sent
  <2>2. CASE j = n
    BY <1>2, <2>1, <2>2
  <2>3. CASE j # n
    <3>1. j \in DOMAIN submitted /\ submitted[j] = b /\ b # new
      BY <1>2, <1>5, <2>3 DEF Sent
    <3>2. QED
      BY <2>1, <3>1 DEF Precedes
  <2>4. QED
    BY <2>2, <2>3
<1>8. \A r : Answered(r)' <=> Answered(r)
  BY <1>4 DEF Answered
<1>9. SentOnce'
  <2>1. \A i, j \in DOMAIN submitted' : submitted'[i] = submitted'[j] => i = j
    BY <1>2, <1>5 DEF OrderInv, SentOnce, Sent
  <2>2. ASSUME NEW i \in DOMAIN submitted'
        PROVE  /\ caller'[submitted'[i][1]] # "idle"
               /\ caller'[submitted'[i][1]] = "submitting" =>
                    submitted'[i][2] < next'[submitted'[i][1]]
    <3> DEFINE r == submitted'[i]
    <3>1. r \in Inferences /\ r[1] \in Callers /\ r[2] \in Nat
      <4>1. r \in Inferences
        <5>1. CASE i = n
          BY <1>1, <1>2, <5>1
        <5>2. CASE i # n
          <6>1. i \in DOMAIN submitted /\ r = submitted[i]
            BY <1>2, <2>2, <5>2
          <6>2. QED
            BY <1>2, <6>1
        <5>3. QED
          BY <5>1, <5>2
      <4>2. QED
        BY <4>1, InferencePair
    <3>2. /\ r = new \/ r[1] # c => r[1] # c \/ r[2] = next[c]
          /\ r # new => caller[r[1]] # "idle" /\ (caller[r[1]] = "submitting" => r[2] < next[r[1]])
      BY <1>1, <1>2 DEF OrderInv, SentOnce
    <3>3. CASE r[1] = c
      BY <1>1, <3>1, <3>2, <3>3, SMTT(40) DEF Submit, NimInv, NimTypeOK
    <3>4. CASE r[1] # c
      <4>1. caller'[r[1]] = caller[r[1]] /\ next'[r[1]] = next[r[1]]
        BY <3>1, <3>4 DEF Submit, NimInv, NimTypeOK
      <4>2. r # new
        BY <1>1, <3>4
      <4>3. QED
        BY <3>2, <4>1, <4>2
    <3>5. QED
      BY <3>3, <3>4
  <2>3. \A r \in Inferences : Answered(r)' => Sent(submitted', r)
    BY <1>6, <1>8 DEF OrderInv, SentOnce
  <2>4. QED
    BY <2>1, <2>2, <2>3 DEF SentOnce
<1>10. Covered'
  <2> SUFFICES ASSUME NEW i \in 1..n
               PROVE  \/ future'[submitted'[i]] # "pending"
                      \/ \E k \in Left' : batch'[k] = submitted'[i]
                      \/ \E k \in DOMAIN request_queue' : request_queue'[k] = submitted'[i]
    BY <1>2, Zenon DEF Covered, Answered
  <2>1. CASE i = n
    <3>1. m \in DOMAIN request_queue'
      BY <1>3
    <3>2. QED
      BY <1>2, <1>3, <2>1, <3>1
  <2>2. CASE i # n
    <3>1. i \in DOMAIN submitted /\ submitted'[i] = submitted[i]
      BY <1>2, <2>2
    <3>2. CASE Answered(submitted[i])
      BY <1>4, <3>1, <3>2 DEF Answered
    <3>3. CASE \E k \in Left : batch[k] = submitted[i]
      BY <1>4, <3>1, <3>3
    <3>4. CASE \E k \in DOMAIN request_queue : request_queue[k] = submitted[i]
      <4>1. PICK k \in DOMAIN request_queue : request_queue[k] = submitted[i]
        BY <3>4
      <4>2. k \in DOMAIN request_queue' /\ request_queue'[k] = submitted'[i]
        BY <1>3, <3>1, <4>1
      <4>3. QED
        BY <4>2
    <3>5. QED
      BY <3>1, <3>2, <3>3, <3>4 DEF OrderInv, Covered
  <2>3. QED
    BY <2>1, <2>2
<1>11. InTurnInv'
  <2>1. \A k : IsRequest(k)' <=> IsRequest(k) \/ k = m
    BY <1>1, <1>3 DEF IsRequest
  <2>2. \A k : IsRequest(k) => k \in Nat /\ k < m /\ request_queue'[k] = request_queue[k]
    BY <1>3 DEF IsRequest
  <2>3. /\ \A k \in Left' : Sent(submitted', batch'[k])
        /\ \A k : IsRequest(k)' => Sent(submitted', request_queue'[k])
    BY <1>3, <1>4, <1>6, <2>1, <2>2 DEF OrderInv, InTurnInv
  <2>4. \A k, l \in Left' : k < l => Precedes(submitted', batch'[k], batch'[l])
    BY <1>4, <1>7 DEF OrderInv, InTurnInv
  <2>5. ASSUME NEW k, NEW l, IsRequest(k)', IsRequest(l)', k < l
        PROVE  Precedes(submitted', request_queue'[k], request_queue'[l])
    <3>1. IsRequest(k)
      BY <1>3, <2>1, <2>2, <2>5
    <3>2. CASE IsRequest(l)
      BY <1>7, <2>2, <2>5, <3>1, <3>2 DEF OrderInv, InTurnInv
    <3>3. CASE l = m
      BY <1>3, <1>7, <2>2, <3>1, <3>3 DEF OrderInv, InTurnInv
    <3>4. QED
      BY <2>1, <2>5, <3>2, <3>3
  <2>6. ASSUME NEW k \in Left', NEW l, IsRequest(l)'
        PROVE  Precedes(submitted', batch'[k], request_queue'[l])
    BY <1>3, <1>4, <1>7, <2>1, <2>2, <2>6 DEF OrderInv, InTurnInv
  <2>7. QED
    BY <2>3, <2>4, <2>5, <2>6 DEF InTurnInv
<1>12. AnsweredInOrder'
  BY <1>2, <1>5, <1>8 DEF OrderInv, AnsweredInOrder
<1>13. QED
  BY <1>9, <1>10, <1>11, <1>12 DEF OrderInv

\* The first request that is left is answered; every earlier one was.
LEMMA OrderAnswer ==
  ASSUME OrderInv, NimInv, NimInv', SetFuture
  PROVE  OrderInv'
<1> DEFINE first == batch[given + 1]
<1>1. /\ given \in Nat /\ Len(batch) \in Nat /\ given + 1 \in Left /\ first \in Inferences
      /\ UNCHANGED <<request_queue, submitted, caller, next>>
  BY SMTT(40) DEF SetFuture, BatcherUnchanged, callerVars, NimInv, NimTypeOK, BatchInHand, Answering, Left
<1>2. \A r \in Inferences : Answered(r)' <=> Answered(r) \/ r = first
  BY <1>1 DEF SetFuture, Answered, NimInv, NimTypeOK
<1>3. \A k \in Left' : k \in Left /\ k # given + 1 /\ batch'[k] = batch[k]
  BY <1>1 DEF SetFuture, LastGiven, Left
<1>4. \A k \in Left : k = given + 1 \/ k \in Left'
  BY <1>1 DEF SetFuture, LastGiven, Left
<1>5. \A i \in DOMAIN submitted : submitted[i] \in Inferences
  BY SMTT(40) DEF NimInv, NimTypeOK
<1>6. (\A a, b : Precedes(submitted', a, b) <=> Precedes(submitted, a, b)) /\ (\A r : Sent(submitted', r) <=> Sent(submitted, r))
  BY <1>1 DEF Precedes, Sent
<1>7. SentOnce'
  BY <1>1, <1>2, <1>6 DEF OrderInv, SentOnce, InTurnInv
<1>8. Covered'
  BY <1>1, <1>2, <1>3, <1>4, <1>5 DEF OrderInv, Covered
<1>9. InTurnInv'
  BY <1>1, <1>3, <1>6 DEF OrderInv, InTurnInv, IsRequest
<1>10. AnsweredInOrder'
  <2> SUFFICES ASSUME NEW i \in DOMAIN submitted, NEW j \in DOMAIN submitted, i < j,
                      submitted[j] = first, ~Answered(submitted[i]), submitted[i] # first
               PROVE  FALSE
    BY <1>1, <1>2, <1>5 DEF OrderInv, AnsweredInOrder
  <2>1. i \in Int /\ j \in Int
    <3>1. DOMAIN submitted = 1..Len(submitted) /\ Len(submitted) \in Nat
      BY SMTT(40) DEF NimInv, NimTypeOK
    <3>2. QED
      BY <3>1
  <2>2. Precedes(submitted, first, submitted[i])
    <3>1. CASE \E k \in Left : batch[k] = submitted[i]
      BY <1>1, <3>1 DEF OrderInv, InTurnInv, Left
    <3>2. CASE \E k \in DOMAIN request_queue : request_queue[k] = submitted[i]
      BY <1>1, <1>5, <3>2, BatcherAssumption DEF OrderInv, InTurnInv, IsRequest
    <3>3. QED
      BY <3>1, <3>2 DEF OrderInv, Covered
  <2>3. QED
    BY <2>1, <2>2 DEF Precedes
<1>11. QED
  BY <1>7, <1>8, <1>9, <1>10 DEF OrderInv

\* The steps that move neither a request nor an answer.
LEMMA OrderIdle ==
  ASSUME OrderInv, NimInv,
         UNCHANGED <<submitted, future, batch, given>>,
         \/ UNCHANGED request_queue
         \/ request_queue' = Append(request_queue, None),
         \/ UNCHANGED <<caller, next>>
         \/ \E c \in Callers : StartInfer(c) \/ AwaitFuture(c)
  PROVE  OrderInv'
<1>1. /\ \A a, b : Precedes(submitted', a, b) <=> Precedes(submitted, a, b)
      /\ \A r : (Sent(submitted', r) <=> Sent(submitted, r)) /\ (Answered(r)' <=> Answered(r))
      /\ Left' = Left
  BY DEF Precedes, Sent, Answered, Left
<1>2. /\ \A k : IsRequest(k)' <=> IsRequest(k)
      /\ \A k \in DOMAIN request_queue : k \in DOMAIN request_queue'
                                         /\ request_queue'[k] = request_queue[k]
  <2>1. CASE UNCHANGED request_queue
    BY <2>1 DEF IsRequest
  <2>2. CASE request_queue' = Append(request_queue, None)
    <3> DEFINE m == Len(request_queue) + 1
    <3>1. request_queue \in Seq(Inferences \union {None}) /\ Len(request_queue) \in Nat
      BY DEF NimInv, NimTypeOK
    <3>2. /\ DOMAIN request_queue = 1..Len(request_queue) /\ DOMAIN request_queue' = 1..m
          /\ request_queue'[m] = None
          /\ \A k \in 1..Len(request_queue) : request_queue'[k] = request_queue[k]
      BY <2>2, <3>1
    <3>3. QED
      BY <3>1, <3>2 DEF IsRequest
  <2>3. QED
    BY <2>1, <2>2
<1>3. \A k \in DOMAIN request_queue : k \in DOMAIN request_queue'
                                     /\ request_queue'[k] = request_queue[k]
  BY <1>2
<1>4. \A i \in DOMAIN submitted : submitted[i] \in Inferences /\ submitted[i][1] \in Callers
  BY InferencePair DEF NimInv, NimTypeOK
<1>5. \A c \in Callers : \/ caller'[c] = caller[c] /\ next'[c] = next[c]
                         \/ caller[c] = "idle"
                         \/ caller[c] = "waiting" /\ caller'[c] \notin {"idle", "submitting"}
  BY DEF StartInfer, AwaitFuture, NimInv, NimTypeOK
<1>6. SentOnce'
  BY <1>1, <1>4, <1>5 DEF OrderInv, SentOnce
<1>7. Covered'
  BY <1>1, <1>3 DEF OrderInv, Covered
<1>8. InTurnInv'
  BY <1>1, <1>2, <1>3 DEF OrderInv, InTurnInv, IsRequest
<1>9. QED
  BY <1>1, <1>6, <1>7, <1>8 DEF OrderInv, AnsweredInOrder

LEMMA OrderNext == NimInv /\ NimInv' /\ OrderInv /\ [NimNext]_nimVars => OrderInv'
<1> SUFFICES ASSUME NimInv, NimInv', OrderInv, [NimNext]_nimVars PROVE OrderInv'
  OBVIOUS
<1>1. ASSUME NEW c \in Callers, StartInfer(c) \/ AwaitFuture(c) PROVE OrderInv'
  BY <1>1, OrderIdle DEF StartInfer, AwaitFuture, batcherVars
<1>2. ASSUME NEW c \in Callers, Submit(c) PROVE OrderInv'
  BY <1>2, OrderSubmit
<1>3. CASE CheckStop \/ GetNothing \/ GetFirst \/ Fill \/ StopFilling
             \/ (\E answer \in Answers : Infer(answer))
  BY <1>3, OrderMoves
<1>4. CASE SetFuture
  BY <1>4, OrderAnswer
<1>5. CASE SetStop \/ CloseClient
  BY <1>5, OrderIdle DEF SetStop, CloseClient, PutSentinel, JoinBatcher, batcherVars, callerVars
<1>6. CASE UNCHANGED nimVars
  BY <1>6, OrderIdle DEF nimVars, batcherVars, callerVars
<1>7. QED
  BY <1>1, <1>2, <1>3, <1>4, <1>5, <1>6 DEF NimNext, Batcher

\* No request overtakes an earlier one, across callers and batches (nim_client.py:534-647).
THEOREM AnswersInOrder == NimSpec => []AnsweredInOrder
<1>1. OrderInv => AnsweredInOrder
  BY DEF OrderInv
<1>2. QED
  BY <1>1, NimInvInit, NimInvNext, OrderInit, OrderNext, PTL DEF NimSpec

-----------------------------------------------------------------------------
(* What the resource manager decides. *)

ConstraintsSpec == ConstraintsInit /\ [][CalculateScalingAdjustments]_constraintVars

LEMMA StageFacts ==
  /\ IsFiniteSet(Managed) /\ MemoryLimit \in Nat
  /\ \A s \in Managed : Floor[s] \in Nat /\ Ceiling[s] \in Nat /\ CostMB[s] \in Nat \ {0}
  BY ConstraintsAssumption

LEMMA RequestFacts ==
  ASSUME NEW req \in Requests
  PROVE  /\ req.in_flight \in {0, 1} /\ req.memory \in Nat
         /\ req.max_replicas \in Nat /\ req.cores \in Nat
         /\ \A s \in Managed : req.current[s] \in Nat /\ req.proposed[s] \in Int
<1>1. /\ req.current \in [Managed -> 0 .. MaxCurrent] /\ req.proposed \in [Managed -> Proposals]
      /\ req.in_flight \in {0, 1} /\ req.memory \in MemoryUses
      /\ req.max_replicas \in MaxTotals /\ req.cores \in CoreLimits
  BY DEF Requests
<1>2. req.memory \in Nat /\ req.max_replicas \in Nat /\ req.cores \in Nat /\ MaxCurrent \in Nat
  BY <1>1, ConstraintsAssumption
<1>3. \A s \in Managed : req.current[s] \in Nat
  BY <1>1, <1>2
<1>4. \A s \in Managed : req.proposed[s] \in Int
  BY <1>1, ConstraintsAssumption
<1> QED
  BY <1>1, <1>2, <1>3, <1>4

\* A stage's effective minimum.
LEMMA MinFacts ==
  ASSUME NEW req \in Requests, NEW s \in Managed
  PROVE  /\ EffectiveMin(req, s) \in Nat /\ EffectiveMin(req, s) >= Floor[s]
         /\ req.in_flight > 0 => EffectiveMin(req, s) >= 1
         /\ req.in_flight = 0 => EffectiveMin(req, s) = Floor[s]
         /\ EffectiveMin(req, s) = Floor[s] \/ EffectiveMin(req, s) = Larger(1, Floor[s])
  BY StageFacts, RequestFacts DEF EffectiveMin, Larger

LEMMA PriorFacts ==
  ASSUME NEW req \in Requests
  PROVE  \A s \in Managed : AggressiveScaleDown(req)[s] \in Int
<1> SUFFICES ASSUME NEW s \in Managed
             PROVE  AggressiveScaleDown(req)[s] \in Int
  OBVIOUS
<1> DEFINE p == req.proposed[s]
           m == EffectiveMin(req, s)
<1>1. p \in Int /\ m \in Nat
  BY RequestFacts, MinFacts
<1> HIDE DEF m
<1>2. AggressiveScaleDown(req)[s] =
        IF req.memory > MemoryLimit /\ p > 1
        THEN Smaller(p, Larger(m, p - Larger(1, p \div 4))) ELSE p
  BY DEF AggressiveScaleDown, m
<1> HIDE DEF p
<1>3. p \div 4 \in Int
  BY <1>1
<1> QED
  BY <1>1, <1>2, <1>3 DEF Smaller, Larger

-----------------------------------------------------------------------------
(* Fractions. *)

Fractions == Nat \X (Nat \ {0})

AtMost(f, g) == f[1] * g[2] <= g[1] * f[2]

HasLeast(A) == \E f \in A : \A g \in A : AtMost(f, g)

LEMMA TimesMonotone ==
  ASSUME NEW a \in Nat, NEW b \in Nat, NEW c \in Nat, a <= b
  PROVE  a * c <= b * c
  OBVIOUS

LEMMA TimesCancel ==
  ASSUME NEW a \in Nat, NEW b \in Nat, NEW c \in Nat \ {0}, a * c <= b * c
  PROVE  a <= b
  OBVIOUS

LEMMA AtMostTransitive ==
  ASSUME NEW f \in Fractions, NEW g \in Fractions, NEW h \in Fractions,
         AtMost(f, g), AtMost(g, h)
  PROVE  AtMost(f, h)
<1> DEFINE a == f[1]
           b == f[2]
           c == g[1]
           d == g[2]
           p == h[1]
           q == h[2]
<1>1. /\ a \in Nat /\ b \in Nat \ {0} /\ c \in Nat /\ d \in Nat \ {0}
      /\ p \in Nat /\ q \in Nat \ {0}
  BY DEF Fractions
<1>2. a * d <= c * b /\ c * q <= p * d
  BY DEF AtMost
<1> SUFFICES a * q <= p * b
  BY DEF AtMost
<1> HIDE DEF a, b, c, d, p, q
<1>3. /\ a * d \in Nat /\ c * b \in Nat /\ c * q \in Nat /\ p * d \in Nat
      /\ a * q \in Nat /\ p * b \in Nat
  BY <1>1
<1>4. (a * d) * q <= (c * b) * q
  BY <1>1, <1>2, <1>3, TimesMonotone
<1>5. (c * q) * b <= (p * d) * b
  BY <1>1, <1>2, <1>3, TimesMonotone
<1>6. /\ (a * q) * d = (a * d) * q
      /\ (c * b) * q = (c * q) * b
      /\ (p * d) * b = (p * b) * d
  BY <1>1
<1>7. (a * q) * d <= (p * b) * d
  <2>1. (c * b) * q \in Nat /\ (a * d) * q \in Nat /\ (p * d) * b \in Nat
    BY <1>1, <1>3
  <2> QED
    BY <1>4, <1>5, <1>6, <2>1
<1> QED
  BY <1>1, <1>3, <1>7, TimesCancel

\* A set of fractions that has a least one has one when another fraction is added.
LEMMA LeastOfMore ==
  ASSUME NEW A \in SUBSET Fractions, NEW x \in Fractions, HasLeast(A),
         NEW B, B = A \union {x} \/ B = A
  PROVE  B \in SUBSET Fractions /\ HasLeast(B)
<1> SUFFICES HasLeast(A \union {x})
  OBVIOUS
<1>1. PICK f \in A : \A g \in A : AtMost(f, g)
  BY DEF HasLeast
<1>2. AtMost(f, x) \/ AtMost(x, f)
  <2>1. f[1] \in Nat /\ f[2] \in Nat /\ x[1] \in Nat /\ x[2] \in Nat
    BY DEF Fractions
  <2>2. f[1] * x[2] \in Nat /\ x[1] * f[2] \in Nat
    BY <2>1
  <2> QED
    BY <2>2 DEF AtMost
<1>3. CASE AtMost(f, x)
  BY <1>1, <1>3 DEF HasLeast
<1>4. CASE AtMost(x, f)
  <2>1. \A g \in A : AtMost(x, g)
    BY <1>1, <1>4, AtMostTransitive
  <2>2. AtMost(x, x)
    BY DEF AtMost, Fractions
  <2> QED
    BY <2>1, <2>2 DEF HasLeast
<1> QED
  BY <1>2, <1>3, <1>4

\* What is granted of a request is no more than the fraction of it.
LEMMA ShareFacts ==
  ASSUME NEW f \in Fractions, NEW n \in Nat
  PROVE  /\ Share(f, n) \in Nat
         /\ f[2] * Share(f, n) <= f[1] * n
<1> DEFINE a == n * f[1]
           d == f[2]
<1>1. a \in Nat /\ d \in Nat \ {0} /\ f[1] * n = a
  BY DEF Fractions
<1>2. Share(f, n) = a \div d
  BY DEF Share
<1> HIDE DEF a, d
<1>3. a \div d \in Nat /\ d * (a \div d) <= a
  BY <1>1
<1> QED
  BY <1>1, <1>2, <1>3 DEF d

-----------------------------------------------------------------------------
(* The limits. *)

\* How many replicas may be added, by the replica caps, and how much memory.
FreeReplicas(req) == Smaller(req.max_replicas, req.cores) - SumOfMins(req)
FreeMB(req) == Larger(0, MemoryLimit - req.memory)

LEMMA IncreaseFacts ==
  ASSUME NEW req \in Requests, NEW n, \A s \in Managed : n[s] \in Int
  PROVE  /\ \A s \in Managed : /\ Increase(req, n)[s] \in Nat
                               /\ n[s] <= EffectiveMin(req, s) + Increase(req, n)[s]
                               /\ Increase(req, n)[s] * CostMB[s] \in Nat
                               /\ Increase(req, n)[s] <= Increase(req, n)[s] * CostMB[s]
         /\ Total(Increase(req, n)) \in Nat /\ IncreaseMB(req, n) \in Nat
         /\ Total(Increase(req, n)) <= IncreaseMB(req, n)
         /\ SumOfMins(req) \in Nat
<1> DEFINE inc == Increase(req, n)
           mb == [s \in Managed |-> inc[s] * CostMB[s]]
           mins == [s \in Managed |-> EffectiveMin(req, s)]
<1>1. \A s \in Managed : inc[s] \in Nat /\ n[s] <= EffectiveMin(req, s) + inc[s]
  BY MinFacts DEF Increase, Larger
<1>2. \A s \in Managed : mb[s] = inc[s] * CostMB[s] /\ mins[s] = EffectiveMin(req, s)
  OBVIOUS
<1>3. IncreaseMB(req, n) = SumOver(mb, Managed) /\ SumOfMins(req) = SumOver(mins, Managed)
  BY DEF IncreaseMB, SumOfMins, Total
<1> HIDE DEF mb, inc, mins
<1>4. \A s \in Managed : inc[s] * CostMB[s] \in Nat /\ inc[s] <= inc[s] * CostMB[s]
  <2> SUFFICES ASSUME NEW s \in Managed
               PROVE  inc[s] * CostMB[s] \in Nat /\ inc[s] <= inc[s] * CostMB[s]
    OBVIOUS
  <2>1. CostMB[s] \in Nat \ {0} /\ inc[s] \in Nat
    BY <1>1, StageFacts
  <2>2. CostMB[s] >= 1 /\ inc[s] * 1 = inc[s]
    BY <2>1
  <2> QED
    BY <2>1, <2>2, TimesMonotone
<1>5. SumOver(inc, Managed) \in Nat /\ SumOver(mb, Managed) \in Nat
  BY <1>1, <1>2, <1>4, StageFacts, SumFacts
<1>6. SumOver(mins, Managed) \in Nat
  BY <1>2, MinFacts, StageFacts, SumFacts
<1>7. SumOver(inc, Managed) <= SumOver(mb, Managed)
  <2>1. 1 * SumOver(inc, Managed) <= 1 * SumOver(mb, Managed)
    <3>1. \A s \in Managed : inc[s] \in Nat /\ mb[s] \in Nat /\ 1 * inc[s] <= 1 * mb[s]
      BY <1>1, <1>2, <1>4
    <3>2. 1 \in Nat
      OBVIOUS
    <3> QED
      BY <3>1, <3>2, StageFacts, SumCompare
  <2> QED
    BY <1>5, <2>1
<1> QED
  BY <1>1, <1>3, <1>4, <1>5, <1>6, <1>7 DEF inc, Total

\* The reduction factor is a fraction no greater than one, nor than what a limit leaves.
LEMMA FactorFacts ==
  ASSUME NEW req \in Requests, NEW n, \A s \in Managed : n[s] \in Int,
         RoomToScaleUp(req), Total(Increase(req, n)) # 0
  PROVE  LET f == ReductionFactor(req, n)
             asked == Total(Increase(req, n))
             memory == IncreaseMB(req, n)
         IN  /\ f \in Fractions /\ f[1] <= f[2]
             /\ \A cap \in {req.max_replicas, req.cores} : SumOfMins(req) + asked > cap =>
                  f[1] * asked <= (cap - SumOfMins(req)) * f[2]
             /\ req.memory + memory > MemoryLimit => f[1] * memory <= FreeMB(req) * f[2]
<1> DEFINE asked == Total(Increase(req, n))
           memory == IncreaseMB(req, n)
           m == SumOfMins(req)
           a == req.max_replicas
           b == req.cores
           one == <<1, 1>>
           ofCap(cap) == <<Larger(0, cap - m), asked>>
           ofMemory == <<Larger(0, MemoryLimit - req.memory), memory>>
           All == Factors(req, n) \union {one}
<1>1. asked \in Nat \ {0} /\ memory \in Nat \ {0} /\ m \in Nat
  BY IncreaseFacts
<1>2. a \in Nat /\ b \in Nat /\ m < a /\ m < b
  BY RequestFacts DEF RoomToScaleUp
<1>3. req.memory \in Nat /\ MemoryLimit \in Nat
  BY RequestFacts, StageFacts
<1>4. All = {ofCap(cap) : cap \in {c \in {a, b} : m + asked > c}}
              \union (IF req.memory + memory > MemoryLimit THEN {ofMemory} ELSE {})
              \union {one}
  BY DEF Factors
<1> HIDE DEF asked, memory, m
<1>5. /\ ofCap(a) \in Fractions /\ ofCap(b) \in Fractions
      /\ ofMemory \in Fractions /\ one \in Fractions
      /\ ofCap(a)[1] = a - m /\ ofCap(b)[1] = b - m
  BY <1>1, <1>2, <1>3 DEF Fractions, Larger
<1> DEFINE A1 == {one}
           A2 == IF req.memory + memory > MemoryLimit THEN A1 \union {ofMemory} ELSE A1
           A3 == IF m + asked > a THEN A2 \union {ofCap(a)} ELSE A2
           A4 == IF m + asked > b THEN A3 \union {ofCap(b)} ELSE A3
<1>6. All = A4
  BY <1>4
<1>7. A1 \in SUBSET Fractions /\ HasLeast(A1)
  BY <1>5 DEF AtMost, HasLeast
<1> HIDE DEF A1, ofCap, ofMemory, one, All
<1>8. A2 \in SUBSET Fractions /\ HasLeast(A2)
  <2>1. A2 = A1 \union {ofMemory} \/ A2 = A1
    OBVIOUS
  <2> HIDE DEF A2
  <2> QED
    BY <1>5, <1>7, <2>1, LeastOfMore
<1> HIDE DEF A2
<1>9. A3 \in SUBSET Fractions /\ HasLeast(A3)
  <2>1. A3 = A2 \union {ofCap(a)} \/ A3 = A2
    OBVIOUS
  <2> HIDE DEF A3
  <2> QED
    BY <1>5, <1>8, <2>1, LeastOfMore
<1> HIDE DEF A3
<1>10. A4 \in SUBSET Fractions /\ HasLeast(A4)
  <2>1. A4 = A3 \union {ofCap(b)} \/ A4 = A3
    OBVIOUS
  <2> HIDE DEF A4
  <2> QED
    BY <1>5, <1>9, <2>1, LeastOfMore
<1> HIDE DEF A4
<1> DEFINE f == ReductionFactor(req, n)
<1>11. f \in All /\ \A g \in All : AtMost(f, g)
  <2>1. \E h \in All : \A g \in All : h[1] * g[2] <= g[1] * h[2]
    BY <1>6, <1>10 DEF AtMost, HasLeast
  <2>2. f = CHOOSE h \in All : \A g \in All : h[1] * g[2] <= g[1] * h[2]
    BY DEF ReductionFactor, All, one
  <2> HIDE DEF f
  <2> QED
    BY <2>1, <2>2 DEF AtMost
<1>12. f \in Fractions
  BY <1>6, <1>10, <1>11
<1> HIDE DEF f
<1>13. f[1] <= f[2]
  <2>1. one \in All
    BY <1>4
  <2>2. f[1] * 1 <= 1 * f[2]
    BY <1>11, <2>1 DEF AtMost, one
  <2> QED
    BY <1>12, <2>2 DEF Fractions
<1>14. ASSUME NEW cap \in {a, b}, m + asked > cap
       PROVE  f[1] * asked <= (cap - m) * f[2]
  <2>1. ofCap(cap) \in All
    BY <1>4, <1>14
  <2>2. ofCap(cap)[1] = cap - m /\ ofCap(cap)[2] = asked
    BY <1>5 DEF ofCap
  <2> QED
    BY <1>11, <2>1, <2>2 DEF AtMost
<1>15. ASSUME req.memory + memory > MemoryLimit
       PROVE  f[1] * memory <= FreeMB(req) * f[2]
  <2>1. ofMemory \in All
    BY <1>4, <1>15
  <2>2. ofMemory[1] = FreeMB(req) /\ ofMemory[2] = memory
    BY DEF ofMemory, FreeMB
  <2> QED
    BY <1>11, <2>1, <2>2 DEF AtMost
<1> QED
  BY <1>12, <1>13, <1>14, <1>15 DEF f, asked, memory, m

\* The proportional phase grants the stages, above their minimums, no more than is free.
LEMMA ProportionalWithin ==
  ASSUME NEW req \in Requests, NEW n, \A s \in Managed : n[s] \in Int, RoomToScaleUp(req),
         Total(Increase(req, n)) = 0 \/ ~FullyConstrained(req, n)
  PROVE  \E grant \in [Managed -> Nat] :
           /\ \A s \in Managed :
                /\ Proportional(req, n)[s] \in Int
                /\ Proportional(req, n)[s] <= EffectiveMin(req, s) + grant[s]
           /\ Total(grant) <= FreeReplicas(req)
           /\ Total([s \in Managed |-> grant[s] * CostMB[s]]) <= FreeMB(req)
<1> DEFINE inc == Increase(req, n)
           asked == Total(inc)
           memory == IncreaseMB(req, n)
           free == FreeReplicas(req)
           freeMB == FreeMB(req)
           m == SumOfMins(req)
<1>1. /\ \A s \in Managed : /\ inc[s] \in Nat /\ n[s] <= EffectiveMin(req, s) + inc[s]
                            /\ inc[s] * CostMB[s] \in Nat
      /\ asked \in Nat /\ memory \in Nat /\ m \in Nat
  BY IncreaseFacts
<1>2. /\ req.max_replicas \in Nat /\ req.cores \in Nat
      /\ free = req.max_replicas - m \/ free = req.cores - m
      /\ free \in Nat /\ freeMB \in Nat
  BY <1>1, RequestFacts, StageFacts DEF RoomToScaleUp, FreeReplicas, FreeMB, Smaller, Larger
<1>3. \A s \in Managed : EffectiveMin(req, s) \in Nat /\ n[s] \in Int
  BY MinFacts
<1>4. CASE asked = 0
  <2> DEFINE grant == [s \in Managed |-> 0]
             mb == [s \in Managed |-> grant[s] * CostMB[s]]
  <2>1. Proportional(req, n) = AtLeastMin(req, n)
    BY <1>4 DEF Proportional
  <2>2. ASSUME NEW s \in Managed
        PROVE  inc[s] = 0
    <3>1. asked = inc[s] + SumOver(inc, Managed \ {s})
      BY <1>1, StageFacts, SumFacts DEF Total
    <3>2. SumOver(inc, Managed \ {s}) \in Nat
      BY <1>1, StageFacts, SumNatural
    <3> HIDE DEF inc, asked
    <3> QED
      BY <1>1, <1>4, <3>1, <3>2
  <2>3. \A s \in Managed : AtLeastMin(req, n)[s] \in Int
                           /\ AtLeastMin(req, n)[s] <= EffectiveMin(req, s) + grant[s]
    <3> SUFFICES ASSUME NEW s \in Managed
                 PROVE  AtLeastMin(req, n)[s] \in Int
                        /\ AtLeastMin(req, n)[s] <= EffectiveMin(req, s) + grant[s]
      OBVIOUS
    <3>1. n[s] <= EffectiveMin(req, s) /\ grant[s] = 0
      <4> HIDE DEF inc
      <4> QED
        BY <1>1, <1>3, <2>2
    <3> QED
      BY <1>3, <3>1 DEF AtLeastMin, Larger
  <2>4. \A s \in Managed : 0 * CostMB[s] = 0
    BY StageFacts
  <2>5. Total(grant) = 0 /\ Total(mb) = 0
    <3>1. /\ \A s \in Managed : grant[s] = 0 /\ mb[s] = 0
          /\ {} \in SUBSET Managed /\ SumOver(grant, {}) = 0
      <4>1. SumOver(grant, {}) = 0
        BY FS_EmptySet, SumFacts
      <4> QED
        BY <2>4, <4>1
    <3> HIDE DEF grant, mb
    <3>2. SumOver(grant, Managed) = SumOver(grant, {}) /\ SumOver(mb, Managed) = SumOver(grant, {})
      <4>1. /\ \A s \in {} : grant[s] \in Nat /\ grant[s] = grant[s] /\ mb[s] = grant[s]
            /\ \A s \in Managed \ {} : grant[s] = 0 /\ mb[s] = 0
        BY <3>1
      <4> QED
        BY <3>1, <4>1, StageFacts, SumOfPart
    <3> QED
      BY <3>1, <3>2 DEF Total
  <2>6. grant \in [Managed -> Nat]
    OBVIOUS
  <2>7. Total(grant) <= free /\ Total([s \in Managed |-> grant[s] * CostMB[s]]) <= freeMB
    <3> HIDE DEF grant, free, freeMB
    <3> QED
      BY <1>2, <2>5
  <2> HIDE DEF grant, inc
  <2> QED
    BY <2>1, <2>3, <2>6, <2>7
<1>5. CASE asked # 0 /\ ~FullyConstrained(req, n)
  <2> DEFINE f == ReductionFactor(req, n)
             grant == [s \in Managed |-> Share(f, inc[s])]
             mb == [s \in Managed |-> grant[s] * CostMB[s]]
             incMB == [s \in Managed |-> inc[s] * CostMB[s]]
  <2>1. /\ f \in Fractions /\ f[1] <= f[2]
        /\ \A cap \in {req.max_replicas, req.cores} : m + asked > cap =>
             f[1] * asked <= (cap - m) * f[2]
        /\ req.memory + memory > MemoryLimit => f[1] * memory <= freeMB * f[2]
    BY <1>5, FactorFacts
  <2>2. Proportional(req, n) = [s \in Managed |-> EffectiveMin(req, s) + Share(f, inc[s])]
    BY <1>5 DEF Proportional
  <2>3. \A s \in Managed : grant[s] = Share(f, inc[s])
    OBVIOUS
  <2>4. memory = Total(incMB)
    BY DEF IncreaseMB
  <2>5. \A s \in Managed : mb[s] = grant[s] * CostMB[s] /\ incMB[s] = inc[s] * CostMB[s]
    OBVIOUS
  <2> DEFINE num == f[1]
             den == f[2]
  <2>6. num \in Nat /\ den \in Nat \ {0} /\ num <= den
    BY <2>1 DEF Fractions
  <2>7. \A s \in Managed : grant[s] \in Nat /\ den * grant[s] <= num * inc[s]
    <3> HIDE DEF f
    <3> QED
      BY <1>1, <2>1, <2>3, ShareFacts
  <2>8. grant \in [Managed -> Nat]
    <3> HIDE DEF f
    <3> QED
      BY <2>7
  <2>9. \A s \in Managed : /\ Proportional(req, n)[s] \in Int
                           /\ Proportional(req, n)[s] <= EffectiveMin(req, s) + grant[s]
    <3> HIDE DEF f, grant
    <3> QED
      BY <1>3, <2>2, <2>3, <2>7
  <2>10. /\ m + asked > req.max_replicas => num * asked <= (req.max_replicas - m) * den
         /\ m + asked > req.cores => num * asked <= (req.cores - m) * den
         /\ req.memory + memory > MemoryLimit => num * memory <= freeMB * den
    BY <2>1
  <2> HIDE DEF f, grant, mb, incMB, num, den, inc, memory, freeMB
  <2>11. \A s \in Managed : mb[s] \in Nat /\ incMB[s] \in Nat /\ den * mb[s] <= num * incMB[s]
    <3> SUFFICES ASSUME NEW s \in Managed
                 PROVE  mb[s] \in Nat /\ incMB[s] \in Nat /\ den * mb[s] <= num * incMB[s]
      OBVIOUS
    <3> DEFINE g == grant[s]
               i == inc[s]
               c == CostMB[s]
    <3>1. g \in Nat /\ i \in Nat /\ c \in Nat /\ den * g <= num * i
      BY <1>1, <2>7, StageFacts
    <3>2. mb[s] = g * c /\ incMB[s] = i * c
      BY <2>5
    <3> HIDE DEF g, i, c
    <3>3. den * g \in Nat /\ num * i \in Nat
      BY <2>6, <3>1
    <3>4. (den * g) * c <= (num * i) * c
      BY <3>1, <3>3, TimesMonotone
    <3>5. den * (g * c) = (den * g) * c /\ num * (i * c) = (num * i) * c
      BY <2>6, <3>1
    <3>6. g * c \in Nat /\ i * c \in Nat
      BY <3>1
    <3> QED
      BY <3>2, <3>4, <3>5, <3>6
  <2>12. /\ Total(grant) \in Nat /\ Total(mb) \in Nat
         /\ den * Total(grant) <= num * asked /\ den * Total(mb) <= num * memory
    <3>1. Total(grant) \in Nat /\ den * Total(grant) <= num * Total(inc)
      BY <1>1, <2>6, <2>7, StageFacts, SumFacts, SumCompare DEF Total
    <3>2. Total(mb) \in Nat /\ den * Total(mb) <= num * Total(incMB)
      BY <2>6, <2>11, StageFacts, SumFacts, SumCompare DEF Total
    <3> QED
      BY <2>4, <3>1, <3>2
  <2>13. Total(grant) <= free
    BY <1>1, <1>2, <2>6, <2>10, <2>12
  <2>14. Total(mb) <= freeMB
    <3>1. CASE req.memory + memory > MemoryLimit
      <4>1. num * memory \in Nat /\ den * Total(mb) \in Nat /\ freeMB * den \in Nat
        BY <1>1, <1>2, <2>6, <2>12
      <4>2. Total(mb) * den <= freeMB * den
        BY <2>6, <2>10, <2>12, <3>1, <4>1
      <4> QED
        BY <1>2, <2>6, <2>12, <4>2, TimesCancel
    <3>2. CASE ~(req.memory + memory > MemoryLimit)
      <4>1. num * memory <= den * memory
        BY <1>1, <2>6, TimesMonotone
      <4>2. num * memory \in Nat /\ den * Total(mb) \in Nat /\ den * memory \in Nat
        BY <1>1, <2>6, <2>12
      <4>3. Total(mb) * den <= memory * den
        BY <1>1, <2>6, <2>12, <4>1, <4>2
      <4>4. Total(mb) <= memory
        BY <1>1, <2>6, <2>12, <4>3, TimesCancel
      <4>5. req.memory \in Nat /\ MemoryLimit \in Nat
        BY RequestFacts, StageFacts
      <4> QED
        BY <1>1, <2>12, <3>2, <4>4, <4>5 DEF FreeMB, Larger, freeMB
    <3> QED
      BY <3>1, <3>2
  <2> QED
    BY <2>8, <2>9, <2>13, <2>14 DEF mb, freeMB
<1> QED
  BY <1>4, <1>5

-----------------------------------------------------------------------------
(* The last two phases. *)

LEMMA BoundsKept ==
  ASSUME NEW req \in Requests, NEW n, NEW s \in Managed, n[s] \in Int
  PROVE  LET b == EnforceBounds(req, n)
         IN  /\ b[s] \in Nat /\ b[s] <= Ceiling[s]
             /\ b[s] <= EffectiveMin(req, s) \/ b[s] <= n[s]
             /\ b[s] = 0 => Ceiling[s] = 0 \/ EffectiveMin(req, s) = 0
<1>1. EnforceBounds(req, n)[s] = Smaller(Larger(EffectiveMin(req, s), n[s]), Ceiling[s])
  BY DEF EnforceBounds
<1> QED
  BY <1>1, MinFacts, StageFacts DEF Smaller, Larger

\* The consistency phase changes a stage at zero only, and to its minimum.
LEMMA Consistent ==
  ASSUME NEW req \in Requests, NEW n, \A s \in Managed : n[s] \in Int,
         NEW b, b = EnforceBounds(req, n), NEW adj, adj = GlobalConsistency(req, b),
         NEW s \in Managed
  PROVE  /\ adj[s] \in Nat
         /\ \/ adj[s] = b[s]
            \/ /\ b[s] = 0 /\ req.current[s] = 0 /\ adj[s] = 1
               /\ EffectiveMin(req, s) = 0 /\ Larger(1, Floor[s]) = 1
         /\ (\E t \in Managed : req.current[t] = 0 /\ b[t] > 0) =>
              (adj[s] = 0 => Ceiling[s] = 0 \/ req.current[s] > 0)
<1>1. b[s] \in Nat /\ (b[s] = 0 => Ceiling[s] = 0 \/ EffectiveMin(req, s) = 0)
  BY BoundsKept
<1>2. /\ Ceiling[s] \in Nat /\ Floor[s] \in Nat /\ req.current[s] \in Nat
      /\ EffectiveMin(req, s) \in Nat /\ EffectiveMin(req, s) >= Floor[s]
  BY StageFacts, RequestFacts, MinFacts
<1>3. CASE \E t \in Managed : req.current[t] = 0 /\ b[t] > 0
  <2>1. adj[s] = IF req.current[s] = 0 /\ b[s] = 0
                 THEN Smaller(Larger(1, Floor[s]), Ceiling[s]) ELSE b[s]
    BY <1>3 DEF GlobalConsistency
  <2> QED
    BY <1>1, <1>2, <2>1 DEF Smaller, Larger
<1>4. CASE ~ \E t \in Managed : req.current[t] = 0 /\ b[t] > 0
  <2>1. adj = b
    BY <1>4 DEF GlobalConsistency
  <2> QED
    BY <1>1, <1>4, <2>1
<1> QED
  BY <1>3, <1>4

\* Every phase before them leaves whole numbers.
LEMMA ProportionalTypes ==
  ASSUME NEW req \in Requests, NEW n, \A s \in Managed : n[s] \in Int
  PROVE  \A s \in Managed : Proportional(req, n)[s] \in Int
<1>1. CASE ~RoomToScaleUp(req)
  <2>1. Proportional(req, n) = [s \in Managed |-> Smaller(n[s], req.current[s])]
    BY <1>1 DEF Proportional
  <2> QED
    BY <2>1, RequestFacts DEF Smaller
<1>2. CASE RoomToScaleUp(req) /\ (Total(Increase(req, n)) = 0 \/ ~FullyConstrained(req, n))
  BY <1>2, ProportionalWithin
<1>3. CASE /\ RoomToScaleUp(req) /\ Total(Increase(req, n)) # 0
           /\ FullyConstrained(req, n)
  <2>1. Proportional(req, n) = AtLeastMin(req, n)
    BY <1>3 DEF Proportional
  <2> QED
    BY <2>1, MinFacts DEF AtLeastMin, Larger
<1> QED
  BY <1>1, <1>2, <1>3

Prior(req) == AggressiveScaleDown(req)
Shared(req) == Proportional(req, Prior(req))
Limited(req) == EnforceBounds(req, Shared(req))

LEMMA SharedTypes ==
  ASSUME NEW req \in Requests
  PROVE  /\ \A s \in Managed : Prior(req)[s] \in Int /\ Shared(req)[s] \in Int
         /\ ApplyConstraints(req) = GlobalConsistency(req, Limited(req))
<1>1. \A s \in Managed : Prior(req)[s] \in Int
  BY PriorFacts DEF Prior
<1>2. \A s \in Managed : Shared(req)[s] \in Int
  BY <1>1, ProportionalTypes DEF Shared
<1> QED
  BY <1>1, <1>2 DEF ApplyConstraints, Limited, Shared, Prior

LEMMA DecisionTypes ==
  ASSUME NEW req \in Requests
  PROVE  ApplyConstraints(req) \in [Managed -> Nat]
<1> DEFINE adj == ApplyConstraints(req)
           b == Limited(req)
<1>1. \A s \in Managed : adj[s] \in Nat
  BY SharedTypes, Consistent DEF Limited
<1>2. DOMAIN b = Managed
  BY DEF Limited, EnforceBounds
<1>3. adj = [s \in Managed |-> adj[s]]
  <2>1. adj = b \/ adj = [s \in Managed |-> IF req.current[s] = 0 /\ b[s] = 0
                              THEN Smaller(Larger(1, Floor[s]), Ceiling[s]) ELSE b[s]]
    BY SharedTypes DEF GlobalConsistency
  <2>2. b = [s \in Managed |-> b[s]]
    BY DEF Limited, EnforceBounds
  <2> HIDE DEF adj, b
  <2> QED
    BY <2>1, <2>2
<1> QED
  BY <1>1, <1>3

-----------------------------------------------------------------------------
(* The decision. *)

WokenBy(req, adj) == {s \in Managed : req.current[s] = 0 /\ adj[s] = Larger(1, Floor[s])}

\* No stage gets more than its minimum, what it was granted, and one replica if it is woken.
LEMMA DecisionWithin ==
  ASSUME NEW req \in Requests, NEW adj, adj = ApplyConstraints(req), NEW s \in Managed,
         NEW k \in Nat, Shared(req)[s] <= EffectiveMin(req, s) + k
  PROVE  \/ adj[s] <= EffectiveMin(req, s) + k
         \/ s \in WokenBy(req, adj) /\ adj[s] <= EffectiveMin(req, s) + k + 1
<1> DEFINE b == Limited(req)
<1>1. /\ adj[s] \in Nat
      /\ \/ adj[s] = b[s]
         \/ /\ req.current[s] = 0 /\ adj[s] = 1 /\ Larger(1, Floor[s]) = 1
  BY SharedTypes, Consistent DEF Limited
<1>2. b[s] \in Nat /\ (b[s] <= EffectiveMin(req, s) \/ b[s] <= Shared(req)[s])
  BY SharedTypes, BoundsKept DEF Limited
<1>3. EffectiveMin(req, s) \in Nat /\ Shared(req)[s] \in Int
  BY MinFacts, SharedTypes
<1>4. CASE adj[s] = b[s]
  <2> HIDE DEF b
  <2> QED
    BY <1>2, <1>3, <1>4
<1>5. CASE req.current[s] = 0 /\ adj[s] = 1 /\ Larger(1, Floor[s]) = 1
  <2>1. s \in WokenBy(req, adj)
    BY <1>5 DEF WokenBy
  <2> QED
    BY <1>3, <1>5, <2>1
<1> QED
  BY <1>1, <1>4, <1>5

\* When there is room under the caps, the decision keeps to them and to the free memory, but
\* for the woken stages.
LEMMA RoomKept ==
  ASSUME NEW req \in Requests, NEW adj, adj = ApplyConstraints(req), RoomToScaleUp(req),
         Total(Increase(req, Prior(req))) = 0 \/ ~FullyConstrained(req, Prior(req))
  PROVE  /\ Total(adj) <= Smaller(req.max_replicas, req.cores) + Cardinality(WokenBy(req, adj))
         /\ IncreaseMB(req, adj) <= FreeMB(req) + SumOver(CostMB, WokenBy(req, adj))
<1>1. PICK grant \in [Managed -> Nat] :
        /\ \A s \in Managed : Shared(req)[s] <= EffectiveMin(req, s) + grant[s]
        /\ Total(grant) <= FreeReplicas(req)
        /\ Total([s \in Managed |-> grant[s] * CostMB[s]]) <= FreeMB(req)
  BY SharedTypes, ProportionalWithin DEF Shared
<1> DEFINE W == WokenBy(req, adj)
           mins == [s \in Managed |-> EffectiveMin(req, s)]
           grantMB == [s \in Managed |-> grant[s] * CostMB[s]]
           ones == [s \in Managed |-> IF s \in W THEN 1 ELSE 0]
           onesMB == [s \in Managed |-> IF s \in W THEN CostMB[s] ELSE 0]
           base == [s \in Managed |-> mins[s] + grant[s]]
           most == [s \in Managed |-> base[s] + ones[s]]
           mostMB == [s \in Managed |-> grantMB[s] + onesMB[s]]
           inc == Increase(req, adj)
           incMB == [s \in Managed |-> inc[s] * CostMB[s]]
<1>2. /\ \A s \in Managed : adj[s] \in Nat
      /\ W \in SUBSET Managed
  BY DecisionTypes DEF WokenBy
<1>3. /\ \A s \in Managed : mins[s] = EffectiveMin(req, s) /\ mins[s] \in Nat
      /\ \A s \in Managed : CostMB[s] \in Nat /\ grant[s] \in Nat
  BY MinFacts, StageFacts
<1>4. \A s \in Managed : grantMB[s] = grant[s] * CostMB[s] /\ grantMB[s] \in Nat
  BY <1>3
<1>5. \A s \in Managed :
        /\ base[s] = mins[s] + grant[s] /\ most[s] = base[s] + ones[s]
        /\ mostMB[s] = grantMB[s] + onesMB[s] /\ incMB[s] = inc[s] * CostMB[s]
        /\ ones[s] = (IF s \in W THEN 1 ELSE 0) /\ onesMB[s] = (IF s \in W THEN CostMB[s] ELSE 0)
  OBVIOUS
<1>6. /\ Total(mins) = SumOfMins(req) /\ Total(incMB) = IncreaseMB(req, adj)
      /\ Total(grant) <= FreeReplicas(req) /\ Total(grantMB) <= FreeMB(req)
  BY <1>1 DEF SumOfMins, IncreaseMB
<1>7. \A s \in Managed : \/ adj[s] <= mins[s] + grant[s]
                         \/ s \in W /\ adj[s] <= mins[s] + grant[s] + 1
  BY <1>1, <1>3, DecisionWithin
<1>8. \A s \in Managed : inc[s] = Larger(0, adj[s] - mins[s])
  BY DEF Increase
<1> HIDE DEF W, mins, grantMB, ones, onesMB, base, most, mostMB, inc, incMB
<1>9. \A s \in Managed : base[s] \in Nat /\ ones[s] \in Nat /\ most[s] \in Nat
                         /\ onesMB[s] \in Nat /\ mostMB[s] \in Nat
  BY <1>3, <1>4, <1>5
<1>10. \A s \in Managed : adj[s] <= most[s]
  BY <1>2, <1>3, <1>5, <1>7
<1>11. \A s \in Managed : inc[s] \in Nat /\ inc[s] <= grant[s] + ones[s]
  BY <1>2, <1>3, <1>5, <1>7, <1>8 DEF Larger
<1>12. \A s \in Managed : incMB[s] \in Nat /\ incMB[s] <= mostMB[s]
  <2> SUFFICES ASSUME NEW s \in Managed
               PROVE  incMB[s] \in Nat /\ incMB[s] <= mostMB[s]
    OBVIOUS
  <2> DEFINE c == CostMB[s]
             g == grant[s]
             o == ones[s]
             i == inc[s]
  <2>1. c \in Nat /\ g \in Nat /\ o \in Nat /\ i \in Nat /\ i <= g + o
    BY <1>3, <1>9, <1>11
  <2>2. onesMB[s] = o * c
    BY <1>3, <1>5
  <2>3. incMB[s] = i * c /\ mostMB[s] = g * c + o * c
    BY <1>4, <1>5, <2>2
  <2> HIDE DEF c, g, o, i
  <2>4. i * c <= (g + o) * c
    BY <2>1, TimesMonotone
  <2>5. (g + o) * c = g * c + o * c /\ i * c \in Nat
    BY <2>1
  <2> QED
    BY <2>3, <2>4, <2>5
<1>13. /\ Total(base) = Total(mins) + Total(grant)
       /\ Total(most) = Total(base) + Total(ones)
       /\ Total(mostMB) = Total(grantMB) + Total(onesMB)
  <2>1. SumOver(base, Managed) = SumOver(mins, Managed) + SumOver(grant, Managed)
    BY <1>3, <1>5, StageFacts, SumPlus
  <2>2. SumOver(most, Managed) = SumOver(base, Managed) + SumOver(ones, Managed)
    BY <1>5, <1>9, StageFacts, SumPlus
  <2>3. SumOver(mostMB, Managed) = SumOver(grantMB, Managed) + SumOver(onesMB, Managed)
    BY <1>4, <1>5, <1>9, StageFacts, SumPlus
  <2> QED
    BY <2>1, <2>2, <2>3 DEF Total
<1>14. Total(adj) <= Total(most) /\ Total(incMB) <= Total(mostMB)
  <2>1. 1 * SumOver(adj, Managed) <= 1 * SumOver(most, Managed)
    <3>1. \A s \in Managed : adj[s] \in Nat /\ most[s] \in Nat /\ 1 * adj[s] <= 1 * most[s]
      BY <1>2, <1>9, <1>10
    <3>2. 1 \in Nat
      OBVIOUS
    <3> QED
      BY <3>1, <3>2, StageFacts, SumCompare
  <2>2. 1 * SumOver(incMB, Managed) <= 1 * SumOver(mostMB, Managed)
    <3>1. \A s \in Managed : incMB[s] \in Nat /\ mostMB[s] \in Nat
                             /\ 1 * incMB[s] <= 1 * mostMB[s]
      BY <1>9, <1>12
    <3>2. 1 \in Nat
      OBVIOUS
    <3> QED
      BY <3>1, <3>2, StageFacts, SumCompare
  <2>3. /\ SumOver(adj, Managed) \in Nat /\ SumOver(most, Managed) \in Nat
        /\ SumOver(incMB, Managed) \in Nat /\ SumOver(mostMB, Managed) \in Nat
    BY <1>2, <1>9, <1>12, StageFacts, SumFacts
  <2> QED
    BY <2>1, <2>2, <2>3 DEF Total
<1>15. Total(ones) = Cardinality(W) /\ Cardinality(W) \in Nat
  <2> DEFINE all == [s \in Managed |-> 1]
  <2>1. IsFiniteSet(W) /\ \A s \in W : all[s] = 1 /\ s \in Managed
    BY <1>2, StageFacts, FS_Subset
  <2>2. /\ \A s \in W : all[s] \in Nat /\ ones[s] = all[s]
        /\ \A s \in Managed \ W : ones[s] = 0
    BY <1>5, <2>1
  <2> HIDE DEF all
  <2>3. SumOver(all, W) = Cardinality(W)
    BY <2>1, SumOfOnes
  <2>4. SumOver(ones, Managed) = SumOver(all, W)
    BY <1>2, <2>2, StageFacts, SumOfPart
  <2> QED
    BY <2>1, <2>3, <2>4, FS_CardinalityType DEF Total
<1>16. Total(onesMB) = SumOver(CostMB, W) /\ SumOver(CostMB, W) \in Nat
  <2>1. /\ \A s \in W : CostMB[s] \in Nat /\ onesMB[s] = CostMB[s]
        /\ \A s \in Managed \ W : onesMB[s] = 0
    BY <1>2, <1>3, <1>5
  <2>2. SumOver(onesMB, Managed) = SumOver(CostMB, W)
    BY <1>2, <2>1, StageFacts, SumOfPart
  <2>3. SumOver(CostMB, W) \in Nat
    BY <1>2, <1>3, StageFacts, SumNatural
  <2> QED
    BY <2>2, <2>3 DEF Total
<1>17. /\ Total(mins) \in Nat /\ Total(grant) \in Nat /\ Total(adj) \in Nat
       /\ Total(grantMB) \in Nat /\ Total(incMB) \in Nat
  BY <1>2, <1>3, <1>4, <1>12, StageFacts, SumFacts DEF Total
<1>18. Smaller(req.max_replicas, req.cores) \in Nat /\ FreeMB(req) \in Nat
  BY RequestFacts, StageFacts DEF Smaller, FreeMB, Larger
<1>19. Total(adj) <= Smaller(req.max_replicas, req.cores) + Cardinality(W)
  BY <1>6, <1>13, <1>14, <1>15, <1>17, <1>18 DEF FreeReplicas
<1>20. IncreaseMB(req, adj) <= FreeMB(req) + SumOver(CostMB, W)
  BY <1>6, <1>13, <1>14, <1>16, <1>17, <1>18
<1> QED
  BY <1>19, <1>20 DEF W

\* When the minimums alone reach a cap, no stage grows past its minimum.
LEMMA NoRoomKept ==
  ASSUME NEW req \in Requests, NEW adj, adj = ApplyConstraints(req), ~RoomToScaleUp(req),
         NEW s \in Managed
  PROVE  adj[s] <= Larger(req.current[s], Larger(1, EffectiveMin(req, s)))
<1>1. Shared(req) = [t \in Managed |-> Smaller(Prior(req)[t], req.current[t])]
  BY DEF Shared, Proportional
<1>2. Shared(req)[s] <= req.current[s] /\ Shared(req)[s] \in Int /\ req.current[s] \in Nat
  BY <1>1, SharedTypes, RequestFacts DEF Smaller
<1>3. \/ adj[s] <= EffectiveMin(req, s) + 0
      \/ adj[s] = Larger(1, Floor[s])
      \/ adj[s] <= Shared(req)[s]
  <2>1. adj[s] = Limited(req)[s] \/ (adj[s] = 1 /\ Larger(1, Floor[s]) = 1)
    BY SharedTypes, Consistent DEF Limited
  <2>2. Limited(req)[s] <= EffectiveMin(req, s) \/ Limited(req)[s] <= Shared(req)[s]
    BY SharedTypes, BoundsKept DEF Limited
  <2> QED
    BY <2>1, <2>2, MinFacts
<1> QED
  BY <1>2, <1>3, MinFacts, StageFacts, DecisionTypes DEF Larger

LEMMA NoneAtZero ==
  ASSUME NEW req \in Requests, NEW adj, adj = ApplyConstraints(req),
         \/ req.in_flight > 0
         \/ \E t \in Managed : req.current[t] = 0 /\ adj[t] > 0,
         NEW s \in Managed, Ceiling[s] > 0, adj[s] = 0
  PROVE  req.in_flight = 0 /\ req.current[s] > 0
<1> DEFINE b == Limited(req)
<1>1. /\ adj[s] \in Nat
      /\ (\E t \in Managed : req.current[t] = 0 /\ b[t] > 0) =>
           (adj[s] = 0 => Ceiling[s] = 0 \/ req.current[s] > 0)
      /\ \A t \in Managed : b[t] \in Nat /\ (b[t] = 0 => Ceiling[t] = 0 \/ EffectiveMin(req, t) = 0)
  BY SharedTypes, Consistent, BoundsKept DEF Limited
<1>2. adj[s] = b[s] \/ adj[s] = 1
  BY SharedTypes, Consistent DEF Limited
<1>3. req.in_flight = 0
  <2>1. req.in_flight \in {0, 1} /\ (req.in_flight > 0 => EffectiveMin(req, s) >= 1)
    BY RequestFacts, MinFacts
  <2>2. b[s] = 0 /\ EffectiveMin(req, s) = 0
    BY <1>1, <1>2, StageFacts
  <2> QED
    BY <2>1, <2>2
<1>4. PICK t \in Managed : req.current[t] = 0 /\ adj[t] > 0
  BY <1>3
<1>5. \E u \in Managed : req.current[u] = 0 /\ b[u] > 0
  <2>1. (\E u \in Managed : req.current[u] = 0 /\ b[u] > 0) \/ adj = b
    BY SharedTypes DEF GlobalConsistency
  <2> HIDE DEF b
  <2> QED
    BY <1>4, <2>1
<1> HIDE DEF b
<1> QED
  BY <1>1, <1>3, <1>5, StageFacts

ConstraintsInv ==
  request \in Requests /\ adjustments \in {NoDecision, ApplyConstraints(request)}

LEMMA DecisionIsSound == ConstraintsInv => DecisionsSound
<1> SUFFICES ASSUME ConstraintsInv, Decided
             PROVE  DecisionsSound
  BY DEF DecisionsSound, WithinLimits, ZerosWake
<1> DEFINE req == request
           adj == adjustments
<1>1. req \in Requests /\ adj = ApplyConstraints(req)
  BY DEF ConstraintsInv, Decided
<1>2. Woken = WokenBy(req, adj) /\ Larger(0, MemoryLimit - request.memory) = FreeMB(req)
  BY DEF Woken, WokenBy, FreeMB
<1>3. ASSUME ~Exhausted, RoomToScaleUp(req)
      PROVE  /\ Total(adj) <= Smaller(req.max_replicas, req.cores) + Cardinality(Woken)
             /\ IncreaseMB(req, adj) <= FreeMB(req) + SumOver(CostMB, Woken)
  <2>1. Total(Increase(req, Prior(req))) \in Nat
    BY <1>1, SharedTypes, IncreaseFacts
  <2>2. Total(Increase(req, Prior(req))) = 0 \/ ~FullyConstrained(req, Prior(req))
    BY <1>3, <2>1 DEF Exhausted, Prior
  <2> QED
    BY <1>1, <1>2, <1>3, <2>2, RoomKept
<1>4. ASSUME ~RoomToScaleUp(req), NEW s \in Managed
      PROVE  adj[s] <= Larger(req.current[s], Larger(1, EffectiveMin(req, s)))
  BY <1>1, <1>4, NoRoomKept
<1>5. WithinLimits
  BY <1>2, <1>3, <1>4 DEF WithinLimits
<1>6. ZerosWake
  <2> SUFFICES ASSUME NEW s \in Managed, Ceiling[s] > 0,
                      \/ req.in_flight > 0
                      \/ /\ req.current[s] = 0
                         /\ \E t \in Managed : req.current[t] = 0 /\ adj[t] > 0
               PROVE  adj[s] > 0
    BY DEF ZerosWake
  <2>1. adj[s] \in Nat /\ (req.in_flight > 0 \/ req.current[s] = 0)
    BY <1>1, DecisionTypes
  <2>2. adj[s] # 0
    <3> SUFFICES ASSUME adj[s] = 0 PROVE FALSE
      OBVIOUS
    <3>1. req.in_flight = 0 /\ req.current[s] > 0
      BY <1>1, NoneAtZero
    <3> QED
      BY <2>1, <3>1
  <2> QED
    BY <2>1, <2>2
<1> QED
  BY <1>5, <1>6 DEF DecisionsSound

LEMMA ConstraintsInvariant == ConstraintsSpec => []ConstraintsInv
<1>1. ConstraintsInit => ConstraintsInv
  BY DEF ConstraintsInit, ConstraintsInv
<1>2. ConstraintsInv /\ [CalculateScalingAdjustments]_constraintVars => ConstraintsInv'
  BY DEF ConstraintsInv, CalculateScalingAdjustments, constraintVars
<1> QED
  BY <1>1, <1>2, PTL DEF ConstraintsSpec

\* A decision gives every managed stage a number of replicas (pid_controller.py:652-745).
THEOREM DecisionTypeOK == ConstraintsSpec => []ConstraintsTypeOK
<1>1. ConstraintsInv => ConstraintsTypeOK
  BY DecisionTypes DEF ConstraintsInv, ConstraintsTypeOK
<1> QED
  BY <1>1, ConstraintsInvariant, PTL

\* Whatever the stages, their bounds and costs, and whatever the PID controller proposes: a
\* decision keeps to the replica caps and to the free memory, but for the stages it wakes and
\* for the case the code documents otherwise; while anything is in flight it gives every stage
\* that may have one a replica, and when it wakes one stage it wakes all that are at zero
\* (pid_controller.py:466-745).
THEOREM DecisionsAreSound == ConstraintsSpec => []DecisionsSound
  BY ConstraintsInvariant, DecisionIsSound, PTL

-----------------------------------------------------------------------------
(* The pipeline. *)

LEMMA PipelineStages ==
  /\ Len(Pipeline) = 20 /\ Stops = 1 .. 20
  /\ \A s \in Stops : Pipeline[s].task # "udf"
<1>1. Len(Pipeline) = 20 /\ Stops = 1 .. 20
  BY DEF Pipeline, Stops
<1> USE DEF Always, Needs, Extracts
<1> DEFINE Fine(p) == p.task # "udf"
<1>2. /\ Fine(MetadataInjectionStage) /\ Fine(PDFExtractorStage) /\ Fine(AudioExtractorStage)
      /\ Fine(DocxExtractorStage) /\ Fine(PPTXExtractorStage) /\ Fine(ImageExtractorStage)
      /\ Fine(HtmlExtractorStage) /\ Fine(InfographicExtractorStage)
      /\ Fine(TableExtractorStage) /\ Fine(ChartExtractorStage)
  BY DEF MetadataInjectionStage, PDFExtractorStage, AudioExtractorStage, DocxExtractorStage,
         PPTXExtractorStage, ImageExtractorStage, HtmlExtractorStage,
         InfographicExtractorStage, TableExtractorStage, ChartExtractorStage
<1>3. /\ Fine(ImageFilterStage) /\ Fine(ImageDedupStage) /\ Fine(TextSplitterStage)
      /\ Fine(ImageCaptionTransformStage) /\ Fine(TextEmbeddingTransformStage)
      /\ Fine(ImageStorageStage) /\ Fine(EmbeddingStorageStage)
      /\ Fine(MessageBrokerTaskSinkStage) /\ Fine(OpenTelemetryTracerStage)
      /\ Fine(DefaultDrainSink)
  BY DEF ImageFilterStage, ImageDedupStage, TextSplitterStage, ImageCaptionTransformStage,
         TextEmbeddingTransformStage, ImageStorageStage, EmbeddingStorageStage,
         MessageBrokerTaskSinkStage, OpenTelemetryTracerStage, DefaultDrainSink
<1> HIDE DEF Fine
<1>4. \A s \in 1 .. 20 : Fine(Pipeline[s])
  BY <1>2, <1>3 DEF Pipeline
<1> QED
  BY <1>1, <1>4 DEF Fine

\* The sink is the eighteenth stage; those from there on do no task, and neither does the
\* first.
LEMMA PipelineEnd ==
  /\ SinkAt = 18 /\ Pipeline[18] = MessageBrokerTaskSinkStage
  /\ \A s \in 18 .. 20 : Pipeline[s].task = ""
  /\ \A s \in Stops : Pipeline[s] = DefaultDrainSink => s = 20
  /\ \A s \in Stops : Pipeline[s] \in {MetadataInjectionStage, OpenTelemetryTracerStage} =>
                        Pipeline[s].task = "" /\ s # 18
<1> USE DEF Always, Needs, Extracts
<1> DEFINE Named(p, n) == p.name = n
<1>1. /\ Named(MetadataInjectionStage, "metadata_injector")
      /\ Named(PDFExtractorStage, "pdf_extractor")
      /\ Named(AudioExtractorStage, "audio_extractor")
      /\ Named(DocxExtractorStage, "docx_extractor")
      /\ Named(PPTXExtractorStage, "pptx_extractor")
      /\ Named(ImageExtractorStage, "image_extractor")
      /\ Named(HtmlExtractorStage, "html_extractor")
      /\ Named(InfographicExtractorStage, "infographic_extractor")
      /\ Named(TableExtractorStage, "table_extractor")
      /\ Named(ChartExtractorStage, "chart_extractor")
  BY DEF MetadataInjectionStage, PDFExtractorStage, AudioExtractorStage, DocxExtractorStage,
         PPTXExtractorStage, ImageExtractorStage, HtmlExtractorStage,
         InfographicExtractorStage, TableExtractorStage, ChartExtractorStage
<1>2. /\ Named(ImageFilterStage, "image_filter") /\ Named(ImageDedupStage, "image_dedup")
      /\ Named(TextSplitterStage, "text_splitter")
      /\ Named(ImageCaptionTransformStage, "image_caption")
      /\ Named(TextEmbeddingTransformStage, "text_embedder")
      /\ Named(ImageStorageStage, "image_storage")
      /\ Named(EmbeddingStorageStage, "embedding_storage")
      /\ Named(MessageBrokerTaskSinkStage, "broker_response")
      /\ Named(OpenTelemetryTracerStage, "otel_tracer")
      /\ Named(DefaultDrainSink, "default_drain")
  BY DEF ImageFilterStage, ImageDedupStage, TextSplitterStage, ImageCaptionTransformStage,
         TextEmbeddingTransformStage, ImageStorageStage, EmbeddingStorageStage,
         MessageBrokerTaskSinkStage, OpenTelemetryTracerStage, DefaultDrainSink
<1> HIDE DEF Named
<1>3. /\ Pipeline[18] = MessageBrokerTaskSinkStage /\ Pipeline[19] = OpenTelemetryTracerStage
      /\ Pipeline[20] = DefaultDrainSink /\ Pipeline[1] = MetadataInjectionStage
  BY DEF Pipeline
<1>4. \A s \in 1 .. 20 : \E n : /\ Named(Pipeline[s], n)
                                /\ n = "broker_response" => s = 18
                                /\ n = "default_drain" => s = 20
  BY <1>1, <1>2 DEF Pipeline
<1>5. \A s \in Stops : /\ Pipeline[s] = MessageBrokerTaskSinkStage => s = 18
                       /\ Pipeline[s] = DefaultDrainSink => s = 20
  BY <1>2, <1>4, PipelineStages DEF Named
<1>6. SinkAt = 18
  BY <1>3, <1>5, PipelineStages DEF SinkAt
<1>7. /\ MessageBrokerTaskSinkStage.task = "" /\ OpenTelemetryTracerStage.task = ""
      /\ DefaultDrainSink.task = "" /\ MetadataInjectionStage.task = ""
  BY DEF MessageBrokerTaskSinkStage, OpenTelemetryTracerStage, DefaultDrainSink,
         MetadataInjectionStage
<1>8. \A s \in 18 .. 20 : Pipeline[s].task = ""
  <2>1. \A s \in 18 .. 20 : s = 18 \/ s = 19 \/ s = 20
    OBVIOUS
  <2> QED
    BY <1>3, <1>7, <2>1
<1>9. /\ MessageBrokerTaskSinkStage # MetadataInjectionStage
      /\ MessageBrokerTaskSinkStage # OpenTelemetryTracerStage
  BY <1>1, <1>2 DEF Named
<1> QED
  BY <1>2, <1>3, <1>5, <1>6, <1>7, <1>8, <1>9 DEF Named

-----------------------------------------------------------------------------
(* Where the tasks of a job are. *)

Passes == {"run_before", "run_after"}
Positions == DOMAIN job.tasks

\* A sequence of tasks of the job, each at most once.
Listing(seq) == seq \in Seq(Positions) /\ IsInjective(seq)

\* The tasks of the stages stand in the order of the job.
Ordered(seq) ==
  \A k, l \in DOMAIN seq :
    k < l /\ IsStageTask(seq[k]) /\ IsStageTask(seq[l]) => seq[k] < seq[l]

Held == Range(tasks) \union Range(pending) \union Range(kept)

JobKnown == job \in [valid : BOOLEAN, tasks : Seq(TaskRecords)]

Controls ==
  /\ at \in Stops /\ taken \in 0 .. MaxJobs
  /\ phase \in {"idle", "arriving", "run_before", "body", "run_after", "over"}
  /\ cm_failed \in BOOLEAN /\ unusable \in BOOLEAN
  /\ phase = "idle" => job.tasks = <<>> /\ executed = {}

\* Nothing is taken out of a message but in a pass over its UDFs, and then all of them are.
Sorted ==
  /\ phase \notin Passes => pending = <<>> /\ kept = <<>> /\ ~unusable
  /\ phase \in Passes => \A i \in Range(tasks) : IsStageTask(i)
  /\ \A i \in Range(pending) \union Range(kept) : IsUdf(i)
  /\ Ordered(tasks)

\* A task is in one place only.
Separate ==
  /\ Listing(tasks) /\ Listing(pending) /\ Listing(kept)
  /\ Range(tasks) \intersect Range(pending) = {}
  /\ Range(tasks) \intersect Range(kept) = {}
  /\ Range(pending) \intersect Range(kept) = {}

\* What was done was done once, and is out of the message.
DoneOnce ==
  /\ executed \subseteq Positions \X Stops
  /\ \A d, e \in executed : d[1] = e[1] => d = e
  /\ \A e \in executed : e[1] \notin Held

\* What is neither in the message nor done belongs to a message that failed or was dropped.
Accounted ==
  \A i \in Positions : i \in Held \/ (\E e \in executed : e[1] = i) \/ cm_failed \/ Dropped

TasksInv == JobKnown /\ Controls /\ Sorted /\ Separate /\ DoneOnce /\ Accounted

LEMMA Limits == MaxJobs \in Nat /\ CacheSize \in Nat \ {0}
  BY StagesAssumption

\* The tasks of a job are positions 1, 2, ... and each has a type.
LEMMA JobFacts ==
  ASSUME JobKnown
  PROVE  /\ Len(job.tasks) \in Nat /\ Positions = 1 .. Len(job.tasks)
         /\ job.valid \in BOOLEAN
         /\ \A i \in Positions : /\ job.tasks[i] \in TaskRecords
                                 /\ job.tasks[i].type # "" /\ job.tasks[i].fn \in STRING
<1>1. job.tasks \in Seq(TaskRecords) /\ job.valid \in BOOLEAN
  BY DEF JobKnown
<1>2. Len(job.tasks) \in Nat /\ Positions = 1 .. Len(job.tasks)
  BY <1>1 DEF Positions
<1>3. \A i \in Positions : job.tasks[i] \in TaskRecords
  BY <1>1, <1>2
<1>4. \A t \in TaskRecords : t.type # "" /\ t.fn \in STRING
  BY DEF TaskRecords
<1> QED
  BY <1>1, <1>2, <1>3, <1>4

LEMMA Passing ==
  ASSUME at \in Stops, PassOn
  PROVE  /\ at' \in Stops
         /\ \/ phase' = "over" /\ at' = at /\ at = 20
            \/ phase' = "arriving" /\ at' = at + 1
  BY PipelineStages DEF PassOn

\* Taking some of a listing's tasks keeps their order.
LEMMA SelectOrdered ==
  ASSUME JobKnown, NEW left, Listing(left), Ordered(left), NEW I \in SUBSET (1 .. Len(left))
  PROVE  /\ Listing(SelectAt(left, I)) /\ Ordered(SelectAt(left, I))
         /\ Range(SelectAt(left, I)) = {left[i] : i \in I}
<1> DEFINE t == SelectAt(left, I)
           c == Cardinality(I)
<1>1. left \in Seq(Positions) /\ IsInjective(left)
  BY DEF Listing
<1>2. /\ c \in Nat /\ t \in Seq(Positions) /\ Len(t) = c
      /\ \A n \in 1 .. c : Ascending(I)[n] \in I /\ t[n] = left[Ascending(I)[n]]
      /\ \A m, n \in 1 .. c : m < n => Ascending(I)[m] < Ascending(I)[n]
  <2>1. c \in Nat /\ t \in Seq(Positions) /\ Len(t) = c
    BY <1>1, SelectAtFacts
  <2>2. \A n \in 1 .. c : Ascending(I)[n] \in I /\ t[n] = left[Ascending(I)[n]]
    BY <1>1, SelectAtFacts
  <2>3. \A m, n \in 1 .. c : m < n => Ascending(I)[m] < Ascending(I)[n]
    BY <1>1, SelectAtFacts
  <2> QED
    BY <2>1, <2>2, <2>3
<1>3. Range(t) = {left[i] : i \in I} /\ IsInjective(t)
  BY <1>1, SelectRange
<1> HIDE DEF t, c
<1>4. DOMAIN t = 1 .. c /\ DOMAIN left = 1 .. Len(left)
  BY <1>1, <1>2
<1>5. ASSUME NEW k \in 1 .. c, NEW l \in 1 .. c, k < l, IsStageTask(t[k]), IsStageTask(t[l])
      PROVE  t[k] < t[l]
  <2>1. /\ Ascending(I)[k] \in DOMAIN left /\ Ascending(I)[l] \in DOMAIN left
        /\ Ascending(I)[k] < Ascending(I)[l]
    BY <1>2, <1>4, <1>5
  <2>2. t[k] = left[Ascending(I)[k]] /\ t[l] = left[Ascending(I)[l]]
    BY <1>2
  <2> QED
    BY <1>5, <2>1, <2>2 DEF Ordered
<1>6. Ordered(t)
  BY <1>4, <1>5 DEF Ordered
<1> QED
  BY <1>2, <1>3, <1>6 DEF Listing, t

\* The start of a pass takes the UDFs out, and keeps the order of the others.
LEMMA PassBegins ==
  ASSUME JobKnown, NEW directive, NEW left, Listing(left), Ordered(left),
         BeginPass(directive, left)
  PROVE  /\ Listing(tasks') /\ Listing(pending') /\ Ordered(tasks')
         /\ Range(tasks') = {i \in Range(left) : IsStageTask(i)}
         /\ Range(pending') = {i \in Range(left) : IsUdf(i)}
<1>1. left \in Seq(Positions) /\ DOMAIN left = 1 .. Len(left)
  BY DEF Listing
<1> DEFINE I == {i \in DOMAIN left : IsStageTask(left[i])}
           J == {i \in DOMAIN left : IsUdf(left[i])}
<1>2. I \in SUBSET (1 .. Len(left)) /\ J \in SUBSET (1 .. Len(left))
  BY <1>1
<1>3. tasks' = SelectAt(left, I) /\ pending' = SelectAt(left, J)
  BY DEF BeginPass, Filtered
<1>4. {left[i] : i \in I} = {i \in Range(left) : IsStageTask(i)}
  BY DEF Range
<1>5. {left[i] : i \in J} = {i \in Range(left) : IsUdf(i)}
  BY DEF Range
<1> HIDE DEF I, J
<1> QED
  BY <1>2, <1>3, <1>4, <1>5, SelectOrdered

\* No task moves.
LEMMA NoTaskMoves ==
  ASSUME UNCHANGED <<job, tasks, pending, kept, executed>>
  PROVE  /\ Held' = Held /\ Positions' = Positions
         /\ Separate => Separate'
         /\ DoneOnce => DoneOnce'
         /\ JobKnown => JobKnown'
         /\ Ordered(tasks) => Ordered(tasks)'
         /\ \A i : IsUdf(i)' = IsUdf(i)
  BY DEF Held, Positions, Separate, DoneOnce, Listing, JobKnown, Ordered, IsStageTask, IsUdf

\* A pass begins with the tasks of a listing.
LEMMA PassInv ==
  ASSUME TasksInv, phase \notin Passes, NEW directive \in Passes, NEW left,
         Listing(left), Ordered(left), BeginPass(directive, left), UNCHANGED job
  PROVE  /\ JobKnown' /\ Sorted' /\ Separate' /\ Held' = Range(left)
         /\ Positions' = Positions /\ ~unusable'
<1>1. JobKnown /\ Sorted
  BY DEF TasksInv
<1>2. kept' = <<>> /\ ~unusable' /\ phase' \in Passes
  BY <1>1 DEF Sorted, BeginPass
<1>3. /\ Listing(tasks') /\ Listing(pending') /\ Ordered(tasks')
      /\ Range(tasks') = {i \in Range(left) : IsStageTask(i)}
      /\ Range(pending') = {i \in Range(left) : IsUdf(i)}
  BY <1>1, PassBegins
<1>4. Range(<<>>) = {} /\ Listing(<<>>)
  BY DEF Range, Listing, IsInjective
<1>5. Sorted'
  BY <1>2, <1>3, <1>4 DEF Sorted, Ordered, IsStageTask, IsUdf
<1>6. Separate'
  BY <1>2, <1>3, <1>4 DEF Separate, Listing, Positions, IsStageTask
<1>7. Held' = Range(left)
  BY <1>2, <1>3, <1>4 DEF Held, IsStageTask
<1> QED
  BY <1>1, <1>2, <1>5, <1>6, <1>7 DEF JobKnown, Positions

LEMMA TasksInitially == StagesInit => TasksInv
<1> SUFFICES ASSUME StagesInit
             PROVE  TasksInv
  OBVIOUS
<1>1. job.tasks = <<>> /\ job.valid = FALSE /\ job = [valid |-> FALSE, tasks |-> <<>>]
  BY DEF StagesInit
<1>2. JobKnown
  BY <1>1 DEF JobKnown
<1>3. Positions = {}
  BY <1>1 DEF Positions
<1>4. /\ tasks = <<>> /\ pending = <<>> /\ kept = <<>> /\ ~unusable /\ executed = {}
      /\ phase = "idle" /\ at = 1 /\ taken = 0 /\ cm_failed = FALSE /\ unusable = FALSE
  BY DEF StagesInit
<1>5. Range(<<>>) = {} /\ Listing(<<>>) /\ Ordered(<<>>)
  BY DEF Range, Listing, IsInjective, Ordered
<1>6. Controls
  <2>1. 1 \in Stops /\ 0 \in 0 .. MaxJobs
    BY PipelineStages, Limits
  <2> QED
    BY <1>1, <1>4, <2>1 DEF Controls
<1>7. Sorted /\ Separate
  BY <1>4, <1>5 DEF Sorted, Separate, Passes
<1>8. DoneOnce /\ Accounted
  BY <1>3, <1>4 DEF DoneOnce, Accounted
<1> QED
  BY <1>2, <1>6, <1>7, <1>8 DEF TasksInv

LEMMA TasksProcess ==
  ASSUME TasksInv, NEW j \in Jobs, ProcessMessage(j)
  PROVE  TasksInv'
<1>1. /\ job' = j /\ j \in [valid : BOOLEAN, tasks : Seq(TaskRecords)]
      /\ DOMAIN j.tasks = 1 .. Len(j.tasks) /\ Len(j.tasks) \in Nat
  BY StagesAssumption DEF ProcessMessage
<1>2. pending' = <<>> /\ kept' = <<>> /\ ~unusable' /\ executed' = {} /\ unusable' \in BOOLEAN
  BY DEF ProcessMessage, TasksInv, Sorted, Passes, udfVars, Controls
<1>3. JobKnown' /\ Positions' = DOMAIN j.tasks
  BY <1>1 DEF JobKnown, Positions
<1>4. Controls'
  <2>1. 1 \in Stops
    BY PipelineStages
  <2>2. taken' \in 0 .. MaxJobs
    BY Limits DEF Controls, ProcessMessage, TasksInv
  <2>3. cm_failed' \in BOOLEAN /\ phase' \in {"arriving", "over"} /\ at' = 1
    BY DEF ProcessMessage
  <2> QED
    BY <1>2, <2>1, <2>2, <2>3 DEF Controls
<1> DEFINE all == [i \in DOMAIN j.tasks |-> i]
<1>5. \/ tasks' = all /\ phase' = "arriving"
      \/ tasks' = <<>> /\ (cm_failed' \/ Dropped')
  <2>1. 1 <= SinkAt
    <3>1. SinkAt = 18
      BY PipelineEnd
    <3> QED
      BY <3>1
  <2> QED
    BY <2>1 DEF ProcessMessage, Dropped
<1>6. /\ all \in Seq(DOMAIN j.tasks) /\ IsInjective(all) /\ Range(all) = DOMAIN j.tasks
      /\ \A k \in DOMAIN all : all[k] = k
  <2>1. all \in [1 .. Len(j.tasks) -> DOMAIN j.tasks]
    BY <1>1
  <2>2. all \in Seq(DOMAIN j.tasks)
    BY <1>1, <2>1
  <2> QED
    BY <2>2 DEF IsInjective, Range
<1>7. Range(<<>>) = {} /\ <<>> \in Seq(DOMAIN j.tasks) /\ IsInjective(<<>>)
  BY DEF Range, IsInjective
<1> HIDE DEF all
<1>8. Listing(tasks)' /\ Listing(pending)' /\ Listing(kept)'
  BY <1>2, <1>3, <1>5, <1>6, <1>7 DEF Listing
<1>9. Ordered(tasks)'
  BY <1>1, <1>5, <1>6 DEF Ordered
<1>10. phase' \notin Passes
  BY DEF ProcessMessage, Passes
<1>11. Sorted' /\ Separate'
  BY <1>2, <1>7, <1>8, <1>9, <1>10 DEF Sorted, Separate
<1>12. DoneOnce'
  BY <1>2 DEF DoneOnce
<1>13. Accounted'
  BY <1>3, <1>5, <1>6 DEF Accounted, Held
<1> QED
  BY <1>3, <1>4, <1>11, <1>12, <1>13 DEF TasksInv

\* The tasks that wait for their stage or are put back.
LEMMA ListsOf ==
  ASSUME TasksInv
  PROVE  /\ tasks \in Seq(Positions) /\ pending \in Seq(Positions) /\ kept \in Seq(Positions)
         /\ IsInjective(tasks) /\ IsInjective(pending) /\ IsInjective(kept)
         /\ at \in Stops /\ Listing(tasks) /\ Ordered(tasks)
         /\ cm_failed \in BOOLEAN /\ unusable \in BOOLEAN
  BY DEF TasksInv, Separate, Listing, Controls, Sorted

\* The accounts after a step that does no task and leaves what the message holds.
LEMMA AccountsStay ==
  ASSUME TasksInv, UNCHANGED <<job, executed>>, Held' = Held, phase # "over", phase' # "idle",
         cm_failed => cm_failed' \/ Dropped'
  PROVE  DoneOnce' /\ Accounted'
<1>1. ~Dropped
  BY DEF Dropped
<1> QED
  BY <1>1 DEF TasksInv, DoneOnce, Accounted, Positions

LEMMA TasksQuiet ==
  ASSUME TasksInv, UNCHANGED <<job, taken, tasks, udfVars, executed>>,
         phase \notin Passes, phase # "over", phase' \in {"arriving", "body", "over"}, at' \in Stops,
         cm_failed' \in BOOLEAN, cm_failed => cm_failed'
  PROVE  TasksInv'
<1>1. Sorted' /\ Separate' /\ JobKnown' /\ Held' = Held
  <2>1. UNCHANGED <<job, tasks, pending, kept, executed, unusable>>
    BY DEF udfVars
  <2>2. Held' = Held /\ Separate' /\ JobKnown' /\ Ordered(tasks)'
    BY <2>1, NoTaskMoves DEF TasksInv, Sorted
  <2>3. phase' \notin Passes /\ pending = <<>> /\ kept = <<>> /\ ~unusable
    BY DEF Passes, TasksInv, Sorted
  <2>4. Range(<<>>) = {}
    BY DEF Range
  <2>5. Sorted'
    BY <2>1, <2>2, <2>3, <2>4 DEF Sorted
  <2> QED
    BY <2>2, <2>5
<1>2. DoneOnce' /\ Accounted'
  BY <1>1, AccountsStay
<1>3. Controls'
  BY DEF TasksInv, Controls, udfVars
<1> QED
  BY <1>1, <1>2, <1>3 DEF TasksInv

\* A stage that begins a pass, on all the tasks there are.
LEMMA TasksPass ==
  ASSUME TasksInv, NEW directive \in Passes, BeginPass(directive, tasks),
         phase \in {"arriving", "body"}, UNCHANGED <<job, taken, at, cm_failed, executed>>
  PROVE  TasksInv'
<1>1. phase \notin Passes /\ pending = <<>> /\ kept = <<>>
  BY DEF Passes, TasksInv, Sorted
<1>2. JobKnown' /\ Sorted' /\ Separate' /\ Held' = Range(tasks) /\ Positions' = Positions
      /\ ~unusable'
  BY <1>1, ListsOf, PassInv
<1>3. Held' = Held
  <2>1. Range(<<>>) = {}
    BY DEF Range
  <2> QED
    BY <1>1, <1>2, <2>1 DEF Held
<1>4. phase' = directive /\ phase' \in {"run_before", "run_after"} /\ unusable' \in BOOLEAN
  BY DEF BeginPass, Passes, TasksInv, Controls
<1>5. DoneOnce' /\ Accounted'
  BY <1>3, <1>4, AccountsStay
<1>6. Controls'
  BY <1>4 DEF TasksInv, Controls
<1> QED
  BY <1>2, <1>5, <1>6 DEF TasksInv

LEMMA TasksEnter ==
  ASSUME TasksInv, Enter
  PROVE  TasksInv'
<1>1. CASE cm_failed /\ Guarded(at) /\ PassOn /\ UNCHANGED <<tasks, udfVars>>
  <2>1. at' \in Stops /\ phase' \in {"arriving", "over"}
    BY <1>1, ListsOf, Passing
  <2> QED
    BY <1>1, <2>1, ListsOf, TasksQuiet DEF Enter, Passes
<1>2. CASE phase' = "body" /\ UNCHANGED <<at, tasks, udfVars>>
  BY <1>2, ListsOf, TasksQuiet DEF Enter, Passes
<1>3. CASE BeginPass("run_before", tasks) /\ UNCHANGED at
  BY <1>3, TasksPass DEF Enter, Passes
<1> QED
  BY <1>1, <1>2, <1>3 DEF Enter

\* The next UDF leaves the list of those to look at.
LEMMA NextUdf ==
  ASSUME TasksInv, pending # <<>>
  PROVE  /\ Head(pending) \in Range(pending) /\ Head(pending) \in Positions
         /\ Listing(Tail(pending))
         /\ Range(Tail(pending)) = Range(pending) \ {Head(pending)}
<1>1. pending \in Seq(Positions) /\ IsInjective(pending) /\ Len(pending) \in Nat \ {0}
  BY ListsOf, EmptySeq
<1>2. Tail(pending) = SubSeq(pending, 2, Len(pending)) /\ Head(pending) = pending[1]
  BY <1>1, TailIsSubSeq
<1>3. /\ SubSeq(pending, 2, Len(pending)) \in Seq(Positions)
      /\ Range(SubSeq(pending, 2, Len(pending))) = {pending[k] : k \in 2 .. Len(pending)}
      /\ IsInjective(SubSeq(pending, 2, Len(pending)))
  <2>1. 2 \in Nat \ {0} /\ Len(pending) \in 0 .. Len(pending)
    BY <1>1
  <2> QED
    BY <1>1, <2>1, SubSeqRange
<1>4. {pending[k] : k \in 2 .. Len(pending)} = Range(pending) \ {pending[1]}
  <2>1. Range(pending) = {pending[k] : k \in 1 .. Len(pending)}
    BY <1>1 DEF Range
  <2>2. \A k \in 1 .. Len(pending) : pending[k] = pending[1] => k = 1
    BY <1>1 DEF IsInjective
  <2>3. \A k \in 1 .. Len(pending) : k = 1 \/ k \in 2 .. Len(pending)
    BY <1>1
  <2>4. \A k \in 2 .. Len(pending) : k \in 1 .. Len(pending) /\ k # 1
    BY <1>1
  <2> QED
    BY <2>1, <2>2, <2>3, <2>4
<1>5. pending[1] \in Range(pending) /\ pending[1] \in Positions
  BY <1>1 DEF Range
<1> QED
  BY <1>2, <1>3, <1>4, <1>5 DEF Listing

LEMMA TasksKeep ==
  ASSUME TasksInv, KeepUdf
  PROVE  TasksInv'
<1>1. /\ pending # <<>> /\ kept' = Append(kept, Head(pending)) /\ pending' = Tail(pending)
      /\ UNCHANGED <<job, taken, at, phase, tasks, cm_failed, unusable, executed>>
      /\ phase \in Passes
  BY DEF KeepUdf, Passes
<1>2. /\ Head(pending) \in Range(pending) /\ Head(pending) \in Positions
      /\ Listing(pending') /\ Range(pending') = Range(pending) \ {Head(pending)}
  BY <1>1, NextUdf
<1>3. /\ kept' \in Seq(Positions) /\ IsInjective(kept')
      /\ Range(kept') = Range(kept) \union {Head(pending)}
  <2>1. Head(pending) \notin Range(kept)
    BY <1>2 DEF TasksInv, Separate
  <2> QED
    BY <1>1, <1>2, <2>1, ListsOf, AppendRange
<1>4. Separate'
  BY <1>1, <1>2, <1>3 DEF TasksInv, Separate, Listing, Positions
<1>5. Held' = Held
  BY <1>1, <1>2, <1>3 DEF Held
<1>6. Sorted'
  BY <1>1, <1>2, <1>3 DEF TasksInv, Sorted, Ordered, IsUdf, IsStageTask
<1>7. DoneOnce' /\ Accounted'
  BY <1>1, <1>5, AccountsStay DEF Passes
<1>8. Controls' /\ JobKnown'
  BY <1>1 DEF TasksInv, Controls, JobKnown
<1> QED
  BY <1>4, <1>6, <1>7, <1>8 DEF TasksInv

LEMMA TasksRun ==
  ASSUME TasksInv, NEW outcome \in UdfOutcomes, RunUdf(outcome)
  PROVE  TasksInv'
<1> DEFINE u == Head(pending)
<1>1. /\ pending # <<>> /\ pending' = Tail(pending)
      /\ UNCHANGED <<job, taken, at, phase, tasks, cm_failed>>
      /\ phase \in Passes /\ unusable' = (unusable \/ outcome = "no message")
  BY DEF RunUdf, Passes
<1>2. /\ u \in Range(pending) /\ u \in Positions
      /\ Listing(pending') /\ Range(pending') = Range(pending) \ {u}
  BY <1>1, NextUdf
<1>3. u \notin Range(kept) /\ u \notin Range(tasks)
  BY <1>2 DEF TasksInv, Separate
<1>4. \/ kept' = kept /\ executed' = executed \union {<<u, at>>}
      \/ kept' = Append(kept, u) /\ executed' = executed
  BY DEF RunUdf, KeptAfter
<1> HIDE DEF u
<1>5. JobKnown' /\ Controls'
  BY <1>1 DEF TasksInv, Controls, JobKnown, Passes
<1>6. CASE kept' = kept /\ executed' = executed \union {<<u, at>>}
  <2>1. Separate'
    BY <1>1, <1>2, <1>6 DEF TasksInv, Separate, Listing, Positions
  <2>2. Held' = Held \ {u}
    BY <1>1, <1>2, <1>3, <1>6 DEF Held
  <2>3. Sorted'
    BY <1>1, <1>2, <1>6 DEF TasksInv, Sorted, Ordered, IsUdf, IsStageTask
  <2>4. u \in Held
    BY <1>2 DEF Held
  <2>5. \A e \in executed : e[1] # u
    BY <2>4 DEF TasksInv, DoneOnce
  <2>6. DoneOnce'
    <3>1. executed' \subseteq Positions \X Stops
      BY <1>2, <1>6, ListsOf DEF TasksInv, DoneOnce
    <3>2. \A d, e \in executed' : d[1] = e[1] => d = e
      BY <1>6, <2>5 DEF TasksInv, DoneOnce
    <3>3. \A e \in executed' : e[1] \notin Held'
      BY <1>6, <2>2, <2>5 DEF TasksInv, DoneOnce
    <3>4. Positions' = Positions
      BY <1>1 DEF Positions
    <3> QED
      BY <3>1, <3>2, <3>3, <3>4 DEF DoneOnce
  <2>7. Accounted'
    <3>1. ~Dropped
      BY <1>1 DEF Dropped, Passes
    <3>2. <<u, at>>[1] = u /\ <<u, at>> \in executed'
      BY <1>6
    <3>3. \A i \in Positions : i \in Held \/ (\E e \in executed : e[1] = i) \/ cm_failed
      BY <3>1 DEF TasksInv, Accounted
    <3>4. \A i \in Positions : i \in Held' \/ (\E e \in executed' : e[1] = i) \/ cm_failed'
      BY <1>1, <1>6, <2>2, <3>2, <3>3
    <3> QED
      BY <1>1, <3>4 DEF Accounted, Positions
  <2> QED
    BY <1>5, <2>1, <2>3, <2>6, <2>7 DEF TasksInv
<1>7. CASE kept' = Append(kept, u) /\ executed' = executed
  <2>1. /\ kept' \in Seq(Positions) /\ IsInjective(kept') /\ Range(kept') = Range(kept) \union {u}
    BY <1>2, <1>3, <1>7, ListsOf, AppendRange
  <2>2. Separate'
    BY <1>1, <1>2, <1>3, <2>1 DEF TasksInv, Separate, Listing, Positions
  <2>3. Held' = Held
    BY <1>1, <1>2, <2>1 DEF Held
  <2>4. Sorted'
    BY <1>1, <1>2, <2>1 DEF TasksInv, Sorted, Ordered, IsUdf, IsStageTask
  <2>5. DoneOnce' /\ Accounted'
    BY <1>1, <1>7, <2>3, AccountsStay DEF Passes
  <2> QED
    BY <1>5, <2>2, <2>4, <2>5 DEF TasksInv
<1> QED
  BY <1>4, <1>6, <1>7

\* The UDFs that were kept follow the other tasks.
LEMMA PutBack ==
  ASSUME TasksInv, phase \in Passes, pending = <<>>
  PROVE  /\ tasks \o kept \in Seq(Positions) /\ IsInjective(tasks \o kept)
         /\ Range(tasks \o kept) = Range(tasks) \union Range(kept)
         /\ Ordered(tasks \o kept)
<1>1. /\ tasks \o kept \in Seq(Positions) /\ IsInjective(tasks \o kept)
      /\ Range(tasks \o kept) = Range(tasks) \union Range(kept)
  BY ListsOf, ConcatRange DEF TasksInv, Separate
<1>2. /\ tasks \in Seq(Positions) /\ kept \in Seq(Positions)
      /\ DOMAIN tasks = 1 .. Len(tasks) /\ Len(tasks) \in Nat /\ Len(kept) \in Nat
  BY ListsOf
<1>3. \A i \in 1 .. Len(tasks) + Len(kept) :
        (tasks \o kept)[i] = IF i <= Len(tasks) THEN tasks[i] ELSE kept[i - Len(tasks)]
  BY <1>2, ConcatProperties
<1>4. DOMAIN (tasks \o kept) = 1 .. Len(tasks) + Len(kept)
  BY <1>2, ConcatProperties, RangeIs
<1>5. \A i \in 1 .. Len(kept) : ~IsStageTask(kept[i])
  BY <1>2, RangeIs DEF TasksInv, Sorted, IsStageTask
<1>6. \A k \in DOMAIN (tasks \o kept) : IsStageTask((tasks \o kept)[k]) =>
        k \in DOMAIN tasks /\ (tasks \o kept)[k] = tasks[k]
  <2> SUFFICES ASSUME NEW k \in 1 .. Len(tasks) + Len(kept), IsStageTask((tasks \o kept)[k])
               PROVE  k \in DOMAIN tasks /\ (tasks \o kept)[k] = tasks[k]
    BY <1>4
  <2>1. CASE k <= Len(tasks)
    BY <1>2, <1>3, <2>1
  <2>2. CASE ~(k <= Len(tasks))
    <3>1. k - Len(tasks) \in 1 .. Len(kept)
      BY <1>2, <2>2
    <3> QED
      BY <1>3, <1>5, <2>2, <3>1
  <2> QED
    BY <2>1, <2>2
<1>7. Ordered(tasks \o kept)
  BY <1>6 DEF TasksInv, Sorted, Ordered
<1> QED
  BY <1>1, <1>7

LEMMA TasksEndPass ==
  ASSUME TasksInv, EndPass
  PROVE  TasksInv'
<1>1. /\ phase \in Passes /\ pending = <<>> /\ ~unusable
      /\ tasks' = tasks \o kept /\ kept' = <<>> /\ pending' = <<>>
      /\ UNCHANGED <<job, taken, cm_failed, unusable, executed>>
  BY DEF EndPass, Passes
<1>2. phase' \in {"body", "over", "arriving"} /\ at' \in Stops
  BY ListsOf, Passing DEF EndPass
<1>3. /\ Listing(tasks') /\ Ordered(tasks') /\ Range(tasks') = Range(tasks) \union Range(kept)
  BY <1>1, PutBack DEF Listing
<1>4. Range(<<>>) = {} /\ Listing(<<>>)
  BY DEF Range, Listing, IsInjective
<1>5. Separate'
  BY <1>1, <1>3, <1>4 DEF Separate, Listing, Positions
<1>6. Held' = Held
  BY <1>1, <1>3, <1>4 DEF Held
<1>7. phase' \notin Passes
  BY <1>2 DEF Passes
<1>8. Sorted'
  BY <1>1, <1>3, <1>4, <1>7 DEF Sorted, Ordered, IsStageTask, IsUdf
<1>9. DoneOnce' /\ Accounted'
  BY <1>1, <1>2, <1>6, AccountsStay DEF Passes
<1>10. Controls' /\ JobKnown'
  BY <1>1, <1>2 DEF TasksInv, Controls, JobKnown
<1> QED
  BY <1>5, <1>8, <1>9, <1>10 DEF TasksInv

LEMMA TasksBreakPass ==
  ASSUME TasksInv, BreakPass
  PROVE  TasksInv'
<1>1. /\ phase \in Passes /\ pending = <<>> /\ kept' = <<>> /\ ~unusable' /\ pending' = <<>>
      /\ unusable' \in BOOLEAN /\ UNCHANGED <<job, taken, tasks, executed>>
  BY DEF BreakPass, Passes
<1>2. /\ phase' \in {"over", "arriving"} /\ at' \in Stops
      /\ cm_failed' \in BOOLEAN /\ (cm_failed' \/ Dropped')
  <2>1. CASE Guarded(at) /\ SetFailure /\ PassOn
    BY <2>1, ListsOf, Passing DEF SetFailure
  <2>2. CASE ~Guarded(at) /\ phase' = "over" /\ UNCHANGED <<at, cm_failed>>
    <3>1. at' = SinkAt /\ SinkAt <= SinkAt
      <4>1. SinkAt = 18
        BY PipelineEnd
      <4> QED
        BY <2>2, <4>1 DEF Guarded
    <3> QED
      BY <2>2, <3>1, ListsOf DEF Dropped
  <2> QED
    BY <2>1, <2>2 DEF BreakPass
<1>3. Range(<<>>) = {} /\ Listing(<<>>)
  BY DEF Range, Listing, IsInjective
<1>4. Separate'
  BY <1>1, <1>3 DEF TasksInv, Separate, Listing, Positions
<1>5. Held' \subseteq Held
  BY <1>1, <1>3 DEF Held
<1>6. phase' \notin Passes
  BY <1>2 DEF Passes
<1>7. Sorted'
  BY <1>1, <1>3, <1>6 DEF TasksInv, Sorted, Ordered, IsStageTask, IsUdf
<1>8. DoneOnce'
  BY <1>1, <1>5 DEF TasksInv, DoneOnce, Positions
<1>9. Accounted'
  BY <1>2 DEF Accounted
<1>10. Controls' /\ JobKnown'
  BY <1>1, <1>2 DEF TasksInv, Controls, JobKnown
<1> QED
  BY <1>4, <1>7, <1>8, <1>9, <1>10 DEF TasksInv

\* The tasks that are left when the first of a type is taken.
LEMMA OneRemoved ==
  ASSUME TasksInv, NEW k \in DOMAIN tasks
  PROVE  /\ Listing(RemoveAt(tasks, k)) /\ Ordered(RemoveAt(tasks, k))
         /\ tasks[k] \in Positions /\ tasks[k] \in Range(tasks)
         /\ Range(RemoveAt(tasks, k)) = Range(tasks) \ {tasks[k]}
<1> DEFINE n == Len(tasks)
           r == RemoveAt(tasks, k)
           from(i) == IF i < k THEN i ELSE i + 1
<1>1. /\ tasks \in Seq(Positions) /\ IsInjective(tasks) /\ Ordered(tasks)
      /\ DOMAIN tasks = 1 .. n /\ n \in Nat /\ k \in 1 .. n
      /\ tasks[k] \in Positions /\ tasks[k] \in Range(tasks)
  BY ListsOf, RangeIs
<1>2. /\ r \in Seq(Positions) /\ IsInjective(r) /\ DOMAIN r = 1 .. n - 1
      /\ Range(r) = Range(tasks) \ {tasks[k]}
      /\ \A i \in 1 .. n - 1 : from(i) \in 1 .. n /\ r[i] = tasks[from(i)]
  <2>1. \A S : tasks \in Seq(S) =>
          /\ r \in Seq(S) /\ IsInjective(r) /\ DOMAIN r = 1 .. n - 1
          /\ Range(r) = Range(tasks) \ {tasks[k]}
          /\ \A i \in 1 .. n - 1 : from(i) \in 1 .. n /\ r[i] = tasks[from(i)]
    BY <1>1, RemoveFacts, ZenonT(40) DEF RemoveAt
  <2> QED
    BY <1>1, <2>1
<1> HIDE DEF r
<1>3. \A i, j \in 1 .. n - 1 : i < j => from(i) < from(j)
  BY <1>1
<1> HIDE DEF from
<1>4. Ordered(r)
  BY <1>1, <1>2, <1>3 DEF Ordered
<1> QED
  BY <1>1, <1>2, <1>4 DEF Listing, r

\* The task that a stage takes: the first of its type.
LEMMA FirstOfType ==
  ASSUME TasksInv, NEW ofType \in SUBSET (DOMAIN tasks), ofType # {}
  PROVE  LET first == CHOOSE k \in ofType : \A l \in ofType : k <= l
         IN  first \in ofType /\ \A l \in ofType : first <= l
<1>1. DOMAIN tasks = 1 .. Len(tasks)
  BY ListsOf, RangeIs
<1>2. ofType \in SUBSET Nat
  BY <1>1
<1>3. \E k \in ofType : \A l \in ofType : k <= l
  BY <1>2, LeastNatural
<1> QED
  BY <1>3

LEMMA TasksDo ==
  ASSUME TasksInv, DoTask
  PROVE  TasksInv'
<1> DEFINE ofType == {k \in DOMAIN tasks : job.tasks[tasks[k]].type = Pipeline[at].task}
           first  == CHOOSE k \in ofType : \A l \in ofType : k <= l
           left   == RemoveAt(tasks, first)
<1>1. first \in DOMAIN tasks
  <2>1. ofType # {}
    BY DEF DoTask, Selects
  <2> QED
    BY <2>1, FirstOfType
<1>2. \/ /\ executed' = executed \union {<<tasks[first], at>>}
         /\ BeginPass("run_after", left) /\ UNCHANGED <<at, cm_failed>>
      \/ tasks' = left /\ SetFailure /\ PassOn /\ UNCHANGED <<udfVars, executed>>
  BY DEF DoTask
<1>3. phase = "body" /\ UNCHANGED <<job, taken>>
  BY DEF DoTask
<1> HIDE DEF first
<1>4. /\ Listing(left) /\ Ordered(left) /\ tasks[first] \in Positions
      /\ tasks[first] \in Range(tasks) /\ Range(left) = Range(tasks) \ {tasks[first]}
  BY <1>1, OneRemoved
<1>5. Held = Range(tasks) /\ pending = <<>> /\ kept = <<>> /\ ~unusable
  <2>1. pending = <<>> /\ kept = <<>> /\ ~unusable
    BY <1>3 DEF TasksInv, Sorted, Passes
  <2>2. Range(<<>>) = {}
    BY DEF Range
  <2> QED
    BY <2>1, <2>2 DEF Held
<1>6. \A e \in executed : e[1] # tasks[first]
  BY <1>4, <1>5 DEF TasksInv, DoneOnce
<1>7. CASE /\ executed' = executed \union {<<tasks[first], at>>}
           /\ BeginPass("run_after", left) /\ UNCHANGED <<at, cm_failed>>
  <2>1. "run_after" \in Passes /\ phase \notin Passes /\ phase' = "run_after"
    BY <1>3, <1>7 DEF Passes, BeginPass
  <2> HIDE DEF left
  <2>2. /\ JobKnown' /\ Sorted' /\ Separate' /\ Held' = Range(left)
        /\ Positions' = Positions /\ ~unusable'
    BY <1>3, <1>4, <1>7, <2>1, PassInv
  <2>3. DoneOnce'
    <3>1. executed' \subseteq Positions \X Stops
      BY <1>4, <1>7, ListsOf DEF TasksInv, DoneOnce
    <3>2. \A d, e \in executed' : d[1] = e[1] => d = e
      BY <1>6, <1>7 DEF TasksInv, DoneOnce
    <3>3. \A e \in executed' : e[1] \notin Held'
      BY <1>4, <1>5, <1>7, <2>2 DEF TasksInv, DoneOnce
    <3> QED
      BY <2>2, <3>1, <3>2, <3>3 DEF DoneOnce
  <2>4. Accounted'
    <3>1. ~Dropped
      BY <1>3 DEF Dropped
    <3>2. <<tasks[first], at>> \in executed' /\ <<tasks[first], at>>[1] = tasks[first]
      BY <1>7
    <3>3. \A i \in Positions : i \in Held \/ (\E e \in executed : e[1] = i) \/ cm_failed
      BY <3>1 DEF TasksInv, Accounted
    <3>4. \A i \in Positions : i \in Held' \/ (\E e \in executed' : e[1] = i) \/ cm_failed'
      BY <1>4, <1>5, <1>7, <2>2, <3>2, <3>3
    <3> QED
      BY <2>2, <3>4 DEF Accounted
  <2>5. Controls'
    BY <1>3, <1>7, <2>1 DEF TasksInv, Controls, BeginPass
  <2> QED
    BY <2>2, <2>3, <2>4, <2>5 DEF TasksInv
<1>8. CASE tasks' = left /\ SetFailure /\ PassOn /\ UNCHANGED <<udfVars, executed>>
  <2>1. /\ at' \in Stops /\ phase' \in {"arriving", "over"} /\ cm_failed' = TRUE
        /\ pending' = <<>> /\ kept' = <<>> /\ ~unusable' /\ executed' = executed
        /\ tasks' = left /\ UNCHANGED unusable
    BY <1>5, <1>8, ListsOf, Passing DEF SetFailure, udfVars
  <2> HIDE DEF left
  <2>2. Range(<<>>) = {} /\ Listing(<<>>) /\ phase' \notin Passes
    BY <2>1 DEF Range, Listing, IsInjective, Passes
  <2>3. Sorted' /\ Separate'
    BY <1>3, <1>4, <2>1, <2>2 DEF Sorted, Separate, Ordered, Listing, Positions, IsStageTask, IsUdf
  <2>4. Held' \subseteq Held
    BY <1>4, <1>5, <2>1, <2>2 DEF Held
  <2>5. DoneOnce'
    BY <1>3, <2>1, <2>4 DEF TasksInv, DoneOnce, Positions
  <2>6. Accounted' /\ JobKnown' /\ Controls'
    BY <1>3, <2>1 DEF Accounted, TasksInv, JobKnown, Controls
  <2> QED
    BY <2>3, <2>5, <2>6 DEF TasksInv
<1> QED
  BY <1>2, <1>7, <1>8

LEMMA TasksOtherSteps ==
  ASSUME TasksInv, NothingToDo \/ Handle \/ Reply \/ Drain
  PROVE  TasksInv'
<1>1. phase = "body" /\ UNCHANGED <<job, taken>>
  BY DEF NothingToDo, Handle, Reply, Drain
<1>2. CASE BeginPass("run_after", tasks) /\ UNCHANGED <<at, cm_failed, executed>>
  BY <1>1, <1>2, TasksPass DEF Passes
<1>3. CASE /\ PassOn /\ UNCHANGED <<tasks, udfVars, executed>>
           /\ cm_failed' \in BOOLEAN /\ (cm_failed => cm_failed')
  <2>1. at' \in Stops /\ phase' \in {"arriving", "over"}
    BY <1>3, ListsOf, Passing
  <2> QED
    BY <1>1, <1>3, <2>1, TasksQuiet DEF Passes
<1>4. \/ BeginPass("run_after", tasks) /\ UNCHANGED <<at, cm_failed, executed>>
      \/ /\ PassOn /\ UNCHANGED <<tasks, udfVars, executed>>
         /\ cm_failed' \in BOOLEAN /\ (cm_failed => cm_failed')
  BY ListsOf DEF NothingToDo, Handle, Reply, Drain, SetFailure
<1> QED
  BY <1>2, <1>3, <1>4

LEMMA TasksNext == TasksInv /\ [StagesNext]_stageVars => TasksInv'
<1> SUFFICES ASSUME TasksInv, [StagesNext]_stageVars
             PROVE  TasksInv'
  OBVIOUS
<1>1. ASSUME NEW j \in Jobs, ProcessMessage(j)
      PROVE  TasksInv'
  BY <1>1, TasksProcess
<1>2. CASE StageStep
  BY <1>2, TasksEnter, TasksKeep, TasksEndPass, TasksBreakPass, TasksRun, TasksDo,
     TasksOtherSteps DEF StageStep
<1>3. CASE UNCHANGED stageVars
  BY <1>3 DEF stageVars, udfVars, TasksInv, JobKnown, Controls, Sorted, Separate, DoneOnce,
              Accounted, Positions, Held, Listing, Ordered, IsStageTask, IsUdf, Dropped
<1> QED
  BY <1>1, <1>2, <1>3 DEF StagesNext

-----------------------------------------------------------------------------
(* What was done where, and what is left undone. *)

\* A UDF was done at its stage; another task at a stage of its type, and at one that selects
\* it when the job's tasks of that type are alike.
DoneRight ==
  \A e \in executed :
    IF IsUdf(e[1]) THEN job.tasks[e[1]].target = Pipeline[e[2]].name
    ELSE /\ job.tasks[e[1]].type = Pipeline[e[2]].task
         /\ Alike(e[1]) => Selects(e[2], job.tasks[e[1]])

\* The stages that had their turn with the message.
HadTurn(s) == s < at \/ (s = at /\ phase \in {"run_after", "over"})

\* No stage passed by the first task of a type that it selects.
NonePassedBy ==
  ~cm_failed /\ ~Dropped =>
    \A i \in Range(tasks) : IsStageTask(i) /\ First(i) =>
      \A s \in Stops : HadTurn(s) => ~Selects(s, job.tasks[i])

LEMMA RightStays ==
  ASSUME DoneRight, UNCHANGED <<job, executed>>
  PROVE  DoneRight'
  BY DEF DoneRight, IsUdf, Alike

LEMMA PassedStays ==
  ASSUME NonePassedBy, UNCHANGED job, Range(tasks') \subseteq Held, Sorted,
         cm_failed \/ phase = "over" => cm_failed' \/ Dropped',
         \A s \in Stops :
           HadTurn(s)' => \/ HadTurn(s)
                          \/ \A i \in Range(tasks') : IsStageTask(i) /\ First(i) =>
                                                        ~Selects(s, job.tasks[i])
  PROVE  NonePassedBy'
<1> SUFFICES ASSUME ~cm_failed', ~Dropped', NEW i \in Range(tasks'), IsStageTask(i), First(i),
                    NEW s \in Stops, HadTurn(s)'
             PROVE  ~Selects(s, job.tasks[i])
  BY DEF NonePassedBy, IsStageTask, IsUdf, First, Selects
<1>1. i \in Range(tasks)
  BY DEF Held, Sorted, IsStageTask
<1>2. ~cm_failed /\ ~Dropped
  BY DEF Dropped
<1> QED
  BY <1>1, <1>2 DEF NonePassedBy

WorkInv == TasksInv /\ DoneRight /\ NonePassedBy

LEMMA WorkInitially == StagesInit => WorkInv
<1> SUFFICES ASSUME StagesInit
             PROVE  WorkInv
  OBVIOUS
<1>1. executed = {} /\ tasks = <<>>
  BY DEF StagesInit
<1>2. Range(<<>>) = {}
  BY DEF Range
<1> QED
  BY <1>1, <1>2, TasksInitially DEF WorkInv, DoneRight, NonePassedBy

\* A stage without a task type selects nothing.
LEMMA SelectsNothing ==
  ASSUME JobKnown, NEW s \in Stops, Pipeline[s].task = "", NEW i \in Positions
  PROVE  ~Selects(s, job.tasks[i])
  BY JobFacts DEF Selects

\* The stages whose turn it was after on_data returned.
LEMMA TurnPasses ==
  ASSUME at \in Stops, PassOn
  PROVE  \A s \in Stops : HadTurn(s)' => HadTurn(s) \/ s = at
<1>1. Stops = 1 .. 20
  BY PipelineStages
<1> QED
  BY <1>1, Passing DEF HadTurn

LEMMA WorkProcess ==
  ASSUME WorkInv, NEW j \in Jobs, ProcessMessage(j)
  PROVE  WorkInv'
<1>1. TasksInv'
  BY TasksProcess DEF WorkInv
<1>2. at' = 1 /\ executed' = {} /\ (phase' = "arriving" \/ tasks' = <<>>)
  BY DEF ProcessMessage
<1>3. Range(<<>>) = {} /\ Stops = 1 .. 20
  BY PipelineStages DEF Range
<1>4. phase' = "arriving" => \A s \in Stops : ~HadTurn(s)'
  BY <1>2, <1>3 DEF HadTurn
<1>5. NonePassedBy'
  BY <1>2, <1>3, <1>4 DEF NonePassedBy
<1> QED
  BY <1>1, <1>2, <1>5 DEF WorkInv, DoneRight

\* The first task of a type in the message is the first of the job if that is in the message.
LEMMA FirstTaken ==
  ASSUME TasksInv, NEW ofType \in SUBSET (DOMAIN tasks), NEW type, NEW first \in ofType,
         \A l \in ofType : first <= l,
         \A k \in DOMAIN tasks : k \in ofType <=> job.tasks[tasks[k]].type = type,
         type # "udf", NEW i \in Range(tasks), First(i), job.tasks[i].type = type
  PROVE  tasks[first] = i
<1>1. /\ tasks \in Seq(Positions) /\ DOMAIN tasks = 1 .. Len(tasks) /\ Len(tasks) \in Nat
      /\ \A k \in DOMAIN tasks : tasks[k] \in Positions
      /\ Positions = 1 .. Len(job.tasks) /\ Len(job.tasks) \in Nat
  BY ListsOf, RangeIs, JobFacts, ZenonT(40) DEF TasksInv
<1>2. PICK k \in DOMAIN tasks : tasks[k] = i
  BY DEF Range
<1>3. k \in ofType /\ first <= k /\ job.tasks[tasks[first]].type = type /\ first \in DOMAIN tasks
  BY <1>2
<1>4. CASE first = k
  BY <1>2, <1>4
<1>5. CASE first < k
  <2>1. tasks[first] < tasks[k]
    BY <1>2, <1>3, <1>5 DEF TasksInv, Sorted, Ordered, IsStageTask, IsUdf
  <2>2. tasks[first] \in 1 .. i - 1
    BY <1>1, <1>2, <1>3, <2>1
  <2> QED
    BY <1>3, <2>2 DEF First
<1> QED
  BY <1>1, <1>3, <1>4, <1>5

LEMMA WorkDo ==
  ASSUME WorkInv, DoTask
  PROVE  WorkInv'
<1> DEFINE type   == Pipeline[at].task
           ofType == {k \in DOMAIN tasks : job.tasks[tasks[k]].type = type}
           first  == CHOOSE k \in ofType : \A l \in ofType : k <= l
           left   == RemoveAt(tasks, first)
           u      == tasks[first]
<1>1. TasksInv /\ TasksInv' /\ at \in Stops
  BY TasksDo, ListsOf DEF WorkInv
<1>2. PICK m \in DOMAIN tasks : Selects(at, job.tasks[tasks[m]])
  BY DEF DoTask
<1>3. first \in ofType /\ \A l \in ofType : first <= l
  <2>1. m \in ofType
    BY <1>2 DEF Selects
  <2> QED
    BY <1>1, <2>1, FirstOfType
<1>4. \/ /\ executed' = executed \union {<<u, at>>}
         /\ BeginPass("run_after", left) /\ UNCHANGED <<at, cm_failed>>
      \/ tasks' = left /\ SetFailure /\ PassOn /\ UNCHANGED <<udfVars, executed>>
  BY DEF DoTask
<1>5. phase = "body" /\ job' = job /\ type # "udf"
  BY <1>1, PipelineStages, SMTT(40) DEF DoTask
<1>6. job.tasks[u].type = type /\ first \in DOMAIN tasks
  BY <1>3, ZenonT(40)
<1>7. /\ Listing(left) /\ Ordered(left) /\ u \in Positions
      /\ Range(left) = Range(tasks) \ {u}
  BY <1>1, <1>6, OneRemoved, ZenonT(40)
<1> HIDE DEF first, left
<1>8. CASE /\ executed' = executed \union {<<u, at>>}
           /\ BeginPass("run_after", left) /\ UNCHANGED <<at, cm_failed>>
  <2>1. phase' = "run_after" /\ Range(tasks') = {i \in Range(left) : IsStageTask(i)}
    BY <1>1, <1>7, <1>8, PassBegins DEF BeginPass, TasksInv
  <2>2. ~IsUdf(u)
    BY <1>5, <1>6 DEF IsUdf
  <2>3. Alike(u) => Selects(at, job.tasks[u])
    <3>1. /\ tasks[m] \in Positions /\ job.tasks[tasks[m]].type = type
          /\ Pipeline[at].docs = {} \/ job.tasks[tasks[m]].doc \in Pipeline[at].docs
      BY <1>1, <1>2, ListsOf DEF Selects
    <3> QED
      BY <1>6, <3>1 DEF Alike, Selects, Positions
  <2>4. DoneRight'
    <3>1. <<u, at>>[1] = u /\ <<u, at>>[2] = at
      OBVIOUS
    <3>2. \A e \in executed' :
            IF IsUdf(e[1]) THEN job.tasks[e[1]].target = Pipeline[e[2]].name
            ELSE /\ job.tasks[e[1]].type = Pipeline[e[2]].task
                 /\ Alike(e[1]) => Selects(e[2], job.tasks[e[1]])
      <4> TAKE e \in executed'
      <4>1. CASE e \in executed
        BY <4>1 DEF WorkInv, DoneRight
      <4>2. CASE e = <<u, at>>
        BY <1>6, <2>2, <2>3, <3>1, <4>2
      <4> QED
        BY <1>8, <4>1, <4>2
    <3> QED
      BY <1>5, <3>2 DEF DoneRight, IsUdf, Alike
  <2>5. \A i \in Range(tasks') : IsStageTask(i) /\ First(i) => ~Selects(at, job.tasks[i])
    <3> SUFFICES ASSUME NEW i \in Range(tasks'), First(i), Selects(at, job.tasks[i])
                 PROVE  FALSE
      OBVIOUS
    <3>1. i \in Range(tasks) /\ i # u /\ job.tasks[i].type = type
      BY <1>7, <2>1 DEF Selects
    <3>2. /\ ofType \in SUBSET (DOMAIN tasks)
          /\ \A k \in DOMAIN tasks : k \in ofType <=> job.tasks[tasks[k]].type = type
      OBVIOUS
    <3> HIDE DEF ofType, type
    <3>3. u = i
      BY <1>1, <1>3, <1>5, <3>1, <3>2, FirstTaken
    <3> QED
      BY <3>1, <3>3
  <2>6. NonePassedBy'
    <3>1. Range(tasks') \subseteq Held
      BY <1>7, <2>1 DEF Held
    <3>2. \A s \in Stops : HadTurn(s)' => HadTurn(s) \/ s = at
      BY <1>8 DEF HadTurn
    <3>3. cm_failed \/ phase = "over" => cm_failed' \/ Dropped'
      BY <1>5, <1>8
    <3> QED
      BY <1>1, <1>5, <2>5, <3>1, <3>2, <3>3, PassedStays DEF WorkInv, TasksInv
  <2> QED
    BY <1>1, <2>4, <2>6 DEF WorkInv
<1>9. CASE tasks' = left /\ SetFailure /\ PassOn /\ UNCHANGED <<udfVars, executed>>
  <2>1. NonePassedBy'
    BY <1>9 DEF NonePassedBy, SetFailure
  <2> QED
    BY <1>1, <1>5, <1>9, <2>1, RightStays DEF WorkInv
<1> QED
  BY <1>4, <1>8, <1>9

\* A pass over the UDFs begins before a stage's turn, or after one in which it has nothing to
\* select.
LEMMA WorkPass ==
  ASSUME WorkInv, TasksInv', NEW directive \in Passes, BeginPass(directive, tasks),
         phase \in {"arriving", "body"}, UNCHANGED <<job, at, cm_failed, executed>>,
         directive = "run_after" =>
           \A i \in Range(tasks) : IsStageTask(i) => ~Selects(at, job.tasks[i])
  PROVE  WorkInv'
<1>1. TasksInv /\ Sorted /\ Listing(tasks) /\ Ordered(tasks) /\ JobKnown
  BY ListsOf DEF WorkInv, TasksInv
<1>2. Range(tasks') = {i \in Range(tasks) : IsStageTask(i)} /\ phase' = directive
  BY <1>1, PassBegins DEF BeginPass
<1>3. \A s \in Stops : HadTurn(s)' => HadTurn(s) \/ (s = at /\ directive = "run_after")
  BY <1>2 DEF HadTurn, Passes
<1>4. Range(tasks') \subseteq Held
  BY <1>2 DEF Held
<1>5. NonePassedBy'
  BY <1>1, <1>2, <1>3, <1>4, PassedStays DEF WorkInv
<1> QED
  BY <1>5, RightStays DEF WorkInv

\* The message moves on, after a stage that had its turn or one that has nothing to select.
LEMMA WorkPassOn ==
  ASSUME WorkInv, TasksInv', PassOn, UNCHANGED <<job, executed>>, Range(tasks') \subseteq Held,
         cm_failed' \/ ~cm_failed, phase # "over",
         \/ cm_failed' \/ phase = "run_after"
         \/ \A i \in Range(tasks') : IsStageTask(i) => ~Selects(at, job.tasks[i])
  PROVE  WorkInv'
<1>1. TasksInv /\ Sorted /\ at \in Stops
  BY ListsOf DEF WorkInv, TasksInv
<1>2. CASE cm_failed'
  BY <1>2, RightStays DEF WorkInv, NonePassedBy
<1>3. CASE ~cm_failed'
  <2>1. \A s \in Stops : HadTurn(s)' => HadTurn(s) \/ s = at
    BY <1>1, TurnPasses
  <2>2. phase = "run_after" => HadTurn(at)
    BY DEF HadTurn
  <2>3. NonePassedBy'
    BY <1>1, <1>3, <2>1, <2>2, PassedStays DEF WorkInv
  <2> QED
    BY <2>3, RightStays DEF WorkInv
<1> QED
  BY <1>2, <1>3

LEMMA WorkEnter ==
  ASSUME WorkInv, Enter
  PROVE  WorkInv'
<1>1. TasksInv /\ TasksInv' /\ phase = "arriving" /\ UNCHANGED <<job, cm_failed, executed>>
  BY TasksEnter DEF WorkInv, Enter
<1>2. CASE cm_failed /\ PassOn /\ UNCHANGED tasks
  BY <1>1, <1>2, WorkPassOn DEF Held
<1>3. CASE phase' = "body" /\ UNCHANGED <<at, tasks>>
  <2>1. \A s \in Stops : HadTurn(s)' => HadTurn(s)
    BY <1>3 DEF HadTurn
  <2>2. Range(tasks') \subseteq Held
    BY <1>3 DEF Held
  <2>3. NonePassedBy'
    BY <1>1, <2>1, <2>2, PassedStays DEF WorkInv, TasksInv
  <2> QED
    BY <1>1, <2>3, RightStays DEF WorkInv
<1>4. CASE BeginPass("run_before", tasks) /\ UNCHANGED at
  BY <1>1, <1>4, WorkPass DEF Passes
<1> QED
  BY <1>2, <1>3, <1>4 DEF Enter

LEMMA WorkUdf ==
  ASSUME WorkInv, KeepUdf \/ \E outcome \in UdfOutcomes : RunUdf(outcome)
  PROVE  WorkInv'
<1>1. TasksInv /\ TasksInv' /\ phase \in Passes /\ UNCHANGED <<job, at, phase, tasks, cm_failed>>
  BY TasksKeep, TasksRun DEF WorkInv, KeepUdf, RunUdf, Passes
<1>2. NonePassedBy'
  <2>1. Range(tasks') \subseteq Held /\ phase # "over"
    BY <1>1 DEF Held, Passes
  <2>2. \A s \in Stops : HadTurn(s)' => HadTurn(s)
    BY <1>1 DEF HadTurn
  <2> QED
    BY <1>1, <2>1, <2>2, PassedStays DEF WorkInv, TasksInv
<1>3. CASE executed' = executed
  BY <1>1, <1>2, <1>3, RightStays DEF WorkInv
<1>4. CASE executed' # executed
  <2> DEFINE u == Head(pending)
  <2>1. /\ executed' = executed \union {<<u, at>>} /\ pending # <<>>
        /\ job.tasks[u].target = Pipeline[at].name
    BY <1>4 DEF KeepUdf, RunUdf, Applies
  <2>2. IsUdf(u)
    BY <1>1, <2>1, NextUdf DEF TasksInv, Sorted
  <2> HIDE DEF u
  <2>3. <<u, at>>[1] = u /\ <<u, at>>[2] = at
    OBVIOUS
  <2>4. \A e \in executed' :
          IF IsUdf(e[1]) THEN job.tasks[e[1]].target = Pipeline[e[2]].name
          ELSE /\ job.tasks[e[1]].type = Pipeline[e[2]].task
               /\ Alike(e[1]) => Selects(e[2], job.tasks[e[1]])
    <3> TAKE e \in executed'
    <3>1. CASE e \in executed
      BY <3>1 DEF WorkInv, DoneRight
    <3>2. CASE e = <<u, at>>
      BY <2>1, <2>2, <2>3, <3>2
    <3> QED
      BY <2>1, <3>1, <3>2
  <2>5. DoneRight'
    BY <1>1, <2>4 DEF DoneRight, IsUdf, Alike
  <2> QED
    BY <1>1, <1>2, <2>5 DEF WorkInv
<1> QED
  BY <1>3, <1>4

LEMMA WorkEndPass ==
  ASSUME WorkInv, EndPass
  PROVE  WorkInv'
<1>1. /\ TasksInv /\ TasksInv' /\ phase \in Passes /\ UNCHANGED <<job, cm_failed, executed>>
      /\ pending = <<>> /\ tasks' = tasks \o kept
  BY TasksEndPass DEF WorkInv, EndPass, Passes
<1>2. Range(tasks') \subseteq Held /\ phase # "over"
  BY <1>1, PutBack DEF Held, Passes
<1>3. CASE phase = "run_before"
  <2>1. phase' = "body" /\ at' = at
    BY <1>3 DEF EndPass
  <2>2. \A s \in Stops : HadTurn(s)' => HadTurn(s)
    BY <2>1 DEF HadTurn
  <2>3. NonePassedBy'
    BY <1>1, <1>2, <2>2, PassedStays DEF WorkInv, TasksInv
  <2> QED
    BY <1>1, <2>3, RightStays DEF WorkInv
<1>4. CASE phase = "run_after"
  <2>1. PassOn
    BY <1>4 DEF EndPass
  <2> QED
    BY <1>1, <1>2, <1>4, <2>1, WorkPassOn
<1> QED
  BY <1>1, <1>3, <1>4 DEF Passes

LEMMA WorkBreakPass ==
  ASSUME WorkInv, BreakPass
  PROVE  WorkInv'
<1>1. TasksInv /\ TasksInv' /\ UNCHANGED <<job, executed>>
  BY TasksBreakPass DEF WorkInv, BreakPass
<1>2. cm_failed' \/ Dropped'
  <2>1. CASE Guarded(at)
    BY <2>1 DEF BreakPass, SetFailure
  <2>2. CASE ~Guarded(at)
    <3>1. SinkAt = 18
      BY PipelineEnd
    <3>2. phase' = "over" /\ at' = SinkAt
      BY <2>2 DEF BreakPass, Guarded
    <3> QED
      BY <3>1, <3>2 DEF Dropped
  <2> QED
    BY <2>1, <2>2
<1> QED
  BY <1>1, <1>2, RightStays DEF WorkInv, NonePassedBy

LEMMA WorkOtherSteps ==
  ASSUME WorkInv, NothingToDo \/ Handle \/ Reply \/ Drain
  PROVE  WorkInv'
<1>1. /\ TasksInv /\ TasksInv' /\ phase = "body" /\ UNCHANGED <<job, executed>>
      /\ at \in Stops /\ JobKnown
  BY TasksOtherSteps, ListsOf DEF WorkInv, NothingToDo, Handle, Reply, Drain, TasksInv
<1>2. \A i \in Range(tasks) : ~Selects(at, job.tasks[i])
  <2>1. CASE NothingToDo
    BY <2>1 DEF NothingToDo, Range
  <2>2. CASE ~NothingToDo
    <3>1. Pipeline[at].task = ""
      <4>1. at = SinkAt => at \in 18 .. 20
        <5>1. SinkAt = 18
          BY PipelineEnd
        <5> QED
          BY <5>1
      <4>2. Pipeline[at] = DefaultDrainSink => at \in 18 .. 20
        <5>1. Pipeline[at] = DefaultDrainSink => at = 20
          BY <1>1, PipelineEnd
        <5> QED
          BY <5>1
      <4> QED
        BY <1>1, <2>2, <4>1, <4>2, PipelineEnd DEF Handle, Reply, Drain
    <3>2. \A i \in Range(tasks) : i \in Positions
      BY <1>1, ListsOf, RangeIs
    <3> QED
      BY <1>1, <3>1, <3>2, SelectsNothing
  <2> QED
    BY <2>1, <2>2
<1>3. \/ BeginPass("run_after", tasks) /\ UNCHANGED <<at, cm_failed>>
      \/ PassOn /\ UNCHANGED tasks /\ (cm_failed' \/ ~cm_failed)
  BY ListsOf DEF NothingToDo, Handle, Reply, Drain, SetFailure
<1>4. CASE BeginPass("run_after", tasks) /\ UNCHANGED <<at, cm_failed>>
  BY <1>1, <1>2, <1>4, WorkPass DEF Passes
<1>5. CASE PassOn /\ UNCHANGED tasks /\ (cm_failed' \/ ~cm_failed)
  <2>1. Range(tasks') \subseteq Held
    BY <1>5 DEF Held
  <2> QED
    BY <1>1, <1>2, <1>5, <2>1, WorkPassOn
<1> QED
  BY <1>3, <1>4, <1>5

LEMMA WorkNext == WorkInv /\ [StagesNext]_stageVars => WorkInv'
<1> SUFFICES ASSUME WorkInv, [StagesNext]_stageVars
             PROVE  WorkInv'
  OBVIOUS
<1>1. ASSUME NEW j \in Jobs, ProcessMessage(j)
      PROVE  WorkInv'
  BY <1>1, WorkProcess
<1>2. CASE StageStep
  BY <1>2, WorkEnter, WorkUdf, WorkEndPass, WorkBreakPass, WorkDo, WorkOtherSteps DEF StageStep
<1>3. CASE UNCHANGED stageVars
  <2>1. TasksInv'
    BY <1>3, TasksNext DEF WorkInv
  <2> QED
    BY <1>3, <2>1 DEF stageVars, WorkInv, DoneRight, NonePassedBy, HadTurn, IsStageTask, IsUdf,
                      Alike, First, Dropped
<1> QED
  BY <1>1, <1>2, <1>3 DEF StagesNext

-----------------------------------------------------------------------------
(* What is answered. *)

\* The sink has not pushed an answer yet.
Unanswered ==
  at < SinkAt \/ (at = SinkAt /\ phase \in {"arriving", "run_before", "body"})

\* A UDF that runs before the sink kept the message from it.
Silenced ==
  \E i \in DOMAIN job.tasks :
    /\ job.tasks[i].target = MessageBrokerTaskSinkStage.name
    /\ "run_before" \in job.tasks[i].when

AnsweredOnce ==
  /\ replies \in Seq({"success", "failed"}) /\ Len(replies) <= 1
  /\ Unanswered => replies = <<>>
  /\ ~Unanswered /\ phase # "over" => replies # <<>>
  /\ phase = "over" /\ replies = <<>> /\ job.valid => Silenced

\* A pass has no message any more because of a UDF of its own.
BrokenBy ==
  unusable => /\ phase \in Passes
              /\ \E i \in DOMAIN job.tasks : /\ job.tasks[i].target = Pipeline[at].name
                                             /\ phase \in job.tasks[i].when

\* The first task of every type that has a stage was done, as it should be.
FirstsDone ==
  \A i \in DOMAIN job.tasks : ~IsUdf(i) /\ First(i) /\ HasStage(i) =>
    \E s \in Stops : <<i, s>> \in executed /\ (Alike(i) => Selects(s, job.tasks[i]))

ReplyInv == AnsweredOnce /\ BrokenBy /\ (replies = <<"success">> => FirstsDone)

LEMMA FirstsStay ==
  ASSUME FirstsDone, UNCHANGED job, executed \subseteq executed'
  PROVE  FirstsDone'
  BY DEF FirstsDone, IsUdf, First, HasStage, Alike

LEMMA ReplyInitially == StagesInit => ReplyInv
<1> SUFFICES ASSUME StagesInit
             PROVE  ReplyInv
  OBVIOUS
<1>1. at = 1 /\ replies = <<>> /\ phase = "idle" /\ ~unusable
  BY DEF StagesInit
<1>2. 1 < SinkAt
  <2>1. SinkAt = 18
    BY PipelineEnd
  <2> QED
    BY <2>1
<1>3. <<>> \in Seq({"success", "failed"}) /\ Len(<<>>) <= 1 /\ <<>> # <<"success">>
  OBVIOUS
<1> QED
  BY <1>1, <1>2, <1>3 DEF ReplyInv, AnsweredOnce, BrokenBy, Unanswered

LEMMA ReplyProcess ==
  ASSUME TasksInv, NEW j \in Jobs, ProcessMessage(j)
  PROVE  ReplyInv'
<1>1. at' = 1 /\ replies' = <<>> /\ job' = j /\ (phase' = "over" => ~j.valid)
  BY DEF ProcessMessage
<1>2. ~unusable'
  BY DEF ProcessMessage, TasksInv, Sorted, Passes, udfVars
<1>3. 1 < SinkAt
  <2>1. SinkAt = 18
    BY PipelineEnd
  <2> QED
    BY <2>1
<1>4. <<>> \in Seq({"success", "failed"}) /\ Len(<<>>) <= 1 /\ <<>> # <<"success">>
  OBVIOUS
<1> QED
  BY <1>1, <1>2, <1>3, <1>4 DEF ReplyInv, AnsweredOnce, BrokenBy, Unanswered

\* The stage goes on with the message.
LEMMA ReplyWithin ==
  ASSUME ReplyInv, UNCHANGED <<job, at, replies>>, executed \subseteq executed', ~unusable',
         phase \in {"arriving", "run_before", "body"} \/ phase' = phase,
         phase' \in {"arriving", "run_before", "body"} \/ phase' = phase \/ at # SinkAt,
         phase' # "over"
  PROVE  ReplyInv'
<1>1. FirstsDone => FirstsDone'
  BY FirstsStay
<1>2. Unanswered' <=> Unanswered
  BY DEF Unanswered
<1> QED
  BY <1>1, <1>2 DEF ReplyInv, AnsweredOnce, BrokenBy

\* The message leaves the stage; the sink's turn is over then.
LEMMA ReplyPassOn ==
  ASSUME ReplyInv, PassOn, at \in Stops, UNCHANGED <<job, replies>>, executed \subseteq executed',
         ~unusable', phase # "over", at = SinkAt => phase = "run_after"
  PROVE  ReplyInv'
<1>1. FirstsDone => FirstsDone'
  BY FirstsStay
<1>2. SinkAt = 18 /\ at \in 1 .. 20
  BY PipelineEnd, PipelineStages
<1>3. \/ phase' = "over" /\ at' = at /\ at = 20
      \/ phase' = "arriving" /\ at' = at + 1
  BY Passing
<1>4. CASE phase' = "over" /\ at' = at /\ at = 20
  <2>1. ~Unanswered /\ ~Unanswered'
    BY <1>2, <1>4 DEF Unanswered
  <2> QED
    BY <1>1, <1>4, <2>1 DEF ReplyInv, AnsweredOnce, BrokenBy
<1>5. CASE phase' = "arriving" /\ at' = at + 1
  <2>1. Unanswered' <=> Unanswered
    BY <1>2, <1>5 DEF Unanswered
  <2> QED
    BY <1>1, <1>5, <2>1 DEF ReplyInv, AnsweredOnce, BrokenBy
<1> QED
  BY <1>3, <1>4, <1>5

LEMMA SinkTakesNoTask == SinkAt = 18 /\ Pipeline[18].task = "" /\ 20 # 18
<1>1. \A s \in 18 .. 20 : Pipeline[s].task = ""
  BY PipelineEnd
<1>2. 18 \in 18 .. 20
  OBVIOUS
<1>3. SinkAt = 18
  BY PipelineEnd
<1>4. 20 # 18
  OBVIOUS
<1> QED
  BY <1>1, <1>2, <1>3, <1>4

\* Only the sink answers; a stage with a task is not the sink.
LEMMA NotTheSink ==
  ASSUME at \in Stops,
         \/ Pipeline[at].task # ""
         \/ Pipeline[at] \in {MetadataInjectionStage, OpenTelemetryTracerStage}
         \/ Pipeline[at] = DefaultDrainSink
  PROVE  at # SinkAt
<1>1. SinkAt = 18
  BY PipelineEnd
<1>2. CASE Pipeline[at].task # ""
  <2>1. Pipeline[18].task = ""
    BY SinkTakesNoTask
  <2>2. at # 18
    BY <1>2, <2>1
  <2> QED
    BY <1>1, <2>2
<1>3. CASE Pipeline[at] \in {MetadataInjectionStage, OpenTelemetryTracerStage}
  <2>1. at # 18
    BY <1>3, PipelineEnd
  <2> QED
    BY <1>1, <2>1
<1>4. CASE Pipeline[at] = DefaultDrainSink
  <2>1. at = 20
    BY <1>4, PipelineEnd
  <2>2. 20 # 18
    BY SinkTakesNoTask
  <2> QED
    BY <1>1, <2>1, <2>2
<1> QED
  BY <1>2, <1>3, <1>4

LEMMA ReplyUdf ==
  ASSUME WorkInv, ReplyInv, KeepUdf \/ \E outcome \in UdfOutcomes : RunUdf(outcome)
  PROVE  ReplyInv'
<1>1. /\ UNCHANGED <<job, at, phase, replies>> /\ executed \subseteq executed'
      /\ phase \in Passes /\ pending # <<>>
  BY DEF KeepUdf, RunUdf, Passes
<1>2. BrokenBy'
  <2>1. CASE unusable' = unusable
    BY <1>1, <2>1 DEF ReplyInv, BrokenBy
  <2>2. CASE unusable' # unusable
    <3>1. Applies(job.tasks[Head(pending)])
      BY <2>2 DEF KeepUdf, RunUdf
    <3>2. Head(pending) \in Positions
      BY <1>1, NextUdf DEF WorkInv
    <3> QED
      BY <1>1, <3>1, <3>2 DEF BrokenBy, Applies, Positions
  <2> QED
    BY <2>1, <2>2
<1>3. AnsweredOnce'
  BY <1>1 DEF ReplyInv, AnsweredOnce, Unanswered, Silenced
<1>4. FirstsDone => FirstsDone'
  BY <1>1, FirstsStay
<1> QED
  BY <1>1, <1>2, <1>3, <1>4 DEF ReplyInv

LEMMA ReplyEnter ==
  ASSUME WorkInv, ReplyInv, Enter
  PROVE  ReplyInv'
<1>1. /\ phase = "arriving" /\ UNCHANGED <<job, executed, replies>> /\ ~unusable /\ at \in Stops
      /\ UNCHANGED unusable
  BY ListsOf DEF Enter, WorkInv, TasksInv, Sorted, Passes, udfVars, BeginPass
<1>2. CASE PassOn /\ Guarded(at)
  BY <1>1, <1>2, ReplyPassOn DEF Guarded
<1>3. CASE phase' \in {"body", "run_before"} /\ at' = at
  BY <1>1, <1>3, ReplyWithin
<1> QED
  BY <1>2, <1>3 DEF Enter, BeginPass

LEMMA ReplyEndPass ==
  ASSUME WorkInv, ReplyInv, EndPass
  PROVE  ReplyInv'
<1>1. /\ phase \in {"run_before", "run_after"} /\ ~unusable /\ at \in Stops
      /\ UNCHANGED <<job, executed, replies, unusable>>
  BY ListsOf DEF EndPass, WorkInv
<1>2. CASE phase = "run_before"
  BY <1>1, <1>2, ReplyWithin DEF EndPass
<1>3. CASE phase = "run_after"
  <2>1. PassOn
    BY <1>3 DEF EndPass
  <2> QED
    BY <1>1, <1>3, <2>1, ReplyPassOn
<1> QED
  BY <1>1, <1>2, <1>3

LEMMA ReplyBreakPass ==
  ASSUME WorkInv, ReplyInv, BreakPass
  PROVE  ReplyInv'
<1>1. /\ phase \in {"run_before", "run_after"} /\ unusable /\ ~unusable' /\ at \in Stops
      /\ UNCHANGED <<job, executed, replies>>
  BY ListsOf DEF BreakPass, WorkInv
<1>2. CASE Guarded(at)
  <2>1. PassOn /\ at # SinkAt
    BY <1>2 DEF BreakPass, Guarded
  <2> QED
    BY <1>1, <2>1, ReplyPassOn
<1>3. CASE ~Guarded(at)
  <2>1. at = SinkAt /\ at' = at /\ phase' = "over"
    BY <1>3 DEF BreakPass, Guarded
  <2>2. SinkAt = 18 /\ Pipeline[18] = MessageBrokerTaskSinkStage
    BY PipelineEnd
  <2>3. ~Unanswered'
    BY <2>1, <2>2 DEF Unanswered
  <2>4. replies = <<>> => Silenced
    <3>1. SUFFICES ASSUME replies = <<>>
                   PROVE  Silenced
      OBVIOUS
    <3>2. phase = "run_before"
      BY <1>1, <2>1, <2>2, <3>1 DEF ReplyInv, AnsweredOnce, Unanswered
    <3>3. PICK i \in DOMAIN job.tasks : job.tasks[i].target = Pipeline[at].name
                                        /\ phase \in job.tasks[i].when
      BY <1>1 DEF ReplyInv, BrokenBy
    <3> QED
      BY <2>1, <2>2, <3>2, <3>3 DEF Silenced
  <2>5. Silenced => Silenced'
    BY <1>1 DEF Silenced
  <2>6. AnsweredOnce'
    BY <1>1, <2>1, <2>3, <2>4, <2>5 DEF ReplyInv, AnsweredOnce
  <2>7. FirstsDone => FirstsDone'
    BY <1>1, FirstsStay
  <2> QED
    BY <1>1, <2>6, <2>7 DEF ReplyInv, BrokenBy
<1> QED
  BY <1>2, <1>3

LEMMA ReplyStageWork ==
  ASSUME WorkInv, ReplyInv, NothingToDo \/ DoTask \/ Handle \/ Drain
  PROVE  ReplyInv'
<1>1. /\ phase = "body" /\ ~unusable /\ at \in Stops /\ UNCHANGED <<job, replies, unusable>>
      /\ executed \subseteq executed'
  BY ListsOf DEF NothingToDo, DoTask, Handle, Drain, WorkInv, TasksInv, Sorted, Passes, udfVars,
                 BeginPass
<1>2. at # SinkAt
  <2>1. CASE DoTask
    <3>1. PICK k \in DOMAIN tasks : Selects(at, job.tasks[tasks[k]])
      BY <2>1 DEF DoTask
    <3>2. tasks[k] \in Positions /\ JobKnown
      BY ListsOf, RangeIs DEF WorkInv, TasksInv
    <3> QED
      BY <1>1, <3>1, <3>2, SelectsNothing, NotTheSink, ZenonT(40)
  <2>2. CASE NothingToDo
    BY <1>1, <2>2, NotTheSink DEF NothingToDo
  <2>3. CASE Handle
    BY <1>1, <2>3, NotTheSink DEF Handle
  <2>4. CASE Drain
    BY <1>1, <2>4, NotTheSink DEF Drain
  <2> QED
    BY <2>1, <2>2, <2>3, <2>4
<1>3. CASE PassOn
  BY <1>1, <1>2, <1>3, ReplyPassOn
<1>4. CASE phase' = "run_after" /\ at' = at
  BY <1>1, <1>2, <1>4, ReplyWithin
<1>5. PassOn \/ (phase' = "run_after" /\ at' = at)
  BY DEF NothingToDo, DoTask, Handle, Drain, BeginPass
<1> QED
  BY <1>3, <1>4, <1>5

\* When the sink has a message that did not fail, the first task of every type was done.
LEMMA FirstsWereDone ==
  ASSUME WorkInv, phase = "body", at = SinkAt, ~cm_failed
  PROVE  FirstsDone
<1> SUFFICES ASSUME NEW i \in Positions, ~IsUdf(i), First(i), HasStage(i)
             PROVE  \E s \in Stops :
                      <<i, s>> \in executed /\ (Alike(i) => Selects(s, job.tasks[i]))
  BY DEF FirstsDone, Positions
<1>1. TasksInv /\ JobKnown /\ ~Dropped /\ SinkAt = 18 /\ Stops = 1 .. 20
  BY PipelineEnd, PipelineStages DEF WorkInv, TasksInv, Dropped
<1>2. PICK s \in Stops : Selects(s, job.tasks[i])
  BY DEF HasStage
<1>3. s < at
  <2>1. s \in 18 .. 20 => Pipeline[s].task = ""
    BY PipelineEnd
  <2>2. s \notin 18 .. 20
    BY <1>1, <1>2, <2>1, SelectsNothing
  <2> QED
    BY <1>1, <2>2
<1>4. i \notin Range(tasks)
  BY <1>1, <1>2, <1>3 DEF WorkInv, NonePassedBy, HadTurn, IsStageTask
<1>5. i \notin Held
  BY <1>1, <1>4 DEF TasksInv, Sorted, Passes, Held, Range
<1>6. PICK e \in executed : e[1] = i
  BY <1>1, <1>5 DEF TasksInv, Accounted
<1>7. e = <<i, e[2]>> /\ e[2] \in Stops
  BY <1>1, <1>6 DEF TasksInv, DoneOnce
<1> QED
  BY <1>6, <1>7 DEF WorkInv, DoneRight

LEMMA ReplyPushed ==
  ASSUME WorkInv, ReplyInv, Reply
  PROVE  ReplyInv'
<1>1. /\ phase = "body" /\ at = SinkAt /\ UNCHANGED <<job, at, executed>> /\ phase' = "run_after"
      /\ ~unusable'
  BY DEF Reply, BeginPass, WorkInv, TasksInv, Sorted, Passes
<1>2. replies = <<>>
  BY <1>1 DEF ReplyInv, AnsweredOnce, Unanswered
<1>3. PICK r \in {"success", "failed"} :
        replies' = Append(<<>>, r) /\ (cm_failed => r = "failed")
  BY <1>2, ListsOf DEF Reply, WorkInv
<1>4. replies' = <<r>> /\ replies' \in Seq({"success", "failed"}) /\ Len(replies') = 1
      /\ replies' # <<>>
  BY <1>3
<1>5. ~Unanswered'
  <2>1. SinkAt = 18
    BY PipelineEnd
  <2> QED
    BY <1>1, <2>1 DEF Unanswered
<1>6. replies' = <<"success">> => FirstsDone'
  <2> SUFFICES ASSUME replies' = <<"success">>
               PROVE  FirstsDone'
    OBVIOUS
  <2>1. ~cm_failed
    BY <1>3, <1>4
  <2>2. FirstsDone
    BY <1>1, <2>1, FirstsWereDone
  <2> QED
    BY <1>1, <2>2, FirstsStay
<1> QED
  BY <1>1, <1>4, <1>5, <1>6 DEF ReplyInv, AnsweredOnce, BrokenBy

LEMMA ReplyNext == WorkInv /\ ReplyInv /\ [StagesNext]_stageVars => ReplyInv'
<1> SUFFICES ASSUME WorkInv, ReplyInv, [StagesNext]_stageVars
             PROVE  ReplyInv'
  OBVIOUS
<1>1. ASSUME NEW j \in Jobs, ProcessMessage(j)
      PROVE  ReplyInv'
  BY <1>1, ReplyProcess DEF WorkInv
<1>2. CASE StageStep
  BY <1>2, ReplyEnter, ReplyUdf, ReplyEndPass, ReplyBreakPass, ReplyStageWork, ReplyPushed
     DEF StageStep
<1>3. CASE UNCHANGED stageVars
  BY <1>3 DEF stageVars, udfVars, ReplyInv, AnsweredOnce, Unanswered, Silenced, BrokenBy, FirstsDone,
              IsUdf, First, HasStage, Alike
<1> QED
  BY <1>1, <1>2, <1>3 DEF StagesNext

-----------------------------------------------------------------------------
(* The caches of the stages. *)

\* What a cache and its order have in common.
Agree(Keys, c, o) ==
  /\ c \in Seq(Keys) /\ o \in Seq(Keys) /\ Range(o) = Range(c)
  /\ IsInjective(o) /\ IsInjective(c) /\ Len(c) <= CacheSize

CacheInv ==
  /\ DOMAIN cached = Stops /\ DOMAIN access_order = Stops
  /\ \A s \in Stops : Agree(STRING, cached[s], access_order[s])

\* Some of a sequence's elements, in their order.
LEMMA ChosenEntries ==
  ASSUME NEW S, NEW s \in Seq(S), IsInjective(s), NEW I \in SUBSET DOMAIN s
  PROVE  /\ SelectAt(s, I) \in Seq(S) /\ IsInjective(SelectAt(s, I))
         /\ \A x : x \in Range(SelectAt(s, I)) <=> \E i \in I : s[i] = x
<1>1. I \in SUBSET (1 .. Len(s))
  OBVIOUS
<1>2. SelectAt(s, I) \in Seq(S)
  BY <1>1, SelectAtFacts
<1>3. Range(SelectAt(s, I)) = {s[i] : i \in I} /\ IsInjective(SelectAt(s, I))
  BY <1>1, SelectRange
<1> QED
  BY <1>2, <1>3

\* What is left of a sequence when its head is cut off.
LEMMA Suffix ==
  ASSUME NEW S, NEW s \in Seq(S), IsInjective(s), NEW d \in 0 .. Len(s)
  PROVE  /\ SubSeq(s, d + 1, Len(s)) \in Seq(S) /\ IsInjective(SubSeq(s, d + 1, Len(s)))
         /\ Range(SubSeq(s, d + 1, Len(s))) \subseteq Range(s)
         /\ Len(SubSeq(s, d + 1, Len(s))) = Len(s) - d
<1> DEFINE m == d + 1
           n == Len(s)
           t == SubSeq(s, m, n)
<1>1. m \in Nat \ {0} /\ n \in 0 .. n /\ m <= n + 1 /\ n - m + 1 = n - d
  OBVIOUS
<1>2. \A k \in m .. n : k \in DOMAIN s
  BY <1>1
<1> HIDE DEF m
<1>3. t \in Seq(S) /\ IsInjective(t) /\ Range(t) = {s[k] : k \in m .. n}
  <2>1. n \in 0 .. Len(s) /\ m \in Nat \ {0}
    BY <1>1
  <2> HIDE DEF n
  <2>2. /\ SubSeq(s, m, n) \in Seq(S)
        /\ Range(SubSeq(s, m, n)) = {s[k] : k \in m .. n}
        /\ IsInjective(s) => IsInjective(SubSeq(s, m, n))
    BY <2>1, SubSeqRange, SMTT(30)
  <2>3. QED
    BY <2>2
<1>4. Len(t) = IF m <= n THEN n - m + 1 ELSE 0
  BY <1>1, SubSeqRange
<1> HIDE DEF t
<1>5. Range(t) \subseteq Range(s)
  BY <1>2, <1>3 DEF Range
<1>6. Len(t) = n - d
  BY <1>1, <1>4
<1> QED
  BY <1>3, <1>5, <1>6 DEF t, m

\* Sequences without repetition that hold the same are equally long.
LEMMA AsLong ==
  ASSUME NEW S, NEW s \in Seq(S), NEW t \in Seq(S), IsInjective(s), IsInjective(t),
         Range(s) = Range(t)
  PROVE  Len(s) = Len(t)
  BY InjectiveLength

\* What outlived its time is gone from both.
LEMMA CacheExpires ==
  ASSUME NEW Keys, NEW c, NEW o, Agree(Keys, c, o), NEW expired \in 0 .. Len(c), NEW I,
         \A i : i \in I <=> i \in DOMAIN o /\ o[i] \in Range(SubSeq(c, expired + 1, Len(c)))
  PROVE  Agree(Keys, SubSeq(c, expired + 1, Len(c)), SelectAt(o, I))
<1> DEFINE live == SubSeq(c, expired + 1, Len(c))
<1>1. c \in Seq(Keys) /\ o \in Seq(Keys) /\ IsInjective(c) /\ IsInjective(o)
  BY DEF Agree
<1>2. /\ live \in Seq(Keys) /\ IsInjective(live) /\ Range(live) \subseteq Range(c)
      /\ Len(live) = Len(c) - expired
  BY <1>1, Suffix
<1>3. \A i : i \in I <=> i \in DOMAIN o /\ o[i] \in Range(live)
  OBVIOUS
<1> HIDE DEF live
<1>4. Range(live) \in SUBSET Range(o)
  BY <1>2 DEF Agree
<1>5. /\ SelectAt(o, I) \in Seq(Keys) /\ IsInjective(SelectAt(o, I))
      /\ Range(SelectAt(o, I)) = Range(live)
  <2>1. I \in SUBSET DOMAIN o
    BY <1>3
  <2>2. /\ SelectAt(o, I) \in Seq(Keys) /\ IsInjective(SelectAt(o, I))
        /\ \A x : x \in Range(SelectAt(o, I)) <=> \E i \in I : o[i] = x
    BY <1>1, <2>1, ChosenEntries
  <2>3. \A x : x \in Range(live) <=> \E i \in I : o[i] = x
    BY <1>3, <1>4 DEF Range
  <2> QED
    BY <2>2, <2>3
<1>6. Len(live) <= CacheSize
  BY <1>1, <1>2, Limits DEF Agree
<1>7. Agree(Keys, live, SelectAt(o, I))
  BY <1>2, <1>5, <1>6 DEF Agree
<1> QED
  BY <1>7 DEF live

\* A function that is used moves to the end of the order.
LEMMA CacheHit ==
  ASSUME NEW Keys, NEW live, NEW order, Agree(Keys, live, order), NEW key \in Range(live)
  PROVE  Agree(Keys, live, MoveToEnd(order, key))
<1> DEFINE I == {i \in DOMAIN order : order[i] # key}
           rest == SelectAt(order, I)
<1>1. /\ live \in Seq(Keys) /\ order \in Seq(Keys) /\ IsInjective(order)
      /\ Range(order) = Range(live)
  BY DEF Agree
<1>2. key \in Keys
  BY <1>1, RangeIs
<1>3. MoveToEnd(order, key) = Append(rest, key)
  BY DEF MoveToEnd, Filtered
<1> DEFINE T == Range(order) \ {key}
<1>4. /\ \A i : i \in I <=> i \in DOMAIN order /\ order[i] \in T
      /\ T \in SUBSET Range(order)
  BY DEF Range
<1> HIDE DEF I, T
<1>5. rest \in Seq(Keys) /\ IsInjective(rest) /\ Range(rest) = T
  <2>1. I \in SUBSET DOMAIN order
    BY <1>4
  <2>2. /\ rest \in Seq(Keys) /\ IsInjective(rest)
        /\ \A x : x \in Range(rest) <=> \E i \in I : order[i] = x
    BY <1>1, <2>1, ChosenEntries
  <2>3. \A x : x \in T <=> \E i \in I : order[i] = x
    BY <1>4 DEF Range
  <2> HIDE DEF rest
  <2> QED
    BY <2>2, <2>3
<1> HIDE DEF rest
<1>7. Range(rest) = Range(live) \ {key}
  BY <1>1, <1>5 DEF T
<1>8. /\ Append(rest, key) \in Seq(Keys) /\ IsInjective(Append(rest, key))
      /\ Range(Append(rest, key)) = Range(rest) \union {key}
  BY <1>2, <1>5, <1>7, AppendRange
<1> QED
  BY <1>3, <1>7, <1>8 DEF Agree

\* A new function takes the place of those that were used longest ago.
LEMMA CacheMiss ==
  ASSUME NEW Keys, NEW live, NEW order, Agree(Keys, live, order), NEW key \in Keys,
         key \notin Range(live),
         NEW over \in Int, over = Len(live) + 1 - CacheSize,
         NEW stays, over > 0 => stays = SubSeq(order, over + 1, Len(order)),
         ~(over > 0) => stays = order,
         NEW I, \A i : i \in I <=> i \in DOMAIN live /\ live[i] \in Range(stays)
  PROVE  Agree(Keys, Append(SelectAt(live, I), key), Append(stays, key))
<1>1. /\ live \in Seq(Keys) /\ order \in Seq(Keys) /\ IsInjective(order)
      /\ IsInjective(live) /\ Range(order) = Range(live) /\ Len(live) <= CacheSize
  BY DEF Agree
<1>2. Len(order) = Len(live)
  BY <1>1, AsLong
<1>3. Len(live) \in Nat /\ CacheSize \in Nat \ {0}
  BY <1>1, Limits
<1>4. /\ stays \in Seq(Keys) /\ IsInjective(stays) /\ Range(stays) \subseteq Range(live)
      /\ Len(stays) + 1 <= CacheSize
  <2>1. CASE over > 0
    <3>1. over \in 0 .. Len(order)
      BY <1>2, <1>3, <2>1
    <3>2. stays = SubSeq(order, over + 1, Len(order))
      BY <2>1
    <3> DEFINE rest == SubSeq(order, over + 1, Len(order))
    <3>3. /\ rest \in Seq(Keys) /\ IsInjective(rest) /\ Range(rest) \subseteq Range(order)
          /\ Len(rest) = Len(order) - over
      BY <1>1, <3>1, Suffix, SMTT(40)
    <3> HIDE DEF rest
    <3>4. /\ stays \in Seq(Keys) /\ IsInjective(stays) /\ Range(stays) \subseteq Range(order)
          /\ Len(stays) = Len(order) - over
      BY <3>2, <3>3 DEF rest
    <3> QED
      BY <1>1, <1>2, <1>3, <3>4
  <2>2. CASE ~(over > 0)
    BY <1>1, <1>2, <1>3, <2>2
  <2> QED
    BY <2>1, <2>2
<1> DEFINE T == Range(stays)
           left == SelectAt(live, I)
<1>6. T \in SUBSET Range(live) /\ \A i : i \in I <=> i \in DOMAIN live /\ live[i] \in T
  BY <1>4
<1> HIDE DEF T
<1>5. /\ left \in Seq(Keys) /\ IsInjective(left) /\ Range(left) = T
  <2>1. I \in SUBSET DOMAIN live
    BY <1>6
  <2>2. /\ left \in Seq(Keys) /\ IsInjective(left)
        /\ \A x : x \in Range(left) <=> \E i \in I : live[i] = x
    BY <1>1, <2>1, ChosenEntries
  <2>3. \A x : x \in T <=> \E i \in I : live[i] = x
    BY <1>6 DEF Range
  <2> HIDE DEF left
  <2> QED
    BY <2>2, <2>3
<1>7. /\ left \in Seq(Keys) /\ IsInjective(left) /\ Range(left) = Range(stays)
  BY <1>5 DEF T
<1> HIDE DEF left
<1>8. Len(left) = Len(stays)
  BY <1>4, <1>7, AsLong
<1>9. key \notin Range(left) /\ key \notin Range(stays)
  BY <1>4, <1>7
<1>10. /\ Append(left, key) \in Seq(Keys) /\ IsInjective(Append(left, key))
       /\ Range(Append(left, key)) = Range(left) \union {key}
       /\ Len(Append(left, key)) = Len(left) + 1
  BY <1>7, <1>9, AppendRange
<1>11. /\ Append(stays, key) \in Seq(Keys) /\ IsInjective(Append(stays, key))
       /\ Range(Append(stays, key)) = Range(stays) \union {key}
  <2>1. stays \in Seq(Keys)
    BY <1>4
  <2>2. Append(stays, key) \in Seq(Keys) /\ Range(Append(stays, key)) = Range(stays) \union {key}
    BY <2>1, AppendRange
  <2>3. IsInjective(Append(stays, key))
    BY <1>4, <2>1, <1>9, AppendRange
  <2> QED
    BY <2>2, <2>3
<1>12. Len(Append(left, key)) <= CacheSize
  BY <1>4, <1>8, <1>10
<1> QED
  BY <1>7, <1>10, <1>11, <1>12 DEF Agree, left

LEMMA CacheReplaced ==
  ASSUME CacheInv, NEW c, NEW o, Agree(STRING, c, o),
         cached' = [cached EXCEPT ![at] = c], access_order' = [access_order EXCEPT ![at] = o]
  PROVE  CacheInv'
  BY DEF CacheInv

LEMMA CacheUsed ==
  ASSUME CacheInv, at \in Stops, NEW key \in STRING, NEW compiles, UseCache(key, compiles)
  PROVE  CacheInv'
<1>1. PICK expired \in 0 .. Len(cached[at]) :
        LET live  == SubSeq(cached[at], expired + 1, Len(cached[at]))
            order == SelectAt(access_order[at],
                              {i \in DOMAIN access_order[at] :
                                 access_order[at][i] \in ToSet(live)})
            over  == Len(live) + 1 - CacheSize
            stays == IF over > 0 THEN SubSeq(order, over + 1, Len(order)) ELSE order
        IN  IF key \in ToSet(live)
            THEN /\ cached' = [cached EXCEPT ![at] = live]
                 /\ access_order' = [access_order EXCEPT ![at] = MoveToEnd(order, key)]
            ELSE IF ~compiles
            THEN /\ cached' = [cached EXCEPT ![at] = live]
                 /\ access_order' = [access_order EXCEPT ![at] = order]
            ELSE /\ cached' = [cached EXCEPT ![at] =
                                 Append(SelectAt(live, {i \in DOMAIN live :
                                                          live[i] \in ToSet(stays)}), key)]
                 /\ access_order' = [access_order EXCEPT ![at] = Append(stays, key)]
  BY DEF UseCache, Filtered
<1> DEFINE c == cached[at]
           o == access_order[at]
           live == SubSeq(c, expired + 1, Len(c))
           I == {i \in DOMAIN o : o[i] \in ToSet(live)}
           order == SelectAt(o, I)
           over == Len(live) + 1 - CacheSize
           stays == IF over > 0 THEN SubSeq(order, over + 1, Len(order)) ELSE order
           J == {i \in DOMAIN live : live[i] \in ToSet(stays)}
           left == SelectAt(live, J)
<1>2. \/ /\ key \in ToSet(live)
         /\ cached' = [cached EXCEPT ![at] = live]
         /\ access_order' = [access_order EXCEPT ![at] = MoveToEnd(order, key)]
      \/ /\ cached' = [cached EXCEPT ![at] = live]
         /\ access_order' = [access_order EXCEPT ![at] = order]
      \/ /\ key \notin ToSet(live)
         /\ cached' = [cached EXCEPT ![at] = Append(left, key)]
         /\ access_order' = [access_order EXCEPT ![at] = Append(stays, key)]
  BY <1>1
<1>3. Agree(STRING, c, o)
  BY DEF CacheInv
<1>4. expired \in 0 .. Len(c)
  BY <1>1
<1>5. \A s : ToSet(s) = Range(s)
  BY DEF ToSet, Range
<1>6. \A i : i \in I <=> i \in DOMAIN o /\ o[i] \in Range(live)
  BY <1>5
<1>7. \A i : i \in J <=> i \in DOMAIN live /\ live[i] \in Range(stays)
  BY <1>5
<1> HIDE DEF I, J
<1>8. Agree(STRING, live, order)
  BY <1>3, <1>4, <1>6, CacheExpires
<1> HIDE DEF live, order
<1>9. over \in Int
  BY <1>8, Limits DEF Agree
<1>10. /\ over > 0 => stays = SubSeq(order, over + 1, Len(order))
       /\ ~(over > 0) => stays = order
  OBVIOUS
<1>11. over = Len(live) + 1 - CacheSize
  OBVIOUS
<1> HIDE DEF stays, over
<1>12. CASE /\ key \in Range(live)
            /\ cached' = [cached EXCEPT ![at] = live]
            /\ access_order' = [access_order EXCEPT ![at] = MoveToEnd(order, key)]
  <2>1. Agree(STRING, live, MoveToEnd(order, key))
    BY <1>8, <1>12, CacheHit
  <2> QED
    BY <1>12, <2>1, CacheReplaced
<1>13. CASE /\ cached' = [cached EXCEPT ![at] = live]
            /\ access_order' = [access_order EXCEPT ![at] = order]
  BY <1>8, <1>13, CacheReplaced
<1>14. CASE /\ key \notin Range(live)
            /\ cached' = [cached EXCEPT ![at] = Append(left, key)]
            /\ access_order' = [access_order EXCEPT ![at] = Append(stays, key)]
  <2>1. Agree(STRING, Append(left, key), Append(stays, key))
    BY <1>7, <1>8, <1>9, <1>10, <1>11, <1>14, CacheMiss
  <2> HIDE DEF left
  <2> QED
    BY <1>14, <2>1, CacheReplaced
<1> QED
  BY <1>2, <1>5, <1>12, <1>13, <1>14

LEMMA CacheInitially == StagesInit => CacheInv
<1> SUFFICES ASSUME StagesInit
             PROVE  CacheInv
  OBVIOUS
<1>1. cached = [s \in Stops |-> <<>>] /\ access_order = [s \in Stops |-> <<>>]
  BY DEF StagesInit
<1>2. Agree(STRING, <<>>, <<>>)
  BY Limits DEF Agree, IsInjective
<1> QED
  BY <1>1, <1>2 DEF CacheInv

LEMMA CacheNext == TasksInv /\ CacheInv /\ [StagesNext]_stageVars => CacheInv'
<1> SUFFICES ASSUME TasksInv, CacheInv, [StagesNext]_stageVars
             PROVE  CacheInv'
  OBVIOUS
<1>1. CASE UNCHANGED cacheVars
  BY <1>1 DEF CacheInv, cacheVars
<1>2. ASSUME NEW outcome \in UdfOutcomes, RunUdf(outcome)
      PROVE  CacheInv'
  <2> DEFINE u == job.tasks[Head(pending)]
             compiles == outcome # "does not compile"
  <2>1. UseCache(u.fn, compiles) /\ pending # <<>> /\ phase \in Passes
    BY <1>2 DEF RunUdf, Passes
  <2>2. at \in Stops /\ Head(pending) \in Positions /\ JobKnown
    BY <2>1, NextUdf DEF TasksInv, Controls
  <2>3. u.fn \in STRING
    BY <2>2, JobFacts
  <2> HIDE DEF u, compiles
  <2> QED
    BY <2>1, <2>2, <2>3, CacheUsed
<1>3. CASE UNCHANGED stageVars
  BY <1>1, <1>3 DEF stageVars
<1>4. CASE StagesNext
  <2>1. \/ UNCHANGED cacheVars
        \/ \E outcome \in UdfOutcomes : RunUdf(outcome)
    BY <1>4, ZenonT(40) DEF StagesNext, StageStep, ProcessMessage, Enter, KeepUdf, EndPass, BreakPass,
                NothingToDo, DoTask, Handle, Reply, Drain, cacheVars
  <2> QED
    BY <1>1, <1>2, <2>1, SMTT(40)
<1> QED
  BY <1>3, <1>4

-----------------------------------------------------------------------------
(* The journey. *)

JourneyInv == WorkInv /\ ReplyInv /\ CacheInv

\* A task that is held is in the message once, and one that was done was done once.
LEMMA TaskCounts ==
  ASSUME TasksInv, NEW i \in Positions
  PROVE  LET done == Cardinality({e \in executed : e[1] = i})
         IN  /\ InMessage(i) = IF i \in Held THEN 1 ELSE 0
             /\ done = IF \E e \in executed : e[1] = i THEN 1 ELSE 0
<1> DEFINE m == tasks \o pending \o kept
           two == tasks \o pending
           in == {k \in DOMAIN m : m[k] = i}
           done == {e \in executed : e[1] = i}
<1>1. /\ tasks \in Seq(Positions) /\ pending \in Seq(Positions) /\ kept \in Seq(Positions)
      /\ IsInjective(tasks) /\ IsInjective(pending) /\ IsInjective(kept)
      /\ Range(tasks) \intersect Range(pending) = {}
      /\ Range(tasks) \intersect Range(kept) = {}
      /\ Range(pending) \intersect Range(kept) = {}
  BY DEF TasksInv, Separate, Listing
<1>2. \A S : \A s, t \in Seq(S) :
        /\ s \o t \in Seq(S) /\ Range(s \o t) = Range(s) \union Range(t)
        /\ IsInjective(s) /\ IsInjective(t) /\ Range(s) \intersect Range(t) = {}
             => IsInjective(s \o t)
  BY ConcatRange
<1>3. two \in Seq(Positions) /\ Range(two) = Range(tasks) \union Range(pending) /\ IsInjective(two)
  BY <1>1, <1>2
<1> HIDE DEF two
<1>4. two \o kept = m
  BY DEF two
<1>5. m \in Seq(Positions) /\ Range(m) = Held /\ IsInjective(m)
  <2>1. Range(two) \intersect Range(kept) = {}
    BY <1>1, <1>3
  <2>2. /\ two \o kept \in Seq(Positions) /\ IsInjective(two \o kept)
        /\ Range(two \o kept) = Range(two) \union Range(kept)
    BY <1>1, <1>2, <1>3, <2>1
  <2> QED
    BY <1>3, <1>4, <2>2 DEF Held
<1>6. Cardinality(in) = IF i \in Held THEN 1 ELSE 0
  <2> HIDE DEF m
  <2>1. CASE i \in Held
    <3>1. PICK k \in DOMAIN m : m[k] = i
      BY <1>5, <2>1 DEF Range
    <3>2. in = {k}
      BY <1>5, <3>1 DEF IsInjective
    <3> QED
      BY <2>1, <3>2, FS_Singleton
  <2>2. CASE i \notin Held
    <3>1. in = {}
      BY <1>5, <2>2 DEF Range
    <3> QED
      BY <2>2, <3>1, FS_EmptySet
  <2> QED
    BY <2>1, <2>2
<1>7. Cardinality(done) = IF \E e \in executed : e[1] = i THEN 1 ELSE 0
  <2>1. CASE \E e \in executed : e[1] = i
    <3>1. PICK e \in executed : e[1] = i
      BY <2>1
    <3>2. done = {e}
      BY <3>1 DEF TasksInv, DoneOnce
    <3> QED
      BY <2>1, <3>2, FS_Singleton
  <2>2. CASE ~ \E e \in executed : e[1] = i
    <3>1. done = {}
      BY <2>2
    <3> QED
      BY <2>2, <3>1, FS_EmptySet
  <2> QED
    BY <2>1, <2>2
<1>8. InMessage(i) = Cardinality(in)
  BY DEF InMessage
<1> QED
  BY <1>6, <1>7, <1>8

LEMMA JourneyKept == JourneyInv => JourneySound
<1> SUFFICES ASSUME JourneyInv
             PROVE  JourneySound
  OBVIOUS
<1>1. TasksInv /\ WorkInv /\ ReplyInv /\ CacheInv
  BY DEF JourneyInv, WorkInv
<1>2. TasksAccounted
  <2> SUFFICES ASSUME NEW i \in Positions
               PROVE  LET done == Cardinality({e \in executed : e[1] = i})
                      IN  /\ InMessage(i) + done <= 1
                          /\ InMessage(i) + done = 0 => cm_failed \/ Dropped
    BY DEF TasksAccounted, Positions
  <2> DEFINE done == Cardinality({e \in executed : e[1] = i})
             didIt == \E e \in executed : e[1] = i
  <2>1. InMessage(i) = (IF i \in Held THEN 1 ELSE 0) /\ done = (IF didIt THEN 1 ELSE 0)
    BY <1>1, TaskCounts
  <2>2. ~(i \in Held /\ didIt)
    BY <1>1 DEF TasksInv, DoneOnce
  <2>3. i \in Held \/ didIt \/ cm_failed \/ Dropped
    BY <1>1 DEF TasksInv, Accounted
  <2> HIDE DEF done, didIt
  <2>4. InMessage(i) + done <= 1 /\ (InMessage(i) + done = 0 => cm_failed \/ Dropped)
    BY <2>1, <2>2, <2>3
  <2> QED
    BY <2>4 DEF done
<1>3. SuccessMeansDone
  <2>1. replies = <<"success">> => FirstsDone
    BY <1>1 DEF ReplyInv
  <2>2. \A e \in executed : IsUdf(e[1]) => job.tasks[e[1]].target = Pipeline[e[2]].name
    BY <1>1 DEF WorkInv, DoneRight
  <2> QED
    BY <2>1, <2>2 DEF SuccessMeansDone, FirstsDone
<1>4. RepliedOnce
  BY <1>1 DEF ReplyInv, AnsweredOnce, Silenced, RepliedOnce
<1>5. CacheInOrder
  <2> SUFFICES ASSUME NEW s \in Stops
               PROVE  /\ ToSet(access_order[s]) = ToSet(cached[s])
                      /\ IsInjective(access_order[s]) /\ IsInjective(cached[s])
                      /\ Len(cached[s]) <= CacheSize
    BY DEF CacheInOrder
  <2>1. Agree(STRING, cached[s], access_order[s])
    BY <1>1 DEF CacheInv
  <2>2. \A t : ToSet(t) = Range(t)
    BY DEF ToSet, Range
  <2> QED
    BY <2>1, <2>2 DEF Agree
<1> QED
  BY <1>2, <1>3, <1>4, <1>5 DEF JourneySound, RepliesTellTruth

LEMMA JourneyTypes == JourneyInv => StagesTypeOK
<1> SUFFICES ASSUME JourneyInv
             PROVE  StagesTypeOK
  OBVIOUS
<1>1. TasksInv /\ ReplyInv
  BY DEF JourneyInv, WorkInv
<1>2. {tasks, pending, kept} \subseteq Seq(DOMAIN job.tasks)
  BY <1>1 DEF TasksInv, Separate, Listing, Positions
<1>3. executed \subseteq (DOMAIN job.tasks) \X Stops
  BY <1>1 DEF TasksInv, DoneOnce, Positions
<1>4. replies \in Seq({"success", "failed"})
  BY <1>1 DEF ReplyInv, AnsweredOnce
<1>5. /\ at \in Stops /\ taken \in 0 .. MaxJobs
      /\ phase \in {"idle", "arriving", "run_before", "body", "run_after", "over"}
      /\ {cm_failed, unusable} \subseteq BOOLEAN
  BY <1>1 DEF TasksInv, Controls
<1> QED
  BY <1>2, <1>3, <1>4, <1>5 DEF StagesTypeOK

LEMMA JourneyInvariant == StagesSpec => []JourneyInv
<1>1. StagesInit => JourneyInv
  BY WorkInitially, ReplyInitially, CacheInitially DEF JourneyInv
<1>2. JourneyInv /\ [StagesNext]_stageVars => JourneyInv'
  BY WorkNext, ReplyNext, CacheNext DEF JourneyInv, WorkInv
<1> QED
  BY <1>1, <1>2, PTL DEF StagesSpec

\* The variables of a message's journey keep their types: the tasks in the message are tasks of
\* its job, and so are those that were done (ray_actor_stage_base.py, udf_intercept.py).
THEOREM JourneyTypeOK == StagesSpec => []StagesTypeOK
  BY JourneyInvariant, JourneyTypes, PTL

\* Whatever the tasks of the jobs, the UDFs among them and the sizes of the caches: no task is
\* lost but with a message that failed or was dropped, and none is done twice; a job answered
\* "success" had the first task of every type done where it should be, a valid job is answered
\* once unless one of its UDFs keeps the message from the sink, and the cache of every stage
\* agrees with its order and keeps to its bound (udf_intercept.py:40-340,
\* ingest_control_message.py:17-58, decorators.py:61-160, message_broker_task_sink.py).
THEOREM JourneyIsSound == StagesSpec => []JourneySound
  BY JourneyInvariant, JourneyKept, PTL

-----------------------------------------------------------------------------
(* The components side by side. *)

\* Whichever part moves, each part takes a step of its own or none.
LEMMA PartsSteps ==
  ASSUME [RuntimeNext]_runtimeVars
  PROVE  /\ [NimNext]_nimVars /\ [PidNext]_pidVars
         /\ [CalculateScalingAdjustments]_constraintVars /\ [QosNext]_qosVars
         /\ [StagesNext]_stageVars /\ [PdfNext]_pdfVars /\ [RowsNext]_rowVars
BY DEF RuntimeNext, runtimeVars, payloadVars, BatcherMoves, PidMoves, ConstraintsMove,
       SchedulerMoves, StagesMove, PdfMoves, RowsMove

\* Each part behaves as its own specification says.
LEMMA PartsSpecs ==
  RuntimeSpec => /\ NimSpec /\ PidControl /\ ConstraintsSpec /\ QosSpec /\ StagesSpec
                 /\ Extraction /\ RowsSpec
<1>1. RuntimeInit => /\ NimInit /\ PidInit /\ ConstraintsInit /\ QosInit /\ StagesInit
                     /\ PdfInit /\ RowsInit
  BY DEF RuntimeInit
<1>2. [RuntimeNext]_runtimeVars =>
        /\ [NimNext]_nimVars /\ [PidNext]_pidVars
        /\ [CalculateScalingAdjustments]_constraintVars /\ [QosNext]_qosVars
        /\ [StagesNext]_stageVars /\ [PdfNext]_pdfVars /\ [RowsNext]_rowVars
  BY PartsSteps
<1> QED
  BY <1>1, <1>2, PTL
     DEF RuntimeSpec, NimSpec, PidControl, ConstraintsSpec, QosSpec, StagesSpec, Extraction,
         RowsSpec

\* Run side by side as in RuntimeSpec (ray_pipeline.py starts them as actors of their own), the
\* components keep the types of their variables, whichever of them moves.
THEOREM PartsTypes == RuntimeSpec => []PartsTypeOK
<1>1. NimTypeOK /\ PidTypeOK /\ ConstraintsTypeOK /\ QosTypeOK /\ StagesTypeOK /\ PdfTypeOK
        /\ RowsTypeOK => PartsTypeOK
  BY DEF PartsTypeOK
<1> QED
  BY <1>1, PartsSpecs, NimTypes, StageWithinBounds, DecisionTypeOK, SchedulerTypeOK,
     JourneyTypeOK, ExtractionTypes, RowTypes, PTL

\* Every safety property that the run of these components checks, for every value of their
\* constants: answers in order and in bounded calls, decisions within the limits, no waiting
\* job overlooked, a sound journey, a sound extraction, every answer at its row, no row lost.
THEOREM PartsSound ==
  RuntimeSpec => [](/\ AnsweredInOrder /\ CallsBounded /\ DecisionsSound /\ WaitingIsServed
                    /\ JourneySound /\ ExtractionSound /\ OwnValues /\ RowsKept)
BY PartsSpecs, AnswersInOrder, CallsAreBounded, DecisionsAreSound, WaitingServed,
   JourneyIsSound, ExtractedOnce, AnswersToTheirRows, RowsAccountedFor, PTL
===============================================================================
