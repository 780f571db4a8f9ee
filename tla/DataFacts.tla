------------------------------- MODULE DataFacts -------------------------------
(***************************************************************************)
(* Facts about the data the models are built from, for the proofs: least   *)
(* elements of sets of natural numbers, sequences without repetition, and  *)
(* the subsequences and sums of module Selections.                         *)
(***************************************************************************)
EXTENDS Selections, SequencesExt, FiniteSetTheorems, SequenceTheorems, WellFoundedInduction, TLAPS

\* Every nonempty set of natural numbers has a least element: the initial segments 1..n
\* are finite sets, and strict inclusion of finite sets is well founded.
THEOREM LeastNatural ==
  ASSUME NEW S \in SUBSET Nat, S # {}
  PROVE  \E x \in S : \A y \in S : x <= y
<1> DEFINE T == {1..n : n \in S}
<1>1. T \subseteq FiniteSubsetsOf(Nat) /\ T # {}
  <2>1. \A n \in S : 1..n \subseteq Nat /\ IsFiniteSet(1..n)
    BY FS_Interval
  <2> QED
    BY <2>1 DEF FiniteSubsetsOf
<1>2. PICK X \in T : \A Y \in T : ~ (<<Y, X>> \in StrictSubsetOrdering(Nat))
  <2>1. IsWellFoundedOn(StrictSubsetOrdering(Nat), FiniteSubsetsOf(Nat))
    BY FS_StrictSubsetOrderingWellFounded
  <2> HIDE DEF T
  <2> QED
    BY <1>1, <2>1, WFMin
<1>3. PICK x \in S : X = 1..x
  BY <1>2
<1>4. ASSUME NEW y \in S, ~(x <= y)
      PROVE  FALSE
  <2>1. 1..y \subseteq 1..x /\ x \in 1..x /\ x \notin 1..y
    BY <1>4
  <2>2. <<1..y, 1..x>> \in StrictSubsetOrdering(Nat)
    BY <2>1 DEF StrictSubsetOrdering
  <2> QED
    BY <1>2, <1>3, <2>2
<1> QED
  BY <1>4

-----------------------------------------------------------------------------
(* Subsequences. *)

\* The ranks of the members of a finite set of numbers lie between 1 and its size, and grow
\* with the members.
LEMMA RankFacts ==
  ASSUME NEW I \in SUBSET Int, IsFiniteSet(I)
  PROVE  /\ \A i \in I : Rank(I, i) \in 1 .. Cardinality(I)
         /\ \A i, j \in I : i < j => Rank(I, i) < Rank(I, j)
<1>1. \A i \in I : /\ IsFiniteSet({k \in I : k <= i})
                   /\ Rank(I, i) \in Nat /\ Rank(I, i) <= Cardinality(I)
  <2> TAKE i \in I
  <2>1. {k \in I : k <= i} \in SUBSET I
    OBVIOUS
  <2> QED
    BY <2>1, FS_Subset, FS_CardinalityType DEF Rank
<1>2. \A i \in I : Rank(I, i) # 0
  <2> TAKE i \in I
  <2>1. i \in {k \in I : k <= i}
    OBVIOUS
  <2> QED
    BY <1>1, <2>1, FS_EmptySet DEF Rank
<1>3. \A i, j \in I : i < j => Rank(I, i) < Rank(I, j)
  <2> SUFFICES ASSUME NEW i \in I, NEW j \in I, i < j
               PROVE  Rank(I, i) < Rank(I, j)
    OBVIOUS
  <2>1. i \in Int /\ j \in Int /\ \A k \in I : k \in Int
    OBVIOUS
  <2>2. \A k \in I : k <= i => k <= j
    BY <2>1
  <2>3. j \in {k \in I : k <= j} /\ j \notin {k \in I : k <= i}
    BY <2>1
  <2>4. /\ {k \in I : k <= i} \in SUBSET {k \in I : k <= j}
        /\ {k \in I : k <= i} # {k \in I : k <= j}
    BY <2>2, <2>3
  <2>5. IsFiniteSet({k \in I : k <= j})
    BY <1>1
  <2>6. Rank(I, i) <= Rank(I, j) /\ Rank(I, i) # Rank(I, j)
    BY <2>4, <2>5, FS_Subset DEF Rank
  <2>7. Rank(I, i) \in Nat /\ Rank(I, j) \in Nat
    BY <1>1
  <2> QED
    BY <2>6, <2>7
<1>4. Cardinality(I) \in Nat
  BY FS_CardinalityType
<1>5. ASSUME NEW i \in I
      PROVE  Rank(I, i) \in 1 .. Cardinality(I)
  <2>1. Rank(I, i) \in Nat /\ Rank(I, i) <= Cardinality(I) /\ Rank(I, i) # 0
    BY <1>1, <1>2
  <2> QED
    BY <1>4, <2>1
<1> QED
  BY <1>3, <1>5

\* Ascending lists every member once, in ascending order.
LEMMA AscendingFacts ==
  ASSUME NEW I \in SUBSET Int, IsFiniteSet(I)
  PROVE  /\ Cardinality(I) \in Nat
         /\ Ascending(I) \in [1 .. Cardinality(I) -> I]
         /\ \A m, n \in 1 .. Cardinality(I) : m < n => Ascending(I)[m] < Ascending(I)[n]
         /\ \A i \in I : \E n \in 1 .. Cardinality(I) : Ascending(I)[n] = i
<1> DEFINE c == Cardinality(I)
           rank == [i \in I |-> Rank(I, i)]
<1>1. c \in Nat
  BY FS_CardinalityType
<1>2. rank \in Surjection(I, 1 .. c)
  <2>1. rank \in Injection(I, 1 .. c)
    <3>1. rank \in [I -> 1 .. c]
      BY RankFacts
    <3>2. \A i, j \in I : rank[i] = rank[j] => i = j
      BY RankFacts
    <3> QED
      BY <3>1, <3>2 DEF Injection, IsInjective
  <2>2. IsFiniteSet(1 .. c) /\ Cardinality(1 .. c) = c
    BY <1>1, FS_Interval
  <2> QED
    BY <2>1, <2>2, FS_Injection
<1>3. \A n \in 1 .. c : \E i \in I : Rank(I, i) = n
  BY <1>2 DEF Surjection
<1>4. \A n \in 1 .. c : Ascending(I)[n] \in I /\ Rank(I, Ascending(I)[n]) = n
  BY <1>3 DEF Ascending
<1>5. \A m, n \in 1 .. c : m < n => Ascending(I)[m] < Ascending(I)[n]
  <2> SUFFICES ASSUME NEW m \in 1 .. c, NEW n \in 1 .. c, m < n,
                      ~(Ascending(I)[m] < Ascending(I)[n])
               PROVE  FALSE
    OBVIOUS
  <2>1. Rank(I, Ascending(I)[n]) = n /\ Rank(I, Ascending(I)[m]) = m
    BY <1>4
  <2>2. Ascending(I)[n] \in Int /\ Ascending(I)[m] \in Int
    BY <1>4
  <2>3. CASE Ascending(I)[n] = Ascending(I)[m]
    BY <2>1, <2>3
  <2>4. CASE Ascending(I)[n] < Ascending(I)[m]
    <3>1. Rank(I, Ascending(I)[n]) < Rank(I, Ascending(I)[m])
      BY <1>4, <2>4, RankFacts
    <3> QED
      BY <2>1, <3>1
  <2> QED
    BY <2>2, <2>3, <2>4
<1>6. \A i \in I : \E n \in 1 .. c : Ascending(I)[n] = i
  <2> TAKE i \in I
  <2>1. Rank(I, i) \in 1 .. c
    BY RankFacts
  <2> WITNESS Rank(I, i) \in 1 .. c
  <2> DEFINE j == Ascending(I)[Rank(I, i)]
  <2>2. j \in I /\ Rank(I, j) = Rank(I, i)
    BY <1>4, <2>1
  <2>3. \A k, l \in I : k < l => Rank(I, k) < Rank(I, l)
    BY RankFacts
  <2> HIDE DEF j
  <2>4. i \in Int /\ j \in Int /\ Rank(I, i) \in Int
    BY <2>1, <2>2
  <2>5. CASE j < i
    <3>1. Rank(I, j) < Rank(I, i)
      BY <2>2, <2>3, <2>5
    <3> QED
      BY <2>2, <2>4, <3>1
  <2>6. CASE i < j
    <3>1. Rank(I, i) < Rank(I, j)
      BY <2>2, <2>3, <2>6
    <3> QED
      BY <2>2, <2>4, <3>1
  <2> QED
    BY <2>4, <2>5, <2>6 DEF j
<1>7. Ascending(I) \in [1 .. c -> I]
  BY <1>4 DEF Ascending
<1> QED
  BY <1>1, <1>5, <1>6, <1>7

\* What SelectAt returns: a sequence of the elements at the selected positions, and at which
\* position each of them was.
LEMMA SelectAtFacts ==
  ASSUME NEW S, NEW s \in Seq(S), NEW I \in SUBSET (1 .. Len(s))
  PROVE  /\ IsFiniteSet(I) /\ Cardinality(I) \in Nat
         /\ SelectAt(s, I) \in Seq(S) /\ Len(SelectAt(s, I)) = Cardinality(I)
         /\ \A n \in 1 .. Cardinality(I) :
              Ascending(I)[n] \in I /\ SelectAt(s, I)[n] = s[Ascending(I)[n]]
         /\ \A m, n \in 1 .. Cardinality(I) : m < n => Ascending(I)[m] < Ascending(I)[n]
         /\ \A i \in I : \E n \in 1 .. Cardinality(I) : Ascending(I)[n] = i
<1>1. Len(s) \in Nat /\ \A i \in 1 .. Len(s) : s[i] \in S
  BY LenProperties, ElementOfSeq
<1>2. IsFiniteSet(I)
  <2>1. IsFiniteSet(1 .. Len(s))
    BY <1>1, FS_Interval
  <2> QED
    BY <2>1, FS_Subset
<1>3. I \in SUBSET Int
  OBVIOUS
<1>4. /\ Cardinality(I) \in Nat
      /\ Ascending(I) \in [1 .. Cardinality(I) -> I]
      /\ \A m, n \in 1 .. Cardinality(I) : m < n => Ascending(I)[m] < Ascending(I)[n]
      /\ \A i \in I : \E n \in 1 .. Cardinality(I) : Ascending(I)[n] = i
  BY <1>2, <1>3, AscendingFacts
<1>5. \A n \in 1 .. Cardinality(I) : Ascending(I)[n] \in I /\ s[Ascending(I)[n]] \in S
  BY <1>1, <1>4
<1>6. SelectAt(s, I) \in [1 .. Cardinality(I) -> S]
  BY <1>5 DEF SelectAt
<1>7. SelectAt(s, I) \in Seq(S) /\ Len(SelectAt(s, I)) = Cardinality(I)
  BY <1>4, <1>6
<1>8. \A n \in 1 .. Cardinality(I) : SelectAt(s, I)[n] = s[Ascending(I)[n]]
  BY DEF SelectAt
<1> QED
  BY <1>2, <1>4, <1>5, <1>7, <1>8

-----------------------------------------------------------------------------
(* Sequences without repetition. *)

\* The range of a sequence.
LEMMA RangeIs ==
  ASSUME NEW S, NEW s \in Seq(S)
  PROVE  /\ Range(s) \in SUBSET S
         /\ \A i \in 1 .. Len(s) : s[i] \in Range(s)
         /\ \A x \in Range(s) : \E i \in 1 .. Len(s) : s[i] = x
         /\ DOMAIN s = 1 .. Len(s) /\ Len(s) \in Nat
         /\ \A i \in 1 .. Len(s) : s[i] \in S
  BY DEF Range

LEMMA Injective ==
  ASSUME NEW S, NEW s \in Seq(S)
  PROVE  IsInjective(s) <=> \A i, j \in 1 .. Len(s) : s[i] = s[j] => i = j
  BY DEF IsInjective

\* A sequence without repetition is as long as its range is large.
LEMMA InjectiveLength ==
  ASSUME NEW S, NEW s \in Seq(S), IsInjective(s)
  PROVE  IsFiniteSet(Range(s)) /\ Cardinality(Range(s)) = Len(s)
<1>1. DOMAIN s = 1 .. Len(s) /\ Len(s) \in Nat
  OBVIOUS
<1>2. s \in Bijection(1 .. Len(s), Range(s))
  BY <1>1 DEF Bijection, Injection, Surjection, IsInjective, Range
<1>3. ExistsBijection(1 .. Len(s), Range(s))
  BY <1>2 DEF ExistsBijection
<1>4. IsFiniteSet(1 .. Len(s)) /\ Cardinality(1 .. Len(s)) = Len(s)
  BY <1>1, FS_Interval
<1> QED
  BY <1>3, <1>4, FS_Bijection

LEMMA SelectRange ==
  ASSUME NEW S, NEW s \in Seq(S), NEW I \in SUBSET (1 .. Len(s))
  PROVE  /\ Range(SelectAt(s, I)) = {s[i] : i \in I}
         /\ IsInjective(s) => IsInjective(SelectAt(s, I))
<1> DEFINE t == SelectAt(s, I)
           c == Cardinality(I)
<1>1. /\ c \in Nat /\ t \in Seq(S) /\ Len(t) = c
      /\ \A n \in 1 .. c : Ascending(I)[n] \in I /\ t[n] = s[Ascending(I)[n]]
      /\ \A m, n \in 1 .. c : m < n => Ascending(I)[m] < Ascending(I)[n]
      /\ \A i \in I : \E n \in 1 .. c : Ascending(I)[n] = i
  BY SelectAtFacts
<1> HIDE DEF t, c
<1>2. DOMAIN t = 1 .. c
  BY <1>1
<1>3. Range(t) = {s[i] : i \in I}
  <2>1. Range(t) = {t[n] : n \in 1 .. c}
    BY <1>2 DEF Range
  <2>2. \A n \in 1 .. c : t[n] \in {s[i] : i \in I}
    BY <1>1
  <2>3. \A i \in I : s[i] \in {t[n] : n \in 1 .. c}
    <3> TAKE i \in I
    <3>1. PICK n \in 1 .. c : Ascending(I)[n] = i
      BY <1>1
    <3>2. s[i] = t[n]
      BY <1>1, <3>1
    <3> QED
      BY <3>2
  <2> QED
    BY <2>1, <2>2, <2>3
<1>4. ASSUME IsInjective(s), NEW m \in 1 .. c, NEW n \in 1 .. c, t[m] = t[n], m # n
      PROVE  FALSE
  <2>1. Ascending(I)[m] \in 1 .. Len(s) /\ Ascending(I)[n] \in 1 .. Len(s)
    BY <1>1
  <2>2. Ascending(I)[m] = Ascending(I)[n]
    BY <1>1, <1>4, <2>1 DEF IsInjective
  <2>3. m < n \/ n < m
    BY <1>1, <1>4
  <2>4. Ascending(I)[m] < Ascending(I)[n] \/ Ascending(I)[n] < Ascending(I)[m]
    BY <1>1, <2>3
  <2> QED
    BY <2>1, <2>2, <2>4
<1>5. IsInjective(s) => IsInjective(t)
  BY <1>2, <1>4 DEF IsInjective
<1> QED
  BY <1>3, <1>5 DEF t

LEMMA ConcatRange ==
  ASSUME NEW S, NEW s \in Seq(S), NEW t \in Seq(S)
  PROVE  /\ s \o t \in Seq(S) /\ Range(s \o t) = Range(s) \union Range(t)
         /\ IsInjective(s) /\ IsInjective(t) /\ Range(s) \intersect Range(t) = {}
              => IsInjective(s \o t)
<1>1. /\ s \o t \in Seq(S) /\ Len(s \o t) = Len(s) + Len(t)
      /\ Range(s \o t) = Range(s) \union Range(t)
      /\ \A i \in 1 .. Len(s) + Len(t) :
           (s \o t)[i] = IF i <= Len(s) THEN s[i] ELSE t[i - Len(s)]
  BY ConcatProperties, RangeConcatenation
<1>2. Len(s) \in Nat /\ Len(t) \in Nat
  OBVIOUS
<1>3. ASSUME IsInjective(s), IsInjective(t), Range(s) \intersect Range(t) = {},
             NEW i \in 1 .. Len(s) + Len(t), NEW j \in 1 .. Len(s) + Len(t),
             (s \o t)[i] = (s \o t)[j]
      PROVE  i = j
  <2>1. \A k \in 1 .. Len(s) : s[k] \in Range(s)
    BY RangeIs
  <2>2. \A k \in 1 .. Len(t) : t[k] \in Range(t)
    BY RangeIs
  <2>3. CASE i <= Len(s) /\ j <= Len(s)
    BY <1>1, <1>2, <1>3, <2>3, Injective
  <2>4. CASE ~(i <= Len(s)) /\ ~(j <= Len(s))
    <3>1. i - Len(s) \in 1 .. Len(t) /\ j - Len(s) \in 1 .. Len(t)
      BY <1>2, <2>4
    <3>2. t[i - Len(s)] = t[j - Len(s)]
      BY <1>1, <1>3, <2>4
    <3>3. i - Len(s) = j - Len(s)
      BY <1>3, <3>1, <3>2, Injective
    <3> QED
      BY <1>2, <3>3
  <2>5. CASE i <= Len(s) /\ ~(j <= Len(s))
    <3>1. i \in 1 .. Len(s) /\ j - Len(s) \in 1 .. Len(t) /\ s[i] = t[j - Len(s)]
      BY <1>1, <1>2, <1>3, <2>5
    <3> QED
      BY <1>3, <2>1, <2>2, <3>1
  <2>6. CASE ~(i <= Len(s)) /\ j <= Len(s)
    <3>1. j \in 1 .. Len(s) /\ i - Len(s) \in 1 .. Len(t) /\ s[j] = t[i - Len(s)]
      BY <1>1, <1>2, <1>3, <2>6
    <3> QED
      BY <1>3, <2>1, <2>2, <3>1
  <2> QED
    BY <2>3, <2>4, <2>5, <2>6
<1>4. DOMAIN (s \o t) = 1 .. Len(s) + Len(t)
  BY <1>1, RangeIs
<1> QED
  BY <1>1, <1>3, <1>4 DEF IsInjective

LEMMA AppendRange ==
  ASSUME NEW S, NEW s \in Seq(S), NEW e \in S
  PROVE  /\ Append(s, e) \in Seq(S) /\ Range(Append(s, e)) = Range(s) \union {e}
         /\ Len(Append(s, e)) = Len(s) + 1
         /\ IsInjective(s) /\ e \notin Range(s) => IsInjective(Append(s, e))
<1>1. Append(s, e) = s \o <<e>> /\ Append(s, e) \in Seq(S) /\ Len(Append(s, e)) = Len(s) + 1
  BY AppendIsConcat, AppendProperties
<1> DEFINE t == <<e>>
<1>2. t \in Seq(S) /\ Range(t) = {e} /\ IsInjective(t)
  BY DEF Range, IsInjective
<1> HIDE DEF t
<1>3. /\ Range(s \o t) = Range(s) \union Range(t)
      /\ IsInjective(s) /\ Range(s) \intersect Range(t) = {} => IsInjective(s \o t)
  BY <1>2, ConcatRange
<1>4. Append(s, e) = s \o t
  BY <1>1 DEF t
<1> QED
  BY <1>1, <1>2, <1>3, <1>4

\* What is left of a sequence between two positions.
LEMMA SubSeqRange ==
  ASSUME NEW S, NEW s \in Seq(S), NEW m \in Nat \ {0}, NEW n \in 0 .. Len(s)
  PROVE  /\ SubSeq(s, m, n) \in Seq(S)
         /\ Len(SubSeq(s, m, n)) = IF m <= n THEN n - m + 1 ELSE 0
         /\ \A i \in 1 .. Len(SubSeq(s, m, n)) :
              m + i - 1 \in 1 .. Len(s) /\ SubSeq(s, m, n)[i] = s[m + i - 1]
         /\ Range(SubSeq(s, m, n)) = {s[k] : k \in m .. n}
         /\ IsInjective(s) => IsInjective(SubSeq(s, m, n))
<1>1. Len(s) \in Nat /\ \A i \in m .. n : i \in 1 .. Len(s) /\ s[i] \in S
  BY RangeIs
<1>2. /\ SubSeq(s, m, n) \in Seq(S)
      /\ Len(SubSeq(s, m, n)) = IF m <= n THEN n - m + 1 ELSE 0
      /\ \A i \in 1 .. n - m + 1 : SubSeq(s, m, n)[i] = s[m + i - 1]
  BY <1>1, SubSeqProperties
<1>3. DOMAIN SubSeq(s, m, n) = 1 .. n - m + 1
  <2>1. DOMAIN SubSeq(s, m, n) = 1 .. Len(SubSeq(s, m, n))
    BY <1>2, RangeIs
  <2> QED
    BY <1>1, <1>2, <2>1
<1>4. Range(SubSeq(s, m, n)) = {s[k] : k \in m .. n}
  <2>1. \A i \in 1 .. n - m + 1 : SubSeq(s, m, n)[i] \in {s[k] : k \in m .. n}
    <3> TAKE i \in 1 .. n - m + 1
    <3>1. m + i - 1 \in m .. n
      BY <1>1
    <3> QED
      BY <1>2, <3>1
  <2>2. \A k \in m .. n : k - m + 1 \in 1 .. n - m + 1 /\ m + (k - m + 1) - 1 = k
    BY <1>1
  <2>3. \A k \in m .. n : SubSeq(s, m, n)[k - m + 1] = s[k]
    BY <1>2, <2>2
  <2>4. Range(SubSeq(s, m, n)) = {SubSeq(s, m, n)[i] : i \in 1 .. n - m + 1}
    BY <1>3 DEF Range
  <2>5. \A k \in m .. n : s[k] \in {SubSeq(s, m, n)[i] : i \in 1 .. n - m + 1}
    <3> TAKE k \in m .. n
    <3>1. k - m + 1 \in 1 .. n - m + 1 /\ SubSeq(s, m, n)[k - m + 1] = s[k]
      BY <2>2, <2>3
    <3> QED
      BY <3>1
  <2> QED
    BY <2>1, <2>4, <2>5
<1>5. ASSUME IsInjective(s), NEW i \in 1 .. n - m + 1, NEW j \in 1 .. n - m + 1,
             SubSeq(s, m, n)[i] = SubSeq(s, m, n)[j]
      PROVE  i = j
  <2>1. s[m + i - 1] = s[m + j - 1]
    BY <1>2, <1>5
  <2>2. m + i - 1 \in m .. n /\ m + j - 1 \in m .. n
    BY <1>1
  <2>3. m + i - 1 = m + j - 1
    BY <1>1, <1>5, <2>1, <2>2, Injective
  <2> QED
    BY <2>3
<1>6. \A i \in 1 .. Len(SubSeq(s, m, n)) :
        m + i - 1 \in 1 .. Len(s) /\ SubSeq(s, m, n)[i] = s[m + i - 1]
  BY <1>1, <1>2
<1> QED
  BY <1>2, <1>3, <1>4, <1>5, <1>6 DEF IsInjective

\* What is left of a sequence without its k-th element.
LEMMA RemoveFacts ==
  ASSUME NEW S, NEW s \in Seq(S), IsInjective(s), NEW k \in 1 .. Len(s)
  PROVE  LET r == SubSeq(s, 1, k - 1) \o SubSeq(s, k + 1, Len(s))
         IN  /\ r \in Seq(S) /\ IsInjective(r) /\ DOMAIN r = 1 .. Len(s) - 1
             /\ Range(r) = Range(s) \ {s[k]}
             /\ \A i \in 1 .. Len(s) - 1 :
                  LET from == IF i < k THEN i ELSE i + 1
                  IN  from \in 1 .. Len(s) /\ r[i] = s[from]
<1> DEFINE a == SubSeq(s, 1, k - 1)
           b == SubSeq(s, k + 1, Len(s))
           n == Len(s)
           from(i) == IF i < k THEN i ELSE i + 1
<1>1. DOMAIN s = 1 .. n /\ n \in Nat /\ k \in 1 .. n
  OBVIOUS
<1>2. /\ a \in Seq(S) /\ IsInjective(a) /\ Len(a) = k - 1
      /\ Range(a) = {s[i] : i \in 1 .. k - 1}
      /\ \A i \in 1 .. Len(a) : a[i] = s[i]
  <2>1. 1 \in Nat \ {0} /\ k - 1 \in 0 .. n
    BY <1>1
  <2>2. /\ a \in Seq(S) /\ IsInjective(a)
        /\ Len(a) = IF 1 <= k - 1 THEN k - 1 - 1 + 1 ELSE 0
        /\ Range(a) = {s[i] : i \in 1 .. k - 1}
        /\ \A i \in 1 .. Len(a) : a[i] = s[1 + i - 1]
    BY <1>1, <2>1, SubSeqRange
  <2> HIDE DEF a
  <2>3. Len(a) = k - 1
    BY <1>1, <2>2
  <2>4. \A i \in 1 .. Len(a) : 1 + i - 1 = i
    BY <1>1, <2>3
  <2> QED
    BY <2>2, <2>3, <2>4
<1>3. /\ b \in Seq(S) /\ IsInjective(b) /\ Len(b) = n - k
      /\ Range(b) = {s[i] : i \in k + 1 .. n}
      /\ \A i \in 1 .. Len(b) : b[i] = s[k + i]
  <2>1. k + 1 \in Nat \ {0} /\ n \in 0 .. n
    BY <1>1
  <2>2. /\ b \in Seq(S) /\ IsInjective(b)
        /\ Len(b) = IF k + 1 <= n THEN n - (k + 1) + 1 ELSE 0
        /\ Range(b) = {s[i] : i \in k + 1 .. n}
        /\ \A i \in 1 .. Len(b) : b[i] = s[k + 1 + i - 1]
    BY <1>1, <2>1, SubSeqRange
  <2> HIDE DEF b
  <2>3. Len(b) = n - k
    <3>1. Len(b) = IF k + 1 <= n THEN n - (k + 1) + 1 ELSE 0
      BY <2>2
    <3> HIDE DEF n
    <3> QED
      BY <1>1, <3>1
  <2>4. \A i \in 1 .. Len(b) : k + 1 + i - 1 = k + i
    BY <1>1, <2>3
  <2> QED
    BY <2>2, <2>3, <2>4
<1> HIDE DEF a, b
<1>5. \A i, j \in 1 .. n : s[i] = s[j] => i = j
  BY <1>1, Injective
<1>6. Range(a) \intersect Range(b) = {}
  <2>1. \A i \in 1 .. k - 1, j \in k + 1 .. n : i \in 1 .. n /\ j \in 1 .. n /\ i # j
    BY <1>1
  <2>2. \A i \in 1 .. k - 1, j \in k + 1 .. n : s[i] # s[j]
    BY <1>5, <2>1
  <2> QED
    BY <1>2, <1>3, <2>2
<1>7. /\ a \o b \in Seq(S) /\ IsInjective(a \o b)
      /\ Range(a \o b) = Range(a) \union Range(b)
  <2>1. a \in Seq(S) /\ b \in Seq(S) /\ IsInjective(a) /\ IsInjective(b)
    BY <1>2, <1>3
  <2> QED
    BY <1>6, <2>1, ConcatRange
<1>8. Range(a) \union Range(b) = Range(s) \ {s[k]}
  <2>1. Range(s) = {s[i] : i \in 1 .. n}
    BY <1>1 DEF Range
  <2>2. \A i \in 1 .. n : i \in 1 .. k - 1 \/ i = k \/ i \in k + 1 .. n
    BY <1>1
  <2>3. \A i \in 1 .. n : i # k => s[i] # s[k]
    BY <1>1, <1>5
  <2>4. \A i \in 1 .. k - 1 : i \in 1 .. n /\ i # k
    BY <1>1
  <2>5. \A i \in k + 1 .. n : i \in 1 .. n /\ i # k
    BY <1>1
  <2>6. Range(a) \union Range(b) \subseteq Range(s) \ {s[k]}
    BY <1>2, <1>3, <2>1, <2>3, <2>4, <2>5
  <2>7. Range(s) \ {s[k]} \subseteq Range(a) \union Range(b)
    BY <1>2, <1>3, <2>1, <2>2
  <2> QED
    BY <2>6, <2>7
<1>9. /\ DOMAIN (a \o b) = 1 .. n - 1
      /\ \A i \in 1 .. n - 1 : from(i) \in 1 .. n /\ (a \o b)[i] = s[from(i)]
  <2>1. \A i \in 1 .. (k - 1) + (n - k) :
          (a \o b)[i] = IF i <= k - 1 THEN a[i] ELSE b[i - (k - 1)]
    BY <1>2, <1>3, ConcatProperties
  <2>2. Len(a \o b) = (k - 1) + (n - k)
    <3>1. Len(a \o b) = Len(a) + Len(b)
      BY <1>2, <1>3, ConcatProperties
    <3> QED
      BY <1>2, <1>3, <3>1
  <2>3. (k - 1) + (n - k) = n - 1
    BY <1>1
  <2>4. DOMAIN (a \o b) = 1 .. n - 1
    BY <1>7, <2>2, <2>3, RangeIs
  <2>5. ASSUME NEW i \in 1 .. n - 1
        PROVE  from(i) \in 1 .. n /\ (a \o b)[i] = s[from(i)]
    <3>1. CASE i < k
      <4>1. i \in 1 .. k - 1 /\ i <= k - 1 /\ i \in 1 .. n
        BY <1>1, <3>1
      <4> QED
        BY <1>2, <2>1, <2>3, <3>1, <4>1
    <3>2. CASE ~(i < k)
      <4>1. ~(i <= k - 1) /\ i - (k - 1) \in 1 .. n - k /\ k + (i - (k - 1)) = i + 1
            /\ i + 1 \in 1 .. n
        BY <1>1, <3>2
      <4> QED
        BY <1>3, <2>1, <2>3, <3>2, <4>1
    <3> QED
      BY <3>1, <3>2
  <2> QED
    BY <2>4, <2>5
<1> QED
  BY <1>7, <1>8, <1>9 DEF a, b

-----------------------------------------------------------------------------
(* Finite sets and sums. *)

\* Induction over the subsets of a finite set: Good holds those for which the claim holds.
LEMMA SubsetInduction ==
  ASSUME NEW S, IsFiniteSet(S), NEW Good,
         \A T \in SUBSET S : (\A x \in T : T \ {x} \in Good) => T \in Good
  PROVE  \A T \in SUBSET S : T \in Good
<1> SUFFICES ASSUME NEW T0 \in SUBSET S, T0 \notin Good
             PROVE  FALSE
  OBVIOUS
<1> DEFINE Sizes == {n \in Nat : \E T \in SUBSET S : T \notin Good /\ Cardinality(T) = n}
<1>1. \A T \in SUBSET S : IsFiniteSet(T) /\ Cardinality(T) \in Nat
  BY FS_Subset, FS_CardinalityType
<1>2. Sizes \in SUBSET Nat /\ Sizes # {}
  BY <1>1
<1>3. PICK n \in Sizes : \A m \in Sizes : n <= m
  <2> HIDE DEF Sizes
  <2> QED
    BY <1>2, LeastNatural
<1>4. PICK T \in SUBSET S : T \notin Good /\ n = Cardinality(T)
  BY <1>3
<1>5. ASSUME NEW x \in T
      PROVE  T \ {x} \in Good
  <2>1. Cardinality(T \ {x}) = n - 1 /\ n \in Nat
    BY <1>1, <1>4, FS_RemoveElement
  <2>2. T \ {x} \in SUBSET S
    OBVIOUS
  <2>3. T \ {x} \notin Good => Cardinality(T \ {x}) \in Sizes
    BY <1>1, <2>2
  <2> HIDE DEF Sizes
  <2> QED
    BY <1>3, <2>1, <2>3
<1> QED
  BY <1>4, <1>5

\* The units that a function adds up to on a set.
Units(f, T) == {u \in T \X Nat : u[2] \in 1 .. f[u[1]]}

LEMMA UnitsAdd ==
  ASSUME NEW f, NEW T, NEW x \in T, f[x] \in Nat, IsFiniteSet(Units(f, T \ {x}))
  PROVE  /\ IsFiniteSet(Units(f, T))
         /\ Cardinality(Units(f, T)) = f[x] + Cardinality(Units(f, T \ {x}))
<1> DEFINE own == {x} \X (1 .. f[x])
           rest == Units(f, T \ {x})
<1>1. IsFiniteSet(own) /\ Cardinality(own) = f[x]
  <2>1. IsFiniteSet({x}) /\ Cardinality({x}) = 1
    BY FS_Singleton
  <2>2. IsFiniteSet(1 .. f[x]) /\ Cardinality(1 .. f[x]) = f[x]
    BY FS_Interval
  <2>3. IsFiniteSet(own) /\ Cardinality(own) = Cardinality({x}) * Cardinality(1 .. f[x])
    BY <2>1, <2>2, FS_Product
  <2>4. 1 * f[x] = f[x]
    OBVIOUS
  <2> QED
    BY <2>1, <2>2, <2>3, <2>4
<1>2. Units(f, T) = own \union rest /\ own \intersect rest = {}
  BY DEF Units
<1> HIDE DEF own, rest
<1>3. Cardinality(own \intersect rest) = 0
  BY <1>2, FS_EmptySet
<1>4. IsFiniteSet(rest)
  BY DEF rest
<1>5. /\ IsFiniteSet(own \union rest)
      /\ Cardinality(own \union rest) = Cardinality(own) + Cardinality(rest) - 0
  BY <1>1, <1>3, <1>4, FS_Union
<1>6. Cardinality(rest) \in Nat
  BY <1>4, FS_CardinalityType
<1> QED
  BY <1>1, <1>2, <1>5, <1>6 DEF rest

LEMMA UnitsFinite ==
  ASSUME NEW f, NEW S, IsFiniteSet(S), \A x \in S : f[x] \in Nat
  PROVE  \A T \in SUBSET S : IsFiniteSet(Units(f, T)) /\ Cardinality(Units(f, T)) \in Nat
<1> DEFINE Good == {T \in SUBSET S : IsFiniteSet(Units(f, T))}
<1>1. ASSUME NEW T \in SUBSET S, \A x \in T : T \ {x} \in Good
      PROVE  T \in Good
  <2>1. CASE T = {}
    <3>1. Units(f, T) = {}
      BY <2>1 DEF Units
    <3> QED
      BY <3>1, FS_EmptySet
  <2>2. CASE T # {}
    <3>1. PICK x \in T : TRUE
      BY <2>2
    <3> QED
      BY <1>1, <3>1, UnitsAdd
  <2> QED
    BY <2>1, <2>2
<1> HIDE DEF Good
<1>2. \A T \in SUBSET S : T \in Good
  BY <1>1, SubsetInduction
<1> QED
  BY <1>2, FS_CardinalityType DEF Good

\* The sum is the number of units.
LEMMA SumIsUnits ==
  ASSUME NEW f, NEW S, IsFiniteSet(S), \A x \in S : f[x] \in Nat
  PROVE  SumOver(f, S) = Cardinality(Units(f, S))
<1> DEFINE pick(T) == CHOOSE x \in T : TRUE
           Step(g) == [T \in SUBSET S |->
                         IF T = {} THEN 0 ELSE f[pick(T)] + g[T \ {pick(T)}]]
           iter == CHOOSE g : g = Step(g)
           units == [T \in SUBSET S |-> Cardinality(Units(f, T))]
<1>1. SumOver(f, S) = iter[S]
  BY DEF SumOver, MapThenSumSet, MapThenFoldSet
<1>2. ASSUME NEW T \in SUBSET S, T # {}
      PROVE  /\ pick(T) \in T /\ T \ {pick(T)} \in SUBSET S
             /\ Cardinality(Units(f, T)) =
                  f[pick(T)] + Cardinality(Units(f, T \ {pick(T)}))
  <2>1. pick(T) \in T
    BY <1>2
  <2>2. T \ {pick(T)} \in SUBSET S
    OBVIOUS
  <2>3. IsFiniteSet(Units(f, T \ {pick(T)}))
    BY <2>2, UnitsFinite
  <2>4. f[pick(T)] \in Nat
    BY <2>1
  <2>5. \A x \in T : f[x] \in Nat /\ IsFiniteSet(Units(f, T \ {x})) =>
          Cardinality(Units(f, T)) = f[x] + Cardinality(Units(f, T \ {x}))
    BY UnitsAdd
  <2> HIDE DEF pick
  <2> QED
    BY <2>1, <2>2, <2>3, <2>4, <2>5
<1> HIDE DEF pick
<1>3. Cardinality(Units(f, {})) = 0
  <2>1. Units(f, {}) = {}
    BY DEF Units
  <2> QED
    BY <2>1, FS_EmptySet
<1>4. units = Step(units)
  <2>1. \A T \in SUBSET S :
          units[T] = IF T = {} THEN 0 ELSE f[pick(T)] + units[T \ {pick(T)}]
    BY <1>2, <1>3
  <2> QED
    BY <2>1
<1>5. iter = Step(iter)
  BY <1>4
<1>6. \A T \in SUBSET S : iter[T] = IF T = {} THEN 0 ELSE f[pick(T)] + iter[T \ {pick(T)}]
  BY <1>5
<1> DEFINE Good == {T \in SUBSET S : iter[T] = Cardinality(Units(f, T))}
<1> HIDE DEF iter, units
<1>7. ASSUME NEW T \in SUBSET S, \A x \in T : T \ {x} \in Good
      PROVE  T \in Good
  <2>1. CASE T = {}
    BY <1>3, <1>6, <2>1
  <2>2. CASE T # {}
    <3>1. pick(T) \in T /\ Cardinality(Units(f, T)) =
                  f[pick(T)] + Cardinality(Units(f, T \ {pick(T)}))
      BY <1>2, <2>2
    <3>2. iter[T \ {pick(T)}] = Cardinality(Units(f, T \ {pick(T)}))
      BY <1>7, <3>1
    <3> QED
      BY <1>6, <2>2, <3>1, <3>2
  <2> QED
    BY <2>1, <2>2
<1> HIDE DEF Good
<1>8. \A T \in SUBSET S : T \in Good
  BY <1>7, SubsetInduction
<1> QED
  BY <1>1, <1>8 DEF Good

\* A sum of natural numbers, element by element.
LEMMA SumFacts ==
  ASSUME NEW f, NEW S, IsFiniteSet(S), \A x \in S : f[x] \in Nat
  PROVE  /\ SumOver(f, S) \in Nat
         /\ S = {} => SumOver(f, S) = 0
         /\ \A x \in S : SumOver(f, S) = f[x] + SumOver(f, S \ {x})
<1>1. \A T \in SUBSET S : SumOver(f, T) = Cardinality(Units(f, T))
  BY FS_Subset, SumIsUnits
<1>2. \A T \in SUBSET S : IsFiniteSet(Units(f, T)) /\ Cardinality(Units(f, T)) \in Nat
  BY UnitsFinite
<1>3. S = {} => Cardinality(Units(f, S)) = 0
  BY FS_EmptySet DEF Units
<1>4. ASSUME NEW x \in S
      PROVE  SumOver(f, S) = f[x] + SumOver(f, S \ {x})
  <2>1. S \ {x} \in SUBSET S /\ S \in SUBSET S
    OBVIOUS
  <2>2. Cardinality(Units(f, S)) = f[x] + Cardinality(Units(f, S \ {x}))
    BY <1>2, <2>1, UnitsAdd
  <2> QED
    BY <1>1, <2>1, <2>2
<1> QED
  BY <1>1, <1>2, <1>3, <1>4

LEMMA SumNatural ==
  ASSUME NEW f, NEW S, IsFiniteSet(S), \A x \in S : f[x] \in Nat
  PROVE  \A T \in SUBSET S : SumOver(f, T) \in Nat
  BY FS_Subset, SumFacts

\* A comparison of the elements, each taken a number of times, is one of the sums.
LEMMA SumCompare ==
  ASSUME NEW f, NEW g, NEW S, IsFiniteSet(S), NEW a \in Nat, NEW b \in Nat,
         \A x \in S : f[x] \in Nat /\ g[x] \in Nat /\ a * f[x] <= b * g[x]
  PROVE  a * SumOver(f, S) <= b * SumOver(g, S)
<1> DEFINE Good == {T \in SUBSET S : a * SumOver(f, T) <= b * SumOver(g, T)}
<1>1. \A T \in SUBSET S : SumOver(f, T) \in Nat /\ SumOver(g, T) \in Nat /\ IsFiniteSet(T)
  BY SumNatural, FS_Subset
<1>2. ASSUME NEW T \in SUBSET S, \A x \in T : T \ {x} \in Good
      PROVE  T \in Good
  <2>1. CASE T = {}
    <3>1. SumOver(f, T) = 0 /\ SumOver(g, T) = 0
      BY <1>1, <2>1, SumFacts
    <3>2. a * 0 = 0 /\ b * 0 = 0
      OBVIOUS
    <3> QED
      BY <3>1, <3>2
  <2>2. CASE T # {}
    <3>1. PICK x \in T : TRUE
      BY <2>2
    <3> DEFINE p == SumOver(f, T \ {x})
               q == SumOver(g, T \ {x})
    <3>2. p \in Nat /\ q \in Nat /\ a * p <= b * q
      BY <1>1, <1>2
    <3>3. SumOver(f, T) = f[x] + p /\ SumOver(g, T) = g[x] + q
      BY <1>1, SumFacts
    <3>4. f[x] \in Nat /\ g[x] \in Nat /\ a * f[x] <= b * g[x]
      OBVIOUS
    <3> HIDE DEF p, q
    <3>5. a * (f[x] + p) = a * f[x] + a * p /\ b * (g[x] + q) = b * g[x] + b * q
      BY <3>2, <3>4
    <3>6. a * f[x] \in Nat /\ a * p \in Nat /\ b * g[x] \in Nat /\ b * q \in Nat
      BY <3>2, <3>4
    <3> QED
      BY <3>2, <3>3, <3>4, <3>5, <3>6
  <2> QED
    BY <2>1, <2>2
<1> HIDE DEF Good
<1>3. \A T \in SUBSET S : T \in Good
  BY <1>2, SubsetInduction
<1> QED
  BY <1>3 DEF Good

\* Sums of functions that are the sum of two others.
LEMMA SumPlus ==
  ASSUME NEW f, NEW g, NEW h, NEW S, IsFiniteSet(S),
         \A x \in S : f[x] \in Nat /\ g[x] \in Nat /\ h[x] = f[x] + g[x]
  PROVE  SumOver(h, S) = SumOver(f, S) + SumOver(g, S)
<1> DEFINE Good == {T \in SUBSET S : SumOver(h, T) = SumOver(f, T) + SumOver(g, T)}
<1>1. \A T \in SUBSET S : /\ SumOver(f, T) \in Nat /\ SumOver(g, T) \in Nat
                          /\ SumOver(h, T) \in Nat /\ IsFiniteSet(T)
  BY SumNatural, FS_Subset
<1>2. ASSUME NEW T \in SUBSET S, \A x \in T : T \ {x} \in Good
      PROVE  T \in Good
  <2>1. CASE T = {}
    <3>1. SumOver(f, T) = 0 /\ SumOver(g, T) = 0 /\ SumOver(h, T) = 0
      BY <1>1, <2>1, SumFacts
    <3> QED
      BY <3>1
  <2>2. CASE T # {}
    <3>1. PICK x \in T : TRUE
      BY <2>2
    <3> DEFINE p == SumOver(f, T \ {x})
               q == SumOver(g, T \ {x})
               r == SumOver(h, T \ {x})
    <3>2. p \in Nat /\ q \in Nat /\ r = p + q
      BY <1>1, <1>2
    <3>3. SumOver(f, T) = f[x] + p /\ SumOver(g, T) = g[x] + q /\ SumOver(h, T) = h[x] + r
      <4>1. IsFiniteSet(T) /\ \A y \in T : f[y] \in Nat /\ g[y] \in Nat /\ h[y] \in Nat
        BY <1>1
      <4>2. SumOver(f, T) = f[x] + p
        BY <4>1, SumFacts
      <4>3. SumOver(g, T) = g[x] + q
        BY <4>1, SumFacts
      <4>4. SumOver(h, T) = h[x] + r
        BY <4>1, SumFacts
      <4> QED
        BY <4>2, <4>3, <4>4
    <3>4. f[x] \in Nat /\ g[x] \in Nat /\ h[x] = f[x] + g[x]
      OBVIOUS
    <3> HIDE DEF p, q, r
    <3> QED
      BY <3>2, <3>3, <3>4
  <2> QED
    BY <2>1, <2>2
<1> HIDE DEF Good
<1>3. \A T \in SUBSET S : T \in Good
  BY <1>2, SubsetInduction
<1> QED
  BY <1>3 DEF Good

\* A function that is zero but on a part of the set adds up to the sum over that part.
LEMMA SumOfPart ==
  ASSUME NEW f, NEW g, NEW S, IsFiniteSet(S), NEW P \in SUBSET S,
         \A x \in P : f[x] \in Nat /\ g[x] = f[x],
         \A x \in S \ P : g[x] = 0
  PROVE  SumOver(g, S) = SumOver(f, P)
<1> DEFINE Good == {T \in SUBSET S : SumOver(g, T) = SumOver(f, T \intersect P)}
<1>1. \A T \in SUBSET S : /\ SumOver(g, T) \in Nat /\ IsFiniteSet(T)
                          /\ SumOver(f, T \intersect P) \in Nat /\ IsFiniteSet(T \intersect P)
  <2>1. \A x \in S : g[x] \in Nat
    OBVIOUS
  <2>2. IsFiniteSet(P)
    BY FS_Subset
  <2>3. \A T \in SUBSET S : IsFiniteSet(T) /\ SumOver(g, T) \in Nat
    BY <2>1, FS_Subset, SumNatural
  <2>4. \A T \in SUBSET P : IsFiniteSet(T) /\ SumOver(f, T) \in Nat
    BY <2>2, FS_Subset, SumNatural
  <2> QED
    BY <2>3, <2>4
<1>2. ASSUME NEW T \in SUBSET S, \A x \in T : T \ {x} \in Good
      PROVE  T \in Good
  <2>1. CASE T = {}
    <3>1. SumOver(g, T) = 0
      BY <1>1, <2>1, SumFacts
    <3>2. T \intersect P = {}
      BY <2>1
    <3>3. SumOver(f, T \intersect P) = 0
      BY <1>1, <3>2, SumFacts
    <3> QED
      BY <3>1, <3>3
  <2>2. CASE T # {}
    <3>1. PICK x \in T : TRUE
      BY <2>2
    <3> DEFINE q == SumOver(g, T \ {x})
    <3>2. q \in Nat /\ q = SumOver(f, (T \ {x}) \intersect P)
      BY <1>1, <1>2
    <3>3. SumOver(g, T) = g[x] + q
      <4>1. \A y \in T : g[y] \in Nat
        OBVIOUS
      <4> QED
        BY <1>1, <4>1, SumFacts
    <3> HIDE DEF q
    <3>4. CASE x \in P
      <4>1. (T \ {x}) \intersect P = (T \intersect P) \ {x} /\ x \in T \intersect P
        BY <3>4
      <4>2. \A y \in T \intersect P : f[y] \in Nat
        OBVIOUS
      <4>3. SumOver(f, T \intersect P) = f[x] + SumOver(f, (T \intersect P) \ {x})
        BY <1>1, <4>1, <4>2, SumFacts
      <4>4. g[x] = f[x] /\ q = SumOver(f, (T \intersect P) \ {x})
        BY <3>2, <3>4, <4>1
      <4>5. SumOver(g, T) = SumOver(f, T \intersect P)
        BY <3>3, <4>3, <4>4
      <4> QED
        BY <4>5
    <3>5. CASE x \notin P
      <4>1. (T \ {x}) \intersect P = T \intersect P /\ g[x] = 0
        BY <3>5
      <4>2. SumOver(g, T) = SumOver(f, T \intersect P)
        BY <3>2, <3>3, <4>1
      <4> QED
        BY <4>2
    <3> QED
      BY <3>4, <3>5
  <2> QED
    BY <2>1, <2>2
<1> HIDE DEF Good
<1>3. \A T \in SUBSET S : T \in Good
  BY <1>2, SubsetInduction
<1>4. S \intersect P = P
  OBVIOUS
<1> QED
  BY <1>3, <1>4 DEF Good

\* The size of a set is the sum of ones.
LEMMA SumOfOnes ==
  ASSUME NEW f, NEW S, IsFiniteSet(S), \A x \in S : f[x] = 1
  PROVE  SumOver(f, S) = Cardinality(S)
<1> DEFINE Good == {T \in SUBSET S : SumOver(f, T) = Cardinality(T)}
<1>1. \A T \in SUBSET S : IsFiniteSet(T) /\ SumOver(f, T) \in Nat /\ Cardinality(T) \in Nat
  BY SumNatural, FS_Subset, FS_CardinalityType
<1>2. ASSUME NEW T \in SUBSET S, \A x \in T : T \ {x} \in Good
      PROVE  T \in Good
  <2>1. CASE T = {}
    BY <1>1, <2>1, SumFacts, FS_EmptySet
  <2>2. CASE T # {}
    <3>1. PICK x \in T : TRUE
      BY <2>2
    <3>2. SumOver(f, T \ {x}) = Cardinality(T \ {x})
      BY <1>2
    <3>3. SumOver(f, T) = 1 + SumOver(f, T \ {x})
      BY <1>1, SumFacts
    <3>4. Cardinality(T \ {x}) = Cardinality(T) - 1
      BY <1>1, FS_RemoveElement
    <3> QED
      BY <1>1, <3>2, <3>3, <3>4
  <2> QED
    BY <2>1, <2>2
<1> HIDE DEF Good
<1>3. \A T \in SUBSET S : T \in Good
  BY <1>2, SubsetInduction
<1> QED
  BY <1>3 DEF Good

\* A nonempty finite set of integers has a greatest member.
LEMMA GreatestInteger ==
  ASSUME NEW S \in SUBSET Int, IsFiniteSet(S), S # {}
  PROVE  \E n \in S : \A m \in S : m <= n
<1> DEFINE Good == {T \in SUBSET S : T = {} \/ \E n \in T : \A m \in T : m <= n}
<1>1. ASSUME NEW T \in SUBSET S, \A x \in T : T \ {x} \in Good, T # {}
      PROVE  \E n \in T : \A m \in T : m <= n
  <2>1. PICK x \in T : TRUE
    BY <1>1
  <2>2. T \ {x} = {} \/ \E n \in T \ {x} : \A m \in T \ {x} : m <= n
    BY <1>1
  <2>3. CASE T \ {x} = {}
    <3>1. T = {x} /\ x \in Int
      BY <2>1, <2>3
    <3> QED
      BY <3>1
  <2>4. ASSUME NEW n \in T \ {x}, \A m \in T \ {x} : m <= n
        PROVE  \E k \in T : \A m \in T : m <= k
    <3>1. x \in Int /\ n \in Int /\ \A m \in T : m \in Int
      OBVIOUS
    <3>2. CASE n <= x
      <4>1. \A m \in T : m <= x
        BY <2>4, <3>1, <3>2
      <4> QED
        BY <4>1
    <3>3. CASE x <= n
      <4>1. \A m \in T : m <= n
        BY <2>4, <3>1, <3>3
      <4> QED
        BY <4>1
    <3> QED
      BY <3>1, <3>2, <3>3
  <2> QED
    BY <2>2, <2>3, <2>4
<1>2. \A T \in SUBSET S : (\A x \in T : T \ {x} \in Good) => T \in Good
  BY <1>1
<1> HIDE DEF Good
<1>3. \A T \in SUBSET S : T \in Good
  BY <1>2, SubsetInduction
<1> QED
  BY <1>3 DEF Good

-----------------------------------------------------------------------------
(* Counting and flattening. *)

\* Induction up to a number: Good holds those for which the claim holds.
LEMMA UpTo ==
  ASSUME NEW n \in Nat, NEW Good, 0 \in Good,
         \A i \in 1 .. n : i - 1 \in Good => i \in Good
  PROVE  \A i \in 0 .. n : i \in Good
<1> SUFFICES ASSUME NEW i0 \in 0 .. n, i0 \notin Good PROVE FALSE
  OBVIOUS
<1> DEFINE Bad == {i \in 0 .. n : i \notin Good}
<1>1. Bad \in SUBSET Nat /\ Bad # {}
  OBVIOUS
<1>2. PICK m \in Bad : \A y \in Bad : m <= y
  <2> HIDE DEF Bad
  <2> QED
    BY <1>1, LeastNatural
<1>3. m \in 1 .. n /\ m - 1 \in 0 .. n /\ ~(m <= m - 1)
  BY <1>2
<1>4. m - 1 \in Good
  BY <1>2, <1>3
<1> QED
  BY <1>2, <1>3, <1>4

\* How many elements of a sequence are in M.
Hits(s, M) == {i \in DOMAIN s : s[i] \in M}
CountIn(s, M) == Cardinality(Hits(s, M))

LEMMA CountNatural ==
  ASSUME NEW S, NEW s \in Seq(S), NEW M
  PROVE  IsFiniteSet(Hits(s, M)) /\ CountIn(s, M) \in Nat
<1>1. IsFiniteSet(1 .. Len(s)) /\ Hits(s, M) \subseteq 1 .. Len(s)
  BY FS_Interval DEF Hits
<1> QED
  BY <1>1, FS_Subset, FS_CardinalityType DEF CountIn

LEMMA CountNone ==
  ASSUME NEW S, NEW s \in Seq(S), NEW M, \A i \in 1 .. Len(s) : s[i] \notin M
  PROVE  CountIn(s, M) = 0
<1>1. Hits(s, M) = {}
  BY DEF Hits
<1> QED
  BY <1>1, FS_EmptySet DEF CountIn

LEMMA CountConcat ==
  ASSUME NEW S, NEW s \in Seq(S), NEW t \in Seq(S), NEW M
  PROVE  CountIn(s \o t, M) = CountIn(s, M) + CountIn(t, M)
<1> DEFINE n == Len(s)
           A == Hits(s, M)
           B == Hits(t, M)
           C == {n + j : j \in B}
           shift == [j \in B |-> n + j]
<1>1. n \in Nat /\ Len(t) \in Nat /\ DOMAIN s = 1 .. n /\ DOMAIN t = 1 .. Len(t)
  OBVIOUS
<1>2. /\ s \o t \in Seq(S) /\ DOMAIN (s \o t) = 1 .. n + Len(t)
      /\ \A i \in 1 .. n + Len(t) : (s \o t)[i] = IF i <= n THEN s[i] ELSE t[i - n]
  OBVIOUS
<1>3. A \subseteq 1 .. n /\ B \subseteq 1 .. Len(t)
  BY <1>1 DEF Hits
<1>4. Hits(s \o t, M) = A \union C
  <2>1. ASSUME NEW i \in Hits(s \o t, M) PROVE i \in A \union C
    <3>1. i \in 1 .. n + Len(t) /\ (s \o t)[i] \in M
      BY <1>2 DEF Hits
    <3>2. CASE i <= n
      <4>1. i \in 1 .. n /\ s[i] \in M
        BY <1>1, <1>2, <3>1, <3>2
      <4> QED
        BY <1>1, <4>1 DEF Hits
    <3>3. CASE ~(i <= n)
      <4>1. i - n \in 1 .. Len(t) /\ t[i - n] \in M /\ i = n + (i - n)
        BY <1>1, <1>2, <3>1, <3>3
      <4>2. i - n \in B
        BY <1>1, <4>1 DEF Hits
      <4> QED
        BY <4>1, <4>2
    <3> QED
      BY <3>2, <3>3
  <2>2. ASSUME NEW i \in A PROVE i \in Hits(s \o t, M)
    <3>1. i \in 1 .. n + Len(t) /\ i <= n /\ s[i] \in M
      BY <1>1, <1>3 DEF Hits
    <3> QED
      BY <1>2, <3>1 DEF Hits
  <2>3. ASSUME NEW j \in B PROVE n + j \in Hits(s \o t, M)
    <3>1. n + j \in 1 .. n + Len(t) /\ ~(n + j <= n) /\ (n + j) - n = j /\ t[j] \in M
      BY <1>1, <1>3 DEF Hits
    <3> QED
      BY <1>2, <3>1 DEF Hits
  <2> QED
    BY <2>1, <2>2, <2>3
<1>5. IsFiniteSet(A) /\ IsFiniteSet(B) /\ Cardinality(A) \in Nat /\ Cardinality(B) \in Nat
  BY CountNatural, FS_CardinalityType
<1> HIDE DEF A, B, n
<1>6. shift \in Bijection(B, C)
  <2>1. \A j \in B : j \in Int
    BY <1>1, <1>3
  <2>2. \A i, j \in B : n + i = n + j => i = j
    BY <1>1, <2>1
  <2>3. shift \in [B -> C] /\ \A j \in B : shift[j] = n + j
    OBVIOUS
  <2> HIDE DEF shift
  <2>4. shift \in Injection(B, C)
    BY <2>2, <2>3 DEF Injection, IsInjective
  <2>5. shift \in Surjection(B, C)
    BY <2>3 DEF Surjection
  <2> QED
    BY <2>4, <2>5 DEF Bijection
<1>7. IsFiniteSet(C) /\ Cardinality(C) = Cardinality(B)
  <2>1. ExistsBijection(B, C)
    BY <1>6 DEF ExistsBijection
  <2> QED
    BY <1>5, <2>1, FS_Bijection
<1>8. A \intersect C = {}
  BY <1>1, <1>3
<1>9. Cardinality(A \union C) = Cardinality(A) + Cardinality(C) - 0
  <2>1. Cardinality(A \intersect C) = 0
    BY <1>8, FS_EmptySet
  <2> HIDE DEF C
  <2> QED
    BY <1>5, <1>7, <2>1, FS_Union
<1> QED
  BY <1>4, <1>5, <1>7, <1>9 DEF CountIn, A, B

\* An element of a sequence without repetition is counted once.
LEMMA CountInjective ==
  ASSUME NEW S, NEW s \in Seq(S), IsInjective(s), NEW x
  PROVE  CountIn(s, {x}) = IF x \in Range(s) THEN 1 ELSE 0
<1>1. CASE x \in Range(s)
  <2>1. PICK k \in 1 .. Len(s) : s[k] = x
    BY <1>1, RangeIs
  <2>2. Hits(s, {x}) = {k}
    BY <2>1, Injective DEF Hits
  <2> QED
    BY <1>1, <2>2, FS_Singleton DEF CountIn
<1>2. CASE x \notin Range(s)
  BY <1>2, CountNone, RangeIs
<1> QED
  BY <1>1, <1>2

\* One element is replaced by another.
LEMMA CountReplaced ==
  ASSUME NEW S, NEW s \in Seq(S), NEW i \in 1 .. Len(s), NEW x \in S, NEW M
  PROVE  LET t == [s EXCEPT ![i] = x]
         IN  /\ t \in Seq(S) /\ Len(t) = Len(s)
             /\ CountIn(t, M) + (IF s[i] \in M THEN 1 ELSE 0) =
                  CountIn(s, M) + (IF x \in M THEN 1 ELSE 0)
<1> DEFINE t == [s EXCEPT ![i] = x]
           rest == Hits(s, M) \ {i}
<1>1. t \in Seq(S) /\ Len(t) = Len(s) /\ DOMAIN t = DOMAIN s /\ i \in DOMAIN s
      /\ \A j \in DOMAIN s : t[j] = IF j = i THEN x ELSE s[j]
  OBVIOUS
<1>2. /\ Hits(s, M) = IF s[i] \in M THEN rest \union {i} ELSE rest
      /\ Hits(t, M) = IF x \in M THEN rest \union {i} ELSE rest
  BY <1>1 DEF Hits
<1>3. IsFiniteSet(rest) /\ Cardinality(rest) \in Nat
  BY CountNatural, FS_Subset, FS_CardinalityType
<1>4. Cardinality(rest \union {i}) = Cardinality(rest) + 1
  BY <1>3, FS_AddElement
<1> HIDE DEF rest, t
<1>5. CountIn(s, M) = Cardinality(rest) + IF s[i] \in M THEN 1 ELSE 0
  BY <1>2, <1>3, <1>4 DEF CountIn
<1>6. CountIn(t, M) = Cardinality(rest) + IF x \in M THEN 1 ELSE 0
  BY <1>2, <1>3, <1>4 DEF CountIn
<1> QED
  BY <1>1, <1>3, <1>5, <1>6 DEF t

\* FlattenSeq joins one sequence after the other.
LEMMA FlattenFacts ==
  ASSUME NEW S, NEW seqs \in Seq(Seq(S))
  PROVE  \E f \in [0 .. Len(seqs) -> Seq(S)] :
           /\ f[0] = <<>> /\ f[Len(seqs)] = FlattenSeq(seqs)
           /\ \A i \in 1 .. Len(seqs) : f[i] = f[i - 1] \o seqs[i]
<1> DEFINE n == Len(seqs)
           Joins(f, k) == /\ f \in [0 .. k -> Seq(S)] /\ f[0] = <<>>
                          /\ \A i \in 1 .. k : f[i] = f[i - 1] \o seqs[i]
           Good == {k \in 0 .. n : \E f : Joins(f, k)}
<1>1. n \in Nat /\ \A i \in 1 .. n : seqs[i] \in Seq(S)
  OBVIOUS
<1>2. 0 \in Good
  <2> DEFINE none == [i \in 0 .. 0 |-> <<>>]
  <2>1. Joins(none, 0)
    OBVIOUS
  <2> HIDE DEF Joins, none
  <2> QED
    BY <1>1, <2>1
<1>3. ASSUME NEW k \in 1 .. n, k - 1 \in Good PROVE k \in Good
  <2>1. PICK f : Joins(f, k - 1)
    BY <1>3
  <2> DEFINE g == [i \in 0 .. k |-> IF i = k THEN f[k - 1] \o seqs[k] ELSE f[i]]
  <2>2. f[k - 1] \in Seq(S) /\ seqs[k] \in Seq(S) /\ f[k - 1] \o seqs[k] \in Seq(S)
    BY <1>1, <2>1
  <2>3. g \in [0 .. k -> Seq(S)] /\ g[0] = <<>>
    BY <1>1, <2>1, <2>2
  <2>4. ASSUME NEW i \in 1 .. k PROVE g[i] = g[i - 1] \o seqs[i]
    <3>1. i - 1 \in 0 .. k /\ i - 1 # k /\ g[i - 1] = f[i - 1]
      BY <1>1
    <3>2. CASE i = k
      <4>1. k \in 0 .. k /\ g[i - 1] = f[k - 1]
        BY <1>1, <3>1, <3>2
      <4>2. g[k] = f[k - 1] \o seqs[k]
        BY <4>1, Zenon
      <4> HIDE DEF g
      <4> QED
        BY <3>2, <4>1, <4>2
    <3>3. CASE i # k
      <4>1. i \in 1 .. k - 1 /\ i \in 0 .. k
        BY <1>1, <3>3
      <4> QED
        BY <2>1, <3>1, <3>3, <4>1
    <3> QED
      BY <3>2, <3>3
  <2>5. Joins(g, k)
    BY <2>3, <2>4
  <2>6. k \in 0 .. n
    BY <1>1
  <2> HIDE DEF Joins, g
  <2> QED
    BY <2>5, <2>6
<1>4. n \in Good
  <2> HIDE DEF Good
  <2>1. \A i \in 0 .. n : i \in Good
    BY <1>1, <1>2, <1>3, UpTo
  <2> QED
    BY <1>1, <2>1
<1>5. PICK f : Joins(f, n)
  BY <1>4
<1>6. /\ f \in [0 .. n -> Seq(S)] /\ f[0] = <<>>
      /\ \A i \in 1 .. n : f[i] = f[i - 1] \o seqs[i]
  BY <1>5
<1> HIDE DEF Joins, Good
<1>7. f[n] = FlattenSeq(seqs)
  <2>1. CASE n = 0
    BY <1>1, <1>6, <2>1 DEF FlattenSeq
  <2>2. CASE n # 0
    <3> DEFINE Step(h) == [i \in 1 .. n |-> IF i = 1 THEN seqs[i] ELSE h[i - 1] \o seqs[i]]
               flat == CHOOSE h : h = Step(h)
               part == [i \in 1 .. n |-> f[i]]
    <3>1. FlattenSeq(seqs) = flat[n]
      BY <1>1, <2>2 DEF FlattenSeq
    <3>2. part = Step(part)
      <4>1. ASSUME NEW i \in 1 .. n
            PROVE  part[i] = IF i = 1 THEN seqs[i] ELSE part[i - 1] \o seqs[i]
        <5>1. f[i] = f[i - 1] \o seqs[i] /\ f[0] = <<>>
          BY <1>6
        <5>2. <<>> \o seqs[i] = seqs[i]
          BY <1>1, ConcatEmptySeq
        <5>3. CASE i = 1
          <6>1. i - 1 = 0
            BY <5>3
          <6>2. f[i] = <<>> \o seqs[i]
            BY <5>1, <6>1, Zenon
          <6> QED
            BY <5>2, <5>3, <6>2
        <5>4. CASE i # 1
          <6>1. i - 1 \in 1 .. n
            BY <1>1, <5>4
          <6> QED
            BY <5>1, <5>4, <6>1
        <5> QED
          BY <5>3, <5>4
      <4> QED
        BY <4>1
    <3>3. flat = Step(flat)
      BY <3>2
    <3>4. \A i \in 1 .. n : flat[i] = IF i = 1 THEN seqs[i] ELSE flat[i - 1] \o seqs[i]
      BY <3>3
    <3> DEFINE Same == {i \in 0 .. n : i = 0 \/ flat[i] = f[i]}
    <3> HIDE DEF flat
    <3>5. 0 \in Same
      BY <1>1
    <3>6. ASSUME NEW i \in 1 .. n, i - 1 \in Same PROVE i \in Same
      <4>1. CASE i = 1
        <5>1. i - 1 = 0
          BY <4>1
        <5>2. f[i] = f[i - 1] \o seqs[i] /\ f[0] = <<>>
          BY <1>6
        <5>3. f[i] = <<>> \o seqs[i]
          BY <5>1, <5>2, Zenon
        <5>4. <<>> \o seqs[i] = seqs[i]
          BY <1>1, ConcatEmptySeq
        <5>5. flat[i] = seqs[i]
          BY <3>4, <4>1
        <5>6. i \in 0 .. n
          BY <1>1
        <5> QED
          BY <5>3, <5>4, <5>5, <5>6 DEF Same
      <4>2. CASE i # 1
        <5>1. flat[i] = flat[i - 1] \o seqs[i] /\ f[i] = f[i - 1] \o seqs[i]
          BY <1>6, <3>4, <4>2
        <5>2. i - 1 # 0 /\ i \in 0 .. n
          BY <1>1, <4>2
        <5>3. flat[i - 1] = f[i - 1]
          BY <3>6, <5>2
        <5> QED
          BY <5>1, <5>2, <5>3
      <4> QED
        BY <4>1, <4>2
    <3> HIDE DEF Same
    <3>7. \A i \in 0 .. n : i \in Same
      BY <1>1, <3>5, <3>6, UpTo
    <3> QED
      BY <1>1, <2>2, <3>1, <3>7 DEF Same
  <2> QED
    BY <2>1, <2>2
<1> QED
  BY <1>6, <1>7

\* Everything in one of the sequences is in the sequence they are joined to.
LEMMA FlattenRange ==
  ASSUME NEW S, NEW seqs \in Seq(Seq(S))
  PROVE  /\ FlattenSeq(seqs) \in Seq(S)
         /\ \A k \in 1 .. Len(seqs) : Range(seqs[k]) \subseteq Range(FlattenSeq(seqs))
<1> DEFINE n == Len(seqs)
<1>1. PICK f \in [0 .. n -> Seq(S)] :
           /\ f[0] = <<>> /\ f[n] = FlattenSeq(seqs)
           /\ \A i \in 1 .. n : f[i] = f[i - 1] \o seqs[i]
  BY FlattenFacts
<1> DEFINE Good == {i \in 0 .. n : \A k \in 1 .. i : Range(seqs[k]) \subseteq Range(f[i])}
<1>2. n \in Nat /\ \A i \in 1 .. n : seqs[i] \in Seq(S)
  OBVIOUS
<1> HIDE DEF n
<1>3. 0 \in Good
  BY <1>2
<1>4. ASSUME NEW i \in 1 .. n, i - 1 \in Good PROVE i \in Good
  <2>1. i - 1 \in 0 .. n /\ i \in 0 .. n
    BY <1>2
  <2>2. f[i - 1] \in Seq(S) /\ seqs[i] \in Seq(S) /\ f[i] = f[i - 1] \o seqs[i]
    BY <1>1, <1>2, <2>1
  <2>3. Range(f[i]) = Range(f[i - 1]) \union Range(seqs[i])
    BY <2>2, ConcatRange
  <2>4. ASSUME NEW k \in 1 .. i PROVE Range(seqs[k]) \subseteq Range(f[i])
    <3>1. CASE k = i
      BY <2>3, <3>1
    <3>2. CASE k # i
      <4>1. k \in 1 .. i - 1
        BY <1>2, <3>2
      <4> QED
        BY <1>4, <2>3, <4>1
    <3> QED
      BY <3>1, <3>2
  <2> QED
    BY <2>1, <2>4
<1> HIDE DEF Good
<1>5. \A i \in 0 .. n : i \in Good
  BY <1>2, <1>3, <1>4, UpTo
<1>6. n \in Good
  BY <1>2, <1>5
<1>7. f[n] \in Seq(S)
  BY <1>1, <1>2
<1> QED
  BY <1>1, <1>6, <1>7 DEF Good, n

\* A function on 1 .. n is a sequence, and a sequence one.
LEMMA FunctionIsSequence ==
  ASSUME NEW S, NEW n \in Nat, NEW f \in [1 .. n -> S]
  PROVE  f \in Seq(S) /\ Len(f) = n
OBVIOUS

LEMMA SequenceIs ==
  ASSUME NEW S, NEW s \in Seq(S)
  PROVE  /\ DOMAIN s = 1 .. Len(s) /\ Len(s) \in Nat /\ s \in [1 .. Len(s) -> S]
         /\ \A i \in 1 .. Len(s) : s[i] \in S
OBVIOUS

\* How often a number goes into another.
LEMMA Quotient ==
  ASSUME NEW a \in Nat, NEW b \in Nat \ {0}
  PROVE  /\ a \div b \in Nat /\ b * (a \div b) \in Nat
         /\ b * (a \div b) <= a /\ a < b * (a \div b) + b
  OBVIOUS
===============================================================================
