--------------------------- MODULE ClientJobsProofs ---------------------------
(***************************************************************************)
(* Proofs about ClientJobs, for any number of jobs, batch and pool size    *)
(* and retry limits: every safety property its run checks.                 *)
(*                                                                         *)
(* The inductive invariant is a conjunction of named parts: the types;     *)
(* Position (of the loop of _ensure_submitted); Places (a job is in one of *)
(* the driver's sets, Apart, none is forgotten, Accounted, and what each   *)
(* place of the driver leaves to do, Stages); Batch (the jobs in flight);  *)
(* for each job Sent, Kept, Driven and Called, which relate its futures,   *)
(* its callback and what the service handed out; Queued, Ensured and       *)
(* AllCalled; NamedByItsFile.                                              *)
(***************************************************************************)
EXTENDS ClientJobs, FiniteSetTheorems, SequenceTheorems, TLAPS

-----------------------------------------------------------------------------
(* Sequences of jobs. *)

\* No job is twice in a sequence.
Distinct(s) == \A a, b \in DOMAIN s : s[a] = s[b] => a = b

LEMMA ListedSeq ==
  ASSUME NEW S, NEW s \in Seq(S)
  PROVE  /\ Listed(s) \subseteq S
         /\ \A i \in 1 .. Len(s) : s[i] \in Listed(s)
         /\ \A x \in Listed(s) : \E i \in 1 .. Len(s) : s[i] = x
         /\ s = <<>> => Listed(s) = {}
         /\ Listed(s) = {} => s = <<>>
<1>1. Len(s) \in Nat /\ s \in [1 .. Len(s) -> S] /\ DOMAIN s = 1 .. Len(s)
  BY LenProperties
<1>2. Listed(s) \subseteq S /\ (\A i \in 1 .. Len(s) : s[i] \in Listed(s))
        /\ (\A x \in Listed(s) : \E i \in 1 .. Len(s) : s[i] = x)
  BY <1>1 DEF Listed
<1>3. s = <<>> => Listed(s) = {}
  BY <1>2, EmptySeq
<1>4. Listed(s) = {} => s = <<>>
  <2> SUFFICES ASSUME s # <<>> PROVE Listed(s) # {}
    OBVIOUS
  <2>1. 1 \in 1 .. Len(s)
    BY <1>1, EmptySeq
  <2> QED
    BY <1>2, <2>1
<1> QED
  BY <1>2, <1>3, <1>4

LEMMA ListedFinite ==
  ASSUME NEW S, NEW s \in Seq(S)
  PROVE  IsFiniteSet(Listed(s)) /\ Cardinality(Listed(s)) <= Len(s)
<1>1. Len(s) \in Nat /\ s \in [1 .. Len(s) -> S] /\ DOMAIN s = 1 .. Len(s)
  BY LenProperties
<1>2. s \in Surjection(1 .. Len(s), Listed(s))
  BY <1>1 DEF Surjection, Listed
<1>3. IsFiniteSet(1 .. Len(s)) /\ Cardinality(1 .. Len(s)) = Len(s)
  BY <1>1, FS_Interval
<1> QED
  BY <1>2, <1>3, FS_Surjection

LEMMA JoinedSeq ==
  ASSUME NEW S, NEW s \in Seq(S), NEW t \in Seq(S)
  PROVE  /\ s \o t \in Seq(S)
         /\ Len(s \o t) = Len(s) + Len(t)
         /\ Listed(s \o t) = Listed(s) \cup Listed(t)
         /\ Distinct(s) /\ Distinct(t) /\ Listed(s) \cap Listed(t) = {} => Distinct(s \o t)
<1> DEFINE j == s \o t
<1>1. /\ j \in Seq(S) /\ Len(j) = Len(s) + Len(t)
      /\ \A i \in 1 .. Len(s) + Len(t) : j[i] = IF i <= Len(s) THEN s[i] ELSE t[i - Len(s)]
  BY ConcatProperties
<1>2. /\ Len(s) \in Nat /\ DOMAIN s = 1 .. Len(s)
      /\ Len(t) \in Nat /\ DOMAIN t = 1 .. Len(t)
      /\ DOMAIN j = 1 .. Len(s) + Len(t)
  BY <1>1, LenProperties
<1> HIDE DEF j
<1>3. \A i \in 1 .. Len(s) : i \in DOMAIN j /\ j[i] = s[i]
  BY <1>1, <1>2
<1>4. \A i \in 1 .. Len(t) : i + Len(s) \in DOMAIN j /\ j[i + Len(s)] = t[i]
  <2> SUFFICES ASSUME NEW i \in 1 .. Len(t) PROVE i + Len(s) \in DOMAIN j /\ j[i + Len(s)] = t[i]
    OBVIOUS
  <2>1. i + Len(s) \in 1 .. Len(s) + Len(t) /\ ~ (i + Len(s) <= Len(s)) /\ i + Len(s) - Len(s) = i
    BY <1>2
  <2> QED
    BY <1>1, <1>2, <2>1
<1>5. \A i \in DOMAIN j : \/ i \in 1 .. Len(s) /\ j[i] = s[i]
                          \/ i - Len(s) \in 1 .. Len(t) /\ j[i] = t[i - Len(s)]
  BY <1>1, <1>2
<1>6. Listed(j) = Listed(s) \cup Listed(t)
  BY <1>2, <1>3, <1>4, <1>5 DEF Listed
<1>7. ASSUME Distinct(s), Distinct(t), Listed(s) \cap Listed(t) = {} PROVE Distinct(j)
  <2> SUFFICES ASSUME NEW a \in DOMAIN j, NEW b \in DOMAIN j, j[a] = j[b] PROVE a = b
    BY DEF Distinct
  <2>1. /\ \A i \in 1 .. Len(s) : s[i] \in Listed(s)
        /\ \A i \in 1 .. Len(t) : t[i] \in Listed(t)
    BY <1>2 DEF Listed
  <2>2. CASE a \in 1 .. Len(s) /\ j[a] = s[a]
    <3>1. b \in 1 .. Len(s) /\ j[b] = s[b]
      BY <1>5, <1>7, <2>1, <2>2
    <3> QED
      BY <1>2, <1>7, <2>2, <3>1 DEF Distinct
  <2>3. CASE a - Len(s) \in 1 .. Len(t) /\ j[a] = t[a - Len(s)]
    <3>1. b - Len(s) \in 1 .. Len(t) /\ j[b] = t[b - Len(s)]
      BY <1>5, <1>7, <2>1, <2>3
    <3>2. a - Len(s) = b - Len(s)
      BY <1>2, <1>7, <2>3, <3>1 DEF Distinct
    <3> QED
      BY <1>2, <3>2
  <2> QED
    BY <1>5, <2>2, <2>3
<1> QED
  BY <1>1, <1>6, <1>7 DEF j

LEMMA AppendedSeq ==
  ASSUME NEW S, NEW s \in Seq(S), NEW x \in S
  PROVE  /\ Append(s, x) \in Seq(S)
         /\ Len(Append(s, x)) = Len(s) + 1
         /\ Listed(Append(s, x)) = Listed(s) \cup {x}
         /\ Distinct(s) /\ x \notin Listed(s) => Distinct(Append(s, x))
<1> DEFINE j == Append(s, x)
<1>1. /\ j \in Seq(S) /\ Len(j) = Len(s) + 1
      /\ (\A i \in 1 .. Len(s) : j[i] = s[i]) /\ j[Len(s) + 1] = x
  BY AppendProperties
<1>2. Len(s) \in Nat /\ DOMAIN s = 1 .. Len(s) /\ DOMAIN j = 1 .. Len(s) + 1
  BY <1>1, LenProperties
<1> HIDE DEF j
<1>3. \A i \in DOMAIN j : i \in 1 .. Len(s) \/ i = Len(s) + 1
  BY <1>2
<1>4. Listed(j) = Listed(s) \cup {x}
  BY <1>1, <1>2, <1>3 DEF Listed
<1>5. ASSUME Distinct(s), x \notin Listed(s) PROVE Distinct(j)
  BY <1>1, <1>2, <1>3, <1>5 DEF Distinct, Listed
<1> QED
  BY <1>1, <1>4, <1>5 DEF j

LEMMA CutSeq ==
  ASSUME NEW S, NEW s \in Seq(S), NEW k \in 0 .. Len(s)
  PROVE  LET a == SubSeq(s, 1, k)
             b == SubSeq(s, k + 1, Len(s))
         IN  /\ a \in Seq(S) /\ b \in Seq(S)
             /\ Len(a) = k /\ Len(b) = Len(s) - k
             /\ Listed(s) = Listed(a) \cup Listed(b)
             /\ Distinct(s) => /\ Distinct(a) /\ Distinct(b)
                               /\ Listed(a) \cap Listed(b) = {}
<1> DEFINE a == SubSeq(s, 1, k)
           b == SubSeq(s, k + 1, Len(s))
<1>1. Len(s) \in Nat /\ s \in [1 .. Len(s) -> S] /\ DOMAIN s = 1 .. Len(s)
  BY LenProperties
<1>2. a \in Seq(S) /\ Len(a) = k /\ \A i \in 1 .. k : a[i] = s[i]
  <2>1. \A i \in 1 .. k : s[i] \in S
    BY <1>1
  <2>2. /\ a \in Seq(S) /\ Len(a) = (IF 1 <= k THEN k - 1 + 1 ELSE 0)
        /\ \A i \in 1 .. k - 1 + 1 : a[i] = s[1 + i - 1]
    BY <1>1, <2>1, SubSeqProperties
  <2> HIDE DEF a
  <2> QED
    BY <1>1, <2>2
<1>3. b \in Seq(S) /\ Len(b) = Len(s) - k /\ \A i \in 1 .. Len(s) - k : b[i] = s[k + i]
  <2>1. \A i \in k + 1 .. Len(s) : s[i] \in S
    BY <1>1
  <2>2. /\ b \in Seq(S)
        /\ Len(b) = (IF k + 1 <= Len(s) THEN Len(s) - (k + 1) + 1 ELSE 0)
        /\ \A i \in 1 .. Len(s) - (k + 1) + 1 : b[i] = s[k + 1 + i - 1]
    BY <1>1, <2>1, SubSeqProperties
  <2>4. Len(s) - (k + 1) + 1 = Len(s) - k /\ \A i \in Int : k + 1 + i - 1 = k + i
    BY <1>1
  <2> HIDE DEF b
  <2>5. Len(b) = Len(s) - k
    <3>1. Len(b) = (IF k + 1 <= Len(s) THEN Len(s) - k ELSE 0)
      BY <2>2, <2>4
    <3>2. Len(s) \in Nat
      BY <1>1
    <3>3. k \in Int /\ k <= Len(s)
      BY <3>2
    <3>4. k + 1 <= Len(s) \/ (k = Len(s) /\ ~ (k + 1 <= Len(s)) /\ Len(s) - k = 0)
      BY <3>2, <3>3
    <3> QED
      BY <3>1, <3>4
  <2>6. \A i \in 1 .. Len(s) - k : b[i] = s[k + i]
    <3> SUFFICES ASSUME NEW i \in 1 .. Len(s) - k PROVE b[i] = s[k + i]
      OBVIOUS
    <3>1. i \in 1 .. Len(s) - (k + 1) + 1 /\ k + 1 + i - 1 = k + i
      BY <2>4
    <3>2. b[i] = s[k + 1 + i - 1]
      BY <2>2, <3>1
    <3> QED
      BY <3>1, <3>2
  <2> QED
    BY <2>2, <2>5, <2>6
<1>4. DOMAIN a = 1 .. k /\ DOMAIN b = 1 .. Len(s) - k
  BY <1>2, <1>3, LenProperties
<1> HIDE DEF a, b
<1>5. \A i \in 1 .. Len(s) : \/ i \in 1 .. k /\ s[i] = a[i]
                             \/ i - k \in 1 .. Len(s) - k /\ s[i] = b[i - k]
  <2> SUFFICES ASSUME NEW i \in 1 .. Len(s)
               PROVE  \/ i \in 1 .. k /\ s[i] = a[i]
                      \/ i - k \in 1 .. Len(s) - k /\ s[i] = b[i - k]
    OBVIOUS
  <2>1. i \in 1 .. k \/ (i - k \in 1 .. Len(s) - k /\ k + (i - k) = i)
    BY <1>1
  <2> QED
    BY <1>2, <1>3, <2>1
<1>6. Listed(s) = Listed(a) \cup Listed(b)
  <2>1. Listed(s) \subseteq Listed(a) \cup Listed(b)
    BY <1>1, <1>4, <1>5 DEF Listed
  <2>2. Listed(a) \subseteq Listed(s)
    BY <1>1, <1>2, <1>4 DEF Listed
  <2>3. \A i \in 1 .. Len(s) - k : k + i \in 1 .. Len(s)
    BY <1>1
  <2>4. Listed(b) \subseteq Listed(s)
    BY <1>1, <1>3, <1>4, <2>3 DEF Listed
  <2> QED
    BY <2>1, <2>2, <2>4
<1>7. ASSUME Distinct(s)
      PROVE  Distinct(a) /\ Distinct(b) /\ Listed(a) \cap Listed(b) = {}
  <2>1. Distinct(a)
    BY <1>1, <1>2, <1>4, <1>7 DEF Distinct
  <2>2. \A i \in 1 .. Len(s) - k : k + i \in DOMAIN s /\ b[i] = s[k + i]
    BY <1>1, <1>3
  <2>3. Distinct(b)
    <3> SUFFICES ASSUME NEW x \in DOMAIN b, NEW y \in DOMAIN b, b[x] = b[y] PROVE x = y
      BY DEF Distinct
    <3>1. k + x = k + y
      BY <1>4, <1>7, <2>2 DEF Distinct
    <3> QED
      BY <1>1, <1>4, <3>1
  <2>4. \A x \in 1 .. k, y \in 1 .. Len(s) - k : a[x] # b[y]
    <3> SUFFICES ASSUME NEW x \in 1 .. k, NEW y \in 1 .. Len(s) - k, a[x] = b[y] PROVE FALSE
      OBVIOUS
    <3>1. x \in DOMAIN s /\ k + y \in DOMAIN s /\ s[x] = s[k + y]
      BY <1>1, <1>2, <2>2
    <3>2. x = k + y
      BY <1>7, <3>1 DEF Distinct
    <3> QED
      BY <1>1, <3>2
  <2> QED
    BY <1>4, <2>1, <2>3, <2>4 DEF Listed
<1> QED
  BY <1>2, <1>3, <1>6, <1>7 DEF a, b

LEMMA TailedSeq ==
  ASSUME NEW S, NEW s \in Seq(S), s # <<>>, Distinct(s)
  PROVE  /\ Head(s) \in Listed(s) /\ Tail(s) \in Seq(S)
         /\ Distinct(Tail(s)) /\ Listed(Tail(s)) = Listed(s) \ {Head(s)}
<1>1. Len(s) \in Nat \ {0} /\ Len(s) \in Nat
  BY EmptySeq
<1>2. 1 \in 0 .. Len(s) /\ 1 \in 1 .. Len(s) /\ DOMAIN s = 1 .. Len(s)
  BY <1>1, LenProperties
<1> DEFINE a == SubSeq(s, 1, 1)
<1>3. /\ a \in Seq(S) /\ Len(a) = 1 /\ Tail(s) = SubSeq(s, 1 + 1, Len(s))
      /\ SubSeq(s, 1 + 1, Len(s)) \in Seq(S)
      /\ Listed(s) = Listed(a) \cup Listed(SubSeq(s, 1 + 1, Len(s)))
      /\ Distinct(SubSeq(s, 1 + 1, Len(s)))
      /\ Listed(a) \cap Listed(SubSeq(s, 1 + 1, Len(s))) = {}
  <2>1. 1 + 1 = 2
    OBVIOUS
  <2> QED
    BY <1>2, <2>1, CutSeq, TailIsSubSeq
<1>4. Head(s) = s[1] /\ a[1] = s[1]
  <2>1. Head(a) = s[1]
    BY <1>2, HeadTailOfSubSeq
  <2> HIDE DEF a
  <2>2. Head(a) = a[1] /\ Head(s) = s[1]
    BY <1>3
  <2> QED
    BY <2>1, <2>2
<1>5. Listed(a) = {Head(s)}
  <2>1. DOMAIN a = 1 .. 1
    BY <1>3, LenProperties
  <2> HIDE DEF a
  <2> QED
    BY <1>4, <2>1 DEF Listed
<1> HIDE DEF a
<1> QED
  BY <1>3, <1>5

LEMMA IntervalSeq ==
  ASSUME NEW a \in Nat, NEW b \in Int, b + 1 - a \in Nat
  PROVE  /\ Interval(a, b) \in Seq(a .. b)
         /\ Len(Interval(a, b)) = b + 1 - a
         /\ Listed(Interval(a, b)) = a .. b
         /\ Distinct(Interval(a, b))
         /\ \A i \in 1 .. b + 1 - a : Interval(a, b)[i] = a + i - 1
<1> DEFINE n == b + 1 - a
           v == Interval(a, b)
<1>1. v = [i \in 1 .. n |-> a + i - 1]
  BY DEF Interval
<1>2. \A i \in 1 .. n : a + i - 1 \in a .. b
  OBVIOUS
<1>3. v \in [1 .. n -> a .. b]
  BY <1>1, <1>2
<1>4. v \in Seq(a .. b)
  BY <1>3, SeqDef
<1>5. DOMAIN v = 1 .. n /\ Len(v) = n
  BY <1>3, <1>4, LenProperties
<1>6. \A i \in 1 .. n : v[i] = a + i - 1
  BY <1>1
<1> HIDE DEF v
<1>7. a .. b \subseteq Listed(v)
  <2> SUFFICES ASSUME NEW x \in a .. b PROVE x \in Listed(v)
    OBVIOUS
  <2>1. x - a + 1 \in 1 .. n /\ a + (x - a + 1) - 1 = x
    OBVIOUS
  <2>2. v[x - a + 1] = x
    BY <1>6, <2>1
  <2> QED
    BY <1>5, <2>1, <2>2 DEF Listed
<1>8. Listed(v) = a .. b
  BY <1>3, <1>5, <1>7 DEF Listed
<1>9. Distinct(v)
  BY <1>5, <1>6 DEF Distinct
<1> QED
  BY <1>4, <1>5, <1>6, <1>8, <1>9 DEF v

\* Where a job stands among the members of a set tells it apart from the others.
LEMMA InOrderSeq ==
  ASSUME NEW S \in SUBSET Int, IsFiniteSet(S)
  PROVE  /\ InOrder(S) \in Seq(S)
         /\ Len(InOrder(S)) = Cardinality(S)
         /\ Listed(InOrder(S)) = S
         /\ Distinct(InOrder(S))
         /\ \A i \in 1 .. Len(InOrder(S)) : Cardinality({k \in S : k <= InOrder(S)[i]}) = i
<1> DEFINE n == Cardinality(S)
           Upto(j) == {k \in S : k <= j}
           rank == [j \in S |-> Cardinality(Upto(j))]
           v == InOrder(S)
<1>1. n \in Nat /\ IsFiniteSet(1 .. n) /\ Cardinality(1 .. n) = n
  BY FS_CardinalityType, FS_Interval
<1>2. \A j \in S : /\ IsFiniteSet(Upto(j)) /\ j \in Upto(j)
                   /\ Cardinality(Upto(j)) \in 1 .. n
  <2> SUFFICES ASSUME NEW j \in S
               PROVE  /\ IsFiniteSet(Upto(j)) /\ j \in Upto(j)
                      /\ Cardinality(Upto(j)) \in 1 .. n
    OBVIOUS
  <2>1. Upto(j) \in SUBSET S /\ j \in Upto(j)
    OBVIOUS
  <2> HIDE DEF Upto
  <2>2. IsFiniteSet(Upto(j)) /\ Cardinality(Upto(j)) <= n
    BY <2>1, FS_Subset
  <2>3. Cardinality(Upto(j)) \in Nat /\ Cardinality(Upto(j)) # 0
    BY <2>1, <2>2, FS_CardinalityType, FS_EmptySet
  <2> QED
    BY <1>1, <2>1, <2>2, <2>3
<1>3. \A i, j \in S : i < j => Cardinality(Upto(i)) # Cardinality(Upto(j))
  <2> SUFFICES ASSUME NEW i \in S, NEW j \in S, i < j,
                      Cardinality(Upto(i)) = Cardinality(Upto(j))
               PROVE  FALSE
    OBVIOUS
  <2>1. Upto(i) \in SUBSET Upto(j) /\ j \in Upto(j) /\ j \notin Upto(i)
    <3>1. \A k \in S : k <= i => k <= j
      OBVIOUS
    <3>2. j <= j /\ ~ (j <= i)
      OBVIOUS
    <3> QED
      BY <3>1, <3>2, Zenon
  <2>2. IsFiniteSet(Upto(j))
    BY <1>2
  <2> HIDE DEF Upto
  <2> QED
    BY <2>1, <2>2, FS_Subset
<1>4. rank \in Injection(S, 1 .. n)
  <2>1. rank \in [S -> 1 .. n]
    BY <1>2
  <2>2. \A i, j \in S : rank[i] = rank[j] => i = j
    BY <1>3
  <2> HIDE DEF rank
  <2> QED
    BY <2>1, <2>2 DEF Injection, IsInjective
<1>5. \A i \in 1 .. n : \E j \in S : Cardinality(Upto(j)) = i
  <2>1. rank \in Surjection(S, 1 .. n)
    <3> HIDE DEF rank
    <3> QED
      BY <1>1, <1>4, FS_Injection
  <2>2. \A i \in 1 .. n : \E j \in S : rank[j] = i
    <3> HIDE DEF rank
    <3> QED
      BY <2>1 DEF Surjection
  <2> QED
    BY <2>2
<1>6. v = [i \in 1 .. n |-> CHOOSE j \in S : Cardinality(Upto(j)) = i]
  BY DEF InOrder
<1>7. \A i \in 1 .. n : v[i] \in S /\ Cardinality(Upto(v[i])) = i
  <2> SUFFICES ASSUME NEW i \in 1 .. n PROVE v[i] \in S /\ Cardinality(Upto(v[i])) = i
    OBVIOUS
  <2>1. v[i] = CHOOSE j \in S : Cardinality(Upto(j)) = i
    BY <1>6
  <2> HIDE DEF Upto, v
  <2> QED
    BY <1>5, <2>1
<1>8. v \in [1 .. n -> S]
  <2>1. DOMAIN v = 1 .. n /\ v = [i \in DOMAIN v |-> v[i]]
    BY <1>6
  <2> HIDE DEF v
  <2> QED
    BY <1>7, <2>1
<1>9. v \in Seq(S)
  BY <1>1, <1>8, SeqDef
<1>10. DOMAIN v = 1 .. n /\ Len(v) = n
  BY <1>1, <1>8, <1>9, LenProperties
<1>11. \A j \in S : \E i \in 1 .. n : v[i] = j
  <2> SUFFICES ASSUME NEW j \in S PROVE \E i \in 1 .. n : v[i] = j
    OBVIOUS
  <2>1. Cardinality(Upto(j)) \in 1 .. n
    BY <1>2
  <2>2. PICK i \in 1 .. n : i = Cardinality(Upto(j))
    BY <2>1
  <2>3. v[i] \in S /\ Cardinality(Upto(v[i])) = Cardinality(Upto(j))
    BY <1>7, <2>2
  <2> HIDE DEF Upto, v, rank, n
  <2>4. \A x, y \in S : Cardinality(Upto(x)) = Cardinality(Upto(y)) => x = y
    <3>1. \A x, y \in S : x < y \/ y < x \/ x = y
      OBVIOUS
    <3> QED
      BY <1>3, <3>1
  <2> QED
    BY <2>3, <2>4
<1>12. Listed(v) = S
  <2> HIDE DEF v
  <2> QED
    BY <1>7, <1>10, <1>11 DEF Listed
<1>13. Distinct(v)
  <2> HIDE DEF v, Upto
  <2> QED
    BY <1>7, <1>10 DEF Distinct
<1> QED
  BY <1>7, <1>9, <1>10, <1>12, <1>13

\* The tasks of some jobs are one for each of them.
LEMMA TasksSeq ==
  ASSUME NEW kind \in {"submit", "fetch"}, NEW js \in Seq(Jobs), Distinct(js)
  PROVE  /\ Tasks(kind, js) \in Seq({"submit", "fetch"} \X Jobs)
         /\ Distinct(Tasks(kind, js))
         /\ \A t \in Listed(Tasks(kind, js)) : t[1] = kind /\ t[2] \in Listed(js)
<1> DEFINE v == Tasks(kind, js)
<1>1. Len(js) \in Nat /\ js \in [1 .. Len(js) -> Jobs] /\ DOMAIN js = 1 .. Len(js)
  BY LenProperties
<1>2. v = [i \in 1 .. Len(js) |-> <<kind, js[i]>>]
  BY <1>1 DEF Tasks
<1>3. v \in [1 .. Len(js) -> {"submit", "fetch"} \X Jobs]
  BY <1>1, <1>2
<1>4. v \in Seq({"submit", "fetch"} \X Jobs)
  BY <1>1, <1>3, SeqDef
<1>5. DOMAIN v = 1 .. Len(js) /\ \A i \in 1 .. Len(js) : v[i] = <<kind, js[i]>>
  BY <1>2
<1> HIDE DEF v
<1>6. Distinct(v)
  BY <1>1, <1>5 DEF Distinct
<1>7. \A t \in Listed(v) : t[1] = kind /\ t[2] \in Listed(js)
  BY <1>1, <1>5 DEF Listed
<1> QED
  BY <1>4, <1>6, <1>7 DEF v

-----------------------------------------------------------------------------
(* The inductive invariant. *)

Reports(j) == results[j] + failures[j]
Async == config.driver = "async"

LEMMA IntervalMembers ==
  ASSUME NEW a \in Int, NEW b \in Int
  PROVE  \A j \in Int : j \in a .. b - 1 <=> (j >= a /\ j < b)
OBVIOUS

\* A job is to be fetched, in flight, to be retried or reported, one of them at a time; the
\* jobs from next on are none of it, and those before it are one of it.
Apart ==
  /\ Distinct(toFetch) /\ Distinct(retry)
  /\ \A j \in Jobs :
       /\ j \in Listed(toFetch) => j \notin inflight /\ j \notin Listed(retry) /\ Reports(j) = 0
       /\ j \in inflight => j \notin Listed(retry) /\ Reports(j) = 0
       /\ j \in Listed(retry) => Reports(j) = 0
       /\ Reports(j) <= 1
       /\ j >= next => /\ j \notin Listed(toFetch) /\ j \notin inflight
                       /\ j \notin Listed(retry) /\ Reports(j) = 0

Accounted ==
  pc # "raised" => \A j \in Jobs \ config.unreadable : j < next =>
    j \in Listed(toFetch) \/ j \in inflight \/ j \in Listed(retry) \/ Reports(j) = 1

\* What a driver still has to do where it is.
Stages ==
  /\ next \in 1 .. JobCount + 1
  /\ pc \notin {"ensure", "raised"} => toFetch = <<>>
  /\ config.driver = "handler" /\ pc \in {"top", "ensure"} => inflight = {}
  /\ pc = "returned" /\ ~ Async => next > JobCount /\ retry = <<>> /\ inflight = {}
  /\ Async => next = 1 /\ pc \in {"top", "register", "returned"}
  /\ pc = "register" => Async

Places == Apart /\ Accounted /\ Stages

Batch ==
  /\ BatchBound
  /\ config.driver = "handler" => Cardinality(inflight) + Len(toFetch) + Len(retry) <= BatchSize

-----------------------------------------------------------------------------
(* What the top of a driver's loop takes up. *)

\* The retries and the new jobs of a cycle.
Picked(again, fresh) ==
  /\ again \in Seq(Jobs) /\ fresh \in Seq(Jobs)
  /\ Distinct(again) /\ Distinct(fresh)
  /\ next' \in next .. JobCount + 1
  /\ Listed(again) \cup Listed(retry') = Listed(retry)
  /\ Listed(again) \cap Listed(retry') = {}
  /\ Listed(fresh) \subseteq next .. next' - 1
  /\ (next .. next' - 1) \ config.unreadable \subseteq Listed(fresh)
  /\ retry' \in Seq(Jobs) /\ Distinct(retry')
  /\ Cardinality(inflight) + Len(again) + Len(fresh) <= BatchSize
  /\ config.driver = "handler" => inflight = {} /\ retry' = <<>>

Submitted(again, fresh) ==
  /\ SubmitAsync(fresh) /\ toFetch' = again \o fresh
  /\ UNCHANGED <<failures, retries>>

Refused(again, fresh) ==
  /\ config.driver = "processor"
  /\ Fail(Listed(fresh)) /\ toFetch' = again
  /\ UNCHANGED <<jobState, submit, queue>>

Ends ==
  /\ \/ pc' = "returned" /\ next > JobCount /\ retry = <<>> /\ inflight = {}
     \/ pc' = "raised"
  /\ UNCHANGED <<next, toFetch, at, retry, retries, nameOf, failures, jobState, submit, queue>>

Takes ==
  \E again, fresh \in Seq(Jobs) :
    /\ Picked(again, fresh)
    /\ Submitted(again, fresh) \/ Refused(again, fresh)
    /\ at' = 1
    /\ pc' \in {"ensure", "wait", "top", "raised"}
    /\ pc' \in {"wait", "top"} => toFetch' = <<>>
    /\ config.driver = "handler" => pc' = "ensure"

LEMMA JobsAreNatural == Jobs \subseteq Nat /\ JobCount \in Nat /\ BatchSize \in Nat
BY ClientAssumption DEF Jobs

LEMMA InflightFinite ==
  ASSUME TypeOK
  PROVE  IsFiniteSet(inflight) /\ Cardinality(inflight) \in Nat /\ IsFiniteSet(Jobs)
<1>1. IsFiniteSet(Jobs)
  BY JobsAreNatural, FS_Interval DEF Jobs
<1>2. inflight \in SUBSET Jobs
  BY DEF TypeOK
<1> QED
  BY <1>1, <1>2, FS_Subset, FS_CardinalityType

LEMMA ProcessorTopEffect ==
  ASSUME TypeOK, Places, Batch, ProcessorTop
  PROVE  Ends \/ Takes
<1> DEFINE capacity == Capacity
           take     == SmallerOf(capacity, Len(retry))
           again    == SubSeq(retry, 1, take)
           news     == SmallerOf(capacity - take, JobCount + 1 - next)
           fresh    == Interval(next, next + news - 1)
<1>1. CASE next > JobCount /\ retry = <<>> /\ inflight = {}
  BY <1>1 DEF ProcessorTop, Ends
<1>2. CASE ~ (next > JobCount /\ retry = <<>> /\ inflight = {})
  <2>1. /\ pc = "top" /\ config.driver = "processor"
        /\ retry' = RetriesLeft(take)
        /\ next' = next + news
        /\ at' = 1
        /\ IF config.queueSet
             THEN /\ SubmitAsync(fresh) /\ toFetch' = again \o fresh
                  /\ UNCHANGED <<failures, retries>>
             ELSE /\ Fail(Listed(fresh)) /\ toFetch' = again
                  /\ UNCHANGED <<jobState, submit, queue>>
        /\ pc' = IF ~ config.queueSet /\ news > 0 /\ config.strict THEN "raised"
                 ELSE IF toFetch' # <<>> THEN "ensure"
                 ELSE IF inflight # {} THEN "wait" ELSE "top"
        /\ UNCHANGED <<config, awaited, inflight, tracked>>
    BY <1>2 DEF ProcessorTop
  <2>2. /\ retry \in Seq(Jobs) /\ Len(retry) \in Nat /\ toFetch \in Seq(Jobs) /\ Len(toFetch) \in Nat
        /\ next \in 1 .. JobCount + 1 /\ Distinct(retry)
    BY LenProperties DEF TypeOK, Places, Stages, Apart
  <2>3. capacity \in Nat /\ Cardinality(inflight) + capacity = BatchSize
    BY <2>2, JobsAreNatural, InflightFinite DEF Batch, BatchBound, Capacity
  <2> HIDE DEF capacity
  <2>4. take \in 0 .. Len(retry) /\ take <= capacity
    BY <2>2, <2>3 DEF SmallerOf
  <2> HIDE DEF take
  <2>5. news \in Nat /\ news + take <= capacity /\ next + news <= JobCount + 1
    BY <2>2, <2>3, <2>4, JobsAreNatural DEF SmallerOf
  <2> HIDE DEF news
  <2>6. /\ again \in Seq(Jobs) /\ retry' \in Seq(Jobs)
        /\ Len(again) = take
        /\ Listed(retry) = Listed(again) \cup Listed(retry')
        /\ Distinct(again) /\ Distinct(retry') /\ Listed(again) \cap Listed(retry') = {}
    BY <2>1, <2>2, <2>4, CutSeq DEF RetriesLeft
  <2> HIDE DEF again
  <2>7. /\ fresh \in Seq(next .. next + news - 1) /\ Len(fresh) = news
        /\ Listed(fresh) = next .. next + news - 1 /\ Distinct(fresh)
    <3>1. next \in Nat /\ next + news - 1 \in Int /\ next + news - 1 + 1 - next = news
      BY <2>2, <2>5, JobsAreNatural
    <3> QED
      BY <2>5, <3>1, IntervalSeq
  <2> HIDE DEF fresh
  <2>8. fresh \in Seq(Jobs)
    <3>1. next .. next + news - 1 \subseteq Jobs
      BY <2>2, <2>5, JobsAreNatural DEF Jobs
    <3> QED
      BY <2>7, <3>1, SeqMonotonic
  <2>9. next' \in next .. JobCount + 1 /\ next + news - 1 = next' - 1
    BY <2>1, <2>2, <2>5, JobsAreNatural
  <2>10. Cardinality(inflight) + Len(again) + Len(fresh) <= BatchSize
    BY <2>3, <2>4, <2>5, <2>6, <2>7, <2>2, JobsAreNatural, InflightFinite
  <2>11. Picked(again, fresh)
    BY <2>1, <2>6, <2>7, <2>8, <2>9, <2>10 DEF Picked
  <2>12. Submitted(again, fresh) \/ Refused(again, fresh)
    BY <2>1 DEF Submitted, Refused
  <2>13. /\ pc' \in {"ensure", "wait", "top", "raised"}
         /\ pc' \in {"wait", "top"} => toFetch' = <<>>
         /\ config.driver # "handler"
    BY <2>1
  <2> QED
    BY <2>1, <2>6, <2>8, <2>11, <2>12, <2>13 DEF Takes
<1> QED
  BY <1>1, <1>2

\* The files of the handler's next batch, and the jobs they give.
News  == SmallerOf(BatchSize - Len(retry), JobCount + 1 - next)
Files == Interval(next, next + News - 1)
Read  == {j \in Listed(Files) : j \notin config.unreadable}
Fresh == InOrder(Read)

LEMMA HandlerPicks ==
  ASSUME TypeOK, Places, Batch, config.driver = "handler", pc = "top"
  PROVE  /\ News \in Nat /\ News + Len(retry) <= BatchSize /\ next + News <= JobCount + 1
         /\ DOMAIN Files = 1 .. News /\ \A i \in 1 .. News : Files[i] = next + i - 1
         /\ Read = (next .. next + News - 1) \ config.unreadable
         /\ Fresh \in Seq(Jobs) /\ Len(Fresh) \in 0 .. News
         /\ Listed(Fresh) = Read /\ Distinct(Fresh)
         /\ \A i \in 1 .. Len(Fresh) : Cardinality({k \in Read : k <= Fresh[i]}) = i
<1>1. /\ retry \in Seq(Jobs) /\ Len(retry) \in Nat /\ toFetch \in Seq(Jobs) /\ Len(toFetch) \in Nat
      /\ next \in 1 .. JobCount + 1
  BY LenProperties DEF TypeOK, Places, Stages
<1>2. Len(retry) <= BatchSize
  BY <1>1, JobsAreNatural, InflightFinite DEF Batch
<1>3. News \in Nat /\ News + Len(retry) <= BatchSize /\ next + News <= JobCount + 1
  BY <1>1, <1>2, JobsAreNatural DEF SmallerOf, News
<1>4. /\ Files \in Seq(next .. next + News - 1) /\ Len(Files) = News
      /\ Listed(Files) = next .. next + News - 1
      /\ \A i \in 1 .. News : Files[i] = next + i - 1
  <2> DEFINE b == next + News - 1
  <2>1. next \in Nat /\ b \in Int /\ b + 1 - next = News
    BY <1>1, <1>3
  <2> HIDE DEF b
  <2>2. /\ Interval(next, b) \in Seq(next .. b) /\ Len(Interval(next, b)) = b + 1 - next
        /\ Listed(Interval(next, b)) = next .. b
        /\ \A i \in 1 .. b + 1 - next : Interval(next, b)[i] = next + i - 1
    BY <1>3, <2>1, IntervalSeq
  <2> QED
    BY <2>1, <2>2 DEF Files, b
<1>5. DOMAIN Files = 1 .. News
  BY <1>4, LenProperties
<1>6. Read = (next .. next + News - 1) \ config.unreadable
  BY <1>4 DEF Read
<1>7. Read \in SUBSET Int /\ IsFiniteSet(Read) /\ Cardinality(Read) \in 0 .. News
  <2> DEFINE b == next + News - 1
  <2>1. next \in Int /\ b \in Int /\ b - next + 1 = News /\ (next > b => News = 0)
    BY <1>1, <1>3
  <2>2. Read \in SUBSET (next .. b)
    BY <1>6
  <2> HIDE DEF b
  <2>3. IsFiniteSet(next .. b) /\ Cardinality(next .. b) = IF next > b THEN 0 ELSE b - next + 1
    BY <2>1, FS_Interval
  <2>4. Cardinality(next .. b) = News
    BY <2>1, <2>3
  <2>5. IsFiniteSet(Read) /\ Cardinality(Read) <= News /\ Cardinality(Read) \in Nat
    BY <2>2, <2>3, <2>4, FS_Subset, FS_CardinalityType
  <2> QED
    BY <1>3, <2>2, <2>5
<1>8. /\ Fresh \in Seq(Read) /\ Len(Fresh) = Cardinality(Read)
      /\ Listed(Fresh) = Read /\ Distinct(Fresh)
      /\ \A i \in 1 .. Len(Fresh) : Cardinality({k \in Read : k <= Fresh[i]}) = i
  BY <1>7, InOrderSeq DEF Fresh
<1>9. Fresh \in Seq(Jobs)
  <2>1. Read \subseteq Jobs
    BY <1>1, <1>3, <1>6, JobsAreNatural DEF Jobs
  <2> QED
    BY <1>8, <2>1, SeqMonotonic
<1> QED
  BY <1>3, <1>4, <1>5, <1>6, <1>7, <1>8, <1>9

\* What HandlerTop does, in these terms.
HandlerBatch ==
  /\ next' = next + News
  /\ tracked' = tracked \cup Listed(Fresh)
  /\ SubmitAsync(Fresh)
  /\ nameOf' = Zipped(Fresh, Files)
  /\ toFetch' = retry \o Fresh
  /\ retry' = <<>> /\ at' = 1
  /\ pc' = "ensure"
  /\ UNCHANGED <<retries, failures>>

LEMMA HandlerTopCases ==
  ASSUME HandlerTop
  PROVE  /\ pc = "top" /\ config.driver = "handler"
         /\ \/ pc' = "returned" /\ next > JobCount /\ retry = <<>>
               /\ UNCHANGED <<next, toFetch, at, retry, retries, nameOf, failures, jobState,
                              submit, queue, tracked>>
            \/ pc' = "raised" /\ tracked' = tracked \cup Listed(Fresh)
               /\ UNCHANGED <<next, toFetch, at, retry, retries, nameOf, failures, jobState,
                              submit, queue>>
            \/ HandlerBatch
BY DEF HandlerTop, HandlerBatch, News, Files, Read, Fresh

LEMMA HandlerTopEffect ==
  ASSUME TypeOK, Places, Batch, HandlerTop
  PROVE  Ends \/ Takes
<1>1. pc = "top" /\ config.driver = "handler"
  BY HandlerTopCases
<1>2. /\ retry \in Seq(Jobs) /\ Len(retry) \in Nat
      /\ next \in 1 .. JobCount + 1 /\ Distinct(retry) /\ inflight = {}
  BY <1>1, LenProperties DEF TypeOK, Places, Stages, Apart
<1>3. CASE HandlerBatch
  <2>1. next' \in next .. JobCount + 1 /\ next + News - 1 = next' - 1
    BY <1>1, <1>2, <1>3, HandlerPicks, JobsAreNatural DEF HandlerBatch
  <2>2. Cardinality(inflight) + Len(retry) + Len(Fresh) <= BatchSize
    BY <1>1, <1>2, HandlerPicks, FS_EmptySet, JobsAreNatural
  <2>3. retry' \in Seq(Jobs) /\ Listed(retry') = {} /\ Distinct(retry')
    BY <1>3, EmptySeq DEF Listed, Distinct, HandlerBatch
  <2>4. Picked(retry, Fresh)
    BY <1>1, <1>2, <1>3, <2>1, <2>2, <2>3, HandlerPicks DEF Picked, HandlerBatch
  <2>5. Submitted(retry, Fresh)
    BY <1>3 DEF Submitted, HandlerBatch
  <2> QED
    BY <1>1, <1>2, <1>3, <2>4, <2>5, HandlerPicks DEF Takes, HandlerBatch
<1> QED
  BY <1>2, <1>3, HandlerTopCases DEF Ends

\* The job at a position of the batch was read from the file at that position, if every file
\* before it could be read.
LEMMA HandlerNames ==
  ASSUME TypeOK, Places, Batch, NamedByItsFile, HandlerTop, config' = config
  PROVE  nameOf' \in [Jobs -> Jobs] /\ NamedByItsFile'
<1>1. pc = "top" /\ config.driver = "handler" /\ nameOf \in [Jobs -> Jobs]
      /\ next \in 1 .. JobCount + 1
  BY HandlerTopCases DEF TypeOK, Places, Stages
<1>2. CASE UNCHANGED nameOf
  BY <1>1, <1>2 DEF NamedByItsFile
<1>3. CASE HandlerBatch
  <2> DEFINE at_(j) == CHOOSE i \in DOMAIN Fresh : Fresh[i] = j
  <2>1. nameOf' = [j \in Jobs |-> IF j \in Listed(Fresh) THEN Files[at_(j)] ELSE nameOf[j]]
    BY <1>3 DEF HandlerBatch, Zipped
  <2>2. \A j \in Listed(Fresh) : at_(j) \in 1 .. Len(Fresh) /\ Fresh[at_(j)] = j
    <3> SUFFICES ASSUME NEW j \in Listed(Fresh) PROVE at_(j) \in 1 .. Len(Fresh) /\ Fresh[at_(j)] = j
      OBVIOUS
    <3>1. Fresh \in Seq(Jobs)
      BY <1>1, HandlerPicks
    <3>2. DOMAIN Fresh = 1 .. Len(Fresh)
      BY <3>1, LenProperties
    <3>3. \E i \in DOMAIN Fresh : Fresh[i] = j
      BY <3>2 DEF Listed
    <3> QED
      BY <3>2, <3>3
  <2> HIDE DEF at_
  <2>3. \A j \in Listed(Fresh) : /\ Files[at_(j)] \in Jobs
                                 /\ Files[at_(j)] = next + at_(j) - 1
    <3> SUFFICES ASSUME NEW j \in Listed(Fresh)
                 PROVE  Files[at_(j)] \in Jobs /\ Files[at_(j)] = next + at_(j) - 1
      OBVIOUS
    <3>1. News \in Nat /\ Len(Fresh) \in 0 .. News /\ next + News <= JobCount + 1
          /\ \A i \in 1 .. News : Files[i] = next + i - 1
      BY <1>1, HandlerPicks
    <3>2. at_(j) \in 1 .. News
      BY <2>2, <3>1
    <3>3. next + at_(j) - 1 \in Jobs
      <4>1. next \in 1 .. JobCount + 1 /\ next + News <= JobCount + 1 /\ News \in Nat
            /\ JobCount \in Nat
        BY <1>1, <3>1, JobsAreNatural
      <4>2. \A i \in 1 .. News : next + i - 1 \in 1 .. JobCount
        BY <4>1
      <4> QED
        BY <3>2, <4>2 DEF Jobs
    <3> QED
      BY <3>1, <3>2, <3>3
  <2>4. nameOf' \in [Jobs -> Jobs]
    BY <1>1, <2>1, <2>3
  <2>5. ASSUME NEW j \in Jobs, \A f \in config.unreadable : f > j, j \in Listed(Fresh)
        PROVE  Files[at_(j)] = j
    <3> DEFINE U == {k \in Read : k <= j}
    <3>1. /\ j \in next .. next + News - 1 /\ News \in Nat
          /\ Read = (next .. next + News - 1) \ config.unreadable
      BY <1>1, <2>5, HandlerPicks
    <3>2. U = next .. j
      <4>1. config.unreadable \subseteq Jobs
        BY DEF TypeOK, Configs
      <4>2. \A f \in config.unreadable : f \in Nat /\ ~ (f <= j)
        BY <2>5, <4>1, JobsAreNatural
      <4> QED
        BY <1>1, <3>1, <4>2
    <3>3. Cardinality(U) = at_(j)
      BY <1>1, <2>2, <2>5, HandlerPicks, SMTT(40)
    <3>4. Cardinality(next .. j) = j - next + 1
      BY <1>1, <3>1, FS_Interval
    <3> HIDE DEF U
    <3>5. at_(j) = j - next + 1
      BY <3>2, <3>3, <3>4
    <3>6. next + (j - next + 1) - 1 = j
      BY <1>1, <3>1
    <3> QED
      BY <2>3, <2>5, <3>5, <3>6
  <2>6. NamedByItsFile'
    BY <2>1, <2>5 DEF NamedByItsFile
  <2> QED
    BY <2>4, <2>6
<1> QED
  BY <1>2, <1>3, HandlerTopCases

-----------------------------------------------------------------------------
(* Where the jobs are. *)

LEMMA InitPlaces == Init => Places
<1> SUFFICES ASSUME Init PROVE Places
  OBVIOUS
<1>1. /\ toFetch = <<>> /\ retry = <<>> /\ inflight = {} /\ next = 1 /\ pc = "top"
      /\ \A j \in Jobs : results[j] = 0 /\ failures[j] = 0
  BY DEF Init
<1>2. Listed(<<>>) = {} /\ Distinct(<<>>)
  BY DEF Listed, Distinct
<1>3. \A j \in Jobs : Reports(j) = 0 /\ ~ (j < next)
  BY <1>1 DEF Reports, Jobs
<1>4. Stages
  BY <1>1, JobsAreNatural DEF Stages
<1>5. Apart
  BY <1>1, <1>2, <1>3 DEF Apart
<1> QED
  BY <1>3, <1>4, <1>5 DEF Places, Accounted

\* The types that the places of the jobs need.
LEMMA PlaceTypes ==
  ASSUME TypeOK
  PROVE  /\ toFetch \in Seq(Jobs) /\ retry \in Seq(Jobs) /\ inflight \subseteq Jobs
         /\ Listed(toFetch) \subseteq Jobs /\ Listed(retry) \subseteq Jobs
         /\ \A j \in Jobs : j \in Nat /\ results[j] \in Nat /\ failures[j] \in Nat /\ Reports(j) \in Nat
         /\ next \in Nat
BY ListedSeq, JobsAreNatural DEF TypeOK, Reports

LEMMA FailedReports ==
  ASSUME TypeOK, NEW S, Fail(S), UNCHANGED results
  PROVE  \A j \in Jobs : Reports(j)' = IF j \in S THEN Reports(j) + 1 ELSE Reports(j)
<1> SUFFICES ASSUME NEW j \in Jobs
             PROVE  Reports(j)' = IF j \in S THEN Reports(j) + 1 ELSE Reports(j)
  OBVIOUS
<1>1. failures'[j] = IF j \in S THEN failures[j] + 1 ELSE failures[j]
  BY DEF Fail
<1>2. results[j] \in Nat /\ failures[j] \in Nat
  BY DEF TypeOK
<1> QED
  BY <1>1, <1>2 DEF Reports

LEMMA PlacesTop ==
  ASSUME TypeOK, Places, pc = "top", ~ Async, Ends \/ Takes, UNCHANGED <<config, inflight, results>>
  PROVE  Places'
<1>1. CASE Ends
  BY <1>1 DEF Ends, Places, Apart, Accounted, Stages, Reports, Async
<1>2. CASE Takes
  <2>1. PICK again \in Seq(Jobs), fresh \in Seq(Jobs) :
             /\ Picked(again, fresh)
             /\ Submitted(again, fresh) \/ Refused(again, fresh)
             /\ pc' \in {"ensure", "wait", "top", "raised"}
             /\ pc' \in {"wait", "top"} => toFetch' = <<>>
             /\ config.driver = "handler" => pc' = "ensure"
    BY <1>2 DEF Takes
  <2>2. /\ Distinct(again) /\ Distinct(fresh) /\ Distinct(retry')
        /\ next \in 1 .. JobCount + 1
        /\ next' \in next .. JobCount + 1
        /\ Listed(again) \cup Listed(retry') = Listed(retry)
        /\ Listed(again) \cap Listed(retry') = {}
        /\ \A j \in Jobs : j \in Listed(fresh) => j >= next /\ j < next'
        /\ \A j \in Jobs : j >= next /\ j < next' /\ j \notin config.unreadable => j \in Listed(fresh)
    <3>1. Picked(again, fresh) /\ next \in 1 .. JobCount + 1
      BY <2>1 DEF Places, Stages
    <3>2. \A j \in Jobs : j \in next .. next' - 1 <=> j >= next /\ j < next'
      <4>1. next \in Int /\ next' \in Int /\ Jobs \subseteq Int
        BY <3>1, JobsAreNatural DEF Picked
      <4> QED
        BY <4>1, IntervalMembers
    <3> QED
      BY <3>1, <3>2 DEF Picked
  <2>3. /\ \A j \in Jobs : j < next' => j < next \/ j >= next
        /\ \A j \in Jobs : j >= next' => j >= next /\ ~ (j < next')
        /\ \A j \in Jobs : j < next => ~ (j >= next)
    BY <2>2, JobsAreNatural
  <2>4. CASE Submitted(again, fresh)
    <3>1. toFetch' = again \o fresh /\ \A j \in Jobs : Reports(j)' = Reports(j)
      BY <2>4 DEF Submitted, Reports
    <3>2. Listed(again) \cap Listed(fresh) = {}
      BY <2>2, ListedSeq DEF Places, Apart
    <3>3. Listed(toFetch') = Listed(again) \cup Listed(fresh) /\ Distinct(toFetch')
      BY <2>1, <2>2, <3>1, <3>2, JoinedSeq
    <3>4. Listed(toFetch)' = Listed(toFetch') /\ Listed(retry)' = Listed(retry') /\ inflight' = inflight
      BY DEF Listed
    <3>5. Apart'
      BY <2>2, <2>3, <3>1, <3>3, <3>4 DEF Places, Apart, Distinct
    <3>6. toFetch = <<>> /\ Listed(toFetch) = {}
      BY ListedSeq, PlaceTypes DEF Places, Stages
    <3>7. Accounted'
      BY <2>2, <2>3, <3>1, <3>3, <3>4, <3>6 DEF Places, Accounted
    <3>8. Stages'
      BY <2>1, <2>2, JobsAreNatural DEF Places, Stages, Async, Picked
    <3> QED
      BY <3>5, <3>7, <3>8 DEF Places
  <2>5. CASE Refused(again, fresh)
    <3>1. /\ toFetch' = again
          /\ \A j \in Jobs : Reports(j)' = IF j \in Listed(fresh) THEN Reports(j) + 1 ELSE Reports(j)
      <4>1. toFetch' = again /\ Fail(Listed(fresh))
        BY <2>5 DEF Refused
      <4> HIDE DEF Reports
      <4> QED
        BY <4>1, FailedReports
    <3>2. Listed(again) \cap Listed(fresh) = {}
      BY <2>2, ListedSeq DEF Places, Apart
    <3>4. Listed(toFetch)' = Listed(again) /\ Listed(retry)' = Listed(retry') /\ inflight' = inflight
      BY <3>1 DEF Listed
    <3>5. \A j \in Listed(fresh) : Reports(j) = 0 /\ Reports(j)' = 1
      BY <2>2, <3>1, ListedSeq DEF Places, Apart
    <3>6. Apart'
      BY <2>2, <2>3, <3>1, <3>2, <3>4, <3>5 DEF Places, Apart, Distinct
    <3>7. toFetch = <<>> /\ Listed(toFetch) = {}
      BY ListedSeq, PlaceTypes DEF Places, Stages
    <3>8. Accounted'
      BY <2>2, <2>3, <3>1, <3>2, <3>4, <3>5, <3>7 DEF Places, Accounted
    <3>9. Stages'
      BY <2>1, <2>2, JobsAreNatural DEF Places, Stages, Async, Picked
    <3> QED
      BY <3>6, <3>8, <3>9 DEF Places
  <2> QED
    BY <2>1, <2>4, <2>5
<1> QED
  BY <1>1, <1>2

LEMMA PlacesFails ==
  ASSUME TypeOK, Places, pc = "ensure", InitiationFails,
         UNCHANGED <<config, next, inflight, retry, results>>
  PROVE  Places'
<1>1. /\ toFetch' = <<>> /\ Listed(toFetch)' = {} /\ Listed(retry)' = Listed(retry)
      /\ Distinct(toFetch)' /\ Distinct(retry)'
  BY DEF InitiationFails, Listed, Places, Apart, Distinct
<1>2. ~ Async
  BY DEF Places, Stages
<1>3. CASE config.driver = "handler"
  <2>1. pc' = "raised" /\ UNCHANGED failures
    BY <1>3 DEF InitiationFails
  <2>2. \A j \in Jobs : Reports(j)' = Reports(j)
    BY <2>1 DEF Reports
  <2>3. Apart'
    BY <1>1, <2>2 DEF Places, Apart
  <2> QED
    BY <1>2, <2>1, <2>3, JobsAreNatural DEF Places, Accounted, Stages, Async
<1>4. CASE config.driver # "handler"
  <2>1. /\ pc' \in {"raised", "top", "wait"}
        /\ \A j \in Jobs : Reports(j)' = IF j \in Listed(toFetch) THEN Reports(j) + 1 ELSE Reports(j)
    BY <1>4, FailedReports DEF InitiationFails
  <2>2. \A j \in Listed(toFetch) : j \in Jobs /\ Reports(j) = 0 /\ Reports(j)' = 1
    BY <2>1, PlaceTypes DEF Places, Apart
  <2>3. Apart'
    BY <1>1, <2>1, <2>2 DEF Places, Apart
  <2>4. Accounted'
    BY <1>1, <2>1, <2>2 DEF Places, Accounted
  <2>5. Stages'
    BY <1>1, <1>2, <1>4, <2>1 DEF Places, Stages, Async
  <2> QED
    BY <2>3, <2>4, <2>5 DEF Places
<1> QED
  BY <1>3, <1>4

LEMMA PlacesLaunch ==
  ASSUME TypeOK, Places, Launch
  PROVE  Places'
<1>1. /\ toFetch' = <<>> /\ Listed(toFetch)' = {} /\ Listed(retry)' = Listed(retry)
      /\ Distinct(toFetch)' /\ Distinct(retry)'
  BY DEF Launch, Listed, Places, Apart, Distinct
<1>2. /\ inflight' = inflight \cup Listed(toFetch) /\ pc = "ensure"
      /\ pc' = (IF inflight' = {} THEN "top" ELSE "wait")
      /\ UNCHANGED <<config, next, retry, results, failures>>
  BY DEF Launch
<1>3. \A j \in Jobs : Reports(j)' = Reports(j)
  BY <1>2 DEF Reports
<1>4. Apart'
  BY <1>1, <1>2, <1>3 DEF Places, Apart
<1>5. Accounted'
  BY <1>1, <1>2, <1>3 DEF Places, Accounted
<1>6. Stages'
  BY <1>1, <1>2 DEF Places, Stages, Async
<1> QED
  BY <1>4, <1>5, <1>6 DEF Places

LEMMA PlacesHandle ==
  ASSUME TypeOK, Places, Handle
  PROVE  Places'
<1>1. PICK j \in done :
        /\ inflight' = inflight \ {j}
        /\ \/ /\ results' = [results EXCEPT ![j] = @ + 1]
              /\ UNCHANGED <<retry, failures>>
           \/ Fail({j}) /\ UNCHANGED <<retry, results>>
           \/ /\ retry' = Append(retry, j)
              /\ UNCHANGED <<results, failures>>
  BY DEF Handle
<1>2. /\ pc = "handle" /\ UNCHANGED <<config, next, toFetch>>
      /\ pc' \in {"handle", "wait", "top"}
      /\ config.driver = "handler" /\ pc' = "top" => inflight' = {}
  BY DEF Handle
<1>3. j \in inflight /\ j \in Jobs /\ Reports(j) = 0 /\ j \notin Listed(retry) /\ j \notin Listed(toFetch)
  BY DEF TypeOK, Places, Apart
<1>4. toFetch = <<>> /\ Listed(toFetch) = {} /\ Listed(toFetch)' = {} /\ Distinct(toFetch)'
  BY <1>2, ListedSeq, PlaceTypes DEF Places, Stages, Apart, Listed, Distinct
<1>5. Stages'
  BY <1>2, <1>4 DEF Places, Stages, Async
<1>6. CASE /\ retry' = Append(retry, j)
           /\ UNCHANGED <<results, failures>>
  <2>1. \A i \in Jobs : Reports(i)' = Reports(i)
    BY <1>6 DEF Reports
  <2>2. Listed(retry)' = Listed(retry) \cup {j} /\ Distinct(retry)'
    <3>1. retry \in Seq(Jobs) /\ Distinct(retry)
      BY PlaceTypes DEF Places, Apart
    <3>2. /\ Listed(Append(retry, j)) = Listed(retry) \cup {j}
          /\ Distinct(Append(retry, j))
      BY <1>3, <3>1, AppendedSeq
    <3> QED
      BY <1>6, <3>2 DEF Listed, Distinct
  <2>3. Apart'
    BY <1>1, <1>2, <1>3, <1>4, <2>1, <2>2 DEF Places, Apart
  <2>4. Accounted'
    BY <1>1, <1>2, <1>4, <2>1, <2>2 DEF Places, Accounted
  <2> QED
    BY <1>5, <2>3, <2>4 DEF Places
<1>7. CASE /\ UNCHANGED retry
           /\ \/ results' = [results EXCEPT ![j] = @ + 1] /\ UNCHANGED failures
              \/ Fail({j}) /\ UNCHANGED results
  <2>1. Reports(j)' = 1 /\ \A i \in Jobs : i # j => Reports(i)' = Reports(i)
    BY <1>3, <1>7, PlaceTypes DEF Reports, Fail, TypeOK
  <2>2. Listed(retry)' = Listed(retry) /\ Distinct(retry)'
    BY <1>7 DEF Listed, Places, Apart, Distinct
  <2>3. Apart'
    BY <1>1, <1>2, <1>3, <1>4, <2>1, <2>2 DEF Places, Apart
  <2>4. Accounted'
    BY <1>1, <1>2, <1>4, <2>1, <2>2 DEF Places, Accounted
  <2> QED
    BY <1>5, <2>3, <2>4 DEF Places
<1> QED
  BY <1>1, <1>6, <1>7

\* A step that only moves the driver along leaves the jobs where they are.
LEMMA PlacesFrame ==
  ASSUME Places, Stages', UNCHANGED <<config, next, toFetch, inflight, retry, results, failures>>,
         pc = "raised" => pc' = "raised"
  PROVE  Places'
BY DEF Places, Apart, Accounted, Listed, Distinct, Reports

LEMMA PlacesStep ==
  ASSUME TypeOK, Places, Batch, [Next]_vars
  PROVE  Places'
<1>1. CASE ProcessorTop
  <2>1. pc = "top" /\ ~ Async /\ UNCHANGED <<config, inflight, results>>
    BY <1>1 DEF ProcessorTop, Async
  <2> QED
    BY <1>1, <2>1, ProcessorTopEffect, PlacesTop
<1>2. CASE HandlerTop
  <2>1. pc = "top" /\ ~ Async /\ UNCHANGED <<config, inflight, results>>
    BY <1>2 DEF HandlerTop, Async
  <2> QED
    BY <1>2, <2>1, HandlerTopEffect, PlacesTop
<1>3. CASE EnsureOne
  <2>1. CASE InitiationFails
    <3>1. pc = "ensure" /\ UNCHANGED <<config, next, inflight, retry, results>>
      BY <1>3 DEF EnsureOne
    <3> QED
      BY <2>1, <3>1, PlacesFails
  <2>2. CASE UNCHANGED <<pc, toFetch, failures, retries>>
    <3>1. UNCHANGED <<pc, config, next, toFetch, inflight, retry, results, failures>>
      BY <1>3, <2>2 DEF EnsureOne
    <3>2. Stages'
      BY <3>1 DEF Places, Stages, Async
    <3> QED
      BY <3>1, <3>2, PlacesFrame
  <2> QED
    BY <1>3, <2>1, <2>2 DEF EnsureOne
<1>4. CASE EnsureAwaits
  <2>1. CASE InitiationFails
    <3>1. pc = "ensure" /\ UNCHANGED <<config, next, inflight, retry, results>>
      BY <1>4 DEF EnsureAwaits
    <3> QED
      BY <2>1, <3>1, PlacesFails
  <2>2. CASE UNCHANGED <<pc, toFetch, at, failures, retries>>
    <3>1. UNCHANGED <<pc, config, next, toFetch, inflight, retry, results, failures>>
      BY <1>4, <2>2 DEF EnsureAwaits
    <3>2. Stages'
      BY <3>1 DEF Places, Stages, Async
    <3> QED
      BY <3>1, <3>2, PlacesFrame
  <2> QED
    BY <1>4, <2>1, <2>2 DEF EnsureAwaits
<1>5. CASE Launch
  BY <1>5, PlacesLaunch
<1>6. CASE Wait
  <2>1. /\ UNCHANGED <<config, next, toFetch, inflight, retry, results, failures>>
        /\ pc = "wait" /\ pc' = "handle"
    BY <1>6 DEF Wait
  <2>2. Stages'
    BY <2>1 DEF Places, Stages, Async
  <2> QED
    BY <2>1, <2>2, PlacesFrame
<1>7. CASE Handle
  BY <1>7, PlacesHandle
<1>8. CASE AsyncTop
  <2>1. /\ UNCHANGED <<config, next, toFetch, inflight, retry, results, failures>>
        /\ pc = "top" /\ pc' = "register" /\ Async
    BY <1>8 DEF AsyncTop, Async
  <2>2. Stages'
    BY <2>1 DEF Places, Stages, Async
  <2> QED
    BY <2>1, <2>2, PlacesFrame
<1>9. CASE Register
  <2>1. /\ UNCHANGED <<config, next, toFetch, inflight, retry, results, failures>>
        /\ pc = "register" /\ pc' \in {"register", "returned"}
    BY <1>9 DEF Register
  <2>2. Stages'
    BY <2>1 DEF Places, Stages, Async
  <2> QED
    BY <2>1, <2>2, PlacesFrame
<1>10. CASE UNCHANGED main
  <2>1. UNCHANGED <<config, pc, next, toFetch, inflight, retry, results, failures>>
    BY <1>10 DEF main
  <2>2. Stages'
    BY <2>1 DEF Places, Stages, Async
  <2> QED
    BY <2>1, <2>2, PlacesFrame
<1>11. ASSUME NEW j \in Jobs, Worker(j) \/ SubmitFault(j) \/ FetchFault(j) \/ ServerWorks(j)
       PROVE  UNCHANGED main
  BY <1>11 DEF Worker, SubmitAnswer, SubmitIdent, FetchAnswer, CallbackFetches, Tally, Merge,
               Combine, SubmitFault, FetchFault, ServerWorks
<1>12. StartTask \/ UNCHANGED vars => UNCHANGED main
  BY DEF StartTask, vars
<1> QED
  BY <1>1, <1>2, <1>3, <1>4, <1>5, <1>6, <1>7, <1>8, <1>9, <1>10, <1>11, <1>12 DEF Next, Driver

-----------------------------------------------------------------------------
(* The batch. *)

LEMMA InitBatch == Init => Batch
<1> SUFFICES ASSUME Init PROVE Batch
  OBVIOUS
<1>1. Cardinality(inflight) = 0 /\ Len(toFetch) = 0 /\ Len(retry) = 0
  BY FS_EmptySet, EmptySeq DEF Init
<1> QED
  BY <1>1, JobsAreNatural DEF Batch, BatchBound

LEMMA BatchFewer ==
  ASSUME TypeOK, Batch, toFetch' = <<>>, UNCHANGED <<config, inflight, retry>>
  PROVE  Batch'
<1>1. Len(toFetch') = 0 /\ Len(toFetch) \in Nat /\ Len(retry) \in Nat
  BY PlaceTypes, LenProperties, EmptySeq
<1> QED
  BY <1>1, InflightFinite, JobsAreNatural DEF Batch, BatchBound

LEMMA BatchTop ==
  ASSUME TypeOK, Places, Batch, Ends \/ Takes, UNCHANGED <<config, inflight>>
  PROVE  Batch'
<1>1. CASE Ends
  BY <1>1 DEF Ends, Batch, BatchBound
<1>2. CASE Takes
  <2>1. PICK again \in Seq(Jobs), fresh \in Seq(Jobs) :
             /\ Picked(again, fresh)
             /\ Submitted(again, fresh) \/ Refused(again, fresh)
    BY <1>2 DEF Takes
  <2>2. Len(again) \in Nat /\ Len(fresh) \in Nat /\ Cardinality(inflight) \in Nat
    BY LenProperties, InflightFinite
  <2>3. Cardinality(inflight) + Len(again) + Len(fresh) <= BatchSize
    BY <2>1 DEF Picked
  <2>4. toFetch' = again \o fresh \/ toFetch' = again
    BY <2>1 DEF Submitted, Refused
  <2>5. Len(toFetch') <= Len(again) + Len(fresh) /\ Len(toFetch') \in Nat
    BY <2>2, <2>4, JoinedSeq
  <2>6. config.driver = "handler" => Len(retry') = 0
    BY <2>1, EmptySeq DEF Picked
  <2> QED
    BY <2>2, <2>3, <2>5, <2>6, JobsAreNatural DEF Batch, BatchBound
<1> QED
  BY <1>1, <1>2

LEMMA BatchLaunch ==
  ASSUME TypeOK, Batch, Launch
  PROVE  Batch'
<1>1. /\ inflight' = inflight \cup Listed(toFetch) /\ toFetch' = <<>>
      /\ UNCHANGED <<config, retry>>
  BY DEF Launch
<1>2. /\ IsFiniteSet(Listed(toFetch)) /\ Cardinality(Listed(toFetch)) <= Len(toFetch)
      /\ IsFiniteSet(inflight) /\ Cardinality(inflight) \in Nat
      /\ Len(toFetch) \in Nat /\ Len(retry) \in Nat
  BY PlaceTypes, ListedFinite, InflightFinite, LenProperties
<1>3. Cardinality(Listed(toFetch)) \in Nat
  BY <1>2, FS_CardinalityType
<1> DEFINE both == Cardinality(inflight \cap Listed(toFetch))
<1>4. Cardinality(inflight') = Cardinality(inflight) + Cardinality(Listed(toFetch)) - both
  BY <1>1, <1>2, FS_Union
<1>5. both \in Nat
  BY <1>2, FS_Intersection, FS_CardinalityType
<1>6. Len(toFetch') = 0
  BY <1>1, EmptySeq
<1> HIDE DEF both
<1>7. Cardinality(inflight') \in Int /\ Cardinality(inflight') <= Cardinality(inflight) + Len(toFetch)
  BY <1>2, <1>3, <1>4, <1>5
<1> QED
  BY <1>1, <1>2, <1>6, <1>7, JobsAreNatural DEF Batch, BatchBound

LEMMA BatchHandle ==
  ASSUME TypeOK, Batch, Handle
  PROVE  Batch'
<1>1. PICK j \in done :
        /\ inflight' = inflight \ {j}
        /\ UNCHANGED retry \/ retry' = Append(retry, j)
  BY DEF Handle
<1>2. UNCHANGED <<config, toFetch>>
  BY DEF Handle
<1>3. /\ retry \in Seq(Jobs) /\ Len(retry) \in Nat /\ Len(toFetch) \in Nat
      /\ IsFiniteSet(inflight) /\ Cardinality(inflight) \in Nat /\ j \in inflight /\ j \in Jobs
  BY PlaceTypes, InflightFinite, LenProperties DEF TypeOK
<1>4. Cardinality(inflight') = Cardinality(inflight) - 1
  BY <1>1, <1>3, FS_RemoveElement
<1>5. Len(retry') \in Nat /\ Len(retry') <= Len(retry) + 1
  BY <1>1, <1>3, AppendedSeq
<1> QED
  BY <1>2, <1>3, <1>4, <1>5, JobsAreNatural DEF Batch, BatchBound

LEMMA BatchStep ==
  ASSUME TypeOK, Places, Batch, [Next]_vars
  PROVE  Batch'
<1>1. CASE ProcessorTop
  <2>1. UNCHANGED <<config, inflight>>
    BY <1>1 DEF ProcessorTop
  <2> QED
    BY <1>1, <2>1, ProcessorTopEffect, BatchTop
<1>2. CASE HandlerTop
  <2>1. UNCHANGED <<config, inflight>>
    BY <1>2 DEF HandlerTop
  <2> QED
    BY <1>2, <2>1, HandlerTopEffect, BatchTop
<1>3. CASE Launch
  BY <1>3, BatchLaunch
<1>4. CASE Handle
  BY <1>4, BatchHandle
<1>5. CASE UNCHANGED <<config, inflight, retry, toFetch>>
  BY <1>5 DEF Batch, BatchBound
<1>6. CASE UNCHANGED <<config, inflight, retry>> /\ InitiationFails
  BY <1>6, BatchFewer DEF InitiationFails
<1>7. ASSUME EnsureOne \/ EnsureAwaits
      PROVE  /\ UNCHANGED <<config, inflight, retry>>
             /\ InitiationFails \/ UNCHANGED toFetch
  BY <1>7 DEF EnsureOne, EnsureAwaits
<1>8. ASSUME Wait \/ AsyncTop \/ Register
      PROVE  UNCHANGED <<config, inflight, retry, toFetch>>
  BY <1>8 DEF Wait, AsyncTop, Register
<1>9. UNCHANGED main => UNCHANGED <<config, inflight, retry, toFetch>>
  BY DEF main
<1>10. ASSUME NEW j \in Jobs, Worker(j) \/ SubmitFault(j) \/ FetchFault(j) \/ ServerWorks(j)
       PROVE  UNCHANGED main
  BY <1>10 DEF Worker, SubmitAnswer, SubmitIdent, FetchAnswer, CallbackFetches, Tally, Merge,
               Combine, SubmitFault, FetchFault, ServerWorks
<1>11. StartTask \/ UNCHANGED vars => UNCHANGED main
  BY DEF StartTask, vars
<1> QED
  BY <1>1, <1>2, <1>3, <1>4, <1>5, <1>6, <1>7, <1>8, <1>9, <1>10, <1>11 DEF Next, Driver

-----------------------------------------------------------------------------
(* Types. *)

MainTypes ==
  /\ config \in Configs
  /\ pc \in {"top", "ensure", "wait", "handle", "register", "returned", "raised"}
  /\ next \in Nat /\ at \in Nat
  /\ toFetch \in Seq(Jobs) /\ retry \in Seq(Jobs)
  /\ awaited \subseteq Jobs /\ inflight \subseteq Jobs /\ done \subseteq inflight
  /\ retries \in [Jobs -> Nat]
  /\ results \in [Jobs -> Nat] /\ failures \in [Jobs -> Nat]

States == {"PENDING", "SUBMITTED_ASYNC", "SUBMITTED", "PROCESSING"} \cup Terminal
Submits == {"none", "queued", "running", "marked", "markedNoId"} \cup EndedSubmit
Fetches == {"none", "queued", "running"} \cup EndedFetch
Callbacks == {"none", "registered", "starting", "running", "tallied", "merged", "done"}
Served == {"none", "working", "good", "bad", "taken"}

WorkTypes ==
  /\ jobState \in [Jobs -> States]
  /\ tracked \subseteq Jobs /\ hasId \subseteq Jobs
  /\ queue \in Seq({"submit", "fetch"} \X Jobs)
  /\ submit \in [Jobs -> Submits]
  /\ fetch \in [Jobs -> Fetches]
  /\ attempts \in [Jobs -> Nat] /\ faults \in Nat
  /\ callback \in [Jobs -> Callbacks]
  /\ completed \subseteq Jobs /\ merged \subseteq completed
  /\ combined \in {"pending", "resolved"}
  /\ server \in [Jobs -> Served] /\ lost \subseteq Jobs

LEMMA TypesSplit == TypeOK <=> MainTypes /\ WorkTypes /\ nameOf \in [Jobs -> Jobs]
BY DEF TypeOK, MainTypes, WorkTypes, States, Submits, Fetches, Callbacks, Served

LEMMA TypesSplitNext == MainTypes' /\ WorkTypes' /\ nameOf' \in [Jobs -> Jobs] => TypeOK'
BY DEF TypeOK, MainTypes, WorkTypes, States, Submits, Fetches, Callbacks, Served

LEMMA InitTypes == Init => TypeOK
<1> SUFFICES ASSUME Init PROVE TypeOK
  OBVIOUS
<1>1. /\ <<>> \in Seq(Jobs) /\ <<>> \in Seq({"submit", "fetch"} \X Jobs)
  BY EmptySeq
<1>2. MainTypes
  BY <1>1 DEF Init, MainTypes
<1>3. WorkTypes
  BY <1>1 DEF Init, WorkTypes, States, Submits, Fetches, Callbacks, Served
<1>4. nameOf \in [Jobs -> Jobs]
  BY DEF Init
<1> QED
  BY <1>2, <1>3, <1>4, TypesSplit

\* Positions are counted from 1.
Position == at # 0

LEMMA PositionStep ==
  ASSUME TypeOK, Position, [Next]_vars
  PROVE  Position'
<1>1. at' \in {at, 1, at + 1}
  <2>1. ASSUME Driver PROVE at' \in {at, 1, at + 1}
    BY <2>1 DEF Driver, ProcessorTop, HandlerTop, EnsureOne, EnsureAwaits, InitiationFails, Launch,
                Wait, Handle, AsyncTop, Register
  <2>2. ASSUME NEW j \in Jobs, Worker(j) \/ SubmitFault(j) \/ FetchFault(j) \/ ServerWorks(j)
         PROVE  UNCHANGED main
    BY <2>2 DEF Worker, SubmitAnswer, SubmitIdent, FetchAnswer, CallbackFetches, Tally, Merge,
                Combine, SubmitFault, FetchFault, ServerWorks
  <2>3. StartTask \/ UNCHANGED vars => UNCHANGED main
    BY DEF StartTask, vars
  <2> QED
    BY <2>1, <2>2, <2>3 DEF Next, main
<1>2. at \in Nat
  BY DEF TypeOK
<1> QED
  BY <1>1, <1>2 DEF Position

LEMMA SubmitAsyncTypes ==
  ASSUME WorkTypes, NEW js \in Seq(Jobs), Distinct(js), SubmitAsync(js)
  PROVE  /\ jobState' \in [Jobs -> States] /\ submit' \in [Jobs -> Submits]
         /\ queue' \in Seq({"submit", "fetch"} \X Jobs)
<1>1. Tasks("submit", js) \in Seq({"submit", "fetch"} \X Jobs)
  BY TasksSeq
<1>2. queue' \in Seq({"submit", "fetch"} \X Jobs)
  BY <1>1, JoinedSeq DEF SubmitAsync, WorkTypes
<1>3. jobState' \in [Jobs -> States]
  BY DEF SubmitAsync, WorkTypes, States
<1>4. submit' \in [Jobs -> Submits]
  BY DEF SubmitAsync, WorkTypes, Submits
<1> QED
  BY <1>2, <1>3, <1>4

LEMMA FailTypes ==
  ASSUME MainTypes, NEW S, Fail(S)
  PROVE  failures' \in [Jobs -> Nat] /\ retries' \in [Jobs -> Nat]
BY DEF MainTypes, Fail

LEMMA TypesTop ==
  ASSUME TypeOK, Places, Ends \/ Takes,
         UNCHANGED <<config, awaited, inflight, done, results, hasId, fetch, attempts, async, outside>>,
         tracked' \subseteq Jobs
  PROVE  MainTypes' /\ WorkTypes'
<1>1. MainTypes /\ WorkTypes
  BY TypesSplit
<1>2. CASE Ends
  <2>1. MainTypes'
    BY <1>1, <1>2 DEF Ends, MainTypes
  <2>2. WorkTypes'
    BY <1>1, <1>2 DEF Ends, WorkTypes, async, outside
  <2> QED
    BY <2>1, <2>2
<1>3. CASE Takes
  <2>1. PICK again \in Seq(Jobs), fresh \in Seq(Jobs) :
             /\ Picked(again, fresh)
             /\ Submitted(again, fresh) \/ Refused(again, fresh)
             /\ at' = 1
             /\ pc' \in {"ensure", "wait", "top", "raised"}
    BY <1>3 DEF Takes
  <2>2. next' \in Nat /\ retry' \in Seq(Jobs) /\ Distinct(fresh)
    BY <2>1, JobsAreNatural DEF Picked, Places, Stages
  <2>3. CASE Submitted(again, fresh)
    <3>1. toFetch' \in Seq(Jobs) /\ UNCHANGED <<failures, retries>>
      BY <2>3, JoinedSeq DEF Submitted
    <3>2. MainTypes'
      BY <1>1, <2>1, <2>2, <3>1 DEF MainTypes
    <3>3. /\ jobState' \in [Jobs -> States] /\ submit' \in [Jobs -> Submits]
          /\ queue' \in Seq({"submit", "fetch"} \X Jobs)
      BY <1>1, <2>2, <2>3, SubmitAsyncTypes DEF Submitted
    <3>4. WorkTypes'
      BY <1>1, <3>3 DEF WorkTypes, async, outside
    <3> QED
      BY <3>2, <3>4
  <2>4. CASE Refused(again, fresh)
    <3>1. /\ failures' \in [Jobs -> Nat] /\ retries' \in [Jobs -> Nat] /\ toFetch' = again
          /\ UNCHANGED <<jobState, submit, queue>>
      BY <1>1, <2>4, FailTypes DEF Refused
    <3>2. MainTypes'
      BY <1>1, <2>1, <2>2, <3>1 DEF MainTypes
    <3>3. WorkTypes'
      BY <1>1, <3>1 DEF WorkTypes, async, outside
    <3> QED
      BY <3>2, <3>3
  <2> QED
    BY <2>1, <2>3, <2>4
<1> QED
  BY <1>2, <1>3

LEMMA TypesFails ==
  ASSUME MainTypes, InitiationFails,
         UNCHANGED <<config, next, inflight, done, retry, results>>
  PROVE  MainTypes'
<1>1. /\ toFetch' = <<>> /\ awaited' = {} /\ at' = 1
      /\ UNCHANGED <<failures, retries>> \/ Fail(Listed(toFetch))
      /\ pc' \in {"raised", "top", "wait"}
  BY DEF InitiationFails
<1>2. failures' \in [Jobs -> Nat] /\ retries' \in [Jobs -> Nat] /\ toFetch' \in Seq(Jobs)
  BY <1>1, FailTypes, EmptySeq DEF MainTypes
<1> QED
  BY <1>1, <1>2 DEF MainTypes

LEMMA TypesDriver ==
  ASSUME TypeOK, Position, Places, Batch, NamedByItsFile, Driver
  PROVE  TypeOK'
<1>1. MainTypes /\ WorkTypes /\ nameOf \in [Jobs -> Jobs]
  BY TypesSplit
<1>2. CASE ProcessorTop
  <2>1. /\ UNCHANGED <<config, awaited, inflight, done, results, hasId, fetch, attempts, async, outside>>
        /\ UNCHANGED <<nameOf, tracked>>
    BY <1>2 DEF ProcessorTop
  <2>2. Ends \/ Takes
    BY <1>2, ProcessorTopEffect
  <2> QED
    BY <1>1, <2>1, <2>2, TypesTop, TypesSplitNext DEF WorkTypes
<1>3. CASE HandlerTop
  <2>1. /\ UNCHANGED <<config, awaited, inflight, done, results, hasId, fetch, attempts, async, outside>>
    BY <1>3 DEF HandlerTop
  <2>2. tracked' \subseteq Jobs
    <3>1. Listed(Fresh) \subseteq Jobs
      BY <1>3, HandlerTopCases, HandlerPicks, ListedSeq
    <3> QED
      BY <1>1, <1>3, <3>1, HandlerTopCases DEF WorkTypes, HandlerBatch
  <2>3. Ends \/ Takes
    BY <1>3, HandlerTopEffect
  <2>4. nameOf' \in [Jobs -> Jobs]
    BY <1>3, <2>1, HandlerNames
  <2>5. MainTypes' /\ WorkTypes'
    BY <2>1, <2>2, <2>3, TypesTop
  <2> QED
    BY <2>4, <2>5, TypesSplitNext
<1>4. CASE EnsureOne
  <2>1. UNCHANGED <<config, next, inflight, done, retry, nameOf, results, workers, async, outside>>
    BY <1>4 DEF EnsureOne
  <2>2. MainTypes'
    <3>1. CASE InitiationFails
      BY <1>1, <2>1, <3>1, TypesFails
    <3>2. CASE ~ InitiationFails
      <4>1. /\ at' = at + 1 /\ awaited' \in {awaited, awaited \cup {toFetch[at]}}
            /\ UNCHANGED <<pc, toFetch, failures, retries>> /\ at <= Len(toFetch)
            /\ pc = "ensure"
        BY <1>4, <3>2 DEF EnsureOne
      <4>2. at \in Nat /\ Len(toFetch) \in Nat
        BY <1>1, LenProperties DEF MainTypes
      <4>3. toFetch[at] \in Jobs
        <5>1. at \in 1 .. Len(toFetch)
          BY <4>1, <4>2 DEF Position
        <5> QED
          BY <1>1, <5>1, ElementOfSeq DEF MainTypes
      <4> QED
        BY <1>1, <2>1, <4>1, <4>2, <4>3, SMTT(40) DEF MainTypes
    <3> QED
      BY <3>1, <3>2
  <2>3. WorkTypes'
    BY <1>1, <2>1 DEF WorkTypes, workers, async, outside
  <2> QED
    BY <1>1, <2>1, <2>2, <2>3, TypesSplitNext
<1>5. CASE EnsureAwaits
  <2>1. UNCHANGED <<config, next, inflight, done, retry, nameOf, results, tracked, hasId, queue,
                    submit, fetch, attempts, async, outside>>
    BY <1>5 DEF EnsureAwaits
  <2>2. PICK j \in awaited :
          \/ InitiationFails /\ UNCHANGED jobState
          \/ /\ jobState' = [jobState EXCEPT ![j] = "SUBMITTED"]
             /\ awaited' = awaited \ {j}
             /\ UNCHANGED <<pc, toFetch, at, failures, retries>>
    BY <1>5 DEF EnsureAwaits
  <2>3. jobState' \in [Jobs -> States]
    BY <1>1, <2>2 DEF WorkTypes, States
  <2>4. WorkTypes'
    BY <1>1, <2>1, <2>3 DEF WorkTypes, async, outside
  <2>5. MainTypes'
    <3>1. CASE InitiationFails
      BY <1>1, <2>1, <3>1, TypesFails
    <3>2. CASE ~ InitiationFails
      BY <1>1, <2>1, <2>2, <3>2 DEF MainTypes
    <3> QED
      BY <3>1, <3>2
  <2> QED
    BY <1>1, <2>1, <2>4, <2>5, TypesSplitNext
<1>6. CASE Launch
  <2>1. /\ UNCHANGED <<config, next, awaited, done, retry, retries, nameOf, results, failures,
                       jobState, tracked, hasId, submit, attempts, async, outside>>
        /\ queue' = queue \o Tasks("fetch", toFetch)
        /\ fetch' = [j \in Jobs |-> IF j \in Listed(toFetch) THEN "queued" ELSE fetch[j]]
        /\ inflight' = inflight \cup Listed(toFetch)
        /\ toFetch' = <<>> /\ at' = 1
        /\ pc' \in {"top", "wait"}
    BY <1>6 DEF Launch
  <2>2. toFetch' \in Seq(Jobs) /\ Listed(toFetch) \subseteq Jobs
    BY <1>1, <2>1, EmptySeq, PlaceTypes
  <2>3. MainTypes'
    BY <1>1, <2>1, <2>2 DEF MainTypes
  <2>4. queue' \in Seq({"submit", "fetch"} \X Jobs)
    <3>1. Tasks("fetch", toFetch) \in Seq({"submit", "fetch"} \X Jobs)
      BY <1>1, TasksSeq DEF MainTypes, Places, Apart
    <3> QED
      BY <1>1, <2>1, <3>1, JoinedSeq DEF WorkTypes
  <2>5. fetch' \in [Jobs -> Fetches]
    BY <1>1, <2>1 DEF WorkTypes, Fetches
  <2>6. WorkTypes'
    BY <1>1, <2>1, <2>4, <2>5 DEF WorkTypes, async, outside
  <2> QED
    BY <1>1, <2>1, <2>3, <2>6, TypesSplitNext
<1>7. CASE Wait
  <2>1. MainTypes'
    BY <1>1, <1>7 DEF Wait, MainTypes
  <2>2. WorkTypes' /\ UNCHANGED nameOf
    BY <1>1, <1>7 DEF Wait, WorkTypes, workers, async, outside
  <2> QED
    BY <1>1, <2>1, <2>2, TypesSplitNext
<1>8. CASE Handle
  <2>1. PICK j \in done :
          /\ done' = done \ {j}
          /\ inflight' = inflight \ {j}
          /\ fetch' = [fetch EXCEPT ![j] = "none"]
          /\ \/ /\ results' = [results EXCEPT ![j] = @ + 1]
                /\ retries' = [retries EXCEPT ![j] = 0]
                /\ UNCHANGED <<retry, failures>>
             \/ Fail({j}) /\ UNCHANGED <<retry, results>>
             \/ /\ retry' = Append(retry, j)
                /\ retries' \in {retries, [retries EXCEPT ![j] = @ + 1]}
                /\ UNCHANGED <<results, failures>>
    BY <1>8 DEF Handle
  <2>2. /\ UNCHANGED <<config, next, toFetch, at, awaited, nameOf, jobState, tracked, hasId, queue,
                       submit, attempts, async, outside>>
        /\ pc' \in {"handle", "wait", "top"}
    BY <1>8 DEF Handle
  <2>3. j \in Jobs
    BY <1>1 DEF MainTypes
  <2>4. /\ results' \in [Jobs -> Nat] /\ failures' \in [Jobs -> Nat] /\ retries' \in [Jobs -> Nat]
        /\ retry' \in Seq(Jobs)
    <3>1. CASE Fail({j}) /\ UNCHANGED <<retry, results>>
      BY <1>1, <3>1, FailTypes DEF MainTypes
    <3>2. CASE /\ results' = [results EXCEPT ![j] = @ + 1]
               /\ retries' = [retries EXCEPT ![j] = 0]
               /\ UNCHANGED <<retry, failures>>
      BY <1>1, <3>2 DEF MainTypes
    <3>3. CASE /\ retry' = Append(retry, j)
               /\ retries' \in {retries, [retries EXCEPT ![j] = @ + 1]}
               /\ UNCHANGED <<results, failures>>
      <4>1. retry' \in Seq(Jobs)
        BY <1>1, <2>3, <3>3, AppendedSeq DEF MainTypes
      <4> QED
        BY <1>1, <3>3, <4>1 DEF MainTypes
    <3> QED
      BY <2>1, <3>1, <3>2, <3>3
  <2>5. MainTypes'
    BY <1>1, <2>1, <2>2, <2>4 DEF MainTypes
  <2>6. WorkTypes'
    BY <1>1, <2>1, <2>2 DEF WorkTypes, Fetches, async, outside
  <2> QED
    BY <1>1, <2>2, <2>5, <2>6, TypesSplitNext
<1>9. CASE AsyncTop
  <2>1. /\ UNCHANGED <<config, next, toFetch, awaited, inflight, done, retry, retries, nameOf, results,
                       failures, tracked, hasId, fetch, attempts, async, outside>>
        /\ SubmitAsync(Interval(1, JobCount)) /\ pc' = "register" /\ at' = 1
    BY <1>9 DEF AsyncTop
  <2>2. MainTypes'
    BY <1>1, <2>1 DEF MainTypes
  <2>3. Interval(1, JobCount) \in Seq(Jobs) /\ Distinct(Interval(1, JobCount))
    BY IntervalSeq, JobsAreNatural DEF Jobs
  <2>4. WorkTypes'
    BY <1>1, <2>1, <2>3, SubmitAsyncTypes DEF WorkTypes, async, outside
  <2> QED
    BY <1>1, <2>1, <2>2, <2>4, TypesSplitNext
<1>10. CASE Register
  <2>1. /\ UNCHANGED <<config, next, toFetch, awaited, inflight, done, retry, retries, nameOf, results,
                       failures, workers, completed, merged, combined, outside>>
        /\ pc' \in {"register", "returned"} /\ at' \in {at, at + 1}
        /\ \/ UNCHANGED callback
           \/ callback' = [callback EXCEPT ![at] = "starting"]
           \/ callback' = [callback EXCEPT ![at] = "registered"]
    BY <1>1, <1>10 DEF Register, AlreadyDone, MainTypes
  <2>2. MainTypes'
    BY <1>1, <2>1 DEF MainTypes
  <2>3. WorkTypes'
    BY <1>1, <2>1 DEF WorkTypes, Callbacks, workers, outside
  <2> QED
    BY <1>1, <2>1, <2>2, <2>3, TypesSplitNext
<1> QED
  BY <1>2, <1>3, <1>4, <1>5, <1>6, <1>7, <1>8, <1>9, <1>10 DEF Driver

-----------------------------------------------------------------------------
(* Each job. *)

\* Its submission has had its answer, whatever it was.
Past(j) == submit[j] \in {"marked", "markedNoId", "ok", "error"}

\* A job is only fetched after its submission, and what was decoded is forgotten.
Sent(j) ==
  /\ jobState[j] = "SUBMITTED" \/ fetch[j] # "none" \/ results[j] > 0 => Past(j)
  /\ fetch[j] \in {"good", "bad"} \/ results[j] > 0 => server[j] = "taken" /\ j \notin tracked

\* The property TakenIsKept of one job.
Kept(j) ==
  server[j] = "taken" /\ j \notin lost => fetch[j] \in {"good", "bad"} \/ Reports(j) = 1

\* The drivers that have no callbacks fetch the jobs in flight, after submitting them.
Driven(j) ==
  ~ Async => /\ fetch[j] # "none" => j \in inflight
             /\ j >= next => submit[j] = "none"
             /\ callback[j] = "none" /\ j \notin completed

\* A callback runs after its submission, fetches, and then counts the job.
Called(j) ==
  Async => /\ pc = "top" => callback[j] = "none" /\ submit[j] = "none"
           /\ callback[j] \in {"none", "registered", "starting"} <=> fetch[j] = "none"
           /\ callback[j] \notin {"none", "registered"} => submit[j] \in EndedSubmit
           /\ callback[j] \in {"tallied", "merged", "done"} => fetch[j] \in EndedFetch
           /\ j \in completed <=> callback[j] \in {"tallied", "merged", "done"}
           /\ j \in completed => jobState[j] \in Terminal

JobInv(j) == Sent(j) /\ Kept(j) /\ Driven(j) /\ Called(j)

Jobwise == \A j \in Jobs : JobInv(j)

\* The tasks of the executor are those of the futures that wait for a thread.
Queued ==
  /\ Distinct(queue)
  /\ \A t \in Listed(queue) :
       IF t[1] = "submit" THEN submit[t[2]] = "queued" ELSE fetch[t[2]] = "queued"

\* _ensure_submitted goes on to a job when the one before is waited for or has its answer.
Ensured ==
  pc = "ensure" => \A i \in 1 .. Len(toFetch) :
    i < at => toFetch[i] \in awaited \/ Past(toFetch[i])

AllCalled == combined = "resolved" => completed = Jobs

LEMMA InitJobwise == Init => Jobwise /\ Queued /\ Ensured /\ AllCalled /\ Position /\ NamedByItsFile
<1> SUFFICES ASSUME Init PROVE Jobwise /\ Queued /\ Ensured /\ AllCalled /\ Position /\ NamedByItsFile
  OBVIOUS
<1>1. ASSUME NEW j \in Jobs PROVE JobInv(j)
  BY <1>1 DEF Init, JobInv, Sent, Kept, Driven, Called, Terminal, EndedFetch, EndedSubmit
<1>2. Queued
  BY DEF Init, Queued, Distinct, Listed
<1> QED
  BY <1>1, <1>2 DEF Init, Jobwise, Ensured, AllCalled, Position, NamedByItsFile

\* A step keeps the invariant of a job of which it changes nothing.
LEMMA SameJob ==
  ASSUME NEW i \in Jobs, JobInv(i),
         UNCHANGED <<config, pc, next>>,
         i \in inflight => i \in inflight',
         jobState'[i] = jobState[i], submit'[i] = submit[i], fetch'[i] = fetch[i],
         callback'[i] = callback[i], server'[i] = server[i],
         results'[i] = results[i], failures'[i] = failures[i],
         i \in tracked' <=> i \in tracked, i \in lost' <=> i \in lost,
         i \in completed' <=> i \in completed
  PROVE  JobInv(i)'
BY DEF JobInv, Sent, Kept, Driven, Called, Past, Reports, Async

\* What a step of a worker, or of the service, leaves alone of the other jobs.
Others(j) ==
  /\ UNCHANGED main
  /\ \A i \in Jobs \ {j} :
       /\ jobState'[i] = jobState[i] /\ submit'[i] = submit[i] /\ fetch'[i] = fetch[i]
       /\ callback'[i] = callback[i] /\ server'[i] = server[i]
       /\ i \in tracked' <=> i \in tracked
       /\ i \in lost' <=> i \in lost
       /\ i \in completed' <=> i \in completed

LEMMA OthersKeep ==
  ASSUME NEW j \in Jobs, Jobwise, Others(j), JobInv(j)'
  PROVE  Jobwise'
<1> SUFFICES ASSUME NEW i \in Jobs PROVE JobInv(i)'
  BY DEF Jobwise
<1>1. CASE i = j
  BY <1>1
<1>2. CASE i # j
  <2>1. /\ jobState'[i] = jobState[i] /\ submit'[i] = submit[i] /\ fetch'[i] = fetch[i]
        /\ callback'[i] = callback[i] /\ server'[i] = server[i]
        /\ i \in tracked' <=> i \in tracked
        /\ i \in lost' <=> i \in lost
        /\ i \in completed' <=> i \in completed
    BY <1>2 DEF Others
  <2>2. UNCHANGED <<config, pc, next, inflight, results, failures>> /\ JobInv(i)
    BY DEF Others, main, Jobwise
  <2> QED
    BY <2>1, <2>2, SameJob
<1> QED
  BY <1>1, <1>2

LEMMA WorkerEffect ==
  ASSUME TypeOK, NEW j \in Jobs,
         \/ SubmitAnswer(j) \/ SubmitIdent(j) \/ FetchAnswer(j)
         \/ CallbackFetches(j) \/ Tally(j) \/ Merge(j) \/ Combine(j)
         \/ SubmitFault(j) \/ FetchFault(j) \/ ServerWorks(j)
  PROVE  Others(j)
<1>1. WorkTypes
  BY TypesSplit
<1>2. CASE SubmitAnswer(j)
  BY <1>1, <1>2 DEF SubmitAnswer, WorkTypes, Others, async
<1>3. CASE SubmitIdent(j)
  BY <1>1, <1>3 DEF SubmitIdent, EndSubmit, WorkTypes, Others, outside
<1>4. CASE FetchAnswer(j)
  BY <1>1, <1>4 DEF FetchAnswer, FetchFails, PopJobState, WorkTypes, Others, async
<1>5. CASE CallbackFetches(j)
  BY <1>1, <1>5 DEF CallbackFetches, FetchFails, WorkTypes, Others, outside
<1>6. CASE Tally(j)
  BY <1>1, <1>6 DEF Tally, Counted, WorkTypes, Others, outside
<1>7. CASE Merge(j)
  BY <1>1, <1>7 DEF Merge, WorkTypes, Others, outside, workers
<1>8. CASE Combine(j)
  BY <1>1, <1>8 DEF Combine, WorkTypes, Others, outside, workers
<1>9. CASE SubmitFault(j)
  BY <1>1, <1>9 DEF SubmitFault, SubmitRefused, EndSubmit, WorkTypes, Others
<1>10. CASE FetchFault(j)
  BY <1>1, <1>10 DEF FetchFault, LoseResult, FetchFails, WorkTypes, Others, async
<1>11. CASE ServerWorks(j)
  BY <1>1, <1>11 DEF ServerWorks, WorkTypes, Others, async, workers
<1> QED
  BY <1>2, <1>3, <1>4, <1>5, <1>6, <1>7, <1>8, <1>9, <1>10, <1>11

\* What the driver has is as before.
LEMMA SameMain ==
  ASSUME UNCHANGED main
  PROVE  UNCHANGED <<config, pc, next, inflight, results, failures, toFetch, at, awaited>>
BY DEF main

LEMMA SubmitAnswerKeeps ==
  ASSUME TypeOK, NEW j \in Jobs, JobInv(j), SubmitAnswer(j)
  PROVE  JobInv(j)'
<1>1. UNCHANGED <<config, pc, next, inflight, results, failures>>
  BY SameMain DEF SubmitAnswer
<1>2. /\ submit[j] = "running" /\ submit'[j] = "marked"
      /\ jobState'[j] = "SUBMITTED" /\ server'[j] = "working"
      /\ UNCHANGED <<fetch, callback, tracked, lost, completed>>
  BY TypesSplit DEF SubmitAnswer, WorkTypes, async
<1>3. ~ Past(j) /\ Past(j)'
  BY <1>2 DEF Past
<1>4. Sent(j)'
  BY <1>1, <1>2, <1>3 DEF JobInv, Sent
<1>5. Kept(j)' /\ Driven(j)'
  BY <1>1, <1>2 DEF JobInv, Kept, Driven, Async
<1>6. Called(j)'
  BY <1>1, <1>2 DEF JobInv, Called, Async, EndedSubmit, EndedFetch
<1> QED
  BY <1>4, <1>5, <1>6 DEF JobInv

LEMMA SubmitIdentKeeps ==
  ASSUME TypeOK, NEW j \in Jobs, JobInv(j), SubmitIdent(j)
  PROVE  JobInv(j)'
<1>1. UNCHANGED <<config, pc, next, inflight, results, failures>>
  BY SameMain DEF SubmitIdent
<1>2. /\ submit[j] \in {"marked", "markedNoId"} /\ submit'[j] = "ok"
      /\ callback'[j] = (IF callback[j] = "registered" THEN "starting" ELSE callback[j])
      /\ UNCHANGED <<jobState, fetch, server, tracked, lost, completed>>
  BY TypesSplit DEF SubmitIdent, EndSubmit, WorkTypes, outside
<1>3. Past(j)'
  BY <1>2 DEF Past
<1>4. Sent(j)'
  BY <1>1, <1>2, <1>3 DEF JobInv, Sent
<1>5. Kept(j)' /\ Driven(j)'
  BY <1>1, <1>2 DEF JobInv, Kept, Driven, Async, Reports
<1>6. Called(j)'
  BY <1>1, <1>2 DEF JobInv, Called, Async, EndedSubmit, EndedFetch
<1> QED
  BY <1>4, <1>5, <1>6 DEF JobInv

LEMMA SubmitFaultKeeps ==
  ASSUME TypeOK, NEW j \in Jobs, JobInv(j), SubmitFault(j)
  PROVE  JobInv(j)'
<1>1. UNCHANGED <<config, pc, next, inflight, results, failures>>
  BY SameMain DEF SubmitFault
<1>2. /\ submit[j] = "running"
      /\ \/ submit'[j] = "running" /\ callback' = callback /\ jobState' = jobState
         \/ submit'[j] = "markedNoId" /\ callback' = callback /\ jobState'[j] = "SUBMITTED"
         \/ /\ submit'[j] = "error" /\ jobState'[j] = "FAILED"
            /\ callback'[j] = IF callback[j] = "registered" THEN "starting" ELSE callback[j]
      /\ server'[j] \in {server[j], "working"}
      /\ UNCHANGED <<fetch, tracked, lost, completed>>
  BY TypesSplit DEF SubmitFault, SubmitRefused, EndSubmit, WorkTypes
<1>3. ~ Past(j) /\ fetch[j] = "none" /\ ~ (results[j] > 0)
  BY <1>2 DEF Past, JobInv, Sent
<1>4. Sent(j)'
  BY <1>1, <1>2, <1>3 DEF JobInv, Sent, Past
<1>5. Kept(j)' /\ Driven(j)'
  BY <1>1, <1>2 DEF JobInv, Kept, Driven, Async, Reports
<1>6. Called(j)'
  BY <1>1, <1>2 DEF JobInv, Called, Async, EndedSubmit, EndedFetch
<1> QED
  BY <1>4, <1>5, <1>6 DEF JobInv

LEMMA FetchAnswerKeeps ==
  ASSUME TypeOK, NEW j \in Jobs, JobInv(j), FetchAnswer(j)
  PROVE  JobInv(j)'
<1>1. UNCHANGED <<config, pc, next, inflight, results, failures>>
  BY SameMain DEF FetchAnswer
<1>2. /\ fetch[j] = "running"
      /\ \/ /\ fetch'[j] \in {"good", "bad"} /\ server'[j] = "taken" /\ j \notin tracked'
            /\ jobState'[j] = "PROCESSING"
         \/ /\ fetch'[j] \in {"running", "notReady"} /\ server[j] = "working"
            /\ UNCHANGED <<server, jobState, tracked>>
            /\ fetch'[j] = "running" \/ fetch'[j] \in EndedFetch
         \/ fetch'[j] = "error" /\ jobState'[j] = "FAILED" /\ UNCHANGED <<server, tracked>>
      /\ UNCHANGED <<submit, callback, lost, completed>>
  BY TypesSplit DEF FetchAnswer, FetchFails, PopJobState, WorkTypes, async, EndedFetch
<1>3. Past(j) /\ Past(j)'
  BY <1>2 DEF Past, JobInv, Sent
<1>4. Sent(j)'
  BY <1>1, <1>2, <1>3 DEF JobInv, Sent
<1>5. Kept(j)' /\ Driven(j)'
  BY <1>1, <1>2 DEF JobInv, Kept, Driven, Async, Reports
<1>6. Called(j)'
  BY <1>1, <1>2 DEF JobInv, Called, Async, EndedSubmit, EndedFetch
<1> QED
  BY <1>4, <1>5, <1>6 DEF JobInv

LEMMA FetchFaultKeeps ==
  ASSUME TypeOK, NEW j \in Jobs, JobInv(j), FetchFault(j)
  PROVE  JobInv(j)'
<1>1. UNCHANGED <<config, pc, next, inflight, results, failures>>
  BY SameMain DEF FetchFault
<1>2. /\ fetch[j] = "running" /\ fetch'[j] \in {"running", "error"}
      /\ jobState'[j] \in {jobState[j], "FAILED"}
      /\ \/ server'[j] = "taken" /\ j \in lost'
         \/ UNCHANGED <<server, lost>>
      /\ UNCHANGED <<submit, callback, tracked, completed>>
  BY TypesSplit DEF FetchFault, LoseResult, FetchFails, WorkTypes, async
<1>3. Past(j) /\ Past(j)'
  BY <1>2 DEF Past, JobInv, Sent
<1>4. Sent(j)'
  BY <1>1, <1>2, <1>3 DEF JobInv, Sent
<1>5. Kept(j)' /\ Driven(j)'
  BY <1>1, <1>2 DEF JobInv, Kept, Driven, Async, Reports
<1>6. Called(j)'
  BY <1>1, <1>2 DEF JobInv, Called, Async, EndedSubmit, EndedFetch
<1> QED
  BY <1>4, <1>5, <1>6 DEF JobInv

LEMMA CallbackFetchesKeeps ==
  ASSUME TypeOK, NEW j \in Jobs, JobInv(j), CallbackFetches(j)
  PROVE  JobInv(j)'
<1>1. UNCHANGED <<config, pc, next, inflight, results, failures>>
  BY SameMain DEF CallbackFetches
<1>2. /\ callback[j] = "starting" /\ callback'[j] = "running"
      /\ fetch'[j] \in {"running", "error"}
      /\ jobState'[j] \in {jobState[j], "FAILED"}
      /\ UNCHANGED <<submit, server, tracked, lost, completed>>
  BY TypesSplit DEF CallbackFetches, FetchFails, WorkTypes, outside
<1>3. Async /\ fetch[j] = "none" /\ submit[j] \in EndedSubmit /\ j \notin completed
  BY <1>2 DEF JobInv, Driven, Called
<1>4. Past(j) /\ Past(j)'
  BY <1>2, <1>3 DEF Past, EndedSubmit
<1>5. Sent(j)'
  BY <1>1, <1>2, <1>3, <1>4 DEF JobInv, Sent
<1>6. Kept(j)'
  BY <1>1, <1>2, <1>3 DEF JobInv, Kept, Reports
<1>7. Driven(j)'
  BY <1>1, <1>3 DEF Driven, Async
<1>8. Called(j)'
  BY <1>1, <1>2, <1>3 DEF JobInv, Called, Async, EndedFetch
<1> QED
  BY <1>5, <1>6, <1>7, <1>8 DEF JobInv

LEMMA TallyKeeps ==
  ASSUME TypeOK, NEW j \in Jobs, JobInv(j), Tally(j)
  PROVE  JobInv(j)'
<1>1. UNCHANGED <<config, pc, next, inflight, results, failures>>
  BY SameMain DEF Tally
<1>2. /\ callback[j] = "running" /\ callback'[j] = "tallied" /\ fetch[j] \in EndedFetch
      /\ jobState'[j] \in Terminal /\ j \in completed'
      /\ UNCHANGED <<submit, fetch, server, tracked, lost>>
  BY TypesSplit DEF Tally, Counted, WorkTypes, outside, Terminal
<1>3. jobState'[j] # "SUBMITTED" /\ (Past(j)' <=> Past(j)) /\ Async
  BY <1>2 DEF Terminal, Past, JobInv, Driven
<1>4. Sent(j)'
  BY <1>1, <1>2, <1>3 DEF JobInv, Sent
<1>5. Kept(j)' /\ Driven(j)'
  BY <1>1, <1>2, <1>3 DEF JobInv, Kept, Driven, Async, Reports
<1>6. Called(j)'
  BY <1>1, <1>2 DEF JobInv, Called, Async
<1> QED
  BY <1>4, <1>5, <1>6 DEF JobInv

\* The end of a callback changes nothing but where it is.
LEMMA CallbackEnds ==
  ASSUME NEW j \in Jobs, JobInv(j),
         UNCHANGED <<main, jobState, submit, fetch, server, tracked, lost, completed>>,
         callback[j] \in {"tallied", "merged"}, callback'[j] \in {"merged", "done"}
  PROVE  JobInv(j)'
<1>1. UNCHANGED <<config, pc, next, inflight, results, failures>>
  BY SameMain
<1>2. (Past(j)' <=> Past(j)) /\ Async
  BY DEF Past, JobInv, Driven
<1>3. Sent(j)'
  BY <1>1, <1>2 DEF JobInv, Sent
<1>4. Kept(j)' /\ Driven(j)'
  BY <1>1, <1>2 DEF JobInv, Kept, Driven, Async, Reports
<1>5. Called(j)'
  BY <1>1 DEF JobInv, Called, Async
<1> QED
  BY <1>3, <1>4, <1>5 DEF JobInv

LEMMA ServerWorksKeeps ==
  ASSUME TypeOK, NEW j \in Jobs, JobInv(j), ServerWorks(j)
  PROVE  JobInv(j)'
<1>1. UNCHANGED <<config, pc, next, inflight, results, failures>>
  BY SameMain DEF ServerWorks
<1>2. /\ server[j] = "working" /\ server'[j] \in {"good", "bad"}
      /\ UNCHANGED <<jobState, submit, fetch, callback, tracked, lost, completed>>
  BY TypesSplit DEF ServerWorks, WorkTypes, workers, async
<1>3. Past(j)' <=> Past(j)
  BY <1>2 DEF Past
<1>4. Sent(j)'
  BY <1>1, <1>2, <1>3 DEF JobInv, Sent
<1>5. Kept(j)' /\ Driven(j)' /\ Called(j)'
  BY <1>1, <1>2 DEF JobInv, Kept, Driven, Called, Async, Reports
<1> QED
  BY <1>4, <1>5 DEF JobInv

LEMMA WorkersJobwise ==
  ASSUME TypeOK, Jobwise, NEW j \in Jobs,
         Worker(j) \/ SubmitFault(j) \/ FetchFault(j) \/ ServerWorks(j)
  PROVE  Jobwise'
<1>1. JobInv(j)
  BY DEF Jobwise
<1>2. Others(j)
  BY WorkerEffect DEF Worker
<1>3. ASSUME Merge(j) \/ Combine(j) PROVE JobInv(j)'
  <2>1. UNCHANGED <<main, jobState, submit, fetch, server, tracked, lost, completed>>
    BY <1>3 DEF Merge, Combine, workers, outside
  <2>2. callback[j] \in {"tallied", "merged"} /\ callback'[j] \in {"merged", "done"}
    BY <1>3, TypesSplit DEF Merge, Combine, WorkTypes
  <2> QED
    BY <1>1, <2>1, <2>2, CallbackEnds
<1>4. JobInv(j)'
  BY <1>1, <1>3, SubmitAnswerKeeps, SubmitIdentKeeps, SubmitFaultKeeps, FetchAnswerKeeps,
     FetchFaultKeeps, CallbackFetchesKeeps, TallyKeeps, ServerWorksKeeps DEF Worker
<1> QED
  BY <1>2, <1>4, OthersKeep

-----------------------------------------------------------------------------
(* The executor. *)

\* What a worker thread does with the task it takes.
Started(kind, j) ==
  /\ queue # <<>> /\ Head(queue) = <<kind, j>> /\ queue' = Tail(queue)
  /\ UNCHANGED <<main, tracked, hasId, async, outside>>
  /\ attempts' = [attempts EXCEPT ![j] = 0]
  /\ \/ /\ kind = "submit" /\ submit' = [submit EXCEPT ![j] = "running"]
        /\ UNCHANGED <<fetch, jobState>>
     \/ /\ kind = "fetch" /\ UNCHANGED submit
        /\ \/ fetch' = [fetch EXCEPT ![j] = "error"] /\ UNCHANGED jobState
           \/ /\ fetch' = [fetch EXCEPT ![j] = "error"]
              /\ jobState' = [jobState EXCEPT ![j] = "FAILED"]
           \/ fetch' = [fetch EXCEPT ![j] = "running"] /\ UNCHANGED jobState

LEMMA StartTaskEffect ==
  ASSUME TypeOK, Queued, StartTask
  PROVE  \E kind \in {"submit", "fetch"}, j \in Jobs :
           /\ Started(kind, j)
           /\ queue' \in Seq({"submit", "fetch"} \X Jobs)
           /\ Distinct(queue') /\ Listed(queue') = Listed(queue) \ {<<kind, j>>}
           /\ kind = "submit" => submit[j] = "queued"
           /\ kind = "fetch" => fetch[j] = "queued"
<1>1. queue \in Seq({"submit", "fetch"} \X Jobs) /\ queue # <<>> /\ Distinct(queue)
      /\ queue' = Tail(queue)
  BY DEF TypeOK, Queued, StartTask
<1>2. /\ Head(queue) \in Listed(queue) /\ Tail(queue) \in Seq({"submit", "fetch"} \X Jobs)
      /\ Distinct(Tail(queue)) /\ Listed(Tail(queue)) = Listed(queue) \ {Head(queue)}
  BY <1>1, TailedSeq
<1>3. Head(queue) \in {"submit", "fetch"} \X Jobs
  BY <1>1, <1>2, ListedSeq
<1>4. PICK kind \in {"submit", "fetch"} : \E j \in Jobs : Head(queue) = <<kind, j>>
  BY <1>3
<1>5. PICK j \in Jobs : Head(queue) = <<kind, j>>
  BY <1>4
<1>6. Head(queue)[1] = kind /\ Head(queue)[2] = j
  BY <1>5
<1>7. Started(kind, j)
  BY <1>1, <1>5, <1>6 DEF StartTask, Started
<1>8. (kind = "submit" => submit[j] = "queued") /\ (kind = "fetch" => fetch[j] = "queued")
  BY <1>2, <1>6 DEF Queued
<1> QED
  BY <1>1, <1>2, <1>5, <1>7, <1>8

LEMMA StartTaskKeeps ==
  ASSUME TypeOK, Queued, Jobwise, StartTask
  PROVE  Queued' /\ Jobwise' /\ TypeOK'
<1>1. PICK kind \in {"submit", "fetch"}, j \in Jobs :
           /\ Started(kind, j)
           /\ queue' \in Seq({"submit", "fetch"} \X Jobs)
           /\ Distinct(queue') /\ Listed(queue') = Listed(queue) \ {<<kind, j>>}
           /\ kind = "submit" => submit[j] = "queued"
           /\ kind = "fetch" => fetch[j] = "queued"
  BY StartTaskEffect
<1>2. UNCHANGED main /\ UNCHANGED <<config, pc, next, inflight, results, failures>>
  BY <1>1, SameMain DEF Started
<1>3. MainTypes /\ WorkTypes /\ nameOf \in [Jobs -> Jobs]
  BY TypesSplit
<1>4. UNCHANGED <<callback, completed, merged, combined, server, lost, faults, tracked, hasId>>
  BY <1>1 DEF Started, async, outside
<1>5. TypeOK'
  <2>1. MainTypes' /\ nameOf' \in [Jobs -> Jobs]
    BY <1>2, <1>3 DEF MainTypes, main
  <2>2. WorkTypes'
    BY <1>1, <1>3, <1>4 DEF WorkTypes, Started, States, Submits, Fetches, Terminal, EndedFetch
  <2> QED
    BY <2>1, <2>2, TypesSplitNext
<1>6. Others(j)
  BY <1>1, <1>2, <1>3, <1>4 DEF Others, Started, WorkTypes
<1>7. JobInv(j)'
  <2>1. JobInv(j)
    BY DEF Jobwise
  <2>2. CASE kind = "submit"
    <3>1. submit[j] = "queued" /\ submit'[j] = "running" /\ UNCHANGED <<fetch, jobState>>
      BY <1>1, <1>3, <2>2 DEF Started, WorkTypes
    <3>2. ~ Past(j)
      BY <3>1 DEF Past
    <3>3. Sent(j)' /\ Kept(j)' /\ Driven(j)'
      BY <1>2, <1>4, <2>1, <3>1, <3>2 DEF JobInv, Sent, Kept, Driven, Async, Reports
    <3>4. Called(j)'
      BY <1>2, <1>4, <2>1, <3>1 DEF JobInv, Called, Async, EndedSubmit
    <3> QED
      BY <3>3, <3>4 DEF JobInv
  <2>3. CASE kind = "fetch"
    <3>1. /\ fetch[j] = "queued" /\ fetch'[j] \in {"running", "error"} /\ UNCHANGED submit
          /\ jobState'[j] \in {jobState[j], "FAILED"}
      BY <1>1, <1>3, <2>3 DEF Started, WorkTypes
    <3>2. Past(j)' /\ Past(j)
      BY <2>1, <3>1 DEF Past, JobInv, Sent
    <3>3. Sent(j)'
      BY <1>2, <1>4, <2>1, <3>1, <3>2 DEF JobInv, Sent
    <3>4. Kept(j)' /\ Driven(j)'
      BY <1>2, <1>4, <2>1, <3>1 DEF JobInv, Kept, Driven, Async, Reports
    <3>5. Called(j)'
      BY <1>2, <1>4, <2>1, <3>1 DEF JobInv, Called, Async, EndedFetch
    <3> QED
      BY <3>3, <3>4, <3>5 DEF JobInv
  <2> QED
    BY <1>1, <2>2, <2>3
<1>8. Jobwise'
  BY <1>6, <1>7, OthersKeep
<1>9. Queued'
  <2> SUFFICES ASSUME NEW t \in Listed(queue')
               PROVE  IF t[1] = "submit" THEN submit'[t[2]] = "queued" ELSE fetch'[t[2]] = "queued"
    BY <1>1 DEF Queued, Distinct, Listed
  <2>1. queue \in Seq({"submit", "fetch"} \X Jobs)
    BY <1>3 DEF WorkTypes
  <2>2. t \in Listed(queue) /\ t # <<kind, j>> /\ t \in {"submit", "fetch"} \X Jobs
    BY <1>1, <2>1, ListedSeq
  <2>3. IF t[1] = "submit" THEN submit[t[2]] = "queued" ELSE fetch[t[2]] = "queued"
    BY <2>2 DEF Queued
  <2>4. t[1] # kind \/ t[2] # j
    BY <2>2
  <2> QED
    BY <1>1, <1>3, <2>2, <2>3, <2>4 DEF Started, WorkTypes
<1> QED
  BY <1>5, <1>8, <1>9

\* A step that leaves the queue alone, and the futures that wait in it.
LEMMA QueuedFrame ==
  ASSUME TypeOK, Queued, queue' = queue,
         \A j \in Jobs : submit[j] = "queued" => submit'[j] = "queued",
         \A j \in Jobs : fetch[j] = "queued" => fetch'[j] = "queued"
  PROVE  Queued'
<1>1. queue \in Seq({"submit", "fetch"} \X Jobs)
  BY DEF TypeOK
<1>2. \A t \in Listed(queue) : t[2] \in Jobs
  BY <1>1, ListedSeq
<1> QED
  BY <1>2 DEF Queued, Distinct, Listed

LEMMA WorkersQueued ==
  ASSUME TypeOK, Queued, Jobwise, NEW j \in Jobs,
         Worker(j) \/ SubmitFault(j) \/ FetchFault(j) \/ ServerWorks(j)
  PROVE  Queued'
<1>1. Others(j)
  BY WorkerEffect DEF Worker
<1>2. WorkTypes /\ JobInv(j)
  BY TypesSplit DEF Jobwise
<1>3. queue' = queue /\ (submit[j] = "queued" => submit'[j] = "queued")
      /\ (fetch[j] = "queued" => fetch'[j] = "queued")
  <2>1. CASE SubmitAnswer(j) \/ SubmitIdent(j) \/ SubmitFault(j)
    BY <1>2, <2>1 DEF SubmitAnswer, SubmitIdent, SubmitFault, EndSubmit, WorkTypes
  <2>2. CASE FetchAnswer(j) \/ FetchFault(j)
    BY <1>2, <2>2 DEF FetchAnswer, FetchFault, WorkTypes
  <2>3. CASE CallbackFetches(j)
    <3>1. fetch[j] = "none"
      BY <1>2, <2>3 DEF CallbackFetches, JobInv, Driven, Called
    <3> QED
      BY <2>3, <3>1 DEF CallbackFetches
  <2>4. CASE Tally(j) \/ Merge(j) \/ Combine(j) \/ ServerWorks(j)
    BY <2>4 DEF Tally, Merge, Combine, ServerWorks, workers
  <2> QED
    BY <2>1, <2>2, <2>3, <2>4 DEF Worker
<1>4. \A i \in Jobs : /\ submit[i] = "queued" => submit'[i] = "queued"
                      /\ fetch[i] = "queued" => fetch'[i] = "queued"
  BY <1>1, <1>3 DEF Others
<1> QED
  BY <1>3, <1>4, QueuedFrame

LEMMA WorkersTypes ==
  ASSUME TypeOK, Jobwise, NEW j \in Jobs,
         Worker(j) \/ SubmitFault(j) \/ FetchFault(j) \/ ServerWorks(j)
  PROVE  TypeOK'
<1>1. MainTypes /\ WorkTypes /\ nameOf \in [Jobs -> Jobs]
  BY TypesSplit
<1>2. UNCHANGED main
  BY WorkerEffect DEF Worker, Others
<1>3. MainTypes' /\ nameOf' \in [Jobs -> Jobs]
  BY <1>1, <1>2 DEF MainTypes, main
<1>4. CASE SubmitAnswer(j)
  BY <1>1, <1>3, <1>4, TypesSplitNext DEF SubmitAnswer, WorkTypes, States, Submits, Served, async
<1>5. CASE SubmitIdent(j)
  BY <1>1, <1>3, <1>5, TypesSplitNext DEF SubmitIdent, EndSubmit, WorkTypes, Submits, EndedSubmit,
       Callbacks, outside
<1>6. CASE SubmitFault(j)
  <2>1. /\ jobState' \in [Jobs -> States] /\ submit' \in [Jobs -> Submits]
        /\ callback' \in [Jobs -> Callbacks] /\ attempts' \in [Jobs -> Nat]
    <3>1. /\ \/ jobState' = jobState
             \/ jobState' = [jobState EXCEPT ![j] = "SUBMITTED"]
             \/ jobState' = [jobState EXCEPT ![j] = "FAILED"]
          /\ \/ submit' = submit
             \/ submit' = [submit EXCEPT ![j] = "markedNoId"]
             \/ submit' = [submit EXCEPT ![j] = "error"]
          /\ callback' = callback \/ callback' = [callback EXCEPT ![j] = "starting"]
          /\ attempts' = attempts \/ attempts' = [attempts EXCEPT ![j] = @ + 1]
      BY <1>6 DEF SubmitFault, SubmitRefused, EndSubmit
    <3>2. jobState' \in [Jobs -> States]
      BY <1>1, <3>1 DEF WorkTypes, States, Terminal
    <3>3. submit' \in [Jobs -> Submits]
      BY <1>1, <3>1 DEF WorkTypes, Submits, EndedSubmit
    <3>4. callback' \in [Jobs -> Callbacks] /\ attempts' \in [Jobs -> Nat]
      BY <1>1, <3>1 DEF WorkTypes, Callbacks
    <3> QED
      BY <3>2, <3>3, <3>4
  <2>2. server' \in [Jobs -> Served] /\ faults' \in Nat
    <3>1. (server' = server \/ server' = [server EXCEPT ![j] = "working"]) /\ faults' = faults + 1
      BY <1>6 DEF SubmitFault
    <3>2. server \in [Jobs -> Served] /\ faults \in Nat /\ "working" \in Served
      BY <1>1 DEF WorkTypes, Served
    <3>3. server' \in [Jobs -> Served]
      BY <3>1, <3>2
    <3> QED
      BY <3>1, <3>2, <3>3
  <2> QED
    BY <1>1, <1>3, <1>6, <2>1, <2>2, TypesSplitNext DEF SubmitFault, WorkTypes
<1>7. CASE FetchAnswer(j)
  <2>1. /\ jobState' \in [Jobs -> States] /\ fetch' \in [Jobs -> Fetches]
        /\ server' \in [Jobs -> Served] /\ tracked' \subseteq Jobs /\ attempts' \in [Jobs -> Nat]
    <3>1. /\ \/ jobState' = jobState
             \/ jobState' = [jobState EXCEPT ![j] = "PROCESSING"]
             \/ jobState' = [jobState EXCEPT ![j] = "FAILED"]
          /\ server' = server \/ server' = [server EXCEPT ![j] = "taken"]
          /\ tracked' = tracked \/ tracked' = tracked \ {j}
          /\ attempts' = [attempts EXCEPT ![j] = 0]
      BY <1>7 DEF FetchAnswer, FetchFails, PopJobState
    <3>2. \E x \in Fetches : fetch' = [fetch EXCEPT ![j] = x]
      <4>1. \E x \in {server[j], "notReady", fetch[j], "error"} : fetch' = [fetch EXCEPT ![j] = x]
        BY <1>7 DEF FetchAnswer, FetchFails
      <4>2. \A x : fetch' = [fetch EXCEPT ![j] = x] => x = fetch'[j]
        BY <1>1 DEF WorkTypes
      <4>3. fetch'[j] \in Fetches
        BY <1>1, <1>7 DEF FetchAnswer, FetchFails, WorkTypes, Fetches, EndedFetch
      <4> QED
        BY <4>1, <4>2, <4>3
    <3>3. jobState' \in [Jobs -> States]
      BY <1>1, <3>1 DEF WorkTypes, States, Terminal
    <3>4. fetch' \in [Jobs -> Fetches]
      BY <1>1, <3>2 DEF WorkTypes
    <3>5. server' \in [Jobs -> Served] /\ tracked' \subseteq Jobs /\ attempts' \in [Jobs -> Nat]
      BY <1>1, <3>1 DEF WorkTypes, Served
    <3> QED
      BY <3>3, <3>4, <3>5
  <2> QED
    BY <1>1, <1>3, <1>7, <2>1, TypesSplitNext DEF FetchAnswer, WorkTypes, async
<1>8. CASE FetchFault(j)
  <2>1. /\ jobState' \in [Jobs -> States] /\ fetch' \in [Jobs -> Fetches]
        /\ server' \in [Jobs -> Served] /\ lost' \subseteq Jobs /\ attempts' \in [Jobs -> Nat]
        /\ faults' \in Nat
    <3>1. /\ jobState' = jobState \/ jobState' = [jobState EXCEPT ![j] = "FAILED"]
          /\ fetch' = fetch \/ fetch' = [fetch EXCEPT ![j] = "error"]
          /\ server' = server \/ server' = [server EXCEPT ![j] = "taken"]
          /\ lost' = lost \/ lost' = lost \cup {j}
          /\ attempts' = attempts \/ attempts' = [attempts EXCEPT ![j] = @ + 1]
          /\ faults' = faults + 1
      BY <1>8 DEF FetchFault, FetchFails, LoseResult
    <3>2. jobState' \in [Jobs -> States] /\ fetch' \in [Jobs -> Fetches]
      BY <1>1, <3>1, ZenonT(40) DEF WorkTypes, States, Terminal, Fetches, EndedFetch
    <3>3. server' \in [Jobs -> Served] /\ lost' \subseteq Jobs
      <4>1. server \in [Jobs -> Served] /\ lost \subseteq Jobs /\ "taken" \in Served
        BY <1>1 DEF WorkTypes, Served
      <4>2. server' \in [Jobs -> Served]
        BY <3>1, <4>1
      <4> QED
        BY <3>1, <4>1, <4>2
    <3>4. attempts' \in [Jobs -> Nat] /\ faults' \in Nat
      BY <1>1, <3>1 DEF WorkTypes
    <3> QED
      BY <3>2, <3>3, <3>4
  <2> QED
    BY <1>1, <1>3, <1>8, <2>1, TypesSplitNext DEF FetchFault, WorkTypes, async
<1>9. CASE CallbackFetches(j)
  <2>1. /\ jobState' \in [Jobs -> States] /\ fetch' \in [Jobs -> Fetches]
        /\ callback' \in [Jobs -> Callbacks] /\ attempts' \in [Jobs -> Nat]
    BY <1>1, <1>9 DEF CallbackFetches, FetchFails, WorkTypes, States, Terminal, Fetches,
       EndedFetch, Callbacks
  <2> QED
    BY <1>1, <1>3, <1>9, <2>1, TypesSplitNext DEF CallbackFetches, WorkTypes, outside
<1>10. CASE Tally(j)
  BY <1>1, <1>3, <1>10, TypesSplitNext DEF Tally, Counted, WorkTypes, States, Terminal, Callbacks,
       outside
<1>11. CASE Merge(j)
  <2>1. j \in completed
    BY <1>11 DEF Merge, Jobwise, JobInv, Driven, Called
  <2> QED
    BY <1>1, <1>3, <1>11, <2>1, TypesSplitNext DEF Merge, WorkTypes, Callbacks, workers, outside
<1>12. CASE Combine(j)
  BY <1>1, <1>3, <1>12, TypesSplitNext DEF Combine, WorkTypes, Callbacks, workers, outside
<1>13. CASE ServerWorks(j)
  BY <1>1, <1>3, <1>13, TypesSplitNext DEF ServerWorks, WorkTypes, Served, workers, async
<1> QED
  BY <1>4, <1>5, <1>6, <1>7, <1>8, <1>9, <1>10, <1>11, <1>12, <1>13 DEF Worker

\* What the drivers and the callbacks know of the submissions stays so while workers run.
LEMMA PastStays ==
  ASSUME TypeOK, NEW j \in Jobs, NEW i \in Jobs, Past(i),
         Worker(j) \/ SubmitFault(j) \/ FetchFault(j) \/ ServerWorks(j)
  PROVE  Past(i)'
<1>1. Others(j)
  BY WorkerEffect DEF Worker
<1>2. CASE i # j
  BY <1>1, <1>2 DEF Others, Past
<1>3. CASE i = j
  <2>1. CASE SubmitAnswer(j) \/ SubmitIdent(j) \/ SubmitFault(j)
    BY <1>3, <2>1, TypesSplit DEF SubmitAnswer, SubmitIdent, SubmitFault, EndSubmit, WorkTypes, Past
  <2>2. CASE UNCHANGED submit
    BY <2>2 DEF Past
  <2> QED
    BY <2>1, <2>2 DEF Worker, FetchAnswer, FetchFault, CallbackFetches, Tally, Merge, Combine,
       ServerWorks, workers
<1> QED
  BY <1>2, <1>3

LEMMA EnsuredFrame ==
  ASSUME TypeOK, Position, Ensured, UNCHANGED <<pc, toFetch, at, awaited>>,
         \A i \in Jobs : Past(i) => Past(i)'
  PROVE  Ensured'
<1>1. \A i \in 1 .. Len(toFetch) : toFetch[i] \in Jobs
  BY ElementOfSeq DEF TypeOK
<1> QED
  BY <1>1 DEF Ensured

LEMMA WorkersRest ==
  ASSUME TypeOK, Position, Jobwise, Ensured, AllCalled, NamedByItsFile, NEW j \in Jobs,
         Worker(j) \/ SubmitFault(j) \/ FetchFault(j) \/ ServerWorks(j)
  PROVE  Ensured' /\ AllCalled' /\ NamedByItsFile'
<1>1. UNCHANGED main
  BY WorkerEffect DEF Worker, Others
<1>2. Ensured'
  BY <1>1, SameMain, PastStays, EnsuredFrame
<1>3. NamedByItsFile'
  BY <1>1 DEF main, NamedByItsFile
<1>4. AllCalled'
  <2>1. CASE Tally(j)
    BY <2>1 DEF Tally, Counted, AllCalled, TypeOK
  <2>2. CASE Combine(j)
    BY <2>2 DEF Combine, AllCounted, AllCalled
  <2>3. CASE UNCHANGED <<combined, completed>>
    BY <2>3 DEF AllCalled
  <2> QED
    BY <2>1, <2>2, <2>3 DEF Worker, SubmitAnswer, SubmitIdent, FetchAnswer, CallbackFetches, Merge,
       SubmitFault, FetchFault, ServerWorks, async
<1> QED
  BY <1>2, <1>3, <1>4

LEMMA StartTaskRest ==
  ASSUME TypeOK, Position, Queued, Ensured, AllCalled, NamedByItsFile, StartTask
  PROVE  Ensured' /\ AllCalled' /\ NamedByItsFile'
<1>1. UNCHANGED <<main, async>>
  BY DEF StartTask
<1>2. \A i \in Jobs : Past(i) => Past(i)'
  <2>1. PICK kind \in {"submit", "fetch"}, j \in Jobs :
           Started(kind, j) /\ (kind = "submit" => submit[j] = "queued")
    BY StartTaskEffect
  <2>2. submit \in [Jobs -> Submits]
    BY TypesSplit DEF WorkTypes
  <2> QED
    BY <2>1, <2>2 DEF Started, Past
<1>3. Ensured'
  BY <1>1, <1>2, SameMain, EnsuredFrame
<1> QED
  BY <1>1, <1>3 DEF main, async, AllCalled, NamedByItsFile

-----------------------------------------------------------------------------
(* The drivers, and what they know of each job. *)

LEMMA SubmitAsyncEffect ==
  ASSUME NEW js, SubmitAsync(js)
  PROVE  \A i \in Jobs :
           /\ i \in Listed(js) => jobState'[i] = "SUBMITTED_ASYNC" /\ submit'[i] = "queued"
           /\ i \notin Listed(js) => jobState'[i] = jobState[i] /\ submit'[i] = submit[i]
BY DEF SubmitAsync

\* New tasks at the end of the queue, for futures that begin to wait.
LEMMA QueuedMore ==
  ASSUME TypeOK, Queued, NEW kind \in {"submit", "fetch"}, NEW js \in Seq(Jobs), Distinct(js),
         queue' = queue \o Tasks(kind, js),
         \A i \in Listed(js) : (IF kind = "submit" THEN submit[i] ELSE fetch[i]) = "none",
         \A i \in Listed(js) : (IF kind = "submit" THEN submit'[i] ELSE fetch'[i]) = "queued",
         \A i \in Jobs : submit[i] = "queued" => submit'[i] = "queued",
         \A i \in Jobs : fetch[i] = "queued" => fetch'[i] = "queued"
  PROVE  Queued'
<1> DEFINE more == Tasks(kind, js)
           T == {"submit", "fetch"} \X Jobs
<1>1. queue \in Seq(T) /\ Distinct(queue)
  BY DEF TypeOK, Queued
<1>2. /\ more \in Seq(T) /\ Distinct(more)
      /\ \A t \in Listed(more) : t[1] = kind /\ t[2] \in Listed(js)
  BY TasksSeq
<1>3. Listed(queue) \subseteq T
  BY <1>1, ListedSeq
<1> HIDE DEF more
<1>4. Listed(queue) \cap Listed(more) = {}
  <2> SUFFICES ASSUME NEW t \in Listed(queue), t \in Listed(more) PROVE FALSE
    OBVIOUS
  <2>1. t[1] = kind /\ t[2] \in Listed(js)
    BY <1>2
  <2>2. IF t[1] = "submit" THEN submit[t[2]] = "queued" ELSE fetch[t[2]] = "queued"
    BY DEF Queued
  <2> QED
    BY <2>1, <2>2
<1>5. Listed(queue \o more) = Listed(queue) \cup Listed(more) /\ Distinct(queue \o more)
  <2> HIDE DEF T
  <2> QED
    BY <1>1, <1>2, <1>4, JoinedSeq
<1>6. \A t \in Listed(queue') :
        IF t[1] = "submit" THEN submit'[t[2]] = "queued" ELSE fetch'[t[2]] = "queued"
  <2> SUFFICES ASSUME NEW t \in Listed(queue')
               PROVE  IF t[1] = "submit" THEN submit'[t[2]] = "queued" ELSE fetch'[t[2]] = "queued"
    OBVIOUS
  <2>1. CASE t \in Listed(queue)
    <3>1. t[2] \in Jobs
      BY <1>3, <2>1
    <3>2. IF t[1] = "submit" THEN submit[t[2]] = "queued" ELSE fetch[t[2]] = "queued"
      BY <2>1 DEF Queued
    <3> QED
      BY <3>1, <3>2
  <2>2. CASE t \in Listed(more)
    BY <1>2, <2>2
  <2> QED
    BY <1>5, <2>1, <2>2 DEF more
<1> QED
  BY <1>5, <1>6 DEF Queued, Distinct, Listed, more

\* What the step at the top of a loop leaves alone.
TopFrame ==
  /\ pc = "top" /\ ~ Async
  /\ UNCHANGED <<config, awaited, inflight, results, fetch, callback, completed, merged, combined,
                 server, lost>>

LEMMA JobwiseTop ==
  ASSUME TypeOK, Places, Jobwise, Queued, TopFrame, Ends \/ Takes,
         tracked' \subseteq tracked \cup {j \in Jobs : j >= next}
  PROVE  Jobwise' /\ Queued' /\ Ensured'
<1>1. \A j \in Jobs : /\ fetch[j] # "none" => j \in inflight
                      /\ j >= next => /\ submit[j] = "none" /\ j \notin inflight /\ Reports(j) = 0
                                      /\ fetch[j] = "none" /\ results[j] = 0 /\ failures[j] = 0
  <2> SUFFICES ASSUME NEW j \in Jobs
               PROVE  /\ fetch[j] # "none" => j \in inflight
                      /\ j >= next => /\ submit[j] = "none" /\ j \notin inflight /\ Reports(j) = 0
                                      /\ fetch[j] = "none" /\ results[j] = 0 /\ failures[j] = 0
    OBVIOUS
  <2>1. /\ fetch[j] # "none" => j \in inflight
        /\ j >= next => submit[j] = "none"
    BY DEF Jobwise, JobInv, Driven, TopFrame
  <2>2. j >= next => j \notin inflight /\ Reports(j) = 0
    BY DEF Places, Apart
  <2>3. Reports(j) = 0 => results[j] = 0 /\ failures[j] = 0
    BY PlaceTypes DEF Reports
  <2> QED
    BY <2>1, <2>2, <2>3
<1>2. CASE Ends
  <2>1. UNCHANGED <<next, submit, jobState, failures, queue>> /\ pc' \in {"returned", "raised"}
    BY <1>2 DEF Ends
  <2>3. ASSUME NEW j \in Jobs PROVE JobInv(j)'
    <3>1. JobInv(j) /\ (Past(j)' <=> Past(j)) /\ (Reports(j)' = Reports(j))
      BY <2>1 DEF Jobwise, Past, Reports, TopFrame
    <3>2. fetch[j] \in {"good", "bad"} \/ results[j] > 0 => j \notin tracked'
      <4>1. j >= next => fetch[j] = "none" /\ ~ (results[j] > 0)
        BY <1>1
      <4>2. fetch[j] \in {"good", "bad"} \/ results[j] > 0 => j \notin tracked
        BY <3>1 DEF JobInv, Sent
      <4> QED
        BY <4>1, <4>2
    <3>3. Sent(j)' /\ Kept(j)'
      BY <2>1, <3>1, <3>2 DEF JobInv, Sent, Kept, TopFrame
    <3>4. Driven(j)' /\ Called(j)'
      BY <2>1, <3>1 DEF JobInv, Driven, Called, TopFrame, Async
    <3> QED
      BY <3>3, <3>4 DEF JobInv
  <2>4. Queued'
    BY <2>1, QueuedFrame DEF TopFrame
  <2> QED
    BY <2>1, <2>3, <2>4 DEF Jobwise, Ensured
<1>3. CASE Takes
  <2>1. PICK again \in Seq(Jobs), fresh \in Seq(Jobs) :
             /\ Picked(again, fresh)
             /\ Submitted(again, fresh) \/ Refused(again, fresh)
             /\ at' = 1 /\ pc' # "register"
    BY <1>3 DEF Takes
  <2>2. /\ Distinct(fresh) /\ next' >= next /\ next' \in Int /\ next \in Int
        /\ \A j \in Listed(fresh) : j \in Jobs /\ j >= next /\ j < next'
    <3>1. /\ next \in 1 .. JobCount + 1 /\ next' \in next .. JobCount + 1
          /\ Distinct(fresh) /\ Listed(fresh) \subseteq next .. next' - 1
      BY <2>1 DEF Places, Stages, Picked
    <3>2. next \in Int /\ next' \in Int /\ next' >= next
      BY <3>1, JobsAreNatural
    <3>3. Listed(fresh) \subseteq Jobs /\ Jobs \subseteq Int
      BY ListedSeq, JobsAreNatural
    <3> QED
      BY <3>1, <3>2, <3>3, IntervalMembers
  <2>3. \A j \in Jobs : j >= next' => j >= next /\ j \notin Listed(fresh)
    <3>1. Jobs \subseteq Int
      BY JobsAreNatural
    <3> QED
      BY <2>2, <3>1
  <2>4. \A j \in Jobs : /\ fetch[j] \in {"good", "bad"} \/ results[j] > 0 => j \notin tracked'
                        /\ j \in Listed(fresh) => /\ submit[j] = "none" /\ fetch[j] = "none"
                                                  /\ results[j] = 0 /\ failures[j] = 0 /\ ~ Past(j)
    <3> SUFFICES ASSUME NEW j \in Jobs
                 PROVE  /\ fetch[j] \in {"good", "bad"} \/ results[j] > 0 => j \notin tracked'
                        /\ j \in Listed(fresh) => /\ submit[j] = "none" /\ fetch[j] = "none"
                                                  /\ results[j] = 0 /\ failures[j] = 0 /\ ~ Past(j)
      OBVIOUS
    <3>1. fetch[j] \in {"good", "bad"} \/ results[j] > 0 => j \notin tracked
      BY DEF Jobwise, JobInv, Sent
    <3>2. j >= next => ~ (fetch[j] \in {"good", "bad"} \/ results[j] > 0)
      BY <1>1
    <3>3. j \in Listed(fresh) => /\ submit[j] = "none" /\ fetch[j] = "none"
                                 /\ results[j] = 0 /\ failures[j] = 0 /\ ~ Past(j)
      BY <1>1, <2>2 DEF Past
    <3> QED
      BY <3>1, <3>2, <3>3
  <2>5. CASE Submitted(again, fresh)
    <3>1. /\ SubmitAsync(fresh) /\ UNCHANGED failures
          /\ queue' = queue \o Tasks("submit", fresh)
      BY <2>5 DEF Submitted, SubmitAsync
    <3>2. \A i \in Jobs :
           /\ i \in Listed(fresh) => jobState'[i] = "SUBMITTED_ASYNC" /\ submit'[i] = "queued"
           /\ i \notin Listed(fresh) => jobState'[i] = jobState[i] /\ submit'[i] = submit[i]
      BY <3>1, SubmitAsyncEffect
    <3>3. ASSUME NEW j \in Jobs PROVE JobInv(j)'
      <4>1. JobInv(j) /\ Reports(j)' = Reports(j)
        BY <3>1 DEF Jobwise, Reports, TopFrame
      <4>2. j \notin Listed(fresh) => (Past(j)' <=> Past(j))
        BY <3>2 DEF Past
      <4>3. Sent(j)'
        BY <2>4, <3>2, <4>1, <4>2 DEF JobInv, Sent, TopFrame
      <4>4. Kept(j)'
        BY <4>1 DEF JobInv, Kept, TopFrame
      <4>5. Driven(j)' /\ Called(j)'
        BY <2>3, <3>2, <4>1 DEF JobInv, Driven, Called, TopFrame, Async
      <4> QED
        BY <4>3, <4>4, <4>5 DEF JobInv
    <3>4. Queued'
      <4>1. \A i \in Listed(fresh) : i \in Jobs /\ submit[i] = "none" /\ submit'[i] = "queued"
        BY <2>2, <2>4, <3>2
      <4>2. \A i \in Jobs : submit[i] = "queued" => submit'[i] = "queued"
        BY <2>4, <3>2
      <4>3. \A i \in Jobs : fetch[i] = "queued" => fetch'[i] = "queued"
        BY DEF TopFrame
      <4> QED
        BY <2>2, <3>1, <4>1, <4>2, <4>3, QueuedMore
    <3>5. Ensured'
      BY <2>1 DEF Ensured
    <3> QED
      BY <3>3, <3>4, <3>5 DEF Jobwise
  <2>6. CASE Refused(again, fresh)
    <3>1. /\ UNCHANGED <<jobState, submit, queue>>
          /\ \A i \in Jobs : i \notin Listed(fresh) => failures'[i] = failures[i]
          /\ \A i \in Jobs : i \in Listed(fresh) => failures'[i] = failures[i] + 1
      BY <2>6 DEF Refused, Fail
    <3>2. ASSUME NEW j \in Jobs PROVE JobInv(j)'
      <4>1. JobInv(j) /\ (Past(j)' <=> Past(j))
        BY <3>1 DEF Jobwise, Past
      <4>2. Sent(j)'
        BY <2>4, <3>1, <4>1 DEF JobInv, Sent, TopFrame
      <4>3. Kept(j)'
        <5>1. CASE j \in Listed(fresh)
          <6>1. failures'[j] = 1 /\ results'[j] = 0
            BY <2>4, <3>1, <5>1 DEF TopFrame
          <6> QED
            BY <6>1 DEF Kept, Reports
        <5>2. CASE j \notin Listed(fresh)
          <6>1. Reports(j)' = Reports(j)
            BY <3>1, <5>2 DEF Reports, TopFrame
          <6> QED
            BY <4>1, <6>1 DEF JobInv, Kept, TopFrame
        <5> QED
          BY <5>1, <5>2
      <4>4. Driven(j)' /\ Called(j)'
        BY <2>3, <3>1, <4>1 DEF JobInv, Driven, Called, TopFrame, Async
      <4> QED
        BY <4>2, <4>3, <4>4 DEF JobInv
    <3>3. Queued'
      BY <3>1, QueuedFrame DEF TopFrame
    <3>4. Ensured'
      BY <2>1 DEF Ensured
    <3> QED
      BY <3>2, <3>3, <3>4 DEF Jobwise
  <2> QED
    BY <2>1, <2>5, <2>6
<1> QED
  BY <1>2, <1>3

\* The jobs of a cycle that could not be fetched were in none of the places.
LEMMA JobwiseFails ==
  ASSUME TypeOK, Places, Jobwise, pc = "ensure", InitiationFails,
         UNCHANGED <<config, next, inflight, results, workers, async, outside>>
  PROVE  Jobwise'
<1> SUFFICES ASSUME NEW j \in Jobs PROVE JobInv(j)'
  BY DEF Jobwise
<1>1. JobInv(j) /\ ~ Async
  BY DEF Jobwise, Places, Stages
<1>2. /\ UNCHANGED <<jobState, submit, fetch, callback, server, tracked, lost, completed>>
      /\ Past(j)' <=> Past(j)
  BY DEF workers, async, outside, Past
<1>3. UNCHANGED failures \/ Fail(Listed(toFetch))
  BY DEF InitiationFails
<1>4. Sent(j)' /\ Driven(j)' /\ Called(j)'
  BY <1>1, <1>2 DEF JobInv, Sent, Driven, Called, Async
<1>5. Kept(j)'
  <2>1. CASE Reports(j)' = Reports(j)
    BY <1>1, <1>2, <2>1 DEF JobInv, Kept
  <2>2. CASE j \in Listed(toFetch) /\ Reports(j)' = Reports(j) + 1
    <3>1. Reports(j) = 0
      BY <2>2 DEF Places, Apart
    <3>2. Reports(j)' = 1
      BY <2>2, <3>1
    <3> QED
      BY <3>2 DEF Kept
  <2>3. \/ Reports(j)' = Reports(j)
        \/ j \in Listed(toFetch) /\ Reports(j)' = Reports(j) + 1
    <3>1. CASE UNCHANGED failures
      BY <3>1 DEF Reports
    <3>2. CASE Fail(Listed(toFetch))
      <4>1. Reports(j)' = IF j \in Listed(toFetch) THEN Reports(j) + 1 ELSE Reports(j)
        BY <3>2, FailedReports
      <4> QED
        BY <4>1
    <3> QED
      BY <1>3, <3>1, <3>2
  <2> QED
    BY <2>1, <2>2, <2>3
<1> QED
  BY <1>4, <1>5 DEF JobInv

LEMMA EnsureOneKeeps ==
  ASSUME TypeOK, Position, Places, Jobwise, Queued, Ensured, EnsureOne
  PROVE  Jobwise' /\ Queued' /\ Ensured'
<1>1. /\ pc = "ensure" /\ at <= Len(toFetch)
      /\ UNCHANGED <<config, next, inflight, results, workers, async, outside>>
  BY DEF EnsureOne
<1>2. UNCHANGED <<jobState, submit, fetch, callback, server, tracked, lost, completed, queue>>
  BY <1>1 DEF workers, async, outside
<1>3. Queued'
  BY <1>2, QueuedFrame
<1>4. CASE InitiationFails
  <2>1. pc' # "ensure"
    BY <1>4 DEF InitiationFails
  <2> QED
    BY <1>1, <1>3, <1>4, <2>1, JobwiseFails DEF Ensured
<1>5. CASE ~ InitiationFails
  <2> DEFINE j == toFetch[at]
  <2>1. /\ Fetchable(j) /\ at' = at + 1
        /\ awaited' = (IF jobState[j] = "SUBMITTED_ASYNC" THEN awaited \cup {j} ELSE awaited)
        /\ UNCHANGED <<pc, toFetch, failures, retries>>
    BY <1>5 DEF EnsureOne
  <2>2. Jobwise'
    <3> SUFFICES ASSUME NEW i \in Jobs PROVE JobInv(i)'
      BY DEF Jobwise
    <3>1. JobInv(i)
      BY DEF Jobwise
    <3> QED
      BY <1>1, <1>2, <2>1, <3>1, SameJob
  <2>3. Ensured'
    <3>1. at \in 1 .. Len(toFetch) /\ at \in Nat /\ Len(toFetch) \in Nat
      BY <1>1, LenProperties DEF Position, TypeOK
    <3>2. j \in Jobs
      BY <3>1, ElementOfSeq DEF TypeOK
    <3>3. j \in awaited' \/ Past(j)
      <4>1. JobInv(j)
        BY <3>2 DEF Jobwise
      <4> QED
        BY <2>1, <4>1 DEF Fetchable, JobInv, Sent
    <3>4. ASSUME NEW i \in 1 .. Len(toFetch), i < at + 1
          PROVE  toFetch[i] \in awaited' \/ Past(toFetch[i])
      <4>1. i < at \/ i = at
        BY <3>1, <3>4
      <4>2. CASE i < at
        BY <1>1, <2>1, <4>2 DEF Ensured
      <4> QED
        BY <3>3, <4>1, <4>2
    <3> HIDE DEF j
    <3> QED
      BY <1>2, <2>1, <3>4 DEF Ensured, Past
  <2> QED
    BY <1>3, <2>2, <2>3
<1> QED
  BY <1>4, <1>5

LEMMA EnsureAwaitsKeeps ==
  ASSUME TypeOK, Position, Places, Jobwise, Queued, Ensured, EnsureAwaits
  PROVE  Jobwise' /\ Queued' /\ Ensured'
<1>1. /\ pc = "ensure"
      /\ UNCHANGED <<config, next, inflight, results, tracked, hasId, queue, submit, fetch, attempts,
                     async, outside>>
  BY DEF EnsureAwaits
<1>2. UNCHANGED <<submit, fetch, callback, server, tracked, lost, completed, queue>>
  BY <1>1 DEF async, outside
<1>3. Queued'
  BY <1>2, QueuedFrame
<1>4. CASE InitiationFails /\ UNCHANGED jobState
  <2>1. pc' # "ensure"
    BY <1>4 DEF InitiationFails
  <2>2. UNCHANGED workers
    BY <1>1, <1>4 DEF workers
  <2> QED
    BY <1>1, <1>3, <1>4, <2>1, <2>2, JobwiseFails DEF Ensured
<1>5. CASE \E j \in awaited :
             /\ SubmissionDone(j)
             /\ jobState' = [jobState EXCEPT ![j] = "SUBMITTED"]
             /\ awaited' = awaited \ {j}
             /\ UNCHANGED <<pc, toFetch, at, failures, retries>>
  <2>1. PICK j \in awaited :
          /\ SubmissionDone(j)
          /\ jobState' = [jobState EXCEPT ![j] = "SUBMITTED"]
          /\ awaited' = awaited \ {j}
          /\ UNCHANGED <<pc, toFetch, at, failures, retries>>
    BY <1>5
  <2>2. j \in Jobs /\ Past(j) /\ jobState \in [Jobs -> States] /\ ~ Async
    BY <1>1, <2>1, TypesSplit
       DEF MainTypes, WorkTypes, SubmissionDone, EndedSubmit, Past, Places, Stages
  <2>3. \A i \in Jobs : Past(i)' <=> Past(i)
    BY <1>2 DEF Past
  <2>4. Jobwise'
    <3> SUFFICES ASSUME NEW i \in Jobs PROVE JobInv(i)'
      BY DEF Jobwise
    <3>1. JobInv(i)
      BY DEF Jobwise
    <3>2. jobState'[i] = jobState[i] \/ Past(i)
      BY <2>1, <2>2
    <3>3. Sent(i)'
      BY <1>1, <1>2, <2>3, <3>1, <3>2 DEF JobInv, Sent
    <3>4. Kept(i)' /\ Driven(i)'
      BY <1>1, <1>2, <2>1, <3>1 DEF JobInv, Kept, Driven, Async, Reports
    <3>5. Called(i)'
      BY <1>1, <2>2 DEF Called, Async
    <3> QED
      BY <3>3, <3>4, <3>5 DEF JobInv
  <2>5. Ensured'
    <3>1. \A i \in 1 .. Len(toFetch) : i < at => toFetch[i] \in awaited' \/ Past(toFetch[i])
      BY <1>1, <2>1, <2>2 DEF Ensured
    <3> QED
      BY <1>2, <2>1, <3>1 DEF Ensured, Past
  <2> QED
    BY <1>3, <2>4, <2>5
<1> QED
  BY <1>4, <1>5 DEF EnsureAwaits

LEMMA LaunchKeeps ==
  ASSUME TypeOK, Position, Places, Jobwise, Queued, Ensured, Launch
  PROVE  Jobwise' /\ Queued' /\ Ensured'
<1>1. /\ pc = "ensure" /\ at > Len(toFetch) /\ awaited = {}
      /\ queue' = queue \o Tasks("fetch", toFetch)
      /\ fetch' = [j \in Jobs |-> IF j \in Listed(toFetch) THEN "queued" ELSE fetch[j]]
      /\ inflight' = inflight \cup Listed(toFetch)
      /\ pc' \in {"top", "wait"}
      /\ UNCHANGED <<config, next, results, failures, jobState, tracked, hasId, submit, async, outside>>
  BY DEF Launch
<1>2. UNCHANGED <<callback, completed, server, lost>> /\ ~ Async
  BY <1>1 DEF async, outside, Places, Stages
<1>3. toFetch \in Seq(Jobs) /\ at \in Nat /\ Distinct(toFetch) /\ Listed(toFetch) \subseteq Jobs
  BY PlaceTypes DEF TypeOK, Places, Apart
<1>4. \A j \in Listed(toFetch) : /\ j \in Jobs /\ Past(j) /\ fetch[j] = "none" /\ Reports(j) = 0
                                 /\ j \notin inflight
  <2> SUFFICES ASSUME NEW j \in Listed(toFetch)
               PROVE  Past(j) /\ fetch[j] = "none" /\ Reports(j) = 0 /\ j \notin inflight
    BY <1>3
  <2>1. j \notin inflight /\ Reports(j) = 0 /\ j \in Jobs
    BY <1>3 DEF Places, Apart
  <2>2. fetch[j] = "none"
    BY <1>2, <2>1 DEF Jobwise, JobInv, Driven
  <2>3. PICK i \in 1 .. Len(toFetch) : toFetch[i] = j
    BY <1>3, ListedSeq
  <2>4. i < at
    BY <1>1, <1>3, LenProperties
  <2>5. Past(j)
    BY <1>1, <2>3, <2>4 DEF Ensured
  <2> QED
    BY <2>1, <2>2, <2>5
<1>5. Jobwise'
  <2> SUFFICES ASSUME NEW j \in Jobs PROVE JobInv(j)'
    BY DEF Jobwise
  <2>1. JobInv(j) /\ (Past(j)' <=> Past(j)) /\ Reports(j)' = Reports(j)
    BY <1>1 DEF Jobwise, Past, Reports
  <2>2. /\ j \in Listed(toFetch) => fetch'[j] = "queued"
        /\ j \notin Listed(toFetch) => fetch'[j] = fetch[j]
    BY <1>1
  <2>3. Sent(j)'
    BY <1>1, <1>2, <1>4, <2>1, <2>2 DEF JobInv, Sent
  <2>4. Kept(j)'
    BY <1>1, <1>2, <1>4, <2>1, <2>2 DEF JobInv, Kept
  <2>5. Driven(j)'
    BY <1>1, <1>2, <2>1, <2>2 DEF JobInv, Driven, Async
  <2>6. Called(j)'
    BY <1>1, <1>2 DEF Called, Async
  <2> QED
    BY <2>3, <2>4, <2>5, <2>6 DEF JobInv
<1>6. Queued'
  <2>1. \A i \in Listed(toFetch) : fetch[i] = "none" /\ fetch'[i] = "queued"
    BY <1>1, <1>4
  <2>2. \A i \in Jobs : fetch[i] = "queued" => fetch'[i] = "queued"
    BY <1>1
  <2>3. \A i \in Jobs : submit[i] = "queued" => submit'[i] = "queued"
    BY <1>1
  <2> QED
    BY <1>1, <1>3, <2>1, <2>2, <2>3, QueuedMore
<1> QED
  BY <1>1, <1>5, <1>6 DEF Ensured

LEMMA HandleKeeps ==
  ASSUME TypeOK, Places, Jobwise, Queued, Handle
  PROVE  Jobwise' /\ Queued' /\ Ensured'
<1>1. PICK j \in done :
        /\ inflight' = inflight \ {j}
        /\ fetch' = [fetch EXCEPT ![j] = "none"]
        /\ fetch[j] \in {"good", "bad", "error", "notReady"}
        /\ \/ /\ fetch[j] = "good" /\ results' = [results EXCEPT ![j] = @ + 1]
              /\ UNCHANGED failures
           \/ Fail({j}) /\ UNCHANGED results
           \/ fetch[j] = "notReady" /\ UNCHANGED <<results, failures>>
  BY DEF Handle
<1>2. /\ pc = "handle" /\ pc' \in {"handle", "wait", "top"} /\ ~ Async
      /\ UNCHANGED <<config, next, jobState, tracked, hasId, queue, submit, async, outside>>
  BY DEF Handle, Places, Stages
<1>3. UNCHANGED <<callback, completed, server, lost>>
  BY <1>2 DEF async, outside
<1>4. /\ j \in Jobs /\ j \in inflight /\ Reports(j) = 0
      /\ fetch \in [Jobs -> Fetches] /\ results \in [Jobs -> Nat] /\ failures \in [Jobs -> Nat]
  BY TypesSplit DEF MainTypes, WorkTypes, Places, Apart
<1>5. JobInv(j)'
  <2>1. JobInv(j) /\ (Past(j)' <=> Past(j)) /\ fetch'[j] = "none"
    BY <1>1, <1>2, <1>4 DEF Jobwise, Past
  <2>2. results[j] = 0 /\ failures[j] = 0
    BY <1>4, PlaceTypes DEF Reports
  <2>3. \/ fetch[j] = "good" /\ results'[j] = 1 /\ failures'[j] = 0
        \/ results'[j] = 0 /\ failures'[j] = 1
        \/ fetch[j] = "notReady" /\ results'[j] = 0 /\ failures'[j] = 0
    BY <1>1, <1>4, <2>2 DEF Fail
  <2>4. Sent(j)'
    BY <1>2, <1>3, <2>1, <2>3 DEF JobInv, Sent
  <2>5. Kept(j)'
    BY <1>2, <1>3, <1>4, <2>1, <2>3 DEF JobInv, Kept, Reports
  <2>6. Driven(j)' /\ Called(j)'
    BY <1>2, <1>3, <2>1 DEF JobInv, Driven, Called, Async
  <2> QED
    BY <2>4, <2>5, <2>6 DEF JobInv
<1>6. ASSUME NEW i \in Jobs, i # j PROVE JobInv(i)'
  <2>1. JobInv(i) /\ (Past(i)' <=> Past(i))
    BY <1>2 DEF Jobwise, Past
  <2>2. fetch'[i] = fetch[i] /\ results'[i] = results[i] /\ failures'[i] = failures[i]
        /\ (i \in inflight' <=> i \in inflight)
    BY <1>1, <1>4, <1>6 DEF Fail
  <2>3. Sent(i)' /\ Kept(i)'
    BY <1>2, <1>3, <2>1, <2>2 DEF JobInv, Sent, Kept, Reports
  <2>4. Driven(i)' /\ Called(i)'
    BY <1>2, <1>3, <2>1, <2>2 DEF JobInv, Driven, Called, Async
  <2> QED
    BY <2>3, <2>4 DEF JobInv
<1>7. Queued'
  <2>1. fetch[j] # "queued"
    BY <1>1, <1>4
  <2> QED
    BY <1>1, <1>2, <1>4, <2>1, QueuedFrame
<1> QED
  BY <1>2, <1>5, <1>6, <1>7 DEF Jobwise, Ensured

LEMMA AsyncTopKeeps ==
  ASSUME TypeOK, Jobwise, Queued, AsyncTop
  PROVE  Jobwise' /\ Queued' /\ Ensured'
<1> DEFINE js == Interval(1, JobCount)
<1>1. /\ pc = "top" /\ Async /\ pc' = "register" /\ SubmitAsync(js)
      /\ UNCHANGED <<config, next, inflight, results, failures, tracked, fetch, async, outside>>
  BY DEF AsyncTop, Async
<1>2. UNCHANGED <<callback, completed, server, lost>>
  BY <1>1 DEF async, outside
<1>3. js \in Seq(Jobs) /\ Distinct(js) /\ Listed(js) = Jobs
  BY IntervalSeq, JobsAreNatural DEF Jobs
<1> HIDE DEF js
<1>4. \A i \in Jobs : /\ jobState'[i] = "SUBMITTED_ASYNC" /\ submit'[i] = "queued"
                      /\ submit[i] = "none" /\ callback[i] = "none" /\ fetch[i] = "none"
                      /\ ~ (results[i] > 0) /\ i \notin completed
  <2>1. \A i \in Jobs : jobState'[i] = "SUBMITTED_ASYNC" /\ submit'[i] = "queued"
    BY <1>1, <1>3, SubmitAsyncEffect
  <2>2. \A i \in Jobs : /\ submit[i] = "none" /\ callback[i] = "none" /\ fetch[i] = "none"
                        /\ i \notin completed
    BY <1>1 DEF Jobwise, JobInv, Called
  <2>3. \A i \in Jobs : ~ (results[i] > 0)
    BY <2>2 DEF Jobwise, JobInv, Sent, Past
  <2> QED
    BY <2>1, <2>2, <2>3
<1>5. ASSUME NEW j \in Jobs PROVE JobInv(j)'
  <2>1. JobInv(j) /\ Reports(j)' = Reports(j)
    BY <1>1 DEF Jobwise, Reports
  <2>2. Sent(j)' /\ Kept(j)'
    BY <1>1, <1>2, <1>4, <2>1 DEF JobInv, Sent, Kept
  <2>3. Driven(j)' /\ Called(j)'
    BY <1>1, <1>2, <1>4 DEF Driven, Called, Async
  <2> QED
    BY <2>2, <2>3 DEF JobInv
<1>6. Queued'
  <2>1. queue' = queue \o Tasks("submit", js)
    BY <1>1 DEF SubmitAsync
  <2>2. \A i \in Listed(js) : submit[i] = "none" /\ submit'[i] = "queued"
    BY <1>3, <1>4
  <2>3. \A i \in Jobs : submit[i] = "queued" => submit'[i] = "queued"
    BY <1>4
  <2>4. \A i \in Jobs : fetch[i] = "queued" => fetch'[i] = "queued"
    BY <1>1
  <2> QED
    BY <1>3, <2>1, <2>2, <2>3, <2>4, QueuedMore
<1> QED
  BY <1>1, <1>5, <1>6 DEF Jobwise, Ensured

LEMMA RegisterKeeps ==
  ASSUME TypeOK, Position, Places, Jobwise, Queued, Register
  PROVE  Jobwise' /\ Queued' /\ Ensured'
<1>1. /\ pc = "register" /\ Async /\ pc' \in {"register", "returned"}
      /\ UNCHANGED <<config, next, inflight, results, failures, workers, completed, outside>>
  BY DEF Register, Places, Stages
<1>2. UNCHANGED <<jobState, submit, fetch, tracked, queue, server, lost>>
  BY <1>1 DEF workers, outside
<1>3. \/ UNCHANGED callback
      \/ /\ at \in Jobs /\ callback[at] = "none"
         /\ \/ callback' = [callback EXCEPT ![at] = "starting"] /\ submit[at] \in EndedSubmit
            \/ callback' = [callback EXCEPT ![at] = "registered"]
  <2>1. at \in Nat /\ at # 0
    BY DEF TypeOK, Position
  <2>2. at <= JobCount => at \in Jobs
    BY <2>1, JobsAreNatural DEF Jobs
  <2> QED
    BY <2>2 DEF Register, AlreadyDone
<1>4. callback \in [Jobs -> Callbacks]
  BY TypesSplit DEF WorkTypes
<1>5. ASSUME NEW j \in Jobs PROVE JobInv(j)'
  <2>1. JobInv(j) /\ (Past(j)' <=> Past(j)) /\ Reports(j)' = Reports(j)
    BY <1>1, <1>2 DEF Jobwise, Past, Reports
  <2>2. \/ callback'[j] = callback[j]
        \/ callback[j] = "none" /\ callback'[j] = "starting" /\ submit[j] \in EndedSubmit
        \/ callback[j] = "none" /\ callback'[j] = "registered"
    BY <1>3, <1>4
  <2>3. Sent(j)' /\ Kept(j)'
    BY <1>1, <1>2, <2>1 DEF JobInv, Sent, Kept
  <2>4. Driven(j)'
    BY <1>1 DEF Driven, Async
  <2>5. Called(j)'
    BY <1>1, <1>2, <2>1, <2>2 DEF JobInv, Called, Async
  <2> QED
    BY <2>3, <2>4, <2>5 DEF JobInv
<1>6. Queued'
  BY <1>2, QueuedFrame
<1> QED
  BY <1>1, <1>5, <1>6 DEF Jobwise, Ensured

\* A step that changes where the driver is and nothing that the jobs' invariant reads.
LEMMA WaitKeeps ==
  ASSUME TypeOK, Places, Jobwise, Queued, Wait
  PROVE  Jobwise' /\ Queued' /\ Ensured'
<1>1. /\ pc = "wait" /\ pc' = "handle" /\ ~ Async
      /\ UNCHANGED <<config, next, inflight, results, failures, workers, async, outside>>
  BY DEF Wait, Places, Stages
<1>2. UNCHANGED <<jobState, submit, fetch, tracked, queue, callback, completed, server, lost>>
  BY <1>1 DEF workers, async, outside
<1>3. ASSUME NEW j \in Jobs PROVE JobInv(j)'
  <2>1. JobInv(j) /\ (Past(j)' <=> Past(j)) /\ Reports(j)' = Reports(j)
    BY <1>1, <1>2 DEF Jobwise, Past, Reports
  <2>2. Sent(j)' /\ Kept(j)' /\ Driven(j)'
    BY <1>1, <1>2, <2>1 DEF JobInv, Sent, Kept, Driven, Async
  <2>3. Called(j)'
    BY <1>1 DEF Called, Async
  <2> QED
    BY <2>2, <2>3 DEF JobInv
<1>4. Queued'
  BY <1>2, QueuedFrame
<1> QED
  BY <1>1, <1>3, <1>4 DEF Jobwise, Ensured

LEMMA TopKeeps ==
  ASSUME TypeOK, Places, Batch, Jobwise, Queued, ProcessorTop \/ HandlerTop
  PROVE  Jobwise' /\ Queued' /\ Ensured'
<1>1. TopFrame
  BY DEF ProcessorTop, HandlerTop, TopFrame, Async, async, outside
<1>2. Ends \/ Takes
  BY ProcessorTopEffect, HandlerTopEffect
<1>3. tracked' \subseteq tracked \cup {j \in Jobs : j >= next}
  <2>1. CASE ProcessorTop
    BY <2>1 DEF ProcessorTop
  <2>2. CASE HandlerTop
    <3>1. tracked' = tracked \/ tracked' = tracked \cup Listed(Fresh)
      BY <2>2, HandlerTopCases DEF HandlerBatch
    <3>2. /\ Listed(Fresh) \subseteq Jobs /\ Listed(Fresh) \subseteq next .. next + News - 1
          /\ News \in Nat
      BY <2>2, HandlerTopCases, HandlerPicks, ListedSeq
    <3>3. Listed(Fresh) \subseteq {j \in Jobs : j >= next}
      <4>1. next \in Int /\ next + News \in Int /\ Jobs \subseteq Int
        BY <3>2, JobsAreNatural DEF TypeOK
      <4>2. \A j \in Int : j \in next .. next + News - 1 => j >= next
        BY <4>1
      <4> QED
        BY <3>2, <4>1, <4>2
    <3> QED
      BY <3>1, <3>3
  <2> QED
    BY <2>1, <2>2
<1> QED
  BY <1>1, <1>2, <1>3, JobwiseTop

LEMMA DriverKeeps ==
  ASSUME TypeOK, Position, Places, Batch, Jobwise, Queued, Ensured, AllCalled, NamedByItsFile, Driver
  PROVE  Jobwise' /\ Queued' /\ Ensured' /\ AllCalled' /\ NamedByItsFile'
<1>1. Jobwise' /\ Queued' /\ Ensured'
  BY TopKeeps, EnsureOneKeeps, EnsureAwaitsKeeps, LaunchKeeps, WaitKeeps, HandleKeeps,
     AsyncTopKeeps, RegisterKeeps DEF Driver
<1>2. AllCalled'
  <2>1. UNCHANGED <<combined, completed>>
    BY DEF Driver, ProcessorTop, HandlerTop, EnsureOne, EnsureAwaits, Launch, Wait, Handle,
       AsyncTop, Register, async
  <2> QED
    BY <2>1 DEF AllCalled
<1>3. NamedByItsFile'
  <2>1. CASE HandlerTop
    BY <2>1, HandlerNames DEF HandlerTop
  <2>2. CASE UNCHANGED <<nameOf, config>>
    BY <2>2 DEF NamedByItsFile
  <2> QED
    BY <2>1, <2>2 DEF Driver, ProcessorTop, EnsureOne, EnsureAwaits, Launch, Wait, Handle,
       AsyncTop, Register
<1> QED
  BY <1>1, <1>2, <1>3

-----------------------------------------------------------------------------
(* The theorems. *)

IInv == /\ TypeOK /\ Position /\ Places /\ Batch
        /\ Jobwise /\ Queued /\ Ensured /\ AllCalled /\ NamedByItsFile

LEMMA InitInv == Init => IInv
BY InitTypes, InitPlaces, InitBatch, InitJobwise DEF IInv

LEMMA NextInv == IInv /\ [Next]_vars => IInv'
<1> SUFFICES ASSUME IInv, [Next]_vars PROVE IInv'
  OBVIOUS
<1>1. TypeOK /\ Position /\ Places /\ Batch
      /\ Jobwise /\ Queued /\ Ensured /\ AllCalled /\ NamedByItsFile
  BY DEF IInv
<1>2. Position' /\ Places' /\ Batch'
  BY <1>1, PositionStep, PlacesStep, BatchStep
<1>3. CASE Driver
  <2>1. TypeOK'
    BY <1>1, <1>3, TypesDriver
  <2>2. Jobwise' /\ Queued' /\ Ensured' /\ AllCalled' /\ NamedByItsFile'
    BY <1>1, <1>3, DriverKeeps
  <2> QED
    BY <1>2, <2>1, <2>2 DEF IInv
<1>4. CASE StartTask
  <2>1. TypeOK' /\ Jobwise' /\ Queued'
    BY <1>1, <1>4, StartTaskKeeps
  <2>2. Ensured' /\ AllCalled' /\ NamedByItsFile'
    BY <1>1, <1>4, StartTaskRest
  <2> QED
    BY <1>2, <2>1, <2>2 DEF IInv
<1>5. ASSUME NEW j \in Jobs, Worker(j) \/ SubmitFault(j) \/ FetchFault(j) \/ ServerWorks(j)
      PROVE  IInv'
  <2>1. TypeOK' /\ Jobwise' /\ Queued'
    BY <1>1, <1>5, WorkersTypes, WorkersJobwise, WorkersQueued
  <2>2. Ensured' /\ AllCalled' /\ NamedByItsFile'
    BY <1>1, <1>5, WorkersRest
  <2> QED
    BY <1>2, <2>1, <2>2 DEF IInv
<1>6. CASE UNCHANGED vars
  <2>1. UNCHANGED <<main, workers, async, outside>>
    BY <1>6 DEF vars
  <2>2. TypeOK'
    BY <1>1, <2>1 DEF TypeOK, main, workers, async, outside
  <2>3. Jobwise'
    <3> SUFFICES ASSUME NEW j \in Jobs PROVE JobInv(j)'
      BY DEF Jobwise
    <3>1. JobInv(j)
      BY <1>1 DEF Jobwise
    <3> QED
      BY <2>1, <3>1, SameJob DEF main, workers, async, outside
  <2>4. Queued'
    BY <1>1, <2>1, QueuedFrame DEF workers
  <2>5. Ensured'
    BY <1>1, <2>1 DEF Ensured, Past, main, workers
  <2>6. AllCalled' /\ NamedByItsFile'
    BY <1>1, <2>1 DEF AllCalled, NamedByItsFile, main, async
  <2> QED
    BY <1>2, <2>2, <2>3, <2>4, <2>5, <2>6 DEF IInv
<1> QED
  BY <1>3, <1>4, <1>5, <1>6 DEF Next

LEMMA Invariant == Spec => []IInv
BY InitInv, NextInv, PTL DEF Spec

\* Every variable of the drivers, the executor and the service keeps its type.
THEOREM TypeCorrect == Spec => []TypeOK
<1>1. IInv => TypeOK
  BY DEF IInv
<1> QED
  BY <1>1, Invariant, PTL

\* Every job is reported once, as a result or as a failure, and run() only returns when every
\* job that could be read is: through batches, retries and group failures (client.py:498-641,
\* ingest_job_handler.py:305-412).
THEOREM JobsAccounted == Spec => []EveryJobOnce
<1>1. IInv => EveryJobOnce
  <2> SUFFICES ASSUME IInv PROVE EveryJobOnce
    OBVIOUS
  <2>1. Apart /\ Accounted /\ Stages /\ next \in Nat
    BY PlaceTypes DEF IInv, Places
  <2>2. \A j \in Jobs : Reports(j) <= 1
    BY <2>1 DEF Apart
  <2>3. ASSUME pc = "returned", config.driver # "async", NEW j \in Jobs \ config.unreadable
        PROVE  Reports(j) = 1
    <3>1. next > JobCount /\ retry = <<>> /\ inflight = {} /\ toFetch = <<>>
      BY <2>1, <2>3 DEF Stages, Async
    <3>2. j < next
      BY <2>1, <3>1, JobsAreNatural DEF Jobs
    <3>3. Listed(retry) = {} /\ Listed(toFetch) = {}
      BY <3>1, ListedSeq, PlaceTypes DEF IInv
    <3> QED
      BY <2>1, <2>3, <3>1, <3>2, <3>3 DEF Accounted
  <2> QED
    BY <2>2, <2>3 DEF EveryJobOnce, Reports
<1> QED
  BY <1>1, Invariant, PTL

\* A result that reached the client is not dropped by it: until it is reported it is in a
\* finished fetch (client.py:1109-1137, 601-640).
THEOREM ResultsKept == Spec => []TakenIsKept
<1>1. IInv => TakenIsKept
  BY DEF IInv, Jobwise, JobInv, Kept, TakenIsKept, Reports
<1> QED
  BY <1>1, Invariant, PTL

\* The records of the client agree with what became of its jobs: the batch is bounded, what
\* was decoded is forgotten, the combined future is set after the last callback, and a job is
\* reported under its own file as long as the files before it were read (client.py:536-545,
\* 1121-1125, interface.py:698-712, ingest_job_handler.py:164).
THEOREM RecordsCorrect == Spec => []RecordsAgree
<1>1. IInv => RecordsAgree
  <2> SUFFICES ASSUME IInv PROVE RecordsAgree
    OBVIOUS
  <2>1. BatchBound /\ NamedByItsFile
    BY DEF IInv, Batch
  <2>2. ResultsAreForgotten
    BY DEF IInv, Jobwise, JobInv, Sent, ResultsAreForgotten
  <2>3. ResolvedAfterAll
    <3> SUFFICES ASSUME combined = "resolved", NEW j \in Jobs PROVE jobState[j] \in Terminal
      BY DEF ResolvedAfterAll
    <3>1. j \in completed
      BY DEF IInv, AllCalled
    <3>2. JobInv(j)
      BY DEF IInv, Jobwise
    <3> QED
      BY <3>1, <3>2 DEF JobInv, Driven, Called
  <2> QED
    BY <2>1, <2>2, <2>3 DEF RecordsAgree
<1> QED
  BY <1>1, Invariant, PTL

=============================================================================
