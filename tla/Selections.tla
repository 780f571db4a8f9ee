------------------------------ MODULE Selections ------------------------------
(***************************************************************************)
(* Subsequences and sums, in first-order terms that can be reasoned about. *)
(***************************************************************************)
EXTENDS Integers, Sequences, FiniteSets, FiniteSetsExt

\* The place of i among the members of I.
Rank(I, i) == Cardinality({k \in I : k <= i})

\* The members of a finite set of numbers, in ascending order.
Ascending(I) == [n \in 1 .. Cardinality(I) |-> CHOOSE i \in I : Rank(I, i) = n]

\* What a sequence holds at some of its positions.
SelectAt(s, I) == [n \in 1 .. Cardinality(I) |-> s[Ascending(I)[n]]]

\* The elements that pass the test: SelectSeq, by the positions it selects.
Filtered(s, Test(_)) == SelectAt(s, {i \in DOMAIN s : Test(s[i])})

\* The sum of a function over a finite set.
SumOver(f, S) == MapThenSumSet(LAMBDA x : f[x], S)
===============================================================================
