---------------------------- MODULE ResultContract ----------------------------
(***************************************************************************)
(* What the store of results promises, without its fragments, its threads  *)
(* or its HTTP answers: a job is handed out only after a copy of its       *)
(* result was published, and where reading removes the result (fetch mode  *)
(* DESTRUCTIVE) no more often than copies were published.                  *)
(***************************************************************************)
EXTENDS Naturals

CONSTANT Jobs

VARIABLES
  shared,   \* results stay after they are read
  copies,   \* copies of each result published so far
  handed    \* how often each result was handed out

contractVars == <<shared, copies, handed>>

Init ==
  /\ shared \in BOOLEAN
  /\ copies = [j \in Jobs |-> 0]
  /\ handed = [j \in Jobs |-> 0]

\* A push whose reply is lost is repeated: one publication, two copies.
Publish(j) ==
  /\ copies' \in {[copies EXCEPT ![j] = @ + n] : n \in 1..2}
  /\ UNCHANGED <<shared, handed>>

\* One request may hand out the results of several jobs.  Readings of a
\* shared result are counted only until its first.
HandOut(js) ==
  /\ \A j \in js : copies[j] > 0 /\ (~shared => handed[j] < copies[j])
  /\ handed' = [j \in Jobs |->
                 IF j \notin js THEN handed[j] ELSE IF shared THEN 1 ELSE handed[j] + 1]
  /\ UNCHANGED <<shared, copies>>

Next == \/ \E j \in Jobs : Publish(j)
        \/ \E js \in SUBSET Jobs : HandOut(js)

Spec == Init /\ [][Next]_contractVars
===============================================================================
