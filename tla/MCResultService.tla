--------------------------- MODULE MCResultService ---------------------------
(* Model values of ResultService for TLC: one document. *)
EXTENDS ResultService

CONSTANTS d1, w1, w2, r1, r2

OneDoc      == {d1}
OneWorker   == {w1}
TwoWorkers  == {w1, w2}
OneRequest  == {r1}
TwoRequests == {r1, r2}

\* One fragment everywhere, or two for the document itself or its first subjob.
UnitSizes  == {[j \in Jobs |-> 1]}
MixedSizes == UnitSizes \union {[j \in Jobs |-> IF j[2] < 2 THEN 2 ELSE 1]}

\* Two requests compete for a document that is not a PDF.
ManyAskers == [k \in KindValues |-> IF k = "plain" THEN TwoRequests ELSE OneRequest]

\* Bound: where results are removed, the subjobs of a split document have one
\* fragment each; a result of two is removed from the other documents.
InputsConsidered ==
  mode = "DESTRUCTIVE" /\ (\E d \in Docs : IsSplit(d)) => size \in UnitSizes
MCInit == Init /\ InputsConsidered
MCSpec == MCInit /\ [][Next]_vars /\ Fairness
=============================================================================
