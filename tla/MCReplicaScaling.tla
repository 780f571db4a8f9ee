--------------------------- MODULE MCReplicaScaling ---------------------------
(* Model values of ReplicaScaling for TLC. *)
EXTENDS ReplicaScaling

CONSTANTS s1, s2

OneStage  == {s1}
TwoStages == {s1, s2}

\* One stage between one and three replicas.
OneMin == [s \in OneStage |-> 1]
OneMax == [s \in OneStage |-> 3]

\* A source that keeps one replica and a stage that may scale to zero.
TwoMin == [s \in TwoStages |-> IF s = s1 THEN 1 ELSE 0]
TwoMax == [s \in TwoStages |-> 2]
===============================================================================
