---------------------------- MODULE MCSimpleBroker ----------------------------
(* Model values of SimpleBroker for TLC. *)
EXTENDS SimpleBroker, TLC

CONSTANTS p1, p2, k1, k2, m1, m2, c1, c2, c3, c4

TwoProducers == {p1, p2}
OneProducer  == {p1}
TwoConsumers == {k1, k2}
OneConsumer  == {k1}
OneMessage == {m1}
TwoMessages  == {m1, m2}
ThreeConns   == {c1, c2, c3}
FourConns    == {c1, c2, c3, c4}

ConnSymmetry == Permutations(FourConns)
===============================================================================
