--------------------------- MODULE DeliveryContract ---------------------------
(***************************************************************************)
(* What the simple message broker promises its clients, without its        *)
(* connections, handshakes or retries: an accepted copy of a message stays *)
(* with the broker, unchanged, until it is committed to one fetch; a       *)
(* committed copy is returned by at most one fetch, and may be lost.       *)
(***************************************************************************)
EXTENDS Integers, Sequences

CONSTANTS Consumers, Copies

VARIABLES
  held,       \* copies the broker still answers for
  committed,  \* copies it has given up
  delivered   \* copies returned to each consumer, in order

contractVars == <<held, committed, delivered>>

Returned == UNION {{delivered[k][i] : i \in DOMAIN delivered[k]} : k \in Consumers}

Init ==
  /\ held = {}
  /\ committed = {}
  /\ delivered = [k \in Consumers |-> <<>>]

Accept ==
  \E e \in held' \ held :
    /\ e \in Copies \ committed
    /\ held' = held \union {e}
    /\ UNCHANGED <<committed, delivered>>

Commit ==
  \E e \in held :
    /\ held' = held \ {e}
    /\ committed' = committed \union {e}
    /\ UNCHANGED delivered

Deliver ==
  \E k \in Consumers, e \in committed \ Returned :
    /\ delivered' = [delivered EXCEPT ![k] = Append(@, e)]
    /\ UNCHANGED <<held, committed>>

Next == Accept \/ Commit \/ Deliver

Spec == Init /\ [][Next]_contractVars
===============================================================================
