-------------------------- MODULE SimpleBrokerProofs --------------------------
(***************************************************************************)
(* Proofs about SimpleBroker, for any producers, consumers, messages and   *)
(* connections and every maximum size: each safety property that its runs  *)
(* check, and that the broker implements DeliveryContract.                 *)
(*                                                                         *)
(* Four invariants, each inductive with the ones before it:                *)
(*   StoreInv      where the entries are, and which transaction stored     *)
(*                 them: only a handler that waits for the ACK of a POP    *)
(*                 has an entry on lease;                                  *)
(*   HandshakeInv  what a client may read on its connection, given where   *)
(*                 its handler is: after a client sent its ACK, "processed"*)
(*                 can only mean that the entry it took is acknowledged;   *)
(*   HistoryInv    what calls returned: entries leave the queue oldest     *)
(*                 first, and a delivered one has no reader any more;      *)
(*   SizeInv       the waiting, leased and admitted entries together.      *)
(***************************************************************************)
EXTENDS SimpleBroker, DataFacts, SequenceTheorems

-----------------------------------------------------------------------------
(* The store: what the broker holds. *)

\* The types of the broker's side of the state.
StoreType ==
  /\ exists \in BOOLEAN
  /\ queue \subseteq Entry
  /\ in_flight \in [Conns -> Entry \union {NoEntry}]
  /\ next_index \in Nat
  /\ handler \in [Conns -> HandlerState]
  /\ request \in [Conns -> Messages \union {NoMessage}]
  /\ acknowledged \subseteq Conns \X Entry
  /\ job \in [Clients -> Messages \union {NoMessage}]

\* Every entry the broker ever stored and did not forget unacknowledged.
Known == Held \union Forgotten

\* The next index is larger than any index in use.
Counted == \A e \in Known : e.index < next_index

\* A handler waits for the ACK of a POP exactly as long as it has an entry on lease.
Leased == \A c \in Conns : handler[c] = "pop_wait" <=> in_flight[c] # NoEntry

\* Before the first request created the queue there is nothing in it.
Opened ==
  ~exists => /\ queue = {}
             /\ acknowledged = {}
             /\ \A c \in Conns : handler[c] \in {"unused", "accepted"}

\* A handler waits for the ACK its command calls for.
Commands ==
  \A c \in Conns : /\ handler[c] = "push_wait" => request[c] # NoMessage
                   /\ handler[c] = "pop_wait" => request[c] = NoMessage

\* A transaction stores one entry, with its payload, when its handler is done.
Transactions ==
  /\ \A e \in Known : handler[e.txn] = "closed" /\ e.message = request[e.txn]
  /\ \A e, f \in Known : e.txn = f.txn => e = f

StoreInv == StoreType /\ OnePlace /\ Counted /\ Leased /\ Opened /\ Commands /\ Transactions

-----------------------------------------------------------------------------
(* Facts about the operators of the model. *)

\* The heap gives the entry with the least index.
LEMMA OldestEntry ==
  ASSUME queue \subseteq Entry, queue # {}
  PROVE  Oldest \in queue /\ \A f \in queue : Oldest.index <= f.index
<1> DEFINE S == {e.index : e \in queue}
<1>1. S \in SUBSET Nat /\ S # {}
  BY DEF Entry
<1>2. PICK x \in S : \A y \in S : x <= y
  BY <1>1, LeastNatural
<1>3. PICK e \in queue : e.index = x
  BY <1>2
<1>4. \A f \in queue : e.index <= f.index
  BY <1>2, <1>3
<1> QED
  BY <1>3, <1>4 DEF Oldest

\* Leasing the oldest entry moves it and leaves the rest where it is.
LEMMA LeaseEffect ==
  ASSUME StoreType, NEW c \in Conns, NEW e \in queue,
         in_flight[c] = NoEntry,
         queue' = queue \ {e}, in_flight' = [in_flight EXCEPT ![c] = e]
  PROVE  /\ InFlight' = InFlight \union {e}
         /\ Held' = Held
<1>1. e # NoEntry
  BY BrokerAssumption DEF StoreType
<1>2. InFlight' = InFlight \union {e}
  BY <1>1 DEF InFlight, StoreType
<1> QED
  BY <1>2 DEF Held

\* Ending a lease removes its entry from the leases, since no one else has it.
LEMMA EndLeaseEffect ==
  ASSUME StoreType, OnePlace, NEW c \in Conns,
         in_flight[c] # NoEntry,
         in_flight' = [in_flight EXCEPT ![c] = NoEntry]
  PROVE  InFlight' = InFlight \ {in_flight[c]}
BY DEF InFlight, StoreType, OnePlace, Flying

-----------------------------------------------------------------------------
(* The store. *)

LEMMA InitStoreInv == Init => StoreInv
<1> SUFFICES ASSUME Init PROVE StoreInv
  OBVIOUS
<1>1. Known = {}
  BY DEF Init, Known, Held, InFlight, Forgotten
<1>2. StoreType
  BY DEF Init, StoreType, HandlerState
<1>3. OnePlace
  BY <1>1 DEF Init, OnePlace, Flying, Known, Held, Forgotten
<1> QED
  BY <1>1, <1>2, <1>3 DEF Init, StoreInv, Counted, Leased, Opened, Commands, Transactions

\* A step that moves handlers about but no entry keeps the store as it is.
LEMMA StoreFrame ==
  ASSUME StoreInv,
         UNCHANGED <<queue, in_flight, next_index, acknowledged>>,
         exists' \in BOOLEAN, exists => exists',
         handler' \in [Conns -> HandlerState],
         request' \in [Conns -> Messages \union {NoMessage}],
         job' \in [Clients -> Messages \union {NoMessage}],
         \A c \in Conns : handler[c] = "closed" => handler'[c] = "closed" /\ request'[c] = request[c],
         \A c \in Conns : handler'[c] = "pop_wait" <=> handler[c] = "pop_wait",
         ~exists' => \A c \in Conns : handler'[c] \in {"unused", "accepted"},
         Commands'
  PROVE  StoreInv'
<1> USE DEF StoreInv
<1>1. Held' = Held /\ Forgotten' = Forgotten /\ Flying' = Flying /\ Known' = Known
  BY DEF Held, Forgotten, Flying, InFlight, Known
<1>2. StoreType'
  BY DEF StoreType
<1>3. OnePlace' /\ Counted' /\ Leased' /\ Opened'
  BY <1>1 DEF OnePlace, Counted, Leased, Opened
<1>4. Known \subseteq Entry
  BY DEF Known, Held, InFlight, Forgotten, StoreType
<1>5. Transactions'
  BY <1>1, <1>4 DEF Transactions, Entry
<1> QED
  BY <1>2, <1>3, <1>5

\* The entries the broker knows are entries.
LEMMA KnownEntries == StoreType => Known \subseteq Entry
BY DEF Known, Held, InFlight, Forgotten, StoreType

LEMMA StorePushStore ==
  ASSUME StoreInv, NEW c \in Conns, StorePush(c)
  PROVE  StoreInv'
<1> DEFINE e == [index |-> next_index, message |-> request[c], txn |-> c]
<1> USE DEF StoreInv
<1>1. e \in Entry
  BY DEF StorePush, StoreType, Commands, Entry
<1>2. e.index = next_index /\ e.txn = c /\ e.message = request[c]
  OBVIOUS
<1>3. queue' = queue \union {e} /\ next_index' = next_index + 1
  BY DEF StorePush
<1> HIDE DEF e
<1>4. /\ UNCHANGED <<exists, in_flight, acknowledged, request, job>>
      /\ handler[c] = "push_wait" /\ handler' = [handler EXCEPT ![c] = "closed"]
  BY DEF StorePush, Goto, clientVars, historyVars
<1>5. /\ InFlight' = InFlight /\ Forgotten' = Forgotten /\ Flying' = Flying
      /\ Held' = Held \union {e} /\ Known' = Known \union {e}
  BY <1>3, <1>4 DEF Held, Forgotten, Flying, InFlight, Known
<1>6. \A f \in Known : f.index \in Nat /\ f.index < next_index /\ f # e
  <2>1. Known \subseteq Entry
    BY KnownEntries
  <2>2. next_index \in Nat
    BY DEF StoreType
  <2> QED
    BY <1>2, <2>1, <2>2 DEF Counted, Entry
<1>7. StoreType'
  BY <1>1, <1>3, <1>4 DEF StoreType, HandlerState
<1>8. OnePlace'
  <2>1. e \notin Forgotten /\ \A x \in Flying : in_flight[x] # e
    BY <1>6 DEF Known, Held, InFlight, Flying
  <2>2. \A f, g \in Known' : f.index = g.index => f = g
    BY <1>2, <1>5, <1>6 DEF OnePlace, Known
  <2> QED
    BY <1>3, <1>4, <1>5, <2>1, <2>2 DEF OnePlace, Known
<1>9. Counted'
  <2>1. next_index \in Nat
    BY DEF StoreType
  <2> QED
    BY <1>2, <1>3, <1>5, <1>6, <2>1 DEF Counted
<1>10. Leased' /\ Opened' /\ Commands'
  BY <1>4 DEF Leased, Opened, Commands, StoreType
<1>11. Transactions'
  <2>1. \A f \in Known : f.txn # c
    BY <1>4 DEF Transactions
  <2>2. \A f \in Known : f.txn \in Conns
    BY KnownEntries DEF Entry
  <2> QED
    BY <1>2, <1>4, <1>5, <2>1, <2>2 DEF Transactions, StoreType
<1> QED
  BY <1>7, <1>8, <1>9, <1>10, <1>11

LEMMA HandlePopStore ==
  ASSUME StoreInv, NEW c \in Conns, HandlePop(c)
  PROVE  StoreInv'
<1> USE DEF StoreInv
<1>1. /\ UNCHANGED <<exists, next_index, acknowledged, request, job>>
      /\ handler[c] = "dispatch" /\ request[c] = NoMessage
      /\ \/ handler' = [handler EXCEPT ![c] = "closed"] /\ UNCHANGED <<queue, in_flight>>
         \/ /\ queue # {}
            /\ queue' = queue \ {Oldest} /\ in_flight' = [in_flight EXCEPT ![c] = Oldest]
            /\ handler' = [handler EXCEPT ![c] = "pop_wait"]
  BY DEF HandlePop, Goto, clientVars, historyVars
<1>2. CASE UNCHANGED <<queue, in_flight>> /\ handler' = [handler EXCEPT ![c] = "closed"]
  <2>1. Commands' /\ handler' \in [Conns -> HandlerState]
    BY <1>1, <1>2 DEF Commands, StoreType, HandlerState
  <2> QED
    BY <1>1, <1>2, <2>1, StoreFrame DEF StoreType, Opened
<1>3. CASE /\ queue # {}
           /\ queue' = queue \ {Oldest} /\ in_flight' = [in_flight EXCEPT ![c] = Oldest]
           /\ handler' = [handler EXCEPT ![c] = "pop_wait"]
  <2> DEFINE e == Oldest
  <2>1. e \in queue
    BY <1>3, OldestEntry DEF StoreType
  <2>2. queue' = queue \ {e} /\ in_flight' = [in_flight EXCEPT ![c] = e]
    BY <1>3
  <2> HIDE DEF e
  <2>3. in_flight[c] = NoEntry
    BY <1>1 DEF Leased
  <2>4. InFlight' = InFlight \union {e} /\ Held' = Held /\ Forgotten' = Forgotten /\ Known' = Known
    BY <1>1, <2>1, <2>2, <2>3, LeaseEffect DEF Forgotten, Known
  <2>5. e # NoEntry /\ e \in Entry
    BY <2>1, BrokerAssumption DEF StoreType
  <2>6. Flying' = Flying \union {c} /\ c \notin Flying
    BY <2>2, <2>3, <2>5 DEF Flying, StoreType
  <2>7. StoreType'
    BY <1>1, <1>3, <2>2, <2>5 DEF StoreType, HandlerState
  <2>8. OnePlace'
    <3>1. \A x \in Flying : in_flight'[x] = in_flight[x] /\ in_flight[x] # e
      BY <2>1, <2>2, <2>6 DEF OnePlace, StoreType, Flying
    <3>2. in_flight'[c] = e
      BY <2>2 DEF StoreType
    <3>3. e \notin Forgotten
      BY <2>1 DEF OnePlace
    <3> QED
      BY <2>2, <2>4, <2>6, <3>1, <3>2, <3>3 DEF OnePlace
  <2>9. Counted' /\ Opened' /\ Commands'
    BY <1>1, <1>3, <2>4 DEF Counted, Opened, Commands, StoreType
  <2>10. Leased'
    BY <1>1, <1>3, <2>2, <2>5 DEF Leased, StoreType
  <2>11. Transactions'
    <3>1. \A f \in Known : f.txn \in Conns
      BY KnownEntries DEF Entry
    <3> QED
      BY <1>1, <1>3, <2>4, <3>1 DEF Transactions, StoreType
  <2> QED
    BY <2>7, <2>8, <2>9, <2>10, <2>11
<1> QED
  BY <1>1, <1>2, <1>3

\* What CommitPop and ReturnPop share: the lease of c ends.
LEMMA EndLeaseStore ==
  ASSUME StoreInv, NEW c \in Conns,
         handler[c] = "pop_wait", handler' = [handler EXCEPT ![c] = "closed"],
         in_flight' = [in_flight EXCEPT ![c] = NoEntry],
         UNCHANGED <<exists, next_index, request, job>>,
         \/ queue' = queue /\ acknowledged' = acknowledged \union {<<c, in_flight[c]>>}
         \/ queue' = queue \union {in_flight[c]} /\ acknowledged' = acknowledged
  PROVE  StoreInv'
<1> USE DEF StoreInv
<1> DEFINE e == in_flight[c]
<1>1. e # NoEntry /\ e \in Entry
  BY DEF Leased, StoreType
<1>2. InFlight' = InFlight \ {e}
  BY <1>1, EndLeaseEffect
<1>3. \/ queue' = queue /\ Forgotten' = Forgotten \union {e}
      \/ queue' = queue \union {e} /\ Forgotten' = Forgotten
  <2>1. ASSUME acknowledged' = acknowledged \union {<<c, e>>}
        PROVE  Forgotten' = Forgotten \union {e}
    <3>1. \A f : f \in Forgotten' <=> f \in Forgotten \/ f = <<c, e>>[2]
      BY <2>1 DEF Forgotten
    <3> QED
      BY <3>1
  <2> QED
    BY <2>1 DEF Forgotten
<1>4. e \in InFlight
  BY <1>1 DEF InFlight
<1>5. Known' = Known
  BY <1>2, <1>3, <1>4 DEF Known, Held
<1>6. Flying' = Flying \ {c} /\ c \in Flying
  BY <1>1 DEF Flying, StoreType
<1>7. StoreType'
  BY <1>1 DEF StoreType, HandlerState
<1>8. OnePlace'
  <2>1. \A x \in Flying' : in_flight'[x] = in_flight[x] /\ in_flight[x] # e
    BY <1>6 DEF OnePlace, StoreType, Flying
  <2>2. e \notin queue /\ e \notin Forgotten
    BY <1>6 DEF OnePlace
  <2>3. \A x \in Flying' : in_flight'[x] \notin queue' \union Forgotten'
    BY <1>3, <1>6, <2>1 DEF OnePlace
  <2>4. queue' \intersect Forgotten' = {}
    BY <1>3, <2>2 DEF OnePlace
  <2>5. \A x, y \in Flying' : in_flight'[x] = in_flight'[y] => x = y
    BY <1>6, <2>1 DEF OnePlace
  <2> QED
    BY <1>5, <2>3, <2>4, <2>5 DEF OnePlace, Known
<1>9. Counted' /\ Commands'
  BY <1>5 DEF Counted, Commands, StoreType
<1>10. Opened'
  BY DEF Opened
<1>11. Leased'
  BY DEF Leased, StoreType
<1>12. Transactions'
  <2>1. \A f \in Known : f.txn \in Conns
    BY KnownEntries DEF Entry
  <2> QED
    BY <1>5, <2>1 DEF Transactions, StoreType
<1> QED
  BY <1>7, <1>8, <1>9, <1>10, <1>11, <1>12

LEMMA InitializeQueueStore ==
  ASSUME StoreInv, NEW c \in Conns, InitializeQueue(c)
  PROVE  StoreInv'
<1> USE DEF StoreInv
<1>1. /\ handler[c] = "accepted" /\ handler' = [handler EXCEPT ![c] = "dispatch"]
      /\ exists' = TRUE /\ UNCHANGED <<request, acknowledged, job>>
  BY DEF InitializeQueue, Goto, clientVars, historyVars
<1>2. handler' \in [Conns -> HandlerState] /\ Commands'
  BY <1>1 DEF StoreType, HandlerState, Commands
<1>3. CASE exists
  <2>1. UNCHANGED <<queue, in_flight, next_index>>
    BY <1>3 DEF InitializeQueue
  <2> QED
    BY <1>1, <1>2, <2>1, StoreFrame DEF StoreType
<1>4. CASE ~exists
  <2>1. queue' = {} /\ in_flight' = [x \in Conns |-> NoEntry] /\ next_index' = 0
    BY <1>4 DEF InitializeQueue
  <2>2. Known' = {} /\ Flying' = {}
    BY <1>1, <1>4, <2>1 DEF Known, Held, InFlight, Forgotten, Flying, Opened
  <2>3. StoreType'
    BY <1>1, <1>2, <2>1 DEF StoreType
  <2>4. Leased'
    BY <1>1, <1>4, <2>1 DEF Leased, Opened, StoreType
  <2>5. OnePlace' /\ Counted' /\ Opened' /\ Transactions'
    BY <1>1, <2>2 DEF OnePlace, Counted, Opened, Transactions, Known, Held
  <2> QED
    BY <1>2, <2>3, <2>4, <2>5
<1> QED
  BY <1>3, <1>4

\* A client only touches the store by opening a connection or by setting its payload.
LEMMA ConnectStore ==
  ASSUME StoreInv, NEW k \in Clients, NEW c \in Conns, Connect(k, c)
  PROVE  StoreInv'
<1> USE DEF StoreInv
<1>1. /\ handler[c] = "unused" /\ handler' = [handler EXCEPT ![c] = "accepted"]
      /\ request' = [request EXCEPT ![c] = job[k]]
      /\ UNCHANGED <<exists, queue, in_flight, next_index, acknowledged, job>>
  BY DEF Connect, Goto, queueVars, historyVars
<1>2. /\ handler' \in [Conns -> HandlerState]
      /\ request' \in [Conns -> Messages \union {NoMessage}]
  BY <1>1 DEF StoreType, HandlerState
<1>3. Commands'
  BY <1>1 DEF StoreType, Commands
<1>4. \A x \in Conns : /\ handler[x] = "closed" => handler'[x] = "closed" /\ request'[x] = request[x]
                       /\ handler'[x] = "pop_wait" <=> handler[x] = "pop_wait"
  BY <1>1 DEF StoreType
<1>5. ~exists' => \A x \in Conns : handler'[x] \in {"unused", "accepted"}
  BY <1>1 DEF Opened, StoreType
<1> QED
  BY <1>1, <1>2, <1>3, <1>4, <1>5, StoreFrame DEF StoreType

LEMMA PayloadStore ==
  ASSUME StoreInv,
         UNCHANGED <<exists, queue, in_flight, next_index, handler, request, acknowledged>>,
         job' \in [Clients -> Messages \union {NoMessage}]
  PROVE  StoreInv'
<1> USE DEF StoreInv
<1>1. Commands'
  BY DEF Commands
<1> QED
  BY <1>1, StoreFrame DEF StoreType, Opened

LEMMA StepStoreInv == StoreInv /\ [Next]_vars => StoreInv'
<1> SUFFICES ASSUME StoreInv, [Next]_vars PROVE StoreInv'
  OBVIOUS
<1> USE DEF StoreInv
<1>1. ASSUME NEW c \in Conns, InitializeQueue(c) PROVE StoreInv'
  BY <1>1, InitializeQueueStore
<1>2. ASSUME NEW c \in Conns, HandlePush(c) \/ DiscardPush(c) PROVE StoreInv'
  <2>1. /\ handler[c] \in {"dispatch", "push_wait"} /\ request[c] # NoMessage
        /\ handler' \in {[handler EXCEPT ![c] = "closed"], [handler EXCEPT ![c] = "push_wait"]}
        /\ UNCHANGED <<exists, queue, in_flight, next_index, acknowledged, request, job>>
    BY <1>2 DEF HandlePush, DiscardPush, Goto, queueVars, clientVars, historyVars, Commands
  <2>2. handler' \in [Conns -> HandlerState] /\ Commands'
    BY <2>1 DEF StoreType, HandlerState, Commands
  <2> QED
    BY <2>1, <2>2, StoreFrame DEF StoreType, Opened
<1>3. ASSUME NEW c \in Conns, StorePush(c) PROVE StoreInv'
  BY <1>3, StorePushStore
<1>4. ASSUME NEW c \in Conns, HandlePop(c) PROVE StoreInv'
  BY <1>4, HandlePopStore
<1>5. ASSUME NEW c \in Conns, CommitPop(c) \/ ReturnPop(c) PROVE StoreInv'
  BY <1>5, EndLeaseStore DEF CommitPop, ReturnPop, Goto, clientVars
<1>6. ASSUME NEW k \in Clients, NEW m \in Messages, Submit(k, m) PROVE StoreInv'
  BY <1>6, PayloadStore DEF Submit, StoreType, queueVars, historyVars
<1>7. ASSUME NEW k \in Clients, Fetch(k) PROVE StoreInv'
  BY <1>7, PayloadStore DEF Fetch, StoreType, queueVars, historyVars
<1>8. ASSUME NEW k \in Clients, NEW c \in Conns, Connect(k, c) PROVE StoreInv'
  BY <1>8, ConnectStore
<1>9. ASSUME NEW k \in Clients, ReceiveRefusal(k) \/ ReceiveInitial(k) \/ ConnectionLost(k)
      PROVE StoreInv'
  BY <1>9, PayloadStore DEF ReceiveRefusal, ReceiveInitial, ConnectionLost, StoreType, queueVars, historyVars
<1>10. ASSUME NEW k \in Clients, ReceiveSuccess(k) \/ ReceiveFailure(k) \/ Deadline(k)
       PROVE StoreInv'
  BY <1>10, PayloadStore
     DEF ReceiveSuccess, ReceiveFailure, Deadline, Return, StoreType, queueVars, historyVars
<1>11. CASE Quiet \/ UNCHANGED vars
  BY <1>11, PayloadStore DEF Quiet, vars, queueVars, clientVars, historyVars, StoreType
<1> QED
  BY <1>1, <1>2, <1>3, <1>4, <1>5, <1>6, <1>7, <1>8, <1>9, <1>10, <1>11
     DEF Next, Handler, Client

\* The broker always knows where an entry is: in the queue, on lease to one handler, or
\* acknowledged.  Timeouts and late ACKs never put it in two places (OnePlace).
THEOREM EntryInOnePlace == Spec => []OnePlace
<1>1. StoreInv => OnePlace
  BY DEF StoreInv
<1> QED
  BY <1>1, InitStoreInv, StepStoreInv, PTL DEF Spec

-----------------------------------------------------------------------------
(* The handshakes: what a client and the handler of its connection know of each other. *)

Replies == Seq([kind : ReplyKind, entry : Entry \union {NoEntry}])

\* The types of the clients' side of the state.
ClientType ==
  /\ acks \subseteq Conns
  /\ pc \in [Clients -> {"idle", "retry", "await_initial", "await_final"}]
  /\ sock \in [Clients -> Conns \union {NoConn}]
  /\ taken \in [Clients -> Entry \union {NoEntry}]
  /\ replies \in [Conns -> Replies]

Waiting == {"await_initial", "await_final"}

\* A call has a connection while it waits on it; nobody else has it, and the handler works
\* on the payload of the call.
Sockets ==
  /\ \A k \in Clients : sock[k] # NoConn <=> pc[k] \in Waiting
  /\ \A k, j \in Clients : sock[k] # NoConn /\ sock[k] = sock[j] => k = j
  /\ \A k \in Clients : sock[k] # NoConn =>
       handler[sock[k]] # "unused" /\ request[sock[k]] = job[k]

\* A producer's call has a payload, a consumer's has none.
Payloads == \A k \in Clients : job[k] # NoMessage <=> k \in Producers /\ pc[k] # "idle"

Final(kind) == <<Reply(kind, NoEntry)>>

\* The client waits for the initial response: it has sent no ACK.
AwaitsInitial(c) ==
  /\ c \notin acks
  /\ handler[c] \in {"accepted", "dispatch"} => replies[c] = <<>>
  /\ handler[c] = "push_wait" => replies[c] = Final("initiated")
  /\ handler[c] = "pop_wait" => replies[c] = <<Reply("initiated", in_flight[c])>>
  /\ handler[c] = "closed" =>
       \/ replies[c] \in {Final("full"), Final("not_ready")}
       \/ /\ replies[c] # <<>>
          /\ replies[c] = <<Reply("initiated", Head(replies[c]).entry), Reply("no_ack", NoEntry)>>

\* The client k waits for the final response: it has the entry the handler has on lease.
AwaitsFinal(k, c) ==
  /\ c \in acks
  /\ handler[c] \in {"push_wait", "pop_wait", "closed"}
  /\ handler[c] # "closed" => replies[c] = <<>>
  /\ handler[c] = "pop_wait" => taken[k] = in_flight[c]
  /\ handler[c] = "closed" =>
       \/ replies[c] = Final("no_ack")
       \/ replies[c] = Final("stored") /\ \E e \in Known : e.txn = c
       \/ replies[c] = Final("processed") /\ <<c, taken[k]>> \in acknowledged

Handshakes ==
  /\ \A c \in Conns : handler[c] = "unused" => c \notin acks /\ replies[c] = <<>>
  /\ \A k \in Clients :
       /\ pc[k] = "await_initial" => AwaitsInitial(sock[k])
       /\ pc[k] = "await_final" => AwaitsFinal(k, sock[k])

\* An acknowledged entry went through one handshake; if its client is still there, it is
\* about to read the final response.
Acknowledgements ==
  /\ \A a, b \in acknowledged : a[2] = b[2] => a = b
  /\ \A a \in acknowledged :
       /\ a[1] \in acks
       /\ handler[a[1]] = "closed"
       /\ \A k \in Clients : sock[k] = a[1] =>
            /\ pc[k] = "await_final"
            /\ k \in Consumers
            /\ taken[k] = a[2]
            /\ replies[a[1]] = Final("processed")

HandshakeInv == ClientType /\ Sockets /\ Payloads /\ Handshakes /\ Acknowledgements

LEMMA InitHandshakeInv == Init => HandshakeInv
<1> SUFFICES ASSUME Init PROVE HandshakeInv
  OBVIOUS
<1>1. ClientType
  BY DEF Init, ClientType, Replies
<1>2. Sockets /\ Payloads /\ Handshakes /\ Acknowledgements
  BY DEF Init, Sockets, Payloads, Handshakes, Acknowledgements, Waiting
<1> QED
  BY <1>1, <1>2 DEF HandshakeInv

LEMMA AppendPair == ASSUME NEW x, NEW y PROVE Append(<<x>>, y) = <<x, y>>
<1> DEFINE S == {x, y}
           t == Append(<<x>>, y)
           u == <<x, y>>
<1>1. u \in Seq(S) /\ Len(u) = 2 /\ u[1] = x /\ u[2] = y
  OBVIOUS
<1>2. t \in Seq(S) /\ Len(t) = 2 /\ t[1] = x /\ t[2] = y
  <2>1. <<x>> \in Seq(S) /\ y \in S
    OBVIOUS
  <2> HIDE DEF S
  <2> QED
    BY <2>1
<1>3. \A i \in 1..2 : i = 1 \/ i = 2
  OBVIOUS
<1> HIDE DEF S, t, u
<1>4. t = u
  BY <1>1, <1>2, <1>3, SeqEqual
<1> QED
  BY <1>4 DEF t, u

\* A response reaches the client that has the connection open.
LEMMA SendEffect ==
  ASSUME ClientType, NEW c \in Conns, NEW kind \in ReplyKind, NEW entry \in Entry \union {NoEntry},
         Send(c, kind, entry)
  PROVE  /\ replies' \in [Conns -> Replies]
         /\ \A x \in Conns \ {c} : replies'[x] = replies[x]
         /\ \A k \in Clients : sock[k] = c => replies'[c] = Append(replies[c], Reply(kind, entry))
<1>1. Reply(kind, entry) \in [kind : ReplyKind, entry : Entry \union {NoEntry}]
  BY DEF Reply
<1>2. replies[c] \in Replies
  BY DEF ClientType
<1>3. Append(replies[c], Reply(kind, entry)) \in Replies
  BY <1>1, <1>2 DEF Replies
<1> QED
  BY <1>3 DEF Send, ClientType

\* A step of the handler of c only concerns the client that has c open.
LEMMA HandlerStep ==
  ASSUME StoreInv, HandshakeInv, NEW c \in Conns,
         UNCHANGED <<acks, pc, sock, job, taken, request>>,
         handler[c] # "unused", handler'[c] # "unused",
         replies' \in [Conns -> Replies],
         \A x \in Conns \ {c} :
           handler'[x] = handler[x] /\ replies'[x] = replies[x] /\ in_flight'[x] = in_flight[x],
         Known \subseteq Known', acknowledged \subseteq acknowledged',
         \A k \in Clients : sock[k] = c =>
           /\ pc[k] = "await_initial" => AwaitsInitial(c)'
           /\ pc[k] = "await_final" => AwaitsFinal(k, c)',
         Acknowledgements'
  PROVE  HandshakeInv'
<1> USE DEF HandshakeInv
<1>1. ClientType'
  BY DEF ClientType
<1>2. Sockets' /\ Payloads'
  <2>1. \A x \in Conns : handler'[x] = "unused" <=> handler[x] = "unused"
    OBVIOUS
  <2>2. \A k \in Clients : sock[k] # NoConn => sock[k] \in Conns
    BY DEF ClientType
  <2> QED
    BY <2>1, <2>2 DEF Sockets, Payloads
<1>3. ASSUME NEW k \in Clients
      PROVE  /\ pc[k] = "await_initial" => AwaitsInitial(sock[k])'
             /\ pc[k] = "await_final" => AwaitsFinal(k, sock[k])'
  <2>1. CASE sock[k] = c
    BY <2>1
  <2>2. CASE sock[k] # c /\ pc[k] \in Waiting
    <3>1. sock[k] \in Conns \ {c}
      BY <2>2 DEF Sockets, ClientType
    <3>2. pc[k] = "await_initial" => AwaitsInitial(sock[k])'
      BY <3>1 DEF AwaitsInitial, Handshakes
    <3>3. pc[k] = "await_final" => AwaitsFinal(k, sock[k])'
      BY <3>1 DEF AwaitsFinal, Handshakes
    <3> QED
      BY <3>2, <3>3
  <2> QED
    BY <2>1, <2>2 DEF Waiting
<1>4. Handshakes'
  <2>1. \A x \in Conns : handler'[x] = "unused" => x # c
    OBVIOUS
  <2> QED
    BY <1>3, <2>1 DEF Handshakes
<1> QED
  BY <1>1, <1>2, <1>4

\* Connections that acknowledged an entry are not the one whose handler still works.
LEMMA SameAcknowledgements ==
  ASSUME StoreInv, HandshakeInv, NEW c \in Conns,
         UNCHANGED <<acks, pc, sock, job, taken, request, acknowledged>>,
         handler[c] # "closed",
         \A x \in Conns \ {c} : handler'[x] = handler[x] /\ replies'[x] = replies[x]
  PROVE  Acknowledgements'
<1>1. \A a \in acknowledged : a[1] \in Conns \ {c}
  BY DEF Acknowledgements, HandshakeInv, StoreInv, StoreType
<1> QED
  BY <1>1 DEF Acknowledgements, HandshakeInv

\* The client of a connection whose handler waits or works.
LEMMA OpenHandshake ==
  ASSUME HandshakeInv, NEW k \in Clients, NEW c \in Conns, sock[k] = c
  PROVE  /\ pc[k] = "await_initial" => AwaitsInitial(c)
         /\ pc[k] = "await_final" => AwaitsFinal(k, c)
         /\ pc[k] \in Waiting
<1>1. c # NoConn
  BY BrokerAssumption
<1> QED
  BY <1>1 DEF HandshakeInv, Handshakes, Sockets

\* A handler's response to a client that has not sent its ACK, or has.
LEMMA Responses ==
  ASSUME NEW e
  PROVE  /\ \A kind : Append(<<>>, Reply(kind, e)) = <<Reply(kind, e)>>
         /\ Append(<<Reply("initiated", e)>>, Reply("no_ack", NoEntry))
              = <<Reply("initiated", e), Reply("no_ack", NoEntry)>>
         /\ Head(<<Reply("initiated", e), Reply("no_ack", NoEntry)>>).entry = e
         /\ <<Reply("initiated", e), Reply("no_ack", NoEntry)>> # <<>>
BY AppendPair DEF Reply

LEMMA InitializeQueueHandshake ==
  ASSUME StoreInv, HandshakeInv, NEW c \in Conns, InitializeQueue(c)
  PROVE  HandshakeInv'
<1>1. /\ handler[c] = "accepted" /\ handler' = [handler EXCEPT ![c] = "dispatch"]
      /\ UNCHANGED <<replies, acks, pc, sock, job, taken, request, acknowledged>>
  BY DEF InitializeQueue, Goto, clientVars, historyVars
<1>2. handler \in [Conns -> HandlerState]
  BY DEF StoreInv, StoreType
<1>3. \A x \in Conns : in_flight'[x] = in_flight[x]
  BY DEF InitializeQueue, StoreInv, Opened, Leased
<1>4. Known \subseteq Known'
  <2>1. CASE exists
    BY <1>1, <2>1 DEF InitializeQueue, Known, Held, InFlight, Forgotten
  <2>2. CASE ~exists
    BY <2>2 DEF StoreInv, Opened, Leased, Known, Held, InFlight, Forgotten
  <2> QED
    BY <2>1, <2>2
<1>5. ASSUME NEW k \in Clients, sock[k] = c
      PROVE  /\ pc[k] = "await_initial" => AwaitsInitial(c)'
             /\ pc[k] = "await_final" => AwaitsFinal(k, c)'
  BY <1>1, <1>2, <1>5, OpenHandshake DEF AwaitsInitial, AwaitsFinal
<1>6. Acknowledgements'
  BY <1>1, <1>2, SameAcknowledgements
<1>7. replies' \in [Conns -> Replies]
  BY <1>1 DEF HandshakeInv, ClientType
<1> QED
  BY <1>1, <1>2, <1>3, <1>4, <1>5, <1>6, <1>7, HandlerStep

\* HandlePush, DiscardPush, and HandlePop when there is nothing to pop.
LEMMA RefuseHandshake ==
  ASSUME StoreInv, HandshakeInv, NEW c \in Conns,
         NEW kind \in ReplyKind, Send(c, kind, NoEntry),
         UNCHANGED <<queue, in_flight, acknowledged, acks, pc, sock, job, taken, request>>,
         \/ /\ handler[c] = "dispatch" /\ kind \in {"full", "not_ready"}
            /\ handler' = [handler EXCEPT ![c] = "closed"]
         \/ /\ handler[c] = "dispatch" /\ kind = "initiated"
            /\ handler' = [handler EXCEPT ![c] = "push_wait"]
         \/ /\ handler[c] = "push_wait" /\ kind = "no_ack"
            /\ handler' = [handler EXCEPT ![c] = "closed"]
  PROVE  HandshakeInv'
<1>1. handler \in [Conns -> HandlerState]
  BY DEF StoreInv, StoreType
<1>2. /\ replies' \in [Conns -> Replies]
      /\ \A x \in Conns \ {c} : replies'[x] = replies[x]
      /\ \A k \in Clients : sock[k] = c => replies'[c] = Append(replies[c], Reply(kind, NoEntry))
  BY SendEffect DEF HandshakeInv
<1>3. Known' = Known
  BY DEF Known, Held, InFlight, Forgotten
<1>4. ASSUME NEW k \in Clients, sock[k] = c, pc[k] = "await_initial"
      PROVE  AwaitsInitial(c)'
  <2>1. AwaitsInitial(c)
    BY <1>4, OpenHandshake
  <2>2. replies'[c] = Append(replies[c], Reply(kind, NoEntry))
    BY <1>2, <1>4
  <2>3. CASE handler[c] = "dispatch"
    <3>1. replies'[c] = Final(kind)
      BY <2>1, <2>2, <2>3, Responses DEF AwaitsInitial, Final
    <3> QED
      BY <1>1, <2>1, <2>3, <3>1 DEF AwaitsInitial
  <2>4. CASE handler[c] = "push_wait"
    <3>1. replies'[c] = <<Reply("initiated", NoEntry), Reply("no_ack", NoEntry)>>
      BY <2>1, <2>2, <2>4, Responses DEF AwaitsInitial, Final
    <3>2. replies'[c] # <<>> /\ Head(replies'[c]).entry = NoEntry
      BY <3>1, Responses
    <3> QED
      BY <1>1, <2>1, <2>4, <3>1, <3>2 DEF AwaitsInitial
  <2> QED
    BY <2>3, <2>4
<1>5. ASSUME NEW k \in Clients, sock[k] = c, pc[k] = "await_final"
      PROVE  AwaitsFinal(k, c)'
  <2>1. AwaitsFinal(k, c)
    BY <1>5, OpenHandshake
  <2>2. handler[c] = "push_wait" /\ replies[c] = <<>>
    BY <2>1 DEF AwaitsFinal
  <2>3. replies'[c] = Final("no_ack")
    BY <1>2, <1>5, <2>2, Responses DEF Final
  <2> QED
    BY <1>1, <2>1, <2>2, <2>3 DEF AwaitsFinal
<1>6. Acknowledgements'
  BY <1>1, <1>2, SameAcknowledgements
<1> QED
  BY <1>1, <1>2, <1>3, <1>4, <1>5, <1>6, HandlerStep

LEMMA StorePushHandshake ==
  ASSUME StoreInv, HandshakeInv, NEW c \in Conns, StorePush(c)
  PROVE  HandshakeInv'
<1> DEFINE e == [index |-> next_index, message |-> request[c], txn |-> c]
<1>0. /\ handler[c] = "push_wait" /\ c \in acks /\ Send(c, "stored", NoEntry)
      /\ handler' = [handler EXCEPT ![c] = "closed"]
      /\ queue' = queue \union {e} /\ e.txn = c
      /\ UNCHANGED <<in_flight, acknowledged, acks, pc, sock, job, taken, request>>
  BY DEF StorePush, Goto, clientVars, historyVars
<1> HIDE DEF e
<1>1. handler \in [Conns -> HandlerState]
  BY DEF StoreInv, StoreType
<1>2. /\ replies' \in [Conns -> Replies]
      /\ \A x \in Conns \ {c} : replies'[x] = replies[x]
      /\ \A k \in Clients : sock[k] = c => replies'[c] = Append(replies[c], Reply("stored", NoEntry))
  BY <1>0, SendEffect DEF HandshakeInv, ReplyKind
<1>3. Known' = Known \union {e}
  BY <1>0 DEF Known, Held, InFlight, Forgotten
<1>4. ASSUME NEW k \in Clients, sock[k] = c
      PROVE  pc[k] # "await_initial"
  BY <1>0, <1>4, OpenHandshake DEF AwaitsInitial
<1>5. ASSUME NEW k \in Clients, sock[k] = c, pc[k] = "await_final"
      PROVE  AwaitsFinal(k, c)'
  <2>1. AwaitsFinal(k, c)
    BY <1>5, OpenHandshake
  <2>2. replies'[c] = Final("stored")
    BY <1>0, <1>2, <1>5, <2>1, Responses DEF AwaitsFinal, Final
  <2>3. \E x \in Known' : x.txn = c
    BY <1>0, <1>3
  <2> QED
    BY <1>0, <1>1, <2>1, <2>2, <2>3 DEF AwaitsFinal
<1>6. Acknowledgements'
  BY <1>0, <1>1, <1>2, SameAcknowledgements
<1> QED
  BY <1>0, <1>1, <1>2, <1>3, <1>4, <1>5, <1>6, HandlerStep

LEMMA HandlePopHandshake ==
  ASSUME StoreInv, HandshakeInv, NEW c \in Conns, HandlePop(c)
  PROVE  HandshakeInv'
<1>0. /\ handler[c] = "dispatch"
      /\ UNCHANGED <<acknowledged, acks, pc, sock, job, taken, request>>
      /\ \/ /\ Send(c, "not_ready", NoEntry) /\ UNCHANGED <<queue, in_flight>>
            /\ handler' = [handler EXCEPT ![c] = "closed"]
         \/ /\ queue # {} /\ queue' = queue \ {Oldest}
            /\ in_flight' = [in_flight EXCEPT ![c] = Oldest]
            /\ Send(c, "initiated", Oldest)
            /\ handler' = [handler EXCEPT ![c] = "pop_wait"]
  BY DEF HandlePop, Goto, clientVars, historyVars
<1>1. handler \in [Conns -> HandlerState]
  BY DEF StoreInv, StoreType
<1>2. CASE Send(c, "not_ready", NoEntry) /\ UNCHANGED <<queue, in_flight>>
             /\ handler' = [handler EXCEPT ![c] = "closed"]
  BY <1>0, <1>2, RefuseHandshake DEF ReplyKind
<1>3. CASE /\ queue # {} /\ queue' = queue \ {Oldest}
           /\ in_flight' = [in_flight EXCEPT ![c] = Oldest]
           /\ Send(c, "initiated", Oldest)
           /\ handler' = [handler EXCEPT ![c] = "pop_wait"]
  <2> DEFINE e == Oldest
  <2>1. e \in queue /\ e \in Entry
    BY <1>3, OldestEntry DEF StoreInv, StoreType
  <2>2. /\ queue' = queue \ {e} /\ in_flight' = [in_flight EXCEPT ![c] = e]
        /\ Send(c, "initiated", e)
    BY <1>3
  <2> HIDE DEF e
  <2>3. in_flight[c] = NoEntry /\ in_flight \in [Conns -> Entry \union {NoEntry}]
    BY <1>0 DEF StoreInv, Leased, StoreType
  <2>4. Known' = Known
    BY <1>0, <2>1, <2>2, <2>3, LeaseEffect DEF Known, Forgotten, StoreInv
  <2>5. /\ replies' \in [Conns -> Replies]
        /\ \A x \in Conns \ {c} : replies'[x] = replies[x]
        /\ \A k \in Clients : sock[k] = c => replies'[c] = Append(replies[c], Reply("initiated", e))
    BY <2>1, <2>2, SendEffect DEF HandshakeInv, ReplyKind
  <2>6. ASSUME NEW k \in Clients, sock[k] = c, pc[k] = "await_initial"
        PROVE  AwaitsInitial(c)'
    <3>1. AwaitsInitial(c)
      BY <2>6, OpenHandshake
    <3>2. replies'[c] = <<Reply("initiated", e)>>
      BY <1>0, <2>5, <2>6, <3>1, Responses DEF AwaitsInitial
    <3> QED
      BY <1>0, <1>1, <1>3, <2>2, <2>3, <3>1, <3>2 DEF AwaitsInitial
  <2>7. ASSUME NEW k \in Clients, sock[k] = c
        PROVE  pc[k] # "await_final"
    BY <1>0, <2>7, OpenHandshake DEF AwaitsFinal
  <2>8. Acknowledgements'
    BY <1>0, <1>1, <1>3, <2>5, SameAcknowledgements
  <2> QED
    BY <1>0, <1>1, <1>3, <2>2, <2>3, <2>4, <2>5, <2>6, <2>7, <2>8, HandlerStep
<1> QED
  BY <1>0, <1>2, <1>3

LEMMA ReturnPopHandshake ==
  ASSUME StoreInv, HandshakeInv, NEW c \in Conns, ReturnPop(c)
  PROVE  HandshakeInv'
<1> DEFINE e == in_flight[c]
<1>0. /\ handler[c] = "pop_wait" /\ Send(c, "no_ack", NoEntry)
      /\ handler' = [handler EXCEPT ![c] = "closed"]
      /\ queue' = queue \union {e} /\ in_flight' = [in_flight EXCEPT ![c] = NoEntry]
      /\ UNCHANGED <<acknowledged, acks, pc, sock, job, taken, request>>
  BY DEF ReturnPop, Goto, clientVars, historyVars
<1>1. handler \in [Conns -> HandlerState] /\ in_flight \in [Conns -> Entry \union {NoEntry}]
  BY DEF StoreInv, StoreType
<1>2. /\ replies' \in [Conns -> Replies]
      /\ \A x \in Conns \ {c} : replies'[x] = replies[x]
      /\ \A k \in Clients : sock[k] = c => replies'[c] = Append(replies[c], Reply("no_ack", NoEntry))
  BY <1>0, SendEffect DEF HandshakeInv, ReplyKind
<1>3. Known \subseteq Known'
  <2>1. InFlight' = InFlight \ {e}
    BY <1>0, EndLeaseEffect DEF StoreInv, Leased
  <2> QED
    BY <1>0, <2>1 DEF Known, Held, Forgotten
<1>4. ASSUME NEW k \in Clients, sock[k] = c, pc[k] = "await_initial"
      PROVE  AwaitsInitial(c)'
  <2>1. AwaitsInitial(c)
    BY <1>4, OpenHandshake
  <2>2. replies'[c] = <<Reply("initiated", e), Reply("no_ack", NoEntry)>>
    BY <1>0, <1>2, <1>4, <2>1, Responses DEF AwaitsInitial
  <2>3. replies'[c] # <<>> /\ Head(replies'[c]).entry = e
    BY <2>2, Responses
  <2> QED
    BY <1>0, <1>1, <2>1, <2>2, <2>3 DEF AwaitsInitial
<1>5. ASSUME NEW k \in Clients, sock[k] = c, pc[k] = "await_final"
      PROVE  AwaitsFinal(k, c)'
  <2>1. AwaitsFinal(k, c)
    BY <1>5, OpenHandshake
  <2>2. replies'[c] = Final("no_ack")
    BY <1>0, <1>2, <1>5, <2>1, Responses DEF AwaitsFinal, Final
  <2> QED
    BY <1>0, <1>1, <2>1, <2>2 DEF AwaitsFinal
<1>6. Acknowledgements'
  BY <1>0, <1>1, <1>2, SameAcknowledgements
<1> QED
  BY <1>0, <1>1, <1>2, <1>3, <1>4, <1>5, <1>6, HandlerStep

LEMMA CommitPopHandshake ==
  ASSUME StoreInv, HandshakeInv, NEW c \in Conns, CommitPop(c)
  PROVE  HandshakeInv'
<1> DEFINE e == in_flight[c]
<1>0. /\ handler[c] = "pop_wait" /\ c \in acks /\ Send(c, "processed", NoEntry)
      /\ handler' = [handler EXCEPT ![c] = "closed"]
      /\ acknowledged' = acknowledged \union {<<c, e>>}
      /\ in_flight' = [in_flight EXCEPT ![c] = NoEntry]
      /\ UNCHANGED <<queue, acks, pc, sock, job, taken, request>>
  BY DEF CommitPop, Goto, clientVars
<1>1. handler \in [Conns -> HandlerState] /\ in_flight \in [Conns -> Entry \union {NoEntry}]
  BY DEF StoreInv, StoreType
<1>2. /\ replies' \in [Conns -> Replies]
      /\ \A x \in Conns \ {c} : replies'[x] = replies[x]
      /\ \A k \in Clients : sock[k] = c => replies'[c] = Append(replies[c], Reply("processed", NoEntry))
  BY <1>0, SendEffect DEF HandshakeInv, ReplyKind
<1>3. Known \subseteq Known'
  <2>1. InFlight' = InFlight \ {e}
    BY <1>0, EndLeaseEffect DEF StoreInv, Leased
  <2>2. <<c, e>>[2] = e
    OBVIOUS
  <2>3. Forgotten \union {e} \subseteq Forgotten'
    BY <1>0, <2>2 DEF Forgotten
  <2> QED
    BY <1>0, <2>1, <2>3 DEF Known, Held
<1>4. ASSUME NEW k \in Clients, sock[k] = c
      PROVE  /\ pc[k] = "await_final" /\ k \in Consumers /\ taken[k] = e
             /\ replies'[c] = Final("processed")
  <2>1. pc[k] = "await_final"
    BY <1>0, <1>4, OpenHandshake DEF AwaitsInitial, Waiting
  <2>2. AwaitsFinal(k, c)
    BY <1>4, <2>1, OpenHandshake
  <2>3. taken[k] = e /\ replies'[c] = Final("processed")
    BY <1>0, <1>2, <1>4, <2>2, Responses DEF AwaitsFinal, Final
  <2>4. job[k] = NoMessage
    <3>1. request[c] = NoMessage
      BY <1>0 DEF StoreInv, Commands
    <3>2. c # NoConn
      BY BrokerAssumption
    <3> QED
      BY <1>4, <3>1, <3>2 DEF HandshakeInv, Sockets
  <2>5. k \in Consumers
    BY <2>1, <2>4 DEF HandshakeInv, Payloads, Clients
  <2> QED
    BY <2>1, <2>3, <2>5
<1>5. ASSUME NEW k \in Clients, sock[k] = c, pc[k] = "await_final"
      PROVE  AwaitsFinal(k, c)'
  BY <1>0, <1>1, <1>4, <1>5 DEF AwaitsFinal
<1>6. Acknowledgements'
  <2>1. e \notin Forgotten
    BY <1>0 DEF StoreInv, Leased, OnePlace, Flying
  <2>2. \A a \in acknowledged : a[2] # e
    BY <2>1 DEF Forgotten
  <2>3. \A a \in acknowledged : a[1] \in Conns \ {c}
    BY <1>0 DEF Acknowledgements, HandshakeInv, StoreInv, StoreType
  <2>4. <<c, e>>[1] = c /\ <<c, e>>[2] = e
    OBVIOUS
  <2>5. \A a, b \in acknowledged' : a[2] = b[2] => a = b
    BY <1>0, <2>2, <2>4 DEF Acknowledgements, HandshakeInv
  <2>6. ASSUME NEW a \in acknowledged
        PROVE  /\ a[1] \in acks' /\ handler'[a[1]] = "closed"
               /\ \A k \in Clients : sock'[k] = a[1] =>
                    /\ pc'[k] = "await_final" /\ k \in Consumers /\ taken'[k] = a[2]
                    /\ replies'[a[1]] = Final("processed")
    BY <1>0, <1>1, <1>2, <2>3 DEF Acknowledgements, HandshakeInv
  <2>7. handler'[c] = "closed"
    BY <1>0, <1>1
  <2> QED
    BY <1>0, <1>4, <2>4, <2>5, <2>6, <2>7 DEF Acknowledgements
<1> QED
  BY <1>0, <1>1, <1>2, <1>3, <1>4, <1>5, <1>6, HandlerStep

\* What the other clients' calls know is not touched by a step of client k on its own
\* connection.
LEMMA ClientStep ==
  ASSUME StoreInv, HandshakeInv, NEW k \in Clients,
         UNCHANGED <<queue, in_flight, acknowledged>>,
         ClientType',
         \A x \in Conns : x # sock'[k] => handler'[x] = handler[x] /\ request'[x] = request[x],
         \A x \in Conns : handler'[x] = "unused" => handler[x] = "unused",
         \A x \in Conns : x # sock[k] => replies'[x] = replies[x] /\ (x \in acks' <=> x \in acks),
         acks \subseteq acks',
         \A j \in Clients \ {k} :
           /\ pc'[j] = pc[j] /\ sock'[j] = sock[j] /\ job'[j] = job[j] /\ taken'[j] = taken[j]
           /\ sock'[k] # NoConn => sock'[k] # sock[j],
         sock'[k] # NoConn <=> pc'[k] \in Waiting,
         sock'[k] # NoConn => handler'[sock'[k]] # "unused" /\ request'[sock'[k]] = job'[k],
         job'[k] # NoMessage <=> k \in Producers /\ pc'[k] # "idle",
         pc'[k] = "await_initial" => AwaitsInitial(sock[k])',
         pc'[k] = "await_final" => AwaitsFinal(k, sock[k])',
         \A a \in acknowledged : a[1] # sock'[k] /\ handler'[a[1]] = handler[a[1]]
  PROVE  HandshakeInv'
<1> USE DEF HandshakeInv
<1>1. Known' = Known
  BY DEF Known, Held, InFlight, Forgotten
<1>2. Sockets'
  <2>1. \A j \in Clients \ {k} : sock[j] # NoConn => sock[j] \in Conns /\ sock[j] # sock'[k]
    BY DEF ClientType
  <2>2. \A j \in Clients \ {k} : sock[j] # NoConn =>
           /\ handler'[sock[j]] # "unused" /\ request'[sock[j]] = job'[j]
    BY <2>1 DEF Sockets
  <2> QED
    BY <2>1, <2>2 DEF Sockets
<1>3. Payloads'
  BY DEF Payloads
<1>4. ASSUME NEW j \in Clients \ {k}, pc[j] \in Waiting
      PROVE  sock[j] \in Conns /\ sock[j] # sock[k] /\ sock[j] # sock'[k]
  BY <1>4 DEF Sockets, ClientType
<1>5. ASSUME NEW j \in Clients \ {k}, pc[j] = "await_initial"
      PROVE  AwaitsInitial(sock[j])'
  <2>1. sock[j] \in Conns /\ sock[j] # sock[k] /\ sock[j] # sock'[k] /\ sock'[j] = sock[j]
    BY <1>4, <1>5 DEF Waiting
  <2>2. AwaitsInitial(sock[j])
    BY <1>5 DEF Handshakes
  <2> QED
    BY <2>1, <2>2 DEF AwaitsInitial
<1>6. ASSUME NEW j \in Clients \ {k}, pc[j] = "await_final"
      PROVE  AwaitsFinal(j, sock[j])'
  <2>1. sock[j] \in Conns /\ sock[j] # sock[k] /\ sock[j] # sock'[k] /\ sock'[j] = sock[j]
    BY <1>4, <1>6 DEF Waiting
  <2>2. AwaitsFinal(j, sock[j])
    BY <1>6 DEF Handshakes
  <2> QED
    BY <1>1, <2>1, <2>2 DEF AwaitsFinal
<1>7. Handshakes'
  <2>1. \A x \in Conns : handler'[x] = "unused" => x # sock[k]
    BY BrokerAssumption DEF Sockets
  <2>2. \A x \in Conns : handler'[x] = "unused" => x \notin acks' /\ replies'[x] = <<>>
    BY <2>1 DEF Handshakes
  <2> QED
    BY <1>5, <1>6, <2>2 DEF Handshakes
<1>8. Acknowledgements'
  <2>1. \A a \in acknowledged : a[1] \in Conns
    BY DEF StoreInv, StoreType
  <2>2. ASSUME NEW a \in acknowledged, NEW j \in Clients, sock'[j] = a[1]
        PROVE  /\ pc'[j] = "await_final" /\ j \in Consumers /\ taken'[j] = a[2]
               /\ replies'[a[1]] = Final("processed")
    <3>1. j # k
      BY <2>2
    <3>2. sock[j] = a[1]
      BY <2>2, <3>1
    <3>3. a[1] # NoConn
      BY <2>1, BrokerAssumption
    <3>4. sock[k] # a[1]
      BY <3>1, <3>2, <3>3 DEF Sockets
    <3> QED
      BY <2>1, <3>1, <3>2, <3>4 DEF Acknowledgements
  <2> QED
    BY <2>2 DEF Acknowledgements
<1> QED
  BY <1>2, <1>3, <1>7, <1>8

\* Every way in which a call leaves its connection.
LEMMA LeaveHandshake ==
  ASSUME StoreInv, HandshakeInv, NEW k \in Clients, NEW p \in {"idle", "retry"},
         UNCHANGED <<queue, in_flight, acknowledged, handler, request, acks>>,
         pc' = [pc EXCEPT ![k] = p], sock' = [sock EXCEPT ![k] = NoConn],
         job' \in [Clients -> Messages \union {NoMessage}],
         \A j \in Clients \ {k} : job'[j] = job[j] /\ taken'[j] = taken[j],
         job'[k] # NoMessage <=> k \in Producers /\ p # "idle",
         taken' \in [Clients -> Entry \union {NoEntry}],
         replies' \in [Conns -> Replies],
         \A x \in Conns : x # sock[k] => replies'[x] = replies[x]
  PROVE  HandshakeInv'
<1>1. pc \in [Clients -> {"idle", "retry", "await_initial", "await_final"}]
      /\ sock \in [Clients -> Conns \union {NoConn}] /\ acks \subseteq Conns
  BY DEF HandshakeInv, ClientType
<1>2. ClientType'
  BY <1>1 DEF ClientType
<1>3. sock'[k] = NoConn /\ pc'[k] = p /\ \A j \in Clients \ {k} : pc'[j] = pc[j] /\ sock'[j] = sock[j]
  BY <1>1
<1>4. \A a \in acknowledged : a[1] # sock'[k]
  BY <1>3, BrokerAssumption DEF StoreInv, StoreType
<1> QED
  BY <1>2, <1>3, <1>4, ClientStep DEF Waiting

LEMMA TailOfSeq ==
  ASSUME NEW S, NEW s \in Seq(S), s # <<>>
  PROVE  Tail(s) \in Seq(S) /\ Head(s) \in S
OBVIOUS

LEMMA ShortTails ==
  ASSUME NEW x, NEW y
  PROVE  /\ Head(<<x>>) = x /\ Tail(<<x>>) = <<>>
         /\ Tail(<<x, y>>) = <<y>>
OBVIOUS

LEMMA TailType ==
  ASSUME HandshakeInv, NEW k \in Clients, sock[k] # NoConn, replies[sock[k]] # <<>>
  PROVE  /\ Tail(replies[sock[k]]) \in Replies
         /\ Head(replies[sock[k]]).entry \in Entry \union {NoEntry}
<1>1. replies[sock[k]] \in Replies
  BY DEF HandshakeInv, ClientType
<1> DEFINE s == replies[sock[k]]
<1>2. s \in Replies /\ s # <<>>
  BY <1>1
<1> HIDE DEF s
<1>3. Tail(s) \in Replies /\ Head(s) \in [kind : ReplyKind, entry : Entry \union {NoEntry}]
  BY <1>2, TailOfSeq DEF Replies
<1> QED
  BY <1>3 DEF s

\* The steps in which a call reads a response or gives up its connection.
LEMMA LeavingSteps ==
  ASSUME StoreInv, HandshakeInv, NEW k \in Clients,
         \/ ReceiveRefusal(k) \/ ReceiveSuccess(k) \/ ReceiveFailure(k)
         \/ ConnectionLost(k) \/ Deadline(k)
  PROVE  HandshakeInv'
<1>1. /\ replies \in [Conns -> Replies]
      /\ taken \in [Clients -> Entry \union {NoEntry}]
      /\ job \in [Clients -> Messages \union {NoMessage}]
      /\ sock[k] # NoConn <=> pc[k] \in Waiting
      /\ job[k] # NoMessage <=> k \in Producers /\ pc[k] # "idle"
  BY DEF HandshakeInv, ClientType, StoreInv, StoreType, Sockets, Payloads
<1>2. <<>> \in Replies
  BY DEF Replies
<1>3. CASE ReceiveRefusal(k)
  <2>1. Tail(replies[sock[k]]) \in Replies
    BY <1>1, <1>3, TailType DEF ReceiveRefusal, Receives, Waiting
  <2> QED
    BY <1>1, <1>3, <2>1, LeaveHandshake
       DEF ReceiveRefusal, Consume, queueVars, historyVars, Waiting
<1>4. CASE ReceiveSuccess(k) \/ ReceiveFailure(k)
  <2>1. Tail(replies[sock[k]]) \in Replies
    BY <1>1, <1>4, TailType DEF ReceiveSuccess, ReceiveFailure, Receives, Waiting
  <2> QED
    BY <1>1, <1>4, <2>1, LeaveHandshake
       DEF ReceiveSuccess, ReceiveFailure, Return, Consume, queueVars, historyVars, Waiting
<1>5. CASE ConnectionLost(k)
  BY <1>1, <1>2, <1>5, LeaveHandshake DEF ConnectionLost, queueVars, historyVars, Waiting
<1>6. CASE Deadline(k)
  BY <1>1, <1>6, LeaveHandshake DEF Deadline, Return, queueVars, historyVars, Waiting
<1> QED
  BY <1>3, <1>4, <1>5, <1>6

LEMMA BeginCallHandshake ==
  ASSUME StoreInv, HandshakeInv, NEW k \in Clients,
         Fetch(k) \/ \E m \in Messages : Submit(k, m)
  PROVE  HandshakeInv'
<1>1. /\ pc \in [Clients -> {"idle", "retry", "await_initial", "await_final"}]
      /\ job \in [Clients -> Messages \union {NoMessage}]
      /\ sock \in [Clients -> Conns \union {NoConn}]
      /\ pc[k] = "idle" /\ pc' = [pc EXCEPT ![k] = "retry"]
      /\ UNCHANGED <<queue, in_flight, acknowledged, handler, request, acks, replies, sock, taken>>
  BY DEF HandshakeInv, ClientType, StoreInv, StoreType, Fetch, Submit, queueVars, historyVars
<1>2. /\ job' \in [Clients -> Messages \union {NoMessage}]
      /\ \A j \in Clients \ {k} : job'[j] = job[j]
      /\ job'[k] # NoMessage <=> k \in Producers
  BY <1>1, BrokerAssumption DEF Fetch, Submit, HandshakeInv, Payloads
<1>3. sock[k] = NoConn /\ sock' = [sock EXCEPT ![k] = NoConn]
  BY <1>1 DEF HandshakeInv, Sockets, Waiting
<1> QED
  BY <1>1, <1>2, <1>3, LeaveHandshake DEF HandshakeInv, ClientType

LEMMA ConnectHandshake ==
  ASSUME StoreInv, HandshakeInv, NEW k \in Clients, NEW c \in Conns, Connect(k, c)
  PROVE  HandshakeInv'
<1>1. /\ handler \in [Conns -> HandlerState]
      /\ request \in [Conns -> Messages \union {NoMessage}]
      /\ acknowledged \subseteq Conns \X Entry
      /\ pc \in [Clients -> {"idle", "retry", "await_initial", "await_final"}]
      /\ sock \in [Clients -> Conns \union {NoConn}]
  BY DEF StoreInv, StoreType, HandshakeInv, ClientType
<1>2. /\ pc[k] = "retry" /\ handler[c] = "unused"
      /\ handler' = [handler EXCEPT ![c] = "accepted"]
      /\ request' = [request EXCEPT ![c] = job[k]]
      /\ sock' = [sock EXCEPT ![k] = c] /\ pc' = [pc EXCEPT ![k] = "await_initial"]
      /\ UNCHANGED <<queue, in_flight, acknowledged, replies, acks, job, taken>>
  BY DEF Connect, Goto, queueVars, historyVars
<1>3. c # NoConn /\ \A j \in Clients : sock[j] # c
  BY <1>2, BrokerAssumption DEF HandshakeInv, Sockets
<1>4. c \notin acks /\ replies[c] = <<>>
  BY <1>2 DEF HandshakeInv, Handshakes
<1>5. \A a \in acknowledged : a[1] \in Conns /\ a[1] # c
  BY <1>1, <1>2 DEF HandshakeInv, Acknowledgements
<1>6. ClientType'
  BY <1>1, <1>2 DEF HandshakeInv, ClientType
<1>7. AwaitsInitial(c)'
  BY <1>1, <1>2, <1>4 DEF AwaitsInitial
<1>8. /\ sock'[k] = c /\ pc'[k] = "await_initial" /\ handler'[c] = "accepted" /\ request'[c] = job[k]
      /\ \A j \in Clients \ {k} : pc'[j] = pc[j] /\ sock'[j] = sock[j]
      /\ \A x \in Conns \ {c} : handler'[x] = handler[x] /\ request'[x] = request[x]
  BY <1>1, <1>2
<1>9. job[k] # NoMessage <=> k \in Producers
  BY <1>2 DEF HandshakeInv, Payloads
<1>10. AwaitsInitial(sock[k])'
  BY <1>7, <1>8 DEF AwaitsInitial
<1> QED
  BY <1>2, <1>3, <1>5, <1>6, <1>8, <1>9, <1>10, ClientStep DEF Waiting

LEMMA ReceiveInitialHandshake ==
  ASSUME StoreInv, HandshakeInv, NEW k \in Clients, ReceiveInitial(k)
  PROVE  HandshakeInv'
<1> DEFINE c == sock[k]
<1>1. /\ handler \in [Conns -> HandlerState]
      /\ acknowledged \subseteq Conns \X Entry
      /\ pc \in [Clients -> {"idle", "retry", "await_initial", "await_final"}]
      /\ sock \in [Clients -> Conns \union {NoConn}]
      /\ replies \in [Conns -> Replies]
      /\ taken \in [Clients -> Entry \union {NoEntry}]
  BY DEF StoreInv, StoreType, HandshakeInv, ClientType
<1>2. /\ pc[k] = "await_initial" /\ Receives(k, "initiated")
      /\ replies' = [replies EXCEPT ![c] = Tail(@)]
      /\ acks' = acks \union {c}
      /\ taken' = [taken EXCEPT ![k] = Head(replies[c]).entry]
      /\ pc' = [pc EXCEPT ![k] = "await_final"]
      /\ UNCHANGED <<queue, in_flight, acknowledged, handler, request, sock, job>>
  BY DEF ReceiveInitial, Consume, queueVars, historyVars
<1>3. c # NoConn /\ c \in Conns /\ handler[c] # "unused" /\ request[c] = job[k]
  BY <1>1, <1>2 DEF HandshakeInv, Sockets, Waiting
<1>4. AwaitsInitial(c)
  BY <1>2 DEF HandshakeInv, Handshakes
<1>5. replies[c] # <<>> /\ Head(replies[c]).kind = "initiated"
  BY <1>2 DEF Receives
<1>6. Tail(replies[c]) \in Replies /\ Head(replies[c]).entry \in Entry \union {NoEntry}
  BY <1>3, <1>5, TailType
<1> HIDE DEF c
<1>7. ClientType'
  BY <1>1, <1>2, <1>3, <1>6 DEF HandshakeInv, ClientType
<1>8. replies'[c] = Tail(replies[c]) /\ taken'[k] = Head(replies[c]).entry /\ c \in acks'
  BY <1>1, <1>2, <1>3
<1>9. /\ handler[c] \in {"push_wait", "pop_wait", "closed"}
      /\ handler[c] # "closed" => replies'[c] = <<>>
      /\ handler[c] = "pop_wait" => taken'[k] = in_flight[c]
      /\ handler[c] = "closed" => replies'[c] = Final("no_ack")
  <2>1. \A e : /\ Head(<<Reply("initiated", e)>>).entry = e
               /\ Tail(<<Reply("initiated", e)>>) = <<>>
    BY ShortTails DEF Reply
  <2>2. CASE handler[c] = "push_wait"
    BY <1>4, <1>8, <2>1, <2>2 DEF AwaitsInitial, Final
  <2>3. CASE handler[c] = "pop_wait"
    BY <1>4, <1>8, <2>1, <2>3 DEF AwaitsInitial
  <2>4. CASE handler[c] = "closed"
    <3>1. \A kind : Head(Final(kind)).kind = kind
      BY DEF Final, Reply
    <3>2. replies[c] = <<Reply("initiated", Head(replies[c]).entry), Reply("no_ack", NoEntry)>>
      BY <1>4, <1>5, <2>4, <3>1 DEF AwaitsInitial
    <3> QED
      BY <1>8, <2>4, <3>2, ShortTails DEF Final
  <2> QED
    BY <1>1, <1>3, <1>4, <1>5, <2>2, <2>3, <2>4 DEF AwaitsInitial, HandlerState
<1>10. \A a \in acknowledged : a[1] # c
  BY <1>4 DEF HandshakeInv, Acknowledgements, AwaitsInitial
<1>11. job[k] # NoMessage <=> k \in Producers
  BY <1>2 DEF HandshakeInv, Payloads
<1>12. \A j \in Clients \ {k} : sock[j] # c
  BY <1>3 DEF HandshakeInv, Sockets, c
<1>13. /\ sock'[k] = c /\ pc'[k] = "await_final" /\ sock[k] = c
       /\ \A j \in Clients \ {k} : pc'[j] = pc[j] /\ taken'[j] = taken[j]
       /\ \A x \in Conns \ {c} : replies'[x] = replies[x]
  BY <1>1, <1>2 DEF c
<1>14. AwaitsFinal(k, sock[k])'
  BY <1>2, <1>8, <1>9, <1>13 DEF AwaitsFinal
<1> QED
  BY <1>2, <1>3, <1>7, <1>10, <1>11, <1>12, <1>13, <1>14, ClientStep DEF Waiting

LEMMA StepHandshakeInv == StoreInv /\ HandshakeInv /\ [Next]_vars => HandshakeInv'
<1> SUFFICES ASSUME StoreInv, HandshakeInv, [Next]_vars PROVE HandshakeInv'
  OBVIOUS
<1>1. ASSUME NEW c \in Conns, HandlePush(c) PROVE HandshakeInv'
  BY <1>1, RefuseHandshake DEF HandlePush, Goto, ReplyKind, queueVars, clientVars
<1>2. ASSUME NEW c \in Conns, DiscardPush(c) PROVE HandshakeInv'
  BY <1>2, RefuseHandshake DEF DiscardPush, Goto, ReplyKind, queueVars, clientVars, historyVars
<1>3. CASE Quiet \/ UNCHANGED vars
  <2>1. UNCHANGED vars
    BY <1>3 DEF Quiet
  <2>2. Known' = Known
    BY <2>1 DEF vars, queueVars, historyVars, Known, Held, InFlight, Forgotten
  <2> QED
    BY <2>1, <2>2
       DEF vars, queueVars, clientVars, historyVars, HandshakeInv, ClientType, Sockets, Payloads,
           Handshakes, Acknowledgements, AwaitsInitial, AwaitsFinal
<1> QED
  BY <1>1, <1>2, <1>3, InitializeQueueHandshake, StorePushHandshake, HandlePopHandshake,
     CommitPopHandshake, ReturnPopHandshake, BeginCallHandshake, ConnectHandshake,
     LeavingSteps, ReceiveInitialHandshake
     DEF Next, Handler, Client

\* A message is lost only when its consumer left the connection after sending the ACK
\* (LostOnlyIfAbandoned): the window between the two responses of fetch_message is the
\* only one.
THEOREM LossOnlyByAbandoning == Spec => []LostOnlyIfAbandoned
<1>1. HandshakeInv => LostOnlyIfAbandoned
  BY DEF HandshakeInv, Acknowledgements, LostOnlyIfAbandoned, Final, Clients
<1> QED
  BY <1>1, InitStoreInv, StepStoreInv, InitHandshakeInv, StepHandshakeInv, PTL DEF Spec

-----------------------------------------------------------------------------
(* What was returned to the clients. *)

HistoryType ==
  /\ returned \subseteq Entry
  /\ confirmed \subseteq Conns
  /\ delivered \in [Consumers -> Seq(Entry)]

\* What a fetch returned was acknowledged on a connection that is closed since.
Deliveries ==
  \A k \in Consumers : \A i \in DOMAIN delivered[k] :
    \E a \in acknowledged : a[2] = delivered[k][i] /\ \A j \in Clients : sock[j] # a[1]

\* What a push reported as stored is known to the broker.
Confirmations == \A c \in confirmed : \E e \in Known : e.txn = c

\* What left the queue is older than what never left it.
LeavesInOrder ==
  \A e \in InFlight \union Forgotten, q \in queue \ returned : e.index < q.index

\* A consumer may get e next: it is younger than what the consumer has, or was returned.
MayFollow(k, e) == e \in returned \/ \A i \in DOMAIN delivered[k] : delivered[k][i].index < e.index

AboutToGet ==
  \A k \in Consumers : sock[k] # NoConn =>
    /\ in_flight[sock[k]] # NoEntry => MayFollow(k, in_flight[sock[k]])
    /\ \A a \in acknowledged : a[1] = sock[k] => MayFollow(k, a[2])

HistoryInv ==
  HistoryType /\ Deliveries /\ Confirmations /\ LeavesInOrder /\ AboutToGet /\ InOrder


LEMMA InitHistoryInv == Init => HistoryInv
<1> SUFFICES ASSUME Init PROVE HistoryInv
  OBVIOUS
<1>1. HistoryType
  BY DEF Init, HistoryType
<1>2. Deliveries /\ AboutToGet /\ InOrder
  BY DEF Init, Deliveries, AboutToGet, InOrder, Clients
<1>3. Confirmations /\ LeavesInOrder
  BY DEF Init, Confirmations, LeavesInOrder
<1> QED
  BY <1>1, <1>2, <1>3 DEF HistoryInv

\* What was delivered was acknowledged before.
LEMMA DeliveredIsForgotten ==
  ASSUME Deliveries, NEW k \in Consumers, NEW i \in DOMAIN delivered[k]
  PROVE  delivered[k][i] \in Forgotten
BY DEF Deliveries, Forgotten

LEMMA KnownIndex ==
  ASSUME StoreInv, NEW e \in Known
  PROVE  e \in Entry /\ e.index \in Nat
BY KnownEntries DEF StoreInv, Entry

\* Steps that leave the store and the histories alone: a call keeps its connection, leaves
\* it, or opens one that nothing has happened on.
LEMMA HistoryFrame ==
  ASSUME HistoryInv,
         UNCHANGED <<queue, in_flight, acknowledged, returned, confirmed, delivered>>,
         \A k \in Clients :
           \/ sock'[k] = sock[k]
           \/ sock'[k] = NoConn
           \/ /\ sock'[k] \in Conns
              /\ in_flight[sock'[k]] = NoEntry
              /\ \A a \in acknowledged : a[1] # sock'[k],
         acknowledged \subseteq Conns \X Entry
  PROVE  HistoryInv'
<1> USE DEF HistoryInv
<1>1. HistoryType' /\ InOrder'
  BY DEF HistoryType, InOrder
<1>2. Known' = Known /\ InFlight' = InFlight /\ Forgotten' = Forgotten
  BY DEF Known, Held, InFlight, Forgotten
<1>3. Confirmations' /\ LeavesInOrder'
  BY <1>2 DEF Confirmations, LeavesInOrder
<1>4. \A a \in acknowledged : a[1] # NoConn
  BY BrokerAssumption
<1>5. Deliveries'
  BY <1>4 DEF Deliveries
<1>6. AboutToGet'
  BY DEF AboutToGet, MayFollow, Clients
<1> QED
  BY <1>1, <1>3, <1>5, <1>6

LEMMA StorePushHistory ==
  ASSUME StoreInv, HistoryInv, NEW c \in Conns, StorePush(c)
  PROVE  HistoryInv'
<1> DEFINE e == [index |-> next_index, message |-> request[c], txn |-> c]
<1> USE DEF HistoryInv
<1>1. /\ queue' = queue \union {e} /\ e.index = next_index
      /\ UNCHANGED <<in_flight, sock, acknowledged, returned, confirmed, delivered>>
  BY DEF StorePush, clientVars, historyVars
<1> HIDE DEF e
<1>2. InFlight' = InFlight /\ Forgotten' = Forgotten /\ Known \subseteq Known'
  BY <1>1 DEF Known, Held, InFlight, Forgotten
<1>3. HistoryType' /\ InOrder' /\ Deliveries' /\ AboutToGet'
  BY <1>1 DEF HistoryType, InOrder, Deliveries, AboutToGet, MayFollow
<1>4. Confirmations'
  BY <1>1, <1>2 DEF Confirmations
<1>5. LeavesInOrder'
  <2>1. \A f \in InFlight \union Forgotten : f.index < next_index
    BY DEF StoreInv, Counted, Known, Held
  <2> QED
    BY <1>1, <1>2, <2>1 DEF LeavesInOrder
<1> QED
  BY <1>3, <1>4, <1>5

LEMMA HandlePopHistory ==
  ASSUME StoreInv, HistoryInv, NEW c \in Conns, HandlePop(c)
  PROVE  HistoryInv'
<1> USE DEF HistoryInv
<1>1. UNCHANGED <<sock, acknowledged, returned, confirmed, delivered>> /\ handler[c] = "dispatch"
  BY DEF HandlePop, clientVars, historyVars
<1>2. CASE UNCHANGED <<queue, in_flight>>
  BY <1>1, <1>2, HistoryFrame DEF StoreInv, StoreType
<1>3. CASE queue # {} /\ queue' = queue \ {Oldest} /\ in_flight' = [in_flight EXCEPT ![c] = Oldest]
  <2> DEFINE e == Oldest
  <2>1. e \in queue /\ \A f \in queue : e.index <= f.index
    BY <1>3, OldestEntry DEF StoreInv, StoreType
  <2>2. queue' = queue \ {e} /\ in_flight' = [in_flight EXCEPT ![c] = e]
    BY <1>3
  <2> HIDE DEF e
  <2>3. in_flight[c] = NoEntry /\ in_flight \in [Conns -> Entry \union {NoEntry}]
    BY <1>1 DEF StoreInv, Leased, StoreType
  <2>4. InFlight' = InFlight \union {e} /\ Forgotten' = Forgotten /\ Known' = Known
    BY <1>1, <2>1, <2>2, <2>3, LeaseEffect DEF Known, Forgotten, StoreInv
  <2>5. HistoryType' /\ InOrder' /\ Deliveries' /\ Confirmations'
    BY <1>1, <2>4 DEF HistoryType, InOrder, Deliveries, Confirmations
  <2>6. LeavesInOrder'
    <3>1. ASSUME NEW q \in queue, q # e
          PROVE  e.index < q.index
      <4>1. e \in Known /\ q \in Known
        BY <2>1 DEF Known, Held
      <4>2. e.index # q.index
        BY <3>1, <4>1 DEF StoreInv, OnePlace, Known
      <4> QED
        BY <2>1, <4>1, <4>2, KnownIndex
    <3> QED
      BY <1>1, <2>2, <2>4, <3>1 DEF LeavesInOrder
  <2>7. ASSUME NEW k \in Consumers
        PROVE  MayFollow(k, e)
    BY <2>1, DeliveredIsForgotten DEF MayFollow, LeavesInOrder
  <2>8. AboutToGet'
    <3>1. \A x \in Conns : in_flight'[x] = (IF x = c THEN e ELSE in_flight[x])
      BY <2>2, <2>3
    <3>2. ASSUME NEW k \in Consumers, sock[k] # NoConn, in_flight'[sock[k]] # NoEntry
          PROVE  MayFollow(k, in_flight'[sock[k]])
      BY <2>2, <2>3, <2>7, <3>2 DEF AboutToGet
    <3> QED
      BY <1>1, <3>2 DEF AboutToGet, MayFollow
  <2> QED
    BY <2>5, <2>6, <2>8
<1> QED
  BY <1>2, <1>3 DEF HandlePop

\* CommitPop and ReturnPop: the entry on lease to c is acknowledged, or returned.
LEMMA EndLeaseHistory ==
  ASSUME StoreInv, HistoryInv, NEW c \in Conns, handler[c] = "pop_wait",
         in_flight' = [in_flight EXCEPT ![c] = NoEntry],
         UNCHANGED <<sock, confirmed, delivered>>,
         \/ /\ UNCHANGED <<queue, returned>>
            /\ acknowledged' = acknowledged \union {<<c, in_flight[c]>>}
         \/ /\ queue' = queue \union {in_flight[c]}
            /\ returned' = returned \union {in_flight[c]}
            /\ UNCHANGED acknowledged
  PROVE  HistoryInv'
<1> DEFINE e == in_flight[c]
<1> USE DEF HistoryInv
<1>1. e # NoEntry /\ e \in Entry /\ in_flight \in [Conns -> Entry \union {NoEntry}]
  BY DEF StoreInv, Leased, StoreType
<1>2. InFlight' = InFlight \ {e} /\ e \in InFlight
  BY <1>1, EndLeaseEffect DEF InFlight, StoreInv
<1>3. /\ acknowledged \subseteq acknowledged' /\ returned \subseteq returned'
      /\ queue' \ returned' \subseteq queue \ returned
  OBVIOUS
<1>4. \/ queue' = queue /\ Forgotten' = Forgotten \union {e}
      \/ queue' = queue \union {e} /\ Forgotten' = Forgotten
  <2>1. ASSUME acknowledged' = acknowledged \union {<<c, e>>}
        PROVE  Forgotten' = Forgotten \union {e}
    <3>1. \A f : f \in Forgotten' <=> f \in Forgotten \/ f = <<c, e>>[2]
      BY <2>1 DEF Forgotten
    <3> QED
      BY <3>1
  <2> QED
    BY <2>1 DEF Forgotten
<1>5. Known \subseteq Known' /\ InFlight' \union Forgotten' \subseteq InFlight \union Forgotten
  BY <1>2, <1>4 DEF Known, Held
<1>6. HistoryType'
  BY <1>1 DEF HistoryType
<1>7. InOrder' /\ Deliveries' /\ Confirmations' /\ LeavesInOrder'
  BY <1>3, <1>5 DEF InOrder, Deliveries, Confirmations, LeavesInOrder
<1>8. AboutToGet'
  <2>1. ASSUME NEW k \in Consumers, sock[k] # NoConn
        PROVE  /\ in_flight'[sock[k]] # NoEntry => MayFollow(k, in_flight'[sock[k]])
               /\ \A a \in acknowledged' : a[1] = sock[k] => MayFollow(k, a[2])
    <3>1. in_flight'[sock[k]] # NoEntry => MayFollow(k, in_flight'[sock[k]])
      BY <1>1, <2>1 DEF AboutToGet
    <3>2. <<c, e>>[1] = c /\ <<c, e>>[2] = e
      OBVIOUS
    <3>3. \A a \in acknowledged' : a[1] = sock[k] => MayFollow(k, a[2])
      BY <1>1, <2>1, <3>2 DEF AboutToGet
    <3> QED
      BY <3>1, <3>3
  <2>2. \A k \in Consumers : \A x : MayFollow(k, x) =>
           x \in returned' \/ \A i \in DOMAIN delivered'[k] : delivered'[k][i].index < x.index
    BY <1>3 DEF MayFollow
  <2> QED
    BY <2>1, <2>2 DEF AboutToGet, MayFollow
<1> QED
  BY <1>6, <1>7, <1>8

\* The final response of a call tells the client what the broker did.
LEMMA FinalResponse ==
  ASSUME StoreInv, HandshakeInv, NEW k \in Clients, pc[k] = "await_final"
  PROVE  /\ sock[k] \in Conns
         /\ \A j \in Clients \ {k} : sock[j] # sock[k]
         /\ Receives(k, "stored") => \E e \in Known : e.txn = sock[k]
         /\ Receives(k, "processed") => <<sock[k], taken[k]>> \in acknowledged /\ k \in Consumers
<1>1. sock[k] \in Conns /\ sock[k] # NoConn /\ AwaitsFinal(k, sock[k])
  BY DEF HandshakeInv, ClientType, Sockets, Handshakes, Waiting
<1>2. \A j \in Clients \ {k} : sock[j] # sock[k]
  BY <1>1 DEF HandshakeInv, Sockets
<1>3. \A kind : Head(Final(kind)).kind = kind
  BY DEF Final, Reply
<1>4. ASSUME Receives(k, "stored") PROVE \E e \in Known : e.txn = sock[k]
  BY <1>1, <1>3, <1>4 DEF AwaitsFinal, Receives
<1>5. ASSUME Receives(k, "processed")
      PROVE  <<sock[k], taken[k]>> \in acknowledged /\ k \in Consumers
  <2>1. <<sock[k], taken[k]>> \in acknowledged
    BY <1>1, <1>3, <1>5 DEF AwaitsFinal, Receives
  <2>2. <<sock[k], taken[k]>>[1] = sock[k]
    OBVIOUS
  <2> QED
    BY <2>1, <2>2 DEF HandshakeInv, Acknowledgements
<1> QED
  BY <1>1, <1>2, <1>4, <1>5

\* What a fetch is about to return has not been returned before.
LEMMA DeliveredOnce ==
  ASSUME HandshakeInv, Deliveries, NEW k \in Clients, <<sock[k], taken[k]>> \in acknowledged
  PROVE  \A j \in Consumers : \A i \in DOMAIN delivered[j] : delivered[j][i] # taken[k]
<1>1. SUFFICES ASSUME NEW j \in Consumers, NEW i \in DOMAIN delivered[j], delivered[j][i] = taken[k]
               PROVE  FALSE
  OBVIOUS
<1>2. PICK a \in acknowledged : a[2] = taken[k] /\ a[1] # sock[k]
  BY <1>1 DEF Deliveries
<1>3. <<sock[k], taken[k]>>[1] = sock[k] /\ <<sock[k], taken[k]>>[2] = taken[k]
  OBVIOUS
<1> QED
  BY <1>2, <1>3 DEF HandshakeInv, Acknowledgements

LEMMA ReceiveSuccessHistory ==
  ASSUME StoreInv, HandshakeInv, HistoryInv, NEW k \in Clients, ReceiveSuccess(k)
  PROVE  HistoryInv'
<1> USE DEF HistoryInv
<1>1. /\ pc[k] = "await_final" /\ sock' = [sock EXCEPT ![k] = NoConn]
      /\ UNCHANGED <<queue, in_flight, acknowledged, returned>>
  BY DEF ReceiveSuccess, Return, queueVars
<1>2. /\ sock \in [Clients -> Conns \union {NoConn}]
      /\ acknowledged \subseteq Conns \X Entry
  BY DEF HandshakeInv, ClientType, StoreInv, StoreType
<1>3. Known' = Known /\ InFlight' = InFlight /\ Forgotten' = Forgotten
  BY <1>1 DEF Known, Held, InFlight, Forgotten
<1>4. LeavesInOrder'
  BY <1>1, <1>3 DEF LeavesInOrder
<1>5. CASE Receives(k, "stored") /\ confirmed' = confirmed \union {sock[k]} /\ UNCHANGED delivered
  <2>1. sock[k] \in Conns /\ \E e \in Known : e.txn = sock[k]
    BY <1>1, <1>5, FinalResponse
  <2>2. Confirmations' /\ HistoryType'
    BY <1>1, <1>3, <1>5, <2>1 DEF Confirmations, HistoryType
  <2>3. \A a \in acknowledged : a[1] # NoConn
    BY <1>2, BrokerAssumption
  <2>4. Deliveries'
    BY <1>1, <1>2, <1>5, <2>3 DEF Deliveries
  <2>5. AboutToGet' /\ InOrder'
    BY <1>1, <1>2, <1>5 DEF AboutToGet, InOrder, MayFollow, Clients
  <2> QED
    BY <1>4, <2>2, <2>4, <2>5
<1>6. CASE /\ Receives(k, "processed") /\ UNCHANGED confirmed
           /\ delivered' = [delivered EXCEPT ![k] = Append(@, taken[k])]
  <2> DEFINE e == taken[k]
             n == Len(delivered[k]) + 1
  <2>1. /\ sock[k] \in Conns /\ k \in Consumers /\ <<sock[k], e>> \in acknowledged
        /\ \A j \in Clients \ {k} : sock[j] # sock[k]
    BY <1>1, <1>6, FinalResponse
  <2>2. e \in Entry
    BY <1>2, <2>1
  <2>3. MayFollow(k, e)
    <3>1. <<sock[k], e>>[1] = sock[k] /\ <<sock[k], e>>[2] = e
      OBVIOUS
    <3> QED
      BY <2>1, <3>1, BrokerAssumption DEF AboutToGet
  <2>4. delivered[k] \in Seq(Entry) /\ delivered \in [Consumers -> Seq(Entry)]
    BY <2>1 DEF HistoryType
  <2> HIDE DEF e
  <2>5. /\ delivered'[k] \in Seq(Entry) /\ DOMAIN delivered'[k] = 1..n
        /\ DOMAIN delivered[k] = 1..(n - 1) /\ n \in Nat
        /\ delivered'[k][n] = e
        /\ \A i \in DOMAIN delivered[k] : delivered'[k][i] = delivered[k][i]
        /\ \A j \in Consumers \ {k} : delivered'[j] = delivered[j]
    <3>1. delivered'[k] = Append(delivered[k], e)
      BY <1>6, <2>1, <2>4 DEF e
    <3>2. \A j \in Consumers \ {k} : delivered'[j] = delivered[j]
      BY <1>6, <2>4
    <3>3. Append(delivered[k], e) \in Seq(Entry) /\ Len(Append(delivered[k], e)) = n
      BY <2>2, <2>4
    <3>4. /\ Append(delivered[k], e)[n] = e
          /\ \A i \in 1..Len(delivered[k]) : Append(delivered[k], e)[i] = delivered[k][i]
      BY <2>2, <2>4
    <3>5. DOMAIN delivered[k] = 1..Len(delivered[k]) /\ Len(delivered[k]) \in Nat
      BY <2>4
    <3> QED
      BY <3>1, <3>2, <3>3, <3>4, <3>5
  <2> HIDE DEF n
  <2>6. \A i \in DOMAIN delivered'[k] : i = n \/ i \in DOMAIN delivered[k]
    BY <2>5
  <2>7. HistoryType' /\ Confirmations'
    <3>1. Append(delivered[k], e) \in Seq(Entry)
      BY <2>2, <2>4
    <3>2. delivered' = [delivered EXCEPT ![k] = Append(delivered[k], e)]
      BY <1>6 DEF e
    <3>3. delivered' \in [Consumers -> Seq(Entry)]
      BY <2>4, <3>1, <3>2
    <3> QED
      BY <1>1, <1>3, <1>6, <3>3 DEF HistoryType, Confirmations
  <2>8. Deliveries'
    <3>1. \A a \in acknowledged : a[1] # NoConn
      BY <1>2, BrokerAssumption
    <3>2. \A a \in acknowledged, j \in Clients : sock'[j] = a[1] => sock[j] = a[1] /\ j # k
      BY <1>1, <1>2, <3>1
    <3>3. <<sock[k], e>>[1] = sock[k] /\ <<sock[k], e>>[2] = e
      OBVIOUS
    <3>4. \A j \in Clients : sock'[j] # sock[k]
      BY <1>1, <1>2, <2>1, BrokerAssumption
    <3>5. \E a \in acknowledged : a[2] = delivered'[k][n] /\ \A j \in Clients : sock'[j] # a[1]
      BY <2>1, <2>5, <3>3, <3>4
    <3>6. \A j \in Consumers : \A i \in DOMAIN delivered[j] :
            \E a \in acknowledged : a[2] = delivered[j][i] /\ \A x \in Clients : sock'[x] # a[1]
      BY <3>2 DEF Deliveries
    <3>7. ASSUME NEW j \in Consumers, NEW i \in DOMAIN delivered'[j]
          PROVE  \E a \in acknowledged : a[2] = delivered'[j][i] /\ \A x \in Clients : sock'[x] # a[1]
      <4>1. CASE j = k /\ i = n
        BY <3>5, <4>1
      <4>2. CASE j # k \/ i # n
        <5>1. i \in DOMAIN delivered[j] /\ delivered'[j][i] = delivered[j][i]
          BY <2>1, <2>5, <2>6, <4>2
        <5> QED
          BY <3>6, <5>1
      <4> QED
        BY <4>1, <4>2
    <3> QED
      BY <1>1, <3>7 DEF Deliveries
  <2>9. AboutToGet'
    BY <1>1, <1>2, <2>5 DEF AboutToGet, MayFollow, Clients
  <2>10. InOrder'
    <3>1. ASSUME NEW i \in DOMAIN delivered'[k], NEW j \in DOMAIN delivered'[k], i < j
          PROVE  delivered'[k][i].index < delivered'[k][j].index \/ delivered'[k][j] \in returned
      <4>1. CASE j = n
        <5>1. i \in DOMAIN delivered[k]
          BY <2>5, <2>6, <3>1, <4>1
        <5> QED
          BY <2>3, <2>5, <4>1, <5>1 DEF MayFollow
      <4>2. CASE j \in DOMAIN delivered[k]
        <5>1. i \in DOMAIN delivered[k]
          BY <2>5, <2>6, <3>1, <4>2
        <5> QED
          BY <2>1, <2>5, <3>1, <4>2, <5>1 DEF InOrder
      <4> QED
        BY <2>6, <3>1, <4>1, <4>2
    <3> QED
      BY <1>1, <2>5, <3>1 DEF InOrder
  <2> QED
    BY <1>4, <2>7, <2>8, <2>9, <2>10
<1> QED
  BY <1>5, <1>6 DEF ReceiveSuccess

LEMMA StepHistoryInv == StoreInv /\ HandshakeInv /\ HistoryInv /\ [Next]_vars => HistoryInv'
<1> SUFFICES ASSUME StoreInv, HandshakeInv, HistoryInv, [Next]_vars PROVE HistoryInv'
  OBVIOUS
<1>1. /\ sock \in [Clients -> Conns \union {NoConn}]
      /\ acknowledged \subseteq Conns \X Entry
      /\ in_flight \in [Conns -> Entry \union {NoEntry}]
  BY DEF HandshakeInv, ClientType, StoreInv, StoreType
<1>2. ASSUME NEW c \in Conns, InitializeQueue(c) PROVE HistoryInv'
  <2>1. UNCHANGED <<sock, acknowledged, returned, confirmed, delivered>>
    BY <1>2 DEF InitializeQueue, clientVars, historyVars
  <2>2. UNCHANGED <<queue, in_flight>>
    <3>1. CASE exists
      BY <1>2, <3>1 DEF InitializeQueue
    <3>2. CASE ~exists
      <4>1. queue = {} /\ \A x \in Conns : in_flight[x] = NoEntry
        BY <3>2 DEF StoreInv, Opened, Leased
      <4>2. in_flight = [x \in Conns |-> NoEntry]
        BY <1>1, <4>1
      <4> QED
        BY <1>2, <3>2, <4>1, <4>2 DEF InitializeQueue
    <3> QED
      BY <3>1, <3>2
  <2> QED
    BY <1>1, <2>1, <2>2, HistoryFrame
<1>3. ASSUME NEW c \in Conns, HandlePush(c) \/ DiscardPush(c) PROVE HistoryInv'
  BY <1>1, <1>3, HistoryFrame DEF HandlePush, DiscardPush, queueVars, clientVars, historyVars
<1>4. ASSUME NEW c \in Conns, CommitPop(c) \/ ReturnPop(c) PROVE HistoryInv'
  BY <1>4, EndLeaseHistory DEF CommitPop, ReturnPop, clientVars
<1>5. ASSUME NEW k \in Clients, Fetch(k) \/ \E m \in Messages : Submit(k, m) PROVE HistoryInv'
  BY <1>1, <1>5, HistoryFrame DEF Fetch, Submit, queueVars, historyVars
<1>6. ASSUME NEW k \in Clients, NEW c \in Conns, Connect(k, c) PROVE HistoryInv'
  <2>1. /\ handler[c] = "unused" /\ sock' = [sock EXCEPT ![k] = c]
        /\ UNCHANGED <<queue, in_flight, acknowledged, returned, confirmed, delivered>>
    BY <1>6 DEF Connect, queueVars, historyVars
  <2>2. in_flight[c] = NoEntry /\ \A a \in acknowledged : a[1] # c
    BY <2>1 DEF StoreInv, Leased, HandshakeInv, Acknowledgements
  <2> QED
    BY <1>1, <2>1, <2>2, HistoryFrame
<1>7. ASSUME NEW k \in Clients,
             ReceiveRefusal(k) \/ ReceiveInitial(k) \/ ReceiveFailure(k) \/ ConnectionLost(k) \/ Deadline(k)
      PROVE  HistoryInv'
  BY <1>1, <1>7, HistoryFrame
     DEF ReceiveRefusal, ReceiveInitial, ReceiveFailure, ConnectionLost, Deadline, Return,
         queueVars, historyVars
<1>8. CASE Quiet \/ UNCHANGED vars
  BY <1>1, <1>8, HistoryFrame DEF Quiet, vars, queueVars, clientVars, historyVars
<1> QED
  BY <1>2, <1>3, <1>4, <1>5, <1>6, <1>7, <1>8,
     StorePushHistory, HandlePopHistory, ReceiveSuccessHistory
     DEF Next, Handler, Client

LEMMA BrokerInvariant == Spec => [](StoreInv /\ HandshakeInv /\ HistoryInv)
BY InitStoreInv, StepStoreInv, InitHandshakeInv, StepHandshakeInv, InitHistoryInv, StepHistoryInv,
   PTL DEF Spec

\* A push reported as stored is in the broker, once, with the payload of the call
\* (ConfirmedIsStored), however its connection and those of its retries ended.
THEOREM ConfirmedPushIsStored == Spec => []ConfirmedIsStored
<1>1. StoreInv /\ HistoryInv => ConfirmedIsStored
  <2> SUFFICES ASSUME StoreInv, HistoryInv, NEW c \in confirmed
               PROVE  \E e \in Known : /\ e.txn = c /\ e.message = request[c]
                                      /\ \A f \in Known : f.txn = c => f = e
    BY DEF ConfirmedIsStored, Known
  <2>1. PICK e \in Known : e.txn = c
    BY DEF HistoryInv, Confirmations
  <2> QED
    BY <2>1 DEF StoreInv, Transactions
<1> QED
  BY <1>1, BrokerInvariant, PTL

\* A consumer reads the entries in the order of their indexes, except those that a handler
\* put back (InOrder).
THEOREM DeliveryInOrder == Spec => []InOrder
<1>1. HistoryInv => InOrder
  BY DEF HistoryInv
<1> QED
  BY <1>1, BrokerInvariant, PTL

-----------------------------------------------------------------------------
SizeInv ==
  /\ peak \in Nat
  /\ IsFiniteSet(queue) /\ IsFiniteSet(Flying) /\ IsFiniteSet(Admitted)
  /\ MaxSize > 0 => Size + Cardinality(Admitted) < MaxSize + peak

LEMMA InitSizeInv == Init => SizeInv
<1> SUFFICES ASSUME Init PROVE SizeInv
  OBVIOUS
<1>1. queue = {} /\ Flying = {} /\ Admitted = {} /\ peak = 0
  BY DEF Init, Flying, Admitted
<1> QED
  BY <1>1, FS_EmptySet, BrokerAssumption DEF SizeInv, Size

\* The three sizes are numbers, and change by one when an element comes or goes.
LEMMA Sizes ==
  ASSUME NEW S, IsFiniteSet(S)
  PROVE  /\ Cardinality(S) \in Nat
         /\ \A x : IsFiniteSet(S \union {x}) /\ IsFiniteSet(S \ {x})
         /\ \A x : x \notin S => Cardinality(S \union {x}) = Cardinality(S) + 1
         /\ \A x : x \in S => Cardinality(S \ {x}) = Cardinality(S) - 1
BY FS_CardinalityType, FS_AddElement, FS_RemoveElement

LEMMA HandlePushSize ==
  ASSUME StoreInv, SizeInv, NEW c \in Conns, HandlePush(c)
  PROVE  SizeInv'
<1> USE DEF SizeInv
<1>1. /\ handler[c] = "dispatch" /\ handler \in [Conns -> HandlerState]
      /\ UNCHANGED <<queue, in_flight>>
  BY DEF HandlePush, queueVars, StoreInv, StoreType
<1>2. Flying' = Flying /\ Size' = Size
  BY <1>1 DEF Flying, Size
<1>3. Cardinality(Admitted) \in Nat /\ c \notin Admitted
  BY <1>1, Sizes DEF Admitted
<1>4. CASE handler' = [handler EXCEPT ![c] = "closed"] /\ UNCHANGED peak
  <2>1. Admitted' = Admitted
    BY <1>1, <1>4 DEF Admitted
  <2> QED
    BY <1>1, <1>2, <1>4, <2>1
<1>5. CASE /\ ~Full /\ handler' = [handler EXCEPT ![c] = "push_wait"]
           /\ peak' = IF Cardinality(Admitted) + 1 > peak THEN Cardinality(Admitted) + 1 ELSE peak
  <2>1. Admitted' = Admitted \union {c}
    BY <1>1, <1>5 DEF Admitted
  <2>2. IsFiniteSet(Admitted') /\ Cardinality(Admitted') = Cardinality(Admitted) + 1
    BY <1>3, <2>1, Sizes
  <2>3. peak' \in Nat /\ Cardinality(Admitted') <= peak'
    BY <1>3, <1>5, <2>2
  <2>4. Size \in Nat /\ MaxSize \in Nat
    BY Sizes, BrokerAssumption DEF Size
  <2>5. MaxSize > 0 => Size < MaxSize
    BY <1>5, <2>4 DEF Full
  <2>6. MaxSize > 0 => Size + Cardinality(Admitted') < MaxSize + peak'
    <3> HIDE DEF SizeInv
    <3> QED
      BY <1>3, <2>2, <2>3, <2>4, <2>5
  <2> QED
    BY <1>1, <1>2, <2>2, <2>3, <2>6
<1> QED
  BY <1>4, <1>5 DEF HandlePush, Goto

LEMMA EndPushSize ==
  ASSUME StoreInv, SizeInv, NEW c \in Conns, StorePush(c) \/ DiscardPush(c)
  PROVE  SizeInv'
<1> USE DEF SizeInv
<1>1. /\ handler[c] = "push_wait" /\ handler \in [Conns -> HandlerState]
      /\ handler' = [handler EXCEPT ![c] = "closed"]
      /\ UNCHANGED <<in_flight, peak>>
      /\ UNCHANGED queue
           \/ queue' = queue \union {[index |-> next_index, message |-> request[c], txn |-> c]}
  BY DEF StorePush, DiscardPush, Goto, queueVars, historyVars, StoreInv, StoreType
<1>2. Flying' = Flying /\ Admitted' = Admitted \ {c} /\ c \in Admitted
  BY <1>1 DEF Flying, Admitted
<1>3. IsFiniteSet(Admitted') /\ Cardinality(Admitted') = Cardinality(Admitted) - 1
  BY <1>2, Sizes
<1>4. IsFiniteSet(queue') /\ Cardinality(queue') <= Cardinality(queue) + 1
  <2>0. IsFiniteSet(queue) /\ Cardinality(queue) \in Nat
    BY Sizes
  <2>1. CASE queue' = queue
    BY <2>0, <2>1
  <2>2. CASE queue' = queue \union {[index |-> next_index, message |-> request[c], txn |-> c]}
    <3> DEFINE e == [index |-> next_index, message |-> request[c], txn |-> c]
    <3>1. queue' = queue \union {e}
      BY <2>2
    <3> HIDE DEF e
    <3>2. CASE e \in queue
      <4>1. queue' = queue
        BY <3>1, <3>2
      <4> QED
        BY <2>1, <4>1
    <3>3. CASE e \notin queue
      <4>1. /\ IsFiniteSet(queue \union {e})
            /\ Cardinality(queue \union {e}) = Cardinality(queue) + 1
        BY <2>0, <3>3, Sizes
      <4> QED
        BY <2>0, <3>1, <4>1
    <3> QED
      BY <3>2, <3>3
  <2> QED
    BY <1>1, <2>1, <2>2
<1>5. /\ Cardinality(queue) \in Nat /\ Cardinality(queue') \in Nat
      /\ Cardinality(Flying) \in Nat /\ Cardinality(Admitted) \in Nat
  BY <1>4, Sizes
<1>6. MaxSize \in Nat
  BY BrokerAssumption
<1>7. Size' + Cardinality(Admitted') <= Size + Cardinality(Admitted)
  BY <1>2, <1>3, <1>4, <1>5 DEF Size
<1>8. Size \in Nat /\ Size' \in Nat /\ Cardinality(Admitted') \in Nat
  BY <1>2, <1>3, <1>5, Sizes DEF Size
<1> QED
  BY <1>1, <1>2, <1>3, <1>4, <1>5, <1>6, <1>7, <1>8

LEMMA HandlePopSize ==
  ASSUME StoreInv, SizeInv, NEW c \in Conns, HandlePop(c)
  PROVE  SizeInv'
<1> USE DEF SizeInv
<1>1. /\ handler[c] = "dispatch" /\ handler \in [Conns -> HandlerState]
      /\ in_flight \in [Conns -> Entry \union {NoEntry}] /\ in_flight[c] = NoEntry
      /\ UNCHANGED peak
      /\ \/ UNCHANGED <<queue, in_flight>> /\ handler' = [handler EXCEPT ![c] = "closed"]
         \/ /\ queue # {} /\ queue' = queue \ {Oldest}
            /\ in_flight' = [in_flight EXCEPT ![c] = Oldest]
            /\ handler' = [handler EXCEPT ![c] = "pop_wait"]
  BY DEF HandlePop, Goto, historyVars, StoreInv, StoreType, Leased
<1>2. Admitted' = Admitted
  BY <1>1 DEF Admitted
<1>3. CASE UNCHANGED <<queue, in_flight>>
  BY <1>1, <1>2, <1>3 DEF Flying, Size
<1>4. CASE queue # {} /\ queue' = queue \ {Oldest} /\ in_flight' = [in_flight EXCEPT ![c] = Oldest]
  <2>1. Oldest \in queue /\ Oldest # NoEntry
    BY <1>4, OldestEntry, BrokerAssumption DEF StoreInv, StoreType
  <2>2. Flying' = Flying \union {c} /\ c \notin Flying
    BY <1>1, <1>4, <2>1 DEF Flying
  <2>3. /\ IsFiniteSet(queue') /\ Cardinality(queue') = Cardinality(queue) - 1
        /\ IsFiniteSet(Flying') /\ Cardinality(Flying') = Cardinality(Flying) + 1
    BY <1>4, <2>1, <2>2, Sizes
  <2>4. Cardinality(queue) \in Nat /\ Cardinality(Flying) \in Nat
    BY Sizes
  <2>5. Size' = Size
    BY <2>3, <2>4 DEF Size
  <2> QED
    BY <1>1, <1>2, <2>3, <2>5
<1> QED
  BY <1>1, <1>3, <1>4

LEMMA EndLeaseSize ==
  ASSUME StoreInv, SizeInv, NEW c \in Conns, CommitPop(c) \/ ReturnPop(c)
  PROVE  SizeInv'
<1> USE DEF SizeInv
<1>1. /\ handler[c] = "pop_wait" /\ handler \in [Conns -> HandlerState]
      /\ handler' = [handler EXCEPT ![c] = "closed"]
      /\ in_flight \in [Conns -> Entry \union {NoEntry}]
      /\ in_flight' = [in_flight EXCEPT ![c] = NoEntry]
      /\ in_flight[c] # NoEntry
      /\ UNCHANGED peak
      /\ UNCHANGED queue \/ queue' = queue \union {in_flight[c]}
  BY DEF CommitPop, ReturnPop, Goto, historyVars, StoreInv, StoreType, Leased
<1>2. Admitted' = Admitted
  BY <1>1 DEF Admitted
<1>3. Flying' = Flying \ {c} /\ c \in Flying
  BY <1>1 DEF Flying
<1>4. in_flight[c] \notin queue
  BY <1>3 DEF StoreInv, OnePlace
<1>5. /\ Cardinality(queue) \in Nat /\ Cardinality(Flying) \in Nat /\ Cardinality(Admitted) \in Nat
      /\ IsFiniteSet(Flying') /\ Cardinality(Flying') = Cardinality(Flying) - 1
      /\ IsFiniteSet(queue') /\ Cardinality(queue') \in Nat
      /\ Cardinality(queue') <= Cardinality(queue) + 1
  <2>1. /\ Cardinality(queue) \in Nat /\ Cardinality(Flying) \in Nat /\ Cardinality(Admitted) \in Nat
        /\ IsFiniteSet(Flying') /\ Cardinality(Flying') = Cardinality(Flying) - 1
    BY <1>3, Sizes
  <2>2. CASE queue' = queue
    BY <2>1, <2>2
  <2>3. CASE queue' = queue \union {in_flight[c]}
    <3>1. IsFiniteSet(queue') /\ Cardinality(queue') = Cardinality(queue) + 1
      BY <1>4, <2>3, Sizes
    <3> QED
      BY <2>1, <3>1
  <2> QED
    BY <1>1, <2>2, <2>3
<1>6. Size' <= Size /\ Size \in Nat /\ Size' \in Int
  BY <1>5 DEF Size
<1> QED
  BY <1>1, <1>2, <1>5, <1>6, BrokerAssumption

LEMMA StepSizeInv == StoreInv /\ SizeInv /\ [Next]_vars => SizeInv'
<1> SUFFICES ASSUME StoreInv, SizeInv, [Next]_vars PROVE SizeInv'
  OBVIOUS
<1>1. ASSUME UNCHANGED <<queue, in_flight, peak>>, Admitted' = Admitted
      PROVE  SizeInv'
  BY <1>1 DEF SizeInv, Size, Flying
<1>2. handler \in [Conns -> HandlerState]
  BY DEF StoreInv, StoreType
<1>3. ASSUME NEW c \in Conns, InitializeQueue(c) PROVE SizeInv'
  <2>1. UNCHANGED <<queue, in_flight>>
    <3>1. CASE exists
      BY <1>3, <3>1 DEF InitializeQueue
    <3>2. CASE ~exists
      <4>1. queue = {} /\ \A x \in Conns : in_flight[x] = NoEntry
        BY <3>2 DEF StoreInv, Opened, Leased
      <4>2. in_flight = [x \in Conns |-> NoEntry]
        BY <4>1 DEF StoreInv, StoreType
      <4> QED
        BY <1>3, <3>2, <4>1, <4>2 DEF InitializeQueue
    <3> QED
      BY <3>1, <3>2
  <2>2. Admitted' = Admitted /\ UNCHANGED peak
    BY <1>2, <1>3 DEF InitializeQueue, Goto, Admitted, historyVars
  <2> QED
    BY <1>1, <2>1, <2>2
<1>4. ASSUME NEW k \in Clients, NEW c \in Conns, Connect(k, c) PROVE SizeInv'
  BY <1>1, <1>2, <1>4 DEF Connect, Goto, Admitted, queueVars, historyVars
<1>5. ASSUME NEW k \in Clients, Fetch(k) \/ \E m \in Messages : Submit(k, m) PROVE SizeInv'
  BY <1>1, <1>5 DEF Fetch, Submit, Admitted, queueVars, historyVars
<1>6. ASSUME NEW k \in Clients,
             \/ ReceiveRefusal(k) \/ ReceiveInitial(k) \/ ReceiveSuccess(k)
             \/ ReceiveFailure(k) \/ ConnectionLost(k) \/ Deadline(k)
      PROVE  SizeInv'
  BY <1>1, <1>6
     DEF ReceiveRefusal, ReceiveInitial, ReceiveSuccess, ReceiveFailure, ConnectionLost, Deadline,
         Admitted, queueVars, historyVars
<1>7. CASE Quiet \/ UNCHANGED vars
  BY <1>1, <1>7 DEF Quiet, vars, queueVars, historyVars, Admitted
<1> QED
  BY <1>3, <1>4, <1>5, <1>6, <1>7, HandlePushSize, EndPushSize, HandlePopSize, EndLeaseSize
     DEF Next, Handler, Client

\* The broker exceeds its maximum size by less than the number of pushes that were between
\* the check and the store at one time (BoundedOvershoot).
THEOREM OvershootIsBounded == Spec => []BoundedOvershoot
<1>1. SizeInv => BoundedOvershoot
  <2> SUFFICES ASSUME SizeInv, MaxSize > 0 PROVE Size < MaxSize + peak
    BY DEF BoundedOvershoot
  <2>1. Cardinality(Admitted) \in Nat /\ Size \in Nat /\ MaxSize \in Nat /\ peak \in Nat
    BY Sizes, BrokerAssumption DEF SizeInv, Size
  <2> QED
    BY <2>1 DEF SizeInv
<1> QED
  BY <1>1, InitStoreInv, StepStoreInv, InitSizeInv, StepSizeInv, PTL DEF Spec

\* Every variable keeps its type (TypeOK), whatever the calls and the network do.
THEOREM BrokerTypes == Spec => []TypeOK
<1>1. StoreInv /\ HandshakeInv /\ HistoryInv /\ SizeInv => TypeOK
  BY DEF StoreInv, StoreType, HandshakeInv, ClientType, Replies, HistoryInv, HistoryType, SizeInv, TypeOK
<1> QED
  BY <1>1, BrokerInvariant, InitStoreInv, StepStoreInv, InitSizeInv, StepSizeInv, PTL DEF Spec

-----------------------------------------------------------------------------
(* The broker implements its contract. *)

LEMMA StorePushAccepts ==
  ASSUME StoreInv, NEW c \in Conns, StorePush(c)
  PROVE  Contract!Accept
<1> DEFINE e == [index |-> next_index, message |-> request[c], txn |-> c]
<1>1. /\ queue' = queue \union {e} /\ e.index = next_index
      /\ UNCHANGED <<in_flight, acknowledged, delivered>>
  BY DEF StorePush, historyVars
<1>2. e \in Entry
  BY DEF StorePush, StoreInv, StoreType, Commands, Entry
<1> HIDE DEF e
<1>3. e \notin Known
  BY <1>1 DEF StoreInv, StoreType, Counted
<1>4. Held' = Held \union {e} /\ Forgotten' = Forgotten
  BY <1>1 DEF Held, InFlight, Forgotten
<1> QED
  BY <1>1, <1>2, <1>3, <1>4 DEF Contract!Accept, Known

\* The entry on lease to c leaves the leases: it is acknowledged, or back in the queue.
LEMMA EndLeaseHeld ==
  ASSUME StoreInv, NEW c \in Conns, CommitPop(c) \/ ReturnPop(c)
  PROVE  Contract!Commit \/ UNCHANGED <<Held, Forgotten, delivered>>
<1> DEFINE e == in_flight[c]
<1>1. /\ in_flight' = [in_flight EXCEPT ![c] = NoEntry] /\ UNCHANGED delivered
      /\ \/ queue' = queue /\ acknowledged' = acknowledged \union {<<c, e>>}
         \/ queue' = queue \union {e} /\ acknowledged' = acknowledged
      /\ e # NoEntry
  BY DEF CommitPop, ReturnPop, StoreInv, Leased
<1>2. InFlight' = InFlight \ {e} /\ e \in InFlight
  BY <1>1, EndLeaseEffect DEF InFlight, StoreInv
<1>3. e \notin queue
  BY <1>1 DEF StoreInv, OnePlace, Flying
<1>4. CASE queue' = queue /\ acknowledged' = acknowledged \union {<<c, e>>}
  <2>1. \A f : f \in Forgotten' <=> f \in Forgotten \/ f = <<c, e>>[2]
    BY <1>4 DEF Forgotten
  <2>2. Forgotten' = Forgotten \union {e}
    BY <2>1
  <2>3. e \in Held /\ Held' = Held \ {e}
    BY <1>2, <1>3, <1>4 DEF Held
  <2> QED
    BY <1>1, <2>2, <2>3 DEF Contract!Commit
<1>5. CASE queue' = queue \union {e} /\ acknowledged' = acknowledged
  BY <1>1, <1>2, <1>5 DEF Held, Forgotten
<1> QED
  BY <1>1, <1>4, <1>5

LEMMA ReceiveSuccessDelivers ==
  ASSUME StoreInv, HandshakeInv, HistoryInv, NEW k \in Clients, ReceiveSuccess(k)
  PROVE  Contract!Deliver \/ UNCHANGED <<Held, Forgotten, delivered>>
<1>1. Held' = Held /\ Forgotten' = Forgotten /\ pc[k] = "await_final"
  BY DEF ReceiveSuccess, queueVars, Held, InFlight, Forgotten
<1>2. CASE Receives(k, "processed") /\ delivered' = [delivered EXCEPT ![k] = Append(@, taken[k])]
  <2>1. <<sock[k], taken[k]>> \in acknowledged /\ k \in Consumers
    BY <1>1, <1>2, FinalResponse
  <2>2. <<sock[k], taken[k]>>[2] = taken[k]
    OBVIOUS
  <2>3. taken[k] \in Forgotten
    BY <2>1, <2>2 DEF Forgotten
  <2>4. taken[k] \notin Contract!Returned
    BY <2>1, DeliveredOnce DEF HistoryInv, Contract!Returned
  <2> QED
    BY <1>1, <1>2, <2>1, <2>3, <2>4 DEF Contract!Deliver
<1> QED
  BY <1>1, <1>2 DEF ReceiveSuccess

LEMMA StepContract ==
  StoreInv /\ HandshakeInv /\ HistoryInv /\ [Next]_vars => [Contract!Next]_(Contract!contractVars)
<1> SUFFICES ASSUME StoreInv, HandshakeInv, HistoryInv, [Next]_vars
             PROVE  Contract!Next \/ UNCHANGED <<Held, Forgotten, delivered>>
  BY DEF Contract!contractVars
<1>1. ASSUME UNCHANGED <<queue, in_flight, acknowledged, delivered>>
      PROVE  UNCHANGED <<Held, Forgotten, delivered>>
  BY <1>1 DEF Held, InFlight, Forgotten
<1>2. ASSUME NEW c \in Conns, InitializeQueue(c) PROVE UNCHANGED <<Held, Forgotten, delivered>>
  <2>1. UNCHANGED <<acknowledged, delivered>>
    BY <1>2 DEF InitializeQueue, historyVars
  <2>2. CASE exists
    BY <1>1, <1>2, <2>1, <2>2 DEF InitializeQueue
  <2>3. CASE ~exists
    BY <1>2, <2>1, <2>3 DEF InitializeQueue, StoreInv, Opened, Leased, Held, InFlight, Forgotten
  <2> QED
    BY <2>2, <2>3
<1>3. ASSUME NEW c \in Conns, HandlePush(c) \/ DiscardPush(c)
      PROVE  UNCHANGED <<Held, Forgotten, delivered>>
  BY <1>1, <1>3 DEF HandlePush, DiscardPush, queueVars, historyVars
<1>4. ASSUME NEW c \in Conns, HandlePop(c) PROVE UNCHANGED <<Held, Forgotten, delivered>>
  <2>1. UNCHANGED <<acknowledged, delivered>>
    BY <1>4 DEF HandlePop, historyVars
  <2>2. CASE UNCHANGED <<queue, in_flight>>
    BY <1>1, <2>1, <2>2
  <2>3. CASE queue # {} /\ queue' = queue \ {Oldest} /\ in_flight' = [in_flight EXCEPT ![c] = Oldest]
    <3>1. Oldest \in queue /\ in_flight[c] = NoEntry
      BY <1>4, <2>3, OldestEntry DEF HandlePop, StoreInv, StoreType, Leased
    <3>2. Held' = Held
      BY <2>3, <3>1, LeaseEffect DEF StoreInv
    <3> QED
      BY <2>1, <3>2 DEF Forgotten
  <2> QED
    BY <1>4, <2>2, <2>3 DEF HandlePop
<1>5. ASSUME NEW k \in Clients, NEW c \in Conns, Connect(k, c)
      PROVE  UNCHANGED <<Held, Forgotten, delivered>>
  BY <1>1, <1>5 DEF Connect, queueVars, historyVars
<1>6. ASSUME NEW k \in Clients, Fetch(k) \/ \E m \in Messages : Submit(k, m)
      PROVE  UNCHANGED <<Held, Forgotten, delivered>>
  BY <1>1, <1>6 DEF Fetch, Submit, queueVars, historyVars
<1>7. ASSUME NEW k \in Clients,
             \/ ReceiveRefusal(k) \/ ReceiveInitial(k) \/ ReceiveFailure(k)
             \/ ConnectionLost(k) \/ Deadline(k)
      PROVE  UNCHANGED <<Held, Forgotten, delivered>>
  BY <1>1, <1>7
     DEF ReceiveRefusal, ReceiveInitial, ReceiveFailure, ConnectionLost, Deadline,
         queueVars, historyVars
<1>8. CASE Quiet \/ UNCHANGED vars
  BY <1>1, <1>8 DEF Quiet, vars, queueVars, historyVars
<1> QED
  BY <1>2, <1>3, <1>4, <1>5, <1>6, <1>7, <1>8,
     StorePushAccepts, EndLeaseHeld, ReceiveSuccessDelivers
     DEF Next, Handler, Client, Contract!Next

\* The broker and its clients, with every handshake, timeout, dropped connection and retry,
\* implement the contract: an accepted entry is kept until one ACK takes it, and no entry is
\* returned by two fetches (ImplementsContract).
THEOREM BrokerKeepsContract == Spec => ImplementsContract
<1>1. Init => Contract!Init
  BY DEF Init, Contract!Init, Held, InFlight, Forgotten
<1> QED
  BY <1>1, StepContract, BrokerInvariant, PTL DEF Spec, ImplementsContract, Contract!Spec
===============================================================================
