----------------------------- MODULE SimpleBroker -----------------------------
(***************************************************************************)
(* The socket message broker of nv-ingest (SimpleMessageBroker), the       *)
(* OrderedMessageQueue behind one queue name, and the SimpleClient calls   *)
(* submit_message and fetch_message of concurrent client threads.          *)
(*                                                                         *)
(* Every attempt of a client is one connection, served by one handler      *)
(* thread under a fresh transaction id, so connections and transactions    *)
(* are one set, Conns.  A PUSH or a POP is a three-way handshake: request, *)
(* initial response, ACK, final response.  A handler stops waiting for the *)
(* ACK when its timeout expires or the connection drops; a client drops a  *)
(* connection when it waits too long and retries on a new one until its    *)
(* own deadline, while the old handler keeps running.                      *)
(***************************************************************************)
EXTENDS Integers, FiniteSets, Sequences

CONSTANTS
  Producers,  \* threads calling SimpleClient.submit_message
  Consumers,  \* threads calling SimpleClient.fetch_message
  Messages,   \* payloads; each is submitted by at most one call
  Conns,      \* connections (= transaction ids); each is used once
  MaxSize,    \* max_queue_size; 0 means unlimited
  NoConn,     \* no open connection
  NoMessage,  \* no payload
  NoEntry     \* no entry of the queue

Clients == Producers \union Consumers

\* A stored message: its index, its payload, and the transaction that stored it,
\* which PUSH_FOR_NV_INGEST also writes into the payload as job_id.
Entry == [index : Nat, message : Messages, txn : Conns]

ASSUME BrokerAssumption ==
  /\ MaxSize \in Nat
  /\ Producers \intersect Consumers = {}
  /\ NoConn \notin Conns
  /\ NoMessage \notin Messages
  /\ NoEntry \notin Entry

VARIABLES
  exists,      \* queue_name in server.queues
  queue,       \* OrderedMessageQueue.queue, a heap ordered by index
  in_flight,   \* OrderedMessageQueue.in_flight, transaction -> entry
  next_index,  \* OrderedMessageQueue.next_index
  handler,     \* where the handler thread of each connection is
  request,     \* the payload a connection pushes; NoMessage for a POP
  replies,     \* responses sent on a connection and not yet read
  acks,        \* connections on which the client has sent its ACK
  pc,          \* where each client call is
  sock,        \* the connection each client call has open
  job,         \* the payload a producer's call submits
  taken,       \* the message a consumer read from the initial response
  acknowledged,\* history: <<connection, entry>> the broker forgot after an ACK
  returned,    \* history: entries that went back to the queue
  confirmed,   \* history: transactions reported as stored to their producer
  delivered,   \* history: entries returned to each consumer, in order
  peak         \* history: most pushes ever admitted at the same time

queueVars   == <<exists, queue, in_flight, next_index>>
clientVars  == <<pc, sock, job, taken>>
historyVars == <<acknowledged, returned, confirmed, delivered, peak>>
vars == <<queueVars, handler, request, replies, acks, clientVars, historyVars>>

Reply(kind, entry) == [kind |-> kind, entry |-> entry]

\* The three places an entry can be.
InFlight    == {in_flight[c] : c \in Conns} \ {NoEntry}
Held        == queue \union InFlight
Forgotten   == {a[2] : a \in acknowledged}

Flying      == {c \in Conns : in_flight[c] # NoEntry}
Size        == Cardinality(queue) + Cardinality(Flying)

\* Mutant: leased entries do not count.
Full_IgnoresInFlight == MaxSize > 0 /\ Cardinality(queue) >= MaxSize

\* OrderedMessageQueue.full
Full == MaxSize > 0 /\ Size >= MaxSize

\* Handlers that passed the full() check and may still push.
Admitted == {c \in Conns : handler[c] = "push_wait"}

-----------------------------------------------------------------------------
Init ==
  /\ exists = FALSE
  /\ queue = {}
  /\ in_flight = [c \in Conns |-> NoEntry]
  /\ next_index = 0
  /\ handler = [c \in Conns |-> "unused"]
  /\ request = [c \in Conns |-> NoMessage]
  /\ replies = [c \in Conns |-> <<>>]
  /\ acks = {}
  /\ pc = [k \in Clients |-> "idle"]
  /\ sock = [k \in Clients |-> NoConn]
  /\ job = [k \in Clients |-> NoMessage]
  /\ taken = [k \in Clients |-> NoEntry]
  /\ acknowledged = {}
  /\ returned = {}
  /\ confirmed = {}
  /\ delivered = [k \in Consumers |-> <<>>]
  /\ peak = 0

-----------------------------------------------------------------------------
(* The handler thread of connection c. *)

\* _send_response swallows every error: what is sent after the client is gone vanishes.
Send(c, kind, entry) ==
  replies' = IF \E k \in Clients : sock[k] = c
               THEN [replies EXCEPT ![c] = Append(@, Reply(kind, entry))]
               ELSE replies

Goto(c, where) == handler' = [handler EXCEPT ![c] = where]

\* Mutant: the queue is created again by every request.
InitializeQueue_Always(c) ==
  /\ handler[c] = "accepted"
  /\ Goto(c, "dispatch")
  /\ exists' = TRUE
  /\ queue' = {}
  /\ in_flight' = [x \in Conns |-> NoEntry]
  /\ next_index' = 0
  /\ UNCHANGED <<request, replies, acks, clientVars, historyVars>>

\* _initialize_queue: under the server's lock, create the queue unless it exists.
InitializeQueue(c) ==
  /\ handler[c] = "accepted"
  /\ Goto(c, "dispatch")
  /\ exists' = TRUE
  /\ IF exists
       THEN UNCHANGED <<queue, in_flight, next_index>>
       ELSE /\ queue' = {}
            /\ in_flight' = [x \in Conns |-> NoEntry]
            /\ next_index' = 0
  /\ UNCHANGED <<request, replies, acks, clientVars, historyVars>>

\* _handle_push: the fullness check under queue_lock; the lock is then released.
HandlePush(c) ==
  /\ handler[c] = "dispatch"
  /\ request[c] # NoMessage
  /\ \/ /\ Full
        /\ Send(c, "full", NoEntry)
        /\ Goto(c, "closed")
        /\ UNCHANGED peak
     \/ /\ ~Full
        /\ Send(c, "initiated", NoEntry)
        /\ Goto(c, "push_wait")
        /\ peak' = IF Cardinality(Admitted) + 1 > peak THEN Cardinality(Admitted) + 1 ELSE peak
  /\ UNCHANGED <<queueVars, request, acks, clientVars, acknowledged, returned, confirmed, delivered>>

\* _wait_for_ack returns False on a timeout, a dropped connection or a malformed ACK; it
\* may do so although the client has sent its ACK, which is then late or lost.

\* queue.push after the ACK, without a second look at full().
StorePush(c) ==
  /\ handler[c] = "push_wait"
  /\ c \in acks
  /\ queue' = queue \union {[index |-> next_index, message |-> request[c], txn |-> c]}
  /\ next_index' = next_index + 1
  /\ Send(c, "stored", NoEntry)
  /\ Goto(c, "closed")
  /\ UNCHANGED <<exists, in_flight, request, acks, clientVars, historyVars>>

DiscardPush(c) ==
  /\ handler[c] = "push_wait"
  /\ Send(c, "no_ack", NoEntry)
  /\ Goto(c, "closed")
  /\ UNCHANGED <<queueVars, request, acks, clientVars, historyVars>>

\* Mutant: a stack.
Oldest_IsYoungest == CHOOSE e \in queue : \A f \in queue : e.index >= f.index

\* heapq.heappop takes the entry with the least index.
Oldest == CHOOSE e \in queue : \A f \in queue : e.index <= f.index

\* Mutant: the entry is read and leased but stays in the heap.
HandlePop_Peeks(c) ==
  /\ handler[c] = "dispatch"
  /\ request[c] = NoMessage
  /\ IF queue = {}
       THEN Send(c, "not_ready", NoEntry) /\ Goto(c, "closed") /\ UNCHANGED in_flight
       ELSE /\ in_flight' = [in_flight EXCEPT ![c] = Oldest]
            /\ Send(c, "initiated", Oldest)
            /\ Goto(c, "pop_wait")
  /\ UNCHANGED <<exists, queue, next_index, request, acks, clientVars, historyVars>>

\* _handle_pop: the emptiness check and the pop are one critical section.
HandlePop(c) ==
  /\ handler[c] = "dispatch"
  /\ request[c] = NoMessage
  /\ \/ /\ queue = {}
        /\ Send(c, "not_ready", NoEntry)
        /\ Goto(c, "closed")
        /\ UNCHANGED <<queue, in_flight>>
     \/ /\ queue # {}
        /\ queue' = queue \ {Oldest}
        /\ in_flight' = [in_flight EXCEPT ![c] = Oldest]
        /\ Send(c, "initiated", Oldest)
        /\ Goto(c, "pop_wait")
  /\ UNCHANGED <<exists, next_index, request, acks, clientVars, historyVars>>

\* Mutant: the entry is forgotten without waiting for the ACK.
CommitPop_Early(c) ==
  /\ handler[c] = "pop_wait"
  /\ acknowledged' = acknowledged \union {<<c, in_flight[c]>>}
  /\ in_flight' = [in_flight EXCEPT ![c] = NoEntry]
  /\ Send(c, "processed", NoEntry)
  /\ Goto(c, "closed")
  /\ UNCHANGED <<exists, queue, next_index, request, acks, clientVars,
                 returned, confirmed, delivered, peak>>

\* queue.acknowledge and the final response.
CommitPop(c) ==
  /\ handler[c] = "pop_wait"
  /\ c \in acks
  /\ acknowledged' = acknowledged \union {<<c, in_flight[c]>>}
  /\ in_flight' = [in_flight EXCEPT ![c] = NoEntry]
  /\ Send(c, "processed", NoEntry)
  /\ Goto(c, "closed")
  /\ UNCHANGED <<exists, queue, next_index, request, acks, clientVars,
                 returned, confirmed, delivered, peak>>

\* Mutant: the entry goes back but its lease is kept.
ReturnPop_KeepsLease(c) ==
  /\ handler[c] = "pop_wait"
  /\ queue' = queue \union {in_flight[c]}
  /\ returned' = returned \union {in_flight[c]}
  /\ Send(c, "no_ack", NoEntry)
  /\ Goto(c, "closed")
  /\ UNCHANGED <<exists, in_flight, next_index, request, acks, clientVars,
                 acknowledged, confirmed, delivered, peak>>

\* Mutant: the handler waits again after returning, and returns a lease it no longer has.
ReturnPop_Again(c) ==
  /\ handler[c] = "pop_wait"
  /\ queue' = queue \union {in_flight[c]}
  /\ in_flight' = [in_flight EXCEPT ![c] = NoEntry]
  /\ returned' = returned \union {in_flight[c]}
  /\ Send(c, "no_ack", NoEntry)
  /\ UNCHANGED <<exists, next_index, handler, request, acks, clientVars,
                 acknowledged, confirmed, delivered, peak>>

\* queue.return_message: the entry goes back with the index it had.
ReturnPop(c) ==
  /\ handler[c] = "pop_wait"
  /\ queue' = queue \union {in_flight[c]}
  /\ in_flight' = [in_flight EXCEPT ![c] = NoEntry]
  /\ returned' = returned \union {in_flight[c]}
  /\ Send(c, "no_ack", NoEntry)
  /\ Goto(c, "closed")
  /\ UNCHANGED <<exists, next_index, request, acks, clientVars,
                 acknowledged, confirmed, delivered, peak>>

-----------------------------------------------------------------------------
(* A call of client thread k. *)

Submit(k, m) ==
  /\ k \in Producers
  /\ pc[k] = "idle"
  /\ \A c \in Conns : request[c] # m
  /\ \A j \in Producers : job[j] # m
  /\ pc' = [pc EXCEPT ![k] = "retry"]
  /\ job' = [job EXCEPT ![k] = m]
  /\ UNCHANGED <<queueVars, handler, request, replies, acks, sock, taken, historyVars>>

Fetch(k) ==
  /\ k \in Consumers
  /\ pc[k] = "idle"
  /\ pc' = [pc EXCEPT ![k] = "retry"]
  /\ UNCHANGED <<queueVars, handler, request, replies, acks, sock, job, taken, historyVars>>

\* socket.create_connection and _send: the head of the retry loop.
Connect(k, c) ==
  /\ pc[k] = "retry"
  /\ handler[c] = "unused"
  /\ Goto(c, "accepted")
  /\ request' = [request EXCEPT ![c] = job[k]]
  /\ sock' = [sock EXCEPT ![k] = c]
  /\ pc' = [pc EXCEPT ![k] = "await_initial"]
  /\ UNCHANGED <<queueVars, replies, acks, job, taken, historyVars>>

Receives(k, kind) == replies[sock[k]] # <<>> /\ Head(replies[sock[k]]).kind = kind

Consume(c) == replies' = [replies EXCEPT ![c] = Tail(@)]

\* "Queue is full" and "Job not ready" are retried after a sleep.
ReceiveRefusal(k) ==
  /\ pc[k] = "await_initial"
  /\ Receives(k, "full") \/ Receives(k, "not_ready")
  /\ Consume(sock[k])
  /\ sock' = [sock EXCEPT ![k] = NoConn]
  /\ pc' = [pc EXCEPT ![k] = "retry"]
  /\ UNCHANGED <<queueVars, handler, request, acks, job, taken, historyVars>>

\* The initial response of an opened transaction; the client answers with its ACK.
ReceiveInitial(k) ==
  /\ pc[k] = "await_initial"
  /\ Receives(k, "initiated")
  /\ Consume(sock[k])
  /\ acks' = acks \union {sock[k]}
  /\ taken' = [taken EXCEPT ![k] = Head(replies[sock[k]]).entry]
  /\ pc' = [pc EXCEPT ![k] = "await_final"]
  /\ UNCHANGED <<queueVars, handler, request, sock, job, historyVars>>

Return(k) ==
  /\ pc' = [pc EXCEPT ![k] = "idle"]
  /\ sock' = [sock EXCEPT ![k] = NoConn]
  /\ job' = [job EXCEPT ![k] = NoMessage]
  /\ taken' = [taken EXCEPT ![k] = NoEntry]

\* The final response has code 0: submit_message returns the transaction, or
\* fetch_message returns the message it took.
ReceiveSuccess(k) ==
  /\ pc[k] = "await_final"
  /\ Receives(k, "stored") \/ Receives(k, "processed")
  /\ Consume(sock[k])
  /\ Return(k)
  /\ \/ /\ Receives(k, "stored")
        /\ confirmed' = confirmed \union {sock[k]}
        /\ UNCHANGED delivered
     \/ /\ Receives(k, "processed")
        /\ delivered' = [delivered EXCEPT ![k] = Append(@, taken[k])]
        /\ UNCHANGED confirmed
  /\ UNCHANGED <<queueVars, handler, request, acks, acknowledged, returned, peak>>

\* The final response has code 1, "ACK not received."; it is returned as it is.
ReceiveFailure(k) ==
  /\ pc[k] = "await_final"
  /\ Receives(k, "no_ack")
  /\ Consume(sock[k])
  /\ Return(k)
  /\ UNCHANGED <<queueVars, handler, request, acks, historyVars>>

\* A connection error or a socket timeout, swallowed by the retry loop.
ConnectionLost(k) ==
  /\ pc[k] \in {"await_initial", "await_final"}
  /\ pc' = [pc EXCEPT ![k] = "retry"]
  /\ sock' = [sock EXCEPT ![k] = NoConn]
  /\ taken' = [taken EXCEPT ![k] = NoEntry]
  /\ replies' = [replies EXCEPT ![sock[k]] = <<>>]
  /\ UNCHANGED <<queueVars, handler, request, acks, job, historyVars>>

\* Mutant: a push retries for ever.
Deadline_FetchOnly(k) ==
  /\ k \in Consumers
  /\ pc[k] = "retry"
  /\ Return(k)
  /\ UNCHANGED <<queueVars, handler, request, replies, acks, historyVars>>

\* The head of the retry loop finds the call's timeout spent.
Deadline(k) ==
  /\ pc[k] = "retry"
  /\ Return(k)
  /\ UNCHANGED <<queueVars, handler, request, replies, acks, historyVars>>

\* Every call has returned, every handler is done: nothing more has to happen.
Quiet ==
  /\ \A k \in Clients : pc[k] = "idle"
  /\ \A c \in Conns : handler[c] \in {"unused", "closed"}
  /\ UNCHANGED vars

-----------------------------------------------------------------------------
Handler(c) ==
  \/ InitializeQueue(c)
  \/ HandlePush(c) \/ StorePush(c) \/ DiscardPush(c)
  \/ HandlePop(c) \/ CommitPop(c) \/ ReturnPop(c)

Client(k) ==
  \/ \E m \in Messages : Submit(k, m)
  \/ Fetch(k)
  \/ \E c \in Conns : Connect(k, c)
  \/ ReceiveRefusal(k) \/ ReceiveInitial(k)
  \/ ReceiveSuccess(k) \/ ReceiveFailure(k)
  \/ ConnectionLost(k) \/ Deadline(k)

Next ==
  \/ \E c \in Conns : Handler(c)
  \/ \E k \in Clients : Client(k)
  \/ Quiet

Spec == Init /\ [][Next]_vars

\* Handler threads are scheduled and their ACK wait is bounded by the timeout that
\* every SimpleClient request carries; a client's waits are bounded by its socket
\* timeout, its retry loop by its own deadline.
Fairness ==
  /\ \A c \in Conns : WF_vars(Handler(c))
  /\ \A k \in Clients :
       /\ WF_vars(ReceiveInitial(k) \/ ReceiveRefusal(k) \/ ReceiveSuccess(k)
                    \/ ReceiveFailure(k) \/ ConnectionLost(k))
       /\ WF_vars(Deadline(k))

FairSpec == Spec /\ Fairness

-----------------------------------------------------------------------------
(* Properties. *)

ReplyKind == {"full", "not_ready", "initiated", "stored", "processed", "no_ack"}
HandlerState == {"unused", "accepted", "dispatch", "push_wait", "pop_wait", "closed"}

\* Every variable has its type: the shapes of the queue, handler and client state.
TypeOK ==
  /\ exists \in BOOLEAN
  /\ queue \subseteq Entry
  /\ in_flight \in [Conns -> Entry \union {NoEntry}]
  /\ next_index \in Nat
  /\ handler \in [Conns -> HandlerState]
  /\ request \in [Conns -> Messages \union {NoMessage}]
  /\ replies \in [Conns -> Seq([kind : ReplyKind, entry : Entry \union {NoEntry}])]
  /\ acks \subseteq Conns
  /\ pc \in [Clients -> {"idle", "retry", "await_initial", "await_final"}]
  /\ sock \in [Clients -> Conns \union {NoConn}]
  /\ job \in [Clients -> Messages \union {NoMessage}]
  /\ taken \in [Clients -> Entry \union {NoEntry}]
  /\ acknowledged \subseteq Conns \X Entry
  /\ returned \subseteq Entry
  /\ confirmed \subseteq Conns
  /\ delivered \in [Consumers -> Seq(Entry)]
  /\ peak \in Nat

Contract == INSTANCE DeliveryContract
              WITH Copies <- Entry, held <- Held, committed <- Forgotten

\* Refinement: through every handshake, timeout, dropped connection and retry, the
\* broker keeps each accepted entry until one ACK takes it and no entry is returned
\* by two fetches.
ImplementsContract == Contract!Spec

\* An entry is in one place: waiting, on lease to one handler, or acknowledged, and no
\* two entries share an index.
OnePlace ==
  /\ \A c \in Flying : in_flight[c] \notin queue \union Forgotten
  /\ \A c, d \in Flying : in_flight[c] = in_flight[d] => c = d
  /\ queue \intersect Forgotten = {}
  /\ \A e, f \in Held \union Forgotten : e.index = f.index => e = f

\* submit_message reports success only for a transaction the broker stored, once, with
\* that transaction's payload: a job whose id the producer holds is never missing.
ConfirmedIsStored ==
  \A c \in confirmed :
    \E e \in Held \union Forgotten :
      /\ e.txn = c
      /\ e.message = request[c]
      /\ \A f \in Held \union Forgotten : f.txn = c => f = e

\* A message is lost only when its consumer dropped the connection after sending the
\* ACK: as long as the client stays on the connection, an acknowledged entry is either
\* delivered or about to be.
LostOnlyIfAbandoned ==
  \A a \in acknowledged :
    \/ a[1] \in acks /\ \A k \in Clients : sock[k] # a[1]
    \/ \E k \in Consumers :
         /\ sock[k] = a[1]
         /\ taken[k] = a[2]
         /\ pc[k] = "await_final"
         /\ replies[a[1]] = <<Reply("processed", NoEntry)>>

\* A consumer sees messages in the order the broker accepted them, except those that
\* came back from a failed handshake.
InOrder ==
  \A k \in Consumers : \A i, j \in DOMAIN delivered[k] :
    i < j => \/ delivered[k][i].index < delivered[k][j].index
             \/ delivered[k][j] \in returned

\* full() is only checked before the handshake, so the queue can outgrow MaxSize, but
\* never by more than the pushes that were admitted together.
BoundedOvershoot == MaxSize > 0 /\ Size > MaxSize => Size < MaxSize + peak

\* A message on lease does not stay there: the handler commits it or puts it back.
LeaseEnds == \A c \in Conns : in_flight[c] # NoEntry ~> in_flight[c] = NoEntry

\* Every call of a client returns, whatever the broker and the network do.
CallReturns == \A k \in Clients : pc[k] # "idle" ~> pc[k] = "idle"

\* Neither side of a handshake waits for the other for ever.  (The handler's wait is
\* taken to end by the ACK, the timeout or a closed connection, which _wait_for_ack
\* turns into its answer; an exception it does not catch is outside the claim.)
NothingHangs == LeaseEnds /\ CallReturns

=============================================================================
