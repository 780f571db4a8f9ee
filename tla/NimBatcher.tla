------------------------------ MODULE NimBatcher ------------------------------
(***************************************************************************)
(* NimClient with dynamic batching: the threads of a stage call infer,     *)
(* which puts one request per image in a queue and waits for the futures   *)
(* in order; one batcher thread takes requests into a batch, calls the     *)
(* inference server with retries, and answers the futures of the batch;    *)
(* close stops the batcher.  The futures of one call are the requests      *)
(* <<caller, 1>>, <<caller, 2>>, ...                                       *)
(***************************************************************************)
EXTENDS Integers, Sequences, FiniteSets

CONSTANTS
  Callers,              \* threads, each with one call of infer
  Images,               \* how many images the call of a thread has
  AskedSize,            \* its max_batch_size argument
  ServerSize,           \* max_batch_size in the configuration of the model
  Protocols,            \* "grpc", "http" or both: one is chosen at the start
  MaxRetries, Max429,   \* max_retries, max_429_retries
  None                  \* the sentinel of close

Inferences == UNION {{c} \X (1..Images[c]) : c \in Callers}

ASSUME BatcherAssumption ==
  /\ Images \in [Callers -> Nat \ {0}]
  /\ AskedSize \in [Callers -> Nat \ {0}]
  /\ ServerSize \in Nat
  /\ Protocols \subseteq {"grpc", "http"} /\ Protocols # {}
  /\ MaxRetries \in Nat \ {0} /\ Max429 \in Nat \ {0}
  /\ None \notin Inferences

VARIABLES
  protocol,
  max_batch,       \* _max_batch_sizes of the model: NotFetched at first
  batch_size,      \* self._batch_size, which every call of infer overwrites
  request_queue,
  stop_event,
  batcher,         \* where the batcher thread is
  batch,           \* requests_batch
  given,           \* how many futures of the batch were set
  attempt, retries_429,
  calls,           \* history: calls of the server for this batch
  caller,          \* where each calling thread is
  next,            \* the image it submits, or whose future it waits for
  future,          \* futures of the requests
  submitted,       \* history: requests in the order they were put
  closer           \* the thread that closes the client

NotFetched == -1

serverVars  == <<attempt, retries_429, calls>>
batcherVars == <<batcher, batch, given, serverVars>>
callerVars  == <<caller, next, submitted>>
nimVars == <<protocol, max_batch, batch_size, request_queue, stop_event, batcherVars,
             callerVars, future, closer>>

-----------------------------------------------------------------------------
NimInit ==
  /\ protocol \in Protocols
  /\ max_batch = NotFetched
  /\ batch_size = 0
  /\ request_queue = <<>>
  /\ stop_event = FALSE
  /\ batcher = "checking"
  /\ batch = <<>> /\ given = 0
  /\ attempt = 0 /\ retries_429 = 0 /\ calls = 0
  /\ caller = [c \in Callers |-> "idle"]
  /\ next = [c \in Callers |-> 1]
  /\ submitted = <<>>
  /\ future = [r \in Inferences |-> "pending"]
  /\ closer = "open"

\* _fetch_max_batch_size: from the server's configuration over gRPC, 1 when that fails
\* and over HTTP; fetched once, under a lock.
FetchedSizes ==
  IF max_batch # NotFetched THEN {max_batch} ELSE IF protocol = "http" THEN {1} ELSE {1, ServerSize}

\* infer: the batch size is that of the latest caller, at least one.
StartInfer(c) ==
  /\ caller[c] = "idle"
  /\ \E size \in FetchedSizes :
       LET least == IF size < AskedSize[c] THEN size ELSE AskedSize[c]
       IN  /\ max_batch' = size
           /\ batch_size' = IF least < 1 THEN 1 ELSE least
  /\ caller' = [caller EXCEPT ![c] = "submitting"]
  /\ UNCHANGED <<protocol, request_queue, stop_event, batcherVars, next, submitted, future,
                 closer>>

\* submit, for the next image of the call; after the last one infer waits.
Submit(c) ==
  /\ caller[c] = "submitting"
  /\ request_queue' = Append(request_queue, <<c, next[c]>>)
  /\ submitted' = Append(submitted, <<c, next[c]>>)
  /\ IF next[c] < Images[c]
       THEN next' = [next EXCEPT ![c] = @ + 1] /\ UNCHANGED caller
       ELSE /\ next' = [next EXCEPT ![c] = 1]
            /\ caller' = [caller EXCEPT ![c] = "waiting"]
  /\ UNCHANGED <<protocol, max_batch, batch_size, stop_event, batcherVars, future, closer>>

\* future.result(), in the order of the images; the first exception ends the call.
AwaitFuture(c) ==
  /\ caller[c] = "waiting"
  /\ future[<<c, next[c]>>] # "pending"
  /\ IF future[<<c, next[c]>>] = "result" /\ next[c] < Images[c]
       THEN next' = [next EXCEPT ![c] = @ + 1] /\ UNCHANGED caller
       ELSE /\ caller' = [caller EXCEPT ![c] =
                             IF future[<<c, next[c]>>] = "result" THEN "returned" ELSE "raised"]
            /\ UNCHANGED next
  /\ UNCHANGED <<protocol, max_batch, batch_size, request_queue, stop_event, batcherVars,
                 submitted, future, closer>>

-----------------------------------------------------------------------------
(* The batcher thread: _batcher_loop and _process_dynamic_batch. *)

BatcherUnchanged == UNCHANGED <<protocol, max_batch, batch_size, stop_event, callerVars, closer>>

\* The head of the loop.
CheckStop ==
  /\ batcher = "checking"
  /\ batcher' = IF stop_event THEN "ended" ELSE "getting"
  /\ UNCHANGED <<request_queue, batch, given, serverVars, future>>
  /\ BatcherUnchanged

\* get(timeout): nothing arrives in time, or the sentinel does.
GetNothing ==
  /\ batcher = "getting"
  /\ \/ request_queue = <<>> /\ UNCHANGED request_queue
     \/ /\ request_queue # <<>> /\ Head(request_queue) = None
        /\ request_queue' = Tail(request_queue)
  /\ batcher' = "checking"
  /\ UNCHANGED <<batch, given, serverVars, future>>
  /\ BatcherUnchanged

GetFirst ==
  /\ batcher = "getting"
  /\ request_queue # <<>> /\ Head(request_queue) # None
  /\ batch' = <<Head(request_queue)>>
  /\ request_queue' = Tail(request_queue)
  /\ batcher' = "filling"
  /\ UNCHANGED <<given, serverVars, future>>
  /\ BatcherUnchanged

\* One more request, unless the batch is full or the sentinel comes next.
Fill ==
  /\ batcher = "filling"
  /\ Len(batch) < batch_size
  /\ request_queue # <<>> /\ Head(request_queue) # None
  /\ batch' = Append(batch, Head(request_queue))
  /\ request_queue' = Tail(request_queue)
  /\ UNCHANGED <<batcher, given, serverVars, future>>
  /\ BatcherUnchanged

\* Mutant: a request that does not fit is taken out and put back at the end.
Peek_PutsBack ==
  request_queue' = IF request_queue = <<>> THEN <<>>
                   ELSE Append(Tail(request_queue), Head(request_queue))

\* A request that does not fit in the batch is only looked at.
Peek == UNCHANGED request_queue

\* The batch is as large as it gets: it is full, no request waits, the time is over, or the
\* next image would not fit in the memory budget.  Coalescing the requests may fail.
StopFilling ==
  /\ batcher = "filling"
  /\ batcher' \in {"inferring", "failing"}
  /\ attempt' = 0 /\ retries_429' = 0 /\ calls' = 0 /\ given' = 0
  /\ Peek
  /\ UNCHANGED <<batch, future>>
  /\ BatcherUnchanged

Answers == {"ok", "too many requests", "server error", "not found", "timeout", "network",
            "refused"}

\* _http_infer: what it does with an answer.
HttpReaction(answer) ==
  CASE answer = "ok"                                      -> "return"
    [] answer = "too many requests"                       -> "throttle"
    [] answer \in {"server error", "timeout", "network"}  -> "retry"
    [] answer \in {"not found", "refused"}                -> "raise"

\* _grpc_infer: INTERNAL (with or without a reload of the models) and NOT_FOUND are retried,
\* UNAVAILABLE with a full queue is throttled, anything else is raised at once.
GrpcReaction(answer) ==
  CASE answer = "ok"                                      -> "return"
    [] answer = "too many requests"                       -> "throttle"
    [] answer \in {"server error", "not found"}           -> "retry"
    [] answer \in {"timeout", "network", "refused"}       -> "raise"

Reaction(answer) == IF protocol = "http" THEN HttpReaction(answer) ELSE GrpcReaction(answer)

\* Mutant: a throttled call starts the count of the attempts again.
Throttled_Resets == attempt' = 0 /\ retries_429' = retries_429 + 1

\* A throttled call does not count as an attempt.
Throttled == retries_429' = retries_429 + 1 /\ UNCHANGED attempt

\* One call of the server.  The last attempt raises instead of waiting; a response that
\* cannot be used, or is not one result per request, fails like an exception.
Infer(answer) ==
  /\ batcher = "inferring"
  /\ calls' = calls + 1
  /\ LET reaction == Reaction(answer)
     IN  \/ /\ reaction = "return"
            /\ batcher' \in {"delivering", "failing"}
            /\ UNCHANGED <<attempt, retries_429>>
         \/ /\ reaction = "raise"
            /\ batcher' = "failing"
            /\ UNCHANGED <<attempt, retries_429>>
         \/ /\ reaction = "throttle"
            /\ Throttled
            /\ batcher' = IF retries_429 + 1 >= Max429 THEN "failing" ELSE "inferring"
         \/ /\ reaction = "retry"
            /\ IF attempt >= MaxRetries - 1
                 THEN batcher' = "failing" /\ UNCHANGED attempt
                 ELSE attempt' = attempt + 1 /\ UNCHANGED batcher
            /\ UNCHANGED retries_429
  /\ UNCHANGED <<request_queue, batch, given, future>>
  /\ BatcherUnchanged

LastGiven == given + 1 = Len(batch)

\* The futures of the batch are set one after the other, all to their results or all to
\* the exception.
SetFuture ==
  /\ batcher \in {"delivering", "failing"}
  /\ future' = [future EXCEPT ![batch[given + 1]] =
                  IF batcher = "delivering" THEN "result" ELSE "exception"]
  /\ IF LastGiven
       THEN batcher' = "checking" /\ batch' = <<>> /\ given' = 0
       ELSE given' = given + 1 /\ UNCHANGED <<batcher, batch>>
  /\ UNCHANGED <<request_queue, serverVars>>
  /\ BatcherUnchanged

Batcher ==
  \/ CheckStop \/ GetNothing \/ GetFirst \/ Fill \/ StopFilling \/ SetFuture
  \/ \E answer \in Answers : Infer(answer)

-----------------------------------------------------------------------------
\* close: the event, then the sentinel, then join.
SetStop ==
  /\ closer = "open"
  /\ stop_event' = TRUE
  /\ closer' = "stopping"
  /\ UNCHANGED <<protocol, max_batch, batch_size, request_queue, batcherVars, callerVars,
                 future>>

PutSentinel ==
  /\ closer = "stopping"
  /\ request_queue' = Append(request_queue, None)
  /\ closer' = "joining"
  /\ UNCHANGED <<protocol, max_batch, batch_size, stop_event, batcherVars, callerVars, future>>

BatcherGone == batcher = "ended"

JoinBatcher ==
  /\ closer = "joining"
  /\ BatcherGone
  /\ closer' = "closed"
  /\ UNCHANGED <<protocol, max_batch, batch_size, request_queue, stop_event, batcherVars,
                 callerVars, future>>

CloseClient == PutSentinel \/ JoinBatcher

NimNext ==
  \/ \E c \in Callers : StartInfer(c) \/ Submit(c) \/ AwaitFuture(c)
  \/ Batcher
  \/ SetStop \/ CloseClient

-----------------------------------------------------------------------------
NimTypeOK ==
  /\ protocol \in Protocols
  /\ max_batch \in {NotFetched, 1, ServerSize} /\ batch_size \in Nat
  /\ request_queue \in Seq(Inferences \union {None})
  /\ stop_event \in BOOLEAN
  /\ batcher \in {"checking", "getting", "filling", "inferring", "delivering", "failing", "ended"}
  /\ batch \in Seq(Inferences) /\ given \in 0..Len(batch)
  /\ attempt \in 0..MaxRetries - 1 /\ retries_429 \in 0..Max429 /\ calls \in Nat
  /\ caller \in [Callers -> {"idle", "submitting", "waiting", "returned", "raised"}]
  /\ next \in [Callers -> Nat \ {0}] /\ \A c \in Callers : next[c] <= Images[c]
  /\ future \in [Inferences -> {"pending", "result", "exception"}]
  /\ submitted \in Seq(Inferences)
  /\ closer \in {"open", "stopping", "joining", "closed"}

Answered(r) == future[r] # "pending"

\* Requests are answered in the order in which they were submitted, across callers and
\* batches: no request overtakes an earlier one.
AnsweredInOrder ==
  \A i, j \in DOMAIN submitted : i < j /\ Answered(submitted[j]) => Answered(submitted[i])

\* The two retry counters bound each other: whatever mix of errors and throttling the
\* server answers with, a batch costs a bounded number of calls.
CallsBounded == calls <= MaxRetries + Max429 - 1

\* Every submitted request is answered, with a result or an exception; only a request that
\* no batch has taken when the client is closed may be left in the queue.
TakenAreAnswered ==
  \A i \in DOMAIN submitted :
    \/ Answered(submitted[i])
    \/ stop_event /\ \E j \in DOMAIN request_queue : request_queue[j] = submitted[i]

\* close has returned, if it was called: it waits for the batch in hand.
CloseIsOver == closer \in {"open", "closed"}

\* Nobody waits for the batcher for ever.  (A thread calls infer once here, and an answer
\* and the return of close are final, so that it can be said of all of them at once.)
CallersAndCloseEnd == <>[](TakenAreAnswered /\ CloseIsOver)
===============================================================================
