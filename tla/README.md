# nv-ingest in TLA+

TLA+ models of the parts of nv-ingest whose correctness depends on order,
concurrency and failure, TLC configurations that check them on small instances,
and TLAPS proofs of what holds for every instance. All paths below are relative
to the repository root; `ray/` stands for
`src/nv_ingest/framework/orchestration/ray/` and `api/` for
`api/src/nv_ingest_api/`.

## 1. The system

nv-ingest takes documents, runs them through a pipeline of extraction and
transformation stages, and hands the results back. A client submits a job over
REST; the REST service puts it on a task queue (Redis, or the socket broker in a
single-process deployment); the pipeline's source stage takes it from there; Ray
actors connected by bounded queues process it; the sink stage puts the result on
a response queue, from which the client fetches it.

| Part | State | Operations | Talks to | Hard because | Correct means |
|---|---|---|---|---|---|
| Simple broker (`api/util/message_brokers/simple_message_broker/`) | per queue a heap, in-flight messages, an index counter | PUSH, POP with an ACK handshake | clients over sockets, one handler thread per connection | timeouts, dropped connections and retries at every point of the handshake | a message is in one place, is not delivered twice, is lost only if its consumer abandons it, comes in order |
| Replica scaling (`ray/primitives/ray_pipeline.py`, `pipeline_topology.py`) | actor lists, scaling states, actors pending removal | scale up and down, clean up, build, start, stop | Ray actors | four kinds of threads, waits with timeouts, partial failures | a stage keeps its minimum and its maximum, nothing is orphaned |
| Stage loops (`ray/stages/meta/`, source and sink) | a message in hand, flags, the queues wired in | read, process, put, pause, stop, rewire | queues, broker, the scaling thread | loop threads run beside remote calls | every job ends exactly once |
| Queue flush (`ray_pipeline.py:860-1160`) | edge queues, paused sources | pause, drain, rewire, commit, resume | all of the above | statistics are collected while messages move | sources resume; nothing is dropped |
| Statistics collector (`ray/primitives/ray_stat_collector.py`) | counters | collect | actors and queues | answers arrive at different times | a zero means an empty pipeline |
| Redis client (`api/util/service_clients/redis/`) | a list per channel, a cache | fragmented submit and fetch in three modes | Redis | a timeout between two fragments | a result is complete or still there |
| Ingest service, REST v1 and v2 (`src/nv_ingest/api/`, `framework/util/service/`) | job states, subjob sets | submit, fetch, aggregate | Redis client | state read before and written after an await | a job's result is handed out as its mode says |
| Client library (`client/src/nv_ingest_client/client/`) | job states, retries, failures | batch submission and retrieval | REST client | retries and partial failure of batches | every job is reported once |
| Autoscaler (`ray/util/pipeline/pid_controller.py`) | integral terms, histories | targets under a memory limit | scaling | rounding at the limits | the plan fits in memory |
| QoS scheduler (`api/util/message_brokers/qos_scheduler.py`) | current weights | choose a queue | broker client | state across empty queues | no category starves |
| Stages' decorators (`src/nv_ingest/framework/util/flow_control/`, `api/util/exception_handlers/`) | a message's tasks, a UDF cache per actor | run UDFs, take a task, record a failure | the message in hand | UDFs are taken out, kept and put back; any of them may fail | every task is done once or still there; an answer is true |
| PDF engines (`api/internal/extract/pdf/engines/`) | page batches, futures, rows | walk pages, submit batches, collect | NIM client, thread pool | futures end in any order | every page is sent and reported once |
| Stages on rows (`api/internal/{extract,mutate,transform,store}/`) | the rows of a document | enrich, filter, deduplicate, split, caption, embed, store | models | answers written back by position or label | an answer lands on its row |
| Process life cycle (`framework/orchestration/process/`) | pids, the broker process | start, signal handling, terminate | operating system | signals and atexit race | no process is left |
| NIM client, process pool (`api/internal/primitives/nim/`, `api/util/multi_processing/`) | request queues, futures | submit, batch, close | inference servers, workers | close races submit | every future resolves |

PROJECT.json lists these and the remaining parts with the reason for each one
that is not modelled, and every hazard at its line.

## 2. The modules

| Module | Models | Kind |
|---|---|---|
| `DeliveryContract` | what a message broker promises | abstract specification |
| `SimpleBroker` | the socket broker and its clients | specification, implements `DeliveryContract` |
| `ReplicaScaling` | topology, scaling, clean-up, build, start, stop | specification |
| `StagePipeline` | stage loops, bounded queues, removal of replicas, flush | specification |
| `ResultContract` | what the store of results promises | abstract specification |
| `ResultService` | submit and fetch handlers of both REST versions, Redis, sinks | specification, implements `ResultContract` |
| `ClientJobs` | the three drivers of the client library over its thread pool | specification |
| `NimBatcher` | the batching inference client | specification |
| `PidController`, `ResourceConstraints` | the two halves of the autoscaler | specification; a function of the inputs |
| `QosScheduler` | the choice among task queues | specification |
| `StageTasks` | a message's tasks and UDFs through the stages | specification |
| `PdfExtraction` | pages, batches, futures and rows of the PDF stage | specification |
| `DocumentRows` | what the stages after extraction do to the rows | specification |
| `MCRuntime` | the seven modules above it side by side | composition, instance for TLC |
| `MCSimpleBroker`, `MCReplicaScaling`, `MCStagePipeline`, `MCResultService`, `MCClientJobs` | model values, bounds on inputs | instances for TLC |
| `Selections` | subsequences by position and sums, in first-order terms | operators |
| `DataFacts` | sets of naturals, subsequences, sums, counts of a sequence's elements | lemmas |
| `SimpleBrokerProofs`, `ReplicaScalingProofs`, `StagePipelineProofs`, `ResultServiceProofs`, `ClientJobsProofs`, `PayloadProofs`, `RuntimeProofs` | theorems | proofs |

A definition that repeats another with a mistake in it (`ReturnPop_Again`, and
`PdfiumPageKeepsThem`, `BulkResultsByPosition`, `DeduplicateByPosition`) is a
deliberately broken copy. It is not part of any specification; it shows that the
property listed with it in PROJECT.json notices that mistake.

### SimpleBroker

A connection, the handler thread that serves it and its transaction id are one
thing in the code's life time, so `Conns` stands for all three, each used once;
their number bounds the retries. `handler[c]` is the program counter of
`SimpleMessageBrokerHandler.handle`: `accepted`, `dispatch` after
`_initialize_queue`, `push_wait` or `pop_wait` inside `_wait_for_ack`, `closed`.
`queue` and `in_flight` are the fields of `OrderedMessageQueue`; the heap is a
set of entries, because an entry carries its index and `heappop` takes the least.
Each block under `queue_lock` is one action; what happens between two blocks is
open to every other thread.

A client call is `idle`, at the head of its `retry` loop, or waiting for the
first (`await_initial`) or the second response (`await_final`). `ConnectionLost`
may happen in either wait, also after the ACK was sent; `_wait_for_ack` may
report a missing ACK although it was sent. `acks` says which connections carry
one. `_send_response` swallows errors, so `Send` drops what is sent to a client
that left. Delays are abstracted: a timeout is a step that may happen at any
moment of the wait it bounds.

`DeliveryContract` has only the copies a broker holds and those it was told to
forget: accept, take once, never both. `ImplementsContract` maps `held` to the
waiting and leased entries and `committed` to the acknowledged ones.

### ReplicaScaling

Actors are numbered in the order of their creation. A stage's list only grows at
its end, in that order, and `list.remove` keeps it, so the list is the set of its
members and "the last n" are the n greatest. `plan`, `cycle`, `worker` and `todo`
are the scaling thread and its workers: `BeginCycle` reads the targets, each
worker applies one of them in its own steps (create, start, add one by one; or
stop and mark one by one), `EndCycle` joins them. `cleaner`, `scan` and
`finished` are the clean-up thread, which copies the pending set, polls the
actors without the lock and removes those that are done. `phase` is the main
thread: building, running, and the steps of `stop()`. An actor that was told to
stop reaches `complete` in a step of its own, and may die at any time.

`signalled` is a history of the actors that were told to stop; properties
compare it with the lists. Targets are arbitrary numbers up to `MaxTarget`, so no
assumption is made about the autoscaler. `MaxActors` bounds the actors that can
be created; beyond it creation fails, which is also how the failure branch of
`_handle_scale_up` is reached, besides `KillReplicas`.

### StagePipeline

Stages form a chain: 0 is the source, `Last` the sink. A queue is an edge and a
generation, since a flush creates new ones. `loop[a]` is the program counter of
an actor's processing thread; `using` is the generation of the queue that its
current `get` or `put` was called on, while `wired` is what its fields hold: a
rewiring takes effect at the next call. `active`, `running`, `complete` and
`paused` are the flags the remote methods read and write, in the order the code
sets them. `scaling` is true inside a cycle: the code starts none during a flush,
but a flush may start inside one.

`put()` is repeated on any exception (`ray_actor_stage_base.py:344-355`,
`message_broker_task_source.py:444-452`), also when the queue had already taken the object:
`PutRaises` leaves both outcomes open, and `repeated` is a history of the copies made that
way. `ends` counts how often each job was delivered, failed in a stage or got lost;
`late` has the jobs a source put since it acknowledged its pause. A lost object is
swallowed by `_read_input`, as in the code, and one that the object store does not take
is dropped (`StoreFails`, `OnData`). `collect_stats_now` is split into its reads: actors
answer at any moment, queue sizes are read in order.

### ResultService

Job `<<d, 0>>` is document `d`; a long PDF (kind `split`) and an audio or video file
(`media`), which v2 splits, become the subjobs `<<d, 1>> .. <<d, Chunks>>`. `submit[d]` is where the submit handler of `d` is
(`api/v1/ingest.py`, `api/v2/ingest.py` under `src/nv_ingest/`): each Redis write between two
awaits is one step, so `jobState`, `mapping` (the two `parent:` keys) and `tasks`
change one at a time. The submission of a long PDF sends each subjob twice and then fails:
its `document_type` is None (`v2/ingest.py:837`, `1034-1048`), Redis refuses the metadata, and
the handler answers 500 (`MetadataRefused`). A worker takes a task, and its sink pushes the result's
fragments one by one into `channel[j]`; an error in the middle makes it retry, and
after that push the failure report, a message without a fragment index. The sink also
reports without any Redis error, when a payload is over the limit or cannot be made
(`SinkRefuses`), and when the report itself cannot be made or sent nothing is
(`unsent`).

`request[r]` is a fetch handler and `fetch[r][j]` the fetch thread of
`RedisClient` that works for it: it polls the list, in the mode that removes
results by popping, in the other by reading, until it has the fragments it was
told about, times out, or meets an error; `HandlerNext` then turns states into
200, 202, 404, 410, 500 or 503 and, for a split document, aggregates what the threads
found. `copies`, `handed`, `lapsed`, `unsent`, `served` and `expired` are histories.
`faults` counts Redis errors. `MayExpire` lets keys reach their TTL: a result channel
whenever no sink is in the middle of its pushes (600 s, the default of `RedisClient`,
`redis_client.py:57` and `954-956`, which the sink leaves as it is), the keys that last an hour
or two once the submit handlers have returned.

`ResultContract` counts only the `copies` that were pushed and those that were
`handed` out and knows neither fragments nor answers: a job is handed out only after it was published and, where reading
removes, no more often than it was published.

### ClientJobs

`config.driver` chooses who runs: `_ConcurrentProcessor.run` (behind
`Ingestor.ingest`), `IngestJobHandler.run` (behind the command line), or
`Ingestor.ingest_async`. `pc`, `at`, `toFetch`, `inflight` and the driver's other
sets are that thread's; `queue` is the executor's FIFO of submissions and
fetches, of which `PoolSize` run at a time; `submit[j]` and `fetch[j]` are the
futures, with one state per kind of ending (good, bad, timeout, error, ...).
`attempts` counts the REST client's retries of the call in progress. `server[j]` is
the service, external here: it accepts, works and hands a result out once; `lost`
records the results a connection broke over. `callback[j]` walks through the done
callback of a submission line by line, because callbacks of different threads
share the counter that resolves the combined future.

### NimBatcher, PidController, ResourceConstraints, QosScheduler

`NimBatcher`: callers put one request per image into `request_queue` and wait in
order; the batcher thread collects (it looks at the head inside the queue while
others add), calls the server with the two retry counters of either protocol, and
answers the futures; `close` sets the event, pushes its sentinel and joins.

`PidController` is one stage's `calculate_initial_proposals`, with errors in
tenths and the default gains as integers. The stage's queue depth is any of
`Depths`, the proposal may or may not be carried out. `ResourceConstraints` is the
five phases of `apply_constraints` as one function of a request; memory factors are
exact fractions. `QosScheduler` is `try_once`: immediate queue, strategy's choice,
fallback, while queues fill and empty under it. `steady` is a history of the
queues that stayed filled through the sweep, `overtaken` counts services of others
before a `watched` category that waits.

### StageTasks, PdfExtraction, DocumentRows

`StageTasks` follows one message after the other through the stages of the
default pipeline in their order. At each stop the failure decorator encloses the UDF
hook, which encloses the task filter: `pending` are UDFs taken out of the message
for this stage, `kept` those to be put back. A UDF returns the message, raises or
returns something else. Each stage has its `cached` UDFs and their
`access_order`, with expiry and eviction.

`PdfExtraction` is the PDF stage with `pdfium` and `nemoretriever_parse`: the page loop
with its buffers, the thread pool with its queue and workers, the futures in any
order of completion, and the rows built from them. `DocumentRows` takes a document's
rows through tables, charts, infographics, filter, deduplication, split, caption,
embedding and the stores; a model's answer is written as the identity of what it
was asked about, and labels of the data frame are kept beside the positions,
because the code writes back by one or by the other.

`MCRuntime` composes the seven. They share no state; `part` says which one moves in
a behaviour, so nothing is missed by leaving the others at rest.

## 3. What is checked

Every run finishes within five minutes with two workers.

| Run | Instance | Shows |
|---|---|---|
| `broker_safety` | one producer, two consumers, two messages, four connections, limit 2 | types, one place per entry, confirmed means stored, loss only when the consumer left, order, bounded overshoot, the contract |
| `broker_liveness` | one producer, one consumer, one message, three connections, limit 1 | a lease ends and a call returns |
| `scaling_safety` | two stages (1..2 and 0..2), three actors, targets up to 2 | types, minimum, maximum, no orphan, forgotten only when done |
| `scaling_liveness` | one stage 1..3, three actors, targets up to 3 | a stopped replica leaves its list, "Scaling Up" ends |
| `scaling_stop_doc` (violation) | as `scaling_liveness` | `stop()` leaves a replica running |
| `pipeline_flow` | source, one or two replicas of a stage, sink, two jobs, queues of one slot, one put that raises | types, every copy of a job in exactly one place and none made but by a put that raised, scaling down loses nothing, every copy of a fetched job ends, a stopped replica leaves |
| `pipeline_flush` | source and sink, two jobs, one flush, one put that raises | at most one late message, sources resume |
| `results` | one document (plain, PDF, or a long PDF or media file split in two), two pipeline replicas, two requests for the plain one, results of one or two fragments, sinks that refuse, one Redis error or expiring keys (result channels included), both modes | types, whole answers, answers that agree with each other and with what was stored and has not lapsed, the contract, results arrive |
| `results_retry_doc` (violation) | a split media file, results removed on reading | "retry later" throws results away |
| `client` | three files, batches of two, two threads, one retry each, one fault, all three drivers | types, every job reported once, what was taken is kept, records agree, drivers end |
| `client_async_doc` (violation) | two files, asynchronous driver | the combined future stays pending |
| `runtime` | see below | the properties of the seven side-by-side modules |

`runtime` has two callers with two and one images, a server limit of 3, two retries
of each kind; one stage of 0..3 replicas with queue depths 0 or 120 and an integral
between -30 and 400; two managed stages with proposals {-1, 0, 1, 2, 4, 9}, memory use
{0, 4, 8} of 8, caps of 1 or 4 replicas and 2 or 99 cores; three categories
with weights 2, 1, 1 and all strategies; four jobs, two of which pass through one
after the other, with caches of two UDFs; documents of up to four pages in batches
of two with two threads and eight combinations of options; three mixed
documents and every arrangement of three of six rows under five sets of options. It
checks `PartsTypeOK`, `AnsweredInOrder`, `CallsBounded`, `DecisionsSound`,
`WaitingIsServed`, `JourneySound` (every task done once or still there, answers true,
caches in order), `ExtractionSound` (rows as due, text whole, nothing left running),
`OwnValues` (an answer of a model stays with its row), `RowsKept` (no row or chunk is
missing or doubled) and `PartsEnd`.

Why the bounds are enough for what they are asked: two consumers and four
connections allow a message to be popped, returned, popped by the other consumer
and popped again by a retry of the first, and three pushes of a single producer
(its retries) to be admitted together. Three actors between bounds 1 and 3 allow
two overlapping scale-downs with a pending member, and a scale-up beside a
pending member. Queues of one slot block as early as possible; a second flush or
a third stage adds no new interaction: a flush knows one generation before it
and each edge has one reader side and one writer side. One put that raises
(`MaxRaises`) doubles a job at any point of its way, and with two jobs a copy can overtake
or block the other. Two fragments are needed
for an error between them, two subjobs for one that is ready and one that is not,
two replicas for a repeated task. Three jobs in batches of two
give a retry beside a new job and a last short batch; two threads let callbacks
interleave. Four pages in batches of two give a full batch, a last one and an
empty rest. Connections are symmetric in `broker_safety`, which has
only safety properties; their order never matters. The proofs below need none of
these bounds.

Bounds on inputs that hide combinations, and what they leave out: in `results` a
split document whose results are removed has results of one fragment
(`InputsConsidered`), and only a plain document is asked for twice at a time; in
`client` the processor with `fail_on_submit_error` runs without a queue id only.
In `runtime` messages follow each other, since only one actor has a message.

`CHECK_DEADLOCK FALSE` is set where the system is meant to come to rest: all
documents answered, all drivers done, or every part of `runtime` at its end.

### Fairness

*Broker.* Handler threads are scheduled by the operating system and wait for an
ACK no longer than the timeout each request carries (`broker.py:322`); clients
have a socket timeout and look at their deadline at the head of the loop. (`_wait_for_ack` at
line 333 catches a timeout, a reset and malformed JSON; any other exception ends the handler
thread with its lease, and is outside the claim.) Hence
weak fairness of every handler, of a client's waits and of `Deadline`. No client
has to start a call, and no message has to get through.

*Scaling.* Every thread runs, every remote call returns or fails, and an actor
whose `_running` was cleared leaves its loop; hence weak fairness of the workers,
of `EndCycle`, of the clean-up thread, of the shutdown steps and of
`ActorFinishes`. Nothing forces a cycle, a death or a stop.

*Pipeline.* Loops and the clean-up thread are scheduled and every wait of a flush
has a timeout; hence weak fairness of the loops, of `Forget` and of `Flush`.
With a finite set of jobs and finitely many exceptions of `put()` (a call that raises for
ever blocks its stage for ever) weak fairness of the loops is enough, because a slot that
others keep taking is taken finitely often. Nothing forces a fetch, a scaling
cycle or a flush.

*Results.* Pipeline replicas, submit handlers and fetch threads are scheduled, and
clients poll: weak fairness of each submit handler, each worker and each request.
Redis errors and expiry are nobody's duty, and `ResultArrives` is about behaviours
without them in which the sinks send something a fetch can answer. Clients are taken to
poll before the channel lapses.

*Client.* Some thread that can run does, and the service works: weak fairness of the
driver, of starting a task, of the pool as a whole and of the service as a whole.
No job and no thread is favoured. Connections may break or not.

*Runtime.* The batcher and the closing thread, the cycles of an idle autoscaler, and
the main and pool threads of the PDF stage. Parts exclude each other, so that two
conditions say it of all of them, and `PartsEnd` has the form `<>[]` because
an answer, a closed client and a finished document are final.

### Where the code and its text disagree

1. `ray_pipeline.py:1560` says `stop()` stops all actors and threads. The scaling
   thread is joined for 15 seconds (1512) and a cycle may take 180, so a worker may
   start replicas after everything was signalled (`scaling_stop_doc`).
2. `src/nv_ingest/api/v2/ingest.py:1119` answers 202, "Retry later." In the mode that
   removes results the aggregation of a split audio or video file has by then popped those of the
   subjobs that were ready (469-471). Nobody puts them back, and the retry, which finds those
   channels empty, is answered 202 again (`results_retry_doc`).
3. `client/.../interface.py:684-685` promises a future that completes when all jobs are
   terminal. The callback of a job without data raises at line 710, before the
   test that sets the future (`client_async_doc`).

Met while modelling, visible in the models, and stated by no run:

- *Broker and pipeline.* `broker.py:409` calls `max_queue_size` a maximum; concurrent pushes
  exceed it, and `BoundedOvershoot` says by how much. A replica that is
  added while a flush is under way stays wired to the old queues, and what it holds or
  reads there is counted by `CopiesAccounted` whether or not anyone comes for it. A put that raises
  after the queue took the object doubles the job. The drain wait of a
  flush reads its statistics one after the other and may miss a message that moves.
- *Results.* The submission of a split PDF ends in 500 after it has queued every subjob twice.
  A job fetched as a v2 PDF in the removing mode is answered 202 for ever once
  its result was taken. A failure report has no fragment index, and the default mode, which
  leaves results in place, polls past it (`redis_client.py:466`): such a job is answered 202
  for ever. A result channel lapses after 600 seconds, long before the job's state does. An
  invalid job popped by the source is dropped unanswered.
- *Autoscaler.* When a limit leaves no room at all, `pid_controller.py:558` logs that stages
  "will remain at their effective minimums" and line 569 grants every proposal whole;
  `WithinLimits` excludes that case. A stage sent to zero by the decision that wakes another,
  with nothing in flight, stays at zero: `ZerosWake` is about the stages that were at zero before.
- *Scheduler.* A non-blocking pop that fails in Redis looks like an empty queue
  (`redis_client.py:654-667`), so that a sweep may pass a job (`NoneFetched`); `WaitingIsServed`
  is about queues whose pops succeed.
- *UDFs.* `docs/docs/extraction/user_defined_functions.md:538-542` and
  `udf_intercept.py:223-226` differ about a UDF that fails, and the phase targeting of lines 100-106
  is never read by the server. A stage filters for any matching extract task, and
  removes the first of the type.
- *PDF.* `nemoretriever_parse` numbers its own text, tables and pictures from page 0 and
  page elements from 1, extracts no pictures and no tables of its own without
  `extract_text`, and gives no text at a depth other than page or document. An element
  whose metadata fails leaves a blank row. Text may be out of page order across
  batches. A failing future is raised only after the queued ones have run.
- *Rows.* A split chunk ends at the *start* offset of its last token
  (`split_text.py`), so the last token is lost and a text of one token vanishes, unlike
  `docs/docs/extraction/chunking.md:48`. Page images have no width and never pass the
  image filter. Deduplication removes duplicates also where its docstring says it
  marks them. Blank rows make caption, embedding and the embedding store raise. A
  small table in the "simple" format fails its stage. Embedding empties the content of
  page images before they are stored.

## 4. What is proved

The theorems hold for every value of the constants. Their assumptions
(`BrokerAssumption`, `ScalingAssumption`, `PipelineAssumption`, `ResultAssumption`,
`ClientAssumption`, `BatcherAssumption`, `QosAssumption`, `PidAssumption`,
`ConstraintsAssumption`, `StagesAssumption`, `PdfAssumption`, `RowsAssumption`,
each in its module) say that limits are numbers of the right sign, that marker
values are not values, that jobs, parsed pages and documents are sequences of
tasks, labels and extracted rows (`TaskRecords`, `ExtractedRows`), and where needed
that a set is finite; none restricts how
the code runs. TLC evaluates them on every run. The runs check the same
properties on small instances. The theorems about the parts of `MCRuntime` are about
those modules' own specifications (`NimSpec`, `QosSpec`, `PidControl`,
`ConstraintsSpec`, `StagesSpec`, `Extraction`, `RowsSpec`), and two more bring them
together for `RuntimeSpec`, which the run uses.

| Proof module | Theorem | Property |
|---|---|---|
| `SimpleBrokerProofs` | `BrokerTypes`, `EntryInOnePlace`, `ConfirmedPushIsStored`, `LossOnlyByAbandoning`, `DeliveryInOrder`, `OvershootIsBounded` | `TypeOK`, `OnePlace`, `ConfirmedIsStored`, `LostOnlyIfAbandoned`, `InOrder`, `BoundedOvershoot` |
| | `BrokerKeepsContract` | `ImplementsContract` |
| `ReplicaScalingProofs` | `TypeCorrect`, `MinimumKept`, `MaximumKept`, `NoReplicaOrphaned`, `ForgottenDone` | `TypeOK`, `KeepsMinimum`, `AtMostMaximum`, `NoOrphan`, `ForgottenOnlyWhenDone` |
| `StagePipelineProofs` | `TypeCorrect`, `JobsKept`, `ScaleDownSafe`, `OneLateMessage` | `TypeOK`, `CopiesAccounted`, `ScaleDownLosesNothing`, `AtMostOneLate` |
| `ResultServiceProofs` | `TypeCorrect`, `SharedResultsWhole`, `AnswersAgreeAlways` | `TypeOK`, `WholeWhenShared`, `AnswersAgree` |
| | `StoreKeepsContract` | `ImplementsContract` |
| `ClientJobsProofs` | `TypeCorrect`, `JobsAccounted`, `ResultsKept`, `RecordsCorrect` | `TypeOK`, `EveryJobOnce`, `TakenIsKept`, `RecordsAgree` |
| `PayloadProofs` | `ExtractedOnce`, `AnswersToTheirRows`, `RowsAccountedFor` | `ExtractionSound`, `OwnValues`, `RowsKept` |
| | `NoCallLeftBehind`, `TextKept`, `PagesSent` | two conjuncts of `ExtractionSound`, and `EveryPageSentOnce` |
| | `ExtractionTypes`, `RowTypes` | two conjuncts of `PartsTypeOK` |
| `RuntimeProofs` | `CallsAreBounded`, `AnswersInOrder`, `WaitingServed`, `DecisionsAreSound`, `JourneyIsSound` | `CallsBounded`, `AnsweredInOrder`, `WaitingIsServed`, `DecisionsSound`, `JourneySound` |
| | `NimTypes`, `SchedulerTypeOK`, `StageWithinBounds`, `DecisionTypeOK`, `JourneyTypeOK` | the other conjuncts of `PartsTypeOK` |
| | `PartsTypes`, `PartsSound` | `PartsTypeOK`; every safety property of the run `runtime` |

*Broker.* `StoreInv` adds to `OnePlace` that indexes are
below the counter, that a handler has an entry on lease exactly while it waits for
the ACK of a POP, and that one transaction stores one entry with its payload.
`HandshakeInv` ties a client's step to its handler's: it lists, for each state of the
handler, the responses that may be waiting on the connection. That is what makes a
late ACK, a late answer and a retry on a new connection harmless: a connection has
at most one client, and after the ACK was sent "processed" can only follow an
acknowledgement of the entry the client took. `HistoryInv` says that entries leave
the queue oldest first (`LeavesInOrder`), and that the connection through which a
delivered entry was acknowledged has no reader any more, so a second delivery of it
would need a second acknowledgement. `SizeInv` is stronger than
`BoundedOvershoot` because it also counts the pushes between check and store. The
refinement maps `StorePush` to `Accept`, `CommitPop` to `Commit`, a successful
fetch to `Deliver`, and every other step to a stutter.

*Scaling.* `KeepsMinimum` is not inductive: it speaks about signalled members now,
while a worker already holds the list of those it will signal next. The invariant
`IInv` says instead that every stage has a set of `MinReplicas[s]` *anchors*: members,
older than all other members, in no worker's list of actors to stop and never
signalled (`AllAnchored`). A scale-down chooses the youngest
`Cardinality(list) - target` members of the list, pending ones included, and the
target is clamped to at least the minimum, so it cannot reach an anchor
(`ScaleDownSparesAnchors`). The clean-up thread removes only signalled actors.
New actors are younger than all others (`Born`, `Younger`), so adding them leaves
the anchors the oldest; `Apart` says no actor belongs to two stages; `QuietBuild`
says nothing scales before the build is done. Actors may die at any time, which is
why the statement is about members that were not told to stop, not about living ones.
`AtMostMaximum` needs the members *and* the actors a worker is adding within the
maximum (`WithinMaximum`); that holds only because one cycle hands each stage to one
worker once and the next begins after it (`Turns`). `NoOrphan` needs that a running
replica is always claimed by a stage or by the worker that adds it (`Traced`), also
on the path that kills replicas after a failed creation. `ForgottenDone` needs that
whatever the clean-up thread has in `finished` is complete or dead; both are final.

*Pipeline.* `Flow` is types of the flow and control variables together with `Carry`
(the states of a loop in which an actor has a message in hand) and `Room` (a flush
that may still create queues has a generation left for them). `CopiesAccounted` is inductive
together with `Flow`. Its terms are counts of sets of places, and each step changes at most two of
them by one: a `get` maps the remaining slots one to one to those before it (`TailCounts`) and
hands the first message over or ends it, a `put` adds a slot and empties a hand, and a `put` that
raises adds at most a slot and one to `repeated` (`PutCopies`). The queues of a generation that a
flush has replaced stay among the slots; the theorem says that what is in them has not
vanished from the account, not that somebody will read it. `DoneAtEnd` says a completed loop
holds nothing, hence `ScaleDownSafe`. `LateOnce` says that all a paused source has put since its
acknowledgement is the one message its loop has, or had, in hand.

*Results.* The invariant is a conjunction of named parts. `Routes` says where each
handler is and what its request may fetch; `Clean`, that before the first Redis error a job that is submitted once is run once, and a
failure report in its channel stands alone there; `SharedReads`, while no key has expired, that what a thread has read is what the
list holds, fragment by fragment; `Stored`, which keys the submit handler has written at each of its steps.
`AnswersAgree` rests on `Again` (after a shared 200 the list stays readable), `Gone`
(after a removing 200 the state says so before the next request looks) and
`Keeping` (a copy of a one-fragment result, or the report in its place, is in the list, with a
thread that popped it, handed out, or `lapsed` with the list). The first two hold until the
first key expires, the last through any expiry of keys.
`Published` counts results where they are, a fragment that was read (`Seen`) included, and gives
the refinement whatever fails or expires: a push maps to `Publish`, an answer 200 to
`HandOut`, all else to a stutter.

*Client.* `Places` says a job is in exactly one of the driver's sets (`Apart`), none is
forgotten (`Accounted`), and what remains to be done in each place (`Stages`).
`Sent`, `Kept`, `Driven` and `Called` relate, for each job, its futures, its
callback and what the service did with it; `Queued` ties the executor's queue to
the futures; `Position` and `Ensured` follow the loop that waits for submissions;
`AllCalled` says that the combined future waits for the callback of every job;
`NamedByItsFile` follows the `zip` of jobs with files.

*NIM batcher.* `NimInv` says which requests the batcher has in hand and how the two
retry counters and `calls` go together. `OrderInv` says that the queue and the batch
are, in this order, the unanswered end of the sequence of requests
(`SentOnce`, `Covered`, `InTurnInv`), also while the head that does not fit is
looked at inside the queue.

*Scheduler and controller.* `QosInv` relates the sweep to the categories it has
seen empty (`Sweeping`, `SeenEmpty`); for the round robin, `Rotation` and
`Overtaken` say that the turns between the position and a waiting category bound
how often it can still be overtaken (`TurnAfter`). `StageWithinBounds` is the
controller's arithmetic on the clamped proposal.

*Resource manager.* `ConstraintsInv` says that a decision is the function
`ApplyConstraints` of the request; the work is in its phases. Factors are exact fractions,
of which finitely many have a least one (`LeastOfMore`), so the reduction factor is at most
what each limit leaves (`FactorFacts`). A sum of rounded-down shares is at most the
share of the sum (`ProportionalWithin`), which puts what the stages get above their
minimums within the free replicas and the free memory. `BoundsKept` and `Consistent` carry that
through the last two phases, where only a stage at zero can grow, to its minimum: that is
the term for the woken stages in `WithinLimits`. `ZerosWake` follows from the same two (`NoneAtZero`).

*Journey.* `TasksInv` says where each task of the job is: in the message, taken out or kept
for this pass over the UDFs, and in one of these once (`Separate`); done once and then in
none (`DoneOnce`); or gone with a message that failed or was dropped (`Accounted`).
Counting is avoided: a task is a position of the job, and sequences of them without
repetition stand for the tasks' places. `NonePassedBy` says that no stage had its turn and left
the first task of a type it selects; at the sink that makes an answer "success" true
(`FirstsDone` in `ReplyInv`). It holds because the tasks keep the order of the job, UDFs put
back included (`Ordered`). `BrokenBy` names the UDF on whose account a
message was dropped. `CacheInv` says that a cache and its order of access hold the same
keys, each once, within the bound.

*PDF stage.* `BatchInv` says that the page loop's buffer is the next batch, that every
submitted batch has the pages of its position (`OwnBatch`), and that after the loop
nothing waits unsent (`AllSent`, `NoneWaits`): hence `PagesSent`. `TextInv`
adds what has been read and collected: with pdfium the text grows with the page
loop; with the other engine every completed batch puts its pages into the text once and in
order (`FromCalls`, `IntoText`, `OnceInText`, `CallsInOrder`), in any order of
completion: hence `TextKept`. `RowsInv` is a tally. `DueOf` is what the walked pages, the
collected element batches and the pages built owe of each kind and page; `Tally` says
that no kind of a page has more rows than are due, and that over the kinds that may not be
skipped what is missing is as much as there are blank rows. So a blank row stands for exactly one
row, and no row appears twice. The steps that add rows
are put together by `FitsConcat`, and those that blank one are `FitsBlanked`. At the end all
is due: `RowsAsDue`, the third conjunct of `ExtractionSound`.

*Rows.* `PayloadInv` says that the tasks left are in pipeline order, after those done
(`TasksInOrder`), so that each stage knows which stages came before it; that labels are
distinct (`Apart`); that every entry's row is one of `OwnRows`, which hold their own text,
caption and embedding; that after the embedding stage a row's embedding is that of its
content (`Embeddings`), which holds on because no later stage writes what is embedded; that the objects stored
under a label are those of the row with that label (`Stored`), nothing being stored before the image
store's turn; and where every extracted row went (`RowAccounted`). Answers
written by label reach their rows because labels are distinct (`WriteTable`,
`WriteCaption`). Those written by position do because `valid_indices` ascends, and because
batches put together again are the whole sequence (`EmbedKeeps`). Chunks that overlap leave no gap
but at the end of the text, by the arithmetic of steps and lengths (`SplitKeeps`); without overlap
each lacks its last token and no other. `Undoubled` gives the other half of `RowsKept`: no two rows have one
identity and span, and until the split no two have one identity. It holds because the chunks of a text
start at different multiples of the step (`StepsApart`), a filter or a mask selects positions
once, and the pieces that are joined again have different content types (`ConcatOnce`,
`FlattenOnce`). `RowsAssumption` says that the extracted rows of a document are different ones. A text
the code leaves unsplit is allowed: it keeps all its tokens.

*Composition.* A step of `RuntimeNext` is, for each part, a step of its own or a stutter
(`PartsSteps`), and the initial states are initial for each (`PartsSpecs`). So `RuntimeSpec`
implies all seven specifications, and the theorems about them hold of it.

*Sums, counts and subsequences* are defined in first-order terms where that was possible
(`Selections`): a selection is given by the set of its positions, in order of their rank, and a count is
a cardinality. The lemmas of `DataFacts` prove what these operators
compute, for all data, by a least counterexample or over the subsets of a finite set instead of
the induction theorems of the library, which need an operator for an argument.

Every safety property of a passing run is proved. Only model-checked is liveness
(`NothingHangs`, `ScalingEnds`, `FlowEnds`, `SourcesResume`, `ResultArrives`, `DriversEnd`,
`PartsEnd`): liveness under fairness and ENABLED are outside the prover's reach.

## 5. What is not modelled

- *Documents.* Decoding, rendering and geometry of pages; the other PDF engines; the docx,
  pptx, html, audio and image extractors; custom content embeddings. Formats, schemas,
  logging and metrics.
- *Failures.* Deaths of actors in the middle of a message in `StagePipeline`
  (`ReplicaScaling` has them, and `ResultService` has a failing sink).
- *Redis client.* `CACHE_BEFORE_DELETE`, the connection pool and the pipeline's
  blocking pops.
- *Whole parts.* The process life cycle (decided by the operating system and Ray more
  than by this code), the fluent construction of an `Ingestor`, the pipeline's static configuration
  (`ReplicaScaling` assumes its result), the health probes, the queue edge prototypes
  and the process worker pool (no caller), telemetry, vector databases and evaluation
  (adapters). PROJECT.json gives the reason for each.

## 6. Plan

1. Done: the modules of section 2, their runs, and the theorems of section 4, one for
   every safety property.
2. Models that would add protocol state: the process life cycle with its signal
   handlers and clean-up, an `Ingestor` session, and the batched writes to the
   vector store.
