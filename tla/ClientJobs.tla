------------------------------ MODULE ClientJobs ------------------------------
(* The client library: a caller hands its jobs to one of three drivers, which  *)
(* submit them and fetch their results through one thread pool and the REST    *)
(* client.                                                                     *)
(*                                                                             *)
(*   processor   _ConcurrentProcessor.run, behind Ingestor.ingest              *)
(*   handler     IngestJobHandler.run, behind the command line                 *)
(*   async       Ingestor.ingest_async, whose combined future is set by the    *)
(*               callbacks of the submissions                                  *)
(*                                                                             *)
(* The service is external here: it accepts a job, works on it and hands the   *)
(* result out once (ResultService in its destructive mode).                    *)
EXTENDS Integers, Sequences, FiniteSets

CONSTANTS
  JobCount,        \* number of documents, each a job
  Drivers,         \* the drivers a behaviour may choose
  BatchSize,       \* batch_size: jobs in flight at once
  PoolSize,        \* worker_pool_size: threads of the client's executor
  MaxJobRetries,   \* max_job_retries of the processor
  MaxHttpRetries,  \* max_retries of the REST client, 0 for no limit
  MaxFaults        \* bound: connection faults and refusals of a behaviour

ASSUME ClientAssumption ==
  /\ JobCount \in Nat \ {0}
  /\ Drivers \subseteq {"processor", "handler", "async"}
  /\ BatchSize \in Nat \ {0} /\ PoolSize \in Nat \ {0}
  /\ MaxJobRetries \in Nat /\ MaxHttpRetries \in Nat /\ MaxFaults \in Nat

Jobs == 1 .. JobCount

VARIABLES
  config,     \* the driver, fail_on_submit_error, whether job_queue_id is set, the unreadable files
  pc,         \* where the driver's thread is
  jobState,   \* JobState.state
  tracked,    \* keys of _job_states
  hasId,      \* jobs whose JobState.job_id is a server id
  queue,      \* the executor's queue of <<"submit" | "fetch", job>>
  submit,     \* the future of submit_job
  fetch,      \* the future of fetch_job_result_cli, or the fetch of a callback
  attempts,   \* retries of the REST call in progress
  callback,   \* the done callback of a submission (async)
  next,       \* submitted_new_indices_count + 1, the next file
  toFetch,    \* to_fetch, the jobs of this cycle
  at,         \* position in a loop over jobs
  awaited,    \* submission_futures of _ensure_submitted
  inflight,   \* inflight_futures
  done,       \* the done futures being handled
  retry,      \* retry_job_ids
  retries,    \* retry_counts
  nameOf,     \* the handler's _job_id_map: the file a job is reported as
  results,    \* how often a job is among the results
  failures,   \* how often a job is among the failures
  completed,  \* completed_futures (async)
  merged,     \* jobs whose data is in future_results (async)
  combined,   \* the combined future (async)
  server,     \* the service's side of a job
  lost,       \* jobs whose result was lost on the connection
  faults

main    == <<config, pc, next, toFetch, at, awaited, inflight, done, retry, retries, nameOf,
             results, failures>>
workers == <<jobState, tracked, hasId, queue, submit, fetch, attempts>>
async   == <<callback, completed, merged, combined>>
outside == <<server, lost, faults>>
vars    == <<main, workers, async, outside>>

------------------------------------------------------------------------------
(* Job states and the executor.                                                *)

\* JobState.state: a terminal state is never left, the setter raises.
Terminal == {"COMPLETED", "FAILED"}

\* A fetch checks that the job is tracked and submitted (_get_and_check_job_state).
Fetchable(j) == j \in tracked /\ jobState[j] \in {"SUBMITTED", "SUBMITTED_ASYNC"}

\* A callback runs on the driver's thread when its submission had already ended.
OnMainThread(j) == pc = "register" /\ at = j
BusyWorkers ==
  {<<"submit", j>> : j \in {i \in Jobs : submit[i] \in {"running", "marked", "markedNoId"}}}
    \cup {<<"fetch", j>> : j \in {i \in Jobs : fetch[i] = "running" /\ callback[i] = "none"}}
    \cup {<<"callback", j>> : j \in {i \in Jobs : callback[i] \in {"starting", "running", "tallied", "merged"}
                                                    /\ ~ OnMainThread(i)}}

EndedSubmit == {"ok", "error"}
EndedFetch  == {"good", "bad", "notReady", "error"}

\* A worker thread takes the oldest task.
StartTask ==
  /\ queue # <<>> /\ Cardinality(BusyWorkers) < PoolSize
  /\ LET task == Head(queue) IN
     /\ queue' = Tail(queue)
     /\ attempts' = [attempts EXCEPT ![task[2]] = 0]
     /\ \/ /\ task[1] = "submit"
           /\ submit' = [submit EXCEPT ![task[2]] = "running"]
           /\ UNCHANGED <<fetch, jobState>>
        \/ /\ task[1] = "fetch"
           /\ LET j == task[2] IN
              IF ~ Fetchable(j)
                THEN fetch' = [fetch EXCEPT ![j] = "error"] /\ UNCHANGED jobState
                ELSE IF j \notin hasId
                THEN /\ fetch' = [fetch EXCEPT ![j] = "error"]
                     /\ jobState' = [jobState EXCEPT ![j] = "FAILED"]
                ELSE fetch' = [fetch EXCEPT ![j] = "running"] /\ UNCHANGED jobState
           /\ UNCHANGED submit
  /\ UNCHANGED <<main, tracked, hasId, async, outside>>
------------------------------------------------------------------------------
(* Submission: _submit_job over RestClient.submit_message.                     *)

\* The future of the submission ends; a registered callback starts on the same thread.
EndSubmit(j, outcome) ==
  /\ submit' = [submit EXCEPT ![j] = outcome]
  /\ callback' = IF callback[j] = "registered" THEN [callback EXCEPT ![j] = "starting"]
                                               ELSE callback

\* perform_retry_backoff refuses another attempt.
HttpGivesUp(j) == MaxHttpRetries > 0 /\ attempts[j] >= MaxHttpRetries

\* The service took the job: the state is written first, the server's id after it.
SubmitAnswer(j) ==
  /\ submit[j] = "running"
  /\ server' = [server EXCEPT ![j] = "working"]
  /\ jobState' = [jobState EXCEPT ![j] = "SUBMITTED"]
  /\ submit' = [submit EXCEPT ![j] = "marked"]
  /\ UNCHANGED <<main, tracked, hasId, queue, fetch, attempts, async, lost, faults>>

\* The response code is not looked at: a refused job is "submitted" without an id.
SubmitRefused(j) ==
  /\ jobState' = [jobState EXCEPT ![j] = "SUBMITTED"]
  /\ submit' = [submit EXCEPT ![j] = "markedNoId"]
  /\ UNCHANGED <<attempts, callback>>

SubmitFault(j) ==
  /\ submit[j] = "running" /\ faults < MaxFaults
  /\ faults' = faults + 1
  /\ \* the connection broke, before or after the service took the job
     \/ /\ server' \in {server, [server EXCEPT ![j] = "working"]}
        /\ IF HttpGivesUp(j) THEN SubmitRefused(j)
           ELSE /\ attempts' = [attempts EXCEPT ![j] = @ + 1]
                /\ UNCHANGED <<jobState, submit, callback>>
     \* a terminal status
     \/ SubmitRefused(j) /\ UNCHANGED server
     \* an exception, a job that cannot be serialised for one
     \/ /\ jobState' = [jobState EXCEPT ![j] = "FAILED"]
        /\ EndSubmit(j, "error")
        /\ UNCHANGED <<attempts, server>>
  /\ UNCHANGED <<main, tracked, hasId, queue, fetch, completed, merged, combined, lost>>

\* job_state.job_id = job_id, and the future of the submission ends.
SubmitIdent(j) ==
  /\ submit[j] \in {"marked", "markedNoId"}
  /\ hasId' = IF submit[j] = "marked" THEN hasId \cup {j} ELSE hasId
  /\ EndSubmit(j, "ok")
  /\ UNCHANGED <<main, jobState, tracked, queue, fetch, attempts, completed, merged, combined,
                 outside>>
------------------------------------------------------------------------------
(* Fetching: _fetch_job_result over RestClient.fetch_message.                  *)

FetchFails(j) ==
  /\ jobState' = [jobState EXCEPT ![j] = "FAILED"]
  /\ fetch' = [fetch EXCEPT ![j] = "error"]

\* _pop_job_state.
PopJobState(j) == tracked \ {j}

FetchAnswer(j) ==
  /\ fetch[j] = "running"
  /\ \/ \* 200: decoded, PROCESSING, and the job is no longer tracked
        /\ server[j] \in {"good", "bad"}
        /\ fetch' = [fetch EXCEPT ![j] = server[j]]
        /\ server' = [server EXCEPT ![j] = "taken"]
        /\ jobState' = [jobState EXCEPT ![j] = "PROCESSING"]
        /\ tracked' = PopJobState(j)
     \/ \* 202: TimeoutError, which a callback's own loop retries itself
        /\ server[j] = "working"
        /\ fetch' = [fetch EXCEPT ![j] = IF callback[j] = "none" THEN "notReady" ELSE @]
        /\ UNCHANGED <<jobState, tracked, server>>
     \/ \* 410
        /\ server[j] = "taken"
        /\ FetchFails(j) /\ UNCHANGED <<tracked, server>>
  /\ attempts' = [attempts EXCEPT ![j] = 0]
  /\ UNCHANGED <<main, hasId, queue, submit, async, lost, faults>>

\* The result leaves the service, if it is there, and never reaches the caller.
LoseResult(j) ==
  IF server[j] \in {"good", "bad"}
    THEN server' = [server EXCEPT ![j] = "taken"] /\ lost' = lost \cup {j}
    ELSE UNCHANGED <<server, lost>>

FetchFault(j) ==
  /\ fetch[j] = "running" /\ faults < MaxFaults
  /\ faults' = faults + 1
  /\ \* the connection broke, before or after the service handed the result out
     \/ /\ LoseResult(j) \/ UNCHANGED <<server, lost>>
        /\ IF HttpGivesUp(j) THEN FetchFails(j) /\ UNCHANGED attempts
           ELSE attempts' = [attempts EXCEPT ![j] = @ + 1] /\ UNCHANGED <<jobState, fetch>>
     \* a terminal status
     \/ FetchFails(j) /\ UNCHANGED <<attempts, server, lost>>
     \* an answer that does not decode
     \/ server[j] \in {"good", "bad"} /\ LoseResult(j) /\ FetchFails(j) /\ UNCHANGED attempts
  /\ UNCHANGED <<main, tracked, hasId, queue, submit, async>>

\* The service finishes a job, well or with a failure report.
ServerWorks(j) ==
  /\ server[j] = "working"
  /\ server' \in {[server EXCEPT ![j] = "good"], [server EXCEPT ![j] = "bad"]}
  /\ UNCHANGED <<main, workers, async, lost, faults>>
------------------------------------------------------------------------------
(* submit_job_async and fetch_job_result_async, on the driver's thread.        *)

SmallerOf(a, b) == IF a <= b THEN a ELSE b
Interval(a, b) == [i \in 1 .. b + 1 - a |-> a + i - 1]
Tasks(kind, js) == [i \in DOMAIN js |-> <<kind, js[i]>>]
Listed(js) == {js[i] : i \in DOMAIN js}

\* The members of a set of jobs, in their order.
InOrder(S) == [i \in 1 .. Cardinality(S) |-> CHOOSE j \in S : Cardinality({k \in S : k <= j}) = i]

SubmitAsync(js) ==
  /\ jobState' = [j \in Jobs |-> IF j \in Listed(js) THEN "SUBMITTED_ASYNC" ELSE jobState[j]]
  /\ submit' = [j \in Jobs |-> IF j \in Listed(js) THEN "queued" ELSE submit[j]]
  /\ queue' = queue \o Tasks("submit", js)

\* Mutant: the failure is logged and not recorded.
Fail_Unrecorded(js) == UNCHANGED failures /\ retries' = [j \in Jobs |-> IF j \in js THEN 0 ELSE retries[j]]

\* _handle_processing_failure for every job of js.
Fail(js) ==
  /\ failures' = [j \in Jobs |-> IF j \in js THEN failures[j] + 1 ELSE failures[j]]
  /\ retries' = [j \in Jobs |-> IF j \in js THEN 0 ELSE retries[j]]

\* Nothing of the cycle could be fetched: every job of it has failed.
InitiationFails ==
  /\ IF config.driver = "handler" THEN UNCHANGED <<failures, retries>> ELSE Fail(Listed(toFetch))
  /\ pc' = IF config.driver = "handler" \/ config.strict THEN "raised"
           ELSE IF inflight = {} THEN "top" ELSE "wait"
  /\ toFetch' = <<>> /\ awaited' = {} /\ at' = 1

\* _ensure_submitted, first loop: which submissions have to be waited for.
EnsureOne ==
  /\ pc = "ensure" /\ at <= Len(toFetch)
  /\ LET j == toFetch[at] IN
     IF ~ Fetchable(j) THEN InitiationFails
     ELSE /\ at' = at + 1
          /\ awaited' = IF jobState[j] = "SUBMITTED_ASYNC" THEN awaited \cup {j} ELSE awaited
          /\ UNCHANGED <<pc, toFetch, failures, retries>>
  /\ UNCHANGED <<config, next, inflight, done, retry, nameOf, results, workers, async, outside>>

\* Mutant: only a submission that succeeded counts as done.
SubmissionDone_Success(j) == submit[j] = "ok"

\* The future of the submission is done, whatever its outcome.
SubmissionDone(j) == submit[j] \in EndedSubmit

\* Second loop: a failed submission makes the state setter raise.
EnsureAwaits ==
  /\ pc = "ensure" /\ at > Len(toFetch)
  /\ \E j \in awaited :
       /\ SubmissionDone(j)
       /\ IF jobState[j] \in Terminal
            THEN InitiationFails /\ UNCHANGED jobState
            ELSE /\ jobState' = [jobState EXCEPT ![j] = "SUBMITTED"]
                 /\ awaited' = awaited \ {j}
                 /\ UNCHANGED <<pc, toFetch, at, failures, retries>>
  /\ UNCHANGED <<config, next, inflight, done, retry, nameOf, results, tracked, hasId, queue,
                 submit, fetch, attempts, async, outside>>

\* The fetches are handed to the executor.
Launch ==
  /\ pc = "ensure" /\ at > Len(toFetch) /\ awaited = {}
  /\ queue' = queue \o Tasks("fetch", toFetch)
  /\ fetch' = [j \in Jobs |-> IF j \in Listed(toFetch) THEN "queued" ELSE fetch[j]]
  /\ inflight' = inflight \cup Listed(toFetch)
  /\ toFetch' = <<>> /\ at' = 1
  /\ pc' = IF inflight' = {} THEN "top" ELSE "wait"
  /\ UNCHANGED <<config, next, awaited, done, retry, retries, nameOf, results, failures,
                 jobState, tracked, hasId, submit, attempts, async, outside>>

\* concurrent.futures.wait and as_completed: whatever has ended by now.
Wait ==
  /\ pc = "wait"
  /\ done' = {j \in inflight : fetch[j] \in EndedFetch} /\ done' # {}
  /\ pc' = "handle"
  /\ UNCHANGED <<config, next, toFetch, at, awaited, inflight, retry, retries, nameOf, results,
                 failures, workers, async, outside>>

\* The processor gives a job up after max_job_retries, the handler never does.
OutOfRetries(j) == config.driver = "processor" /\ retries[j] >= MaxJobRetries

Handle ==
  /\ pc = "handle"
  /\ \E j \in done :
       /\ done' = done \ {j}
       /\ inflight' = inflight \ {j}
       /\ fetch' = [fetch EXCEPT ![j] = "none"]
       /\ \/ /\ fetch[j] = "good"
             /\ results' = [results EXCEPT ![j] = @ + 1]
             /\ retries' = [retries EXCEPT ![j] = 0]
             /\ UNCHANGED <<retry, failures>>
          \/ /\ fetch[j] \in {"bad", "error"} \/ (fetch[j] = "notReady" /\ OutOfRetries(j))
             /\ Fail({j})
             /\ UNCHANGED <<retry, results>>
          \/ /\ fetch[j] = "notReady" /\ ~ OutOfRetries(j)
             /\ retry' = Append(retry, j)
             /\ retries' = IF config.driver = "processor" THEN [retries EXCEPT ![j] = @ + 1]
                                                          ELSE retries
             /\ UNCHANGED <<results, failures>>
  /\ pc' = IF done' # {} THEN "handle"
           ELSE IF config.driver = "handler" /\ inflight' # {} THEN "wait" ELSE "top"
  /\ UNCHANGED <<config, next, toFetch, at, awaited, nameOf, jobState, tracked, hasId, queue,
                 submit, attempts, async, outside>>
------------------------------------------------------------------------------
(* _ConcurrentProcessor.run: retries first, then new jobs, up to batch_size.   *)

Capacity == BatchSize - Cardinality(inflight)

\* Mutant: the retries that were taken stay in the list.
RetriesLeft_All(take) == retry

RetriesLeft(take) == SubSeq(retry, take + 1, Len(retry))

ProcessorTop ==
  /\ pc = "top" /\ config.driver = "processor"
  /\ LET capacity == Capacity
         take     == SmallerOf(capacity, Len(retry))
         again    == SubSeq(retry, 1, take)
         news     == SmallerOf(capacity - take, JobCount + 1 - next)
         fresh    == Interval(next, next + news - 1)
     IN
     IF next > JobCount /\ retry = <<>> /\ inflight = {}
       THEN /\ pc' = "returned"
            /\ UNCHANGED <<next, toFetch, at, retry, retries, failures, jobState, submit, queue>>
       ELSE /\ retry' = RetriesLeft(take)
            /\ next' = next + news
            /\ at' = 1
            /\ IF config.queueSet
                 THEN /\ SubmitAsync(fresh) /\ toFetch' = again \o fresh
                      /\ UNCHANGED <<failures, retries>>
                 ELSE /\ Fail(Listed(fresh)) /\ toFetch' = again
                      /\ UNCHANGED <<jobState, submit, queue>>
            /\ pc' = IF ~ config.queueSet /\ news > 0 /\ config.strict THEN "raised"
                     ELSE IF toFetch' # <<>> THEN "ensure"
                     ELSE IF inflight # {} THEN "wait" ELSE "top"
  /\ UNCHANGED <<config, awaited, inflight, done, nameOf, results, tracked, hasId, fetch,
                 attempts, async, outside>>

\* The i-th job is reported as the i-th file of the batch.
Zipped(fresh, files) ==
  [j \in Jobs |-> IF j \in Listed(fresh) THEN files[CHOOSE i \in DOMAIN fresh : fresh[i] = j]
                                          ELSE nameOf[j]]

(* IngestJobHandler.run: one batch after the other, with the retries of the     *)
(* batch before.  A file that cannot be read gives no job, and the jobs of a    *)
(* batch are zipped with its files.                                            *)
HandlerTop ==
  /\ pc = "top" /\ config.driver = "handler"
  /\ LET news  == SmallerOf(BatchSize - Len(retry), JobCount + 1 - next)
         files == Interval(next, next + news - 1)
         fresh == InOrder({j \in Listed(files) : j \notin config.unreadable})
     IN
     IF next > JobCount /\ retry = <<>>
       THEN /\ pc' = "returned"
            /\ UNCHANGED <<next, toFetch, at, retry, nameOf, jobState, tracked, submit, queue>>
       ELSE IF Len(fresh) # news /\ config.strict
       THEN /\ pc' = "raised"
            /\ UNCHANGED <<next, toFetch, at, retry, nameOf, jobState, submit, queue>>
            /\ tracked' = tracked \cup Listed(fresh)
       ELSE /\ next' = next + news
            /\ tracked' = tracked \cup Listed(fresh)
            /\ SubmitAsync(fresh)
            /\ nameOf' = Zipped(fresh, files)
            /\ toFetch' = retry \o fresh
            /\ retry' = <<>> /\ at' = 1
            /\ pc' = "ensure"
  /\ UNCHANGED <<config, awaited, inflight, done, retries, results, failures, hasId, fetch,
                 attempts, async, outside>>
------------------------------------------------------------------------------
(* Ingestor.ingest_async: submit everything, then add a callback to each        *)
(* submission; it runs at once when the submission has already ended.           *)

AsyncTop ==
  /\ pc = "top" /\ config.driver = "async"
  /\ SubmitAsync(Interval(1, JobCount))
  /\ pc' = "register" /\ at' = 1
  /\ UNCHANGED <<config, next, toFetch, awaited, inflight, done, retry, retries, nameOf, results,
                 failures, tracked, hasId, fetch, attempts, async, outside>>

\* add_done_callback on a future that is done calls the callback at once.
AlreadyDone(j) == [callback EXCEPT ![j] = "starting"]

Register ==
  /\ pc = "register"
  /\ \/ /\ at <= JobCount /\ callback[at] = "none" /\ submit[at] \in EndedSubmit
        /\ callback' = AlreadyDone(at)
        /\ UNCHANGED <<pc, at>>
     \/ /\ at <= JobCount /\ callback[at] = "none" /\ submit[at] \notin EndedSubmit
        /\ callback' = [callback EXCEPT ![at] = "registered"]
        /\ at' = at + 1 /\ UNCHANGED pc
     \/ /\ at <= JobCount /\ callback[at] = "done"
        /\ at' = at + 1 /\ UNCHANGED <<pc, callback>>
     \/ /\ at > JobCount
        /\ pc' = "returned" /\ UNCHANGED <<at, callback>>
  /\ UNCHANGED <<config, next, toFetch, awaited, inflight, done, retry, retries, nameOf, results,
                 failures, workers, completed, merged, combined, outside>>

\* fetch_job_result: one fetch, repeated while the job is not ready.
CallbackFetches(j) ==
  /\ callback[j] = "starting"
  /\ callback' = [callback EXCEPT ![j] = "running"]
  /\ IF ~ Fetchable(j) THEN fetch' = [fetch EXCEPT ![j] = "error"] /\ UNCHANGED jobState
     ELSE IF j \notin hasId THEN FetchFails(j)
     ELSE fetch' = [fetch EXCEPT ![j] = "running"] /\ UNCHANGED jobState
  /\ attempts' = [attempts EXCEPT ![j] = 0]
  /\ UNCHANGED <<main, tracked, hasId, queue, submit, completed, merged, combined, outside>>

\* Mutant: the future is not added to completed_futures.
Counted_Not(j) == completed

Counted(j) == completed \cup {j}

\* The job's state becomes COMPLETED unless the setter raises, and the future is counted.
Tally(j) ==
  /\ callback[j] = "running" /\ fetch[j] \in EndedFetch
  /\ jobState' = IF jobState[j] \in Terminal THEN jobState
                 ELSE [jobState EXCEPT ![j] = "COMPLETED"]
  /\ completed' = Counted(j)
  /\ callback' = [callback EXCEPT ![j] = "tallied"]
  /\ UNCHANGED <<main, tracked, hasId, queue, submit, fetch, attempts, merged, combined, outside>>

\* future_results.extend(result) raises when there is no result, and the callback ends there.
Merge(j) ==
  /\ callback[j] = "tallied"
  /\ IF fetch[j] = "error"
       THEN callback' = [callback EXCEPT ![j] = "done"] /\ UNCHANGED merged
       ELSE /\ callback' = [callback EXCEPT ![j] = "merged"]
            /\ merged' = IF fetch[j] = "good" THEN merged \cup {j} ELSE merged
  /\ UNCHANGED <<main, workers, completed, combined, outside>>

\* Mutant: any callback sets the combined future.
AllCounted_Any == completed # {}

\* completed_futures == submitted_futures.
AllCounted == completed = Jobs

\* The callback that sees every submission counted sets the combined future.
Combine(j) ==
  /\ callback[j] = "merged"
  /\ callback' = [callback EXCEPT ![j] = "done"]
  /\ combined' = IF AllCounted THEN "resolved" ELSE combined
  /\ UNCHANGED <<main, workers, completed, merged, outside>>
------------------------------------------------------------------------------
Configs == [driver : Drivers, strict : BOOLEAN, queueSet : BOOLEAN, unreadable : SUBSET Jobs]

\* Only the processor looks at job_queue_id, and only the handler reads the files itself.
Init ==
  /\ config \in {c \in Configs : /\ c.driver # "processor" => c.queueSet
                                 /\ c.driver # "handler" => c.unreadable = {}
                                 /\ c.driver = "async" => ~ c.strict}
  /\ pc = "top"
  /\ jobState = [j \in Jobs |-> "PENDING"]
  /\ tracked = IF config.driver = "handler" THEN {} ELSE Jobs
  /\ hasId = {} /\ queue = <<>>
  /\ submit = [j \in Jobs |-> "none"] /\ fetch = [j \in Jobs |-> "none"]
  /\ attempts = [j \in Jobs |-> 0] /\ callback = [j \in Jobs |-> "none"]
  /\ next = 1 /\ toFetch = <<>> /\ at = 1 /\ awaited = {} /\ inflight = {} /\ done = {}
  /\ retry = <<>> /\ retries = [j \in Jobs |-> 0]
  /\ nameOf = [j \in Jobs |-> j]
  /\ results = [j \in Jobs |-> 0] /\ failures = [j \in Jobs |-> 0]
  /\ completed = {} /\ merged = {} /\ combined = "pending"
  /\ server = [j \in Jobs |-> "none"] /\ lost = {} /\ faults = 0

Driver == ProcessorTop \/ HandlerTop \/ EnsureOne \/ EnsureAwaits \/ Launch \/ Wait \/ Handle
            \/ AsyncTop \/ Register
Worker(j) == SubmitAnswer(j) \/ SubmitIdent(j) \/ FetchAnswer(j)
               \/ CallbackFetches(j) \/ Tally(j) \/ Merge(j) \/ Combine(j)

Next ==
  \/ Driver
  \/ StartTask
  \/ \E j \in Jobs : Worker(j) \/ SubmitFault(j) \/ FetchFault(j) \/ ServerWorks(j)

Spec == Init /\ [][Next]_vars

\* Some thread that can run does, and the service goes on finishing what it took; no thread
\* or job is favoured.  That a connection breaks is nobody's duty.
Fairness ==
  /\ WF_vars(Driver)
  /\ WF_vars(StartTask)
  /\ WF_vars(\E j \in Jobs : Worker(j))
  /\ WF_vars(\E j \in Jobs : ServerWorks(j))

FairSpec == Spec /\ Fairness
------------------------------------------------------------------------------
(* Properties.                                                                 *)

\* Every variable keeps its type.
TypeOK ==
  /\ config \in Configs
  /\ pc \in {"top", "ensure", "wait", "handle", "register", "returned", "raised"}
  /\ jobState \in [Jobs -> {"PENDING", "SUBMITTED_ASYNC", "SUBMITTED", "PROCESSING"} \cup Terminal]
  /\ tracked \subseteq Jobs /\ hasId \subseteq Jobs
  /\ queue \in Seq({"submit", "fetch"} \X Jobs)
  /\ submit \in [Jobs -> {"none", "queued", "running", "marked", "markedNoId"} \cup EndedSubmit]
  /\ fetch \in [Jobs -> {"none", "queued", "running"} \cup EndedFetch]
  /\ attempts \in [Jobs -> Nat] /\ next \in Nat /\ at \in Nat /\ faults \in Nat
  /\ callback \in [Jobs -> {"none", "registered", "starting", "running", "tallied", "merged",
                            "done"}]
  /\ toFetch \in Seq(Jobs) /\ retry \in Seq(Jobs)
  /\ awaited \subseteq Jobs /\ inflight \subseteq Jobs /\ done \subseteq inflight
  /\ retries \in [Jobs -> Nat] /\ nameOf \in [Jobs -> Jobs]
  /\ results \in [Jobs -> Nat] /\ failures \in [Jobs -> Nat]
  /\ completed \subseteq Jobs /\ merged \subseteq completed
  /\ combined \in {"pending", "resolved"}
  /\ server \in [Jobs -> {"none", "working", "good", "bad", "taken"}] /\ lost \subseteq Jobs

\* run() accounts for every job once: among the results or among the failures, never in both
\* and never twice, through retries and group failures (client.py:498-641,
\* ingest_job_handler.py:305-412); a file that could not be read has no job.
EveryJobOnce ==
  /\ \A j \in Jobs : results[j] + failures[j] <= 1
  /\ pc = "returned" /\ config.driver # "async" =>
       \A j \in Jobs \ config.unreadable : results[j] + failures[j] = 1

\* A result the service handed out is not dropped by the client: unless the connection lost
\* it, it is in a finished fetch, among the results or reported as the failure it describes,
\* whatever retries and group failures happen in between (client.py:1109-1137, 601-640).
TakenIsKept ==
  \A j \in Jobs : server[j] = "taken" /\ j \notin lost =>
    fetch[j] \in {"good", "bad"} \/ results[j] + failures[j] = 1

\* At most batch_size jobs are in flight, the jobs of this cycle included, whatever share of
\* them are retries (client.py:536-545, ingest_job_handler.py:133-139).
BatchBound == Cardinality(inflight) + Len(toFetch) <= BatchSize

\* The handler reports a job under the file it was read from, as long as every file before
\* it could be read: zip pairs the jobs that exist with all the files of the batch
\* (ingest_job_handler.py:164).
NamedByItsFile ==
  \A j \in Jobs : (\A f \in config.unreadable : f > j) => nameOf[j] = j

\* A job whose result is among the results was decoded in full and has left _job_states: a
\* later run over the same client cannot fetch it again (client.py:1121-1125).
ResultsAreForgotten == \A j \in Jobs : results[j] = 1 => j \notin tracked /\ server[j] = "taken"

\* The combined future of ingest_async is set only when the callback of every submission
\* has recorded its job as ended (interface.py:698-712).
ResolvedAfterAll == combined = "resolved" => \A j \in Jobs : jobState[j] \in Terminal

\* What the client keeps about its jobs agrees with what became of them: the batch in flight
\* is bounded, what was decoded is forgotten, the combined future is set after the last
\* callback, and a job is reported under its file as long as the files before it were read.
RecordsAgree == BatchBound /\ ResultsAreForgotten /\ ResolvedAfterAll /\ NamedByItsFile

\* Every way of driving the jobs comes to its end.  run() returns or raises: a job that is
\* not ready is fetched again until it is, given up after max_job_retries, or failed with its
\* group (client.py:536-641).  The combined future of ingest_async is set, unless a job
\* failed in the client (interface.py:698-712).
DriversEnd ==
  <>IF config.driver = "async"
      THEN combined = "resolved" \/ \E j \in Jobs : jobState[j] = "FAILED"
      ELSE pc \in {"returned", "raised"}

\* ingest_async promises "A future that completes when all submitted jobs have reached a
\* terminal state" (interface.py:684-685).
AsyncCompletes ==
  (config.driver = "async" /\ \A j \in Jobs : jobState[j] \in Terminal) ~> combined = "resolved"
===============================================================================
