----------------------------- MODULE ResultService -----------------------------
(***************************************************************************)
(* From a submitted document to the answer of a fetch request, over Redis: *)
(* the submit handlers of the REST API (v1, and v2 with its splitting),    *)
(* the job states and the parent mapping kept by RedisIngestService, the   *)
(* fragments that the sinks of the pipeline push, and the fetch handlers   *)
(* with the fetch threads of RedisClient under them.                       *)
(*                                                                         *)
(* Job <<d, 0>> is document d itself; a long PDF (kind "split") and an     *)
(* audio or video file ("media") become the subjobs <<d, 1>>, ...,         *)
(* <<d, Chunks>>.  A message of a result channel is its fragment index;    *)
(* the failure report of a sink carries none.                              *)
(***************************************************************************)
EXTENDS Integers, FiniteSets, Sequences

CONSTANTS
  Docs,         \* documents submitted
  Chunks,       \* subjobs of a split document
  Workers,      \* pipeline replicas at work at the same time
  Requests,     \* fetch requests open at the same time
  Askers,       \* bound: those that ask for a document of each kind
  Modes,        \* FETCH_MODE values considered
  Kinds,        \* document kinds considered
  Sizes,        \* fragment counts considered, [Jobs -> 1..MaxFragments]
  MaxFragments,
  MaxFaults,    \* bound: Redis errors in a behaviour, none together with an expired key
  MayExpire,    \* whether keys reach their TTL
  NoFragment, NoJob, NoDoc

ModeValues == {"DESTRUCTIVE", "NON_DESTRUCTIVE"}
KindValues == {"plain", "pdf", "split", "media"}
Jobs       == Docs \X (0..Chunks)
Parent(d)  == <<d, 0>>
Subjobs(d) == {d} \X (1..Chunks)
Messages   == (0..MaxFragments - 1) \union {NoFragment}

ASSUME ResultAssumption ==
  /\ Chunks \in Nat \ {0}
  /\ MaxFragments \in Nat \ {0}
  /\ MaxFaults \in Nat
  /\ Sizes \subseteq [Jobs -> 1..MaxFragments]
  /\ Modes \subseteq ModeValues
  /\ Kinds \subseteq KindValues
  /\ Askers \in [KindValues -> SUBSET Requests]
  /\ IsFiniteSet(Requests)
  /\ MayExpire \in BOOLEAN
  /\ NoFragment \notin 0..MaxFragments - 1
  /\ NoJob \notin Jobs
  /\ NoDoc \notin Docs

VARIABLES
  mode,      \* the configured fetch mode
  kind,      \* what the submit handler makes of each document
  size,      \* fragments of each job's result
  submit,    \* where the submit handler of each document is
  todo,      \* jobs it has still to submit in this round
  tasks,     \* task messages of each job in the Redis task queues
  channel,   \* the Redis list of each job's result
  jobState,  \* the key job_state:<id>
  mapping,   \* which of the two keys parent:<id>:... exist
  worker,    \* pipeline replicas with a task, up to their sink
  fetch,     \* fetch thread of each request and job
  request,   \* fetch requests
  faults,    \* Redis errors so far
  expired,   \* history: a key has reached its TTL
  copies,    \* history: copies of each result pushed
  handed,    \* history: copies handed out; in the shared mode, whether one was
  lapsed,    \* history: copies that went with an expired channel
  unsent,    \* history: jobs some sink sent neither a result nor a report of
  served     \* history: documents some request answered with 200

inputVars  == <<mode, kind, size>>
submitVars == <<submit, todo, tasks>>
storeVars  == <<channel, jobState, mapping>>
restHistory == <<handed, lapsed, unsent, served>>
history    == <<copies, restHistory>>
vars == <<inputVars, submitVars, storeVars, worker, fetch, request, faults, expired, history>>

Intermediate == {"SUBMITTED", "PROCESSING"}
States       == Intermediate \union {"none", "FAILED", "RETRIEVED_DESTRUCTIVE", "RETRIEVED_NON_DESTRUCTIVE"}

Idle    == [step |-> "idle", job |-> NoJob, at |-> 0, attempt |-> 0]
NoFetch == [step |-> "off", got |-> <<>>, polled |-> FALSE]
Fresh   == [NoFetch EXCEPT !.step = "first"]
Unasked == [step |-> "idle", doc |-> NoDoc, seen |-> "none", via |-> "plain",
            after |-> FALSE, answer |-> 0, whole |-> TRUE, missing |-> FALSE]

\* A long PDF and an audio or video file are split.
IsSplit(d) == kind[d] \in {"split", "media"}
JobsOf(d)  == IF IsSplit(d) THEN Subjobs(d) ELSE {Parent(d)}

Init ==
  /\ mode \in Modes
  /\ kind \in [Docs -> Kinds]
  /\ size \in Sizes
  /\ submit = [d \in Docs |-> "first"]
  /\ todo = [d \in Docs |-> JobsOf(d)]
  /\ tasks = [j \in Jobs |-> 0]
  /\ channel = [j \in Jobs |-> <<>>]
  /\ jobState = [j \in Jobs |-> "none"]
  /\ mapping = [d \in Docs |-> {}]
  /\ worker = [w \in Workers |-> Idle]
  /\ fetch = [r \in Requests |-> [j \in Jobs |-> NoFetch]]
  /\ request = [r \in Requests |-> Unasked]
  /\ faults = 0
  /\ expired = FALSE
  /\ copies = [j \in Jobs |-> 0]
  /\ handed = [j \in Jobs |-> 0]
  /\ lapsed = [j \in Jobs |-> 0]
  /\ unsent = {}
  /\ served = {}

\* A Redis error is met.
Fault == faults < MaxFaults /\ ~expired /\ faults' = faults + 1

-----------------------------------------------------------------------------
(* The submit handlers.  The items of a round are sent concurrently; a     *)
(* long PDF goes through two rounds of the same items.                     *)

\* submit_job of the service: one task message.
SubmitJob(d, j) ==
  /\ submit[d] \in {"first", "second"}
  /\ j \in todo[d]
  /\ tasks' = [tasks EXCEPT ![j] = @ + 1]
  /\ IF todo[d] # {j}
       THEN todo' = [todo EXCEPT ![d] = @ \ {j}] /\ UNCHANGED submit
       ELSE IF submit[d] = "first" /\ kind[d] = "split"
         THEN /\ submit' = [submit EXCEPT ![d] = "second"]
              /\ todo' = [todo EXCEPT ![d] = Subjobs(d)]
         ELSE /\ submit' = [submit EXCEPT ![d] = IF IsSplit(d) THEN "subjobs" ELSE "state"]
              /\ todo' = [todo EXCEPT ![d] = {}]
  /\ UNCHANGED <<inputVars, storeVars, worker, fetch, request, faults, expired, history>>

\* The push ends in an error, whether it took effect or not, and so does the
\* handler, with 500; the jobs it submitted stay submitted.
SubmitFails(d, j) ==
  /\ submit[d] \in {"first", "second"}
  /\ j \in todo[d]
  /\ Fault
  /\ tasks' \in {tasks, [tasks EXCEPT ![j] = @ + 1]}
  /\ submit' = [submit EXCEPT ![d] = "failed"]
  /\ todo' = [todo EXCEPT ![d] = {}]
  /\ UNCHANGED <<inputVars, storeVars, worker, fetch, request, expired, history>>

AfterState(d)   == IF kind[d] = "pdf" THEN "metadata" ELSE "done"
AfterMapping(d) == IF IsSplit(d) THEN "state" ELSE "done"

\* Mutant: the state is not recorded.
RecordSubmitted_Skips(d) ==
  /\ submit[d] = "state"
  /\ submit' = [submit EXCEPT ![d] = AfterState(d)]
  /\ UNCHANGED <<inputVars, todo, tasks, storeVars, worker, fetch, request, faults, expired, history>>

\* set_job_state(id, "SUBMITTED"); its errors are swallowed.
RecordSubmitted(d) ==
  /\ submit[d] = "state"
  /\ submit' = [submit EXCEPT ![d] = AfterState(d)]
  /\ \/ jobState' = [jobState EXCEPT ![Parent(d)] = "SUBMITTED"] /\ UNCHANGED faults
     \/ Fault /\ UNCHANGED jobState
  /\ UNCHANGED <<inputVars, todo, tasks, channel, mapping, worker, fetch, request, expired, history>>

\* set_parent_job_mapping: the set of subjobs, then the metadata.
StoreSubjobs(d) ==
  /\ submit[d] = "subjobs"
  /\ mapping' = [mapping EXCEPT ![d] = @ \union {"subjobs"}]
  /\ submit' = [submit EXCEPT ![d] = "metadata"]
  /\ UNCHANGED <<inputVars, todo, tasks, channel, jobState, worker, fetch, request, faults, expired, history>>

StoreMetadata(d) ==
  /\ submit[d] = "metadata"
  /\ kind[d] # "split"
  /\ mapping' = [mapping EXCEPT ![d] = @ \union {"metadata"}]
  /\ submit' = [submit EXCEPT ![d] = AfterMapping(d)]
  /\ UNCHANGED <<inputVars, todo, tasks, channel, jobState, worker, fetch, request, faults, expired, history>>

\* The metadata of a long PDF has no document type: the Redis client refuses it, and
\* the handler ends with 500 after it has queued every subjob twice.
MetadataRefused(d) ==
  /\ submit[d] = "metadata"
  /\ kind[d] = "split"
  /\ submit' = [submit EXCEPT ![d] = "failed"]
  /\ UNCHANGED <<inputVars, todo, tasks, storeVars, worker, fetch, request, faults, expired, history>>

\* An error of either write ends the handler of a split document with 500; for a
\* PDF that is not split it is only logged.
MappingFails(d) ==
  /\ submit[d] \in {"subjobs", "metadata"}
  /\ Fault
  /\ submit' = [submit EXCEPT ![d] = IF IsSplit(d) THEN "failed" ELSE "done"]
  /\ UNCHANGED <<inputVars, todo, tasks, storeVars, worker, fetch, request, expired, history>>

-----------------------------------------------------------------------------
(* The pipeline: a replica takes a task and its sink pushes the fragments. *)

TakeTask(w) ==
  /\ worker[w] = Idle
  /\ \E j \in Jobs :
       /\ tasks[j] > 0
       /\ tasks' = [tasks EXCEPT ![j] = @ - 1]
       /\ worker' = [worker EXCEPT ![w] = [step |-> "push", job |-> j, at |-> 0, attempt |-> 1]]
  /\ UNCHANGED <<inputVars, submit, todo, storeVars, fetch, request, faults, expired, history>>

\* n copies of message m reach the channel of job j.
Push(j, m, n) ==
  /\ channel' = [channel EXCEPT ![j] = @ \o [i \in 1..n |-> m]]
  /\ copies' = [copies EXCEPT ![j] = IF m \in {0, NoFragment} THEN @ + n ELSE @]

\* Mutant: the loop runs one fragment too far.
PushFragment_OneMore(w) ==
  /\ worker[w].step = "push"
  /\ Push(worker[w].job, worker[w].at, 1)
  /\ worker' = [worker EXCEPT ![w] = IF @.at = size[@.job] THEN Idle ELSE [@ EXCEPT !.at = worker[w].at + 1]]
  /\ UNCHANGED <<inputVars, submitVars, jobState, mapping, fetch, request, faults, expired, restHistory>>

\* The sink does not come to its first push: a payload is over the limit, or the
\* payloads cannot be made.
SinkRefuses(w) ==
  /\ worker[w].step = "push" /\ worker[w].at = 0 /\ worker[w].attempt = 1
  /\ worker' = [worker EXCEPT ![w].step = "report"]
  /\ UNCHANGED <<inputVars, submitVars, storeVars, fetch, request, faults, expired, history>>

\* submit_message of one fragment; a push whose reply is lost is repeated.
PushFragment(w) ==
  /\ worker[w].step = "push"
  /\ \/ Push(worker[w].job, worker[w].at, 1) /\ UNCHANGED faults
     \/ Push(worker[w].job, worker[w].at, 2) /\ Fault
  /\ worker' = [worker EXCEPT ![w] =
                 IF @.at + 1 = size[@.job] THEN Idle ELSE [@ EXCEPT !.at = worker[w].at + 1]]
  /\ UNCHANGED <<inputVars, submitVars, jobState, mapping, fetch, request, expired, restHistory>>

\* submit_message gives up, whether a push took effect or not: the sink sends
\* everything once more, and after the second attempt a failure report.  The
\* error of the second attempt is the same outage.
PushFails(w) ==
  /\ worker[w].step = "push"
  /\ IF worker[w].attempt = 1 THEN Fault ELSE UNCHANGED faults
  /\ \E n \in 0..1 : Push(worker[w].job, worker[w].at, n)
  /\ worker' = [worker EXCEPT ![w] =
                 IF @.attempt = 1 THEN [@ EXCEPT !.at = 0, !.attempt = 2] ELSE [@ EXCEPT !.step = "report"]]
  /\ UNCHANGED <<inputVars, submitVars, jobState, mapping, fetch, request, expired, restHistory>>

\* _handle_failure, whose push may be repeated like the others.  When the report
\* cannot be made or pushed either, on_data raises and nothing is sent.
ReportFailure(w) ==
  /\ worker[w].step = "report"
  /\ \/ Push(worker[w].job, NoFragment, 1) /\ UNCHANGED <<faults, unsent>>
     \/ Push(worker[w].job, NoFragment, 2) /\ Fault /\ UNCHANGED unsent
     \/ unsent' = unsent \union {worker[w].job} /\ UNCHANGED <<channel, copies, faults>>
  /\ worker' = [worker EXCEPT ![w] = Idle]
  /\ UNCHANGED <<inputVars, submitVars, jobState, mapping, fetch, request, expired, handed, lapsed, served>>

-----------------------------------------------------------------------------
(* RedisClient.fetch_message in a thread of request r for job j.           *)

SetFetch(r, j, f) == fetch' = [fetch EXCEPT ![r][j] = f]

Ended(f)    == f.step \in {"off", "ok", "timeout", "error"}
Count(j, m) == IF m = NoFragment THEN 1 ELSE size[j]

FetchFrame == UNCHANGED <<inputVars, submitVars, jobState, mapping, worker, request, expired, history>>

\* Mutant: the first fragment is looked at and not popped.
PopFirst_Peeks(r, j) ==
  /\ mode = "DESTRUCTIVE"
  /\ fetch[r][j].step = "first"
  /\ channel[j] # <<>>
  /\ SetFetch(r, j, [step |-> "ok", got |-> <<Head(channel[j])>>, polled |-> FALSE])
  /\ FetchFrame /\ UNCHANGED <<channel, faults>>

\* BLPOP of the first fragment.
PopFirst(r, j) ==
  /\ mode = "DESTRUCTIVE"
  /\ fetch[r][j].step = "first"
  /\ channel[j] # <<>>
  /\ LET m == Head(channel[j]) IN
       SetFetch(r, j, [step   |-> IF Count(j, m) = 1 THEN "ok" ELSE IF m = 0 THEN "rest" ELSE "error",
                       got    |-> <<m>>,
                       polled |-> FALSE])
  /\ channel' = [channel EXCEPT ![j] = Tail(@)]
  /\ FetchFrame /\ UNCHANGED faults

\* BLPOP of a further one, whichever it is.
PopNext(r, j) ==
  /\ mode = "DESTRUCTIVE"
  /\ fetch[r][j].step = "rest"
  /\ channel[j] # <<>>
  /\ LET got == Append(fetch[r][j].got, Head(channel[j])) IN
       SetFetch(r, j, [step   |-> IF Len(got) = size[j] THEN "ok" ELSE "rest",
                       got    |-> got,
                       polled |-> FALSE])
  /\ channel' = [channel EXCEPT ![j] = Tail(@)]
  /\ FetchFrame /\ UNCHANGED faults

\* BLPOP times out; the fragments popped before are dropped.
PopTimesOut(r, j) ==
  /\ mode = "DESTRUCTIVE"
  /\ fetch[r][j].step \in {"first", "rest"}
  /\ channel[j] = <<>>
  /\ SetFetch(r, j, [fetch[r][j] EXCEPT !.step = "timeout"])
  /\ FetchFrame /\ UNCHANGED <<channel, faults>>

\* The entries LRANGE returns, once LLEN is large enough.
Prefix(j)    == {channel[j][i] : i \in 1..size[j]}
LongEnough(j) == Len(channel[j]) >= size[j]

\* A poll of the list: LINDEX 0 until fragment 0 is there, then LLEN and LRANGE.
PollFirst(r, j) ==
  /\ mode = "NON_DESTRUCTIVE"
  /\ fetch[r][j].step = "first"
  /\ IF channel[j] # <<>> /\ Head(channel[j]) = 0
       THEN SetFetch(r, j, [step   |-> IF size[j] = 1 THEN "ok" ELSE "rest",
                            got    |-> <<0>>,
                            polled |-> FALSE])
       ELSE SetFetch(r, j, [fetch[r][j] EXCEPT !.polled = TRUE])
  /\ FetchFrame /\ UNCHANGED <<channel, faults>>

\* Mutant: enough entries are taken for all fragments.
PollRest_ByLength(r, j) ==
  /\ mode = "NON_DESTRUCTIVE"
  /\ fetch[r][j].step = "rest"
  /\ SetFetch(r, j, IF LongEnough(j)
                      THEN [step |-> "ok", got |-> SubSeq(channel[j], 1, size[j]), polled |-> FALSE]
                      ELSE [fetch[r][j] EXCEPT !.polled = TRUE])
  /\ FetchFrame /\ UNCHANGED <<channel, faults>>

PollRest(r, j) ==
  /\ mode = "NON_DESTRUCTIVE"
  /\ fetch[r][j].step = "rest"
  /\ SetFetch(r, j,
       IF ~LongEnough(j)              THEN [fetch[r][j] EXCEPT !.polled = TRUE]
       ELSE IF NoFragment \in Prefix(j) THEN [fetch[r][j] EXCEPT !.step = "error"]
       ELSE IF Prefix(j) = 0..size[j] - 1
         THEN [step |-> "ok", got |-> [i \in 1..size[j] |-> i - 1], polled |-> FALSE]
         ELSE [fetch[r][j] EXCEPT !.polled = TRUE])
  /\ FetchFrame /\ UNCHANGED <<channel, faults>>

\* The total time is up when a poll that found too little is over.
PollTimesOut(r, j) ==
  /\ mode = "NON_DESTRUCTIVE"
  /\ fetch[r][j].step \in {"first", "rest"}
  /\ fetch[r][j].polled
  /\ SetFetch(r, j, [fetch[r][j] EXCEPT !.step = "timeout"])
  /\ FetchFrame /\ UNCHANGED <<channel, faults>>

\* A Redis error, after a pop or before it.  fetch_message starts over, or
\* gives up with ValueError or, when it cannot reconnect, RuntimeError.
FetchFails(r, j) ==
  /\ fetch[r][j].step \in {"first", "rest"}
  /\ Fault
  /\ \/ UNCHANGED channel
     \/ /\ mode = "DESTRUCTIVE" /\ channel[j] # <<>>
        /\ channel' = [channel EXCEPT ![j] = Tail(@)]
  /\ \E f \in {Fresh, [fetch[r][j] EXCEPT !.step = "error"]} : SetFetch(r, j, f)
  /\ FetchFrame

FetchStep(r, j) == PopFirst(r, j) \/ PopNext(r, j) \/ PopTimesOut(r, j)
                   \/ PollFirst(r, j) \/ PollRest(r, j) \/ PollTimesOut(r, j)

-----------------------------------------------------------------------------
(* The fetch handlers.  Requests are repeated: a client polls.             *)

Handling(r, rec) == request' = [request EXCEPT ![r] = rec]
Answer(r, code)  == Handling(r, [request[r] EXCEPT !.step = "idle", !.answer = code])
Forget(r)        == fetch' = [fetch EXCEPT ![r] = [j \in Jobs |-> NoFetch]]
Open(r, js)      == fetch' = [fetch EXCEPT ![r] = [j \in Jobs |-> IF j \in js THEN Fresh ELSE NoFetch]]

HandlerFrame == UNCHANGED <<inputVars, submitVars, channel, mapping, worker, expired, copies, lapsed, unsent>>

\* A client asks for a document whose submission was answered with its id.
Ask(r) ==
  /\ request[r].step = "idle"
  /\ \E d \in Docs :
       /\ submit[d] = "done" /\ r \in Askers[kind[d]]
       /\ Handling(r, [Unasked EXCEPT !.step = IF kind[d] = "plain" THEN "state" ELSE "info",
                                      !.doc = d, !.after = d \in served])
  /\ HandlerFrame /\ UNCHANGED <<jobState, fetch, faults, handed, served>>

\* get_parent_job_info: without metadata, or after an error, the document is
\* no parent; a parent without subjobs is a PDF that was not split.
ReadInfo(r) ==
  /\ request[r].step = "info"
  /\ LET d == request[r].doc IN
       \/ /\ "metadata" \notin mapping[d]
          /\ Handling(r, [request[r] EXCEPT !.step = "state"])
          /\ UNCHANGED <<fetch, faults>>
       \/ /\ Fault
          /\ Handling(r, [request[r] EXCEPT !.step = "state"])
          /\ UNCHANGED fetch
       \/ /\ mapping[d] = {"metadata"}
          /\ Handling(r, [request[r] EXCEPT !.step = "fetch", !.via = "pdf"])
          /\ Open(r, {Parent(d)})
          /\ UNCHANGED faults
       \/ /\ mapping[d] = {"subjobs", "metadata"}
          /\ Handling(r, [request[r] EXCEPT !.step = "subjobs", !.via = "parent"])
          /\ UNCHANGED <<fetch, faults>>
  /\ HandlerFrame /\ UNCHANGED <<jobState, handed, served>>

\* The state decides: unknown, failed or taken away, or worth a fetch.
Refused(s) == s \in {"none", "FAILED", "RETRIEVED_DESTRUCTIVE"}
Refusal(s) == [none |-> 404, FAILED |-> 503, RETRIEVED_DESTRUCTIVE |-> 410][s]

\* get_job_state; an error reads like a missing key.
ReadState(r) ==
  /\ request[r].step = "state"
  /\ LET d == request[r].doc IN
     \E s \in {jobState[Parent(d)], "none"} :
       /\ \/ s = jobState[Parent(d)] /\ UNCHANGED faults
          \/ s = "none" /\ Fault
       /\ IF Refused(s)
            THEN Answer(r, Refusal(s)) /\ UNCHANGED fetch
            ELSE /\ Handling(r, [request[r] EXCEPT !.step = "fetch", !.seen = s])
                 /\ Open(r, {Parent(d)})
  /\ HandlerFrame /\ UNCHANGED <<jobState, handed, served>>

\* _check_all_subjob_states, and the fetch threads of _fetch_all_subjob_results.
ReadSubjobStates(r) ==
  /\ request[r].step = "subjobs"
  /\ LET d == request[r].doc
         failed == {j \in Subjobs(d) : jobState[j] = "FAILED"} IN
       IF \E j \in Subjobs(d) : jobState[j] \in Intermediate
         THEN Answer(r, 202) /\ UNCHANGED fetch
         ELSE /\ Handling(r, [request[r] EXCEPT !.step = "fetch", !.missing = failed # {}])
              /\ Open(r, Subjobs(d) \ failed)
  /\ HandlerFrame /\ UNCHANGED <<jobState, faults, handed, served>>

With(r, step) == {j \in Jobs : fetch[r][j].step = step}
Gathered(r)   == request[r].step = "fetch" /\ \A j \in Jobs : Ended(fetch[r][j])

\* One thread timed out: what the others have got is dropped.
NotReady(r) ==
  /\ Gathered(r)
  /\ With(r, "timeout") # {}
  /\ Answer(r, IF request[r].seen = "RETRIEVED_NON_DESTRUCTIVE" THEN 410 ELSE 202)
  /\ Forget(r)
  /\ HandlerFrame /\ UNCHANGED <<jobState, faults, handed, served>>

\* A single job's fetch failed.
FetchError(r) ==
  /\ Gathered(r)
  /\ With(r, "timeout") = {} /\ With(r, "error") # {}
  /\ request[r].via # "parent"
  /\ Answer(r, 500)
  /\ Forget(r)
  /\ HandlerFrame /\ UNCHANGED <<jobState, faults, handed, served>>

\* Every fragment once, or the report of a failure.
WholeResult(j, got) ==
  \/ Len(got) = size[j] /\ {got[i] : i \in DOMAIN got} = 0..size[j] - 1
  \/ got = <<NoFragment>>

\* The state written after a fetch.
Retrieved == [DESTRUCTIVE     |-> "RETRIEVED_DESTRUCTIVE",
              NON_DESTRUCTIVE |-> "RETRIEVED_NON_DESTRUCTIVE"][mode]

\* Mutant: the state is not written.
Deliver_NoState(r) ==
  /\ Gathered(r)
  /\ With(r, "timeout") = {}
  /\ With(r, "error") = {} \/ request[r].via = "parent"
  /\ Handling(r, [request[r] EXCEPT !.step = "idle", !.answer = 200])
  /\ handed' = [j \in Jobs |-> IF j \in With(r, "ok") THEN handed[j] + 1 ELSE handed[j]]
  /\ served' = served \union {request[r].doc}
  /\ Forget(r)
  /\ HandlerFrame /\ UNCHANGED <<jobState, faults>>

\* The state is written, its errors are swallowed, and the results leave
\* with 200; subjobs whose fetch failed are only listed.
Deliver(r) ==
  /\ Gathered(r)
  /\ With(r, "timeout") = {}
  /\ With(r, "error") = {} \/ request[r].via = "parent"
  /\ LET d == request[r].doc
         good == With(r, "ok") IN
       /\ \/ jobState' = [jobState EXCEPT ![Parent(d)] = Retrieved] /\ UNCHANGED faults
          \/ Fault /\ UNCHANGED jobState
       /\ Handling(r, [request[r] EXCEPT
                         !.step = "idle", !.answer = 200,
                         !.whole = \A j \in good : WholeResult(j, fetch[r][j].got),
                         !.missing = request[r].missing \/ With(r, "error") # {}])
       /\ handed' = [j \in Jobs |-> IF j \notin good THEN handed[j]
                                    ELSE IF mode = "DESTRUCTIVE" THEN handed[j] + 1 ELSE 1]
       /\ served' = served \union {d}
  /\ Forget(r)
  /\ HandlerFrame

-----------------------------------------------------------------------------
(* Keys reach their TTL.  A push renews the TTL of the whole list, and a   *)
(* result channel, whose TTL the sink leaves at its client's ten minutes,  *)
(* lapses with all that is in it, whoever has still to read it.            *)
(* The other keys last an hour or two: the submit handlers have returned   *)
(* by then, and no sink is in the middle of its pushes, with which their   *)
(* expiry commutes.                                                        *)

Expire ==
  /\ MayExpire /\ faults = 0 /\ expired' = TRUE
  /\ UNCHANGED <<inputVars, submit, todo, worker, fetch, request, faults, copies, handed, unsent, served>>

ExpireChannel(j) ==
  /\ channel[j] # <<>>
  /\ \A w \in Workers : worker[w].job = j => worker[w].at = 0
  /\ channel' = [channel EXCEPT ![j] = <<>>]
  /\ lapsed' = [lapsed EXCEPT ![j] = @ + Len(channel[j])]
  /\ Expire /\ UNCHANGED <<tasks, jobState, mapping>>

ExpireLate ==
  /\ \A d \in Docs : submit[d] \in {"done", "failed"}
  /\ \A w \in Workers : worker[w] = Idle
  /\ Expire /\ UNCHANGED <<channel, lapsed>>

ExpireTasks ==
  /\ \E j \in Jobs : tasks[j] > 0
  /\ tasks' = [j \in Jobs |-> 0]
  /\ ExpireLate /\ UNCHANGED <<jobState, mapping>>

ExpireState(d) ==
  /\ jobState[Parent(d)] # "none"
  /\ jobState' = [jobState EXCEPT ![Parent(d)] = "none"]
  /\ ExpireLate /\ UNCHANGED <<tasks, mapping>>

\* The set of subjobs first: its TTL is set first.
ExpireMapping(d) ==
  /\ mapping[d] # {}
  /\ mapping' = [mapping EXCEPT ![d] = @ \ {IF "subjobs" \in @ THEN "subjobs" ELSE "metadata"}]
  /\ ExpireLate /\ UNCHANGED <<tasks, jobState>>

-----------------------------------------------------------------------------
SubmitNext(d) == \/ \E j \in Jobs : SubmitJob(d, j) \/ SubmitFails(d, j)
                 \/ RecordSubmitted(d) \/ StoreSubjobs(d) \/ StoreMetadata(d)
                 \/ MetadataRefused(d) \/ MappingFails(d)

WorkerNext(w) == TakeTask(w) \/ SinkRefuses(w) \/ PushFragment(w) \/ PushFails(w) \/ ReportFailure(w)

HandlerNext(r) == \/ Ask(r) \/ ReadInfo(r) \/ ReadState(r) \/ ReadSubjobStates(r)
                  \/ NotReady(r) \/ FetchError(r) \/ Deliver(r)

RequestNext(r) == HandlerNext(r) \/ \E j \in Jobs : FetchStep(r, j) \/ FetchFails(r, j)

Next ==
  \/ \E d \in Docs : SubmitNext(d) \/ ExpireState(d) \/ ExpireMapping(d)
  \/ \E w \in Workers : WorkerNext(w)
  \/ \E r \in Requests : RequestNext(r)
  \/ \E j \in Jobs : ExpireChannel(j)
  \/ ExpireTasks

Spec == Init /\ [][Next]_vars

\* Pipeline replicas, handlers and threads are scheduled, and clients poll.
Fairness ==
  /\ \A d \in Docs : WF_vars(SubmitNext(d))
  /\ \A w \in Workers : WF_vars(WorkerNext(w))
  /\ \A r \in Requests : WF_vars(HandlerNext(r) \/ \E j \in Jobs : FetchStep(r, j))
FairSpec == Spec /\ Fairness

-----------------------------------------------------------------------------
(* Properties.                                                             *)

TypeOK ==
  /\ mode \in Modes /\ kind \in [Docs -> Kinds] /\ size \in Sizes
  /\ submit \in [Docs -> {"first", "second", "subjobs", "metadata", "state", "done", "failed"}]
  /\ todo \in [Docs -> SUBSET Jobs]
  /\ tasks \in [Jobs -> Nat]
  /\ channel \in [Jobs -> Seq(Messages)]
  /\ jobState \in [Jobs -> States]
  /\ mapping \in [Docs -> SUBSET {"subjobs", "metadata"}]
  /\ worker \in [Workers -> [step : {"idle", "push", "report"}, job : Jobs \union {NoJob},
                             at : 0..MaxFragments, attempt : 0..2]]
  /\ fetch \in [Requests -> [Jobs -> [step : {"off", "first", "rest", "ok", "timeout", "error"},
                                      got : Seq(Messages), polled : BOOLEAN]]]
  /\ request \in [Requests -> [step : {"idle", "info", "state", "subjobs", "fetch"},
                               doc : Docs \union {NoDoc}, seen : States,
                               via : {"plain", "pdf", "parent"}, after : BOOLEAN,
                               answer : {0, 200, 202, 404, 410, 500, 503},
                               whole : BOOLEAN, missing : BOOLEAN]]
  /\ faults \in 0..MaxFaults /\ expired \in BOOLEAN
  /\ {copies, handed, lapsed} \subseteq [Jobs -> Nat]
  /\ unsent \subseteq Jobs /\ served \subseteq Docs

Shared == mode = "NON_DESTRUCTIVE"
Quiet  == faults = 0 /\ ~expired

\* A result that no fetch will answer: nothing was sent, or the list begins with a
\* failure report, which readers that leave it in place poll past.
Unanswerable(j) == j \in unsent \/ (Shared /\ channel[j] # <<>> /\ Head(channel[j]) = NoFragment)

Answered(r) == request[r].step = "idle" /\ request[r].doc # NoDoc

\* In the mode that leaves results in place, an answer 200 carries every
\* fragment of every job it covers once, whatever the sinks repeated and
\* however pushes and polls interleave; without a Redis error no subjob of a
\* split document is missing from it, whatever a sink refused or a TTL removed.
WholeWhenShared ==
  Shared => \A r \in Requests :
              request[r].answer = 200 => request[r].whole /\ (faults = 0 => ~request[r].missing)

\* Once some request was answered with the result of a document, every later
\* request for it is, until the first key expires (the result's own channel
\* after ten minutes) and as long as Redis does not fail.
StaysReadable ==
  Shared /\ Quiet => \A r \in Requests :
                       Answered(r) /\ request[r].after => request[r].answer = 200

\* In the mode that removes results, a request that begins after the result
\* was answered learns that it is gone, and not that it should come back.
GoneOnceTaken ==
  ~Shared /\ Quiet => \A r \in Requests :
      Answered(r) /\ request[r].after /\ kind[request[r].doc] = "plain" => request[r].answer = 410

\* The copies of a result of one fragment, or the reports in its place, are in the
\* channel, in the hands of a request, answered, or gone with the channel's TTL.
Kept(j) ==
  size[j] = 1 =>
    copies[j] = Len(channel[j]) + Cardinality({r \in Requests : fetch[r][j].step = "ok"})
                  + handed[j] + lapsed[j]

\* Without Redis errors no fetch of a document that is not split loses its result,
\* however many requests compete for it: only the TTL of the channel takes one away
\* that was not answered.
NothingLost ==
  ~Shared /\ faults = 0 => \A j \in Jobs : ~IsSplit(j[1]) => Kept(j)

\* What a fetch answers agrees with what was answered before, and with what was
\* stored and has not lapsed.
AnswersAgree == StaysReadable /\ GoneOnceTaken /\ NothingLost

\* The same for split documents, whose requests answer 202, "Job is processing
\* or result not yet available. Retry later.": the code breaks it for audio and
\* video files, the split documents whose submission succeeds.
RetryLaterKeepsResults ==
  ~Shared /\ faults = 0 => \A j \in Jobs : Kept(j)

\* The store implements its contract, Redis errors and expiry included: what
\* is handed out was published, and what is removed is handed out once.
Contract == INSTANCE ResultContract WITH shared <- Shared
ImplementsContract == Contract!Spec

\* A document whose submission was answered is eventually answered with its
\* result, or, where reading removes it, with the failure report, unless a Redis
\* error or an expired key is in the way, or a sink left one of its jobs without
\* anything that a fetch could answer.
ResultArrives ==
  \A d \in Docs :
    submit[d] = "done" /\ (\A j \in Jobs : size[j] = 1) /\ (Shared \/ ~IsSplit(d))
      ~> d \in served \/ ~Quiet \/ \E j \in JobsOf(d) : Unanswerable(j)
===============================================================================
