-------------------------- MODULE ResultServiceProofs --------------------------
(***************************************************************************)
(* Proofs about ResultService, for any documents, subjobs, replicas,       *)
(* requests, fragment counts, Redis errors and expiries: type correctness, *)
(* WholeWhenShared, AnswersAgree, and that the store implements            *)
(* ResultContract.                                                         *)
(*                                                                         *)
(* The inductive invariant is a conjunction of named parts, each preserved *)
(* with the help of those before it: Types; Routes (where each handler is, *)
(* and what its request may fetch); Clean (before the first Redis error a  *)
(* job submitted once runs once, and a failure report stands alone);       *)
(* SharedReads (what a fetch thread has found is whole, and still there    *)
(* until the first expiry); Stored (which keys the submit handler has      *)
(* written); Again, Gone and Keeping (the three parts of AnswersAgree);    *)
(* Published (a result is counted where it is).                            *)
(***************************************************************************)
EXTENDS ResultService, FiniteSetTheorems, TLAPS

-----------------------------------------------------------------------------
(* Type correctness. *)

\* What a channel of job j may hold.
Fragment(j) == (0..size[j] - 1) \union {NoFragment}

InputTypes ==
  /\ mode \in Modes /\ kind \in [Docs -> Kinds] /\ size \in Sizes

SubmitTypes ==
  /\ submit \in [Docs -> {"first", "second", "subjobs", "metadata", "state", "done", "failed"}]
  /\ todo \in [Docs -> SUBSET Jobs]
  /\ tasks \in [Jobs -> Nat]

StoreTypes ==
  /\ channel \in [Jobs -> Seq(Messages)]
  /\ \A j \in Jobs : channel[j] \in Seq(Fragment(j))
  /\ jobState \in [Jobs -> States]
  /\ mapping \in [Docs -> SUBSET {"subjobs", "metadata"}]

\* A replica that is not idle is at a fragment of its job's result.
AtWork == [step : {"push", "report"}, job : Jobs, at : 0..MaxFragments, attempt : 1..2]
WorkerTypes ==
  /\ worker \in [Workers -> {Idle} \union AtWork]
  /\ \A w \in Workers : worker[w] \in AtWork => worker[w].at < size[worker[w].job]

FetchStates == [step : {"off", "first", "rest", "ok", "timeout", "error"},
                got : Seq(Messages), polled : BOOLEAN]
FetchTypes == fetch \in [Requests -> [Jobs -> FetchStates]]

Steps   == {"idle", "info", "state", "subjobs", "fetch"}
Answers == {0, 200, 202, 404, 410, 500, 503}
RequestStates == [step : Steps,
                  doc : Docs \union {NoDoc}, seen : States,
                  via : {"plain", "pdf", "parent"}, after : BOOLEAN,
                  answer : Answers,
                  whole : BOOLEAN, missing : BOOLEAN]
\* A handler at work has a document.
RequestTypes ==
  /\ request \in [Requests -> RequestStates]
  /\ \A r \in Requests : request[r].step # "idle" => request[r].doc \in Docs

HistoryTypes ==
  /\ faults \in 0..MaxFaults /\ expired \in BOOLEAN
  /\ copies \in [Jobs -> Nat] /\ handed \in [Jobs -> Nat] /\ lapsed \in [Jobs -> Nat]
  /\ unsent \subseteq Jobs /\ served \subseteq Docs

Types == /\ InputTypes /\ SubmitTypes /\ StoreTypes /\ WorkerTypes
         /\ FetchTypes /\ RequestTypes /\ HistoryTypes

\* A key reaches its TTL.
Expiry == \/ \E d \in Docs : ExpireState(d) \/ ExpireMapping(d)
          \/ ExpireTasks
          \/ \E j \in Jobs : ExpireChannel(j)

LEMMA NextCases ==
  Next => \/ \E d \in Docs : SubmitNext(d)
          \/ \E w \in Workers : WorkerNext(w)
          \/ \E r \in Requests : HandlerNext(r) \/ \E j \in Jobs : FetchStep(r, j) \/ FetchFails(r, j)
          \/ Expiry
BY DEF Next, RequestNext, Expiry

LEMMA Constants ==
  /\ Chunks \in Nat \ {0} /\ MaxFragments \in Nat \ {0} /\ MaxFaults \in Nat
  /\ \A d \in Docs : Parent(d) \in Jobs /\ Subjobs(d) \subseteq Jobs
  /\ NoFragment \notin 0..MaxFragments - 1 /\ NoJob \notin Jobs /\ NoDoc \notin Docs
BY ResultAssumption DEF Jobs, Parent, Subjobs

LEMMA InputFacts ==
  ASSUME InputTypes
  PROVE  /\ mode \in ModeValues /\ kind \in [Docs -> KindValues]
         /\ size \in [Jobs -> 1..MaxFragments]
         /\ \A j \in Jobs : Fragment(j) \subseteq Messages
         /\ \A j \in Jobs : NoFragment \in Fragment(j) /\ 0 \in Fragment(j)
<1>1. mode \in ModeValues /\ kind \in [Docs -> KindValues] /\ size \in [Jobs -> 1..MaxFragments]
  BY ResultAssumption DEF InputTypes
<1>2. ASSUME NEW j \in Jobs
      PROVE  Fragment(j) \subseteq Messages /\ NoFragment \in Fragment(j) /\ 0 \in Fragment(j)
  BY <1>1, Constants DEF Fragment, Messages
<1> QED
  BY <1>1, <1>2

LEMMA TypesImplyTypeOK == Types => TypeOK
<1> SUFFICES ASSUME Types PROVE TypeOK
  OBVIOUS
<1>1. worker \in [Workers -> [step : {"idle", "push", "report"}, job : Jobs \union {NoJob},
                              at : 0..MaxFragments, attempt : 0..2]]
  BY Constants DEF Types, WorkerTypes, AtWork, Idle
<1> QED
  BY <1>1 DEF Types, InputTypes, SubmitTypes, StoreTypes, FetchTypes, RequestTypes,
     HistoryTypes, TypeOK, FetchStates, RequestStates, Steps, Answers

LEMMA InitTypes == Init => Types
<1> SUFFICES ASSUME Init PROVE Types
  OBVIOUS
<1>1. InputTypes
  BY ResultAssumption DEF Init, InputTypes
<1>2. SubmitTypes
  <2>1. \A d \in Docs : JobsOf(d) \subseteq Jobs
    BY Constants DEF JobsOf
  <2> QED
    BY <2>1 DEF Init, SubmitTypes
<1>3. StoreTypes
  BY DEF Init, StoreTypes, States
<1>4. WorkerTypes
  <2>1. Idle \notin AtWork
    BY DEF Idle, AtWork
  <2> QED
    BY <2>1 DEF Init, WorkerTypes
<1>5. FetchTypes
  BY DEF Init, FetchTypes, NoFetch, FetchStates
<1>6. RequestTypes
  BY DEF Init, RequestTypes, Unasked, RequestStates, States, Steps, Answers
<1>7. HistoryTypes
  <2>1. faults \in 0..MaxFaults
    BY Constants DEF Init
  <2>2. /\ expired \in BOOLEAN /\ copies \in [Jobs -> Nat] /\ handed \in [Jobs -> Nat]
        /\ lapsed \in [Jobs -> Nat] /\ unsent \subseteq Jobs /\ served \subseteq Docs
    BY DEF Init
  <2> QED
    BY <2>1, <2>2 DEF HistoryTypes
<1> QED
  BY <1>1, <1>2, <1>3, <1>4, <1>5, <1>6, <1>7 DEF Types

LEMMA FaultTypes ==
  ASSUME HistoryTypes, Fault \/ UNCHANGED faults
  PROVE  faults' \in 0..MaxFaults
BY Constants DEF HistoryTypes, Fault

LEMMA SubmitKeepsTypes ==
  ASSUME Types, NEW d \in Docs, SubmitNext(d)
  PROVE  Types'
<1>1. /\ InputTypes' /\ WorkerTypes' /\ FetchTypes' /\ RequestTypes'
      /\ Fault \/ UNCHANGED faults
      /\ UNCHANGED <<channel, expired, history, inputVars>>
  BY DEF Types, InputTypes, WorkerTypes, FetchTypes, RequestTypes, SubmitNext, SubmitJob, SubmitFails,
     RecordSubmitted, StoreSubjobs, StoreMetadata, MetadataRefused, MappingFails, inputVars, history, storeVars
<1>2. HistoryTypes'
  BY <1>1, FaultTypes DEF Types, HistoryTypes, history, restHistory
<1>3. SubmitTypes'
  <2>1. ASSUME NEW j \in Jobs, SubmitJob(d, j) \/ SubmitFails(d, j)
        PROVE  SubmitTypes'
    BY <2>1, Constants DEF Types, SubmitTypes, SubmitJob, SubmitFails
  <2>2. CASE RecordSubmitted(d) \/ StoreSubjobs(d) \/ StoreMetadata(d) \/ MetadataRefused(d) \/ MappingFails(d)
    BY <2>2 DEF Types, SubmitTypes, RecordSubmitted, StoreSubjobs, StoreMetadata, MetadataRefused, MappingFails,
       AfterState, AfterMapping
  <2> QED
    BY <2>1, <2>2 DEF SubmitNext
<1>4. StoreTypes'
  <2>1. jobState' \in [Jobs -> States]
    BY Constants DEF Types, StoreTypes, States, Intermediate, SubmitNext, SubmitJob, SubmitFails,
       RecordSubmitted, StoreSubjobs, StoreMetadata, MetadataRefused, MappingFails, storeVars
  <2>2. mapping' \in [Docs -> SUBSET {"subjobs", "metadata"}]
    <3>1. CASE UNCHANGED mapping
      BY <3>1 DEF Types, StoreTypes
    <3>2. CASE StoreSubjobs(d) \/ StoreMetadata(d)
      BY <3>2 DEF Types, StoreTypes, StoreSubjobs, StoreMetadata
    <3> QED
      BY <3>1, <3>2 DEF SubmitNext, SubmitJob, SubmitFails, RecordSubmitted, MetadataRefused, MappingFails, storeVars
  <2> QED
    BY <1>1, <2>1, <2>2 DEF Types, StoreTypes, Fragment, inputVars
<1> QED
  BY <1>1, <1>2, <1>3, <1>4 DEF Types

\* A push adds to one channel.
LEMMA PushTypes ==
  ASSUME Types, NEW j \in Jobs, NEW m \in Fragment(j), NEW n \in 0..2, Push(j, m, n), UNCHANGED inputVars
  PROVE  /\ channel' \in [Jobs -> Seq(Messages)]
         /\ \A k \in Jobs : channel'[k] \in Seq(Fragment(k))
         /\ copies' \in [Jobs -> Nat]
<1>1. \A k \in Jobs : Fragment(k) \subseteq Messages
  BY InputFacts DEF Types
<1>2. [i \in 1..n |-> m] \in Seq(Fragment(j))
  OBVIOUS
<1> HIDE DEF Fragment, Messages
<1>3. channel[j] \o [i \in 1..n |-> m] \in Seq(Fragment(j))
  BY <1>2 DEF Types, StoreTypes
<1>4. channel[j] \o [i \in 1..n |-> m] \in Seq(Messages)
  BY <1>1, <1>3
<1> QED
  BY <1>3, <1>4 DEF Push, Types, StoreTypes, HistoryTypes

LEMMA AtWorkTypes ==
  ASSUME NEW v \in AtWork, NEW n \in 0..MaxFragments
  PROVE  /\ [v EXCEPT !.at = n] \in AtWork
         /\ [v EXCEPT !.at = n].at = n /\ [v EXCEPT !.at = n].job = v.job
         /\ [v EXCEPT !.at = 0, !.attempt = 2] \in AtWork
         /\ [v EXCEPT !.at = 0, !.attempt = 2].at = 0 /\ [v EXCEPT !.at = 0, !.attempt = 2].job = v.job
         /\ [v EXCEPT !.step = "report"] \in AtWork
         /\ [v EXCEPT !.step = "report"].at = v.at /\ [v EXCEPT !.step = "report"].job = v.job
<1>1. /\ [v EXCEPT !.at = n] \in AtWork
      /\ [v EXCEPT !.at = n].at = n /\ [v EXCEPT !.at = n].job = v.job
  BY DEF AtWork
<1>2. 0 \in 0..MaxFragments /\ 2 \in 1..2
  BY Constants
<1>3. /\ [v EXCEPT !.at = 0, !.attempt = 2] \in AtWork
      /\ [v EXCEPT !.at = 0, !.attempt = 2].at = 0 /\ [v EXCEPT !.at = 0, !.attempt = 2].job = v.job
  BY <1>2 DEF AtWork
<1>4. /\ [v EXCEPT !.step = "report"] \in AtWork
      /\ [v EXCEPT !.step = "report"].at = v.at /\ [v EXCEPT !.step = "report"].job = v.job
  BY DEF AtWork
<1> QED
  BY <1>1, <1>3, <1>4

\* A replica with a task goes on with it or is done with it.
LEMMA TurnTypes ==
  ASSUME WorkerTypes, InputTypes, NEW w \in Workers, worker[w] \in AtWork, UNCHANGED inputVars,
         SinkRefuses(w) \/ PushFragment(w) \/ PushFails(w) \/ ReportFailure(w)
  PROVE  WorkerTypes'
<1> DEFINE v == worker[w]
<1>1. /\ v \in AtWork /\ v.job \in Jobs /\ v.at \in 0..MaxFragments /\ v.at < size[v.job]
      /\ size[v.job] \in 1..MaxFragments
  BY InputFacts DEF WorkerTypes, AtWork
<1>2. SUFFICES ASSUME NEW f, f = Idle \/ (f \in AtWork /\ f.at < size[f.job]),
                      worker' = [worker EXCEPT ![w] = f]
               PROVE  WorkerTypes'
  <2>1. CASE PushFragment(w)
    <3>1. CASE v.at + 1 = size[v.job]
      BY <1>2, <2>1, <3>1 DEF PushFragment
    <3>2. CASE v.at + 1 # size[v.job]
      <4>1. v.at + 1 \in 0..MaxFragments /\ v.at + 1 < size[v.job]
        BY <1>1, <3>2, Constants
      <4>2. worker' = [worker EXCEPT ![w] = IF v.at + 1 = size[v.job] THEN Idle
                                            ELSE [v EXCEPT !.at = v.at + 1]]
        BY <2>1 DEF PushFragment
      <4>3. worker' = [worker EXCEPT ![w] = [v EXCEPT !.at = v.at + 1]]
        BY <3>2, <4>2
      <4> HIDE DEF v
      <4> QED
        BY <1>1, <1>2, <4>1, <4>3, AtWorkTypes
    <3> QED
      BY <3>1, <3>2
  <2>2. CASE PushFails(w)
    <3>1. CASE v.attempt = 1
      <4>1. worker' = [worker EXCEPT ![w] = [v EXCEPT !.at = 0, !.attempt = 2]]
        BY <2>2, <3>1 DEF PushFails
      <4> HIDE DEF v
      <4>2. 0 < size[v.job] /\ v.at \in 0..MaxFragments
        BY <1>1
      <4> QED
        BY <1>1, <1>2, <4>1, <4>2, AtWorkTypes
    <3>2. CASE v.attempt # 1
      <4>1. worker' = [worker EXCEPT ![w] = [v EXCEPT !.step = "report"]]
        BY <2>2, <3>2 DEF PushFails
      <4> HIDE DEF v
      <4> QED
        BY <1>1, <1>2, <4>1, AtWorkTypes
    <3> QED
      BY <3>1, <3>2
  <2>3. CASE ReportFailure(w)
    BY <1>2, <2>3 DEF ReportFailure
  <2>4. CASE SinkRefuses(w)
    <3>1. worker' = [worker EXCEPT ![w] = [v EXCEPT !.step = "report"]]
      BY <2>4 DEF SinkRefuses
    <3> HIDE DEF v
    <3> QED
      BY <1>1, <1>2, <3>1, AtWorkTypes
  <2> QED
    BY <2>1, <2>2, <2>3, <2>4
<1>3. worker \in [Workers -> {Idle} \union AtWork] /\ size' = size /\ Idle \notin AtWork
  BY DEF WorkerTypes, inputVars, Idle, AtWork
<1>4. worker' \in [Workers -> {Idle} \union AtWork]
  BY <1>2, <1>3
<1>5. \A x \in Workers : worker'[x] \in AtWork => worker'[x].at < size'[worker'[x].job]
  BY <1>2, <1>3 DEF WorkerTypes
<1> QED
  BY <1>4, <1>5 DEF WorkerTypes

LEMMA WorkerKeepsTypes ==
  ASSUME Types, NEW w \in Workers, WorkerNext(w)
  PROVE  Types'
<1>1. /\ InputTypes' /\ FetchTypes' /\ RequestTypes'
      /\ Fault \/ UNCHANGED faults
      /\ UNCHANGED <<inputVars, submit, todo, jobState, mapping, expired, handed, lapsed, served>>
      /\ unsent' \subseteq Jobs
  <2>1. ReportFailure(w) => worker[w].job \in Jobs
    BY DEF ReportFailure, Types, WorkerTypes, AtWork, Idle
  <2> QED
    BY <2>1 DEF Types, InputTypes, FetchTypes, RequestTypes, HistoryTypes, WorkerNext, TakeTask, SinkRefuses,
       PushFragment, PushFails, ReportFailure, inputVars, submitVars, storeVars, history, restHistory
<1>2. faults' \in 0..MaxFaults
  BY <1>1, FaultTypes DEF Types
<1>3. CASE TakeTask(w)
  <2>1. PICK j \in Jobs :
          /\ tasks[j] > 0
          /\ tasks' = [tasks EXCEPT ![j] = @ - 1]
          /\ worker' = [worker EXCEPT ![w] = [step |-> "push", job |-> j, at |-> 0, attempt |-> 1]]
    BY <1>3 DEF TakeTask
  <2>2. SubmitTypes'
    BY <1>1, <2>1 DEF Types, SubmitTypes
  <2>3. WorkerTypes'
    <3>1. [step |-> "push", job |-> j, at |-> 0, attempt |-> 1] \in AtWork /\ 0 < size[j]
      BY Constants, InputFacts DEF AtWork, Types
    <3> QED
      BY <1>1, <2>1, <3>1 DEF Types, WorkerTypes, inputVars
  <2> QED
    BY <1>1, <1>2, <1>3, <2>2, <2>3 DEF Types, StoreTypes, HistoryTypes, TakeTask, storeVars, history,
       restHistory, Fragment, inputVars
<1>4. CASE SinkRefuses(w) \/ PushFragment(w) \/ PushFails(w) \/ ReportFailure(w)
  <2> DEFINE j == worker[w].job
             at == worker[w].at
  <2>1. /\ worker[w] \in AtWork /\ j \in Jobs /\ at \in 0..MaxFragments /\ at < size[j]
        /\ size[j] \in 1..MaxFragments
    BY <1>4, InputFacts DEF Types, WorkerTypes, SinkRefuses, PushFragment, PushFails, ReportFailure, AtWork, Idle
  <2>2. at \in Fragment(j) /\ NoFragment \in Fragment(j)
    BY <2>1 DEF Fragment
  <2>3. ASSUME NEW m \in Fragment(j), NEW n \in 0..2, Push(j, m, n)
        PROVE  /\ channel' \in [Jobs -> Seq(Messages)]
               /\ \A k \in Jobs : channel'[k] \in Seq(Fragment(k))
               /\ copies' \in [Jobs -> Nat]
    BY <1>1, <2>1, <2>3, PushTypes
  <2>4. /\ channel' \in [Jobs -> Seq(Messages)]
        /\ \A k \in Jobs : channel'[k] \in Seq(Fragment(k))
        /\ copies' \in [Jobs -> Nat]
    <3>1. CASE UNCHANGED <<channel, copies>>
      BY <1>1, <3>1 DEF Types, StoreTypes, HistoryTypes, Fragment, inputVars
    <3>2. \/ UNCHANGED <<channel, copies>>
          \/ \E m \in Fragment(j), n \in 0..2 : Push(j, m, n)
      BY <1>4, <2>2 DEF SinkRefuses, PushFragment, PushFails, ReportFailure, storeVars, history
    <3> HIDE DEF j
    <3> QED
      BY <2>3, <3>1, <3>2
  <2>5. StoreTypes' /\ HistoryTypes'
    BY <1>1, <1>2, <2>4 DEF Types, StoreTypes, HistoryTypes, Fragment, inputVars
  <2>6. SubmitTypes'
    BY <1>1, <1>4 DEF Types, SubmitTypes, SinkRefuses, PushFragment, PushFails, ReportFailure, submitVars
  <2>7. WorkerTypes'
    BY <1>1, <1>4, <2>1, TurnTypes DEF Types
  <2> QED
    BY <1>1, <2>5, <2>6, <2>7 DEF Types
<1> QED
  BY <1>3, <1>4 DEF WorkerNext

LEMMA FreshTypes ==
  NoFetch \in FetchStates /\ Fresh \in FetchStates
<1>1. NoFetch \in FetchStates
  BY DEF NoFetch, FetchStates
<1>2. \A f \in FetchStates : [f EXCEPT !.step = "first"] \in FetchStates
  BY DEF FetchStates
<1> QED
  BY <1>1, <1>2 DEF Fresh

\* A fetch step changes one fetch, and takes at most the head of its channel.
FetchChange(r, j, f) ==
  /\ SetFetch(r, j, f)
  /\ \/ UNCHANGED channel
     \/ mode = "DESTRUCTIVE" /\ channel[j] # <<>> /\ channel' = [channel EXCEPT ![j] = Tail(channel[j])]

LEMMA FetchStepChanges ==
  ASSUME Types, NEW r \in Requests, NEW j \in Jobs, FetchStep(r, j) \/ FetchFails(r, j)
  PROVE  /\ FetchFrame
         /\ Fault \/ UNCHANGED faults
         /\ UNCHANGED history
         /\ fetch[r][j].step \in {"first", "rest"}
         /\ \E f \in FetchStates : FetchChange(r, j, f)
<1>1. /\ fetch[r][j] \in FetchStates /\ size[j] \in 1..MaxFragments
      /\ channel[j] \in Seq(Messages)
  BY InputFacts DEF Types, FetchTypes, StoreTypes
<1>2. 0 \in Messages
  BY Constants DEF Messages
<1>3. FetchFrame => UNCHANGED history
  BY DEF FetchFrame
<1>4. channel[j] # <<>> => Head(channel[j]) \in Messages
  BY <1>1
<1> HIDE DEF Messages
<1>5. CASE PopFirst(r, j)
  <2> DEFINE f == [step   |-> IF Count(j, Head(channel[j])) = 1 THEN "ok"
                              ELSE IF Head(channel[j]) = 0 THEN "rest" ELSE "error",
                   got    |-> <<Head(channel[j])>>,
                   polled |-> FALSE]
  <2>1. f \in FetchStates
    BY <1>4, <1>5 DEF PopFirst, FetchStates
  <2>2. FetchChange(r, j, f)
    BY <1>5 DEF PopFirst, FetchChange
  <2> QED
    BY <1>3, <1>5, <2>1, <2>2 DEF PopFirst
<1>6. CASE PopNext(r, j)
  <2> DEFINE got == Append(fetch[r][j].got, Head(channel[j]))
             f == [step   |-> IF Len(got) = size[j] THEN "ok" ELSE "rest",
                   got    |-> got,
                   polled |-> FALSE]
  <2>1. f \in FetchStates
    BY <1>1, <1>4, <1>6 DEF PopNext, FetchStates
  <2>2. FetchChange(r, j, f)
    BY <1>6 DEF PopNext, FetchChange
  <2> QED
    BY <1>3, <1>6, <2>1, <2>2 DEF PopNext
<1>7. CASE PopTimesOut(r, j) \/ PollTimesOut(r, j)
  <2> DEFINE f == [fetch[r][j] EXCEPT !.step = "timeout"]
  <2>1. f \in FetchStates
    BY <1>1 DEF FetchStates
  <2>2. FetchChange(r, j, f)
    BY <1>7 DEF PopTimesOut, PollTimesOut, FetchChange
  <2> QED
    BY <1>3, <1>7, <2>1, <2>2 DEF PopTimesOut, PollTimesOut
<1>8. CASE PollFirst(r, j)
  <2> DEFINE f == IF channel[j] # <<>> /\ Head(channel[j]) = 0
                  THEN [step   |-> IF size[j] = 1 THEN "ok" ELSE "rest",
                        got    |-> <<0>>,
                        polled |-> FALSE]
                  ELSE [fetch[r][j] EXCEPT !.polled = TRUE]
  <2>1. f \in FetchStates
    <3>1. [fetch[r][j] EXCEPT !.polled = TRUE] \in FetchStates
      BY <1>1 DEF FetchStates
    <3>2. [step |-> IF size[j] = 1 THEN "ok" ELSE "rest", got |-> <<0>>, polled |-> FALSE] \in FetchStates
      <4>1. <<0>> \in Seq(Messages)
        BY <1>2
      <4> QED
        BY <4>1 DEF FetchStates
    <3> QED
      BY <3>1, <3>2
  <2>2. FetchChange(r, j, f)
    BY <1>8 DEF PollFirst, FetchChange
  <2> QED
    BY <1>3, <1>8, <2>1, <2>2 DEF PollFirst
<1>9. CASE PollRest(r, j)
  <2>1. \E f \in FetchStates : SetFetch(r, j, f)
    <3> DEFINE full == [step |-> "ok", got |-> [i \in 1..size[j] |-> i - 1], polled |-> FALSE]
    <3>1. full \in FetchStates
      <4>1. \A i \in 1..size[j] : i - 1 \in Messages
        BY <1>1, Constants DEF Messages
      <4>2. [i \in 1..size[j] |-> i - 1] \in Seq(Messages)
        BY <1>1, <4>1
      <4> QED
        BY <4>2 DEF FetchStates
    <3>2. /\ [fetch[r][j] EXCEPT !.polled = TRUE] \in FetchStates
          /\ [fetch[r][j] EXCEPT !.step = "error"] \in FetchStates
      BY <1>1 DEF FetchStates
    <3> HIDE DEF FetchStates
    <3>3. \/ SetFetch(r, j, full)
          \/ SetFetch(r, j, [fetch[r][j] EXCEPT !.polled = TRUE])
          \/ SetFetch(r, j, [fetch[r][j] EXCEPT !.step = "error"])
      BY <1>9 DEF PollRest
    <3> HIDE DEF full
    <3> QED
      BY <3>1, <3>2, <3>3
  <2> QED
    BY <1>3, <1>9, <2>1 DEF PollRest, FetchChange
<1>10. CASE FetchFails(r, j)
  <2>1. Fresh \in FetchStates
    BY FreshTypes
  <2>2. [fetch[r][j] EXCEPT !.step = "error"] \in FetchStates
    BY <1>1 DEF FetchStates
  <2>3. \E f \in FetchStates : FetchChange(r, j, f)
    BY <1>10, <2>1, <2>2 DEF FetchFails, FetchChange
  <2> QED
    BY <1>3, <1>10, <2>3 DEF FetchFails
<1> QED
  BY <1>5, <1>6, <1>7, <1>8, <1>9, <1>10 DEF FetchStep

LEMMA FetchKeepsTypes ==
  ASSUME Types, NEW r \in Requests, NEW j \in Jobs, FetchStep(r, j) \/ FetchFails(r, j)
  PROVE  Types'
<1>1. PICK f \in FetchStates : FetchChange(r, j, f)
  BY FetchStepChanges
<1>2. /\ FetchFrame
      /\ Fault \/ UNCHANGED faults
      /\ UNCHANGED history
  BY FetchStepChanges
<1>3. FetchTypes'
  BY <1>1 DEF FetchChange, SetFetch, Types, FetchTypes
<1>4. StoreTypes'
  <2>1. /\ channel' \in [Jobs -> Seq(Messages)]
        /\ \A k \in Jobs : channel'[k] \in Seq(Fragment(k))
    <3>1. channel[j] \in Seq(Fragment(j)) /\ channel[j] \in Seq(Messages)
      BY DEF Types, StoreTypes
    <3> HIDE DEF Fragment, Messages
    <3>2. channel[j] # <<>> => Tail(channel[j]) \in Seq(Fragment(j)) /\ Tail(channel[j]) \in Seq(Messages)
      BY <3>1
    <3> QED
      BY <1>1, <3>2 DEF FetchChange, Types, StoreTypes
  <2> QED
    BY <1>2, <2>1 DEF Types, StoreTypes, FetchFrame, Fragment, inputVars
<1>5. HistoryTypes'
  BY <1>2, FaultTypes DEF Types, HistoryTypes, FetchFrame, history, restHistory
<1>6. InputTypes' /\ SubmitTypes' /\ WorkerTypes' /\ RequestTypes'
  BY <1>2 DEF Types, InputTypes, SubmitTypes, WorkerTypes, RequestTypes, FetchFrame, inputVars, submitVars
<1> QED
  BY <1>3, <1>4, <1>5, <1>6 DEF Types

\* What the handlers write into a request.
LEMMA FieldUpdates ==
  ASSUME NEW q \in RequestStates
  PROVE  /\ \A s \in Steps : [q EXCEPT !.step = s] \in RequestStates
         /\ \A d \in Docs : [q EXCEPT !.doc = d] \in RequestStates
         /\ \A b \in BOOLEAN : [q EXCEPT !.after = b] \in RequestStates
         /\ \A v \in {"plain", "pdf", "parent"} : [q EXCEPT !.via = v] \in RequestStates
         /\ \A x \in States : [q EXCEPT !.seen = x] \in RequestStates
         /\ \A n \in Answers : [q EXCEPT !.answer = n] \in RequestStates
         /\ \A b \in BOOLEAN : [q EXCEPT !.whole = b] \in RequestStates
         /\ \A b \in BOOLEAN : [q EXCEPT !.missing = b] \in RequestStates
<1>1. \A s \in Steps : [q EXCEPT !.step = s] \in RequestStates
  BY DEF RequestStates
<1>2. \A d \in Docs : [q EXCEPT !.doc = d] \in RequestStates
  BY DEF RequestStates
<1>3. \A b \in BOOLEAN : [q EXCEPT !.after = b] \in RequestStates
  BY DEF RequestStates
<1>4. \A v \in {"plain", "pdf", "parent"} : [q EXCEPT !.via = v] \in RequestStates
  BY DEF RequestStates
<1>5. \A x \in States : [q EXCEPT !.seen = x] \in RequestStates
  BY DEF RequestStates
<1>6. \A n \in Answers : [q EXCEPT !.answer = n] \in RequestStates
  BY DEF RequestStates
<1>7. \A b \in BOOLEAN : [q EXCEPT !.whole = b] \in RequestStates
  BY DEF RequestStates
<1>8. \A b \in BOOLEAN : [q EXCEPT !.missing = b] \in RequestStates
  BY DEF RequestStates
<1> QED
  BY <1>1, <1>2, <1>3, <1>4, <1>5, <1>6, <1>7, <1>8

ToStep(q, s)          == [q EXCEPT !.step = s]
ToAsked(q, s, d, b)   == [q EXCEPT !.step = s, !.doc = d, !.after = b]
ToVia(q, s, v)        == [q EXCEPT !.step = s, !.via = v]
ToSeen(q, s, x)       == [q EXCEPT !.step = s, !.seen = x]
ToMissing(q, s, b)    == [q EXCEPT !.step = s, !.missing = b]
ToAnswer(q, s, n)     == [q EXCEPT !.step = s, !.answer = n]
Answered200(q, s, b, c) == [q EXCEPT !.step = s, !.answer = 200, !.whole = b, !.missing = c]

LEMMA StepUpdate ==
  ASSUME NEW q \in RequestStates, NEW s \in Steps
  PROVE  ToStep(q, s) \in RequestStates /\ ToStep(q, s).doc = q.doc
<1>1. [q EXCEPT !.step = s] \in RequestStates
  BY FieldUpdates
<1>2. ToStep(q, s) \in RequestStates
  BY <1>1, FieldUpdates DEF ToStep
<1>3. ToStep(q, s).doc = q.doc
  BY DEF RequestStates, ToStep
<1> QED
  BY <1>2, <1>3

LEMMA AskUpdate ==
  ASSUME NEW q \in RequestStates, NEW s \in Steps, NEW d \in Docs, NEW b \in BOOLEAN
  PROVE  ToAsked(q, s, d, b) \in RequestStates /\ ToAsked(q, s, d, b).doc = d
<1>1. [q EXCEPT !.step = s] \in RequestStates
  BY FieldUpdates
<1>2. ToAsked(q, s, d, b) \in RequestStates
  BY <1>1, FieldUpdates DEF ToAsked
<1>3. ToAsked(q, s, d, b).doc = d
  BY DEF RequestStates, ToAsked
<1> QED
  BY <1>2, <1>3

LEMMA ViaUpdate ==
  ASSUME NEW q \in RequestStates, NEW s \in Steps, NEW v \in {"plain", "pdf", "parent"}
  PROVE  ToVia(q, s, v) \in RequestStates /\ ToVia(q, s, v).doc = q.doc
<1>1. [q EXCEPT !.step = s] \in RequestStates
  BY FieldUpdates
<1>2. ToVia(q, s, v) \in RequestStates
  BY <1>1, FieldUpdates DEF ToVia
<1>3. ToVia(q, s, v).doc = q.doc
  BY DEF RequestStates, ToVia
<1> QED
  BY <1>2, <1>3

LEMMA SeenUpdate ==
  ASSUME NEW q \in RequestStates, NEW s \in Steps, NEW x \in States
  PROVE  ToSeen(q, s, x) \in RequestStates /\ ToSeen(q, s, x).doc = q.doc
<1>1. [q EXCEPT !.step = s] \in RequestStates
  BY FieldUpdates
<1>2. ToSeen(q, s, x) \in RequestStates
  BY <1>1, FieldUpdates DEF ToSeen
<1>3. ToSeen(q, s, x).doc = q.doc
  BY DEF RequestStates, ToSeen
<1> QED
  BY <1>2, <1>3

LEMMA MissingUpdate ==
  ASSUME NEW q \in RequestStates, NEW s \in Steps, NEW b \in BOOLEAN
  PROVE  ToMissing(q, s, b) \in RequestStates /\ ToMissing(q, s, b).doc = q.doc
<1>1. [q EXCEPT !.step = s] \in RequestStates
  BY FieldUpdates
<1>2. ToMissing(q, s, b) \in RequestStates
  BY <1>1, FieldUpdates DEF ToMissing
<1>3. ToMissing(q, s, b).doc = q.doc
  BY DEF RequestStates, ToMissing
<1> QED
  BY <1>2, <1>3

LEMMA AnswerUpdate ==
  ASSUME NEW q \in RequestStates, NEW s \in Steps, NEW n \in Answers
  PROVE  ToAnswer(q, s, n) \in RequestStates /\ ToAnswer(q, s, n).step = s
<1>1. [q EXCEPT !.step = s] \in RequestStates
  BY FieldUpdates
<1>2. ToAnswer(q, s, n) \in RequestStates
  BY <1>1, FieldUpdates DEF ToAnswer
<1>3. ToAnswer(q, s, n).step = s
  BY DEF RequestStates, ToAnswer
<1> QED
  BY <1>2, <1>3

LEMMA DeliverUpdate ==
  ASSUME NEW q \in RequestStates, NEW s \in Steps, NEW b \in BOOLEAN, NEW c \in BOOLEAN
  PROVE  Answered200(q, s, b, c) \in RequestStates /\ Answered200(q, s, b, c).step = s
<1>1. [q EXCEPT !.step = s] \in RequestStates
  BY FieldUpdates
<1>2. 200 \in Answers
  BY DEF Answers
<1>3. [[q EXCEPT !.step = s] EXCEPT !.answer = 200] \in RequestStates
  BY <1>1, <1>2, FieldUpdates, ZenonT(40)
<1>4. Answered200(q, s, b, c) \in RequestStates
  <2> DEFINE p == [[q EXCEPT !.step = s] EXCEPT !.answer = 200]
  <2>1. p \in RequestStates
    BY <1>3
  <2>2. Answered200(q, s, b, c) = [[p EXCEPT !.whole = b] EXCEPT !.missing = c]
    BY DEF Answered200
  <2> HIDE DEF p
  <2>3. [p EXCEPT !.whole = b] \in RequestStates
    BY <2>1, FieldUpdates
  <2>4. [[p EXCEPT !.whole = b] EXCEPT !.missing = c] \in RequestStates
    BY <2>3, FieldUpdates
  <2> QED
    BY <2>2, <2>4
<1>5. Answered200(q, s, b, c).step = s
  BY DEF RequestStates, Answered200
<1> QED
  BY <1>4, <1>5

\* What they leave alone.
LEMMA AnswerFields ==
  ASSUME NEW q \in RequestStates, NEW s, NEW n
  PROVE  /\ ToAnswer(q, s, n).step = s /\ ToAnswer(q, s, n).answer = n
         /\ ToAnswer(q, s, n).doc = q.doc /\ ToAnswer(q, s, n).via = q.via
         /\ ToAnswer(q, s, n).after = q.after /\ ToAnswer(q, s, n).whole = q.whole
         /\ ToAnswer(q, s, n).missing = q.missing
BY DEF ToAnswer, RequestStates

LEMMA MoveFields ==
  ASSUME NEW q \in RequestStates, NEW s, NEW v
  PROVE  /\ ToStep(q, s).whole = q.whole /\ ToStep(q, s).missing = q.missing
         /\ ToVia(q, s, v).whole = q.whole /\ ToVia(q, s, v).missing = q.missing
         /\ ToSeen(q, s, v).whole = q.whole /\ ToSeen(q, s, v).missing = q.missing
BY DEF ToStep, ToVia, ToSeen, RequestStates

LEMMA DeliverFields ==
  ASSUME NEW q \in RequestStates, NEW s, NEW b, NEW c
  PROVE  /\ Answered200(q, s, b, c).step = s /\ Answered200(q, s, b, c).answer = 200
         /\ Answered200(q, s, b, c).doc = q.doc /\ Answered200(q, s, b, c).via = q.via
         /\ Answered200(q, s, b, c).after = q.after
         /\ Answered200(q, s, b, c).whole = b /\ Answered200(q, s, b, c).missing = c
BY DEF Answered200, RequestStates

\* A handler's step.
LEMMA HandlerKeepsTypes ==
  ASSUME Types, NEW r \in Requests, HandlerNext(r)
  PROVE  Types'
<1>1. HandlerFrame /\ (Fault \/ UNCHANGED faults)
  BY DEF HandlerNext, Ask, ReadInfo, ReadState, ReadSubjobStates, NotReady, FetchError, Deliver
<1>2. InputTypes' /\ SubmitTypes' /\ WorkerTypes'
  BY <1>1 DEF HandlerFrame, Types, InputTypes, SubmitTypes, WorkerTypes, inputVars, submitVars
<1>3. request[r] \in RequestStates /\ (request[r].step # "idle" => request[r].doc \in Docs)
  BY DEF Types, RequestTypes
<1>4. FetchTypes'
  <2>1. /\ [j \in Jobs |-> NoFetch] \in [Jobs -> FetchStates]
        /\ \A js : [j \in Jobs |-> IF j \in js THEN Fresh ELSE NoFetch] \in [Jobs -> FetchStates]
    BY FreshTypes
  <2> HIDE DEF FetchStates
  <2>2. ASSUME UNCHANGED fetch \/ Forget(r) \/ \E js : Open(r, js)
        PROVE  FetchTypes'
    BY <2>1, <2>2 DEF Forget, Open, Types, FetchTypes
  <2> QED
    BY <2>2 DEF HandlerNext, Ask, ReadInfo, ReadState, ReadSubjobStates, NotReady, FetchError, Deliver
<1>5. RequestTypes'
  <2>1. ASSUME NEW rec \in RequestStates, rec.step # "idle" => rec.doc \in Docs, Handling(r, rec)
        PROVE  RequestTypes'
    BY <2>1 DEF Handling, Types, RequestTypes
  <2>2. CASE Ask(r)
    <3>1. PICK d \in Docs :
            Handling(r, [Unasked EXCEPT !.step = IF kind[d] = "plain" THEN "state" ELSE "info",
                                        !.doc = d, !.after = d \in served])
      BY <2>2 DEF Ask
    <3>2. PICK s \in Steps, b \in BOOLEAN : Handling(r, ToAsked(Unasked, s, d, b))
      <4> DEFINE s == IF kind[d] = "plain" THEN "state" ELSE "info"
                 b == d \in served
      <4>1. s \in Steps /\ b \in BOOLEAN
        BY DEF Steps
      <4>2. Handling(r, ToAsked(Unasked, s, d, b))
        BY <3>1 DEF ToAsked
      <4> HIDE DEF s, b
      <4> QED
        BY <4>1, <4>2
    <3>3. Unasked \in RequestStates
      BY DEF Unasked, RequestStates, States, Steps, Answers
    <3> QED
      BY <2>1, <3>2, <3>3, AskUpdate
  <2> DEFINE q == request[r]
  <2>3. /\ q \in RequestStates
        /\ {"idle", "fetch", "state", "subjobs"} \subseteq Steps /\ "idle" \in Steps /\ "fetch" \in Steps
        /\ {202, 410, 500} \subseteq Answers /\ 202 \in Answers /\ 200 \in Answers
    BY <1>3 DEF Steps, Answers
  <2> HIDE DEF q
  <2>9. ASSUME NEW n \in Answers, Handling(r, ToAnswer(q, "idle", n))
        PROVE  RequestTypes'
    <3>1. ToAnswer(q, "idle", n) \in RequestStates /\ ToAnswer(q, "idle", n).step = "idle"
      BY <2>3, AnswerUpdate
    <3> QED
      BY <2>1, <2>9, <3>1
  <2>10. ASSUME NEW b \in BOOLEAN, q.doc \in Docs, Handling(r, ToMissing(q, "fetch", b))
         PROVE  RequestTypes'
    <3>1. ToMissing(q, "fetch", b) \in RequestStates /\ ToMissing(q, "fetch", b).doc = q.doc
      BY <2>3, MissingUpdate
    <3> QED
      BY <2>1, <2>10, <3>1
  <2>11. ASSUME NEW x \in States, q.doc \in Docs, Handling(r, ToSeen(q, "fetch", x))
         PROVE  RequestTypes'
    <3>1. ToSeen(q, "fetch", x) \in RequestStates /\ ToSeen(q, "fetch", x).doc = q.doc
      BY <2>3, SeenUpdate
    <3> QED
      BY <2>1, <2>11, <3>1
  <2> USE DEF q
  <2>4. CASE ReadInfo(r)
    <3>1. PICK s \in {"state", "fetch", "subjobs"} :
            \/ Handling(r, ToStep(q, s))
            \/ \E v \in {"pdf", "parent"} : Handling(r, ToVia(q, s, v))
      BY <2>4 DEF ReadInfo, ToStep, ToVia
    <3>2. q.doc \in Docs /\ s \in Steps
      BY <1>3, <2>3, <2>4 DEF ReadInfo
    <3> HIDE DEF q
    <3> QED
      BY <2>1, <2>3, <3>1, <3>2, StepUpdate, ViaUpdate, ZenonT(40)
  <2>5. CASE ReadState(r)
    <3>1. PICK s \in {jobState[Parent(q.doc)], "none"} :
            \/ Refused(s) /\ Handling(r, ToAnswer(q, "idle", Refusal(s)))
            \/ Handling(r, ToSeen(q, "fetch", s))
      BY <2>5 DEF ReadState, Answer, ToAnswer, ToSeen
    <3>2. q.doc \in Docs
      BY <1>3, <2>5 DEF ReadState
    <3>3. s \in States
      BY <3>2, Constants DEF Types, StoreTypes, States
    <3>4. Refused(s) => Refusal(s) \in Answers
      BY DEF Refused, Refusal, Answers
    <3> HIDE DEF q
    <3> QED
      BY <2>9, <2>11, <3>1, <3>2, <3>3, <3>4
  <2>6. CASE ReadSubjobStates(r)
    <3>1. PICK b \in BOOLEAN : \/ Handling(r, ToAnswer(q, "idle", 202))
                               \/ Handling(r, ToMissing(q, "fetch", b))
      BY <2>6 DEF ReadSubjobStates, Answer, ToAnswer, ToMissing
    <3>2. q.doc \in Docs
      BY <1>3, <2>6 DEF ReadSubjobStates
    <3> HIDE DEF q
    <3> QED
      BY <2>3, <2>9, <2>10, <3>1, <3>2
  <2>7. CASE NotReady(r) \/ FetchError(r)
    <3>1. \/ Handling(r, ToAnswer(q, "idle", 202))
          \/ Handling(r, ToAnswer(q, "idle", 410))
          \/ Handling(r, ToAnswer(q, "idle", 500))
      BY <2>7 DEF NotReady, FetchError, Answer, ToAnswer
    <3> HIDE DEF q
    <3> QED
      BY <2>3, <2>9, <3>1
  <2>8. CASE Deliver(r)
    <3>1. PICK b \in BOOLEAN, c \in BOOLEAN : Handling(r, Answered200(q, "idle", b, c))
      <4> DEFINE b == \A j \in With(r, "ok") : WholeResult(j, fetch[r][j].got)
                 c == q.missing \/ With(r, "error") # {}
      <4>1. Handling(r, Answered200(q, "idle", b, c))
        BY <2>8 DEF Deliver, Answered200
      <4>2. b \in BOOLEAN /\ c \in BOOLEAN
        OBVIOUS
      <4> HIDE DEF b, c
      <4> QED
        BY <4>1, <4>2
    <3> HIDE DEF q
    <3>2. Answered200(q, "idle", b, c) \in RequestStates /\ Answered200(q, "idle", b, c).step = "idle"
      BY <2>3, DeliverUpdate
    <3> QED
      BY <2>1, <3>1, <3>2
  <2> QED
    BY <2>2, <2>4, <2>5, <2>6, <2>7, <2>8 DEF HandlerNext
<1>6. StoreTypes'
  <2>1. jobState' \in [Jobs -> States]
    <3>1. CASE UNCHANGED jobState
      BY <3>1 DEF Types, StoreTypes
    <3>2. CASE jobState' = [jobState EXCEPT ![Parent(request[r].doc)] = Retrieved]
      <4>1. Retrieved \in States
        BY InputFacts DEF Types, Retrieved, States, ModeValues
      <4> QED
        BY <3>2, <4>1 DEF Types, StoreTypes
    <3> QED
      BY <3>1, <3>2 DEF HandlerNext, Ask, ReadInfo, ReadState, ReadSubjobStates, NotReady, FetchError, Deliver
  <2> QED
    BY <1>1, <2>1 DEF HandlerFrame, Types, StoreTypes, Fragment, inputVars
<1>7. HistoryTypes'
  <2>1. faults' \in 0..MaxFaults
    BY <1>1, FaultTypes DEF Types
  <2>2. handed' \in [Jobs -> Nat] /\ served' \subseteq Docs
    <3>1. CASE UNCHANGED <<handed, served>>
      BY <3>1 DEF Types, HistoryTypes
    <3>2. CASE Deliver(r)
      <4>1. request[r].doc \in Docs
        BY <1>3, <3>2 DEF Deliver, Gathered
      <4> QED
        BY <3>2, <4>1 DEF Deliver, Types, HistoryTypes
    <3> QED
      BY <3>1, <3>2 DEF HandlerNext, Ask, ReadInfo, ReadState, ReadSubjobStates, NotReady, FetchError
  <2> QED
    BY <1>1, <2>1, <2>2 DEF HandlerFrame, Types, HistoryTypes
<1> QED
  BY <1>2, <1>4, <1>5, <1>6, <1>7 DEF Types

LEMMA ExpireKeepsTypes ==
  ASSUME Types, Expiry
  PROVE  Types'
<1>1. Expire
  BY DEF Expiry, ExpireTasks, ExpireState, ExpireMapping, ExpireLate, ExpireChannel
<1>2. InputTypes' /\ WorkerTypes' /\ FetchTypes' /\ RequestTypes'
  BY <1>1 DEF Expire, Types, InputTypes, WorkerTypes, FetchTypes, RequestTypes, inputVars
<1>3. SubmitTypes'
  BY <1>1 DEF Types, SubmitTypes, Expire, Expiry, ExpireTasks, ExpireState, ExpireMapping, ExpireChannel
<1>4. /\ channel' \in [Jobs -> Seq(Messages)] /\ lapsed' \in [Jobs -> Nat]
      /\ \A k \in Jobs : channel'[k] \in Seq(Fragment(k))
  <2>1. CASE UNCHANGED <<channel, lapsed>>
    BY <2>1 DEF Types, StoreTypes, HistoryTypes
  <2>2. ASSUME NEW j \in Jobs, ExpireChannel(j)
        PROVE  /\ channel' \in [Jobs -> Seq(Messages)] /\ lapsed' \in [Jobs -> Nat]
               /\ \A k \in Jobs : channel'[k] \in Seq(Fragment(k))
    <3> HIDE DEF Fragment, Messages
    <3>1. Len(channel[j]) \in Nat /\ <<>> \in Seq(Messages) /\ \A k \in Jobs : <<>> \in Seq(Fragment(k))
      BY DEF Types, StoreTypes
    <3> QED
      BY <2>2, <3>1 DEF ExpireChannel, Types, StoreTypes, HistoryTypes
  <2> QED
    BY <2>1, <2>2 DEF Expiry, ExpireTasks, ExpireState, ExpireMapping, ExpireLate
<1>5. StoreTypes'
  <2>1. size' = size
    BY <1>1 DEF Expire, inputVars
  <2>2. jobState' \in [Jobs -> States]
    BY DEF Types, StoreTypes, Expiry, ExpireTasks, ExpireState, ExpireMapping, ExpireChannel, States
  <2>3. mapping' \in [Docs -> SUBSET {"subjobs", "metadata"}]
    BY DEF Types, StoreTypes, Expiry, ExpireTasks, ExpireState, ExpireMapping, ExpireChannel
  <2> QED
    BY <1>4, <2>1, <2>2, <2>3 DEF StoreTypes, Fragment
<1>6. HistoryTypes'
  BY <1>1, <1>4 DEF Expire, Types, HistoryTypes
<1> QED
  BY <1>2, <1>3, <1>5, <1>6 DEF Types

LEMMA StepTypes == Types /\ [Next]_vars => Types'
<1> SUFFICES ASSUME Types, [Next]_vars PROVE Types'
  OBVIOUS
<1>1. CASE UNCHANGED vars
  BY <1>1 DEF vars, inputVars, submitVars, storeVars, history, restHistory, Types, InputTypes, SubmitTypes,
     StoreTypes, WorkerTypes, FetchTypes, RequestTypes, HistoryTypes, Fragment
<1>2. CASE Next
  BY <1>2, SubmitKeepsTypes, WorkerKeepsTypes, FetchKeepsTypes, HandlerKeepsTypes, ExpireKeepsTypes, NextCases
<1> QED
  BY <1>1, <1>2

LEMMA AlwaysTypes == Spec => []Types
BY InitTypes, StepTypes, PTL DEF Spec

\* Type correctness.
THEOREM TypeCorrect == Spec => []TypeOK
BY AlwaysTypes, TypesImplyTypeOK, PTL

-----------------------------------------------------------------------------
(* What every step leaves alone. *)

LEMMA SubmitFrame ==
  ASSUME NEW d \in Docs, SubmitNext(d)
  PROVE  /\ UNCHANGED <<inputVars, channel, worker, fetch, request, expired, history>>
         /\ Fault \/ UNCHANGED faults
         /\ UNCHANGED jobState \/ jobState' = [jobState EXCEPT ![Parent(d)] = "SUBMITTED"]
BY DEF SubmitNext, SubmitJob, SubmitFails, RecordSubmitted, StoreSubjobs, StoreMetadata, MetadataRefused, MappingFails,
   storeVars

LEMMA WorkerFrame ==
  ASSUME NEW w \in Workers, WorkerNext(w)
  PROVE  /\ UNCHANGED <<inputVars, submit, todo, jobState, mapping, fetch, request, expired,
                        handed, lapsed, served>>
         /\ Fault \/ UNCHANGED faults
BY DEF WorkerNext, TakeTask, SinkRefuses, PushFragment, PushFails, ReportFailure, submitVars, storeVars, history,
   restHistory

LEMMA HandlerStays ==
  ASSUME NEW r \in Requests, HandlerNext(r)
  PROVE  /\ HandlerFrame
         /\ Fault \/ UNCHANGED faults
         /\ \/ UNCHANGED jobState
            \/ jobState' = [jobState EXCEPT ![Parent(request[r].doc)] = Retrieved]
BY DEF HandlerNext, Ask, ReadInfo, ReadState, ReadSubjobStates, NotReady, FetchError, Deliver

LEMMA ExpireStays ==
  ASSUME Expiry
  PROVE  /\ Expire
         /\ \/ UNCHANGED jobState
            \/ \E d \in Docs : jobState' = [jobState EXCEPT ![Parent(d)] = "none"]
         /\ UNCHANGED <<channel, lapsed>> \/ \E j \in Jobs : ExpireChannel(j)
BY DEF Expiry, ExpireTasks, ExpireState, ExpireMapping, ExpireLate, ExpireChannel

LEMMA InputsFixed == [Next]_vars => UNCHANGED inputVars
<1>1. ASSUME NEW r \in Requests, NEW j \in Jobs, FetchStep(r, j) \/ FetchFails(r, j)
      PROVE  FetchFrame
  BY <1>1 DEF FetchStep, PopFirst, PopNext, PopTimesOut, PollFirst, PollRest, PollTimesOut, FetchFails
<1> QED
  BY <1>1, SubmitFrame, WorkerFrame, HandlerStays, ExpireStays, NextCases
     DEF FetchFrame, HandlerFrame, Expire, vars

\* Errors are not forgotten, nor is an expiry.
LEMMA FaultsStay ==
  ASSUME Types, [Next]_vars
  PROVE  /\ faults' = 0 => faults = 0 /\ UNCHANGED faults
         /\ Quiet' => Quiet
         /\ ~expired' => ~expired
<1>1. CASE UNCHANGED vars
  BY <1>1 DEF vars, Quiet
<1>2. CASE Next
  <2>1. Fault \/ UNCHANGED faults
    BY <1>2, SubmitFrame, WorkerFrame, HandlerStays, FetchStepChanges, ExpireStays, NextCases
       DEF Expire
  <2>2. UNCHANGED expired \/ expired'
    BY <1>2, SubmitFrame, WorkerFrame, HandlerStays, FetchStepChanges, ExpireStays, NextCases
       DEF Expire, HandlerFrame, FetchFrame
  <2>3. faults \in Nat /\ expired \in BOOLEAN
    BY Constants DEF Types, HistoryTypes
  <2>4. faults' = 0 => faults = 0 /\ UNCHANGED faults
    BY <2>1, <2>3 DEF Fault
  <2> QED
    BY <2>2, <2>3, <2>4 DEF Quiet
<1> QED
  BY <1>1, <1>2

LEMMA JobFacts ==
  /\ \A d \in Docs : Parent(d) \in Jobs /\ Parent(d)[1] = d /\ Parent(d) \notin Subjobs(d)
  /\ \A d, e \in Docs : Parent(d) = Parent(e) => d = e
  /\ \A d, e \in Docs : Parent(d) \notin Subjobs(e)
  /\ \A d \in Docs : \A j \in Subjobs(d) : j \in Jobs /\ j[1] = d
<1>1. Chunks \in Nat
  BY Constants
<1>2. ASSUME NEW d \in Docs
      PROVE  Parent(d) \in Jobs /\ Parent(d)[1] = d
  BY <1>1 DEF Parent, Jobs
<1>3. \A d, e \in Docs : Parent(d) = Parent(e) => d = e
  BY DEF Parent
<1>4. \A d, e \in Docs : Parent(d) \notin Subjobs(e)
  BY <1>1 DEF Parent, Subjobs
<1>5. \A d \in Docs : \A j \in Subjobs(d) : j \in Jobs /\ j[1] = d
  BY <1>1 DEF Subjobs, Jobs
<1> QED
  BY <1>2, <1>3, <1>4, <1>5

-----------------------------------------------------------------------------
(* Routes: which handler a document is at, and what a request may fetch. *)

\* Only the state of a document itself is ever written, and never FAILED.  The
\* submission of a long PDF is never answered with its id.
SubmitRoute(d) ==
  /\ submit[d] = "second" => kind[d] = "split"
  /\ submit[d] = "subjobs" \/ "subjobs" \in mapping[d] => IsSplit(d)
  /\ submit[d] = "metadata" => kind[d] # "plain"
  /\ submit[d] \in {"state", "done"} => kind[d] # "split"
  /\ todo[d] \subseteq JobsOf(d)

DocRoute(d) ==
  /\ SubmitRoute(d)
  /\ d \in served => submit[d] = "done"
  /\ jobState[Parent(d)] \in {"none", "SUBMITTED", Retrieved}
  /\ \A j \in Subjobs(d) : jobState[j] = "none"

Wanted(r) == IF request[r].via = "parent" THEN Subjobs(request[r].doc) ELSE {Parent(request[r].doc)}

\* A request fetches exactly the jobs it wants, and only while its handler waits for them.
RequestRoute(r) ==
  /\ request[r].step # "fetch" => \A j \in Jobs : fetch[r][j] = NoFetch
  /\ request[r].step = "fetch" => \A j \in Jobs : IF j \in Wanted(r) THEN fetch[r][j].step # "off"
                                                  ELSE fetch[r][j] = NoFetch
  /\ request[r].step \in {"info", "state"} => request[r].via = "plain"
  /\ request[r].step = "subjobs" => request[r].via = "parent"
  /\ request[r].via = "parent" => request[r].doc \in Docs /\ IsSplit(request[r].doc)
  /\ request[r].step # "idle" => submit[request[r].doc] = "done"
  /\ request[r].step \in {"info", "subjobs"} => kind[request[r].doc] # "plain"

Routes == (\A d \in Docs : DocRoute(d)) /\ (\A r \in Requests : RequestRoute(r))

LEMMA InitRoutes == Init => Routes
<1> SUFFICES ASSUME Init PROVE Routes
  OBVIOUS
<1>1. ASSUME NEW d \in Docs PROVE DocRoute(d)
  BY JobFacts DEF Init, DocRoute, SubmitRoute
<1>2. ASSUME NEW r \in Requests PROVE RequestRoute(r)
  BY DEF Init, RequestRoute, Unasked
<1> QED
  BY <1>1, <1>2 DEF Routes

\* A submit handler that is done stays done.
LEMMA DoneStays ==
  ASSUME Types, NEW e \in Docs, submit[e] = "done", [Next]_vars
  PROVE  submit'[e] = "done"
<1>1. CASE UNCHANGED submit
  BY <1>1
<1>2. CASE \E d \in Docs : SubmitNext(d)
  BY <1>2 DEF Types, SubmitTypes, SubmitNext, SubmitJob, SubmitFails, RecordSubmitted, StoreSubjobs,
     StoreMetadata, MetadataRefused, MappingFails
<1> QED
  BY <1>1, <1>2, WorkerFrame, HandlerStays, FetchStepChanges, ExpireStays, NextCases
     DEF HandlerFrame, FetchFrame, Expire, submitVars, vars

LEMMA StateWrites ==
  ASSUME Types, NEW d \in Docs, NEW e \in Docs, DocRoute(e), NEW x \in {"none", "SUBMITTED", Retrieved},
         jobState' = [jobState EXCEPT ![Parent(d)] = x]
  PROVE  /\ jobState'[Parent(e)] \in {"none", "SUBMITTED", Retrieved}
         /\ \A j \in Subjobs(e) : jobState'[j] = "none"
<1>1. jobState \in [Jobs -> States] /\ Parent(e) \in Jobs
  BY JobFacts DEF Types, StoreTypes
<1>2. jobState'[Parent(e)] \in {"none", "SUBMITTED", Retrieved}
  BY <1>1 DEF DocRoute
<1>3. ASSUME NEW j \in Subjobs(e)
      PROVE  jobState'[j] = "none"
  BY <1>1, JobFacts DEF DocRoute
<1> QED
  BY <1>2, <1>3

LEMMA SubmitKeepsRoute ==
  ASSUME Types, NEW d \in Docs, SubmitNext(d), SubmitRoute(d), kind' = kind
  PROVE  SubmitRoute(d)'
<1>1. /\ submit \in [Docs -> {"first", "second", "subjobs", "metadata", "state", "done", "failed"}]
      /\ todo \in [Docs -> SUBSET Jobs] /\ mapping \in [Docs -> SUBSET {"subjobs", "metadata"}]
      /\ IsSplit(d)' = IsSplit(d) /\ JobsOf(d)' = JobsOf(d)
  BY DEF Types, SubmitTypes, StoreTypes, IsSplit, JobsOf
<1>2. kind[d] = "split" => IsSplit(d) /\ JobsOf(d) = Subjobs(d)
  BY DEF IsSplit, JobsOf
<1>3. CASE RecordSubmitted(d)
  BY <1>1, <1>3 DEF RecordSubmitted, AfterState, SubmitRoute
<1>4. CASE StoreSubjobs(d)
  <2>1. IsSplit(d) => kind[d] # "plain"
    BY DEF IsSplit
  <2> QED
    BY <1>1, <1>4, <2>1 DEF StoreSubjobs, SubmitRoute
<1>5. CASE StoreMetadata(d)
  BY <1>1, <1>5 DEF StoreMetadata, AfterMapping, SubmitRoute
<1>6. CASE MetadataRefused(d)
  BY <1>1, <1>6 DEF MetadataRefused, SubmitRoute, storeVars
<1>7. CASE MappingFails(d)
  BY <1>1, <1>2, <1>7 DEF MappingFails, SubmitRoute, storeVars
<1>8. ASSUME NEW j \in Jobs, SubmitFails(d, j)
      PROVE  SubmitRoute(d)'
  BY <1>1, <1>8 DEF SubmitFails, SubmitRoute, storeVars
<1>9. ASSUME NEW j \in Jobs, SubmitJob(d, j)
      PROVE  SubmitRoute(d)'
  <2>1. mapping' = mapping
    BY <1>9 DEF SubmitJob, storeVars
  <2>2. CASE todo[d] # {j}
    BY <1>1, <1>9, <2>1, <2>2 DEF SubmitJob, SubmitRoute
  <2>3. CASE todo[d] = {j} /\ submit[d] = "first" /\ kind[d] = "split"
    BY <1>1, <1>2, <1>9, <2>1, <2>3 DEF SubmitJob, SubmitRoute
  <2>4. CASE todo[d] = {j} /\ ~(submit[d] = "first" /\ kind[d] = "split")
    <3>1. /\ submit'[d] = IF IsSplit(d) THEN "subjobs" ELSE "state"
          /\ todo'[d] = {}
      BY <1>1, <1>9, <2>4 DEF SubmitJob
    <3> QED
      BY <1>1, <1>2, <2>1, <3>1 DEF SubmitRoute
  <2> QED
    BY <2>2, <2>3, <2>4
<1> QED
  BY <1>3, <1>4, <1>5, <1>6, <1>7, <1>8, <1>9 DEF SubmitNext

LEMMA StepDocRoute ==
  ASSUME Types, Routes, [Next]_vars, NEW e \in Docs
  PROVE  DocRoute(e)'
<1>1. DocRoute(e) /\ kind' = kind /\ mode' = mode /\ Retrieved' = Retrieved
  BY InputsFixed DEF Routes, inputVars, Retrieved
<1>2. CASE UNCHANGED vars
  BY <1>1, <1>2 DEF vars, submitVars, storeVars, history, restHistory, DocRoute, SubmitRoute, IsSplit, JobsOf
<1>3. ASSUME NEW d \in Docs, SubmitNext(d)
      PROVE  DocRoute(e)'
  <2>1. SubmitRoute(e)'
    <3>1. CASE e # d
      <4>1. submit'[e] = submit[e] /\ todo'[e] = todo[e] /\ mapping'[e] = mapping[e]
        BY <1>3, <3>1 DEF SubmitNext, SubmitJob, SubmitFails, RecordSubmitted, StoreSubjobs,
           StoreMetadata, MetadataRefused, MappingFails, Types, SubmitTypes, StoreTypes, storeVars
      <4> QED
        BY <1>1, <4>1 DEF DocRoute, SubmitRoute, IsSplit, JobsOf
    <3> QED
      BY <1>1, <1>3, <3>1, SubmitKeepsRoute DEF DocRoute
  <2>2. e \in served' => submit'[e] = "done"
    BY <1>1, <1>3, SubmitFrame, DoneStays DEF DocRoute, history, restHistory
  <2>3. /\ jobState'[Parent(e)] \in {"none", "SUBMITTED", Retrieved}
        /\ \A j \in Subjobs(e) : jobState'[j] = "none"
    BY <1>1, <1>3, SubmitFrame, StateWrites DEF DocRoute
  <2> QED
    BY <1>1, <2>1, <2>2, <2>3 DEF DocRoute
<1>4. ASSUME NEW w \in Workers, WorkerNext(w)
      PROVE  DocRoute(e)'
  BY <1>1, <1>4, WorkerFrame DEF DocRoute, SubmitRoute, IsSplit, JobsOf
<1>5. ASSUME NEW r \in Requests, NEW j \in Jobs, FetchStep(r, j) \/ FetchFails(r, j)
      PROVE  DocRoute(e)'
  BY <1>1, <1>5, FetchStepChanges DEF DocRoute, SubmitRoute, IsSplit, JobsOf, FetchFrame, submitVars,
     storeVars, history, restHistory
<1>6. ASSUME NEW r \in Requests, HandlerNext(r)
      PROVE  DocRoute(e)'
  <2>1. /\ jobState'[Parent(e)] \in {"none", "SUBMITTED", Retrieved}
        /\ \A j \in Subjobs(e) : jobState'[j] = "none"
    <3>1. CASE UNCHANGED jobState
      BY <1>1, <3>1 DEF DocRoute
    <3>2. CASE Deliver(r)
      <4>1. request[r].doc \in Docs
        BY <3>2 DEF Deliver, Gathered, Types, RequestTypes
      <4> QED
        BY <1>1, <1>6, <4>1, HandlerStays, StateWrites DEF DocRoute
    <3> QED
      BY <1>6, <3>1, <3>2 DEF HandlerNext, Ask, ReadInfo, ReadState, ReadSubjobStates, NotReady, FetchError
  <2>2. e \in served' => submit'[e] = "done"
    <3>1. CASE UNCHANGED served
      BY <1>1, <1>6, <3>1, HandlerStays DEF DocRoute, HandlerFrame, submitVars
    <3>2. CASE Deliver(r)
      BY <1>1, <1>6, <3>2, HandlerStays
         DEF Deliver, Gathered, Routes, DocRoute, RequestRoute, HandlerFrame, submitVars
    <3> QED
      BY <1>6, <3>1, <3>2 DEF HandlerNext, Ask, ReadInfo, ReadState, ReadSubjobStates, NotReady, FetchError
  <2> QED
    BY <1>1, <1>6, <2>1, <2>2, HandlerStays DEF DocRoute, SubmitRoute, IsSplit, JobsOf, HandlerFrame, submitVars
<1>7. ASSUME Expiry
      PROVE  DocRoute(e)'
  <2>1. "subjobs" \in mapping'[e] => "subjobs" \in mapping[e]
    BY <1>7 DEF Expiry, ExpireTasks, ExpireState, ExpireMapping, ExpireChannel, Types, StoreTypes
  <2>2. /\ jobState'[Parent(e)] \in {"none", "SUBMITTED", Retrieved}
        /\ \A j \in Subjobs(e) : jobState'[j] = "none"
    BY <1>1, <1>7, ExpireStays, StateWrites DEF DocRoute
  <2> QED
    BY <1>1, <1>7, <2>1, <2>2, ExpireStays DEF DocRoute, SubmitRoute, IsSplit, JobsOf, Expire
<1> QED
  BY <1>2, <1>3, <1>4, <1>5, <1>6, <1>7, NextCases

\* A request's step changes its own record and fetches only.
LEMMA OthersKeep ==
  ASSUME Types, NEW r \in Requests, NEW s \in Requests, s # r, RequestNext(s)
  PROVE  request'[r] = request[r] /\ fetch'[r] = fetch[r]
<1>1. request \in [Requests -> RequestStates] /\ fetch \in [Requests -> [Jobs -> FetchStates]]
  BY DEF Types, RequestTypes, FetchTypes
<1>2. ASSUME NEW j \in Jobs, FetchStep(s, j) \/ FetchFails(s, j)
      PROVE  request'[r] = request[r] /\ fetch'[r] = fetch[r]
  BY <1>1, <1>2, FetchStepChanges DEF FetchChange, SetFetch, FetchFrame
<1>3. CASE HandlerNext(s)
  <2>1. request'[r] = request[r]
    BY <1>1, <1>3, ZenonT(40) DEF HandlerNext, Ask, ReadInfo, ReadState, ReadSubjobStates, NotReady, FetchError,
       Deliver, Handling, Answer
  <2>2. fetch'[r] = fetch[r]
    BY <1>1, <1>3 DEF HandlerNext, Ask, ReadInfo, ReadState, ReadSubjobStates, NotReady, FetchError,
       Deliver, Forget, Open
  <2> QED
    BY <2>1, <2>2
<1> QED
  BY <1>2, <1>3 DEF RequestNext

\* The route of a request only looks at these.
LEMMA RouteFrame ==
  ASSUME Types, NEW r \in Requests, RequestRoute(r), [Next]_vars,
         request'[r] = request[r], fetch'[r] = fetch[r]
  PROVE  RequestRoute(r)'
<1>1. kind' = kind
  BY InputsFixed DEF inputVars
<1>2. request[r].step # "idle" => submit'[request[r].doc] = "done"
  BY DoneStays DEF RequestRoute, Types, RequestTypes
<1> QED
  BY <1>1, <1>2 DEF RequestRoute, Wanted, IsSplit

\* A fetch step leaves the fetch of a wanted job a fetch of that job.
LEMMA FetchKeepsRoute ==
  ASSUME Types, Routes, [Next]_vars, NEW r \in Requests, NEW j \in Jobs, FetchStep(r, j) \/ FetchFails(r, j)
  PROVE  RequestRoute(r)'
<1>1. PICK f \in FetchStates : FetchChange(r, j, f) /\ f.step # "off"
  <2>1. CASE PopFirst(r, j) \/ PopNext(r, j) \/ PollFirst(r, j) \/ PollRest(r, j) \/ PollTimesOut(r, j)
             \/ PopTimesOut(r, j) \/ FetchFails(r, j)
    <3>1. PICK f \in FetchStates : FetchChange(r, j, f)
      BY FetchStepChanges
    <3>2. fetch'[r][j] = f
      BY <3>1 DEF FetchChange, SetFetch, Types, FetchTypes
    <3>3. fetch[r][j].step # "off" /\ fetch[r][j] \in FetchStates
      BY FetchStepChanges DEF Types, FetchTypes
    <3>4. fetch'[r][j].step # "off"
      <4>1. fetch \in [Requests -> [Jobs -> FetchStates]]
        BY DEF Types, FetchTypes
      <4> HIDE DEF FetchStates
      <4>2. \A g : SetFetch(r, j, g) => fetch'[r][j] = g
        BY <4>1 DEF SetFetch
      <4>3. /\ [fetch[r][j] EXCEPT !.step = "timeout"].step # "off"
            /\ [fetch[r][j] EXCEPT !.step = "error"].step # "off"
            /\ [fetch[r][j] EXCEPT !.polled = TRUE].step # "off"
            /\ Fresh.step # "off"
        BY <3>3 DEF FetchStates, Fresh, NoFetch
      <4>4. CASE PopFirst(r, j) \/ PopNext(r, j)
        BY <4>2, <4>4 DEF PopFirst, PopNext
      <4>5. CASE PopTimesOut(r, j) \/ PollTimesOut(r, j)
        BY <4>2, <4>3, <4>5 DEF PopTimesOut, PollTimesOut
      <4>6. CASE PollFirst(r, j)
        <5>1. CASE channel[j] # <<>> /\ Head(channel[j]) = 0
          BY <4>2, <4>6, <5>1 DEF PollFirst
        <5>2. CASE ~(channel[j] # <<>> /\ Head(channel[j]) = 0)
          BY <4>2, <4>3, <4>6, <5>2 DEF PollFirst
        <5> QED
          BY <5>1, <5>2
      <4>8. CASE PollRest(r, j)
        <5>1. \/ SetFetch(r, j, [step |-> "ok", got |-> [i \in 1..size[j] |-> i - 1], polled |-> FALSE])
              \/ SetFetch(r, j, [fetch[r][j] EXCEPT !.polled = TRUE])
              \/ SetFetch(r, j, [fetch[r][j] EXCEPT !.step = "error"])
          BY <4>8 DEF PollRest
        <5>2. [step |-> "ok", got |-> [i \in 1..size[j] |-> i - 1], polled |-> FALSE].step # "off"
          OBVIOUS
        <5> QED
          BY <4>2, <4>3, <5>1, <5>2
      <4>7. CASE FetchFails(r, j)
        BY <4>2, <4>3, <4>7 DEF FetchFails
      <4> QED
        BY <2>1, <4>4, <4>5, <4>6, <4>7, <4>8
    <3> QED
      BY <3>1, <3>2, <3>4
  <2> QED
    BY <2>1 DEF FetchStep
<1>2. RequestRoute(r) /\ request' = request /\ kind' = kind /\ IsSplit(request[r].doc)' = IsSplit(request[r].doc)
  BY FetchStepChanges DEF Routes, FetchFrame, inputVars, IsSplit
<1>3. fetch[r][j] # NoFetch
  BY FetchStepChanges DEF NoFetch
<1>4. request[r].step = "fetch" /\ j \in Wanted(r)
  BY <1>2, <1>3 DEF RequestRoute
<1>5. \A k \in Jobs : fetch'[r][k] = IF k = j THEN f ELSE fetch[r][k]
  BY <1>1 DEF FetchChange, SetFetch, Types, FetchTypes
<1>6. \A k \in Jobs : IF k \in Wanted(r) THEN fetch'[r][k].step # "off" ELSE fetch'[r][k] = NoFetch
  BY <1>1, <1>2, <1>4, <1>5 DEF RequestRoute
<1>7. submit' = submit
  BY FetchStepChanges DEF FetchFrame, submitVars
<1> QED
  BY <1>2, <1>4, <1>6, <1>7 DEF RequestRoute, Wanted

LEMMA HandlerKeepsRoute ==
  ASSUME Types, Routes, [Next]_vars, NEW r \in Requests, HandlerNext(r)
  PROVE  RequestRoute(r)'
<1>0. \A d : /\ IsSplit(d)' <=> kind'[d] \in {"split", "media"}
           /\ IsSplit(d) <=> kind[d] \in {"split", "media"}
  BY DEF IsSplit
<1>1. /\ RequestRoute(r) /\ kind' = kind /\ submit' = submit /\ request[r] \in RequestStates
      /\ request \in [Requests -> RequestStates] /\ fetch \in [Requests -> [Jobs -> FetchStates]]
      /\ request[r].step # "idle" => request[r].doc \in Docs
  BY HandlerStays DEF Routes, HandlerFrame, inputVars, submitVars, Types, RequestTypes, FetchTypes
<1>2. Fresh.step # "off"
  BY DEF Fresh, NoFetch
<1>3. \A js : Open(r, js) => \A j \in Jobs : fetch'[r][j] = IF j \in js THEN Fresh ELSE NoFetch
  BY <1>1 DEF Open
<1>4. Forget(r) => \A j \in Jobs : fetch'[r][j] = NoFetch
  BY <1>1 DEF Forget
<1>5. \A rec : Handling(r, rec) => request'[r] = rec
  BY <1>1 DEF Handling
<1>6. CASE Ask(r)
  <2>1. PICK d \in Docs :
          /\ submit[d] = "done"
          /\ request'[r] = [Unasked EXCEPT !.step = IF kind[d] = "plain" THEN "state" ELSE "info",
                                           !.doc = d, !.after = d \in served]
    BY <1>5, <1>6 DEF Ask
  <2>2. /\ request'[r].step = IF kind[d] = "plain" THEN "state" ELSE "info"
        /\ request'[r].doc = d /\ request'[r].via = "plain"
    BY <2>1 DEF Unasked
  <2>3. \A j \in Jobs : fetch'[r][j] = NoFetch
    BY <1>1, <1>6 DEF Ask, RequestRoute
  <2> QED
    BY <1>1, <2>1, <2>2, <2>3 DEF RequestRoute, Wanted
<1>7. CASE ReadInfo(r)
  <2>1. CASE request' = [request EXCEPT ![r] = [request[r] EXCEPT !.step = "state"]] /\ UNCHANGED fetch
    BY <1>1, <1>7, <2>1 DEF ReadInfo, RequestRoute, Wanted, RequestStates
  <2>2. CASE /\ mapping[request[r].doc] = {"metadata"}
             /\ Handling(r, [request[r] EXCEPT !.step = "fetch", !.via = "pdf"])
             /\ Open(r, {Parent(request[r].doc)})
    <3>1. request'[r].step = "fetch" /\ request'[r].via = "pdf" /\ request'[r].doc = request[r].doc
      BY <1>1, <1>5, <2>2 DEF RequestStates
    <3>2. \A j \in Jobs : fetch'[r][j] = IF j \in {Parent(request[r].doc)} THEN Fresh ELSE NoFetch
      BY <1>3, <2>2
    <3> QED
      BY <1>1, <1>2, <1>7, <3>1, <3>2 DEF ReadInfo, RequestRoute, Wanted
  <2>3. CASE /\ mapping[request[r].doc] = {"subjobs", "metadata"}
             /\ Handling(r, [request[r] EXCEPT !.step = "subjobs", !.via = "parent"])
             /\ UNCHANGED fetch
    <3>1. request'[r].step = "subjobs" /\ request'[r].via = "parent" /\ request'[r].doc = request[r].doc
      BY <1>1, <1>5, <2>3 DEF RequestStates
    <3>2. IsSplit(request[r].doc)
      BY <1>1, <1>7, <2>3 DEF ReadInfo, Routes, DocRoute, SubmitRoute
    <3> QED
      BY <1>0, <1>1, <1>7, <2>3, <3>1, <3>2 DEF ReadInfo, RequestRoute, Wanted
  <2> QED
    BY <1>7, <2>1, <2>2, <2>3 DEF ReadInfo, Handling
<1>8. CASE ReadState(r)
  <2>1. CASE UNCHANGED fetch /\ \E n : Handling(r, [request[r] EXCEPT !.step = "idle", !.answer = n])
    BY <1>1, <1>5, <1>8, <2>1 DEF ReadState, RequestRoute, Wanted, RequestStates
  <2>2. CASE /\ \E s : Handling(r, [request[r] EXCEPT !.step = "fetch", !.seen = s])
             /\ Open(r, {Parent(request[r].doc)})
    <3>1. request'[r].step = "fetch" /\ request'[r].via = request[r].via /\ request'[r].doc = request[r].doc
      BY <1>1, <1>5, <2>2 DEF RequestStates
    <3>2. \A j \in Jobs : fetch'[r][j] = IF j \in {Parent(request[r].doc)} THEN Fresh ELSE NoFetch
      BY <1>3, <2>2
    <3> QED
      BY <1>1, <1>2, <1>8, <3>1, <3>2 DEF ReadState, RequestRoute, Wanted
  <2> QED
    BY <1>8, <2>1, <2>2 DEF ReadState, Answer
<1>9. CASE ReadSubjobStates(r)
  <2>1. CASE UNCHANGED fetch /\ \E n : Handling(r, [request[r] EXCEPT !.step = "idle", !.answer = n])
    <3>1. request'[r].step = "idle" /\ request'[r].via = request[r].via /\ request'[r].doc = request[r].doc
      BY <1>1, <1>5, <2>1 DEF RequestStates
    <3>2. \A j \in Jobs : fetch'[r][j] = NoFetch
      BY <1>1, <1>9, <2>1 DEF ReadSubjobStates, RequestRoute
    <3> QED
      BY <1>0, <1>1, <3>1, <3>2 DEF RequestRoute
  <2>2. CASE /\ \E b : Handling(r, [request[r] EXCEPT !.step = "fetch", !.missing = b])
             /\ Open(r, Subjobs(request[r].doc) \ {j \in Subjobs(request[r].doc) : jobState[j] = "FAILED"})
    <3>1. request'[r].step = "fetch" /\ request'[r].via = request[r].via /\ request'[r].doc = request[r].doc
      BY <1>1, <1>5, <2>2 DEF RequestStates
    <3>2. request[r].doc \in Docs /\ request[r].via = "parent"
      BY <1>1, <1>9 DEF ReadSubjobStates, RequestRoute
    <3>3. {j \in Subjobs(request[r].doc) : jobState[j] = "FAILED"} = {}
      BY <3>2 DEF Routes, DocRoute
    <3>4. \A j \in Jobs : fetch'[r][j] = IF j \in Subjobs(request[r].doc) THEN Fresh ELSE NoFetch
      BY <1>3, <2>2, <3>3
    <3> QED
      BY <1>0, <1>1, <1>2, <1>9, <3>1, <3>2, <3>4 DEF ReadSubjobStates, RequestRoute, Wanted
  <2> QED
    BY <1>9, <2>1, <2>2 DEF ReadSubjobStates, Answer
<1>10. CASE NotReady(r) \/ FetchError(r) \/ Deliver(r)
  <2>1. /\ request'[r].step = "idle" /\ request'[r].via = request[r].via
        /\ request'[r].doc = request[r].doc
    <3>1. CASE NotReady(r) \/ FetchError(r)
      <4>1. PICK n : Handling(r, ToAnswer(request[r], "idle", n))
        BY <3>1, ZenonT(40) DEF NotReady, FetchError, Answer, ToAnswer
      <4>2. request'[r] = ToAnswer(request[r], "idle", n)
        BY <1>5, <4>1
      <4> QED
        BY <1>1, <4>2, AnswerFields
    <3>3. CASE Deliver(r)
      <4>1. PICK b, c : Handling(r, Answered200(request[r], "idle", b, c))
        BY <3>3, ZenonT(40) DEF Deliver, Answered200
      <4>2. request'[r] = Answered200(request[r], "idle", b, c)
        BY <1>5, <4>1
      <4> QED
        BY <1>1, <4>2, DeliverFields
    <3> QED
      BY <1>10, <3>1, <3>3
  <2>2. \A j \in Jobs : fetch'[r][j] = NoFetch
    BY <1>4, <1>10 DEF NotReady, FetchError, Deliver
  <2> QED
    BY <1>0, <1>1, <2>1, <2>2 DEF RequestRoute
<1> QED
  BY <1>6, <1>7, <1>8, <1>9, <1>10 DEF HandlerNext

LEMMA StepRoutes == Types /\ Routes /\ [Next]_vars => Routes'
<1> SUFFICES ASSUME Types, Routes, [Next]_vars PROVE Routes'
  OBVIOUS
<1>1. \A d \in Docs : DocRoute(d)'
  BY StepDocRoute
<1>2. ASSUME NEW r \in Requests PROVE RequestRoute(r)'
  <2>1. CASE request'[r] = request[r] /\ fetch'[r] = fetch[r]
    BY <2>1, RouteFrame DEF Routes
  <2>2. CASE \E j \in Jobs : FetchStep(r, j) \/ FetchFails(r, j)
    BY <2>2, FetchKeepsRoute
  <2>3. CASE HandlerNext(r)
    BY <2>3, HandlerKeepsRoute
  <2>4. ASSUME NEW s \in Requests, s # r, RequestNext(s)
        PROVE  request'[r] = request[r] /\ fetch'[r] = fetch[r]
    BY <2>4, OthersKeep
  <2> QED
    <3>1. Next => (request' = request /\ fetch' = fetch) \/ \E s \in Requests : RequestNext(s)
      BY SubmitFrame, WorkerFrame, ExpireStays, NextCases DEF Expire, RequestNext
    <3> QED
      BY <2>1, <2>2, <2>3, <2>4, <3>1 DEF vars, RequestNext
<1> QED
  BY <1>1, <1>2 DEF Routes

-----------------------------------------------------------------------------
(* The channels: what a push and a pop leave in them. *)

LEMMA PushEntries ==
  ASSUME Types, NEW j \in Jobs, NEW m \in Fragment(j), NEW n \in 0..2, Push(j, m, n)
  PROVE  /\ \A k \in Jobs \ {j} : channel'[k] = channel[k]
         /\ Len(channel'[j]) = Len(channel[j]) + n
         /\ \A i \in 1..Len(channel'[j]) :
              channel'[j][i] = IF i <= Len(channel[j]) THEN channel[j][i] ELSE m
         /\ channel[j] # <<>> => channel'[j] # <<>> /\ Head(channel'[j]) = Head(channel[j])
<1>1. channel \in [Jobs -> Seq(Messages)] /\ channel[j] \in Seq(Messages) /\ m \in Messages
  BY InputFacts DEF Types, StoreTypes
<1> DEFINE more == [i \in 1..n |-> m]
<1> HIDE DEF Messages
<1>2. channel' = [channel EXCEPT ![j] = channel[j] \o more]
  BY DEF Push
<1>3. more \in Seq(Messages) /\ Len(more) = n /\ \A i \in 1..n : more[i] = m
  BY <1>1
<1>4. channel'[j] = channel[j] \o more
  BY <1>1, <1>2
<1> HIDE DEF more
<1>5. /\ Len(channel'[j]) = Len(channel[j]) + n
      /\ \A i \in 1..Len(channel'[j]) :
           channel'[j][i] = IF i <= Len(channel[j]) THEN channel[j][i] ELSE m
  <2> DEFINE c == channel[j]
  <2>1. c \in Seq(Messages)
    BY <1>1
  <2> HIDE DEF c
  <2>2. Len(c \o more) = Len(c) + n
    BY <2>1, <1>3
  <2>3. ASSUME NEW i \in 1..Len(c \o more)
        PROVE  (c \o more)[i] = IF i <= Len(c) THEN c[i] ELSE m
    <3>1. CASE i <= Len(c)
      BY <2>1, <1>3, <3>1
    <3>2. CASE i > Len(c)
      <4>1. (c \o more)[i] = more[i - Len(c)] /\ i - Len(c) \in 1..n
        BY <2>1, <2>2, <1>3, <3>2
      <4> QED
        BY <1>3, <2>1, <3>2, <4>1
    <3> QED
      BY <2>1, <3>1, <3>2
  <2> QED
    BY <1>4, <2>2, <2>3 DEF c
<1>6. channel[j] # <<>> => channel'[j] # <<>> /\ Head(channel'[j]) = Head(channel[j])
  <2> SUFFICES ASSUME channel[j] # <<>>
               PROVE  channel'[j] # <<>> /\ Head(channel'[j]) = Head(channel[j])
    OBVIOUS
  <2>1. Len(channel[j]) \in Nat \ {0} /\ Head(channel[j]) = channel[j][1]
    BY <1>1
  <2>2. channel'[j] \in Seq(Messages)
    BY <1>1, <1>3, <1>4
  <2>3. Len(channel'[j]) \in Nat \ {0}
    BY <1>5, <2>1
  <2>4. channel'[j][1] = channel[j][1]
    BY <1>5, <2>1, <2>3
  <2> QED
    BY <2>1, <2>2, <2>3, <2>4
<1> QED
  BY <1>1, <1>2, <1>5, <1>6

LEMMA PopEntries ==
  ASSUME Types, NEW j \in Jobs, channel[j] # <<>>, channel' = [channel EXCEPT ![j] = Tail(channel[j])]
  PROVE  /\ \A k \in Jobs \ {j} : channel'[k] = channel[k]
         /\ Len(channel[j]) \in Nat \ {0} /\ Head(channel[j]) = channel[j][1]
         /\ Len(channel'[j]) = Len(channel[j]) - 1
         /\ \A i \in 1..Len(channel'[j]) : channel'[j][i] = channel[j][i + 1]
<1>1. channel \in [Jobs -> Seq(Messages)] /\ channel[j] \in Seq(Messages)
  BY DEF Types, StoreTypes
<1> HIDE DEF Messages
<1>2. channel'[j] = Tail(channel[j])
  BY <1>1
<1> QED
  BY <1>1, <1>2

\* What a replica pushes.
LEMMA WorkerPushes ==
  ASSUME Types, NEW w \in Workers, PushFragment(w) \/ PushFails(w) \/ ReportFailure(w)
  PROVE  /\ worker[w] \in AtWork
         /\ \/ UNCHANGED <<channel, copies>>
            \/ \E j \in Jobs, n \in 0..2 :
                 /\ j = worker[w].job
                 /\ \/ /\ worker[w].step = "push" /\ worker[w].at \in Fragment(j) /\ Push(j, worker[w].at, n)
                    \/ worker[w].step = "report" /\ Push(j, NoFragment, n)
<1>1. /\ worker[w] \in AtWork /\ worker[w].job \in Jobs /\ worker[w].at \in 0..MaxFragments
      /\ worker[w].at < size[worker[w].job] /\ size[worker[w].job] \in 1..MaxFragments
  BY InputFacts DEF Types, WorkerTypes, PushFragment, PushFails, ReportFailure, AtWork, Idle
<1>2. worker[w].at \in Fragment(worker[w].job)
  BY <1>1, Constants DEF Fragment
<1> QED
  BY <1>1, <1>2 DEF PushFragment, PushFails, ReportFailure

\* Where results are shared no entry is removed before the first expiry.
LEMMA SharedGrows ==
  ASSUME Types, Shared, [Next]_vars, ~expired', NEW j \in Jobs
  PROVE  /\ Len(channel'[j]) >= Len(channel[j])
         /\ \A i \in 1..Len(channel[j]) : channel'[j][i] = channel[j][i]
         /\ channel[j] # <<>> => channel'[j] # <<>> /\ Head(channel'[j]) = Head(channel[j])
<1>1. Len(channel[j]) \in Nat
  BY DEF Types, StoreTypes
<1>2. CASE UNCHANGED channel
  BY <1>1, <1>2
<1>3. ASSUME NEW w \in Workers, PushFragment(w) \/ PushFails(w) \/ ReportFailure(w)
      PROVE  /\ Len(channel'[j]) >= Len(channel[j])
             /\ \A i \in 1..Len(channel[j]) : channel'[j][i] = channel[j][i]
             /\ channel[j] # <<>> => channel'[j] # <<>> /\ Head(channel'[j]) = Head(channel[j])
  <2>0. SUFFICES ASSUME ~UNCHANGED <<channel, copies>>
                 PROVE  /\ Len(channel'[j]) >= Len(channel[j])
                        /\ \A i \in 1..Len(channel[j]) : channel'[j][i] = channel[j][i]
                        /\ channel[j] # <<>> => channel'[j] # <<>> /\ Head(channel'[j]) = Head(channel[j])
    BY <1>1
  <2>1. PICK k \in Jobs : \E m \in Fragment(k), n \in 0..2 : Push(k, m, n)
    BY <1>3, <2>0, WorkerPushes, InputFacts DEF Types
  <2>2. CASE k # j
    BY <1>1, <2>1, <2>2, PushEntries
  <2>3. CASE k = j
    <3>0. PICK m \in Fragment(j), n \in 0..2 : Push(j, m, n)
      BY <2>1, <2>3
    <3>1. /\ Len(channel'[j]) = Len(channel[j]) + n
          /\ \A i \in 1..Len(channel'[j]) :
               channel'[j][i] = IF i <= Len(channel[j]) THEN channel[j][i] ELSE m
          /\ channel[j] # <<>> => channel'[j] # <<>> /\ Head(channel'[j]) = Head(channel[j])
      BY <3>0, PushEntries
    <3> QED
      BY <1>1, <3>1
  <2> QED
    BY <2>2, <2>3
<1>4. ASSUME NEW r \in Requests, NEW k \in Jobs, FetchStep(r, k) \/ FetchFails(r, k)
      PROVE  UNCHANGED channel
  BY <1>4, FetchStepChanges DEF FetchChange, Shared
<1> QED
  BY <1>2, <1>3, <1>4, SubmitFrame, HandlerStays, ExpireStays, NextCases
     DEF WorkerNext, TakeTask, SinkRefuses, HandlerFrame, Expire, storeVars, vars

-----------------------------------------------------------------------------
(* WholeWhenShared. *)

Working(w, j) == worker[w].job = j
Unstarted(j)  == j \in todo[j[1]] \/ tasks[j] = 1
Reported(j)   == \E i \in 1..Len(channel[j]) : channel[j][i] = NoFragment

\* A job that is submitted once runs once: its replica starts on an empty channel,
\* and pushes fragments or one report of a failure.
Single(j) ==
  /\ tasks[j] \in {0, 1} /\ (j \in todo[j[1]] => tasks[j] = 0)
  /\ Unstarted(j) => Len(channel[j]) = 0 /\ \A w \in Workers : ~Working(w, j)
  /\ \A v, w \in Workers : Working(v, j) /\ Working(w, j) => v = w
  /\ \A w \in Workers : Working(w, j) => ~Reported(j) /\ (worker[w].at = 0 => Len(channel[j]) = 0)
  /\ Reported(j) => Len(channel[j]) = 1

\* Before the first Redis error no sink repeats its pushes.
Clean ==
  faults = 0 =>
    /\ \A w \in Workers : worker[w] \in AtWork =>
         worker[w].attempt = 1 /\ (worker[w].step = "report" => worker[w].at = 0)
    /\ \A j \in Jobs : kind[j[1]] # "split" => Single(j)

LEMMA WorkerFacts ==
  ASSUME Types, NEW w \in Workers
  PROVE  /\ worker[w] = Idle \/ worker[w] \in AtWork
         /\ \A j \in Jobs : Working(w, j) => worker[w] \in AtWork
         /\ Idle \notin AtWork /\ Idle.job \notin Jobs
<1>1. Idle \notin AtWork /\ Idle.job = NoJob /\ NoJob \notin Jobs
  BY Constants DEF Idle, AtWork
<1> QED
  BY <1>1 DEF Types, WorkerTypes, Working

\* What neither submits the job, nor starts or goes on with it.
LEMMA SingleStays ==
  ASSUME Types, NEW j \in Jobs, Single(j),
         tasks'[j] \in {0, tasks[j]}, j \in todo'[j[1]] => j \in todo[j[1]],
         \A w \in Workers : worker'[w].job = j => worker[w].job = j /\ worker'[w].at = worker[w].at,
         Len(channel'[j]) \in 0..Len(channel[j]),
         \A i \in 1..Len(channel'[j]) : \E k \in 1..Len(channel[j]) : channel'[j][i] = channel[j][k]
  PROVE  Single(j)'
<1>1. Unstarted(j)' => Unstarted(j)
  BY DEF Unstarted
<1>2. Reported(j)' => Reported(j) /\ Len(channel'[j]) # 0
  BY DEF Reported
<1>3. \A w \in Workers : Working(w, j)' => Working(w, j) /\ worker'[w].at = worker[w].at
  BY DEF Working
<1>4. Len(channel[j]) \in Nat
  BY DEF Types, StoreTypes
<1>5. tasks'[j] \in {0, 1} /\ (j \in todo'[j[1]] => tasks'[j] = 0)
  BY DEF Single
<1>6. Unstarted(j)' => Len(channel'[j]) = 0 /\ \A w \in Workers : ~Working(w, j)'
  BY <1>1, <1>3, <1>4 DEF Single
<1>7. \A v, w \in Workers : Working(v, j)' /\ Working(w, j)' => v = w
  BY <1>3 DEF Single
<1>8. \A w \in Workers : Working(w, j)' => ~Reported(j)' /\ (worker'[w].at = 0 => Len(channel'[j]) = 0)
  BY <1>2, <1>3, <1>4 DEF Single
<1>9. Reported(j)' => Len(channel'[j]) = 1
  <2>1. Reported(j) => Len(channel[j]) = 1
    BY DEF Single
  <2>2. Len(channel'[j]) \in 0..Len(channel[j])
    OBVIOUS
  <2>3. SUFFICES ASSUME Reported(j)' PROVE Len(channel'[j]) = 1
    OBVIOUS
  <2>4. Len(channel[j]) = 1 /\ Len(channel'[j]) # 0
    BY <1>2, <2>1, <2>3
  <2> QED
    BY <2>2, <2>4
<1> HIDE DEF Working, Reported, Unstarted
<1> QED
  BY <1>5, <1>6, <1>7, <1>8, <1>9, ZenonT(30) DEF Single

\* The same, when the channel of the job is left alone.
LEMMA SingleKept ==
  ASSUME Types, NEW j \in Jobs, Single(j), channel'[j] = channel[j],
         tasks'[j] \in {0, tasks[j]}, j \in todo'[j[1]] => j \in todo[j[1]],
         \A w \in Workers : worker'[w].job = j => worker[w].job = j /\ worker'[w].at = worker[w].at
  PROVE  Single(j)'
<1>1. Len(channel[j]) \in Nat
  BY DEF Types, StoreTypes
<1>2. Len(channel'[j]) \in 0..Len(channel[j])
  BY <1>1
<1>3. \A i \in 1..Len(channel'[j]) : \E k \in 1..Len(channel[j]) : channel'[j][i] = channel[j][k]
  OBVIOUS
<1> QED
  BY <1>2, <1>3, SingleStays

\* A replica goes on with its job.
LEMMA WorkerSingle ==
  ASSUME Types, Clean, faults = 0, UNCHANGED faults, NEW w \in Workers, WorkerNext(w),
         NEW j \in Jobs, Single(j)
  PROVE  Single(j)'
<1>1. /\ UNCHANGED todo /\ ~Fault /\ Len(channel[j]) \in Nat
      /\ worker \in [Workers -> {Idle} \union AtWork] /\ tasks \in [Jobs -> Nat]
      /\ \A v \in Workers : worker[v] \in AtWork => worker[v].attempt = 1 /\ (worker[v].step = "report" => worker[v].at = 0)
  BY WorkerFrame DEF Fault, Types, StoreTypes, WorkerTypes, SubmitTypes, Clean
<1> HIDE DEF AtWork, Idle
<1>2. CASE TakeTask(w)
  <2>1. PICK k \in Jobs :
          /\ tasks[k] > 0
          /\ tasks' = [tasks EXCEPT ![k] = @ - 1]
          /\ worker' = [worker EXCEPT ![w] = [step |-> "push", job |-> k, at |-> 0, attempt |-> 1]]
    BY <1>2 DEF TakeTask
  <2>2. channel' = channel
    BY <1>2 DEF TakeTask, storeVars
  <2>3. CASE k # j
    BY <1>1, <2>1, <2>2, <2>3, SingleKept
  <2>4. CASE k = j
    <3>1. /\ tasks[j] = 1 /\ tasks'[j] = 0 /\ Unstarted(j) /\ j \notin todo[j[1]]
      BY <1>1, <2>1, <2>4 DEF Single, Unstarted
    <3>2. Len(channel[j]) = 0 /\ ~Reported(j) /\ \A v \in Workers : ~Working(v, j)
      BY <1>1, <3>1 DEF Single, Reported
    <3>3. \A v \in Workers : Working(v, j)' => v = w
      BY <1>1, <2>1, <3>2 DEF Working
    <3>4. ~Unstarted(j)' /\ ~Reported(j)'
      BY <1>1, <2>2, <3>1, <3>2 DEF Unstarted, Reported
    <3> QED
      BY <1>1, <2>2, <3>1, <3>2, <3>3, <3>4 DEF Single
  <2> QED
    BY <2>3, <2>4
<1>3. CASE SinkRefuses(w)
  <2>1. worker[w] \in AtWork /\ worker'[w].job = worker[w].job /\ worker'[w].at = worker[w].at
    BY <1>1, <1>3, WorkerFacts DEF SinkRefuses, AtWork, Idle
  <2>2. \A v \in Workers : v # w => worker'[v] = worker[v]
    BY <1>1, <1>3 DEF SinkRefuses
  <2>3. UNCHANGED <<todo, tasks, channel>>
    BY <1>3 DEF SinkRefuses, submitVars, storeVars
  <2>4. \A v \in Workers : worker'[v].job = j => worker[v].job = j /\ worker'[v].at = worker[v].at
    BY <2>1, <2>2
  <2> QED
    BY <2>3, <2>4, SingleKept
<1>4. CASE PushFragment(w) \/ PushFails(w) \/ ReportFailure(w)
  <2>1. worker[w] \in AtWork /\ worker[w].attempt = 1 /\ (worker[w].step = "report" => worker[w].at = 0)
    BY <1>1, <1>4, WorkerPushes
  <2>2. /\ UNCHANGED tasks
        /\ \A v \in Workers : v # w => worker'[v] = worker[v]
        /\ worker'[w] = Idle \/ (worker'[w] = [worker[w] EXCEPT !.at = worker[w].at + 1] /\ PushFragment(w))
    BY <1>1, <1>4, <2>1 DEF PushFragment, PushFails, ReportFailure, submitVars
  <2>3. /\ worker[w].job \in Jobs /\ worker[w].at \in Nat /\ NoFragment # worker[w].at
        /\ worker'[w].job \in Jobs => worker'[w].job = worker[w].job /\ worker'[w].at = worker[w].at + 1
                                      /\ PushFragment(w)
    <3>0. /\ worker[w].job \in Jobs /\ worker[w].at \in 0..MaxFragments
          /\ size[worker[w].job] \in 1..MaxFragments /\ worker[w].at < size[worker[w].job]
      BY <2>1, InputFacts DEF Types, WorkerTypes, AtWork
    <3>1. worker[w].at \in 0..MaxFragments - 1
      BY <3>0, Constants
    <3> QED
      BY <2>1, <2>2, <3>1, WorkerFacts, Constants DEF AtWork
  <2>4. CASE worker[w].job # j \/ UNCHANGED channel
    <3>1. channel'[j] = channel[j]
      <4>1. CASE UNCHANGED <<channel, copies>>
        BY <4>1
      <4>2. CASE worker[w].job # j
        BY <1>4, <2>3, <4>1, <4>2, WorkerPushes, PushEntries, InputFacts DEF Types
      <4> QED
        BY <2>4, <4>1, <4>2
    <3>2. CASE worker'[w].job # j
      <4>1. \A v \in Workers : worker'[v].job = j => worker[v].job = j /\ worker'[v].at = worker[v].at
        BY <2>2, <3>2
      <4> QED
        BY <1>1, <2>2, <3>1, <4>1, SingleKept
    <3>3. CASE worker'[w].job = j
      <4>1. worker[w].job = j /\ PushFragment(w)
        BY <2>3, <3>3
      <4>2. Len(channel'[j]) = Len(channel[j]) + 1
        <5>1. Push(j, worker[w].at, 1)
          BY <1>1, <4>1 DEF PushFragment
        <5>2. worker[w].at \in Fragment(j)
          <6>1. worker[w].at < size[j] /\ size[j] \in Nat /\ worker[w].at \in Nat
            BY <2>1, <2>3, <4>1, InputFacts DEF Types, WorkerTypes
          <6> QED
            BY <6>1 DEF Fragment
        <5> QED
          BY <5>1, <5>2, PushEntries
      <4> QED
        BY <1>1, <3>1, <4>2
    <3> QED
      BY <3>2, <3>3
  <2>5. CASE worker[w].job = j /\ ~UNCHANGED channel
    <3>1. PICK m \in Fragment(j) :
            /\ Push(j, m, 1)
            /\ \/ PushFragment(w) /\ m = worker[w].at
               \/ ReportFailure(w) /\ worker[w].at = 0
      <4>1. worker[w].at \in Fragment(j) /\ NoFragment \in Fragment(j)
        BY <1>4, <2>1, <2>5, InputFacts DEF Fragment, AtWork, Types, WorkerTypes
      <4> QED
        BY <1>1, <1>4, <2>1, <2>5, <4>1 DEF PushFragment, PushFails, ReportFailure
    <3>2. /\ Len(channel'[j]) = Len(channel[j]) + 1
          /\ \A i \in 1..Len(channel'[j]) :
               channel'[j][i] = IF i <= Len(channel[j]) THEN channel[j][i] ELSE m
      BY <3>1, PushEntries
    <3>3. /\ ~Unstarted(j) /\ ~Reported(j) /\ tasks[j] \in {0, 1} /\ (worker[w].at = 0 => Len(channel[j]) = 0)
          /\ \A v \in Workers : Working(v, j) => v = w
      BY <2>5 DEF Single, Working
    <3>4. ~Unstarted(j)' /\ \A v \in Workers : Working(v, j)' => v = w
      BY <1>1, <2>2, <3>3 DEF Unstarted, Working
    <3>5. CASE PushFragment(w) /\ m = worker[w].at
      <4>1. ~Reported(j)'
        BY <1>1, <2>3, <3>2, <3>3, <3>5 DEF Reported
      <4>2. Working(w, j)' => worker'[w].at # 0
        BY <2>3 DEF Working
      <4> QED
        BY <1>1, <2>2, <3>3, <3>4, <4>1, <4>2 DEF Single, Unstarted
    <3>6. CASE ReportFailure(w) /\ worker[w].at = 0
      <4>1. Len(channel'[j]) = 1
        BY <3>2, <3>3, <3>6
      <4>2. worker'[w] = Idle /\ ~Working(w, j)'
        BY <1>1, <3>6, WorkerFacts DEF ReportFailure, Working
      <4> QED
        BY <1>1, <2>2, <3>3, <3>4, <4>1, <4>2 DEF Single, Unstarted
    <3> QED
      BY <3>1, <3>5, <3>6
  <2> QED
    BY <2>4, <2>5
<1> QED
  BY <1>2, <1>3, <1>4 DEF WorkerNext

\* A submission queues a job that is not split again, once.
LEMMA SubmitSingle ==
  ASSUME Types, Routes, ~Fault, NEW d \in Docs, SubmitNext(d), NEW j \in Jobs, kind[j[1]] # "split", Single(j)
  PROVE  Single(j)'
<1>1. /\ UNCHANGED <<channel, worker>> /\ Len(channel[j]) \in Nat
      /\ tasks \in [Jobs -> Nat] /\ todo \in [Docs -> SUBSET Jobs]
      /\ todo[d] \subseteq JobsOf(d)
  BY SubmitFrame DEF Types, SubmitTypes, StoreTypes, Routes, DocRoute, SubmitRoute
<1>2. CASE UNCHANGED <<todo, tasks>>
  BY <1>1, <1>2, SingleKept
<1>3. ASSUME NEW k \in Jobs, SubmitJob(d, k)
      PROVE  Single(j)'
  <2>1. /\ k \in todo[d] /\ k[1] = d /\ tasks' = [tasks EXCEPT ![k] = @ + 1]
    BY <1>1, <1>3, JobFacts DEF SubmitJob, JobsOf
  <2>2. /\ j \in todo'[j[1]] => j \in todo[j[1]] /\ j # k
    <3>1. CASE j[1] # d
      <4>1. j[1] \in Docs
        BY DEF Jobs
      <4> QED
        BY <1>1, <1>3, <2>1, <3>1, <4>1 DEF SubmitJob
    <3>2. CASE j[1] = d
      BY <1>1, <1>3, <2>1, <3>2 DEF SubmitJob
    <3> QED
      BY <3>1, <3>2
  <2>3. CASE j # k
    BY <1>1, <2>1, <2>2, <2>3, SingleKept
  <2>4. CASE j = k
    <3>1. /\ Unstarted(j) /\ tasks[j] = 0 /\ tasks'[j] = 1 /\ j \notin todo'[j[1]]
      BY <1>1, <2>1, <2>2, <2>4 DEF Unstarted, Single
    <3>2. Len(channel[j]) = 0 /\ ~Reported(j) /\ \A w \in Workers : ~Working(w, j)
      BY <1>1, <3>1 DEF Single, Reported
    <3>3. ~Reported(j)' /\ \A w \in Workers : ~Working(w, j)'
      BY <1>1, <3>2 DEF Reported, Working
    <3> QED
      BY <1>1, <3>1, <3>2, <3>3 DEF Single
  <2> QED
    BY <2>3, <2>4
<1> QED
  BY <1>2, <1>3 DEF SubmitNext, SubmitFails, RecordSubmitted, StoreSubjobs, StoreMetadata, MetadataRefused,
     MappingFails

LEMMA StepClean == Types /\ Routes /\ Clean /\ [Next]_vars => Clean'
<1> SUFFICES ASSUME Types, Routes, Clean, [Next]_vars, faults' = 0 PROVE Clean'
  BY DEF Clean
<1>1. /\ faults = 0 /\ faults' = faults /\ ~Fault /\ kind' = kind
  BY FaultsStay, InputsFixed DEF Fault, inputVars
<1>2. /\ \A w \in Workers : worker[w] \in AtWork =>
           worker[w].attempt = 1 /\ (worker[w].step = "report" => worker[w].at = 0)
      /\ \A j \in Jobs : kind[j[1]] # "split" => Single(j)
  BY <1>1 DEF Clean
<1>3. \A w \in Workers : worker'[w] \in AtWork =>
        worker'[w].attempt = 1 /\ (worker'[w].step = "report" => worker'[w].at = 0)
  <2>1. CASE UNCHANGED worker
    BY <1>2, <2>1
  <2>2. ASSUME NEW w \in Workers, WorkerNext(w)
        PROVE  /\ \A v \in Workers : v # w => worker'[v] = worker[v]
               /\ worker'[w] \in AtWork => worker'[w].attempt = 1 /\ (worker'[w].step = "report" => worker'[w].at = 0)
    <3>1. worker \in [Workers -> {Idle} \union AtWork] /\ Idle \notin AtWork
      BY WorkerFacts DEF Types, WorkerTypes
    <3>2. CASE TakeTask(w)
      BY <3>1, <3>2 DEF TakeTask
    <3>3. CASE SinkRefuses(w)
      <4>1. worker'[w].at = 0 /\ worker'[w].attempt = 1
        BY <3>1, <3>3 DEF SinkRefuses, AtWork, Idle
      <4> QED
        BY <3>1, <3>3, <4>1 DEF SinkRefuses
    <3>4. CASE ReportFailure(w)
      BY <3>1, <3>4 DEF ReportFailure
    <3>5. CASE PushFails(w)
      BY <1>1, <1>2, <3>5, WorkerPushes DEF PushFails
    <3>6. CASE PushFragment(w)
      <4>1. worker[w] \in AtWork /\ worker[w].attempt = 1 /\ worker[w].step = "push"
        BY <1>2, <3>6, WorkerPushes DEF PushFragment
      <4>2. /\ [worker[w] EXCEPT !.at = worker[w].at + 1].attempt = 1
            /\ [worker[w] EXCEPT !.at = worker[w].at + 1].step = "push"
        BY <4>1 DEF AtWork
      <4>3. \/ worker' = [worker EXCEPT ![w] = Idle]
            \/ worker' = [worker EXCEPT ![w] = [worker[w] EXCEPT !.at = worker[w].at + 1]]
        BY <3>6 DEF PushFragment
      <4> HIDE DEF AtWork, Idle
      <4> QED
        BY <3>1, <4>2, <4>3
    <3> QED
      BY <2>2, <3>2, <3>3, <3>4, <3>5, <3>6 DEF WorkerNext
  <2>3. Next => UNCHANGED worker \/ \E w \in Workers : WorkerNext(w)
    BY NextCases, SubmitFrame, FetchStepChanges, HandlerStays, ExpireStays DEF FetchFrame, HandlerFrame, Expire
  <2> QED
    BY <1>2, <2>1, <2>2, <2>3 DEF vars
<1>4. ASSUME NEW j \in Jobs, kind[j[1]] # "split"
      PROVE  Single(j)'
  <2>1. Single(j) /\ Len(channel[j]) \in Nat /\ tasks[j] \in Nat
    BY <1>2, <1>4 DEF Types, StoreTypes, SubmitTypes
  <2>2. CASE UNCHANGED <<todo, tasks, worker, channel>>
    BY <2>1, <2>2, SingleKept
  <2>3. ASSUME NEW r \in Requests, NEW k \in Jobs, FetchStep(r, k) \/ FetchFails(r, k)
        PROVE  Single(j)'
    <3>1. UNCHANGED <<todo, tasks, worker>>
      BY <2>3, FetchStepChanges DEF FetchFrame, submitVars
    <3>2. CASE channel'[j] = channel[j]
      BY <2>1, <3>1, <3>2, SingleKept
    <3>3. CASE channel[j] # <<>> /\ channel' = [channel EXCEPT ![j] = Tail(channel[j])]
      <4>1. /\ Len(channel[j]) \in Nat \ {0} /\ Len(channel'[j]) = Len(channel[j]) - 1
            /\ \A i \in 1..Len(channel'[j]) : channel'[j][i] = channel[j][i + 1]
        BY <3>3, PopEntries
      <4>2. \A i \in 1..Len(channel'[j]) : i + 1 \in 1..Len(channel[j])
        BY <4>1
      <4>3. \A i \in 1..Len(channel'[j]) : \E l \in 1..Len(channel[j]) : channel'[j][i] = channel[j][l]
        BY <4>1, <4>2
      <4>4. Len(channel'[j]) \in 0..Len(channel[j])
        BY <4>1
      <4> QED
        BY <2>1, <3>1, <4>3, <4>4, SingleStays
    <3>4. channel \in [Jobs -> Seq(Messages)]
      BY DEF Types, StoreTypes
    <3> QED
      BY <2>3, <3>2, <3>3, <3>4, FetchStepChanges DEF FetchChange
  <2>4. CASE Expiry
    <3>1. UNCHANGED <<todo, worker>> /\ tasks'[j] \in {0, tasks[j]}
      BY <2>4, ExpireStays DEF Expire, Expiry, ExpireTasks, ExpireState, ExpireMapping, ExpireChannel
    <3>2. channel'[j] = channel[j] \/ Len(channel'[j]) = 0
      BY <2>4, ExpireStays DEF ExpireChannel, Types, StoreTypes
    <3> QED
      BY <2>1, <3>1, <3>2, SingleKept, SingleStays
  <2>5. ASSUME NEW r \in Requests, HandlerNext(r)
        PROVE  UNCHANGED <<todo, tasks, worker, channel>>
    BY <2>5, HandlerStays DEF HandlerFrame, submitVars
  <2> QED
    BY <1>1, <1>4, <2>1, <2>2, <2>3, <2>4, <2>5, NextCases, SubmitSingle, WorkerSingle
       DEF vars, submitVars, storeVars
<1> QED
  BY <1>1, <1>3, <1>4 DEF Clean

\* Every fragment of the result of j is at the front of its channel.
Good(j) ==
  channel[j] # <<>> /\ Head(channel[j]) = 0 /\ LongEnough(j) /\ Prefix(j) = 0..size[j] - 1

Every(j) == [i \in 1..size[j] |-> i - 1]

\* What a fetch thread has found is whole, and still there until the first expiry.
FetchFound(r, j) ==
  /\ fetch[r][j].step = "rest" => size[j] # 1
  /\ fetch[r][j].step = "ok" => fetch[r][j].got = Every(j)
  /\ ~expired /\ fetch[r][j].step \in {"rest", "ok"} => channel[j] # <<>> /\ Head(channel[j]) = 0
  /\ ~expired /\ fetch[r][j].step = "ok" => Good(j)
  /\ faults = 0 => fetch[r][j].step # "error"

SharedReads ==
  Shared => /\ \A r \in Requests, j \in Jobs : FetchFound(r, j)
            /\ \A r \in Requests : request[r].whole /\ (faults = 0 => ~request[r].missing)

LEMMA GoodStays ==
  ASSUME Types, Shared, [Next]_vars, ~expired', NEW j \in Jobs, Good(j)
  PROVE  Good(j)'
<1>1. size' = size /\ size[j] \in Nat
  BY InputsFixed, InputFacts DEF inputVars, Types
<1>2. Len(channel[j]) \in Nat /\ Len(channel[j]) >= size[j]
  BY DEF Good, LongEnough, Types, StoreTypes
<1>3. /\ Len(channel'[j]) >= Len(channel[j])
      /\ \A i \in 1..Len(channel[j]) : channel'[j][i] = channel[j][i]
      /\ channel'[j] # <<>> /\ Head(channel'[j]) = Head(channel[j])
  BY SharedGrows DEF Good
<1>4. \A i \in 1..size[j] : channel'[j][i] = channel[j][i]
  BY <1>1, <1>2, <1>3
<1>5. Prefix(j)' = Prefix(j)
  BY <1>1, <1>4 DEF Prefix
<1>6. Len(channel'[j]) \in Nat
  BY StepTypes DEF Types, StoreTypes
<1> QED
  BY <1>1, <1>2, <1>3, <1>5, <1>6 DEF Good, LongEnough

LEMMA InitReads == Init => Clean /\ SharedReads
<1> SUFFICES ASSUME Init PROVE Clean /\ SharedReads
  OBVIOUS
<1>1. Idle \notin AtWork /\ Idle.job \notin Jobs
  BY Constants DEF Idle, AtWork
<1>2. Clean
  <2>1. \A w \in Workers : worker[w] = Idle
    BY DEF Init
  <2>2. \A j \in Jobs : tasks[j] = 0 /\ Len(channel[j]) = 0
    BY DEF Init
  <2> QED
    BY <1>1, <2>1, <2>2 DEF Clean, Single, Working, Reported
<1>3. SharedReads
  BY DEF Init, SharedReads, FetchFound, NoFetch, Unasked
<1> QED
  BY <1>2, <1>3

\* No result of a long PDF is ever fetched.
LEMMA FetchedKind ==
  ASSUME Types, Routes, NEW r \in Requests, NEW j \in Jobs, fetch[r][j].step # "off"
  PROVE  kind[j[1]] # "split"
<1>1. RequestRoute(r) /\ fetch[r][j] # NoFetch
  BY DEF Routes, NoFetch
<1>2. request[r].step = "fetch" /\ j \in Wanted(r) /\ request[r].doc \in Docs /\ submit[request[r].doc] = "done"
  BY <1>1 DEF RequestRoute, Types, RequestTypes
<1>3. kind[request[r].doc] # "split"
  BY <1>2 DEF Routes, DocRoute, SubmitRoute
<1> QED
  BY <1>2, <1>3, JobFacts DEF Wanted

\* What a fetch step finds, where results are shared.
LEMMA FetchFinds ==
  ASSUME Types, Routes, Clean, Shared, [Next]_vars, NEW r \in Requests, NEW j \in Jobs, FetchFound(r, j),
         FetchStep(r, j) \/ FetchFails(r, j)
  PROVE  FetchFound(r, j)'
<1>1. /\ mode = "NON_DESTRUCTIVE" /\ size' = size /\ channel' = channel
      /\ size[j] \in 1..MaxFragments
      /\ fetch \in [Requests -> [Jobs -> FetchStates]]
  BY InputsFixed, FetchStepChanges, InputFacts DEF Shared, FetchChange, Types, inputVars, FetchTypes
<1>2. Every(j)' = Every(j) /\ (Good(j)' <=> Good(j)) /\ (~expired' => ~expired)
  BY <1>1, FaultsStay DEF Every, Good, LongEnough, Prefix
<1>3. \A f : SetFetch(r, j, f) => fetch'[r][j] = f
  BY <1>1 DEF SetFetch
<1>4. fetch[r][j] \in FetchStates /\ fetch[r][j].step \in {"first", "rest"}
  BY <1>1, FetchStepChanges
<1>5. faults' = 0 => faults = 0 /\ faults' = faults
  BY FaultsStay
<1>6. CASE fetch'[r][j] = [fetch[r][j] EXCEPT !.polled = TRUE]
  <2>1. fetch'[r][j].step = fetch[r][j].step
    BY <1>4, <1>6 DEF FetchStates
  <2> QED
    BY <1>1, <1>2, <1>4, <2>1 DEF FetchFound
<1>7. CASE fetch'[r][j] = [fetch[r][j] EXCEPT !.step = "timeout"]
  <2>1. fetch'[r][j].step = "timeout"
    BY <1>4, <1>7 DEF FetchStates
  <2> QED
    BY <2>1 DEF FetchFound
<1>8. CASE PollFirst(r, j) /\ channel[j] # <<>> /\ Head(channel[j]) = 0
  <2>1. CASE size[j] = 1
    <3>1. fetch'[r][j].step = "ok" /\ fetch'[r][j].got = <<0>>
      BY <1>3, <1>8, <2>1 DEF PollFirst
    <3>2. <<0>> = Every(j)
      BY <2>1 DEF Every
    <3>3. Good(j)
      <4>1. Len(channel[j]) \in Nat \ {0} /\ Head(channel[j]) = channel[j][1]
        BY <1>8 DEF Types, StoreTypes
      <4>2. Prefix(j) = {0}
        BY <1>8, <2>1, <4>1 DEF Prefix
      <4> QED
        BY <1>8, <2>1, <4>1, <4>2 DEF Good, LongEnough
    <3> QED
      BY <1>1, <1>2, <1>8, <3>1, <3>2, <3>3 DEF FetchFound
  <2>2. CASE size[j] # 1
    <3>1. fetch'[r][j].step = "rest"
      BY <1>3, <1>8, <2>2 DEF PollFirst
    <3> QED
      BY <1>1, <1>8, <2>2, <3>1 DEF FetchFound
  <2> QED
    BY <2>1, <2>2
<1>9. CASE PollRest(r, j) /\ LongEnough(j) /\ Prefix(j) = 0..size[j] - 1
  <2>1. ~expired => channel[j] # <<>> /\ Head(channel[j]) = 0
    BY <1>9 DEF PollRest, FetchFound
  <2>2. ~expired => Good(j)
    BY <1>9, <2>1 DEF Good
  <2>3. NoFragment \notin Prefix(j)
    BY <1>1, <1>9, Constants
  <2>4. fetch'[r][j] = [step |-> "ok", got |-> Every(j), polled |-> FALSE]
    BY <1>3, <1>9, <2>3 DEF PollRest, Every
  <2> QED
    BY <1>1, <1>2, <2>1, <2>2, <2>4 DEF FetchFound
<1>10. CASE PollRest(r, j) /\ LongEnough(j) /\ NoFragment \in Prefix(j)
  <2>1. fetch'[r][j].step = "error"
    BY <1>3, <1>4, <1>10 DEF PollRest, FetchStates
  <2>2. faults # 0
    <3>1. Len(channel[j]) \in Nat /\ Len(channel[j]) >= size[j] /\ size[j] # 1
      BY <1>10 DEF LongEnough, Types, StoreTypes, PollRest, FetchFound
    <3>2. Reported(j)
      BY <1>1, <1>10, <3>1 DEF Prefix, Reported
    <3>3. kind[j[1]] # "split"
      BY <1>4, FetchedKind
    <3>4. faults = 0 => Len(channel[j]) = 1
      BY <3>2, <3>3 DEF Clean, Single
    <3>5. size[j] \in 1..MaxFragments /\ MaxFragments \in Nat
      BY <1>1, Constants
    <3>6. Len(channel[j]) # 1
      <4> DEFINE l == Len(channel[j])
                 s == size[j]
      <4>1. l \in Nat /\ s \in Nat /\ l >= s /\ s # 1 /\ s # 0
        BY <3>1, <3>5
      <4> HIDE DEF l, s
      <4> QED
        <5>1. l # 1
          BY <4>1
        <5> QED
          BY <5>1, Zenon DEF l
    <3> QED
      BY <3>4, <3>6, Zenon
  <2> QED
    BY <1>5, <2>1, <2>2 DEF FetchFound
<1>11. CASE FetchFails(r, j)
  <2>1. faults' # 0
    BY <1>5, <1>11 DEF FetchFails, Fault, Types, HistoryTypes
  <2>2. fetch'[r][j].step \in {"first", "error"}
    BY <1>3, <1>4, <1>11 DEF FetchFails, Fresh, NoFetch, FetchStates
  <2> QED
    BY <2>1, <2>2 DEF FetchFound
<1> QED
  <2>1. CASE PollFirst(r, j)
    BY <1>3, <1>6, <1>8, <2>1 DEF PollFirst
  <2>2. CASE PollRest(r, j)
    BY <1>3, <1>6, <1>9, <1>10, <2>2 DEF PollRest
  <2>3. CASE PollTimesOut(r, j)
    BY <1>3, <1>7, <2>3 DEF PollTimesOut
  <2> QED
    BY <1>1, <1>11, <2>1, <2>2, <2>3 DEF FetchStep, PopFirst, PopNext, PopTimesOut

LEMMA WholeEvery ==
  ASSUME InputTypes, NEW j \in Jobs
  PROVE  WholeResult(j, Every(j))
<1>1. size[j] \in Nat \ {0}
  BY InputFacts
<1>2. Len(Every(j)) = size[j] /\ DOMAIN Every(j) = 1..size[j]
  BY <1>1 DEF Every
<1>3. \A i \in 1..size[j] : Every(j)[i] = i - 1
  BY DEF Every
<1>4. {Every(j)[i] : i \in DOMAIN Every(j)} = 0..size[j] - 1
  <2>1. \A x \in 0..size[j] - 1 : x + 1 \in 1..size[j] /\ (x + 1) - 1 = x
    BY <1>1
  <2>2. \A i \in 1..size[j] : i - 1 \in 0..size[j] - 1
    BY <1>1
  <2> DEFINE e == Every(j)
  <2>3. DOMAIN e = 1..size[j] /\ \A i \in 1..size[j] : e[i] = i - 1
    BY <1>2, <1>3
  <2> HIDE DEF e
  <2>4. {e[i] : i \in DOMAIN e} = 0..size[j] - 1
    BY <1>1, <2>1, <2>2, <2>3
  <2> QED
    BY <2>4 DEF e
<1> QED
  BY <1>2, <1>4 DEF WholeResult

LEMMA HandlerReads ==
  ASSUME Types, Routes, Shared, SharedReads, [Next]_vars, NEW r \in Requests, HandlerNext(r)
  PROVE  /\ request'[r].whole /\ (faults' = 0 => ~request'[r].missing)
         /\ \A j \in Jobs : fetch'[r][j] = fetch[r][j] \/ fetch'[r][j].step \in {"first", "off"}
<1> DEFINE q == request[r]
<1>1. /\ q \in RequestStates /\ request \in [Requests -> RequestStates]
      /\ fetch \in [Requests -> [Jobs -> FetchStates]]
  BY DEF Types, RequestTypes, FetchTypes
<1>2. \A rec : Handling(r, rec) => request'[r] = rec
  BY <1>1 DEF Handling
<1>3. q.whole /\ (faults' = 0 => ~q.missing)
  BY FaultsStay DEF SharedReads
<1>4. \A j \in Jobs : fetch'[r][j] = fetch[r][j] \/ fetch'[r][j].step \in {"first", "off"}
  <2>1. NoFetch.step = "off" /\ Fresh.step = "first"
    BY DEF NoFetch, Fresh
  <2>2. UNCHANGED fetch \/ Forget(r) \/ \E js : Open(r, js)
    BY DEF HandlerNext, Ask, ReadInfo, ReadState, ReadSubjobStates, NotReady, FetchError, Deliver
  <2> QED
    BY <1>1, <2>1, <2>2 DEF Forget, Open
<1>5. CASE Ask(r)
  <2>1. PICK s, d, b : Handling(r, ToAsked(Unasked, s, d, b))
    BY <1>5 DEF Ask, ToAsked
  <2>2. \A t, e, c : ToAsked(Unasked, t, e, c).whole /\ ~ToAsked(Unasked, t, e, c).missing
    BY DEF ToAsked, Unasked
  <2>3. request'[r] = ToAsked(Unasked, s, d, b)
    BY <1>2, <2>1
  <2> QED
    BY <1>4, <2>2, <2>3
<1>6. CASE ReadInfo(r) \/ ReadState(r) \/ NotReady(r) \/ FetchError(r)
  <2>1. \/ \E s : request'[r] = ToStep(q, s)
        \/ \E s, v : request'[r] = ToVia(q, s, v)
        \/ \E s, x : request'[r] = ToSeen(q, s, x)
        \/ \E s, n : request'[r] = ToAnswer(q, s, n)
    <3>1. CASE ReadInfo(r)
      BY <1>2, <3>1 DEF ReadInfo, ToStep, ToVia
    <3>2. CASE ReadState(r)
      BY <1>2, <3>2 DEF ReadState, Answer, ToSeen, ToAnswer
    <3>3. CASE NotReady(r) \/ FetchError(r)
      <4>1. PICK n : Handling(r, ToAnswer(q, "idle", n))
        BY <3>3, ZenonT(40) DEF NotReady, FetchError, Answer, ToAnswer
      <4> QED
        BY <1>2, <4>1
    <3> QED
      BY <1>6, <3>1, <3>2, <3>3
  <2>2. request'[r].whole = q.whole /\ request'[r].missing = q.missing
    <3>1. q \in RequestStates
      BY <1>1
    <3> HIDE DEF q
    <3>2. \A s, v : /\ ToStep(q, s).whole = q.whole /\ ToStep(q, s).missing = q.missing
                    /\ ToVia(q, s, v).whole = q.whole /\ ToVia(q, s, v).missing = q.missing
                    /\ ToSeen(q, s, v).whole = q.whole /\ ToSeen(q, s, v).missing = q.missing
                    /\ ToAnswer(q, s, v).whole = q.whole /\ ToAnswer(q, s, v).missing = q.missing
      BY <3>1, AnswerFields, MoveFields
    <3> QED
      BY <2>1, <3>2
  <2> QED
    BY <1>3, <1>4, <2>2
<1>7. CASE ReadSubjobStates(r)
  <2>1. {j \in Subjobs(q.doc) : jobState[j] = "FAILED"} = {}
    <3>1. q.doc \in Docs
      BY <1>7 DEF ReadSubjobStates, Types, RequestTypes
    <3> QED
      BY <3>1 DEF Routes, DocRoute
  <2>2. \/ request'[r] = ToAnswer(q, "idle", 202)
        \/ request'[r] = ToMissing(q, "fetch", FALSE)
    <3>1. CASE \E j \in Subjobs(q.doc) : jobState[j] \in Intermediate
      BY <1>2, <1>7, <3>1 DEF ReadSubjobStates, Answer, ToAnswer
    <3>2. CASE ~ \E j \in Subjobs(q.doc) : jobState[j] \in Intermediate
      <4>1. Handling(r, [q EXCEPT !.step = "fetch",
                                  !.missing = {j \in Subjobs(q.doc) : jobState[j] = "FAILED"} # {}])
        BY <1>7, <3>2 DEF ReadSubjobStates
      <4>2. ({j \in Subjobs(q.doc) : jobState[j] = "FAILED"} # {}) = FALSE
        BY <2>1
      <4>3. Handling(r, ToMissing(q, "fetch", FALSE))
        BY <4>1, <4>2 DEF ToMissing
      <4> QED
        BY <1>2, <4>3
    <3> QED
      BY <3>1, <3>2
  <2>3. CASE request'[r] = ToAnswer(q, "idle", 202)
    <3>1. request'[r].whole = q.whole /\ request'[r].missing = q.missing
      BY <1>1, <2>3, AnswerFields
    <3> QED
      BY <1>3, <1>4, <3>1
  <2>4. CASE request'[r] = ToMissing(q, "fetch", FALSE)
    <3>1. request'[r].whole = q.whole /\ request'[r].missing = FALSE
      BY <1>1, <2>4 DEF ToMissing, RequestStates
    <3> QED
      BY <1>3, <1>4, <3>1
  <2> QED
    BY <2>2, <2>3, <2>4
<1>8. CASE Deliver(r)
  <2> DEFINE b == \A j \in With(r, "ok") : WholeResult(j, fetch[r][j].got)
             c == q.missing \/ With(r, "error") # {}
  <2>1. b
    <3> SUFFICES ASSUME NEW j \in With(r, "ok") PROVE WholeResult(j, fetch[r][j].got)
      OBVIOUS
    <3>1. j \in Jobs /\ fetch[r][j].got = Every(j)
      BY DEF With, SharedReads, FetchFound
    <3> QED
      BY <3>1, WholeEvery DEF Types
  <2>2. faults' = 0 => ~c
    <3>1. faults' = 0 => faults = 0
      BY FaultsStay
    <3>2. faults = 0 => With(r, "error") = {}
      BY DEF With, SharedReads, FetchFound
    <3> QED
      BY <1>3, <3>1, <3>2
  <2>3. Handling(r, Answered200(q, "idle", b, c))
    BY <1>8 DEF Deliver, Answered200
  <2>5. b \in BOOLEAN /\ c \in BOOLEAN
    OBVIOUS
  <2> HIDE DEF b, c
  <2>4. request'[r] = Answered200(q, "idle", b, c)
    BY <1>2, <2>3
  <2> HIDE DEF q
  <2>6. request'[r].whole = b /\ request'[r].missing = c
    BY <1>1, <2>4, DeliverFields
  <2>7. request'[r].whole /\ (faults' = 0 => ~request'[r].missing)
    BY <2>1, <2>2, <2>5, <2>6, Zenon
  <2> QED
    BY <1>4, <2>7
<1> QED
  BY <1>5, <1>6, <1>7, <1>8 DEF HandlerNext

LEMMA StepReads == Types /\ Routes /\ Clean /\ SharedReads /\ [Next]_vars => SharedReads'
<1> SUFFICES ASSUME Types, Routes, Clean, SharedReads, [Next]_vars PROVE SharedReads'
  OBVIOUS
<1> SUFFICES ASSUME Shared
             PROVE  /\ \A r \in Requests, j \in Jobs : FetchFound(r, j)'
                    /\ \A r \in Requests : request'[r].whole /\ (faults' = 0 => ~request'[r].missing)
  <2>1. mode' = mode
    BY InputsFixed DEF inputVars
  <2>2. Shared' <=> Shared
    BY <2>1 DEF Shared
  <2> QED
    BY <2>2 DEF SharedReads
<1>1. faults' = 0 => faults = 0
  BY FaultsStay
<1>2. ASSUME NEW r \in Requests, NEW j \in Jobs, fetch'[r][j] = fetch[r][j]
      PROVE  FetchFound(r, j)'
  <2>1. FetchFound(r, j) /\ size' = size
    BY InputsFixed DEF SharedReads, inputVars
  <2>2. ~expired' => ~expired
    BY FaultsStay
  <2>3. ~expired' /\ channel[j] # <<>> => channel'[j] # <<>> /\ Head(channel'[j]) = Head(channel[j])
    BY SharedGrows
  <2>4. ~expired' /\ fetch[r][j].step = "ok" => Good(j)'
    BY <2>1, <2>2, GoodStays DEF FetchFound
  <2> QED
    BY <1>1, <1>2, <2>1, <2>2, <2>3, <2>4 DEF FetchFound, Every
<1>3. ASSUME NEW r \in Requests, NEW j \in Jobs, fetch'[r][j].step \in {"first", "off"}
      PROVE  FetchFound(r, j)'
  BY <1>3 DEF FetchFound
<1>4. ASSUME NEW r \in Requests, request'[r] = request[r]
      PROVE  request'[r].whole /\ (faults' = 0 => ~request'[r].missing)
  BY <1>1, <1>4 DEF SharedReads
<1>5. CASE UNCHANGED <<request, fetch>>
  BY <1>2, <1>4, <1>5
<1>6. ASSUME NEW s \in Requests, HandlerNext(s)
      PROVE  /\ \A r \in Requests, j \in Jobs : FetchFound(r, j)'
             /\ \A r \in Requests : request'[r].whole /\ (faults' = 0 => ~request'[r].missing)
  <2>1. \A r \in Requests \ {s} : request'[r] = request[r] /\ fetch'[r] = fetch[r]
    BY <1>6, OthersKeep DEF RequestNext
  <2> QED
    BY <1>2, <1>3, <1>4, <1>6, <2>1, HandlerReads
<1>7. ASSUME NEW s \in Requests, NEW k \in Jobs, FetchStep(s, k) \/ FetchFails(s, k)
      PROVE  /\ \A r \in Requests, j \in Jobs : FetchFound(r, j)'
             /\ request' = request
  <2>1. request' = request /\ FetchFound(s, k)
    BY <1>7, FetchStepChanges DEF FetchFrame, SharedReads
  <2>2. \A r \in Requests, j \in Jobs : (r = s /\ j = k) \/ fetch'[r][j] = fetch[r][j]
    BY <1>7, FetchStepChanges DEF FetchChange, SetFetch, Types, FetchTypes
  <2>3. FetchFound(s, k)'
    BY <1>7, <2>1, FetchFinds
  <2> QED
    BY <1>2, <2>1, <2>2, <2>3
<1> QED
  <2>1. CASE \E d \in Docs : SubmitNext(d)
    BY <1>5, <2>1, SubmitFrame
  <2>2. CASE \E w \in Workers : WorkerNext(w)
    BY <1>5, <2>2, WorkerFrame
  <2>3. CASE Expiry
    BY <1>5, <2>3, ExpireStays DEF Expire
  <2>4. CASE UNCHANGED vars
    BY <1>5, <2>4 DEF vars
  <2> QED
    BY <1>4, <1>6, <1>7, <2>1, <2>2, <2>3, <2>4, NextCases

\* In the mode that leaves results in place an answer 200 is whole, and without a
\* Redis error nothing is missing from it.
THEOREM SharedResultsWhole == Spec => []WholeWhenShared
<1>1. Init => Types /\ Routes /\ Clean /\ SharedReads
  BY InitTypes, InitRoutes, InitReads
<1>2. Types /\ Routes /\ Clean /\ SharedReads /\ [Next]_vars => (Types /\ Routes /\ Clean /\ SharedReads)'
  BY StepTypes, StepRoutes, StepClean, StepReads
<1>3. SharedReads => WholeWhenShared
  BY DEF SharedReads, WholeWhenShared
<1> QED
  BY <1>1, <1>2, <1>3, PTL DEF Spec

-----------------------------------------------------------------------------
(* What is stored about a document, as long as Redis does not fail and no key *)
(* expires: the submit handler's place says which keys it has written.        *)

Mapped(d) ==
  IF IsSplit(d)
    THEN IF submit[d] \in {"metadata", "failed"} THEN {"subjobs"}
         ELSE IF submit[d] \in {"state", "done"} THEN {"subjobs", "metadata"} ELSE {}
    ELSE IF kind[d] = "pdf" /\ submit[d] = "done" THEN {"metadata"} ELSE {}

StoredDoc(d) ==
  /\ mapping[d] = Mapped(d)
  /\ submit[d] = "done" \/ (submit[d] = "metadata" /\ kind[d] = "pdf") => jobState[Parent(d)] # "none"

\* The kind of a document decides how a request for it is handled.
StoredRequest(r) ==
  /\ request[r].step = "state" => kind[request[r].doc] = "plain"
  /\ request[r].step = "fetch" => (request[r].via = "parent" <=> IsSplit(request[r].doc))

Stored == Quiet => (\A d \in Docs : StoredDoc(d)) /\ (\A r \in Requests : StoredRequest(r))

LEMMA InitStored == Init => Stored
BY DEF Init, Stored, StoredDoc, StoredRequest, Mapped, Unasked

LEMMA SubmitStores ==
  ASSUME Types, Routes, NEW d \in Docs, SubmitNext(d), ~Fault, \A e \in Docs : StoredDoc(e), NEW e \in Docs
  PROVE  StoredDoc(e)'
<1>1. /\ kind' = kind /\ kind[e] \in KindValues /\ DocRoute(e)
      /\ submit \in [Docs -> {"first", "second", "subjobs", "metadata", "state", "done", "failed"}]
      /\ mapping \in [Docs -> SUBSET {"subjobs", "metadata"}] /\ jobState \in [Jobs -> States]
      /\ StoredDoc(e)
  BY SubmitFrame, InputFacts DEF Types, SubmitTypes, StoreTypes, Routes, inputVars
<1>0. (IsSplit(e)' <=> IsSplit(e)) /\ (IsSplit(e) <=> kind[e] \in {"split", "media"})
  BY <1>1 DEF IsSplit
<1>2. CASE d # e
  <2>1. submit'[e] = submit[e]
    BY <1>1, <1>2 DEF SubmitNext, SubmitJob, SubmitFails, RecordSubmitted, StoreSubjobs, StoreMetadata,
       MetadataRefused, MappingFails
  <2>2. mapping'[e] = mapping[e]
    BY <1>1, <1>2 DEF SubmitNext, SubmitJob, SubmitFails, RecordSubmitted, StoreSubjobs, StoreMetadata,
       MetadataRefused, MappingFails, storeVars
  <2>3. jobState'[Parent(e)] = jobState[Parent(e)]
    BY <1>1, <1>2, SubmitFrame, JobFacts
  <2> QED
    BY <1>0, <1>1, <2>1, <2>2, <2>3 DEF StoredDoc, Mapped
<1>3. CASE d = e
  <2>1. ASSUME NEW j \in Jobs, SubmitJob(d, j)
        PROVE  StoredDoc(e)'
    <3>1. submit[e] \in {"first", "second"} /\ UNCHANGED <<mapping, jobState>>
      BY <1>3, <2>1 DEF SubmitJob, storeVars
    <3>2. \/ submit'[e] \in {"first", "second", "subjobs"}
          \/ submit'[e] = "state" /\ ~IsSplit(e)
      BY <1>1, <1>3, <2>1 DEF SubmitJob
    <3> QED
      BY <1>0, <1>1, <3>1, <3>2 DEF StoredDoc, Mapped
  <2>2. CASE RecordSubmitted(d)
    <3>1. submit'[e] = AfterState(e) /\ submit[e] = "state" /\ UNCHANGED mapping
      BY <1>1, <1>3, <2>2 DEF RecordSubmitted
    <3>2. jobState'[Parent(e)] = "SUBMITTED"
      BY <1>1, <1>3, <2>2, JobFacts DEF RecordSubmitted
    <3> QED
      BY <1>0, <1>1, <3>1, <3>2 DEF StoredDoc, Mapped, AfterState
  <2>3. CASE StoreSubjobs(d)
    <3>1. /\ submit[e] = "subjobs" /\ submit'[e] = "metadata" /\ mapping'[e] = mapping[e] \union {"subjobs"}
          /\ jobState' = jobState
      BY <1>1, <1>3, <2>3 DEF StoreSubjobs
    <3> QED
      BY <1>0, <1>1, <3>1 DEF StoredDoc, Mapped, DocRoute, SubmitRoute
  <2>4. CASE StoreMetadata(d)
    <3>1. /\ submit[e] = "metadata" /\ submit'[e] = AfterMapping(e)
          /\ mapping'[e] = mapping[e] \union {"metadata"} /\ jobState' = jobState
      BY <1>1, <1>3, <2>4 DEF StoreMetadata
    <3> QED
      BY <1>0, <1>1, <3>1 DEF StoredDoc, Mapped, DocRoute, SubmitRoute, AfterMapping, KindValues
  <2>5. CASE MetadataRefused(d)
    <3>1. /\ submit[e] = "metadata" /\ submit'[e] = "failed" /\ kind[e] = "split"
          /\ UNCHANGED <<mapping, jobState>>
      BY <1>1, <1>3, <2>5 DEF MetadataRefused, storeVars
    <3> QED
      BY <1>0, <1>1, <3>1 DEF StoredDoc, Mapped
  <2> QED
    BY <2>1, <2>2, <2>3, <2>4, <2>5 DEF SubmitNext, SubmitFails, MappingFails
<1> QED
  BY <1>2, <1>3

LEMMA HandlerStored ==
  ASSUME Types, Routes, NEW r \in Requests, HandlerNext(r), ~Fault,
         \A d \in Docs : StoredDoc(d), StoredRequest(r)
  PROVE  StoredRequest(r)'
<1> DEFINE q == request[r]
<1>1. /\ kind' = kind /\ q \in RequestStates /\ request \in [Requests -> RequestStates]
      /\ RequestRoute(r) /\ (q.step # "idle" => q.doc \in Docs)
  BY HandlerStays DEF HandlerFrame, inputVars, Types, RequestTypes, Routes
<1>0. /\ \A d : (IsSplit(d)' <=> IsSplit(d)) /\ (IsSplit(d) <=> kind[d] \in {"split", "media"})
  BY <1>1 DEF IsSplit
<1>2. \A rec : Handling(r, rec) => request'[r] = rec
  BY <1>1 DEF Handling
<1>3. CASE Ask(r)
  <2>0. PICK d \in Docs : \E b : Handling(r, ToAsked(Unasked, IF kind[d] = "plain" THEN "state" ELSE "info", d, b))
    BY <1>3 DEF Ask, ToAsked
  <2>1. PICK b : Handling(r, ToAsked(Unasked, IF kind[d] = "plain" THEN "state" ELSE "info", d, b))
    BY <2>0
  <2>2. request'[r] = ToAsked(Unasked, IF kind[d] = "plain" THEN "state" ELSE "info", d, b)
    BY <1>2, <2>1
  <2>3. \A s : ToAsked(Unasked, s, d, b).step = s /\ ToAsked(Unasked, s, d, b).doc = d
    BY DEF ToAsked, Unasked
  <2>4. /\ request'[r].step = IF kind[d] = "plain" THEN "state" ELSE "info"
        /\ request'[r].doc = d
    BY <2>2, <2>3
  <2> QED
    BY <1>1, <2>4 DEF StoredRequest
<1>4. CASE ReadInfo(r)
  <2>1. /\ q.doc \in Docs /\ kind[q.doc] # "plain" /\ submit[q.doc] = "done"
        /\ mapping[q.doc] = IF IsSplit(q.doc) THEN {"subjobs", "metadata"} ELSE {"metadata"}
    BY <1>0, <1>1, <1>4, InputFacts DEF ReadInfo, RequestRoute, StoredDoc, Mapped, Types, KindValues
  <2>2. \/ mapping[q.doc] = {"metadata"} /\ Handling(r, ToVia(q, "fetch", "pdf"))
        \/ mapping[q.doc] = {"subjobs", "metadata"} /\ Handling(r, ToVia(q, "subjobs", "parent"))
    BY <1>4, <2>1 DEF ReadInfo, ToVia
  <2>3. \A s, v : ToVia(q, s, v).step = s /\ ToVia(q, s, v).via = v /\ ToVia(q, s, v).doc = q.doc
    BY <1>1 DEF ToVia, RequestStates
  <2>4. /\ request'[r].doc = q.doc
        /\ \/ ~IsSplit(q.doc) /\ request'[r].step = "fetch" /\ request'[r].via = "pdf"
           \/ request'[r].step = "subjobs"
    BY <1>2, <2>1, <2>2, <2>3
  <2> QED
    BY <1>0, <1>1, <2>4 DEF StoredRequest
<1>5. CASE ReadState(r)
  <2>1. q.via = "plain" /\ kind[q.doc] = "plain"
    BY <1>1, <1>5 DEF ReadState, RequestRoute, StoredRequest
  <2>2. \/ \E n : Handling(r, ToAnswer(q, "idle", n))
        \/ \E x : Handling(r, ToSeen(q, "fetch", x))
    BY <1>5 DEF ReadState, Answer, ToAnswer, ToSeen
  <2>3. \A x : ToSeen(q, "fetch", x).via = q.via /\ ToSeen(q, "fetch", x).doc = q.doc
    BY <1>1 DEF ToSeen, RequestStates
  <2>4. \/ request'[r].step = "idle"
        \/ request'[r].via = q.via /\ request'[r].doc = q.doc /\ request'[r].step # "state"
    <3>1. \A x : ToSeen(q, "fetch", x).step = "fetch"
      BY <1>1 DEF ToSeen, RequestStates
    <3>2. \A n : ToAnswer(q, "idle", n).step = "idle"
      BY <1>1, AnswerFields
    <3> QED
      BY <1>2, <2>2, <2>3, <3>1, <3>2
  <2> QED
    BY <1>0, <1>1, <2>1, <2>4 DEF StoredRequest
<1>6. CASE ReadSubjobStates(r)
  <2>1. q.via = "parent" /\ IsSplit(q.doc)
    BY <1>1, <1>6 DEF ReadSubjobStates, RequestRoute
  <2>2. \/ \E n : Handling(r, ToAnswer(q, "idle", n))
        \/ \E b : Handling(r, ToMissing(q, "fetch", b))
    BY <1>6 DEF ReadSubjobStates, Answer, ToAnswer, ToMissing
  <2>3. \A b : /\ ToMissing(q, "fetch", b).via = q.via /\ ToMissing(q, "fetch", b).doc = q.doc
               /\ ToMissing(q, "fetch", b).step = "fetch"
    BY <1>1 DEF ToMissing, RequestStates
  <2>4. \/ request'[r].step = "idle"
        \/ request'[r].via = q.via /\ request'[r].doc = q.doc /\ request'[r].step = "fetch"
    <3>1. \A n : ToAnswer(q, "idle", n).step = "idle"
      BY <1>1, AnswerFields
    <3> QED
      BY <1>2, <2>2, <2>3, <3>1
  <2> QED
    BY <1>0, <1>1, <2>1, <2>4 DEF StoredRequest
<1>7. CASE NotReady(r) \/ FetchError(r) \/ Deliver(r)
  <2>1. request'[r].step = "idle"
    <3>1. CASE NotReady(r) \/ FetchError(r)
      <4>1. PICK n : Handling(r, ToAnswer(q, "idle", n))
        BY <3>1, ZenonT(40) DEF NotReady, FetchError, Answer, ToAnswer
      <4> QED
        BY <1>1, <1>2, <4>1, AnswerFields
    <3>2. CASE Deliver(r)
      <4> DEFINE b == \A j \in With(r, "ok") : WholeResult(j, fetch[r][j].got)
      <4> DEFINE c == q.missing \/ With(r, "error") # {}
      <4>1. Handling(r, Answered200(q, "idle", b, c))
        BY <3>2 DEF Deliver, Answered200
      <4> HIDE DEF b, c
      <4> QED
        BY <1>1, <1>2, <4>1, DeliverFields
    <3> QED
      BY <1>7, <3>1, <3>2
  <2> QED
    BY <2>1 DEF StoredRequest
<1> QED
  BY <1>3, <1>4, <1>5, <1>6, <1>7 DEF HandlerNext

LEMMA StepStored == Types /\ Routes /\ Stored /\ [Next]_vars => Stored'
<1> SUFFICES ASSUME Types, Routes, Stored, [Next]_vars, Quiet'
             PROVE  (\A d \in Docs : StoredDoc(d)') /\ (\A r \in Requests : StoredRequest(r)')
  BY DEF Stored
<1>1. /\ Quiet /\ faults' = faults /\ ~Fault /\ kind' = kind /\ mode' = mode
  BY FaultsStay, InputsFixed DEF Quiet, Fault, inputVars, Types, HistoryTypes
<1>2. (\A d \in Docs : StoredDoc(d)) /\ (\A r \in Requests : StoredRequest(r))
  BY <1>1 DEF Stored
<1>3. ASSUME UNCHANGED <<submit, mapping, jobState>>
      PROVE  \A d \in Docs : StoredDoc(d)'
  BY <1>1, <1>2, <1>3 DEF StoredDoc, Mapped, IsSplit
<1>4. ASSUME NEW r \in Requests, request'[r] = request[r]
      PROVE  StoredRequest(r)'
  BY <1>1, <1>2, <1>4 DEF StoredRequest, IsSplit
<1>5. CASE UNCHANGED vars
  BY <1>3, <1>4, <1>5 DEF vars, submitVars, storeVars
<1>6. ASSUME NEW d \in Docs, SubmitNext(d)
      PROVE  (\A e \in Docs : StoredDoc(e)') /\ request' = request
  BY <1>1, <1>2, <1>6, SubmitFrame, SubmitStores
<1>7. ASSUME NEW w \in Workers, WorkerNext(w)
      PROVE  UNCHANGED <<submit, mapping, jobState, request>>
  BY <1>7, WorkerFrame
<1>8. ASSUME NEW r \in Requests, NEW j \in Jobs, FetchStep(r, j) \/ FetchFails(r, j)
      PROVE  UNCHANGED <<submit, mapping, jobState, request>>
  BY <1>8, FetchStepChanges DEF FetchFrame, submitVars
<1>9. ASSUME NEW r \in Requests, HandlerNext(r)
      PROVE  (\A e \in Docs : StoredDoc(e)') /\ (\A s \in Requests : StoredRequest(s)')
  <2>1. \A s \in Requests : StoredRequest(s)'
    BY <1>1, <1>2, <1>4, <1>9, HandlerStored, OthersKeep DEF RequestNext
  <2>2. submit' = submit /\ mapping' = mapping
    BY <1>9, HandlerStays DEF HandlerFrame, submitVars
  <2>3. ASSUME NEW e \in Docs, jobState[Parent(e)] # "none"
        PROVE  jobState'[Parent(e)] # "none"
    <3>1. jobState \in [Jobs -> States] /\ Retrieved # "none" /\ Parent(e) \in Jobs
      BY InputFacts, JobFacts DEF Types, StoreTypes, Retrieved, ModeValues
    <3> QED
      BY <1>9, <2>3, <3>1, HandlerStays
  <2>4. \A e \in Docs : StoredDoc(e)'
    BY <1>1, <1>2, <2>2, <2>3 DEF StoredDoc, Mapped, IsSplit
  <2> QED
    BY <2>1, <2>4
<1>10. ~Expiry
  BY ExpireStays DEF Expire, Quiet
<1> QED
  BY <1>3, <1>4, <1>5, <1>6, <1>7, <1>8, <1>9, <1>10, NextCases

-----------------------------------------------------------------------------
(* What a handler's step makes of its request. *)

LEMMA HandlerWrites ==
  ASSUME Types, NEW r \in Requests, HandlerNext(r)
  PROVE  /\ Ask(r) => \E d \in Docs : /\ submit[d] = "done" /\ request'[r].doc = d
                                      /\ request'[r].after <=> d \in served
                                      /\ request'[r].step = IF kind[d] = "plain" THEN "state" ELSE "info"
         /\ ~Ask(r) => /\ request'[r].doc = request[r].doc
                       /\ request'[r].after <=> request[r].after
         /\ ReadInfo(r) => \/ request'[r].step \in {"fetch", "subjobs"}
                           \/ "metadata" \notin mapping[request[r].doc] \/ Fault
         /\ ReadState(r) =>
              \/ request'[r].step = "fetch" /\ ~Refused(jobState[Parent(request[r].doc)])
              \/ /\ Refused(jobState[Parent(request[r].doc)])
                 /\ request'[r].step = "idle" /\ request'[r].answer = Refusal(jobState[Parent(request[r].doc)])
              \/ Fault
         /\ ReadSubjobStates(r) => \/ request'[r].step = "fetch"
                                   \/ \E j \in Subjobs(request[r].doc) : jobState[j] \in Intermediate
         /\ Deliver(r) => request'[r].step = "idle" /\ request'[r].answer = 200
<1> DEFINE q == request[r]
           d == q.doc
           s == jobState[Parent(d)]
<1>1. /\ q \in RequestStates /\ request \in [Requests -> RequestStates]
  BY DEF Types, RequestTypes
<1>2. \A rec : Handling(r, rec) => request'[r] = rec
  BY <1>1 DEF Handling
<1>3. CASE Ask(r)
  <2>1. PICK e \in Docs :
          /\ submit[e] = "done"
          /\ Handling(r, ToAsked(Unasked, IF kind[e] = "plain" THEN "state" ELSE "info", e, e \in served))
    BY <1>3 DEF Ask, ToAsked
  <2> DEFINE t == IF kind[e] = "plain" THEN "state" ELSE "info"
             b == e \in served
  <2>2. Handling(r, ToAsked(Unasked, t, e, b)) /\ (b <=> e \in served)
    BY <2>1
  <2>3. t = IF kind[e] = "plain" THEN "state" ELSE "info"
    OBVIOUS
  <2> HIDE DEF t, b
  <2>4. request'[r] = ToAsked(Unasked, t, e, b)
    BY <1>2, <2>2
  <2>5. request'[r].doc = e /\ request'[r].after = b /\ request'[r].step = t
    BY <2>4 DEF ToAsked, Unasked
  <2>6. request[r].step = "idle"
    BY <1>3 DEF Ask
  <2>7. request'[r].after <=> e \in served
    BY <2>2, <2>5, Zenon
  <2> QED
    BY <1>3, <2>1, <2>3, <2>5, <2>6, <2>7 DEF ReadInfo, ReadState, ReadSubjobStates, Deliver, Gathered
<1>4. CASE ReadInfo(r)
  <2>1. /\ q.step = "info"
        /\ \/ ("metadata" \notin mapping[d] \/ Fault) /\ Handling(r, ToStep(q, "state"))
           \/ Handling(r, ToVia(q, "fetch", "pdf")) \/ Handling(r, ToVia(q, "subjobs", "parent"))
    BY <1>4 DEF ReadInfo, ToStep, ToVia
  <2> HIDE DEF q
  <2>2. /\ ToStep(q, "state").doc = q.doc /\ ToStep(q, "state").after = q.after
        /\ \A t, v : /\ ToVia(q, t, v).doc = q.doc /\ ToVia(q, t, v).after = q.after
                     /\ ToVia(q, t, v).step = t
    BY <1>1 DEF ToStep, ToVia, RequestStates
  <2>3. /\ request'[r].doc = q.doc /\ request'[r].after = q.after
        /\ \/ request'[r].step \in {"fetch", "subjobs"} \/ "metadata" \notin mapping[d] \/ Fault
    BY <1>2, <2>1, <2>2
  <2> QED
    BY <1>4, <2>1, <2>3 DEF q, Ask, ReadState, ReadSubjobStates, Deliver, Gathered
<1>5. CASE ReadState(r)
  <2>1. /\ q.step = "state"
        /\ \/ Refused(s) /\ Handling(r, ToAnswer(q, "idle", Refusal(s)))
           \/ ~Refused(s) /\ \E x : Handling(r, ToSeen(q, "fetch", x))
           \/ /\ Fault
              /\ \/ \E n : Handling(r, ToAnswer(q, "idle", n))
                 \/ \E x : Handling(r, ToSeen(q, "fetch", x))
    BY <1>5 DEF ReadState, Answer, ToAnswer, ToSeen
  <2> HIDE DEF q
  <2>2. \A x : /\ ToSeen(q, "fetch", x).doc = q.doc /\ ToSeen(q, "fetch", x).after = q.after
               /\ ToSeen(q, "fetch", x).step = "fetch"
    BY <1>1 DEF ToSeen, RequestStates
  <2>3. \A n : /\ ToAnswer(q, "idle", n).doc = q.doc /\ ToAnswer(q, "idle", n).after = q.after
               /\ ToAnswer(q, "idle", n).step = "idle" /\ ToAnswer(q, "idle", n).answer = n
    BY <1>1, AnswerFields DEF q
  <2>4. /\ request'[r].doc = q.doc /\ request'[r].after = q.after
        /\ \/ request'[r].step = "fetch" /\ ~Refused(s)
           \/ Refused(s) /\ request'[r].step = "idle" /\ request'[r].answer = Refusal(s)
           \/ Fault
    BY <1>2, <2>1, <2>2, <2>3
  <2> QED
    BY <1>5, <2>1, <2>4 DEF q, Ask, ReadInfo, ReadSubjobStates, Deliver, Gathered
<1>6. CASE ReadSubjobStates(r)
  <2>1. /\ q.step = "subjobs"
        /\ \/ /\ \E j \in Subjobs(d) : jobState[j] \in Intermediate
              /\ \E n : Handling(r, ToAnswer(q, "idle", n))
           \/ \E b : Handling(r, ToMissing(q, "fetch", b))
    BY <1>6 DEF ReadSubjobStates, Answer, ToAnswer, ToMissing
  <2> HIDE DEF q
  <2>2. \A b : /\ ToMissing(q, "fetch", b).doc = q.doc /\ ToMissing(q, "fetch", b).after = q.after
               /\ ToMissing(q, "fetch", b).step = "fetch"
    BY <1>1 DEF ToMissing, RequestStates
  <2>3. \A n : ToAnswer(q, "idle", n).doc = q.doc /\ ToAnswer(q, "idle", n).after = q.after
    BY <1>1, AnswerFields DEF q
  <2>4. /\ request'[r].doc = q.doc /\ request'[r].after = q.after
        /\ \/ request'[r].step = "fetch" \/ \E j \in Subjobs(d) : jobState[j] \in Intermediate
    BY <1>2, <2>1, <2>2, <2>3
  <2> QED
    BY <1>6, <2>1, <2>4 DEF q, Ask, ReadInfo, ReadState, Deliver, Gathered
<1>7. CASE NotReady(r) \/ FetchError(r)
  <2>1. q.step = "fetch" /\ \E n : Handling(r, ToAnswer(q, "idle", n))
    <3>1. PICK n : Handling(r, ToAnswer(q, "idle", n))
      BY <1>7, ZenonT(40) DEF NotReady, FetchError, Answer, ToAnswer
    <3> QED
      BY <1>7, <3>1 DEF NotReady, FetchError, Gathered
  <2>2. \A n : ToAnswer(q, "idle", n).doc = q.doc /\ ToAnswer(q, "idle", n).after = q.after
    BY <1>1, AnswerFields
  <2>3. request'[r].doc = q.doc /\ request'[r].after = q.after
    BY <1>2, <2>1, <2>2
  <2>4. ~Deliver(r)
    BY <1>7 DEF NotReady, FetchError, Deliver
  <2> QED
    BY <2>1, <2>3, <2>4 DEF Ask, ReadInfo, ReadState, ReadSubjobStates
<1>8. CASE Deliver(r)
  <2> DEFINE b == \A j \in With(r, "ok") : WholeResult(j, fetch[r][j].got)
             c == q.missing \/ With(r, "error") # {}
  <2>1. q.step = "fetch" /\ Handling(r, Answered200(q, "idle", b, c))
    BY <1>8 DEF Deliver, Answered200, Gathered
  <2> HIDE DEF b, c
  <2>2. request'[r] = Answered200(q, "idle", b, c)
    BY <1>2, <2>1
  <2> HIDE DEF q
  <2>3. /\ request'[r].doc = q.doc /\ request'[r].after = q.after
        /\ request'[r].step = "idle" /\ request'[r].answer = 200
    BY <1>1, <2>2, DeliverFields
  <2> QED
    BY <2>1, <2>3 DEF q, Ask, ReadInfo, ReadState, ReadSubjobStates
<1> QED
  BY <1>3, <1>4, <1>5, <1>6, <1>7, <1>8 DEF HandlerNext

-----------------------------------------------------------------------------
(* A document once answered stays readable, where results are shared. *)

\* A request for a document answered before meets nothing that delays or fails it.
Undelayed(r, j) == ~fetch[r][j].polled /\ fetch[r][j].step \notin {"timeout", "error"}

AgainRequest(r) ==
  request[r].after => /\ request[r].doc \in served
                      /\ request[r].step = "idle" => request[r].answer = 200
                      /\ \A j \in Jobs : Undelayed(r, j)

Again ==
  Shared /\ Quiet => /\ \A d \in served : \A j \in JobsOf(d) : Good(j)
                     /\ \A r \in Requests : AgainRequest(r)

LEMMA InitAgain == Init => Again
BY DEF Init, Again, AgainRequest, Unasked

\* The handler's kind of request fetches the jobs of the document.
LEMMA WantedJobs ==
  ASSUME NEW r \in Requests, StoredRequest(r), request[r].step = "fetch"
  PROVE  Wanted(r) = JobsOf(request[r].doc)
BY DEF StoredRequest, Wanted, JobsOf

LEMMA GoodFacts ==
  ASSUME Types, NEW j \in Jobs, Good(j)
  PROVE  channel[j] # <<>> /\ Head(channel[j]) = 0 /\ LongEnough(j) /\ NoFragment \notin Prefix(j)
         /\ Prefix(j) = 0..size[j] - 1
<1>1. size[j] \in 1..MaxFragments
  BY InputFacts DEF Types
<1> QED
  BY <1>1, Constants DEF Good

\* A fetch of a result that is all there succeeds.
LEMMA FetchAgain ==
  ASSUME Types, Shared, ~Fault, NEW r \in Requests, NEW j \in Jobs, Good(j), Undelayed(r, j),
         FetchStep(r, j) \/ FetchFails(r, j)
  PROVE  Undelayed(r, j)'
<1>1. mode = "NON_DESTRUCTIVE" /\ fetch \in [Requests -> [Jobs -> FetchStates]]
  BY InputFacts DEF Shared, Types, FetchTypes
<1>2. \A f : SetFetch(r, j, f) => fetch'[r][j] = f
  BY <1>1 DEF SetFetch
<1>3. CASE PollFirst(r, j)
  BY <1>2, <1>3, GoodFacts DEF PollFirst, Undelayed
<1>4. CASE PollRest(r, j)
  <2>1. SetFetch(r, j, [step |-> "ok", got |-> Every(j), polled |-> FALSE])
    BY <1>4, GoodFacts DEF PollRest, Every
  <2> QED
    BY <1>2, <2>1 DEF Undelayed
<1> QED
  BY <1>1, <1>3, <1>4 DEF FetchStep, PopFirst, PopNext, PopTimesOut, PollTimesOut, Undelayed, FetchFails

\* A handler goes on to a fetch, or answers with the result.
LEMMA HandlerAgain ==
  ASSUME Types, Routes, Shared, ~Fault, \A d \in Docs : StoredDoc(d),
         NEW r \in Requests, HandlerNext(r), StoredRequest(r), AgainRequest(r)
  PROVE  AgainRequest(r)'
<1> DEFINE q == request[r]
           p == request'[r]
<1>1. /\ RequestRoute(r) /\ (q.step # "idle" => q.doc \in Docs /\ DocRoute(q.doc) /\ StoredDoc(q.doc))
      /\ kind \in [Docs -> KindValues] /\ fetch \in [Requests -> [Jobs -> FetchStates]]
  BY InputFacts DEF Routes, Types, RequestTypes, FetchTypes
<1>2. served \subseteq served'
  BY DEF HandlerNext, Ask, ReadInfo, ReadState, ReadSubjobStates, NotReady, FetchError, Deliver
<1>3. ASSUME q.step = "idle" \/ \A j \in Jobs : Undelayed(r, j)
      PROVE  \A j \in Jobs : Undelayed(r, j)'
  <2>1. ~NoFetch.polled /\ ~Fresh.polled /\ NoFetch.step = "off" /\ Fresh.step = "first"
    BY DEF NoFetch, Fresh
  <2>2. \A j \in Jobs : Undelayed(r, j)
    BY <1>1, <1>3, <2>1 DEF RequestRoute, Undelayed
  <2>3. UNCHANGED fetch \/ Forget(r) \/ \E js : Open(r, js)
    BY DEF HandlerNext, Ask, ReadInfo, ReadState, ReadSubjobStates, NotReady, FetchError, Deliver
  <2>4. \A j \in Jobs : fetch'[r][j] \in {fetch[r][j], NoFetch, Fresh}
    BY <1>1, <2>3 DEF Forget, Open
  <2> QED
    BY <2>1, <2>2, <2>4 DEF Undelayed
<1>4. CASE Ask(r)
  <2>1. q.step = "idle" /\ p.step # "idle" /\ (p.after => p.doc \in served)
    BY <1>4, HandlerWrites DEF Ask
  <2> QED
    BY <1>2, <1>3, <2>1 DEF AgainRequest
<1>5. CASE ~Ask(r) /\ q.after
  <2>1. q.step # "idle" /\ q.doc \in Docs /\ q.doc \in served /\ \A j \in Jobs : Undelayed(r, j)
    BY <1>1, <1>5 DEF HandlerNext, ReadInfo, ReadState, ReadSubjobStates, NotReady, FetchError, Deliver, Gathered,
       AgainRequest
  <2>2. p.doc = q.doc
    BY <1>5, HandlerWrites
  <2>3. p.step = "idle" => p.answer = 200
    <3>1. CASE ReadInfo(r)
      <4>1. "metadata" \in mapping[q.doc]
        BY <1>1, <2>1, <3>1 DEF ReadInfo, RequestRoute, StoredDoc, Mapped, IsSplit, KindValues
      <4> QED
        BY <3>1, <4>1, HandlerWrites
    <3>2. CASE ReadState(r)
      <4>1. jobState[Parent(q.doc)] # "none"
        BY <1>1, <2>1, <3>2 DEF ReadState, RequestRoute, StoredDoc
      <4>2. Retrieved = "RETRIEVED_NON_DESTRUCTIVE"
        BY DEF Retrieved, Shared
      <4>3. ~Refused(jobState[Parent(q.doc)])
        BY <1>1, <2>1, <4>1, <4>2 DEF DocRoute, Refused
      <4> QED
        BY <3>2, <4>3, HandlerWrites
    <3>3. CASE ReadSubjobStates(r)
      <4>1. \A j \in Subjobs(q.doc) : jobState[j] \notin Intermediate
        BY <1>1, <2>1 DEF DocRoute, Intermediate
      <4> QED
        BY <3>3, <4>1, HandlerWrites
    <3>4. ~NotReady(r) /\ ~FetchError(r)
      BY <2>1 DEF NotReady, FetchError, With, Undelayed
    <3> QED
      BY <1>5, <3>1, <3>2, <3>3, <3>4, HandlerWrites DEF HandlerNext
  <2> QED
    BY <1>2, <1>3, <2>1, <2>2, <2>3 DEF AgainRequest
<1>6. CASE ~Ask(r) /\ ~q.after
  BY <1>6, HandlerWrites DEF AgainRequest
<1> QED
  BY <1>4, <1>5, <1>6

\* What Deliver answers is all there.
LEMMA ServedGood ==
  ASSUME Types, Routes, Shared, Quiet, SharedReads, NEW r \in Requests, Deliver(r), StoredRequest(r),
         NEW j \in JobsOf(request[r].doc)
  PROVE  Good(j)
<1>1. request[r].step = "fetch" /\ request[r].doc \in Docs /\ RequestRoute(r)
  BY DEF Deliver, Gathered, Types, RequestTypes, Routes
<1>2. j \in Wanted(r) /\ j \in Jobs
  BY <1>1, WantedJobs, JobFacts DEF JobsOf
<1>3. fetch[r][j].step # "off" /\ fetch[r][j].step # "error" /\ fetch[r][j].step # "timeout" /\ Ended(fetch[r][j])
  BY <1>1, <1>2 DEF RequestRoute, Deliver, Gathered, With, SharedReads, FetchFound, Quiet
<1> QED
  BY <1>2, <1>3 DEF Ended, SharedReads, FetchFound, Quiet

LEMMA StepAgain ==
  Types /\ Routes /\ Clean /\ SharedReads /\ Stored /\ Again /\ [Next]_vars => Again'
<1> SUFFICES ASSUME Types, Routes, Clean, SharedReads, Stored, Again, [Next]_vars, Shared', Quiet'
             PROVE  /\ \A d \in served' : \A j \in JobsOf(d)' : Good(j)'
                    /\ \A r \in Requests : AgainRequest(r)'
  BY DEF Again
<1>1. /\ Quiet /\ faults' = faults /\ ~Fault /\ kind' = kind /\ Shared /\ faults = 0
  BY FaultsStay, InputsFixed DEF Quiet, Fault, inputVars, Types, HistoryTypes, Shared
<1>2. /\ \A d \in Docs : StoredDoc(d)
      /\ \A r \in Requests : StoredRequest(r) /\ AgainRequest(r)
      /\ \A d \in served : \A j \in JobsOf(d) : Good(j)
  BY <1>1 DEF Stored, Again
<1>3. \A d : JobsOf(d)' = JobsOf(d)
  BY <1>1 DEF JobsOf, IsSplit
<1>4. served \subseteq Docs /\ \A d \in Docs : JobsOf(d) \subseteq Jobs
  BY JobFacts DEF Types, HistoryTypes, JobsOf
<1>5. ~expired' /\ \A d \in served : \A j \in JobsOf(d) : Good(j)'
  BY <1>1, <1>2, <1>4, GoodStays DEF Quiet
<1>6. ASSUME UNCHANGED served, NEW r \in Requests, request'[r] = request[r], fetch'[r] = fetch[r]
      PROVE  AgainRequest(r)'
  BY <1>2, <1>6 DEF AgainRequest, Undelayed
<1>7. CASE UNCHANGED <<served, request, fetch>>
  BY <1>3, <1>5, <1>6, <1>7
<1>8. ASSUME NEW s \in Requests, NEW k \in Jobs, FetchStep(s, k) \/ FetchFails(s, k)
      PROVE  served' = served /\ \A r \in Requests : AgainRequest(r)'
  <2>1. served' = served /\ request' = request /\ fetch \in [Requests -> [Jobs -> FetchStates]]
        /\ fetch[s][k].step \in {"first", "rest"} /\ \E f : SetFetch(s, k, f)
    BY <1>8, FetchStepChanges DEF FetchFrame, Types, FetchTypes, FetchChange, history, restHistory
  <2>2. \A r \in Requests \ {s} : AgainRequest(r)'
    BY <1>6, <1>8, <2>1, OthersKeep DEF RequestNext
  <2>3. ASSUME request[s].after
        PROVE  AgainRequest(s)'
    <3>1. request[s].doc \in served /\ request[s].step = "fetch" /\ k \in Wanted(s)
      BY <1>2, <2>1, <2>3 DEF AgainRequest, Routes, RequestRoute, NoFetch
    <3>2. Good(k)
      BY <1>2, <3>1, WantedJobs
    <3>3. Undelayed(s, k)'
      BY <1>1, <1>2, <1>8, <2>3, <3>2, FetchAgain DEF AgainRequest
    <3>4. \A j \in Jobs \ {k} : fetch'[s][j] = fetch[s][j]
      BY <2>1 DEF SetFetch
    <3>5. \A j \in Jobs : Undelayed(s, j)'
      BY <1>2, <2>3, <3>3, <3>4 DEF AgainRequest, Undelayed
    <3> QED
      BY <2>1, <3>1, <3>5 DEF AgainRequest
  <2>4. ~request[s].after => AgainRequest(s)'
    BY <2>1 DEF AgainRequest
  <2> QED
    BY <2>1, <2>2, <2>3, <2>4
<1>9. ASSUME NEW s \in Requests, HandlerNext(s)
      PROVE  /\ \A d \in served' : \A j \in JobsOf(d) : Good(j)'
             /\ \A r \in Requests : AgainRequest(r)'
  <2>1. \/ served' = served
        \/ Deliver(s) /\ served' = served \union {request[s].doc} /\ request[s].doc \in Docs
    BY <1>9 DEF HandlerNext, Ask, ReadInfo, ReadState, ReadSubjobStates, NotReady, FetchError, Deliver,
       Gathered, Types, RequestTypes
  <2>2. ASSUME Deliver(s)
        PROVE  request[s].doc \in Docs /\ \A j \in JobsOf(request[s].doc) : Good(j)'
    <3>1. request[s].doc \in Docs /\ \A j \in JobsOf(request[s].doc) : j \in Jobs /\ Good(j)
      BY <1>1, <1>2, <1>4, <2>2, ServedGood DEF Deliver, Gathered, Types, RequestTypes
    <3> QED
      BY <1>1, <1>5, <3>1, GoodStays
  <2>3. AgainRequest(s)'
    BY <1>1, <1>2, <1>9, HandlerAgain
  <2>4. ASSUME NEW r \in Requests \ {s}
        PROVE  AgainRequest(r)'
    <3>1. request'[r] = request[r] /\ fetch'[r] = fetch[r] /\ served \subseteq served'
      BY <1>9, <2>1, OthersKeep DEF RequestNext
    <3> QED
      BY <1>2, <3>1 DEF AgainRequest, Undelayed
  <2> QED
    BY <1>5, <2>1, <2>2, <2>3, <2>4
<1> QED
  <2>1. CASE \E d \in Docs : SubmitNext(d)
    BY <1>7, <2>1, SubmitFrame DEF history, restHistory
  <2>2. CASE \E w \in Workers : WorkerNext(w)
    BY <1>7, <2>2, WorkerFrame
  <2>3. CASE Expiry
    BY <1>7, <2>3, ExpireStays DEF Expire
  <2>4. CASE UNCHANGED vars
    BY <1>7, <2>4 DEF vars, history, restHistory
  <2> QED
    BY <1>3, <1>5, <1>8, <1>9, <2>1, <2>2, <2>3, <2>4, NextCases

-----------------------------------------------------------------------------
(* A document once answered is known to be gone, where results are removed. *)

Taken(d) == kind[d] = "plain" => jobState[Parent(d)] = "RETRIEVED_DESTRUCTIVE"

GoneRequest(r) ==
  request[r].after =>
    /\ request[r].doc \in served
    /\ kind[request[r].doc] = "plain" => \/ request[r].step = "state"
                                         \/ request[r].step = "idle" /\ request[r].answer = 410

Gone == ~Shared /\ Quiet => (\A d \in served : Taken(d)) /\ (\A r \in Requests : GoneRequest(r))

LEMMA InitGone == Init => Gone
BY DEF Init, Gone, GoneRequest, Unasked

LEMMA HandlerGone ==
  ASSUME Types, Routes, ~Fault, \A d \in served : Taken(d), NEW r \in Requests, HandlerNext(r), GoneRequest(r)
  PROVE  GoneRequest(r)'
<1> DEFINE q == request[r]
           p == request'[r]
<1>1. /\ RequestRoute(r) /\ (q.step # "idle" => q.doc \in Docs)
      /\ kind' = kind /\ kind \in [Docs -> KindValues] /\ served \subseteq served' /\ served \subseteq Docs
  BY InputFacts, HandlerStays DEF Routes, Types, RequestTypes, HistoryTypes, HandlerFrame, inputVars, HandlerNext,
     Ask, ReadInfo, ReadState, ReadSubjobStates, NotReady, FetchError, Deliver
<1>2. CASE Ask(r)
  <2>1. /\ p.after => p.doc \in served
        /\ kind[p.doc] = "plain" => p.step = "state"
    BY <1>2, HandlerWrites DEF Ask
  <2> QED
    BY <1>1, <2>1 DEF GoneRequest
<1>3. CASE ~Ask(r) /\ q.after /\ kind[q.doc] = "plain"
  <2>1. q.step = "state" /\ q.doc \in served /\ ReadState(r)
    BY <1>1, <1>3 DEF HandlerNext, ReadInfo, ReadState, ReadSubjobStates, NotReady, FetchError, Deliver, Gathered,
       GoneRequest
  <2>2. p.doc = q.doc
    BY <1>3, HandlerWrites
  <2>3. jobState[Parent(q.doc)] = "RETRIEVED_DESTRUCTIVE"
    BY <1>3, <2>1 DEF Taken
  <2>4. p.step = "idle" /\ p.answer = 410
    BY <2>1, <2>3, HandlerWrites DEF Refused, Refusal
  <2> QED
    BY <1>1, <2>1, <2>2, <2>4 DEF GoneRequest
<1>4. CASE ~Ask(r) /\ ~(q.after /\ kind[q.doc] = "plain")
  <2>1. p.doc = q.doc /\ (p.after <=> q.after)
    BY <1>4, HandlerWrites
  <2> QED
    BY <1>1, <1>4, <2>1 DEF GoneRequest
<1> QED
  BY <1>2, <1>3, <1>4

LEMMA StepGone == Types /\ Routes /\ Gone /\ [Next]_vars => Gone'
<1> SUFFICES ASSUME Types, Routes, Gone, [Next]_vars, ~Shared', Quiet'
             PROVE  (\A d \in served' : Taken(d)') /\ (\A r \in Requests : GoneRequest(r)')
  BY DEF Gone
<1>1. /\ Quiet /\ faults' = faults /\ ~Fault /\ kind' = kind /\ ~Shared
  BY FaultsStay, InputsFixed DEF Quiet, Fault, inputVars, Types, HistoryTypes, Shared
<1>2. (\A d \in served : Taken(d)) /\ (\A r \in Requests : GoneRequest(r))
  BY <1>1 DEF Gone
<1>3. Retrieved = "RETRIEVED_DESTRUCTIVE"
  BY <1>1, InputFacts DEF Retrieved, Shared, Types, ModeValues
<1>4. served \subseteq Docs /\ jobState \in [Jobs -> States] /\ \A d \in Docs : Parent(d) \in Jobs
  BY JobFacts DEF Types, HistoryTypes, StoreTypes
<1>5. ASSUME NEW r \in Requests, served \subseteq served', request'[r] = request[r]
      PROVE  GoneRequest(r)'
  BY <1>1, <1>2, <1>5 DEF GoneRequest
<1>6. CASE UNCHANGED <<served, request, jobState>>
  BY <1>1, <1>2, <1>5, <1>6 DEF Taken
<1>7. ASSUME NEW d \in Docs, SubmitNext(d)
      PROVE  /\ \A e \in served' : Taken(e)'
             /\ \A r \in Requests : GoneRequest(r)'
  <2>1. /\ served' = served /\ request' = request
        /\ jobState' = jobState \/ (submit[d] = "state" /\ jobState' = [jobState EXCEPT ![Parent(d)] = "SUBMITTED"])
    BY <1>7, SubmitFrame DEF history, restHistory, SubmitNext, SubmitJob, SubmitFails, RecordSubmitted, StoreSubjobs,
       StoreMetadata, MetadataRefused, MappingFails, storeVars
  <2>2. ASSUME NEW e \in served PROVE jobState'[Parent(e)] = jobState[Parent(e)]
    <3>1. submit[e] = "done" /\ e \in Docs
      BY <1>4 DEF Routes, DocRoute
    <3> QED
      BY <1>4, <2>1, <3>1, JobFacts
  <2>3. \A e \in served' : Taken(e)'
    BY <1>1, <1>2, <2>1, <2>2 DEF Taken
  <2> QED
    BY <1>5, <2>1, <2>3
<1>8. ASSUME NEW s \in Requests, HandlerNext(s)
      PROVE  /\ \A e \in served' : Taken(e)'
             /\ \A r \in Requests : GoneRequest(r)'
  <2>1. /\ \/ served' = served
           \/ /\ Deliver(s) /\ served' = served \union {request[s].doc} /\ request[s].doc \in Docs
              /\ jobState' = [jobState EXCEPT ![Parent(request[s].doc)] = Retrieved]
        /\ \/ jobState' = jobState
           \/ jobState' = [jobState EXCEPT ![Parent(request[s].doc)] = Retrieved]
    BY <1>1, <1>8 DEF HandlerNext, Ask, ReadInfo, ReadState, ReadSubjobStates, NotReady, FetchError, Deliver,
       Gathered, Types, RequestTypes
  <2>2. \A e \in served : Taken(e)'
    BY <1>1, <1>2, <1>3, <1>4, <2>1 DEF Taken
  <2>3. \A e \in served' : Taken(e)'
    BY <1>3, <1>4, <2>1, <2>2 DEF Taken
  <2>4. GoneRequest(s)'
    BY <1>1, <1>2, <1>8, HandlerGone
  <2>5. \A r \in Requests \ {s} : GoneRequest(r)'
    BY <1>5, <1>8, <2>1, OthersKeep DEF RequestNext
  <2> QED
    BY <2>3, <2>4, <2>5
<1>9. ASSUME NEW s \in Requests, NEW k \in Jobs, FetchStep(s, k) \/ FetchFails(s, k)
      PROVE  UNCHANGED <<served, request, jobState>>
  BY <1>9, FetchStepChanges DEF FetchFrame, history, restHistory
<1>10. ~Expiry
  BY ExpireStays DEF Expire, Quiet
<1> QED
  <2>1. CASE \E w \in Workers : WorkerNext(w)
    BY <1>6, <2>1, WorkerFrame
  <2>2. CASE UNCHANGED vars
    BY <1>6, <2>2 DEF vars, history, restHistory, storeVars
  <2> QED
    BY <1>6, <1>7, <1>8, <1>9, <1>10, <2>1, <2>2, NextCases

-----------------------------------------------------------------------------
(* No result is lost, where results are removed and Redis does not fail. *)

Holding(j) == {r \in Requests : fetch[r][j].step = "ok"}

\* A result of one fragment has no rest to be waited for.
NoRest == \A r \in Requests, j \in Jobs : size[j] = 1 => fetch[r][j].step # "rest"

Keeping == ~Shared /\ faults = 0 => NoRest /\ \A j \in Jobs : ~IsSplit(j[1]) => Kept(j)

LEMMA InitKeeping == Init => Keeping
<1> SUFFICES ASSUME Init PROVE Keeping
  OBVIOUS
<1>1. NoRest
  BY DEF Init, NoRest, NoFetch
<1>2. ASSUME NEW j \in Jobs PROVE Kept(j)
  <2> SUFFICES copies[j] = Len(channel[j]) + Cardinality(Holding(j)) + handed[j] + lapsed[j]
    BY DEF Kept, Holding
  <2>1. Holding(j) = {}
    BY <1>2 DEF Init, Holding, NoFetch
  <2>2. copies[j] = 0 /\ Len(channel[j]) = 0 /\ handed[j] = 0 /\ lapsed[j] = 0
    BY DEF Init
  <2> QED
    BY <2>1, <2>2, FS_EmptySet
<1> QED
  BY <1>1, <1>2 DEF Keeping

\* One request starts or stops holding a result, or none does.
LEMMA CountHolding ==
  ASSUME NEW s \in Requests, NEW j \in Jobs, \A r \in Requests \ {s} : fetch'[r][j] = fetch[r][j]
  PROVE  LET n == Cardinality(Holding(j)) IN
         /\ n \in Nat /\ Cardinality(Holding(j)') \in Nat
         /\ (fetch[s][j].step = "ok" <=> fetch'[s][j].step = "ok") => Cardinality(Holding(j)') = n
         /\ fetch[s][j].step # "ok" /\ fetch'[s][j].step = "ok" => Cardinality(Holding(j)') = n + 1
         /\ fetch[s][j].step = "ok" /\ fetch'[s][j].step # "ok" => Cardinality(Holding(j)') = n - 1
<1>1. IsFiniteSet(Requests)
  BY ResultAssumption
<1>2. /\ IsFiniteSet(Holding(j)) /\ Cardinality(Holding(j)) \in Nat
      /\ IsFiniteSet(Holding(j)') /\ Cardinality(Holding(j)') \in Nat
  <2>1. Holding(j) \subseteq Requests /\ Holding(j)' \subseteq Requests
    BY DEF Holding
  <2> QED
    BY <1>1, <2>1, FS_Subset, FS_CardinalityType
<1>3. (fetch[s][j].step = "ok" <=> fetch'[s][j].step = "ok") => Holding(j)' = Holding(j)
  BY DEF Holding
<1>4. ASSUME fetch[s][j].step # "ok", fetch'[s][j].step = "ok"
      PROVE  Cardinality(Holding(j)') = Cardinality(Holding(j)) + 1
  <2>1. Holding(j)' = Holding(j) \union {s} /\ s \notin Holding(j)
    BY <1>4 DEF Holding
  <2> QED
    BY <1>2, <2>1, FS_AddElement
<1>5. ASSUME fetch[s][j].step = "ok", fetch'[s][j].step # "ok"
      PROVE  Cardinality(Holding(j)') = Cardinality(Holding(j)) - 1
  <2>1. Holding(j)' = Holding(j) \ {s} /\ s \in Holding(j)
    BY <1>5 DEF Holding
  <2> QED
    BY <1>2, <2>1, FS_RemoveElement
<1> QED
  BY <1>2, <1>3, <1>4, <1>5

\* A push of a replica is counted.
LEMMA PushKeeps ==
  ASSUME Types, NEW j \in Jobs, Kept(j), NEW k \in Jobs, NEW m \in Fragment(k), NEW n \in 0..2, Push(k, m, n),
         UNCHANGED <<size, fetch, handed, lapsed>>
  PROVE  Kept(j)'
<1> SUFFICES ASSUME size[j] = 1
             PROVE  copies'[j] = Len(channel'[j]) + Cardinality(Holding(j)) + handed[j] + lapsed[j]
  BY DEF Kept, Holding
<1>1. copies[j] = Len(channel[j]) + Cardinality(Holding(j)) + handed[j] + lapsed[j]
  BY DEF Kept, Holding
<1>2. CASE j # k
  BY <1>1, <1>2, PushEntries DEF Push, Types, HistoryTypes
<1>3. CASE j = k
  <2>1. m \in {0, NoFragment}
    BY <1>3 DEF Fragment
  <2>2. copies'[j] = copies[j] + n
    BY <1>3, <2>1 DEF Push, Types, HistoryTypes
  <2>3. Len(channel'[j]) = Len(channel[j]) + n
    BY <1>3, PushEntries
  <2>4. Len(channel[j]) \in Nat /\ handed[j] \in Nat /\ lapsed[j] \in Nat /\ Cardinality(Holding(j)) \in Nat
    <3>1. Cardinality(Holding(j)) \in Nat
      BY ResultAssumption, FS_Subset, FS_CardinalityType DEF Holding
    <3> QED
      BY <3>1 DEF Types, StoreTypes, HistoryTypes
  <2> QED
    BY <1>1, <2>2, <2>3, <2>4
<1> QED
  BY <1>2, <1>3

LEMMA FetchKeeps ==
  ASSUME Types, ~Shared, ~Fault, NoRest, NEW r \in Requests, NEW k \in Jobs, FetchStep(r, k) \/ FetchFails(r, k),
         NEW j \in Jobs
  PROVE  /\ Kept(j) => Kept(j)'
         /\ \A s \in Requests : size[j] = 1 => fetch'[s][j].step # "rest"
<1> SUFFICES ASSUME size[j] = 1
             PROVE  /\ copies[j] = Len(channel[j]) + Cardinality(Holding(j)) + handed[j] + lapsed[j]
                       => copies'[j] = Len(channel'[j]) + Cardinality(Holding(j)') + handed'[j] + lapsed'[j]
                    /\ \A s \in Requests : fetch'[s][j].step # "rest"
  <2>1. size' = size
    BY FetchStepChanges DEF FetchFrame, inputVars
  <2> QED
    BY <2>1 DEF Kept, Holding
<1>1. /\ mode = "DESTRUCTIVE" /\ fetch \in [Requests -> [Jobs -> FetchStates]]
      /\ fetch[r][k].step \in {"first", "rest"} /\ fetch[r][k] \in FetchStates
      /\ UNCHANGED <<copies, handed, lapsed>> /\ handed[j] \in Nat /\ lapsed[j] \in Nat
  BY FetchStepChanges, InputFacts
     DEF Types, Shared, ModeValues, FetchTypes, HistoryTypes, history, restHistory
<1>2. /\ \A s \in Requests : s # r => fetch'[s] = fetch[s]
      /\ \A f : SetFetch(r, k, f) => fetch'[r][k] = f
      /\ \A i \in Jobs : i # k => fetch'[r][i] = fetch[r][i]
      /\ \A i \in Jobs : i # k => channel'[i] = channel[i]
  <2>1. \E f : FetchChange(r, k, f)
    BY FetchStepChanges
  <2> QED
    BY <1>1, <2>1 DEF FetchChange, SetFetch, Types, StoreTypes
<1>3. CASE j # k
  <2>1. fetch'[r][j] = fetch[r][j] /\ Holding(j)' = Holding(j)
    BY <1>2, <1>3 DEF Holding
  <2> QED
    BY <1>1, <1>2, <1>3, <2>1 DEF NoRest
<1>4. CASE j = k /\ PopFirst(r, k)
  <2>1. Len(channel'[j]) = Len(channel[j]) - 1 /\ Len(channel[j]) \in Nat \ {0}
    BY <1>4, PopEntries DEF PopFirst
  <2>2. fetch[r][j].step = "first" /\ fetch'[r][j].step = "ok"
    BY <1>2, <1>4 DEF PopFirst, Count
  <2>3. Cardinality(Holding(j)') = Cardinality(Holding(j)) + 1 /\ Cardinality(Holding(j)) \in Nat
    BY <1>2, <2>2, CountHolding
  <2> QED
    BY <1>1, <1>2, <2>1, <2>2, <2>3, SMTT(40) DEF NoRest
<1>5. CASE j = k /\ PopTimesOut(r, k)
  <2>1. fetch'[r][j].step = "timeout" /\ channel' = channel
    BY <1>1, <1>2, <1>5 DEF PopTimesOut, FetchStates
  <2>2. Cardinality(Holding(j)') = Cardinality(Holding(j))
    BY <1>1, <1>2, <1>5, <2>1, CountHolding
  <2> QED
    BY <1>1, <1>2, <2>1, <2>2 DEF NoRest
<1> QED
  BY <1>1, <1>3, <1>4, <1>5 DEF FetchStep, PopNext, PollFirst, PollRest, PollTimesOut, FetchFails, NoRest

\* A request that holds the result of a document that is not split waits for nothing else.
LEMMA SingleFetch ==
  ASSUME Types, Routes, NEW r \in Requests, NEW j \in Jobs, ~IsSplit(j[1]), fetch[r][j].step = "ok"
  PROVE  With(r, "timeout") = {} /\ With(r, "error") = {} /\ request[r].step = "fetch"
<1>1. RequestRoute(r) /\ fetch[r][j] # NoFetch
  BY DEF Routes, NoFetch
<1>2. request[r].step = "fetch" /\ j \in Wanted(r)
  BY <1>1 DEF RequestRoute
<1>3. request[r].via # "parent"
  BY <1>1, <1>2, JobFacts DEF RequestRoute, Wanted
<1>4. \A k \in Jobs : k # j => fetch[r][k].step = "off"
  BY <1>1, <1>2, <1>3 DEF RequestRoute, Wanted, NoFetch
<1> QED
  BY <1>2, <1>4 DEF With

LEMMA HandlerKeeps ==
  ASSUME Types, Routes, ~Shared, NoRest, NEW r \in Requests, HandlerNext(r),
         NEW j \in Jobs
  PROVE  /\ ~IsSplit(j[1]) /\ Kept(j) => Kept(j)'
         /\ \A s \in Requests : size[j] = 1 => fetch'[s][j].step # "rest"
<1>1. /\ mode = "DESTRUCTIVE" /\ fetch \in [Requests -> [Jobs -> FetchStates]] /\ RequestRoute(r)
      /\ UNCHANGED <<copies, channel, size, lapsed>> /\ handed \in [Jobs -> Nat] /\ Len(channel[j]) \in Nat
      /\ copies[j] \in Nat /\ lapsed[j] \in Nat
  BY HandlerStays, InputFacts
     DEF Types, Shared, ModeValues, FetchTypes, HandlerFrame, inputVars, HistoryTypes, StoreTypes, Routes
<1>2. \A s \in Requests : s # r => fetch'[s] = fetch[s]
  BY OthersKeep DEF RequestNext
<1>3. /\ fetch'[r][j] \in {fetch[r][j], NoFetch, Fresh}
      /\ NoFetch.step = "off" /\ Fresh.step = "first"
  <2>1. UNCHANGED fetch \/ Forget(r) \/ \E js : Open(r, js)
    BY DEF HandlerNext, Ask, ReadInfo, ReadState, ReadSubjobStates, NotReady, FetchError, Deliver
  <2> QED
    BY <1>1, <2>1 DEF Forget, Open, NoFetch, Fresh
<1>4. \A s \in Requests : size[j] = 1 => fetch'[s][j].step # "rest"
  BY <1>2, <1>3 DEF NoRest
<1>5. ASSUME ~IsSplit(j[1]), Kept(j), size[j] = 1
      PROVE  copies[j] = Len(channel[j]) + Cardinality(Holding(j)') + handed'[j] + lapsed[j]
  <2>1. copies[j] = Len(channel[j]) + Cardinality(Holding(j)) + handed[j] + lapsed[j]
    BY <1>5 DEF Kept, Holding
  <2>2. CASE Deliver(r) /\ fetch[r][j].step = "ok"
    <3>1. handed'[j] = handed[j] + 1
      BY <1>1, <2>2 DEF Deliver, With
    <3>2. fetch'[r][j].step # "ok"
      BY <1>1, <1>3, <2>2 DEF Deliver, Forget
    <3>3. Cardinality(Holding(j)') = Cardinality(Holding(j)) - 1 /\ Cardinality(Holding(j)) \in Nat
      BY <1>2, <2>2, <3>2, CountHolding
    <3> DEFINE n == Len(channel[j])
               c == Cardinality(Holding(j))
               d == Cardinality(Holding(j)')
    <3>4. /\ handed[j] \in Nat /\ lapsed[j] \in Nat /\ n \in Nat /\ c \in Nat /\ d = c - 1
          /\ copies[j] = n + c + handed[j] + lapsed[j]
      BY <1>1, <2>1, <3>3
    <3> HIDE DEF n, c, d
    <3>5. copies[j] = n + d + handed'[j] + lapsed[j]
      BY <3>1, <3>4
    <3> QED
      BY <3>5 DEF n, d
  <2>3. CASE ~(Deliver(r) /\ fetch[r][j].step = "ok")
    <3>1. handed'[j] = handed[j]
      BY <1>1, <2>3 DEF HandlerNext, Ask, ReadInfo, ReadState, ReadSubjobStates, NotReady, FetchError, Deliver, With
    <3>2. fetch[r][j].step = "ok" => fetch' = fetch
      <4> SUFFICES ASSUME fetch[r][j].step = "ok" PROVE fetch' = fetch
        OBVIOUS
      <4>1. With(r, "timeout") = {} /\ With(r, "error") = {} /\ request[r].step = "fetch"
        BY <1>5, SingleFetch
      <4> QED
        BY <2>3, <4>1 DEF HandlerNext, Ask, ReadInfo, ReadState, ReadSubjobStates, NotReady, FetchError
    <3>3. fetch[r][j].step = "ok" <=> fetch'[r][j].step = "ok"
      BY <1>3, <3>2
    <3>4. Cardinality(Holding(j)') = Cardinality(Holding(j))
      BY <1>2, <3>3, CountHolding
    <3> QED
      BY <2>1, <3>1, <3>4
  <2> QED
    BY <2>2, <2>3
<1>6. ~IsSplit(j[1]) /\ Kept(j) => Kept(j)'
  BY <1>1, <1>5 DEF Kept, Holding
<1> QED
  BY <1>4, <1>6

\* A channel that lapses takes what it holds with it.
LEMMA ExpireKeeps ==
  ASSUME Types, Expiry, NEW j \in Jobs, Kept(j)
  PROVE  Kept(j)'
<1>1. /\ UNCHANGED <<copies, handed, fetch, size>>
      /\ Holding(j)' = Holding(j) /\ lapsed \in [Jobs -> Nat] /\ channel \in [Jobs -> Seq(Messages)]
      /\ Len(channel[j]) \in Nat
  BY ExpireStays DEF Expire, Holding, inputVars, Types, HistoryTypes, StoreTypes
<1>2. CASE UNCHANGED <<channel, lapsed>>
  BY <1>1, <1>2 DEF Kept
<1>3. ASSUME NEW k \in Jobs, ExpireChannel(k)
      PROVE  Kept(j)'
  <2>1. CASE k # j
    <3>1. channel'[j] = channel[j] /\ lapsed'[j] = lapsed[j]
      BY <1>1, <1>3, <2>1 DEF ExpireChannel
    <3> QED
      BY <1>1, <3>1 DEF Kept
  <2>2. CASE k = j
    <3>1. Len(channel'[j]) = 0 /\ lapsed'[j] = lapsed[j] + Len(channel[j]) /\ lapsed[j] \in Nat
      BY <1>1, <1>3, <2>2 DEF ExpireChannel
    <3>2. Cardinality(Holding(j)) \in Nat /\ handed[j] \in Nat
      BY ResultAssumption, FS_Subset, FS_CardinalityType DEF Holding, Types, HistoryTypes
    <3>3. size[j] = 1 =>
            copies'[j] = Len(channel'[j]) + Cardinality(Holding(j)') + handed'[j] + lapsed'[j]
      <4>1. size[j] = 1 => copies[j] = Len(channel[j]) + Cardinality(Holding(j)) + handed[j] + lapsed[j]
        BY DEF Kept, Holding
      <4> QED
        BY <1>1, <3>1, <3>2, <4>1
    <3> QED
      BY <1>1, <3>3 DEF Kept, Holding
  <2> QED
    BY <2>1, <2>2
<1> QED
  BY <1>2, <1>3, ExpireStays

LEMMA StepKeeping == Types /\ Routes /\ Keeping /\ [Next]_vars => Keeping'
<1> SUFFICES ASSUME Types, Routes, Keeping, [Next]_vars, ~Shared', faults' = 0
             PROVE  NoRest' /\ \A j \in Jobs : ~IsSplit(j[1])' => Kept(j)'
  BY DEF Keeping
<1>1. /\ faults = 0 /\ faults' = faults /\ ~Fault /\ kind' = kind /\ size' = size /\ ~Shared
  BY FaultsStay, InputsFixed DEF Fault, inputVars, Shared
<1>2. /\ NoRest /\ \A j \in Jobs : ~IsSplit(j[1]) => Kept(j)
      /\ \A j \in Jobs : IsSplit(j[1])' <=> IsSplit(j[1])
  BY <1>1 DEF Keeping, IsSplit
<1>3. CASE UNCHANGED <<channel, fetch, copies, handed, lapsed>>
  BY <1>1, <1>2, <1>3 DEF NoRest, Kept
<1>4. ASSUME NEW w \in Workers, WorkerNext(w), ~UNCHANGED <<channel, copies>>
      PROVE  NoRest' /\ \A j \in Jobs : ~IsSplit(j[1])' => Kept(j)'
  <2>1. UNCHANGED <<fetch, handed, lapsed>>
    BY <1>4, WorkerFrame
  <2>2. \E k \in Jobs : \E m \in Fragment(k) : \E n \in 0..2 : Push(k, m, n)
    <3>1. PushFragment(w) \/ PushFails(w) \/ ReportFailure(w)
      BY <1>4 DEF WorkerNext, TakeTask, SinkRefuses, storeVars, history
    <3> QED
      BY <1>4, <3>1, WorkerPushes DEF Fragment
  <2> QED
    BY <1>1, <1>2, <2>1, <2>2, PushKeeps DEF NoRest
<1>5. ASSUME NEW r \in Requests, RequestNext(r)
      PROVE  NoRest' /\ \A j \in Jobs : ~IsSplit(j[1])' => Kept(j)'
  BY <1>1, <1>2, <1>5, FetchKeeps, HandlerKeeps DEF RequestNext, NoRest
<1>6. CASE Expiry
  BY <1>1, <1>2, <1>6, ExpireKeeps, ExpireStays DEF NoRest, Expire
<1> QED
  <2>1. CASE \E d \in Docs : SubmitNext(d)
    BY <1>3, <2>1, SubmitFrame DEF history, restHistory
  <2>2. CASE \E w \in Workers : WorkerNext(w)
    BY <1>3, <1>4, <2>2, WorkerFrame
  <2>3. CASE UNCHANGED vars
    BY <1>3, <2>3 DEF vars, history, restHistory, storeVars
  <2> QED
    BY <1>5, <1>6, <2>1, <2>2, <2>3, NextCases DEF RequestNext

\* Answers agree with each other and with what was stored: until a key expires a
\* result answered once stays readable, or is known to be gone; and a fetch loses
\* none, though a channel that reaches its TTL does.
THEOREM AnswersAgreeAlways == Spec => []AnswersAgree
<1> DEFINE Ind == /\ Types /\ Routes /\ Clean /\ SharedReads /\ Stored
                  /\ Again /\ Gone /\ Keeping
<1>1. Init => Ind
  BY InitTypes, InitRoutes, InitReads, InitStored, InitAgain, InitGone, InitKeeping
<1>2. Ind /\ [Next]_vars => Ind'
  BY StepTypes, StepRoutes, StepClean, StepReads, StepStored, StepAgain, StepGone, StepKeeping
<1>3. Ind => AnswersAgree
  <2> SUFFICES ASSUME Ind PROVE StaysReadable /\ GoneOnceTaken /\ NothingLost
    BY DEF AnswersAgree
  <2>1. StaysReadable
    BY DEF StaysReadable, Again, AgainRequest, Answered
  <2>2. GoneOnceTaken
    BY DEF GoneOnceTaken, Gone, GoneRequest, Answered
  <2>3. NothingLost
    BY DEF NothingLost, Keeping
  <2> QED
    BY <2>1, <2>2, <2>3
<1> QED
  BY <1>1, <1>2, <1>3, PTL DEF Spec

-----------------------------------------------------------------------------
(* The contract.  A push of a first fragment, or of a report, is a          *)
(* publication; where results are removed, a publication is in its channel, *)
(* with a fetch thread that popped it, or handed out.                       *)

Start(m)   == m \in {0, NoFragment}
Starts(j)  == {i \in 1..Len(channel[j]) : Start(channel[j][i])}
Readers(j) == {r \in Requests : fetch[r][j].step \in {"ok", "rest"}}

Balance(j) == handed[j] + Cardinality(Readers(j)) + Cardinality(Starts(j)) <= copies[j]

\* A first fragment that is in its place, or was, has been published.
Seen(j) ==
  /\ channel[j] # <<>> /\ Head(channel[j]) = 0 => copies[j] > 0
  /\ Readers(j) # {} => copies[j] > 0

Published ==
  /\ Shared => \A j \in Jobs : Seen(j)
  /\ ~Shared => \A j \in Jobs : Balance(j)

\* Sets that differ in one element at most.
LEMMA OneApart ==
  ASSUME NEW S, IsFiniteSet(S), NEW T, NEW x, \A y : y # x => (y \in S <=> y \in T)
  PROVE  /\ IsFiniteSet(T) /\ Cardinality(S) \in Nat /\ Cardinality(T) \in Nat
         /\ (x \in S <=> x \in T) => Cardinality(T) = Cardinality(S)
         /\ x \notin S /\ x \in T => Cardinality(T) = Cardinality(S) + 1
         /\ x \in S /\ x \notin T => Cardinality(T) = Cardinality(S) - 1
<1>1. CASE x \in S <=> x \in T
  <2>1. S = T
    BY <1>1
  <2> QED
    BY <2>1, FS_CardinalityType
<1>2. CASE x \notin S /\ x \in T
  <2>1. T = S \cup {x}
    BY <1>2
  <2> QED
    BY <1>2, <2>1, FS_AddElement, FS_CardinalityType
<1>3. CASE x \in S /\ x \notin T
  <2>1. T = S \ {x}
    BY <1>3
  <2> QED
    BY <1>3, <2>1, FS_RemoveElement, FS_CardinalityType
<1> QED
  BY <1>1, <1>2, <1>3

\* Moving a set of numbers down by one keeps its size.
LEMMA ShiftDown ==
  ASSUME NEW S \in SUBSET Int, IsFiniteSet(S), NEW T \in SUBSET Int, \A i \in Int : i \in T <=> i + 1 \in S
  PROVE  IsFiniteSet(T) /\ Cardinality(T) = Cardinality(S)
<1> DEFINE F == [i \in S |-> i - 1]
<1>1. F \in [S -> T]
  <2>1. \A i \in S : i - 1 \in Int /\ (i - 1) + 1 = i
    OBVIOUS
  <2> QED
    BY <2>1
<1>2. \A a, b \in S : F[a] = F[b] => a = b
  OBVIOUS
<1>3. \A t \in T : \E i \in S : F[i] = t
  <2> SUFFICES ASSUME NEW t \in T PROVE \E i \in S : F[i] = t
    OBVIOUS
  <2>1. t + 1 \in S /\ (t + 1) - 1 = t
    OBVIOUS
  <2> QED
    BY <2>1
<1> HIDE DEF F
<1>4. F \in Bijection(S, T)
  BY <1>1, <1>2, <1>3 DEF Bijection, Injection, Surjection, IsInjective
<1>5. ExistsBijection(S, T)
  BY <1>4 DEF ExistsBijection
<1> QED
  BY <1>5, FS_Bijection

LEMMA StartsFinite ==
  ASSUME Types, NEW j \in Jobs
  PROVE  /\ Starts(j) \subseteq 1..Len(channel[j]) /\ Starts(j) \in SUBSET Int
         /\ IsFiniteSet(Starts(j)) /\ Cardinality(Starts(j)) \in Nat
         /\ IsFiniteSet(Readers(j)) /\ Cardinality(Readers(j)) \in Nat
<1>1. Len(channel[j]) \in Nat
  BY DEF Types, StoreTypes
<1>2. IsFiniteSet(1..Len(channel[j])) /\ IsFiniteSet(Requests)
  BY <1>1, FS_Interval, ResultAssumption
<1>3. Starts(j) \subseteq 1..Len(channel[j]) /\ Readers(j) \subseteq Requests
  BY DEF Starts, Readers
<1> QED
  BY <1>1, <1>2, <1>3, FS_Subset, FS_CardinalityType

LEMMA PopStarts ==
  ASSUME Types, NEW j \in Jobs, channel[j] # <<>>, channel' = [channel EXCEPT ![j] = Tail(channel[j])]
  PROVE  /\ Cardinality(Starts(j)') \in Nat
         /\ Cardinality(Starts(j)') = IF Start(Head(channel[j])) THEN Cardinality(Starts(j)) - 1
                                      ELSE Cardinality(Starts(j))
<1>1. /\ Len(channel[j]) \in Nat \ {0} /\ Head(channel[j]) = channel[j][1]
      /\ Len(channel'[j]) = Len(channel[j]) - 1
      /\ \A i \in 1..Len(channel'[j]) : channel'[j][i] = channel[j][i + 1]
  BY PopEntries
<1> DEFINE S == Starts(j) \ {1}
           T == Starts(j)'
<1>2. IsFiniteSet(Starts(j)) /\ Cardinality(Starts(j)) \in Nat /\ Starts(j) \in SUBSET Int
  BY StartsFinite
<1>3. IsFiniteSet(S) /\ Cardinality(S) = IF 1 \in Starts(j) THEN Cardinality(Starts(j)) - 1 ELSE Cardinality(Starts(j))
  BY <1>2, FS_RemoveElement
<1>4. 1 \in Starts(j) <=> Start(Head(channel[j]))
  BY <1>1 DEF Starts
<1>5. T = {i \in 1..Len(channel'[j]) : Start(channel'[j][i])}
  BY DEF Starts, Start
<1>6. T \in SUBSET Int
  BY <1>1, <1>5
<1>7. ASSUME NEW i \in Int
      PROVE  i \in T <=> i + 1 \in S
  <2>1. i \in 1..Len(channel'[j]) <=> i + 1 \in 1..Len(channel[j]) /\ i + 1 # 1
    BY <1>1
  <2>2. i \in T <=> i \in 1..Len(channel'[j]) /\ Start(channel'[j][i])
    BY <1>5
  <2>3. i + 1 \in S <=> i + 1 \in 1..Len(channel[j]) /\ i + 1 # 1 /\ Start(channel[j][i + 1])
    BY DEF Starts
  <2> QED
    BY <1>1, <2>1, <2>2, <2>3
<1>8. S \in SUBSET Int
  BY <1>2
<1> HIDE DEF S, T
<1>9. Cardinality(T) = Cardinality(S)
  BY <1>3, <1>6, <1>7, <1>8, ShiftDown
<1>10. Cardinality(S) \in Nat
  BY <1>3, FS_CardinalityType
<1> QED
  BY <1>3, <1>4, <1>9, <1>10 DEF T

LEMMA PushStarts ==
  ASSUME Types, NEW j \in Jobs, NEW m \in Fragment(j), NEW n \in 0..2, Push(j, m, n)
  PROVE  Cardinality(Starts(j)') = IF Start(m) THEN Cardinality(Starts(j)) + n ELSE Cardinality(Starts(j))
<1> DEFINE l == Len(channel[j])
           T == Starts(j)'
<1>1. /\ l \in Nat /\ Len(channel'[j]) = l + n
      /\ \A i \in 1..Len(channel'[j]) : channel'[j][i] = IF i <= l THEN channel[j][i] ELSE m
  <2>1. l \in Nat
    BY DEF Types, StoreTypes
  <2> QED
    BY <2>1, PushEntries
<1>2. IsFiniteSet(Starts(j)) /\ Cardinality(Starts(j)) \in Nat /\ Starts(j) \subseteq 1..l
  BY StartsFinite
<1>3. T = {i \in 1..Len(channel'[j]) : Start(channel'[j][i])}
  BY DEF Starts, Start
<1>4. \A i : i \in T <=> i \in Starts(j) \/ (Start(m) /\ i \in l + 1..l + n)
  <2>1. \A i : i \in T <=> i \in 1..l + n /\ Start(channel'[j][i])
    BY <1>1, <1>3
  <2>2. \A i : i \in Starts(j) <=> i \in 1..l /\ Start(channel[j][i])
    BY DEF Starts
  <2>3. \A i : i \in 1..l + n <=> i \in 1..l \/ i \in l + 1..l + n
    BY <1>1
  <2>4. \A i \in l + 1..l + n : channel'[j][i] = m /\ i \notin 1..l
    BY <1>1
  <2>5. \A i \in 1..l : channel'[j][i] = channel[j][i]
    BY <1>1
  <2> HIDE DEF T, l
  <2> QED
    BY <2>1, <2>2, <2>3, <2>4, <2>5
<1>5. CASE ~Start(m)
  <2>1. T = Starts(j)
    BY <1>4, <1>5
  <2> QED
    BY <1>5, <2>1
<1>6. CASE Start(m)
  <2>1. T = Starts(j) \cup (l + 1..l + n)
    BY <1>4, <1>6
  <2>2. Starts(j) \cap (l + 1..l + n) = {}
    BY <1>1, <1>2
  <2>3. IsFiniteSet(l + 1..l + n) /\ Cardinality(l + 1..l + n) = n
    <3>1. l + 1 \in Int /\ l + n \in Int /\ (IF l + 1 > l + n THEN 0 ELSE (l + n) - (l + 1) + 1) = n
      BY <1>1
    <3> QED
      BY <3>1, FS_Interval
  <2> HIDE DEF T, l
  <2>4. Cardinality(Starts(j) \cap (l + 1..l + n)) = 0
    BY <2>2, FS_EmptySet
  <2> DEFINE more == l + 1..l + n
  <2>5. IsFiniteSet(more) /\ T = Starts(j) \cup more /\ Cardinality(more) = n /\ Cardinality(Starts(j) \cap more) = 0
    BY <2>1, <2>3, <2>4
  <2> HIDE DEF more
  <2>6. Cardinality(T) = Cardinality(Starts(j)) + Cardinality(more) - Cardinality(Starts(j) \cap more)
    BY <1>2, <2>5, FS_Union
  <2> QED
    BY <1>2, <1>6, <2>5, <2>6 DEF T
<1> QED
  BY <1>5, <1>6

LEMMA InitPublished == Init => Published
<1> SUFFICES ASSUME Init PROVE Published
  OBVIOUS
<1>1. ASSUME NEW j \in Jobs PROVE Balance(j)
  <2>1. Readers(j) = {} /\ Starts(j) = {}
    BY <1>1 DEF Init, Readers, Starts, NoFetch
  <2>2. handed[j] = 0 /\ copies[j] = 0
    BY <1>1 DEF Init
  <2> QED
    BY <2>1, <2>2, FS_EmptySet DEF Balance
<1>2. \A j \in Jobs : channel[j] = <<>> /\ Readers(j) = {}
  BY DEF Init, Readers, NoFetch
<1> QED
  BY <1>1, <1>2 DEF Published, Seen

\* What a push does to the balance of its job.
LEMMA PushPublishes ==
  ASSUME Types, NEW k \in Jobs, NEW m \in Fragment(k), NEW n \in 0..2, Push(k, m, n),
         UNCHANGED <<fetch, handed>>, UNCHANGED inputVars, NEW j \in Jobs
  PROVE  /\ Balance(j) => Balance(j)'
         /\ Seen(j) => Seen(j)'
         /\ copies' = copies \/ \E x \in 1..2 : copies' = [copies EXCEPT ![k] = copies[k] + x]
<1>1. /\ copies \in [Jobs -> Nat] /\ handed[j] \in Nat /\ Len(channel[j]) \in Nat
      /\ Cardinality(Starts(j)) \in Nat /\ Cardinality(Readers(j)) \in Nat
      /\ channel[j] \in Seq(Messages)
  BY StartsFinite DEF Types, HistoryTypes, StoreTypes
<1>2. copies' = [copies EXCEPT ![k] = IF Start(m) THEN copies[k] + n ELSE copies[k]]
  BY DEF Push, Start
<1>3. Readers(j)' = Readers(j) /\ handed' = handed
  BY DEF Readers
<1>6. copies' = copies \/ \E x \in 1..2 : copies' = [copies EXCEPT ![k] = copies[k] + x]
  <2>1. CASE ~Start(m) \/ n = 0
    <3>1. (IF Start(m) THEN copies[k] + n ELSE copies[k]) = copies[k]
      BY <1>1, <2>1
    <3>2. copies' = [copies EXCEPT ![k] = copies[k]]
      BY <1>2, <3>1
    <3>3. copies' = copies
      BY <1>1, <3>2
    <3> QED
      BY <3>3
  <2>3. CASE Start(m) /\ n # 0
    <3>1. copies' = [copies EXCEPT ![k] = copies[k] + n] /\ n \in 1..2
      BY <1>2, <2>3
    <3> QED
      BY <3>1
  <2> QED
    BY <2>1, <2>3
<1>4. CASE j # k
  <2>1. channel'[j] = channel[j] /\ copies'[j] = copies[j]
    BY <1>1, <1>2, <1>4, PushEntries
  <2>2. Starts(j)' = Starts(j)
    BY <2>1 DEF Starts, Start
  <2>3. Balance(j) => Balance(j)'
    BY <1>3, <2>1, <2>2 DEF Balance
  <2>4. Seen(j) => Seen(j)'
    BY <1>3, <2>1 DEF Seen
  <2> QED
    BY <1>6, <2>3, <2>4
<1>5. CASE j = k
  <2>1. /\ Cardinality(Starts(j)') = IF Start(m) THEN Cardinality(Starts(j)) + n ELSE Cardinality(Starts(j))
        /\ copies'[j] = IF Start(m) THEN copies[j] + n ELSE copies[j]
    BY <1>1, <1>2, <1>5, PushStarts
  <2>2. Balance(j) => Balance(j)'
    BY <1>1, <1>3, <2>1 DEF Balance
  <2>3. ASSUME channel[j] # <<>> /\ Head(channel[j]) = 0 => copies[j] > 0,
               channel'[j] # <<>> /\ Head(channel'[j]) = 0
        PROVE  copies'[j] > 0
    <3>1. CASE channel[j] # <<>>
      <4>1. Head(channel[j]) = 0
        BY <1>5, <2>3, <3>1, PushEntries
      <4> QED
        BY <1>1, <2>1, <2>3, <3>1, <4>1
    <3>2. CASE channel[j] = <<>>
      <4>0. channel' \in [Jobs -> Seq(Messages)]
        BY PushTypes
      <4>1. Len(channel[j]) = 0 /\ channel'[j] \in Seq(Messages)
        BY <3>2, <4>0
      <4>2. Len(channel'[j]) = n /\ Len(channel'[j]) # 0 /\ Head(channel'[j]) = channel'[j][1]
        BY <1>5, <2>3, <4>1, PushEntries
      <4>3. channel'[j][1] = m
        BY <1>5, <4>1, <4>2, PushEntries
      <4> QED
        BY <1>1, <2>1, <2>3, <4>2, <4>3 DEF Start
    <3> QED
      BY <3>1, <3>2
  <2>4. copies[j] > 0 => copies'[j] > 0
    BY <1>1, <2>1
  <2>5. Seen(j) => Seen(j)'
    BY <1>3, <2>3, <2>4 DEF Seen
  <2> QED
    BY <1>6, <2>2, <2>5
<1> QED
  BY <1>4, <1>5

\* A fetch thread that pops a first fragment becomes its reader.
LEMMA FetchBalances ==
  ASSUME Types, ~Shared, NEW r \in Requests, NEW k \in Jobs, FetchStep(r, k) \/ FetchFails(r, k),
         NEW j \in Jobs, Balance(j)
  PROVE  Balance(j)'
<1>1. /\ mode = "DESTRUCTIVE" /\ fetch \in [Requests -> [Jobs -> FetchStates]]
      /\ fetch[r][k].step \in {"first", "rest"} /\ fetch[r][k] \in FetchStates
      /\ UNCHANGED <<copies, handed>> /\ handed[j] \in Nat /\ copies[j] \in Nat
  BY FetchStepChanges, InputFacts DEF Types, Shared, ModeValues, FetchTypes, HistoryTypes, history, restHistory
<1>2. /\ \A s \in Requests : s # r => fetch'[s] = fetch[s]
      /\ \A f : SetFetch(r, k, f) => fetch'[r][k] = f
      /\ \A i \in Jobs : i # k => fetch'[r][i] = fetch[r][i]
      /\ \A i \in Jobs : i # k => channel'[i] = channel[i]
      /\ \/ channel' = channel
         \/ channel[k] # <<>> /\ channel' = [channel EXCEPT ![k] = Tail(channel[k])]
  <2>1. \E f : FetchChange(r, k, f)
    BY FetchStepChanges
  <2> QED
    BY <1>1, <2>1 DEF FetchChange, SetFetch, Types, StoreTypes
<1>3. CASE j # k
  <2>1. fetch'[r][j] = fetch[r][j] /\ Readers(j)' = Readers(j) /\ Starts(j)' = Starts(j)
    BY <1>2, <1>3 DEF Readers, Starts, Start
  <2> QED
    BY <1>1, <2>1 DEF Balance
<1>4. CASE j = k
  <2>1. /\ IsFiniteSet(Readers(j)) /\ Cardinality(Readers(j)) \in Nat /\ Cardinality(Starts(j)) \in Nat
    BY StartsFinite
  <2>2. \A s : s # r => (s \in Readers(j) <=> s \in Readers(j)')
    BY <1>2 DEF Readers
  <2>3. /\ r \in Readers(j) <=> fetch[r][j].step \in {"ok", "rest"}
        /\ r \in Readers(j)' <=> fetch'[r][j].step \in {"ok", "rest"}
    BY DEF Readers
  <2>4. /\ Cardinality(Readers(j)') \in Nat
        /\ (r \in Readers(j) <=> r \in Readers(j)') => Cardinality(Readers(j)') = Cardinality(Readers(j))
        /\ r \notin Readers(j) /\ r \in Readers(j)' => Cardinality(Readers(j)') = Cardinality(Readers(j)) + 1
        /\ r \in Readers(j) /\ r \notin Readers(j)' => Cardinality(Readers(j)') = Cardinality(Readers(j)) - 1
    BY <2>1, <2>2, OneApart
  <2>5. /\ Cardinality(Starts(j)') \in Nat /\ Cardinality(Starts(j)') <= Cardinality(Starts(j))
        /\ channel' # channel /\ Start(Head(channel[k])) => Cardinality(Starts(j)') = Cardinality(Starts(j)) - 1
    <3>1. CASE channel' = channel
      <4>1. Starts(j)' = Starts(j)
        BY <3>1 DEF Starts, Start
      <4> QED
        BY <2>1, <3>1, <4>1
    <3>2. CASE channel' # channel
      BY <1>2, <1>4, <2>1, <3>2, PopStarts
    <3> QED
      BY <3>1, <3>2
  <2>6. CASE r \in Readers(j)' => r \in Readers(j)
    BY <1>1, <2>1, <2>4, <2>5, <2>6 DEF Balance
  <2>7. CASE r \in Readers(j)' /\ r \notin Readers(j)
    <3>1. fetch[r][k].step = "first" /\ fetch'[r][k].step \in {"ok", "rest"}
      BY <1>1, <1>4, <2>3, <2>7
    <3>2. PopFirst(r, k)
      <4>1. ~PopNext(r, k) /\ ~PollFirst(r, k) /\ ~PollRest(r, k) /\ ~PollTimesOut(r, k)
        BY <1>1, <3>1 DEF PopNext, PollFirst, PollRest, PollTimesOut
      <4>2. ~PopTimesOut(r, k)
        BY <1>1, <1>2, <3>1 DEF PopTimesOut, FetchStates
      <4>3. ~FetchFails(r, k)
        BY <1>1, <1>2, <3>1 DEF FetchFails, FetchStates, Fresh, NoFetch
      <4> QED
        BY <4>1, <4>2, <4>3 DEF FetchStep
    <3>3. Start(Head(channel[k])) /\ channel' # channel
      <4>1. channel[k] # <<>> /\ channel' = [channel EXCEPT ![k] = Tail(channel[k])]
        BY <3>2 DEF PopFirst
      <4>2. Len(channel'[k]) # Len(channel[k])
        <5>1. Len(channel[k]) \in Nat /\ Len(channel'[k]) = Len(channel[k]) - 1
          BY <4>1, PopEntries
        <5> QED
          BY <5>1
      <4>3. fetch'[r][k].step = IF Count(k, Head(channel[k])) = 1 THEN "ok"
                                ELSE IF Head(channel[k]) = 0 THEN "rest" ELSE "error"
        BY <1>2, <3>2 DEF PopFirst
      <4>4. Head(channel[k]) \in Fragment(k)
        <5>1. channel[k] \in Seq(Fragment(k))
          BY DEF Types, StoreTypes
        <5> HIDE DEF Fragment
        <5> QED
          BY <4>1, <5>1
      <4>5. size[k] = 1 => Start(Head(channel[k]))
        BY <4>4 DEF Fragment, Start
      <4> QED
        BY <3>1, <4>2, <4>3, <4>5 DEF Count, Start
    <3> QED
      BY <1>1, <1>4, <2>1, <2>4, <2>5, <2>7, <3>3 DEF Balance
  <2> QED
    BY <2>6, <2>7
<1> QED
  BY <1>3, <1>4

\* Where results are shared it becomes one when it sees a first fragment.
LEMMA FetchSeen ==
  ASSUME Types, Shared, NEW r \in Requests, NEW k \in Jobs, FetchStep(r, k) \/ FetchFails(r, k),
         NEW j \in Jobs, Seen(j)
  PROVE  Seen(j)'
<1>1. /\ mode = "NON_DESTRUCTIVE" /\ fetch \in [Requests -> [Jobs -> FetchStates]]
      /\ fetch[r][k].step \in {"first", "rest"} /\ fetch[r][k] \in FetchStates
      /\ copies' = copies
  BY FetchStepChanges, InputFacts DEF Types, Shared, FetchTypes, history
<1>2. /\ \A s \in Requests : s # r => fetch'[s] = fetch[s]
      /\ \A f : SetFetch(r, k, f) => fetch'[r][k] = f
      /\ \A i \in Jobs : i # k => fetch'[r][i] = fetch[r][i]
      /\ channel' = channel
  <2>1. \E f : FetchChange(r, k, f)
    BY FetchStepChanges
  <2> QED
    BY <1>1, <2>1 DEF FetchChange, SetFetch
<1>3. ASSUME NEW s \in Readers(j)' PROVE copies[j] > 0
  <2>1. CASE s # r \/ j # k
    BY <1>2, <1>3, <2>1 DEF Readers, Seen
  <2>2. CASE s = r /\ j = k /\ fetch[r][k].step = "rest"
    BY <2>2 DEF Readers, Seen
  <2>3. CASE s = r /\ j = k /\ fetch[r][k].step = "first"
    <3>1. fetch'[r][k].step \in {"ok", "rest"}
      BY <1>3, <2>3 DEF Readers
    <3>2. ~PollTimesOut(r, k) /\ ~FetchFails(r, k)
      BY <1>1, <1>2, <2>3, <3>1 DEF PollTimesOut, FetchFails, FetchStates, Fresh, NoFetch
    <3>3. PollFirst(r, k)
      BY <1>1, <2>3, <3>2 DEF FetchStep, PopFirst, PopNext, PopTimesOut, PollRest
    <3>4. channel[k] # <<>> /\ Head(channel[k]) = 0
      BY <1>1, <1>2, <2>3, <3>1, <3>3 DEF PollFirst, FetchStates
    <3> QED
      BY <2>3, <3>4 DEF Seen
  <2> QED
    BY <1>1, <2>1, <2>2, <2>3
<1> QED
  BY <1>1, <1>2, <1>3 DEF Seen

\* An answer hands out what its request has read.
LEMMA HandlerBalances ==
  ASSUME Types, ~Shared, NEW r \in Requests, HandlerNext(r), NEW j \in Jobs, Balance(j)
  PROVE  Balance(j)'
<1>1. /\ mode = "DESTRUCTIVE" /\ fetch \in [Requests -> [Jobs -> FetchStates]]
      /\ UNCHANGED <<copies, channel>> /\ handed \in [Jobs -> Nat] /\ copies[j] \in Nat
  BY HandlerStays, InputFacts DEF Types, Shared, ModeValues, FetchTypes, HandlerFrame, HistoryTypes
<1>2. \A s \in Requests : s # r => fetch'[s] = fetch[s]
  BY OthersKeep DEF RequestNext
<1>3. /\ fetch'[r][j] \in {fetch[r][j], NoFetch, Fresh}
      /\ NoFetch.step = "off" /\ Fresh.step = "first"
  <2>1. UNCHANGED fetch \/ Forget(r) \/ \E js : Open(r, js)
    BY DEF HandlerNext, Ask, ReadInfo, ReadState, ReadSubjobStates, NotReady, FetchError, Deliver
  <2> QED
    BY <1>1, <2>1 DEF Forget, Open, NoFetch, Fresh
<1>4. IsFiniteSet(Readers(j)) /\ Cardinality(Readers(j)) \in Nat /\ Cardinality(Starts(j)) \in Nat
  BY StartsFinite
<1>5. \A s : s # r => (s \in Readers(j) <=> s \in Readers(j)')
  BY <1>2 DEF Readers
<1>6. /\ r \in Readers(j) <=> fetch[r][j].step \in {"ok", "rest"}
      /\ r \in Readers(j)' <=> fetch'[r][j].step \in {"ok", "rest"}
  BY DEF Readers
<1>7. /\ Cardinality(Readers(j)') \in Nat
      /\ (r \in Readers(j) <=> r \in Readers(j)') => Cardinality(Readers(j)') = Cardinality(Readers(j))
      /\ r \in Readers(j) /\ r \notin Readers(j)' => Cardinality(Readers(j)') = Cardinality(Readers(j)) - 1
  BY <1>4, <1>5, OneApart
<1>8. Starts(j)' = Starts(j)
  BY <1>1 DEF Starts, Start
<1>9. r \in Readers(j)' => r \in Readers(j)
  BY <1>3, <1>6
<1>10. CASE Deliver(r) /\ fetch[r][j].step = "ok"
  <2>1. handed'[j] = handed[j] + 1
    BY <1>1, <1>10 DEF Deliver, With
  <2>2. r \in Readers(j) /\ r \notin Readers(j)'
    BY <1>1, <1>3, <1>6, <1>10 DEF Deliver, Forget
  <2> QED
    BY <1>1, <1>4, <1>7, <1>8, <2>1, <2>2 DEF Balance
<1>11. CASE ~(Deliver(r) /\ fetch[r][j].step = "ok")
  <2>1. handed'[j] = handed[j]
    BY <1>1, <1>11 DEF HandlerNext, Ask, ReadInfo, ReadState, ReadSubjobStates, NotReady, FetchError, Deliver, With
  <2> QED
    BY <1>1, <1>4, <1>7, <1>8, <1>9, <2>1 DEF Balance
<1> QED
  BY <1>10, <1>11

LEMMA HandlerSeen ==
  ASSUME Types, NEW r \in Requests, HandlerNext(r), NEW j \in Jobs, Seen(j)
  PROVE  Seen(j)'
<1>1. /\ fetch \in [Requests -> [Jobs -> FetchStates]] /\ UNCHANGED <<copies, channel>>
  BY HandlerStays DEF Types, FetchTypes, HandlerFrame
<1>2. \A s \in Requests : s # r => fetch'[s] = fetch[s]
  BY OthersKeep DEF RequestNext
<1>3. /\ fetch'[r][j] \in {fetch[r][j], NoFetch, Fresh}
      /\ NoFetch.step = "off" /\ Fresh.step = "first"
  <2>1. UNCHANGED fetch \/ Forget(r) \/ \E js : Open(r, js)
    BY DEF HandlerNext, Ask, ReadInfo, ReadState, ReadSubjobStates, NotReady, FetchError, Deliver
  <2> QED
    BY <1>1, <2>1 DEF Forget, Open, NoFetch, Fresh
<1>4. Readers(j)' \subseteq Readers(j)
  BY <1>2, <1>3 DEF Readers
<1> QED
  BY <1>1, <1>4 DEF Seen

\* A channel that lapses holds no start any more.
LEMMA ExpirePublished ==
  ASSUME Types, Expiry, NEW j \in Jobs
  PROVE  (Seen(j) => Seen(j)') /\ (Balance(j) => Balance(j)')
<1>1. UNCHANGED <<copies, handed, fetch>> /\ Readers(j)' = Readers(j) /\ channel \in [Jobs -> Seq(Messages)]
  BY ExpireStays DEF Expire, Readers, Types, StoreTypes
<1>2. CASE channel'[j] = channel[j]
  <2>1. Starts(j)' = Starts(j)
    BY <1>2 DEF Starts, Start
  <2> QED
    BY <1>1, <1>2, <2>1 DEF Seen, Balance
<1>3. CASE channel'[j] # channel[j]
  <2>1. channel'[j] = <<>>
    BY <1>1, <1>3, ExpireStays DEF ExpireChannel
  <2>2. Starts(j)' = {}
    BY <2>1 DEF Starts
  <2>3. Cardinality(Starts(j)') = 0
    BY <2>2, FS_EmptySet
  <2>4. /\ handed[j] \in Nat /\ copies[j] \in Nat
        /\ Cardinality(Readers(j)) \in Nat /\ Cardinality(Starts(j)) \in Nat
    BY StartsFinite DEF Types, HistoryTypes
  <2>5. Balance(j) => Balance(j)'
    BY <1>1, <2>3, <2>4 DEF Balance
  <2> QED
    BY <1>1, <2>1, <2>5 DEF Seen
<1> QED
  BY <1>2, <1>3

LEMMA StepPublished == Types /\ Published /\ [Next]_vars => Published'
<1> SUFFICES ASSUME Types, Published, [Next]_vars PROVE Published'
  OBVIOUS
<1>1. Shared' <=> Shared
  BY InputsFixed DEF inputVars, Shared
<1>2. CASE UNCHANGED <<channel, fetch, copies, handed>>
  BY <1>1, <1>2 DEF Published, Seen, Balance, Readers, Starts, Start
<1>3. ASSUME NEW w \in Workers, WorkerNext(w), ~UNCHANGED <<channel, copies>>
      PROVE  Published'
  <2>1. UNCHANGED <<fetch, handed>> /\ UNCHANGED inputVars
    BY <1>3, WorkerFrame
  <2>2. \E k \in Jobs : \E m \in Fragment(k) : \E n \in 0..2 : Push(k, m, n)
    <3>1. PushFragment(w) \/ PushFails(w) \/ ReportFailure(w)
      BY <1>3 DEF WorkerNext, TakeTask, SinkRefuses, storeVars, history
    <3> QED
      BY <1>3, <3>1, WorkerPushes DEF Fragment
  <2> QED
    BY <1>1, <2>1, <2>2, PushPublishes DEF Published
<1>4. ASSUME NEW r \in Requests, RequestNext(r)
      PROVE  Published'
  <2>1. Shared => \A j \in Jobs : Seen(j) => Seen(j)'
    BY <1>4, FetchSeen, HandlerSeen DEF RequestNext
  <2>3. ~Shared => \A j \in Jobs : Balance(j) => Balance(j)'
    BY <1>4, FetchBalances, HandlerBalances DEF RequestNext
  <2> QED
    BY <1>1, <2>1, <2>3 DEF Published
<1> QED
  <2>1. CASE \E d \in Docs : SubmitNext(d)
    BY <1>2, <2>1, SubmitFrame DEF history, restHistory
  <2>2. CASE \E w \in Workers : WorkerNext(w)
    BY <1>2, <1>3, <2>2, WorkerFrame
  <2>3. CASE Expiry
    BY <1>1, <2>3, ExpirePublished DEF Published
  <2>4. CASE UNCHANGED vars
    BY <1>2, <2>4 DEF vars, history, restHistory, storeVars
  <2> QED
    BY <1>4, <2>1, <2>2, <2>3, <2>4, NextCases DEF RequestNext

\* Deliver hands out what its request has read: a copy of each was published.
LEMMA DeliverHandsOut ==
  ASSUME Types, Published, NEW r \in Requests, Deliver(r)
  PROVE  Contract!HandOut(With(r, "ok"))
<1> DEFINE good == With(r, "ok")
<1>1. /\ UNCHANGED <<copies, mode>> /\ (mode = "DESTRUCTIVE" <=> ~Shared)
      /\ handed' = [j \in Jobs |-> IF j \notin good THEN handed[j]
                                   ELSE IF mode = "DESTRUCTIVE" THEN handed[j] + 1 ELSE 1]
  BY InputFacts DEF Deliver, HandlerFrame, inputVars, Types, Shared, ModeValues
<1>2. ASSUME NEW j \in good
      PROVE  copies[j] > 0 /\ (~Shared => handed[j] < copies[j])
  <2>1. j \in Jobs /\ fetch[r][j].step = "ok"
    BY DEF With
  <2>2. copies[j] \in Nat /\ handed[j] \in Nat
    BY <2>1 DEF Types, HistoryTypes
  <2>3. Shared => copies[j] > 0
    BY <2>1 DEF Published, Seen, Readers
  <2>4. ASSUME ~Shared PROVE handed[j] < copies[j]
    <3>1. IsFiniteSet(Readers(j)) /\ Cardinality(Readers(j)) \in Nat /\ Cardinality(Starts(j)) \in Nat
      BY <2>1, StartsFinite
    <3>2. r \in Readers(j)
      BY <2>1 DEF Readers
    <3>3. Cardinality(Readers(j)) # 0
      BY <3>1, <3>2, FS_EmptySet
    <3>4. handed[j] + Cardinality(Readers(j)) + Cardinality(Starts(j)) <= copies[j]
      BY <2>1, <2>4 DEF Published, Balance
    <3> QED
      BY <2>2, <3>1, <3>3, <3>4
  <2> QED
    BY <2>2, <2>3, <2>4
<1>3. Shared' <=> Shared
  BY <1>1 DEF Shared
<1>4. handed' = [j \in Jobs |-> IF j \notin good THEN handed[j] ELSE IF Shared THEN 1 ELSE handed[j] + 1]
  <2>1. CASE Shared
    BY <1>1, <2>1
  <2>2. CASE ~Shared
    BY <1>1, <2>2
  <2> QED
    BY <2>1, <2>2
<1> HIDE DEF good
<1> QED
  BY <1>1, <1>2, <1>3, <1>4 DEF Contract!HandOut, good

LEMMA StepContract ==
  Types /\ Published /\ [Next]_vars => [Contract!Next]_(Contract!contractVars)
<1> SUFFICES ASSUME Types, Published, [Next]_vars
             PROVE  Contract!Next \/ UNCHANGED <<Shared, copies, handed>>
  BY DEF Contract!contractVars
<1>1. Shared' <=> Shared
  BY InputsFixed DEF inputVars, Shared
<1>2. CASE UNCHANGED <<copies, handed>>
  BY <1>1, <1>2
<1>3. ASSUME NEW w \in Workers, WorkerNext(w), copies' # copies
      PROVE  Contract!Next
  <2>1. UNCHANGED <<fetch, handed>> /\ UNCHANGED inputVars
    BY <1>3, WorkerFrame
  <2>2. PICK k \in Jobs : \E m \in Fragment(k) : \E n \in 0..2 : Push(k, m, n)
    <3>1. PushFragment(w) \/ PushFails(w) \/ ReportFailure(w)
      BY <1>3 DEF WorkerNext, TakeTask, SinkRefuses, history
    <3> QED
      BY <1>3, <3>1, WorkerPushes DEF Fragment
  <2>3. PICK x \in 1..2 : copies' = [copies EXCEPT ![k] = copies[k] + x]
    BY <1>3, <2>1, <2>2, PushPublishes
  <2> QED
    BY <1>1, <2>1, <2>3 DEF Contract!Next, Contract!Publish
<1>4. ASSUME NEW r \in Requests, RequestNext(r)
      PROVE  UNCHANGED <<copies, handed>> \/ Contract!Next
  <2>1. CASE Deliver(r)
    <3>1. With(r, "ok") \in SUBSET Jobs
      BY DEF With
    <3> QED
      BY <2>1, <3>1, DeliverHandsOut DEF Contract!Next
  <2>2. CASE ~Deliver(r)
    BY <1>4, <2>2, FetchStepChanges DEF RequestNext, HandlerNext, Ask, ReadInfo, ReadState, ReadSubjobStates, NotReady,
       FetchError, HandlerFrame, history, restHistory
  <2> QED
    BY <2>1, <2>2
<1> QED
  <2>1. CASE \E d \in Docs : SubmitNext(d)
    BY <1>2, <2>1, SubmitFrame DEF history, restHistory
  <2>2. CASE \E w \in Workers : WorkerNext(w)
    BY <1>2, <1>3, <2>2, WorkerFrame
  <2>3. CASE Expiry
    BY <1>2, <2>3, ExpireStays DEF Expire
  <2>4. CASE UNCHANGED vars
    BY <1>2, <2>4 DEF vars, history, restHistory
  <2> QED
    BY <1>2, <1>4, <2>1, <2>2, <2>3, <2>4, NextCases DEF RequestNext

\* Redis errors and expiry included, the store implements its contract: what is handed
\* out was published, and what is removed is handed out at most once per copy.
THEOREM StoreKeepsContract == Spec => ImplementsContract
<1>1. Init => Types /\ Published /\ Contract!Init
  <2>1. Init => Contract!Init
    BY DEF Init, Contract!Init, Shared
  <2> QED
    BY <2>1, InitTypes, InitPublished
<1>2. Types /\ Published /\ [Next]_vars => (Types /\ Published)' /\ [Contract!Next]_(Contract!contractVars)
  BY StepTypes, StepPublished, StepContract
<1> QED
  BY <1>1, <1>2, PTL DEF Spec, ImplementsContract, Contract!Spec
=============================================================================
