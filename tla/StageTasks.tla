------------------------------ MODULE StageTasks ------------------------------
(***************************************************************************)
(* The journey of one control message through the stages of the default    *)
(* pipeline: which stage takes which of its tasks, where the user-defined  *)
(* functions (UDFs) run, how a failure is recorded, and what is answered.  *)
(*                                                                         *)
(* The on_data of a stage is wrapped, from the outside in, by the failure  *)
(* decorator, by the UDF hook and by the task filter.  Only one actor has  *)
(* the message at a time (StagePipeline is about that), so messages follow *)
(* each other here; what one leaves to the next is the UDF cache that each *)
(* stage actor keeps.                                                      *)
(*                                                                         *)
(* A UDF returns the message it was given, raises, or returns something    *)
(* that is no message; what it does to payload, metadata and tasks is left *)
(* out.  INGEST_DISABLE_UDF_PROCESSING is not set.                         *)
(***************************************************************************)
EXTENDS Integers, Sequences, FiniteSets, SequencesExt, Selections

CONSTANTS
  Jobs,         \* records with a field `valid` and the sequence `tasks`
  CacheSize,    \* max_size of UDFCache
  MaxJobs       \* bound: messages that follow each other

\* The records of tasks: every task has a type.
TaskRecords == [type : STRING \ {""}, doc : STRING, fn : STRING, target : STRING,
                when : SUBSET {"run_before", "run_after"}]

ASSUME StagesAssumption ==
  /\ Jobs \subseteq [valid : BOOLEAN, tasks : Seq(TaskRecords)]
  /\ CacheSize \in Nat \ {0} /\ MaxJobs \in Nat

\* A task has a type; an extract task also a document type, a udf task its function (by
\* name), the stage it targets ("" when it names a phase) and its directives.
Task(type) == [type |-> type, doc |-> "", fn |-> "", target |-> "", when |-> {}]
Extract(doc) == [Task("extract") EXCEPT !.doc = doc]
Udf(fn, target, when) == [Task("udf") EXCEPT !.fn = fn, !.target = target, !.when = when]

-----------------------------------------------------------------------------
(* The stages: the task type one filters for, and the document types if it looks at *)
(* them.  A stage without a task type handles every message.                        *)

Always(name) == [name |-> name, task |-> "", docs |-> {}]
Needs(name, task) == [name |-> name, task |-> task, docs |-> {}]
Extracts(name, docs) == [name |-> name, task |-> "extract", docs |-> docs]

MetadataInjectionStage      == Always("metadata_injector")
PDFExtractorStage           == Extracts("pdf_extractor", {"pdf"})
AudioExtractorStage         == Extracts("audio_extractor", {"mp3", "wav"})
DocxExtractorStage          == Extracts("docx_extractor", {"docx"})
PPTXExtractorStage          == Extracts("pptx_extractor", {"pptx"})
ImageExtractorStage         == Extracts("image_extractor", {"png", "jpeg", "jpg", "tiff", "bmp"})
HtmlExtractorStage          == Extracts("html_extractor", {"html"})
InfographicExtractorStage   == Needs("infographic_extractor", "infographic_data_extract")
TableExtractorStage         == Needs("table_extractor", "table_data_extract")
ChartExtractorStage         == Needs("chart_extractor", "chart_data_extract")
ImageFilterStage            == Needs("image_filter", "filter")
ImageDedupStage             == Needs("image_dedup", "dedup")
TextSplitterStage           == Needs("text_splitter", "split")
ImageCaptionTransformStage  == Needs("image_caption", "caption")
TextEmbeddingTransformStage == Needs("text_embedder", "embed")
ImageStorageStage           == Needs("image_storage", "store")
EmbeddingStorageStage       == Needs("embedding_storage", "store_embedding")
MessageBrokerTaskSinkStage  == Always("broker_response")
OpenTelemetryTracerStage    == Always("otel_tracer")
DefaultDrainSink            == Always("default_drain")

Pipeline ==
  <<MetadataInjectionStage, PDFExtractorStage, AudioExtractorStage, DocxExtractorStage,
    PPTXExtractorStage, ImageExtractorStage, HtmlExtractorStage, InfographicExtractorStage,
    TableExtractorStage, ChartExtractorStage, ImageFilterStage, ImageDedupStage,
    TextSplitterStage, ImageCaptionTransformStage, TextEmbeddingTransformStage,
    ImageStorageStage, EmbeddingStorageStage, MessageBrokerTaskSinkStage,
    OpenTelemetryTracerStage, DefaultDrainSink>>

Stops == DOMAIN Pipeline
SinkAt == CHOOSE s \in Stops : Pipeline[s] = MessageBrokerTaskSinkStage

\* filter_by_task: the stage's task type, and a document type that matches.
Selects(s, t) ==
  t.type = Pipeline[s].task /\ (Pipeline[s].docs = {} \/ t.doc \in Pipeline[s].docs)

-----------------------------------------------------------------------------
VARIABLES
  job,              \* the job the message carries
  taken,            \* how many jobs the source took
  at, phase,        \* the stage that has the message, and where its on_data is
  tasks,            \* the tasks in the message, by their position in the job
  cm_failed,
  pending, kept,    \* execute_targeted_udfs: UDF tasks to look at, and remaining_tasks
  unusable,         \* a UDF of this pass did not return a message
  executed,         \* history: pairs of a task and the stage that did it
  replies,          \* history: what the sink pushed
  cached,           \* UDFCache.cache of each stage: functions, in the order they were made
  access_order

udfVars   == <<pending, kept, unusable>>
cacheVars == <<cached, access_order>>
stageVars == <<job, taken, at, phase, tasks, cm_failed, udfVars, executed, replies,
               cacheVars>>

IsUdf(i) == job.tasks[i].type = "udf"
IsStageTask(i) == ~IsUdf(i)

StagesInit ==
  /\ job = [valid |-> FALSE, tasks |-> <<>>] /\ taken = 0
  /\ at = 1 /\ phase = "idle"
  /\ tasks = <<>> /\ cm_failed = FALSE
  /\ pending = <<>> /\ kept = <<>> /\ unusable = FALSE
  /\ executed = {} /\ replies = <<>>
  /\ cached = [s \in Stops |-> <<>>] /\ access_order = [s \in Stops |-> <<>>]

-----------------------------------------------------------------------------
(* The source. *)

\* A job that is not valid raises before its id is known: it was popped, and is dropped.
\* A later error marks the message failed, before or after its tasks were added.
ProcessMessage(j) ==
  /\ phase \in {"idle", "over"} /\ taken < MaxJobs
  /\ job' = j /\ taken' = taken + 1 /\ at' = 1
  /\ executed' = {} /\ replies' = <<>>
  /\ \/ ~j.valid /\ phase' = "over" /\ tasks' = <<>> /\ cm_failed' = FALSE
     \/ /\ j.valid /\ phase' = "arriving"
        /\ \/ tasks' = [i \in DOMAIN j.tasks |-> i] /\ cm_failed' \in BOOLEAN
           \/ tasks' = <<>> /\ cm_failed' = TRUE
  /\ UNCHANGED <<udfVars, cacheVars>>

-----------------------------------------------------------------------------
(* A stage. *)

\* on_data returned and its result goes to the next stage, if there is one.
PassOn ==
  IF at = Len(Pipeline) THEN phase' = "over" /\ UNCHANGED at
  ELSE phase' = "arriving" /\ at' = at + 1

\* cm_set_failure, by the failure decorator.
SetFailure == cm_failed' = TRUE

\* The sink alone has no failure decorator.
Guarded(s) == s # SinkAt

\* remove_all_tasks_by_type, at the start of a pass over the UDFs of `left`.
BeginPass(directive, left) ==
  /\ phase' = directive
  /\ pending' = Filtered(left, IsUdf)
  /\ tasks' = Filtered(left, IsStageTask)
  /\ UNCHANGED <<kept, unusable>>

\* The failure decorator lets a failed message pass; the drain has no hook.
Enter ==
  /\ phase = "arriving"
  /\ \/ cm_failed /\ Guarded(at) /\ PassOn /\ UNCHANGED <<tasks, udfVars>>
     \/ /\ ~(cm_failed /\ Guarded(at)) /\ UNCHANGED at
        /\ IF Pipeline[at] = DefaultDrainSink
           THEN phase' = "body" /\ UNCHANGED <<tasks, udfVars>>
           ELSE BeginPass("run_before", tasks)
  /\ UNCHANGED <<job, taken, cm_failed, executed, replies, cacheVars>>

Applies(u) == u.target = Pipeline[at].name /\ phase \in u.when

\* The next UDF is for another stage or directive, or has no code: it is kept.
KeepUdf ==
  /\ phase \in {"run_before", "run_after"} /\ pending # <<>>
  /\ LET u == job.tasks[Head(pending)] IN ~Applies(u) \/ u.fn = ""
  /\ kept' = Append(kept, Head(pending)) /\ pending' = Tail(pending)
  /\ UNCHANGED <<job, taken, at, phase, tasks, cm_failed, unusable, executed, replies,
                 cacheVars>>

MoveToEnd(order, key) == Append(Filtered(order, LAMBDA k : k # key), key)

\* UDFCache.get: what outlived its time goes first, and that is what was made first.
\* UDFCache.put, when a function was not there and compiles: the least recently used make
\* room.
UseCache(key, compiles) ==
  \E expired \in 0..Len(cached[at]) :
    LET live  == SubSeq(cached[at], expired + 1, Len(cached[at]))
        order == Filtered(access_order[at], LAMBDA k : k \in ToSet(live))
        over  == Len(live) + 1 - CacheSize
        stays == IF over > 0 THEN SubSeq(order, over + 1, Len(order)) ELSE order
    IN  IF key \in ToSet(live)
        THEN /\ compiles
             /\ cached' = [cached EXCEPT ![at] = live]
             /\ access_order' = [access_order EXCEPT ![at] = MoveToEnd(order, key)]
        ELSE IF ~compiles
        THEN /\ cached' = [cached EXCEPT ![at] = live]
             /\ access_order' = [access_order EXCEPT ![at] = order]
        ELSE /\ cached' = [cached EXCEPT ![at] =
                             Append(Filtered(live, LAMBDA k : k \in ToSet(stays)), key)]
             /\ access_order' = [access_order EXCEPT ![at] = Append(stays, key)]

UdfOutcomes == {"does not compile", "raises", "no message", "done"}

\* Mutant: a UDF that fails is gone.
KeptAfter_Nothing(outcome) == UNCHANGED kept

\* Only a UDF that was done is consumed.
KeptAfter(outcome) ==
  kept' = IF outcome = "done" THEN kept ELSE Append(kept, Head(pending))

\* The next UDF runs, on whatever the one before it returned.
RunUdf(outcome) ==
  /\ phase \in {"run_before", "run_after"} /\ pending # <<>>
  /\ LET u == job.tasks[Head(pending)]
     IN  Applies(u) /\ u.fn # "" /\ UseCache(u.fn, outcome # "does not compile")
  /\ unusable => outcome # "done"
  /\ unusable' = (unusable \/ outcome = "no message")
  /\ executed' = IF outcome = "done" THEN executed \union {<<Head(pending), at>>} ELSE executed
  /\ KeptAfter(outcome)
  /\ pending' = Tail(pending)
  /\ UNCHANGED <<job, taken, at, phase, tasks, cm_failed, replies>>

\* The remaining UDFs return to the end of the message.
EndPass ==
  /\ phase \in {"run_before", "run_after"} /\ pending = <<>> /\ ~unusable
  /\ tasks' = tasks \o kept /\ kept' = <<>>
  /\ IF phase = "run_before" THEN phase' = "body" /\ UNCHANGED at ELSE PassOn
  /\ UNCHANGED <<job, taken, cm_failed, pending, unusable, executed, replies, cacheVars>>

\* There is no message to return them to: the hook raises.  The failure decorator passes
\* on the message it was given, which has lost its UDFs; the loop of the sink drops it.
BreakPass ==
  /\ phase \in {"run_before", "run_after"} /\ pending = <<>> /\ unusable
  /\ kept' = <<>> /\ unusable' = FALSE
  /\ IF Guarded(at) THEN SetFailure /\ PassOn
     ELSE phase' = "over" /\ UNCHANGED <<at, cm_failed>>
  /\ UNCHANGED <<job, taken, tasks, pending, executed, replies, cacheVars>>

\* filter_by_task finds nothing for the stage.
NothingToDo ==
  /\ phase = "body" /\ Pipeline[at].task # ""
  /\ \A k \in DOMAIN tasks : ~Selects(at, job.tasks[tasks[k]])
  /\ BeginPass("run_after", tasks)
  /\ UNCHANGED <<job, taken, at, cm_failed, executed, replies, cacheVars>>

\* The stage does the first task of its type (remove_task_by_type), which need not be the
\* one the filter matched, or raises when it has removed it.
DoTask ==
  /\ phase = "body"
  /\ \E k \in DOMAIN tasks : Selects(at, job.tasks[tasks[k]])
  /\ LET ofType == {k \in DOMAIN tasks : job.tasks[tasks[k]].type = Pipeline[at].task}
         first  == CHOOSE k \in ofType : \A l \in ofType : k <= l
         left   == RemoveAt(tasks, first)
     IN  \/ /\ executed' = executed \union {<<tasks[first], at>>}
            /\ BeginPass("run_after", left)
            /\ UNCHANGED <<at, cm_failed>>
         \/ tasks' = left /\ SetFailure /\ PassOn /\ UNCHANGED <<udfVars, executed>>
  /\ UNCHANGED <<job, taken, replies, cacheVars>>

\* The injector and the tracer work on every message, and may raise.
Handle ==
  /\ phase = "body" /\ Pipeline[at] \in {MetadataInjectionStage, OpenTelemetryTracerStage}
  /\ \/ BeginPass("run_after", tasks) /\ UNCHANGED <<at, cm_failed>>
     \/ SetFailure /\ PassOn /\ UNCHANGED <<tasks, udfVars>>
  /\ UNCHANGED <<job, taken, executed, replies, cacheVars>>

\* The sink pushes the result, or that there is none; a result that cannot be converted or
\* is too large is replaced by a failure.
Reply ==
  /\ phase = "body" /\ at = SinkAt
  /\ \E r \in IF cm_failed THEN {"failed"} ELSE {"success", "failed"} :
       replies' = Append(replies, r)
  /\ BeginPass("run_after", tasks)
  /\ UNCHANGED <<job, taken, at, cm_failed, executed, cacheVars>>

Drain ==
  /\ phase = "body" /\ Pipeline[at] = DefaultDrainSink
  /\ PassOn
  /\ UNCHANGED <<job, taken, tasks, cm_failed, udfVars, executed, replies, cacheVars>>

StageStep ==
  \/ Enter \/ KeepUdf \/ EndPass \/ BreakPass
  \/ \E outcome \in UdfOutcomes : RunUdf(outcome)
  \/ NothingToDo \/ DoTask \/ Handle \/ Reply \/ Drain

StagesNext == (\E j \in Jobs : ProcessMessage(j)) \/ StageStep

StagesSpec == StagesInit /\ [][StagesNext]_stageVars

-----------------------------------------------------------------------------
(* Properties. *)

\* The variables have their types.
StagesTypeOK ==
  /\ at \in Stops /\ taken \in 0..MaxJobs
  /\ phase \in {"idle", "arriving", "run_before", "body", "run_after", "over"}
  /\ {tasks, pending, kept} \subseteq Seq(DOMAIN job.tasks)
  /\ {cm_failed, unusable} \subseteq BOOLEAN
  /\ executed \subseteq (DOMAIN job.tasks) \X Stops
  /\ replies \in Seq({"success", "failed"})

\* The message left the pipeline before its end.
Dropped == phase = "over" /\ at <= SinkAt

InMessage(i) == Cardinality({k \in DOMAIN (tasks \o pending \o kept) :
                               (tasks \o pending \o kept)[k] = i})

\* Every task is either still in the message, once, or was done by one stage, once.  One
\* that is neither belongs to a message that failed or was dropped: UDFs taken out, kept,
\* retried and put back, and stages that raise half-way, neither repeat nor lose work.
TasksAccounted ==
  \A i \in DOMAIN job.tasks :
    LET done == Cardinality({e \in executed : e[1] = i})
    IN  /\ InMessage(i) + done <= 1
        /\ InMessage(i) + done = 0 => cm_failed \/ Dropped

First(i) == \A k \in 1..i - 1 : job.tasks[k].type # job.tasks[i].type
HasStage(i) == \E s \in Stops : Selects(s, job.tasks[i])
Alike(i) == \A k \in DOMAIN job.tasks :
  job.tasks[k].type = job.tasks[i].type => job.tasks[k].doc = job.tasks[i].doc

\* A job answered "success" had the first task of every type done, by a stage for it as
\* long as its extract tasks name one document type; and a UDF ran at its stage only.
\* A second task of a type, and a UDF that failed or names a phase, may be left undone.
SuccessMeansDone ==
  /\ replies = <<"success">> =>
       \A i \in DOMAIN job.tasks : ~IsUdf(i) /\ First(i) /\ HasStage(i) =>
         \E s \in Stops :
           <<i, s>> \in executed /\ (Alike(i) => Selects(s, job.tasks[i]))
  /\ \A e \in executed : IsUdf(e[1]) => job.tasks[e[1]].target = Pipeline[e[2]].name

\* A valid job is answered once, whatever fails on its way; only a UDF that runs before
\* the sink and returns no message leaves its client without an answer.
RepliedOnce ==
  /\ Len(replies) <= 1
  /\ phase = "over" /\ job.valid /\ replies = <<>> =>
       \E i \in DOMAIN job.tasks :
         /\ job.tasks[i].target = MessageBrokerTaskSinkStage.name
         /\ "run_before" \in job.tasks[i].when

\* What a client may conclude from the answer of its job, and from its absence.
RepliesTellTruth == SuccessMeansDone /\ RepliedOnce

\* The two halves of a stage's UDF cache agree and are bounded: the loop that makes room
\* takes its victims from the order and counts those in the cache, and would not end if
\* they differed.
CacheInOrder ==
  \A s \in Stops :
    /\ ToSet(access_order[s]) = ToSet(cached[s])
    /\ IsInjective(access_order[s]) /\ IsInjective(cached[s])
    /\ Len(cached[s]) <= CacheSize

\* Through retries, failures and UDFs that come and go, every task of a job is either still in
\* the message or was done once, what a client may conclude from its answer, or from getting
\* none, is true, and the two halves of every stage's UDF cache agree within its bound
\* (udf_intercept.py:40-340, ingest_control_message.py:17-58, decorators.py:61-160).
JourneySound == TasksAccounted /\ RepliesTellTruth /\ CacheInOrder
===============================================================================
