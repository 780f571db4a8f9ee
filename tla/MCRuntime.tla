------------------------------- MODULE MCRuntime -------------------------------
(***************************************************************************)
(* The run-time components that share no state, side by side: the batching *)
(* inference client, the two halves of the autoscaler, the queue           *)
(* scheduler, the journey of a message through the stages, and what two    *)
(* groups of stages make of its payload.  As no step of one is seen by     *)
(* another, looking at each with the others at rest misses nothing:        *)
(* `part` says which one moves.                                            *)
(***************************************************************************)
EXTENDS NimBatcher, PidController, ResourceConstraints, QosScheduler, StageTasks,
        PdfExtraction, DocumentRows

CONSTANTS t1, t2, s1, s2, micro, small, large

\* NimBatcher: a call of two images and one of a single image, which asks for no batching.
TwoCallers == {t1, t2}
ImagesOf == [c \in TwoCallers |-> IF c = t1 THEN 2 ELSE 1]

\* PidController: the least accumulated error.
LeastError == -30

\* ResourceConstraints: a stage that stays and one that may go to zero.
TwoStages == {s1, s2}
FloorOf   == [s \in TwoStages |-> IF s = s1 THEN 1 ELSE 0]
CeilingOf == [s \in TwoStages |-> IF s = s1 THEN 4 ELSE 3]
CostOf    == [s \in TwoStages |-> IF s = s1 THEN 2 ELSE 1]
Proposed  == {-1, 0, 1, 2, 4, 9}

\* QosScheduler: three categories.
ThreeCategories == <<micro, small, large>>
WeightOf == [c \in {micro, small, large} |-> IF c = micro THEN 2 ELSE 1]

\* StageTasks: UDFs at a stage and at the sink, extract tasks of two types and two of one
\* type, UDFs that share a stage's cache, one that names a phase, an invalid job.
Before == {"run_before"}
After  == {"run_after"}
FourJobs ==
  {[valid |-> TRUE,
    tasks |-> <<Extract("pdf"), Task("dedup"), Udf("f", "pdf_extractor", Before),
                Udf("g", "broker_response", Before \union After)>>],
   [valid |-> TRUE,
    tasks |-> <<Udf("", "otel_tracer", Before), Extract("docx"), Extract("pdf"),
                Udf("g", "pdf_extractor", Before \union After), Udf("h", "", {})>>],
   [valid |-> TRUE,
    tasks |-> <<Extract("pdf"), Udf("h", "pdf_extractor", After), Extract("pdf"),
                Udf("g", "pdf_extractor", Before)>>],
   [valid |-> FALSE, tasks |-> <<>>]}

\* PdfExtraction: four pages, each with other elements; the requests turn every option.
FourPages == 0 .. 3
DetectedOn == [p \in FourPages |-> CASE p = 0 -> {"table", "chart"} [] p = 1 -> {}
                                     [] p = 2 -> {"infographic"} [] p = 3 -> {"table"}]
DrawnOn == {0, 2}
ParsedOn == [p \in FourPages |-> CASE p = 0 -> <<"Table", "Text", "Picture">> [] p = 1 -> <<>>
                                   [] p = 2 -> <<"Picture", "Picture">> [] p = 3 -> <<"Table">>]
Everything ==
  [engine |-> "pdfium", text |-> TRUE, images |-> TRUE, as_image |-> TRUE, depth |-> "page",
   elements |-> {"table", "chart", "infographic"}, method |-> "yolox"]
Parse == [Everything EXCEPT !.engine = "nemoretriever_parse"]
EightTasks ==
  {Everything, [Everything EXCEPT !.depth = "block", !.elements = {"table"}],
   [Everything EXCEPT !.text = FALSE, !.images = FALSE, !.as_image = FALSE],
   [Everything EXCEPT !.elements = {}],
   [Parse EXCEPT !.depth = "document", !.elements = {"chart"}],
   [Parse EXCEPT !.method = "nemoretriever_parse"],
   [Parse EXCEPT !.elements = {}, !.depth = "block"], [Parse EXCEPT !.text = FALSE]}

\* DocumentRows: three documents with rows of every kind, and every arrangement of three rows
\* among a text, two equal images, a small table, another one and a page image.
TextOf(id, kind, length) == [Extracted(id, kind) EXCEPT !.span = <<0, length>>]
ImageOf(id, hash) == [Extracted(id, "image") EXCEPT !.hash = hash]
OddImage(id) == [Extracted(id, "image") EXCEPT !.odd = TRUE]
SmallTable(id) == [Extracted(id, "table") EXCEPT !.small = TRUE]
MixedRows ==
  {TextOf("x1", "text", 4), ImageOf("i1", "h"), ImageOf("i2", "h"), SmallTable("b1"),
   Extracted("b2", "table"), Extracted("p1", "page_image")}
FirstDocument ==
  <<TextOf("x1", "text", 5), ImageOf("i1", "h"), SmallTable("b1"), Extracted("b2", "table"),
    ImageOf("i2", "h"), Extracted("c1", "chart"), OddImage("i3"), Extracted("c2", "chart"),
    TextOf("x2", "text", 1)>>
ManyDocuments ==
  {FirstDocument,
   <<Extracted("p1", "page_image"), Extracted("b1", "table"), TextOf("a1", "audio", 3),
     Extracted("g1", "infographic"), ImageOf("i1", "h"), TextOf("x1", "text", 3),
     Extracted("b2", "table")>>,
   <<Extracted("e1", "blank"), Extracted("b1", "table"), ImageOf("i1", "h"),
     TextOf("x1", "text", 3)>>}
  \union {d \in [1 .. 3 -> MixedRows] : IsInjective(d)}
AllTasks == Range(StageOrder)
Defaults ==
  [tasks |-> AllTasks, format |-> "pseudo_markdown", filter |-> TRUE, chunk_size |-> 2,
   chunk_overlap |-> 1, source_listed |-> TRUE, index_kept |-> FALSE, modality |-> "text",
   store_images |-> TRUE]
FiveOptions ==
  {Defaults, [Defaults EXCEPT !.format = "simple", !.filter = FALSE, !.index_kept = TRUE,
                              !.store_images = FALSE],
   [Defaults EXCEPT !.modality = "image", !.chunk_overlap = 0],
   [Defaults EXCEPT !.tasks = AllTasks \ {"filter", "caption"}, !.source_listed = FALSE,
                    !.modality = "text_image"],
   [Defaults EXCEPT !.tasks = {"infographic", "table", "chart", "split", "store"},
                    !.chunk_size = 3]}

VARIABLE part   \* the component that moves

Parts == {"batcher", "pid", "constraints", "scheduler", "stages", "pdf", "rows"}

\* Some request or document, where the choice does not matter.
AnyRequest == [current |-> FloorOf, proposed |-> FloorOf, in_flight |-> 0, memory |-> 0,
               max_replicas |-> 1, cores |-> 2]

RuntimeInit ==
  /\ part \in Parts
  /\ part # "batcher" => protocol = "http"
  /\ part # "pid" => replicas = MinStage
  /\ part # "scheduler" =>
       strategy = "round_robin" /\ prioritize_immediate = TRUE /\ watched = micro
  /\ part # "pdf" => extract_task = Everything /\ page_count = 0
  /\ part # "rows" => original = FirstDocument /\ options = Defaults
  /\ part # "constraints" => request = AnyRequest
  /\ NimInit /\ PidInit /\ ConstraintsInit /\ QosInit /\ StagesInit /\ PdfInit /\ RowsInit

payloadVars == <<pdfVars, rowVars>>
runtimeVars == <<nimVars, pidVars, constraintVars, qosVars, stageVars, payloadVars, part>>

BatcherMoves(Step) ==
  /\ part = "batcher" /\ Step
  /\ UNCHANGED <<pidVars, constraintVars, qosVars, stageVars, payloadVars, part>>

PidMoves(Step) ==
  /\ part = "pid" /\ Step
  /\ UNCHANGED <<nimVars, constraintVars, qosVars, stageVars, payloadVars, part>>

ConstraintsMove ==
  /\ part = "constraints" /\ CalculateScalingAdjustments
  /\ UNCHANGED <<nimVars, pidVars, qosVars, stageVars, payloadVars, part>>

SchedulerMoves ==
  /\ part = "scheduler" /\ QosNext
  /\ UNCHANGED <<nimVars, pidVars, constraintVars, stageVars, payloadVars, part>>

StagesMove ==
  /\ part = "stages" /\ StagesNext
  /\ UNCHANGED <<nimVars, pidVars, constraintVars, qosVars, payloadVars, part>>

PdfMoves(Step) ==
  /\ part = "pdf" /\ Step
  /\ UNCHANGED <<nimVars, pidVars, constraintVars, qosVars, stageVars, rowVars, part>>

RowsMove ==
  /\ part = "rows" /\ RowsNext
  /\ UNCHANGED <<nimVars, pidVars, constraintVars, qosVars, stageVars, pdfVars, part>>

RuntimeNext ==
  \/ BatcherMoves(NimNext) \/ PidMoves(PidNext) \/ ConstraintsMove \/ SchedulerMoves
  \/ StagesMove \/ PdfMoves(PdfNext) \/ RowsMove

\* The batcher's and the closing thread are scheduled, an idle autoscaler keeps its cycles,
\* the PDF stage's threads run and its models answer or fail.  As one part moves, one
\* condition says this of a step of each.
RuntimeSpec ==
  /\ RuntimeInit /\ [][RuntimeNext]_runtimeVars
  /\ WF_runtimeVars(BatcherMoves(Batcher) \/ PidMoves(~busy /\ IdleCycle) \/ PdfMoves(MainThread))
  /\ WF_runtimeVars(BatcherMoves(CloseClient) \/ PdfMoves(PoolThread))

\* The variables of every component have their types.
PartsTypeOK == NimTypeOK /\ PidTypeOK /\ ConstraintsTypeOK /\ QosTypeOK
               /\ StagesTypeOK /\ PdfTypeOK /\ RowsTypeOK

\* Every part comes to the end the environment lets it reach: the requests a batch has
\* taken are answered and close() returns (those no batch had taken by then are excused,
\* for the code never answers them), an idle stage shrinks to its minimum, the PDF stage
\* returns or raises.
PartsEnd ==
  <>[](TakenAreAnswered /\ CloseIsOver /\ Shrunk /\ (part = "pdf" => ExtractionOver))
===============================================================================
