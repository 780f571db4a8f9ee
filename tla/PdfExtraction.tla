---------------------------- MODULE PdfExtraction ----------------------------
(***************************************************************************)
(* What the PDF stage makes of one document, with the pdfium engine or the *)
(* nemoretriever_parse engine.  The calling thread walks the pages and     *)
(* submits full batches of page images to a thread pool, where one model   *)
(* finds page elements and, for nemoretriever_parse, another reads text;   *)
(* it then collects the futures as they complete and builds the rows.      *)
(*                                                                         *)
(* An image is its page.  A row is [kind, page, number]: the page it comes *)
(* from and the page number written in its metadata.  A row whose metadata *)
(* could not be built is Blank: an empty list left among the rows.         *)
(***************************************************************************)
EXTENDS Integers, Sequences, FiniteSets, SequencesExt, Selections

CONSTANTS
  MaxPages,     \* bound: pages of the document
  BatchSize,    \* YOLOX_MAX_BATCH_SIZE and NEMORETRIEVER_PARSE_MAX_BATCH_SIZE
  Workers,      \* workers_per_progress_engine
  Detected,     \* the labels of what is found, and can be cropped, on each page
  Drawn,        \* the pages on which pdfium sees a picture
  Parsed,       \* what the parser reads on each page, pictures that can be cropped
  ExtractTasks  \* the options of the extract task

ASSUME PdfAssumption ==
  /\ MaxPages \in Nat /\ BatchSize \in Nat \ {0} /\ Workers \in Nat \ {0}
  /\ Parsed \in [0 .. MaxPages - 1 -> Seq(STRING)]

\* page_reading_index is one more than page_idx.
Row(kind, page, number) == [kind |-> kind, page |-> page, number |-> number]
Blank == Row("blank", -1, -1)

VARIABLES
  extract_task,      \* the options of the task
  page_count,
  page_idx,          \* page_idx: the next page of the loop
  pages_for_tables,
  pages_for_ocr,
  futures,           \* each with the model, the pages and its state
  extracted_data,    \* the rows
  accumulated_text,  \* pages, in the order in which their text was appended
  parser_results,    \* pages whose parser output was collected
  pdf_phase          \* where the calling thread is

pdfJob       == <<extract_task, page_count>>
pagesWaiting == <<pages_for_tables, pages_for_ocr>>
pdfVars == <<pdfJob, page_idx, pagesWaiting, futures, extracted_data, accumulated_text,
             parser_results, pdf_phase>>

Pdfium == extract_task.engine = "pdfium"
WantsElements == extract_task.elements # {}
\* Whether page images go to the element model.
ElementsByModel == WantsElements /\ (Pdfium \/ extract_task.method = "yolox")

\* pdfium knows two depths, nemoretriever_parse takes the depth as it is.
TextDepth == IF Pdfium /\ extract_task.depth # "page" THEN "document" ELSE extract_task.depth

PdfInit ==
  /\ extract_task \in ExtractTasks /\ page_count \in 0 .. MaxPages
  /\ page_idx = 0 /\ pdf_phase = "pages"
  /\ pages_for_tables = <<>> /\ pages_for_ocr = <<>>
  /\ futures = <<>> /\ extracted_data = <<>>
  /\ accumulated_text = <<>> /\ parser_results = <<>>

-----------------------------------------------------------------------------
(* The pool.  Only the first Workers futures that are not over are running. *)

Over(f) == futures[f].state \in {"answered", "failed", "collected"}
Running(f) ==
  /\ ~Over(f)
  /\ Cardinality({g \in 1 .. f - 1 : ~Over(g)}) < Workers

Future(model, pages) == [model |-> model, pages |-> pages, state |-> "submitted", rows |-> <<>>]

\* _extract_page_elements: a row for each wanted element, page after page.
ElementRows(pages) ==
  LET rowsOf(p) ==
        LET labels == Filtered(<<"table", "chart", "infographic">>,
                                LAMBDA l : l \in Detected[p] \intersect extract_task.elements)
        IN  [i \in DOMAIN labels |-> Row(labels[i], p, p + 1)]
  IN  FlattenSeq([i \in DOMAIN pages |-> rowsOf(pages[i])])

\* construct_page_element_metadata catches its own errors and returns [], which is appended.
OneBlank(rows) == {rows} \union {[rows EXCEPT ![i] = Blank] : i \in DOMAIN rows}

ElementsAnswer(f) ==
  /\ Running(f) /\ futures[f].model = "yolox"
  /\ \E rows \in OneBlank(ElementRows(futures[f].pages)) :
       futures' = [futures EXCEPT ![f].state = "answered", ![f].rows = rows]
  /\ UNCHANGED <<pdfJob, pagesWaiting, page_idx, extracted_data, accumulated_text, parser_results,
                 pdf_phase>>

ParserAnswers(f) ==
  /\ Running(f) /\ futures[f].model = "parser"
  /\ futures' = [futures EXCEPT ![f].state = "answered"]
  /\ UNCHANGED <<pdfJob, pagesWaiting, page_idx, extracted_data, accumulated_text, parser_results,
                 pdf_phase>>

\* A timeout or any other error of the model is raised in the worker.
InferenceFails(f) ==
  /\ Running(f)
  /\ futures' = [futures EXCEPT ![f].state = "failed"]
  /\ UNCHANGED <<pdfJob, pagesWaiting, page_idx, extracted_data, accumulated_text, parser_results,
                 pdf_phase>>

-----------------------------------------------------------------------------
(* The page loop. *)

\* A batch is submitted when it is full; the pages that wait are then those of the next one.
Filled(pages) == Len(pages) >= BatchSize
Submitted(condition, model, pages) ==
  IF condition THEN <<Future(model, pages)>> ELSE <<>>

\* pdfium: the page's text, its pictures and the page as an image become rows at once; a
\* picture whose row cannot be built is left out.
PdfiumRows(p, pictures) ==
  (IF extract_task.text /\ TextDepth = "page" THEN <<Row("text", p, p + 1)>> ELSE <<>>)
  \o (IF extract_task.images /\ p \in Drawn \intersect pictures
      THEN <<Row("image", p, p + 1)>> ELSE <<>>)
  \o (IF extract_task.as_image THEN <<Row("page_image", p, p + 1)>> ELSE <<>>)

\* Mutant: the pages that were submitted are kept for the next batch.
PdfiumPageKeepsThem ==
  /\ pdf_phase = "pages" /\ Pdfium /\ page_idx < page_count
  /\ LET pages == IF WantsElements THEN Append(pages_for_tables, page_idx) ELSE <<>>
     IN  /\ futures' = futures \o Submitted(WantsElements /\ Filled(pages), "yolox", pages)
         /\ pages_for_tables' = pages
  /\ \E pictures \in SUBSET {page_idx} :
       extracted_data' = extracted_data \o PdfiumRows(page_idx, pictures)
  /\ accumulated_text' = IF extract_task.text /\ TextDepth = "document"
                         THEN Append(accumulated_text, page_idx) ELSE accumulated_text
  /\ page_idx' = page_idx + 1
  /\ UNCHANGED <<pdfJob, pages_for_ocr, parser_results, pdf_phase>>

PdfiumPage ==
  /\ pdf_phase = "pages" /\ Pdfium /\ page_idx < page_count
  /\ LET pages  == IF WantsElements THEN Append(pages_for_tables, page_idx) ELSE <<>>
         submit == WantsElements /\ Filled(pages)
     IN  /\ futures' = futures \o Submitted(submit, "yolox", pages)
         /\ pages_for_tables' = IF submit THEN <<>> ELSE pages
  /\ \E pictures \in SUBSET {page_idx} :
       extracted_data' = extracted_data \o PdfiumRows(page_idx, pictures)
  /\ accumulated_text' = IF extract_task.text /\ TextDepth = "document"
                         THEN Append(accumulated_text, page_idx) ELSE accumulated_text
  /\ page_idx' = page_idx + 1
  /\ UNCHANGED <<pdfJob, pages_for_ocr, parser_results, pdf_phase>>

\* nemoretriever_parse: every page is rendered for both models, wanted or not.
ParserPage ==
  /\ pdf_phase = "pages" /\ ~Pdfium /\ page_idx < page_count
  /\ LET ocr    == Append(pages_for_ocr, page_idx)
         tables == Append(pages_for_tables, page_idx)
         parse  == extract_task.text /\ Filled(ocr)
         detect == ElementsByModel /\ Filled(tables)
     IN  /\ futures' = futures \o Submitted(parse, "parser", ocr)
                               \o Submitted(detect, "yolox", tables)
         /\ pages_for_ocr' = IF parse THEN <<>> ELSE ocr
         /\ pages_for_tables' = IF detect THEN <<>> ELSE tables
  /\ page_idx' = page_idx + 1
  /\ UNCHANGED <<pdfJob, extracted_data, accumulated_text, parser_results, pdf_phase>>

\* After the loop the pages that still wait make one more batch, of each kind.
Leftovers ==
  /\ pdf_phase = "pages" /\ page_idx = page_count
  /\ LET parse  == ~Pdfium /\ extract_task.text /\ pages_for_ocr # <<>>
         detect == ElementsByModel /\ pages_for_tables # <<>>
     IN  /\ futures' = futures \o Submitted(parse, "parser", pages_for_ocr)
                               \o Submitted(detect, "yolox", pages_for_tables)
         /\ pages_for_ocr' = IF parse THEN <<>> ELSE pages_for_ocr
         /\ pages_for_tables' = IF detect THEN <<>> ELSE pages_for_tables
  /\ pdf_phase' = "collect"
  /\ UNCHANGED <<pdfJob, page_idx, extracted_data, accumulated_text, parser_results>>

\* pdfium fails on a page: the exception leaves the loop.
PageFails ==
  /\ pdf_phase = "pages" /\ page_idx < page_count
  /\ pdf_phase' = "leaving"
  /\ UNCHANGED <<pdfJob, pagesWaiting, page_idx, futures, extracted_data, accumulated_text,
                 parser_results>>

-----------------------------------------------------------------------------
(* The results. *)

\* as_completed: futures that are over, whichever order they were submitted in.
Collect(f) ==
  /\ pdf_phase = "collect" /\ futures[f].state = "answered"
  /\ futures' = [futures EXCEPT ![f].state = "collected"]
  /\ IF futures[f].model = "yolox"
     THEN extracted_data' = extracted_data \o futures[f].rows /\ UNCHANGED parser_results
     ELSE /\ parser_results' = parser_results \o futures[f].pages
          /\ UNCHANGED extracted_data
  /\ UNCHANGED <<pdfJob, pagesWaiting, page_idx, accumulated_text, pdf_phase>>

CollectFailure(f) ==
  /\ pdf_phase = "collect" /\ futures[f].state = "failed"
  /\ pdf_phase' = "leaving"
  /\ UNCHANGED <<pdfJob, pagesWaiting, page_idx, futures, extracted_data, accumulated_text,
                 parser_results>>

AllCollected ==
  /\ pdf_phase = "collect" /\ \A f \in DOMAIN futures : futures[f].state = "collected"
  /\ pdf_phase' = "build"
  /\ UNCHANGED <<pdfJob, pagesWaiting, page_idx, futures, extracted_data, accumulated_text,
                 parser_results>>

\* The executor is left only when every future is over, those still queued included.
Leave ==
  /\ pdf_phase = "leaving" /\ \A f \in DOMAIN futures : Over(f)
  /\ pdf_phase' = "raised"
  /\ UNCHANGED <<pdfJob, pagesWaiting, page_idx, futures, extracted_data, accumulated_text,
                 parser_results>>

-----------------------------------------------------------------------------
(* Building the rest. *)

Classes(p, class) == Filtered(Parsed[p], LAMBDA c : c = class)

\* Its own tables and pictures, numbered from 0.  The table builder catches its own errors,
\* like construct_page_element_metadata.
LatexRows(p) ==
  IF extract_task.method = "nemoretriever_parse" /\ "table" \in extract_task.elements
  THEN [i \in DOMAIN Classes(p, "Table") |-> Row("latex_table", p, p)]
  ELSE <<>>

PictureRows(p) ==
  IF extract_task.images THEN [i \in DOMAIN Classes(p, "Picture") |-> Row("image", p, p)] ELSE <<>>

\* One page of the parser's results.  A page on which it read nothing gets pdfium's text; at
\* page depth the text is written and forgotten.
BuildPage ==
  /\ pdf_phase = "build" /\ parser_results # <<>>
  /\ LET p == Head(parser_results)
         text == Append(accumulated_text, p)
         byPage == TextDepth = "page"
     IN  /\ \E tables \in OneBlank(LatexRows(p)) :
              extracted_data' = extracted_data \o tables \o PictureRows(p)
                                \o (IF byPage THEN <<Row("text", p, p)>> ELSE <<>>)
         /\ accumulated_text' = IF byPage THEN <<>> ELSE text
  /\ parser_results' = Tail(parser_results)
  /\ UNCHANGED <<pdfJob, pagesWaiting, page_idx, futures, pdf_phase>>

\* Cropping, rendering or validating a page's picture or text raises.
BuildFails ==
  /\ pdf_phase = "build" /\ parser_results # <<>>
  /\ pdf_phase' = "raised"
  /\ UNCHANGED <<pdfJob, pagesWaiting, page_idx, futures, extracted_data, accumulated_text,
                 parser_results>>

\* The document's text is one row, for nemoretriever_parse also when it is empty.  Blank rows
\* are kept, but rows that are all blank have no columns and raise.
Finish ==
  /\ pdf_phase = "build" /\ parser_results = <<>>
  /\ LET whole == /\ extract_task.text /\ TextDepth = "document"
                  /\ Pdfium => accumulated_text # <<>>
         rows  == IF whole THEN Append(extracted_data, Row("document", -1, -1))
                  ELSE extracted_data
     IN  /\ extracted_data' = rows
         /\ pdf_phase' = IF rows # <<>> /\ Range(rows) = {Blank} THEN "raised" ELSE "done"
  /\ UNCHANGED <<pdfJob, pagesWaiting, page_idx, futures, accumulated_text, parser_results>>

-----------------------------------------------------------------------------
MainThread ==
  \/ PdfiumPage \/ ParserPage \/ Leftovers
  \/ \E f \in DOMAIN futures : Collect(f) \/ CollectFailure(f)
  \/ AllCollected \/ Leave \/ BuildPage \/ Finish

PoolThread == \E f \in DOMAIN futures : ElementsAnswer(f) \/ ParserAnswers(f) \/ InferenceFails(f)

PdfNext == MainThread \/ PoolThread \/ PageFails \/ BuildFails

PdfSpec == PdfInit /\ [][PdfNext]_pdfVars /\ WF_pdfVars(MainThread) /\ WF_pdfVars(PoolThread)

-----------------------------------------------------------------------------
PdfTypeOK ==
  /\ extract_task \in ExtractTasks /\ page_count \in 0 .. MaxPages /\ page_idx \in 0 .. page_count
  /\ \A f \in DOMAIN futures :
       /\ futures[f].pages \in Seq(0 .. page_count - 1) \ {<<>>}
       /\ futures[f].model \in {"yolox", "parser"}
  /\ accumulated_text \in Seq(0 .. page_count - 1)
  /\ parser_results \in Seq(0 .. page_count - 1)
  /\ pages_for_tables \in Seq(0 .. page_count - 1)
  /\ pages_for_ocr \in Seq(0 .. page_count - 1)
  /\ pdf_phase \in {"pages", "collect", "build", "leaving", "done", "raised"}

\* How many rows of a kind a page is due.  Tables and pictures of the parser are only there
\* when it was asked for text.
Flag(condition) == IF condition THEN 1 ELSE 0
Due(kind, p) ==
  CASE kind \in {"table", "chart", "infographic"} ->
         Flag(ElementsByModel /\ kind \in Detected[p] \intersect extract_task.elements)
    [] kind = "text" -> Flag(extract_task.text /\ TextDepth = "page")
    [] kind = "page_image" -> Flag(Pdfium /\ extract_task.as_image)
    [] kind = "latex_table" ->
         IF Pdfium \/ ~extract_task.text THEN 0 ELSE Len(LatexRows(p))
    [] kind = "image" ->
         IF Pdfium THEN Flag(extract_task.images /\ p \in Drawn)
         ELSE IF extract_task.text THEN Len(PictureRows(p)) ELSE 0

Rows(kind, p) == Len(Filtered(extracted_data, LAMBDA r : r.kind = kind /\ r.page = p))
Kinds == {"table", "chart", "infographic", "text", "page_image", "latex_table", "image"}
Missing(kind, p) == Due(kind, p) - Rows(kind, p)

ExtractionOver == pdf_phase \in {"done", "raised"}

\* Whatever the batches' sizes and the order in which they end, a document that is done has
\* the rows it is due, each once: none is doubled or made up, and what is missing is a
\* picture pdfium could not read or stands among the rows as a blank one.
RowsAsDue ==
  pdf_phase = "done" =>
    LET pages == 0 .. page_count - 1
        built == Kinds \ (IF Pdfium THEN {"image"} ELSE {})
    IN  /\ \A k \in Kinds, p \in pages : Missing(k, p) >= 0
        /\ SumOver([kp \in built \X pages |-> Missing(kp[1], kp[2])], built \X pages)
             = Len(Filtered(extracted_data, LAMBDA r : r = Blank))

\* Text of the whole document holds every page once; pages that were read in one batch are
\* in order, and with pdfium all are.
TextWhole ==
  pdf_phase = "done" /\ extract_task.text /\ TextDepth = "document" =>
    LET pages == 0 .. page_count - 1
        place(p) == CHOOSE i \in DOMAIN accumulated_text : accumulated_text[i] = p
    IN  /\ Len(accumulated_text) = page_count
        /\ Range(accumulated_text) = pages
        /\ \A p, q \in pages :
             p < q /\ (Pdfium \/ p \div BatchSize = q \div BatchSize) => place(p) < place(q)

\* The engine neither returns nor raises while a call of a model is running or queued.
NoneLeftRunning == ExtractionOver => \A f \in DOMAIN futures : Over(f)

\* What the engine returns is complete, and it returns alone.
ExtractionSound == RowsAsDue /\ TextWhole /\ NoneLeftRunning

\* As the models answer or fail, the engine returns or raises.
ExtractionEnds == <>[]ExtractionOver
===============================================================================
