----------------------------- MODULE DocumentRows -----------------------------
(***************************************************************************)
(* What the stages after extraction do to the rows of a job: the texts of  *)
(* infographics, tables and charts, the image filter, deduplication, text  *)
(* splitting, captions, embeddings and the two stores, in the order of the *)
(* default pipeline.  A stage picks rows of the payload, sends what they   *)
(* hold to a model in batches and writes the answers back by position or   *)
(* by the row's label, which filtering and sorting leave out of step with  *)
(* its position.                                                           *)
(*                                                                         *)
(* An answer of a model is written as the identity of what it was asked    *)
(* about, so that a row shows whose answer it got.  NimClient.infer gives  *)
(* one answer per input, in order; NimBatcher is about that.               *)
(***************************************************************************)
EXTENDS Integers, Sequences, FiniteSets, SequencesExt, Selections

CONSTANTS
  Documents,    \* the rows that extraction leaves, one sequence for each document
  Options,      \* the tasks of a job and their options: table format, filter flag, chunks, ...
  EmbedBatch,   \* batch_size of the embedding stage
  Nothing       \* None

RowKinds == {"text", "audio", "image", "page_image", "table", "chart", "infographic", "blank"}

\* What extraction leaves of a document: rows that no later stage has written to.  `id` names
\* what was extracted, so a document has it once.
ExtractedRows ==
  [id : STRING, kind : RowKinds, document_type : STRING, hash : STRING, small : BOOLEAN,
   odd : BOOLEAN, span : Nat \X Nat, content : {"own"}, table_content : {Nothing},
   caption : {Nothing}, embedding : {Nothing}, url : {Nothing}]

ASSUME RowsAssumption ==
  /\ EmbedBatch \in Nat \ {0}
  /\ \A o \in Options : o.chunk_size \in Nat \ {0} /\ o.chunk_overlap \in 0 .. o.chunk_size - 1
  /\ Documents \subseteq Seq(ExtractedRows)
  /\ \A d \in Documents : \A i, j \in DOMAIN d : d[i].id = d[j].id => i = j

\* An extracted row.  `hash` is what deduplication compares, `small` is under 32 pixels on a
\* side, `odd` fails the image filter, `span` is the text as a range of tokens.  A page image
\* is written without a width, which is then 0 and fails the filter.
Extracted(id, kind) ==
  [id |-> id, kind |-> kind,
   document_type |-> CASE kind \in {"table", "chart", "infographic"} -> "structured"
                       [] kind \in {"image", "page_image"} -> "image"
                       [] kind = "blank" -> "none"
                       [] OTHER -> kind,
   hash |-> id, small |-> FALSE, odd |-> kind = "page_image", span |-> <<0, 0>>,
   content |-> "own", table_content |-> Nothing, caption |-> Nothing,
   embedding |-> Nothing, url |-> Nothing]

StageOrder == <<"infographic", "table", "chart", "filter", "dedup", "split", "caption", "embed",
                "store", "store_embedding">>

VARIABLES
  original,     \* the document as extracted
  options,      \* the job's tasks and their options
  tasks_left,   \* the stages that still have a task, in pipeline order
  frame,        \* the payload: rows, each with the label of the data frame's index
  doc_failed,   \* cm_failed
  objects       \* history: what the image store holds, by label

rowVars == <<original, options, tasks_left, frame, doc_failed, objects>>

\* A new index, from 0.
Labelled(rows) == [i \in DOMAIN rows |-> [label |-> i - 1, row |-> rows[i]]]

RowsInit ==
  /\ original \in Documents /\ options \in Options
  /\ tasks_left = Filtered(StageOrder, LAMBDA s : s \in options.tasks)
  /\ frame = Labelled(original)
  /\ doc_failed = FALSE /\ objects = {}

HasBlank == \E i \in DOMAIN frame : frame[i].row.kind = "blank"

\* Where x stands in a sequence, 0 if nowhere.
PlaceIn(seq, x) == SelectInSeq(seq, LAMBDA y : y = x)

\* df.at[label, ...] = value for each label in a sequence.
WriteBack(labels, values, Put(_, _)) ==
  [i \in DOMAIN frame |->
     LET n == PlaceIn(labels, frame[i].label)
     IN  IF n = 0 THEN frame[i] ELSE [frame[i] EXCEPT !.row = Put(@, values[n])]]

\* The decorators of a stage: the task is taken, and a failure marks the message, whose
\* payload nobody reads any more.
HasTask(name) == ~doc_failed /\ tasks_left # <<>> /\ Head(tasks_left) = name
Succeeds(rows) ==
  /\ frame' = rows /\ tasks_left' = Tail(tasks_left) /\ UNCHANGED <<original, options, doc_failed>>
Raises(rows) ==
  /\ frame' = rows /\ tasks_left' = Tail(tasks_left) /\ doc_failed' = TRUE
  /\ UNCHANGED <<original, options, objects>>

-----------------------------------------------------------------------------
(* Infographics, tables and charts. *)

Chosen(kind) == Filtered(frame, LAMBDA e : e.row.kind = kind /\ e.row.content = "own")
Labels(entries) == [i \in DOMAIN entries |-> entries[i].label]

\* valid_indices: positions of the images that are large enough.
ValidIndices(entries) ==
  Ascending({i \in DOMAIN entries : ~entries[i].row.small})

\* The models' answers, one for each valid image, and the list of results they are put in:
\* the others keep the placeholder.
ModelAnswers(entries) ==
  [n \in DOMAIN ValidIndices(entries) |-> entries[ValidIndices(entries)[n]].row.id]

\* Mutant: the answers are put in the order they came, as if every image had been valid.
BulkResultsByPosition(entries) ==
  [i \in DOMAIN entries |->
     IF i \in DOMAIN ModelAnswers(entries) THEN ModelAnswers(entries)[i] ELSE Nothing]
BulkResults(entries) ==
  [i \in DOMAIN entries |->
     LET n == PlaceIn(ValidIndices(entries), i)
     IN  IF n = 0 THEN Nothing ELSE ModelAnswers(entries)[n]]

PutTableContent(row, value) == [row EXCEPT !.table_content = value]

\* A model call, or the check of the number of its answers, may raise.
StructuredStage(kind) ==
  /\ HasTask(kind)
  /\ LET entries == Chosen(kind)
     IN  \/ /\ Succeeds(WriteBack(Labels(entries), BulkResults(entries), PutTableContent))
            /\ UNCHANGED objects
         \/ entries # <<>> /\ Raises(frame)

ExtractInfographics == StructuredStage("infographic")
ExtractCharts == StructuredStage("chart")

\* Tables: the rows get their text one after the other.  Without answers a table is empty,
\* or, in the simple format, joining the missing text raises: the rows before keep theirs.
\* Only valid images are sent, none if all are small.
ExtractTables ==
  /\ HasTask("table")
  /\ LET entries == Chosen("table")
         results == BulkResults(entries)
         texts   == [i \in DOMAIN entries |-> IF results[i] = Nothing THEN "" ELSE results[i]]
         bad     == PlaceIn(results, Nothing)
     IN  \/ /\ options.format = "simple" => bad = 0
            /\ Succeeds(WriteBack(Labels(entries), texts, PutTableContent))
            /\ UNCHANGED objects
         \/ /\ options.format = "simple" /\ bad # 0
            /\ Raises(WriteBack(SubSeq(Labels(entries), 1, bad - 1), texts, PutTableContent))
         \/ ValidIndices(entries) # <<>> /\ Raises(frame)

-----------------------------------------------------------------------------
(* The image filter and deduplication. *)

\* Images outside the limits leave the frame, the others keep their labels; without the flag
\* they stay and their document type becomes info_msg.
FilterImages ==
  /\ HasTask("filter")
  /\ LET fails(e) == e.row.document_type = "image" /\ e.row.odd
     IN  IF options.filter
         THEN Succeeds(Filtered(frame, LAMBDA e : ~fails(e)))
         ELSE Succeeds([i \in DOMAIN frame |->
                          IF fails(frame[i])
                          THEN [frame[i] EXCEPT !.row.document_type = "info_msg"]
                          ELSE frame[i]])
  /\ UNCHANGED objects

\* Mutant: the positions of the images that stay are used as positions in the whole frame.
DeduplicateByPosition ==
  /\ HasTask("dedup")
  /\ LET images == Filtered(frame, LAMBDA e : e.row.document_type = "image")
         others == Filtered(frame, LAMBDA e : e.row.document_type # "image")
         firsts == Ascending({i \in DOMAIN images :
                                \A j \in 1 .. i - 1 : images[j].row.hash # images[i].row.hash})
     IN  Succeeds([n \in DOMAIN firsts |-> frame[firsts[n]]] \o others)
  /\ UNCHANGED objects

\* Of images with the same content the first stays.  Images now stand before the other rows,
\* under their labels.
DeduplicateImages ==
  /\ HasTask("dedup")
  /\ LET images == Filtered(frame, LAMBDA e : e.row.document_type = "image")
         others == Filtered(frame, LAMBDA e : e.row.document_type # "image")
         firsts == Ascending({i \in DOMAIN images :
                                \A j \in 1 .. i - 1 : images[j].row.hash # images[i].row.hash})
     IN  Succeeds([n \in DOMAIN firsts |-> images[firsts[n]]] \o others)
  /\ UNCHANGED objects

-----------------------------------------------------------------------------
(* Splitting. *)

\* _split_into_chunks: chunks of chunk_size tokens that start chunk_size - chunk_overlap apart.
\* The text of a chunk ends where its last token begins.
SplitIntoChunks(span) ==
  LET length == span[2] - span[1]
      step   == options.chunk_size - options.chunk_overlap
      chunk(n) == <<span[1] + n * step,
                    span[1] + (IF n * step + options.chunk_size < length
                               THEN n * step + options.chunk_size ELSE length) - 1>>
  IN  [n \in 1 .. (length + step - 1) \div step |-> chunk(n - 1)]

\* _build_split_documents: a copy of the row for each chunk with text.
SplitDocuments(row) ==
  LET chunks == Filtered(SplitIntoChunks(row.span), LAMBDA c : c[1] < c[2])
  IN  [n \in DOMAIN chunks |-> [row EXCEPT !.span = chunks[n]]]

\* The condition on the source type comes from a frame of its own that, depending on the
\* library's version, counts its rows from 0: it is then aligned by label, and a row whose
\* label is not below the number of rows is taken as one that does not qualify.
Qualifies(e) ==
  /\ e.row.document_type \in {"text", "audio"} /\ options.source_listed
  /\ options.index_kept \/ e.label < Len(frame)

SplitText ==
  /\ HasTask("split")
  /\ LET texts  == Filtered(frame, Qualifies)
         others == Filtered(frame, LAMBDA e : ~Qualifies(e))
         docs   == FlattenSeq([i \in DOMAIN texts |-> SplitDocuments(texts[i].row)])
     IN  \/ /\ Succeeds(IF texts = <<>> THEN frame
                        ELSE Labelled(docs \o [i \in DOMAIN others |-> others[i].row]))
            /\ UNCHANGED objects
         \/ texts # <<>> /\ Raises(frame)    \* the tokenizer cannot be loaded

-----------------------------------------------------------------------------
(* Captions and embeddings.  Both read the metadata of every row: a blank row raises. *)

ContentType(row) ==
  CASE row.kind \in {"image", "page_image"} -> "image"
    [] row.kind \in {"table", "chart", "infographic"} -> "structured"
    [] OTHER -> row.kind

\* _generate_captions: one for each image.
Captions(entries) == [i \in DOMAIN entries |-> entries[i].row.id]

PutCaption(row, value) == [row EXCEPT !.caption = value]

\* Rows the filter only flagged are captioned as well.
CaptionImages ==
  /\ HasTask("caption")
  /\ LET images == Filtered(frame, LAMBDA e : ContentType(e.row) = "image")
     IN  \/ /\ ~HasBlank
            /\ Succeeds(WriteBack(Labels(images), Captions(images), PutCaption))
            /\ UNCHANGED objects
         \/ (HasBlank \/ images # <<>>) /\ Raises(frame)

\* What is embedded of a row: its text, for which a table's text, a picture's caption and a
\* page's text stand, its image, or both; nothing if one of them is missing.
EmbeddedText(row) ==
  CASE ContentType(row) = "structured" ->
         IF row.table_content = "" THEN Nothing ELSE row.table_content
    [] row.kind = "page_image" -> row.id
    [] OTHER -> row.caption

EmbeddedContent(row) ==
  IF ContentType(row) \in {"text", "audio"}
  THEN IF row.span[1] < row.span[2] THEN <<row.id, row.span>> ELSE Nothing
  ELSE LET text == EmbeddedText(row)
       IN  IF \/ options.modality # "image" /\ text = Nothing
              \/ options.modality # "text" /\ row.content # "own"
           THEN Nothing
           ELSE <<IF options.modality = "image" THEN row.id ELSE text, options.modality>>

Batched(seq) ==
  [b \in 1 .. (Len(seq) + EmbedBatch - 1) \div EmbedBatch |->
     SubSeq(seq, (b - 1) * EmbedBatch + 1,
            IF b * EmbedBatch < Len(seq) THEN b * EmbedBatch ELSE Len(seq))]

\* One request for each batch, all at a time; the answers in the order of the batches.
EmbeddingAnswers(prompts) == FlattenSeq(Batched(prompts))

\* The rows of one content type, numbered from 0: the answers go to the rows that had
\* content.  A page image loses its content.
Embedded(type) ==
  LET rows == Filtered([i \in DOMAIN frame |-> frame[i].row],
                        LAMBDA r : ContentType(r) = type)
      valid == Ascending({i \in DOMAIN rows : EmbeddedContent(rows[i]) # Nothing})
      prompts == [n \in DOMAIN valid |-> EmbeddedContent(rows[valid[n]])]
      answers == EmbeddingAnswers(prompts)
      embedding(i) == LET n == PlaceIn(valid, i) IN IF n = 0 THEN Nothing ELSE answers[n]
  IN  [i \in DOMAIN rows |->
         [rows[i] EXCEPT !.embedding = embedding(i),
                         !.content = IF rows[i].kind = "page_image" THEN "empty" ELSE @]]

EmbedTypes == <<"text", "structured", "image", "audio">>
Unembedded == Filtered([i \in DOMAIN frame |-> frame[i].row],
                        LAMBDA r : ContentType(r) \notin Range(EmbedTypes))

\* The rows come back grouped by content type, with new labels.  A request that fails, once
\* all have ended, raises.
CreateEmbeddings ==
  /\ HasTask("embed")
  /\ LET groups == [t \in DOMAIN EmbedTypes |-> Embedded(EmbedTypes[t])]
     IN  \/ /\ ~HasBlank
            /\ Succeeds(Labelled(FlattenSeq(groups) \o Unembedded)) /\ UNCHANGED objects
         \/ /\ \E i \in DOMAIN frame : HasBlank \/ EmbeddedContent(frame[i].row) # Nothing
            /\ Raises(frame)

-----------------------------------------------------------------------------
(* The stores. *)

StoredTypes == {"structured"} \union (IF options.store_images THEN {"image"} ELSE {})

\* The rows of those types are put under the source and their label; a row
\* that fails is skipped.
StoreImages ==
  /\ HasTask("store")
  /\ LET wanted == {i \in DOMAIN frame : frame[i].row.document_type \in StoredTypes}
     IN  \/ \E put \in {wanted} \union {wanted \ {i} : i \in wanted} :
              /\ Succeeds([i \in DOMAIN frame |->
                             IF i \in put THEN [frame[i] EXCEPT !.row.url = frame[i].label]
                             ELSE frame[i]])
              /\ objects' = {[url |-> frame[i].label, id |-> frame[i].row.id] : i \in put}
         \/ wanted # {} /\ Raises(frame)    \* no client or no bucket

\* Every row's metadata is read, those with an embedding are written; all or nothing counts.
StoreEmbeddings ==
  /\ HasTask("store_embedding")
  /\ \/ ~HasBlank /\ Succeeds(frame) /\ UNCHANGED objects
     \/ Raises(frame)

RowsNext ==
  \/ ExtractInfographics \/ ExtractTables \/ ExtractCharts \/ FilterImages
  \/ DeduplicateImages \/ SplitText \/ CaptionImages \/ CreateEmbeddings \/ StoreImages
  \/ StoreEmbeddings

RowsSpec == RowsInit /\ [][RowsNext]_rowVars

-----------------------------------------------------------------------------
\* The variables have their types, and no two rows have one label.
RowsTypeOK ==
  /\ original \in Documents /\ options \in Options
  /\ Range(tasks_left) \subseteq options.tasks
  /\ \A i \in DOMAIN frame : frame[i].label \in Nat
  /\ \A i, j \in DOMAIN frame : i # j => frame[i].label # frame[j].label
  /\ doc_failed \in BOOLEAN

\* The stage has had its turn.
Done(task) == task \in options.tasks \ Range(tasks_left)

\* However the stages before it filtered, reordered and relabelled the rows, the answers of
\* every model went back to the row they are about: a row holds the text, the caption and the
\* embedding of its own content, a row with content is not without its embedding, and the
\* stored object that a row names is its own.
OwnValues ==
  /\ \A i \in DOMAIN frame :
       LET row == frame[i].row
       IN  /\ row.table_content \in {Nothing, "", row.id}
           /\ row.caption \in {Nothing, row.id}
           /\ row.embedding # Nothing => row.embedding[1] = row.id
           /\ row.url # Nothing =>
                \A o \in objects : o.url = row.url => o.id = row.id
           /\ Done("embed") /\ ~doc_failed /\ EmbeddedContent(row) # Nothing =>
                row.embedding = EmbeddedContent(row)
  /\ \A o, p \in objects : o.url = p.url => o = p

IsImage(row) == row.document_type = "image"
InFrame(row) == \E i \in DOMAIN frame : frame[i].row.id = row.id

\* The tokens of a text that a split may not lose: all but the last one and, when chunks do
\* not overlap, the last one of each chunk.
TokensKept(span) ==
  {token \in span[1] .. span[2] - 2 :
     \/ options.chunk_overlap > 0
     \/ \A n \in 1 .. span[2] - span[1] : token # span[1] + n * options.chunk_size - 1}

\* No row is in the document twice: rows of one extracted row are different chunks of it.
NothingDoubled ==
  \A i, j \in DOMAIN frame :
    frame[i].row.id = frame[j].row.id /\ frame[i].row.span = frame[j].row.span => i = j

\* A row leaves the document only as asked: an image that fails the filter, an image of which
\* an equal one stays, a text with no more than one token or cut in chunks of one.  Of a text,
\* split or not, every token is in some row but the last and, when chunks do not overlap, the
\* last of each chunk.
NothingDropped ==
  \A i \in DOMAIN original :
    LET row == original[i]
    IN  /\ \/ InFrame(row)
           \/ Done("filter") /\ options.filter /\ IsImage(row) /\ row.odd
           \/ /\ Done("dedup") /\ IsImage(row)
              /\ \E j \in DOMAIN frame : IsImage(frame[j].row) /\ frame[j].row.hash = row.hash
           \/ /\ Done("split") /\ row.document_type \in {"text", "audio"}
              /\ row.span[2] - row.span[1] <= 1 \/ options.chunk_size = 1
        /\ row.document_type \in {"text", "audio"} =>
             \A token \in TokensKept(row.span) :
               \E j \in DOMAIN frame :
                 LET piece == frame[j].row
                 IN  piece.id = row.id /\ token \in piece.span[1] .. piece.span[2] - 1

\* Filtering, deduplication, splitting and embedding take the frame apart and put it together
\* again, by masks, labels and content types: each row comes out, and comes out once.
RowsKept == NothingDropped /\ NothingDoubled
===============================================================================
