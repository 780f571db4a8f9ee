----------------------------- MODULE PayloadProofs -----------------------------
(***************************************************************************)
(* A document's way through extraction and the stages after it.  The PDF   *)
(* stage, for any number of pages, any batch size and whatever is found on *)
(* the pages: every page is sent to a model once, the rows are those that  *)
(* are due, the text is whole, and no call of a model is left behind.  The *)
(* stages after it, for any document and any tasks: every answer goes to   *)
(* the row it is about, and no row leaves the payload unasked.             *)
(***************************************************************************)
EXTENDS PdfExtraction, DocumentRows, DataFacts

Extraction == PdfInit /\ [][PdfNext]_pdfVars

-----------------------------------------------------------------------------
(* The PDF stage. *)

\* Calls are made while pages are walked, and results collected, only.
CallsOver == pdf_phase \in {"build", "done", "raised"} => \A f \in DOMAIN futures : Over(f)

\* A page that fails, a batch that fails and the one that is last: the executor is left when
\* every future is over (pdf/engines/pdfium.py, nemoretriever.py).
THEOREM NoCallLeftBehind == Extraction => []NoneLeftRunning
<1>1. PdfInit => CallsOver
  BY DEF PdfInit, CallsOver
<1>2. CallsOver /\ [PdfNext]_pdfVars => CallsOver'
  <2> SUFFICES ASSUME CallsOver, [PdfNext]_pdfVars PROVE CallsOver'
    OBVIOUS
  <2>1. CASE PdfiumPage \/ ParserPage \/ Leftovers \/ PageFails
    BY <2>1 DEF PdfiumPage, ParserPage, Leftovers, PageFails, CallsOver
  <2>2. ASSUME NEW f \in DOMAIN futures, Collect(f) \/ CollectFailure(f) PROVE CallsOver'
    BY <2>2 DEF Collect, CollectFailure, CallsOver
  <2>3. CASE AllCollected \/ Leave
    BY <2>3 DEF AllCollected, Leave, CallsOver, Over
  <2>4. CASE BuildPage \/ BuildFails \/ Finish
    BY <2>4 DEF BuildPage, BuildFails, Finish, CallsOver, Over
  <2>5. ASSUME NEW f \in DOMAIN futures,
               ElementsAnswer(f) \/ ParserAnswers(f) \/ InferenceFails(f)
        PROVE  CallsOver'
    BY <2>5 DEF ElementsAnswer, ParserAnswers, InferenceFails, Running, CallsOver
  <2>6. CASE UNCHANGED pdfVars
    BY <2>6 DEF pdfVars, CallsOver, Over
  <2>7. QED
    BY <2>1, <2>2, <2>3, <2>4, <2>5, <2>6 DEF PdfNext, MainThread, PoolThread
<1>3. CallsOver => NoneLeftRunning
  BY DEF CallsOver, NoneLeftRunning, ExtractionOver
<1>4. QED
  BY <1>1, <1>2, <1>3, PTL DEF Extraction

-----------------------------------------------------------------------------
(* The batches of pages. *)

Models == {"yolox", "parser"}

\* Whether pages are sent to a model, the pages that wait for it, and its calls.
Wanted(m) == IF m = "parser" THEN ~Pdfium /\ extract_task.text ELSE ElementsByModel
Waiting(m) == IF m = "parser" THEN pages_for_ocr ELSE pages_for_tables
CallsOf(m) == {f \in DOMAIN futures : futures[f].model = m}

\* A sequence of consecutive pages that begins batch number k.
Run(s, k) == \A i \in 1..Len(s) : s[i] = BatchSize * k + i - 1

States == {"submitted", "answered", "failed", "collected"}
Calls(R) == [model : Models, pages : Seq(Nat), state : States, rows : R]

PdfTypes ==
  /\ page_count \in Nat /\ page_idx \in 0..page_count
  /\ pages_for_tables \in Seq(Nat) /\ pages_for_ocr \in Seq(Nat)
  /\ \E R : futures \in Seq(Calls(R))
  /\ pdf_phase \in {"pages", "collect", "build", "leaving", "done", "raised"}

\* The pages that wait follow the last full batch, and are fewer than a batch.
NextBatch(m) ==
  pdf_phase = "pages" => \E k \in Nat : /\ page_idx = BatchSize * k + Len(Waiting(m))
                                        /\ Run(Waiting(m), k) /\ Len(Waiting(m)) < BatchSize

\* Every call is about a batch of its own, of pages that no longer wait.
OwnBatch(m) ==
  /\ \A f \in CallsOf(m) :
       \E k \in Nat :
         /\ Run(futures[f].pages, k)
         /\ Len(futures[f].pages) \in 1..BatchSize
         /\ BatchSize * k + Len(futures[f].pages) <= page_idx - Len(Waiting(m))
  /\ \A f, g \in CallsOf(m) : futures[f].pages[1] = futures[g].pages[1] => f = g

\* Every page that was walked and does not wait is in some call.
AllSent(m) ==
  \A p \in 0..page_idx - Len(Waiting(m)) - 1 :
    \E f \in CallsOf(m) : \E i \in 1..Len(futures[f].pages) : futures[f].pages[i] = p

\* Once the walk is over nothing waits.
NoneWaits(m) ==
  pdf_phase \in {"collect", "build", "done"} => page_idx = page_count /\ Waiting(m) = <<>>

Batches(m) == NextBatch(m) /\ OwnBatch(m) /\ AllSent(m) /\ NoneWaits(m)

\* A model that is not wanted is not called by the other engine's loop.
BatchInv ==
  /\ PdfTypes
  /\ \A m \in Models : IF Wanted(m) THEN Batches(m) ELSE CallsOf(m) = {}

-----------------------------------------------------------------------------
(* What a step does to the calls. *)

\* Nothing is sent, or one call with the given pages; what was called stays.
NothingSent(m) ==
  /\ CallsOf(m)' = CallsOf(m)
  /\ \A f \in CallsOf(m) : futures'[f].pages = futures[f].pages
OneSent(m, pages) ==
  \E g : /\ g \notin CallsOf(m) /\ CallsOf(m)' = CallsOf(m) \union {g}
         /\ futures'[g].pages = pages
         /\ \A f \in CallsOf(m) : futures'[f].pages = futures[f].pages

\* The batch a page is in.
LEMMA BatchNumber ==
  ASSUME NEW k \in Nat, NEW a \in 1..BatchSize
  PROVE  (BatchSize * k + a - 1) \div BatchSize = k
<1> DEFINE c == a - 1
<1>1. BatchSize \in Nat \ {0} /\ c \in 0..BatchSize - 1 /\ BatchSize * k \in Nat
  BY PdfAssumption
<1>2. BatchSize * k + a - 1 = BatchSize * k + c
  BY <1>1
<1> HIDE DEF c
<1>3. (BatchSize * k + c) \div BatchSize = k
  BY <1>1
<1>4. QED
  BY <1>2, <1>3

\* Different batches share no page.
LEMMA BatchApart ==
  \A k, j \in Nat : \A a, b \in 0..BatchSize - 1 :
    BatchSize * k + a = BatchSize * j + b => k = j /\ a = b
<1> SUFFICES ASSUME NEW k \in Nat, NEW j \in Nat,
                    NEW a \in 0..BatchSize - 1, NEW b \in 0..BatchSize - 1,
                    BatchSize * k + a = BatchSize * j + b
             PROVE  k = j /\ a = b
  OBVIOUS
<1>1. BatchSize \in Nat \ {0}
  BY PdfAssumption
<1>2. (BatchSize * k + a) \div BatchSize = k /\ (BatchSize * j + b) \div BatchSize = j
  BY <1>1
<1>3. QED
  BY <1>1, <1>2

\* A multiple of the batch size is a number.
LEMMA ProductNatural == \A k \in Nat : BatchSize * k \in Nat
BY PdfAssumption

\* No page is in two batches of one model, nor twice in one.
LEMMA OneBatchEach ==
  ASSUME NEW m, OwnBatch(m), \A f \in CallsOf(m) : futures[f].pages \in Seq(Nat),
         NEW f \in CallsOf(m), NEW g \in CallsOf(m),
         NEW i \in 1..Len(futures[f].pages), NEW j \in 1..Len(futures[g].pages),
         futures[f].pages[i] = futures[g].pages[j]
  PROVE  f = g /\ i = j
<1> DEFINE pf == futures[f].pages
           pg == futures[g].pages
<1>1. PICK k \in Nat : Run(pf, k) /\ Len(pf) \in 1..BatchSize
  BY DEF OwnBatch
<1>2. PICK l \in Nat : Run(pg, l) /\ Len(pg) \in 1..BatchSize
  BY DEF OwnBatch
<1>3. BatchSize \in Nat \ {0} /\ i \in Nat \ {0} /\ j \in Nat \ {0} /\ i <= BatchSize /\ j <= BatchSize
  BY <1>1, <1>2, PdfAssumption, SMTT(40)
<1>4. /\ pf[i] = BatchSize * k + i - 1 /\ pf[1] = BatchSize * k + 1 - 1
      /\ pg[j] = BatchSize * l + j - 1 /\ pg[1] = BatchSize * l + 1 - 1
  <2>1. 1 \in 1..Len(pf) /\ 1 \in 1..Len(pg)
    BY <1>1, <1>2
  <2>2. QED
    BY <1>1, <1>2, <2>1 DEF Run
<1>5. k = l /\ i - 1 = j - 1
  <2>1. i - 1 \in 0..BatchSize - 1 /\ j - 1 \in 0..BatchSize - 1
    BY <1>3
  <2>2. BatchSize * k + (i - 1) = BatchSize * l + (j - 1)
    BY <1>3, <1>4
  <2>3. QED
    BY <2>1, <2>2, BatchApart
<1>6. pf[1] = pg[1]
  BY <1>4, <1>5
<1>7. QED
  BY <1>3, <1>5, <1>6 DEF OwnBatch

\* A call about the pages that waited, and perhaps the one at hand: they no longer wait.
LEMMA BatchSent ==
  ASSUME NEW m, OwnBatch(m), AllSent(m), NEW k \in Nat, NEW s \in Seq(Nat),
         \A f \in CallsOf(m) : futures[f].pages \in Seq(Nat),
         Waiting(m) \in Seq(Nat), page_idx = BatchSize * k + Len(Waiting(m)),
         OneSent(m, s), Run(s, k), Len(s) \in 1..BatchSize,
         Waiting(m)' = <<>>, page_idx' = BatchSize * k + Len(s)
  PROVE  OwnBatch(m)' /\ AllSent(m)'
<1> DEFINE start == BatchSize * k
           W == Waiting(m)
<1>1. PICK g : /\ g \notin CallsOf(m) /\ CallsOf(m)' = CallsOf(m) \union {g}
               /\ futures'[g].pages = s
               /\ \A f \in CallsOf(m) : futures'[f].pages = futures[f].pages
  BY DEF OneSent
<1>2. /\ start \in Nat /\ Len(s) \in Nat /\ Len(s) >= 1 /\ Len(W) \in Nat
      /\ page_idx - Len(W) = start /\ page_idx' - Len(Waiting(m)') = start + Len(s)
      /\ page_idx' - Len(Waiting(m)') = BatchSize * k + Len(s)
      /\ s[1] = start
  <2>1. start \in Nat /\ Len(s) \in Nat /\ Len(s) >= 1 /\ Len(W) \in Nat
    BY PdfAssumption
  <2>2. 1 \in 1..Len(s)
    BY <2>1
  <2>3. s[1] = BatchSize * k + 1 - 1
    BY <2>2 DEF Run
  <2>4. QED
    BY <2>1, <2>3
<1> HIDE DEF start
<1>3. ASSUME NEW f \in CallsOf(m)
      PROVE  futures[f].pages[1] # start
             /\ \E j \in Nat : /\ Run(futures[f].pages, j)
                               /\ Len(futures[f].pages) \in 1..BatchSize
                               /\ BatchSize * j + Len(futures[f].pages) <= start
  <2>1. PICK j \in Nat : /\ Run(futures[f].pages, j)
                         /\ Len(futures[f].pages) \in 1..BatchSize
                         /\ BatchSize * j + Len(futures[f].pages) <= start
    BY <1>2 DEF OwnBatch
  <2>2. futures[f].pages[1] = BatchSize * j + 1 - 1
    <3>1. 1 \in 1..Len(futures[f].pages)
      BY <2>1
    <3>2. QED
      BY <2>1, <3>1 DEF Run
  <2> DEFINE b == BatchSize * j
  <2>3. b \in Nat /\ b + Len(futures[f].pages) <= start /\ futures[f].pages[1] = b + 1 - 1
    <3>1. b \in Nat
      BY ProductNatural
    <3>2. b + Len(futures[f].pages) <= start
      BY <2>1
    <3>3. QED
      BY <2>2, <3>1, <3>2
  <2> HIDE DEF b
  <2>4. futures[f].pages[1] # start
    BY <1>2, <2>1, <2>3, SMTT(40)
  <2>5. QED
    BY <2>1, <2>4
<1>4. OwnBatch(m)'
  <2>1. ASSUME NEW f \in CallsOf(m)'
        PROVE  \E j \in Nat :
                 /\ Run(futures'[f].pages, j)
                 /\ Len(futures'[f].pages) \in 1..BatchSize
                 /\ BatchSize * j + Len(futures'[f].pages) <= page_idx' - Len(Waiting(m)')
    <3>1. CASE f = g
      <4>1. BatchSize * k + Len(s) <= page_idx' - Len(Waiting(m)')
        BY <1>2
      <4>2. QED
        BY <1>1, <3>1, <4>1
    <3>2. CASE f \in CallsOf(m)
      <4>1. PICK j \in Nat : /\ Run(futures[f].pages, j)
                             /\ Len(futures[f].pages) \in 1..BatchSize
                             /\ BatchSize * j + Len(futures[f].pages) <= start
        BY <1>3, <3>2
      <4>2. BatchSize * j + Len(futures[f].pages) <= page_idx' - Len(Waiting(m)')
        <5> DEFINE n == BatchSize * j + Len(futures[f].pages)
        <5>1. n \in Nat /\ n <= start
          <6>1. BatchSize * j \in Nat
            BY <4>1, ProductNatural
          <6>2. Len(futures[f].pages) \in Nat
            BY <3>2, LenProperties
          <6>3. n <= start
            BY <4>1
          <6>4. QED
            BY <6>1, <6>2, <6>3, SMTT(40)
        <5> HIDE DEF n
        <5>2. n <= start + Len(s)
          BY <1>2, <5>1
        <5>3. QED
          BY <1>2, <5>2 DEF n
      <4>3. QED
        BY <1>1, <3>2, <4>1, <4>2
    <3>3. QED
      BY <1>1, <3>1, <3>2
  <2>2. ASSUME NEW f \in CallsOf(m)', NEW h \in CallsOf(m)',
               futures'[f].pages[1] = futures'[h].pages[1]
        PROVE  f = h
    <3>1. \A e \in CallsOf(m)' :
            \/ e = g /\ futures'[e].pages[1] = start
            \/ /\ e \in CallsOf(m) /\ futures'[e].pages[1] # start
               /\ futures'[e].pages = futures[e].pages
      <4> SUFFICES ASSUME NEW e \in CallsOf(m)'
                   PROVE  \/ e = g /\ futures'[e].pages[1] = start
                          \/ /\ e \in CallsOf(m) /\ futures'[e].pages[1] # start
                             /\ futures'[e].pages = futures[e].pages
        OBVIOUS
      <4>1. CASE e = g
        <5>1. futures'[e].pages = s
          BY <1>1, <4>1
        <5>2. futures'[e].pages[1] = start
          BY <1>2, <5>1
        <5>3. QED
          BY <4>1, <5>2
      <4>2. CASE e \in CallsOf(m)
        BY <1>1, <1>3, <4>2
      <4>3. QED
        BY <1>1, <4>1, <4>2
    <3>2. QED
      BY <2>2, <3>1 DEF OwnBatch
  <2>3. QED
    BY <2>1, <2>2 DEF OwnBatch
<1>5. AllSent(m)'
  <2> SUFFICES ASSUME NEW p \in 0..page_idx' - Len(Waiting(m)') - 1
               PROVE  \E f \in CallsOf(m)' :
                        \E i \in 1..Len(futures'[f].pages) : futures'[f].pages[i] = p
    BY DEF AllSent
  <2>1. p \in 0..start + Len(s) - 1
    BY <1>2
  <2>2. CASE p < start
    <3>1. p \in 0..page_idx - Len(W) - 1
      BY <1>2, <2>1, <2>2
    <3>2. PICK f \in CallsOf(m) : \E i \in 1..Len(futures[f].pages) : futures[f].pages[i] = p
      BY <3>1 DEF AllSent
    <3>3. QED
      BY <1>1, <3>2
  <2>3. CASE p >= start
    <3>1. p - start + 1 \in 1..Len(s) /\ start + (p - start + 1) - 1 = p
      BY <1>2, <2>1, <2>3
    <3>2. s[p - start + 1] = p
      <4> DEFINE i == p - start + 1
      <4>1. i \in 1..Len(s) /\ start + i - 1 = p
        BY <3>1
      <4>2. s[i] = start + i - 1
        BY <4>1 DEF Run, start
      <4>3. QED
        BY <4>1, <4>2
    <3>3. QED
      BY <1>1, <3>1, <3>2
  <2>4. p < start \/ p >= start
    BY <1>2, <2>1
  <2>5. QED
    BY <2>2, <2>3, <2>4
<1>6. QED
  BY <1>4, <1>5

\* The page at hand continues the run of those that wait.
LEMMA RunAppended ==
  ASSUME NEW k \in Nat, NEW s \in Seq(Nat), Run(s, k), NEW p \in Nat, p = BatchSize * k + Len(s)
  PROVE  /\ Append(s, p) \in Seq(Nat) /\ Len(Append(s, p)) = Len(s) + 1
         /\ Run(Append(s, p), k)
<1>1. /\ Append(s, p) \in Seq(Nat) /\ Len(Append(s, p)) = Len(s) + 1 /\ Len(s) \in Nat
      /\ \A i \in 1..Len(s) : Append(s, p)[i] = s[i]
      /\ Append(s, p)[Len(s) + 1] = p
  BY AppendProperties
<1>2. ASSUME NEW i \in 1..Len(s) + 1 PROVE Append(s, p)[i] = BatchSize * k + i - 1
  <2>1. CASE i \in 1..Len(s)
    BY <1>1, <2>1 DEF Run
  <2>2. CASE i = Len(s) + 1
    <3> DEFINE b == BatchSize * k
    <3>1. b \in Nat
      BY PdfAssumption
    <3> HIDE DEF b
    <3>2. p = b + Len(s)
      BY DEF b
    <3>3. p = b + i - 1
      BY <1>1, <2>2, <3>1, <3>2
    <3>4. QED
      BY <1>1, <2>2, <3>3 DEF b
  <2>3. QED
    BY <1>1, <2>1, <2>2
<1>3. QED
  BY <1>1, <1>2 DEF Run

\* The steps that walk no page and call no model.
LEMMA BatchesKept ==
  ASSUME NEW m, Batches(m), NothingSent(m),
         Waiting(m)' = Waiting(m), page_idx' = page_idx, page_count' = page_count,
         pdf_phase' = "pages" => pdf_phase = "pages",
         pdf_phase' \in {"collect", "build", "done"} => pdf_phase \in {"collect", "build", "done"}
  PROVE  Batches(m)'
<1>1. NextBatch(m)'
  BY DEF Batches, NextBatch
<1>2. OwnBatch(m)'
  BY SMTT(40) DEF Batches, OwnBatch, NothingSent
<1>3. AllSent(m)'
  BY DEF Batches, AllSent, NothingSent
<1>4. NoneWaits(m)'
  BY DEF Batches, NoneWaits
<1>5. QED
  BY <1>1, <1>2, <1>3, <1>4 DEF Batches

\* A page is walked: it waits, or completes a batch that is sent.
LEMMA BatchesWalk ==
  ASSUME NEW m, Batches(m), \A f \in CallsOf(m) : futures[f].pages \in Seq(Nat),
         Waiting(m) \in Seq(Nat), page_idx \in Nat, page_idx' = page_idx + 1,
         pdf_phase = "pages", pdf_phase' = "pages",
         LET pages == Append(Waiting(m), page_idx)
         IN  \/ ~Filled(pages) /\ Waiting(m)' = pages /\ NothingSent(m)
             \/ Filled(pages) /\ Waiting(m)' = <<>> /\ OneSent(m, pages)
  PROVE  Batches(m)'
<1> DEFINE W == Waiting(m)
           pages == Append(W, page_idx)
<1>1. PICK k \in Nat : page_idx = BatchSize * k + Len(W) /\ Run(W, k) /\ Len(W) < BatchSize
  BY DEF Batches, NextBatch
<1>2. pages \in Seq(Nat) /\ Len(pages) = Len(W) + 1 /\ Run(pages, k) /\ Len(W) \in Nat
  BY <1>1, RunAppended
<1> DEFINE b == BatchSize * k
<1>3. b \in Nat /\ BatchSize \in Nat \ {0} /\ b + BatchSize = BatchSize * (k + 1) /\ k + 1 \in Nat
  BY PdfAssumption
<1>4. NoneWaits(m)'
  BY DEF NoneWaits
<1>5. CASE ~Filled(pages) /\ Waiting(m)' = pages /\ NothingSent(m)
  <2> HIDE DEF b, pages, W
  <2>1. page_idx' = b + Len(pages) /\ Len(pages) < BatchSize
        /\ page_idx' - Len(pages) = page_idx - Len(W)
    BY <1>1, <1>2, <1>3, <1>5 DEF Filled, b
  <2>2. NextBatch(m)'
    BY <1>2, <1>5, <2>1 DEF NextBatch, b
  <2>3. OwnBatch(m)'
    BY <1>5, <2>1, ZenonT(40) DEF Batches, OwnBatch, NothingSent, W
  <2>4. AllSent(m)'
    BY <1>5, <2>1 DEF Batches, AllSent, NothingSent, W
  <2>5. QED
    BY <1>4, <2>2, <2>3, <2>4 DEF Batches
<1>6. CASE Filled(pages) /\ Waiting(m)' = <<>> /\ OneSent(m, pages)
  <2>1. Len(pages) = BatchSize /\ Len(pages) \in 1..BatchSize
    <3> HIDE DEF pages, W
    <3>1. QED
      BY <1>1, <1>2, <1>3, <1>6 DEF Filled
  <2>2. page_idx' = b + Len(pages)
    <3> HIDE DEF pages, b
    <3>1. page_idx = b + Len(W)
      BY <1>1 DEF b
    <3>2. QED
      BY <1>2, <1>3, <3>1
  <2>3. OwnBatch(m)' /\ AllSent(m)'
    <3> HIDE DEF pages
    <3>1. QED
      BY <1>1, <1>2, <1>6, <2>1, <2>2, BatchSent DEF Batches
  <2>4. NextBatch(m)'
    <3>1. page_idx' = BatchSize * (k + 1) + Len(Waiting(m)')
      <4> HIDE DEF pages, W
      <4>1. Len(Waiting(m)') = 0
        BY <1>6
      <4>2. BatchSize * (k + 1) + 0 = BatchSize * (k + 1)
        BY <1>3
      <4>3. page_idx' = b + BatchSize
        BY <2>1, <2>2
      <4>4. QED
        BY <1>3, <4>1, <4>2, <4>3
    <3>2. Run(Waiting(m)', k + 1) /\ Len(Waiting(m)') < BatchSize
      BY <1>3, <1>6 DEF Run
    <3>3. QED
      BY <1>3, <3>1, <3>2 DEF NextBatch
  <2>5. QED
    BY <1>4, <2>3, <2>4 DEF Batches
<1>7. QED
  BY <1>5, <1>6

\* After the last page what waits is sent, if there is any.
LEMMA BatchesLeft ==
  ASSUME NEW m, Batches(m), \A f \in CallsOf(m) : futures[f].pages \in Seq(Nat),
         Waiting(m) \in Seq(Nat), page_idx \in Nat, page_idx' = page_idx,
         page_idx = page_count, page_count' = page_count,
         pdf_phase = "pages", pdf_phase' = "collect", Waiting(m)' = <<>>,
         \/ Waiting(m) = <<>> /\ NothingSent(m)
         \/ Waiting(m) # <<>> /\ OneSent(m, Waiting(m))
  PROVE  Batches(m)'
<1>1. PICK k \in Nat : /\ page_idx = BatchSize * k + Len(Waiting(m)) /\ Run(Waiting(m), k)
                       /\ Len(Waiting(m)) < BatchSize
  BY DEF Batches, NextBatch
<1>2. NextBatch(m)' /\ NoneWaits(m)'
  BY DEF NextBatch, NoneWaits
<1>3. CASE Waiting(m) = <<>> /\ NothingSent(m)
  <2>1. OwnBatch(m)'
    BY <1>3, ZenonT(40) DEF Batches, OwnBatch, NothingSent
  <2>2. AllSent(m)'
    <3>1. page_idx' = page_idx /\ Waiting(m)' = Waiting(m) /\ CallsOf(m)' = CallsOf(m)
      BY <1>3 DEF NothingSent
    <3>2. \A f \in CallsOf(m) : futures'[f].pages = futures[f].pages
      BY <1>3 DEF NothingSent
    <3>3. AllSent(m)
      BY DEF Batches
    <3>4. QED
      BY <3>1, <3>2, <3>3, ZenonT(30) DEF AllSent
  <2>3. QED
    BY <1>2, <2>1, <2>2 DEF Batches
<1>4. CASE Waiting(m) # <<>> /\ OneSent(m, Waiting(m))
  <2>1. Len(Waiting(m)) \in 1..BatchSize
    BY <1>1, <1>4, PdfAssumption, EmptySeq
  <2>2. OwnBatch(m)' /\ AllSent(m)'
    BY <1>1, <1>4, <2>1, BatchSent DEF Batches
  <2>3. QED
    BY <1>2, <2>2 DEF Batches
<1>5. QED
  BY <1>3, <1>4

\* Calls whose answers lie in a set have answers in every larger one.
LEMMA CallsWiden ==
  ASSUME NEW R, NEW T, R \subseteq T, NEW s \in Seq(Calls(R))
  PROVE  s \in Seq(Calls(T))
<1>1. Calls(R) \subseteq Calls(T)
  BY DEF Calls
<1>2. Len(s) \in Nat /\ s \in [1..Len(s) -> Calls(R)]
  BY LenProperties
<1>3. s \in [1..Len(s) -> Calls(T)]
  BY <1>1, <1>2
<1>4. QED
  BY <1>2, <1>3, SeqDef

\* One submission, or none.
LEMMA Sending ==
  ASSUME NEW R, <<>> \in R, NEW s \in Seq(Calls(R)), NEW c, NEW model \in Models,
         NEW pages, c => pages \in Seq(Nat)
  PROVE  LET t == s \o Submitted(c, model, pages)
         IN  /\ t \in Seq(Calls(R))
             /\ \A i \in DOMAIN s : i \in DOMAIN t /\ t[i] = s[i]
             /\ IF c THEN /\ Len(s) + 1 \notin DOMAIN s /\ DOMAIN t = DOMAIN s \union {Len(s) + 1}
                          /\ t[Len(s) + 1] = Future(model, pages)
                     ELSE DOMAIN t = DOMAIN s
<1>1. Len(s) \in Nat /\ DOMAIN s = 1..Len(s)
  BY LenProperties
<1>2. CASE c
  <2> DEFINE x == Future(model, pages)
             t == s \o <<x>>
  <2>1. x \in Calls(R)
    BY <1>2 DEF Future, Calls, States
  <2> HIDE DEF x
  <2>2. <<x>> \in Seq(Calls(R)) /\ Len(<<x>>) = 1 /\ <<x>>[1] = x
    BY <2>1
  <2>3. /\ t \in Seq(Calls(R)) /\ Len(t) = Len(s) + 1
        /\ \A i \in 1..Len(s) + 1 : t[i] = IF i <= Len(s) THEN s[i] ELSE <<x>>[i - Len(s)]
    BY <2>2, ConcatProperties
  <2> HIDE DEF t
  <2>4. DOMAIN t = 1..Len(s) + 1 /\ DOMAIN t = DOMAIN s \union {Len(s) + 1} /\ Len(s) + 1 \notin DOMAIN s
    BY <1>1, <2>3, LenProperties
  <2>5. \A i \in DOMAIN s : t[i] = s[i]
    BY <1>1, <2>3
  <2>6. t[Len(s) + 1] = x
    <3>1. Len(s) + 1 \in 1..Len(s) + 1 /\ ~(Len(s) + 1 <= Len(s)) /\ Len(s) + 1 - Len(s) = 1
      BY <1>1
    <3>2. QED
      BY <2>2, <2>3, <3>1
  <2>7. s \o Submitted(c, model, pages) = t
    BY <1>2 DEF Submitted, t, x
  <2>8. QED
    BY <1>2, <2>3, <2>4, <2>5, <2>6, <2>7 DEF x
<1>3. CASE ~c
  <2>1. Submitted(c, model, pages) = <<>> /\ s \o <<>> = s
    BY <1>3, ConcatEmptySeq DEF Submitted
  <2>2. QED
    BY <1>3, <2>1
<1>4. QED
  BY <1>2, <1>3

\* What was called before stays, what is new is not over.
CallsStay ==
  /\ \A f \in DOMAIN futures : f \in DOMAIN futures' /\ futures'[f] = futures[f]
  /\ \A f \in DOMAIN futures' : f \in DOMAIN futures \/ futures'[f].state = "submitted"

\* A submission of each kind, or none.
LEMMA BothSending ==
  ASSUME NEW R, futures \in Seq(Calls(R)), NEW c, NEW d, NEW ocr, NEW tables,
         c => ocr \in Seq(Nat), d => tables \in Seq(Nat),
         futures' = futures \o Submitted(c, "parser", ocr) \o Submitted(d, "yolox", tables)
  PROVE  /\ futures' \in Seq(Calls(R \union {<<>>})) /\ CallsStay
         /\ IF c THEN OneSent("parser", ocr) ELSE NothingSent("parser")
         /\ IF d THEN OneSent("yolox", tables) ELSE NothingSent("yolox")
<1> DEFINE T == R \union {<<>>}
           mid == futures \o Submitted(c, "parser", ocr)
           n == Len(futures) + 1
           k == Len(mid) + 1
<1>1. futures \in Seq(Calls(T)) /\ <<>> \in T /\ "parser" \in Models /\ "yolox" \in Models
  BY CallsWiden DEF Models
<1> HIDE DEF T
<1>2. /\ mid \in Seq(Calls(T))
      /\ \A i \in DOMAIN futures : i \in DOMAIN mid /\ mid[i] = futures[i]
      /\ IF c THEN /\ n \notin DOMAIN futures /\ DOMAIN mid = DOMAIN futures \union {n}
                   /\ mid[n] = Future("parser", ocr)
              ELSE DOMAIN mid = DOMAIN futures
  BY <1>1, Sending
<1>10. futures' = mid \o Submitted(d, "yolox", tables)
  OBVIOUS
<1> HIDE DEF mid, n
<1>3. /\ futures' \in Seq(Calls(T))
      /\ \A i \in DOMAIN mid : i \in DOMAIN futures' /\ futures'[i] = mid[i]
      /\ IF d THEN /\ k \notin DOMAIN mid /\ DOMAIN futures' = DOMAIN mid \union {k}
                   /\ futures'[k] = Future("yolox", tables)
              ELSE DOMAIN futures' = DOMAIN mid
  <2> DEFINE t == mid \o Submitted(d, "yolox", tables)
  <2>1. /\ t \in Seq(Calls(T))
        /\ \A i \in DOMAIN mid : i \in DOMAIN t /\ t[i] = mid[i]
        /\ IF d THEN /\ Len(mid) + 1 \notin DOMAIN mid /\ DOMAIN t = DOMAIN mid \union {Len(mid) + 1}
                     /\ t[Len(mid) + 1] = Future("yolox", tables)
                ELSE DOMAIN t = DOMAIN mid
    <3>1. mid \in Seq(Calls(T))
      BY <1>2
    <3>2. QED
      BY <1>1, <3>1, Sending
  <2>2. futures' = t
    BY <1>10
  <2> HIDE DEF t
  <2>3. QED
    BY <2>1, <2>2
<1> HIDE DEF k
<1>4. /\ Future("parser", ocr).model = "parser" /\ Future("parser", ocr).pages = ocr
      /\ Future("parser", ocr).state = "submitted"
      /\ Future("yolox", tables).model = "yolox" /\ Future("yolox", tables).pages = tables
      /\ Future("yolox", tables).state = "submitted" /\ "yolox" # "parser"
  BY DEF Future
<1>5. CallsStay
  <2>1. \A f \in DOMAIN futures : f \in DOMAIN futures' /\ futures'[f] = futures[f]
    BY <1>2, <1>3
  <2>2. ASSUME NEW f \in DOMAIN futures', f \notin DOMAIN futures
        PROVE  futures'[f].state = "submitted"
    <3>1. \/ c /\ f = n /\ n \in DOMAIN mid
          \/ d /\ f = k
      <4>1. f \in DOMAIN mid \/ (d /\ f = k)
        BY <1>3, <2>2
      <4>2. f \in DOMAIN mid => c /\ f = n /\ n \in DOMAIN mid
        BY <1>2, <2>2
      <4>3. QED
        BY <4>1, <4>2
    <3>2. QED
      BY <1>2, <1>3, <1>4, <3>1
  <2>3. QED
    BY <2>1, <2>2 DEF CallsStay
<1>6. ASSUME c PROVE OneSent("parser", ocr)
  <2>1. n \notin CallsOf("parser") /\ CallsOf("parser")' = CallsOf("parser") \union {n}
    BY <1>2, <1>3, <1>4, <1>6, ZenonT(40) DEF CallsOf
  <2>2. futures'[n].pages = ocr /\ \A f \in CallsOf("parser") : futures'[f].pages = futures[f].pages
    BY <1>2, <1>3, <1>4, <1>6 DEF CallsOf
  <2>3. QED
    BY <1>6, <2>1, <2>2 DEF OneSent
<1>7. ASSUME ~c PROVE NothingSent("parser")
  BY <1>2, <1>3, <1>4, <1>7 DEF CallsOf, NothingSent
<1>8. ASSUME d PROVE OneSent("yolox", tables)
  <2>1. k \notin CallsOf("yolox") /\ CallsOf("yolox")' = CallsOf("yolox") \union {k}
    BY <1>2, <1>3, <1>4, <1>8, ZenonT(40) DEF CallsOf
  <2>2. futures'[k].pages = tables /\ \A f \in CallsOf("yolox") : futures'[f].pages = futures[f].pages
    BY <1>2, <1>3, <1>4, <1>8 DEF CallsOf
  <2>3. QED
    BY <1>8, <2>1, <2>2 DEF OneSent
<1>9. ASSUME ~d PROVE NothingSent("yolox")
  <2>1. DOMAIN futures' = DOMAIN mid
    BY <1>3, <1>9
  <2>2. \A i \in DOMAIN mid : i \in DOMAIN futures \/ futures'[i].model = "parser"
    <3>1. CASE c
      BY <1>2, <1>3, <1>4, <3>1
    <3>2. CASE ~c
      BY <1>2, <3>2
    <3>3. QED
      BY <3>1, <3>2
  <2>3. QED
    BY <1>2, <1>3, <1>4, <2>1, <2>2, ZenonT(40) DEF CallsOf, NothingSent
<1>11. QED
  <2>1. IF c THEN OneSent("parser", ocr) ELSE NothingSent("parser")
    BY <1>6, <1>7
  <2>2. IF d THEN OneSent("yolox", tables) ELSE NothingSent("yolox")
    BY <1>8, <1>9
  <2>3. QED
    BY <1>3, <1>5, <2>1, <2>2 DEF T

\* A call that answers, fails or is collected keeps its model and its pages.
LEMMA StateMoves ==
  ASSUME NEW R, futures \in Seq(Calls(R)), NEW f \in DOMAIN futures, NEW x \in States,
         \/ futures' = [futures EXCEPT ![f].state = x]
         \/ \E rows : futures' = [futures EXCEPT ![f].state = x, ![f].rows = rows]
  PROVE  /\ \E T : futures' \in Seq(Calls(T))
         /\ DOMAIN futures' = DOMAIN futures
         /\ \A g \in DOMAIN futures :
              /\ futures'[g].model = futures[g].model /\ futures'[g].pages = futures[g].pages
              /\ futures'[g].state = IF g = f THEN x ELSE futures[g].state
         /\ \A m \in Models : NothingSent(m)
<1>1. /\ Len(futures) \in Nat /\ futures \in [1..Len(futures) -> Calls(R)]
      /\ DOMAIN futures = 1..Len(futures)
  BY LenProperties
<1>2. PICK rows : \/ futures' = [futures EXCEPT ![f].state = x]
                  \/ futures' = [futures EXCEPT ![f].state = x, ![f].rows = rows]
  OBVIOUS
<1> DEFINE T == R \union {rows}
           new == futures'[f]
           old == futures[f]
<1>3. old \in Calls(R) /\ Calls(R) \subseteq Calls(T)
  BY <1>1 DEF Calls
<1>4. /\ new \in Calls(T)
      /\ new.model = old.model /\ new.pages = old.pages /\ new.state = x
      /\ futures' = [futures EXCEPT ![f] = new]
  <2>1. CASE futures' = [futures EXCEPT ![f].state = x]
    <3> DEFINE r == [old EXCEPT !.state = x]
    <3>1. futures' = [futures EXCEPT ![f] = r]
      BY <2>1
    <3>2. r \in Calls(T) /\ r.model = old.model /\ r.pages = old.pages /\ r.state = x
      BY <1>3 DEF Calls
    <3> HIDE DEF r
    <3>3. new = r
      BY <1>1, <3>1
    <3>4. QED
      BY <3>1, <3>2, <3>3
  <2>2. CASE futures' = [futures EXCEPT ![f].state = x, ![f].rows = rows]
    <3> DEFINE r == [old EXCEPT !.state = x, !.rows = rows]
    <3>1. futures' = [futures EXCEPT ![f] = r]
      BY <1>1, <2>2
    <3>2. r \in Calls(T) /\ r.model = old.model /\ r.pages = old.pages /\ r.state = x
      BY <1>3 DEF Calls
    <3> HIDE DEF r
    <3>3. new = r
      BY <1>1, <3>1
    <3>4. QED
      BY <3>1, <3>2, <3>3
  <2>3. QED
    BY <1>2, <2>1, <2>2
<1> HIDE DEF new, old, T
<1>5. futures' \in [1..Len(futures) -> Calls(T)]
  BY <1>1, <1>3, <1>4
<1>6. futures' \in Seq(Calls(T))
  BY <1>1, <1>5, SeqDef
<1>7. /\ DOMAIN futures' = DOMAIN futures
      /\ \A g \in DOMAIN futures : g # f => futures'[g] = futures[g]
      /\ futures'[f] = new /\ futures[f] = old
  BY <1>1, <1>4 DEF new, old
<1>8. \A g \in DOMAIN futures :
        /\ futures'[g].model = futures[g].model /\ futures'[g].pages = futures[g].pages
        /\ futures'[g].state = IF g = f THEN x ELSE futures[g].state
  BY <1>4, <1>7
<1>9. \A m \in Models : NothingSent(m)
  BY <1>7, <1>8 DEF NothingSent, CallsOf
<1>10. QED
  BY <1>6, <1>7, <1>8, <1>9

\* Before the extraction nothing is batched.
LEMMA BatchInitially == PdfInit => BatchInv
<1> SUFFICES ASSUME PdfInit PROVE BatchInv
  OBVIOUS
<1>1. PdfTypes
  <2>1. <<>> \in Seq(Calls({}))
    OBVIOUS
  <2>2. page_count \in Nat
    BY PdfAssumption DEF PdfInit
  <2>3. QED
    BY <2>1, <2>2 DEF PdfInit, PdfTypes
<1>2. ASSUME NEW m \in Models PROVE CallsOf(m) = {} /\ Batches(m)
  <2>1. CallsOf(m) = {} /\ Waiting(m) = <<>> /\ Len(Waiting(m)) = 0
    BY DEF PdfInit, CallsOf, Waiting
  <2>2. NextBatch(m)
    <3>1. 0 = BatchSize * 0 + 0 /\ 0 < BatchSize
      BY PdfAssumption
    <3>2. Run(Waiting(m), 0)
      BY <2>1 DEF Run
    <3>3. QED
      BY <2>1, <3>1, <3>2 DEF PdfInit, NextBatch
  <2>3. OwnBatch(m) /\ AllSent(m) /\ NoneWaits(m)
    BY <2>1 DEF PdfInit, OwnBatch, AllSent, NoneWaits
  <2>4. QED
    BY <2>1, <2>2, <2>3 DEF Batches
<1>3. QED
  BY <1>1, <1>2 DEF BatchInv

\* The steps after the walk, and those of the pool.
LEMMA BatchIdle ==
  ASSUME BatchInv, \A m \in Models : NothingSent(m), UNCHANGED <<pdfJob, page_idx, pagesWaiting>>,
         \E R : futures' \in Seq(Calls(R)),
         pdf_phase' \in {"pages", "collect", "build", "leaving", "done", "raised"},
         pdf_phase' = "pages" => pdf_phase = "pages",
         pdf_phase' \in {"collect", "build", "done"} => pdf_phase \in {"collect", "build", "done"}
  PROVE  BatchInv'
<1>1. PdfTypes'
  BY DEF BatchInv, PdfTypes, pdfJob, pagesWaiting
<1>2. ASSUME NEW m \in Models PROVE IF Wanted(m)' THEN Batches(m)' ELSE CallsOf(m)' = {}
  <2>1. Wanted(m)' = Wanted(m) /\ Waiting(m)' = Waiting(m) /\ NothingSent(m)
    BY DEF pdfJob, pagesWaiting, Wanted, Waiting, Pdfium, ElementsByModel, WantsElements
  <2>2. CASE Wanted(m)
    <3>1. Batches(m)
      BY <2>2 DEF BatchInv
    <3>2. QED
      BY <2>1, <2>2, <3>1, BatchesKept DEF pdfJob
  <2>3. CASE ~Wanted(m)
    BY <2>1, <2>3 DEF BatchInv, NothingSent
  <2>4. QED
    BY <2>2, <2>3
<1>3. QED
  BY <1>1, <1>2 DEF BatchInv

\* The pages of a call are natural numbers.
LEMMA CallTypes ==
  ASSUME PdfTypes, NEW f \in DOMAIN futures
  PROVE  /\ futures[f].pages \in Seq(Nat) /\ futures[f].model \in Models
         /\ futures[f].state \in States
<1>1. PICK R : futures \in Seq(Calls(R))
  BY DEF PdfTypes
<1>2. futures[f] \in Calls(R)
  BY <1>1, LenProperties
<1>3. QED
  BY <1>2 DEF Calls

\* The pdfium walk keeps the batch facts, and the calls already made.
LEMMA BatchPdfiumPage ==
  ASSUME BatchInv, PdfiumPage
  PROVE  BatchInv' /\ CallsStay
<1> DEFINE pages == IF WantsElements THEN Append(pages_for_tables, page_idx) ELSE <<>>
           submit == WantsElements /\ Filled(pages)
<1>1. /\ pdf_phase = "pages" /\ pdf_phase' = "pages" /\ Pdfium /\ page_idx < page_count
      /\ futures' = futures \o Submitted(submit, "yolox", pages)
      /\ pages_for_tables' = IF submit THEN <<>> ELSE pages
      /\ page_idx' = page_idx + 1 /\ UNCHANGED <<extract_task, page_count, pages_for_ocr>>
  BY DEF PdfiumPage, pdfJob
<1>2. /\ page_count \in Nat /\ page_idx \in Nat /\ pages_for_tables \in Seq(Nat)
      /\ pages \in Seq(Nat) /\ \A f \in DOMAIN futures : futures[f].pages \in Seq(Nat)
  <2>1. page_count \in Nat /\ page_idx \in Nat /\ pages_for_tables \in Seq(Nat)
    BY DEF BatchInv, PdfTypes
  <2>2. Append(pages_for_tables, page_idx) \in Seq(Nat)
    BY <2>1, AppendProperties
  <2>3. QED
    BY <2>1, <2>2, CallTypes DEF BatchInv
<1>3. PICK R : futures \in Seq(Calls(R))
  BY DEF BatchInv, PdfTypes
<1> HIDE DEF pages, submit
<1>4. PICK d \in BOOLEAN : d <=> submit
  OBVIOUS
<1>5. /\ futures' \in Seq(Calls(R \union {<<>>})) /\ CallsStay /\ NothingSent("parser")
      /\ IF submit THEN OneSent("yolox", pages) ELSE NothingSent("yolox")
  <2>1. futures' = futures \o Submitted(FALSE, "parser", <<>>) \o Submitted(d, "yolox", pages)
    BY <1>1, <1>3, <1>4, ConcatEmptySeq DEF Submitted
  <2>2. /\ futures' \in Seq(Calls(R \union {<<>>})) /\ CallsStay /\ NothingSent("parser")
        /\ IF d THEN OneSent("yolox", pages) ELSE NothingSent("yolox")
    BY <1>2, <1>3, <2>1, BothSending
  <2>3. QED
    BY <1>4, <2>2
<1>6. PdfTypes'
  <2>1. page_idx' \in 0..page_count'
    BY <1>1, <1>2
  <2>2. pages_for_tables' \in Seq(Nat) /\ pages_for_ocr' \in Seq(Nat)
    BY <1>1, <1>2 DEF BatchInv, PdfTypes
  <2>3. QED
    BY <1>1, <1>2, <1>5, <2>1, <2>2 DEF PdfTypes
<1>7. ~Wanted("parser") /\ ~Wanted("parser")' /\ CallsOf("parser")' = {}
  BY <1>1, <1>5 DEF BatchInv, Models, Wanted, Pdfium, NothingSent
<1>8. /\ Wanted("yolox") <=> WantsElements
      /\ Wanted("yolox")' <=> WantsElements
      /\ Waiting("yolox") = pages_for_tables /\ Waiting("yolox")' = pages_for_tables'
  BY <1>1 DEF Wanted, Waiting, ElementsByModel, WantsElements, Pdfium
<1>9. CASE WantsElements
  <2>1. pages = Append(Waiting("yolox"), page_idx)
    BY <1>8, <1>9 DEF pages
  <2>2. submit <=> Filled(pages)
    BY <1>9 DEF submit
  <2>3. \/ ~Filled(pages) /\ Waiting("yolox")' = pages /\ NothingSent("yolox")
        \/ Filled(pages) /\ Waiting("yolox")' = <<>> /\ OneSent("yolox", pages)
    BY <1>1, <1>5, <1>8, <2>2
  <2>4. Batches("yolox")
    BY <1>8, <1>9 DEF BatchInv, Models
  <2>5. \A f \in CallsOf("yolox") : futures[f].pages \in Seq(Nat)
    BY <1>2 DEF CallsOf
  <2>6. Batches("yolox")'
    BY <1>1, <1>2, <1>8, <2>1, <2>3, <2>4, <2>5, BatchesWalk
  <2>7. QED
    BY <1>5, <1>6, <1>7, <1>8, <1>9, <2>6 DEF BatchInv, Models
<1>10. CASE ~WantsElements
  <2>1. NothingSent("yolox")
    BY <1>5, <1>10 DEF submit
  <2>2. CallsOf("yolox")' = {}
    BY <1>8, <1>10, <2>1 DEF BatchInv, Models, NothingSent
  <2>3. QED
    BY <1>5, <1>6, <1>7, <1>8, <1>10, <2>2 DEF BatchInv, Models
<1>11. QED
  BY <1>9, <1>10

\* So does the nemotron_parse walk.
LEMMA BatchParserPage ==
  ASSUME BatchInv, ParserPage
  PROVE  BatchInv' /\ CallsStay
<1> DEFINE ocr    == Append(pages_for_ocr, page_idx)
           tables == Append(pages_for_tables, page_idx)
           parse  == extract_task.text /\ Filled(ocr)
           detect == ElementsByModel /\ Filled(tables)
<1>1. /\ pdf_phase = "pages" /\ pdf_phase' = "pages" /\ ~Pdfium /\ page_idx < page_count
      /\ futures' = futures \o Submitted(parse, "parser", ocr) \o Submitted(detect, "yolox", tables)
      /\ pages_for_ocr' = IF parse THEN <<>> ELSE ocr
      /\ pages_for_tables' = IF detect THEN <<>> ELSE tables
      /\ page_idx' = page_idx + 1 /\ UNCHANGED <<extract_task, page_count>>
  BY DEF ParserPage, pdfJob
<1>2. /\ page_count \in Nat /\ page_idx \in Nat
      /\ pages_for_tables \in Seq(Nat) /\ pages_for_ocr \in Seq(Nat)
      /\ ocr \in Seq(Nat) /\ tables \in Seq(Nat)
      /\ \A f \in DOMAIN futures : futures[f].pages \in Seq(Nat)
  <2>1. /\ page_count \in Nat /\ page_idx \in Nat
        /\ pages_for_tables \in Seq(Nat) /\ pages_for_ocr \in Seq(Nat)
    BY DEF BatchInv, PdfTypes
  <2>2. ocr \in Seq(Nat) /\ tables \in Seq(Nat)
    BY <2>1, AppendProperties
  <2>3. QED
    BY <2>1, <2>2, CallTypes DEF BatchInv
<1>3. PICK R : futures \in Seq(Calls(R))
  BY DEF BatchInv, PdfTypes
<1>4. /\ ocr = Append(Waiting("parser"), page_idx) /\ tables = Append(Waiting("yolox"), page_idx)
      /\ Waiting("parser") = pages_for_ocr /\ Waiting("yolox") = pages_for_tables
      /\ Waiting("parser")' = pages_for_ocr' /\ Waiting("yolox")' = pages_for_tables'
  BY DEF Waiting
<1>5. /\ parse <=> Wanted("parser") /\ Filled(ocr)
      /\ detect <=> Wanted("yolox") /\ Filled(tables)
      /\ Wanted("parser")' <=> Wanted("parser")
      /\ Wanted("yolox")' <=> Wanted("yolox")
  BY <1>1 DEF Wanted, ElementsByModel, WantsElements, Pdfium
<1> HIDE DEF ocr, tables, parse, detect
<1>6. /\ futures' \in Seq(Calls(R \union {<<>>})) /\ CallsStay
      /\ IF parse THEN OneSent("parser", ocr) ELSE NothingSent("parser")
      /\ IF detect THEN OneSent("yolox", tables) ELSE NothingSent("yolox")
  <2>1. PICK c \in BOOLEAN, d \in BOOLEAN : (c <=> parse) /\ (d <=> detect)
    OBVIOUS
  <2>2. futures' = futures \o Submitted(c, "parser", ocr) \o Submitted(d, "yolox", tables)
    BY <1>1, <2>1 DEF Submitted
  <2>3. /\ futures' \in Seq(Calls(R \union {<<>>})) /\ CallsStay
        /\ IF c THEN OneSent("parser", ocr) ELSE NothingSent("parser")
        /\ IF d THEN OneSent("yolox", tables) ELSE NothingSent("yolox")
    BY <1>2, <1>3, <2>2, BothSending
  <2>4. QED
    BY <2>1, <2>3
<1>7. PdfTypes'
  <2>1. page_idx' \in 0..page_count'
    BY <1>1, <1>2
  <2>2. pages_for_tables' \in Seq(Nat) /\ pages_for_ocr' \in Seq(Nat)
    BY <1>1, <1>2
  <2>3. QED
    BY <1>1, <1>2, <1>6, <2>1, <2>2 DEF PdfTypes
<1>8. IF Wanted("parser") THEN Batches("parser")' ELSE CallsOf("parser")' = {}
  <2>1. CASE Wanted("parser")
    <3>1. \/ ~Filled(ocr) /\ Waiting("parser")' = ocr /\ NothingSent("parser")
          \/ Filled(ocr) /\ Waiting("parser")' = <<>> /\ OneSent("parser", ocr)
      BY <1>1, <1>4, <1>5, <1>6, <2>1
    <3>2. Batches("parser") /\ \A f \in CallsOf("parser") : futures[f].pages \in Seq(Nat)
      BY <1>2, <2>1 DEF BatchInv, Models, CallsOf
    <3>3. QED
      BY <1>1, <1>2, <1>4, <2>1, <3>1, <3>2, BatchesWalk
  <2>2. CASE ~Wanted("parser")
    BY <1>5, <1>6, <2>2 DEF BatchInv, Models, NothingSent
  <2>3. QED
    BY <2>1, <2>2
<1>9. IF Wanted("yolox") THEN Batches("yolox")' ELSE CallsOf("yolox")' = {}
  <2>1. CASE Wanted("yolox")
    <3>1. \/ ~Filled(tables) /\ Waiting("yolox")' = tables /\ NothingSent("yolox")
          \/ Filled(tables) /\ Waiting("yolox")' = <<>> /\ OneSent("yolox", tables)
      BY <1>1, <1>4, <1>5, <1>6, <2>1
    <3>2. Batches("yolox") /\ \A f \in CallsOf("yolox") : futures[f].pages \in Seq(Nat)
      BY <1>2, <2>1 DEF BatchInv, Models, CallsOf
    <3>3. QED
      BY <1>1, <1>2, <1>4, <2>1, <3>1, <3>2, BatchesWalk
  <2>2. CASE ~Wanted("yolox")
    BY <1>5, <1>6, <2>2 DEF BatchInv, Models, NothingSent
  <2>3. QED
    BY <2>1, <2>2
<1>10. QED
  BY <1>5, <1>6, <1>7, <1>8, <1>9 DEF BatchInv, Models

\* So do the batches that are left at the end of the walk.
LEMMA BatchLeftovers ==
  ASSUME BatchInv, Leftovers
  PROVE  BatchInv' /\ CallsStay
<1> DEFINE parse  == ~Pdfium /\ extract_task.text /\ pages_for_ocr # <<>>
           detect == ElementsByModel /\ pages_for_tables # <<>>
<1>1. /\ pdf_phase = "pages" /\ pdf_phase' = "collect" /\ page_idx = page_count
      /\ futures' = futures \o Submitted(parse, "parser", pages_for_ocr)
                            \o Submitted(detect, "yolox", pages_for_tables)
      /\ pages_for_ocr' = IF parse THEN <<>> ELSE pages_for_ocr
      /\ pages_for_tables' = IF detect THEN <<>> ELSE pages_for_tables
      /\ UNCHANGED <<extract_task, page_count, page_idx>>
  BY DEF Leftovers, pdfJob
<1>2. /\ page_count \in Nat /\ page_idx \in Nat
      /\ pages_for_tables \in Seq(Nat) /\ pages_for_ocr \in Seq(Nat)
      /\ \A f \in DOMAIN futures : futures[f].pages \in Seq(Nat)
  BY CallTypes DEF BatchInv, PdfTypes
<1>3. PICK R : futures \in Seq(Calls(R))
  BY DEF BatchInv, PdfTypes
<1>4. /\ Waiting("parser") = pages_for_ocr /\ Waiting("yolox") = pages_for_tables
      /\ Waiting("parser")' = pages_for_ocr' /\ Waiting("yolox")' = pages_for_tables'
  BY DEF Waiting
<1>5. /\ parse <=> Wanted("parser") /\ pages_for_ocr # <<>>
      /\ detect <=> Wanted("yolox") /\ pages_for_tables # <<>>
      /\ Wanted("parser")' <=> Wanted("parser")
      /\ Wanted("yolox")' <=> Wanted("yolox")
  BY <1>1 DEF Wanted, ElementsByModel, WantsElements, Pdfium
<1> HIDE DEF parse, detect
<1>6. /\ futures' \in Seq(Calls(R \union {<<>>})) /\ CallsStay
      /\ IF parse THEN OneSent("parser", pages_for_ocr) ELSE NothingSent("parser")
      /\ IF detect THEN OneSent("yolox", pages_for_tables) ELSE NothingSent("yolox")
  <2>1. PICK c \in BOOLEAN, d \in BOOLEAN : (c <=> parse) /\ (d <=> detect)
    OBVIOUS
  <2>2. futures' = futures \o Submitted(c, "parser", pages_for_ocr) \o Submitted(d, "yolox", pages_for_tables)
    BY <1>1, <2>1 DEF Submitted
  <2>3. /\ futures' \in Seq(Calls(R \union {<<>>})) /\ CallsStay
        /\ IF c THEN OneSent("parser", pages_for_ocr) ELSE NothingSent("parser")
        /\ IF d THEN OneSent("yolox", pages_for_tables) ELSE NothingSent("yolox")
    BY <1>2, <1>3, <2>2, BothSending
  <2>4. QED
    BY <2>1, <2>3
<1>7. PdfTypes'
  <2>1. pages_for_tables' \in Seq(Nat) /\ pages_for_ocr' \in Seq(Nat)
    BY <1>1, <1>2
  <2>2. QED
    BY <1>1, <1>2, <1>6, <2>1 DEF PdfTypes
<1>8. IF Wanted("parser") THEN Batches("parser")' ELSE CallsOf("parser")' = {}
  <2>1. CASE Wanted("parser")
    <3>1. /\ Waiting("parser")' = <<>>
          /\ \/ Waiting("parser") = <<>> /\ NothingSent("parser")
             \/ Waiting("parser") # <<>> /\ OneSent("parser", Waiting("parser"))
      BY <1>1, <1>4, <1>5, <1>6, <2>1
    <3>2. Batches("parser") /\ \A f \in CallsOf("parser") : futures[f].pages \in Seq(Nat)
      BY <1>2, <2>1 DEF BatchInv, Models, CallsOf
    <3>3. QED
      BY <1>1, <1>2, <1>4, <2>1, <3>1, <3>2, BatchesLeft
  <2>2. CASE ~Wanted("parser")
    BY <1>5, <1>6, <2>2 DEF BatchInv, Models, NothingSent
  <2>3. QED
    BY <2>1, <2>2
<1>9. IF Wanted("yolox") THEN Batches("yolox")' ELSE CallsOf("yolox")' = {}
  <2>1. CASE Wanted("yolox")
    <3>1. /\ Waiting("yolox")' = <<>>
          /\ \/ Waiting("yolox") = <<>> /\ NothingSent("yolox")
             \/ Waiting("yolox") # <<>> /\ OneSent("yolox", Waiting("yolox"))
      BY <1>1, <1>4, <1>5, <1>6, <2>1
    <3>2. Batches("yolox") /\ \A f \in CallsOf("yolox") : futures[f].pages \in Seq(Nat)
      BY <1>2, <2>1 DEF BatchInv, Models, CallsOf
    <3>3. QED
      BY <1>1, <1>2, <1>4, <2>1, <3>1, <3>2, BatchesLeft
  <2>2. CASE ~Wanted("yolox")
    BY <1>5, <1>6, <2>2 DEF BatchInv, Models, NothingSent
  <2>3. QED
    BY <2>1, <2>2
<1>10. QED
  BY <1>5, <1>6, <1>7, <1>8, <1>9 DEF BatchInv, Models

\* Any other step moves one call, or none.
LEMMA BatchCallMoves ==
  ASSUME BatchInv, NEW f \in DOMAIN futures,
         \/ ElementsAnswer(f) \/ ParserAnswers(f) \/ InferenceFails(f) \/ Collect(f)
  PROVE  BatchInv'
<1>1. PICK R : futures \in Seq(Calls(R))
  BY SMTT(40) DEF BatchInv, PdfTypes
<1>2. PICK x \in States :
        \/ futures' = [futures EXCEPT ![f].state = x]
        \/ \E rows : futures' = [futures EXCEPT ![f].state = x, ![f].rows = rows]
  <2>1. CASE ElementsAnswer(f)
    BY <2>1 DEF ElementsAnswer, States
  <2>2. CASE ParserAnswers(f)
    BY <2>2 DEF ParserAnswers, States
  <2>3. CASE InferenceFails(f)
    BY <2>3 DEF InferenceFails, States
  <2>4. CASE Collect(f)
    BY <2>4 DEF Collect, States
  <2>5. QED
    BY <2>1, <2>2, <2>3, <2>4
<1>3. (\E T : futures' \in Seq(Calls(T))) /\ \A m \in Models : NothingSent(m)
  BY <1>1, <1>2, StateMoves
<1>4. UNCHANGED <<pdfJob, page_idx, pagesWaiting, pdf_phase>>
  BY DEF ElementsAnswer, ParserAnswers, InferenceFails, Collect
<1>5. pdf_phase \in {"pages", "collect", "build", "leaving", "done", "raised"}
  BY DEF BatchInv, PdfTypes
<1>6. QED
  BY <1>3, <1>4, <1>5, BatchIdle

\* No other step makes a call.
LEMMA BatchOtherSteps ==
  ASSUME BatchInv,
         \/ \E f \in DOMAIN futures : CollectFailure(f)
         \/ AllCollected \/ Leave \/ BuildPage \/ BuildFails \/ Finish \/ PageFails
         \/ UNCHANGED pdfVars
  PROVE  BatchInv'
<1>1. /\ UNCHANGED <<pdfJob, page_idx, pagesWaiting, futures>>
      /\ pdf_phase' \in {"collect", "build", "leaving", "done", "raised", pdf_phase}
      /\ pdf_phase' \in {"collect", "build", "done"} => pdf_phase \in {"collect", "build", "done"}
  BY DEF CollectFailure, AllCollected, Leave, BuildPage, BuildFails, Finish, PageFails, pdfVars
<1>2. \A m \in Models : NothingSent(m)
  BY <1>1 DEF NothingSent, CallsOf
<1>3. (\E R : futures' \in Seq(Calls(R)))
      /\ pdf_phase \in {"pages", "collect", "build", "leaving", "done", "raised"}
  BY <1>1 DEF BatchInv, PdfTypes
<1>4. QED
  BY <1>1, <1>2, <1>3, BatchIdle

\* The batch facts are inductive.
LEMMA BatchNext == BatchInv /\ [PdfNext]_pdfVars => BatchInv'
<1> SUFFICES ASSUME BatchInv, [PdfNext]_pdfVars PROVE BatchInv'
  OBVIOUS
<1>1. CASE PdfiumPage \/ ParserPage \/ Leftovers
  BY <1>1, BatchPdfiumPage, BatchParserPage, BatchLeftovers
<1>2. CASE \E f \in DOMAIN futures :
             ElementsAnswer(f) \/ ParserAnswers(f) \/ InferenceFails(f) \/ Collect(f)
  BY <1>2, BatchCallMoves
<1>3. CASE \/ \E f \in DOMAIN futures : CollectFailure(f)
           \/ AllCollected \/ Leave \/ BuildPage \/ BuildFails \/ Finish \/ PageFails
           \/ UNCHANGED pdfVars
  BY <1>3, BatchOtherSteps
<1>4. QED
  BY <1>1, <1>2, <1>3 DEF PdfNext, MainThread, PoolThread

\* A model that the task wants has every page of the document once the walk is over, and has
\* each once: the full batches of the loop and the leftovers after it neither forget a page
\* nor send one again (pdfium.py, nemoretriever.py: the pages_for_* lists).
EveryPageSentOnce ==
  pdf_phase \in {"collect", "build", "done"} =>
    \A m \in Models : Wanted(m) =>
      \A p \in 0..page_count - 1 :
        \E f \in CallsOf(m) : \E i \in 1..Len(futures[f].pages) :
          /\ futures[f].pages[i] = p
          /\ \A g \in CallsOf(m) : \A j \in 1..Len(futures[g].pages) :
               futures[g].pages[j] = p => g = f /\ j = i

\* Whichever engine, options, number of pages and batch size, EveryPageSentOnce holds
\* (pdfium.py:472-560, nemoretriever.py:219-299).
THEOREM PagesSent == Extraction => []EveryPageSentOnce
<1>1. BatchInv => EveryPageSentOnce
  <2> SUFFICES ASSUME BatchInv, pdf_phase \in {"collect", "build", "done"},
                      NEW m \in Models, Wanted(m), NEW p \in 0..page_count - 1
               PROVE  \E f \in CallsOf(m) : \E i \in 1..Len(futures[f].pages) :
                        /\ futures[f].pages[i] = p
                        /\ \A g \in CallsOf(m) : \A j \in 1..Len(futures[g].pages) :
                             futures[g].pages[j] = p => g = f /\ j = i
    BY DEF EveryPageSentOnce
  <2>1. Batches(m) /\ \A f \in CallsOf(m) : futures[f].pages \in Seq(Nat)
    BY CallTypes DEF BatchInv, CallsOf
  <2>2. Waiting(m) = <<>> /\ page_idx = page_count /\ page_count \in Nat
    BY <2>1 DEF Batches, NoneWaits, BatchInv, PdfTypes
  <2>3. page_idx - Len(Waiting(m)) - 1 = page_count - 1
    BY <2>2
  <2>4. PICK f \in CallsOf(m) : \E i \in 1..Len(futures[f].pages) : futures[f].pages[i] = p
    BY <2>1, <2>3 DEF Batches, AllSent
  <2>5. PICK i \in 1..Len(futures[f].pages) : futures[f].pages[i] = p
    BY <2>4
  <2>6. ASSUME NEW g \in CallsOf(m), NEW j \in 1..Len(futures[g].pages), futures[g].pages[j] = p
        PROVE  g = f /\ j = i
    BY <2>1, <2>5, <2>6, OneBatchEach DEF Batches
  <2>7. QED
    BY <2>5, <2>6
<1>2. QED
  BY <1>1, BatchInitially, BatchNext, PTL DEF Extraction

-----------------------------------------------------------------------------
(* The text of the document. *)

\* What was read, in the order in which it will be written, and the calls it came from.
Text == accumulated_text \o parser_results
Read == {f \in CallsOf("parser") : futures[f].state = "collected"}

\* Only what was read, all of it, each page once, and a call's pages in their order.
FromCalls ==
  \A i \in 1..Len(Text) :
    \E f \in Read : \E a \in 1..Len(futures[f].pages) : futures[f].pages[a] = Text[i]
IntoText ==
  \A f \in Read : \A a \in 1..Len(futures[f].pages) :
    \E i \in 1..Len(Text) : Text[i] = futures[f].pages[a]
OnceInText == \A i, j \in 1..Len(Text) : Text[i] = Text[j] => i = j
CallsInOrder ==
  \A f \in Read : \A a, b \in 1..Len(futures[f].pages) : \A i, j \in 1..Len(Text) :
    a < b /\ Text[i] = futures[f].pages[a] /\ Text[j] = futures[f].pages[b] => i < j
ReadSoFar == FromCalls /\ IntoText /\ OnceInText /\ CallsInOrder

TextTypes == accumulated_text \in Seq(Nat) /\ parser_results \in Seq(Nat)
Walked == pdf_phase \in {"collect", "build", "done"} => page_idx = page_count
AllRead ==
  pdf_phase \in {"build", "done"} => \A f \in DOMAIN futures : futures[f].state = "collected"
Built == pdf_phase = "done" => parser_results = <<>>

\* pdfium reads its text as it walks; the other engine reads by calls.
WholeText == extract_task.text /\ TextDepth = "document"
PdfiumText ==
  Pdfium => /\ parser_results = <<>>
            /\ WholeText => /\ Len(accumulated_text) = page_idx
                            /\ \A i \in 1..page_idx : accumulated_text[i] = i - 1
ParserText == ~Pdfium /\ WholeText => ReadSoFar

TextInv ==
  BatchInv /\ TextTypes /\ Walked /\ AllRead /\ Built /\ PdfiumText /\ ParserText

\* Concatenation is associative.
LEMMA Associative ==
  \A s, t, u \in Seq(Nat) : (s \o t) \o u = s \o (t \o u)
BY ConcatAssociative, SMTT(40)

\* A page moves from the results to the text, and stays where it is in the two together.
LEMMA PageMoves ==
  ASSUME NEW s \in Seq(Nat), NEW t \in Seq(Nat), t # <<>>
  PROVE  Append(s, Head(t)) \o Tail(t) = s \o t
<1> DEFINE h == Head(t)
           r == Tail(t)
           one == <<h>>
<1>1. h \in Nat /\ r \in Seq(Nat) /\ one \in Seq(Nat)
  BY HeadTailProperties
<1>2. one \o r = t
  BY <1>1
<1>3. Append(s, h) = s \o one
  BY <1>1
<1> HIDE DEF h, r, one
<1>4. (s \o one) \o r = s \o t
  BY <1>1, <1>2, Associative
<1>5. QED
  BY <1>3, <1>4 DEF h, r

\* Before the extraction no text is gathered.
LEMMA TextInitially == PdfInit => TextInv
<1> SUFFICES ASSUME PdfInit PROVE TextInv
  OBVIOUS
<1>1. accumulated_text = <<>> /\ parser_results = <<>> /\ futures = <<>> /\ page_idx = 0
  BY DEF PdfInit
<1>2. Read = {} /\ Text = <<>> /\ Len(Text) = 0
  BY <1>1 DEF Read, CallsOf, Text
<1>3. ReadSoFar
  BY <1>2 DEF ReadSoFar, FromCalls, IntoText, OnceInText, CallsInOrder
<1>4. TextTypes /\ Walked /\ AllRead /\ Built /\ PdfiumText
  BY <1>1 DEF PdfInit, TextTypes, Walked, AllRead, Built, PdfiumText
<1>5. QED
  BY <1>3, <1>4, BatchInitially DEF TextInv, ParserText

\* Steps that read nothing more.
LEMMA TextStays ==
  ASSUME TextInv, UNCHANGED pdfJob, Text' = Text, Read' = Read,
         \A f \in Read : futures'[f].pages = futures[f].pages
  PROVE  ParserText'
<1> SUFFICES ASSUME (~Pdfium)', WholeText' PROVE ReadSoFar'
  BY DEF ParserText
<1>1. ReadSoFar
  BY DEF TextInv, ParserText, Pdfium, WholeText, TextDepth, pdfJob
<1>2. FromCalls' /\ IntoText'
  BY <1>1, SMTT(40) DEF ReadSoFar, FromCalls, IntoText
<1>3. OnceInText'
  BY <1>1 DEF ReadSoFar, OnceInText
<1>4. CallsInOrder'
  BY <1>1, SMTT(40) DEF ReadSoFar, CallsInOrder
<1>5. QED
  BY <1>2, <1>3, <1>4 DEF ReadSoFar

\* Calls that stay, and calls that are new, read nothing.
LEMMA NothingRead ==
  ASSUME CallsStay
  PROVE  Read' = Read /\ \A f \in Read : futures'[f].pages = futures[f].pages
<1>1. \A f \in Read : futures'[f] = futures[f] /\ f \in Read'
  BY DEF CallsStay, Read, CallsOf
<1>2. \A f \in Read' : f \in Read
  BY DEF CallsStay, Read, CallsOf
<1>3. QED
  BY <1>1, <1>2

\* The walk keeps the texts of the pages it has read.
LEMMA TextWalk ==
  ASSUME TextInv, PdfiumPage \/ ParserPage \/ Leftovers
  PROVE  TextInv'
<1>1. BatchInv' /\ CallsStay
  BY BatchPdfiumPage, BatchParserPage, BatchLeftovers DEF TextInv
<1>2. /\ pdf_phase = "pages" /\ pdf_phase' \in {"pages", "collect"} /\ UNCHANGED <<pdfJob, parser_results>>
      /\ pdf_phase' = "collect" => page_idx' = page_idx /\ page_idx = page_count
      /\ page_idx \in Nat /\ page_count \in Nat
  BY DEF PdfiumPage, ParserPage, Leftovers, TextInv, BatchInv, PdfTypes
<1>3. /\ ~Pdfium => UNCHANGED accumulated_text
      /\ Pdfium => \/ PdfiumPage
                   \/ UNCHANGED <<accumulated_text, page_idx>>
  BY DEF PdfiumPage, ParserPage, Leftovers
<1>4. /\ Append(accumulated_text, page_idx) \in Seq(Nat)
      /\ Len(Append(accumulated_text, page_idx)) = Len(accumulated_text) + 1
      /\ \A i \in 1..Len(accumulated_text) : Append(accumulated_text, page_idx)[i] = accumulated_text[i]
      /\ Append(accumulated_text, page_idx)[Len(accumulated_text) + 1] = page_idx
  BY <1>2, AppendProperties DEF TextInv, TextTypes
<1>5. TextTypes'
  BY <1>2, <1>3, <1>4 DEF PdfiumPage, TextInv, TextTypes
<1>6. Walked' /\ AllRead' /\ Built'
  BY <1>2 DEF Walked, AllRead, Built, pdfJob
<1>7. PdfiumText'
  <2> SUFFICES ASSUME Pdfium' PROVE PdfiumText'
    BY DEF PdfiumText
  <2>1. Pdfium /\ (WholeText' <=> WholeText)
    BY <1>2 DEF Pdfium, WholeText, TextDepth, pdfJob
  <2>2. parser_results' = <<>>
    BY <1>2, <2>1 DEF TextInv, PdfiumText
  <2>3. CASE UNCHANGED <<accumulated_text, page_idx>>
    BY <2>1, <2>2, <2>3 DEF TextInv, PdfiumText
  <2>4. CASE PdfiumPage /\ WholeText
    <3>1. accumulated_text' = Append(accumulated_text, page_idx) /\ page_idx' = page_idx + 1
      BY <2>4 DEF PdfiumPage, WholeText
    <3>2. Len(accumulated_text) = page_idx /\ \A i \in 1..page_idx : accumulated_text[i] = i - 1
      BY <2>1, <2>4 DEF TextInv, PdfiumText
    <3>3. ASSUME NEW i \in 1..page_idx + 1 PROVE accumulated_text'[i] = i - 1
      <4>1. i \in 1..page_idx \/ i = page_idx + 1
        BY <1>2
      <4>2. QED
        BY <1>2, <1>4, <3>1, <3>2, <4>1
    <3>4. QED
      BY <1>2, <1>4, <2>2, <3>1, <3>2, <3>3 DEF PdfiumText
  <2>5. QED
    BY <1>3, <2>1, <2>2, <2>3, <2>4 DEF PdfiumText
<1>8. ParserText'
  <2>1. CASE Pdfium
    BY <1>2, <2>1 DEF ParserText, Pdfium, pdfJob
  <2>2. CASE ~Pdfium
    <3>1. Text' = Text
      BY <1>2, <1>3, <2>2 DEF Text
    <3>2. QED
      BY <1>1, <1>2, <3>1, NothingRead, TextStays
  <2>3. QED
    BY <2>1, <2>2
<1>9. QED
  BY <1>1, <1>5, <1>6, <1>7, <1>8 DEF TextInv

\* A call that answers or fails was not read and is not read.
LEMMA TextAnswers ==
  ASSUME TextInv, NEW f \in DOMAIN futures,
         ElementsAnswer(f) \/ ParserAnswers(f) \/ InferenceFails(f)
  PROVE  TextInv'
<1>1. BatchInv'
  BY BatchCallMoves DEF TextInv
<1>2. PICK R : futures \in Seq(Calls(R))
  BY DEF TextInv, BatchInv, PdfTypes
<1>3. /\ UNCHANGED <<pdfJob, page_idx, accumulated_text, parser_results, pdf_phase>>
      /\ futures[f].state # "collected"
  BY DEF ElementsAnswer, ParserAnswers, InferenceFails, Running, Over
<1>4. PICK x \in States \ {"collected"} :
        \/ futures' = [futures EXCEPT ![f].state = x]
        \/ \E rows : futures' = [futures EXCEPT ![f].state = x, ![f].rows = rows]
  <2>1. CASE ElementsAnswer(f)
    BY <2>1 DEF ElementsAnswer, States
  <2>2. CASE ParserAnswers(f)
    BY <2>2 DEF ParserAnswers, States
  <2>3. CASE InferenceFails(f)
    BY <2>3 DEF InferenceFails, States
  <2>4. QED
    BY <2>1, <2>2, <2>3
<1>5. /\ DOMAIN futures' = DOMAIN futures
      /\ \A g \in DOMAIN futures :
           /\ futures'[g].model = futures[g].model /\ futures'[g].pages = futures[g].pages
           /\ futures'[g].state = IF g = f THEN x ELSE futures[g].state
  BY <1>2, <1>4, StateMoves
<1>6. Read' = Read /\ \A g \in Read : futures'[g].pages = futures[g].pages
  <2>1. \A g \in DOMAIN futures :
          futures'[g].state = "collected" <=> futures[g].state = "collected"
    BY <1>3, <1>4, <1>5
  <2>2. \A g : g \in Read' <=> g \in Read
    BY <1>5, <2>1 DEF Read, CallsOf
  <2>3. QED
    BY <1>5, <2>2 DEF Read, CallsOf
<1>7. ParserText'
  BY <1>3, <1>6, TextStays DEF Text
<1>8. pdf_phase \notin {"build", "done"}
  BY <1>3 DEF TextInv, AllRead
<1>9. TextTypes' /\ Walked' /\ AllRead' /\ Built' /\ PdfiumText'
  BY <1>3, <1>8 DEF TextInv, TextTypes, Walked, AllRead, Built, PdfiumText, Pdfium, WholeText,
                    TextDepth, pdfJob
<1>10. QED
  BY <1>1, <1>7, <1>9 DEF TextInv

\* The pages of a call are appended when it is read.
LEMMA TextReads ==
  ASSUME TextInv, ReadSoFar, NEW f \in CallsOf("parser"), f \notin Read, Wanted("parser"),
         Read' = Read \union {f}, \A g \in Read' : futures'[g].pages = futures[g].pages,
         Text' = Text \o futures[f].pages
  PROVE  ReadSoFar'
<1> DEFINE s == futures[f].pages
           n == Len(Text)
<1>1. Text \in Seq(Nat) /\ s \in Seq(Nat) /\ n \in Nat /\ Len(s) \in Nat
  BY CallTypes, ConcatProperties DEF TextInv, TextTypes, BatchInv, CallsOf, Text
<1>2. /\ Len(Text') = n + Len(s)
      /\ \A i \in 1..n + Len(s) : Text'[i] = IF i <= n THEN Text[i] ELSE s[i - n]
  BY <1>1, ConcatProperties
<1>3. /\ \A i \in 1..n : i \in 1..n + Len(s) /\ Text'[i] = Text[i]
      /\ \A a \in 1..Len(s) : n + a \in 1..n + Len(s) /\ Text'[n + a] = s[a]
      /\ \A i \in 1..n + Len(s) : i \in 1..n \/ \E a \in 1..Len(s) : i = n + a
  <2>1. ASSUME NEW a \in 1..Len(s) PROVE n + a \in 1..n + Len(s) /\ Text'[n + a] = s[a]
    <3>1. n + a \in 1..n + Len(s) /\ ~(n + a <= n) /\ (n + a) - n = a
      BY <1>1
    <3>2. QED
      BY <1>2, <3>1
  <2>2. ASSUME NEW i \in 1..n + Len(s) PROVE i \in 1..n \/ \E a \in 1..Len(s) : i = n + a
    <3>1. i \in 1..n \/ (i - n \in 1..Len(s) /\ i = n + (i - n))
      BY <1>1
    <3>2. QED
      BY <3>1
  <2>3. \A i \in 1..n : i \in 1..n + Len(s) /\ Text'[i] = Text[i]
    BY <1>1, <1>2
  <2>4. QED
    BY <2>1, <2>2, <2>3
<1>4. \A g \in CallsOf("parser") : futures[g].pages \in Seq(Nat)
  BY CallTypes DEF TextInv, BatchInv, CallsOf
<1>5. OwnBatch("parser")
  BY DEF TextInv, BatchInv, Batches, Models
<1>6. ASSUME NEW i \in 1..n, NEW a \in 1..Len(s) PROVE Text[i] # s[a]
  <2>1. PICK g \in Read : \E b \in 1..Len(futures[g].pages) : futures[g].pages[b] = Text[i]
    BY DEF ReadSoFar, FromCalls
  <2>2. PICK b \in 1..Len(futures[g].pages) : futures[g].pages[b] = Text[i]
    BY <2>1
  <2>3. g \in CallsOf("parser") /\ g # f
    BY DEF Read
  <2>4. QED
    BY <1>4, <1>5, <2>2, <2>3, OneBatchEach, SMTT(40)
<1>7. \A a, b \in 1..Len(s) : s[a] = s[b] => a = b
  BY <1>4, <1>5, OneBatchEach
<1>8. \A g \in Read : g \in Read' /\ futures'[g].pages = futures[g].pages
  OBVIOUS
<1>9. f \in Read' /\ futures'[f].pages = s
  OBVIOUS
<1> HIDE DEF s, n
<1>10. FromCalls'
  <2> SUFFICES ASSUME NEW i \in 1..n + Len(s)
               PROVE  \E g \in Read' : \E a \in 1..Len(futures'[g].pages) :
                        futures'[g].pages[a] = Text'[i]
    BY <1>2 DEF FromCalls
  <2>1. CASE i \in 1..n
    <3>1. PICK g \in Read : \E a \in 1..Len(futures[g].pages) : futures[g].pages[a] = Text[i]
      BY <2>1 DEF ReadSoFar, FromCalls, n
    <3>2. g \in Read' /\ futures'[g].pages = futures[g].pages /\ Text'[i] = Text[i]
      BY <1>3, <1>8, <2>1
    <3>3. QED
      BY <3>1, <3>2
  <2>2. CASE \E a \in 1..Len(s) : i = n + a
    <3>1. PICK a \in 1..Len(s) : i = n + a
      BY <2>2
    <3>2. Text'[i] = s[a]
      BY <1>3, <3>1
    <3>3. QED
      BY <1>9, <3>2
  <2>3. QED
    BY <1>3, <2>1, <2>2
<1>11. IntoText'
  <2> SUFFICES ASSUME NEW g \in Read', NEW a \in 1..Len(futures'[g].pages)
               PROVE  \E i \in 1..n + Len(s) : Text'[i] = futures'[g].pages[a]
    BY <1>2, SMTT(40) DEF IntoText
  <2>1. CASE g \in Read
    BY <1>3, <1>8, <2>1, SMTT(40) DEF ReadSoFar, IntoText, n
  <2>2. CASE g = f
    BY <1>3, <1>9, <2>2
  <2>3. QED
    BY <2>1, <2>2
<1>12. OnceInText'
  <2> SUFFICES ASSUME NEW i \in 1..n + Len(s), NEW j \in 1..n + Len(s), Text'[i] = Text'[j]
               PROVE  i = j
    BY <1>2 DEF OnceInText
  <2>1. CASE i \in 1..n /\ j \in 1..n
    BY <1>3, <2>1 DEF ReadSoFar, OnceInText, n
  <2>2. ASSUME i \in 1..n, NEW a \in 1..Len(s), j = n + a PROVE FALSE
    <3>1. Text'[i] = Text[i] /\ Text'[n + a] = s[a]
      BY <1>3, <2>2
    <3>2. Text[i] = s[a]
      BY <2>2, <3>1
    <3>3. QED
      BY <1>6, <2>2, <3>2
  <2>3. ASSUME j \in 1..n, NEW a \in 1..Len(s), i = n + a PROVE FALSE
    <3>1. Text'[j] = Text[j] /\ Text'[n + a] = s[a]
      BY <1>3, <2>3
    <3>2. Text[j] = s[a]
      BY <2>3, <3>1
    <3>3. QED
      BY <1>6, <2>3, <3>2
  <2>4. ASSUME NEW a \in 1..Len(s), NEW b \in 1..Len(s), i = n + a, j = n + b PROVE i = j
    <3>1. Text'[n + a] = s[a] /\ Text'[n + b] = s[b]
      BY <1>3
    <3>2. s[a] = s[b]
      BY <2>4, <3>1
    <3>3. QED
      BY <1>7, <2>4, <3>2
  <2>5. QED
    BY <1>3, <2>1, <2>2, <2>3, <2>4
<1>13. CallsInOrder'
  <2> SUFFICES ASSUME NEW g \in Read', NEW a \in 1..Len(futures'[g].pages),
                      NEW b \in 1..Len(futures'[g].pages),
                      NEW i \in 1..n + Len(s), NEW j \in 1..n + Len(s),
                      a < b, Text'[i] = futures'[g].pages[a], Text'[j] = futures'[g].pages[b]
               PROVE  i < j
    BY <1>2 DEF CallsInOrder
  <2>1. CASE g \in Read
    <3>1. PICK k \in 1..n, l \in 1..n : Text[k] = futures[g].pages[a] /\ Text[l] = futures[g].pages[b]
      BY <1>8, <2>1 DEF ReadSoFar, IntoText, n
    <3>2. k < l
      <4>1. a \in 1..Len(futures[g].pages) /\ b \in 1..Len(futures[g].pages)
        BY <1>8, <2>1
      <4>2. CallsInOrder
        BY DEF ReadSoFar
      <4>3. QED
        BY <2>1, <3>1, <4>1, <4>2 DEF CallsInOrder, n
    <3>3. /\ k \in 1..n + Len(s) /\ l \in 1..n + Len(s)
          /\ Text'[k] = Text'[i] /\ Text'[l] = Text'[j]
      BY <1>3, <1>8, <2>1, <3>1
    <3>4. i = k /\ j = l
      BY <1>2, <1>12, <3>3 DEF OnceInText
    <3>5. QED
      BY <3>2, <3>4
  <2>2. CASE g = f
    <3>1. Text'[n + a] = s[a] /\ Text'[n + b] = s[b] /\ n + a \in 1..n + Len(s) /\ n + b \in 1..n + Len(s)
      BY <1>3, <1>9, <2>2
    <3>2. Text'[i] = Text'[n + a] /\ Text'[j] = Text'[n + b]
      BY <1>9, <2>2, <3>1
    <3>3. i = n + a /\ j = n + b
      BY <1>2, <1>12, <3>1, <3>2 DEF OnceInText
    <3>4. a \in Nat /\ b \in Nat
      BY <1>1, <1>9, <2>2
    <3>5. QED
      BY <1>1, <3>3, <3>4 DEF n
  <2>3. QED
    BY <2>1, <2>2
<1>14. QED
  BY <1>10, <1>11, <1>12, <1>13 DEF ReadSoFar

\* An answer adds the texts of its own pages.
LEMMA TextCollects ==
  ASSUME TextInv, NEW f \in DOMAIN futures, Collect(f)
  PROVE  TextInv'
<1>1. BatchInv'
  BY BatchCallMoves DEF TextInv
<1>2. PICK R : futures \in Seq(Calls(R))
  BY DEF TextInv, BatchInv, PdfTypes
<1>3. /\ pdf_phase = "collect" /\ futures[f].state = "answered"
      /\ futures' = [futures EXCEPT ![f].state = "collected"]
      /\ UNCHANGED <<pdfJob, page_idx, accumulated_text, pdf_phase>>
      /\ IF futures[f].model = "yolox" THEN UNCHANGED parser_results
                                       ELSE parser_results' = parser_results \o futures[f].pages
  BY DEF Collect
<1>4. /\ DOMAIN futures' = DOMAIN futures
      /\ \A g \in DOMAIN futures :
           /\ futures'[g].model = futures[g].model /\ futures'[g].pages = futures[g].pages
           /\ futures'[g].state = IF g = f THEN "collected" ELSE futures[g].state
  BY <1>2, <1>3, StateMoves DEF States
<1>5. futures[f].pages \in Seq(Nat) /\ futures[f].model \in Models
  BY CallTypes DEF TextInv, BatchInv
<1>6. Walked' /\ AllRead' /\ Built'
  BY <1>3 DEF TextInv, Walked, AllRead, Built, pdfJob
<1>7. CASE futures[f].model = "yolox"
  <2>1. Read' = Read /\ \A g \in Read : futures'[g].pages = futures[g].pages
    <3>1. \A g : g \in Read' <=> g \in Read
      BY <1>4, <1>7 DEF Read, CallsOf
    <3>2. QED
      BY <1>4, <3>1 DEF Read, CallsOf
  <2>2. ParserText'
    BY <1>3, <1>7, <2>1, TextStays DEF Text
  <2>3. TextTypes' /\ PdfiumText'
    BY <1>3, <1>7 DEF TextInv, TextTypes, PdfiumText, Pdfium, WholeText, TextDepth, pdfJob
  <2>4. QED
    BY <1>1, <1>6, <2>2, <2>3 DEF TextInv
<1>8. CASE futures[f].model = "parser"
  <2>1. f \in CallsOf("parser") /\ f \notin Read /\ Wanted("parser")
    BY <1>3, <1>8 DEF CallsOf, Read, TextInv, BatchInv, Models
  <2>2. ~Pdfium /\ ~Pdfium' /\ (WholeText' <=> WholeText)
    BY <1>3, <2>1 DEF Wanted, Pdfium, WholeText, TextDepth, pdfJob
  <2>3. parser_results' = parser_results \o futures[f].pages /\ accumulated_text' = accumulated_text
    BY <1>3, <1>8
  <2>4. TextTypes' /\ Text' = Text \o futures[f].pages
    <3>1. accumulated_text \in Seq(Nat) /\ parser_results \in Seq(Nat)
      BY DEF TextInv, TextTypes
    <3>2. parser_results \o futures[f].pages \in Seq(Nat)
      BY <1>5, <3>1, ConcatProperties
    <3>3. QED
      BY <1>5, <2>3, <3>1, <3>2, Associative DEF TextTypes, Text
  <2>5. Read' = Read \union {f} /\ \A g \in Read' : futures'[g].pages = futures[g].pages
    <3>1. \A g : g \in Read' <=> g \in Read \/ g = f
      BY <1>4, <1>8 DEF Read, CallsOf
    <3>2. QED
      BY <1>4, <3>1 DEF Read, CallsOf
  <2>6. ParserText'
    BY <2>1, <2>2, <2>4, <2>5, TextReads DEF TextInv, ParserText
  <2>7. QED
    BY <1>1, <1>6, <2>2, <2>4, <2>6 DEF TextInv, PdfiumText
<1>9. QED
  BY <1>5, <1>7, <1>8 DEF Models

\* No other step adds a text.
LEMMA TextOtherSteps ==
  ASSUME TextInv,
         \/ \E f \in DOMAIN futures : CollectFailure(f)
         \/ AllCollected \/ Leave \/ BuildPage \/ BuildFails \/ Finish \/ PageFails
         \/ UNCHANGED pdfVars
  PROVE  TextInv'
<1>1. BatchInv'
  BY BatchOtherSteps DEF TextInv
<1>2. UNCHANGED <<pdfJob, page_idx, futures>>
  BY DEF CollectFailure, AllCollected, Leave, BuildPage, BuildFails, Finish, PageFails, pdfVars
<1>3. Read' = Read /\ \A f \in Read : futures'[f].pages = futures[f].pages
  BY <1>2 DEF Read, CallsOf
<1>4. CASE BuildPage
  <2>1. /\ pdf_phase = "build" /\ pdf_phase' = "build" /\ parser_results # <<>>
        /\ parser_results' = Tail(parser_results)
        /\ accumulated_text' = IF TextDepth = "page" THEN <<>>
                               ELSE Append(accumulated_text, Head(parser_results))
    BY <1>4 DEF BuildPage
  <2>2. TextTypes'
    BY <2>1, HeadTailProperties, AppendProperties DEF TextInv, TextTypes
  <2>3. Walked' /\ AllRead' /\ Built'
    BY <1>2, <2>1 DEF TextInv, Walked, AllRead, Built, pdfJob
  <2>4. ~Pdfium /\ ~Pdfium' /\ (WholeText' <=> WholeText)
    BY <1>2, <2>1 DEF TextInv, PdfiumText, Pdfium, WholeText, TextDepth, pdfJob
  <2>5. ParserText'
    <3>1. CASE WholeText
      <4>1. Text' = Text
        BY <2>1, <3>1, PageMoves DEF TextInv, TextTypes, Text, WholeText
      <4>2. QED
        BY <1>2, <1>3, <4>1, TextStays
    <3>2. CASE ~WholeText
      BY <2>4, <3>2 DEF ParserText
    <3>3. QED
      BY <3>1, <3>2
  <2>6. QED
    BY <1>1, <2>2, <2>3, <2>4, <2>5 DEF TextInv, PdfiumText
<1>5. CASE ~BuildPage
  <2>1. UNCHANGED <<accumulated_text, parser_results>>
    BY <1>5 DEF CollectFailure, AllCollected, Leave, BuildFails, Finish, PageFails, pdfVars
  <2>2. ParserText'
    BY <1>2, <1>3, <2>1, TextStays DEF Text
  <2>3. TextTypes' /\ PdfiumText'
    BY <1>2, <2>1 DEF TextInv, TextTypes, PdfiumText, Pdfium, WholeText, TextDepth, pdfJob
  <2>4. Walked' /\ AllRead' /\ Built'
    <3>1. CASE \E f \in DOMAIN futures : CollectFailure(f)
      BY <3>1 DEF CollectFailure, Walked, AllRead, Built
    <3>2. CASE Leave \/ BuildFails \/ PageFails
      BY <3>2 DEF Leave, BuildFails, PageFails, Walked, AllRead, Built
    <3>3. CASE AllCollected
      BY <3>3 DEF AllCollected, TextInv, Walked, AllRead, Built, pdfJob
    <3>4. CASE Finish
      BY <3>4 DEF Finish, TextInv, Walked, AllRead, Built, pdfJob
    <3>5. CASE UNCHANGED pdfVars
      BY <3>5 DEF pdfVars, pdfJob, TextInv, Walked, AllRead, Built
    <3>6. QED
      BY <1>5, <3>1, <3>2, <3>3, <3>4, <3>5
  <2>5. QED
    BY <1>1, <2>2, <2>3, <2>4 DEF TextInv
<1>6. QED
  BY <1>4, <1>5

\* The text facts are inductive.
LEMMA TextNext == TextInv /\ [PdfNext]_pdfVars => TextInv'
<1> SUFFICES ASSUME TextInv, [PdfNext]_pdfVars PROVE TextInv'
  OBVIOUS
<1>1. CASE PdfiumPage \/ ParserPage \/ Leftovers
  BY <1>1, TextWalk
<1>2. CASE \E f \in DOMAIN futures : ElementsAnswer(f) \/ ParserAnswers(f) \/ InferenceFails(f)
  BY <1>2, TextAnswers
<1>3. CASE \E f \in DOMAIN futures : Collect(f)
  BY <1>3, TextCollects
<1>4. CASE \/ \E f \in DOMAIN futures : CollectFailure(f)
           \/ AllCollected \/ Leave \/ BuildPage \/ BuildFails \/ Finish \/ PageFails
           \/ UNCHANGED pdfVars
  BY <1>4, TextOtherSteps
<1>5. QED
  BY <1>1, <1>2, <1>3, <1>4 DEF PdfNext, MainThread, PoolThread

\* A sequence that lists the pages up to n, each once, has n of them.
LEMMA EachOnce ==
  ASSUME NEW n \in Nat, NEW s \in Seq(Nat),
         \A i \in 1..Len(s) : s[i] \in 0..n - 1,
         \A p \in 0..n - 1 : \E i \in 1..Len(s) : s[i] = p,
         \A i, j \in 1..Len(s) : s[i] = s[j] => i = j
  PROVE  Len(s) = n /\ Range(s) = 0..n - 1
<1>1. Len(s) \in Nat /\ DOMAIN s = 1..Len(s) /\ s \in [1..Len(s) -> 0..n - 1]
  BY LenProperties
<1>2. s \in Bijection(1..Len(s), 0..n - 1)
  BY <1>1 DEF Bijection, Injection, Surjection, IsInjective
<1>3. ExistsBijection(1..Len(s), 0..n - 1)
  BY <1>2 DEF ExistsBijection
<1>4. /\ IsFiniteSet(1..Len(s)) /\ Cardinality(1..Len(s)) = Len(s)
      /\ Cardinality(0..n - 1) = n
  <2>1. /\ IsFiniteSet(1..Len(s)) /\ Cardinality(1..Len(s)) = IF 1 > Len(s) THEN 0 ELSE Len(s) - 1 + 1
        /\ Cardinality(0..n - 1) = IF 0 > n - 1 THEN 0 ELSE (n - 1) - 0 + 1
    BY <1>1, FS_Interval, SMTT(40)
  <2>2. QED
    BY <1>1, <2>1
<1>5. Len(s) = n
  BY <1>3, <1>4, FS_Bijection
<1>6. Range(s) = {s[i] : i \in 1..Len(s)}
  BY <1>1 DEF Range
<1>7. QED
  BY <1>5, <1>6

\* Two pages of one batch were read by one call, in their order.
LEMMA ReadInOrder ==
  ASSUME TextInv, ReadSoFar, Wanted("parser"), NEW i \in 1..Len(Text), NEW j \in 1..Len(Text),
         Text[i] < Text[j], Text[i] \div BatchSize = Text[j] \div BatchSize
  PROVE  i < j
<1>1. PICK f \in Read : \E a \in 1..Len(futures[f].pages) : futures[f].pages[a] = Text[i]
  BY DEF ReadSoFar, FromCalls
<1>2. PICK a \in 1..Len(futures[f].pages) : futures[f].pages[a] = Text[i]
  BY <1>1
<1>3. PICK g \in Read : \E b \in 1..Len(futures[g].pages) : futures[g].pages[b] = Text[j]
  BY DEF ReadSoFar, FromCalls
<1>4. PICK b \in 1..Len(futures[g].pages) : futures[g].pages[b] = Text[j]
  BY <1>3
<1>5. f \in CallsOf("parser") /\ g \in CallsOf("parser") /\ OwnBatch("parser")
  BY DEF Read, TextInv, BatchInv, Batches, Models
<1>6. PICK k \in Nat : Run(futures[f].pages, k) /\ Len(futures[f].pages) \in 1..BatchSize
  BY <1>5 DEF OwnBatch
<1>7. PICK l \in Nat : Run(futures[g].pages, l) /\ Len(futures[g].pages) \in 1..BatchSize
  BY <1>5 DEF OwnBatch
<1>8. BatchSize \in Nat \ {0} /\ a \in 1..BatchSize /\ b \in 1..BatchSize
  BY <1>2, <1>4, <1>6, <1>7, PdfAssumption, SMTT(40)
<1>9. Text[i] = BatchSize * k + a - 1 /\ Text[j] = BatchSize * l + b - 1
  BY <1>2, <1>4, <1>6, <1>7 DEF Run
<1>10. k = l
  <2>1. (BatchSize * k + a - 1) \div BatchSize = k /\ (BatchSize * l + b - 1) \div BatchSize = l
    BY <1>8, BatchNumber
  <2>2. QED
    BY <1>9, <2>1
<1>11. a < b
  <2>1. BatchSize * k \in Nat
    BY ProductNatural
  <2> DEFINE x == BatchSize * k
  <2>2. Text[i] = x + a - 1 /\ Text[j] = x + b - 1 /\ x \in Nat
    BY <1>9, <1>10, <2>1
  <2> HIDE DEF x
  <2>3. QED
    BY <1>8, <2>2
<1>12. f = g
  <2>1. 1 \in 1..Len(futures[f].pages) /\ 1 \in 1..Len(futures[g].pages)
    BY <1>6, <1>7
  <2>2. futures[f].pages[1] = futures[g].pages[1]
    BY <1>6, <1>7, <1>10, <2>1 DEF Run
  <2>3. QED
    BY <1>5, <2>2 DEF OwnBatch
<1>13. QED
  BY <1>2, <1>4, <1>11, <1>12 DEF ReadSoFar, CallsInOrder

\* What is known of the text when the engine is done.
TextListed ==
  LET s == accumulated_text
  IN  /\ s \in Seq(Nat)
      /\ \A i \in 1..Len(s) : s[i] \in 0..page_count - 1
      /\ \A p \in 0..page_count - 1 : \E i \in 1..Len(s) : s[i] = p
      /\ \A i, j \in 1..Len(s) : s[i] = s[j] => i = j
      /\ \A i, j \in 1..Len(s) :
           s[i] < s[j] /\ (Pdfium \/ s[i] \div BatchSize = s[j] \div BatchSize) => i < j

\* The text row of a whole document lists its pages in order.
LEMMA TextIsListed ==
  ASSUME TextInv, pdf_phase = "done", WholeText
  PROVE  TextListed
<1> DEFINE s == accumulated_text
           n == page_count
<1>1. /\ s \in Seq(Nat) /\ parser_results = <<>> /\ page_idx = n /\ n \in Nat
      /\ \A f \in DOMAIN futures : futures[f].state = "collected"
  BY DEF TextInv, TextTypes, Built, Walked, AllRead, BatchInv, PdfTypes
<1>2. CASE Pdfium
  <2>1. Len(s) = n /\ \A i \in 1..n : s[i] = i - 1
    BY <1>1, <1>2 DEF TextInv, PdfiumText
  <2> HIDE DEF s, n
  <2>2. ASSUME NEW p \in 0..n - 1 PROVE \E i \in 1..Len(s) : s[i] = p
    <3>1. p + 1 \in 1..n /\ (p + 1) - 1 = p
      BY <1>1
    <3>2. s[p + 1] = p
      BY <2>1, <3>1
    <3>3. QED
      BY <2>1, <3>1, <3>2
  <2>3. \A i \in 1..n : s[i] \in 0..n - 1
    BY <1>1, <2>1
  <2>4. \A i, j \in 1..n : (s[i] = s[j] => i = j) /\ (s[i] < s[j] => i < j)
    BY <1>1, <2>1
  <2>5. QED
    BY <1>1, <2>1, <2>2, <2>3, <2>4 DEF TextListed, s, n
<1>3. CASE ~Pdfium
  <2>1. Wanted("parser") /\ Batches("parser") /\ ReadSoFar
    BY <1>3 DEF Wanted, WholeText, TextInv, BatchInv, Models, ParserText
  <2>2. Text = s /\ Read = CallsOf("parser")
    BY <1>1, ConcatEmptySeq DEF Text, Read, CallsOf
  <2>3. ASSUME NEW i \in 1..Len(s) PROVE s[i] \in 0..n - 1
    <3>1. PICK f \in CallsOf("parser") : \E a \in 1..Len(futures[f].pages) : futures[f].pages[a] = s[i]
      BY <2>1, <2>2 DEF ReadSoFar, FromCalls
    <3>2. PICK a \in 1..Len(futures[f].pages) : futures[f].pages[a] = s[i]
      BY <3>1
    <3>3. PICK k \in Nat : /\ Run(futures[f].pages, k)
                           /\ Len(futures[f].pages) \in 1..BatchSize
                           /\ BatchSize * k + Len(futures[f].pages) <= page_idx - Len(Waiting("parser"))
      BY <2>1 DEF Batches, OwnBatch
    <3>4. Waiting("parser") = <<>>
      BY <2>1 DEF Batches, NoneWaits
    <3>5. s[i] = BatchSize * k + a - 1
      BY <3>2, <3>3 DEF Run
    <3> DEFINE x == BatchSize * k
               m == Len(futures[f].pages)
    <3>6. x \in Nat /\ BatchSize \in Nat
      BY ProductNatural, PdfAssumption
    <3>7. m \in Nat /\ a \in 1..m /\ x + m <= n /\ s[i] = x + a - 1
      <4>1. m \in Nat /\ a \in 1..m
        BY <3>2, <3>3, <3>6
      <4>2. Len(Waiting("parser")) = 0
        BY <3>4
      <4>3. x + m <= page_idx - 0
        BY <3>3, <4>2
      <4>4. QED
        BY <1>1, <3>5, <4>1, <4>3
    <3> HIDE DEF x, m
    <3>8. QED
      BY <1>1, <3>6, <3>7
  <2>4. ASSUME NEW p \in 0..n - 1 PROVE \E i \in 1..Len(s) : s[i] = p
    <3>1. Waiting("parser") = <<>>
      BY <2>1 DEF Batches, NoneWaits
    <3>2. p \in 0..page_idx - Len(Waiting("parser")) - 1
      BY <1>1, <3>1
    <3>3. PICK f \in CallsOf("parser") : \E a \in 1..Len(futures[f].pages) : futures[f].pages[a] = p
      BY <2>1, <3>2 DEF Batches, AllSent
    <3>4. QED
      BY <2>1, <2>2, <3>3 DEF ReadSoFar, IntoText
  <2>5. \A i, j \in 1..Len(s) : s[i] = s[j] => i = j
    BY <2>1, <2>2 DEF ReadSoFar, OnceInText
  <2>6. ASSUME NEW i \in 1..Len(s), NEW j \in 1..Len(s),
               s[i] < s[j], s[i] \div BatchSize = s[j] \div BatchSize
        PROVE  i < j
    BY <2>1, <2>2, <2>6, ReadInOrder
  <2>7. QED
    BY <1>1, <1>3, <2>3, <2>4, <2>5, <2>6 DEF TextListed
<1>4. QED
  BY <1>2, <1>3

\* Batches end in any order and pages are read by several threads, yet a document's text has
\* every page once, a batch's pages in order (pdfium.py, nemoretriever.py).
THEOREM TextKept == Extraction => []TextWhole
<1>1. TextInv => TextWhole
  <2> SUFFICES ASSUME TextInv, pdf_phase = "done", extract_task.text, TextDepth = "document"
               PROVE  TextWhole
    BY DEF TextWhole
  <2> DEFINE s == accumulated_text
             n == page_count
             place(p) == CHOOSE i \in DOMAIN s : s[i] = p
  <2>1. TextListed /\ n \in Nat
    BY TextIsListed DEF WholeText, TextInv, BatchInv, PdfTypes
  <2>2. Len(s) = n /\ Range(s) = 0..n - 1
    BY <2>1, EachOnce DEF TextListed
  <2>3. DOMAIN s = 1..Len(s)
    BY <2>1, LenProperties DEF TextListed
  <2>4. ASSUME NEW p \in 0..n - 1 PROVE place(p) \in 1..Len(s) /\ s[place(p)] = p
    BY <2>1, <2>3 DEF TextListed
  <2> HIDE DEF place
  <2>5. ASSUME NEW p \in 0..n - 1, NEW q \in 0..n - 1, p < q,
               Pdfium \/ p \div BatchSize = q \div BatchSize
        PROVE  place(p) < place(q)
    <3>1. place(p) \in 1..Len(s) /\ s[place(p)] = p /\ place(q) \in 1..Len(s) /\ s[place(q)] = q
      BY <2>4
    <3>2. \A i, j \in 1..Len(s) :
            s[i] < s[j] /\ (Pdfium \/ s[i] \div BatchSize = s[j] \div BatchSize) => i < j
      BY <2>1 DEF TextListed
    <3>3. QED
      BY <2>5, <3>1, <3>2
  <2>6. QED
    BY <2>2, <2>5 DEF TextWhole, place
<1>2. QED
  BY <1>1, TextInitially, TextNext, PTL DEF Extraction

-----------------------------------------------------------------------------
(* The rows of a document: how many are due, and how many are missing. *)

PdfRows == [kind : Kinds \union {"blank", "document"}, page : Int, number : Int]
OfPage(k, p) == {r \in PdfRows : r.kind = k /\ r.page = p}

\* Of each kind and page there are no more rows than are due; of the kinds in B, as many as
\* are missing are blank.
Fits(B, P, due, s) ==
  /\ s \in Seq(PdfRows)
  /\ \A k \in Kinds, p \in P : CountIn(s, OfPage(k, p)) <= due[<<k, p>>]
  /\ SumOver([kp \in B \X P |-> due[kp] - CountIn(s, OfPage(kp[1], kp[2]))], B \X P)
       = CountIn(s, {Blank})

\* None is blank, and of the kinds in B none is missing.
Exactly(B, P, due, s) ==
  /\ s \in Seq(PdfRows) /\ CountIn(s, {Blank}) = 0
  /\ \A k \in Kinds, p \in P :
       /\ CountIn(s, OfPage(k, p)) <= due[<<k, p>>]
       /\ k \in B => CountIn(s, OfPage(k, p)) = due[<<k, p>>]

Dues(P) == [Kinds \X P -> Nat]

\* Finitely many kinds and pages make finitely many pairs.
LEMMA KindsFinite ==
  ASSUME NEW B \in SUBSET Kinds, NEW P, IsFiniteSet(P)
  PROVE  IsFiniteSet(B \X P)
<1>1. IsFiniteSet({"table", "chart", "infographic", "text", "page_image", "latex_table", "image"})
  <2>1. IsFiniteSet({}) /\ \A S, x : IsFiniteSet(S) => IsFiniteSet(S \union {x})
    BY FS_EmptySet, FS_AddElement
  <2>2. IsFiniteSet({} \union {"table"} \union {"chart"} \union {"infographic"} \union {"text"}
                    \union {"page_image"} \union {"latex_table"} \union {"image"})
    BY <2>1, Zenon
  <2>3. QED
    BY <2>2
<1>2. IsFiniteSet(B)
  BY <1>1, FS_Subset DEF Kinds
<1>3. QED
  BY <1>2, FS_Product

\* What fits two dues fits their sum when put together.
LEMMA FitsConcat ==
  ASSUME NEW B \in SUBSET Kinds, NEW P, IsFiniteSet(P), NEW s, NEW t,
         NEW d \in Dues(P), NEW e \in Dues(P), NEW f \in Dues(P),
         Fits(B, P, d, s), Fits(B, P, e, t),
         \A k \in Kinds, p \in P : f[<<k, p>>] = d[<<k, p>>] + e[<<k, p>>]
  PROVE  Fits(B, P, f, s \o t)
<1> DEFINE BP == B \X P
           m(u, due) == [kp \in BP |-> due[kp] - CountIn(u, OfPage(kp[1], kp[2]))]
<1>1. s \in Seq(PdfRows) /\ t \in Seq(PdfRows) /\ s \o t \in Seq(PdfRows)
  BY DEF Fits
<1>2. \A M : /\ CountIn(s \o t, M) = CountIn(s, M) + CountIn(t, M)
             /\ CountIn(s, M) \in Nat /\ CountIn(t, M) \in Nat
  BY <1>1, CountConcat, CountNatural
<1>3. ASSUME NEW k \in Kinds, NEW p \in P
      PROVE  /\ CountIn(s \o t, OfPage(k, p)) = CountIn(s, OfPage(k, p)) + CountIn(t, OfPage(k, p))
             /\ CountIn(s, OfPage(k, p)) \in Nat /\ CountIn(t, OfPage(k, p)) \in Nat
             /\ CountIn(s, OfPage(k, p)) <= d[<<k, p>>] /\ CountIn(t, OfPage(k, p)) <= e[<<k, p>>]
             /\ d[<<k, p>>] \in Nat /\ e[<<k, p>>] \in Nat
             /\ f[<<k, p>>] = d[<<k, p>>] + e[<<k, p>>]
  <2>1. d[<<k, p>>] \in Nat /\ e[<<k, p>>] \in Nat
    BY DEF Dues
  <2>2. CountIn(s, OfPage(k, p)) <= d[<<k, p>>] /\ CountIn(t, OfPage(k, p)) <= e[<<k, p>>]
    BY DEF Fits
  <2>3. QED
    BY <1>2, <2>1, <2>2
<1>4. ASSUME NEW k \in Kinds, NEW p \in P
      PROVE  CountIn(s \o t, OfPage(k, p)) <= f[<<k, p>>]
  BY <1>3
<1>5. \A kp \in BP : /\ m(s, d)[kp] \in Nat /\ m(t, e)[kp] \in Nat
                     /\ m(s \o t, f)[kp] = m(s, d)[kp] + m(t, e)[kp]
  <2> TAKE kp \in BP
  <2>1. PICK k \in B, p \in P : kp = <<k, p>>
    OBVIOUS
  <2>2. /\ m(s, d)[kp] = d[kp] - CountIn(s, OfPage(k, p))
        /\ m(t, e)[kp] = e[kp] - CountIn(t, OfPage(k, p))
        /\ m(s \o t, f)[kp] = f[kp] - CountIn(s \o t, OfPage(k, p))
    BY <2>1
  <2> HIDE DEF m
  <2>3. QED
    BY <1>3, <2>1, <2>2
<1>6. IsFiniteSet(BP)
  BY KindsFinite
<1> DEFINE ms == m(s, d)
           mt == m(t, e)
           mst == m(s \o t, f)
<1>7. /\ SumOver(ms, BP) = CountIn(s, {Blank}) /\ SumOver(mt, BP) = CountIn(t, {Blank})
  BY DEF Fits
<1>8. SumOver(mst, BP) = SumOver(ms, BP) + SumOver(mt, BP)
  <2>1. \A kp \in BP : ms[kp] \in Nat /\ mt[kp] \in Nat /\ mst[kp] = ms[kp] + mt[kp]
    BY <1>5
  <2> HIDE DEF ms, mt, mst, BP, m
  <2>2. QED
    BY <1>6, <2>1, SumPlus
<1>9. SumOver(mst, BP) = CountIn(s \o t, {Blank})
  BY <1>2, <1>7, <1>8
<1>10. QED
  BY <1>1, <1>4, <1>9 DEF Fits

\* What is exactly two dues is exactly their sum when put together.
LEMMA ExactlyConcat ==
  ASSUME NEW B \in SUBSET Kinds, NEW P, NEW s, NEW t,
         NEW d \in Dues(P), NEW e \in Dues(P), NEW f \in Dues(P),
         Exactly(B, P, d, s), Exactly(B, P, e, t),
         \A k \in Kinds, p \in P : f[<<k, p>>] = d[<<k, p>>] + e[<<k, p>>]
  PROVE  Exactly(B, P, f, s \o t)
<1>1. s \in Seq(PdfRows) /\ t \in Seq(PdfRows) /\ s \o t \in Seq(PdfRows)
  BY DEF Exactly
<1>2. \A M : /\ CountIn(s \o t, M) = CountIn(s, M) + CountIn(t, M)
             /\ CountIn(s, M) \in Nat /\ CountIn(t, M) \in Nat
  BY <1>1, CountConcat, CountNatural
<1>3. CountIn(s \o t, {Blank}) = 0
  BY <1>2 DEF Exactly
<1>4. ASSUME NEW k \in Kinds, NEW p \in P
      PROVE  /\ CountIn(s \o t, OfPage(k, p)) <= f[<<k, p>>]
             /\ k \in B => CountIn(s \o t, OfPage(k, p)) = f[<<k, p>>]
  <2>1. d[<<k, p>>] \in Nat /\ e[<<k, p>>] \in Nat /\ f[<<k, p>>] = d[<<k, p>>] + e[<<k, p>>]
    BY DEF Dues
  <2>2. CountIn(s, OfPage(k, p)) <= d[<<k, p>>] /\ CountIn(t, OfPage(k, p)) <= e[<<k, p>>]
    BY DEF Exactly
  <2>3. k \in B => CountIn(s, OfPage(k, p)) = d[<<k, p>>] /\ CountIn(t, OfPage(k, p)) = e[<<k, p>>]
    BY DEF Exactly
  <2>4. QED
    BY <1>2, <2>1, <2>2, <2>3
<1>5. QED
  BY <1>1, <1>3, <1>4 DEF Exactly

\* What is exactly due fits.
LEMMA FitsExactly ==
  ASSUME NEW B \in SUBSET Kinds, NEW P, IsFiniteSet(P), NEW s, NEW d \in Dues(P),
         Exactly(B, P, d, s)
  PROVE  Fits(B, P, d, s)
<1> DEFINE BP == B \X P
           m == [kp \in BP |-> d[kp] - CountIn(s, OfPage(kp[1], kp[2]))]
<1>1. s \in Seq(PdfRows) /\ IsFiniteSet(BP)
  BY KindsFinite DEF Exactly
<1>2. \A kp \in BP : m[kp] = 0
  <2> TAKE kp \in BP
  <2>1. PICK k \in B, p \in P : kp = <<k, p>>
    OBVIOUS
  <2>2. m[kp] = d[<<k, p>>] - CountIn(s, OfPage(k, p)) /\ d[<<k, p>>] \in Nat
    BY <2>1 DEF Dues
  <2>3. CountIn(s, OfPage(k, p)) = d[<<k, p>>]
    BY DEF Exactly
  <2>4. QED
    BY <2>2, <2>3
<1>3. SumOver(m, BP) = SumOver(m, {})
  <2> HIDE DEF m, BP
  <2>1. {} \in SUBSET BP /\ \A x \in BP \ {} : m[x] = 0
    BY <1>2
  <2>2. \A x \in {} : m[x] \in Nat /\ m[x] = m[x]
    OBVIOUS
  <2>3. QED
    BY <1>1, <2>1, <2>2, SumOfPart, ZenonT(40)
<1>4. SumOver(m, {}) = 0
  <2> HIDE DEF m
  <2>1. IsFiniteSet({}) /\ \A x \in {} : m[x] \in Nat
    BY FS_EmptySet
  <2>2. QED
    BY <2>1, SumFacts
<1>5. QED
  BY <1>1, <1>3, <1>4 DEF Fits, Exactly

\* Rows of one kind and page, when that many are due there, or some more of a kind not in B.
LEMMA ExactlyRows ==
  ASSUME NEW B \in SUBSET Kinds, NEW P, NEW k0 \in Kinds, NEW p0 \in P, NEW s \in Seq(PdfRows),
         NEW m \in Nat, Len(s) <= m, k0 \in B => Len(s) = m,
         \A i \in 1..Len(s) : s[i].kind = k0 /\ s[i].page = p0,
         NEW d \in Dues(P),
         \A k \in Kinds, p \in P : d[<<k, p>>] = IF k = k0 /\ p = p0 THEN m ELSE 0
  PROVE  Exactly(B, P, d, s)
<1>1. Len(s) \in Nat /\ DOMAIN s = 1..Len(s) /\ \A i \in 1..Len(s) : s[i] \in PdfRows
  OBVIOUS
<1>2. CountIn(s, {Blank}) = 0
  <2>1. \A i \in 1..Len(s) : s[i] \notin {Blank}
    BY DEF Kinds, Blank, Row
  <2>2. QED
    BY <2>1, CountNone
<1>3. CountIn(s, OfPage(k0, p0)) = Len(s)
  <2>1. Hits(s, OfPage(k0, p0)) = 1..Len(s)
    BY <1>1, ZenonT(40) DEF Hits, OfPage
  <2>2. \A n \in Nat : Cardinality(1..n) = n
    BY FS_Interval
  <2>3. QED
    BY <1>1, <2>1, <2>2, Zenon, SMTT(40) DEF CountIn
<1>4. ASSUME NEW k \in Kinds, NEW p \in P, ~(k = k0 /\ p = p0) PROVE CountIn(s, OfPage(k, p)) = 0
  <2>1. \A i \in 1..Len(s) : s[i] \notin OfPage(k, p)
    BY <1>4 DEF OfPage
  <2>2. QED
    BY <2>1, CountNone
<1>5. ASSUME NEW k \in Kinds, NEW p \in P
      PROVE  /\ CountIn(s, OfPage(k, p)) <= d[<<k, p>>]
             /\ k \in B => CountIn(s, OfPage(k, p)) = d[<<k, p>>]
  <2>1. CASE k = k0 /\ p = p0
    BY <1>1, <1>3, <2>1, ZenonT(40)
  <2>2. CASE ~(k = k0 /\ p = p0)
    BY <1>4, <2>2
  <2>3. QED
    BY <2>1, <2>2, SMTT(40)
<1>6. QED
  BY <1>2, <1>5 DEF Exactly

\* A pair has two parts.
LEMMA PairOf ==
  \A A, B : \A x \in A \X B : x[1] \in A /\ x[2] \in B /\ x = <<x[1], x[2]>>
OBVIOUS

\* One of the rows turns out blank.
LEMMA FitsBlanked ==
  ASSUME NEW B \in SUBSET Kinds, NEW P \in SUBSET Int, IsFiniteSet(P), NEW s, NEW d \in Dues(P),
         Exactly(B, P, d, s), NEW i \in 1..Len(s), s[i].kind \in B, s[i].page \in P
  PROVE  Fits(B, P, d, [s EXCEPT ![i] = Blank])
<1> DEFINE t == [s EXCEPT ![i] = Blank]
           k0 == s[i].kind
           p0 == s[i].page
           BP == B \X P
           m == [kp \in BP |-> d[kp] - CountIn(t, OfPage(kp[1], kp[2]))]
<1>1. s \in Seq(PdfRows) /\ Blank \in PdfRows /\ IsFiniteSet(BP) /\ s[i] \in PdfRows
  <2>1. s \in Seq(PdfRows)
    BY DEF Exactly
  <2>2. Blank \in PdfRows
    BY DEF Blank, Row, PdfRows
  <2>3. s[i] \in PdfRows
    BY <2>1
  <2>4. IsFiniteSet(BP)
    BY KindsFinite
  <2>5. QED
    BY <2>1, <2>2, <2>3, <2>4
<1>2. /\ t \in Seq(PdfRows)
      /\ \A M : /\ CountIn(t, M) \in Nat /\ CountIn(s, M) \in Nat
                /\ CountIn(t, M) + (IF s[i] \in M THEN 1 ELSE 0) =
                     CountIn(s, M) + (IF Blank \in M THEN 1 ELSE 0)
  <2>1. t \in Seq(PdfRows)
    BY <1>1, CountReplaced
  <2>2. ASSUME NEW M
        PROVE  /\ CountIn(t, M) \in Nat /\ CountIn(s, M) \in Nat
               /\ CountIn(t, M) + (IF s[i] \in M THEN 1 ELSE 0) =
                    CountIn(s, M) + (IF Blank \in M THEN 1 ELSE 0)
    <3>1. CountIn(t, M) \in Nat /\ CountIn(s, M) \in Nat
      <4> HIDE DEF t
      <4>1. QED
        BY <1>1, <2>1, CountNatural
    <3>2. QED
      BY <1>1, <3>1, CountReplaced
  <2>3. QED
    BY <2>1, <2>2
<1>3. k0 \in Kinds /\ p0 \in P /\ k0 \in B /\ s[i] # Blank
      /\ \A k \in Kinds : \A p \in P : Blank \notin OfPage(k, p)
  <2>1. k0 \in Kinds /\ p0 \in P /\ k0 \in B
    OBVIOUS
  <2>2. s[i] # Blank
    <3>1. "blank" \notin Kinds /\ Blank.kind = "blank"
      BY DEF Kinds, Blank, Row
    <3>2. QED
      BY <2>1, <3>1
  <2>3. \A k \in Kinds : \A p \in P : Blank \notin OfPage(k, p)
    BY DEF Kinds, Blank, Row, OfPage
  <2>4. QED
    BY <2>1, <2>2, <2>3
<1>4. \A k \in Kinds, p \in P : s[i] \in OfPage(k, p) <=> k = k0 /\ p = p0
  BY <1>1 DEF OfPage
<1> HIDE DEF t, k0, p0
<1>5. CountIn(t, {Blank}) = 1
  <2>1. CountIn(s, {Blank}) = 0 /\ s[i] \notin {Blank} /\ Blank \in {Blank}
    BY <1>3 DEF Exactly
  <2>2. CountIn(t, {Blank}) + 0 = 0 + 1
    BY <1>2, <2>1
  <2>3. QED
    BY <1>2, <2>2
<1>6. ASSUME NEW k \in Kinds, NEW p \in P
      PROVE  /\ CountIn(t, OfPage(k, p)) =
                  CountIn(s, OfPage(k, p)) - (IF k = k0 /\ p = p0 THEN 1 ELSE 0)
             /\ CountIn(t, OfPage(k, p)) \in Nat /\ CountIn(s, OfPage(k, p)) \in Nat
             /\ CountIn(s, OfPage(k, p)) <= d[<<k, p>>] /\ d[<<k, p>>] \in Nat
             /\ k \in B => CountIn(s, OfPage(k, p)) = d[<<k, p>>]
  <2>1. Blank \notin OfPage(k, p) /\ (s[i] \in OfPage(k, p) <=> k = k0 /\ p = p0)
    BY <1>3, <1>4
  <2>2. /\ CountIn(t, OfPage(k, p)) \in Nat /\ CountIn(s, OfPage(k, p)) \in Nat
        /\ CountIn(t, OfPage(k, p)) + (IF s[i] \in OfPage(k, p) THEN 1 ELSE 0) =
             CountIn(s, OfPage(k, p)) + (IF Blank \in OfPage(k, p) THEN 1 ELSE 0)
    BY <1>2
  <2>3. d[<<k, p>>] \in Nat /\ CountIn(s, OfPage(k, p)) <= d[<<k, p>>]
        /\ (k \in B => CountIn(s, OfPage(k, p)) = d[<<k, p>>])
    BY DEF Dues, Exactly
  <2>4. QED
    BY <2>1, <2>2, <2>3
<1>7. ASSUME NEW k \in Kinds, NEW p \in P PROVE CountIn(t, OfPage(k, p)) <= d[<<k, p>>]
  BY <1>6
<1>8. \A kp \in BP : m[kp] = IF kp = <<k0, p0>> THEN 1 ELSE 0
  <2> TAKE kp \in BP
  <2>1. PICK k \in B, p \in P : kp = <<k, p>>
    <3> HIDE DEF m, t, k0, p0
    <3>1. kp \in B \X P
      BY Zenon
    <3>2. kp[1] \in B /\ kp[2] \in P /\ kp = <<kp[1], kp[2]>>
      BY <3>1, PairOf
    <3>3. QED
      BY <3>1, <3>2, Zenon
  <2>2. m[kp] = d[<<k, p>>] - CountIn(t, OfPage(k, p))
    BY <2>1
  <2> HIDE DEF m
  <2>3. kp = <<k0, p0>> <=> k = k0 /\ p = p0
    BY <2>1
  <2>4. QED
    BY <1>6, <2>2, <2>3
<1>9. SumOver(m, BP) = 1
  <2> DEFINE one == {<<k0, p0>>}
  <2>1. one \in SUBSET BP /\ IsFiniteSet(one) /\ Cardinality(one) = 1
    <3>1. one \in SUBSET BP
      BY <1>3
    <3>2. QED
      BY <3>1, FS_Singleton
  <2>2. (\A x \in one : m[x] = 1) /\ (\A x \in BP \ one : m[x] = 0)
    BY <1>8, <2>1
  <2> HIDE DEF one, m, BP
  <2>3. \A x \in one : m[x] \in Nat /\ m[x] = m[x]
    BY <2>2
  <2>4. SumOver(m, BP) = SumOver(m, one)
    BY <1>1, <2>1, <2>2, <2>3, SumOfPart
  <2>5. SumOver(m, one) = Cardinality(one)
    BY <2>1, <2>2, SumOfOnes
  <2>6. QED
    BY <2>1, <2>4, <2>5
<1>10. Fits(B, P, d, t)
  BY <1>2, <1>5, <1>7, <1>9 DEF Fits
<1>11. QED
  BY <1>10 DEF t

-----------------------------------------------------------------------------
(* What a page is due, by the pages that were walked, whose elements were gathered, and *)
(* that were built.                                                                     *)

Pages == 0..page_count - 1
Elements == {"table", "chart", "infographic"}
Strict == Kinds \ (IF Pdfium THEN {"image"} ELSE {})

WalkDue(k, p) ==
  CASE k = "text" -> Flag(extract_task.text /\ TextDepth = "page")
    [] k = "page_image" -> Flag(extract_task.as_image)
    [] k = "image" -> Flag(extract_task.images /\ p \in Drawn)
    [] OTHER -> 0
ElementDue(k, p) == Flag(k \in Elements /\ k \in Detected[p] \intersect extract_task.elements)
BuildDue(k, p) ==
  CASE k = "latex_table" -> Len(LatexRows(p))
    [] k = "image" -> Len(PictureRows(p))
    [] k = "text" -> Flag(TextDepth = "page")
    [] OTHER -> 0

DueOf(W, G, B) ==
  [kp \in Kinds \X Pages |->
     (IF kp[2] \in W THEN WalkDue(kp[1], kp[2]) ELSE 0)
     + (IF kp[2] \in G THEN ElementDue(kp[1], kp[2]) ELSE 0)
     + (IF kp[2] \in B THEN BuildDue(kp[1], kp[2]) ELSE 0)]

JobTypes == page_count \in 0..MaxPages

\* A document has finitely many pages.
LEMMA PagesFinite ==
  ASSUME JobTypes
  PROVE  /\ Pages \in SUBSET Int /\ IsFiniteSet(Pages) /\ Strict \in SUBSET Kinds
         /\ Pages \subseteq 0..MaxPages - 1
<1>1. page_count \in Nat /\ page_count <= MaxPages /\ MaxPages \in Nat
  BY PdfAssumption DEF JobTypes
<1>2. 0 \in Int /\ page_count - 1 \in Int
  BY <1>1
<1>3. IsFiniteSet(Pages)
  BY <1>2, FS_Interval DEF Pages
<1>4. QED
  BY <1>1, <1>3 DEF Pages, Strict

\* What the parser read on a page, of one class.
LEMMA ClassesAre ==
  ASSUME JobTypes, NEW p \in Pages, NEW class
  PROVE  Classes(p, class) \in Seq(STRING) /\ Len(Classes(p, class)) \in Nat
<1> DEFINE I == {i \in DOMAIN Parsed[p] : Parsed[p][i] = class}
<1>1. Parsed[p] \in Seq(STRING)
  BY PagesFinite, PdfAssumption
<1>2. I \in SUBSET (1..Len(Parsed[p]))
  BY <1>1
<1>3. Classes(p, class) = SelectAt(Parsed[p], I)
  BY DEF Classes, Filtered
<1> HIDE DEF I
<1>4. SelectAt(Parsed[p], I) \in Seq(STRING)
  BY <1>1, <1>2, SelectAtFacts
<1>5. QED
  BY <1>3, <1>4

\* A table or a picture for each.
LEMMA ParserRowsAre ==
  ASSUME JobTypes, NEW p \in Pages
  PROVE  /\ LatexRows(p) \in Seq(PdfRows) /\ PictureRows(p) \in Seq(PdfRows)
         /\ Len(LatexRows(p)) \in Nat /\ Len(PictureRows(p)) \in Nat
         /\ \A i \in 1..Len(LatexRows(p)) : LatexRows(p)[i] = Row("latex_table", p, p)
         /\ \A i \in 1..Len(PictureRows(p)) : PictureRows(p)[i] = Row("image", p, p)
<1> DEFINE t == Classes(p, "Table")
           c == Classes(p, "Picture")
<1>1. t \in Seq(STRING) /\ c \in Seq(STRING)
  BY ClassesAre
<1>2. Row("latex_table", p, p) \in PdfRows /\ Row("image", p, p) \in PdfRows
  BY PagesFinite DEF Row, PdfRows, Kinds
<1>3. /\ LatexRows(p) = <<>> \/ LatexRows(p) = [i \in DOMAIN t |-> Row("latex_table", p, p)]
      /\ PictureRows(p) = <<>> \/ PictureRows(p) = [i \in DOMAIN c |-> Row("image", p, p)]
  BY DEF LatexRows, PictureRows
<1> HIDE DEF t, c
<1>4. ASSUME NEW r \in PdfRows, NEW u \in Seq(STRING), NEW s,
             s = <<>> \/ s = [i \in DOMAIN u |-> r]
      PROVE  s \in Seq(PdfRows) /\ Len(s) \in Nat /\ \A i \in 1..Len(s) : s[i] = r
  <2>1. CASE s = <<>>
    BY <2>1
  <2>2. CASE s = [i \in DOMAIN u |-> r]
    <3>1. Len(u) \in Nat /\ s = [i \in 1..Len(u) |-> r]
      BY <2>2
    <3>2. s \in Seq(PdfRows)
      BY <3>1
    <3>3. QED
      BY <3>1, <3>2
  <2>3. QED
    BY <1>4, <2>1, <2>2
<1>5. QED
  BY <1>1, <1>2, <1>3, <1>4

\* What is due of a page is the sum of what its walk, its elements and its build owe.
LEMMA DueIs ==
  ASSUME JobTypes, NEW W, NEW G, NEW B
  PROVE  /\ DueOf(W, G, B) \in Dues(Pages)
         /\ \A k \in Kinds, p \in Pages :
              /\ DueOf(W, G, B)[<<k, p>>] = (IF p \in W THEN WalkDue(k, p) ELSE 0)
                                            + (IF p \in G THEN ElementDue(k, p) ELSE 0)
                                            + (IF p \in B THEN BuildDue(k, p) ELSE 0)
              /\ WalkDue(k, p) \in Nat /\ ElementDue(k, p) \in Nat /\ BuildDue(k, p) \in Nat
<1>1. ASSUME NEW k \in Kinds, NEW p \in Pages
      PROVE  WalkDue(k, p) \in Nat /\ ElementDue(k, p) \in Nat /\ BuildDue(k, p) \in Nat
  BY ParserRowsAre DEF WalkDue, ElementDue, BuildDue, Flag
<1>2. ASSUME NEW k \in Kinds, NEW p \in Pages
      PROVE  DueOf(W, G, B)[<<k, p>>] = (IF p \in W THEN WalkDue(k, p) ELSE 0)
                                        + (IF p \in G THEN ElementDue(k, p) ELSE 0)
                                        + (IF p \in B THEN BuildDue(k, p) ELSE 0)
  BY DEF DueOf
<1>3. DueOf(W, G, B) \in Dues(Pages)
  <2>1. ASSUME NEW kp \in Kinds \X Pages
        PROVE  (IF kp[2] \in W THEN WalkDue(kp[1], kp[2]) ELSE 0)
               + (IF kp[2] \in G THEN ElementDue(kp[1], kp[2]) ELSE 0)
               + (IF kp[2] \in B THEN BuildDue(kp[1], kp[2]) ELSE 0) \in Nat
    <3>1. kp[1] \in Kinds /\ kp[2] \in Pages
      OBVIOUS
    <3>2. /\ WalkDue(kp[1], kp[2]) \in Nat /\ ElementDue(kp[1], kp[2]) \in Nat
          /\ BuildDue(kp[1], kp[2]) \in Nat
      BY <1>1, <3>1
    <3>3. QED
      BY <3>2
  <2>2. QED
    BY <2>1 DEF DueOf, Dues
<1>4. QED
  BY <1>1, <1>2, <1>3

\* More pages are due their rows.
LEMMA DueAdds ==
  ASSUME JobTypes, NEW k \in Kinds, NEW p \in Pages,
         NEW W, NEW G, NEW B, NEW V, NEW F, NEW A, NEW X, NEW Y, NEW Z,
         ~(p \in W /\ p \in V), ~(p \in G /\ p \in F), ~(p \in B /\ p \in A),
         X = W \union V, Y = G \union F, Z = B \union A
  PROVE  DueOf(X, Y, Z)[<<k, p>>] =
           DueOf(W, G, B)[<<k, p>>] + DueOf(V, F, A)[<<k, p>>]
<1> DEFINE w == WalkDue(k, p)
           e == ElementDue(k, p)
           b == BuildDue(k, p)
<1>1. /\ w \in Nat /\ e \in Nat /\ b \in Nat
      /\ DueOf(X, Y, Z)[<<k, p>>] =
           (IF p \in X THEN w ELSE 0) + (IF p \in Y THEN e ELSE 0) + (IF p \in Z THEN b ELSE 0)
      /\ DueOf(W, G, B)[<<k, p>>] =
           (IF p \in W THEN w ELSE 0) + (IF p \in G THEN e ELSE 0) + (IF p \in B THEN b ELSE 0)
      /\ DueOf(V, F, A)[<<k, p>>] =
           (IF p \in V THEN w ELSE 0) + (IF p \in F THEN e ELSE 0) + (IF p \in A THEN b ELSE 0)
  BY DueIs
<1> HIDE DEF w, e, b
<1>2. QED
  BY <1>1

-----------------------------------------------------------------------------
(* The rows that each step adds. *)

\* A page that pdfium walks.
LEMMA PdfiumRowsFit ==
  ASSUME JobTypes, Pdfium, NEW p \in Pages, NEW pictures
  PROVE  Fits(Strict, Pages, DueOf({p}, {}, {}), PdfiumRows(p, pictures))
<1> DEFINE a == IF extract_task.text /\ TextDepth = "page" THEN <<Row("text", p, p + 1)>> ELSE <<>>
           b == IF extract_task.images /\ p \in Drawn \intersect pictures
                THEN <<Row("image", p, p + 1)>> ELSE <<>>
           c == IF extract_task.as_image THEN <<Row("page_image", p, p + 1)>> ELSE <<>>
           due(k0, n) == [kp \in Kinds \X Pages |-> IF kp[1] = k0 /\ kp[2] = p THEN n ELSE 0]
           da == due("text", WalkDue("text", p))
           db == due("image", WalkDue("image", p))
           dc == due("page_image", WalkDue("page_image", p))
           dab == [kp \in Kinds \X Pages |-> da[kp] + db[kp]]
<1>1. /\ Strict \in SUBSET Kinds /\ "image" \notin Strict /\ IsFiniteSet(Pages) /\ p \in Int
      /\ "text" \in Kinds /\ "image" \in Kinds /\ "page_image" \in Kinds
  BY PagesFinite DEF Strict, Kinds
<1>2. /\ Row("text", p, p + 1) \in PdfRows /\ Row("image", p, p + 1) \in PdfRows
      /\ Row("page_image", p, p + 1) \in PdfRows
  BY <1>1 DEF Row, PdfRows
<1>3. \A k \in Kinds : WalkDue(k, p) \in Nat
  BY DueIs
<1>4. ASSUME NEW k0 \in Kinds, NEW n \in Nat
      PROVE  /\ due(k0, n) \in Dues(Pages)
             /\ \A k \in Kinds, q \in Pages :
                  due(k0, n)[<<k, q>>] = IF k = k0 /\ q = p THEN n ELSE 0
  BY DEF Dues
<1>5. /\ da \in Dues(Pages) /\ db \in Dues(Pages) /\ dc \in Dues(Pages)
      /\ \A k \in Kinds, q \in Pages :
           /\ da[<<k, q>>] = IF k = "text" /\ q = p THEN WalkDue("text", p) ELSE 0
           /\ db[<<k, q>>] = IF k = "image" /\ q = p THEN WalkDue("image", p) ELSE 0
           /\ dc[<<k, q>>] = IF k = "page_image" /\ q = p THEN WalkDue("page_image", p) ELSE 0
  <2> HIDE DEF due
  <2>1. QED
    BY <1>1, <1>3, <1>4
<1> HIDE DEF due, da, db, dc
<1>6. /\ a \in Seq(PdfRows) /\ Len(a) = WalkDue("text", p)
      /\ \A i \in 1..Len(a) : a[i] = Row("text", p, p + 1)
  BY <1>2 DEF WalkDue, Flag
<1>7. /\ b \in Seq(PdfRows) /\ Len(b) <= WalkDue("image", p)
      /\ \A i \in 1..Len(b) : b[i] = Row("image", p, p + 1)
  BY <1>2 DEF WalkDue, Flag
<1>8. /\ c \in Seq(PdfRows) /\ Len(c) = WalkDue("page_image", p)
      /\ \A i \in 1..Len(c) : c[i] = Row("page_image", p, p + 1)
  BY <1>2 DEF WalkDue, Flag
<1>9. PdfiumRows(p, pictures) = (a \o b) \o c
  BY DEF PdfiumRows
<1>10. /\ Row("text", p, p + 1).kind = "text" /\ Row("text", p, p + 1).page = p
       /\ Row("image", p, p + 1).kind = "image" /\ Row("image", p, p + 1).page = p
       /\ Row("page_image", p, p + 1).kind = "page_image" /\ Row("page_image", p, p + 1).page = p
  BY DEF Row
<1> HIDE DEF a, b, c
<1>11. Exactly(Strict, Pages, da, a)
  <2>1. \A i \in 1..Len(a) : a[i].kind = "text" /\ a[i].page = p
    BY <1>6, <1>10
  <2>2. WalkDue("text", p) \in Nat /\ Len(a) <= WalkDue("text", p)
    BY <1>1, <1>3, <1>6
  <2>3. da \in Dues(Pages) /\ \A k \in Kinds, q \in Pages :
          da[<<k, q>>] = IF k = "text" /\ q = p THEN WalkDue("text", p) ELSE 0
    BY <1>5
  <2>4. a \in Seq(PdfRows) /\ ("text" \in Strict => Len(a) = WalkDue("text", p))
    BY <1>1, <1>6
  <2>5. QED
    BY <1>1, <2>1, <2>2, <2>3, <2>4, ExactlyRows
<1>12. Exactly(Strict, Pages, db, b)
  <2>1. \A i \in 1..Len(b) : b[i].kind = "image" /\ b[i].page = p
    BY <1>7, <1>10
  <2>2. WalkDue("image", p) \in Nat /\ Len(b) <= WalkDue("image", p)
    BY <1>1, <1>3, <1>7
  <2>3. db \in Dues(Pages) /\ \A k \in Kinds, q \in Pages :
          db[<<k, q>>] = IF k = "image" /\ q = p THEN WalkDue("image", p) ELSE 0
    BY <1>5
  <2>4. b \in Seq(PdfRows) /\ ("image" \in Strict => Len(b) = WalkDue("image", p))
    BY <1>1, <1>7
  <2>5. QED
    BY <1>1, <2>1, <2>2, <2>3, <2>4, ExactlyRows
<1>13. Exactly(Strict, Pages, dc, c)
  <2>1. \A i \in 1..Len(c) : c[i].kind = "page_image" /\ c[i].page = p
    BY <1>8, <1>10
  <2>2. WalkDue("page_image", p) \in Nat /\ Len(c) <= WalkDue("page_image", p)
    BY <1>1, <1>3, <1>8
  <2>3. dc \in Dues(Pages) /\ \A k \in Kinds, q \in Pages :
          dc[<<k, q>>] = IF k = "page_image" /\ q = p THEN WalkDue("page_image", p) ELSE 0
    BY <1>5
  <2>4. c \in Seq(PdfRows) /\ ("page_image" \in Strict => Len(c) = WalkDue("page_image", p))
    BY <1>1, <1>8
  <2>5. QED
    BY <1>1, <2>1, <2>2, <2>3, <2>4, ExactlyRows
<1>14. /\ dab \in Dues(Pages)
       /\ \A k \in Kinds, q \in Pages : dab[<<k, q>>] = da[<<k, q>>] + db[<<k, q>>]
  BY <1>5 DEF Dues
<1> HIDE DEF dab
<1>15. Exactly(Strict, Pages, dab, a \o b)
  BY <1>1, <1>5, <1>11, <1>12, <1>14, ExactlyConcat
<1>16. \A k \in Kinds, q \in Pages : DueOf({p}, {}, {})[<<k, q>>] = dab[<<k, q>>] + dc[<<k, q>>]
  <2> TAKE k \in Kinds, q \in Pages
  <2>1. /\ DueOf({p}, {}, {})[<<k, q>>] = (IF q \in {p} THEN WalkDue(k, q) ELSE 0)
             + (IF q \in {} THEN ElementDue(k, q) ELSE 0) + (IF q \in {} THEN BuildDue(k, q) ELSE 0)
        /\ WalkDue(k, q) \in Nat
    BY DueIs
  <2>2. dab[<<k, q>>] + dc[<<k, q>>] = IF q = p THEN WalkDue(k, p) ELSE 0
    <3>1. /\ dab[<<k, q>>] = da[<<k, q>>] + db[<<k, q>>]
          /\ da[<<k, q>>] = IF k = "text" /\ q = p THEN WalkDue("text", p) ELSE 0
          /\ db[<<k, q>>] = IF k = "image" /\ q = p THEN WalkDue("image", p) ELSE 0
          /\ dc[<<k, q>>] = IF k = "page_image" /\ q = p THEN WalkDue("page_image", p) ELSE 0
      BY <1>5, <1>14
    <3>2. k \notin {"text", "image", "page_image"} => WalkDue(k, p) = 0
      BY DEF WalkDue
    <3>3. \A l \in {"text", "image", "page_image"} : WalkDue(l, p) \in Nat
      BY <1>1, <1>3
    <3>4. CASE k = "text"
      BY <3>1, <3>3, <3>4
    <3>5. CASE k = "image"
      BY <3>1, <3>3, <3>5
    <3>6. CASE k = "page_image"
      BY <3>1, <3>3, <3>6
    <3>7. CASE k \notin {"text", "image", "page_image"}
      BY <3>1, <3>2, <3>7
    <3>8. QED
      BY <3>4, <3>5, <3>6, <3>7
  <2>3. QED
    BY <2>1, <2>2
<1>17. DueOf({p}, {}, {}) \in Dues(Pages)
  BY DueIs
<1>18. Exactly(Strict, Pages, DueOf({p}, {}, {}), (a \o b) \o c)
  BY <1>1, <1>5, <1>13, <1>14, <1>15, <1>16, <1>17, ExactlyConcat
<1>19. QED
  BY <1>1, <1>9, <1>17, <1>18, FitsExactly

\* A page that is built from what the parser read.
LEMMA BuiltRowsFit ==
  ASSUME JobTypes, ~Pdfium, NEW p \in Pages, NEW tables \in OneBlank(LatexRows(p))
  PROVE  Fits(Strict, Pages, DueOf({}, {}, {p}),
              tables \o PictureRows(p) \o (IF TextDepth = "page" THEN <<Row("text", p, p)>> ELSE <<>>))
<1> DEFINE a == LatexRows(p)
           b == PictureRows(p)
           c == IF TextDepth = "page" THEN <<Row("text", p, p)>> ELSE <<>>
           due(k0, n) == [kp \in Kinds \X Pages |-> IF kp[1] = k0 /\ kp[2] = p THEN n ELSE 0]
           da == due("latex_table", BuildDue("latex_table", p))
           db == due("image", BuildDue("image", p))
           dc == due("text", BuildDue("text", p))
           dab == [kp \in Kinds \X Pages |-> da[kp] + db[kp]]
<1>1. /\ Strict = Kinds /\ IsFiniteSet(Pages) /\ p \in Int /\ Pages \in SUBSET Int
      /\ "text" \in Kinds /\ "image" \in Kinds /\ "latex_table" \in Kinds
  BY PagesFinite DEF Strict, Kinds
<1>2. \A k \in Kinds : BuildDue(k, p) \in Nat
  BY DueIs
<1>3. ASSUME NEW k0 \in Kinds, NEW n \in Nat
      PROVE  /\ due(k0, n) \in Dues(Pages)
             /\ \A k \in Kinds, q \in Pages :
                  due(k0, n)[<<k, q>>] = IF k = k0 /\ q = p THEN n ELSE 0
  BY DEF Dues
<1>4. /\ da \in Dues(Pages) /\ db \in Dues(Pages) /\ dc \in Dues(Pages)
      /\ \A k \in Kinds, q \in Pages :
           /\ da[<<k, q>>] = IF k = "latex_table" /\ q = p THEN BuildDue("latex_table", p) ELSE 0
           /\ db[<<k, q>>] = IF k = "image" /\ q = p THEN BuildDue("image", p) ELSE 0
           /\ dc[<<k, q>>] = IF k = "text" /\ q = p THEN BuildDue("text", p) ELSE 0
  <2> HIDE DEF due
  <2>1. QED
    BY <1>1, <1>2, <1>3
<1> HIDE DEF due, da, db, dc
<1>5. /\ a \in Seq(PdfRows) /\ Len(a) = BuildDue("latex_table", p) /\ Len(a) \in Nat
      /\ b \in Seq(PdfRows) /\ Len(b) = BuildDue("image", p) /\ Len(b) \in Nat
      /\ \A i \in 1..Len(a) : a[i] = Row("latex_table", p, p)
      /\ \A i \in 1..Len(b) : b[i] = Row("image", p, p)
  BY ParserRowsAre DEF BuildDue
<1>6. /\ c \in Seq(PdfRows) /\ Len(c) = BuildDue("text", p) /\ Len(c) \in Nat
      /\ \A i \in 1..Len(c) : c[i] = Row("text", p, p)
  <2>1. Row("text", p, p) \in PdfRows
    BY <1>1 DEF Row, PdfRows
  <2>2. QED
    BY <2>1 DEF BuildDue, Flag
<1>7. /\ Row("latex_table", p, p).kind = "latex_table" /\ Row("latex_table", p, p).page = p
      /\ Row("image", p, p).kind = "image" /\ Row("image", p, p).page = p
      /\ Row("text", p, p).kind = "text" /\ Row("text", p, p).page = p
  BY DEF Row
<1> HIDE DEF a, b, c
<1>8. Exactly(Strict, Pages, da, a)
  <2>1. \A i \in 1..Len(a) : a[i].kind = "latex_table" /\ a[i].page = p
    BY <1>5, <1>7
  <2>2. Len(a) <= BuildDue("latex_table", p) /\ BuildDue("latex_table", p) \in Nat
    BY <1>5
  <2>3. da \in Dues(Pages) /\ \A k \in Kinds, q \in Pages :
          da[<<k, q>>] = IF k = "latex_table" /\ q = p THEN BuildDue("latex_table", p) ELSE 0
    BY <1>4
  <2>4. a \in Seq(PdfRows) /\ ("latex_table" \in Strict => Len(a) = BuildDue("latex_table", p))
    BY <1>1, <1>5
  <2>5. QED
    BY <1>1, <2>1, <2>2, <2>3, <2>4, ExactlyRows
<1>9. Exactly(Strict, Pages, db, b)
  <2>1. \A i \in 1..Len(b) : b[i].kind = "image" /\ b[i].page = p
    BY <1>5, <1>7
  <2>2. Len(b) <= BuildDue("image", p) /\ BuildDue("image", p) \in Nat
    BY <1>5
  <2>3. db \in Dues(Pages) /\ \A k \in Kinds, q \in Pages :
          db[<<k, q>>] = IF k = "image" /\ q = p THEN BuildDue("image", p) ELSE 0
    BY <1>4
  <2>4. b \in Seq(PdfRows) /\ ("image" \in Strict => Len(b) = BuildDue("image", p))
    BY <1>1, <1>5
  <2>5. QED
    BY <1>1, <2>1, <2>2, <2>3, <2>4, ExactlyRows
<1>10. Exactly(Strict, Pages, dc, c)
  <2>1. \A i \in 1..Len(c) : c[i].kind = "text" /\ c[i].page = p
    BY <1>6, <1>7
  <2>2. Len(c) <= BuildDue("text", p) /\ BuildDue("text", p) \in Nat
    BY <1>6
  <2>3. dc \in Dues(Pages) /\ \A k \in Kinds, q \in Pages :
          dc[<<k, q>>] = IF k = "text" /\ q = p THEN BuildDue("text", p) ELSE 0
    BY <1>4
  <2>4. c \in Seq(PdfRows) /\ ("text" \in Strict => Len(c) = BuildDue("text", p))
    BY <1>1, <1>6
  <2>5. QED
    BY <1>1, <2>1, <2>2, <2>3, <2>4, ExactlyRows
<1>11. Fits(Strict, Pages, da, tables)
  <2>1. CASE tables = a
    BY <1>1, <1>4, <1>8, <2>1, FitsExactly
  <2>2. ASSUME NEW i \in 1..Len(a), tables = [a EXCEPT ![i] = Blank]
        PROVE  Fits(Strict, Pages, da, tables)
    <3>1. a[i].kind \in Strict /\ a[i].page \in Pages
      BY <1>1, <1>5, <1>7
    <3>2. QED
      BY <1>1, <1>4, <1>8, <2>2, <3>1, FitsBlanked
  <2>3. tables = a \/ \E i \in 1..Len(a) : tables = [a EXCEPT ![i] = Blank]
    <3>1. DOMAIN a = 1..Len(a)
      BY <1>5
    <3>2. QED
      BY <3>1 DEF OneBlank, a
  <2>4. QED
    BY <2>1, <2>2, <2>3
<1>12. Fits(Strict, Pages, db, b) /\ Fits(Strict, Pages, dc, c)
  BY <1>1, <1>4, <1>9, <1>10, FitsExactly
<1>13. /\ dab \in Dues(Pages)
       /\ \A k \in Kinds, q \in Pages : dab[<<k, q>>] = da[<<k, q>>] + db[<<k, q>>]
  BY <1>4 DEF Dues
<1> HIDE DEF dab
<1>14. Fits(Strict, Pages, dab, tables \o b)
  BY <1>1, <1>4, <1>11, <1>12, <1>13, FitsConcat
<1>15. \A k \in Kinds, q \in Pages : DueOf({}, {}, {p})[<<k, q>>] = dab[<<k, q>>] + dc[<<k, q>>]
  <2> TAKE k \in Kinds, q \in Pages
  <2>1. /\ DueOf({}, {}, {p})[<<k, q>>] = (IF q \in {} THEN WalkDue(k, q) ELSE 0)
             + (IF q \in {} THEN ElementDue(k, q) ELSE 0) + (IF q \in {p} THEN BuildDue(k, q) ELSE 0)
        /\ BuildDue(k, q) \in Nat
    BY DueIs
  <2>2. dab[<<k, q>>] + dc[<<k, q>>] = IF q = p THEN BuildDue(k, p) ELSE 0
    <3>1. /\ dab[<<k, q>>] = da[<<k, q>>] + db[<<k, q>>]
          /\ da[<<k, q>>] = IF k = "latex_table" /\ q = p THEN BuildDue("latex_table", p) ELSE 0
          /\ db[<<k, q>>] = IF k = "image" /\ q = p THEN BuildDue("image", p) ELSE 0
          /\ dc[<<k, q>>] = IF k = "text" /\ q = p THEN BuildDue("text", p) ELSE 0
      BY <1>4, <1>13
    <3>2. k \notin {"text", "image", "latex_table"} => BuildDue(k, p) = 0
      BY DEF BuildDue
    <3>3. \A l \in {"text", "image", "latex_table"} : BuildDue(l, p) \in Nat
      BY <1>1, <1>2
    <3>4. CASE k = "text"
      BY <3>1, <3>3, <3>4
    <3>5. CASE k = "image"
      BY <3>1, <3>3, <3>5
    <3>6. CASE k = "latex_table"
      BY <3>1, <3>3, <3>6
    <3>7. CASE k \notin {"text", "image", "latex_table"}
      BY <3>1, <3>2, <3>7
    <3>8. QED
      BY <3>4, <3>5, <3>6, <3>7
  <2>3. QED
    BY <2>1, <2>2
<1>16. DueOf({}, {}, {p}) \in Dues(Pages)
  BY DueIs
<1>17. Fits(Strict, Pages, DueOf({}, {}, {p}), (tables \o b) \o c)
  BY <1>1, <1>4, <1>12, <1>13, <1>14, <1>15, <1>16, FitsConcat
<1>18. QED
  BY <1>17 DEF b, c

\* The rows of elements, and those of one page in the order of the labels.
ElementRow == [kind : Elements, page : Pages, number : Int]
ElementLabels == <<"table", "chart", "infographic">>
LabelsOf(p) ==
  Filtered(ElementLabels, LAMBDA l : l \in Detected[p] \intersect extract_task.elements)
RowsOf(p) == [i \in DOMAIN LabelsOf(p) |-> Row(LabelsOf(p)[i], p, p + 1)]

\* A row of an element is a row.
LEMMA ElementRowIsRow ==
  ASSUME JobTypes
  PROVE  ElementRow \subseteq PdfRows /\ \A s \in Seq(ElementRow) : s \in Seq(PdfRows)
<1>1. ElementRow \subseteq PdfRows
  BY PagesFinite DEF ElementRow, PdfRows, Elements, Kinds
<1>2. QED
  BY <1>1

\* A page has a row for each element that is wanted.
LEMMA RowsOfAre ==
  ASSUME JobTypes, NEW p \in Pages
  PROVE  RowsOf(p) \in Seq(ElementRow) /\ Exactly(Strict, Pages, DueOf({}, {p}, {}), RowsOf(p))
<1> DEFINE L == ElementLabels
           D == Detected[p] \intersect extract_task.elements
           I == {i \in DOMAIN L : L[i] \in D}
           labels == LabelsOf(p)
           s == RowsOf(p)
<1>1. L \in Seq(Elements) /\ Len(L) = 3 /\ DOMAIN L = 1..3 /\ Range(L) = Elements /\ IsInjective(L)
  <2>1. L \in Seq(Elements) /\ Len(L) = 3 /\ DOMAIN L = 1..3
    BY DEF ElementLabels, Elements
  <2>2. L[1] = "table" /\ L[2] = "chart" /\ L[3] = "infographic"
    BY DEF ElementLabels
  <2>3. \A i \in 1..3 : i = 1 \/ i = 2 \/ i = 3
    OBVIOUS
  <2>4. IsInjective(L)
    BY <2>1, <2>2, <2>3 DEF IsInjective
  <2>5. Range(L) = Elements
    BY <2>1, <2>2, <2>3 DEF Range, Elements
  <2>6. QED
    BY <2>1, <2>4, <2>5
<1>2. labels = SelectAt(L, I)
  BY DEF LabelsOf, Filtered
<1>3. I \in SUBSET (1..Len(L))
  BY <1>1
<1>4. labels \in Seq(Elements) /\ Range(labels) = {L[i] : i \in I} /\ IsInjective(labels)
  <2> HIDE DEF L, I, labels
  <2>1. SelectAt(L, I) \in Seq(Elements)
    BY <1>1, <1>3, SelectAtFacts
  <2>2. Range(SelectAt(L, I)) = {L[i] : i \in I} /\ IsInjective(SelectAt(L, I))
    BY <1>1, <1>3, SelectRange
  <2>3. QED
    BY <1>2, <2>1, <2>2
<1>5. Range(labels) = Elements \intersect D
  BY <1>1, <1>4 DEF Range
<1>6. s = [i \in DOMAIN labels |-> Row(labels[i], p, p + 1)]
  BY DEF RowsOf
<1> HIDE DEF L, I, labels, s, D
<1>7. /\ s \in Seq(ElementRow) /\ DOMAIN s = DOMAIN labels /\ DOMAIN s = 1..Len(s)
      /\ \A i \in DOMAIN s : s[i].kind = labels[i] /\ s[i].page = p
  <2>1. Len(labels) \in Nat /\ DOMAIN labels = 1..Len(labels) /\ p \in Int
        /\ \A i \in 1..Len(labels) : labels[i] \in Elements
    BY <1>4, PagesFinite
  <2>2. \A i \in 1..Len(labels) : Row(labels[i], p, p + 1) \in ElementRow
    BY <2>1 DEF Row, ElementRow
  <2>3. s \in Seq(ElementRow) /\ DOMAIN s = 1..Len(labels) /\ Len(s) = Len(labels)
    BY <1>6, <2>1, <2>2
  <2>4. \A i \in DOMAIN s : s[i].kind = labels[i] /\ s[i].page = p
    BY <1>6, <2>1, <2>3 DEF Row
  <2>5. QED
    BY <2>1, <2>3, <2>4
<1>8. s \in Seq(PdfRows)
  BY <1>7, ElementRowIsRow
<1>9. CountIn(s, {Blank}) = 0
  <2>1. \A i \in 1..Len(s) : s[i] # Blank
    <3>1. "blank" \notin Elements /\ Blank.kind = "blank"
      BY DEF Elements, Blank, Row
    <3>2. \A i \in 1..Len(s) : s[i] \in ElementRow
      BY <1>7
    <3>3. \A r \in ElementRow : r.kind \in Elements
      BY DEF ElementRow
    <3>4. QED
      BY <3>1, <3>2, <3>3
  <2>2. \A i \in 1..Len(s) : s[i] \notin {Blank}
    BY <2>1
  <2>3. QED
    BY <1>8, <2>2, CountNone
<1>10. ASSUME NEW k \in Kinds, NEW q \in Pages
       PROVE  CountIn(s, OfPage(k, q)) = DueOf({}, {p}, {})[<<k, q>>]
  <2>1. /\ DueOf({}, {p}, {})[<<k, q>>] = (IF q \in {} THEN WalkDue(k, q) ELSE 0)
             + (IF q \in {p} THEN ElementDue(k, q) ELSE 0) + (IF q \in {} THEN BuildDue(k, q) ELSE 0)
        /\ ElementDue(k, q) \in Nat
    BY DueIs
  <2>2. CASE q # p
    <3>1. \A i \in 1..Len(s) : s[i] \notin OfPage(k, q)
      BY <1>7, <2>2 DEF OfPage
    <3>2. CountIn(s, OfPage(k, q)) = 0
      BY <1>8, <3>1, CountNone
    <3>3. QED
      BY <2>1, <2>2, <3>2
  <2>3. CASE q = p
    <3>1. \A i \in DOMAIN s : s[i] \in PdfRows
      BY <1>7, <1>8
    <3>2. Hits(s, OfPage(k, p)) = Hits(labels, {k})
      BY <1>7, <3>1 DEF Hits, OfPage
    <3>3. CountIn(s, OfPage(k, p)) = IF k \in Range(labels) THEN 1 ELSE 0
      BY <1>4, <3>2, CountInjective DEF CountIn
    <3>4. ElementDue(k, p) = IF k \in Range(labels) THEN 1 ELSE 0
      BY <1>5 DEF ElementDue, Flag, D
    <3>5. QED
      BY <2>1, <2>3, <3>3, <3>4
  <2>4. QED
    BY <2>2, <2>3
<1>11. ASSUME NEW k \in Kinds, NEW q \in Pages
       PROVE  /\ CountIn(s, OfPage(k, q)) <= DueOf({}, {p}, {})[<<k, q>>]
              /\ k \in Strict => CountIn(s, OfPage(k, q)) = DueOf({}, {p}, {})[<<k, q>>]
  <2>1. DueOf({}, {p}, {})[<<k, q>>] \in Nat
    BY DueIs DEF Dues
  <2>2. QED
    BY <1>10, <2>1
<1>12. Exactly(Strict, Pages, DueOf({}, {p}, {}), s)
  BY <1>8, <1>9, <1>11 DEF Exactly
<1>13. QED
  BY <1>7, <1>12 DEF s

\* What the elements alone owe.
LEMMA ElementsDue ==
  ASSUME JobTypes, NEW G, NEW k \in Kinds, NEW p \in Pages
  PROVE  /\ DueOf({}, G, {})[<<k, p>>] = IF p \in G THEN ElementDue(k, p) ELSE 0
         /\ ElementDue(k, p) \in Nat
<1>1. /\ DueOf({}, G, {})[<<k, p>>] = (IF p \in {} THEN WalkDue(k, p) ELSE 0)
           + (IF p \in G THEN ElementDue(k, p) ELSE 0) + (IF p \in {} THEN BuildDue(k, p) ELSE 0)
      /\ ElementDue(k, p) \in Nat
  BY DueIs
<1>2. QED
  BY <1>1

\* The rows of a call's pages, one of which may be blank.
LEMMA ElementRowsFit ==
  ASSUME JobTypes, NEW pages \in Seq(Pages), IsInjective(pages),
         NEW rows \in OneBlank(ElementRows(pages))
  PROVE  Fits(Strict, Pages, DueOf({}, Range(pages), {}), rows)
<1> DEFINE n == Len(pages)
           seqs == [i \in DOMAIN pages |-> RowsOf(pages[i])]
           s == ElementRows(pages)
           First(i) == {pages[j] : j \in 1..i}
<1>1. n \in Nat /\ DOMAIN pages = 1..n /\ \A i \in 1..n : pages[i] \in Pages
  OBVIOUS
<1>2. seqs \in Seq(Seq(ElementRow)) /\ Len(seqs) = n /\ \A i \in 1..n : seqs[i] = RowsOf(pages[i])
  <2>1. \A i \in 1..n : RowsOf(pages[i]) \in Seq(ElementRow)
    BY <1>1, RowsOfAre
  <2>2. QED
    BY <1>1, <2>1
<1>3. s = FlattenSeq(seqs)
  BY DEF ElementRows, RowsOf, LabelsOf, ElementLabels
<1> HIDE DEF seqs, s, n
<1>4. PICK f \in [0..n -> Seq(ElementRow)] :
        /\ f[0] = <<>> /\ f[n] = s
        /\ \A i \in 1..n : f[i] = f[i - 1] \o RowsOf(pages[i])
  <2>1. PICK f \in [0..Len(seqs) -> Seq(ElementRow)] :
          /\ f[0] = <<>> /\ f[Len(seqs)] = FlattenSeq(seqs)
          /\ \A i \in 1..Len(seqs) : f[i] = f[i - 1] \o seqs[i]
    BY <1>2, FlattenFacts
  <2>2. QED
    BY <1>2, <1>3, <2>1
<1> DEFINE Good == {i \in 0..n : Exactly(Strict, Pages, DueOf({}, First(i), {}), f[i])}
<1>5. /\ Strict \in SUBSET Kinds /\ IsFiniteSet(Pages) /\ Pages \in SUBSET Int
      /\ \A G : DueOf({}, G, {}) \in Dues(Pages)
  BY PagesFinite, DueIs
<1>6. 0 \in Good
  <2>1. First(0) = {} /\ 0 \in 0..n
    BY <1>1
  <2>2. ASSUME NEW k \in Kinds, NEW p \in Pages
        PROVE  CountIn(<<>>, OfPage(k, p)) = 0 /\ DueOf({}, {}, {})[<<k, p>>] = 0
    <3>1. <<>> \in Seq(PdfRows) /\ \A i \in 1..Len(<<>>) : <<>>[i] \notin OfPage(k, p)
      OBVIOUS
    <3>2. CountIn(<<>>, OfPage(k, p)) = 0
      BY <3>1, CountNone
    <3>3. DueOf({}, {}, {})[<<k, p>>] = (IF p \in {} THEN WalkDue(k, p) ELSE 0)
            + (IF p \in {} THEN ElementDue(k, p) ELSE 0) + (IF p \in {} THEN BuildDue(k, p) ELSE 0)
      BY DueIs
    <3>4. DueOf({}, {}, {})[<<k, p>>] = 0
      BY <3>3
    <3>5. QED
      BY <3>2, <3>4
  <2>3. <<>> \in Seq(PdfRows) /\ CountIn(<<>>, {Blank}) = 0
    <3>1. <<>> \in Seq(PdfRows) /\ \A i \in 1..Len(<<>>) : <<>>[i] \notin {Blank}
      OBVIOUS
    <3>2. QED
      BY <3>1, CountNone
  <2>4. Exactly(Strict, Pages, DueOf({}, {}, {}), <<>>)
    BY <2>2, <2>3 DEF Exactly
  <2>5. QED
    BY <1>4, <2>1, <2>4
<1>7. ASSUME NEW i \in 1..n, i - 1 \in Good PROVE i \in Good
  <2> DEFINE p == pages[i]
             d == DueOf({}, First(i - 1), {})
             e == DueOf({}, {p}, {})
             g == DueOf({}, First(i), {})
  <2>1. p \in Pages /\ p \notin First(i - 1) /\ First(i) = First(i - 1) \union {p}
    <3>1. i \in Nat /\ i - 1 \in 0..n /\ 1..i = (1..i - 1) \union {i}
      BY <1>1
    <3>2. ASSUME NEW j \in 1..i - 1 PROVE pages[j] # pages[i]
      <4>1. j \in 1..n /\ j # i
        BY <1>1, <3>1
      <4>2. QED
        BY <1>1, <4>1 DEF IsInjective
    <3>3. p \notin First(i - 1)
      BY <3>2
    <3>4. First(i) = First(i - 1) \union {p}
      BY <3>1
    <3>5. QED
      BY <1>1, <3>3, <3>4
  <2>2. f[i] = f[i - 1] \o RowsOf(p) /\ Exactly(Strict, Pages, d, f[i - 1])
    BY <1>4, <1>7
  <2>3. Exactly(Strict, Pages, e, RowsOf(p))
    BY <2>1, RowsOfAre
  <2>4. \A k \in Kinds, q \in Pages : g[<<k, q>>] = d[<<k, q>>] + e[<<k, q>>]
    <3>1. ASSUME NEW G, NEW F, NEW H, G \intersect F = {}, H = G \union F,
                 NEW k \in Kinds, NEW q \in Pages
          PROVE  DueOf({}, H, {})[<<k, q>>] = DueOf({}, G, {})[<<k, q>>] + DueOf({}, F, {})[<<k, q>>]
      <4>1. DueOf({}, H, {})[<<k, q>>] = IF q \in H THEN ElementDue(k, q) ELSE 0
        BY ElementsDue
      <4>2. DueOf({}, G, {})[<<k, q>>] = IF q \in G THEN ElementDue(k, q) ELSE 0
        BY ElementsDue
      <4>3. DueOf({}, F, {})[<<k, q>>] = IF q \in F THEN ElementDue(k, q) ELSE 0
        BY ElementsDue
      <4>4. ElementDue(k, q) \in Nat
        BY ElementsDue
      <4>5. QED
        BY <3>1, <4>1, <4>2, <4>3, <4>4
    <3> DEFINE A == First(i - 1)
               C == First(i)
               S == {p}
    <3>2. A \intersect S = {} /\ C = A \union S
      <4> HIDE DEF First, p
      <4>1. QED
        BY <2>1
    <3>3. d = DueOf({}, A, {}) /\ e = DueOf({}, S, {}) /\ g = DueOf({}, C, {})
      OBVIOUS
    <3> HIDE DEF A, C, S, d, e, g
    <3> TAKE k \in Kinds, q \in Pages
    <3>4. DueOf({}, C, {})[<<k, q>>] = DueOf({}, A, {})[<<k, q>>] + DueOf({}, S, {})[<<k, q>>]
      BY <3>1, <3>2
    <3>5. QED
      BY <3>3, <3>4
  <2>5. d \in Dues(Pages) /\ e \in Dues(Pages) /\ g \in Dues(Pages)
    BY <1>5
  <2> HIDE DEF d, e, g, p
  <2>6. Exactly(Strict, Pages, g, f[i])
    BY <1>5, <2>2, <2>3, <2>4, <2>5, ExactlyConcat
  <2>7. i \in 0..n
    BY <1>1
  <2>8. QED
    BY <2>6, <2>7 DEF g
<1>8. Exactly(Strict, Pages, DueOf({}, First(n), {}), s)
  <2> HIDE DEF Good
  <2>1. \A i \in 0..n : i \in Good
    BY <1>1, <1>6, <1>7, UpTo
  <2>2. n \in Good
    BY <1>1, <2>1
  <2>3. QED
    BY <1>4, <2>2 DEF Good
<1>9. First(n) = Range(pages)
  BY <1>1 DEF Range
<1> DEFINE due == DueOf({}, Range(pages), {})
<1>10. Exactly(Strict, Pages, due, s) /\ due \in Dues(Pages)
  BY <1>5, <1>8, <1>9
<1>11. s \in Seq(ElementRow)
  BY <1>1, <1>4
<1> HIDE DEF First, Good, due
<1>12. CASE rows = s
  BY <1>5, <1>10, <1>12, FitsExactly DEF due
<1>13. ASSUME NEW i \in 1..Len(s), rows = [s EXCEPT ![i] = Blank]
       PROVE  Fits(Strict, Pages, due, rows)
  <2>1. s[i].kind \in Strict /\ s[i].page \in Pages
    <3>1. s[i] \in ElementRow
      BY <1>11
    <3>2. s[i].kind \in Elements /\ s[i].page \in Pages
      BY <3>1 DEF ElementRow
    <3>3. Elements \subseteq Strict
      BY DEF Elements, Strict, Kinds
    <3>4. QED
      BY <3>2, <3>3
  <2>2. QED
    BY <1>5, <1>10, <1>13, <2>1, FitsBlanked
<1>14. rows = s \/ \E i \in 1..Len(s) : rows = [s EXCEPT ![i] = Blank]
  <2>1. DOMAIN s = 1..Len(s)
    BY <1>11
  <2>2. QED
    BY <2>1 DEF OneBlank, s
<1>15. QED
  BY <1>12, <1>13, <1>14 DEF due

-----------------------------------------------------------------------------
(* The rows so far. *)

\* The pages that pdfium walked, those in collected calls, those that were built.
WalkedPages == IF Pdfium THEN 0..page_idx - 1 ELSE {}
Gathered(m) ==
  {p \in Nat : \E f \in CallsOf(m) : futures[f].state = "collected" /\ p \in Range(futures[f].pages)}
BuiltPages == Gathered("parser") \ Range(parser_results)

\* The rows are those due so far; what a call answered, and what is yet to be built, as well.
Tally == Fits(Strict, Pages, DueOf(WalkedPages, Gathered("yolox"), BuiltPages), extracted_data)
AnswersOwn ==
  \A f \in CallsOf("yolox") :
    futures[f].state = "answered" => futures[f].rows \in OneBlank(ElementRows(futures[f].pages))
ResultsOnce == IsInjective(parser_results) /\ Range(parser_results) \subseteq Gathered("parser")

RowsInv == TextInv /\ JobTypes /\ AnswersOwn /\ ResultsOnce /\ Tally

\* What is due depends on the job alone.
LEMMA DueKept ==
  ASSUME UNCHANGED pdfJob
  PROVE  /\ Strict' = Strict /\ Pages' = Pages /\ (JobTypes => JobTypes')
         /\ \A W, G, B : WalkedPages' = W /\ Gathered("yolox")' = G /\ BuiltPages' = B =>
              DueOf(WalkedPages, Gathered("yolox"), BuiltPages)' = DueOf(W, G, B)
<1>1. extract_task' = extract_task /\ page_count' = page_count
  BY DEF pdfJob
<1>2. Strict' = Strict /\ Pages' = Pages /\ (JobTypes => JobTypes')
  BY <1>1 DEF Strict, Pages, JobTypes, Pdfium
<1>3. ASSUME NEW W, NEW G, NEW B,
             WalkedPages' = W, Gathered("yolox")' = G, BuiltPages' = B
      PROVE  DueOf(WalkedPages, Gathered("yolox"), BuiltPages)' = DueOf(W, G, B)
  BY <1>1, <1>2, <1>3 DEF DueOf, WalkDue, ElementDue, BuildDue, LatexRows, PictureRows, TextDepth, Pdfium
<1>4. QED
  BY <1>2, <1>3

\* A step that makes more rows due adds them.
LEMMA TallyGrows ==
  ASSUME JobTypes, Tally, UNCHANGED pdfJob, NEW W, NEW G, NEW B, NEW chunk,
         WalkedPages \intersect W = {}, WalkedPages' = WalkedPages \union W,
         Gathered("yolox") \intersect G = {}, Gathered("yolox")' = Gathered("yolox") \union G,
         BuiltPages \intersect B = {}, BuiltPages' = BuiltPages \union B,
         extracted_data' = extracted_data \o chunk,
         Fits(Strict, Pages, DueOf(W, G, B), chunk)
  PROVE  Tally'
<1>9. ASSUME NEW k \in Kinds, NEW p \in Pages
      PROVE  DueOf(WalkedPages \union W, Gathered("yolox") \union G, BuiltPages \union B)[<<k, p>>] =
               DueOf(WalkedPages, Gathered("yolox"), BuiltPages)[<<k, p>>] + DueOf(W, G, B)[<<k, p>>]
  <2> DEFINE P == WalkedPages
             Q == Gathered("yolox")
             R == BuiltPages
             X == P \union W
             Y == Q \union G
             Z == R \union B
  <2>1. ~(p \in P /\ p \in W) /\ ~(p \in Q /\ p \in G) /\ ~(p \in R /\ p \in B)
    OBVIOUS
  <2>2. X = P \union W /\ Y = Q \union G /\ Z = R \union B
    OBVIOUS
  <2> HIDE DEF P, Q, R, X, Y, Z
  <2>3. DueOf(X, Y, Z)[<<k, p>>] = DueOf(P, Q, R)[<<k, p>>] + DueOf(W, G, B)[<<k, p>>]
    BY <2>1, <2>2, DueAdds
  <2>4. QED
    BY <2>3 DEF P, Q, R, X, Y, Z
<1> DEFINE d == DueOf(WalkedPages, Gathered("yolox"), BuiltPages)
           e == DueOf(W, G, B)
           f == DueOf(WalkedPages \union W, Gathered("yolox") \union G, BuiltPages \union B)
<1>1. d \in Dues(Pages) /\ e \in Dues(Pages) /\ f \in Dues(Pages)
  BY DueIs
<1>2. \A k \in Kinds, p \in Pages : f[<<k, p>>] = d[<<k, p>>] + e[<<k, p>>]
  BY <1>9
<1>3. Strict \in SUBSET Kinds /\ IsFiniteSet(Pages)
  BY PagesFinite
<1>4. Fits(Strict, Pages, d, extracted_data) /\ Fits(Strict, Pages, e, chunk)
  BY DEF Tally
<1>5. DueOf(WalkedPages, Gathered("yolox"), BuiltPages)' = f
  BY DueKept
<1>6. Strict' = Strict /\ Pages' = Pages
  BY DueKept
<1> HIDE DEF d, e, f
<1>7. Fits(Strict, Pages, f, extracted_data \o chunk)
  BY <1>1, <1>2, <1>3, <1>4, FitsConcat
<1>8. QED
  BY <1>5, <1>6, <1>7 DEF Tally, Fits

\* Rows of no page make nothing due.
LEMMA NoneDue ==
  ASSUME JobTypes, NEW s \in Seq(PdfRows),
         \A i \in 1..Len(s) : s[i].kind \notin Kinds \union {"blank"}
  PROVE  Fits(Strict, Pages, DueOf({}, {}, {}), s)
<1>1. Strict \in SUBSET Kinds /\ IsFiniteSet(Pages) /\ DueOf({}, {}, {}) \in Dues(Pages)
  BY PagesFinite, DueIs
<1>2. CountIn(s, {Blank}) = 0
  <2>1. Blank.kind = "blank"
    BY DEF Blank, Row
  <2>2. \A i \in 1..Len(s) : s[i] \notin {Blank}
    BY <2>1
  <2>3. QED
    BY <2>2, CountNone
<1>3. ASSUME NEW k \in Kinds, NEW p \in Pages
      PROVE  CountIn(s, OfPage(k, p)) = 0 /\ DueOf({}, {}, {})[<<k, p>>] = 0
  <2>1. \A i \in 1..Len(s) : s[i] \notin OfPage(k, p)
    BY DEF OfPage
  <2>2. CountIn(s, OfPage(k, p)) = 0
    BY <2>1, CountNone
  <2>3. DueOf({}, {}, {})[<<k, p>>] = IF p \in {} THEN ElementDue(k, p) ELSE 0
    BY ElementsDue
  <2>4. QED
    BY <2>2, <2>3
<1>4. Exactly(Strict, Pages, DueOf({}, {}, {}), s)
  BY <1>2, <1>3 DEF Exactly
<1>5. QED
  BY <1>1, <1>4, FitsExactly

\* A step that neither adds rows nor makes any due.
LEMMA TallyStays ==
  ASSUME Tally, UNCHANGED <<pdfJob, extracted_data>>, WalkedPages' = WalkedPages,
         Gathered("yolox")' = Gathered("yolox"), BuiltPages' = BuiltPages
  PROVE  Tally'
<1>1. UNCHANGED pdfJob /\ extracted_data' = extracted_data
  OBVIOUS
<1>2. DueOf(WalkedPages, Gathered("yolox"), BuiltPages)'
        = DueOf(WalkedPages, Gathered("yolox"), BuiltPages)
  BY <1>1, DueKept
<1>3. Strict' = Strict /\ Pages' = Pages
  BY <1>1, DueKept
<1>4. QED
  BY <1>1, <1>2, <1>3 DEF Tally, Fits

\* The pages of a call are pages of the document, each once.
LEMMA CallPages ==
  ASSUME BatchInv, NEW m \in Models, NEW f \in CallsOf(m)
  PROVE  futures[f].pages \in Seq(Pages) /\ IsInjective(futures[f].pages)
<1> DEFINE s == futures[f].pages
           w == Len(Waiting(m))
<1>1. Wanted(m) /\ Batches(m) /\ OwnBatch(m)
  BY DEF BatchInv, Batches
<1>2. s \in Seq(Nat) /\ page_idx \in 0..page_count /\ page_count \in Nat /\ w \in Nat
  BY CallTypes DEF BatchInv, PdfTypes, CallsOf, Waiting
<1>3. PICK k \in Nat : /\ Run(s, k) /\ Len(s) \in 1..BatchSize
                       /\ BatchSize * k + Len(s) <= page_idx - w
  BY <1>1 DEF OwnBatch
<1>4. BatchSize * k \in Nat /\ Len(s) \in Nat
  <2>1. BatchSize * k \in Nat
    BY ProductNatural
  <2>2. Len(s) \in Nat
    BY <1>2
  <2>3. QED
    BY <2>1, <2>2
<1> DEFINE start == BatchSize * k
<1>5. start \in Nat /\ start + Len(s) <= page_idx - w /\ \A i \in 1..Len(s) : s[i] = start + i - 1
  BY <1>3, <1>4 DEF Run
<1> HIDE DEF start, s, w
<1>6. \A i \in 1..Len(s) : s[i] \in 0..page_count - 1
  BY <1>2, <1>4, <1>5
<1>7. s \in Seq(Pages)
  BY <1>2, <1>6 DEF Pages
<1>8. \A i, j \in 1..Len(s) : s[i] = s[j] => i = j
  BY <1>4, <1>5
<1>9. IsInjective(s)
  BY <1>2, <1>8, Injective
<1>10. QED
  BY <1>7, <1>9 DEF s

\* No two calls of a model share a page.
LEMMA CallsApart ==
  ASSUME BatchInv, NEW m \in Models, NEW f \in CallsOf(m), NEW g \in CallsOf(m),
         NEW p, p \in Range(futures[f].pages), p \in Range(futures[g].pages)
  PROVE  f = g
<1>1. OwnBatch(m) /\ \A h \in CallsOf(m) : futures[h].pages \in Seq(Nat)
  BY CallTypes DEF BatchInv, Batches, CallsOf
<1>2. PICK i \in 1..Len(futures[f].pages) : futures[f].pages[i] = p
  BY <1>1, RangeIs, ZenonT(40)
<1>3. PICK j \in 1..Len(futures[g].pages) : futures[g].pages[j] = p
  BY <1>1, RangeIs, ZenonT(40)
<1>4. QED
  BY <1>1, <1>2, <1>3, OneBatchEach

\* What was collected, and what was answered, stays with its call.
LEMMA ElementRowsKept ==
  ASSUME UNCHANGED pdfJob, NEW f, NEW pages, futures'[f].pages = pages
  PROVE  OneBlank(ElementRows(futures[f].pages))' = OneBlank(ElementRows(pages))
<1>1. extract_task' = extract_task
  BY DEF pdfJob
<1>2. QED
  BY <1>1 DEF OneBlank, ElementRows, Filtered

\* Calls that stay keep what was gathered from them.
LEMMA CallsStayed ==
  ASSUME CallsStay, UNCHANGED pdfJob, AnswersOwn
  PROVE  AnswersOwn' /\ \A m \in Models : Gathered(m)' = Gathered(m)
<1>1. AnswersOwn'
  <2>1. ASSUME NEW f \in CallsOf("yolox")', (futures[f].state = "answered")'
        PROVE  (futures[f].rows \in OneBlank(ElementRows(futures[f].pages)))'
    <3>1. f \in DOMAIN futures' /\ futures'[f].model = "yolox" /\ futures'[f].state = "answered"
      BY <2>1 DEF CallsOf
    <3>2. f \in DOMAIN futures /\ futures'[f] = futures[f]
      BY <3>1 DEF CallsStay
    <3>3. futures[f].rows \in OneBlank(ElementRows(futures[f].pages))
      BY <3>1, <3>2 DEF AnswersOwn, CallsOf
    <3>4. OneBlank(ElementRows(futures[f].pages))' = OneBlank(ElementRows(futures[f].pages))
      BY <3>2, ElementRowsKept
    <3>5. QED
      BY <3>2, <3>3, <3>4
  <2>2. QED
    BY <2>1 DEF AnswersOwn
<1>2. ASSUME NEW m \in Models PROVE Gathered(m)' = Gathered(m)
  <2>1. \A f : f \in CallsOf(m)' /\ futures'[f].state = "collected"
                 <=> f \in CallsOf(m) /\ futures[f].state = "collected"
    BY DEF CallsStay, CallsOf
  <2>2. \A f \in CallsOf(m) : futures'[f] = futures[f]
    BY DEF CallsStay, CallsOf
  <2>3. \A p : p \in Gathered(m)' <=> p \in Gathered(m)
    BY <2>1, <2>2 DEF Gathered
  <2>4. QED
    BY <2>3
<1>3. QED
  BY <1>1, <1>2

\* The pages that were walked, while the engine does not walk.
LEMMA WalkKept ==
  ASSUME UNCHANGED <<pdfJob, page_idx>>
  PROVE  WalkedPages' = WalkedPages
BY DEF WalkedPages, Pdfium, pdfJob

\* The walk leaves no more rows than are due.
LEMMA RowsWalk ==
  ASSUME RowsInv, PdfiumPage \/ ParserPage \/ Leftovers
  PROVE  RowsInv'
<1>1. TextInv' /\ CallsStay /\ UNCHANGED <<pdfJob, parser_results>>
  <2>1. TextInv'
    BY TextWalk DEF RowsInv
  <2>2. CallsStay
    BY BatchPdfiumPage, BatchParserPage, BatchLeftovers DEF RowsInv, TextInv
  <2>3. UNCHANGED <<pdfJob, parser_results>>
    BY DEF PdfiumPage, ParserPage, Leftovers
  <2>4. QED
    BY <2>1, <2>2, <2>3
<1>2. AnswersOwn' /\ Gathered("parser")' = Gathered("parser") /\ Gathered("yolox")' = Gathered("yolox")
  BY <1>1, CallsStayed DEF RowsInv, Models
<1>3. JobTypes' /\ BuiltPages' = BuiltPages /\ ResultsOnce'
  <2>1. JobTypes'
    BY <1>1 DEF RowsInv, JobTypes, pdfJob
  <2>2. BuiltPages' = BuiltPages /\ ResultsOnce'
    BY <1>1, <1>2 DEF RowsInv, BuiltPages, ResultsOnce, Range
  <2>3. QED
    BY <2>1, <2>2
<1>4. CASE PdfiumPage
  <2>1. PICK pictures \in SUBSET {page_idx} :
          extracted_data' = extracted_data \o PdfiumRows(page_idx, pictures)
    BY <1>4 DEF PdfiumPage
  <2>2. Pdfium /\ page_idx < page_count /\ page_idx' = page_idx + 1 /\ page_idx \in Nat /\ page_count \in Nat
    BY <1>4 DEF PdfiumPage, RowsInv, TextInv, BatchInv, PdfTypes
  <2>3. page_idx \in Pages
    BY <2>2 DEF Pages
  <2>4. /\ WalkedPages' = WalkedPages \union {page_idx} /\ WalkedPages \intersect {page_idx} = {}
    <3>1. WalkedPages = 0..page_idx - 1 /\ WalkedPages' = 0..page_idx' - 1
      BY <1>1, <2>2 DEF WalkedPages, Pdfium, pdfJob
    <3>2. QED
      BY <2>2, <3>1
  <2>5. Fits(Strict, Pages, DueOf({page_idx}, {}, {}), PdfiumRows(page_idx, pictures))
    BY <2>2, <2>3, PdfiumRowsFit DEF RowsInv
  <2>6. /\ Gathered("yolox") \intersect {} = {} /\ Gathered("yolox")' = Gathered("yolox") \union {}
        /\ BuiltPages \intersect {} = {} /\ BuiltPages' = BuiltPages \union {}
    BY <1>2, <1>3
  <2>7. Tally'
    BY <1>1, <2>1, <2>4, <2>5, <2>6, TallyGrows DEF RowsInv
  <2>8. QED
    BY <1>1, <1>2, <1>3, <2>7 DEF RowsInv
<1>5. CASE ParserPage \/ Leftovers
  <2>1. extracted_data' = extracted_data /\ WalkedPages' = WalkedPages
    BY <1>1, <1>5 DEF ParserPage, Leftovers, WalkedPages, Pdfium, pdfJob
  <2>2. Tally'
    BY <1>1, <1>2, <1>3, <2>1, TallyStays DEF RowsInv
  <2>3. QED
    BY <1>1, <1>2, <1>3, <2>2 DEF RowsInv
<1>6. QED
  BY <1>4, <1>5

\* A call that answers or fails was not collected and is not.
LEMMA RowsAnswers ==
  ASSUME RowsInv, NEW f \in DOMAIN futures,
         ElementsAnswer(f) \/ ParserAnswers(f) \/ InferenceFails(f)
  PROVE  RowsInv'
<1>1. /\ UNCHANGED <<pdfJob, page_idx, parser_results, extracted_data>>
      /\ futures[f].state # "collected"
  BY ZenonT(40) DEF ElementsAnswer, ParserAnswers, InferenceFails, Running, Over
<1> DEFINE Moved(x, rows) ==
             /\ \/ futures' = [futures EXCEPT ![f].state = x]
                \/ futures' = [futures EXCEPT ![f].state = x, ![f].rows = rows]
             /\ x = "answered" /\ futures[f].model = "yolox" =>
                  /\ futures' = [futures EXCEPT ![f].state = x, ![f].rows = rows]
                  /\ rows \in OneBlank(ElementRows(futures[f].pages))
<1>12. PICK x \in States \ {"collected"} : \E rows : Moved(x, rows)
  <2>1. CASE ElementsAnswer(f)
    <3>1. PICK rows \in OneBlank(ElementRows(futures[f].pages)) :
            futures' = [futures EXCEPT ![f].state = "answered", ![f].rows = rows]
      BY <2>1 DEF ElementsAnswer
    <3>2. Moved("answered", rows) /\ "answered" \in States \ {"collected"}
      BY <3>1 DEF States
    <3> HIDE DEF Moved
    <3>3. QED
      BY <3>2
  <2>2. CASE ParserAnswers(f)
    <3>1. Moved("answered", <<>>) /\ "answered" \in States \ {"collected"}
      BY <2>2 DEF ParserAnswers, States
    <3> HIDE DEF Moved
    <3>2. QED
      BY <3>1
  <2>3. CASE InferenceFails(f)
    <3>1. Moved("failed", <<>>) /\ "failed" \in States \ {"collected"}
      BY <2>3 DEF InferenceFails, States
    <3> HIDE DEF Moved
    <3>2. QED
      BY <3>1
  <2>4. QED
    BY <2>1, <2>2, <2>3, ZenonT(40)
<1>2. PICK rows : Moved(x, rows)
  BY <1>12
<1>3. PICK R : futures \in Seq(Calls(R))
  BY SMTT(40) DEF RowsInv, TextInv, BatchInv, PdfTypes
<1>4. /\ DOMAIN futures' = DOMAIN futures
      /\ \A g \in DOMAIN futures :
           /\ futures'[g].model = futures[g].model /\ futures'[g].pages = futures[g].pages
           /\ futures'[g].state = IF g = f THEN x ELSE futures[g].state
  <2>1. \/ futures' = [futures EXCEPT ![f].state = x]
        \/ \E r : futures' = [futures EXCEPT ![f].state = x, ![f].rows = r]
    BY <1>2
  <2>2. x \in States
    OBVIOUS
  <2> HIDE DEF Moved
  <2>3. QED
    BY <1>3, <2>1, <2>2, StateMoves
<1>5. /\ \A g \in DOMAIN futures : g # f => futures'[g] = futures[g]
      /\ x = "answered" /\ futures[f].model = "yolox" => futures'[f].rows = rows
  <2>1. futures[f] \in Calls(R)
    BY <1>3
  <2>2. QED
    BY <1>2, <2>1 DEF Calls
<1>6. ASSUME NEW m \in Models PROVE Gathered(m)' = Gathered(m)
  <2>1. \A g : g \in CallsOf(m)' <=> g \in CallsOf(m)
    BY <1>4 DEF CallsOf
  <2>2. \A g \in CallsOf(m) : futures'[g].state = "collected" <=> futures[g].state = "collected"
    BY <1>1, <1>2, <1>4 DEF CallsOf
  <2>3. \A g \in CallsOf(m) : futures'[g].pages = futures[g].pages
    BY <1>4 DEF CallsOf
  <2>4. \A p : p \in Gathered(m)' <=> p \in Gathered(m)
    BY <2>1, <2>2, <2>3 DEF Gathered
  <2>5. QED
    BY <2>4
<1>7. AnswersOwn'
  <2>1. ASSUME NEW g \in CallsOf("yolox")', (futures[g].state = "answered")'
        PROVE  (futures[g].rows \in OneBlank(ElementRows(futures[g].pages)))'
    <3>1. g \in CallsOf("yolox") /\ futures'[g].state = "answered" /\ futures'[g].pages = futures[g].pages
      BY <1>4, <2>1 DEF CallsOf
    <3>2. OneBlank(ElementRows(futures[g].pages))' = OneBlank(ElementRows(futures[g].pages))
      BY <1>1, <3>1, ElementRowsKept
    <3>3. CASE g = f
      BY <1>2, <1>4, <1>5, <3>1, <3>2, <3>3 DEF CallsOf
    <3>4. CASE g # f
      <4>1. futures'[g] = futures[g]
        BY <1>5, <3>1, <3>4 DEF CallsOf
      <4>2. QED
        BY <3>1, <3>2, <4>1 DEF RowsInv, AnswersOwn
    <3>5. QED
      BY <3>3, <3>4
  <2>2. QED
    BY <2>1 DEF AnswersOwn
<1>8. BuiltPages' = BuiltPages /\ ResultsOnce' /\ JobTypes'
  <2>1. Gathered("parser")' = Gathered("parser")
    BY <1>6 DEF Models
  <2>2. QED
    BY <1>1, <2>1 DEF RowsInv, BuiltPages, ResultsOnce, Range, JobTypes, pdfJob
<1>9. Tally'
  <2>1. Gathered("yolox")' = Gathered("yolox")
    BY <1>6 DEF Models
  <2>2. QED
    BY <1>1, <1>8, <2>1, WalkKept, TallyStays DEF RowsInv
<1>10. TextInv'
  BY TextAnswers DEF RowsInv
<1>11. QED
  BY <1>7, <1>8, <1>9, <1>10 DEF RowsInv

\* The rows of a call are added when it is collected; the pages a parser read are to be built.
LEMMA RowsCollects ==
  ASSUME RowsInv, NEW f \in DOMAIN futures, Collect(f)
  PROVE  RowsInv'
<1> DEFINE pages == futures[f].pages
           P == Range(pages)
<1>1. /\ futures[f].state = "answered"
      /\ futures' = [futures EXCEPT ![f].state = "collected"]
      /\ UNCHANGED <<pdfJob, page_idx>>
      /\ IF futures[f].model = "yolox"
         THEN extracted_data' = extracted_data \o futures[f].rows /\ UNCHANGED parser_results
         ELSE parser_results' = parser_results \o pages /\ UNCHANGED extracted_data
  BY DEF Collect
<1>2. PICK R : futures \in Seq(Calls(R))
  BY DEF RowsInv, TextInv, BatchInv, PdfTypes
<1>3. /\ DOMAIN futures' = DOMAIN futures
      /\ \A g \in DOMAIN futures :
           /\ futures'[g].model = futures[g].model /\ futures'[g].pages = futures[g].pages
           /\ futures'[g].state = IF g = f THEN "collected" ELSE futures[g].state
           /\ g # f => futures'[g] = futures[g]
  <2>1. /\ DOMAIN futures' = DOMAIN futures
        /\ \A g \in DOMAIN futures :
             /\ futures'[g].model = futures[g].model /\ futures'[g].pages = futures[g].pages
             /\ futures'[g].state = IF g = f THEN "collected" ELSE futures[g].state
    BY <1>1, <1>2, StateMoves DEF States
  <2>2. \A g \in DOMAIN futures : g # f => futures'[g] = futures[g]
    BY <1>1
  <2>3. QED
    BY <2>1, <2>2
<1>4. futures[f].model \in Models /\ pages \in Seq(Nat) /\ BatchInv
  BY CallTypes DEF RowsInv, TextInv, BatchInv
<1>5. pages \in Seq(Pages) /\ IsInjective(pages)
  BY <1>4, CallPages DEF CallsOf
<1>6. ASSUME NEW m \in Models, futures[f].model # m PROVE Gathered(m)' = Gathered(m)
  <2>1. \A g : g \in CallsOf(m)' <=> g \in CallsOf(m)
    BY <1>3 DEF CallsOf
  <2>2. \A g \in CallsOf(m) : futures'[g] = futures[g]
    BY <1>3, <1>6 DEF CallsOf
  <2>3. \A p : p \in Gathered(m)' <=> p \in Gathered(m)
    BY <2>1, <2>2 DEF Gathered
  <2>4. QED
    BY <2>3
<1>7. ASSUME NEW m \in Models, futures[f].model = m
      PROVE  Gathered(m)' = Gathered(m) \union P /\ Gathered(m) \intersect P = {}
  <2>1. f \in CallsOf(m) /\ \A g : g \in CallsOf(m)' <=> g \in CallsOf(m)
    BY <1>3, <1>7 DEF CallsOf
  <2>2. P \subseteq Nat
    BY <1>4, RangeIs
  <2>3. \A g \in CallsOf(m) :
          /\ futures'[g].pages = futures[g].pages
          /\ futures'[g].state = "collected" <=> futures[g].state = "collected" \/ g = f
    BY <1>3 DEF CallsOf
  <2>4. \A p : p \in Gathered(m)' <=> p \in Gathered(m) \/ p \in P
    BY <2>1, <2>2, <2>3 DEF Gathered
  <2>5. ASSUME NEW p \in Gathered(m), p \in P PROVE FALSE
    <3>1. PICK g \in CallsOf(m) : futures[g].state = "collected" /\ p \in Range(futures[g].pages)
      BY DEF Gathered
    <3>2. g = f
      BY <1>4, <2>1, <2>5, <3>1, CallsApart
    <3>3. QED
      BY <1>1, <3>1, <3>2
  <2>6. QED
    BY <2>4, <2>5
<1>8. AnswersOwn'
  <2>1. ASSUME NEW g \in CallsOf("yolox")', (futures[g].state = "answered")'
        PROVE  (futures[g].rows \in OneBlank(ElementRows(futures[g].pages)))'
    <3>1. /\ g \in CallsOf("yolox") /\ futures[g].state = "answered"
          /\ futures'[g].pages = futures[g].pages /\ futures'[g] = futures[g]
      BY <1>3, <2>1 DEF CallsOf
    <3>2. OneBlank(ElementRows(futures[g].pages))' = OneBlank(ElementRows(futures[g].pages))
      BY <1>1, <3>1, ElementRowsKept
    <3>3. QED
      BY <3>1, <3>2 DEF RowsInv, AnswersOwn
  <2>2. QED
    BY <2>1 DEF AnswersOwn
<1>9. TextInv' /\ JobTypes' /\ WalkedPages' = WalkedPages
  BY <1>1, TextCollects, WalkKept DEF RowsInv, JobTypes, pdfJob
<1>10. CASE futures[f].model = "yolox"
  <2>1. /\ Gathered("yolox")' = Gathered("yolox") \union P /\ Gathered("yolox") \intersect P = {}
        /\ Gathered("parser")' = Gathered("parser") /\ parser_results' = parser_results
        /\ extracted_data' = extracted_data \o futures[f].rows
    BY <1>1, <1>6, <1>7, <1>10 DEF Models
  <2>2. BuiltPages' = BuiltPages /\ ResultsOnce'
    BY <2>1 DEF RowsInv, BuiltPages, ResultsOnce, Range
  <2>3. Fits(Strict, Pages, DueOf({}, P, {}), futures[f].rows)
    <3>1. futures[f].rows \in OneBlank(ElementRows(pages))
      BY <1>1, <1>10 DEF RowsInv, AnswersOwn, CallsOf
    <3>2. QED
      BY <1>5, <3>1, ElementRowsFit DEF RowsInv
  <2>4. /\ WalkedPages \intersect {} = {} /\ WalkedPages' = WalkedPages \union {}
        /\ BuiltPages \intersect {} = {} /\ BuiltPages' = BuiltPages \union {}
    BY <1>9, <2>2
  <2> HIDE DEF P
  <2>5. Tally'
    BY <1>1, <2>1, <2>3, <2>4, TallyGrows DEF RowsInv
  <2>6. QED
    BY <1>8, <1>9, <2>2, <2>5 DEF RowsInv
<1>11. CASE futures[f].model = "parser"
  <2>1. /\ Gathered("parser")' = Gathered("parser") \union P /\ Gathered("parser") \intersect P = {}
        /\ Gathered("yolox")' = Gathered("yolox") /\ parser_results' = parser_results \o pages
        /\ extracted_data' = extracted_data
    BY <1>1, <1>6, <1>7, <1>11 DEF Models
  <2>2. /\ Range(parser_results) \subseteq Gathered("parser") /\ IsInjective(parser_results)
        /\ parser_results \in Seq(Nat)
    BY DEF RowsInv, ResultsOnce, TextInv, TextTypes
  <2>3. Range(parser_results') = Range(parser_results) \union P /\ IsInjective(parser_results')
    <3>1. Range(parser_results) \intersect Range(pages) = {}
      BY <2>1, <2>2
    <3>2. QED
      BY <1>4, <1>5, <2>1, <2>2, <3>1, ConcatRange
  <2> HIDE DEF P, pages
  <2>4. ResultsOnce'
    BY <2>1, <2>2, <2>3 DEF ResultsOnce, Range
  <2>5. BuiltPages' = BuiltPages
    <3>1. BuiltPages' = Gathered("parser")' \ Range(parser_results')
      BY DEF BuiltPages, Range
    <3>2. QED
      BY <2>1, <2>3, <3>1 DEF BuiltPages
  <2>6. Tally'
    BY <1>1, <1>9, <2>1, <2>5, TallyStays DEF RowsInv
  <2>7. QED
    BY <1>8, <1>9, <2>4, <2>6 DEF RowsInv
<1>12. QED
  BY <1>4, <1>10, <1>11 DEF Models

\* A page is taken from the results, and its rows are added.
LEMMA RowsBuild ==
  ASSUME RowsInv, BuildPage
  PROVE  RowsInv'
<1> DEFINE p == Head(parser_results)
           text == IF TextDepth = "page" THEN <<Row("text", p, p)>> ELSE <<>>
<1>1. /\ parser_results # <<>> /\ parser_results' = Tail(parser_results)
      /\ UNCHANGED <<pdfJob, page_idx, futures>>
      /\ \E tables \in OneBlank(LatexRows(p)) :
           extracted_data' = extracted_data \o tables \o PictureRows(p) \o text
  BY DEF BuildPage
<1>2. PICK tables \in OneBlank(LatexRows(p)) :
        extracted_data' = extracted_data \o tables \o PictureRows(p) \o text
  BY <1>1
<1>3. /\ parser_results \in Seq(Nat) /\ IsInjective(parser_results)
      /\ Range(parser_results) \subseteq Gathered("parser") /\ ~Pdfium
  BY <1>1 DEF RowsInv, TextInv, TextTypes, ResultsOnce, PdfiumText
<1>4. /\ p \in Range(parser_results) /\ Range(Tail(parser_results)) = Range(parser_results) \ {p}
      /\ IsInjective(Tail(parser_results))
  <2> DEFINE s == parser_results
             t == Tail(parser_results)
  <2>1. /\ s \in Seq(Nat) /\ t \in Seq(Nat) /\ Len(s) \in Nat \ {0} /\ Len(t) = Len(s) - 1
        /\ p = s[1] /\ \A i \in 1..Len(t) : t[i] = s[i + 1]
        /\ \A i, j \in 1..Len(s) : s[i] = s[j] => i = j
    <3>1. \A i, j \in 1..Len(s) : s[i] = s[j] => i = j
      BY <1>3, Injective
    <3>2. Len(s) \in Nat \ {0} /\ p = s[1] /\ t \in Seq(Nat) /\ Len(t) = Len(s) - 1
      BY <1>1, <1>3, HeadTailProperties
    <3>3. \A i \in 1..Len(t) : t[i] = s[i + 1]
      BY <1>1, <1>3, HeadTailProperties
    <3>4. QED
      BY <1>3, <3>1, <3>2, <3>3
  <2> HIDE DEF s, t, p
  <2>2. IsInjective(t)
    <3>1. \A i, j \in 1..Len(t) : t[i] = t[j] => i = j
      <4>1. ASSUME NEW i \in 1..Len(t), NEW j \in 1..Len(t), t[i] = t[j] PROVE i = j
        <5>1. i + 1 \in 1..Len(s) /\ j + 1 \in 1..Len(s) /\ i \in Nat /\ j \in Nat
          BY <2>1
        <5>2. s[i + 1] = s[j + 1]
          BY <2>1, <4>1
        <5>3. i + 1 = j + 1
          BY <2>1, <5>1, <5>2
        <5>4. QED
          BY <5>1, <5>3
      <4>2. QED
        BY <4>1
    <3>2. QED
      BY <2>1, <3>1, Injective
  <2>3. ASSUME NEW x PROVE x \in Range(s) <=> x = p \/ x \in Range(t)
    <3>1. x \in Range(s) <=> \E i \in 1..Len(s) : s[i] = x
      BY <2>1, RangeIs
    <3>2. x \in Range(t) <=> \E i \in 1..Len(t) : t[i] = x
      BY <2>1, RangeIs, SMTT(40)
    <3>3. \A i \in 1..Len(s) : i = 1 \/ (i - 1 \in 1..Len(t) /\ (i - 1) + 1 = i)
      BY <2>1
    <3>4. 1 \in 1..Len(s) /\ \A i \in 1..Len(t) : i + 1 \in 1..Len(s)
      BY <2>1
    <3>5. ASSUME x \in Range(s) PROVE x = p \/ x \in Range(t)
      <4>1. PICK i \in 1..Len(s) : s[i] = x
        BY <3>1, <3>5
      <4>2. i = 1 => x = p
        BY <2>1, <4>1
      <4>3. i - 1 \in 1..Len(t) /\ (i - 1) + 1 = i => t[i - 1] = x
        BY <2>1, <4>1
      <4>4. QED
        BY <3>2, <3>3, <4>2, <4>3
    <3>6. ASSUME x = p \/ x \in Range(t) PROVE x \in Range(s)
      BY <2>1, <3>1, <3>2, <3>4, <3>6
    <3>7. QED
      BY <3>5, <3>6
  <2>4. p \notin Range(t)
    <3>1. ASSUME NEW i \in 1..Len(t), t[i] = p PROVE FALSE
      <4>1. i + 1 \in 1..Len(s) /\ 1 \in 1..Len(s) /\ i \in Nat /\ i > 0
        BY <2>1
      <4>2. s[i + 1] = s[1]
        BY <2>1, <3>1
      <4>3. i + 1 = 1
        BY <2>1, <4>1, <4>2
      <4>4. QED
        BY <4>1, <4>3
    <3>2. QED
      BY <2>1, <3>1, RangeIs
  <2>5. p \in Range(s) /\ Range(t) = Range(s) \ {p}
    BY <2>3, <2>4
  <2>6. QED
    BY <2>2, <2>5 DEF s, t
<1>5. p \in Pages
  <2>1. PICK f \in CallsOf("parser") : p \in Range(futures[f].pages)
    BY <1>3, <1>4 DEF Gathered
  <2>2. futures[f].pages \in Seq(Pages)
    BY CallPages DEF RowsInv, TextInv, Models
  <2>3. QED
    BY <2>1, <2>2, RangeIs
<1>6. \A m \in Models : Gathered(m)' = Gathered(m)
  BY <1>1 DEF Gathered, CallsOf
<1>7. Gathered("parser")' = Gathered("parser") /\ Gathered("yolox")' = Gathered("yolox")
  BY <1>6 DEF Models
<1>8. AnswersOwn'
  <2>1. ASSUME NEW g \in CallsOf("yolox")', (futures[g].state = "answered")'
        PROVE  (futures[g].rows \in OneBlank(ElementRows(futures[g].pages)))'
    <3>1. g \in CallsOf("yolox") /\ futures[g].state = "answered" /\ futures'[g].pages = futures[g].pages
      BY <1>1, <2>1 DEF CallsOf
    <3>2. OneBlank(ElementRows(futures[g].pages))' = OneBlank(ElementRows(futures[g].pages))
      BY <1>1, <3>1, ElementRowsKept
    <3>3. QED
      BY <1>1, <3>1, <3>2 DEF RowsInv, AnswersOwn
  <2>2. QED
    BY <2>1 DEF AnswersOwn
<1>9. TextInv' /\ JobTypes' /\ WalkedPages' = WalkedPages
  BY <1>1, TextOtherSteps, WalkKept DEF RowsInv, JobTypes, pdfJob
<1>10. ResultsOnce'
  BY <1>1, <1>3, <1>4, <1>7 DEF ResultsOnce, Range
<1>11. BuiltPages' = BuiltPages \union {p} /\ BuiltPages \intersect {p} = {}
  <2>1. BuiltPages' = Gathered("parser") \ (Range(parser_results) \ {p})
    BY <1>1, <1>4, <1>7 DEF BuiltPages, Range
  <2> HIDE DEF p
  <2>2. QED
    BY <1>3, <1>4, <2>1 DEF BuiltPages
<1> DEFINE chunk == tables \o PictureRows(p) \o text
<1>12. Fits(Strict, Pages, DueOf({}, {}, {p}), chunk)
  BY <1>3, <1>5, BuiltRowsFit DEF RowsInv
<1>13. extracted_data' = extracted_data \o chunk
  <2>1. extracted_data \in Seq(PdfRows)
    BY DEF RowsInv, Tally, Fits
  <2>2. PictureRows(p) \in Seq(PdfRows) /\ LatexRows(p) \in Seq(PdfRows)
    BY <1>5, ParserRowsAre DEF RowsInv
  <2>3. Blank \in PdfRows /\ Row("text", p, p) \in PdfRows
    <3>1. p \in Int
      BY <1>5, PagesFinite DEF RowsInv
    <3>2. QED
      BY <3>1 DEF PdfRows, Kinds, Row, Blank
  <2>4. tables \in Seq(PdfRows) /\ text \in Seq(PdfRows)
    <3>1. text \in Seq(PdfRows)
      BY <2>3
    <3>2. tables = LatexRows(p) \/ \E i \in DOMAIN LatexRows(p) : tables = [LatexRows(p) EXCEPT ![i] = Blank]
      BY DEF OneBlank
    <3> DEFINE l == LatexRows(p)
    <3> HIDE DEF l
    <3>3. tables \in Seq(PdfRows)
      BY <2>2, <2>3, <3>2 DEF l
    <3>4. QED
      BY <3>1, <3>3
  <2> DEFINE b == PictureRows(p)
  <2>5. b \in Seq(PdfRows)
    BY <2>2
  <2> HIDE DEF b, text, p
  <2>6. (extracted_data \o tables) \o b = extracted_data \o (tables \o b) /\ tables \o b \in Seq(PdfRows)
    BY <2>1, <2>4, <2>5, ConcatAssociative, SMTT(40)
  <2>7. (extracted_data \o (tables \o b)) \o text = extracted_data \o ((tables \o b) \o text)
    BY <2>1, <2>4, <2>6, ConcatAssociative, SMTT(40)
  <2>8. QED
    BY <1>2, <2>6, <2>7 DEF b
<1> HIDE DEF chunk, p
<1>14. Tally'
  <2>1. /\ WalkedPages \intersect {} = {} /\ WalkedPages' = WalkedPages \union {}
        /\ Gathered("yolox") \intersect {} = {} /\ Gathered("yolox")' = Gathered("yolox") \union {}
    BY <1>7, <1>9
  <2>2. QED
    BY <1>1, <1>11, <1>12, <1>13, <2>1, TallyGrows DEF RowsInv
<1>15. QED
  BY <1>8, <1>9, <1>10, <1>14 DEF RowsInv

\* The rest of the steps add the row of the document's text, or nothing.
LEMMA RowsOtherSteps ==
  ASSUME RowsInv,
         \/ \E f \in DOMAIN futures : CollectFailure(f)
         \/ AllCollected \/ Leave \/ BuildFails \/ Finish \/ PageFails
         \/ UNCHANGED pdfVars
  PROVE  RowsInv'
<1>1. UNCHANGED <<pdfJob, page_idx, futures, parser_results>>
  BY DEF CollectFailure, AllCollected, Leave, BuildFails, Finish, PageFails, pdfVars
<1>2. CallsStay
  BY <1>1 DEF CallsStay
<1>3. AnswersOwn' /\ Gathered("parser")' = Gathered("parser") /\ Gathered("yolox")' = Gathered("yolox")
  BY <1>1, <1>2, CallsStayed DEF RowsInv, Models
<1>4. TextInv' /\ JobTypes' /\ WalkedPages' = WalkedPages /\ BuiltPages' = BuiltPages /\ ResultsOnce'
  <2>1. TextInv' /\ WalkedPages' = WalkedPages
    BY <1>1, TextOtherSteps, WalkKept DEF RowsInv
  <2>2. JobTypes'
    BY <1>1 DEF RowsInv, JobTypes, pdfJob
  <2>3. BuiltPages' = BuiltPages /\ ResultsOnce'
    BY <1>1, <1>3 DEF RowsInv, BuiltPages, ResultsOnce, Range
  <2>4. QED
    BY <2>1, <2>2, <2>3
<1>5. CASE extracted_data' = extracted_data
  <2>1. Tally'
    BY <1>1, <1>3, <1>4, <1>5, TallyStays DEF RowsInv
  <2>2. QED
    BY <1>3, <1>4, <2>1 DEF RowsInv
<1>6. CASE extracted_data' = Append(extracted_data, Row("document", -1, -1))
  <2> DEFINE r == Row("document", -1, -1)
             chunk == <<r>>
  <2>1. r \in PdfRows /\ r.kind \notin Kinds \union {"blank"}
    BY DEF Row, PdfRows, Kinds
  <2> HIDE DEF r
  <2>2. chunk \in Seq(PdfRows) /\ \A i \in 1..Len(chunk) : chunk[i].kind \notin Kinds \union {"blank"}
    BY <2>1
  <2>3. extracted_data' = extracted_data \o chunk
    <3>1. extracted_data \in Seq(PdfRows)
      BY DEF RowsInv, Tally, Fits
    <3>2. QED
      BY <1>6, <2>1, <3>1, AppendIsConcat DEF r
  <2> HIDE DEF chunk
  <2>4. Fits(Strict, Pages, DueOf({}, {}, {}), chunk)
    BY <2>2, NoneDue DEF RowsInv
  <2>5. /\ WalkedPages \intersect {} = {} /\ WalkedPages' = WalkedPages \union {}
        /\ Gathered("yolox") \intersect {} = {} /\ Gathered("yolox")' = Gathered("yolox") \union {}
        /\ BuiltPages \intersect {} = {} /\ BuiltPages' = BuiltPages \union {}
    BY <1>3, <1>4
  <2>6. Tally'
    BY <1>1, <2>3, <2>4, <2>5, TallyGrows DEF RowsInv
  <2>7. QED
    BY <1>3, <1>4, <2>6 DEF RowsInv
<1>7. QED
  BY <1>5, <1>6 DEF CollectFailure, AllCollected, Leave, BuildFails, Finish, PageFails, pdfVars

\* Before the extraction no row is due and none is there.
LEMMA RowsInitially == PdfInit => RowsInv
<1> SUFFICES ASSUME PdfInit PROVE RowsInv
  OBVIOUS
<1>1. /\ page_idx = 0 /\ futures = <<>> /\ extracted_data = <<>> /\ parser_results = <<>> /\ JobTypes
  BY DEF PdfInit, JobTypes
<1>2. CallsOf("yolox") = {} /\ CallsOf("parser") = {}
  BY <1>1 DEF CallsOf
<1>3. Gathered("yolox") = {} /\ BuiltPages = {} /\ AnswersOwn
  BY <1>2 DEF Gathered, BuiltPages, AnswersOwn
<1>4. WalkedPages = {}
  BY <1>1 DEF WalkedPages
<1>5. ResultsOnce
  BY <1>1 DEF ResultsOnce, IsInjective, Range
<1>6. Fits(Strict, Pages, DueOf({}, {}, {}), <<>>)
  <2>1. <<>> \in Seq(PdfRows) /\ \A i \in 1..Len(<<>>) : <<>>[i].kind \notin Kinds \union {"blank"}
    OBVIOUS
  <2>2. QED
    BY <1>1, <2>1, NoneDue
<1>7. QED
  BY <1>1, <1>3, <1>4, <1>5, <1>6, TextInitially DEF RowsInv, Tally

\* The tally of rows is inductive.
LEMMA PdfRowsNext == RowsInv /\ [PdfNext]_pdfVars => RowsInv'
<1> SUFFICES ASSUME RowsInv, [PdfNext]_pdfVars PROVE RowsInv'
  OBVIOUS
<1>1. CASE PdfiumPage \/ ParserPage \/ Leftovers
  BY <1>1, RowsWalk
<1>2. CASE \E f \in DOMAIN futures : ElementsAnswer(f) \/ ParserAnswers(f) \/ InferenceFails(f)
  BY <1>2, RowsAnswers
<1>3. CASE \E f \in DOMAIN futures : Collect(f)
  BY <1>3, RowsCollects
<1>4. CASE BuildPage
  BY <1>4, RowsBuild
<1>5. CASE \/ \E f \in DOMAIN futures : CollectFailure(f)
           \/ AllCollected \/ Leave \/ BuildFails \/ Finish \/ PageFails
           \/ UNCHANGED pdfVars
  BY <1>5, RowsOtherSteps
<1>6. QED
  BY <1>1, <1>2, <1>3, <1>4, <1>5 DEF PdfNext, MainThread, PoolThread

\* When the engine is done, every page was walked, gathered or built as the task wants.
LEMMA AllGathered ==
  ASSUME RowsInv, pdf_phase = "done", NEW m \in Models
  PROVE  \A p \in Pages : p \in Gathered(m) <=> Wanted(m)
<1>1. /\ BatchInv /\ page_idx = page_count /\ page_count \in Nat
      /\ \A f \in DOMAIN futures : futures[f].state = "collected"
  BY DEF RowsInv, TextInv, BatchInv, PdfTypes, Walked, AllRead
<1>2. CASE Wanted(m)
  <2>1. Waiting(m) = <<>> /\ AllSent(m)
    BY <1>1, <1>2 DEF BatchInv, Batches, NoneWaits
  <2>2. ASSUME NEW p \in Pages PROVE p \in Gathered(m)
    <3>1. p \in 0..page_idx - Len(Waiting(m)) - 1 /\ p \in Nat
      BY <1>1, <2>1 DEF Pages
    <3>2. PICK f \in CallsOf(m) : \E i \in 1..Len(futures[f].pages) : futures[f].pages[i] = p
      BY <2>1, <3>1 DEF AllSent
    <3>3. futures[f].pages \in Seq(Nat) /\ futures[f].state = "collected"
      BY <1>1, CallTypes DEF BatchInv, CallsOf
    <3>4. p \in Range(futures[f].pages)
      BY <3>2, <3>3, RangeIs
    <3>5. QED
      BY <3>1, <3>3, <3>4 DEF Gathered
  <2>3. QED
    BY <1>2, <2>2
<1>3. CASE ~Wanted(m)
  BY <1>1, <1>3 DEF BatchInv, Gathered
<1>4. QED
  BY <1>2, <1>3

\* What is due in all is what the task is due.
LEMMA DueInAll ==
  ASSUME RowsInv, pdf_phase = "done", NEW k \in Kinds, NEW p \in Pages
  PROVE  DueOf(WalkedPages, Gathered("yolox"), BuiltPages)[<<k, p>>] = Due(k, p)
<1>1. /\ p \in Gathered("yolox") <=> ElementsByModel
      /\ p \in Gathered("parser") <=> ~Pdfium /\ extract_task.text
  BY AllGathered DEF Models, Wanted
<1>2. p \in BuiltPages <=> ~Pdfium /\ extract_task.text
  BY <1>1 DEF RowsInv, TextInv, Built, BuiltPages, Range
<1>3. p \in WalkedPages <=> Pdfium
  <2>1. page_idx = page_count
    BY DEF RowsInv, TextInv, Walked
  <2>2. QED
    BY <2>1 DEF WalkedPages, Pages
<1>4. /\ DueOf(WalkedPages, Gathered("yolox"), BuiltPages)[<<k, p>>] =
           (IF Pdfium THEN WalkDue(k, p) ELSE 0) + (IF ElementsByModel THEN ElementDue(k, p) ELSE 0)
           + (IF ~Pdfium /\ extract_task.text THEN BuildDue(k, p) ELSE 0)
      /\ WalkDue(k, p) \in Nat /\ ElementDue(k, p) \in Nat /\ BuildDue(k, p) \in Nat
  <2> DEFINE W == WalkedPages
             G == Gathered("yolox")
             B == BuiltPages
  <2>1. (p \in W <=> Pdfium) /\ (p \in G <=> ElementsByModel) /\ (p \in B <=> ~Pdfium /\ extract_task.text)
    BY <1>1, <1>2, <1>3
  <2> HIDE DEF W, G, B
  <2>2. /\ DueOf(W, G, B)[<<k, p>>] = (IF p \in W THEN WalkDue(k, p) ELSE 0)
             + (IF p \in G THEN ElementDue(k, p) ELSE 0) + (IF p \in B THEN BuildDue(k, p) ELSE 0)
        /\ WalkDue(k, p) \in Nat /\ ElementDue(k, p) \in Nat /\ BuildDue(k, p) \in Nat
    BY DueIs DEF RowsInv
  <2>3. QED
    BY <2>1, <2>2 DEF W, G, B
<1>5. CASE k \in Elements
  <2>1. WalkDue(k, p) = 0 /\ BuildDue(k, p) = 0
    BY <1>5 DEF Elements, WalkDue, BuildDue
  <2>2. Due(k, p) = Flag(ElementsByModel /\ k \in Detected[p] \intersect extract_task.elements)
    BY <1>5 DEF Due, Elements
  <2>3. QED
    BY <1>4, <1>5, <2>1, <2>2 DEF ElementDue, Flag
<1>6. CASE k = "text"
  <2>1. /\ WalkDue(k, p) = Flag(extract_task.text /\ TextDepth = "page") /\ ElementDue(k, p) = 0
        /\ BuildDue(k, p) = Flag(TextDepth = "page")
        /\ Due(k, p) = Flag(extract_task.text /\ TextDepth = "page")
    BY <1>6 DEF WalkDue, ElementDue, BuildDue, Due, Elements, Flag
  <2>2. QED
    BY <1>4, <2>1 DEF Flag
<1>7. CASE k = "page_image"
  <2>1. /\ WalkDue(k, p) = Flag(extract_task.as_image) /\ ElementDue(k, p) = 0 /\ BuildDue(k, p) = 0
        /\ Due(k, p) = Flag(Pdfium /\ extract_task.as_image)
    BY <1>7 DEF WalkDue, ElementDue, BuildDue, Due, Elements, Flag
  <2>2. QED
    BY <1>4, <2>1 DEF Flag
<1>8. CASE k = "latex_table"
  <2>1. /\ WalkDue(k, p) = 0 /\ ElementDue(k, p) = 0 /\ BuildDue(k, p) = Len(LatexRows(p))
        /\ Due(k, p) = IF Pdfium \/ ~extract_task.text THEN 0 ELSE Len(LatexRows(p))
    BY <1>8 DEF WalkDue, ElementDue, BuildDue, Due, Elements, Flag
  <2>2. QED
    BY <1>4, <2>1
<1>9. CASE k = "image"
  <2>1. /\ WalkDue(k, p) = Flag(extract_task.images /\ p \in Drawn) /\ ElementDue(k, p) = 0
        /\ BuildDue(k, p) = Len(PictureRows(p))
        /\ Due(k, p) = IF Pdfium THEN Flag(extract_task.images /\ p \in Drawn)
                       ELSE IF extract_task.text THEN Len(PictureRows(p)) ELSE 0
    BY <1>9 DEF WalkDue, ElementDue, BuildDue, Due, Elements, Flag
  <2>2. QED
    BY <1>4, <2>1
<1>10. QED
  BY <1>5, <1>6, <1>7, <1>8, <1>9 DEF Kinds, Elements

\* Counting rows and listing them come to the same.
LEMMA Counted ==
  ASSUME extracted_data \in Seq(PdfRows)
  PROVE  /\ \A k, p : Rows(k, p) = CountIn(extracted_data, OfPage(k, p))
         /\ Len(Filtered(extracted_data, LAMBDA r : r = Blank)) = CountIn(extracted_data, {Blank})
<1> DEFINE s == extracted_data
<1>1. s \in Seq(PdfRows) /\ DOMAIN s = 1..Len(s) /\ \A i \in DOMAIN s : s[i] \in PdfRows
  OBVIOUS
<1>2. ASSUME NEW k, NEW p PROVE Rows(k, p) = CountIn(s, OfPage(k, p))
  <2> DEFINE I == {i \in DOMAIN s : s[i].kind = k /\ s[i].page = p}
  <2>1. Rows(k, p) = Len(SelectAt(s, I))
    BY DEF Rows, Filtered
  <2>2. I = Hits(s, OfPage(k, p)) /\ I \in SUBSET (1..Len(s))
    BY <1>1 DEF Hits, OfPage
  <2> HIDE DEF s, I
  <2>3. Len(SelectAt(s, I)) = Cardinality(I)
    BY <1>1, <2>2, SelectAtFacts
  <2>4. QED
    BY <2>1, <2>2, <2>3 DEF CountIn
<1>3. Len(Filtered(s, LAMBDA r : r = Blank)) = CountIn(s, {Blank})
  <2> DEFINE I == {i \in DOMAIN s : s[i] = Blank}
  <2>1. Len(Filtered(s, LAMBDA r : r = Blank)) = Len(SelectAt(s, I))
    BY DEF Filtered
  <2>2. I = Hits(s, {Blank}) /\ I \in SUBSET (1..Len(s))
    BY <1>1 DEF Hits
  <2> HIDE DEF s, I
  <2>3. Len(SelectAt(s, I)) = Cardinality(I)
    BY <1>1, <2>2, SelectAtFacts
  <2>4. QED
    BY <2>1, <2>2, <2>3 DEF CountIn
<1>4. QED
  BY <1>2, <1>3

\* At the end the rows are what was due.
LEMMA RowsInAll ==
  ASSUME RowsInv, pdf_phase = "done"
  PROVE  RowsAsDue
<1> DEFINE due == DueOf(WalkedPages, Gathered("yolox"), BuiltPages)
           BP == Strict \X Pages
           m == [kp \in BP |-> due[kp] - CountIn(extracted_data, OfPage(kp[1], kp[2]))]
           missing == [kp \in BP |-> Missing(kp[1], kp[2])]
<1>1. Fits(Strict, Pages, due, extracted_data) /\ due \in Dues(Pages)
  BY DueIs DEF RowsInv, Tally
<1>2. ASSUME NEW k \in Kinds, NEW p \in Pages
      PROVE  /\ Missing(k, p) = due[<<k, p>>] - CountIn(extracted_data, OfPage(k, p))
             /\ Missing(k, p) >= 0
  <2>1. due[<<k, p>>] = Due(k, p) /\ due[<<k, p>>] \in Nat
    BY <1>1, DueInAll DEF Dues
  <2>2. extracted_data \in Seq(PdfRows) /\ CountIn(extracted_data, OfPage(k, p)) <= due[<<k, p>>]
    BY <1>1 DEF Fits
  <2>3. Rows(k, p) = CountIn(extracted_data, OfPage(k, p))
    BY <2>2, Counted
  <2>4. CountIn(extracted_data, OfPage(k, p)) \in Nat
    BY <2>2, CountNatural
  <2> HIDE DEF due
  <2>5. QED
    BY <2>1, <2>2, <2>3, <2>4 DEF Missing
<1>3. missing = m
  <2>1. ASSUME NEW kp \in BP
        PROVE  Missing(kp[1], kp[2]) = due[kp] - CountIn(extracted_data, OfPage(kp[1], kp[2]))
    <3>1. kp[1] \in Kinds /\ kp[2] \in Pages /\ kp = <<kp[1], kp[2]>>
      BY DEF Strict
    <3> HIDE DEF due
    <3>2. QED
      BY <1>2, <3>1
  <2> HIDE DEF due, BP
  <2>2. QED
    BY <2>1
<1>4. SumOver(missing, BP) = CountIn(extracted_data, {Blank})
  BY <1>1, <1>3 DEF Fits
<1>5. Len(Filtered(extracted_data, LAMBDA r : r = Blank)) = CountIn(extracted_data, {Blank})
  BY <1>1, Counted DEF Fits
<1>6. \A k \in Kinds, p \in 0..page_count - 1 : Missing(k, p) >= 0
  BY <1>2 DEF Pages
<1> HIDE DEF due
<1>7. QED
  BY <1>4, <1>5, <1>6 DEF RowsAsDue, Strict, Pages

\* A document is extracted by two models whose batches end in any order, fail or answer for a
\* row they could not make; the engine that is done has the rows that are due, each once or
\* blank, the text whole, and no call of a model left behind (pdf/engines/pdfium.py,
\* nemoretriever.py).
THEOREM ExtractedOnce == Extraction => []ExtractionSound
<1>1. RowsInv => RowsAsDue
  BY RowsInAll DEF RowsAsDue
<1>2. Extraction => []RowsAsDue
  BY <1>1, RowsInitially, PdfRowsNext, PTL DEF Extraction
<1>3. RowsAsDue /\ TextWhole /\ NoneLeftRunning => ExtractionSound
  BY DEF ExtractionSound
<1>4. QED
  BY <1>2, <1>3, TextKept, NoCallLeftBehind, PTL

-----------------------------------------------------------------------------
(* The pages the PDF stage keeps. *)

PageTypes ==
  /\ extract_task \in ExtractTasks /\ JobTypes
  /\ pages_for_tables \in Seq(Pages) /\ pages_for_ocr \in Seq(Pages)
  /\ accumulated_text \in Seq(Pages) /\ parser_results \in Seq(Pages)

\* One more page, and one page less.
LEMMA PageListed ==
  ASSUME NEW s \in Seq(Pages), NEW p \in Pages
  PROVE  Append(s, p) \in Seq(Pages) /\ <<>> \in Seq(Pages)
OBVIOUS

\* The first page of a list, and the others.
LEMMA PageTaken ==
  ASSUME NEW s \in Seq(Pages), s # <<>>
  PROVE  Head(s) \in Pages /\ Tail(s) \in Seq(Pages)
OBVIOUS

\* The rest of the type invariant is inductive.
LEMMA PageTypesNext ==
  ASSUME BatchInv, PageTypes, [PdfNext]_pdfVars
  PROVE  PageTypes'
<1>1. /\ extract_task \in ExtractTasks /\ JobTypes
      /\ pages_for_tables \in Seq(Pages) /\ pages_for_ocr \in Seq(Pages)
      /\ accumulated_text \in Seq(Pages) /\ parser_results \in Seq(Pages)
  BY DEF PageTypes
<1>2. ASSUME UNCHANGED pdfJob PROVE JobTypes' /\ Pages' = Pages /\ extract_task' = extract_task
  BY <1>1, <1>2 DEF pdfJob, JobTypes, Pages
<1>3. page_idx < page_count => page_idx \in Pages
  BY DEF BatchInv, PdfTypes, Pages
<1>4. CASE PdfiumPage
  <2> DEFINE pages == IF WantsElements THEN Append(pages_for_tables, page_idx) ELSE <<>>
             submit == WantsElements /\ Filled(pages)
  <2>1. /\ page_idx < page_count /\ UNCHANGED <<pdfJob, pages_for_ocr, parser_results>>
        /\ pages_for_tables' = IF submit THEN <<>> ELSE pages
        /\ accumulated_text' = IF extract_task.text /\ TextDepth = "document"
                               THEN Append(accumulated_text, page_idx) ELSE accumulated_text
    BY <1>4 DEF PdfiumPage
  <2>2. pages \in Seq(Pages) /\ <<>> \in Seq(Pages) /\ Append(accumulated_text, page_idx) \in Seq(Pages)
    BY <1>1, <1>3, <2>1, PageListed
  <2> HIDE DEF pages, submit
  <2>3. pages_for_tables' \in Seq(Pages) /\ accumulated_text' \in Seq(Pages)
    BY <1>1, <2>1, <2>2
  <2> QED
    BY <1>1, <1>2, <2>1, <2>3 DEF PageTypes
<1>5. CASE ParserPage
  <2> DEFINE ocr    == Append(pages_for_ocr, page_idx)
             tables == Append(pages_for_tables, page_idx)
             parse  == extract_task.text /\ Filled(ocr)
             detect == ElementsByModel /\ Filled(tables)
  <2>1. /\ page_idx < page_count /\ UNCHANGED <<pdfJob, accumulated_text, parser_results>>
        /\ pages_for_ocr' = IF parse THEN <<>> ELSE ocr
        /\ pages_for_tables' = IF detect THEN <<>> ELSE tables
    BY <1>5 DEF ParserPage
  <2>2. ocr \in Seq(Pages) /\ tables \in Seq(Pages) /\ <<>> \in Seq(Pages)
    BY <1>1, <1>3, <2>1, PageListed
  <2> HIDE DEF ocr, tables, parse, detect
  <2>3. pages_for_ocr' \in Seq(Pages) /\ pages_for_tables' \in Seq(Pages)
    BY <2>1, <2>2
  <2> QED
    BY <1>1, <1>2, <2>1, <2>3 DEF PageTypes
<1>6. CASE Leftovers
  <2>1. /\ UNCHANGED <<pdfJob, accumulated_text, parser_results>>
        /\ pages_for_ocr' \in {<<>>, pages_for_ocr} /\ pages_for_tables' \in {<<>>, pages_for_tables}
    BY <1>6 DEF Leftovers
  <2>2. <<>> \in Seq(Pages)
    OBVIOUS
  <2>3. pages_for_ocr' \in Seq(Pages) /\ pages_for_tables' \in Seq(Pages)
    BY <1>1, <2>1, <2>2
  <2> QED
    BY <1>1, <1>2, <2>1, <2>3 DEF PageTypes
<1>7. CASE \E f \in DOMAIN futures : Collect(f)
  <2>1. PICK f \in DOMAIN futures : Collect(f)
    BY <1>7
  <2>2. /\ UNCHANGED <<pdfJob, pages_for_ocr, pages_for_tables, accumulated_text>>
        /\ parser_results' \in {parser_results, parser_results \o futures[f].pages}
    BY <2>1 DEF Collect, pagesWaiting
  <2>3. futures[f].pages \in Seq(Pages)
    <3>1. futures[f].model \in Models
      BY CallTypes DEF BatchInv
    <3> DEFINE m == futures[f].model
    <3>2. m \in Models /\ f \in CallsOf(m)
      BY <3>1 DEF CallsOf
    <3> HIDE DEF m
    <3> QED
      BY <3>2, CallPages
  <2>4. parser_results' \in Seq(Pages)
    <3> DEFINE t == futures[f].pages
    <3>1. t \in Seq(Pages)
      BY <2>3
    <3> HIDE DEF t
    <3>2. parser_results \o t \in Seq(Pages)
      BY <1>1, <3>1
    <3>3. parser_results' \in {parser_results, parser_results \o t}
      BY <2>2 DEF t
    <3> QED
      BY <1>1, <3>2, <3>3
  <2> QED
    BY <1>1, <1>2, <2>2, <2>4 DEF PageTypes
<1>8. CASE BuildPage
  <2>1. /\ parser_results # <<>> /\ UNCHANGED <<pdfJob, pages_for_ocr, pages_for_tables>>
        /\ parser_results' = Tail(parser_results)
        /\ accumulated_text' \in {<<>>, Append(accumulated_text, Head(parser_results))}
    BY <1>8 DEF BuildPage, pagesWaiting
  <2>2. Head(parser_results) \in Pages /\ parser_results' \in Seq(Pages)
    BY <1>1, <2>1, PageTaken
  <2>3. accumulated_text' \in Seq(Pages)
    BY <1>1, <2>1, <2>2, PageListed
  <2> QED
    BY <1>1, <1>2, <2>1, <2>2, <2>3 DEF PageTypes
<1>9. CASE UNCHANGED <<pdfJob, pages_for_ocr, pages_for_tables, accumulated_text, parser_results>>
  BY <1>1, <1>2, <1>9 DEF PageTypes
<1>10. CASE \/ \E f \in DOMAIN futures :
                 ElementsAnswer(f) \/ ParserAnswers(f) \/ InferenceFails(f) \/ CollectFailure(f)
            \/ AllCollected \/ Leave \/ BuildFails \/ Finish \/ PageFails \/ UNCHANGED pdfVars
  BY <1>9, <1>10
     DEF ElementsAnswer, ParserAnswers, InferenceFails, CollectFailure, AllCollected, Leave,
         BuildFails, Finish, PageFails, pdfVars, pagesWaiting
<1> QED
  BY <1>4, <1>5, <1>6, <1>7, <1>8, <1>10 DEF PdfNext, MainThread, PoolThread

\* With the batch facts it is the type invariant.
LEMMA PdfTypesAre == BatchInv /\ PageTypes => PdfTypeOK
<1> SUFFICES ASSUME BatchInv, PageTypes PROVE PdfTypeOK
  OBVIOUS
<1>1. /\ page_idx \in 0 .. page_count
      /\ pdf_phase \in {"pages", "collect", "build", "leaving", "done", "raised"}
  BY DEF BatchInv, PdfTypes
<1>2. ASSUME NEW f \in DOMAIN futures
      PROVE  /\ futures[f].pages \in Seq(Pages) \ {<<>>}
             /\ futures[f].model \in {"yolox", "parser"}
  <2> DEFINE m == futures[f].model
  <2>1. m \in Models
    BY CallTypes DEF BatchInv
  <2>2. f \in CallsOf(m)
    BY DEF CallsOf
  <2> HIDE DEF m
  <2>3. futures[f].pages \in Seq(Pages)
    BY <2>1, <2>2, CallPages
  <2>4. Len(futures[f].pages) \in 1 .. BatchSize
    BY <2>1, <2>2 DEF BatchInv, Batches, OwnBatch
  <2>5. futures[f].pages # <<>>
    BY <2>4
  <2> QED
    BY <2>1, <2>3, <2>5 DEF m, Models
<1> QED
  BY <1>1, <1>2 DEF PdfTypeOK, PageTypes, JobTypes, Pages

\* The variables of the PDF stage have their types: every page that waits, is sent, or was read
\* is one of the document's, and no call is made without pages.
THEOREM ExtractionTypes == Extraction => []PdfTypeOK
<1>1. PdfInit => PageTypes
  <2> SUFFICES ASSUME PdfInit PROVE PageTypes
    OBVIOUS
  <2>1. <<>> \in Seq(Pages)
    OBVIOUS
  <2> QED
    BY <2>1 DEF PdfInit, PageTypes, JobTypes
<1>2. PageTypes /\ BatchInv /\ [PdfNext]_pdfVars => PageTypes'
  BY PageTypesNext
<1> QED
  BY <1>1, <1>2, BatchInitially, BatchNext, PdfTypesAre, PTL DEF Extraction

-----------------------------------------------------------------------------
(* The rows after extraction: where the answers of a stage are put. *)

\* Where an element is found in a sequence.
LEMMA PlaceFacts ==
  ASSUME NEW S, NEW s \in Seq(S), NEW x
  PROVE  /\ PlaceIn(s, x) \in 0 .. Len(s)
         /\ PlaceIn(s, x) # 0 => s[PlaceIn(s, x)] = x
         /\ x \in Range(s) => PlaceIn(s, x) # 0
<1> DEFINE I == {i \in 1 .. Len(s) : s[i] = x}
<1>1. PlaceIn(s, x) = IF I # {} THEN Min(I) ELSE 0
  BY DEF PlaceIn, SelectInSeq
<1>2. Len(s) \in Nat /\ I \in SUBSET Nat
  OBVIOUS
<1>3. I # {} => Min(I) \in I
  <2> SUFFICES ASSUME I # {} PROVE Min(I) \in I
    OBVIOUS
  <2>1. \E i \in I : \A j \in I : i <= j
    BY <1>2, LeastNatural
  <2> QED
    BY <2>1 DEF Min
<1>4. x \in Range(s) => I # {}
  BY RangeIs
<1> QED
  BY <1>1, <1>2, <1>3, <1>4

-----------------------------------------------------------------------------
(* The rows: what they hold is their own. *)

Names == STRING \union {"", "own", "empty", "info_msg"}
Vectors == Names \X ((Int \X Int) \union {o.modality : o \in Options})
RowFields ==
  [id : Names, kind : RowKinds, document_type : Names, hash : Names, small : BOOLEAN,
   odd : BOOLEAN, span : Int \X Int, content : Names, table_content : Names \union {Nothing},
   caption : Names \union {Nothing}, embedding : Vectors \union {Nothing},
   url : Nat \union {Nothing}]

\* A row with the text, the caption and the embedding of its own content.
OwnRows ==
  {r \in RowFields :
     /\ r.table_content \in {Nothing, "", r.id} /\ r.caption \in {Nothing, r.id}
     /\ r.embedding # Nothing => r.embedding[1] = r.id}

Entries == [label : Nat, row : OwnRows]

\* Two rows that no filter, deduplication or split tells apart.
SameRow(r, q) ==
  /\ r.id = q.id /\ r.hash = q.hash /\ r.odd = q.odd /\ r.span = q.span
  /\ r.document_type = q.document_type

\* An extracted row holds nothing of another.
LEMMA ExtractedOwn ==
  ASSUME NEW r \in ExtractedRows
  PROVE  r \in OwnRows /\ r.url = Nothing
<1>1. r \in RowFields
  <2>1. /\ r.span \in Int \X Int /\ r.content \in Names /\ r.id \in Names
        /\ r.document_type \in Names /\ r.hash \in Names
        /\ r.table_content \in Names \union {Nothing} /\ r.caption \in Names \union {Nothing}
        /\ r.embedding \in Vectors \union {Nothing} /\ r.url \in Nat \union {Nothing}
    <3>1. /\ r.span \in Nat \X Nat /\ r.content = "own" /\ r.id \in STRING
          /\ r.document_type \in STRING /\ r.hash \in STRING
          /\ r.table_content = Nothing /\ r.caption = Nothing /\ r.embedding = Nothing
          /\ r.url = Nothing
      BY DEF ExtractedRows
    <3>2. Nat \X Nat \subseteq Int \X Int /\ STRING \subseteq Names /\ "own" \in Names
      <4>1. STRING \subseteq Names /\ "own" \in Names
        BY Zenon DEF Names
      <4> QED
        BY <4>1
    <3> QED
      BY <3>1, <3>2
  <2> QED
    BY <2>1, SMTT(40) DEF ExtractedRows, RowFields
<1>2. r.table_content = Nothing /\ r.caption = Nothing /\ r.embedding = Nothing /\ r.url = Nothing
  BY DEF ExtractedRows
<1> QED
  BY <1>1, <1>2 DEF OwnRows

\* A row keeps its own with a table text of its own, or none.
LEMMA PutTable ==
  ASSUME NEW r \in OwnRows, NEW v \in {Nothing, "", r.id}
  PROVE  LET q == [r EXCEPT !.table_content = v]
         IN  q \in OwnRows /\ SameRow(q, r) /\ q.url = r.url
<1> DEFINE q == [r EXCEPT !.table_content = v]
<1>1. r \in RowFields /\ v \in Names \union {Nothing}
  <2>1. r \in RowFields
    BY DEF OwnRows
  <2>2. r.id \in Names
    BY <2>1 DEF RowFields
  <2> QED
    BY <2>1, <2>2 DEF Names
<1>2. q \in RowFields
  BY <1>1 DEF RowFields
<1>3. /\ q.table_content = v /\ q.id = r.id /\ q.caption = r.caption /\ q.embedding = r.embedding
      /\ q.hash = r.hash /\ q.odd = r.odd /\ q.span = r.span
      /\ q.document_type = r.document_type /\ q.url = r.url
  BY <1>1 DEF RowFields
<1> HIDE DEF q
<1>4. q \in OwnRows
  BY <1>2, <1>3 DEF OwnRows
<1> QED
  BY <1>3, <1>4 DEF SameRow, q

\* A row keeps its own with a caption of its own, or none.
LEMMA PutCaptions ==
  ASSUME NEW r \in OwnRows, NEW v \in {Nothing, r.id}
  PROVE  LET q == [r EXCEPT !.caption = v]
         IN  q \in OwnRows /\ SameRow(q, r) /\ q.url = r.url
<1> DEFINE q == [r EXCEPT !.caption = v]
<1>1. r \in RowFields /\ v \in Names \union {Nothing}
  BY DEF OwnRows, RowFields
<1>2. q \in RowFields
  BY <1>1 DEF RowFields
<1>3. /\ q.caption = v /\ q.id = r.id /\ q.table_content = r.table_content
      /\ q.embedding = r.embedding
      /\ q.hash = r.hash /\ q.odd = r.odd /\ q.span = r.span
      /\ q.document_type = r.document_type /\ q.url = r.url
  BY <1>1 DEF RowFields
<1> HIDE DEF q
<1>4. q \in OwnRows
  BY <1>2, <1>3 DEF OwnRows
<1> QED
  BY <1>3, <1>4 DEF SameRow, q

\* A row keeps its own, and its embedding, with the name of an object.
LEMMA PutUrl ==
  ASSUME NEW r \in OwnRows, NEW v \in Nat
  PROVE  LET q == [r EXCEPT !.url = v]
         IN  /\ q \in OwnRows /\ SameRow(q, r) /\ q.url = v
             /\ EmbeddedContent(q) = EmbeddedContent(r) /\ q.embedding = r.embedding
<1> DEFINE q == [r EXCEPT !.url = v]
<1>1. r \in RowFields
  BY DEF OwnRows
<1>2. q \in RowFields
  BY <1>1 DEF RowFields
<1>3. /\ q.caption = r.caption /\ q.id = r.id /\ q.table_content = r.table_content
      /\ q.embedding = r.embedding /\ q.kind = r.kind /\ q.content = r.content
      /\ q.hash = r.hash /\ q.odd = r.odd /\ q.span = r.span
      /\ q.document_type = r.document_type /\ q.url = v
  BY <1>1 DEF RowFields
<1> HIDE DEF q
<1>4. q \in OwnRows
  BY <1>1, <1>2, <1>3 DEF OwnRows
<1>5. EmbeddedContent(q) = EmbeddedContent(r)
  <2>1. ContentType(q) = ContentType(r)
    BY <1>3 DEF ContentType
  <2>2. EmbeddedText(q) = EmbeddedText(r)
    BY <1>3, <2>1 DEF EmbeddedText
  <2> QED
    BY <1>3, <2>1, <2>2, Zenon DEF EmbeddedContent
<1> QED
  BY <1>3, <1>4, <1>5 DEF SameRow, q

\* A row that the filter only flags keeps its own.
LEMMA PutType ==
  ASSUME NEW r \in OwnRows
  PROVE  LET q == [r EXCEPT !.document_type = "info_msg"]
         IN  /\ q \in OwnRows /\ q.url = r.url /\ q.document_type = "info_msg"
             /\ q.id = r.id /\ q.hash = r.hash /\ q.odd = r.odd /\ q.span = r.span
<1> DEFINE q == [r EXCEPT !.document_type = "info_msg"]
<1>1. r \in RowFields /\ "info_msg" \in Names
  BY DEF OwnRows, Names
<1>2. q \in RowFields
  BY <1>1 DEF RowFields
<1>3. /\ q.caption = r.caption /\ q.id = r.id /\ q.table_content = r.table_content
      /\ q.embedding = r.embedding
      /\ q.hash = r.hash /\ q.odd = r.odd /\ q.span = r.span
      /\ q.document_type = "info_msg" /\ q.url = r.url
  BY <1>1 DEF RowFields
<1> HIDE DEF q
<1>4. q \in OwnRows
  BY <1>1, <1>2, <1>3 DEF OwnRows
<1> QED
  BY <1>3, <1>4 DEF q

\* A chunk of a text keeps its own.
LEMMA PutSpan ==
  ASSUME NEW r \in OwnRows, NEW c \in Int \X Int
  PROVE  LET q == [r EXCEPT !.span = c]
         IN  q \in OwnRows /\ q.url = r.url /\ q.id = r.id /\ q.span = c
<1> DEFINE q == [r EXCEPT !.span = c]
<1>1. r \in RowFields
  BY DEF OwnRows
<1>2. q \in RowFields
  BY <1>1 DEF RowFields
<1>3. /\ q.caption = r.caption /\ q.id = r.id /\ q.table_content = r.table_content
      /\ q.embedding = r.embedding /\ q.span = c /\ q.url = r.url
  BY <1>1 DEF RowFields
<1> HIDE DEF q
<1>4. q \in OwnRows
  BY <1>1, <1>2, <1>3 DEF OwnRows
<1> QED
  BY <1>3, <1>4 DEF q

-----------------------------------------------------------------------------
(* The invariant. *)

Stages == {"infographic", "table", "chart", "filter", "dedup", "split", "caption", "embed",
           "store", "store_embedding"}
StageTurn(s) == CASE s = "infographic" -> 1 [] s = "table" -> 2 [] s = "chart" -> 3
             [] s = "filter" -> 4 [] s = "dedup" -> 5 [] s = "split" -> 6
             [] s = "caption" -> 7 [] s = "embed" -> 8 [] s = "store" -> 9
             [] s = "store_embedding" -> 10

\* The stages have their turns in order.
TasksInOrder ==
  /\ tasks_left \in Seq(Stages)
  /\ \A i \in 1 .. Len(tasks_left) : tasks_left[i] \in options.tasks
  /\ \A i, j \in 1 .. Len(tasks_left) : i < j => StageTurn(tasks_left[i]) < StageTurn(tasks_left[j])
  /\ \A s \in Stages : Done(s) => \A i \in 1 .. Len(tasks_left) : StageTurn(s) < StageTurn(tasks_left[i])

Apart(f) == \A i, j \in 1 .. Len(f) : f[i].label = f[j].label => i = j

\* No two rows are the same part of one extracted row.
OnceEach(f) ==
  \A i, j \in 1 .. Len(f) : f[i].row.id = f[j].row.id /\ f[i].row.span = f[j].row.span => i = j

\* Until the split has had its turn, no two rows are of one extracted row.
Undoubled ==
  /\ OnceEach(frame)
  /\ (\E k \in 1 .. Len(tasks_left) : tasks_left[k] = "split") =>
       \A i, j \in 1 .. Len(frame) : frame[i].row.id = frame[j].row.id => i = j

IsEmbedded(r) == EmbeddedContent(r) # Nothing => r.embedding = EmbeddedContent(r)
Embeddings ==
  Done("embed") /\ ~doc_failed => \A i \in 1 .. Len(frame) : IsEmbedded(frame[i].row)

Stored ==
  /\ objects \in SUBSET [url : Nat, id : Names]
  /\ \A o, p \in objects : o.url = p.url => o = p
  /\ \A i \in 1 .. Len(frame), o \in objects :
       frame[i].row.url # Nothing /\ o.url = frame[i].row.url => o.id = frame[i].row.id
  /\ objects # {} \/ (\E i \in 1 .. Len(frame) : frame[i].row.url # Nothing)
       => \A k \in 1 .. Len(tasks_left) : tasks_left[k] = "store_embedding"

\* The row is there as it was extracted, flagged at most.
Whole(r, q) ==
  /\ r.id = q.id /\ r.hash = q.hash /\ r.odd = q.odd /\ r.span = q.span
  /\ r.document_type = q.document_type \/ (r.document_type = "info_msg" /\ IsImage(q))

SpokenTypes == {"text", "audio"}

\* What is left of a text that was split.
Chunked(q) ==
  /\ \/ \E j \in 1 .. Len(frame) : frame[j].row.id = q.id
     \/ q.span[2] - q.span[1] <= 1 \/ options.chunk_size = 1
  /\ \A token \in TokensKept(q.span) : \E j \in 1 .. Len(frame) :
         frame[j].row.id = q.id /\ token \in frame[j].row.span[1] .. frame[j].row.span[2] - 1

RowAccounted(q) ==
  \/ \E j \in 1 .. Len(frame) : Whole(frame[j].row, q)
  \/ Done("filter") /\ options.filter /\ IsImage(q) /\ q.odd
  \/ /\ Done("dedup") /\ IsImage(q)
     /\ \E j \in 1 .. Len(frame) : IsImage(frame[j].row) /\ frame[j].row.hash = q.hash
  \/ Done("split") /\ q.document_type \in SpokenTypes /\ Chunked(q)

PayloadInv ==
  /\ options \in Options /\ original \in Seq(ExtractedRows) /\ original \in Documents
  /\ doc_failed \in BOOLEAN
  /\ TasksInOrder
  /\ frame \in Seq(Entries) /\ Apart(frame)
  /\ Embeddings /\ Stored /\ Undoubled
  /\ \A k \in 1 .. Len(original) : RowAccounted(original[k])

\* A stage has one turn.
LEMMA TurnOf ==
  /\ \A s \in Stages : StageTurn(s) \in 1 .. 10
  /\ \A k \in 1 .. 10 : StageTurn(StageOrder[k]) = k /\ StageOrder[k] \in Stages
  /\ \A s \in Stages : StageOrder[StageTurn(s)] = s
<1>1. \A k \in 1 .. 10 : StageTurn(StageOrder[k]) = k /\ StageOrder[k] \in Stages
  <2> SUFFICES ASSUME NEW k \in 1 .. 10
               PROVE  StageTurn(StageOrder[k]) = k /\ StageOrder[k] \in Stages
    OBVIOUS
  <2>1. k \in {1, 2, 3, 4, 5, 6, 7, 8, 9, 10}
    OBVIOUS
  <2> QED
    BY <2>1 DEF StageTurn, StageOrder, Stages
<1>2. \A s \in Stages : StageTurn(s) \in 1 .. 10 /\ StageOrder[StageTurn(s)] = s
  <2> SUFFICES ASSUME NEW s \in Stages PROVE StageTurn(s) \in 1 .. 10 /\ StageOrder[StageTurn(s)] = s
    OBVIOUS
  <2>1. PICK k \in 1 .. 10 : StageOrder[k] = s
    <3>1. /\ StageOrder[1] = "infographic" /\ StageOrder[2] = "table" /\ StageOrder[3] = "chart"
          /\ StageOrder[4] = "filter" /\ StageOrder[5] = "dedup" /\ StageOrder[6] = "split"
          /\ StageOrder[7] = "caption" /\ StageOrder[8] = "embed" /\ StageOrder[9] = "store"
          /\ StageOrder[10] = "store_embedding"
      BY DEF StageOrder
    <3> QED
      BY <3>1 DEF Stages
  <2> QED
    BY <1>1, <2>1
<1> QED
  BY <1>1, <1>2

\* A stage takes its task: the stages before it have had theirs, none after it has.
LEMMA TaskTaken ==
  ASSUME TasksInOrder, NEW name, HasTask(name), tasks_left' = Tail(tasks_left),
         UNCHANGED options
  PROVE  /\ TasksInOrder' /\ name \in Stages /\ ~Done(name) /\ Done(name)'
         /\ \A s : Done(s)' <=> Done(s) \/ s = name
         /\ \A s \in Stages : Done(s) => StageTurn(s) < StageTurn(name)
         /\ \E k \in 1 .. Len(tasks_left) : tasks_left[k] = name
         /\ \A k \in 1 .. Len(tasks_left') : \E i \in 1 .. Len(tasks_left) : tasks_left[i] = tasks_left'[k]
<1> DEFINE n == Len(tasks_left)
<1>1. /\ tasks_left \in Seq(Stages) /\ n \in Nat /\ n >= 1 /\ tasks_left[1] = name
      /\ tasks_left # <<>>
  BY DEF TasksInOrder, HasTask
<1>2. /\ tasks_left' \in Seq(Stages) /\ Len(tasks_left') = n - 1
      /\ \A i \in 1 .. n - 1 : tasks_left'[i] = tasks_left[i + 1]
  BY <1>1
<1>3. \A i \in 1 .. n : i # 1 => i - 1 \in 1 .. n - 1 /\ tasks_left'[i - 1] = tasks_left[i]
  BY <1>1, <1>2
<1>4. \A i \in 1 .. n - 1 : i + 1 \in 1 .. n /\ 1 < i + 1 /\ 1 \in 1 .. n
  BY <1>1
<1>5. /\ Range(tasks_left) = {tasks_left[i] : i \in 1 .. n}
      /\ Range(tasks_left') = {tasks_left[i + 1] : i \in 1 .. n - 1}
  <2>1. DOMAIN tasks_left = 1 .. n /\ DOMAIN tasks_left' = 1 .. n - 1
    BY <1>1, <1>2
  <2>2. \A i \in 1 .. n - 1 : tasks_left'[i] = tasks_left[i + 1]
    BY <1>2
  <2>3. Range(tasks_left) = {tasks_left[i] : i \in 1 .. n}
    BY <2>1 DEF Range
  <2>4. Range(tasks_left') = {tasks_left'[i] : i \in 1 .. n - 1}
    BY <2>1 DEF Range
  <2> QED
    BY <2>2, <2>3, <2>4
<1>6. \A s : s \in Range(tasks_left) <=> s = name \/ s \in Range(tasks_left')
  <2> SUFFICES ASSUME NEW s PROVE s \in Range(tasks_left) <=> s = name \/ s \in Range(tasks_left')
    OBVIOUS
  <2>1. ASSUME NEW i \in 1 .. n, tasks_left[i] = s, s # name PROVE s \in Range(tasks_left')
    <3>1. i # 1 /\ i - 1 \in 1 .. n - 1 /\ i = (i - 1) + 1
      BY <1>1, <2>1
    <3> QED
      BY <1>5, <2>1, <3>1
  <2> QED
    BY <1>1, <1>4, <1>5, <2>1
<1>7. /\ name \in Stages /\ name \in options.tasks
  BY <1>1 DEF TasksInOrder
<1>8. \A i \in 1 .. n : i # 1 => StageTurn(name) < StageTurn(tasks_left[i])
  BY <1>1 DEF TasksInOrder
<1>9. name \notin Range(tasks_left')
  <2>1. ASSUME NEW i \in 1 .. n - 1, tasks_left[i + 1] = name PROVE FALSE
    <3>1. StageTurn(name) < StageTurn(tasks_left[i + 1]) /\ StageTurn(name) \in Int
      BY <1>4, <1>7, <1>8, TurnOf
    <3> QED
      BY <2>1, <3>1
  <2> QED
    BY <1>5, <2>1
<1>10. \A s : Done(s)' <=> Done(s) \/ s = name
  BY <1>6, <1>7, <1>9 DEF Done
<1>11. ~Done(name)
  BY <1>6 DEF Done
<1>12. \A s \in Stages : Done(s) => StageTurn(s) < StageTurn(name)
  BY <1>1 DEF TasksInOrder
<1>13. TasksInOrder'
  <2>1. \A i \in 1 .. n - 1 : tasks_left'[i] \in options.tasks
    BY <1>2, <1>4 DEF TasksInOrder
  <2>2. ASSUME NEW i \in 1 .. n - 1, NEW j \in 1 .. n - 1, i < j
        PROVE  StageTurn(tasks_left'[i]) < StageTurn(tasks_left'[j])
    BY <1>2, <1>4, <2>2 DEF TasksInOrder
  <2>3. ASSUME NEW s \in Stages, Done(s)', NEW i \in 1 .. n - 1
        PROVE  StageTurn(s) < StageTurn(tasks_left'[i])
    <3>1. tasks_left'[i] = tasks_left[i + 1] /\ StageTurn(name) < StageTurn(tasks_left[i + 1])
      BY <1>2, <1>4, <1>8
    <3>2. CASE s = name
      BY <3>1, <3>2
    <3>3. CASE s # name
      BY <1>4, <1>10, <2>3, <3>1, <3>3 DEF TasksInOrder
    <3> QED
      BY <3>2, <3>3
  <2> HIDE DEF n
  <2> QED
    BY <1>2, <2>1, <2>2, <2>3 DEF TasksInOrder
<1>14. \E k \in 1 .. n : tasks_left[k] = name
  BY <1>1
<1>15. \A k \in 1 .. n - 1 : \E i \in 1 .. n : tasks_left[i] = tasks_left'[k]
  BY <1>2, <1>4
<1> QED
  BY <1>2, <1>7, <1>10, <1>11, <1>12, <1>13, <1>14, <1>15

\* What an entry of the frame is.
LEMMA EntryFacts ==
  /\ \A e \in Entries : e.label \in Nat /\ e.row \in OwnRows
  /\ \A r \in OwnRows : r \in RowFields
  /\ \A n \in Nat, r \in OwnRows : [label |-> n, row |-> r] \in Entries
BY DEF Entries, OwnRows

\* A new index.
LEMMA Relabelled ==
  ASSUME NEW S \in SUBSET OwnRows, NEW rows \in Seq(S)
  PROVE  /\ Labelled(rows) \in Seq(Entries) /\ Apart(Labelled(rows))
         /\ Len(Labelled(rows)) = Len(rows)
         /\ \A i \in 1 .. Len(rows) :
              Labelled(rows)[i] = [label |-> i - 1, row |-> rows[i]] /\ rows[i] \in S
<1> DEFINE f == Labelled(rows)
<1>1. Len(rows) \in Nat /\ DOMAIN rows = 1 .. Len(rows) /\ \A i \in 1 .. Len(rows) : rows[i] \in S
  OBVIOUS
<1>2. \A i \in 1 .. Len(rows) : f[i] = [label |-> i - 1, row |-> rows[i]]
  BY <1>1 DEF Labelled
<1>3. ASSUME NEW i \in 1 .. Len(rows) PROVE f[i] \in Entries /\ f[i].label = i - 1
  <2>1. i - 1 \in Nat /\ rows[i] \in OwnRows
    BY <1>1
  <2>2. [label |-> i - 1, row |-> rows[i]] \in Entries
    BY <2>1, EntryFacts
  <2> HIDE DEF f
  <2> QED
    BY <1>2, <2>2
<1>4. f \in [1 .. Len(rows) -> Entries]
  BY <1>1, <1>3 DEF Labelled
<1>5. f \in Seq(Entries) /\ Len(f) = Len(rows)
  BY <1>1, <1>4
<1> HIDE DEF f
<1>6. Apart(f)
  BY <1>1, <1>3, <1>5 DEF Apart
<1> QED
  BY <1>1, <1>2, <1>5, <1>6 DEF f

\* Rows that are still there account for what they did.
LEMMA CarriedOver ==
  ASSUME frame \in Seq(Entries), frame' \in Seq(Entries), UNCHANGED options,
         \A s : Done(s) => Done(s)',
         \A i \in 1 .. Len(frame) : \E j \in 1 .. Len(frame') : SameRow(frame'[j].row, frame[i].row),
         NEW q, RowAccounted(q)
  PROVE  RowAccounted(q)'
<1>1. ASSUME NEW i \in 1 .. Len(frame), Whole(frame[i].row, q)
      PROVE  \E j \in 1 .. Len(frame') : Whole(frame'[j].row, q)
  <2>1. PICK j \in 1 .. Len(frame') : SameRow(frame'[j].row, frame[i].row)
    OBVIOUS
  <2>2. Whole(frame'[j].row, q)
    BY <1>1, <2>1 DEF Whole, SameRow
  <2> QED
    BY <2>2
<1>2. ASSUME NEW i \in 1 .. Len(frame), IsImage(frame[i].row) /\ frame[i].row.hash = q.hash
      PROVE  \E j \in 1 .. Len(frame') : IsImage(frame'[j].row) /\ frame'[j].row.hash = q.hash
  <2>1. PICK j \in 1 .. Len(frame') : SameRow(frame'[j].row, frame[i].row)
    OBVIOUS
  <2>2. IsImage(frame'[j].row) /\ frame'[j].row.hash = q.hash
    BY <1>2, <2>1 DEF IsImage, SameRow
  <2> QED
    BY <2>2
<1>3. ASSUME Chunked(q) PROVE Chunked(q)'
  <2>1. ASSUME NEW i \in 1 .. Len(frame), frame[i].row.id = q.id
        PROVE  \E j \in 1 .. Len(frame') : frame'[j].row.id = q.id
    <3>1. PICK j \in 1 .. Len(frame') : SameRow(frame'[j].row, frame[i].row)
      OBVIOUS
    <3>2. frame'[j].row.id = q.id
      BY <2>1, <3>1 DEF SameRow
    <3> QED
      BY <3>2
  <2>2. ASSUME NEW token, NEW i \in 1 .. Len(frame), frame[i].row.id = q.id,
               token \in frame[i].row.span[1] .. frame[i].row.span[2] - 1
        PROVE  \E j \in 1 .. Len(frame') :
                 /\ frame'[j].row.id = q.id
                 /\ token \in frame'[j].row.span[1] .. frame'[j].row.span[2] - 1
    <3>1. PICK j \in 1 .. Len(frame') : SameRow(frame'[j].row, frame[i].row)
      OBVIOUS
    <3>2. frame'[j].row.id = q.id /\ frame'[j].row.span = frame[i].row.span
      BY <2>2, <3>1 DEF SameRow
    <3> QED
      BY <2>2, <3>2
  <2>3. \/ \E j \in 1 .. Len(frame') : frame'[j].row.id = q.id
        \/ q.span[2] - q.span[1] <= 1 \/ options'.chunk_size = 1
    BY <1>3, <2>1 DEF Chunked
  <2>4. ASSUME NEW token \in TokensKept(q.span)
        PROVE  \E j \in 1 .. Len(frame') :
                 /\ frame'[j].row.id = q.id
                 /\ token \in frame'[j].row.span[1] .. frame'[j].row.span[2] - 1
    <3>1. PICK i \in 1 .. Len(frame) :
            frame[i].row.id = q.id /\ token \in frame[i].row.span[1] .. frame[i].row.span[2] - 1
      BY <1>3, <2>4 DEF Chunked
    <3> QED
      BY <2>2, <3>1
  <2>5. TokensKept(q.span)' = TokensKept(q.span)
    BY DEF TokensKept
  <2> QED
    BY <2>3, <2>4, <2>5 DEF Chunked
<1>4. CASE \E i \in 1 .. Len(frame) : Whole(frame[i].row, q)
  BY <1>1, <1>4 DEF RowAccounted
<1>5. CASE Done("filter") /\ options.filter /\ IsImage(q) /\ q.odd
  <2>1. (Done("filter") /\ options.filter /\ IsImage(q) /\ q.odd)'
    BY <1>5 DEF IsImage
  <2> QED
    BY <2>1 DEF RowAccounted
<1>6. CASE /\ Done("dedup") /\ IsImage(q)
           /\ \E i \in 1 .. Len(frame) : IsImage(frame[i].row) /\ frame[i].row.hash = q.hash
  <2>1. Done("dedup")' /\ IsImage(q)'
    BY <1>6 DEF IsImage
  <2>2. \E j \in 1 .. Len(frame') : IsImage(frame'[j].row) /\ frame'[j].row.hash = q.hash
    BY <1>2, <1>6
  <2>3. (\E j \in 1 .. Len(frame) : IsImage(frame[j].row) /\ frame[j].row.hash = q.hash)'
    BY <2>2 DEF IsImage
  <2> QED
    BY <2>1, <2>3 DEF RowAccounted
<1>7. CASE Done("split") /\ q.document_type \in SpokenTypes /\ Chunked(q)
  <2>1. Done("split")' /\ Chunked(q)'
    BY <1>3, <1>7
  <2> QED
    BY <1>7, <2>1 DEF RowAccounted
<1> QED
  BY <1>4, <1>5, <1>6, <1>7 DEF RowAccounted

\* The extracted rows satisfy the invariant.
LEMMA PayloadInitially == RowsInit => PayloadInv
<1> SUFFICES ASSUME RowsInit PROVE PayloadInv
  OBVIOUS
<1> DEFINE I == {i \in DOMAIN StageOrder : StageOrder[i] \in options.tasks}
<1>1. /\ options \in Options /\ original \in Documents /\ original \in Seq(ExtractedRows)
      /\ doc_failed = FALSE /\ objects = {} /\ frame = Labelled(original)
      /\ tasks_left = SelectAt(StageOrder, I)
  BY RowsAssumption DEF RowsInit, Filtered
<1>2. StageOrder \in Seq(Stages) /\ Len(StageOrder) = 10 /\ I \in SUBSET (1 .. Len(StageOrder))
  <2>1. StageOrder \in Seq(Stages) /\ Len(StageOrder) = 10
    BY DEF StageOrder, Stages
  <2> QED
    BY <2>1
<1> HIDE DEF I
<1>3. TasksInOrder /\ \A s \in Stages : ~Done(s)
  <2> DEFINE c == Cardinality(I)
             t == SelectAt(StageOrder, I)
  <2>1. /\ c \in Nat /\ t \in Seq(Stages) /\ Len(t) = c
        /\ \A n \in 1 .. c : Ascending(I)[n] \in I /\ t[n] = StageOrder[Ascending(I)[n]]
        /\ \A m, n \in 1 .. c : m < n => Ascending(I)[m] < Ascending(I)[n]
    <3>1. /\ IsFiniteSet(I) /\ Cardinality(I) \in Nat
          /\ SelectAt(StageOrder, I) \in Seq(Stages) /\ Len(SelectAt(StageOrder, I)) = Cardinality(I)
          /\ \A n \in 1 .. Cardinality(I) :
               /\ Ascending(I)[n] \in I
               /\ SelectAt(StageOrder, I)[n] = StageOrder[Ascending(I)[n]]
          /\ \A m, n \in 1 .. Cardinality(I) : m < n => Ascending(I)[m] < Ascending(I)[n]
          /\ \A i \in I : \E n \in 1 .. Cardinality(I) : Ascending(I)[n] = i
      BY <1>2, SelectAtFacts, Zenon
    <3> QED
      BY <3>1
  <2>2. Range(t) = {StageOrder[i] : i \in I}
    BY <1>2, SelectRange
  <2> HIDE DEF t, c
  <2>3. \A n \in 1 .. c : StageTurn(t[n]) = Ascending(I)[n] /\ t[n] \in options.tasks
    BY <1>2, <2>1, TurnOf DEF I
  <2>4. \A m, n \in 1 .. c : m < n => StageTurn(t[m]) < StageTurn(t[n])
    BY <2>1, <2>3
  <2>5. \A s \in Stages : ~(s \in options.tasks \ Range(t))
    <3> SUFFICES ASSUME NEW s \in Stages, s \in options.tasks PROVE s \in Range(t)
      OBVIOUS
    <3>1. StageTurn(s) \in 1 .. 10 /\ StageOrder[StageTurn(s)] = s
      BY TurnOf
    <3>2. StageTurn(s) \in I
      BY <1>2, <3>1 DEF I
    <3> QED
      BY <2>2, <3>1, <3>2
  <2>6. tasks_left = t
    BY <1>1 DEF t
  <2>7. \A s \in Stages : ~Done(s)
    BY <2>5, <2>6 DEF Done
  <2> QED
    BY <2>1, <2>3, <2>4, <2>6, <2>7 DEF TasksInOrder
<1>4. \A k \in 1 .. Len(original) :
        original[k] \in ExtractedRows /\ original[k] \in OwnRows /\ original[k].url = Nothing
  BY <1>1, ExtractedOwn
<1>5. original \in Seq(OwnRows)
  BY <1>1, <1>4
<1>6. /\ frame \in Seq(Entries) /\ Apart(frame) /\ Len(frame) = Len(original)
      /\ \A i \in 1 .. Len(original) : frame[i] = [label |-> i - 1, row |-> original[i]]
  BY <1>1, <1>5, Relabelled
<1>7. ASSUME NEW i \in 1 .. Len(original) PROVE frame[i].row = original[i]
  <2>1. frame[i] = [label |-> i - 1, row |-> original[i]]
    BY <1>6
  <2> QED
    BY <2>1
<1>8. Embeddings
  <2>1. "embed" \in Stages
    BY TurnOf DEF StageOrder
  <2>2. ~Done("embed")
    BY <1>3, <2>1
  <2> QED
    BY <2>2 DEF Embeddings
<1>9. Stored
  BY <1>1, <1>4, <1>6, <1>7 DEF Stored
<1>10. ASSUME NEW k \in 1 .. Len(original) PROVE RowAccounted(original[k])
  <2>0. frame[k].row = original[k]
    BY <1>7
  <2>1. Whole(frame[k].row, original[k])
    BY <2>0 DEF Whole
  <2>2. k \in 1 .. Len(frame)
    BY <1>6
  <2> QED
    BY <2>1, <2>2 DEF RowAccounted
<1>11. Undoubled
  <2>1. \A i, j \in 1 .. Len(original) : original[i].id = original[j].id => i = j
    BY <1>1, RowsAssumption
  <2>2. \A i, j \in 1 .. Len(frame) : frame[i].row.id = frame[j].row.id => i = j
    BY <1>6, <1>7, <2>1
  <2> QED
    BY <2>2 DEF Undoubled, OnceEach
<1> QED
  BY <1>1, <1>3, <1>6, <1>8, <1>9, <1>10, <1>11 DEF PayloadInv

-----------------------------------------------------------------------------
(* The stages. *)

\* The rows stay where they are, as they are to filters, deduplication, split and store.
InPlace(f) ==
  /\ f \in Seq(Entries) /\ Len(f) = Len(frame)
  /\ \A i \in 1 .. Len(frame) :
       f[i].label = frame[i].label /\ SameRow(f[i].row, frame[i].row) /\ f[i].row.url = frame[i].row.url

\* Rows that keep their url and their id keep what is stored of them.
LEMMA StoredKept ==
  ASSUME Stored, UNCHANGED objects,
         \A k \in 1 .. Len(tasks_left') : \E i \in 1 .. Len(tasks_left) : tasks_left[i] = tasks_left'[k],
         \A j \in 1 .. Len(frame') : \E i \in 1 .. Len(frame) :
           frame'[j].row.url = frame[i].row.url /\ frame'[j].row.id = frame[i].row.id
  PROVE  Stored'
<1>1. ASSUME NEW j \in 1 .. Len(frame'), NEW o \in objects,
             frame'[j].row.url # Nothing /\ o.url = frame'[j].row.url
      PROVE  o.id = frame'[j].row.id
  <2>1. PICK i \in 1 .. Len(frame) :
          frame'[j].row.url = frame[i].row.url /\ frame'[j].row.id = frame[i].row.id
    OBVIOUS
  <2> QED
    BY <1>1, <2>1 DEF Stored
<1>2. ASSUME objects # {} \/ (\E j \in 1 .. Len(frame') : frame'[j].row.url # Nothing)
      PROVE  \A k \in 1 .. Len(tasks_left') : tasks_left'[k] = "store_embedding"
  <2>1. objects # {} \/ (\E i \in 1 .. Len(frame) : frame[i].row.url # Nothing)
    <3>1. ASSUME NEW j \in 1 .. Len(frame'), frame'[j].row.url # Nothing
          PROVE  \E i \in 1 .. Len(frame) : frame[i].row.url # Nothing
      <4>1. PICK i \in 1 .. Len(frame) : frame'[j].row.url = frame[i].row.url
        OBVIOUS
      <4> QED
        BY <3>1, <4>1
    <3> QED
      BY <1>2, <3>1
  <2>2. \A i \in 1 .. Len(tasks_left) : tasks_left[i] = "store_embedding"
    BY <2>1 DEF Stored
  <2> QED
    BY <2>2
<1>3. /\ objects \in SUBSET [url : Nat, id : Names]
      /\ \A o, p \in objects : o.url = p.url => o = p
  BY DEF Stored
<1> QED
  BY <1>1, <1>2, <1>3 DEF Stored

\* Rows that stay where they are, with the text they have, are no more often there.
LEMMA NoneDoubled ==
  ASSUME Undoubled, Len(frame') = Len(frame),
         \A k \in 1 .. Len(tasks_left') : \E i \in 1 .. Len(tasks_left) : tasks_left[i] = tasks_left'[k],
         \A i \in 1 .. Len(frame) :
           frame'[i].row.id = frame[i].row.id /\ frame'[i].row.span = frame[i].row.span
  PROVE  Undoubled'
<1>1. OnceEach(frame)'
  <2>1. ASSUME NEW i \in 1 .. Len(frame'), NEW j \in 1 .. Len(frame'),
               frame'[i].row.id = frame'[j].row.id /\ frame'[i].row.span = frame'[j].row.span
        PROVE  i = j
    <3>1. i \in 1 .. Len(frame) /\ j \in 1 .. Len(frame)
      OBVIOUS
    <3>2. frame[i].row.id = frame[j].row.id /\ frame[i].row.span = frame[j].row.span
      BY <2>1, <3>1
    <3> QED
      BY <3>1, <3>2 DEF Undoubled, OnceEach
  <2> QED
    BY <2>1 DEF OnceEach
<1>2. ASSUME NEW k \in 1 .. Len(tasks_left'), tasks_left'[k] = "split",
             NEW i \in 1 .. Len(frame'), NEW j \in 1 .. Len(frame'), frame'[i].row.id = frame'[j].row.id
      PROVE  i = j
  <2>1. \E m \in 1 .. Len(tasks_left) : tasks_left[m] = "split"
    BY <1>2
  <2>2. i \in 1 .. Len(frame) /\ j \in 1 .. Len(frame) /\ frame[i].row.id = frame[j].row.id
    BY <1>2
  <2> QED
    BY <2>1, <2>2 DEF Undoubled
<1> QED
  BY <1>1, <1>2 DEF Undoubled

\* Before the embedding stage nothing is said of embeddings.
LEMMA NotEmbedded ==
  ASSUME TasksInOrder, NEW name, HasTask(name), tasks_left' = Tail(tasks_left),
         UNCHANGED options, StageTurn(name) < 8 \/ doc_failed' = TRUE
  PROVE  Embeddings'
<1>1. CASE doc_failed' = TRUE
  BY <1>1 DEF Embeddings
<1>2. CASE StageTurn(name) < 8
  <2>1. "embed" \in Stages /\ StageTurn("embed") = 8
    <3>1. StageOrder[8] = "embed"
      BY DEF StageOrder
    <3> QED
      BY <3>1, TurnOf
  <2>2. name \in Stages /\ StageTurn(name) \in Int
    BY TaskTaken, TurnOf
  <2>3. ~Done("embed") /\ name # "embed"
    <3>1. Done("embed") => StageTurn("embed") < StageTurn(name)
      BY <2>1, TaskTaken
    <3> QED
      BY <1>2, <2>1, <2>2, <3>1
  <2>4. ~Done("embed")'
    <3>1. Done("embed")' <=> Done("embed") \/ "embed" = name
      BY TaskTaken
    <3> QED
      BY <2>3, <3>1
  <2> QED
    BY <2>4 DEF Embeddings
<1> QED
  BY <1>1, <1>2

\* A stage before the embedding that changes rows in place, or fails, keeps the invariant.
LEMMA QuietStage ==
  ASSUME PayloadInv, NEW name, HasTask(name), tasks_left' = Tail(tasks_left),
         UNCHANGED <<original, options, objects>>, doc_failed' \in BOOLEAN,
         StageTurn(name) < 8 \/ doc_failed' = TRUE, InPlace(frame')
  PROVE  PayloadInv'
<1>1. /\ TasksInOrder /\ frame \in Seq(Entries) /\ Apart(frame) /\ Stored
      /\ frame' \in Seq(Entries) /\ Len(frame') = Len(frame)
  BY DEF PayloadInv, InPlace
<1>2. TasksInOrder' /\ (\A s : Done(s)' <=> Done(s) \/ s = name)
      /\ \A k \in 1 .. Len(tasks_left') : \E i \in 1 .. Len(tasks_left) : tasks_left[i] = tasks_left'[k]
  BY <1>1, TaskTaken
<1>3. Apart(frame')
  BY <1>1 DEF Apart, InPlace
<1>4. Embeddings'
  BY <1>1, NotEmbedded
<1>5. Stored'
  <2>1. \A j \in 1 .. Len(frame') :
          frame'[j].row.url = frame[j].row.url /\ frame'[j].row.id = frame[j].row.id
    BY <1>1 DEF InPlace, SameRow
  <2>2. \A j \in 1 .. Len(frame') : \E i \in 1 .. Len(frame) :
           frame'[j].row.url = frame[i].row.url /\ frame'[j].row.id = frame[i].row.id
    BY <1>1, <2>1
  <2> QED
    BY <1>1, <1>2, <2>2, StoredKept
<1>6. ASSUME NEW k \in 1 .. Len(original) PROVE RowAccounted(original[k])'
  <2>1. \A i \in 1 .. Len(frame) : \E j \in 1 .. Len(frame') : SameRow(frame'[j].row, frame[i].row)
    BY <1>1 DEF InPlace
  <2> DEFINE q == original[k]
  <2>2. RowAccounted(q) /\ original' = original
    BY DEF PayloadInv
  <2>3. \A s : Done(s) => Done(s)'
    BY <1>2
  <2>4. ASSUME NEW x, RowAccounted(x) PROVE RowAccounted(x)'
    BY <1>1, <2>1, <2>3, <2>4, CarriedOver
  <2> QED
    BY <2>2, <2>4
<1>7. Undoubled'
  <2>1. \A i \in 1 .. Len(frame) :
          frame'[i].row.id = frame[i].row.id /\ frame'[i].row.span = frame[i].row.span
    BY DEF InPlace, SameRow
  <2>2. Undoubled
    BY DEF PayloadInv
  <2> QED
    BY <1>1, <1>2, <2>1, <2>2, NoneDoubled
<1> QED
  BY <1>1, <1>2, <1>3, <1>4, <1>5, <1>6, <1>7 DEF PayloadInv

\* A row put in an entry leaves the label.
LEMMA EntryPut ==
  ASSUME NEW e \in Entries, NEW q \in OwnRows
  PROVE  LET f == [e EXCEPT !.row = q]
         IN  f \in Entries /\ f.label = e.label /\ f.row = q
BY DEF Entries

\* A label that is found is that of the row it was taken from.
LEMMA FoundByLabel ==
  ASSUME frame \in Seq(Entries), Apart(frame), NEW I \in SUBSET (1 .. Len(frame)), NEW entries,
         entries = SelectAt(frame, I), NEW labels \in Seq(Nat), Len(labels) <= Len(entries),
         \A n \in 1 .. Len(labels) : labels[n] = entries[n].label, NEW i \in 1 .. Len(frame),
         PlaceIn(labels, frame[i].label) # 0
  PROVE  LET n == PlaceIn(labels, frame[i].label)
         IN  n \in 1 .. Len(entries) /\ entries[n] = frame[i]
<1> DEFINE n == PlaceIn(labels, frame[i].label)
<1>1. n \in 0 .. Len(labels) /\ labels[n] = frame[i].label
  BY PlaceFacts
<1>2. /\ entries \in Seq(Entries) /\ Len(entries) = Cardinality(I) /\ Cardinality(I) \in Nat
      /\ \A k \in 1 .. Cardinality(I) :
           Ascending(I)[k] \in I /\ entries[k] = frame[Ascending(I)[k]]
  BY SelectAtFacts
<1>3. n # 0 /\ Len(labels) \in Nat
  OBVIOUS
<1> HIDE DEF n
<1>4. n \in 1 .. Len(entries) /\ n \in 1 .. Len(labels)
  BY <1>1, <1>2, <1>3
<1>5. entries[n].label = frame[i].label
  BY <1>1, <1>4
<1>6. Ascending(I)[n] \in 1 .. Len(frame) /\ entries[n] = frame[Ascending(I)[n]]
  BY <1>2, <1>4
<1>7. Ascending(I)[n] = i
  BY <1>5, <1>6 DEF Apart
<1> QED
  BY <1>4, <1>6, <1>7 DEF n

\* Texts written by label reach the rows they are about (table, chart, infographic stages).
LEMMA WriteTable ==
  ASSUME frame \in Seq(Entries), Apart(frame), NEW I \in SUBSET (1 .. Len(frame)), NEW entries,
         entries = SelectAt(frame, I), NEW labels \in Seq(Nat), Len(labels) <= Len(entries),
         \A n \in 1 .. Len(labels) : labels[n] = entries[n].label, NEW values,
         \A n \in 1 .. Len(entries) : values[n] \in {Nothing, "", entries[n].row.id}
  PROVE  InPlace(WriteBack(labels, values, PutTableContent))
<1> DEFINE f == WriteBack(labels, values, PutTableContent)
           place(i) == PlaceIn(labels, frame[i].label)
<1>1. /\ DOMAIN frame = 1 .. Len(frame) /\ Len(frame) \in Nat
      /\ \A i \in 1 .. Len(frame) : frame[i] \in Entries
  BY SequenceIs
<1>2. f = [i \in 1 .. Len(frame) |->
             IF place(i) = 0 THEN frame[i]
             ELSE [frame[i] EXCEPT !.row = [@ EXCEPT !.table_content = values[place(i)]]]]
  BY <1>1 DEF WriteBack, PutTableContent
<1>3. ASSUME NEW i \in 1 .. Len(frame)
      PROVE  /\ f[i] \in Entries /\ f[i].label = frame[i].label
             /\ SameRow(f[i].row, frame[i].row) /\ f[i].row.url = frame[i].row.url
  <2> DEFINE e == frame[i]
             v == values[place(i)]
             q == [e.row EXCEPT !.table_content = v]
  <2>1. e \in Entries /\ e.row \in OwnRows
    BY <1>1, EntryFacts
  <2>2. CASE place(i) = 0
    <3>1. f[i] = e
      BY <1>2, <2>2
    <3> HIDE DEF f
    <3> QED
      BY <2>1, <3>1 DEF SameRow
  <2>3. CASE place(i) # 0
    <3>1. place(i) \in 1 .. Len(entries) /\ entries[place(i)] = frame[i]
      BY <2>3, FoundByLabel
    <3>2. f[i] = [e EXCEPT !.row = q]
      BY <1>2, <2>3
    <3> HIDE DEF place, f
    <3>3. v \in {Nothing, "", e.row.id}
      BY <3>1
    <3>4. q \in OwnRows /\ SameRow(q, e.row) /\ q.url = e.row.url
      <4> HIDE DEF e, v
      <4> QED
        BY <2>1, <3>3, PutTable
    <3> HIDE DEF e, q
    <3>5. f[i] \in Entries /\ f[i].label = e.label /\ f[i].row = q
      <4> DEFINE w == [e EXCEPT !.row = q]
      <4> HIDE DEF f
      <4>1. w \in Entries /\ w.label = e.label /\ w.row = q
        BY <2>1, <3>4, EntryPut
      <4>2. f[i] = w
        BY <3>2
      <4> HIDE DEF w
      <4> QED
        BY <4>1, <4>2
    <3> QED
      BY <3>4, <3>5 DEF e
  <2> QED
    BY <2>2, <2>3
<1>4. f \in [1 .. Len(frame) -> Entries]
  <2>1. f = [i \in 1 .. Len(frame) |-> f[i]]
    BY <1>2
  <2> HIDE DEF f
  <2> QED
    BY <1>3, <2>1
<1> HIDE DEF f
<1>5. f \in Seq(Entries) /\ Len(f) = Len(frame)
  BY <1>1, <1>4, FunctionIsSequence
<1> QED
  BY <1>3, <1>5 DEF InPlace, f

\* Captions written by label reach the rows they are about (caption stage).
LEMMA WriteCaption ==
  ASSUME frame \in Seq(Entries), Apart(frame), NEW I \in SUBSET (1 .. Len(frame)), NEW entries,
         entries = SelectAt(frame, I), NEW labels \in Seq(Nat), Len(labels) <= Len(entries),
         \A n \in 1 .. Len(labels) : labels[n] = entries[n].label, NEW values,
         \A n \in 1 .. Len(entries) : values[n] \in {Nothing, entries[n].row.id}
  PROVE  InPlace(WriteBack(labels, values, PutCaption))
<1> DEFINE f == WriteBack(labels, values, PutCaption)
           place(i) == PlaceIn(labels, frame[i].label)
<1>1. /\ DOMAIN frame = 1 .. Len(frame) /\ Len(frame) \in Nat
      /\ \A i \in 1 .. Len(frame) : frame[i] \in Entries
  BY SequenceIs
<1>2. f = [i \in 1 .. Len(frame) |->
             IF place(i) = 0 THEN frame[i]
             ELSE [frame[i] EXCEPT !.row = [@ EXCEPT !.caption = values[place(i)]]]]
  BY <1>1 DEF WriteBack, PutCaption
<1>3. ASSUME NEW i \in 1 .. Len(frame)
      PROVE  /\ f[i] \in Entries /\ f[i].label = frame[i].label
             /\ SameRow(f[i].row, frame[i].row) /\ f[i].row.url = frame[i].row.url
  <2> DEFINE e == frame[i]
             v == values[place(i)]
             q == [e.row EXCEPT !.caption = v]
  <2>1. e \in Entries /\ e.row \in OwnRows
    BY <1>1, EntryFacts
  <2>2. CASE place(i) = 0
    <3>1. f[i] = e
      BY <1>2, <2>2
    <3> HIDE DEF f
    <3> QED
      BY <2>1, <3>1 DEF SameRow
  <2>3. CASE place(i) # 0
    <3>1. place(i) \in 1 .. Len(entries) /\ entries[place(i)] = frame[i]
      BY <2>3, FoundByLabel
    <3>2. f[i] = [e EXCEPT !.row = q]
      BY <1>2, <2>3
    <3> HIDE DEF place, f
    <3>3. v \in {Nothing, e.row.id}
      BY <3>1
    <3>4. q \in OwnRows /\ SameRow(q, e.row) /\ q.url = e.row.url
      <4> HIDE DEF e, v
      <4> QED
        BY <2>1, <3>3, PutCaptions
    <3> HIDE DEF e, q
    <3>5. f[i] \in Entries /\ f[i].label = e.label /\ f[i].row = q
      <4> DEFINE w == [e EXCEPT !.row = q]
      <4> HIDE DEF f
      <4>1. w \in Entries /\ w.label = e.label /\ w.row = q
        BY <2>1, <3>4, EntryPut
      <4>2. f[i] = w
        BY <3>2
      <4> HIDE DEF w
      <4> QED
        BY <4>1, <4>2
    <3> QED
      BY <3>4, <3>5 DEF e
  <2> QED
    BY <2>2, <2>3
<1>4. f \in [1 .. Len(frame) -> Entries]
  <2>1. f = [i \in 1 .. Len(frame) |-> f[i]]
    BY <1>2
  <2> HIDE DEF f
  <2> QED
    BY <1>3, <2>1
<1> HIDE DEF f
<1>5. f \in Seq(Entries) /\ Len(f) = Len(frame)
  BY <1>1, <1>4, FunctionIsSequence
<1> QED
  BY <1>3, <1>5 DEF InPlace, f

\* Every answer is put with the image it is about.
LEMMA BulkOwn ==
  ASSUME NEW entries \in Seq(Entries)
  PROVE  /\ DOMAIN BulkResults(entries) = 1 .. Len(entries)
         /\ \A i \in 1 .. Len(entries) :
              BulkResults(entries)[i] \in {Nothing, entries[i].row.id}
<1> DEFINE J == {i \in DOMAIN entries : ~entries[i].row.small}
           valid == ValidIndices(entries)
           answers == ModelAnswers(entries)
<1>1. DOMAIN entries = 1 .. Len(entries) /\ Len(entries) \in Nat
  OBVIOUS
<1>2. IsFiniteSet(J) /\ J \in SUBSET Int /\ J \subseteq 1 .. Len(entries)
  <2>1. IsFiniteSet(1 .. Len(entries)) /\ J \subseteq 1 .. Len(entries)
    BY <1>1, FS_Interval
  <2> QED
    BY <2>1, FS_Subset
<1>3. valid = Ascending(J)
  BY DEF ValidIndices
<1> HIDE DEF J
<1>4. Cardinality(J) \in Nat /\ Ascending(J) \in [1 .. Cardinality(J) -> J]
  BY <1>2, AscendingFacts
<1>5. valid \in Seq(Int) /\ DOMAIN valid = 1 .. Len(valid)
  <2>1. Ascending(J) \in Seq(J) /\ Len(Ascending(J)) = Cardinality(J)
    BY <1>4, FunctionIsSequence
  <2>2. valid \in [1 .. Len(valid) -> Int]
    BY <1>2, <1>3, <1>4, <2>1
  <2> HIDE DEF valid
  <2> QED
    BY <1>3, <1>4, <2>1, <2>2, FunctionIsSequence
<1>6. \A n \in DOMAIN valid : answers[n] = entries[valid[n]].row.id
  BY DEF ModelAnswers
<1>7. /\ DOMAIN BulkResults(entries) = 1 .. Len(entries)
      /\ \A i \in 1 .. Len(entries) :
           BulkResults(entries)[i] =
             IF PlaceIn(valid, i) = 0 THEN Nothing ELSE answers[PlaceIn(valid, i)]
  BY <1>1 DEF BulkResults
<1> HIDE DEF valid, answers
<1>8. ASSUME NEW i \in 1 .. Len(entries), PlaceIn(valid, i) # 0
      PROVE  answers[PlaceIn(valid, i)] = entries[i].row.id
  <2>1. PlaceIn(valid, i) \in 0 .. Len(valid) /\ valid[PlaceIn(valid, i)] = i
    BY <1>5, <1>8, PlaceFacts
  <2>2. PlaceIn(valid, i) \in DOMAIN valid
    BY <1>5, <1>8, <2>1
  <2> QED
    BY <1>6, <2>1, <2>2
<1> QED
  BY <1>7, <1>8

\* Whatever stage raises, the message keeps its rows.
LEMMA StageRaises ==
  ASSUME PayloadInv, NEW name, HasTask(name), Raises(frame)
  PROVE  PayloadInv'
<1>1. /\ frame' = frame /\ tasks_left' = Tail(tasks_left) /\ doc_failed' = TRUE
      /\ UNCHANGED <<original, options, objects>>
  BY DEF Raises
<1>2. InPlace(frame')
  BY <1>1 DEF InPlace, SameRow, PayloadInv
<1> QED
  BY <1>1, <1>2, QuietStage

\* The rows a stage chooses are a selection of the frame.
LEMMA ChosenAre ==
  ASSUME frame \in Seq(Entries), NEW kind
  PROVE  \E I \in SUBSET (1 .. Len(frame)) : Chosen(kind) = SelectAt(frame, I)
<1> DEFINE I == {i \in DOMAIN frame : frame[i].row.kind = kind /\ frame[i].row.content = "own"}
<1>1. Chosen(kind) = SelectAt(frame, I)
  BY DEF Chosen, Filtered
<1>2. I \in SUBSET (1 .. Len(frame))
  BY SequenceIs
<1> HIDE DEF I
<1> QED
  BY <1>1, <1>2

\* Their labels are in the same order.
LEMMA LabelsAre ==
  ASSUME NEW entries \in Seq(Entries)
  PROVE  /\ Labels(entries) \in Seq(Nat) /\ Len(Labels(entries)) = Len(entries)
         /\ \A n \in 1 .. Len(entries) : Labels(entries)[n] = entries[n].label
<1>1. /\ DOMAIN entries = 1 .. Len(entries) /\ Len(entries) \in Nat
      /\ \A n \in 1 .. Len(entries) : entries[n].label \in Nat
  BY SequenceIs, EntryFacts
<1>2. /\ Labels(entries) \in [1 .. Len(entries) -> Nat]
      /\ \A n \in 1 .. Len(entries) : Labels(entries)[n] = entries[n].label
  BY <1>1 DEF Labels
<1> QED
  BY <1>1, <1>2, FunctionIsSequence

\* The turn of each stage.
LEMMA TurnsOf ==
  /\ StageTurn("infographic") = 1 /\ StageTurn("table") = 2 /\ StageTurn("chart") = 3 /\ StageTurn("filter") = 4
  /\ StageTurn("dedup") = 5 /\ StageTurn("split") = 6 /\ StageTurn("caption") = 7 /\ StageTurn("embed") = 8
  /\ StageTurn("store") = 9 /\ StageTurn("store_embedding") = 10
<1>1. /\ StageOrder[1] = "infographic" /\ StageOrder[2] = "table" /\ StageOrder[3] = "chart"
      /\ StageOrder[4] = "filter" /\ StageOrder[5] = "dedup" /\ StageOrder[6] = "split"
      /\ StageOrder[7] = "caption" /\ StageOrder[8] = "embed" /\ StageOrder[9] = "store"
      /\ StageOrder[10] = "store_embedding"
  BY DEF StageOrder
<1>2. \A k \in 1 .. 10 : StageTurn(StageOrder[k]) = k
  BY TurnOf
<1> QED
  BY <1>1, <1>2

\* The split is not due any more, and no part of a row is there twice.
LEMMA SplitOver ==
  ASSUME OnceEach(frame'), TasksInOrder', NEW name \in Stages, Done(name)', StageTurn(name) >= 6
  PROVE  Undoubled'
<1>1. ASSUME NEW k \in 1 .. Len(tasks_left'), tasks_left'[k] = "split" PROVE FALSE
  <2>1. StageTurn(name) < StageTurn(tasks_left'[k])
    BY DEF TasksInOrder
  <2>2. StageTurn("split") = 6 /\ StageTurn(name) \in 1 .. 10
    BY TurnOf, TurnsOf
  <2> QED
    BY <1>1, <2>1, <2>2
<1>2. OnceEach(frame)'
  BY DEF OnceEach
<1> QED
  BY <1>1, <1>2 DEF Undoubled

\* Rows, none of which is the same part of one extracted row as another.
OnceRows(rows) ==
  \A m, n \in 1 .. Len(rows) : rows[m].id = rows[n].id /\ rows[m].span = rows[n].span => m = n

LEMMA ConcatOnce ==
  ASSUME NEW S, NEW s \in Seq(S), NEW t \in Seq(S), OnceRows(s), OnceRows(t),
         \A x \in Range(s), y \in Range(t) : ~(x.id = y.id /\ x.span = y.span)
  PROVE  OnceRows(s \o t)
<1> DEFINE u == s \o t
<1>1. /\ Len(s) \in Nat /\ Len(t) \in Nat /\ Len(u) = Len(s) + Len(t)
      /\ \A i \in 1 .. Len(s) + Len(t) : u[i] = IF i <= Len(s) THEN s[i] ELSE t[i - Len(s)]
  BY ConcatProperties
<1>2. \A k \in 1 .. Len(s) : s[k] \in Range(s)
  BY RangeIs
<1>3. \A k \in 1 .. Len(t) : t[k] \in Range(t)
  BY RangeIs
<1> HIDE DEF u
<1>4. ASSUME NEW m \in 1 .. Len(u), NEW n \in 1 .. Len(u),
             u[m].id = u[n].id /\ u[m].span = u[n].span
      PROVE  m = n
  <2>1. CASE m <= Len(s) /\ n <= Len(s)
    <3>1. m \in 1 .. Len(s) /\ n \in 1 .. Len(s) /\ u[m] = s[m] /\ u[n] = s[n]
      BY <1>1, <2>1
    <3> QED
      BY <1>4, <3>1 DEF OnceRows
  <2>2. CASE m <= Len(s) /\ n > Len(s)
    <3>1. m \in 1 .. Len(s) /\ n - Len(s) \in 1 .. Len(t) /\ u[m] = s[m] /\ u[n] = t[n - Len(s)]
      BY <1>1, <2>2
    <3> QED
      BY <1>2, <1>3, <1>4, <3>1
  <2>3. CASE m > Len(s) /\ n <= Len(s)
    <3>1. n \in 1 .. Len(s) /\ m - Len(s) \in 1 .. Len(t) /\ u[n] = s[n] /\ u[m] = t[m - Len(s)]
      BY <1>1, <2>3
    <3>2. s[n].id = t[m - Len(s)].id /\ s[n].span = t[m - Len(s)].span
      BY <1>4, <3>1
    <3> QED
      BY <1>2, <1>3, <3>1, <3>2
  <2>4. CASE m > Len(s) /\ n > Len(s)
    <3>1. /\ m - Len(s) \in 1 .. Len(t) /\ n - Len(s) \in 1 .. Len(t)
          /\ u[m] = t[m - Len(s)] /\ u[n] = t[n - Len(s)]
      BY <1>1, <2>4
    <3>2. m - Len(s) = n - Len(s)
      BY <1>4, <3>1 DEF OnceRows
    <3> QED
      BY <1>1, <3>2
  <2> QED
    BY <1>1, <2>1, <2>2, <2>3, <2>4
<1> QED
  BY <1>4 DEF OnceRows, u

\* Sequences of different rows, joined; what is joined is of one of them.
LEMMA FlattenOnce ==
  ASSUME NEW S, NEW seqs \in Seq(Seq(S)),
         \A k \in 1 .. Len(seqs) : OnceRows(seqs[k]),
         \A k, l \in 1 .. Len(seqs) : k < l =>
           \A x \in Range(seqs[k]), y \in Range(seqs[l]) : ~(x.id = y.id /\ x.span = y.span)
  PROVE  /\ OnceRows(FlattenSeq(seqs))
         /\ \A x \in Range(FlattenSeq(seqs)) : \E k \in 1 .. Len(seqs) : x \in Range(seqs[k])
<1> DEFINE n == Len(seqs)
<1>1. PICK f \in [0 .. n -> Seq(S)] :
           /\ f[0] = <<>> /\ f[n] = FlattenSeq(seqs)
           /\ \A i \in 1 .. n : f[i] = f[i - 1] \o seqs[i]
  BY FlattenFacts
<1> DEFINE Good == {i \in 0 .. n : /\ OnceRows(f[i])
                                   /\ \A x \in Range(f[i]) : \E k \in 1 .. i : x \in Range(seqs[k])}
<1>2. n \in Nat /\ \A i \in 1 .. n : seqs[i] \in Seq(S) /\ OnceRows(seqs[i])
  OBVIOUS
<1>3. \A k, l \in 1 .. n : k < l =>
        \A x \in Range(seqs[k]), y \in Range(seqs[l]) : ~(x.id = y.id /\ x.span = y.span)
  OBVIOUS
<1> HIDE DEF n
<1>4. 0 \in Good
  <2>1. f[0] = <<>> /\ Len(f[0]) = 0 /\ 0 \in 0 .. n
    BY <1>1, <1>2
  <2>2. Range(f[0]) = {}
    BY <2>1 DEF Range
  <2>3. OnceRows(f[0])
    BY <2>1 DEF OnceRows
  <2> QED
    BY <2>1, <2>2, <2>3
<1>5. ASSUME NEW i \in 1 .. n, i - 1 \in Good PROVE i \in Good
  <2>1. i - 1 \in 0 .. n /\ i \in 0 .. n
    BY <1>2
  <2>2. f[i - 1] \in Seq(S) /\ seqs[i] \in Seq(S) /\ f[i] = f[i - 1] \o seqs[i]
    BY <1>1, <1>2, <2>1
  <2>3. /\ OnceRows(f[i - 1])
        /\ \A x \in Range(f[i - 1]) : \E k \in 1 .. i - 1 : x \in Range(seqs[k])
    BY <1>5
  <2>4. \A k \in 1 .. i - 1 : k \in 1 .. n /\ k \in 1 .. i /\ k < i
    BY <1>2
  <2>5. Range(f[i]) = Range(f[i - 1]) \union Range(seqs[i])
    BY <2>2, ConcatRange
  <2>6. \A x \in Range(f[i]) : \E k \in 1 .. i : x \in Range(seqs[k])
    <3>1. i \in 1 .. i
      BY <1>2
    <3> QED
      BY <2>3, <2>4, <2>5, <3>1
  <2>7. \A x \in Range(f[i - 1]), y \in Range(seqs[i]) : ~(x.id = y.id /\ x.span = y.span)
    BY <1>3, <2>3, <2>4
  <2>8. OnceRows(f[i])
    BY <1>2, <2>2, <2>3, <2>7, ConcatOnce
  <2> QED
    BY <2>1, <2>6, <2>8
<1> HIDE DEF Good
<1>6. \A i \in 0 .. n : i \in Good
  BY <1>2, <1>4, <1>5, UpTo
<1>7. n \in Good
  BY <1>2, <1>6
<1> QED
  BY <1>1, <1>7 DEF Good, n

\* Rows chosen by position from different rows.
LEMMA SelectOnce ==
  ASSUME NEW S, NEW s \in Seq(S), NEW I \in SUBSET (1 .. Len(s)), OnceRows(s)
  PROVE  OnceRows(SelectAt(s, I))
<1> DEFINE t == SelectAt(s, I)
           c == Cardinality(I)
<1>1. /\ c \in Nat /\ t \in Seq(S) /\ Len(t) = c
      /\ \A n \in 1 .. c : Ascending(I)[n] \in I /\ t[n] = s[Ascending(I)[n]]
      /\ \A m, n \in 1 .. c : m < n => Ascending(I)[m] < Ascending(I)[n]
  BY SelectAtFacts
<1> HIDE DEF t, c
<1>2. ASSUME NEW m \in 1 .. c, NEW n \in 1 .. c,
             t[m].id = t[n].id /\ t[m].span = t[n].span, m # n
      PROVE  FALSE
  <2>1. Ascending(I)[m] \in 1 .. Len(s) /\ Ascending(I)[n] \in 1 .. Len(s)
    BY <1>1
  <2>2. t[m] = s[Ascending(I)[m]] /\ t[n] = s[Ascending(I)[n]]
    BY <1>1
  <2>3. Ascending(I)[m] = Ascending(I)[n]
    BY <1>2, <2>1, <2>2 DEF OnceRows
  <2>4. m < n \/ n < m
    BY <1>1, <1>2
  <2>5. Ascending(I)[m] < Ascending(I)[n] \/ Ascending(I)[n] < Ascending(I)[m]
    BY <1>1, <2>4
  <2> QED
    BY <2>1, <2>3, <2>5
<1>3. OnceRows(t)
  BY <1>1, <1>2 DEF OnceRows
<1> QED
  BY <1>3 DEF t

\* Infographics and charts keep the invariant.
LEMMA StructuredKeeps ==
  ASSUME PayloadInv, NEW kind, StageTurn(kind) < 8, StructuredStage(kind)
  PROVE  PayloadInv'
<1> DEFINE entries == Chosen(kind)
           results == BulkResults(entries)
           f == WriteBack(Labels(entries), results, PutTableContent)
<1>1. frame \in Seq(Entries) /\ Apart(frame) /\ doc_failed \in BOOLEAN
  BY DEF PayloadInv
<1>2. HasTask(kind)
  BY DEF StructuredStage
<1>3. CASE Raises(frame)
  BY <1>2, <1>3, StageRaises
<1>4. CASE Succeeds(f) /\ UNCHANGED objects
  <2>1. PICK I \in SUBSET (1 .. Len(frame)) : entries = SelectAt(frame, I)
    BY <1>1, ChosenAre
  <2>2. entries \in Seq(Entries)
    BY <1>1, <2>1, SelectAtFacts
  <2>3. /\ Labels(entries) \in Seq(Nat) /\ Len(Labels(entries)) = Len(entries)
        /\ \A n \in 1 .. Len(entries) : Labels(entries)[n] = entries[n].label
    BY <2>2, LabelsAre
  <2>4. \A n \in 1 .. Len(entries) : results[n] \in {Nothing, "", entries[n].row.id}
    BY <2>2, BulkOwn
  <2>5. Len(Labels(entries)) <= Len(entries)
    BY <2>2, <2>3
  <2> DEFINE labels == Labels(entries)
  <2> HIDE DEF entries, results, labels
  <2>6. InPlace(WriteBack(labels, results, PutTableContent))
    BY <1>1, <2>1, <2>3, <2>4, <2>5, WriteTable DEF labels
  <2>7. /\ frame' = WriteBack(labels, results, PutTableContent)
        /\ tasks_left' = Tail(tasks_left) /\ UNCHANGED <<original, options, objects, doc_failed>>
    BY <1>4 DEF Succeeds, labels
  <2> QED
    BY <1>1, <1>2, <2>6, <2>7, QuietStage
<1> QED
  BY <1>3, <1>4 DEF StructuredStage

\* Tables keep the invariant.
LEMMA TablesKeep ==
  ASSUME PayloadInv, ExtractTables
  PROVE  PayloadInv'
<1> DEFINE entries == Chosen("table")
           results == BulkResults(entries)
           texts == [i \in DOMAIN entries |-> IF results[i] = Nothing THEN "" ELSE results[i]]
           bad == PlaceIn(results, Nothing)
           all == Labels(entries)
           some == SubSeq(all, 1, bad - 1)
<1>1. frame \in Seq(Entries) /\ Apart(frame) /\ doc_failed \in BOOLEAN
  BY DEF PayloadInv
<1>2. HasTask("table") /\ StageTurn("table") < 8
  <2>1. HasTask("table")
    BY DEF ExtractTables
  <2> QED
    BY <2>1, TurnsOf
<1>3. PICK I \in SUBSET (1 .. Len(frame)) : entries = SelectAt(frame, I)
  BY <1>1, ChosenAre
<1>4. entries \in Seq(Entries)
  BY <1>1, <1>3, SelectAtFacts
<1>5. /\ all \in Seq(Nat) /\ Len(all) = Len(entries)
      /\ \A n \in 1 .. Len(entries) : all[n] = entries[n].label
  BY <1>4, LabelsAre
<1>6. /\ DOMAIN entries = 1 .. Len(entries) /\ Len(entries) \in Nat
      /\ \A n \in 1 .. Len(entries) : entries[n].row \in OwnRows
  BY <1>4, SequenceIs, EntryFacts
<1>7. /\ DOMAIN results = 1 .. Len(entries)
      /\ \A n \in 1 .. Len(entries) : results[n] \in {Nothing, entries[n].row.id}
  BY <1>4, BulkOwn
<1>8. \/ Succeeds(WriteBack(all, texts, PutTableContent)) /\ UNCHANGED objects
      \/ bad # 0 /\ Raises(WriteBack(some, texts, PutTableContent))
      \/ Raises(frame)
  BY DEF ExtractTables
<1> HIDE DEF entries, results, all
<1>9. \A n \in 1 .. Len(entries) : texts[n] \in {Nothing, "", entries[n].row.id}
  BY <1>6, <1>7
<1> HIDE DEF texts
<1>10. CASE Raises(frame)
  BY <1>2, <1>10, StageRaises
<1>11. CASE Succeeds(WriteBack(all, texts, PutTableContent)) /\ UNCHANGED objects
  <2>1. Len(all) <= Len(entries)
    BY <1>5, <1>6
  <2>2. InPlace(WriteBack(all, texts, PutTableContent))
    BY <1>1, <1>3, <1>5, <1>9, <2>1, WriteTable
  <2>3. /\ frame' = WriteBack(all, texts, PutTableContent)
        /\ tasks_left' = Tail(tasks_left) /\ UNCHANGED <<original, options, objects, doc_failed>>
    BY <1>11 DEF Succeeds
  <2> QED
    BY <1>1, <1>2, <2>2, <2>3, QuietStage
<1>12. CASE bad # 0 /\ Raises(WriteBack(some, texts, PutTableContent))
  <2>1. \A n \in 1 .. Len(entries) : results[n] \in Names \union {Nothing}
    BY <1>6, <1>7 DEF OwnRows, RowFields
  <2>2. results \in Seq(Names \union {Nothing}) /\ Len(results) = Len(entries)
    <3>1. results \in [1 .. Len(entries) -> Names \union {Nothing}]
      <4>1. results = [n \in DOMAIN entries |-> results[n]]
        BY DEF results, BulkResults
      <4> QED
        BY <1>6, <2>1, <4>1
    <3> QED
      BY <1>6, <3>1, FunctionIsSequence
  <2>3. bad \in 0 .. Len(entries) /\ bad # 0
    BY <1>12, <2>2, PlaceFacts
  <2> HIDE DEF bad
  <2>4. /\ some \in Seq(Nat) /\ Len(some) = bad - 1
        /\ \A n \in 1 .. Len(some) : some[n] = all[n]
    BY <1>5, <1>6, <2>3
  <2> HIDE DEF some
  <2>5. Len(some) <= Len(entries) /\ \A n \in 1 .. Len(some) : some[n] = entries[n].label
    BY <1>5, <1>6, <2>3, <2>4
  <2>6. InPlace(WriteBack(some, texts, PutTableContent))
    BY <1>1, <1>3, <1>9, <2>4, <2>5, WriteTable
  <2>7. /\ frame' = WriteBack(some, texts, PutTableContent) /\ doc_failed' = TRUE
        /\ tasks_left' = Tail(tasks_left) /\ UNCHANGED <<original, options, objects>>
    BY <1>12 DEF Raises
  <2> QED
    BY <1>1, <1>2, <2>6, <2>7, QuietStage
<1> QED
  BY <1>8, <1>10, <1>11, <1>12

\* Captions keep the invariant.
LEMMA CaptionsKeep ==
  ASSUME PayloadInv, CaptionImages
  PROVE  PayloadInv'
<1> DEFINE I == {i \in DOMAIN frame : ContentType(frame[i].row) = "image"}
           images == SelectAt(frame, I)
           labels == Labels(images)
           captions == Captions(images)
<1>1. frame \in Seq(Entries) /\ Apart(frame) /\ doc_failed \in BOOLEAN
  BY DEF PayloadInv
<1>2. HasTask("caption") /\ StageTurn("caption") < 8
  BY TurnsOf DEF CaptionImages
<1>3. I \in SUBSET (1 .. Len(frame))
  BY <1>1, SequenceIs
<1>4. \/ Succeeds(WriteBack(labels, captions, PutCaption)) /\ UNCHANGED objects
      \/ Raises(frame)
  BY DEF CaptionImages, Filtered
<1> HIDE DEF I
<1>5. images \in Seq(Entries)
  BY <1>1, <1>3, SelectAtFacts
<1>6. /\ labels \in Seq(Nat) /\ Len(labels) = Len(images)
      /\ \A n \in 1 .. Len(images) : labels[n] = images[n].label
  BY <1>5, LabelsAre
<1>7. Len(labels) <= Len(images) /\ DOMAIN images = 1 .. Len(images)
  BY <1>5, <1>6
<1>8. \A n \in 1 .. Len(images) : captions[n] = images[n].row.id
  BY <1>7 DEF Captions
<1> DEFINE entries == images
<1>9. entries = SelectAt(frame, I)
  OBVIOUS
<1> HIDE DEF captions, labels, images
<1>10. \A n \in 1 .. Len(entries) : captions[n] \in {Nothing, entries[n].row.id}
  BY <1>8
<1>11. CASE Raises(frame)
  BY <1>2, <1>11, StageRaises
<1>12. CASE Succeeds(WriteBack(labels, captions, PutCaption)) /\ UNCHANGED objects
  <2>1. InPlace(WriteBack(labels, captions, PutCaption))
    BY <1>1, <1>3, <1>6, <1>7, <1>9, <1>10, WriteCaption
  <2>2. /\ frame' = WriteBack(labels, captions, PutCaption)
        /\ tasks_left' = Tail(tasks_left) /\ UNCHANGED <<original, options, objects, doc_failed>>
    BY <1>12 DEF Succeeds
  <2> QED
    BY <1>1, <1>2, <2>1, <2>2, QuietStage
<1> QED
  BY <1>4, <1>11, <1>12

\* A stage that leaves what is embedded of a row, and its embedding, keeps the two matched.
LEMMA EmbeddingsStay ==
  ASSUME TasksInOrder, Embeddings, NEW name, name # "embed", HasTask(name),
         tasks_left' = Tail(tasks_left), UNCHANGED <<options, doc_failed>>,
         \A j \in 1 .. Len(frame') : \E i \in 1 .. Len(frame) :
           /\ EmbeddedContent(frame'[j].row) = EmbeddedContent(frame[i].row)
           /\ frame'[j].row.embedding = frame[i].row.embedding
  PROVE  Embeddings'
<1>1. Done("embed")' <=> Done("embed")
  BY TaskTaken
<1>2. ASSUME Done("embed")' /\ ~doc_failed', NEW j \in 1 .. Len(frame')
      PROVE  IsEmbedded(frame[j].row)'
  <2>1. PICK i \in 1 .. Len(frame) :
          /\ EmbeddedContent(frame'[j].row) = EmbeddedContent(frame[i].row)
          /\ frame'[j].row.embedding = frame[i].row.embedding
    OBVIOUS
  <2>2. IsEmbedded(frame[i].row)
    BY <1>1, <1>2 DEF Embeddings
  <2> DEFINE r == frame'[j].row
             q == frame[i].row
  <2>3. EmbeddedContent(r) = EmbeddedContent(q) /\ r.embedding = q.embedding /\ IsEmbedded(q)
    BY <2>1, <2>2
  <2>4. (EmbeddedContent(frame[j].row))' = EmbeddedContent(r)
    BY DEF EmbeddedContent, EmbeddedText, ContentType
  <2>5. IsEmbedded(frame[j].row)' <=>
          ((EmbeddedContent(frame[j].row))' # Nothing =>
             r.embedding = (EmbeddedContent(frame[j].row))')
    BY DEF IsEmbedded
  <2> HIDE DEF r, q
  <2> QED
    BY <2>3, <2>4, <2>5 DEF IsEmbedded
<1> QED
  BY <1>2 DEF Embeddings

\* The embedding store keeps the invariant.
LEMMA StoreEmbeddingsKeep ==
  ASSUME PayloadInv, StoreEmbeddings
  PROVE  PayloadInv'
<1> DEFINE name == "store_embedding"
<1>1. /\ TasksInOrder /\ Embeddings /\ Stored
      /\ frame \in Seq(Entries) /\ Apart(frame) /\ doc_failed \in BOOLEAN
  BY DEF PayloadInv
<1>2. HasTask(name)
  BY DEF StoreEmbeddings
<1>3. CASE Raises(frame)
  BY <1>2, <1>3, StageRaises
<1>4. CASE Succeeds(frame) /\ UNCHANGED objects
  <2>1. /\ frame' = frame /\ tasks_left' = Tail(tasks_left)
        /\ UNCHANGED <<original, options, objects, doc_failed>>
    BY <1>4 DEF Succeeds
  <2>2. TasksInOrder' /\ (\A s : Done(s)' <=> Done(s) \/ s = name)
        /\ \A k \in 1 .. Len(tasks_left') : \E i \in 1 .. Len(tasks_left) : tasks_left[i] = tasks_left'[k]
    BY <1>1, <1>2, <2>1, TaskTaken
  <2>3. Embeddings'
    BY <1>1, <1>2, <2>1, EmbeddingsStay
  <2>4. Stored'
    BY <1>1, <2>1, <2>2, StoredKept
  <2>5. ASSUME NEW q, RowAccounted(q) PROVE RowAccounted(q)'
    <3>1. \A i \in 1 .. Len(frame) : \E j \in 1 .. Len(frame') : SameRow(frame'[j].row, frame[i].row)
      BY <2>1 DEF SameRow
    <3>2. \A s : Done(s) => Done(s)'
      BY <2>2
    <3> QED
      BY <1>1, <2>1, <2>5, <3>1, <3>2, CarriedOver
  <2>6. \A k \in 1 .. Len(original) : RowAccounted(original[k])'
    BY <2>1, <2>5 DEF PayloadInv
  <2>7. Undoubled'
    <3>1. Undoubled
      BY DEF PayloadInv
    <3> QED
      BY <2>1, <2>2, <3>1, NoneDoubled
  <2> QED
    BY <1>1, <2>1, <2>2, <2>3, <2>4, <2>6, <2>7 DEF PayloadInv
<1> QED
  BY <1>3, <1>4 DEF StoreEmbeddings

\* What the image store writes under a label is the row of that label.
LEMMA StoredNow ==
  ASSUME PayloadInv, HasTask("store"), tasks_left' = Tail(tasks_left), UNCHANGED options,
         NEW put \in SUBSET (1 .. Len(frame)),
         frame' \in Seq(Entries), Len(frame') = Len(frame),
         \A i \in 1 .. Len(frame) :
           /\ frame'[i].row.id = frame[i].row.id
           /\ frame'[i].row.url = IF i \in put THEN frame[i].label ELSE frame[i].row.url,
         objects' = {[url |-> frame[i].label, id |-> frame[i].row.id] : i \in put}
  PROVE  Stored'
<1>1. TasksInOrder /\ Stored /\ frame \in Seq(Entries) /\ Apart(frame)
  BY DEF PayloadInv
<1>2. \A i \in 1 .. Len(frame) : frame[i].label \in Nat /\ frame[i].row.id \in Names
  <2>1. \A r \in OwnRows : r.id \in Names
    BY DEF OwnRows, RowFields
  <2> QED
    BY <1>1, <2>1, SequenceIs, EntryFacts
<1>3. \A i \in 1 .. Len(frame) : frame[i].row.url = Nothing
  <2>1. \E k \in 1 .. Len(tasks_left) : tasks_left[k] = "store"
    BY <1>1, TaskTaken
  <2> QED
    BY <1>1, <2>1 DEF Stored
<1>4. \A o \in objects' : \E i \in put : o.url = frame[i].label /\ o.id = frame[i].row.id
                                    /\ o = [url |-> frame[i].label, id |-> frame[i].row.id]
  OBVIOUS
<1>5. objects' \in SUBSET [url : Nat, id : Names]
  <2>1. \A i \in put : [url |-> frame[i].label, id |-> frame[i].row.id] \in [url : Nat, id : Names]
    BY <1>2
  <2> QED
    BY <2>1
<1>6. ASSUME NEW o \in objects', NEW p \in objects', o.url = p.url PROVE o = p
  <2>1. PICK i \in put : /\ o.url = frame[i].label
                         /\ o = [url |-> frame[i].label, id |-> frame[i].row.id]
    BY <1>4
  <2>2. PICK j \in put : /\ p.url = frame[j].label
                         /\ p = [url |-> frame[j].label, id |-> frame[j].row.id]
    BY <1>4
  <2>3. i = j
    BY <1>1, <1>6, <2>1, <2>2 DEF Apart
  <2> QED
    BY <2>1, <2>2, <2>3
<1>7. ASSUME NEW i \in 1 .. Len(frame'), NEW o \in objects',
             frame'[i].row.url # Nothing /\ o.url = frame'[i].row.url
      PROVE  o.id = frame'[i].row.id
  <2>1. i \in 1 .. Len(frame) /\ i \in put /\ frame'[i].row.url = frame[i].label
    BY <1>3, <1>7
  <2>2. PICK j \in put : o.url = frame[j].label /\ o.id = frame[j].row.id
    BY <1>4
  <2>3. i = j
    BY <1>1, <1>7, <2>1, <2>2 DEF Apart
  <2> QED
    BY <2>1, <2>2, <2>3
<1>8. \A k \in 1 .. Len(tasks_left') : tasks_left'[k] = "store_embedding"
  <2> TAKE k \in 1 .. Len(tasks_left')
  <2>1. TasksInOrder' /\ Done("store")'
    BY <1>1, TaskTaken
  <2>2. "store" \in Stages /\ "store_embedding" \in Stages /\ StageOrder[10] = "store_embedding"
    BY DEF Stages, StageOrder
  <2>3. tasks_left'[k] \in Stages /\ StageTurn("store") < StageTurn(tasks_left'[k])
    BY <2>1, <2>2, SequenceIs DEF TasksInOrder
  <2>4. StageTurn(tasks_left'[k]) \in 1 .. 10 /\ StageTurn("store") = 9
    BY <2>3, TurnOf, TurnsOf
  <2>5. StageTurn(tasks_left'[k]) = 10
    BY <2>3, <2>4
  <2> QED
    BY <2>2, <2>3, <2>5, TurnOf
<1> QED
  BY <1>5, <1>6, <1>7, <1>8 DEF Stored

\* The image store keeps the invariant.
LEMMA StoreImagesKeep ==
  ASSUME PayloadInv, StoreImages
  PROVE  PayloadInv'
<1> DEFINE wanted == {i \in DOMAIN frame : frame[i].row.document_type \in StoredTypes}
           f(put) == [i \in DOMAIN frame |->
                        IF i \in put THEN [frame[i] EXCEPT !.row.url = frame[i].label]
                        ELSE frame[i]]
           made(put) == {[url |-> frame[i].label, id |-> frame[i].row.id] : i \in put}
<1>1. /\ TasksInOrder /\ Embeddings /\ Stored
      /\ frame \in Seq(Entries) /\ Apart(frame) /\ doc_failed \in BOOLEAN
  BY DEF PayloadInv
<1>2. HasTask("store")
  BY DEF StoreImages
<1>3. wanted \subseteq 1 .. Len(frame)
  BY <1>1, SequenceIs
<1>4. \/ \E put \in {wanted} \union {wanted \ {i} : i \in wanted} :
           Succeeds(f(put)) /\ objects' = made(put)
      \/ Raises(frame)
  BY DEF StoreImages
<1> HIDE DEF wanted, f, made
<1>5. CASE Raises(frame)
  BY <1>2, <1>5, StageRaises
<1>6. CASE \E put \in {wanted} \union {wanted \ {i} : i \in wanted} :
             Succeeds(f(put)) /\ objects' = made(put)
  <2>1. PICK put \in {wanted} \union {wanted \ {i} : i \in wanted} :
          Succeeds(f(put)) /\ objects' = made(put)
    BY <1>6
  <2>2. put \in SUBSET (1 .. Len(frame))
    BY <1>3
  <2>3. /\ frame' = f(put) /\ tasks_left' = Tail(tasks_left)
        /\ UNCHANGED <<original, options, doc_failed>>
        /\ objects' = {[url |-> frame[i].label, id |-> frame[i].row.id] : i \in put}
    BY <2>1 DEF Succeeds, made
  <2>4. ASSUME NEW i \in 1 .. Len(frame)
        PROVE  /\ frame'[i] \in Entries /\ frame'[i].label = frame[i].label
               /\ frame'[i].row.url = (IF i \in put THEN frame[i].label ELSE frame[i].row.url)
               /\ SameRow(frame'[i].row, frame[i].row)
               /\ EmbeddedContent(frame'[i].row) = EmbeddedContent(frame[i].row)
               /\ frame'[i].row.embedding = frame[i].row.embedding
    <3> DEFINE e == frame[i]
               q == [e.row EXCEPT !.url = e.label]
               w == [e EXCEPT !.row = q]
    <3>1. DOMAIN frame = 1 .. Len(frame) /\ e \in Entries /\ e.row \in OwnRows /\ e.label \in Nat
      BY <1>1, SequenceIs, EntryFacts
    <3>2. frame'[i] = IF i \in put THEN w ELSE e
      BY <2>3, <3>1 DEF f
    <3> DEFINE r == e.row
               v == e.label
    <3>3. /\ q \in OwnRows /\ SameRow(q, r) /\ q.url = v
          /\ EmbeddedContent(q) = EmbeddedContent(r) /\ q.embedding = r.embedding
      <4>1. r \in OwnRows /\ v \in Nat
        BY <3>1
      <4> HIDE DEF r, v, e
      <4>2. LET x == [r EXCEPT !.url = v]
            IN  /\ x \in OwnRows /\ SameRow(x, r) /\ x.url = v
                /\ EmbeddedContent(x) = EmbeddedContent(r) /\ x.embedding = r.embedding
        BY <4>1, PutUrl
      <4> QED
        BY <4>2 DEF r, v
    <3> HIDE DEF q
    <3>4. w \in Entries /\ w.label = e.label /\ w.row = q
      <4> HIDE DEF e
      <4> QED
        BY <3>1, <3>3, EntryPut
    <3> HIDE DEF w, e
    <3>5. CASE i \in put
      <4>1. frame'[i] = w
        BY <3>2, <3>5
      <4> QED
        BY <3>3, <3>4, <3>5, <4>1 DEF e
    <3>6. CASE i \notin put
      <4>1. frame'[i] = e
        BY <3>2, <3>6
      <4> QED
        BY <3>1, <3>6, <4>1 DEF e, SameRow
    <3> QED
      BY <3>5, <3>6
  <2>5. frame' \in Seq(Entries) /\ Len(frame') = Len(frame)
    <3>1. DOMAIN frame = 1 .. Len(frame) /\ Len(frame) \in Nat
      BY <1>1, SequenceIs
    <3>2. frame' = [i \in 1 .. Len(frame) |-> frame'[i]]
      BY <2>3, <3>1 DEF f
    <3>3. frame' \in [1 .. Len(frame) -> Entries]
      BY <2>4, <3>2
    <3> QED
      BY <3>1, <3>3, FunctionIsSequence
  <2>6. /\ TasksInOrder' /\ \A s : Done(s)' <=> Done(s) \/ s = "store"
        /\ \A k \in 1 .. Len(tasks_left') : \E i \in 1 .. Len(tasks_left) : tasks_left[i] = tasks_left'[k]
    BY <1>1, <1>2, <2>3, TaskTaken
  <2>7. Apart(frame')
    BY <1>1, <2>4, <2>5 DEF Apart
  <2>8. Embeddings'
    <3>1. \A j \in 1 .. Len(frame') : \E i \in 1 .. Len(frame) :
            /\ EmbeddedContent(frame'[j].row) = EmbeddedContent(frame[i].row)
            /\ frame'[j].row.embedding = frame[i].row.embedding
      BY <2>4, <2>5
    <3> QED
      BY <1>1, <1>2, <2>3, <3>1, EmbeddingsStay
  <2>9. Stored'
    <3>1. \A i \in 1 .. Len(frame) :
            /\ frame'[i].row.id = frame[i].row.id
            /\ frame'[i].row.url = IF i \in put THEN frame[i].label ELSE frame[i].row.url
      BY <2>4 DEF SameRow
    <3> QED
      BY <1>2, <2>2, <2>3, <2>5, <3>1, StoredNow
  <2>10. ASSUME NEW q, RowAccounted(q) PROVE RowAccounted(q)'
    <3>1. \A i \in 1 .. Len(frame) : \E j \in 1 .. Len(frame') : SameRow(frame'[j].row, frame[i].row)
      BY <2>4, <2>5
    <3>2. \A s : Done(s) => Done(s)'
      BY <2>6
    <3> QED
      BY <1>1, <2>3, <2>5, <2>10, <3>1, <3>2, CarriedOver
  <2>11. \A k \in 1 .. Len(original) : RowAccounted(original[k])'
    BY <2>3, <2>10 DEF PayloadInv
  <2>12. Undoubled'
    <3>1. \A i \in 1 .. Len(frame) :
            frame'[i].row.id = frame[i].row.id /\ frame'[i].row.span = frame[i].row.span
      BY <2>4 DEF SameRow
    <3>2. Undoubled
      BY DEF PayloadInv
    <3> QED
      BY <2>5, <2>6, <3>1, <3>2, NoneDoubled
  <2> QED
    BY <1>1, <2>3, <2>5, <2>6, <2>7, <2>8, <2>9, <2>11, <2>12 DEF PayloadInv
<1> QED
  BY <1>4, <1>5, <1>6

\* Rows of the frame, none twice, have labels of their own.
LEMMA ApartPart ==
  ASSUME frame \in Seq(Entries), Apart(frame)
  PROVE  /\ IsInjective(frame)
         /\ \A f \in Seq(Entries) : IsInjective(f) /\ Range(f) \subseteq Range(frame) => Apart(f)
<1>1. IsInjective(frame)
  <2>1. \A i, j \in 1 .. Len(frame) : frame[i] = frame[j] => i = j
    BY DEF Apart
  <2> QED
    BY <2>1, Injective
<1>2. ASSUME NEW f \in Seq(Entries), IsInjective(f) /\ Range(f) \subseteq Range(frame)
      PROVE  Apart(f)
  <2> SUFFICES ASSUME NEW m \in 1 .. Len(f), NEW n \in 1 .. Len(f), f[m].label = f[n].label
               PROVE  m = n
    BY DEF Apart
  <2>1. f[m] \in Range(frame) /\ f[n] \in Range(frame)
    BY <1>2, RangeIs
  <2>2. PICK i \in 1 .. Len(frame) : frame[i] = f[m]
    BY <2>1, RangeIs
  <2>3. PICK j \in 1 .. Len(frame) : frame[j] = f[n]
    BY <2>1, RangeIs
  <2>4. i = j
    BY <2>2, <2>3 DEF Apart
  <2>5. f[m] = f[n]
    BY <2>2, <2>3, <2>4
  <2> QED
    BY <1>2, <2>5, Injective
<1> QED
  BY <1>1, <1>2

\* A stage before the embedding that only takes rows out, or moves them, keeps the invariant.
LEMMA RowsLeave ==
  ASSUME PayloadInv, NEW name, HasTask(name), StageTurn(name) < 8, tasks_left' = Tail(tasks_left),
         UNCHANGED <<original, options, objects, doc_failed>>,
         frame' \in Seq(Entries), IsInjective(frame'), Range(frame') \subseteq Range(frame),
         \A k \in 1 .. Len(original) : RowAccounted(original[k])'
  PROVE  PayloadInv'
<1>1. /\ TasksInOrder /\ Stored /\ frame \in Seq(Entries) /\ Apart(frame) /\ doc_failed \in BOOLEAN
  BY DEF PayloadInv
<1>2. TasksInOrder'
      /\ \A k \in 1 .. Len(tasks_left') : \E i \in 1 .. Len(tasks_left) : tasks_left[i] = tasks_left'[k]
  BY <1>1, TaskTaken
<1>3. Apart(frame')
  BY <1>1, ApartPart
<1>4. Embeddings'
  BY <1>1, NotEmbedded
<1>5. Stored'
  <2>1. ASSUME NEW j \in 1 .. Len(frame')
        PROVE  \E i \in 1 .. Len(frame) :
                 frame'[j].row.url = frame[i].row.url /\ frame'[j].row.id = frame[i].row.id
    <3>1. frame'[j] \in Range(frame)
      BY RangeIs
    <3>2. PICK i \in 1 .. Len(frame) : frame[i] = frame'[j]
      BY <1>1, <3>1, RangeIs
    <3> QED
      BY <3>2
  <2> QED
    BY <1>1, <1>2, <2>1, StoredKept
<1>6. ASSUME NEW i \in 1 .. Len(frame'), NEW j \in 1 .. Len(frame')
      PROVE  \E m, n \in 1 .. Len(frame) :
               frame[m] = frame'[i] /\ frame[n] = frame'[j] /\ (m = n => i = j)
  <2>1. frame'[i] \in Range(frame) /\ frame'[j] \in Range(frame)
    BY RangeIs
  <2>2. PICK m \in 1 .. Len(frame) : frame[m] = frame'[i]
    BY <1>1, <2>1, RangeIs
  <2>3. PICK n \in 1 .. Len(frame) : frame[n] = frame'[j]
    BY <1>1, <2>1, RangeIs
  <2>4. m = n => frame'[i] = frame'[j]
    BY <2>2, <2>3
  <2>5. m = n => i = j
    BY <2>4, Injective
  <2> QED
    BY <2>2, <2>3, <2>5
<1>7. Undoubled'
  <2>1. Undoubled
    BY DEF PayloadInv
  <2>2. ASSUME NEW i \in 1 .. Len(frame'), NEW j \in 1 .. Len(frame'),
               frame'[i].row.id = frame'[j].row.id /\ frame'[i].row.span = frame'[j].row.span
        PROVE  i = j
    <3>1. PICK m, n \in 1 .. Len(frame) :
            frame[m] = frame'[i] /\ frame[n] = frame'[j] /\ (m = n => i = j)
      BY <1>6
    <3>2. frame[m].row.id = frame[n].row.id /\ frame[m].row.span = frame[n].row.span
      BY <2>2, <3>1
    <3> QED
      BY <2>1, <3>1, <3>2 DEF Undoubled, OnceEach
  <2>3. ASSUME NEW k \in 1 .. Len(tasks_left'), tasks_left'[k] = "split",
               NEW i \in 1 .. Len(frame'), NEW j \in 1 .. Len(frame'),
               frame'[i].row.id = frame'[j].row.id
        PROVE  i = j
    <3>1. \E m \in 1 .. Len(tasks_left) : tasks_left[m] = "split"
      BY <1>2, <2>3
    <3>2. PICK m, n \in 1 .. Len(frame) :
            frame[m] = frame'[i] /\ frame[n] = frame'[j] /\ (m = n => i = j)
      BY <1>6
    <3>3. frame[m].row.id = frame[n].row.id
      BY <2>3, <3>2
    <3> QED
      BY <2>1, <3>1, <3>2, <3>3 DEF Undoubled
  <2> QED
    BY <2>2, <2>3 DEF Undoubled, OnceEach
<1> QED
  BY <1>1, <1>2, <1>3, <1>4, <1>5, <1>7 DEF PayloadInv

\* The image filter keeps the invariant.
LEMMA FilterKeeps ==
  ASSUME PayloadInv, FilterImages
  PROVE  PayloadInv'
<1> DEFINE Fails(e) == e.row.document_type = "image" /\ e.row.odd
           K == {i \in DOMAIN frame : ~Fails(frame[i])}
           flagged == [i \in DOMAIN frame |->
                         IF Fails(frame[i])
                         THEN [frame[i] EXCEPT !.row.document_type = "info_msg"] ELSE frame[i]]
<1>1. /\ TasksInOrder /\ frame \in Seq(Entries) /\ Apart(frame) /\ doc_failed \in BOOLEAN /\ Stored
  BY DEF PayloadInv
<1>2. HasTask("filter") /\ StageTurn("filter") < 8
  <2>1. HasTask("filter")
    BY DEF FilterImages
  <2> QED
    BY <2>1, TurnsOf
<1>3. /\ frame' = (IF options.filter THEN SelectAt(frame, K) ELSE flagged)
      /\ tasks_left' = Tail(tasks_left) /\ UNCHANGED <<original, options, objects, doc_failed>>
  BY DEF FilterImages, Succeeds, Filtered
<1>4. TasksInOrder' /\ Done("filter")' /\ \A s : Done(s)' <=> Done(s) \/ s = "filter"
  BY <1>1, <1>2, <1>3, TaskTaken
<1>5. ~Done("filter") /\ ~Done("dedup") /\ ~Done("split")
  <2>1. "filter" \in Stages /\ "dedup" \in Stages /\ "split" \in Stages
    BY DEF Stages
  <2>2. \A s \in Stages : Done(s) => StageTurn(s) < 4
    BY <1>1, <1>2, <1>3, TaskTaken, TurnsOf
  <2> QED
    BY <2>1, <2>2, TurnsOf
<1>6. ASSUME NEW q, RowAccounted(q) PROVE \E j \in 1 .. Len(frame) : Whole(frame[j].row, q)
  BY <1>5, <1>6 DEF RowAccounted
<1>7. CASE options.filter
  <2>1. frame' = SelectAt(frame, K) /\ K \in SUBSET (1 .. Len(frame))
    BY <1>1, <1>3, <1>7, SequenceIs
  <2>2. /\ frame' \in Seq(Entries) /\ IsInjective(frame')
        /\ Range(frame') = {frame[i] : i \in K}
    <3> HIDE DEF K
    <3> QED
      BY <1>1, <2>1, SelectAtFacts, SelectRange, ApartPart
  <2>3. Range(frame') \subseteq Range(frame)
    BY <1>1, <2>1, <2>2, RangeIs
  <2>4. ASSUME NEW q, RowAccounted(q) PROVE RowAccounted(q)'
    <3>1. PICK j \in 1 .. Len(frame) : Whole(frame[j].row, q)
      BY <1>6, <2>4
    <3>2. CASE j \in K
      <4>1. frame[j] \in Range(frame')
        BY <2>2, <3>2
      <4>2. PICK n \in 1 .. Len(frame') : frame'[n] = frame[j]
        BY <2>2, <4>1, RangeIs
      <4>3. \E i \in 1 .. Len(frame') : Whole(frame'[i].row, q)
        BY <3>1, <4>2
      <4> QED
        BY <4>3 DEF RowAccounted, Whole, IsImage
    <3>3. CASE j \notin K
      <4>1. Fails(frame[j])
        BY <1>1, <3>3, SequenceIs
      <4>2. q.document_type = "image" /\ q.odd
        BY <3>1, <4>1 DEF Whole
      <4>3. Done("filter")' /\ options'.filter
        BY <1>3, <1>4, <1>7
      <4>4. IsImage(q)'
        BY <4>2 DEF IsImage
      <4> QED
        BY <4>2, <4>3, <4>4 DEF RowAccounted
    <3> QED
      BY <3>2, <3>3
  <2>5. \A k \in 1 .. Len(original) : RowAccounted(original[k])'
    BY <1>3, <2>4 DEF PayloadInv
  <2> QED
    BY <1>2, <1>3, <2>2, <2>3, <2>5, RowsLeave
<1>8. CASE ~options.filter
  <2>1. frame' = flagged
    BY <1>3, <1>8
  <2>2. ASSUME NEW i \in 1 .. Len(frame)
        PROVE  /\ frame'[i] \in Entries /\ frame'[i].label = frame[i].label
               /\ frame'[i].row.url = frame[i].row.url /\ frame'[i].row.id = frame[i].row.id
               /\ frame'[i].row.span = frame[i].row.span
               /\ \A q : Whole(frame[i].row, q) => Whole(frame'[i].row, q)
    <3> DEFINE e == frame[i]
               r == e.row
               x == [r EXCEPT !.document_type = "info_msg"]
               w == [e EXCEPT !.row = x]
    <3>1. DOMAIN frame = 1 .. Len(frame) /\ e \in Entries /\ r \in OwnRows
      BY <1>1, SequenceIs, EntryFacts
    <3>2. frame'[i] = IF Fails(e) THEN w ELSE e
      BY <2>1, <3>1
    <3>3. /\ x \in OwnRows /\ x.url = r.url /\ x.document_type = "info_msg"
          /\ x.id = r.id /\ x.hash = r.hash /\ x.odd = r.odd /\ x.span = r.span
      <4> HIDE DEF r
      <4> QED
        BY <3>1, PutType
    <3>4. w \in Entries /\ w.label = e.label /\ w.row = x
      <4> HIDE DEF x, e
      <4> QED
        BY <3>1, <3>3, EntryPut
    <3>5. CASE Fails(e)
      <4>1. frame'[i] = w /\ r.document_type = "image"
        BY <3>2, <3>5
      <4> HIDE DEF w, x
      <4>2. ASSUME NEW q, Whole(r, q) PROVE Whole(x, q)
        <5>1. q.document_type = "image"
          BY <4>1, <4>2 DEF Whole
        <5> QED
          BY <3>3, <4>2, <5>1 DEF Whole, IsImage
      <4> QED
        BY <3>3, <3>4, <4>1, <4>2
    <3>6. CASE ~Fails(e)
      <4>1. frame'[i] = e
        BY <3>2, <3>6
      <4> QED
        BY <3>1, <4>1
    <3> QED
      BY <3>5, <3>6
  <2>3. frame' \in Seq(Entries) /\ Len(frame') = Len(frame)
    <3>1. DOMAIN frame = 1 .. Len(frame) /\ Len(frame) \in Nat
      BY <1>1, SequenceIs
    <3>2. frame' = [i \in 1 .. Len(frame) |-> frame'[i]]
      BY <2>1, <3>1
    <3>3. frame' \in [1 .. Len(frame) -> Entries]
      BY <2>2, <3>2
    <3> QED
      BY <3>1, <3>3, FunctionIsSequence
  <2>4. Apart(frame')
    BY <1>1, <2>2, <2>3 DEF Apart
  <2>5. Embeddings'
    BY <1>1, <1>2, <1>3, NotEmbedded
  <2>6. Stored'
    <3>1. \A k \in 1 .. Len(tasks_left') : \E i \in 1 .. Len(tasks_left) : tasks_left[i] = tasks_left'[k]
      BY <1>1, <1>2, <1>3, TaskTaken
    <3>2. \A j \in 1 .. Len(frame') : \E i \in 1 .. Len(frame) :
            frame'[j].row.url = frame[i].row.url /\ frame'[j].row.id = frame[i].row.id
      BY <2>2, <2>3
    <3> QED
      BY <1>1, <1>3, <3>1, <3>2, StoredKept
  <2>7. ASSUME NEW q, RowAccounted(q) PROVE RowAccounted(q)'
    <3>1. PICK j \in 1 .. Len(frame) : Whole(frame[j].row, q)
      BY <1>6, <2>7
    <3>2. j \in 1 .. Len(frame') /\ Whole(frame'[j].row, q)
      BY <2>2, <2>3, <3>1
    <3>3. \E i \in 1 .. Len(frame') : Whole(frame'[i].row, q)
      BY <3>2
    <3> QED
      BY <3>3 DEF RowAccounted, Whole, IsImage
  <2>8. \A k \in 1 .. Len(original) : RowAccounted(original[k])'
    BY <1>3, <2>7 DEF PayloadInv
  <2>9. Undoubled'
    <3>1. \A k \in 1 .. Len(tasks_left') : \E i \in 1 .. Len(tasks_left) : tasks_left[i] = tasks_left'[k]
      BY <1>1, <1>2, <1>3, TaskTaken
    <3>2. Undoubled
      BY DEF PayloadInv
    <3> QED
      BY <2>2, <2>3, <3>1, <3>2, NoneDoubled
  <2> QED
    BY <1>1, <1>3, <1>4, <2>3, <2>4, <2>5, <2>6, <2>8, <2>9 DEF PayloadInv
<1> QED
  BY <1>7, <1>8

\* Of the images with one content the first is among those chosen.
LEMMA FirstOfKind ==
  ASSUME NEW images \in Seq(Entries), NEW J,
         J = {i \in DOMAIN images :
                \A j \in 1 .. i - 1 : images[j].row.hash # images[i].row.hash},
         NEW i \in 1 .. Len(images)
  PROVE  \E j \in J : images[j].row.hash = images[i].row.hash
<1> DEFINE same == {j \in 1 .. Len(images) : images[j].row.hash = images[i].row.hash}
<1>1. Len(images) \in Nat /\ DOMAIN images = 1 .. Len(images)
  BY SequenceIs
<1>2. PICK j \in same : \A k \in same : j <= k
  <2>1. same \in SUBSET Nat /\ i \in same
    BY <1>1
  <2> HIDE DEF same
  <2> QED
    BY <2>1, LeastNatural
<1>3. \A k \in 1 .. j - 1 : images[k].row.hash # images[j].row.hash
  <2> SUFFICES ASSUME NEW k \in 1 .. j - 1, images[k].row.hash = images[j].row.hash
               PROVE  FALSE
    OBVIOUS
  <2>1. k \in same /\ ~(j <= k)
    BY <1>1, <1>2
  <2> QED
    BY <1>2, <2>1
<1>4. j \in J /\ images[j].row.hash = images[i].row.hash
  BY <1>1, <1>2, <1>3
<1> QED
  BY <1>4

\* Deduplication keeps the invariant.
LEMMA DeduplicateKeeps ==
  ASSUME PayloadInv, DeduplicateImages
  PROVE  PayloadInv'
<1> DEFINE A == {i \in DOMAIN frame : frame[i].row.document_type = "image"}
           B == {i \in DOMAIN frame : frame[i].row.document_type # "image"}
           images == SelectAt(frame, A)
           others == SelectAt(frame, B)
           J == {i \in DOMAIN images :
                   \A j \in 1 .. i - 1 : images[j].row.hash # images[i].row.hash}
           kept == SelectAt(images, J)
<1>1. /\ TasksInOrder /\ frame \in Seq(Entries) /\ Apart(frame)
  BY DEF PayloadInv
<1>2. HasTask("dedup") /\ StageTurn("dedup") < 8
  <2>1. HasTask("dedup")
    BY DEF DeduplicateImages
  <2> QED
    BY <2>1, TurnsOf
<1>3. /\ frame' = kept \o others
      /\ tasks_left' = Tail(tasks_left) /\ UNCHANGED <<original, options, objects, doc_failed>>
  <2> DEFINE firsts == Ascending(J)
  <2>1. /\ frame' = [n \in DOMAIN firsts |-> images[firsts[n]]] \o others
        /\ tasks_left' = Tail(tasks_left) /\ UNCHANGED <<original, options, objects, doc_failed>>
    BY DEF DeduplicateImages, Succeeds, Filtered
  <2>2. kept = [n \in DOMAIN firsts |-> images[firsts[n]]]
    <3>1. DOMAIN firsts = 1 .. Cardinality(J)
      BY DEF Ascending
    <3> HIDE DEF firsts
    <3>2. kept = [n \in 1 .. Cardinality(J) |-> images[firsts[n]]]
      BY DEF SelectAt, firsts
    <3> QED
      BY <3>1, <3>2
  <2> HIDE DEF kept, firsts
  <2> QED
    BY <2>1, <2>2
<1>4. DOMAIN frame = 1 .. Len(frame) /\ A \in SUBSET (1 .. Len(frame)) /\ B \in SUBSET (1 .. Len(frame))
  BY <1>1, SequenceIs
<1>5. /\ A \intersect B = {} /\ \A i \in 1 .. Len(frame) : i \in A \/ i \in B
      /\ \A i \in A : frame[i].row.document_type = "image"
  BY <1>4
<1> HIDE DEF A, B
<1>6. /\ images \in Seq(Entries) /\ others \in Seq(Entries)
      /\ Range(images) = {frame[i] : i \in A} /\ Range(others) = {frame[i] : i \in B}
      /\ IsInjective(images) /\ IsInjective(others) /\ IsInjective(frame)
  BY <1>1, <1>4, SelectAtFacts, SelectRange, ApartPart
<1>7. J \in SUBSET (1 .. Len(images)) /\ DOMAIN images = 1 .. Len(images)
  BY <1>6, SequenceIs
<1>8. \A i \in 1 .. Len(images) : \E j \in J : images[j].row.hash = images[i].row.hash
  <2> DEFINE im == images
             J0 == {i \in DOMAIN im :
                      \A j \in 1 .. i - 1 : im[j].row.hash # im[i].row.hash}
  <2>1. im \in Seq(Entries) /\ J = J0
    BY <1>6
  <2> HIDE DEF images, J, im
  <2>2. \A i \in 1 .. Len(im) : \E j \in J0 : im[j].row.hash = im[i].row.hash
    BY <2>1, FirstOfKind
  <2> HIDE DEF J0
  <2> QED
    BY <2>1, <2>2 DEF im
<1> HIDE DEF images, others, J
<1>9. /\ kept \in Seq(Entries) /\ Range(kept) = {images[j] : j \in J} /\ IsInjective(kept)
  BY <1>6, <1>7, SelectAtFacts, SelectRange
<1> HIDE DEF kept
<1>10. Range(kept) \subseteq Range(images)
  BY <1>6, <1>7, <1>9, RangeIs
<1>11. \A e \in Range(images) : e \notin Range(others)
  <2> SUFFICES ASSUME NEW i \in A, NEW j \in B, frame[i] = frame[j] PROVE FALSE
    BY <1>6
  <2>1. i \in 1 .. Len(frame) /\ j \in 1 .. Len(frame) /\ i # j
    BY <1>4, <1>5
  <2> QED
    BY <1>1, <1>6, <2>1, Injective
<1>12. /\ frame' \in Seq(Entries) /\ Range(frame') = Range(kept) \union Range(others)
       /\ IsInjective(frame')
  <2>1. Range(kept) \intersect Range(others) = {}
    BY <1>10, <1>11
  <2>2. /\ kept \o others \in Seq(Entries) /\ Range(kept \o others) = Range(kept) \union Range(others)
        /\ IsInjective(kept) /\ IsInjective(others) /\ Range(kept) \intersect Range(others) = {}
             => IsInjective(kept \o others)
    BY <1>6, <1>9, ConcatRange
  <2> QED
    BY <1>3, <1>6, <1>9, <2>1, <2>2
<1>13. Range(frame') \subseteq Range(frame)
  <2>1. Range(images) \subseteq Range(frame) /\ Range(others) \subseteq Range(frame)
    BY <1>1, <1>4, <1>6, RangeIs
  <2> QED
    BY <1>10, <1>12, <2>1
<1>14. Done("dedup")' /\ (\A s : Done(s)' <=> Done(s) \/ s = "dedup") /\ ~Done("dedup") /\ ~Done("split")
  <2>1. "split" \in Stages
    BY DEF Stages
  <2>2. Done("split") => StageTurn("split") < StageTurn("dedup")
    BY <1>1, <1>2, <1>3, <2>1, TaskTaken
  <2>3. ~Done("split")
    BY <2>2, TurnsOf
  <2> QED
    BY <1>1, <1>2, <1>3, <2>3, TaskTaken
<1>15. ASSUME NEW q, RowAccounted(q) PROVE RowAccounted(q)'
  <2>1. ASSUME NEW j \in 1 .. Len(frame), Whole(frame[j].row, q) PROVE RowAccounted(q)'
    <3>1. CASE j \in B
      <4>1. frame[j] \in Range(frame')
        BY <1>6, <1>12, <3>1
      <4>2. PICK n \in 1 .. Len(frame') : frame'[n] = frame[j]
        BY <1>12, <4>1, RangeIs
      <4>3. \E i \in 1 .. Len(frame') : Whole(frame'[i].row, q)
        BY <2>1, <4>2
      <4> QED
        BY <4>3 DEF RowAccounted, Whole, IsImage
    <3>2. CASE j \in A
      <4>1. frame[j].row.document_type = "image" /\ frame[j] \in Range(images)
        BY <1>5, <1>6, <3>2
      <4>2. q.document_type = "image" /\ frame[j].row.hash = q.hash
        BY <2>1, <4>1 DEF Whole
      <4>3. PICK i \in 1 .. Len(images) : images[i] = frame[j]
        BY <1>6, <4>1, RangeIs
      <4>4. PICK k \in J : images[k].row.hash = images[i].row.hash
        BY <1>8
      <4>5. images[k] \in Range(frame') /\ images[k] \in Range(images)
        BY <1>9, <1>10, <1>12
      <4>6. PICK n \in 1 .. Len(frame') : frame'[n] = images[k]
        BY <1>12, <4>5, RangeIs
      <4>7. images[k].row.document_type = "image"
        BY <1>5, <1>6, <4>5
      <4>8. frame'[n].row.document_type = "image" /\ frame'[n].row.hash = q.hash
        BY <4>2, <4>3, <4>4, <4>6, <4>7
      <4>9. IsImage(q)' /\ (\E m \in 1 .. Len(frame) : IsImage(frame[m].row) /\ frame[m].row.hash = q.hash)'
        BY <4>2, <4>8 DEF IsImage
      <4> QED
        BY <1>14, <4>9 DEF RowAccounted
    <3> QED
      BY <1>5, <3>1, <3>2
  <2>2. ASSUME Done("filter") /\ options.filter /\ IsImage(q) /\ q.odd PROVE RowAccounted(q)'
    <3>1. (Done("filter") /\ options.filter /\ IsImage(q) /\ q.odd)'
      BY <1>3, <1>14, <2>2 DEF IsImage
    <3> QED
      BY <3>1 DEF RowAccounted
  <2> QED
    BY <1>14, <1>15, <2>1, <2>2 DEF RowAccounted
<1>16. \A k \in 1 .. Len(original) : RowAccounted(original[k])'
  BY <1>3, <1>15 DEF PayloadInv
<1> QED
  BY <1>2, <1>3, <1>12, <1>13, <1>16, RowsLeave

-----------------------------------------------------------------------------
(* Splitting. *)

\* Different multiples of a step.
LEMMA StepsApart ==
  ASSUME NEW step \in Nat \ {0}, NEW a \in Nat, NEW b \in Nat, a * step = b * step
  PROVE  a = b
<1>1. ASSUME NEW u \in Nat, NEW v \in Nat, u < v PROVE u * step < v * step
  <2> DEFINE d == v - u - 1
  <2>1. d \in Nat /\ v = u + d + 1
    BY <1>1
  <2> HIDE DEF d
  <2>2. v * step = u * step + d * step + step /\ d * step \in Nat /\ u * step \in Nat
    BY <2>1
  <2> QED
    BY <2>2
<1>2. a * step \in Nat /\ b * step \in Nat
  OBVIOUS
<1>3. ~(a < b)
  BY <1>1, <1>2
<1>4. ~(b < a)
  BY <1>1, <1>2
<1> QED
  BY <1>3, <1>4

\* A positive factor cancels.
LEMMA Cancelled ==
  ASSUME NEW b \in Nat \ {0}, NEW u \in Int, NEW v \in Int, b * u < b * v
  PROVE  u < v
<1> SUFFICES ASSUME v <= u PROVE FALSE
  OBVIOUS
<1> DEFINE d == u - v
<1>1. d \in Nat /\ u = v + d
  OBVIOUS
<1> HIDE DEF d
<1>2. b * u = b * v + b * d /\ b * d \in Nat /\ b * v \in Int
  BY <1>1
<1> QED
  BY <1>2

\* So many chunks start before the text ends.
LEMMA ChunkStarts ==
  ASSUME NEW length \in Int, NEW step \in Nat \ {0}, NEW x \in Nat, x < length
  PROVE  x \div step + 1 \in 1 .. (length + step - 1) \div step
<1> DEFINE n == x \div step
           a == length + step - 1
           c == a \div step
<1>1. a \in Nat /\ x + step <= a
  OBVIOUS
<1>2. n \in Nat /\ step * n \in Nat /\ step * n <= x
  BY Quotient
<1> HIDE DEF a
<1>3. c \in Nat /\ step * c \in Nat /\ a < step * c + step
  BY <1>1, Quotient
<1> HIDE DEF n, c
<1>4. step * (n + 1) = step * n + step /\ step * (c + 1) = step * c + step
  BY <1>2, <1>3
<1>5. step * (n + 1) < step * (c + 1)
  BY <1>1, <1>2, <1>3, <1>4
<1>6. n + 1 < c + 1
  BY <1>2, <1>3, <1>5, Cancelled
<1>7. n + 1 \in 1 .. c
  BY <1>2, <1>3, <1>6
<1> QED
  BY <1>7 DEF n, c, a

\* The chunks of a text: no two are the same, and every token that a split keeps is before the
\* end of one.
LEMMA ChunksAre ==
  ASSUME options \in Options, NEW span \in Int \X Int
  PROVE  LET chunks == SplitIntoChunks(span)
         IN  /\ chunks \in Seq(Int \X Int) /\ IsInjective(chunks)
             /\ span[2] - span[1] > 1 /\ options.chunk_size # 1 =>
                  1 \in DOMAIN chunks /\ chunks[1][1] < chunks[1][2]
             /\ \A token \in TokensKept(span) : \E n \in DOMAIN chunks :
                  chunks[n][1] <= token /\ token < chunks[n][2]
<1> DEFINE size == options.chunk_size
           step == size - options.chunk_overlap
           length == span[2] - span[1]
           chunk(n) == <<span[1] + n * step,
                         span[1] + (IF n * step + size < length THEN n * step + size ELSE length) - 1>>
           count == (length + step - 1) \div step
           chunks == [n \in 1 .. count |-> chunk(n - 1)]
<1>1. SplitIntoChunks(span) = chunks
  BY DEF SplitIntoChunks
<1>2. size \in Nat \ {0} /\ options.chunk_overlap \in 0 .. size - 1
  BY RowsAssumption
<1>3. /\ step \in Nat \ {0} /\ step <= size /\ length \in Int /\ span[1] \in Int /\ span[2] \in Int
      /\ (options.chunk_overlap > 0 => step < size) /\ (step < size \/ step = size) /\ length = span[2] - span[1]
  BY <1>2
<1> HIDE DEF size, step, length
<1>4. \A n \in Nat : n * step \in Nat
  BY <1>3
<1>5. ASSUME NEW n \in Nat PROVE chunk(n) \in Int \X Int
  <2> DEFINE p == n * step
  <2>1. p \in Nat
    BY <1>4
  <2> HIDE DEF p
  <2>2. <<span[1] + p, span[1] + (IF p + size < length THEN p + size ELSE length) - 1>> \in Int \X Int
    BY <1>2, <1>3, <2>1
  <2> QED
    BY <2>2 DEF p
<1>6. count \in Int
  <2> DEFINE a == length + step - 1
  <2>1. a \in Int
    BY <1>3
  <2> HIDE DEF a
  <2>2. a \div step \in Int
    BY <1>3, <2>1
  <2> QED
    BY <2>2 DEF a
<1> HIDE DEF count, chunk
<1>7. chunks \in Seq(Int \X Int) /\ DOMAIN chunks = 1 .. count
  <2>1. ASSUME NEW n \in 1 .. count PROVE chunk(n - 1) \in Int \X Int
    BY <1>5, <1>6
  <2> DEFINE m == IF count < 0 THEN 0 ELSE count
  <2>2. m \in Nat /\ 1 .. count = 1 .. m
    BY <1>6
  <2> HIDE DEF m
  <2>3. chunks \in [1 .. m -> Int \X Int]
    BY <2>1, <2>2
  <2> HIDE DEF chunks
  <2>4. chunks \in Seq(Int \X Int)
    BY <2>2, <2>3, FunctionIsSequence
  <2> QED
    BY <2>2, <2>3, <2>4
<1>8. ASSUME NEW x \in Nat, x < length
      PROVE  x \div step + 1 \in 1 .. count /\ chunks[x \div step + 1] = chunk(x \div step)
  <2>1. x \div step + 1 \in 1 .. count
    BY <1>3, <1>8, ChunkStarts DEF count
  <2>2. (x \div step + 1) - 1 = x \div step
    BY <1>3, Quotient
  <2> QED
    BY <2>1, <2>2
<1>11. \A n \in 1 .. count : chunks[n] = chunk(n - 1)
  OBVIOUS
<1> HIDE DEF chunks
<1>12. IsInjective(chunks)
  <2>1. ASSUME NEW m \in 1 .. count, NEW n \in 1 .. count, chunks[m] = chunks[n] PROVE m = n
    <3>1. m - 1 \in Nat /\ n - 1 \in Nat /\ chunk(m - 1) = chunk(n - 1)
      BY <1>6, <1>11, <2>1
    <3>2. chunk(m - 1)[1] = span[1] + (m - 1) * step /\ chunk(n - 1)[1] = span[1] + (n - 1) * step
      BY DEF chunk
    <3>3. (m - 1) * step \in Nat /\ (n - 1) * step \in Nat
      BY <1>4, <3>1
    <3>4. (m - 1) * step = (n - 1) * step
      <4> DEFINE p == (m - 1) * step
                 q == (n - 1) * step
      <4>1. span[1] + p = span[1] + q /\ p \in Nat /\ q \in Nat
        BY <3>1, <3>2, <3>3
      <4> HIDE DEF p, q
      <4>2. p = q
        BY <1>3, <4>1
      <4> QED
        BY <4>2 DEF p, q
    <3>5. m - 1 = n - 1
      BY <1>3, <3>1, <3>4, StepsApart
    <3> QED
      BY <1>6, <3>5
  <2> QED
    BY <1>7, <2>1 DEF IsInjective
<1>9. ASSUME length > 1, size # 1
      PROVE  1 \in DOMAIN chunks /\ chunks[1][1] < chunks[1][2]
  <2>1. 0 \div step = 0
    BY <1>3
  <2>2. 0 \div step + 1 \in 1 .. count /\ chunks[0 \div step + 1] = chunk(0 \div step)
    BY <1>3, <1>8, <1>9
  <2>3. 1 \in 1 .. count /\ chunks[1] = chunk(0)
    BY <2>1, <2>2
  <2>4. 0 * step = 0
    BY <1>3
  <2>5. /\ chunk(0)[1] = span[1] + 0 * step
        /\ chunk(0)[2] = span[1] + (IF 0 * step + size < length THEN 0 * step + size ELSE length) - 1
    BY DEF chunk
  <2> QED
    BY <1>2, <1>3, <1>7, <1>9, <2>3, <2>4, <2>5
<1>10. ASSUME NEW token \in TokensKept(span)
       PROVE  \E n \in DOMAIN chunks : chunks[n][1] <= token /\ token < chunks[n][2]
  <2> DEFINE x == token - span[1]
             n == x \div step
             p == n * step
  <2>0. token \in span[1] .. span[2] - 2
    BY <1>10 DEF TokensKept
  <2>1. x \in Nat /\ x <= length - 2 /\ token = span[1] + x
    BY <1>3, <2>0
  <2> HIDE DEF x
  <2>2. n \in Nat /\ step * n \in Nat /\ step * n <= x /\ x < step * n + step
    BY <1>3, <2>1, Quotient
  <2>3. n + 1 \in 1 .. count /\ chunks[n + 1] = chunk(n)
    BY <1>3, <1>8, <2>1
  <2> HIDE DEF n
  <2>4. p \in Nat /\ p <= x /\ x < p + step
    BY <1>3, <2>2
  <2>5. /\ chunk(n)[1] = span[1] + p
        /\ chunk(n)[2] = span[1] + (IF p + size < length THEN p + size ELSE length) - 1
    BY DEF chunk
  <2>8. n + 1 \in 1 .. length /\ (n + 1) * step = p + step
    <3>1. step - 1 \in Nat /\ n * (step - 1) \in Nat
      BY <1>3, <2>2
    <3>2. n * step = n * (step - 1) + n
      BY <1>3, <2>2
    <3> QED
      BY <1>3, <2>1, <2>2, <2>4, <3>1, <3>2
  <2> HIDE DEF p
  <2>9. step = size => token # span[1] + (p + step) - 1
    <3>1. ASSUME step = size PROVE \A m \in 1 .. length : token # span[1] + m * step - 1
      BY <1>3, <1>10, <3>1 DEF TokensKept, size
    <3> QED
      BY <2>8, <3>1
  <2>6. span[1] + p <= token
        /\ token < span[1] + (IF p + size < length THEN p + size ELSE length) - 1
    BY <1>2, <1>3, <2>1, <2>4, <2>9
  <2>7. chunks[n + 1][1] <= token /\ token < chunks[n + 1][2]
    BY <2>3, <2>5, <2>6
  <2> QED
    BY <1>7, <2>3, <2>7
<1> QED
  BY <1>1, <1>3, <1>7, <1>9, <1>10, <1>12 DEF size, length

\* The rows of a text that was split are its own.
LEMMA SplitOwn ==
  ASSUME options \in Options, NEW r \in OwnRows, r.url = Nothing,
         NEW N, N = {q \in OwnRows : q.url = Nothing}
  PROVE  LET docs == SplitDocuments(r)
         IN  /\ docs \in Seq(N) /\ OnceRows(docs) /\ \A d \in Range(docs) : d.id = r.id
             /\ r.span[2] - r.span[1] > 1 /\ options.chunk_size # 1 =>
                  \E d \in Range(docs) : d.id = r.id
             /\ \A token \in TokensKept(r.span) : \E d \in Range(docs) :
                  d.id = r.id /\ token \in d.span[1] .. d.span[2] - 1
<1> DEFINE all == SplitIntoChunks(r.span)
           K == {n \in DOMAIN all : all[n][1] < all[n][2]}
           chunks == SelectAt(all, K)
           docs == [n \in DOMAIN chunks |-> [r EXCEPT !.span = chunks[n]]]
<1>1. r.span \in Int \X Int
  BY DEF OwnRows, RowFields
<1>2. /\ all \in Seq(Int \X Int) /\ IsInjective(all)
      /\ r.span[2] - r.span[1] > 1 /\ options.chunk_size # 1 =>
           1 \in DOMAIN all /\ all[1][1] < all[1][2]
      /\ \A token \in TokensKept(r.span) : \E n \in DOMAIN all :
           all[n][1] <= token /\ token < all[n][2]
  BY <1>1, ChunksAre
<1>3. SplitDocuments(r) = docs
  BY DEF SplitDocuments, Filtered
<1> HIDE DEF all
<1>4. DOMAIN all = 1 .. Len(all) /\ K \in SUBSET (1 .. Len(all))
  BY <1>2, SequenceIs
<1>5. \A n \in DOMAIN all : all[n][1] < all[n][2] => n \in K
  OBVIOUS
<1> HIDE DEF K
<1>6. chunks \in Seq(Int \X Int) /\ IsInjective(chunks) /\ Range(chunks) = {all[n] : n \in K}
  <2>1. all \in Seq(Int \X Int)
    BY <1>2
  <2>2. chunks \in Seq(Int \X Int)
    BY <1>4, <2>1, SelectAtFacts
  <2>3. Range(chunks) = {all[n] : n \in K} /\ IsInjective(chunks)
    BY <1>2, <1>4, <2>1, SelectRange
  <2> QED
    BY <2>2, <2>3
<1> HIDE DEF chunks
<1>7. /\ DOMAIN chunks = 1 .. Len(chunks) /\ Len(chunks) \in Nat
      /\ \A n \in 1 .. Len(chunks) : chunks[n] \in Int \X Int
  BY <1>6, SequenceIs
<1>8. ASSUME NEW n \in 1 .. Len(chunks)
      PROVE  docs[n] \in N /\ docs[n].id = r.id /\ docs[n].span = chunks[n]
  <2> DEFINE c == chunks[n]
  <2>1. c \in Int \X Int /\ docs[n] = [r EXCEPT !.span = c]
    BY <1>7
  <2> HIDE DEF c, docs
  <2>2. LET q == [r EXCEPT !.span = c]
        IN  q \in OwnRows /\ q.url = r.url /\ q.id = r.id /\ q.span = c
    BY <2>1, PutSpan
  <2> QED
    BY <2>1, <2>2 DEF c
<1>9. docs \in [1 .. Len(chunks) -> N]
  <2>1. docs = [n \in 1 .. Len(chunks) |-> docs[n]]
    BY <1>7
  <2> HIDE DEF docs
  <2> QED
    BY <1>8, <2>1
<1> HIDE DEF docs
<1>10. docs \in Seq(N) /\ Len(docs) = Len(chunks)
  BY <1>7, <1>9, FunctionIsSequence
<1>11. ASSUME NEW n \in DOMAIN all, all[n][1] < all[n][2]
       PROVE  \E d \in Range(docs) : d.id = r.id /\ d.span = all[n]
  <2>1. all[n] \in Range(chunks)
    BY <1>5, <1>6, <1>11
  <2>2. PICK m \in 1 .. Len(chunks) : chunks[m] = all[n]
    BY <1>6, <2>1, RangeIs
  <2>3. docs[m] \in Range(docs)
    BY <1>10, RangeIs
  <2> QED
    BY <1>8, <2>2, <2>3
<1>12. ASSUME r.span[2] - r.span[1] > 1 /\ options.chunk_size # 1
       PROVE  \E d \in Range(docs) : d.id = r.id
  BY <1>2, <1>11, <1>12
<1>13. ASSUME NEW token \in TokensKept(r.span)
       PROVE  \E d \in Range(docs) : d.id = r.id /\ token \in d.span[1] .. d.span[2] - 1
  <2>1. PICK n \in DOMAIN all : all[n][1] <= token /\ token < all[n][2]
    BY <1>2, <1>13
  <2>2. all[n][1] \in Int /\ all[n][2] \in Int /\ token \in Int
    BY <1>1, <1>2, <1>4, <1>13, SequenceIs DEF TokensKept
  <2>3. all[n][1] < all[n][2] /\ token \in all[n][1] .. all[n][2] - 1
    BY <2>1, <2>2
  <2>4. PICK d \in Range(docs) : d.id = r.id /\ d.span = all[n]
    BY <1>11, <2>3
  <2> QED
    BY <2>3, <2>4
<1>14. OnceRows(docs)
  <2>1. \A m, n \in 1 .. Len(chunks) : chunks[m] = chunks[n] => m = n
    BY <1>6, Injective
  <2> QED
    BY <1>8, <1>10, <2>1 DEF OnceRows
<1>15. \A d \in Range(docs) : d.id = r.id
  <2>1. \A d \in Range(docs) : \E n \in 1 .. Len(docs) : docs[n] = d
    BY <1>10, RangeIs
  <2> QED
    BY <1>8, <1>10, <2>1
<1> QED
  BY <1>3, <1>10, <1>12, <1>13, <1>14, <1>15

\* Nothing is stored before the image store has had its turn.
LEMMA NoUrlYet ==
  ASSUME TasksInOrder, Stored, NEW name, name # "store_embedding", HasTask(name)
  PROVE  objects = {} /\ \A i \in 1 .. Len(frame) : frame[i].row.url = Nothing
<1>1. \E k \in 1 .. Len(tasks_left) : tasks_left[k] = name
  <2>1. tasks_left \in Seq(Stages) /\ tasks_left # <<>> /\ tasks_left[1] = name
    BY DEF HasTask, TasksInOrder
  <2>2. 1 \in 1 .. Len(tasks_left)
    BY <2>1
  <2> QED
    BY <2>1, <2>2
<1> QED
  BY <1>1 DEF Stored

\* The rows of entries, without their labels.
LEMMA RowsOfSequence ==
  ASSUME NEW N, NEW s \in Seq(Entries), \A i \in 1 .. Len(s) : s[i].row \in N
  PROVE  LET rows == [i \in DOMAIN s |-> s[i].row]
         IN  /\ rows \in Seq(N) /\ Len(rows) = Len(s)
             /\ \A i \in 1 .. Len(s) : rows[i] = s[i].row
<1> DEFINE rows == [i \in DOMAIN s |-> s[i].row]
<1>1. DOMAIN s = 1 .. Len(s) /\ Len(s) \in Nat
  BY SequenceIs
<1>2. rows \in [1 .. Len(s) -> N] /\ \A i \in 1 .. Len(s) : rows[i] = s[i].row
  BY <1>1
<1> HIDE DEF rows
<1>3. rows \in Seq(N) /\ Len(rows) = Len(s)
  BY <1>1, <1>2, FunctionIsSequence
<1> QED
  BY <1>2, <1>3 DEF rows

\* A stage that has its turn was due.
LEMMA SplitDue ==
  ASSUME TasksInOrder, NEW name, HasTask(name)
  PROVE  \E k \in 1 .. Len(tasks_left) : tasks_left[k] = name
<1>1. tasks_left \in Seq(Stages) /\ tasks_left # <<>> /\ tasks_left[1] = name
  BY DEF HasTask, TasksInOrder
<1>2. 1 \in 1 .. Len(tasks_left)
  BY <1>1
<1> QED
  BY <1>1, <1>2

\* Splitting keeps the invariant.
LEMMA SplitKeeps ==
  ASSUME PayloadInv, SplitText
  PROVE  PayloadInv'
<1> DEFINE A == {i \in DOMAIN frame : Qualifies(frame[i])}
           B == {i \in DOMAIN frame : ~Qualifies(frame[i])}
           texts == SelectAt(frame, A)
           others == SelectAt(frame, B)
           parts == [i \in DOMAIN texts |-> SplitDocuments(texts[i].row)]
           docs == FlattenSeq(parts)
           rest == [i \in DOMAIN others |-> others[i].row]
           rows == docs \o rest
           N == {q \in OwnRows : q.url = Nothing}
<1>1. /\ options \in Options /\ TasksInOrder /\ frame \in Seq(Entries) /\ Apart(frame) /\ Stored
      /\ doc_failed \in BOOLEAN
  BY DEF PayloadInv
<1>2. HasTask("split") /\ StageTurn("split") < 8
  <2>1. HasTask("split")
    BY DEF SplitText
  <2> QED
    BY <2>1, TurnsOf
<1>17. \A i, j \in 1 .. Len(frame) : frame[i].row.id = frame[j].row.id => i = j
  <2>1. \E k \in 1 .. Len(tasks_left) : tasks_left[k] = "split"
    BY <1>1, <1>2, SplitDue
  <2> QED
    BY <2>1 DEF PayloadInv, Undoubled
<1>3. \/ Succeeds(IF texts = <<>> THEN frame ELSE Labelled(rows)) /\ UNCHANGED objects
      \/ Raises(frame)
  BY DEF SplitText, Filtered
<1>4. DOMAIN frame = 1 .. Len(frame) /\ A \in SUBSET (1 .. Len(frame)) /\ B \in SUBSET (1 .. Len(frame))
  BY <1>1, SequenceIs
<1>5. /\ \A i \in 1 .. Len(frame) : i \in A \/ i \in B
      /\ \A i \in A : frame[i].row.document_type \in SpokenTypes /\ i \notin B
  BY <1>4 DEF Qualifies, SpokenTypes
<1> HIDE DEF A, B
<1>6. objects = {} /\ \A i \in 1 .. Len(frame) : frame[i].row \in N
  <2>1. objects = {} /\ \A i \in 1 .. Len(frame) : frame[i].row.url = Nothing
    BY <1>1, <1>2, NoUrlYet
  <2>2. \A i \in 1 .. Len(frame) : frame[i].row \in OwnRows
    BY <1>1, SequenceIs, EntryFacts
  <2> QED
    BY <2>1, <2>2
<1>7. /\ texts \in Seq(Entries) /\ Range(texts) = {frame[i] : i \in A} /\ IsInjective(texts)
      /\ others \in Seq(Entries) /\ Range(others) = {frame[i] : i \in B} /\ IsInjective(others)
  <2>0. IsInjective(frame)
    BY <1>1, ApartPart
  <2>1. texts \in Seq(Entries) /\ others \in Seq(Entries)
    BY <1>1, <1>4, SelectAtFacts
  <2>2. /\ Range(texts) = {frame[i] : i \in A} /\ Range(others) = {frame[i] : i \in B}
        /\ IsInjective(texts) /\ IsInjective(others)
    BY <1>1, <1>4, <2>0, SelectRange
  <2> QED
    BY <2>1, <2>2
<1> HIDE DEF texts, others
<1>8. /\ \A i \in 1 .. Len(texts) : texts[i].row \in N
      /\ \A i \in 1 .. Len(others) : others[i].row \in N
  <2> HIDE DEF N
  <2>1. \A e \in Range(texts) : e.row \in N
    BY <1>4, <1>6, <1>7
  <2>2. \A e \in Range(others) : e.row \in N
    BY <1>4, <1>6, <1>7
  <2> QED
    BY <1>7, <2>1, <2>2, RangeIs
<1>9. rest \in Seq(N) /\ Len(rest) = Len(others) /\ \A i \in 1 .. Len(others) : rest[i] = others[i].row
  <2> HIDE DEF N
  <2> QED
    BY <1>7, <1>8, RowsOfSequence
<1>10. ASSUME NEW i \in 1 .. Len(texts)
       PROVE  LET r == texts[i].row
                  d == SplitDocuments(r)
              IN  /\ d \in Seq(N) /\ OnceRows(d) /\ \A x \in Range(d) : x.id = r.id
                  /\ r.span[2] - r.span[1] > 1 /\ options.chunk_size # 1 =>
                       \E x \in Range(d) : x.id = r.id
                  /\ \A token \in TokensKept(r.span) : \E x \in Range(d) :
                       x.id = r.id /\ token \in x.span[1] .. x.span[2] - 1
  <2> DEFINE r == texts[i].row
             M == N
  <2>1. r \in OwnRows /\ r.url = Nothing /\ M = {q \in OwnRows : q.url = Nothing}
    BY <1>8
  <2> HIDE DEF r, M
  <2>2. LET d == SplitDocuments(r)
        IN  /\ d \in Seq(M) /\ OnceRows(d) /\ \A x \in Range(d) : x.id = r.id
            /\ r.span[2] - r.span[1] > 1 /\ options.chunk_size # 1 =>
                 \E x \in Range(d) : x.id = r.id
            /\ \A token \in TokensKept(r.span) : \E x \in Range(d) :
                 x.id = r.id /\ token \in x.span[1] .. x.span[2] - 1
    BY <1>1, <2>1, SplitOwn
  <2> HIDE DEF N
  <2> QED
    BY <2>2 DEF r, M
<1> HIDE DEF N
<1>11. /\ parts \in Seq(Seq(N)) /\ Len(parts) = Len(texts)
       /\ \A i \in 1 .. Len(texts) : parts[i] = SplitDocuments(texts[i].row)
  <2>1. DOMAIN texts = 1 .. Len(texts) /\ Len(texts) \in Nat
    BY <1>7, SequenceIs
  <2>2. \A i \in 1 .. Len(texts) : parts[i] = SplitDocuments(texts[i].row)
    BY <2>1
  <2>3. parts \in [1 .. Len(texts) -> Seq(N)]
    BY <1>10, <2>1
  <2> HIDE DEF parts
  <2> QED
    BY <2>1, <2>2, <2>3, FunctionIsSequence
<1> HIDE DEF parts, rest
<1>12. docs \in Seq(N) /\ \A i \in 1 .. Len(texts) : Range(parts[i]) \subseteq Range(docs)
  BY <1>11, FlattenRange
<1>16. ASSUME NEW i \in 1 .. Len(texts), NEW j \in 1 .. Len(texts), i # j
       PROVE  texts[i].row.id # texts[j].row.id
  <2>1. texts[i] \in Range(texts) /\ texts[j] \in Range(texts)
    BY <1>7, RangeIs
  <2>2. PICK m \in A : frame[m] = texts[i]
    BY <1>7, <2>1
  <2>3. PICK n \in A : frame[n] = texts[j]
    BY <1>7, <2>1
  <2>4. texts[i] # texts[j]
    BY <1>7, <1>16, Injective
  <2> QED
    BY <1>4, <1>17, <2>2, <2>3, <2>4
<1>18. /\ OnceRows(docs)
       /\ \A x \in Range(docs) : \E i \in 1 .. Len(texts) : x.id = texts[i].row.id
  <2>1. \A i \in 1 .. Len(parts) : OnceRows(parts[i]) /\ \A x \in Range(parts[i]) : x.id = texts[i].row.id
    BY <1>10, <1>11
  <2>2. \A i, j \in 1 .. Len(parts) : i < j =>
          \A x \in Range(parts[i]), y \in Range(parts[j]) : ~(x.id = y.id /\ x.span = y.span)
    BY <1>11, <1>16, <2>1
  <2>3. /\ OnceRows(docs)
        /\ \A x \in Range(docs) : \E i \in 1 .. Len(parts) : x \in Range(parts[i])
    BY <1>11, <2>1, <2>2, FlattenOnce
  <2> QED
    BY <1>11, <2>1, <2>3
<1> HIDE DEF docs
<1>19. \A n \in 1 .. Len(others) : \E k \in B : frame[k] = others[n]
  BY <1>7, RangeIs
<1>20. OnceRows(rest)
  <2>1. ASSUME NEW m \in 1 .. Len(others), NEW n \in 1 .. Len(others), rest[m].id = rest[n].id
        PROVE  m = n
    <3>1. PICK k \in B : frame[k] = others[m]
      BY <1>19
    <3>2. PICK l \in B : frame[l] = others[n]
      BY <1>19
    <3>3. frame[k].row.id = frame[l].row.id
      BY <1>9, <2>1, <3>1, <3>2
    <3>4. k = l
      BY <1>4, <1>17, <3>3
    <3> QED
      BY <1>7, <3>1, <3>2, <3>4, Injective
  <2> QED
    BY <1>9, <2>1 DEF OnceRows
<1>21. \A x \in Range(docs), y \in Range(rest) : x.id # y.id
  <2> SUFFICES ASSUME NEW x \in Range(docs), NEW y \in Range(rest), x.id = y.id PROVE FALSE
    OBVIOUS
  <2>1. PICK i \in 1 .. Len(texts) : x.id = texts[i].row.id
    BY <1>18
  <2>2. PICK m \in A : frame[m] = texts[i]
    <3>1. texts[i] \in Range(texts)
      BY <1>7, RangeIs
    <3> QED
      BY <1>7, <3>1
  <2>3. PICK n \in 1 .. Len(rest) : rest[n] = y
    BY <1>9, RangeIs
  <2>4. PICK k \in B : frame[k] = others[n]
    BY <1>9, <1>19
  <2>5. frame[m].row.id = frame[k].row.id
    BY <1>9, <2>1, <2>2, <2>3, <2>4
  <2>6. m = k
    BY <1>4, <1>17, <2>5
  <2> QED
    BY <1>5, <2>6
<1>22. OnceRows(rows)
  BY <1>9, <1>12, <1>18, <1>20, <1>21, ConcatOnce
<1>13. rows \in Seq(N) /\ Range(rows) = Range(docs) \union Range(rest)
  BY <1>9, <1>12, ConcatRange
<1> HIDE DEF rows
<1>14. CASE Raises(frame)
  BY <1>2, <1>14, StageRaises
<1>15. CASE Succeeds(IF texts = <<>> THEN frame ELSE Labelled(rows)) /\ UNCHANGED objects
  <2>1. /\ tasks_left' = Tail(tasks_left) /\ UNCHANGED <<original, options, objects, doc_failed>>
        /\ frame' = (IF texts = <<>> THEN frame ELSE Labelled(rows))
    BY <1>15 DEF Succeeds
  <2>2. CASE texts = <<>>
    <3>1. InPlace(frame')
      BY <1>1, <2>1, <2>2 DEF InPlace, SameRow
    <3> QED
      BY <1>1, <1>2, <2>1, <3>1, QuietStage
  <2>3. CASE texts # <<>>
    <3>1. /\ frame' = Labelled(rows) /\ frame' \in Seq(Entries) /\ Apart(frame')
          /\ Len(frame') = Len(rows)
          /\ \A i \in 1 .. Len(rows) : frame'[i] = [label |-> i - 1, row |-> rows[i]] /\ rows[i] \in N
      <4>1. N \in SUBSET OwnRows
        BY DEF N
      <4> QED
        BY <1>13, <2>1, <2>3, <4>1, Relabelled
    <3>2. ASSUME NEW i \in 1 .. Len(rows) PROVE frame'[i].row = rows[i]
      <4>1. frame'[i] = [label |-> i - 1, row |-> rows[i]]
        BY <3>1
      <4> QED
        BY <4>1
    <3>3. \A x \in Range(rows) : \E j \in 1 .. Len(frame') : frame'[j].row = x
      <4> TAKE x \in Range(rows)
      <4>1. PICK i \in 1 .. Len(rows) : rows[i] = x
        BY <1>13, RangeIs
      <4> QED
        BY <3>1, <3>2, <4>1
    <3>4. TasksInOrder' /\ Done("split")' /\ \A s : Done(s)' <=> Done(s) \/ s = "split"
      BY <1>1, <1>2, <2>1, TaskTaken
    <3>5. ~Done("split")
      BY <1>1, <1>2, <2>1, TaskTaken
    <3>6. Embeddings'
      BY <1>1, <1>2, <2>1, NotEmbedded
    <3>7. Stored'
      <4>1. objects' = {}
        BY <1>6, <2>1
      <4>2. \A j \in 1 .. Len(frame') : frame'[j].row.url = Nothing
        <5>1. \A x \in N : x.url = Nothing
          BY DEF N
        <5>2. \A j \in 1 .. Len(rows) : rows[j] \in N
          BY <1>13, SequenceIs
        <5>3. ASSUME NEW j \in 1 .. Len(frame') PROVE frame'[j].row.url = Nothing
          <6>1. j \in 1 .. Len(rows)
            BY <3>1
          <6> QED
            BY <3>2, <5>1, <5>2, <6>1
        <5> QED
          BY <5>3
      <4> QED
        BY <4>1, <4>2 DEF Stored
    <3>8. ASSUME NEW i \in B PROVE \E j \in 1 .. Len(frame') : frame'[j].row = frame[i].row
      <4>1. frame[i] \in Range(others)
        BY <1>7
      <4>2. PICK n \in 1 .. Len(others) : others[n] = frame[i]
        BY <1>7, <4>1, RangeIs
      <4>3. rest[n] = frame[i].row /\ rest[n] \in Range(rest)
        BY <1>9, <4>2, RangeIs
      <4>4. frame[i].row \in Range(rows)
        BY <1>13, <4>3
      <4> QED
        BY <3>3, <4>4
    <3>9. ASSUME NEW i \in A, NEW q, Whole(frame[i].row, q) PROVE RowAccounted(q)'
      <4>1. frame[i] \in Range(texts)
        BY <1>7
      <4>2. PICK n \in 1 .. Len(texts) : texts[n] = frame[i]
        BY <1>7, <4>1, RangeIs
      <4> DEFINE r == frame[i].row
                 d == SplitDocuments(r)
      <4>3. /\ r.span[2] - r.span[1] > 1 /\ options.chunk_size # 1 => \E x \in Range(d) : x.id = r.id
            /\ \A token \in TokensKept(r.span) : \E x \in Range(d) :
                 x.id = r.id /\ token \in x.span[1] .. x.span[2] - 1
        BY <1>10, <4>2
      <4>4. \A x \in Range(d) : \E j \in 1 .. Len(frame') : frame'[j].row = x
        <5>1. Range(parts[n]) \subseteq Range(docs) /\ parts[n] = d
          BY <1>11, <1>12, <4>2
        <5> QED
          BY <1>13, <3>3, <5>1
      <4>5. q.document_type \in SpokenTypes /\ q.id = r.id /\ q.span = r.span
        <5>1. r.document_type \in SpokenTypes
          BY <1>5
        <5> QED
          BY <3>9, <5>1 DEF Whole, SpokenTypes
      <4>6. r.span[2] - r.span[1] > 1 \/ r.span[2] - r.span[1] <= 1
        <5>1. r \in OwnRows
          BY <1>1, <1>4, SequenceIs, EntryFacts
        <5>2. r.span \in Int \X Int
          BY <5>1 DEF OwnRows, RowFields
        <5> QED
          BY <5>2
      <4> HIDE DEF r, d
      <4>7. \/ \E j \in 1 .. Len(frame') : frame'[j].row.id = q.id
            \/ q.span[2] - q.span[1] <= 1 \/ options'.chunk_size = 1
        <5>1. CASE q.span[2] - q.span[1] <= 1 \/ options'.chunk_size = 1
          BY <5>1
        <5>2. CASE ~(q.span[2] - q.span[1] <= 1 \/ options'.chunk_size = 1)
          <6>1. PICK x \in Range(d) : x.id = r.id
            BY <2>1, <4>3, <4>5, <4>6, <5>2
          <6>2. PICK j \in 1 .. Len(frame') : frame'[j].row = x
            BY <4>4
          <6> QED
            BY <4>5, <6>1, <6>2
        <5> QED
          BY <5>1, <5>2
      <4>8. ASSUME NEW token \in TokensKept(q.span)
            PROVE  \E j \in 1 .. Len(frame') :
                     /\ frame'[j].row.id = q.id
                     /\ token \in frame'[j].row.span[1] .. frame'[j].row.span[2] - 1
        <5>1. PICK x \in Range(d) : x.id = r.id /\ token \in x.span[1] .. x.span[2] - 1
          BY <2>1, <4>3, <4>5, <4>8
        <5>2. PICK j \in 1 .. Len(frame') : frame'[j].row = x
          BY <4>4
        <5> QED
          BY <4>5, <5>1, <5>2
      <4>11. TokensKept(q.span)' = TokensKept(q.span)
        BY <2>1 DEF TokensKept
      <4>9. Chunked(q)'
        BY <4>7, <4>8, <4>11 DEF Chunked
      <4>10. (Done("split") /\ q.document_type \in SpokenTypes /\ Chunked(q))'
        BY <3>4, <4>5, <4>9 DEF SpokenTypes
      <4> QED
        BY <4>10 DEF RowAccounted
    <3>10. ASSUME NEW q, RowAccounted(q) PROVE RowAccounted(q)'
      <4>1. ASSUME NEW i \in 1 .. Len(frame), Whole(frame[i].row, q) PROVE RowAccounted(q)'
        <5>1. CASE i \in A
          BY <3>9, <4>1, <5>1
        <5>2. CASE i \in B
          <6>1. PICK j \in 1 .. Len(frame') : frame'[j].row = frame[i].row
            BY <3>8, <5>2
          <6>2. \E k \in 1 .. Len(frame') : Whole(frame'[k].row, q)
            BY <4>1, <6>1
          <6> QED
            BY <6>2 DEF RowAccounted, Whole, IsImage
        <5> QED
          BY <1>5, <5>1, <5>2
      <4>2. ASSUME Done("filter") /\ options.filter /\ IsImage(q) /\ q.odd PROVE RowAccounted(q)'
        <5>1. (Done("filter") /\ options.filter /\ IsImage(q) /\ q.odd)'
          BY <2>1, <3>4, <4>2 DEF IsImage
        <5> QED
          BY <5>1 DEF RowAccounted
      <4>3. ASSUME Done("dedup") /\ IsImage(q), NEW i \in 1 .. Len(frame),
                   IsImage(frame[i].row) /\ frame[i].row.hash = q.hash
            PROVE  RowAccounted(q)'
        <5>1. i \in B
          BY <1>5, <4>3 DEF IsImage, SpokenTypes
        <5>2. PICK j \in 1 .. Len(frame') : frame'[j].row = frame[i].row
          BY <3>8, <5>1
        <5>3. (/\ Done("dedup") /\ IsImage(q)
               /\ \E k \in 1 .. Len(frame) : IsImage(frame[k].row) /\ frame[k].row.hash = q.hash)'
          BY <3>4, <4>3, <5>2 DEF IsImage
        <5> QED
          BY <5>3 DEF RowAccounted
      <4> QED
        BY <3>5, <3>10, <4>1, <4>2, <4>3 DEF RowAccounted
    <3>11. \A k \in 1 .. Len(original) : RowAccounted(original[k])'
      BY <2>1, <3>10 DEF PayloadInv
    <3>12. OnceEach(frame')
      <4>1. ASSUME NEW m \in 1 .. Len(frame'), NEW n \in 1 .. Len(frame'),
                   frame'[m].row.id = frame'[n].row.id /\ frame'[m].row.span = frame'[n].row.span
            PROVE  m = n
        <5>1. m \in 1 .. Len(rows) /\ n \in 1 .. Len(rows)
          BY <3>1
        <5>2. frame'[m].row = rows[m] /\ frame'[n].row = rows[n]
          BY <3>2, <5>1
        <5> QED
          BY <1>22, <4>1, <5>1, <5>2 DEF OnceRows
      <4> QED
        BY <4>1 DEF OnceEach
    <3>13. Undoubled'
      <4> DEFINE name == "split"
      <4>1. name \in Stages /\ Done(name)' /\ StageTurn(name) >= 6
        BY <3>4, TurnsOf DEF Stages
      <4> HIDE DEF name
      <4> QED
        BY <3>4, <3>12, <4>1, SplitOver
    <3> QED
      BY <1>1, <2>1, <3>1, <3>4, <3>6, <3>7, <3>11, <3>13 DEF PayloadInv
  <2> QED
    BY <2>2, <2>3
<1> QED
  BY <1>3, <1>14, <1>15

-----------------------------------------------------------------------------
(* Embeddings. *)

\* Two adjacent parts of a sequence are one part.
LEMMA SubSeqJoin ==
  ASSUME NEW S, NEW s \in Seq(S), NEW p \in Nat, NEW m \in Nat, p <= m, m <= Len(s)
  PROVE  SubSeq(s, 1, p) \o SubSeq(s, p + 1, m) = SubSeq(s, 1, m)
<1> DEFINE a == SubSeq(s, 1, p)
           b == SubSeq(s, p + 1, m)
           c == SubSeq(s, 1, m)
<1>1. /\ a \in Seq(S) /\ Len(a) = p /\ \A i \in 1 .. p : a[i] = s[i]
      /\ b \in Seq(S) /\ Len(b) = m - p /\ \A i \in 1 .. m - p : b[i] = s[p + i]
      /\ c \in Seq(S) /\ Len(c) = m /\ \A i \in 1 .. m : c[i] = s[i]
  <2>1. Len(s) \in Nat /\ p <= Len(s)
    BY SequenceIs
  <2>2. a \in Seq(S) /\ Len(a) = p /\ \A i \in 1 .. p : a[i] = s[i]
    BY <2>1
  <2>3. c \in Seq(S) /\ Len(c) = m /\ \A i \in 1 .. m : c[i] = s[i]
    BY <2>1
  <2>4. b \in Seq(S) /\ Len(b) = m - p
    BY <2>1
  <2>5. \A i \in 1 .. m - p : b[i] = s[p + i]
    BY <2>1
  <2> QED
    BY <2>2, <2>3, <2>4, <2>5
<1> HIDE DEF a, b, c
<1>2. a \o b \in Seq(S) /\ Len(a \o b) = m
  BY <1>1
<1>3. ASSUME NEW i \in 1 .. m PROVE (a \o b)[i] = c[i]
  <2>1. CASE i <= p
    BY <1>1, <2>1
  <2>2. CASE ~(i <= p)
    <3>1. i - p \in 1 .. m - p /\ p + (i - p) = i
      BY <2>2
    <3>2. (a \o b)[i] = b[i - p]
      BY <1>1, <2>2, <3>1
    <3> QED
      BY <1>1, <3>1, <3>2
  <2> QED
    BY <2>1, <2>2
<1>4. a \o b = c
  BY <1>1, <1>2, <1>3
<1> QED
  BY <1>4 DEF a, b, c

\* The answers, batch after batch, are in the order of the prompts.
LEMMA BatchesJoin ==
  ASSUME NEW S, NEW s \in Seq(S)
  PROVE  EmbeddingAnswers(s) = s
<1> DEFINE B == EmbedBatch
           n == Len(s)
           a == n + B - 1
           count == a \div B
           upto(b) == IF b * B < n THEN b * B ELSE n
           batches == Batched(s)
<1>1. B \in Nat \ {0} /\ n \in Nat /\ a \in Nat /\ a = n + B - 1
  BY RowsAssumption, SequenceIs
<1>2. batches = [b \in 1 .. count |-> SubSeq(s, (b - 1) * B + 1, upto(b))]
  BY DEF Batched
<1> HIDE DEF a, batches
<1>3. count \in Nat /\ B * count \in Nat /\ B * count <= a /\ a < B * count + B
  BY <1>1, Quotient
<1> HIDE DEF count, B, n
<1>4. ASSUME NEW b \in 1 .. count
      PROVE  /\ (b - 1) * B \in Nat /\ (b - 1) * B < n /\ b * B = (b - 1) * B + B
             /\ upto(b - 1) = (b - 1) * B /\ upto(b) \in Nat
             /\ upto(b - 1) <= upto(b) /\ upto(b) <= n
             /\ batches[b] = SubSeq(s, (b - 1) * B + 1, upto(b))
  <2> DEFINE p == (b - 1) * B
  <2>1. b - 1 \in Nat /\ p \in Nat /\ b * B = p + B
    BY <1>1
  <2>2. count - b \in Nat /\ (count - b) * B \in Nat
    BY <1>1, <1>3
  <2>3. B * count = (count - b) * B + b * B
    BY <1>1, <1>3
  <2> HIDE DEF p
  <2>4. p < n
    BY <1>1, <1>3, <2>1, <2>2, <2>3
  <2>5. batches[b] = SubSeq(s, (b - 1) * B + 1, upto(b))
    BY <1>2
  <2>6. upto(b - 1) = p /\ upto(b) \in Nat /\ upto(b - 1) <= upto(b) /\ upto(b) <= n
    <3>1. upto(b - 1) = IF p < n THEN p ELSE n
      BY DEF p
    <3>2. upto(b) = IF p + B < n THEN p + B ELSE n
      BY <2>1
    <3> HIDE DEF upto
    <3> QED
      BY <1>1, <2>1, <2>4, <3>1, <3>2
  <2> QED
    BY <2>1, <2>4, <2>5, <2>6 DEF p
<1>5. upto(0) = 0
  <2>1. 0 * B = 0
    BY <1>1
  <2> QED
    BY <1>1, <2>1
<1>6. upto(count) = n
  <2>1. count * B = B * count
    BY <1>1, <1>3
  <2> QED
    BY <1>1, <1>3, <2>1
<1> HIDE DEF upto
<1>7. batches \in Seq(Seq(S)) /\ Len(batches) = count
  <2>1. ASSUME NEW b \in 1 .. count PROVE batches[b] \in Seq(S)
    <3> DEFINE i == (b - 1) * B + 1
    <3>1. i \in Nat \ {0} /\ upto(b) \in 0 .. Len(s) /\ batches[b] = SubSeq(s, i, upto(b))
      BY <1>4 DEF n
    <3> HIDE DEF i
    <3>2. SubSeq(s, i, upto(b)) \in Seq(S)
      BY <3>1, SubSeqRange
    <3> QED
      BY <3>1, <3>2
  <2>2. batches = [b \in 1 .. count |-> batches[b]]
    BY <1>2
  <2>3. batches \in [1 .. count -> Seq(S)]
    BY <2>1, <2>2
  <2> QED
    BY <1>3, <2>3, FunctionIsSequence
<1>8. PICK f \in [0 .. count -> Seq(S)] :
           /\ f[0] = <<>> /\ f[count] = FlattenSeq(batches)
           /\ \A i \in 1 .. count : f[i] = f[i - 1] \o batches[i]
  BY <1>7, FlattenFacts
<1> DEFINE Good == {i \in 0 .. count : f[i] = SubSeq(s, 1, upto(i))}
<1>9. 0 \in Good
  <2>1. SubSeq(s, 1, 0) = <<>>
    OBVIOUS
  <2> QED
    BY <1>3, <1>5, <1>8, <2>1
<1>10. ASSUME NEW b \in 1 .. count, b - 1 \in Good PROVE b \in Good
  <2> DEFINE p == (b - 1) * B
             m == upto(b)
  <2>1. /\ p \in Nat /\ m \in Nat /\ p <= m /\ m <= Len(s)
        /\ batches[b] = SubSeq(s, p + 1, m) /\ upto(b - 1) = p
    BY <1>4 DEF n
  <2> HIDE DEF p, m
  <2>2. f[b] = SubSeq(s, 1, p) \o SubSeq(s, p + 1, m)
    BY <1>8, <1>10, <2>1
  <2>3. f[b] = SubSeq(s, 1, m)
    BY <2>1, <2>2, SubSeqJoin
  <2>4. b \in 0 .. count
    BY <1>3
  <2> QED
    BY <2>3, <2>4 DEF m
<1> HIDE DEF Good
<1>11. \A i \in 0 .. count : i \in Good
  BY <1>3, <1>9, <1>10, UpTo
<1>12. f[count] = SubSeq(s, 1, n)
  BY <1>3, <1>6, <1>11 DEF Good
<1>13. SubSeq(s, 1, n) = s
  BY DEF n
<1> QED
  BY <1>8, <1>12, <1>13 DEF EmbeddingAnswers, batches

\* What is sent of a row for embedding bears the row's name.
LEMMA ContentOwn ==
  ASSUME options \in Options, NEW r \in OwnRows
  PROVE  /\ EmbeddedContent(r) \in Vectors \union {Nothing}
         /\ EmbeddedContent(r) # Nothing => EmbeddedContent(r)[1] = r.id
<1>1. /\ r.id \in Names /\ r.span \in Int \X Int
      /\ r.table_content \in {Nothing, "", r.id} /\ r.caption \in {Nothing, r.id}
  BY DEF OwnRows, RowFields
<1>2. options.modality \in {o.modality : o \in Options}
  OBVIOUS
<1>3. EmbeddedText(r) \in {Nothing, r.id}
  BY <1>1 DEF EmbeddedText
<1> DEFINE text == EmbeddedText(r)
           given == IF options.modality = "image" THEN r.id ELSE text
           lacking == \/ options.modality # "image" /\ text = Nothing
                      \/ options.modality # "text" /\ r.content # "own"
           spoken == ContentType(r) \in {"text", "audio"}
<1>4. EmbeddedContent(r) =
        IF spoken THEN IF r.span[1] < r.span[2] THEN <<r.id, r.span>> ELSE Nothing
        ELSE IF lacking THEN Nothing ELSE <<given, options.modality>>
  BY DEF EmbeddedContent
<1>5. ~lacking => given = r.id
  BY <1>3
<1>6. <<r.id, r.span>> \in Vectors /\ <<r.id, options.modality>> \in Vectors
  BY <1>1, <1>2 DEF Vectors
<1> HIDE DEF spoken, lacking, given, text
<1>7. EmbeddedContent(r) \in {Nothing, <<r.id, r.span>>, <<r.id, options.modality>>}
  BY <1>4, <1>5
<1> QED
  BY <1>6, <1>7

\* A row that gets the answer to what was sent of it.
LEMMA EmbeddedRow ==
  ASSUME options \in Options, NEW r \in OwnRows
  PROVE  LET q == [r EXCEPT !.embedding = EmbeddedContent(r),
                            !.content = IF r.kind = "page_image" THEN "empty" ELSE @]
         IN  q \in OwnRows /\ SameRow(q, r) /\ q.url = r.url /\ IsEmbedded(q)
<1> DEFINE v == EmbeddedContent(r)
           c == IF r.kind = "page_image" THEN "empty" ELSE r.content
           q == [r EXCEPT !.embedding = v, !.content = c]
<1>1. r \in RowFields /\ c \in Names
  BY DEF OwnRows, RowFields, Names
<1>2. v \in Vectors \union {Nothing} /\ (v # Nothing => v[1] = r.id)
  BY ContentOwn
<1>3. c = r.content \/ (r.kind = "page_image" /\ c = "empty")
  OBVIOUS
<1> HIDE DEF v, c
<1>4. q \in RowFields
  BY <1>1, <1>2 DEF RowFields
<1>5. /\ q.caption = r.caption /\ q.id = r.id /\ q.table_content = r.table_content
      /\ q.embedding = v /\ q.kind = r.kind /\ q.content = c
      /\ q.hash = r.hash /\ q.odd = r.odd /\ q.span = r.span
      /\ q.document_type = r.document_type /\ q.url = r.url
  BY <1>1 DEF RowFields
<1> HIDE DEF q
<1>6. q \in OwnRows
  BY <1>1, <1>2, <1>4, <1>5 DEF OwnRows
<1>7. EmbeddedContent(q) \in {Nothing, EmbeddedContent(r)}
  <2>1. ContentType(q) = ContentType(r)
    BY <1>5 DEF ContentType
  <2>2. EmbeddedText(q) = EmbeddedText(r)
    BY <1>5, <2>1 DEF EmbeddedText
  <2>3. q.id = r.id /\ q.span = r.span
    BY <1>5
  <2>4. CASE q.content = r.content
    BY <2>1, <2>2, <2>3, <2>4, Zenon DEF EmbeddedContent
  <2>5. CASE q.kind = "page_image" /\ q.content = "empty"
    <3>1. ContentType(q) = "image"
      BY <2>5 DEF ContentType
    <3>2. q.content # "own"
      BY <2>5
    <3>3. EmbeddedContent(q) \in {Nothing, EmbeddedContent(r)}
      <4> DEFINE m == options.modality
                 text == EmbeddedText(r)
      <4>1. EmbeddedContent(q) =
              IF (m # "image" /\ text = Nothing) \/ (m # "text" /\ q.content # "own") THEN Nothing
              ELSE <<IF m = "image" THEN r.id ELSE text, m>>
        BY <2>2, <2>3, <3>1 DEF EmbeddedContent
      <4>2. EmbeddedContent(r) =
              IF (m # "image" /\ text = Nothing) \/ (m # "text" /\ r.content # "own") THEN Nothing
              ELSE <<IF m = "image" THEN r.id ELSE text, m>>
        BY <2>1, <3>1 DEF EmbeddedContent
      <4> HIDE DEF m, text
      <4> QED
        BY <3>2, <4>1, <4>2
    <3> QED
      BY <3>3
  <2> QED
    BY <1>3, <1>5, <2>4, <2>5
<1>8. IsEmbedded(q)
  BY <1>5, <1>7 DEF IsEmbedded, v
<1>9. q = [r EXCEPT !.embedding = v, !.content = IF r.kind = "page_image" THEN "empty" ELSE @]
  BY DEF q, c
<1> QED
  BY <1>5, <1>6, <1>8, <1>9 DEF SameRow, v

\* The rows of a content type, each with its own embedding.
LEMMA EmbeddedType ==
  ASSUME options \in Options, frame \in Seq(Entries), NEW type, OnceEach(frame),
         \A i \in 1 .. Len(frame) : frame[i].row.url = Nothing
  PROVE  LET P == {q \in OwnRows : IsEmbedded(q) /\ q.url = Nothing}
         IN  /\ Embedded(type) \in Seq(P) /\ OnceRows(Embedded(type))
             /\ \A q \in Range(Embedded(type)) : \E i \in 1 .. Len(frame) :
                  ContentType(frame[i].row) = type /\ SameRow(q, frame[i].row)
             /\ \A i \in 1 .. Len(frame) : ContentType(frame[i].row) = type =>
                  \E q \in Range(Embedded(type)) : SameRow(q, frame[i].row)
<1> DEFINE P == {q \in OwnRows : IsEmbedded(q) /\ q.url = Nothing}
           N == {r \in OwnRows : r.url = Nothing}
           all == [i \in DOMAIN frame |-> frame[i].row]
           I == {i \in DOMAIN all : ContentType(all[i]) = type}
           rows == SelectAt(all, I)
           V == {i \in DOMAIN rows : EmbeddedContent(rows[i]) # Nothing}
           valid == Ascending(V)
           prompts == [n \in DOMAIN valid |-> EmbeddedContent(rows[valid[n]])]
           embedding(i) == IF PlaceIn(valid, i) = 0 THEN Nothing
                           ELSE EmbeddingAnswers(prompts)[PlaceIn(valid, i)]
<1>1. Embedded(type) = [i \in DOMAIN rows |->
         [rows[i] EXCEPT !.embedding = embedding(i),
                         !.content = IF rows[i].kind = "page_image" THEN "empty" ELSE @]]
  BY DEF Embedded, Filtered
<1>2. \A i \in 1 .. Len(frame) : frame[i].row \in N
  BY SequenceIs, EntryFacts
<1>3. all \in Seq(N) /\ Len(all) = Len(frame) /\ \A i \in 1 .. Len(frame) : all[i] = frame[i].row
  BY <1>2, RowsOfSequence
<1>4. I \in SUBSET (1 .. Len(all)) /\ \A i \in 1 .. Len(all) : i \in I <=> ContentType(all[i]) = type
  <2> HIDE DEF all
  <2> QED
    BY <1>3, SequenceIs
<1> HIDE DEF all, I
<1>19. OnceRows(all)
  BY <1>3 DEF OnceEach, OnceRows
<1>5. rows \in Seq(N) /\ OnceRows(rows)
  BY <1>3, <1>4, <1>19, SelectAtFacts, SelectOnce
<1>6. Range(rows) = {all[i] : i \in I}
  BY <1>3, <1>4, SelectRange
<1> HIDE DEF rows
<1>7. /\ DOMAIN rows = 1 .. Len(rows) /\ Len(rows) \in Nat
      /\ \A i \in 1 .. Len(rows) : rows[i] \in OwnRows /\ rows[i].url = Nothing
  BY <1>5, SequenceIs
<1>8. IsFiniteSet(V) /\ V \in SUBSET Int /\ V \subseteq 1 .. Len(rows)
  <2>1. IsFiniteSet(1 .. Len(rows)) /\ V \subseteq 1 .. Len(rows)
    BY <1>7, FS_Interval
  <2> QED
    BY <2>1, FS_Subset
<1>9. \A i \in 1 .. Len(rows) : i \in V <=> EmbeddedContent(rows[i]) # Nothing
  BY <1>7
<1> HIDE DEF V
<1>10. /\ Cardinality(V) \in Nat /\ Ascending(V) \in [1 .. Cardinality(V) -> V]
       /\ \A i \in V : \E n \in 1 .. Cardinality(V) : Ascending(V)[n] = i
  BY <1>8, AscendingFacts
<1>11. /\ valid \in Seq(V) /\ DOMAIN valid = 1 .. Len(valid) /\ Len(valid) \in Nat
       /\ \A n \in 1 .. Len(valid) : valid[n] \in V
       /\ \A i \in V : i \in Range(valid)
  <2>1. valid \in Seq(V) /\ Len(valid) = Cardinality(V)
    BY <1>10, FunctionIsSequence
  <2>2. \A i \in V : \E n \in 1 .. Len(valid) : valid[n] = i
    BY <1>10, <2>1
  <2> HIDE DEF valid
  <2>3. /\ DOMAIN valid = 1 .. Len(valid) /\ Len(valid) \in Nat
        /\ \A n \in 1 .. Len(valid) : valid[n] \in V
    BY <2>1, SequenceIs
  <2>4. \A n \in 1 .. Len(valid) : valid[n] \in Range(valid)
    BY <2>1, RangeIs
  <2> QED
    BY <2>1, <2>2, <2>3, <2>4
<1> HIDE DEF valid
<1>12. prompts \in Seq(Vectors) /\ \A n \in 1 .. Len(valid) : prompts[n] = EmbeddedContent(rows[valid[n]])
  <2>1. ASSUME NEW n \in 1 .. Len(valid) PROVE EmbeddedContent(rows[valid[n]]) \in Vectors
    <3>1. valid[n] \in V /\ valid[n] \in 1 .. Len(rows)
      BY <1>8, <1>11
    <3>2. EmbeddedContent(rows[valid[n]]) # Nothing /\ rows[valid[n]] \in OwnRows
      BY <1>7, <1>9, <3>1
    <3> QED
      BY <3>2, ContentOwn
  <2>2. prompts \in [1 .. Len(valid) -> Vectors]
    BY <1>11, <2>1
  <2>3. \A n \in 1 .. Len(valid) : prompts[n] = EmbeddedContent(rows[valid[n]])
    BY <1>11
  <2> HIDE DEF prompts
  <2> QED
    BY <1>11, <2>2, <2>3, FunctionIsSequence
<1> HIDE DEF prompts
<1>13. EmbeddingAnswers(prompts) = prompts
  BY <1>12, BatchesJoin
<1>14. ASSUME NEW i \in 1 .. Len(rows) PROVE embedding(i) = EmbeddedContent(rows[i])
  <2> DEFINE n == PlaceIn(valid, i)
  <2>1. n \in 0 .. Len(valid) /\ (n # 0 => valid[n] = i) /\ (i \in Range(valid) => n # 0)
    BY <1>11, PlaceFacts
  <2>2. embedding(i) = IF n = 0 THEN Nothing ELSE prompts[n]
    BY <1>13
  <2> HIDE DEF n, embedding
  <2>3. CASE n = 0
    BY <1>9, <1>11, <2>1, <2>2, <2>3
  <2>4. CASE n # 0
    <3>1. n \in 1 .. Len(valid)
      BY <1>11, <2>1, <2>4
    <3> QED
      BY <1>12, <2>1, <2>2, <2>4, <3>1
  <2> QED
    BY <2>3, <2>4
<1> DEFINE done(r) == [r EXCEPT !.embedding = EmbeddedContent(r),
                                !.content = IF r.kind = "page_image" THEN "empty" ELSE @]
<1>15. Embedded(type) = [i \in 1 .. Len(rows) |-> done(rows[i])]
  <2> HIDE DEF embedding
  <2> QED
    BY <1>1, <1>7, <1>14
<1>16. ASSUME NEW r \in OwnRows, r.url = Nothing PROVE done(r) \in P /\ SameRow(done(r), r)
  BY <1>16, EmbeddedRow
<1> HIDE DEF done, P
<1>17. Embedded(type) \in Seq(P) /\ Len(Embedded(type)) = Len(rows)
  <2>1. \A i \in 1 .. Len(rows) : done(rows[i]) \in P
    BY <1>7, <1>16
  <2>2. Embedded(type) \in [1 .. Len(rows) -> P]
    BY <1>15, <2>1
  <2> QED
    BY <1>7, <2>2, FunctionIsSequence
<1>18. ASSUME NEW i \in 1 .. Len(frame), ContentType(frame[i].row) = type
       PROVE  \E q \in Range(Embedded(type)) : SameRow(q, frame[i].row)
  <2>1. i \in I /\ all[i] = frame[i].row
    BY <1>3, <1>4, <1>18
  <2>2. PICK n \in 1 .. Len(rows) : rows[n] = frame[i].row
    <3>1. frame[i].row \in Range(rows)
      BY <1>6, <2>1
    <3>2. \A x \in Range(rows) : \E n \in 1 .. Len(rows) : rows[n] = x
      BY <1>5, RangeIs
    <3> QED
      BY <3>1, <3>2
  <2>3. Embedded(type)[n] = done(rows[n]) /\ SameRow(done(rows[n]), rows[n])
    BY <1>7, <1>15, <1>16
  <2>4. Embedded(type)[n] \in Range(Embedded(type))
    BY <1>17, RangeIs
  <2> QED
    BY <2>2, <2>3, <2>4
<1>20. ASSUME NEW n \in 1 .. Len(rows)
       PROVE  SameRow(Embedded(type)[n], rows[n])
  BY <1>7, <1>15, <1>16
<1>21. OnceRows(Embedded(type))
  <2>1. \A n \in 1 .. Len(rows) :
          Embedded(type)[n].id = rows[n].id /\ Embedded(type)[n].span = rows[n].span
    BY <1>20 DEF SameRow
  <2> QED
    BY <1>5, <1>17, <2>1 DEF OnceRows
<1>22. ASSUME NEW q \in Range(Embedded(type))
       PROVE  \E i \in 1 .. Len(frame) : ContentType(frame[i].row) = type /\ SameRow(q, frame[i].row)
  <2>1. PICK n \in 1 .. Len(rows) : Embedded(type)[n] = q
    BY <1>17, RangeIs
  <2>2. rows[n] \in Range(rows)
    BY <1>5, <2>1, RangeIs
  <2>3. PICK i \in I : all[i] = rows[n]
    BY <1>6, <2>2
  <2> QED
    BY <1>3, <1>4, <1>20, <2>1, <2>3
<1> QED
  BY <1>17, <1>18, <1>21, <1>22 DEF P

\* Without blank rows every row is of a type that is embedded.
LEMMA NoneUnembedded ==
  ASSUME frame \in Seq(Entries), ~HasBlank
  PROVE  /\ Unembedded = <<>>
         /\ \A i \in 1 .. Len(frame) : \E t \in 1 .. 4 : ContentType(frame[i].row) = EmbedTypes[t]
<1>1. /\ DOMAIN frame = 1 .. Len(frame) /\ Len(frame) \in Nat
      /\ \A i \in 1 .. Len(frame) : frame[i].row.kind \in RowKinds \ {"blank"}
  <2>1. DOMAIN frame = 1 .. Len(frame) /\ Len(frame) \in Nat
    BY SequenceIs
  <2>2. \A i \in 1 .. Len(frame) : frame[i].row \in RowFields
    BY SequenceIs, EntryFacts
  <2>3. \A i \in 1 .. Len(frame) : frame[i].row.kind # "blank"
    BY <2>1 DEF HasBlank
  <2> QED
    BY <2>1, <2>2, <2>3 DEF RowFields
<1>2. EmbedTypes[1] = "text" /\ EmbedTypes[2] = "structured" /\ EmbedTypes[3] = "image"
      /\ EmbedTypes[4] = "audio" /\ DOMAIN EmbedTypes = 1 .. 4
  BY DEF EmbedTypes
<1>3. ASSUME NEW i \in 1 .. Len(frame)
      PROVE  \E t \in 1 .. 4 : ContentType(frame[i].row) = EmbedTypes[t]
  <2> DEFINE r == frame[i].row
  <2>1. r.kind \in RowKinds \ {"blank"}
    BY <1>1
  <2> HIDE DEF r
  <2>2. ContentType(r) \in {"text", "structured", "image", "audio"}
    BY <2>1 DEF ContentType, RowKinds
  <2>3. \E t \in 1 .. 4 : ContentType(r) = EmbedTypes[t]
    BY <1>2, <2>2
  <2> QED
    BY <2>3 DEF r
<1>4. Unembedded = <<>>
  <2> DEFINE all == [i \in DOMAIN frame |-> frame[i].row]
             I == {i \in DOMAIN all : ContentType(all[i]) \notin Range(EmbedTypes)}
  <2>1. Unembedded = SelectAt(all, I)
    BY DEF Unembedded, Filtered
  <2>2. I = {}
    <3>1. DOMAIN all = 1 .. Len(frame) /\ \A i \in 1 .. Len(frame) : all[i] = frame[i].row
      BY <1>1
    <3>2. \A t \in 1 .. 4 : EmbedTypes[t] \in Range(EmbedTypes)
      BY <1>2 DEF Range
    <3> HIDE DEF all
    <3> QED
      BY <1>3, <3>1, <3>2
  <2> HIDE DEF I, all
  <2>3. Cardinality(I) = 0
    BY <2>2, FS_EmptySet
  <2> QED
    BY <2>1, <2>3 DEF SelectAt
<1> QED
  BY <1>3, <1>4

\* The embedding stage keeps the invariant.
LEMMA EmbedKeeps ==
  ASSUME PayloadInv, CreateEmbeddings
  PROVE  PayloadInv'
<1> DEFINE P == {q \in OwnRows : IsEmbedded(q) /\ q.url = Nothing}
           groups == [t \in DOMAIN EmbedTypes |-> Embedded(EmbedTypes[t])]
           rows == FlattenSeq(groups)
<1>1. /\ TasksInOrder /\ Stored /\ frame \in Seq(Entries) /\ Apart(frame)
      /\ options \in Options /\ doc_failed \in BOOLEAN
  BY DEF PayloadInv
<1>2. HasTask("embed")
  BY DEF CreateEmbeddings
<1>3. objects = {} /\ \A i \in 1 .. Len(frame) : frame[i].row.url = Nothing
  BY <1>1, <1>2, NoUrlYet
<1>6. OnceEach(frame)
  BY DEF PayloadInv, Undoubled
<1>4. CASE Raises(frame)
  BY <1>1, <1>2, <1>4, StageRaises
<1>5. CASE ~HasBlank /\ Succeeds(Labelled(rows \o Unembedded)) /\ UNCHANGED objects
  <2>1. /\ Unembedded = <<>>
        /\ \A i \in 1 .. Len(frame) : \E t \in 1 .. 4 : ContentType(frame[i].row) = EmbedTypes[t]
    BY <1>1, <1>5, NoneUnembedded
  <2>2. DOMAIN EmbedTypes = 1 .. 4
    BY DEF EmbedTypes
  <2>3. \A t \in 1 .. 4 :
          /\ Embedded(EmbedTypes[t]) \in Seq(P) /\ OnceRows(Embedded(EmbedTypes[t]))
          /\ \A q \in Range(Embedded(EmbedTypes[t])) : \E i \in 1 .. Len(frame) :
               ContentType(frame[i].row) = EmbedTypes[t] /\ SameRow(q, frame[i].row)
          /\ \A i \in 1 .. Len(frame) : ContentType(frame[i].row) = EmbedTypes[t] =>
               \E q \in Range(Embedded(EmbedTypes[t])) : SameRow(q, frame[i].row)
    <3> TAKE t \in 1 .. 4
    <3> DEFINE type == EmbedTypes[t]
    <3> HIDE DEF type
    <3>1. /\ Embedded(type) \in Seq(P) /\ OnceRows(Embedded(type))
          /\ \A q \in Range(Embedded(type)) : \E i \in 1 .. Len(frame) :
               ContentType(frame[i].row) = type /\ SameRow(q, frame[i].row)
          /\ \A i \in 1 .. Len(frame) : ContentType(frame[i].row) = type =>
               \E q \in Range(Embedded(type)) : SameRow(q, frame[i].row)
      BY <1>1, <1>3, <1>6, EmbeddedType
    <3> QED
      BY <3>1 DEF type
  <2>4. /\ groups \in Seq(Seq(P)) /\ Len(groups) = 4
        /\ \A t \in 1 .. 4 : groups[t] = Embedded(EmbedTypes[t])
    <3> HIDE DEF P
    <3>1. groups \in [1 .. 4 -> Seq(P)]
      BY <2>2, <2>3
    <3>2. \A t \in 1 .. 4 : groups[t] = Embedded(EmbedTypes[t])
      BY <2>2
    <3> QED
      BY <3>1, <3>2, FunctionIsSequence
  <2> HIDE DEF groups
  <2>5. rows \in Seq(P) /\ \A t \in 1 .. 4 : Range(groups[t]) \subseteq Range(rows)
    BY <2>4, FlattenRange
  <2>17. ASSUME NEW t \in 1 .. 4, NEW u \in 1 .. 4, t < u,
                NEW x \in Range(groups[t]), NEW y \in Range(groups[u]), x.id = y.id /\ x.span = y.span
         PROVE  FALSE
    <3>1. PICK i \in 1 .. Len(frame) :
            ContentType(frame[i].row) = EmbedTypes[t] /\ SameRow(x, frame[i].row)
      BY <2>3, <2>4
    <3>2. PICK j \in 1 .. Len(frame) :
            ContentType(frame[j].row) = EmbedTypes[u] /\ SameRow(y, frame[j].row)
      BY <2>3, <2>4
    <3>3. i = j
      BY <1>6, <2>17, <3>1, <3>2 DEF SameRow, OnceEach
    <3>4. EmbedTypes[t] = EmbedTypes[u]
      BY <3>1, <3>2, <3>3
    <3>5. EmbedTypes[1] = "text" /\ EmbedTypes[2] = "structured" /\ EmbedTypes[3] = "image"
          /\ EmbedTypes[4] = "audio"
      BY DEF EmbedTypes
    <3> QED
      BY <2>17, <3>4, <3>5
  <2>18. OnceRows(rows)
    <3>1. \A t \in 1 .. Len(groups) : OnceRows(groups[t])
      BY <2>3, <2>4
    <3>2. \A t, u \in 1 .. Len(groups) : t < u =>
            \A x \in Range(groups[t]), y \in Range(groups[u]) : ~(x.id = y.id /\ x.span = y.span)
      BY <2>4, <2>17
    <3> QED
      BY <2>4, <3>1, <3>2, FlattenOnce
  <2>6. P \in SUBSET OwnRows
    OBVIOUS
  <2> HIDE DEF P, rows
  <2>7. rows \o Unembedded = rows
    BY <2>1, <2>5
  <2>8. /\ frame' = Labelled(rows) /\ tasks_left' = Tail(tasks_left)
        /\ UNCHANGED <<original, options, objects, doc_failed>>
    BY <1>5, <2>7 DEF Succeeds
  <2>9. /\ frame' \in Seq(Entries) /\ Apart(frame') /\ Len(frame') = Len(rows)
        /\ \A j \in 1 .. Len(rows) : frame'[j].row = rows[j] /\ rows[j] \in P
    <3>1. rows \in Seq(P)
      BY <2>5
    <3>2. /\ Labelled(rows) \in Seq(Entries) /\ Apart(Labelled(rows))
          /\ Len(Labelled(rows)) = Len(rows)
          /\ \A j \in 1 .. Len(rows) :
               Labelled(rows)[j] = [label |-> j - 1, row |-> rows[j]] /\ rows[j] \in P
      BY <2>6, <3>1, Relabelled
    <3>3. frame' = Labelled(rows)
      BY <2>8
    <3>4. Apart(frame') /\ frame' \in Seq(Entries) /\ Len(frame') = Len(rows)
      BY <3>2, <3>3
    <3>5. ASSUME NEW j \in 1 .. Len(rows) PROVE frame'[j].row = rows[j] /\ rows[j] \in P
      <4>1. Labelled(rows)[j] = [label |-> j - 1, row |-> rows[j]] /\ rows[j] \in P
        BY <3>2
      <4>2. frame'[j] = [label |-> j - 1, row |-> rows[j]]
        BY <3>3, <4>1
      <4> QED
        BY <4>1, <4>2
    <3> QED
      BY <3>4, <3>5
  <2>10. TasksInOrder' /\ \A s : Done(s)' <=> Done(s) \/ s = "embed"
    BY <1>1, <1>2, <2>8, TaskTaken
  <2>11. ASSUME NEW j \in 1 .. Len(frame') PROVE IsEmbedded(frame[j].row)'
    <3> DEFINE r == frame'[j].row
    <3>1. r \in P
      BY <2>9
    <3>2. IsEmbedded(r)
      BY <3>1 DEF P
    <3>3. (EmbeddedContent(frame[j].row))' = EmbeddedContent(r)
      BY <2>8 DEF EmbeddedContent, EmbeddedText, ContentType
    <3>4. IsEmbedded(frame[j].row)' <=>
            ((EmbeddedContent(frame[j].row))' # Nothing =>
               r.embedding = (EmbeddedContent(frame[j].row))')
      BY DEF IsEmbedded
    <3> HIDE DEF r
    <3> QED
      BY <3>2, <3>3, <3>4 DEF IsEmbedded
  <2>12. Embeddings'
    BY <2>11 DEF Embeddings
  <2>13. Stored'
    <3>1. objects' = {}
      BY <1>3, <2>8
    <3>2. \A j \in 1 .. Len(frame') : frame'[j].row.url = Nothing
      <4>1. \A x \in P : x.url = Nothing
        BY DEF P
      <4> QED
        BY <2>9, <4>1
    <3> QED
      BY <3>1, <3>2 DEF Stored
  <2>14. ASSUME NEW i \in 1 .. Len(frame)
         PROVE  \E j \in 1 .. Len(frame') : SameRow(frame'[j].row, frame[i].row)
    <3>1. PICK t \in 1 .. 4 : ContentType(frame[i].row) = EmbedTypes[t]
      BY <2>1
    <3>2. PICK q \in Range(groups[t]) : SameRow(q, frame[i].row)
      BY <2>3, <2>4, <3>1
    <3>3. q \in Range(rows)
      BY <2>5
    <3>4. PICK j \in 1 .. Len(rows) : rows[j] = q
      BY <2>5, <3>3, RangeIs
    <3> QED
      BY <2>9, <3>2, <3>4
  <2>15. ASSUME NEW q, RowAccounted(q) PROVE RowAccounted(q)'
    <3>1. \A s : Done(s) => Done(s)'
      BY <2>10
    <3> QED
      BY <1>1, <2>8, <2>9, <2>14, <2>15, <3>1, CarriedOver
  <2>16. \A k \in 1 .. Len(original) : RowAccounted(original[k])'
    BY <2>8, <2>15 DEF PayloadInv
  <2>19. OnceEach(frame')
    <3>1. \A j \in 1 .. Len(frame') : j \in 1 .. Len(rows) /\ frame'[j].row = rows[j]
      BY <2>9
    <3> QED
      BY <2>18, <3>1 DEF OnceEach, OnceRows
  <2>20. Undoubled'
    <3> DEFINE name == "embed"
    <3>1. name \in Stages /\ Done(name)' /\ StageTurn(name) >= 6
      BY <2>10, TurnsOf DEF Stages
    <3> HIDE DEF name
    <3> QED
      BY <2>10, <2>19, <3>1, SplitOver
  <2> QED
    BY <1>1, <2>8, <2>9, <2>10, <2>12, <2>13, <2>16, <2>20 DEF PayloadInv
<1> QED
  BY <1>4, <1>5 DEF CreateEmbeddings

-----------------------------------------------------------------------------
(* The theorems. *)

\* Every stage keeps the invariant.
LEMMA PayloadNext == PayloadInv /\ [RowsNext]_rowVars => PayloadInv'
<1> SUFFICES ASSUME PayloadInv, [RowsNext]_rowVars PROVE PayloadInv'
  OBVIOUS
<1>1. CASE ExtractInfographics
  <2> DEFINE kind == "infographic"
  <2>1. StageTurn(kind) < 8 /\ StructuredStage(kind)
    BY <1>1, TurnsOf DEF ExtractInfographics
  <2> HIDE DEF kind
  <2> QED
    BY <2>1, StructuredKeeps
<1>2. CASE ExtractTables
  BY <1>2, TablesKeep
<1>3. CASE ExtractCharts
  <2> DEFINE kind == "chart"
  <2>1. StageTurn(kind) < 8 /\ StructuredStage(kind)
    BY <1>3, TurnsOf DEF ExtractCharts
  <2> HIDE DEF kind
  <2> QED
    BY <2>1, StructuredKeeps
<1>4. CASE FilterImages
  BY <1>4, FilterKeeps
<1>5. CASE DeduplicateImages
  BY <1>5, DeduplicateKeeps
<1>6. CASE SplitText
  BY <1>6, SplitKeeps
<1>7. CASE CaptionImages
  BY <1>7, CaptionsKeep
<1>8. CASE CreateEmbeddings
  BY <1>8, EmbedKeeps
<1>9. CASE StoreImages
  BY <1>9, StoreImagesKeep
<1>10. CASE StoreEmbeddings
  BY <1>10, StoreEmbeddingsKeep
<1>11. CASE UNCHANGED rowVars
  <2>1. UNCHANGED <<original, options, tasks_left, frame, doc_failed, objects>>
    BY <1>11 DEF rowVars
  <2>2. TasksInOrder' <=> TasksInOrder
    BY <2>1 DEF TasksInOrder, Done
  <2>3. Embeddings' <=> Embeddings
    BY <2>1 DEF Embeddings, Done, IsEmbedded, EmbeddedContent, EmbeddedText, ContentType
  <2>4. Stored' <=> Stored
    BY <2>1 DEF Stored
  <2>5. \A k \in 1 .. Len(original) : RowAccounted(original[k])' <=> RowAccounted(original[k])
    BY <2>1 DEF RowAccounted, Whole, IsImage, Chunked, TokensKept, Done
  <2>6. Undoubled' <=> Undoubled
    BY <2>1 DEF Undoubled, OnceEach
  <2> QED
    BY <2>1, <2>2, <2>3, <2>4, <2>5, <2>6 DEF PayloadInv
<1> QED
  BY <1>1, <1>2, <1>3, <1>4, <1>5, <1>6, <1>7, <1>8, <1>9, <1>10, <1>11 DEF RowsNext

\* What the invariant says of types, of the answers and of the rows.
LEMMA PayloadTypes == PayloadInv => RowsTypeOK
<1> SUFFICES ASSUME PayloadInv PROVE RowsTypeOK
  OBVIOUS
<1>1. /\ TasksInOrder /\ frame \in Seq(Entries) /\ Apart(frame)
      /\ original \in Documents /\ options \in Options /\ doc_failed \in BOOLEAN
  BY DEF PayloadInv
<1>2. Range(tasks_left) \subseteq options.tasks
  <2>1. tasks_left \in Seq(Stages) /\ \A i \in 1 .. Len(tasks_left) : tasks_left[i] \in options.tasks
    BY <1>1 DEF TasksInOrder
  <2> QED
    BY <2>1, RangeIs
<1>3. DOMAIN frame = 1 .. Len(frame) /\ \A i \in 1 .. Len(frame) : frame[i] \in Entries
  BY <1>1, SequenceIs
<1>4. \A i \in DOMAIN frame : frame[i].label \in Nat
  BY <1>3, EntryFacts
<1>5. \A i, j \in DOMAIN frame : i # j => frame[i].label # frame[j].label
  BY <1>1, <1>3 DEF Apart
<1> QED
  BY <1>1, <1>2, <1>4, <1>5 DEF RowsTypeOK

\* The invariant implies that every row holds its own.
LEMMA PayloadAnswers == PayloadInv => OwnValues
<1> SUFFICES ASSUME PayloadInv PROVE OwnValues
  OBVIOUS
<1>1. frame \in Seq(Entries) /\ Embeddings /\ Stored
  BY DEF PayloadInv
<1>2. DOMAIN frame = 1 .. Len(frame) /\ \A i \in 1 .. Len(frame) : frame[i].row \in OwnRows
  BY <1>1, SequenceIs, EntryFacts
<1>3. ASSUME NEW i \in 1 .. Len(frame)
      PROVE  LET row == frame[i].row
             IN  /\ row.table_content \in {Nothing, "", row.id}
                 /\ row.caption \in {Nothing, row.id}
                 /\ row.embedding # Nothing => row.embedding[1] = row.id
                 /\ row.url # Nothing => \A o \in objects : o.url = row.url => o.id = row.id
                 /\ Done("embed") /\ ~doc_failed /\ EmbeddedContent(row) # Nothing =>
                      row.embedding = EmbeddedContent(row)
  <2> DEFINE row == frame[i].row
  <2>1. row \in OwnRows
    BY <1>2
  <2>2. /\ row.table_content \in {Nothing, "", row.id} /\ row.caption \in {Nothing, row.id}
        /\ row.embedding # Nothing => row.embedding[1] = row.id
    BY <2>1 DEF OwnRows
  <2>3. row.url # Nothing => \A o \in objects : o.url = row.url => o.id = row.id
    BY <1>1 DEF Stored
  <2>4. Done("embed") /\ ~doc_failed => IsEmbedded(row)
    BY <1>1 DEF Embeddings
  <2> HIDE DEF row
  <2>5. Done("embed") /\ ~doc_failed /\ EmbeddedContent(row) # Nothing =>
          row.embedding = EmbeddedContent(row)
    BY <2>4 DEF IsEmbedded
  <2> QED
    BY <2>2, <2>3, <2>5 DEF row
<1>4. \A o, p \in objects : o.url = p.url => o = p
  BY <1>1 DEF Stored
<1> QED
  BY <1>2, <1>3, <1>4 DEF OwnValues

\* The invariant implies that no row is lost.
LEMMA PayloadRows == PayloadInv => NothingDropped
<1> SUFFICES ASSUME PayloadInv PROVE NothingDropped
  OBVIOUS
<1>1. /\ frame \in Seq(Entries) /\ original \in Seq(ExtractedRows)
      /\ \A k \in 1 .. Len(original) : RowAccounted(original[k])
  BY DEF PayloadInv
<1>2. DOMAIN frame = 1 .. Len(frame) /\ DOMAIN original = 1 .. Len(original)
  BY <1>1
<1> SUFFICES ASSUME NEW i \in DOMAIN original
             PROVE  LET row == original[i]
                    IN  /\ \/ InFrame(row)
                           \/ Done("filter") /\ options.filter /\ IsImage(row) /\ row.odd
                           \/ /\ Done("dedup") /\ IsImage(row)
                              /\ \E j \in DOMAIN frame :
                                   IsImage(frame[j].row) /\ frame[j].row.hash = row.hash
                           \/ /\ Done("split") /\ row.document_type \in {"text", "audio"}
                              /\ row.span[2] - row.span[1] <= 1 \/ options.chunk_size = 1
                        /\ row.document_type \in {"text", "audio"} =>
                             \A token \in TokensKept(row.span) :
                               \E j \in DOMAIN frame :
                                 LET piece == frame[j].row
                                 IN  /\ piece.id = row.id
                                     /\ token \in piece.span[1] .. piece.span[2] - 1
  BY DEF NothingDropped
<1> DEFINE row == original[i]
<1>3. RowAccounted(row)
  BY <1>1, <1>2
<1>4. row.span \in Nat \X Nat
  <2>1. row \in ExtractedRows
    BY <1>1, <1>2
  <2> HIDE DEF row
  <2> QED
    BY <2>1 DEF ExtractedRows
<1> HIDE DEF row
<1>5. CASE \E j \in 1 .. Len(frame) : Whole(frame[j].row, row)
  <2>1. PICK j \in 1 .. Len(frame) : Whole(frame[j].row, row)
    BY <1>5
  <2>2. frame[j].row.id = row.id /\ frame[j].row.span = row.span
    BY <2>1 DEF Whole
  <2>3. \A token \in TokensKept(row.span) :
          frame[j].row.id = row.id /\ token \in frame[j].row.span[1] .. frame[j].row.span[2] - 1
    BY <1>4, <2>2 DEF TokensKept
  <2>4. InFrame(row)
    BY <1>2, <2>2 DEF InFrame
  <2> QED
    BY <1>2, <2>3, <2>4 DEF row
<1>6. CASE Done("filter") /\ options.filter /\ IsImage(row) /\ row.odd
  BY <1>6 DEF row, IsImage
<1>7. CASE /\ Done("dedup") /\ IsImage(row)
           /\ \E j \in 1 .. Len(frame) : IsImage(frame[j].row) /\ frame[j].row.hash = row.hash
  BY <1>2, <1>7 DEF row, IsImage
<1>8. CASE Done("split") /\ row.document_type \in SpokenTypes /\ Chunked(row)
  <2>1. InFrame(row) \/ row.span[2] - row.span[1] <= 1 \/ options.chunk_size = 1
    BY <1>2, <1>8 DEF Chunked, InFrame
  <2>2. \A token \in TokensKept(row.span) : \E j \in DOMAIN frame :
            /\ frame[j].row.id = row.id
            /\ token \in frame[j].row.span[1] .. frame[j].row.span[2] - 1
    BY <1>2, <1>8 DEF Chunked
  <2> QED
    BY <1>8, <2>1, <2>2 DEF row, SpokenTypes
<1> QED
  BY <1>3, <1>5, <1>6, <1>7, <1>8 DEF RowAccounted

\* The invariant implies that no row is there twice.
LEMMA PayloadOnce == PayloadInv => NothingDoubled
<1> SUFFICES ASSUME PayloadInv PROVE NothingDoubled
  OBVIOUS
<1>1. frame \in Seq(Entries) /\ OnceEach(frame)
  BY DEF PayloadInv, Undoubled
<1>2. DOMAIN frame = 1 .. Len(frame)
  BY <1>1
<1> QED
  BY <1>1, <1>2 DEF OnceEach, NothingDoubled

\* The variables of a document's rows have their types, and no two rows ever have one label,
\* whatever the stages filter, reorder and relabel (mutate/filter.py:22-133,
\* mutate/deduplicate.py:17-110, transform/split_text.py:68-182, embed_text.py:536-661).
THEOREM RowTypes == RowsSpec => []RowsTypeOK
<1>1. RowsInit => PayloadInv
  BY PayloadInitially
<1>2. PayloadInv /\ [RowsNext]_rowVars => PayloadInv'
  BY PayloadNext
<1>3. PayloadInv => RowsTypeOK
  BY PayloadTypes
<1> QED
  BY <1>1, <1>2, <1>3, PTL DEF RowsSpec

\* For every document and every choice of tasks, batch size and chunks: the text, the caption,
\* the embedding and the stored object of a row are those of its own content, and once the
\* embedding stage is done no row with content is without its embedding
\* (extract/image/*_extractor.py, transform/caption_image.py:123-205, transform/embed_text.py,
\* store/image_upload.py:45-174).
THEOREM AnswersToTheirRows == RowsSpec => []OwnValues
<1>1. RowsInit => PayloadInv
  BY PayloadInitially
<1>2. PayloadInv /\ [RowsNext]_rowVars => PayloadInv'
  BY PayloadNext
<1>3. PayloadInv => OwnValues
  BY PayloadAnswers
<1> QED
  BY <1>1, <1>2, <1>3, PTL DEF RowsSpec

\* For every document and every choice of tasks: no row, and no chunk of one, is in the payload
\* twice; an image leaves it only if it fails the filter or an equal one stays, a text only if it has no more than one token or is cut in
\* chunks of one; and every token of a text, split or not, is in some row but the last and,
\* when chunks do not overlap, the last of each chunk (mutate/filter.py:22-133,
\* mutate/deduplicate.py:17-110, transform/split_text.py:48-182).
THEOREM RowsAccountedFor == RowsSpec => []RowsKept
<1>1. RowsInit => PayloadInv
  BY PayloadInitially
<1>2. PayloadInv /\ [RowsNext]_rowVars => PayloadInv'
  BY PayloadNext
<1>3. PayloadInv => RowsKept
  BY PayloadRows, PayloadOnce DEF RowsKept
<1> QED
  BY <1>1, <1>2, <1>3, PTL DEF RowsSpec
===============================================================================
