------------------------------ MODULE Recognition ------------------------------
(***************************************************************************)
(* One document through a workflow: text recognition with its two adaptive *)
(* retries, layout and VL parsing, and table extraction, which runs text   *)
(* recognition once more to verify its tables.  A cancellation is noticed  *)
(* at the progress checkpoints only; the user may ask for it at any time.  *)
(*                                                                         *)
(* A line is its text, here the pass that read it, and whether it is       *)
(* doubtful (low confidence or fused words); the scores that decide about  *)
(* a retry are abstracted to their verdict.                                *)
(***************************************************************************)
EXTENDS Naturals, Sequences, FiniteSets, SequencesExt

CONSTANTS MaxPages,    \* bound of the model: pages of a document
          MaxLines,    \* bound of the model: lines of a page
          MaxRegions   \* OCR_MAX_RETRY_REGIONS_PER_PAGE

ReadingAssumption == MaxPages \in Nat /\ MaxLines \in Nat

VARIABLES
  flow,      \* the workflow, and the one that runs now: tables run "text" too
  input,     \* the document: PDF or image, its pages
  at,        \* the next checkpoint or step
  page,      \* the page at hand: index, lines, retries
  pages,     \* the pages of the running workflow that are done
  kept,      \* the structure pages of a table extraction
  result,    \* what the workflow returns
  cancel,    \* the user's request: "no", "asked", or "late" after the last checkpoint
  truth      \* history: per page, the lines of the pass that read it first

vars == <<flow, input, at, page, pages, kept, result, cancel, truth>>

Flows == {"text", "layout", "vl", "table"}
Line == [by : {"first", "page_retry"}, doubtful : BOOLEAN, retry : BOOLEAN]
Passes(by) == {[i \in 1..n |-> [by |-> by, doubtful |-> d[i], retry |-> FALSE]] :
                 n \in 0..MaxLines, d \in [1..MaxLines -> BOOLEAN]}
NoPage == [number |-> 0, lines |-> <<>>, attempted |-> 0, accepted |-> 0, original |-> <<>>]
NoResult == [status |-> "none", lines |-> <<>>, pages |-> <<>>, attempted |-> 0, accepted |-> 0]
Checkpoints == {"start", "inspect", "render", "recognize", "page_retry", "region_retry",
                "page_done", "verify", "finalize"}

Init ==
  /\ flow \in {[asked |-> f, now |-> IF f = "text" THEN "text" ELSE "structure"] : f \in Flows}
  /\ input \in [pdf : BOOLEAN, count : 1..MaxPages]
  /\ flow.now = "structure" => input.pdf \/ input.count = 1
  /\ at = "start" /\ page = NoPage /\ pages = <<>> /\ kept = <<>> /\ result = NoResult
  /\ cancel = "no" /\ truth = <<>>

(* The text pass of a table extraction, after the structure pass.          *)
Verifying == flow.asked = "table" /\ flow.now = "text"

Ask ==
  /\ cancel = "no" /\ result.status = "none"
  /\ cancel' = IF at = "combine" /\ ~Verifying THEN "late" ELSE "asked"
  /\ UNCHANGED <<flow, input, at, page, pages, kept, result, truth>>

(* An exception ends the workflow; while tables are verified it only costs *)
(* the verification, a cancellation included.                              *)
Raise(status) ==
  IF Verifying
  THEN /\ at' = "finalize" /\ pages' = kept /\ page' = NoPage
       /\ flow' = [flow EXCEPT !.now = "structure"]
       /\ UNCHANGED <<kept, result>>
  ELSE /\ at' = "over" /\ result' = [NoResult EXCEPT !.status = status]
       /\ UNCHANGED <<flow, page, pages, kept>>

Cancelled ==
  /\ at \in Checkpoints /\ cancel = "asked"
  /\ Raise("cancelled")
  /\ UNCHANGED <<input, cancel, truth>>

(* Passing a checkpoint.                                                   *)
Past(checkpoint) == at = checkpoint /\ cancel # "asked"
Goto(step) ==
  /\ at' = step
  /\ UNCHANGED <<flow, input, page, pages, kept, result, cancel, truth>>

Fail ==
  /\ at \in {"inspecting", "rendering", "predicting", "retrying_page", "retrying_regions"}
  /\ Raise("failed")
  /\ UNCHANGED <<input, cancel, truth>>

-----------------------------------------------------------------------------
Start == Past("start") /\ Goto(IF input.pdf THEN "inspect" ELSE "recognize")
Inspect == Past("inspect") /\ Goto("inspecting")

(* The next page, or the end of the pages.                                 *)
NextPage ==
  /\ at = "inspecting" \/ at = "next"
  /\ Goto(IF Len(pages) = input.count THEN "pages_done"
          ELSE IF input.pdf THEN "render" ELSE "recognize")

Render == Past("render") /\ Goto("rendering")
Rendered == at = "rendering" /\ Goto("recognize")
Recognize == Past("recognize") /\ Goto("predicting")

(* The engine returns one result for the page.  Only text recognition has  *)
(* lines whose quality is looked at.                                       *)
Predicted ==
  /\ at = "predicting"
  /\ \E lines \in Passes("first") :
       /\ page' = [NoPage EXCEPT !.number = Len(pages) + 1, !.lines = lines]
       /\ truth' = IF Verifying THEN truth ELSE Append(truth, lines)
  /\ at' \in IF flow.now = "structure" THEN {"append"}
             ELSE IF input.pdf THEN {"page_retry", "regions"} ELSE {"regions"}
  /\ UNCHANGED <<flow, input, pages, kept, result, cancel>>

PageRetry ==
  /\ Past("page_retry") /\ page.attempted = 0
  /\ at' = "retrying_page"
  /\ page' = [page EXCEPT !.attempted = 1]
  /\ UNCHANGED <<flow, input, pages, kept, result, cancel, truth>>

(* The page is read again at a larger scale.  Without one result, or one   *)
(* that is clearly better, the first reading stays; else the first lines   *)
(* are kept in the record of the retry.                                    *)
PageRetried ==
  /\ at = "retrying_page"
  /\ at' = "regions"
  /\ \/ UNCHANGED page
     \/ /\ page.lines # <<>>
        /\ \E lines \in Passes("page_retry") \ {<<>>} :
             page' = [page EXCEPT !.lines = lines, !.accepted = 1, !.original = page.lines]
  /\ UNCHANGED <<flow, input, pages, kept, result, cancel, truth>>

(* The doubtful lines, in their order and up to the limit.                 *)
Flagged ==
  {i \in DOMAIN page.lines : page.lines[i].doubtful
     /\ Cardinality({k \in 1..i : page.lines[k].doubtful}) <= MaxRegions}

Regions == at = "regions" /\ Goto(IF Flagged = {} THEN "append" ELSE "region_retry")
RegionRetry == Past("region_retry") /\ Goto("retrying_regions")

(* A better reading of a region is recorded beside the text of its line.   *)
(* When the number of results is not that of the regions, all are ignored. *)
RegionsRetried ==
  /\ at = "retrying_regions"
  /\ at' = "append"
  /\ \E better \in SUBSET Flagged :
       page' = [page EXCEPT
         !.lines = [i \in DOMAIN page.lines |->
                      [page.lines[i] EXCEPT !.retry = i \in better]],
         !.attempted = @ + Cardinality(Flagged),
         !.accepted = @ + Cardinality(better)]
  /\ UNCHANGED <<flow, input, pages, kept, result, cancel, truth>>

PageDone ==
  /\ at = "append"
  /\ pages' = Append(pages, page)
  /\ page' = NoPage /\ at' = "page_done"
  /\ UNCHANGED <<flow, input, kept, result, cancel, truth>>

Completed == Past("page_done") /\ Goto("next")

-----------------------------------------------------------------------------
(* After the last page: the tables found are verified against the text.    *)
PagesDone ==
  /\ at = "pages_done"
  /\ Goto(IF flow = [asked |-> "table", now |-> "structure"] THEN "verify" ELSE "finalize")

Verify ==
  /\ Past("verify")
  /\ flow' = [flow EXCEPT !.now = "text"] /\ at' = "start"
  /\ kept' = pages /\ pages' = <<>>
  /\ UNCHANGED <<input, page, result, cancel, truth>>

Finalize == Past("finalize") /\ Goto("combine")

(* _combine_pages, page by page: the lines of the page, and where they     *)
(* begin and end among those of all pages (line_cursor).                   *)
Cursor == IF result.pages = <<>> THEN 0 ELSE Last(result.pages).end

Summary(done) ==
  [number |-> done.number, start |-> Cursor, end |-> Cursor + Len(done.lines),
   original |-> done.original]

CombinePage ==
  /\ at = "combine" /\ ~Verifying /\ Len(result.pages) < Len(pages)
  /\ LET done == pages[Len(result.pages) + 1]
     IN result' = [result EXCEPT !.lines = @ \o done.lines,
                                 !.pages = Append(@, Summary(done)),
                                 !.attempted = @ + done.attempted,
                                 !.accepted = @ + done.accepted]
  /\ UNCHANGED <<flow, input, at, page, pages, kept, cancel, truth>>

(* The text of a verification is used and not kept.                        *)
Combine ==
  /\ at = "combine"
  /\ IF Verifying
     THEN /\ pages' = kept /\ at' = "finalize" /\ UNCHANGED result
          /\ flow' = [flow EXCEPT !.now = "structure"]
     ELSE /\ Len(result.pages) = Len(pages)
          /\ result' = [result EXCEPT !.status = "completed"]
          /\ at' = "over" /\ UNCHANGED <<flow, pages>>
  /\ UNCHANGED <<input, page, kept, cancel, truth>>

Next ==
  \/ Ask \/ Cancelled \/ Fail \/ Start \/ Inspect \/ NextPage \/ Render \/ Rendered
  \/ Recognize \/ Predicted \/ PageRetry \/ PageRetried \/ Regions \/ RegionRetry
  \/ RegionsRetried \/ PageDone \/ Completed \/ PagesDone \/ Verify \/ Finalize \/ CombinePage
  \/ Combine

Spec == Init /\ [][Next]_vars

-----------------------------------------------------------------------------
(* The evidence the teacher is shown.  A result that is returned has every *)
(* page of the document once, in order; the spans of the pages tile its    *)
(* lines; and what a page's first reading said is still there, as its      *)
(* lines or as the original of an accepted retry, whatever was retried.    *)
(* No more retries are counted as accepted than were attempted.            *)
Text(lines) == [i \in DOMAIN lines |-> lines[i].doubtful]
EvidenceWhole ==
  result.status = "completed" =>
    LET Page(k) == SubSeq(result.lines, result.pages[k].start + 1, result.pages[k].end)
    IN /\ Len(result.pages) = input.count
       /\ Len(result.lines) = Last(result.pages).end
       /\ \A k \in 1..input.count :
            LET reread == Page(k) # <<>> /\ Page(k)[1].by = "page_retry"
            IN /\ result.pages[k].number = k
               /\ result.pages[k].start = IF k = 1 THEN 0 ELSE result.pages[k - 1].end
               /\ Text(IF reread THEN result.pages[k].original ELSE Page(k)) = Text(truth[k])
       /\ result.accepted <= result.attempted

(* A cancellation that is asked for before the last checkpoint is never    *)
(* followed by a result, although the verification of tables catches every *)
(* exception and although progress is reported on a best-effort basis.     *)
CancelHeeded == cancel = "asked" => result.status # "completed"

-----------------------------------------------------------------------------
(* The inductive invariant.                                                *)

PageRead == [number : Nat, lines : Seq(Line), attempted : Nat, accepted : Nat,
             original : Seq(Line)]
Summaries == [number : Nat, start : Nat, end : Nat, original : Seq(Line)]

Typed ==
  /\ flow \in [asked : Flows, now : {"text", "structure"}] /\ input.count \in Nat \ {0}
  /\ page \in PageRead /\ pages \in Seq(PageRead) /\ kept \in Seq(PageRead)
  /\ truth \in Seq(Seq(Line))
  /\ result \in [status : {"none", "completed", "cancelled", "failed"}, lines : Seq(Line),
                 pages : Seq(Summaries), attempted : Nat, accepted : Nat]

(* The first reading is what a page has, or what it keeps.                 *)
Unread(done, lines) ==
  /\ done.original = <<>> /\ \A i \in DOMAIN done.lines : done.lines[i].by = "first"
  /\ Text(done.lines) = Text(lines)
Reread(done, lines) ==
  /\ done.lines # <<>> /\ \A i \in DOMAIN done.lines : done.lines[i].by = "page_retry"
  /\ Text(done.original) = Text(lines)
Holds(done, k) ==
  /\ done.number = k /\ done.accepted <= done.attempted
  /\ Unread(done, truth[k]) \/ Reread(done, truth[k])

(* The pages of the document so far, and the one at hand.                  *)
Own == IF Verifying THEN kept ELSE pages
AtHand == at \in {"page_retry", "retrying_page", "regions", "region_retry",
                  "retrying_regions", "append"}
PagesKept ==
  /\ at # "over" => Len(truth) = Len(Own) + IF AtHand /\ ~Verifying THEN 1 ELSE 0
  /\ \A k \in DOMAIN Own : Holds(Own[k], k)
  /\ AtHand /\ ~Verifying => Holds(page, Len(pages) + 1)
  /\ at \in {"page_retry", "retrying_page"} =>
       /\ page.accepted = 0 /\ (at = "retrying_page" => page.attempted = 1)
       /\ ~Verifying => Unread(page, truth[Len(pages) + 1])

(* How many pages there are at each step.                                  *)
Counted ==
  /\ Verifying => Len(kept) = input.count
  /\ at = "verify" => flow = [asked |-> "table", now |-> "structure"]
  /\ ~Verifying =>
       /\ at \in {"start", "inspect", "inspecting"} => pages = <<>>
       /\ at \in {"render", "rendering", "recognize", "predicting"} \/ AtHand =>
            Len(pages) < input.count
       /\ at \in {"page_done", "next"} => Len(pages) <= input.count
       /\ at \in {"pages_done", "verify", "finalize", "combine"} => Len(pages) = input.count

(* The pages that are combined, each beside the one before.                *)
Combined ==
  /\ Len(result.pages) <= Len(pages) /\ Len(result.lines) = Cursor
  /\ result.accepted <= result.attempted
  /\ \A k \in DOMAIN result.pages :
       LET summary == result.pages[k]
       IN /\ summary.number = k /\ summary.original = pages[k].original
          /\ summary.start = IF k = 1 THEN 0 ELSE result.pages[k - 1].end
          /\ summary.end = summary.start + Len(pages[k].lines)
          /\ summary.end <= Len(result.lines)
          /\ \A i \in DOMAIN pages[k].lines :
               result.lines[summary.start + i] = pages[k].lines[i]

Returned ==
  /\ at \notin {"combine", "over"} \/ Verifying => result = NoResult
  /\ at = "combine" /\ ~Verifying => result.status = "none" /\ cancel # "asked" /\ Combined
  /\ at = "over" => result.status # "none"
  /\ result.status = "completed" =>
       /\ at = "over" /\ cancel # "asked" /\ ~Verifying /\ Combined
       /\ Len(result.pages) = input.count /\ Len(pages) = input.count

IInv == Typed /\ PagesKept /\ Counted /\ Returned
=============================================================================
