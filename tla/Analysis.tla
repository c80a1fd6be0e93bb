------------------------------- MODULE Analysis -------------------------------
(***************************************************************************)
(* The analysis of one completed paper (education/service.py): a sidecar   *)
(* with the questions, the teacher's overrides and the model's suggestions,*)
(* its two renderings, an audit log and a summary in the History row.      *)
(*                                                                         *)
(* A request writes these one after another and awaits nothing, so no      *)
(* other request comes between; but a write may fail (Word holds the       *)
(* document open) or the process end, and what was written stays.          *)
(*                                                                         *)
(* Not modelled: a sidecar of another OCR result, since the result of a    *)
(* completed job is never written again; the wording of the renderings,    *)
(* of which only the analysis they were made from is kept.                 *)
(***************************************************************************)
EXTENDS Naturals, FiniteSets, Sequences

CONSTANTS Question, Field,
          MaxRequests,  \* bound of the model: requests that write
          MaxFailures   \* bound of the model: requests that fail half-way

VARIABLES
  json, markdown, docx,  \* the analysis in each file, None, or Torn
  audit,    \* requests in the audit log
  summary,  \* analysis_status of the History row: the model has been used
  count,    \* requests so far
  created,  \* the last request that made an analysis
  failed    \* requests that failed half-way

vars == <<json, markdown, docx, audit, summary, count, created, failed>>

None == [model |-> "none"]
Torn == [model |-> "torn"]

(* Overrides and suggestions are known by the request they came with.      *)
Untouched == [q \in Question |-> [f \in Field |-> 0]]
NoModel == [q \in Question |-> 0]

(* What the totals are counted over: an override wins over a suggestion.   *)
Counted(override, ai) ==
  [q \in Question |-> [f \in Field |-> IF override[q][f] # 0
                         THEN <<"teacher", override[q][f]>> ELSE <<"model", ai[q]>>]]

Base == [override |-> Untouched, ai |-> NoModel, model |-> 0, practice |-> <<"none", 0>>,
         totals |-> Counted(Untouched, NoModel)]

Init ==
  /\ json = None /\ markdown = None /\ docx = None
  /\ audit = {} /\ summary = FALSE
  /\ count = 0 /\ created = 0 /\ failed = {}

Request == count + 1

(* The writes of a request, in their order; one that fails or is cut off   *)
(* ends it, and the Word document is written in place.                     *)
Save(analysis, writes) ==
  \E n \in 0 .. Len(writes) :
    LET wrote(what) == \E k \in 1 .. n : writes[k] = what
    IN /\ count < MaxRequests /\ count' = Request
       /\ failed' = IF n < Len(writes) THEN failed \cup {Request} ELSE failed
       /\ Cardinality(failed') <= MaxFailures
       /\ json' = IF wrote("json") THEN analysis ELSE json
       /\ markdown' = IF wrote("markdown") THEN analysis ELSE markdown
       /\ docx' \in IF wrote("docx") THEN {analysis}
                    ELSE IF wrote("markdown") THEN {docx, Torn} ELSE {docx}
       /\ audit' = IF wrote("audit") THEN audit \cup {Request} ELSE audit
       /\ summary' = IF wrote("summary") THEN analysis.model # 0 ELSE summary

Outputs == <<"json", "markdown", "docx", "audit">>

(* mutant: an analysis made again starts from nothing                      *)
CarriedNot(analysis) == analysis

(* The overrides of an earlier analysis are taken over, its practice items *)
(* and suggestions are not; the totals are those of the base.              *)
Carried(analysis) ==
  IF json = None THEN analysis ELSE [analysis EXCEPT !.override = json.override]

(* The model's answer names known questions, each once and with its own    *)
(* lines, or the request fails before it has written anything; what it     *)
(* leaves out stays without a suggestion.                                  *)
Enriched(analysis, named, practice) ==
  LET ai == [q \in Question |-> IF q \in named THEN Request ELSE 0]
  IN [override |-> analysis.override, ai |-> ai, model |-> Request,
      practice |-> IF practice THEN <<"model", Request>> ELSE <<"none", 0>>,
      totals |-> Counted(analysis.override, ai)]

CreateAnalysis ==
  /\ \/ Save(Carried(Base), Append(Outputs, "summary"))
     \/ \E named \in SUBSET Question, practice \in BOOLEAN :
          Save(Enriched(Carried(Base), named, practice), Append(Outputs, "summary"))
  /\ created' = Request

(* A practice list that is not empty is returned as it is.                 *)
GeneratePractice ==
  /\ json # None /\ json.practice = <<"none", 0>>
  /\ Save([json EXCEPT !.practice = <<"local", Request>>], Outputs)
  /\ UNCHANGED created

UpdateQuestion(q, fields) ==
  /\ json # None
  /\ LET override == [json.override EXCEPT ![q] =
                        [f \in Field |-> IF f \in fields THEN Request ELSE @[f]]]
     IN Save([override |-> override, ai |-> json.ai, model |-> json.model,
              practice |-> json.practice, totals |-> Counted(override, json.ai)], Outputs)
  /\ UNCHANGED created

Next ==
  \/ CreateAnalysis \/ GeneratePractice
  \/ \E q \in Question, fields \in SUBSET Field \ {{}} : UpdateQuestion(q, fields)

Spec == Init /\ [][Next]_vars

-----------------------------------------------------------------------------
Overrides(analysis) == IF analysis = None THEN Untouched ELSE analysis.override

(* What a teacher has decided of a question is replaced only by a later    *)
(* decision on the same field: neither a new analysis, nor the model, nor  *)
(* a request that failed half-way takes it away.                           *)
OverridesKept ==
  [][json' # json =>
       \A q \in Question, f \in Field :
         Overrides(json')[q][f] \in {Overrides(json)[q][f], count'}]_vars

(* After a request that did not fail the renderings are of the analysis    *)
(* that is stored, whatever failed before; the row says of the model what  *)
(* the last analysis that was made says; and a decision without an entry   *)
(* in the log came with a request that failed.                             *)
SidecarAgrees ==
  /\ count \notin failed => markdown = json /\ docx = json
  /\ created \notin failed /\ json # None => summary = (json.model # 0)
  /\ \A q \in Question, f \in Field : Overrides(json)[q][f] \in audit \cup failed \cup {0}

(* The totals are those of what the teacher sees, or those of an analysis  *)
(* made again without the model, which are counted before the overrides    *)
(* are taken over and stay wrong until the next decision; and suggestions  *)
(* and practice items of the model are of one run of it.                   *)
TotalsKnown ==
  json # None =>
    /\ json.totals \in {Counted(json.override, json.ai), Base.totals}
    /\ json.totals # Counted(json.override, json.ai) => json.model = 0
    /\ \A q \in Question : json.ai[q] \in {0, json.model}
    /\ json.practice[1] = "model" => json.practice[2] = json.model

AnalysisSound == SidecarAgrees /\ TotalsKnown

Analyses ==
  [override : [Question -> [Field -> Nat]], ai : [Question -> Nat], model : Nat,
   practice : {"none", "local", "model"} \X Nat,
   totals : [Question -> [Field -> {"teacher", "model"} \X Nat]]]

TypeOK ==
  /\ json \in Analyses \cup {None} /\ count \in Nat
  /\ audit \subseteq Nat /\ failed \subseteq Nat

IInv == TypeOK /\ AnalysisSound
=============================================================================
