---------------------------- MODULE ComputerScene -----------------------------
(***************************************************************************)
(* The programs and files of one computer: launches and the migration of   *)
(* old data, maintenance updates, the bootstrapper, and within a job the   *)
(* recognition of a document, its tables, its published output and its     *)
(* History, and what teachers make of it.  The modules share no state, so  *)
(* a behaviour is one of the module it began with (focus).                 *)
(***************************************************************************)
EXTENDS Launch

CONSTANTS
  Targets, MaxParts, MaxJobs,              \* see Maintenance
  MaxCommands,                             \* see DesktopSetup
  MaxPages, MaxLines, MaxRegions,          \* see Recognition
  MaxTableCells, MaxSpan, MaxRows, MaxBlank, MaxSource,  \* see TableExtraction
  Run,                                     \* see Artifacts
  Legacy, Job, New,                        \* see HistoryFiles
  Question, Field, MaxRequests,            \* see Analysis
  Paper, Correction, MaxEdits,             \* see TeachingRecords
  \* bounds of the model: failures of each of these
  UpdateFaults, SetupFaults, OutputFaults, HistoryFaults, AnalysisFaults, RecordFaults

VARIABLES focus,
  app, job, record, plan, staged, runtime, backup, script, before,
  step, commands, current, aside, store, thumbprint, tls, hosts, stuck,
  flow, input, at, page, pages, kept, result, cancel, truth,
  place, row, col, open, span, occupied, cells, parsed, normalized, source, status,
  run, complete, publish, bundles, named, previous, archive, manifest, outcome,
  mode, database, rows, dir, outputs, work, req, exported, interrupted, swept,
  json, markdown, docx, audit, summary, requests, created, failed,
  recorded, evidence, correction, bank, pack, export, approved, edits,
  faults

M == INSTANCE Maintenance WITH MaxFaults <- UpdateFaults
S == INSTANCE DesktopSetup
       WITH MaxFaults <- SetupFaults, at <- step, count <- commands,
            runtime <- current, backup <- aside, marker <- thumbprint
R == INSTANCE Recognition
T == INSTANCE TableExtraction WITH at <- place
A == INSTANCE Artifacts WITH MaxFaults <- OutputFaults, at <- run, staged <- bundles
H == INSTANCE HistoryFiles WITH MaxFaults <- HistoryFaults, archive <- exported
N == INSTANCE Analysis WITH MaxFailures <- AnalysisFaults, count <- requests
X == INSTANCE TeachingRecords WITH MaxFaults <- RecordFaults

ASSUME ComputerAssumption ==
  /\ LaunchAssumption /\ M!UpdateAssumption /\ R!ReadingAssumption /\ T!TableAssumption
  /\ A!ArtifactsAssumption /\ H!HistoryAssumption

maintenance == <<app, job, record, plan, staged, runtime, backup, script, before>>
setup == <<step, commands, current, aside, store, thumbprint, tls, hosts, stuck>>
recognition == <<flow, input, at, page, pages, kept, result, cancel, truth>>
tables == <<place, row, col, open, span, occupied, cells, parsed, normalized, source,
            status>>
artifacts == <<run, complete, publish, bundles, named, previous, archive, manifest,
               outcome>>
history == <<mode, database, rows, dir, outputs, work, req, exported, interrupted,
             swept>>
analysis == <<json, markdown, docx, audit, summary, requests, created, failed>>
records == <<recorded, evidence, correction, bank, pack, export, approved, edits>>
teaching == <<analysis, records>>
launch == <<host, server, busy, lock, gaveUp, legacy, target, copying, marker, own, deleted>>
others == <<maintenance, setup, recognition, tables, artifacts, history, teaching,
            faults>>
all == <<vars, focus, others>>

NoLaunch ==
  /\ host = [p \in Program |-> "idle"] /\ server = [p \in Program |-> "none"]
  /\ busy = {} /\ lock = Nobody /\ gaveUp = {} /\ legacy = [f \in Files |-> {}]
  /\ target = [f \in Files |-> Missing] /\ own = {}
  /\ copying = [p \in Program |-> NoCopy] /\ marker = NoMarker /\ deleted = {} /\ kills = 0

NoDocument ==
  /\ flow = [asked |-> "text", now |-> "text"] /\ input = [pdf |-> TRUE, count |-> 1]
  /\ at = "start" /\ page = R!NoPage /\ pages = <<>> /\ kept = <<>>
  /\ result = R!NoResult /\ cancel = "no" /\ truth = <<>>

SceneInit ==
  /\ focus \in {"launch", "maintenance", "setup", "recognition", "tables", "artifacts",
               "history", "analysis", "records"}
  /\ IF focus = "launch" THEN Init ELSE NoLaunch
  /\ IF focus = "recognition" THEN R!Init ELSE NoDocument
  /\ M!Init /\ (focus = "maintenance" \/ \A t \in Targets : runtime[t] = <<>>)
  /\ S!Init /\ T!Init /\ A!Init
  /\ H!Init /\ (focus = "history" \/ outputs = {})
  /\ N!Init /\ X!Init

LaunchStep == focus = "launch" /\ Next /\ UNCHANGED <<focus, others>>
MaintenanceStep ==
  /\ focus = "maintenance" /\ M!Next
  /\ UNCHANGED <<vars, focus, setup, recognition, tables, artifacts,
                 history, analysis, records>>
SetupStep ==
  /\ focus = "setup" /\ S!Next
  /\ UNCHANGED <<vars, focus, maintenance, recognition, tables, artifacts,
                 history, analysis, records>>
RecognitionStep ==
  /\ focus = "recognition" /\ R!Next
  /\ UNCHANGED <<vars, focus, maintenance, setup, tables, artifacts,
                 history, analysis, records, faults>>
TableStep ==
  /\ focus = "tables" /\ T!Next
  /\ UNCHANGED <<vars, focus, maintenance, setup, recognition, artifacts,
                 history, analysis, records, faults>>
ArtifactStep ==
  /\ focus = "artifacts" /\ A!Next
  /\ UNCHANGED <<launch, focus, maintenance, setup, recognition, tables,
                 history, analysis, records>>
HistoryStep ==
  /\ focus = "history" /\ H!Next
  /\ UNCHANGED <<launch, focus, maintenance, setup, recognition, tables,
                 artifacts, analysis, records>>
AnalysisStep ==
  /\ focus = "analysis" /\ N!Next
  /\ UNCHANGED <<vars, focus, maintenance, setup, recognition, tables,
                 artifacts, history, records, faults>>
RecordsStep ==
  /\ focus = "records" /\ X!Next
  /\ UNCHANGED <<vars, focus, maintenance, setup, recognition, tables,
                 artifacts, history, analysis>>

Scene ==
  SceneInit /\ [][\/ LaunchStep \/ MaintenanceStep \/ SetupStep
                  \/ RecognitionStep \/ TableStep \/ ArtifactStep \/ HistoryStep
                  \/ AnalysisStep \/ RecordsStep]_all

-----------------------------------------------------------------------------
(* An update leaves every runtime usable or recoverable, and its record    *)
(* says what has happened (Maintenance).                                   *)
UpdatesSound == M!RuntimeKept /\ M!RecordTrue

(* Setup leaves nothing that a later command cannot undo (DesktopSetup).   *)
SetupRecoverable == S!SetupRecoverable

(* What was read of a page is in the result once, and a cancellation seen  *)
(* in time ends the workflow (Recognition); a table is a grid of what the  *)
(* page has (TableExtraction).                                             *)
ReadingSound ==
  R!EvidenceWhole /\ R!CancelHeeded /\ T!GridRight /\ T!NothingInvented

(* A job is told of the artifacts there are, and a complete output is      *)
(* replaced by complete output only (Artifacts).                           *)
OutputSound == [][A!ToldTrue']_all /\ A!CompleteKept

(* What a row of History names is there (HistoryFiles).                    *)
HistorySound == H!HistorySound

(* The sidecar, its renderings and the row of a paper agree, and what a    *)
(* teacher decided is taken away by a later decision only (Analysis); the  *)
(* bank, corrections and packs go by what is approved and in History       *)
(* (TeachingRecords).                                                      *)
TeachingSound ==
  [][teaching' # teaching => N!AnalysisSound' /\ X!RecordsSound']_teaching
    /\ N!OverridesKept
=============================================================================
