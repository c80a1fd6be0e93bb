------------------------------ MODULE JobQueue ------------------------------
(***************************************************************************)
(* The in-process OCR job queue of OCR Studio (app/core/queue.py), the     *)
(* History rows it writes (app/storage/history.py) and the service start   *)
(* and stop around it (app/main.py, lifespan).                             *)
(*                                                                         *)
(* Three threads of control meet here: the event loop (Submit, Cancel,     *)
(* Poll, the shutdown sequence), the one pool thread (pc, job) and the     *)
(* operating system (Crash).  Every `with self._lock` block is one action. *)
(*                                                                         *)
(* Job identifiers are random in the code; here they are the submission    *)
(* numbers, so the insertion order of the OrderedDict and the FIFO order   *)
(* of the executor are both the order of the numbers.                      *)
(***************************************************************************)
EXTENDS Naturals, FiniteSets

CONSTANTS MaxJobs,     \* bound of the model: submissions in a behaviour
          MaxQueued,   \* settings.max_queued_jobs
          MaxHistory   \* settings.max_job_history

ASSUME BoundsAssumption == /\ MaxJobs \in Nat \ {0}
                           /\ MaxQueued \in Nat
                           /\ MaxHistory \in Nat

Job == 1 .. MaxJobs
NoJob == 0
Active == {"pending", "processing"}
Terminal == {"completed", "failed", "cancelled"}
Status == {"none"} \cup Active \cup Terminal

VARIABLES
  mode,       \* "up", "stopping" (lifespan exit began), "closed", "down"
  last,       \* number of jobs submitted so far
  status,     \* entry.result.status, "none" without an entry in this process
  table,      \* the keys of JobQueue._jobs
  upload,     \* jobs submitted with delete_input=True
  evt,        \* jobs whose cancel_event is set
  raised,     \* jobs whose report_progress raised ProcessingCancelled
  fut,        \* the asyncio future run_in_executor returned
  pool,       \* work items the executor has not started
  job, pc,    \* the entry the pool thread runs and its place in _execute
  input,      \* input files on disk
  row,        \* history_jobs.status, "none" without a row
  saved,      \* entry.result.history_saved
  resultFile, \* jobs/<id>/result.json on disk
  rowResult   \* rows whose result_path is set

loopVars == <<mode, last, upload>>
memory == <<status, table, evt, raised, fut, pool, job, pc, saved>>
history == <<row, resultFile, rowResult>>
vars == <<loopVars, memory, input, history>>

Steps == {"idle", "check", "start", "run", "artifacts", "save", "unlink",
          "complete", "fail", "cancel", "persist", "finally"}

TypeOK ==
  /\ mode \in {"up", "stopping", "closed", "down"}
  /\ last \in 0 .. MaxJobs
  /\ status \in [Job -> Status]
  /\ table \subseteq Job /\ upload \subseteq Job
  /\ evt \subseteq Job /\ raised \subseteq Job
  /\ fut \in [Job -> {"none", "waiting", "cancelled", "done"}]
  /\ pool \subseteq Job
  /\ job \in Job \cup {NoJob} /\ pc \in Steps
  /\ input \subseteq Job
  /\ row \in [Job -> Status]
  /\ saved \subseteq Job /\ resultFile \subseteq Job /\ rowResult \subseteq Job

Init ==
  /\ mode = "up" /\ last = 0 /\ upload = {}
  /\ status = [j \in Job |-> "none"] /\ table = {}
  /\ evt = {} /\ raised = {}
  /\ fut = [j \in Job |-> "none"] /\ pool = {}
  /\ job = NoJob /\ pc = "idle"
  /\ input = {} /\ saved = {}
  /\ row = [j \in Job |-> "none"] /\ resultFile = {} /\ rowResult = {}

-----------------------------------------------------------------------------
(* _prune: expired terminal entries go first, then the oldest terminal     *)
(* ones until the table fits.  Time is abstracted: any set of terminal     *)
(* entries may be older than job_ttl_seconds.                              *)

TerminalIn(T) == {j \in T : status[j] \in Terminal}
ActiveIn(T) == {j \in T : status[j] \in Active}

Trim(T) ==
  {j \in T : \/ j \notin TerminalIn(T)
             \/ Cardinality({k \in TerminalIn(T) : k < j}) + MaxHistory
                  >= Cardinality(T)}

Pruned(T) == {Trim(T \ old) : old \in SUBSET TerminalIn(T)}

(* _persist_history of a job that has not completed: the upsert overwrites *)
(* the status whatever it was and keeps an earlier result_path; a failure  *)
(* is swallowed and remembered in history_saved only.                      *)
Persist(j, st) ==
  /\ \/ row' = [row EXCEPT ![j] = st] /\ saved' = saved \cup {j}
     \/ saved' = saved \ {j} /\ UNCHANGED row
  /\ UNCHANGED rowResult

(* mutant: the clean-up takes every upload instead of its own              *)
WithoutAnyUpload(j) == input \ upload
(* unlink(missing_ok=True) under `if entry.delete_input`                   *)
WithoutUpload(j) == input \ ({j} \cap upload)

FinishCancelled(j) ==
  IF status[j] \in Terminal
  THEN UNCHANGED <<status, input, row, rowResult, saved>>
  ELSE /\ status' = [status EXCEPT ![j] = "cancelled"]
       /\ Persist(j, "cancelled")
       /\ input' = WithoutUpload(j)

-----------------------------------------------------------------------------
(* The event loop.                                                         *)

(* mutant: the capacity test admits one job too many                       *)
SubmitOneMore(deleteInput) ==
  /\ mode = "up" /\ last < MaxJobs
  /\ Cardinality(ActiveIn(table)) <= 1 + MaxQueued
  /\ table' = table \cup {last + 1}
  /\ last' = last + 1
  /\ status' = [status EXCEPT ![last + 1] = "pending"]
  /\ upload' = IF deleteInput THEN upload \cup {last + 1} ELSE upload
  /\ input' = input \cup {last + 1}
  /\ fut' = [fut EXCEPT ![last + 1] = "waiting"]
  /\ pool' = pool \cup {last + 1}
  /\ Persist(last + 1, "pending")
  /\ UNCHANGED <<mode, evt, raised, job, pc, resultFile>>

(* submit: nothing awaits between the locked block and run_in_executor, so *)
(* no other coroutine sees an entry without a future.                      *)
Submit(deleteInput) ==
  /\ mode = "up" /\ last < MaxJobs
  /\ \E kept \in Pruned(table) :
       /\ Cardinality(ActiveIn(kept)) < 1 + MaxQueued
       /\ table' = kept \cup {last + 1}
  /\ last' = last + 1
  /\ status' = [status EXCEPT ![last + 1] = "pending"]
  /\ upload' = IF deleteInput THEN upload \cup {last + 1} ELSE upload
  /\ input' = input \cup {last + 1}
  /\ fut' = [fut EXCEPT ![last + 1] = "waiting"]
  /\ pool' = pool \cup {last + 1}
  /\ Persist(last + 1, "pending")
  /\ UNCHANGED <<mode, evt, raised, job, pc, resultFile>>

(* get_result, list_jobs, a submit refused with QueueFullError and a       *)
(* cancel of a finished job change nothing but the table they prune.       *)
Poll ==
  /\ mode \in {"up", "stopping"}
  /\ table' \in Pruned(table)
  /\ UNCHANGED <<loopVars, status, evt, raised, fut, pool, job, pc, saved,
                 input, history>>

(* cancel: a pending job is finished here when its future can still be     *)
(* cancelled, and the asyncio future always can while _execute runs; every *)
(* other active job is left to its next checkpoint.                        *)
Cancel(j) ==
  /\ mode = "up"
  /\ \E kept \in Pruned(table) : j \in kept /\ table' = kept
  /\ status[j] \in Active
  /\ evt' = evt \cup {j}
  /\ IF status[j] = "pending" /\ fut[j] = "waiting"
     THEN /\ fut' = [fut EXCEPT ![j] = "cancelled"]
          /\ FinishCancelled(j)
     ELSE UNCHANGED <<fut, status, input, row, rowResult, saved>>
  /\ UNCHANGED <<loopVars, raised, pool, job, pc, resultFile>>

(* The callback asyncio chains to a cancelled future cancels the work item *)
(* too, unless the pool thread has taken it already.                       *)
DropCancelled(j) ==
  /\ j \in pool /\ fut[j] = "cancelled"
  /\ pool' = pool \ {j}
  /\ UNCHANGED <<loopVars, status, table, evt, raised, fut, job, pc, saved,
                 input, history>>

(* lifespan exit: first the batch coordinator is stopped, which may cancel *)
(* the future it awaits (only batch jobs keep their input) ...             *)
BeginStop ==
  /\ mode = "up"
  /\ mode' = "stopping"
  /\ UNCHANGED <<last, upload, memory, input, history>>

CancelWaiter(j) ==
  /\ mode = "stopping" /\ j \notin upload /\ fut[j] = "waiting"
  /\ fut' = [fut EXCEPT ![j] = "cancelled"]
  /\ UNCHANGED <<loopVars, status, table, evt, raised, pool, job, pc, saved,
                 input, history>>

(* ... then JobQueue.shutdown marks every active entry under one lock,     *)
Shutdown ==
  /\ mode = "stopping"
  /\ LET doomed == {j \in ActiveIn(table) :
                      status[j] = "pending" /\ fut[j] = "waiting"}
     IN \E unsaved \in SUBSET doomed :
          /\ fut' = [j \in Job |-> IF j \in doomed THEN "cancelled" ELSE fut[j]]
          /\ status' = [j \in Job |-> IF j \in doomed THEN "cancelled" ELSE status[j]]
          /\ row' = [j \in Job |-> IF j \in doomed \ unsaved THEN "cancelled" ELSE row[j]]
          /\ saved' = (saved \cup doomed) \ unsaved
          /\ input' = input \ (doomed \cap upload)
  /\ evt' = evt \cup ActiveIn(table)
  /\ mode' = "closed"
  /\ UNCHANGED <<last, upload, table, raised, pool, job, pc, resultFile, rowResult>>

(* and pool.shutdown(wait=True, cancel_futures=True) drops the work items  *)
(* and waits for the pool thread.                                          *)
Drain ==
  /\ mode = "closed" /\ pool # {}
  /\ pool' = {}
  /\ UNCHANGED <<loopVars, status, table, evt, raised, fut, job, pc, saved,
                 input, history>>

ProcessEnds ==
  /\ mode' = "down"
  /\ status' = [j \in Job |-> "none"] /\ table' = {}
  /\ evt' = {} /\ raised' = {}
  /\ fut' = [j \in Job |-> "none"] /\ pool' = {}
  /\ job' = NoJob /\ pc' = "idle" /\ saved' = {}
  /\ UNCHANGED <<last, upload, input, history>>

Exit == mode = "closed" /\ pool = {} /\ pc = "idle" /\ ProcessEnds

Crash == mode # "down" /\ ProcessEnds

(* mutant: recovery writes a status the rest of the program does not know  *)
RestartUnknown ==
  /\ mode = "down"
  /\ mode' = "up"
  /\ input' = input \ upload
  /\ row' = [j \in Job |-> IF row[j] \in Active THEN "interrupted" ELSE row[j]]
  /\ UNCHANGED <<last, upload, memory, resultFile, rowResult>>

(* mutant: recovery without the WHERE on active rows                       *)
RestartAll ==
  /\ mode = "down"
  /\ mode' = "up"
  /\ input' = input \ upload
  /\ row' = [j \in Job |-> IF row[j] # "none" THEN "failed" ELSE row[j]]
  /\ UNCHANGED <<last, upload, memory, resultFile, rowResult>>

(* lifespan entry: stale uploads are removed, active rows become failed    *)
Restart ==
  /\ mode = "down"
  /\ mode' = "up"
  /\ input' = input \ upload
  /\ row' = [j \in Job |-> IF row[j] \in Active THEN "failed" ELSE row[j]]
  /\ UNCHANGED <<last, upload, memory, resultFile, rowResult>>

-----------------------------------------------------------------------------
(* The pool thread: _execute.                                              *)

Goto(label) == pc' = label /\ UNCHANGED job

Leave ==
  /\ pc' = "idle" /\ job' = NoJob
  /\ fut' = [fut EXCEPT ![job] = IF @ = "waiting" THEN "done" ELSE @]

(* mutant: an executor with a second thread                                *)
TakeAnother(j) ==
  /\ mode # "down" /\ j \in pool
  /\ pool' = pool \ {j} /\ job' = j /\ pc' = "check"
  /\ UNCHANGED <<loopVars, status, table, evt, raised, fut, saved, input, history>>

Take(j) ==
  /\ mode # "down" /\ pc = "idle"
  /\ j \in pool /\ \A k \in pool : j <= k
  /\ pool' = pool \ {j} /\ job' = j /\ pc' = "check"
  /\ UNCHANGED <<loopVars, status, table, evt, raised, fut, saved, input, history>>

(* the first cancel_event test, taken without the lock                     *)
Check ==
  /\ pc = "check"
  /\ \/ /\ job \in evt
        /\ FinishCancelled(job)
        /\ Leave
     \/ /\ job \notin evt
        /\ Goto("start")
        /\ UNCHANGED <<status, fut, input, row, rowResult, saved>>
  /\ UNCHANGED <<loopVars, table, evt, raised, pool, resultFile>>

Start ==
  /\ pc = "start"
  /\ status' = [status EXCEPT ![job] = "processing"]
  /\ Persist(job, "processing")
  /\ Goto("run")
  /\ UNCHANGED <<loopVars, table, evt, raised, fut, pool, input, resultFile>>

(* mutant: a checkpoint that raises without a request                      *)
RunDoubts ==
  /\ pc = "run"
  /\ \E next \in {"artifacts", "fail", "cancel"} : Goto(next)
  /\ UNCHANGED <<loopVars, status, table, evt, raised, fut, pool, saved, input, history>>

(* workflow_fn: each progress report is a checkpoint; a report that finds  *)
(* the event set raises, and the exception leaves the workflow.  The last  *)
(* report ("finalizing") found it clear when the workflow returns.         *)
Run ==
  /\ pc = "run"
  /\ \/ /\ job \in evt
        /\ raised' = raised \cup {job}
        /\ Goto("cancel")
     \/ /\ job \notin evt /\ job \in input
        /\ Goto("artifacts")
        /\ UNCHANGED raised
     \/ /\ Goto("fail")
        /\ UNCHANGED raised
  /\ UNCHANGED <<loopVars, status, table, evt, fut, pool, saved, input, history>>

(* build_and_publish_artifacts: its own `except Exception` turns whatever  *)
(* a checkpoint raises into a result without artifacts, and the job goes   *)
(* on.  After the last checkpoint a cancellation is no longer seen.        *)
Artifacts ==
  /\ pc = "artifacts"
  /\ \/ job \in evt /\ raised' = raised \cup {job}
     \/ UNCHANGED raised
  /\ Goto("save")
  /\ UNCHANGED <<loopVars, status, table, evt, fut, pool, saved, input, history>>

SaveResult ==
  /\ pc = "save"
  /\ resultFile' \in {resultFile, resultFile \cup {job}}
  /\ Goto("unlink")
  /\ UNCHANGED <<loopVars, status, table, evt, raised, fut, pool, saved, input,
                 row, rowResult>>

(* the unlink is inside the try: an OSError makes the job fail             *)
Unlink ==
  /\ pc = "unlink"
  /\ \/ input' = WithoutUpload(job) /\ Goto("complete")
     \/ job \in upload /\ Goto("fail") /\ UNCHANGED input
  /\ UNCHANGED <<loopVars, status, table, evt, raised, fut, pool, saved, history>>

(* mutant: a branch sets the status and forgets to persist it              *)
SetStatusOnly(label, st) ==
  /\ pc = label
  /\ status' = [status EXCEPT ![job] = st]
  /\ Goto("finally")
  /\ UNCHANGED <<loopVars, table, evt, raised, fut, pool, saved, input, history>>

SetStatus(label, st) ==
  /\ pc = label
  /\ status' = [status EXCEPT ![job] = st]
  /\ Goto("persist")
  /\ UNCHANGED <<loopVars, table, evt, raised, fut, pool, saved, input, history>>

Complete == SetStatus("complete", "completed")
(* mutant: the error branch forgets the status                             *)
FailSilently == SetStatus("fail", "processing")
Fail == SetStatus("fail", "failed")

(* mutant: result_path is written whether or not save_result succeeded     *)
PersistUnsaved ==
  /\ pc = "persist"
  /\ row' = [row EXCEPT ![job] = status[job]]
  /\ rowResult' = IF status[job] = "completed" THEN rowResult \cup {job} ELSE rowResult
  /\ saved' = saved \cup {job}
  /\ Goto("finally")
  /\ UNCHANGED <<loopVars, status, table, evt, raised, fut, pool, input, resultFile>>

(* the last locked block of each branch; a result that could not be saved  *)
(* leaves history_saved false although the row was written                 *)
PersistFinal ==
  /\ pc = "persist"
  /\ LET done == status[job] = "completed"
     IN \/ /\ row' = [row EXCEPT ![job] = status[job]]
           /\ rowResult' = IF done /\ job \in resultFile
                           THEN rowResult \cup {job} ELSE rowResult
           /\ saved' = IF done /\ job \notin resultFile
                       THEN saved \ {job} ELSE saved \cup {job}
        \/ /\ saved' = saved \ {job}
           /\ UNCHANGED <<row, rowResult>>
  /\ Goto("finally")
  /\ UNCHANGED <<loopVars, status, table, evt, raised, fut, pool, input, resultFile>>

CancelAtCheckpoint ==
  /\ pc = "cancel"
  /\ FinishCancelled(job)
  /\ Goto("finally")
  /\ UNCHANGED <<loopVars, table, evt, raised, fut, pool, resultFile>>

(* mutant: no unlink in the finally block                                  *)
FinallyKeeps ==
  /\ pc = "finally"
  /\ table' \in Pruned(table)
  /\ Leave
  /\ UNCHANGED <<loopVars, status, evt, raised, pool, saved, input, history>>

Finally ==
  /\ pc = "finally"
  /\ input' = WithoutUpload(job)
  /\ table' \in Pruned(table)
  /\ Leave
  /\ UNCHANGED <<loopVars, status, evt, raised, pool, saved, history>>

-----------------------------------------------------------------------------
Worker ==
  \/ \E j \in Job : Take(j)
  \/ Check \/ Start \/ Run \/ Artifacts \/ SaveResult \/ Unlink
  \/ Complete \/ Fail \/ PersistFinal \/ CancelAtCheckpoint \/ Finally

Loop ==
  \/ \E d \in BOOLEAN : Submit(d)
  \/ Poll
  \/ \E j \in Job : Cancel(j) \/ DropCancelled(j) \/ CancelWaiter(j)
  \/ BeginStop \/ Shutdown \/ Drain \/ Exit

Next == Worker \/ Loop \/ Crash \/ Restart

Spec == Init /\ [][Next]_vars

(* The pool thread is scheduled and every native call returns; a shutdown  *)
(* that has begun is carried out.  Requests, crashes and restarts are not  *)
(* promised.                                                               *)
FairSpec == Spec /\ WF_vars(Worker) /\ WF_vars(Shutdown)
                 /\ WF_vars(Drain) /\ WF_vars(Exit)

-----------------------------------------------------------------------------
(* Properties.                                                             *)

(* The GPU runs one job: a job that says "processing" is the one the pool  *)
(* thread holds, also when jobs are cancelled around it.                   *)
OneJobProcessing ==
  \A j \in Job : status[j] = "processing" =>
    job = j /\ pc \in {"run", "artifacts", "save", "unlink", "complete",
                       "fail", "cancel"}

(* submit admits at most one running and max_queued_jobs waiting jobs, and *)
(* _prune takes none of them to make room; a job whose cancellation was    *)
(* requested may become active again and is not counted.                   *)
CapacityRespected ==
  /\ Cardinality({j \in Job \ evt : status[j] \in Active}) <= 1 + MaxQueued
  /\ \A j \in Job \ evt : status[j] \in Active => j \in table

(* The input file is there for as long as a job that was not cancelled may *)
(* read it, whatever else deletes files meanwhile.                         *)
InputAvailable ==
  job # NoJob /\ pc \in {"check", "start", "run", "artifacts", "save"}
    /\ job \notin evt => job \in input

(* README: "Original single-file uploads are deleted after terminal OCR    *)
(* processing."  Once the pool thread has let go of a finished job its     *)
(* upload is gone, on every path to the end.                               *)
UploadDeleted ==
  \A j \in upload : status[j] \in Terminal /\ job # j => j \notin input

(* The History row follows the job: unless the last write failed, it shows *)
(* the status of the job the pool thread does not hold, and a running      *)
(* service shows no active row of a job it does not know.                  *)
HistoryAgrees ==
  \A j \in Job :
    /\ j \in saved /\ job # j => row[j] = status[j]
    /\ mode # "down" /\ row[j] \in Active => status[j] # "none"

(* save_result runs before the row is completed: a row that points at a    *)
(* result is completed and the file is on disk, at every crash point.      *)
ResultBeforeRow ==
  \A j \in rowResult : row[j] = "completed" /\ j \in resultFile

(* What History has reported as completed or failed is never rewritten, by *)
(* the worker, a cancellation, a shutdown or the recovery at start.        *)
SettledRowsKept ==
  [][\A j \in Job : row[j] \in {"completed", "failed"} => row'[j] = row[j]]_vars

(* The inductive invariant: what each place of the pool thread says of the *)
(* job it holds, and what a settled row says of the rest of the state.     *)
PlaceAgrees ==
  /\ pc = "idle" <=> job = NoJob
  /\ pc \in {"check", "start"} => status[job] \in {"pending", "cancelled"}
  /\ pc \in {"run", "artifacts", "save", "unlink", "complete", "fail", "cancel"}
       => status[job] = "processing"
  /\ pc = "persist" => status[job] \in {"completed", "failed"}
  /\ pc = "finally" => status[job] \in Terminal
  /\ \A j \in Job : status[j] = "processing" => job = j
  /\ \A j \in pool : status[j] \in {"pending", "cancelled"} /\ job # j
  /\ mode = "down" => /\ \A j \in Job : status[j] = "none"
                     /\ saved = {}
  /\ \A j \in Job : j > last => status[j] = "none" /\ row[j] = "none"

RowSettled ==
  \A j \in Job : row[j] \in {"completed", "failed"} =>
    /\ status[j] \in {"none", row[j]}
    /\ job = j => pc = "finally"

FilesAgree ==
  /\ \A j \in Job : j \notin evt /\ status[j] = "pending" => j \in input
  /\ \A j \in pool : j \notin evt => j \in input
  /\ InputAvailable
  /\ \A j \in upload : status[j] \in Terminal => 
       j \notin input \/ (job = j /\ pc \notin {"idle", "check", "start"})
  /\ pc = "cancel" => job \in evt

RowFollows ==
  \A j \in saved : row[j] = status[j] \/ (job = j /\ pc = "persist")

IInv == /\ TypeOK /\ PlaceAgrees /\ RowSettled /\ FilesAgree
        /\ RowFollows /\ HistoryAgrees /\ ResultBeforeRow

(* The worker may still start a job it has not passed the cancel test of.  *)
Takeable(j) == j \in pool \/ (job = j /\ pc \in {"check", "start"})

(* What the contract and the capacity rest on besides IInv: a job somebody *)
(* waits for and nobody has cancelled is still to be taken and never       *)
(* pruned, and a job is cancelled only after a request.                    *)
FutureAgrees ==
  \A j \in Job :
    /\ status[j] = "pending" => j \in table
    /\ status[j] = "pending" /\ fut[j] = "waiting" =>
         Takeable(j) /\ j \notin evt /\ mode # "closed"
    /\ status[j] = "cancelled" => j \in evt
    /\ status[j] = "cancelled" /\ Takeable(j) => fut[j] # "waiting"
    /\ status[j] = "processing" /\ j \notin evt => j \in table
    /\ j \in evt => j <= last
    /\ status[j] # "none" => fut[j] # "none"

(* The queue keeps the contract its callers rely on: a job that completed  *)
(* or failed stays so, a job is cancelled only on request, and a waiter is *)
(* released only after the end of its job or by a cancellation.            *)
Contract == INSTANCE JobContract WITH
  state <- [j \in Job |-> IF status[j] \in Active THEN "active"
                         ELSE IF status[j] = "cancelled" /\ Takeable(j) THEN "withdrawn"
                         ELSE status[j]],
  asked <- evt,
  done  <- {j \in Job : fut[j] \in {"cancelled", "done"}}

KeepsContract == Contract!ContractSpec

(* Every accepted job ends unless the service stops first.                 *)
EveryJobEnds ==
  \A j \in Job : []<>(status[j] \notin Active \/ mode # "up")

(* shutdown ends: pool.shutdown(wait=True) is not left waiting for a       *)
(* thread that waits for the loop.                                         *)
ShutdownCompletes == []<>(mode # "stopping")

(* queue.py:397, "Request idempotent cancellation": once cancel has        *)
(* reported a job cancelled, the job stays cancelled.                      *)
CancelledStaysCancelled ==
  [][\A j \in Job : status[j] = "cancelled" /\ mode' # "down"
                      => status'[j] = "cancelled"]_vars

(* progress.py:14, ProcessingCancelled is "Raised at a safe workflow       *)
(* checkpoint after a user cancellation request": a job stopped at a       *)
(* checkpoint is not completed.                                            *)
CheckpointHonoured ==
  \A j \in raised : status[j] # "completed"
=============================================================================
