--------------------------- MODULE JobQueueProofs ---------------------------
(***************************************************************************)
(* What the job queue keeps for every number of jobs and every limit.      *)
(*                                                                         *)
(* The argument is one inductive invariant, IInv of JobQueue.tla.  None of *)
(* the checked invariants is inductive alone: that an input is there while *)
(* its job runs needs the place of the pool thread (PlaceAgrees) and that  *)
(* every job still to be taken has its input (FilesAgree); that a settled  *)
(* row is never rewritten needs that whoever writes a row holds a job      *)
(* whose row is not settled (RowSettled).  There is one lemma per action,  *)
(* with one step per part of IInv.                                         *)
(***************************************************************************)
EXTENDS JobQueue, TLAPS

(* The small constant sets are expanded everywhere.                        *)
USE DEF Job, NoJob, Active, Terminal, Status, Steps

(* Pruning only removes entries from the table.                            *)
LEMMA PrunedSubset == ASSUME NEW T, NEW kept \in Pruned(T) PROVE kept \subseteq T
BY DEF Pruned, Trim

(* What a write of the row, and the end of a cancelled job, leave behind.  *)
PersistPost(j, st) ==
  /\ row' \in [Job -> Status] /\ saved' \subseteq Job /\ rowResult' = rowResult
  /\ \A k \in Job \ {j} : row'[k] = row[k] /\ (k \in saved' <=> k \in saved)
  /\ row'[j] \in {row[j], st}
  /\ j \in saved' => row'[j] = st

FinishPost(j) ==
  /\ row' \in [Job -> Status] /\ saved' \subseteq Job /\ rowResult' = rowResult
  /\ status' \in [Job -> Status] /\ input' \subseteq input
  /\ \A k \in Job \ {j} : /\ row'[k] = row[k] /\ (k \in saved' <=> k \in saved)
                         /\ status'[k] = status[k] /\ (k \in input' <=> k \in input)
  /\ status[j] \in Terminal => UNCHANGED <<status, input, row, saved>>
  /\ status[j] \notin Terminal =>
       /\ status'[j] = "cancelled" /\ row'[j] \in {row[j], "cancelled"}
       /\ j \in saved' => row'[j] = "cancelled"
       /\ j \in upload => j \notin input'

(* A write of the row of a job touches no other row, and the job is marked *)
(* saved only if the row shows the new status.                             *)
LEMMA PersistEffect ==
  ASSUME TypeOK, NEW j \in Job, NEW st \in Status, Persist(j, st)
  PROVE  PersistPost(j, st)
<1>1. CASE row' = [row EXCEPT ![j] = st] /\ saved' = saved \cup {j}
  BY <1>1 DEF TypeOK, Persist, PersistPost
<1>2. CASE saved' = saved \ {j} /\ row' = row
  BY <1>2 DEF TypeOK, Persist, PersistPost
<1> QED BY <1>1, <1>2 DEF Persist

(* Finishing a cancelled job touches that job only, changes nothing if it  *)
(* has ended, and takes its upload if it has not.                          *)
LEMMA FinishEffect ==
  ASSUME TypeOK, NEW j \in Job, FinishCancelled(j)
  PROVE  FinishPost(j)
<1>1. CASE status[j] \in Terminal
  BY <1>1 DEF TypeOK, FinishCancelled, FinishPost
<1>2. CASE status[j] \notin Terminal
  <2>1. Persist(j, "cancelled") /\ status' = [status EXCEPT ![j] = "cancelled"]
       /\ input' = WithoutUpload(j)
    BY <1>2 DEF FinishCancelled
  <2>2. PersistPost(j, "cancelled")
    BY <2>1, PersistEffect
  <2> QED BY <1>2, <2>1, <2>2 DEF TypeOK, WithoutUpload, PersistPost, FinishPost
<1> QED BY <1>1, <1>2


(* A new job has no row yet, so writing its first row disturbs no settled  *)
(* one.                                                                    *)
LEMMA SubmitStep == ASSUME IInv, NEW d \in BOOLEAN, Submit(d) PROVE IInv'
<1> USE BoundsAssumption DEF IInv
<1>0. table' \subseteq Job
  <2>1. PICK kept \in Pruned(table) : table' = kept \cup {last + 1}
    BY DEF Submit
  <2>2. kept \subseteq table
    BY <2>1, PrunedSubset
  <2>3. last + 1 \in Job /\ table \subseteq Job
    BY DEF TypeOK, Submit
  <2> QED BY <2>1, <2>2, <2>3
<1>e. last + 1 \in Job /\ PersistPost(last + 1, "pending")
  BY PersistEffect DEF Submit, TypeOK
<1>1. TypeOK'
  BY <1>0, <1>e DEF TypeOK, Submit, PersistPost
<1>2. PlaceAgrees'
  BY <1>e DEF TypeOK, PlaceAgrees, Submit, PersistPost
<1>3. RowSettled'
  BY <1>e DEF TypeOK, PlaceAgrees, RowSettled, Submit, PersistPost
<1>4. FilesAgree'
  BY <1>e DEF TypeOK, FilesAgree, InputAvailable, Submit, PersistPost
<1>5. RowFollows'
  BY <1>e DEF TypeOK, RowFollows, Submit, PersistPost
<1>6. HistoryAgrees'
  BY <1>e DEF TypeOK, HistoryAgrees, Submit, PersistPost
<1>7. ResultBeforeRow'
  BY <1>e DEF TypeOK, PlaceAgrees, ResultBeforeRow, Submit, PersistPost
<1> QED BY <1>1, <1>2, <1>3, <1>4, <1>5, <1>6, <1>7

(* Pruning the table changes nothing the invariant speaks of.              *)
LEMMA PollStep == ASSUME IInv, Poll PROVE IInv'
<1> USE BoundsAssumption DEF IInv
<1>1. TypeOK'
  BY PrunedSubset DEF TypeOK, Poll, loopVars, history
<1>2. PlaceAgrees'
  BY DEF PlaceAgrees, Poll, loopVars, history
<1>3. RowSettled'
  BY DEF RowSettled, Poll, history
<1>4. FilesAgree'
  BY DEF FilesAgree, InputAvailable, Poll, loopVars
<1>5. RowFollows'
  BY DEF RowFollows, Poll, history
<1>6. HistoryAgrees'
  BY DEF HistoryAgrees, Poll, history
<1>7. ResultBeforeRow'
  BY DEF ResultBeforeRow, Poll, history
<1> QED BY <1>1, <1>2, <1>3, <1>4, <1>5, <1>6, <1>7

(* A pending job whose future is cancelled ends here; another active job   *)
(* is only marked.                                                         *)
LEMMA CancelStep == ASSUME IInv, NEW j \in Job, Cancel(j) PROVE IInv'
<1> USE BoundsAssumption DEF IInv
<1>1. CASE status[j] = "pending" /\ fut[j] = "waiting"
  <2>e. FinishPost(j)
    BY <1>1, FinishEffect DEF Cancel
  <2>1. TypeOK'
    BY <1>1, <2>e, PrunedSubset DEF TypeOK, Cancel, FinishPost, loopVars
  <2>2. PlaceAgrees'
    BY <1>1, <2>e
      DEF TypeOK, PlaceAgrees, HistoryAgrees, Cancel, FinishPost, loopVars
  <2>3. RowSettled'
    BY <1>1, <2>e DEF RowSettled, HistoryAgrees, Cancel, FinishPost
  <2>4. FilesAgree'
    BY <1>1, <2>e
      DEF TypeOK, FilesAgree, InputAvailable, Cancel, FinishPost, loopVars
  <2>5. RowFollows'
    BY <1>1, <2>e DEF RowFollows, Cancel, FinishPost
  <2>6. HistoryAgrees'
    BY <1>1, <2>e DEF FilesAgree, HistoryAgrees, ResultBeforeRow, Cancel, FinishPost
  <2>7. ResultBeforeRow'
    BY <1>1, <2>e DEF TypeOK, RowSettled, ResultBeforeRow, Cancel, FinishPost
  <2> QED BY <2>1, <2>2, <2>3, <2>4, <2>5, <2>6, <2>7
<1>2. CASE ~(status[j] = "pending" /\ fut[j] = "waiting")
  <2>e. UNCHANGED <<status, input, row, rowResult, saved, resultFile>>
    BY <1>2 DEF Cancel
  <2>1. TypeOK'
    BY <1>2, <2>e, PrunedSubset DEF TypeOK, Cancel, FinishPost, loopVars
  <2>2. PlaceAgrees'
    BY <1>2, <2>e DEF PlaceAgrees, Cancel, FinishPost, loopVars
  <2>3. RowSettled'
    BY <1>2, <2>e DEF RowSettled, Cancel, FinishPost
  <2>4. FilesAgree'
    BY <1>2, <2>e DEF FilesAgree, InputAvailable, Cancel, FinishPost, loopVars
  <2>5. RowFollows'
    BY <1>2, <2>e DEF RowFollows, Cancel, FinishPost
  <2>6. HistoryAgrees'
    BY <1>2, <2>e DEF HistoryAgrees, Cancel, FinishPost
  <2>7. ResultBeforeRow'
    BY <1>2, <2>e DEF ResultBeforeRow, Cancel, FinishPost
  <2> QED BY <2>1, <2>2, <2>3, <2>4, <2>5, <2>6, <2>7
<1> QED BY <1>1, <1>2

(* Dropping a work item leaves its input, status and row alone.            *)
LEMMA DropCancelledStep == ASSUME IInv, NEW j \in Job, DropCancelled(j) PROVE IInv'
<1> USE BoundsAssumption DEF IInv
<1>1. TypeOK'
  BY DEF TypeOK, DropCancelled, loopVars, history
<1>2. PlaceAgrees'
  BY DEF PlaceAgrees, DropCancelled, loopVars, history
<1>3. RowSettled'
  BY DEF RowSettled, DropCancelled, history
<1>4. FilesAgree'
  BY DEF FilesAgree, InputAvailable, DropCancelled, loopVars
<1>5. RowFollows'
  BY DEF RowFollows, DropCancelled, history
<1>6. HistoryAgrees'
  BY DEF HistoryAgrees, DropCancelled, loopVars, history
<1>7. ResultBeforeRow'
  BY DEF ResultBeforeRow, DropCancelled, history
<1> QED BY <1>1, <1>2, <1>3, <1>4, <1>5, <1>6, <1>7

(* Cancelling a waiting future leaves the job itself alone.                *)
LEMMA CancelWaiterStep == ASSUME IInv, NEW j \in Job, CancelWaiter(j) PROVE IInv'
<1> USE BoundsAssumption DEF IInv
<1>1. TypeOK'
  BY DEF TypeOK, CancelWaiter, loopVars, history
<1>2. PlaceAgrees'
  BY DEF PlaceAgrees, CancelWaiter, loopVars, history
<1>3. RowSettled'
  BY DEF RowSettled, CancelWaiter, history
<1>4. FilesAgree'
  BY DEF FilesAgree, InputAvailable, CancelWaiter, loopVars
<1>5. RowFollows'
  BY DEF RowFollows, CancelWaiter, history
<1>6. HistoryAgrees'
  BY DEF HistoryAgrees, CancelWaiter, history
<1>7. ResultBeforeRow'
  BY DEF ResultBeforeRow, CancelWaiter, history
<1> QED BY <1>1, <1>2, <1>3, <1>4, <1>5, <1>6, <1>7

(* The begin of the shutdown changes the mode only.                        *)
LEMMA BeginStopStep == ASSUME IInv, BeginStop PROVE IInv'
<1> USE BoundsAssumption DEF IInv
<1>1. TypeOK'
  BY DEF TypeOK, BeginStop, memory, history
<1>2. PlaceAgrees'
  BY DEF PlaceAgrees, BeginStop, memory, history
<1>3. RowSettled'
  BY DEF RowSettled, BeginStop, memory, history
<1>4. FilesAgree'
  BY DEF FilesAgree, InputAvailable, BeginStop, memory
<1>5. RowFollows'
  BY DEF RowFollows, BeginStop, memory, history
<1>6. HistoryAgrees'
  BY DEF HistoryAgrees, BeginStop, memory, history
<1>7. ResultBeforeRow'
  BY DEF ResultBeforeRow, BeginStop, history
<1> QED BY <1>1, <1>2, <1>3, <1>4, <1>5, <1>6, <1>7

(* The jobs the shutdown cancels are pending, so none of their rows is     *)
(* settled.                                                                *)
LEMMA ShutdownStep == ASSUME IInv, Shutdown PROVE IInv'
<1> USE BoundsAssumption DEF IInv
<1>1. TypeOK'
  BY DEF TypeOK, Shutdown, ActiveIn
<1>2. PlaceAgrees'
  BY DEF TypeOK, PlaceAgrees, Shutdown, ActiveIn
<1>3. RowSettled'
  BY DEF RowSettled, Shutdown, ActiveIn
<1>4. FilesAgree'
  BY DEF TypeOK, FilesAgree, InputAvailable, Shutdown, ActiveIn
<1>5. RowFollows'
  BY DEF TypeOK, RowFollows, Shutdown, ActiveIn
<1>6. HistoryAgrees'
  BY DEF HistoryAgrees, Shutdown, ActiveIn
<1>7. ResultBeforeRow'
  BY DEF TypeOK, RowSettled, ResultBeforeRow, Shutdown, ActiveIn
<1> QED BY <1>1, <1>2, <1>3, <1>4, <1>5, <1>6, <1>7

(* Emptying the pool leaves the jobs alone.                                *)
LEMMA DrainStep == ASSUME IInv, Drain PROVE IInv'
<1> USE BoundsAssumption DEF IInv
<1>1. TypeOK'
  BY DEF TypeOK, Drain, loopVars, history
<1>2. PlaceAgrees'
  BY DEF PlaceAgrees, Drain, loopVars, history
<1>3. RowSettled'
  BY DEF RowSettled, Drain, history
<1>4. FilesAgree'
  BY DEF FilesAgree, InputAvailable, Drain, loopVars
<1>5. RowFollows'
  BY DEF RowFollows, Drain, history
<1>6. HistoryAgrees'
  BY DEF HistoryAgrees, Drain, history
<1>7. ResultBeforeRow'
  BY DEF ResultBeforeRow, Drain, history
<1> QED BY <1>1, <1>2, <1>3, <1>4, <1>5, <1>6, <1>7

(* An exit forgets the memory and keeps the disk.                          *)
LEMMA ExitStep == ASSUME IInv, Exit PROVE IInv'
<1> USE BoundsAssumption DEF IInv
<1>1. TypeOK'
  BY DEF TypeOK, Exit, ProcessEnds, history
<1>2. PlaceAgrees'
  BY DEF PlaceAgrees, Exit, ProcessEnds, history
<1>3. RowSettled'
  BY DEF RowSettled, Exit, ProcessEnds
<1>4. FilesAgree'
  BY DEF TypeOK, FilesAgree, InputAvailable, Exit, ProcessEnds
<1>5. RowFollows'
  BY DEF RowFollows, Exit, ProcessEnds
<1>6. HistoryAgrees'
  BY DEF HistoryAgrees, Exit, ProcessEnds
<1>7. ResultBeforeRow'
  BY DEF ResultBeforeRow, Exit, ProcessEnds, history
<1> QED BY <1>1, <1>2, <1>3, <1>4, <1>5, <1>6, <1>7

(* A crash forgets the memory and keeps the disk, at every place of the    *)
(* pool thread.                                                            *)
LEMMA CrashStep == ASSUME IInv, Crash PROVE IInv'
<1> USE BoundsAssumption DEF IInv
<1>1. TypeOK'
  BY DEF TypeOK, Crash, ProcessEnds, history
<1>2. PlaceAgrees'
  BY DEF PlaceAgrees, Crash, ProcessEnds, history
<1>3. RowSettled'
  BY DEF RowSettled, Crash, ProcessEnds
<1>4. FilesAgree'
  BY DEF TypeOK, FilesAgree, InputAvailable, Crash, ProcessEnds
<1>5. RowFollows'
  BY DEF RowFollows, Crash, ProcessEnds
<1>6. HistoryAgrees'
  BY DEF HistoryAgrees, Crash, ProcessEnds
<1>7. ResultBeforeRow'
  BY DEF ResultBeforeRow, Crash, ProcessEnds, history
<1> QED BY <1>1, <1>2, <1>3, <1>4, <1>5, <1>6, <1>7

(* The recovery takes all uploads and settles the active rows; no job is   *)
(* in memory then.                                                         *)
LEMMA RestartStep == ASSUME IInv, Restart PROVE IInv'
<1> USE BoundsAssumption DEF IInv
<1>1. TypeOK'
  BY DEF TypeOK, Restart, memory
<1>2. PlaceAgrees'
  BY DEF PlaceAgrees, Restart, memory
<1>3. RowSettled'
  BY DEF TypeOK, PlaceAgrees, RowSettled, Restart, memory
<1>4. FilesAgree'
  BY DEF TypeOK, PlaceAgrees, FilesAgree, InputAvailable, Restart, memory
<1>5. RowFollows'
  BY DEF PlaceAgrees, RowFollows, Restart, memory
<1>6. HistoryAgrees'
  BY DEF PlaceAgrees, HistoryAgrees, Restart, memory
<1>7. ResultBeforeRow'
  BY DEF TypeOK, ResultBeforeRow, Restart
<1> QED BY <1>1, <1>2, <1>3, <1>4, <1>5, <1>6, <1>7

(* The pool thread takes a job that is pending or cancelled, with its      *)
(* input in place.                                                         *)
LEMMA TakeStep == ASSUME IInv, NEW j \in Job, Take(j) PROVE IInv'
<1> USE BoundsAssumption DEF IInv
<1>1. TypeOK'
  BY DEF TypeOK, Take, loopVars, history
<1>2. PlaceAgrees'
  BY DEF PlaceAgrees, Take, loopVars, history
<1>3. RowSettled'
  BY DEF PlaceAgrees, RowSettled, Take, history
<1>4. FilesAgree'
  BY DEF FilesAgree, InputAvailable, Take, loopVars
<1>5. RowFollows'
  BY DEF RowFollows, Take, history
<1>6. HistoryAgrees'
  BY DEF PlaceAgrees, HistoryAgrees, Take, history
<1>7. ResultBeforeRow'
  BY DEF ResultBeforeRow, Take, history
<1> QED BY <1>1, <1>2, <1>3, <1>4, <1>5, <1>6, <1>7

(* The first cancel test ends a job that was cancelled and lets the others *)
(* on.                                                                     *)
LEMMA CheckStep == ASSUME IInv, Check PROVE IInv'
<1> USE BoundsAssumption DEF IInv
<1>0. job \in Job
  BY DEF TypeOK, PlaceAgrees, Check
<1>1. CASE job \in evt /\ FinishCancelled(job) /\ Leave
  <2>e. FinishPost(job)
    BY <1>1, <1>0, FinishEffect
  <2>1. TypeOK'
    BY <1>1, <2>e DEF TypeOK, Check, Leave, FinishPost, loopVars
  <2>2. PlaceAgrees'
    BY <1>1, <2>e DEF TypeOK, PlaceAgrees, Check, Leave, FinishPost, loopVars
  <2>3. RowSettled'
    BY <1>1, <2>e
      DEF RowSettled, RowFollows, HistoryAgrees, ResultBeforeRow, Check, Leave,
          FinishPost
  <2>4. FilesAgree'
    BY <1>1, <2>e
      DEF TypeOK, FilesAgree, InputAvailable, Check, Leave, FinishPost,
          loopVars
  <2>5. RowFollows'
    BY <1>1, <2>e DEF RowFollows, Check, Leave, FinishPost
  <2>6. HistoryAgrees'
    BY <1>1, <2>e
      DEF FilesAgree, RowFollows, HistoryAgrees, Check, Leave, FinishPost,
          loopVars
  <2>7. ResultBeforeRow'
    BY <1>1, <2>e DEF TypeOK, RowSettled, ResultBeforeRow, Check, Leave, FinishPost
  <2> QED BY <2>1, <2>2, <2>3, <2>4, <2>5, <2>6, <2>7
<1>2. CASE job \notin evt
  <2>1. TypeOK'
    BY <1>2 DEF TypeOK, Check, Leave, Goto, FinishPost, loopVars
  <2>2. PlaceAgrees'
    BY <1>2 DEF PlaceAgrees, Check, Leave, Goto, FinishPost, loopVars
  <2>3. RowSettled'
    BY <1>2 DEF RowSettled, Check, Leave, Goto, FinishPost
  <2>4. FilesAgree'
    BY <1>2 DEF FilesAgree, InputAvailable, Check, Leave, Goto, FinishPost, loopVars
  <2>5. RowFollows'
    BY <1>2 DEF RowFollows, Check, Leave, FinishPost
  <2>6. HistoryAgrees'
    BY <1>2 DEF HistoryAgrees, Check, Leave, Goto, FinishPost, loopVars
  <2>7. ResultBeforeRow'
    BY <1>2 DEF ResultBeforeRow, Check, Leave, FinishPost
  <2> QED BY <2>1, <2>2, <2>3, <2>4, <2>5, <2>6, <2>7
<1> QED BY <1>1, <1>2 DEF Check

(* The job becomes processing, whatever a cancellation made of it before.  *)
LEMMA StartStep == ASSUME IInv, Start PROVE IInv'
<1> USE BoundsAssumption DEF IInv
<1>e. job \in Job /\ PersistPost(job, "processing")
  BY PersistEffect DEF Start, TypeOK, PlaceAgrees
<1>1. TypeOK'
  BY <1>e DEF TypeOK, Start, Goto, PersistPost, loopVars
<1>2. PlaceAgrees'
  BY <1>e DEF TypeOK, PlaceAgrees, Start, Goto, PersistPost, loopVars
<1>3. RowSettled'
  BY <1>e DEF RowSettled, Start, Goto, PersistPost
<1>4. FilesAgree'
  BY <1>e DEF FilesAgree, InputAvailable, Start, Goto, PersistPost, loopVars
<1>5. RowFollows'
  BY <1>e DEF TypeOK, RowFollows, Start, PersistPost
<1>6. HistoryAgrees'
  BY <1>e DEF TypeOK, HistoryAgrees, Start, PersistPost, loopVars
<1>7. ResultBeforeRow'
  BY <1>e DEF TypeOK, RowSettled, ResultBeforeRow, Start, PersistPost
<1> QED BY <1>1, <1>2, <1>3, <1>4, <1>5, <1>6, <1>7

(* The workflow keeps status, row and input.                               *)
LEMMA RunStep == ASSUME IInv, Run PROVE IInv'
<1> USE BoundsAssumption DEF IInv
<1>1. TypeOK'
  BY DEF TypeOK, Run, Goto, loopVars, history
<1>2. PlaceAgrees'
  BY DEF PlaceAgrees, Run, Goto, loopVars, history
<1>3. RowSettled'
  BY DEF RowSettled, Run, Goto, history
<1>4. FilesAgree'
  BY DEF FilesAgree, InputAvailable, Run, Goto, loopVars
<1>5. RowFollows'
  BY DEF RowFollows, Run, history
<1>6. HistoryAgrees'
  BY DEF HistoryAgrees, Run, Goto, loopVars, history
<1>7. ResultBeforeRow'
  BY DEF ResultBeforeRow, Run, history
<1> QED BY <1>1, <1>2, <1>3, <1>4, <1>5, <1>6, <1>7

(* Publishing the artifacts keeps status, row and input.                   *)
LEMMA ArtifactsStep == ASSUME IInv, Artifacts PROVE IInv'
<1> USE BoundsAssumption DEF IInv
<1>1. TypeOK'
  BY DEF TypeOK, Artifacts, Goto, loopVars, history
<1>2. PlaceAgrees'
  BY DEF PlaceAgrees, Artifacts, Goto, loopVars, history
<1>3. RowSettled'
  BY DEF RowSettled, Artifacts, Goto, history
<1>4. FilesAgree'
  BY DEF FilesAgree, InputAvailable, Artifacts, Goto, loopVars
<1>5. RowFollows'
  BY DEF RowFollows, Artifacts, history
<1>6. HistoryAgrees'
  BY DEF HistoryAgrees, Artifacts, Goto, loopVars, history
<1>7. ResultBeforeRow'
  BY DEF ResultBeforeRow, Artifacts, history
<1> QED BY <1>1, <1>2, <1>3, <1>4, <1>5, <1>6, <1>7

(* The result file of the job appears or not.                              *)
LEMMA SaveResultStep == ASSUME IInv, SaveResult PROVE IInv'
<1> USE BoundsAssumption DEF IInv
<1>e. job \in Job
  BY DEF SaveResult, TypeOK, PlaceAgrees
<1>1. TypeOK'
  BY <1>e DEF TypeOK, SaveResult, Goto, loopVars
<1>2. PlaceAgrees'
  BY <1>e DEF PlaceAgrees, SaveResult, Goto, loopVars
<1>3. RowSettled'
  BY <1>e DEF RowSettled, SaveResult, Goto
<1>4. FilesAgree'
  BY <1>e DEF FilesAgree, InputAvailable, SaveResult, Goto, loopVars
<1>5. RowFollows'
  BY <1>e DEF RowFollows, SaveResult
<1>6. HistoryAgrees'
  BY <1>e DEF HistoryAgrees, SaveResult, Goto, loopVars
<1>7. ResultBeforeRow'
  BY <1>e DEF ResultBeforeRow, SaveResult
<1> QED BY <1>1, <1>2, <1>3, <1>4, <1>5, <1>6, <1>7

(* Only the upload of the job is removed, after the workflow has read it.  *)
LEMMA UnlinkStep == ASSUME IInv, Unlink PROVE IInv'
<1> USE BoundsAssumption DEF IInv
<1>1. TypeOK'
  BY DEF TypeOK, Unlink, WithoutUpload, Goto, loopVars, history
<1>2. PlaceAgrees'
  BY DEF PlaceAgrees, Unlink, WithoutUpload, Goto, loopVars, history
<1>3. RowSettled'
  BY DEF RowSettled, Unlink, WithoutUpload, Goto, history
<1>4. FilesAgree'
  BY
    DEF PlaceAgrees, FilesAgree, InputAvailable, Unlink, WithoutUpload, Goto,
        loopVars
<1>5. RowFollows'
  BY DEF RowFollows, Unlink, WithoutUpload, history
<1>6. HistoryAgrees'
  BY DEF HistoryAgrees, Unlink, WithoutUpload, Goto, loopVars, history
<1>7. ResultBeforeRow'
  BY DEF ResultBeforeRow, Unlink, WithoutUpload, history
<1> QED BY <1>1, <1>2, <1>3, <1>4, <1>5, <1>6, <1>7

(* The job becomes completed; its row follows in the next step.            *)
LEMMA CompleteStep == ASSUME IInv, Complete PROVE IInv'
<1> USE BoundsAssumption DEF IInv
<1>1. TypeOK'
  BY DEF TypeOK, Complete, SetStatus, Goto, loopVars, history
<1>2. PlaceAgrees'
  BY DEF TypeOK, PlaceAgrees, Complete, SetStatus, Goto, loopVars, history
<1>3. RowSettled'
  BY DEF RowSettled, Complete, SetStatus, Goto, history
<1>4. FilesAgree'
  BY DEF FilesAgree, InputAvailable, Complete, SetStatus, Goto, loopVars
<1>5. RowFollows'
  BY DEF RowFollows, Complete, SetStatus, Goto, history
<1>6. HistoryAgrees'
  BY DEF HistoryAgrees, Complete, SetStatus, Goto, loopVars, history
<1>7. ResultBeforeRow'
  BY DEF ResultBeforeRow, Complete, SetStatus, history
<1> QED BY <1>1, <1>2, <1>3, <1>4, <1>5, <1>6, <1>7

(* The job becomes failed; its row follows in the next step.               *)
LEMMA FailStep == ASSUME IInv, Fail PROVE IInv'
<1> USE BoundsAssumption DEF IInv
<1>1. TypeOK'
  BY DEF TypeOK, Fail, SetStatus, Goto, loopVars, history
<1>2. PlaceAgrees'
  BY DEF TypeOK, PlaceAgrees, Fail, SetStatus, Goto, loopVars, history
<1>3. RowSettled'
  BY DEF RowSettled, Fail, SetStatus, Goto, history
<1>4. FilesAgree'
  BY DEF FilesAgree, InputAvailable, Fail, SetStatus, Goto, loopVars
<1>5. RowFollows'
  BY DEF RowFollows, Fail, SetStatus, Goto, history
<1>6. HistoryAgrees'
  BY DEF HistoryAgrees, Fail, SetStatus, Goto, loopVars, history
<1>7. ResultBeforeRow'
  BY DEF ResultBeforeRow, Fail, SetStatus, history
<1> QED BY <1>1, <1>2, <1>3, <1>4, <1>5, <1>6, <1>7

(* The last write of the row settles it, with result_path only if the file *)
(* is there.                                                               *)
LEMMA PersistFinalStep == ASSUME IInv, PersistFinal PROVE IInv'
<1> USE BoundsAssumption DEF IInv
<1>0. /\ job \in Job /\ status[job] \in {"completed", "failed"}
      /\ saved' \subseteq Job /\ rowResult' \subseteq rowResult \cup {job}
      /\ \A k \in Job \ {job} : k \in saved' <=> k \in saved
  BY DEF TypeOK, PlaceAgrees, PersistFinal
<1>1. CASE row' = [row EXCEPT ![job] = status[job]]
  <2>1. TypeOK'
    BY <1>0, <1>1 DEF TypeOK, PersistFinal, Goto, loopVars
  <2>2. PlaceAgrees'
    BY <1>0, <1>1 DEF PlaceAgrees, PersistFinal, Goto, loopVars
  <2>3. RowSettled'
    BY <1>0, <1>1 DEF RowSettled, PersistFinal, Goto
  <2>4. FilesAgree'
    BY <1>0, <1>1 DEF FilesAgree, InputAvailable, PersistFinal, Goto, loopVars
  <2>5. RowFollows'
    BY <1>0, <1>1 DEF TypeOK, RowFollows, PersistFinal
  <2>6. HistoryAgrees'
    BY <1>0, <1>1 DEF HistoryAgrees, PersistFinal, Goto, loopVars
  <2>7. ResultBeforeRow'
    BY <1>0, <1>1 DEF TypeOK, RowSettled, ResultBeforeRow, PersistFinal
  <2> QED BY <2>1, <2>2, <2>3, <2>4, <2>5, <2>6, <2>7
<1>2. CASE job \notin saved' /\ UNCHANGED <<row, rowResult>>
  <2>1. TypeOK'
    BY <1>0, <1>2 DEF TypeOK, PersistFinal, Goto, loopVars
  <2>2. PlaceAgrees'
    BY <1>0, <1>2 DEF PlaceAgrees, PersistFinal, Goto, loopVars
  <2>3. RowSettled'
    BY <1>0, <1>2 DEF RowSettled, PersistFinal, Goto
  <2>4. FilesAgree'
    BY <1>0, <1>2 DEF FilesAgree, InputAvailable, PersistFinal, Goto, loopVars
  <2>5. RowFollows'
    BY <1>0, <1>2 DEF RowFollows, PersistFinal
  <2>6. HistoryAgrees'
    BY <1>0, <1>2 DEF HistoryAgrees, PersistFinal, loopVars
  <2>7. ResultBeforeRow'
    BY <1>0, <1>2 DEF ResultBeforeRow, PersistFinal
  <2> QED BY <2>1, <2>2, <2>3, <2>4, <2>5, <2>6, <2>7
<1> QED BY <1>1, <1>2 DEF PersistFinal

(* A job stopped at a checkpoint becomes cancelled, is written and loses   *)
(* its upload.                                                             *)
LEMMA CancelAtCheckpointStep == ASSUME IInv, CancelAtCheckpoint PROVE IInv'
<1> USE BoundsAssumption DEF IInv
<1>e. job \in Job /\ FinishPost(job)
  BY FinishEffect DEF CancelAtCheckpoint, TypeOK, PlaceAgrees
<1>1. TypeOK'
  BY <1>e DEF TypeOK, CancelAtCheckpoint, Goto, FinishPost, loopVars
<1>2. PlaceAgrees'
  BY <1>e DEF TypeOK, PlaceAgrees, CancelAtCheckpoint, Goto, FinishPost, loopVars
<1>3. RowSettled'
  BY <1>e DEF RowSettled, CancelAtCheckpoint, Goto, FinishPost
<1>4. FilesAgree'
  BY <1>e
    DEF TypeOK, FilesAgree, InputAvailable, CancelAtCheckpoint, Goto,
        FinishPost, loopVars
<1>5. RowFollows'
  BY <1>e DEF RowFollows, CancelAtCheckpoint, FinishPost
<1>6. HistoryAgrees'
  BY <1>e DEF HistoryAgrees, CancelAtCheckpoint, Goto, FinishPost, loopVars
<1>7. ResultBeforeRow'
  BY <1>e DEF TypeOK, RowSettled, ResultBeforeRow, CancelAtCheckpoint, FinishPost
<1> QED BY <1>1, <1>2, <1>3, <1>4, <1>5, <1>6, <1>7

(* The finally block removes the upload of an ended job and releases the   *)
(* pool thread.                                                            *)
LEMMA FinallyStep == ASSUME IInv, Finally PROVE IInv'
<1> USE BoundsAssumption DEF IInv
<1>1. TypeOK'
  BY PrunedSubset DEF TypeOK, Finally, WithoutUpload, Leave, loopVars, history
<1>2. PlaceAgrees'
  BY DEF TypeOK, PlaceAgrees, Finally, WithoutUpload, Leave, loopVars, history
<1>3. RowSettled'
  BY DEF RowSettled, Finally, WithoutUpload, Leave, history
<1>4. FilesAgree'
  BY
    DEF PlaceAgrees, FilesAgree, InputAvailable, Finally, WithoutUpload,
        Leave, loopVars
<1>5. RowFollows'
  BY DEF RowFollows, Finally, WithoutUpload, Leave, history
<1>6. HistoryAgrees'
  BY DEF RowFollows, HistoryAgrees, Finally, WithoutUpload, Leave, loopVars, history
<1>7. ResultBeforeRow'
  BY DEF ResultBeforeRow, Finally, WithoutUpload, Leave, history
<1> QED BY <1>1, <1>2, <1>3, <1>4, <1>5, <1>6, <1>7

(* A step that changes nothing keeps the invariant.                        *)
LEMMA StutterStep == ASSUME IInv, UNCHANGED vars PROVE IInv'
<1> USE BoundsAssumption DEF IInv
<1>1. TypeOK'
  BY DEF TypeOK, loopVars, memory, history, vars
<1>2. PlaceAgrees'
  BY DEF PlaceAgrees, loopVars, memory, history, vars
<1>3. RowSettled'
  BY DEF RowSettled, memory, history, vars
<1>4. FilesAgree'
  BY DEF FilesAgree, InputAvailable, loopVars, memory, vars
<1>5. RowFollows'
  BY DEF RowFollows, memory, history, vars
<1>6. HistoryAgrees'
  BY DEF HistoryAgrees, loopVars, memory, history, vars
<1>7. ResultBeforeRow'
  BY DEF ResultBeforeRow, history, vars
<1> QED BY <1>1, <1>2, <1>3, <1>4, <1>5, <1>6, <1>7

(* The inductive invariant holds initially.                                *)
LEMMA InitIInv == Init => IInv
BY BoundsAssumption DEF Init, IInv, TypeOK, PlaceAgrees, RowSettled, FilesAgree,
   InputAvailable, RowFollows, HistoryAgrees, ResultBeforeRow

(* Every step of the queue keeps it.                                       *)
LEMMA NextIInv == IInv /\ [Next]_vars => IInv'
<1> SUFFICES ASSUME IInv, [Next]_vars PROVE IInv'
  OBVIOUS
<1>1. CASE Worker
  BY <1>1, TakeStep, CheckStep, StartStep, RunStep, ArtifactsStep, SaveResultStep,
     UnlinkStep, CompleteStep, FailStep, PersistFinalStep, CancelAtCheckpointStep,
     FinallyStep DEF Worker
<1>2. CASE Loop
  BY <1>2, SubmitStep, PollStep, CancelStep, DropCancelledStep, CancelWaiterStep,
     BeginStopStep, ShutdownStep, DrainStep, ExitStep DEF Loop
<1>3. CASE Crash \/ Restart \/ UNCHANGED vars
  BY <1>3, CrashStep, RestartStep, StutterStep
<1> QED BY <1>1, <1>2, <1>3 DEF Next

(* Invariance: the inductive invariant holds in every reachable state.     *)
THEOREM Invariance == Spec => []IInv
BY InitIInv, NextIInv, PTL DEF Spec

(* Every variable keeps its type, for any number of jobs and any limits.   *)
THEOREM TypeCorrect == Spec => []TypeOK
<1>1. IInv => TypeOK
  BY DEF IInv
<1> QED BY <1>1, Invariance, PTL

(* One job at a time says "processing", and it is the pool thread's.       *)
THEOREM Exclusion == Spec => []OneJobProcessing
<1>1. IInv => OneJobProcessing
  <2> SUFFICES ASSUME IInv, NEW j \in Job, status[j] = "processing"
               PROVE  job = j /\ pc \in {"run", "artifacts", "save", "unlink",
                                         "complete", "fail", "cancel"}
    BY DEF OneJobProcessing
  <2>1. job = j
    BY DEF IInv, PlaceAgrees
  <2>2. pc # "idle" /\ pc \in Steps
    BY <2>1 DEF IInv, TypeOK, PlaceAgrees
  <2>3. pc \notin {"check", "start", "persist", "finally"}
    BY <2>1 DEF IInv, PlaceAgrees
  <2> QED BY <2>1, <2>2, <2>3
<1> QED BY <1>1, Invariance, PTL

(* No deletion takes the input of a job that was not cancelled.            *)
THEOREM InputKept == Spec => []InputAvailable
<1>1. IInv => InputAvailable
  BY DEF IInv, FilesAgree
<1> QED BY <1>1, Invariance, PTL

(* An ended job that the pool thread has let go of leaves no upload.       *)
THEOREM UploadRemoved == Spec => []UploadDeleted
<1>1. IInv => UploadDeleted
  BY DEF IInv, FilesAgree, UploadDeleted
<1> QED BY <1>1, Invariance, PTL

(* The History row agrees with the job unless its last write failed.       *)
THEOREM HistoryFollows == Spec => []HistoryAgrees
<1>1. IInv => HistoryAgrees
  BY DEF IInv
<1> QED BY <1>1, Invariance, PTL

(* At every crash point a row with a result is completed and has its file. *)
THEOREM ResultOnDisk == Spec => []ResultBeforeRow
<1>1. IInv => ResultBeforeRow
  BY DEF IInv
<1> QED BY <1>1, Invariance, PTL

(* A settled row survives every step: whoever writes a row holds a job     *)
(* whose row is not settled, or writes the same status again.              *)
LEMMA RowsKeptStep ==
  ASSUME IInv, [Next]_vars, NEW j \in Job, row[j] \in {"completed", "failed"}
  PROVE  row'[j] = row[j]
<1> USE BoundsAssumption DEF IInv
<1>1. CASE \E d \in BOOLEAN : Submit(d)
  <2>1. PICK d \in BOOLEAN : Submit(d)
    BY <1>1
  <2>2. last + 1 \in Job /\ PersistPost(last + 1, "pending")
    BY <2>1, PersistEffect DEF Submit, TypeOK
  <2>3. row[last + 1] = "none"
    BY <2>2 DEF PlaceAgrees, TypeOK
  <2> QED BY <2>2, <2>3 DEF PersistPost
<1>2. CASE \E k \in Job : Cancel(k)
  <2>1. PICK k \in Job : Cancel(k)
    BY <1>2
  <2>2. CASE status[k] = "pending" /\ fut[k] = "waiting"
    <3>1. FinishPost(k) /\ row[k] \notin {"completed", "failed"}
      BY <2>1, <2>2, FinishEffect DEF Cancel, RowSettled
    <3> QED BY <3>1 DEF FinishPost
  <2>3. CASE ~(status[k] = "pending" /\ fut[k] = "waiting")
    BY <2>1, <2>3 DEF Cancel
  <2> QED BY <2>2, <2>3
<1>3. CASE Shutdown
  BY <1>3 DEF Shutdown, ActiveIn, RowSettled
<1>4. CASE Restart
  BY <1>4 DEF Restart
<1>5. CASE Check \/ CancelAtCheckpoint
  <2>1. CASE FinishCancelled(job)
    <3>1. job \in Job /\ FinishPost(job)
      BY <1>5, <2>1, FinishEffect DEF Check, CancelAtCheckpoint, PlaceAgrees, TypeOK
    <3>2. j = job => row' = row \/ row[j] \notin {"completed", "failed"}
      BY <1>5, <3>1 DEF Check, CancelAtCheckpoint, RowSettled
    <3> QED BY <3>1, <3>2 DEF FinishPost
  <2>2. CASE UNCHANGED row
    BY <2>2
  <2> QED BY <1>5, <2>1, <2>2 DEF Check, CancelAtCheckpoint
<1>6. CASE Start
  <2>1. job \in Job /\ PersistPost(job, "processing")
    BY <1>6, PersistEffect DEF Start, PlaceAgrees, TypeOK
  <2>2. row[job] \notin {"completed", "failed"}
    BY <1>6, <2>1 DEF Start, RowSettled
  <2> QED BY <2>1, <2>2 DEF PersistPost
<1>7. CASE PersistFinal
  <2>1. job \in Job /\ row[job] \notin {"completed", "failed"}
    BY <1>7 DEF PersistFinal, RowSettled, PlaceAgrees, TypeOK
  <2> QED BY <1>7, <2>1 DEF PersistFinal, TypeOK
<1>8. CASE UNCHANGED row
  BY <1>8
<1>9. \/ \E d \in BOOLEAN : Submit(d)
      \/ \E k \in Job : Cancel(k)
      \/ Shutdown \/ Restart \/ Check \/ CancelAtCheckpoint \/ Start \/ PersistFinal
      \/ UNCHANGED row
  BY
    DEF Next, Worker, Loop, Poll, DropCancelled, CancelWaiter, BeginStop,
        Drain, Exit,
     Crash, ProcessEnds, Take, Run, Artifacts, SaveResult, Unlink, Complete, Fail,
     SetStatus, Finally, history, vars
<1> QED BY <1>1, <1>2, <1>3, <1>4, <1>5, <1>6, <1>7, <1>8, <1>9

(* What History has reported as completed or failed is never rewritten.    *)
THEOREM SettledRows == Spec => SettledRowsKept
<1>1. IInv /\ [Next]_vars =>
        [\A j \in Job : row[j] \in {"completed", "failed"} => row'[j] = row[j]]_vars
  BY RowsKeptStep
<1> QED BY <1>1, Invariance, PTL DEF Spec, SettledRowsKept

=============================================================================
