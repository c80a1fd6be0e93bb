-------------------------- MODULE BatchCoordinator --------------------------
(***************************************************************************)
(* The teacher's OCR batches: the coordinator task that feeds their items  *)
(* one by one to the job queue (app/teaching/batches.py), the batch        *)
(* endpoints (app/api/teaching.py), the two tables they share              *)
(* (app/teaching/store.py), and service start and stop.                    *)
(*                                                                         *)
(* Coordinator and endpoints are coroutines of one event loop: what runs   *)
(* between two awaits is not interleaved with a request, but the process   *)
(* can end between two commits of the coordinator.  The job it awaits is   *)
(* taken from JobContract.                                                 *)
(***************************************************************************)
EXTENDS Naturals, FiniteSets, Sequences, SequencesExt

CONSTANTS Batch,      \* batches, numbered in the order of created_at
          Item,       \* items of all batches, numbered in the order of upload
          BatchOf,    \* the batch of each item
          MaxRetries  \* bound of the model: teacher's retries in a behaviour

ASSUME BatchAssumption == /\ Batch \subseteq Nat /\ Item \subseteq Nat \ {0}
                          /\ IsFiniteSet(Item)
                          /\ BatchOf \in [Item -> Batch]
                          /\ MaxRetries \in Nat

NoItem == 0

VARIABLES
  mode,      \* "up", "stopping", "down"
  coord,     \* the coordinator task: its place, see Places
  cur,       \* the item _process holds
  batch,     \* batches.status, "none" before creation, "gone" once deleted
  line,      \* the items of a batch by position
  item,      \* batch_items.status
  retry,     \* rows with retry_pending = 1
  src,       \* staged sources on disk
  retries,   \* retries so far
  state, asked, done   \* the contract of the job _process awaits

tables == <<batch, line, item, retry>>
job == <<state, asked, done>>
vars == <<mode, coord, cur, tables, src, retries, job>>

(* The queue knows every submission under a new id; the coordinator awaits *)
(* one at a time, and one name is enough for that one.                     *)
Awaited == "awaited"
Queue == INSTANCE JobContract WITH Job <- {Awaited}

Places == {"idle", "picked", "submitted", "waiting", "recorded", "sleep", "dead", "off"}
BatchStatus == {"none", "queued", "processing", "paused", "completed", "partial",
                "cancelled", "gone"}
ItemStatus == {"none", "queued", "processing", "completed", "failed", "cancelled",
               "interrupted", "gone"}

TypeOK ==
  /\ mode \in {"up", "stopping", "down"}
  /\ coord \in Places /\ cur \in Item \cup {NoItem}
  /\ batch \in [Batch -> BatchStatus]
  /\ line \in [Batch -> Seq(Item)]
  /\ item \in [Item -> ItemStatus]
  /\ retry \subseteq Item /\ src \subseteq Item
  /\ retries \in 0 .. MaxRetries
  /\ state \in [{Awaited} -> {"none", "active", "withdrawn"} \cup Queue!Ended]
  /\ asked \subseteq {Awaited} /\ done \subseteq {Awaited}

Init ==
  /\ mode = "up" /\ coord = "idle" /\ cur = NoItem
  /\ batch = [b \in Batch |-> "none"] /\ line = [b \in Batch |-> <<>>]
  /\ item = [i \in Item |-> "none"]
  /\ retry = {} /\ src = {} /\ retries = 0
  /\ Queue!ContractInit

In(b) == {i \in Item : BatchOf[i] = b /\ item[i] \notin {"none", "gone"}}

(* the positions of the queued items, and the position of an item          *)
Queued(b) == {n \in DOMAIN line[b] : item[line[b][n]] = "queued"}
Place(i) == CHOOSE n \in DOMAIN line[BatchOf[i]] : line[BatchOf[i]][n] = i

(* patch_batch_item overwrites the status whatever it was and raises       *)
(* KeyError when the row is gone.                                          *)
PatchItem(i, st, pending) ==
  /\ item[i] # "gone"
  /\ item' = [item EXCEPT ![i] = st]
  /\ retry' = IF pending THEN retry \cup {i} ELSE retry \ {i}

-----------------------------------------------------------------------------
(* The coordinator.                                                        *)

(* _next_item closes every batch it passes that is "processing" and has    *)
(* nothing queued, and stops at the first that has.                        *)
Running(b) == batch[b] \in {"queued", "processing"}

Passed(first) == {b \in Batch : /\ batch[b] = "processing" /\ Queued(b) = {}
                                /\ \A c \in first : b < c}

(* mutant: a status the table has not got                                  *)
ClosedAsFailed(first) ==
  [b \in Batch |-> IF b \notin Passed(first) THEN batch[b]
                   ELSE IF \A i \in In(b) : item[i] = "completed"
                        THEN "completed" ELSE "failed"]

(* mutant: cancelled items count as done                                   *)
ClosedUnlessFailed(first) ==
  [b \in Batch |-> IF b \notin Passed(first) THEN batch[b]
                   ELSE IF \A i \in In(b) : item[i] # "failed"
                        THEN "completed" ELSE "partial"]

Closed(first) ==
  [b \in Batch |-> IF b \notin Passed(first) THEN batch[b]
                   ELSE IF \A i \in In(b) : item[i] = "completed"
                        THEN "completed" ELSE "partial"]

(* mutant: a batch that has begun is not taken up again                    *)
FirstUnbegun == {b \in Batch : /\ batch[b] = "queued" /\ Queued(b) # {}
                               /\ \A c \in Batch : batch[c] = "queued" /\ Queued(c) # {} => b <= c}

First == {b \in Batch : /\ Running(b) /\ Queued(b) # {}
                        /\ \A c \in Batch : Running(c) /\ Queued(c) # {} => b <= c}

(* and _process starts with marking the batch                              *)
Pick ==
  /\ mode = "up" /\ coord = "idle"
  /\ \E b \in First :
       /\ batch' = [Closed(First) EXCEPT ![b] = "processing"]
       /\ \E n \in Queued(b) : cur' = line[b][n] /\ \A m \in Queued(b) : n <= m
  /\ coord' = "picked"
  /\ UNCHANGED <<mode, line, item, retry, src, retries, job>>

CloseBatches ==
  /\ mode = "up" /\ coord = "idle" /\ First = {}
  /\ batch' = Closed(First) /\ batch' # batch
  /\ UNCHANGED <<mode, coord, cur, line, item, retry, src, retries, job>>

Rest == coord' = "idle" /\ cur' = NoItem

(* checksum, free space, workflow and language are checked before submit;  *)
(* only the missing source is told apart, any other check may fail.        *)
Refuse ==
  /\ coord = "picked"
  /\ PatchItem(cur, "failed", TRUE)
  /\ Rest
  /\ UNCHANGED <<mode, batch, line, src, retries, job>>

QueueFull ==
  /\ coord = "picked" /\ cur \in src
  /\ PatchItem(cur, "queued", TRUE)
  /\ coord' = "sleep"
  /\ UNCHANGED <<mode, cur, batch, line, src, retries, job>>

SleepEnds ==
  /\ coord = "sleep"
  /\ Rest
  /\ UNCHANGED <<mode, tables, src, retries, job>>

Submit ==
  /\ coord = "picked" /\ cur \in src
  /\ Queue!Accept(Awaited)
  /\ coord' = "submitted"
  /\ UNCHANGED <<mode, cur, tables, src, retries>>

(* job_id is a foreign key into history_jobs: without a History row of the *)
(* job the patch fails, the item with it, and nobody awaits the job.       *)
MarkProcessing ==
  /\ coord = "submitted"
  /\ \/ /\ PatchItem(cur, "processing", FALSE)
        /\ coord' = "waiting"
        /\ UNCHANGED <<cur, job>>
     \/ /\ PatchItem(cur, "failed", TRUE)
        /\ Rest
        /\ Queue!Forget
  /\ UNCHANGED <<mode, batch, line, src, retries>>

Result == Queue!Reported(Awaited)

(* what _process does after wait_for_result, up to the next commit         *)
RecordAs(st, pending, next) ==
  /\ PatchItem(cur, st, pending)
  /\ coord' = next
  /\ cur' = IF next = "recorded" THEN cur ELSE NoItem
  /\ UNCHANGED <<batch, line, src, retries>>

(* the job has gone: the endpoint's or the queue's own copy of the result  *)
(* is what counts, also when a cancelled job has come back to life         *)
Record ==
  /\ coord = "waiting" /\ Awaited \in done /\ item[cur] # "gone"
  /\ \/ Result \in {"completed", "cancelled"} /\ RecordAs(Result, FALSE, "recorded")
     \/ Result \notin {"completed", "cancelled"} /\ RecordAs("failed", TRUE, "idle")
     \/ RecordAs("failed", TRUE, "idle")
  /\ Queue!Forget
  /\ UNCHANGED mode

Unlink ==
  /\ coord = "recorded"
  /\ src' = src \ {cur}
  /\ Rest
  /\ UNCHANGED <<mode, tables, retries, job>>

(* The row was deleted meanwhile: the patch raises KeyError, the patch in  *)
(* the handler of that error raises it again, and the task ends.           *)
Die ==
  /\ coord = "waiting" /\ Awaited \in done /\ item[cur] = "gone"
  /\ coord' = "dead" /\ cur' = NoItem
  /\ Queue!Forget
  /\ UNCHANGED <<mode, tables, src, retries>>

(* The queue's own steps.                                                  *)
QueueStep ==
  /\ mode # "down"
  /\ \/ \E outcome \in Queue!Ended : Queue!End(Awaited, outcome)
     \/ Queue!Revive(Awaited) \/ (Result # state[Awaited] /\ Queue!Drop({Awaited}))
     \/ Awaited \notin done /\ Queue!Resolve(Awaited)
  /\ UNCHANGED <<mode, coord, cur, tables, src, retries>>

-----------------------------------------------------------------------------
(* The endpoints.                                                          *)

(* a request runs while the coordinator awaits                             *)
Serving == mode = "up" /\ coord \in {"idle", "waiting", "sleep", "dead"}

Create(b) ==
  /\ Serving /\ batch[b] = "none"
  /\ \A c \in Batch : c < b => batch[c] # "none"
  /\ LET new == {i \in Item : BatchOf[i] = b}
     IN /\ item' = [i \in Item |-> IF i \in new THEN "queued" ELSE item[i]]
        /\ \E order \in SetToSeqs(new) :
             /\ \A m, n \in DOMAIN order : m < n => order[m] < order[n]
             /\ line' = [line EXCEPT ![b] = order]
        /\ src' = src \cup new
  /\ batch' = [batch EXCEPT ![b] = "queued"]
  /\ UNCHANGED <<mode, coord, cur, retry, retries, job>>

(* queue.cancel of the job the coordinator awaits                          *)
AskQueue == Queue!Ask({Awaited})
CancelJob(i) ==
  IF i = cur /\ item[i] = "processing" /\ Result = "active" THEN AskQueue ELSE UNCHANGED job

(* PATCH /batches/{id} with "queued" or "paused" writes just that          *)
SetBatch(b, st) ==
  /\ Serving /\ batch[b] \notin {"none", "gone"}
  /\ st \in {"queued", "paused"}
  /\ batch' = [batch EXCEPT ![b] = st]
  /\ UNCHANGED <<mode, coord, cur, line, item, retry, src, retries, job>>

CancelBatch(b) ==
  /\ Serving /\ batch[b] \notin {"none", "gone"}
  /\ LET ends == {i \in In(b) : item[i] \in {"queued", "failed", "interrupted"}}
     IN /\ item' = [i \in Item |-> IF i \in ends THEN "cancelled" ELSE item[i]]
        /\ retry' = retry \ ends
        /\ src' = src \ ends
  /\ IF cur \in In(b) THEN CancelJob(cur) ELSE UNCHANGED job
  /\ batch' = [batch EXCEPT ![b] = "cancelled"]
  /\ UNCHANGED <<mode, coord, cur, line, retries>>

DeleteBatch(b) ==
  /\ Serving /\ batch[b] \notin {"none", "gone"}
  /\ \A i \in In(b) : item[i] # "processing"
  /\ batch' = [batch EXCEPT ![b] = "gone"]
  /\ line' = [line EXCEPT ![b] = <<>>]
  /\ item' = [i \in Item |-> IF i \in In(b) THEN "gone" ELSE item[i]]
  /\ retry' = retry \ In(b) /\ src' = src \ In(b)
  /\ UNCHANGED <<mode, coord, cur, retries, job>>

Retry(i) ==
  /\ Serving /\ item[i] \in {"failed", "interrupted"} /\ retries < MaxRetries
  /\ PatchItem(i, "queued", TRUE)
  /\ batch' = [batch EXCEPT ![BatchOf[i]] = "queued"]
  /\ retries' = retries + 1
  /\ UNCHANGED <<mode, coord, cur, line, src, job>>

(* any item can be cancelled, whatever its status                          *)
CancelItem(i) ==
  /\ Serving /\ item[i] \notin {"none", "gone"}
  /\ CancelJob(i)
  /\ PatchItem(i, "cancelled", FALSE)
  /\ src' = src \ {i}
  /\ UNCHANGED <<mode, coord, cur, batch, line, retries>>

ProcessNext(i) ==
  /\ Serving /\ batch[BatchOf[i]] \in {"queued", "paused"} /\ item[i] = "queued"
  /\ line' = [line EXCEPT ![BatchOf[i]] =
                <<i>> \o RemoveAt(@, Place(i))]
  /\ batch' = [batch EXCEPT ![BatchOf[i]] = "queued"]
  /\ UNCHANGED <<mode, coord, cur, item, retry, src, retries, job>>

(* move_up of the item behind is move_down of the one before it            *)
Move(b) ==
  /\ Serving /\ batch[b] \in {"queued", "paused"}
  /\ \E n \in 1 .. Len(line[b]) - 1 :
       /\ item[line[b][n]] # "processing" /\ item[line[b][n + 1]] # "processing"
       /\ line' = [line EXCEPT ![b] =
                     [@ EXCEPT ![n] = line[b][n + 1], ![n + 1] = line[b][n]]]
  /\ UNCHANGED <<mode, coord, cur, batch, item, retry, src, retries, job>>

DeleteItem(i) ==
  /\ Serving /\ item[i] \notin {"none", "gone", "processing"}
  /\ item' = [item EXCEPT ![i] = "gone"]
  /\ line' = [line EXCEPT ![BatchOf[i]] = RemoveAt(@, Place(i))]
  /\ retry' = retry \ {i} /\ src' = src \ {i}
  /\ UNCHANGED <<mode, coord, cur, batch, retries, job>>

-----------------------------------------------------------------------------
(* Start and stop of the service.                                          *)

Between == coord \in {"idle", "waiting", "sleep", "dead", "off"}

BeginStop ==
  /\ mode = "up" /\ Between
  /\ mode' = "stopping"
  /\ UNCHANGED <<coord, cur, tables, src, retries, job>>

(* The task leaves its loop, or is cancelled after three seconds: the      *)
(* cancellation reaches the job's future, and is mistaken for the job's    *)
(* own when the job has been asked to cancel.                              *)
StopWaiting ==
  /\ mode = "stopping" /\ coord = "waiting" /\ Awaited \notin done
  /\ IF item[cur] = "gone" THEN UNCHANGED <<item, retry>>
     ELSE IF Awaited \in asked
          THEN IF Result \in {"completed", "cancelled"}
               THEN PatchItem(cur, Result, FALSE)
               ELSE PatchItem(cur, "failed", TRUE)
          ELSE PatchItem(cur, "interrupted", TRUE)
  /\ src' = IF item'[cur] \in {"completed", "cancelled"} THEN src \ {cur} ELSE src
  /\ coord' = "off" /\ cur' = NoItem
  /\ Queue!Abandon(Awaited)
  /\ UNCHANGED <<mode, batch, line, retries>>

(* A task that died makes stop raise; the process ends all the same.       *)
StopIdle ==
  /\ mode = "stopping" /\ coord \in {"idle", "sleep", "dead"}
  /\ coord' = "off" /\ cur' = NoItem
  /\ UNCHANGED <<mode, tables, src, retries, job>>

ProcessEnds ==
  /\ mode' = "down" /\ coord' = "off" /\ cur' = NoItem
  /\ Queue!Forget
  /\ UNCHANGED <<tables, src, retries>>

Exit == mode = "stopping" /\ coord = "off" /\ ProcessEnds

Crash == mode # "down" /\ ProcessEnds

(* mutant: no recovery                                                     *)
StartOnly ==
  /\ mode = "down"
  /\ mode' = "up" /\ coord' = "idle"
  /\ UNCHANGED <<cur, tables, src, retries, job>>

(* recover_batches: processing -> interrupted -> queued                    *)
Start ==
  /\ mode = "down"
  /\ mode' = "up" /\ coord' = "idle"
  /\ LET back == {i \in Item : item[i] \in {"processing", "interrupted"}}
     IN /\ item' = [i \in Item |-> IF i \in back THEN "queued" ELSE item[i]]
        /\ retry' = retry \cup back
  /\ batch' = [b \in Batch |-> IF batch[b] = "processing" THEN "queued" ELSE batch[b]]
  /\ UNCHANGED <<cur, line, src, retries, job>>

-----------------------------------------------------------------------------
Coordinator ==
  \/ Pick \/ CloseBatches \/ Refuse \/ QueueFull \/ SleepEnds \/ Submit
  \/ MarkProcessing \/ Record \/ Unlink \/ Die

Requests ==
  \/ \E b \in Batch : \/ Create(b) \/ CancelBatch(b) \/ DeleteBatch(b) \/ Move(b)
                      \/ \E st \in {"queued", "paused"} : SetBatch(b, st)
  \/ \E i \in Item : Retry(i) \/ CancelItem(i) \/ ProcessNext(i) \/ DeleteItem(i)

Stop == StopWaiting \/ StopIdle \/ Exit

Next == Coordinator \/ QueueStep \/ Requests \/ BeginStop \/ Stop \/ Crash \/ Start

Spec == Init /\ [][Next]_vars

(* The loop runs the coordinator, the queue ends its jobs, and a queue     *)
(* that is full again and again is not full for ever.                      *)
FairSpec ==
  /\ Spec
  /\ WF_vars(Coordinator) /\ SF_vars(Submit \/ Refuse)
  /\ WF_vars(QueueStep) /\ WF_vars(Stop)

-----------------------------------------------------------------------------
(* Properties.                                                             *)

(* README: "Batch concurrency is one."  At most one item says processing,  *)
(* and while the service runs it is the one the coordinator awaits.        *)
OneItemProcessing ==
  \A i, k \in Item :
    /\ item[i] = "processing" /\ item[k] = "processing" => i = k
    /\ item[i] = "processing" /\ mode = "up" => cur = i /\ coord = "waiting"

(* README: shutdown "preserves its checksum-verified staged source, and    *)
(* safely requeues it": a running item has its source, and still has it    *)
(* when a shutdown interrupts it, a restart requeues it or its job fails.  *)
RunningKeepsSource ==
  [][\A i \in Item : item[i] = "processing" =>
       /\ i \in src
       /\ item'[i] \in {"processing", "interrupted", "queued", "failed"} => i \in src']_vars

(* A deleted item or batch leaves no source behind, whatever the           *)
(* coordinator was doing with it.                                          *)
NoStraySource ==
  \A i \in Item : item[i] \in {"none", "gone"} => i \notin src

(* A batch counts as completed only when every item in it is.              *)
CompletedMeansAll ==
  [][\A b \in Batch : batch[b] # "completed" /\ batch'[b] = "completed" =>
       \A i \in In(b) : item[i] = "completed"]_vars

(* The line of a batch has each of its items once, whatever was moved,     *)
(* put first or deleted: the coordinator misses none and meets none twice. *)
LinesWhole ==
  \A b \in Batch :
    /\ Range(line[b]) = In(b)
    /\ \A m, n \in DOMAIN line[b] : line[b][m] = line[b][n] => m = n

(* The coordinator processes one item at a time, keeps no source that no   *)
(* item needs and has every item in line.                                  *)
ItemsExclusive == OneItemProcessing /\ NoStraySource /\ LinesWhole

(* A running item keeps its source, and a batch is completed only with all *)
(* its items.                                                              *)
ClosedProperly == RunningKeepsSource /\ CompletedMeansAll

(* What makes these inductive: until the process ends, only the item the   *)
(* coordinator awaits says processing; it has its source, and so has the   *)
(* one whose job was just submitted; without a process there is no task.   *)
AwaitedOnly ==
  mode # "down" => \A i \in Item : item[i] = "processing" => cur = i /\ coord = "waiting"

SourceHeld ==
  /\ coord = "submitted" => cur \in src
  /\ \A i \in Item : item[i] = "processing" => i \in src

(* A coordinator at work holds an item that was created.                   *)
Holding ==
  coord \in {"picked", "submitted", "waiting", "recorded", "sleep"} =>
    cur \in Item /\ item[cur] # "none"

IInv ==
  /\ TypeOK
  /\ mode = "down" => coord = "off"
  /\ OneItemProcessing /\ NoStraySource /\ AwaitedOnly /\ SourceHeld
  /\ Holding /\ LinesWhole

(* A queued item of a running batch is taken by the coordinator, unless    *)
(* the batch is paused or cancelled, the service stops or the task died.   *)
ItemsTaken ==
  \A i \in Item :
    []<>(item[i] # "queued" \/ ~Running(BatchOf[i]) \/ mode # "up" \/ coord = "dead")

(* A processing batch without queued items is closed.                      *)
BatchesClose ==
  \A b \in Batch :
    []<>(batch[b] # "processing" \/ mode # "up" \/ coord = "dead")

(* The coordinator stops within its grace period, whatever it awaits.      *)
StopEnds == []<>(mode # "stopping")

(* README's diagram, "Queued --> Processing: local coordinator": while the *)
(* service runs there is a coordinator to take queued items.               *)
CoordinatorRuns ==
  \A i \in Item :
    item[i] = "queued" /\ Running(BatchOf[i]) ~>
      (item[i] # "queued" \/ ~Running(BatchOf[i]) \/ mode # "up")
=============================================================================
