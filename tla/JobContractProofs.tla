-------------------------- MODULE JobContractProofs --------------------------
(***************************************************************************)
(* The job queue implements JobContract, and admits no more jobs than it   *)
(* is configured for, for every number of jobs and every limit.            *)
(*                                                                         *)
(* Both need FutureAgrees on top of IInv: that cancel ends a job only      *)
(* while the worker may still take it is what makes a cancelled job        *)
(* "withdrawn" and not ended, and that no terminal entry becomes active    *)
(* unasked is what makes the admission test of submit enough.              *)
(***************************************************************************)
EXTENDS JobQueueProofs, FiniteSetTheorems

(* The small constant sets are expanded everywhere.                        *)
USE DEF Job, NoJob, Active, Terminal, Status, Steps

(* Pruning keeps every entry of a job that has not ended.                  *)
LEMMA PrunedKeepsActive ==
  ASSUME NEW T, NEW kept \in Pruned(T)
  PROVE  \A j \in T : status[j] \notin Terminal => j \in kept
BY DEF Pruned, Trim, TerminalIn

(* FutureAgrees holds initially.                                           *)
LEMMA InitFuture == Init => FutureAgrees
BY DEF Init, FutureAgrees, Takeable

(* A job enters with a future that waits, a place in the pool and one in   *)
(* the table.                                                              *)
LEMMA SubmitFuture ==
  ASSUME IInv, FutureAgrees, NEW d \in BOOLEAN, Submit(d)
  PROVE  FutureAgrees'
<1>1. last + 1 \in Job
  BY BoundsAssumption DEF IInv, TypeOK, Submit
<1>2. PICK kept \in Pruned(table) : table' = kept \cup {last + 1}
  BY DEF Submit
<1>3. \A j \in table : status[j] \notin Terminal => j \in table'
  BY <1>2, PrunedKeepsActive
<1> QED BY <1>1, <1>3, BoundsAssumption
        DEF IInv, TypeOK, PlaceAgrees, FutureAgrees, Takeable, Submit

(* A cancellation of a pending job cancels its future; any other one finds *)
(* a future that waits no longer, or a running job.                        *)
LEMMA CancelFuture ==
  ASSUME IInv, FutureAgrees, NEW k \in Job, Cancel(k)
  PROVE  FutureAgrees'
<1>1. \A j \in table : status[j] \notin Terminal => j \in table'
  BY PrunedKeepsActive DEF Cancel
<1>0. k <= last
  BY BoundsAssumption DEF IInv, TypeOK, PlaceAgrees, Cancel
<1>2. CASE status[k] = "pending" /\ fut[k] = "waiting"
  <2>1. FinishPost(k)
    BY <1>2, FinishEffect DEF Cancel, IInv
  <2> QED BY <1>0, <1>1, <1>2, <2>1
          DEF IInv, TypeOK, FutureAgrees, Takeable, Cancel, FinishPost, loopVars
<1>3. CASE ~(status[k] = "pending" /\ fut[k] = "waiting")
  BY <1>0, <1>1, <1>3 DEF IInv, TypeOK, FutureAgrees, Takeable, Cancel, loopVars
<1> QED BY <1>2, <1>3

(* The pool thread's own cancellations answer a request, and the rest of   *)
(* its steps touch no waiting job.                                         *)
LEMMA WorkerFuture ==
  ASSUME IInv, FutureAgrees, Worker
  PROVE  FutureAgrees'
<1>1. CASE \E j \in Job : Take(j)
  BY <1>1 DEF IInv, PlaceAgrees, FutureAgrees, Takeable, Take, loopVars
<1>2. CASE Check
  <2>0. job \in Job
    BY <1>2 DEF IInv, TypeOK, PlaceAgrees, Check
  <2>1. CASE job \in evt /\ FinishCancelled(job) /\ Leave
    <3>1. FinishPost(job)
      BY <2>0, <2>1, FinishEffect DEF IInv
    <3> QED BY <1>2, <2>0, <2>1, <3>1
            DEF IInv, TypeOK, PlaceAgrees, FutureAgrees, Takeable, Check, Leave,
                FinishPost, loopVars
  <2>2. CASE job \notin evt
    BY <1>2, <2>2 DEF FutureAgrees, Takeable, Check, Goto, loopVars
  <2> QED BY <1>2, <2>1, <2>2 DEF Check
<1>3. CASE Start
  BY <1>3 DEF IInv, TypeOK, PlaceAgrees, FutureAgrees, Takeable, Start, Goto, loopVars
<1>4. CASE Run \/ Artifacts \/ SaveResult \/ Unlink \/ PersistFinal
  BY <1>4 DEF IInv, PlaceAgrees, FutureAgrees, Takeable, Run, Artifacts, SaveResult,
              Unlink, PersistFinal, Goto, loopVars
<1>5. CASE Complete
  BY <1>5 DEF IInv, TypeOK, PlaceAgrees, FutureAgrees, Takeable, Complete, SetStatus,
              Goto, loopVars
<1>8. CASE Fail
  BY <1>8 DEF IInv, TypeOK, PlaceAgrees, FutureAgrees, Takeable, Fail, SetStatus, Goto,
              loopVars
<1>6. CASE CancelAtCheckpoint
  <2>1. job \in Job /\ FinishPost(job) /\ job \in evt
    BY <1>6, FinishEffect DEF IInv, TypeOK, PlaceAgrees, FilesAgree, CancelAtCheckpoint
  <2> QED BY <1>6, <2>1 DEF IInv, TypeOK, PlaceAgrees, FutureAgrees, Takeable,
             CancelAtCheckpoint, Goto, FinishPost, loopVars
<1>7. CASE Finally
  <2>1. \A j \in table : status[j] \notin Terminal => j \in table'
    BY <1>7, PrunedKeepsActive DEF Finally
  <2> QED BY <1>7, <2>1 DEF IInv, TypeOK, PlaceAgrees, FutureAgrees, Takeable, Finally,
             Leave, loopVars
<1> QED BY <1>1, <1>2, <1>3, <1>4, <1>5, <1>6, <1>7, <1>8 DEF Worker

(* Every step of the queue keeps FutureAgrees.                             *)
LEMMA NextFuture == IInv /\ FutureAgrees /\ [Next]_vars => FutureAgrees'
<1> SUFFICES ASSUME IInv, FutureAgrees, [Next]_vars PROVE FutureAgrees'
  OBVIOUS
<1>1. CASE Worker
  BY <1>1, WorkerFuture
<1>2. CASE Loop
  <2>1. CASE \E d \in BOOLEAN : Submit(d)
    BY <2>1, SubmitFuture
  <2>2. CASE Poll
    <3>1. \A j \in table : status[j] \notin Terminal => j \in table'
      BY <2>2, PrunedKeepsActive DEF Poll
    <3> QED BY <2>2, <3>1 DEF FutureAgrees, Takeable, Poll, loopVars
  <2>3. CASE \E j \in Job : Cancel(j)
    BY <2>3, CancelFuture
  <2>4. CASE \E j \in Job : DropCancelled(j)
    BY <2>4 DEF FutureAgrees, Takeable, DropCancelled, loopVars
  <2>5. CASE \E j \in Job : CancelWaiter(j)
    BY <2>5 DEF IInv, TypeOK, FutureAgrees, Takeable, CancelWaiter, loopVars
  <2>6. CASE BeginStop
    BY <2>6 DEF FutureAgrees, Takeable, BeginStop, memory
  <2>7. CASE Shutdown
    BY <2>7 DEF IInv, TypeOK, PlaceAgrees, FutureAgrees, Takeable, Shutdown, ActiveIn
  <2>8. CASE Drain
    BY <2>8 DEF FutureAgrees, Takeable, Drain, loopVars
  <2>9. CASE Exit
    BY <2>9 DEF FutureAgrees, Takeable, Exit, ProcessEnds
  <2> QED BY <1>2, <2>1, <2>2, <2>3, <2>4, <2>5, <2>6, <2>7, <2>8, <2>9 DEF Loop
<1>3. CASE Crash
  BY <1>3 DEF FutureAgrees, Takeable, Crash, ProcessEnds
<1>4. CASE Restart
  BY <1>4 DEF IInv, PlaceAgrees, FutureAgrees, Takeable, Restart, memory
<1>5. CASE UNCHANGED vars
  BY <1>5 DEF FutureAgrees, Takeable, vars, loopVars, memory
<1> QED BY <1>1, <1>2, <1>3, <1>4, <1>5 DEF Next

(* Futures, requests and the table agree in every reachable state.         *)
THEOREM FutureInvariance == Spec => [](IInv /\ FutureAgrees)
BY InitIInv, InitFuture, NextIInv, NextFuture, PTL DEF Spec

-----------------------------------------------------------------------------
(* The refinement.                                                         *)

(* The state the contract sees, and the futures it counts as resolved.     *)
StateOf(j) == IF status[j] \in Active THEN "active"
              ELSE IF status[j] = "cancelled" /\ Takeable(j) THEN "withdrawn"
              ELSE status[j]
Done == {j \in Job : fut[j] \in {"cancelled", "done"}}

Same == (\A j \in Job : StateOf(j)' = StateOf(j)) /\ evt' = evt /\ Done' = Done

(* Each action of the contract is a step of it.                            *)
LEMMA ContractActions ==
  /\ \A j \in Job : Contract!Accept(j) \/ Contract!Revive(j) \/ Contract!Resolve(j)
                      \/ Contract!Abandon(j) => Contract!ContractNext
  /\ \A j \in Job, outcome \in Terminal :
       Contract!End(j, outcome) => Contract!ContractNext
  /\ \A S \in SUBSET Job : Contract!Ask(S) \/ Contract!Drop(S) => Contract!ContractNext
  /\ Contract!Forget => Contract!ContractNext
BY Zenon DEF Contract!ContractNext, Contract!Ended

(* A step that leaves the mapped state alone is a stutter of the contract. *)
LEMMA SameStutters == Same => UNCHANGED Contract!contractVars
BY DEF Same, StateOf, Done, Contract!contractVars

(* A new job is accepted by the contract.                                  *)
LEMMA SubmitAccepts ==
  ASSUME IInv, FutureAgrees, NEW d \in BOOLEAN, Submit(d)
  PROVE  \E j \in Job : Contract!Accept(j)
<1>0. last + 1 \in Job
  BY BoundsAssumption DEF IInv, TypeOK, Submit
<1>1. StateOf(last + 1) = "none"
  BY <1>0, BoundsAssumption DEF IInv, TypeOK, PlaceAgrees, StateOf
<1>2. \A j \in Job : StateOf(j)' = IF j = last + 1 THEN "active" ELSE StateOf(j)
  BY <1>0 DEF IInv, TypeOK, StateOf, Takeable, Submit
<1>3. evt' = evt \ {last + 1}
  BY <1>0, BoundsAssumption DEF IInv, TypeOK, FutureAgrees, Submit
<1>4. Done' = Done \ {last + 1}
  BY <1>0 DEF IInv, TypeOK, Done, Submit
<1>5. PICK n \in Job : n = last + 1
  BY <1>0
<1>6. Contract!Accept(n)
  BY <1>1, <1>2, <1>3, <1>4, <1>5 DEF StateOf, Done, Contract!Accept
<1> QED BY <1>6

(* A cancellation withdraws the job or only asks for its end.              *)
LEMMA CancelAsks ==
  ASSUME IInv, FutureAgrees, NEW k \in Job, Cancel(k)
  PROVE  Contract!Ask({k})
<1>1. \A j \in Job \ {k} : StateOf(j)' = StateOf(j)
  <2>1. CASE status[k] = "pending" /\ fut[k] = "waiting"
    <3>1. FinishPost(k)
      BY <2>1, FinishEffect DEF Cancel, IInv
    <3> QED BY <2>1, <3>1 DEF StateOf, Takeable, Cancel, FinishPost
  <2>2. CASE ~(status[k] = "pending" /\ fut[k] = "waiting")
    BY <2>2 DEF StateOf, Takeable, Cancel
  <2> QED BY <2>1, <2>2
<1>2. CASE status[k] = "pending" /\ fut[k] = "waiting"
  <2>1. FinishPost(k)
    BY <1>2, FinishEffect DEF Cancel, IInv
  <2>2. StateOf(k)' = "withdrawn" /\ Done' = Done \cup {k}
    <3>1. StateOf(k)' = "withdrawn"
      BY <1>2, <2>1 DEF FutureAgrees, StateOf, Takeable, Cancel, FinishPost
    <3>2. fut' = [fut EXCEPT ![k] = "cancelled"]
      BY <1>2 DEF Cancel
    <3>3. Done' = Done \cup {k}
      BY <3>2 DEF IInv, TypeOK, Done
    <3> QED BY <3>1, <3>3
  <2> QED BY <1>1, <1>2, <2>2 DEF StateOf, Done, Cancel, Contract!Ask
<1>3. CASE ~(status[k] = "pending" /\ fut[k] = "waiting")
  <2>1. StateOf(k)' = StateOf(k) /\ Done' = Done
    BY <1>3 DEF StateOf, Done, Takeable, Cancel
  <2>2. StateOf(k) = "active" /\ evt' = evt \cup {k}
    BY DEF StateOf, Cancel
  <2>3. PICK C \in SUBSET {k} : C = {}
    OBVIOUS
  <2>4. \A j \in Job : StateOf(j)' = IF j \in C THEN "withdrawn" ELSE StateOf(j)
    BY <1>1, <2>1, <2>3
  <2>5. Done' = Done \cup C
    BY <2>1, <2>3
  <2> QED BY <2>2, <2>4, <2>5 DEF StateOf, Done, Contract!Ask
<1> QED BY <1>2, <1>3

(* The shutdown asks every active job, and withdraws the waiting ones.     *)
LEMMA ShutdownAsks ==
  ASSUME IInv, FutureAgrees, Shutdown
  PROVE  \E S \in SUBSET Job : Contract!Ask(S)
<1> DEFINE D == {j \in ActiveIn(table) : status[j] = "pending" /\ fut[j] = "waiting"}
<1>1. \A j \in Job : StateOf(j)' = IF j \in D THEN "withdrawn" ELSE StateOf(j)
  BY DEF IInv, TypeOK, FutureAgrees, StateOf, Takeable, Shutdown, ActiveIn
<1>2. Done' = Done \cup D
  <2>1. fut' = [j \in Job |-> IF j \in D THEN "cancelled" ELSE fut[j]]
    BY DEF Shutdown
  <2>2. D \subseteq Job
    BY DEF IInv, TypeOK, ActiveIn
  <2> HIDE DEF D
  <2> QED BY <2>1, <2>2 DEF Done
<1>3. evt' = evt \cup ActiveIn(table)
  BY DEF Shutdown
<1>4. \A j \in ActiveIn(table) : j \in Job /\ StateOf(j) = "active"
  BY DEF IInv, TypeOK, StateOf, ActiveIn
<1>5. D \in SUBSET ActiveIn(table)
  OBVIOUS
<1> HIDE DEF D
<1>6. PICK S \in SUBSET Job : S = ActiveIn(table)
  BY <1>4
<1>7. PICK C \in SUBSET S : C = D
  BY <1>5, <1>6
<1>8. Contract!Ask(S)
  BY <1>1, <1>2, <1>3, <1>4, <1>6, <1>7 DEF StateOf, Done, Contract!Ask
<1> QED BY <1>8

(* The pool thread revives a withdrawn job, drops it, ends an active one   *)
(* or resolves its future; everything else it does is a stutter.           *)
LEMMA WorkerStep ==
  ASSUME IInv, FutureAgrees, Worker
  PROVE  Contract!ContractNext \/ UNCHANGED Contract!contractVars
<1>0. pc # "idle" => job \in Job
  BY DEF IInv, TypeOK, PlaceAgrees
<1>1. CASE \E j \in Job : Take(j)
  <2>1. Same
    BY <1>1 DEF IInv, PlaceAgrees, Same, StateOf, Done, Takeable, Take
  <2> QED BY <2>1, SameStutters
<1>2. CASE Check
  <2>1. CASE job \notin evt
    <3>1. Same
      BY <1>2, <2>1 DEF Same, StateOf, Done, Takeable, Check, Goto
    <3> QED BY <3>1, SameStutters
  <2>2. CASE job \in evt /\ FinishCancelled(job) /\ Leave
    <3>0. job \in Job /\ FinishPost(job)
      BY <1>0, <1>2, <2>2, FinishEffect DEF IInv, Check
    <3>1. \A j \in Job : StateOf(j)' = IF j = job THEN "cancelled" ELSE StateOf(j)
      BY <1>2, <2>2, <3>0 DEF IInv, TypeOK, PlaceAgrees, StateOf, Takeable, Check, Leave,
         FinishPost
    <3>2. evt' = evt /\ Done' = Done
      BY <1>2, <2>2, <3>0 DEF IInv, TypeOK, PlaceAgrees, FutureAgrees, Done, Takeable,
         Check, Leave
    <3>3. CASE status[job] = "pending"
      <4>1. StateOf(job) = "active"
        BY <3>3 DEF StateOf
      <4>2. PICK k \in Job : k = job
        BY <3>0
      <4>3. Contract!End(k, "cancelled")
        BY <2>2, <3>1, <3>2, <4>1, <4>2 DEF StateOf, Done, Contract!End
      <4> QED BY <4>3, ContractActions
    <3>4. CASE status[job] = "cancelled"
      <4>1. StateOf(job) = "withdrawn"
        BY <1>2, <3>4 DEF StateOf, Takeable, Check
      <4>2. PICK k \in Job : k = job
        BY <3>0
      <4>3. Contract!Drop({k})
        BY <3>1, <3>2, <4>1, <4>2 DEF StateOf, Done, Contract!Drop
      <4> QED BY <4>3, ContractActions
    <3> QED BY <1>2, <3>3, <3>4 DEF IInv, PlaceAgrees, Check
  <2> QED BY <1>2, <2>1, <2>2 DEF Check
<1>3. CASE Start
  <2>0. job \in Job /\ evt' = evt /\ Done' = Done
    BY <1>0, <1>3 DEF Start, Done
  <2>1. \A j \in Job : StateOf(j)' = IF j = job THEN "active" ELSE StateOf(j)
    BY <1>3, <2>0 DEF IInv, TypeOK, PlaceAgrees, StateOf, Takeable, Start, Goto
  <2>2. CASE status[job] = "pending"
    <3>1. Same
      BY <2>0, <2>1, <2>2 DEF Same, StateOf
    <3> QED BY <3>1, SameStutters
  <2>3. CASE status[job] = "cancelled"
    <3>1. StateOf(job) = "withdrawn"
      BY <1>3, <2>3 DEF StateOf, Takeable, Start
    <3>2. PICK k \in Job : k = job
      BY <2>0
    <3>3. Contract!Revive(k)
      BY <2>0, <2>1, <3>1, <3>2 DEF StateOf, Done, Contract!Revive
    <3> QED BY <3>3, ContractActions
  <2> QED BY <1>3, <2>2, <2>3 DEF IInv, PlaceAgrees, Start
<1>4. CASE Run \/ Artifacts \/ SaveResult \/ Unlink \/ PersistFinal
  <2>1. Same
    BY <1>4 DEF Same, StateOf, Done, Takeable, Run, Artifacts, SaveResult, Unlink,
       PersistFinal, Goto
  <2> QED BY <2>1, SameStutters
<1>5. CASE Complete \/ Fail \/ CancelAtCheckpoint
  <2>0. job \in Job /\ status[job] = "processing" /\ evt' = evt /\ Done' = Done
    BY <1>0, <1>5 DEF IInv, PlaceAgrees, Complete, Fail, SetStatus, CancelAtCheckpoint, Done
  <2>1. PICK outcome \in Terminal :
          /\ \A j \in Job : StateOf(j)' = IF j = job THEN outcome ELSE StateOf(j)
          /\ outcome = "cancelled" => job \in evt
    <3>1. CASE Complete
      BY <2>0, <3>1 DEF IInv, TypeOK, PlaceAgrees, StateOf, Takeable, Complete, SetStatus, Goto
    <3>2. CASE Fail
      BY <2>0, <3>2 DEF IInv, TypeOK, PlaceAgrees, StateOf, Takeable, Fail, SetStatus, Goto
    <3>3. CASE CancelAtCheckpoint
      <4>1. FinishPost(job)
        BY <2>0, <3>3, FinishEffect DEF IInv, CancelAtCheckpoint
      <4> QED BY <2>0, <3>3, <4>1 DEF IInv, TypeOK, PlaceAgrees, FilesAgree, StateOf,
                 Takeable, CancelAtCheckpoint, FinishPost, Goto
    <3> QED BY <1>5, <3>1, <3>2, <3>3
  <2>2. StateOf(job) = "active"
    BY <2>0 DEF StateOf
  <2>3. PICK k \in Job : k = job
    BY <2>0
  <2>4. Contract!End(k, outcome)
    BY <2>0, <2>1, <2>2, <2>3 DEF StateOf, Done, Contract!End
  <2> QED BY <2>4, ContractActions
<1>6. CASE Finally
  <2>0. job \in Job /\ evt' = evt /\ StateOf(job) \in Terminal
    BY <1>0, <1>6 DEF IInv, PlaceAgrees, Finally, StateOf, Takeable
  <2>a. Done' = Done \cup {job}
    <3>1. fut' = [fut EXCEPT ![job] = IF @ = "waiting" THEN "done" ELSE @]
      BY <1>6 DEF Finally, Leave
    <3>2. fut[job] \in {"waiting", "cancelled", "done"}
      BY <1>6, <2>0 DEF IInv, TypeOK, FutureAgrees, Finally, PlaceAgrees
    <3> QED BY <2>0, <3>1, <3>2 DEF IInv, TypeOK, Done
  <2>1. \A j \in Job : StateOf(j)' = StateOf(j)
    BY <1>6 DEF IInv, PlaceAgrees, Finally, Leave, StateOf, Takeable
  <2>2. PICK k \in Job : k = job
    BY <2>0
  <2>3. Contract!Resolve(k)
    BY <2>0, <2>a, <2>1, <2>2 DEF StateOf, Done, Contract!Resolve, Contract!Ended
  <2> QED BY <2>3, ContractActions
<1> QED BY <1>1, <1>2, <1>3, <1>4, <1>5, <1>6 DEF Worker

(* The event loop accepts, asks, drops what it takes from the pool and     *)
(* abandons a waiter; an exit or a crash forgets everything.               *)
LEMMA LoopStep ==
  ASSUME IInv, FutureAgrees, Loop \/ Crash \/ Restart
  PROVE  Contract!ContractNext \/ UNCHANGED Contract!contractVars
<1>1. CASE \E d \in BOOLEAN : Submit(d)
  BY <1>1, SubmitAccepts, ContractActions
<1>2. CASE \E j \in Job : Cancel(j)
  BY <1>2, CancelAsks, ContractActions
<1>3. CASE Shutdown
  BY <1>3, ShutdownAsks, ContractActions
<1>4. CASE (\E j \in Job : DropCancelled(j)) \/ Drain
  <2> DEFINE S == {j \in Job : StateOf(j) = "withdrawn" /\ StateOf(j)' # "withdrawn"}
  <2>1. \A j \in Job : StateOf(j)' = IF j \in S THEN "cancelled" ELSE StateOf(j)
    BY <1>4 DEF StateOf, Takeable, DropCancelled, Drain
  <2>2. evt' = evt /\ Done' = Done
    BY <1>4 DEF Done, DropCancelled, Drain
  <2>3. S \in SUBSET Job /\ \A j \in S : StateOf(j) = "withdrawn"
    OBVIOUS
  <2> HIDE DEF S
  <2>4. PICK C \in SUBSET Job : C = S
    BY <2>3
  <2>5. Contract!Drop(C)
    BY <2>1, <2>2, <2>3, <2>4 DEF StateOf, Done, Contract!Drop
  <2> QED BY <2>5, ContractActions
<1>5. CASE \E j \in Job : CancelWaiter(j)
  <2>1. PICK j \in Job : CancelWaiter(j)
    BY <1>5
  <2>2. /\ \A k \in Job : StateOf(k)' = StateOf(k)
        /\ evt' = evt /\ Done' = Done \cup {j}
    BY <2>1 DEF IInv, TypeOK, CancelWaiter, StateOf, Takeable, Done
  <2>3. Contract!Abandon(j)
    BY <2>2 DEF StateOf, Done, Contract!Abandon
  <2> QED BY <2>3, ContractActions
<1>6. CASE Exit \/ Crash
  <2>1. Contract!Forget
    BY <1>6 DEF Exit, Crash, ProcessEnds, Takeable, Contract!Forget
  <2> QED BY <2>1, ContractActions
<1>7. CASE Poll \/ BeginStop \/ Restart
  <2>1. Same
    BY <1>7 DEF Same, StateOf, Done, Takeable, Poll, BeginStop, Restart, memory
  <2> QED BY <2>1, SameStutters
<1> QED BY <1>1, <1>2, <1>3, <1>4, <1>5, <1>6, <1>7 DEF Loop

(* The queue implements the contract: its initial state maps to the        *)
(* contract's, and each of its steps to a step of the contract or none.    *)
THEOREM Refinement == Spec => KeepsContract
<1>1. Init => Contract!ContractInit
  BY DEF Init, Contract!ContractInit
<1>2. IInv /\ FutureAgrees /\ [Next]_vars
        => [Contract!ContractNext]_(Contract!contractVars)
  <2> SUFFICES ASSUME IInv, FutureAgrees, [Next]_vars
               PROVE  Contract!ContractNext \/ UNCHANGED Contract!contractVars
    OBVIOUS
  <2>1. CASE Next
    BY <2>1, WorkerStep, LoopStep DEF Next
  <2>2. CASE UNCHANGED vars
    <3>1. Same
      BY <2>2 DEF Same, StateOf, Done, Takeable, vars, memory
    <3> QED BY <3>1, SameStutters
  <2> QED BY <2>1, <2>2
<1> QED BY <1>1, <1>2, FutureInvariance, PTL DEF Spec, KeepsContract, Contract!ContractSpec

-----------------------------------------------------------------------------
(* Admission.                                                              *)

(* The jobs that count against the limit.                                  *)
Unasked == {j \in Job \ evt : status[j] \in Active}

(* A set of jobs is finite.                                                *)
LEMMA JobFinite == \A S \in SUBSET Job : IsFiniteSet(S) /\ Cardinality(S) \in Nat
<1>1. IsFiniteSet(Job)
  BY BoundsAssumption, FS_Interval
<1>2. \A S \in SUBSET Job : IsFiniteSet(S)
  BY <1>1, FS_Subset
<1> QED BY <1>2, FS_CardinalityType

(* No step but an admission makes a job active that nobody asked to end.   *)
LEMMA UnaskedShrinks ==
  ASSUME IInv, FutureAgrees, [Next]_vars, ~ \E d \in BOOLEAN : Submit(d)
  PROVE  Unasked' \subseteq Unasked
<1> SUFFICES ASSUME NEW j \in Job, j \notin evt', status'[j] \in Active
             PROVE  j \notin evt /\ status[j] \in Active
  BY DEF Unasked
<1>1. CASE Worker
  <2>1. evt' = evt
    BY <1>1 DEF Worker, Take, Check, Start, Run, Artifacts, SaveResult, Unlink, Complete,
       Fail, SetStatus, PersistFinal, CancelAtCheckpoint, Finally
  <2>2. CASE Start
    BY <2>1, <2>2 DEF IInv, TypeOK, PlaceAgrees, FutureAgrees, Start
  <2>3. CASE Complete \/ Fail
    BY <2>1, <2>3 DEF IInv, TypeOK, Complete, Fail, SetStatus
  <2>4. CASE Check \/ CancelAtCheckpoint
    BY <2>1, <2>4 DEF IInv, TypeOK, Check, CancelAtCheckpoint, FinishCancelled
  <2>5. CASE UNCHANGED status
    BY <2>1, <2>5
  <2> QED BY <1>1, <2>2, <2>3, <2>4, <2>5 DEF Worker, Take, Run, Artifacts, SaveResult,
             Unlink, PersistFinal, Finally
<1>2. CASE \E k \in Job : Cancel(k)
  <2>1. PICK k \in Job : Cancel(k)
    BY <1>2
  <2>2. j # k /\ j \notin evt
    BY <2>1 DEF Cancel
  <2>3. status'[j] = status[j]
    BY <2>1, <2>2 DEF IInv, TypeOK, Cancel, FinishCancelled
  <2> QED BY <2>2, <2>3
<1>3. CASE Shutdown
  BY <1>3 DEF IInv, TypeOK, Shutdown, ActiveIn
<1>4. CASE Exit \/ Crash
  BY <1>4 DEF Exit, Crash, ProcessEnds
<1>5. CASE UNCHANGED <<status, evt>>
  BY <1>5
<1>6. \/ Worker \/ Shutdown \/ Exit \/ Crash \/ UNCHANGED <<status, evt>>
      \/ \E k \in Job : Cancel(k)
  BY DEF Next, Loop, Poll, DropCancelled, CancelWaiter, BeginStop, Drain, Restart, memory, vars
<1> QED BY <1>1, <1>2, <1>3, <1>4, <1>5, <1>6

(* An admission adds one job, and only below the limit: the active jobs    *)
(* nobody asked to end are all in the table that submit counts.            *)
LEMMA AdmissionBounded ==
  ASSUME IInv, FutureAgrees, NEW d \in BOOLEAN, Submit(d)
  PROVE  Cardinality(Unasked') <= 1 + MaxQueued
<1>1. PICK kept \in Pruned(table) : Cardinality(ActiveIn(kept)) < 1 + MaxQueued
  BY DEF Submit
<1>2. kept \in SUBSET Job /\ ActiveIn(kept) \in SUBSET Job
  BY PrunedSubset DEF IInv, TypeOK, ActiveIn
<1>3. last + 1 \in Job /\ Unasked' \in SUBSET Job
  BY BoundsAssumption DEF IInv, TypeOK, Submit, Unasked
<1>4. Unasked' \subseteq ActiveIn(kept) \cup {last + 1}
  <2>1. \A j \in table : status[j] \notin Terminal => j \in kept
    BY PrunedKeepsActive
  <2> SUFFICES ASSUME NEW j \in Job, j \notin evt', status'[j] \in Active, j # last + 1
               PROVE  j \in ActiveIn(kept)
    BY DEF Unasked
  <2>2. status[j] \in Active /\ j \notin evt
    BY DEF IInv, TypeOK, Submit
  <2>3. j \in table
    BY <2>2 DEF FutureAgrees
  <2> QED BY <2>1, <2>2, <2>3 DEF ActiveIn
<1>5. /\ IsFiniteSet(ActiveIn(kept) \cup {last + 1})
      /\ Cardinality(ActiveIn(kept) \cup {last + 1}) <= Cardinality(ActiveIn(kept)) + 1
  <2>1. IsFiniteSet(ActiveIn(kept)) /\ Cardinality(ActiveIn(kept)) \in Nat
    BY <1>2, JobFinite
  <2>2. CASE last + 1 \in ActiveIn(kept)
    <3>1. ActiveIn(kept) \cup {last + 1} = ActiveIn(kept)
      BY <2>2
    <3> QED BY <2>1, <3>1
  <2>3. CASE last + 1 \notin ActiveIn(kept)
    <3>1. Cardinality(ActiveIn(kept) \cup {last + 1}) = Cardinality(ActiveIn(kept)) + 1
      BY <2>1, <2>3, FS_AddElement
    <3>2. IsFiniteSet(ActiveIn(kept) \cup {last + 1})
      BY <2>1, FS_AddElement
    <3> QED BY <2>1, <3>1, <3>2
  <2> QED BY <2>2, <2>3
<1>6. Cardinality(Unasked') <= Cardinality(ActiveIn(kept) \cup {last + 1})
  BY <1>4, <1>5, FS_Subset
<1>7. /\ Cardinality(ActiveIn(kept)) \in Nat /\ Cardinality(Unasked') \in Nat
      /\ Cardinality(ActiveIn(kept) \cup {last + 1}) \in Nat
  BY <1>2, <1>3, <1>5, JobFinite, FS_CardinalityType
<1> QED BY <1>1, <1>5, <1>6, <1>7, BoundsAssumption

(* At most one running and max_queued_jobs waiting jobs are admitted, and  *)
(* none of them is pruned, whatever is cancelled or pruned around them.    *)
THEOREM Capacity == Spec => []CapacityRespected
<1> DEFINE Fits == Cardinality(Unasked) <= 1 + MaxQueued
<1>1. Init => Fits
  <2> SUFFICES ASSUME Init PROVE Fits
    OBVIOUS
  <2>1. Unasked = {}
    BY DEF Init, Unasked
  <2> QED BY <2>1, FS_EmptySet, BoundsAssumption
<1>2. IInv /\ FutureAgrees /\ Fits /\ [Next]_vars => Fits'
  <2> SUFFICES ASSUME IInv, FutureAgrees, Fits, [Next]_vars PROVE Fits'
    OBVIOUS
  <2>1. CASE \E d \in BOOLEAN : Submit(d)
    BY <2>1, AdmissionBounded
  <2>2. CASE ~ \E d \in BOOLEAN : Submit(d)
    <3>1. Unasked' \subseteq Unasked
      BY <2>2, UnaskedShrinks
    <3>2. Unasked \in SUBSET Job /\ Unasked' \in SUBSET Job
      BY <3>1 DEF Unasked
    <3>3. Cardinality(Unasked') <= Cardinality(Unasked)
      BY <3>1, <3>2, JobFinite, FS_Subset
    <3>4. Cardinality(Unasked) \in Nat /\ Cardinality(Unasked') \in Nat
      BY <3>2, JobFinite
    <3> QED BY <3>3, <3>4, BoundsAssumption
  <2> QED BY <2>1, <2>2
<1>3. FutureAgrees /\ Fits => CapacityRespected
  BY DEF FutureAgrees, Unasked, CapacityRespected
<1> QED BY <1>1, <1>2, <1>3, FutureInvariance, PTL DEF Spec

=============================================================================
