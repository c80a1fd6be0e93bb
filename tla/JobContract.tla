---------------------------- MODULE JobContract ----------------------------
(***************************************************************************)
(* What the OCR job queue (app/core/queue.py) promises the callers of      *)
(* submit, cancel and wait_for_result.  JobQueue implements it; the batch  *)
(* coordinator is built on it.                                             *)
(***************************************************************************)
CONSTANT Job

VARIABLES state,   \* what get_result reports of a job; "withdrawn" is reported
                   \* as cancelled, but the worker may have taken the job
          asked,   \* jobs whose cancellation was requested
          done     \* jobs whose future no longer makes wait_for_result wait

contractVars == <<state, asked, done>>

Ended == {"completed", "failed", "cancelled"}
Reported(j) == IF state[j] = "withdrawn" THEN "cancelled" ELSE state[j]

ContractInit ==
  state = [j \in Job |-> "none"] /\ asked = {} /\ done = {}

Accept(j) ==
  /\ state[j] = "none"
  /\ state' = [state EXCEPT ![j] = "active"]
  /\ asked' = asked \ {j} /\ done' = done \ {j}

(* cancel, and shutdown for all active jobs: some of them end here, and    *)
(* their futures with them; the others are asked to.                       *)
Ask(S) ==
  /\ \A j \in S : state[j] = "active"
  /\ asked' = asked \cup S
  /\ \E D \in SUBSET S :
       /\ state' = [j \in Job |-> IF j \in D THEN "withdrawn" ELSE state[j]]
       /\ done' = done \cup D

(* The worker ends a job: a cancellation only where one was requested, but *)
(* a request does not keep the job from completing or failing.             *)
End(j, outcome) ==
  /\ state[j] = "active"
  /\ outcome \in {"completed", "failed"} \/ (outcome = "cancelled" /\ j \in asked)
  /\ state' = [state EXCEPT ![j] = outcome]
  /\ UNCHANGED <<asked, done>>

(* A withdrawn job the worker had already taken runs all the same, once;   *)
(* otherwise the worker drops it.                                          *)
Revive(j) ==
  /\ state[j] = "withdrawn"
  /\ state' = [state EXCEPT ![j] = "active"]
  /\ UNCHANGED <<asked, done>>

Drop(S) ==
  /\ \A j \in S : state[j] = "withdrawn"
  /\ state' = [j \in Job |-> IF j \in S THEN "cancelled" ELSE state[j]]
  /\ UNCHANGED <<asked, done>>

(* The future resolves after the job has ended ...                         *)
Resolve(j) ==
  /\ state[j] \in Ended
  /\ done' = done \cup {j}
  /\ UNCHANGED <<state, asked>>

(* ... or is cancelled together with the task that awaits it.              *)
Abandon(j) ==
  /\ done' = done \cup {j}
  /\ UNCHANGED <<state, asked>>

(* The process ends and with it everything the queue knew.                 *)
Forget ==
  state' = [j \in Job |-> "none"] /\ asked' = {} /\ done' = {}

ContractNext ==
  \/ \E j \in Job : Accept(j) \/ Revive(j) \/ Resolve(j) \/ Abandon(j)
  \/ \E j \in Job, outcome \in Ended : End(j, outcome)
  \/ \E S \in SUBSET Job : Ask(S) \/ Drop(S)
  \/ Forget

ContractSpec == ContractInit /\ [][ContractNext]_contractVars
=============================================================================
