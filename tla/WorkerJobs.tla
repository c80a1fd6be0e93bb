----------------------------- MODULE WorkerJobs -----------------------------
(***************************************************************************)
(* OCR work an institution hands to enrolled devices: the worker endpoints *)
(* of the institution server (institution_server/workers.py) and the loop  *)
(* on the device that claims, processes and reports one job at a time      *)
(* (ocr-studio app/institution/worker.py).                                 *)
(*                                                                         *)
(* One server process: a handler is atomic up to an await.  The one handler*)
(* that awaits between reading a job and writing it is the artifact upload;*)
(* it writes the whole payload back as it read it (UploadRead,             *)
(* UploadWrite).  Requests of a device can time out while their handler    *)
(* goes on.                                                                *)
(***************************************************************************)
EXTENDS Naturals, FiniteSets

CONSTANTS Worker,
          NJobs,      \* bound of the model: jobs an institution creates
          Content,    \* the sha256 of the source of each job
          Able,       \* jobs whose workflow a worker's capabilities name
          MaxFaults   \* bound of the model: crashes, timeouts, lost answers

WorkerAssumption == /\ NJobs \in Nat /\ MaxFaults \in Nat
                    /\ DOMAIN Content = 1 .. NJobs
                    /\ Able \in [Worker -> SUBSET (1 .. NJobs)]

Job == 1 .. NJobs
NoJob == 0
Nobody == "nobody"

VARIABLES
  device,   \* worker_devices.status
  phase,    \* where run_worker_once is on the device ("idle": it polls next)
  at,       \* the job of its envelope
  jst,      \* resources.status of the worker_job, "none" before creation
  pay,      \* of its payload: worker_id, lease, the workers whose outputs
            \* uploaded_artifacts lists, and whether it has a result
  sst,      \* status of the worker_source
  obj,      \* stored source objects
  inflight, \* what an upload handler read before it awaited the file
  faults

server == <<device, jst, pay, sst, obj>>
vars == <<server, phase, at, inflight, faults>>

Terminal == {"completed", "failed"}
Payload == [holder : Worker \cup {Nobody}, lease : {"none", "live", "over"},
            files : SUBSET Worker, result : BOOLEAN]
Blank == [holder |-> Nobody, lease |-> "none", files |-> {}, result |-> FALSE]
NoUpload == [job |-> NoJob, read |-> Blank]

TypeOK ==
  /\ device \in [Worker -> {"active", "draining", "revoked"}]
  /\ phase \in [Worker -> {"idle", "claimed", "uploading", "posting",
                           "reporting"}]
  /\ at \in [Worker -> Job \cup {NoJob}]
  /\ jst \in [Job -> {"none", "queued", "claimed"} \cup Terminal]
  /\ pay \in [Job -> Payload]
  /\ sst \in [Job -> {"none", "staged", "assigned", "consumed", "expired"}]
  /\ obj \subseteq {Content[j] : j \in Job}
  /\ inflight \in [Worker -> [job : Job \cup {NoJob}, read : Payload]]
  /\ faults \in 0 .. MaxFaults

Init ==
  /\ device = [w \in Worker |-> "active"]
  /\ phase = [w \in Worker |-> "idle"] /\ at = [w \in Worker |-> NoJob]
  /\ jst = [j \in Job |-> "none"] /\ pay = [j \in Job |-> Blank]
  /\ sst = [j \in Job |-> "none"] /\ obj = {}
  /\ inflight = [w \in Worker |-> NoUpload]
  /\ faults = 0

Fault == faults < MaxFaults /\ faults' = faults + 1

-----------------------------------------------------------------------------
(* The institution's side.                                                 *)

(* mutant: the sweep takes objects still in use                            *)
SweptWithObjects(old) ==
  /\ sst' = [j \in Job |-> IF j \in old /\ sst[j] = "staged" THEN "expired" ELSE sst[j]]
  /\ obj' = obj \ {Content[j] : j \in old}

(* _expire_staged_sources: any staged source may be older than 24 hours.   *)
(* It runs first in a stage request, which then awaits the file, and in    *)
(* every poll of a device.                                                 *)
Swept(old) ==
  /\ old \subseteq {j \in Job : sst[j] = "staged"}
  /\ sst' = [j \in Job |-> IF j \in old THEN "expired" ELSE sst[j]]
  /\ obj' = obj \ {Content[j] : j \in old}

Sweep ==
  /\ \E old \in SUBSET Job : Swept(old)
  /\ UNCHANGED <<device, jst, pay, phase, at, inflight, faults>>

(* stage_worker_source: objects are named by their content                 *)
Stage(j) ==
  /\ sst[j] = "none" /\ \A k \in Job : k < j => sst[k] # "none"
  /\ sst' = [sst EXCEPT ![j] = "staged"]
  /\ obj' = obj \cup {Content[j]}
  /\ UNCHANGED <<device, jst, pay, phase, at, inflight, faults>>

(* create_worker_job commits the job and then the assigned source: the     *)
(* process can end in between.                                             *)
CreateJob(j) ==
  /\ jst[j] = "none" /\ sst[j] = "staged" /\ Content[j] \in obj
  /\ jst' = [jst EXCEPT ![j] = "queued"]
  /\ \/ sst' = [sst EXCEPT ![j] = "assigned"] /\ UNCHANGED faults
     \/ Fault /\ UNCHANGED sst
  /\ UNCHANGED <<device, pay, obj, phase, at, inflight>>

(* mutant: a release blanks the worker instead of removing it              *)
ReleasedBlank(p) == [p EXCEPT !.holder = "none", !.lease = "none"]
Released(p) == [p EXCEPT !.holder = Nobody, !.lease = "none"]

(* update_worker_state: revocation is final and releases claimed jobs      *)
SetWorker(w, st) ==
  /\ device[w] # st /\ device[w] # "revoked"
  /\ device' = [device EXCEPT ![w] = st]
  /\ LET freed == IF st # "revoked" THEN {}
                  ELSE {j \in Job : jst[j] = "claimed" /\ pay[j].holder = w}
     IN /\ jst' = [j \in Job |-> IF j \in freed THEN "queued" ELSE jst[j]]
        /\ pay' = [j \in Job |-> IF j \in freed THEN Released(pay[j]) ELSE pay[j]]
  /\ UNCHANGED <<sst, obj, phase, at, inflight, faults>>

(* two hours pass                                                          *)
LeaseEnds(j) ==
  /\ jst[j] = "claimed" /\ pay[j].lease = "live"
  /\ pay' = [pay EXCEPT ![j].lease = "over"]
  /\ UNCHANGED <<device, jst, sst, obj, phase, at, inflight, faults>>

-----------------------------------------------------------------------------
(* The device and the handlers it calls.                                   *)

Goto(w, label) ==
  /\ phase' = [phase EXCEPT ![w] = label]
  /\ at' = IF label = "idle" THEN [at EXCEPT ![w] = NoJob] ELSE at

(* claim_worker_job: stale claims are released, then the oldest queued job *)
(* is taken, if this worker can do it; a draining worker gets nothing.  An *)
(* answer that is lost leaves the claim to its lease.                      *)
StaleNever == {}  \* mutant: nobody looks at the leases
Stale == {j \in Job : jst[j] = "claimed" /\ pay[j].lease # "live"}
Open == Stale \cup {j \in Job : jst[j] = "queued"}
Oldest(S) == {j \in S : \A k \in S : j <= k}

Assign(w, taken) ==
  /\ jst' = [j \in Job |-> IF j \in taken THEN "claimed"
                          ELSE IF j \in Stale THEN "queued" ELSE jst[j]]
  /\ pay' = [j \in Job |->
               IF j \in taken THEN [pay[j] EXCEPT !.holder = w, !.lease = "live"]
               ELSE IF j \in Stale THEN Released(pay[j]) ELSE pay[j]]

Claim(w) ==
  /\ phase[w] = "idle" /\ device[w] # "revoked"
  /\ \E old \in SUBSET Job : Swept(old)
  /\ IF device[w] = "draining"
     THEN UNCHANGED <<jst, pay, phase, at, faults>>
     ELSE LET taken == Oldest(Open) \cap Able[w]
          IN /\ Assign(w, taken)
             /\ \/ taken = {} /\ UNCHANGED <<phase, at, faults>>
                \/ \E j \in taken : /\ phase' = [phase EXCEPT ![w] = "claimed"]
                                    /\ at' = [at EXCEPT ![w] = j]
                                    /\ UNCHANGED faults
                \/ taken # {} /\ Fault /\ UNCHANGED <<phase, at>>
  /\ UNCHANGED <<device, inflight>>

(* mutant: a report is taken whatever the state of the job                 *)
HoldsInAnyState(w) == device[w] # "revoked" /\ pay[at[w]].holder = w
Holds(w) ==
  /\ device[w] # "revoked"
  /\ jst[at[w]] = "claimed" /\ pay[at[w]].holder = w

(* download_worker_source, and the isolated JobQueue on the device: what is *)
(* not completed is reported as failed                                     *)
Process(w) ==
  /\ phase[w] = "claimed"
  /\ \/ /\ Holds(w) /\ sst[at[w]] = "assigned" /\ Content[at[w]] \in obj
        /\ Goto(w, "uploading")
     \/ Goto(w, "reporting")
  /\ UNCHANGED <<server, inflight, faults>>

UploadRead(w) ==
  /\ phase[w] = "uploading" /\ inflight[w] = NoUpload
  /\ IF Holds(w)
     THEN /\ inflight' = [inflight EXCEPT ![w] = [job |-> at[w], read |-> pay[at[w]]]]
          /\ UNCHANGED <<phase, at>>
     ELSE Goto(w, "reporting") /\ UNCHANGED inflight
  /\ UNCHANGED <<server, faults>>

(* the payload as it was read, with the new artifact, replaces the job's   *)
UploadWrite(w) ==
  LET j == inflight[w].job
  IN /\ inflight[w] # NoUpload
     /\ pay' = [pay EXCEPT ![j] =
                  [inflight[w].read EXCEPT !.files = @ \cup {w}]]
     /\ inflight' = [inflight EXCEPT ![w] = NoUpload]
     /\ IF phase[w] = "uploading" /\ at[w] = j
        THEN Goto(w, "posting") ELSE UNCHANGED <<phase, at>>
     /\ UNCHANGED <<device, jst, sst, obj, faults>>

(* publish_worker_result                                                   *)
Answer(w, st) ==
  /\ jst' = [jst EXCEPT ![at[w]] = st]
  /\ pay' = [pay EXCEPT ![at[w]].result = TRUE]
  /\ sst' = [sst EXCEPT ![at[w]] = "consumed"]

(* The object is deleted after the commit; a failure of that is logged.    *)
RemoveObject(w) == obj' = obj \ {Content[at[w]]}
TryRemoveObject(w) == \/ RemoveObject(w) /\ UNCHANGED faults
                      \/ Fault /\ UNCHANGED obj

Known(w) == device[w] # "revoked" /\ pay[at[w]].holder = w

Accepted(w) == Holds(w) /\ w \in pay[at[w]].files
Replayed(w) == Known(w) /\ jst[at[w]] \in Terminal

PostResult(w) ==
  /\ phase[w] = "posting"
  /\ \/ /\ Accepted(w) /\ Answer(w, "completed")
        /\ \/ TryRemoveObject(w) /\ Goto(w, "idle")
           \/ RemoveObject(w) /\ Fault /\ Goto(w, "reporting")
     \/ /\ ~Accepted(w)
        /\ Goto(w, IF Replayed(w) THEN "idle" ELSE "reporting")
        /\ UNCHANGED <<jst, pay, sst, obj, faults>>
  /\ UNCHANGED <<device, inflight>>

(* the report of a failure is not repeated, whatever becomes of it; the    *)
(* loop of the device ends with it and is started again by its owner       *)
Report(w) ==
  /\ phase[w] = "reporting"
  /\ \/ Holds(w) /\ Answer(w, "failed") /\ TryRemoveObject(w)
     \/ ~Holds(w) /\ UNCHANGED <<jst, pay, sst, obj, faults>>
     \/ Fault /\ UNCHANGED <<jst, pay, sst, obj>>
  /\ Goto(w, "idle")
  /\ UNCHANGED <<device, inflight>>

(* a request of the device times out, before or after it is answered; a    *)
(* handler that waits for the file goes on                                 *)
Timeout(w) ==
  /\ phase[w] \in {"claimed", "uploading", "posting"} /\ Fault
  /\ Goto(w, "reporting")
  /\ UNCHANGED <<server, inflight>>

DeviceCrash(w) ==
  /\ phase[w] # "idle" /\ Fault
  /\ Goto(w, "idle")
  /\ UNCHANGED <<server, inflight>>

-----------------------------------------------------------------------------
DeviceStep(w) ==
  \/ Process(w) \/ UploadRead(w) \/ UploadWrite(w)
  \/ PostResult(w) \/ Report(w)

Next ==
  \/ Sweep
  \/ \E j \in Job : Stage(j) \/ CreateJob(j) \/ LeaseEnds(j)
  \/ \E w \in Worker :
       \/ Claim(w) \/ DeviceStep(w) \/ Timeout(w) \/ DeviceCrash(w)
       \/ \E st \in {"active", "draining", "revoked"} : SetWorker(w, st)

Spec == Init /\ [][Next]_vars

(* Devices poll and go on, handlers return, two hours pass.                *)
FairSpec ==
  /\ Spec
  /\ \A w \in Worker : WF_vars(DeviceStep(w))
  /\ WF_vars(\E w \in Worker : Claim(w))
  /\ \A j \in Job : WF_vars(LeaseEnds(j))

-----------------------------------------------------------------------------
(* Properties.                                                             *)

(* "terminal replay is idempotent": what a job ended as is not changed by  *)
(* a late or repeated report, a released lease or a revocation.            *)
OutcomeKept ==
  [][\A j \in Job : jst[j] \in Terminal => jst'[j] = jst[j]]_vars

(* A job that waits or runs finds its source: the sweep of expired sources *)
(* does not remove it.  Sources of one content are one object, though: it  *)
(* goes with the first of them that ends or expires.                       *)
SameContent(j, status) == \E k \in Job : Content[k] = Content[j] /\ sst[k] \in status

SourceAvailable ==
  \A j \in Job : jst[j] \in {"queued", "claimed"} /\ sst[j] = "assigned"
                   => Content[j] \in obj \/ SameContent(j, {"consumed", "expired"})

(* README of the server: "The staged source is removed when the job        *)
(* reaches a terminal state."  No source outlives its job or ends before   *)
(* it, and its object stays only when something failed, or until another   *)
(* source of its content ends.                                             *)
SourceRemoved ==
  \A j \in Job :
    /\ sst[j] = "consumed" <=> jst[j] \in Terminal
    /\ jst[j] \in Terminal /\ Content[j] \in obj
         => faults > 0 \/ SameContent(j, {"staged", "assigned"})

(* A claim whose device is gone, whose answer was lost or whose worker was *)
(* revoked is taken over: an open job nobody works on is taken up, as long *)
(* as a worker that can do it is active.                                   *)
OpenJobsTaken ==
  \A j \in Job :
    []<>(\/ jst[j] \in Terminal \cup {"none"}
         \/ \E w \in Worker : at[w] = j
         \/ \A w \in Worker : device[w] # "active" \/ j \notin Able[w])

(* README: revocation "safely requeues any claimed job after removing that *)
(* worker's lease metadata": an open job keeps no lease of a revoked one.  *)
RevokedLeaseRemoved ==
  \A w \in Worker, j \in Job :
    device[w] = "revoked" /\ jst[j] \in {"queued", "claimed"} => pay[j].holder # w

(* A staged source is there while its job needs it and goes when the job   *)
(* ends.                                                                   *)
SourceFollowsJob == SourceAvailable /\ SourceRemoved

(* Why it holds: an assigned source has its object whatever became of its  *)
(* job, and every handler works on a job.                                  *)
AssignedKept ==
  \A j \in Job : sst[j] = "assigned"
                   => Content[j] \in obj \/ SameContent(j, {"consumed", "expired"})

OnJobs ==
  \A w \in Worker : /\ phase[w] # "idle" => at[w] \in Job
                    /\ inflight[w] # NoUpload => inflight[w].job \in Job

IInv == TypeOK /\ OnJobs /\ AssignedKept /\ SourceRemoved
=============================================================================
