--------------------------- MODULE InstitutionProofs ---------------------------
(***************************************************************************)
(* What travels between the institution server and the machines around it, *)
(* proved for every number of devices, jobs, selections, replicas, passes, *)
(* deliveries, handlers and requests, and every bound on the faults.       *)
(*                                                                         *)
(* Each part has its inductive invariant IInv in its module: one lemma for *)
(* each action shows that it is kept, a lemma ...Next puts these together, *)
(* and ...Rest says that the steps of the other parts, which may only      *)
(* raise the common count of faults, leave it.                             *)
(***************************************************************************)
EXTENDS InstitutionScene, TLAPS, WellFoundedInduction

(* Worker jobs.  An assigned source has its object whatever became of its  *)
(* job (AssignedKept), and every handler works on a job (OnJobs).          *)
USE DEF NoJob, Terminal

LEMMA JobsBlank == Blank \in Payload /\ Blank.holder = Nobody
BY DEF Blank, Payload

(* A device that is called idle has no job, one that goes on keeps it.     *)
LEMMA JobsGoto ==
  ASSUME TypeOK, OnJobs, NEW w \in Worker, NEW label, Goto(w, label), phase[w] # "idle",
         label \in {"idle", "uploading", "posting", "reporting"}
  PROVE  /\ phase' \in [Worker -> {"idle", "claimed", "uploading", "posting", "reporting"}]
         /\ at' \in [Worker -> Job \cup {NoJob}]
         /\ \A v \in Worker : phase'[v] # "idle" => at'[v] \in Job
BY DEF TypeOK, OnJobs, Goto

LEMMA JobsFault ==
  ASSUME TypeOK, WorkerAssumption, Fault
  PROVE  faults' \in 0 .. MaxFaults /\ faults' > 0
BY DEF TypeOK, WorkerAssumption, Fault

(* The sweep takes staged sources, and an object only with one of them.    *)
LEMMA JobsSwept ==
  ASSUME TypeOK, AssignedKept, SourceRemoved, NEW old \in SUBSET Job, Swept(old),
         faults > 0 => faults' > 0,
         \A j \in Job : jst'[j] \in Terminal <=> jst[j] \in Terminal
  PROVE  /\ sst' \in [Job -> {"none", "staged", "assigned", "consumed", "expired"}]
         /\ obj' \subseteq {Content[j] : j \in Job}
         /\ AssignedKept' /\ SourceRemoved'
<1>1. /\ sst' \in [Job -> {"none", "staged", "assigned", "consumed", "expired"}]
      /\ obj' \subseteq {Content[j] : j \in Job}
  BY DEF TypeOK, Swept
<1>2. \A j \in Job : /\ j \in old => sst[j] = "staged" /\ sst'[j] = "expired"
                     /\ j \notin old => sst'[j] = sst[j]
  BY DEF Swept
<1>3. \A j \in Job : SameContent(j, {"consumed", "expired"})
                       => SameContent(j, {"consumed", "expired"})'
  BY <1>2 DEF SameContent
<1>4. ASSUME NEW j \in Job, sst'[j] = "assigned", Content[j] \notin obj'
      PROVE  SameContent(j, {"consumed", "expired"})'
  <2>1. CASE Content[j] \in obj
    <3>1. PICK k \in old : Content[j] = Content[k]
      BY <1>4, <2>1 DEF Swept
    <3> QED BY <1>2, <3>1 DEF SameContent
  <2>2. CASE Content[j] \notin obj
    BY <1>2, <1>3, <1>4, <2>2 DEF AssignedKept
  <2> QED BY <2>1, <2>2
<1>5. AssignedKept'
  BY <1>4 DEF AssignedKept
<1>6. ASSUME NEW j \in Job, jst'[j] \in Terminal, Content[j] \in obj', ~(faults' > 0)
      PROVE  SameContent(j, {"staged", "assigned"})'
  <2>1. jst[j] \in Terminal /\ Content[j] \in obj /\ ~(faults > 0)
    BY <1>6 DEF Swept
  <2>2. PICK k \in Job : Content[k] = Content[j] /\ sst[k] \in {"staged", "assigned"}
    BY <2>1 DEF SourceRemoved, SameContent
  <2>3. k \notin old
    BY <1>6, <2>2 DEF Swept
  <2> QED BY <1>2, <2>2, <2>3 DEF SameContent
<1>7. \A j \in Job : sst'[j] = "consumed" <=> jst'[j] \in Terminal
  BY <1>2 DEF SourceRemoved
<1>8. SourceRemoved'
  BY <1>6, <1>7 DEF SourceRemoved
<1> QED BY <1>1, <1>5, <1>8

LEMMA JobsSweep ==
  ASSUME IInv, Sweep
  PROVE  IInv'
<1>1. PICK old \in SUBSET Job : Swept(old)
  BY DEF Sweep
<1>2. UNCHANGED <<device, jst, pay, phase, at, inflight, faults>>
  BY DEF Sweep
<1>3. /\ sst' \in [Job -> {"none", "staged", "assigned", "consumed", "expired"}]
      /\ obj' \subseteq {Content[j] : j \in Job}
      /\ AssignedKept' /\ SourceRemoved'
  BY <1>1, <1>2, JobsSwept DEF IInv
<1>4. TypeOK' /\ OnJobs'
  BY <1>2, <1>3 DEF IInv, TypeOK, OnJobs
<1> QED BY <1>3, <1>4 DEF IInv

LEMMA JobsStage ==
  ASSUME IInv, NEW j \in Job, Stage(j)
  PROVE  IInv'
<1> USE DEF IInv
<1>1. /\ UNCHANGED <<device, jst, pay, phase, at, inflight, faults>>
      /\ sst[j] = "none" /\ sst' = [sst EXCEPT ![j] = "staged"]
      /\ obj' = obj \cup {Content[j]}
  BY DEF Stage
<1>2. TypeOK' /\ OnJobs'
  BY <1>1 DEF TypeOK, OnJobs
<1>3. \A k \in Job : sst'[k] = IF k = j THEN "staged" ELSE sst[k]
  BY <1>1 DEF TypeOK
<1>4. AssignedKept'
  BY <1>1, <1>3 DEF AssignedKept, SameContent
<1>5. SourceRemoved'
  BY <1>1, <1>3 DEF SourceRemoved, SameContent
<1> QED BY <1>2, <1>4, <1>5

LEMMA JobsCreate ==
  ASSUME WorkerAssumption, IInv, NEW j \in Job, CreateJob(j)
  PROVE  IInv'
<1> USE DEF IInv
<1>1. /\ UNCHANGED <<device, pay, obj, phase, at, inflight>>
      /\ jst[j] = "none" /\ sst[j] = "staged" /\ Content[j] \in obj
      /\ jst' = [jst EXCEPT ![j] = "queued"]
  BY DEF CreateJob
<1>2. \/ sst' = [sst EXCEPT ![j] = "assigned"] /\ UNCHANGED faults
      \/ Fault /\ UNCHANGED sst
  BY DEF CreateJob
<1>3. faults' \in 0 .. MaxFaults /\ (faults > 0 => faults' > 0)
  BY <1>2, JobsFault DEF TypeOK
<1>4. TypeOK' /\ OnJobs'
  BY <1>1, <1>2, <1>3 DEF TypeOK, OnJobs
<1>5. \A k \in Job : /\ jst'[k] = IF k = j THEN "queued" ELSE jst[k]
                     /\ k # j => sst'[k] = sst[k]
  BY <1>1, <1>2 DEF TypeOK
<1>6. sst'[j] \in {"staged", "assigned"}
  BY <1>1, <1>2 DEF TypeOK
<1>7. AssignedKept'
  BY <1>1, <1>5, <1>6 DEF AssignedKept, SameContent
<1>8. SourceRemoved'
  BY <1>1, <1>3, <1>5, <1>6 DEF SourceRemoved, SameContent
<1> QED BY <1>4, <1>7, <1>8

(* Requests that only move a claim leave the sources alone.                *)
LEMMA JobsMoved ==
  ASSUME IInv, UNCHANGED <<sst, obj, faults>>,
         \A j \in Job : jst'[j] \in Terminal <=> jst[j] \in Terminal
  PROVE  AssignedKept' /\ SourceRemoved'
BY DEF IInv, AssignedKept, SourceRemoved, SameContent

LEMMA JobsPayload ==
  ASSUME NEW p \in Payload
  PROVE  /\ Released(p) \in Payload
         /\ [p EXCEPT !.result = TRUE] \in Payload /\ [p EXCEPT !.lease = "over"] \in Payload
         /\ \A w \in Worker : [p EXCEPT !.holder = w, !.lease = "live"] \in Payload
BY DEF Payload, Released

LEMMA JobsSetWorker ==
  ASSUME IInv, NEW w \in Worker, NEW st \in {"active", "draining", "revoked"}, SetWorker(w, st)
  PROVE  IInv'
<1> USE DEF IInv
<1> DEFINE freed == IF st # "revoked" THEN {}
                    ELSE {j \in Job : jst[j] = "claimed" /\ pay[j].holder = w}
<1>1. /\ device' = [device EXCEPT ![w] = st]
      /\ jst' = [j \in Job |-> IF j \in freed THEN "queued" ELSE jst[j]]
      /\ pay' = [j \in Job |-> IF j \in freed THEN Released(pay[j]) ELSE pay[j]]
      /\ UNCHANGED <<sst, obj, phase, at, inflight, faults>>
  BY DEF SetWorker
<1>2. \A j \in Job : jst'[j] \in Terminal <=> jst[j] \in Terminal
  BY <1>1
<1>3. TypeOK' /\ OnJobs'
  BY <1>1, JobsPayload DEF TypeOK, OnJobs
<1> QED BY <1>1, <1>2, <1>3, JobsMoved

LEMMA JobsLeaseEnds ==
  ASSUME IInv, NEW j \in Job, LeaseEnds(j)
  PROVE  IInv'
<1> USE DEF IInv
<1>1. /\ pay' = [pay EXCEPT ![j] = [pay[j] EXCEPT !.lease = "over"]]
      /\ UNCHANGED <<device, jst, sst, obj, phase, at, inflight, faults>>
  BY DEF LeaseEnds
<1>2. [pay[j] EXCEPT !.lease = "over"] \in Payload
  BY JobsPayload DEF TypeOK
<1>3. TypeOK' /\ OnJobs'
  BY <1>1, <1>2 DEF TypeOK, OnJobs
<1> QED BY <1>1, <1>3, JobsMoved

LEMMA JobsClaim ==
  ASSUME WorkerAssumption, IInv, NEW w \in Worker, Claim(w)
  PROVE  IInv'
<1> USE DEF IInv
<1>1. PICK old \in SUBSET Job : Swept(old)
  BY DEF Claim
<1>2. CASE device[w] = "draining"
  <2>1. UNCHANGED <<device, jst, pay, phase, at, faults, inflight>>
    BY <1>2 DEF Claim
  <2>2. /\ sst' \in [Job -> {"none", "staged", "assigned", "consumed", "expired"}]
        /\ obj' \subseteq {Content[j] : j \in Job}
        /\ AssignedKept' /\ SourceRemoved'
    BY <1>1, <2>1, JobsSwept
  <2> QED BY <2>1, <2>2 DEF TypeOK, OnJobs
<1>3. CASE device[w] # "draining"
  <2> DEFINE taken == Oldest(Open) \cap Able[w]
  <2>1. /\ Assign(w, taken) /\ UNCHANGED <<device, inflight>>
        /\ \/ UNCHANGED <<phase, at, faults>>
           \/ \E j \in taken : /\ phase' = [phase EXCEPT ![w] = "claimed"]
                               /\ at' = [at EXCEPT ![w] = j]
                               /\ UNCHANGED faults
           \/ Fault /\ UNCHANGED <<phase, at>>
    BY <1>3 DEF Claim
  <2>2. taken \subseteq {j \in Job : jst[j] \in {"queued", "claimed"}}
    BY DEF Oldest, Open, Stale
  <2> HIDE DEF taken
  <2>3. /\ jst' \in [Job -> {"none", "queued", "claimed"} \cup Terminal]
        /\ \A j \in Job : jst'[j] \in Terminal <=> jst[j] \in Terminal
    BY <2>1, <2>2 DEF Assign, Stale, TypeOK
  <2>4. pay' \in [Job -> Payload]
    <3>1. \A j \in Job : /\ Released(pay[j]) \in Payload
                         /\ [pay[j] EXCEPT !.holder = w, !.lease = "live"] \in Payload
      BY JobsPayload DEF TypeOK
    <3> QED BY <2>1, <3>1 DEF Assign, TypeOK
  <2>5. /\ phase' \in [Worker -> {"idle", "claimed", "uploading", "posting", "reporting"}]
        /\ at' \in [Worker -> Job \cup {NoJob}] /\ OnJobs'
    <3>1. CASE UNCHANGED <<phase, at>>
      BY <2>1, <3>1 DEF TypeOK, OnJobs
    <3>2. ASSUME NEW j \in taken, phase' = [phase EXCEPT ![w] = "claimed"],
                 at' = [at EXCEPT ![w] = j]
          PROVE  /\ phase' \in [Worker -> {"idle", "claimed", "uploading", "posting", "reporting"}]
                 /\ at' \in [Worker -> Job \cup {NoJob}] /\ OnJobs'
      <4>1. j \in Job
        BY <2>2
      <4> QED BY <2>1, <3>2, <4>1 DEF TypeOK, OnJobs
    <3> QED BY <2>1, <3>1, <3>2
  <2>6. faults' \in 0 .. MaxFaults /\ (faults > 0 => faults' > 0)
    BY <2>1, JobsFault DEF TypeOK
  <2>7. /\ sst' \in [Job -> {"none", "staged", "assigned", "consumed", "expired"}]
        /\ obj' \subseteq {Content[j] : j \in Job}
        /\ AssignedKept' /\ SourceRemoved'
    BY <1>1, <2>3, <2>6, JobsSwept
  <2>8. TypeOK'
    BY <2>1, <2>3, <2>4, <2>5, <2>6, <2>7 DEF TypeOK
  <2> QED BY <2>5, <2>7, <2>8
<1> QED BY <1>2, <1>3

LEMMA JobsProcess ==
  ASSUME IInv, NEW w \in Worker, Process(w)
  PROVE  IInv'
<1> USE DEF IInv
<1>1. /\ phase[w] # "idle" /\ UNCHANGED <<device, jst, pay, sst, obj, inflight, faults>>
      /\ Goto(w, "uploading") \/ Goto(w, "reporting")
  BY DEF Process, server
<1>2. TypeOK' /\ OnJobs'
  BY <1>1, JobsGoto DEF TypeOK, OnJobs
<1> QED BY <1>1, <1>2, JobsMoved

LEMMA JobsUploadRead ==
  ASSUME IInv, NEW w \in Worker, UploadRead(w)
  PROVE  IInv'
<1> USE DEF IInv
<1>1. /\ phase[w] = "uploading" /\ UNCHANGED <<device, jst, pay, sst, obj, faults>>
  BY DEF UploadRead, server
<1>2. CASE Holds(w)
  <2>1. /\ inflight' = [inflight EXCEPT ![w] = [job |-> at[w], read |-> pay[at[w]]]]
        /\ UNCHANGED <<phase, at>> /\ at[w] \in Job
    BY <1>1, <1>2 DEF UploadRead, OnJobs
  <2>2. TypeOK' /\ OnJobs'
    BY <1>1, <2>1 DEF TypeOK, OnJobs
  <2> QED BY <1>1, <2>2, JobsMoved
<1>3. CASE ~Holds(w)
  <2>1. Goto(w, "reporting") /\ UNCHANGED inflight
    BY <1>3 DEF UploadRead
  <2>2. TypeOK' /\ OnJobs'
    BY <1>1, <2>1, JobsGoto DEF TypeOK, OnJobs
  <2> QED BY <1>1, <2>2, JobsMoved
<1> QED BY <1>2, <1>3

LEMMA JobsUploadWrite ==
  ASSUME IInv, NEW w \in Worker, UploadWrite(w)
  PROVE  IInv'
<1> USE DEF IInv
<1> DEFINE j == inflight[w].job
           new == [inflight[w].read EXCEPT !.files = @ \cup {w}]
<1>1. /\ inflight[w] # NoUpload /\ pay' = [pay EXCEPT ![j] = new]
      /\ inflight' = [inflight EXCEPT ![w] = NoUpload]
      /\ UNCHANGED <<device, jst, sst, obj, faults>>
  BY DEF UploadWrite
<1>2. inflight[w] \in [job : Job \cup {NoJob}, read : Payload] /\ j \in Job
  BY <1>1 DEF TypeOK, OnJobs
<1>3. new \in Payload
  BY <1>2 DEF Payload
<1>4. \/ phase[w] = "uploading" /\ Goto(w, "posting")
      \/ UNCHANGED <<phase, at>>
  BY DEF UploadWrite
<1>5. /\ phase' \in [Worker -> {"idle", "claimed", "uploading", "posting", "reporting"}]
      /\ at' \in [Worker -> Job \cup {NoJob}]
      /\ \A v \in Worker : phase'[v] # "idle" => at'[v] \in Job
  BY <1>4, JobsGoto DEF TypeOK, OnJobs
<1>6. NoUpload \in [job : Job \cup {NoJob}, read : Payload]
  BY JobsBlank DEF NoUpload
<1>7. TypeOK'
  BY <1>1, <1>2, <1>3, <1>5, <1>6 DEF TypeOK
<1>8. OnJobs'
  BY <1>1, <1>5 DEF TypeOK, OnJobs
<1> QED BY <1>1, <1>7, <1>8, JobsMoved

(* The end of a job: its source is consumed in the same commit, and its    *)
(* object is removed afterwards unless something fails.                    *)
LEMMA JobsAnswer ==
  ASSUME WorkerAssumption, IInv, NEW w \in Worker, NEW st \in Terminal,
         at[w] \in Job, jst[at[w]] = "claimed", Answer(w, st),
         \/ RemoveObject(w) /\ UNCHANGED faults
         \/ Fault /\ (RemoveObject(w) \/ UNCHANGED obj)
  PROVE  /\ jst' \in [Job -> {"none", "queued", "claimed"} \cup Terminal]
         /\ pay' \in [Job -> Payload]
         /\ sst' \in [Job -> {"none", "staged", "assigned", "consumed", "expired"}]
         /\ obj' \subseteq {Content[j] : j \in Job} /\ faults' \in 0 .. MaxFaults
         /\ AssignedKept' /\ SourceRemoved'
<1> USE DEF IInv
<1> DEFINE a == at[w]
<1>1. /\ jst' = [jst EXCEPT ![a] = st]
      /\ pay' = [pay EXCEPT ![a] = [pay[a] EXCEPT !.result = TRUE]]
      /\ sst' = [sst EXCEPT ![a] = "consumed"]
  BY DEF Answer
<1>2. obj' \subseteq obj /\ (obj' # obj \ {Content[a]} => Fault)
  BY DEF RemoveObject
<1>3. /\ faults' \in 0 .. MaxFaults /\ (faults > 0 => faults' > 0)
      /\ Fault => faults' > 0
  BY JobsFault DEF TypeOK
<1>4. [pay[a] EXCEPT !.result = TRUE] \in Payload
  BY JobsPayload DEF TypeOK
<1>5. \A k \in Job : /\ k # a => jst'[k] = jst[k] /\ sst'[k] = sst[k]
                     /\ k = a => jst'[k] = st /\ sst'[k] = "consumed"
  BY <1>1 DEF TypeOK
<1>6. AssignedKept'
  <2> SUFFICES ASSUME NEW j \in Job, sst'[j] = "assigned", Content[j] \notin obj'
               PROVE  SameContent(j, {"consumed", "expired"})'
    BY DEF AssignedKept
  <2>1. j # a /\ sst[j] = "assigned"
    BY <1>5
  <2>2. CASE Content[j] = Content[a]
    BY <1>5, <2>2 DEF SameContent
  <2>3. CASE Content[j] # Content[a]
    <3>1. Content[j] \notin obj
      BY <1>2, <2>3 DEF RemoveObject
    <3>2. SameContent(j, {"consumed", "expired"})
      BY <2>1, <3>1 DEF AssignedKept
    <3> QED BY <1>5, <3>2 DEF SameContent
  <2> QED BY <2>2, <2>3
<1>7. ASSUME NEW j \in Job, jst'[j] \in Terminal, Content[j] \in obj', ~(faults' > 0)
      PROVE  SameContent(j, {"staged", "assigned"})'
  <2>1. obj' = obj \ {Content[a]} /\ ~(faults > 0)
    BY <1>2, <1>3, <1>7
  <2>2. j # a /\ Content[j] # Content[a]
    BY <1>7, <2>1
  <2>3. SameContent(j, {"staged", "assigned"})
    BY <1>5, <1>7, <2>1, <2>2 DEF SourceRemoved
  <2> QED BY <1>5, <2>2, <2>3 DEF SameContent
<1>8. SourceRemoved'
  BY <1>5, <1>7 DEF SourceRemoved
<1> QED BY <1>1, <1>2, <1>3, <1>4, <1>6, <1>8 DEF TypeOK

LEMMA JobsPostResult ==
  ASSUME WorkerAssumption, IInv, NEW w \in Worker, PostResult(w)
  PROVE  IInv'
<1> USE DEF IInv
<1>1. /\ phase[w] = "posting" /\ at[w] \in Job /\ UNCHANGED <<device, inflight>>
      /\ Goto(w, "idle") \/ Goto(w, "reporting")
  BY DEF PostResult, OnJobs
<1>2. /\ phase' \in [Worker -> {"idle", "claimed", "uploading", "posting", "reporting"}]
      /\ at' \in [Worker -> Job \cup {NoJob}] /\ OnJobs'
  BY <1>1, JobsGoto DEF OnJobs
<1>3. CASE Accepted(w) /\ Answer(w, "completed")
           /\ (TryRemoveObject(w) \/ (RemoveObject(w) /\ Fault))
  <2>1. jst[at[w]] = "claimed"
    BY <1>3 DEF Accepted, Holds
  <2>2. \/ RemoveObject(w) /\ UNCHANGED faults
        \/ Fault /\ (RemoveObject(w) \/ UNCHANGED obj)
    BY <1>3 DEF TryRemoveObject
  <2>3. /\ jst' \in [Job -> {"none", "queued", "claimed"} \cup Terminal]
        /\ pay' \in [Job -> Payload]
        /\ sst' \in [Job -> {"none", "staged", "assigned", "consumed", "expired"}]
        /\ obj' \subseteq {Content[j] : j \in Job} /\ faults' \in 0 .. MaxFaults
        /\ AssignedKept' /\ SourceRemoved'
    BY <1>1, <1>3, <2>1, <2>2, JobsAnswer
  <2> QED BY <1>1, <1>2, <2>3 DEF TypeOK
<1>4. CASE UNCHANGED <<jst, pay, sst, obj, faults>>
  BY <1>1, <1>2, <1>4, JobsMoved DEF TypeOK
<1>5. \/ Accepted(w) /\ Answer(w, "completed")
           /\ (TryRemoveObject(w) \/ (RemoveObject(w) /\ Fault))
      \/ UNCHANGED <<jst, pay, sst, obj, faults>>
  BY DEF PostResult
<1> QED BY <1>3, <1>4, <1>5

LEMMA JobsReport ==
  ASSUME WorkerAssumption, IInv, NEW w \in Worker, Report(w)
  PROVE  IInv'
<1> USE DEF IInv
<1>1. /\ phase[w] = "reporting" /\ at[w] \in Job /\ UNCHANGED <<device, inflight>>
      /\ Goto(w, "idle")
  BY DEF Report, OnJobs
<1>2. /\ phase' \in [Worker -> {"idle", "claimed", "uploading", "posting", "reporting"}]
      /\ at' \in [Worker -> Job \cup {NoJob}] /\ OnJobs'
  BY <1>1, JobsGoto DEF OnJobs
<1>3. CASE Holds(w) /\ Answer(w, "failed") /\ TryRemoveObject(w)
  <2>1. jst[at[w]] = "claimed"
    BY <1>3 DEF Holds
  <2>2. \/ RemoveObject(w) /\ UNCHANGED faults
        \/ Fault /\ (RemoveObject(w) \/ UNCHANGED obj)
    BY <1>3 DEF TryRemoveObject
  <2>3. /\ jst' \in [Job -> {"none", "queued", "claimed"} \cup Terminal]
        /\ pay' \in [Job -> Payload]
        /\ sst' \in [Job -> {"none", "staged", "assigned", "consumed", "expired"}]
        /\ obj' \subseteq {Content[j] : j \in Job} /\ faults' \in 0 .. MaxFaults
        /\ AssignedKept' /\ SourceRemoved'
    BY <1>1, <1>3, <2>1, <2>2, JobsAnswer
  <2> QED BY <1>1, <1>2, <2>3 DEF TypeOK
<1>4. CASE UNCHANGED <<jst, pay, sst, obj, faults>>
  BY <1>1, <1>2, <1>4, JobsMoved DEF TypeOK
<1>5. CASE Fault /\ UNCHANGED <<jst, pay, sst, obj>>
  <2>1. faults' \in 0 .. MaxFaults /\ (faults > 0 => faults' > 0)
    BY <1>5, JobsFault
  <2>2. AssignedKept' /\ SourceRemoved'
    BY <1>5, <2>1 DEF AssignedKept, SourceRemoved, SameContent
  <2> QED BY <1>1, <1>2, <1>5, <2>1, <2>2 DEF TypeOK
<1> QED BY <1>3, <1>4, <1>5 DEF Report

LEMMA JobsBroken ==
  ASSUME WorkerAssumption, IInv, NEW w \in Worker, Timeout(w) \/ DeviceCrash(w)
  PROVE  IInv'
<1> USE DEF IInv
<1>1. /\ phase[w] # "idle" /\ Fault /\ UNCHANGED <<device, jst, pay, sst, obj, inflight>>
      /\ Goto(w, "idle") \/ Goto(w, "reporting")
  BY DEF Timeout, DeviceCrash, server
<1>2. faults' \in 0 .. MaxFaults /\ (faults > 0 => faults' > 0)
  BY <1>1, JobsFault
<1>3. TypeOK' /\ OnJobs'
  BY <1>1, <1>2, JobsGoto DEF TypeOK, OnJobs
<1>4. AssignedKept' /\ SourceRemoved'
  BY <1>1, <1>2 DEF AssignedKept, SourceRemoved, SameContent
<1> QED BY <1>3, <1>4

LEMMA JobsInit ==
  ASSUME WorkerAssumption, Init
  PROVE  IInv
BY JobsBlank DEF WorkerAssumption, Init, IInv, TypeOK, OnJobs, AssignedKept, SourceRemoved,
                 NoUpload

LEMMA JobsRest ==
  ASSUME IInv, UNCHANGED vars
  PROVE  IInv'
BY DEF vars, server, IInv, TypeOK, OnJobs, AssignedKept, SourceRemoved, SameContent

LEMMA JobsNext ==
  ASSUME WorkerAssumption, IInv, Next
  PROVE  IInv'
BY JobsSweep, JobsStage, JobsCreate, JobsLeaseEnds, JobsClaim, JobsProcess, JobsUploadRead,
   JobsUploadWrite, JobsPostResult, JobsReport, JobsBroken, JobsSetWorker
   DEF Next, DeviceStep

LEMMA JobsKept ==
  ASSUME IInv, Next, NEW j \in Job, jst[j] \in Terminal
  PROVE  jst'[j] = jst[j]
<1> USE DEF IInv
<1>1. ASSUME NEW w \in Worker, NEW st, Holds(w), at[w] \in Job, Answer(w, st)
      PROVE  jst'[j] = jst[j]
  BY <1>1 DEF Holds, Answer, TypeOK
<1>2. ASSUME NEW w \in Worker, Claim(w)
      PROVE  jst'[j] = jst[j]
  <2>1. \A S : S \cap Oldest(Open) \subseteq {k \in Job : jst[k] \in {"queued", "claimed"}}
    BY DEF Oldest, Open, Stale
  <2>2. CASE Assign(w, Oldest(Open) \cap Able[w])
    BY <2>1, <2>2 DEF Assign, Stale
  <2> QED BY <1>2, <2>2 DEF Claim
<1>3. ASSUME NEW w \in Worker, DeviceStep(w)
      PROVE  jst'[j] = jst[j]
  BY <1>1, <1>3 DEF DeviceStep, Process, UploadRead, UploadWrite, PostResult, Report, OnJobs,
                   Accepted, server
<1>4. ASSUME NEW w \in Worker, NEW st, SetWorker(w, st)
      PROVE  jst'[j] = jst[j]
  BY <1>4 DEF SetWorker
<1> QED BY <1>2, <1>3, <1>4 DEF Next, Sweep, Stage, CreateJob, LeaseEnds, Timeout, DeviceCrash,
                              server, TypeOK

-----------------------------------------------------------------------------
(* Ingest.  That an accepted selection is stored whole is not inductive: a *)
(* handler that answers must have found or committed every part before, and*)
(* so must whoever wrote the record another handler answers from.          *)
(* HandlerAgrees says it of each place of a handler, RecordAgrees of the   *)
(* records.  Both are stable for the other handlers because rows and objects*)
(* are only added and a document is never removed (OnlyAdded).             *)
USE DEF I!None, I!Envelope, I!Kind, I!Ledger!None, I!Ledger!Envelope, I!Ledger!Summary

(* What one handler has behind it.                                         *)
IngestAgrees(r) ==
  srv[r].step # I!Idle =>
    /\ I!Ledger!Verified(srv[r].env)
    /\ I!Mine(r, "evidence") \in objects
    /\ \A kind \in I!Kind : srv[r].step = <<"store", kind>> => I!Mine(r, kind) \in objects
    /\ IF srv[r].step = <<"store", "document">>
       THEN srv[r].seen # I!None => document # I!None
       ELSE document # I!None
    /\ srv[r].step[2] \in {"analysis", "record"} => I!Mine(r, "evidence") \in rows
    /\ srv[r].step[2] = "record" => I!Mine(r, "analysis") \in rows

OnlyAdded ==
  /\ rows \subseteq rows' /\ objects \subseteq objects'
  /\ document # I!None => document' # I!None

LEMMA Places ==
  /\ I!Place = {<<"look", "evidence">>, <<"look", "analysis">>, <<"store", "evidence">>,
              <<"store", "analysis">>, <<"store", "document">>, <<"store", "record">>, I!Idle}
  /\ \A kind \in I!Kind : <<"look", kind>> \in I!Place /\ <<"store", kind>> \in I!Place
BY DEF I!Place, I!Idle

(* The parts of a selection are parts, and those of two kinds differ.      *)
LEMMA Parts ==
  ASSUME I!IngestAssumption, NEW s \in Selection
  PROVE  /\ \A kind \in I!Kind : I!PartOf(kind, s) \in I!Part
         /\ Evidence[s] \in I!Sha /\ Evidence[s] # I!None
BY DEF I!PartOf, I!Part, I!Sha, I!IngestAssumption

(* A replica at a place holds an envelope of a selection.                  *)
LEMMA Holding ==
  ASSUME I!Typed, NEW r \in Replica, srv[r].step # I!Idle
  PROVE  /\ srv[r] \in I!Busy /\ srv[r].env \in I!Envelope /\ I!Key(r) \in Selection
         /\ srv[r].step \in I!Place
BY DEF I!Typed, I!Busy, I!Free, I!Key

(* A step of a replica leaves the others where they are.                   *)
LEMMA OthersStay ==
  ASSUME I!Typed, I!HandlerAgrees, OnlyAdded, NEW r \in Replica, NEW new,
         srv' = [srv EXCEPT ![r] = new], IngestAgrees(r)'
  PROVE  I!HandlerAgrees'
<1> SUFFICES ASSUME NEW q \in Replica, q # r PROVE IngestAgrees(q)'
  BY DEF I!HandlerAgrees, IngestAgrees, I!Mine, I!Key
<1>1. srv'[q] = srv[q]
  BY DEF I!Typed
<1>2. IngestAgrees(q)
  BY DEF I!HandlerAgrees, IngestAgrees, I!Mine, I!Key
<1> QED BY <1>1, <1>2 DEF IngestAgrees, OnlyAdded, I!Mine, I!Key, I!Idle

(* What is recorded and accepted stays stored.                             *)
LEMMA StoredStays ==
  ASSUME I!RecordAgrees, I!AcceptedIsStored, OnlyAdded, UNCHANGED <<record, told>>
  PROVE  I!RecordAgrees' /\ I!AcceptedIsStored'
BY DEF I!RecordAgrees, I!AcceptedIsStored, OnlyAdded

LEMMA ReceiveStep ==
  ASSUME I!IngestAssumption, I!IInv, NEW r \in Replica, NEW env \in I!Envelope, I!Receive(r, env)
  PROVE  I!IInv'
<1> USE DEF I!IInv
<1>1. CASE I!Replay(r, env)
  <2>1. UNCHANGED <<srv, document, rows, objects, record, faults>>
    BY <1>1 DEF I!Receive, I!Replay
  <2>2. I!Typed' /\ I!HandlerAgrees' /\ I!RecordAgrees' /\ I!RowsHaveObjects'
    <3>1. told' \subseteq I!Envelope
      BY <1>1 DEF I!Replay, I!Typed
    <3> QED BY <2>1, <3>1 DEF I!Typed, I!HandlerAgrees, I!RecordAgrees, I!RowsHaveObjects,
                              I!Mine, I!Key
  <2>3. I!AcceptedIsStored'
    BY <1>1, <2>1 DEF I!Replay, I!RecordAgrees, I!AcceptedIsStored
  <2> QED BY <2>2, <2>3
<1>2. CASE I!Open(r, env)
  <2> DEFINE new == [step |-> <<"store", "document">>, env |-> env, seen |-> document]
  <2>1. /\ srv' = [srv EXCEPT ![r] = new]
        /\ objects' = objects \cup {I!PartOf("evidence", env.key)}
        /\ UNCHANGED <<document, rows, record, told, faults>>
        /\ I!Ledger!Verified(env) /\ env.key \in Selection
    BY <1>2 DEF I!Receive, I!Open
  <2>2. OnlyAdded
    BY <2>1 DEF OnlyAdded
  <2>3. I!Typed'
    <3>1. new \in I!Busy
      BY <2>1, Places DEF I!Busy, I!Idle, I!Typed
    <3>2. I!PartOf("evidence", env.key) \in I!Part
      BY <2>1, Parts
    <3> QED BY <2>1, <3>1, <3>2 DEF I!Typed
  <2>4. IngestAgrees(r)'
    <3>1. srv'[r] = new
      BY <2>1 DEF I!Typed
    <3> QED BY <2>1, <3>1 DEF IngestAgrees, I!Mine, I!Key
  <2>5. I!HandlerAgrees'
    BY <2>1, <2>2, <2>4, OthersStay
  <2>6. I!RowsHaveObjects'
    BY <2>1 DEF I!RowsHaveObjects
  <2> QED BY <2>1, <2>2, <2>3, <2>5, <2>6, StoredStays
<1> QED BY <1>1, <1>2 DEF I!Receive

(* A replica that is done has nothing to agree with.                       *)
LEMMA DoneStep ==
  ASSUME I!Typed, I!HandlerAgrees, OnlyAdded, NEW r \in Replica, I!Done(r)
  PROVE  srv' \in [Replica -> I!Busy \cup {I!Free}] /\ I!HandlerAgrees'
<1>1. srv' = [srv EXCEPT ![r] = I!Free] /\ srv'[r] = I!Free
  BY DEF I!Done, I!Typed
<1>2. IngestAgrees(r)'
  BY <1>1 DEF IngestAgrees, I!Free
<1> QED BY <1>1, <1>2, OthersStay DEF I!Typed

(* One that goes on keeps its envelope.                                    *)
LEMMA GoStep ==
  ASSUME I!Typed, NEW r \in Replica, NEW step \in I!Place \ {I!Idle}, srv[r].step # I!Idle,
         NEW seen \in I!Sha \cup {I!None, "present"},
         srv' = [srv EXCEPT ![r].step = step, ![r].seen = seen]
  PROVE  /\ srv' \in [Replica -> I!Busy \cup {I!Free}]
         /\ srv' = [srv EXCEPT ![r] = srv'[r]]
         /\ srv'[r].step = step /\ srv'[r].env = srv[r].env /\ srv'[r].seen = seen
<1>1. srv[r] \in I!Busy
  BY Holding
<1>2. srv'[r] = [srv[r] EXCEPT !.step = step, !.seen = seen]
  BY DEF I!Typed
<1>3. srv'[r] \in I!Busy
  <2> DEFINE old == srv[r]
  <2>1. old \in [step : I!Place \ {I!Idle}, env : I!Envelope, seen : I!Sha \cup {I!None, "present"}]
    BY <1>1 DEF I!Busy
  <2> HIDE DEF old
  <2>2. [old EXCEPT !.step = step, !.seen = seen]
          \in [step : I!Place \ {I!Idle}, env : I!Envelope, seen : I!Sha \cup {I!None, "present"}]
    BY <2>1
  <2> QED BY <1>2, <2>2 DEF I!Busy, old
<1>4. srv' = [srv EXCEPT ![r] = srv'[r]]
  BY <1>2 DEF I!Typed
<1> QED BY <1>1, <1>2, <1>3, <1>4 DEF I!Typed, I!Busy

LEMMA StoreDocumentStep ==
  ASSUME I!IngestAssumption, I!IInv, NEW r \in Replica, I!StoreDocument(r)
  PROVE  I!IInv'
<1> USE DEF I!IInv
<1>1. /\ srv[r].step = <<"store", "document">> /\ srv[r].step # I!Idle
      /\ UNCHANGED <<rows, objects, record, told, faults>>
  BY DEF I!StoreDocument, I!Idle
<1>2. /\ srv[r] \in I!Busy /\ I!Key(r) \in Selection /\ IngestAgrees(r)
      /\ Evidence[I!Key(r)] \in I!Sha /\ Evidence[I!Key(r)] # I!None
  BY <1>1, Holding, Parts DEF I!HandlerAgrees, IngestAgrees, I!Mine, I!Key
<1>3. CASE srv[r].seen = I!None /\ document # I!None
  <2>1. I!Done(r) /\ UNCHANGED document
    BY <1>3 DEF I!StoreDocument
  <2>2. OnlyAdded
    BY <1>1, <2>1 DEF OnlyAdded
  <2>3. I!Typed' /\ I!HandlerAgrees'
    BY <1>1, <2>1, <2>2, DoneStep DEF I!Typed
  <2>4. I!RowsHaveObjects'
    BY <1>1, <2>1 DEF I!RowsHaveObjects
  <2> QED BY <1>1, <2>2, <2>3, <2>4, StoredStays
<1>4. CASE ~(srv[r].seen = I!None /\ document # I!None)
  <2>1. /\ document' = IF srv[r].seen = Evidence[I!Key(r)] THEN document ELSE Evidence[I!Key(r)]
        /\ srv' = [srv EXCEPT ![r].step = <<"look", "evidence">>, ![r].seen = I!None]
    BY <1>4 DEF I!StoreDocument, I!Go
  <2>2. document' # I!None
    BY <1>1, <1>2, <2>1 DEF IngestAgrees
  <2>3. OnlyAdded
    BY <1>1, <2>2 DEF OnlyAdded
  <2>4. /\ srv' \in [Replica -> I!Busy \cup {I!Free}]
        /\ srv' = [srv EXCEPT ![r] = srv'[r]]
        /\ srv'[r].step = <<"look", "evidence">> /\ srv'[r].env = srv[r].env
    BY <1>1, <2>1, GoStep, Places DEF I!Idle
  <2>5. I!Typed'
    BY <1>1, <1>2, <2>1, <2>4 DEF I!Typed
  <2>6. IngestAgrees(r)'
    BY <1>1, <1>2, <2>2, <2>4 DEF IngestAgrees, I!Mine, I!Key
  <2>7. I!HandlerAgrees'
    BY <2>3, <2>4, <2>6, OthersStay
  <2>8. I!RowsHaveObjects'
    BY <1>1, <1>2, <2>1 DEF I!RowsHaveObjects, IngestAgrees, I!Mine, I!PartOf
  <2> QED BY <1>1, <2>3, <2>5, <2>7, <2>8, StoredStays
<1> QED BY <1>3, <1>4

LEMMA LookStep ==
  ASSUME I!IngestAssumption, I!IInv, NEW r \in Replica, NEW kind \in I!Kind, I!Look(r, kind)
  PROVE  I!IInv'
<1> USE DEF I!IInv
<1> DEFINE found == IF I!Mine(r, kind) \in rows THEN "present" ELSE I!None
<1>1. /\ srv[r].step = <<"look", kind>> /\ srv[r].step # I!Idle
      /\ srv' = [srv EXCEPT ![r].step = <<"store", kind>>, ![r].seen = found]
      /\ objects' = IF I!Mine(r, kind) \in rows THEN objects ELSE objects \cup {I!Mine(r, kind)}
      /\ UNCHANGED <<document, rows, record, told, faults>>
  BY DEF I!Look, I!Idle
<1>2. /\ srv[r] \in I!Busy /\ IngestAgrees(r) /\ I!Mine(r, kind) \in I!Part
  BY <1>1, Holding, Parts DEF I!HandlerAgrees, IngestAgrees, I!Mine, I!Key
<1>3. OnlyAdded
  BY <1>1 DEF OnlyAdded
<1>4. /\ srv' \in [Replica -> I!Busy \cup {I!Free}]
      /\ srv' = [srv EXCEPT ![r] = srv'[r]]
      /\ srv'[r].step = <<"store", kind>> /\ srv'[r].env = srv[r].env
  BY <1>1, GoStep, Places DEF I!Idle
<1>5. I!Typed'
  BY <1>1, <1>2, <1>4 DEF I!Typed
<1>6. I!Mine(r, kind) \in objects'
  BY <1>1 DEF I!RowsHaveObjects
<1>7. IngestAgrees(r)'
  BY <1>1, <1>2, <1>4, <1>6 DEF IngestAgrees, I!Mine, I!Key
<1>8. I!HandlerAgrees'
  BY <1>3, <1>4, <1>7, OthersStay
<1>9. I!RowsHaveObjects'
  BY <1>1 DEF I!RowsHaveObjects
<1> QED BY <1>1, <1>3, <1>5, <1>8, <1>9, StoredStays

LEMMA StoreStep ==
  ASSUME I!IngestAssumption, I!IInv, NEW r \in Replica, NEW kind \in I!Kind, I!Store(r, kind)
  PROVE  I!IInv'
<1> USE DEF I!IInv
<1> DEFINE next == IF kind = "evidence" THEN <<"look", "analysis">> ELSE <<"store", "record">>
<1>1. /\ srv[r].step = <<"store", kind>> /\ srv[r].step # I!Idle
      /\ UNCHANGED <<document, objects, record, told, faults>>
  BY DEF I!Store, I!Idle
<1>2. /\ srv[r] \in I!Busy /\ IngestAgrees(r) /\ I!Mine(r, kind) \in I!Part
  BY <1>1, Holding, Parts DEF I!HandlerAgrees, IngestAgrees, I!Mine, I!Key
<1>3. CASE srv[r].seen = I!None /\ I!Mine(r, kind) \in rows
  <2>1. I!Done(r) /\ UNCHANGED rows
    BY <1>3 DEF I!Store
  <2>2. OnlyAdded
    BY <1>1, <2>1 DEF OnlyAdded
  <2>3. I!Typed' /\ I!HandlerAgrees'
    BY <1>1, <2>1, <2>2, DoneStep DEF I!Typed
  <2>4. I!RowsHaveObjects'
    BY <1>1, <2>1 DEF I!RowsHaveObjects
  <2> QED BY <1>1, <2>2, <2>3, <2>4, StoredStays
<1>4. CASE ~(srv[r].seen = I!None /\ I!Mine(r, kind) \in rows)
  <2>1. /\ rows' = rows \cup {I!Mine(r, kind)}
        /\ srv' = [srv EXCEPT ![r].step = next, ![r].seen = I!None]
    BY <1>4 DEF I!Store, I!Go
  <2>2. OnlyAdded
    BY <1>1, <2>1 DEF OnlyAdded
  <2>3. next \in I!Place \ {I!Idle}
    BY Places DEF I!Idle
  <2>4. /\ srv' \in [Replica -> I!Busy \cup {I!Free}]
        /\ srv' = [srv EXCEPT ![r] = srv'[r]]
        /\ srv'[r].step = next /\ srv'[r].env = srv[r].env
    <3> HIDE DEF next
    <3> QED BY <1>1, <2>1, <2>3, GoStep
  <2>5. I!Typed'
    BY <1>1, <1>2, <2>1, <2>4 DEF I!Typed
  <2>6. IngestAgrees(r)'
    BY <1>1, <1>2, <2>1, <2>4 DEF IngestAgrees, I!Mine, I!Key
  <2>7. I!HandlerAgrees'
    BY <2>2, <2>4, <2>6, OthersStay
  <2>8. I!RowsHaveObjects'
    BY <1>1, <1>2, <2>1 DEF I!RowsHaveObjects, IngestAgrees
  <2> QED BY <1>1, <2>2, <2>5, <2>7, <2>8, StoredStays
<1> QED BY <1>3, <1>4

LEMMA RecordStep ==
  ASSUME I!IngestAssumption, I!IInv, NEW r \in Replica, I!Record(r)
  PROVE  I!IInv'
<1> USE DEF I!IInv
<1>1. /\ srv[r].step = <<"store", "record">> /\ srv[r].step # I!Idle /\ I!Done(r)
      /\ UNCHANGED <<document, rows, objects, faults>>
  BY DEF I!Record, I!Idle
<1>2. /\ srv[r] \in I!Busy /\ srv[r].env \in I!Envelope /\ I!Key(r) \in Selection /\ IngestAgrees(r)
  BY <1>1, Holding DEF I!HandlerAgrees, IngestAgrees, I!Mine, I!Key
<1>3. OnlyAdded
  BY <1>1 DEF OnlyAdded
<1>4. /\ \A kind \in I!Kind : I!PartOf(kind, I!Key(r)) \in rows
      /\ document # I!None
  BY <1>1, <1>2 DEF IngestAgrees, I!Mine
<1>5. srv' \in [Replica -> I!Busy \cup {I!Free}] /\ I!HandlerAgrees'
  BY <1>1, <1>3, DoneStep
<1>6. CASE record[I!Key(r)] # I!None
  <2>1. UNCHANGED <<record, told>>
    BY <1>6 DEF I!Record
  <2> QED BY <1>1, <1>3, <1>5, <2>1, StoredStays DEF I!Typed, I!RowsHaveObjects
<1>7. CASE record[I!Key(r)] = I!None
  <2>1. /\ record' = [record EXCEPT ![I!Key(r)] = srv[r].env.summary]
        /\ told' = told \cup {srv[r].env}
    BY <1>7 DEF I!Record
  <2>2. I!Typed'
    BY <1>1, <1>2, <1>5, <2>1 DEF I!Typed
  <2>3. I!RecordAgrees'
    BY <1>1, <1>2, <1>4, <2>1 DEF I!RecordAgrees, I!Typed
  <2>4. I!AcceptedIsStored' /\ I!RowsHaveObjects'
    BY <1>1, <1>4, <2>1 DEF I!AcceptedIsStored, I!RowsHaveObjects, I!Key
  <2> QED BY <1>5, <2>2, <2>3, <2>4
<1> QED BY <1>6, <1>7

LEMMA FailStep ==
  ASSUME I!IngestAssumption, I!IInv, NEW r \in Replica, I!Fail(r)
  PROVE  I!IInv'
<1> USE DEF I!IInv
<1>1. I!Done(r) /\ UNCHANGED <<document, rows, objects, record, told>>
  BY DEF I!Fail
<1>2. OnlyAdded
  BY <1>1 DEF OnlyAdded
<1>3. I!HandlerAgrees' /\ I!Typed'
  BY <1>1, <1>2, DoneStep DEF I!Fail, I!Typed, I!IngestAssumption
<1> QED BY <1>1, <1>2, <1>3, StoredStays DEF I!RowsHaveObjects

LEMMA IngestInit == I!IngestAssumption /\ I!Init => I!IInv
BY DEF I!Init, I!IInv, I!Typed, I!HandlerAgrees, I!RecordAgrees, I!AcceptedIsStored,
       I!RowsHaveObjects,
       I!Free, I!Idle, I!Ledger!LedgerInit, I!IngestAssumption

LEMMA IngestRest ==
  ASSUME I!IInv, UNCHANGED <<srv, document, rows, objects, record, told>>
  PROVE  I!IInv'
BY DEF I!IInv, I!Typed, I!HandlerAgrees, I!RecordAgrees, I!AcceptedIsStored, I!RowsHaveObjects,
       I!Mine, I!Key

LEMMA IngestNext ==
  ASSUME I!IngestAssumption, I!IInv, I!Next
  PROVE  I!IInv'
BY ReceiveStep, StoreDocumentStep, RecordStep, FailStep, LookStep, StoreStep DEF I!Next

(* Every step of a replica is one of the ledger or none of its business.   *)
LEMMA LedgerStep ==
  ASSUME I!IInv, [I!Next]_(I!vars)
  PROVE  [\E env \in I!Envelope : I!Ledger!Accept(env)]_<<record, told>>
<1> USE DEF I!IInv
<1>1. CASE \E r \in Replica, env \in I!Envelope : I!Receive(r, env)
  <2>1. PICK r \in Replica, env \in I!Envelope : I!Receive(r, env)
    BY <1>1
  <2>2. CASE I!Replay(r, env) /\ record[env.key] = env.summary
    <3>1. I!Ledger!Verified(env) /\ told' = told \cup {env} /\ record' = record
      BY <2>1, <2>2 DEF I!Receive, I!Replay
    <3>2. record = [record EXCEPT ![env.key] = env.summary]
      BY <2>2 DEF I!Typed
    <3>3. I!Ledger!Accept(env)
      BY <2>2, <3>1, <3>2 DEF I!Ledger!Accept, I!Ledger!Acceptable
    <3> QED BY <3>3
  <2>3. CASE ~(I!Replay(r, env) /\ record[env.key] = env.summary)
    BY <2>1, <2>3 DEF I!Receive, I!Replay, I!Open
  <2> QED BY <2>2, <2>3
<1>2. CASE \E r \in Replica : I!Record(r)
  <2>1. PICK r \in Replica : I!Record(r)
    BY <1>2
  <2>2. srv[r].step # I!Idle /\ srv[r].env \in I!Envelope /\ I!Ledger!Verified(srv[r].env)
    BY <2>1, Holding DEF I!Record, I!Idle, I!HandlerAgrees
  <2>3. CASE record[I!Key(r)] = I!None
    BY <2>1, <2>2, <2>3 DEF I!Record, I!Key, I!Ledger!Accept, I!Ledger!Acceptable
  <2>4. CASE record[I!Key(r)] # I!None
    BY <2>1, <2>4 DEF I!Record
  <2> QED BY <2>3, <2>4
<1>3. CASE UNCHANGED <<record, told>>
  BY <1>3
<1>4. \/ \E r \in Replica, env \in I!Envelope : I!Receive(r, env)
      \/ \E r \in Replica : I!Record(r)
      \/ UNCHANGED <<record, told>>
  BY DEF I!Next, I!vars, I!StoreDocument, I!Look, I!Store, I!Fail
<1> QED BY <1>1, <1>2, <1>3, <1>4

-----------------------------------------------------------------------------
(* The outbox.  The institution refuses whatever a pass posts, so nothing is*)
(* in the ledger; an event in flight has its pass as long as nothing failed.*)
USE DEF O!NoEvent, O!None, O!Institution!None

LEMMA Least ==
  ASSUME NEW T, T \subseteq Nat, T # {}
  PROVE  \E e \in T : \A f \in T : e <= f
<1>1. PICK e \in T : \A f \in T : ~(<<f, e>> \in OpToRel(<, Nat))
  BY WFMin, NatLessThanWellFounded
<1>2. \A f \in T : ~(f < e)
  BY <1>1 DEF OpToRel
<1> QED BY <1>2

LEMMA OutFirst ==
  ASSUME NEW S \in SUBSET O!Event, S # {}
  PROVE  O!First(S) \in S
<1>1. S \subseteq Nat
  BY DEF O!Event
<1>2. \E e \in S : \A f \in S : e <= f
  BY <1>1, Least
<1> QED BY <1>2 DEF O!First

(* The institution refuses whatever it is sent.                            *)
LEMMA OutRefused ==
  ASSUME NEW p \in Pass, O!Institution!Handle(O!Posted(p))
  PROVE  UNCHANGED <<ledger, acked>>
<1>1. O!Posted(p).id = FALSE
  BY DEF O!Posted
<1>2. O!Institution!Dumped(O!Posted(p)).id = TRUE
  BY DEF O!Posted, O!Institution!Dumped
<1>3. ~O!Institution!Acceptable(O!Posted(p))
  BY <1>1, <1>2 DEF O!Institution!Acceptable, O!Institution!Verified
<1> QED BY <1>3 DEF O!Institution!Handle, O!Institution!ledgerVars

LEMMA OutInit ==
  ASSUME O!Init
  PROVE  O!IInv
BY DEF O!Init, O!IInv, O!Typed, O!AnswerHasEvent, O!NothingAccepted, O!InFlightIsSent,
       O!Institution!LedgerInit,
       O!Idle, O!Row, O!Summary, O!Institution!Summary

(* Where only passes without an event change, ... *)
LEMMA OutRest ==
  ASSUME O!IInv, UNCHANGED <<summary, outbox, pass, ledger, acked>>, faults' \in Nat, faults' >= faults
  PROVE  O!IInv'
BY DEF O!IInv, O!Typed, O!AnswerHasEvent, O!NothingAccepted, O!InFlightIsSent,
       O!Institution!LedgerInit

LEMMA OutSelect ==
  ASSUME O!IInv, NEW s \in Selected, O!Select(s)
  PROVE  O!IInv'
<1> USE DEF O!IInv
<1>1. PICK e \in O!Event :
        outbox' = [outbox EXCEPT ![e] = [status |-> "pending", key |-> s, summary |-> summary]]
  BY DEF O!Select
<1>2. UNCHANGED <<summary, pass, ledger, acked, faults>>
  BY DEF O!Select
<1>3. O!Typed'
  BY <1>1, <1>2 DEF O!Typed, O!Row
<1>4. O!InFlightIsSent'
  BY <1>1, <1>2 DEF O!InFlightIsSent, O!Typed
<1> QED BY <1>2, <1>3, <1>4 DEF O!AnswerHasEvent, O!NothingAccepted, O!Institution!LedgerInit

LEMMA OutEdit ==
  ASSUME O!IInv, O!Edit
  PROVE  O!IInv'
BY DEF O!IInv, O!Edit, O!Typed, O!AnswerHasEvent, O!NothingAccepted, O!InFlightIsSent,
       O!Institution!LedgerInit,
       O!Summary, O!Institution!Summary

LEMMA OutDelete ==
  ASSUME O!IInv, O!DeleteJob
  PROVE  O!IInv'
<1> USE DEF O!IInv
<1>1. /\ outbox' = [e \in O!Event |-> [outbox[e] EXCEPT !.status = "gone"]]
      /\ UNCHANGED <<summary, pass, ledger, acked, faults>>
  BY DEF O!DeleteJob
<1>2. \A e \in O!Event : [outbox[e] EXCEPT !.status = "gone"] \in O!Row
  BY DEF O!Typed, O!Row
<1>3. O!Typed'
  BY <1>1, <1>2 DEF O!Typed
<1>4. \A e \in O!Event : outbox'[e].status = "gone"
  BY <1>1 DEF O!Typed, O!Row
<1>5. O!InFlightIsSent'
  BY <1>4 DEF O!InFlightIsSent
<1> QED BY <1>1, <1>3, <1>5 DEF O!AnswerHasEvent, O!NothingAccepted, O!Institution!LedgerInit

(* A pass that has no event may change and take or leave events.           *)
OutPass == [todo : SUBSET O!Event, at : O!Event \cup {O!NoEvent},
            answer : {O!None, "accepted", "refused", "lost"}]

LEMMA OutPassChanges ==
  ASSUME O!IInv, NEW p \in Pass, NEW new \in OutPass, pass' = [pass EXCEPT ![p] = new],
         new.answer # O!None => new.at \in O!Event,
         pass[p].at # O!NoEvent => new.at = pass[p].at,
         UNCHANGED <<summary, outbox, ledger, acked>>, faults' \in Nat, faults' >= faults
  PROVE  O!IInv'
<1> USE DEF O!IInv
<1>1. O!Typed'
  BY DEF O!Typed, OutPass
<1>2. \A q \in Pass : pass'[q] = IF q = p THEN new ELSE pass[q]
  BY DEF O!Typed
<1>3. O!AnswerHasEvent' /\ O!NothingAccepted'
  BY <1>2 DEF O!AnswerHasEvent, O!NothingAccepted, O!Institution!LedgerInit
<1>4. O!InFlightIsSent'
  <2> SUFFICES ASSUME faults' = 0, NEW e \in O!Event, outbox[e].status = "in_flight"
               PROVE  \E q \in Pass : pass'[q].at = e
    BY DEF O!InFlightIsSent
  <2>1. faults = 0
    BY DEF O!Typed
  <2>2. PICK q \in Pass : pass[q].at = e
    BY <2>1 DEF O!InFlightIsSent
  <2>3. e # O!NoEvent
    BY DEF O!Event
  <2> QED BY <1>2, <2>2, <2>3
<1> QED BY <1>1, <1>3, <1>4

LEMMA OutBegin ==
  ASSUME O!IInv, NEW p \in Pass, O!Begin(p)
  PROVE  O!IInv'
<1> DEFINE new == [O!Idle EXCEPT !.todo = O!Pending]
<1>1. /\ pass' = [pass EXCEPT ![p] = new] /\ pass[p] = O!Idle
      /\ UNCHANGED <<summary, outbox, ledger, acked, faults>>
  BY DEF O!Begin, O!IInv, O!Typed
<1>2. new \in OutPass /\ new.answer = O!None /\ pass[p].at = O!NoEvent
  BY <1>1 DEF O!Pending, O!Idle, OutPass
<1>3. faults' \in Nat /\ faults' >= faults
  BY <1>1 DEF O!IInv
<1> HIDE DEF new
<1> QED BY <1>1, <1>2, <1>3, OutPassChanges

(* The event of a pass is marked before the pass goes on with it.          *)
LEMMA OutMarked ==
  ASSUME O!IInv, NEW e \in O!Event
  PROVE  /\ [outbox EXCEPT ![e].status = "in_flight"] \in [O!Event -> O!Row]
         /\ [outbox EXCEPT ![e].status = "completed"] \in [O!Event -> O!Row]
         /\ [outbox EXCEPT ![e].status = "pending"] \in [O!Event -> O!Row]
<1>1. \A st \in {"in_flight", "completed", "pending"} : [outbox[e] EXCEPT !.status = st] \in O!Row
  BY DEF O!IInv, O!Typed, O!Row
<1> QED BY <1>1 DEF O!IInv, O!Typed

LEMMA OutSend ==
  ASSUME O!OutboxAssumption, O!IInv, NEW p \in Pass, O!Send(p)
  PROVE  O!IInv'
<1> USE DEF O!IInv
<1> DEFINE e == O!First(pass[p].todo)
           next == [pass[p] EXCEPT !.at = e, !.todo = @ \ {e}]
<1>1. pass[p].at = O!NoEvent /\ pass[p] \in OutPass /\ UNCHANGED <<summary, ledger, acked>>
  BY DEF O!Send, O!Typed, OutPass
<1>2. e \in O!Event /\ O!Idle \in OutPass /\ O!Idle.answer = O!None
  BY <1>1, OutFirst DEF O!Send, OutPass, O!Idle
<1>3. pass[p].answer = O!None
  <2>1. O!NoEvent \notin O!Event
    BY DEF O!Event
  <2> QED BY <1>1, <2>1 DEF O!AnswerHasEvent
<1>4. next \in OutPass /\ next.answer = O!None /\ next.at = e
  <2> HIDE DEF e
  <2> QED BY <1>1, <1>2, <1>3 DEF OutPass
<1>5. CASE pass' = [pass EXCEPT ![p] = O!Idle] /\ UNCHANGED <<outbox, faults>>
  <2>1. faults' \in Nat /\ faults' >= faults
    BY <1>5
  <2> QED BY <1>1, <1>2, <1>5, <2>1, OutPassChanges
<1>6. CASE /\ outbox' = [outbox EXCEPT ![e].status = "in_flight"]
           /\ pass' = [pass EXCEPT ![p] = next] /\ UNCHANGED faults
  <2> HIDE DEF e, next
  <2>1. O!Typed'
    BY <1>1, <1>2, <1>4, <1>6, OutMarked DEF O!Typed, OutPass
  <2>2. \A q \in Pass : pass'[q] = IF q = p THEN next ELSE pass[q]
    BY <1>6 DEF O!Typed
  <2>3. O!AnswerHasEvent' /\ O!NothingAccepted'
    BY <1>1, <1>4, <2>2 DEF O!AnswerHasEvent, O!NothingAccepted, O!Institution!LedgerInit
  <2>4. \A f \in O!Event \ {e} : outbox'[f] = outbox[f]
    BY <1>6 DEF O!Typed
  <2>5. O!InFlightIsSent'
    <3> SUFFICES ASSUME faults = 0, NEW f \in O!Event, outbox'[f].status = "in_flight"
                 PROVE  \E q \in Pass : pass'[q].at = f
      BY <1>6 DEF O!InFlightIsSent
    <3>1. CASE f = e
      BY <1>4, <2>2, <3>1
    <3>2. CASE f # e
      <4>1. PICK q \in Pass : pass[q].at = f
        BY <2>4, <3>2 DEF O!InFlightIsSent
      <4> QED BY <1>1, <2>2, <4>1 DEF O!Event
    <3> QED BY <3>1, <3>2
  <2> QED BY <1>6, <2>1, <2>3, <2>5
<1>7. CASE /\ outbox' = [outbox EXCEPT ![e].status = "in_flight"]
           /\ pass' = [pass EXCEPT ![p] = O!Idle] /\ O!Fault
  <2> HIDE DEF e
  <2>1. faults' \in Nat /\ faults' # 0
    BY <1>7 DEF O!Fault
  <2>2. O!Typed'
    BY <1>1, <1>2, <1>7, OutMarked DEF O!Typed, OutPass
  <2>3. O!AnswerHasEvent' /\ O!NothingAccepted'
    BY <1>1, <1>2, <1>7 DEF O!AnswerHasEvent, O!NothingAccepted, O!Institution!LedgerInit, O!Typed
  <2> QED BY <2>1, <2>2, <2>3 DEF O!InFlightIsSent
<1>8. \/ pass' = [pass EXCEPT ![p] = O!Idle] /\ UNCHANGED <<outbox, faults>>
      \/ /\ outbox' = [outbox EXCEPT ![e].status = "in_flight"]
         /\ pass' = [pass EXCEPT ![p] = next] /\ UNCHANGED faults
      \/ /\ outbox' = [outbox EXCEPT ![e].status = "in_flight"]
         /\ pass' = [pass EXCEPT ![p] = O!Idle] /\ O!Fault
  BY DEF O!Send
<1> QED BY <1>5, <1>6, <1>7, <1>8

LEMMA OutAnswered ==
  ASSUME O!IInv, NEW p \in Pass, O!Answered(p) \/ O!Timeout(p)
  PROVE  O!IInv'
<1> USE DEF O!IInv
<1>1. UNCHANGED <<summary, outbox, ledger, acked>>
  BY OutRefused DEF O!Answered, O!Timeout
<1>2. PICK answer \in {"accepted", "refused", "lost"} :
        pass' = [pass EXCEPT ![p] = [pass[p] EXCEPT !.answer = answer]]
  BY DEF O!Answered, O!Timeout
<1>3. pass[p] \in OutPass /\ pass[p].at \in O!Event
  BY DEF O!Answered, O!Timeout, O!Waiting, O!Typed, OutPass
<1>4. /\ [pass[p] EXCEPT !.answer = answer] \in OutPass
      /\ [pass[p] EXCEPT !.answer = answer].at = pass[p].at
  BY <1>3 DEF OutPass
<1>5. faults' \in Nat /\ faults' >= faults
  BY DEF O!Answered, O!Timeout, O!Fault
<1> QED BY <1>1, <1>2, <1>3, <1>4, <1>5, OutPassChanges

LEMMA OutSettle ==
  ASSUME O!IInv, NEW p \in Pass, O!Settle(p)
  PROVE  O!IInv'
<1> USE DEF O!IInv
<1> DEFINE e == pass[p].at
           next == [pass[p] EXCEPT !.at = O!NoEvent, !.answer = O!None]
           st == IF pass[p].answer = "accepted" THEN "completed" ELSE "pending"
<1>1. e \in O!Event /\ pass[p] \in OutPass /\ UNCHANGED <<summary, ledger, acked, faults>>
  BY DEF O!Settle, O!AnswerHasEvent, O!Typed, OutPass
<1>2. O!Idle \in OutPass /\ next \in OutPass
      /\ next.answer = O!None /\ O!Idle.answer = O!None
  BY <1>1 DEF OutPass, O!Idle
<1>3. PICK new \in {O!Idle, next} : pass' = [pass EXCEPT ![p] = new]
  BY DEF O!Settle
<1>4. outbox' \in [O!Event -> O!Row] /\ outbox'[e].status # "in_flight"
      /\ \A f \in O!Event \ {e} : outbox'[f] = outbox[f]
  <2>1. CASE outbox[e].status = "gone"
    BY <1>1, <2>1 DEF O!Settle, O!Typed
  <2>2. CASE outbox[e].status # "gone"
    <3>1. outbox' = [outbox EXCEPT ![e].status = st]
      BY <2>2 DEF O!Settle
    <3>2. outbox' \in [O!Event -> O!Row]
      BY <1>1, <3>1, OutMarked
    <3>3. outbox'[e].status = st
      BY <1>1, <3>1 DEF O!Typed, O!Row
    <3> QED BY <3>1, <3>2, <3>3 DEF O!Typed
  <2> QED BY <2>1, <2>2
<1>5. \A q \in Pass : pass'[q] = IF q = p THEN new ELSE pass[q]
  BY <1>3 DEF O!Typed
<1>6. new \in OutPass /\ new.answer = O!None
  BY <1>2, <1>3
<1>7. O!Typed'
  BY <1>1, <1>3, <1>4, <1>6 DEF O!Typed, OutPass
<1>8. O!AnswerHasEvent' /\ O!NothingAccepted'
  BY <1>1, <1>5, <1>6 DEF O!AnswerHasEvent, O!NothingAccepted, O!Institution!LedgerInit
<1>9. O!InFlightIsSent'
  <2> SUFFICES ASSUME faults = 0, NEW f \in O!Event, outbox'[f].status = "in_flight"
               PROVE  \E q \in Pass : pass'[q].at = f
    BY <1>1 DEF O!InFlightIsSent
  <2>1. f # e /\ outbox[f].status = "in_flight"
    BY <1>4
  <2>2. PICK q \in Pass : pass[q].at = f
    BY <2>1 DEF O!InFlightIsSent
  <2> QED BY <1>5, <2>1, <2>2
<1> QED BY <1>1, <1>7, <1>8, <1>9

LEMMA OutCrash ==
  ASSUME O!IInv, O!DeviceCrash
  PROVE  O!IInv'
<1> USE DEF O!IInv
<1>1. /\ pass' = [p \in Pass |-> O!Idle] /\ UNCHANGED <<summary, outbox, ledger, acked>>
      /\ faults' \in Nat /\ faults' # 0
  BY DEF O!DeviceCrash, O!Fault
<1>2. O!Typed' /\ O!AnswerHasEvent' /\ O!NothingAccepted'
  BY <1>1 DEF O!Typed, O!AnswerHasEvent, O!NothingAccepted, O!Institution!LedgerInit, O!Idle
<1> QED BY <1>1, <1>2 DEF O!InFlightIsSent

LEMMA OutNext ==
  ASSUME O!OutboxAssumption, O!IInv, O!Next
  PROVE  O!IInv'
BY OutSelect, OutEdit, OutDelete, OutBegin, OutSend, OutAnswered, OutSettle, OutCrash
   DEF O!Next, O!PassStep

-----------------------------------------------------------------------------
(* Webhooks.  A pass that will commit "delivered" has delivered.           *)
HookRecord == [on : BOOLEAN, left : SUBSET Delivery, changed : H!Changes]

HookAgrees(q, got) ==
  /\ q.left \subseteq DOMAIN q.changed
  /\ \A d \in DOMAIN q.changed :
       /\ q.changed[d].status # "none"
       /\ q.changed[d].status = "delivered" => d \in got

LEMMA HookIs ==
  /\ H!NoRow \in H!Row /\ H!NoRow.status = "none"
  /\ H!NoPass \in HookRecord /\ \A got : HookAgrees(H!NoPass, got)
<1>1. H!NoPass.changed \in [{} -> H!Row] /\ DOMAIN H!NoPass.changed = {}
  BY DEF H!NoPass
<1>2. H!NoPass.left = {} /\ H!NoPass.on \in BOOLEAN
  BY DEF H!NoPass
<1>3. H!NoPass = [on |-> H!NoPass.on, left |-> H!NoPass.left, changed |-> H!NoPass.changed]
  BY DEF H!NoPass
<1>4. H!NoPass.changed \in H!Changes
  BY <1>1 DEF H!Changes
<1>5. H!NoPass \in HookRecord
  BY <1>2, <1>3, <1>4 DEF HookRecord
<1> QED BY <1>1, <1>2, <1>5 DEF H!NoRow, H!Row, HookAgrees

(* The rows a pass has changed.                                            *)
LEMMA HookChanged ==
  ASSUME NEW q \in HookRecord
  PROVE  /\ DOMAIN q.changed \subseteq Delivery
         /\ \A d \in DOMAIN q.changed : q.changed[d] \in H!Row
<1>1. PICK D \in SUBSET Delivery : q.changed \in [D -> H!Row]
  BY DEF HookRecord, H!Changes
<1> QED BY <1>1

LEMMA HookRow ==
  ASSUME NEW r \in H!Row
  PROVE  /\ [r EXCEPT !.attempt = @ + 1, !.status = "delivered"] \in H!Row
         /\ [r EXCEPT !.attempt = @ + 1, !.status = "delivered"].status = "delivered"
         /\ [r EXCEPT !.status = "failed"] \in H!Row /\ [r EXCEPT !.status = "failed"].status = "failed"
         /\ H!Failed(r) \in H!Row /\ H!Failed(r).status \in {"failed", r.status}
<1>1. r.attempt + 1 \in Nat
  BY DEF H!Row
<1> DEFINE n == r.attempt + 1
<1> HIDE DEF n
<1>2. n \in Nat
  BY <1>1 DEF n
<1>3. [r EXCEPT !.attempt = n, !.status = "delivered"] \in H!Row
  BY <1>2 DEF H!Row
<1>4. /\ [r EXCEPT !.attempt = n, !.status = "failed"] \in H!Row
      /\ [r EXCEPT !.attempt = n, !.due = FALSE] \in H!Row
  BY <1>2 DEF H!Row
<1>5. /\ [r EXCEPT !.attempt = n, !.status = "delivered"].status = "delivered"
      /\ [r EXCEPT !.attempt = n, !.status = "failed"].status = "failed"
      /\ [r EXCEPT !.attempt = n, !.due = FALSE].status = r.status
  BY DEF H!Row
<1>6. [r EXCEPT !.status = "failed"] \in H!Row /\ [r EXCEPT !.status = "failed"].status = "failed"
  BY DEF H!Row
<1> QED BY <1>3, <1>4, <1>5, <1>6 DEF H!Failed, n

(* One pass changes, and targets have received more.                       *)
LEMMA HookPass ==
  ASSUME H!IInv, NEW p \in Replica, NEW new \in HookRecord, passes' = [passes EXCEPT ![p] = new],
         UNCHANGED delivery, received \subseteq received', HookAgrees(new, received')
  PROVE  H!IInv'
<1> USE DEF H!IInv
<1>1. H!Typed'
  BY DEF H!Typed, HookRecord
<1>2. \A q \in Replica : passes'[q] = IF q = p THEN new ELSE passes[q]
  BY DEF H!Typed
<1>3. H!PassesAgree'
  BY <1>2 DEF H!PassesAgree, HookAgrees
<1>4. H!DeliveredWasReceived'
  BY DEF H!DeliveredWasReceived
<1> QED BY <1>1, <1>3, <1>4

(* A pass that leaves a row is the same but for that row.                  *)
LEMMA HookLeave ==
  ASSUME H!IInv, NEW p \in Replica, NEW d \in passes[p].left, NEW r \in H!Row,
         passes' = H!Leave(p, d, r), UNCHANGED delivery, received \subseteq received',
         r.status # "none", r.status = "delivered" => d \in received'
  PROVE  H!IInv'
<1> DEFINE old == passes[p]
           new == [old EXCEPT !.left = @ \ {d}, !.changed[d] = r]
<1>1. old \in HookRecord /\ HookAgrees(old, received)
  BY DEF H!IInv, H!Typed, H!PassesAgree, HookRecord, HookAgrees
<1>2. PICK D \in SUBSET Delivery : old.changed \in [D -> H!Row]
  BY <1>1 DEF HookRecord, H!Changes
<1>3. passes' = [passes EXCEPT ![p] = new]
  BY DEF H!Leave
<1> HIDE DEF old
<1>4. /\ new.left = old.left \ {d} /\ new.on = old.on
      /\ new.changed = [old.changed EXCEPT ![d] = r]
  <2> USE <1>1 DEF HookRecord
  <2>1. new.left = old.left \ {d}
    OBVIOUS
  <2>2. new.on = old.on
    OBVIOUS
  <2>3. new.changed = [old.changed EXCEPT ![d] = r]
    OBVIOUS
  <2> QED BY <2>1, <2>2, <2>3
<1>5. new.changed \in [D -> H!Row] /\ DOMAIN new.changed = D /\ DOMAIN old.changed = D
  BY <1>2, <1>4
<1>6. \A c \in D : new.changed[c] = IF c = d THEN r ELSE old.changed[c]
  BY <1>2, <1>4
<1>7. HookAgrees(new, received')
  BY <1>1, <1>4, <1>5, <1>6 DEF HookAgrees
<1>8. new \in HookRecord
  <2>1. new.changed \in H!Changes
    BY <1>5 DEF H!Changes
  <2>2. new.on \in BOOLEAN /\ new.left \in SUBSET Delivery
    BY <1>1, <1>4 DEF HookRecord
  <2> QED BY <1>1, <2>1, <2>2 DEF HookRecord
<1> HIDE DEF new
<1> QED BY <1>3, <1>7, <1>8, HookPass

LEMMA HookEmit ==
  ASSUME H!IInv, NEW d \in Delivery, H!Emit(d) \/ H!FallDue(d)
  PROVE  H!IInv'
<1> USE DEF H!IInv
<1>1. UNCHANGED <<passes, received>>
  BY DEF H!Emit, H!FallDue
<1>2. /\ delivery' \in [Delivery -> H!Row]
      /\ \A c \in Delivery : delivery'[c].status = "delivered" => delivery[c].status = "delivered"
  <2>1. CASE H!Emit(d)
    BY <2>1 DEF H!Emit, H!Typed, H!Row
  <2>2. CASE H!FallDue(d)
    <3>1. [delivery[d] EXCEPT !.due = TRUE] \in H!Row
      BY DEF H!Typed, H!Row
    <3>2. delivery' = [delivery EXCEPT ![d] = [delivery[d] EXCEPT !.due = TRUE]]
      BY <2>2 DEF H!FallDue
    <3> QED BY <3>1, <3>2 DEF H!Typed, H!Row
  <2> QED BY <2>1, <2>2
<1> QED BY <1>1, <1>2 DEF H!Typed, H!PassesAgree, H!DeliveredWasReceived

LEMMA HookLoad ==
  ASSUME H!IInv, NEW p \in Replica, H!Load(p)
  PROVE  H!IInv'
<1> DEFINE pending == {d \in Delivery : delivery[d].status = "pending" /\ delivery[d].due}
           new == [on |-> TRUE, left |-> pending, changed |-> [d \in pending |-> delivery[d]]]
<1>1. /\ passes' = [passes EXCEPT ![p] = new] /\ UNCHANGED <<delivery, received>>
  BY DEF H!Load
<1>2. new.changed \in [pending -> H!Row] /\ pending \in SUBSET Delivery
  BY DEF H!IInv, H!Typed
<1>3. new \in HookRecord
  <2>1. new.changed \in H!Changes
    BY <1>2 DEF H!Changes
  <2> QED BY <1>2, <2>1 DEF HookRecord
<1>4. HookAgrees(new, received')
  BY DEF HookAgrees
<1> HIDE DEF new
<1> QED BY <1>1, <1>3, <1>4, HookPass

LEMMA HookSend ==
  ASSUME H!IInv, NEW p \in Replica, NEW d \in Delivery, H!Send(p, d) \/ H!GiveUp(p, d)
  PROVE  H!IInv'
<1> DEFINE r == passes[p].changed[d]
<1>1. d \in passes[p].left /\ UNCHANGED delivery
  BY DEF H!Send, H!GiveUp
<1>2. r \in H!Row /\ r.status # "none" /\ (r.status = "delivered" => d \in received)
  BY <1>1, HookChanged DEF H!IInv, H!Typed, H!PassesAgree, HookRecord
<1> HIDE DEF r
<1>3. CASE /\ received' = received \cup {d}
           /\ passes' = H!Leave(p, d, [r EXCEPT !.attempt = @ + 1, !.status = "delivered"])
  <2> DEFINE new == [r EXCEPT !.attempt = @ + 1, !.status = "delivered"]
  <2>1. new \in H!Row /\ new.status = "delivered"
    BY <1>2, HookRow
  <2> HIDE DEF new
  <2> QED BY <1>1, <1>3, <2>1, HookLeave DEF new
<1>4. CASE received' \in {received, received \cup {d}} /\ passes' = H!Leave(p, d, H!Failed(r))
  <2>1. H!Failed(r) \in H!Row /\ H!Failed(r).status \in {"failed", r.status}
    BY <1>2, HookRow
  <2> QED BY <1>1, <1>2, <1>4, <2>1, HookLeave
<1>5. CASE UNCHANGED received /\ passes' = H!Leave(p, d, [r EXCEPT !.status = "failed"])
  <2>1. [r EXCEPT !.status = "failed"] \in H!Row /\ [r EXCEPT !.status = "failed"].status = "failed"
    BY <1>2, HookRow
  <2> QED BY <1>1, <1>5, <2>1, HookLeave
<1> QED BY <1>3, <1>4, <1>5 DEF H!Send, H!GiveUp, r

LEMMA HookEnds ==
  ASSUME H!IInv, NEW p \in Replica, (\E d \in Delivery : H!Raise(p, d)) \/ H!Die(p)
  PROVE  H!IInv'
<1>1. passes' = [passes EXCEPT ![p] = H!NoPass] /\ UNCHANGED <<delivery, received>>
  BY DEF H!Raise, H!Die
<1> QED BY <1>1, HookIs, HookPass

(* What a commit makes of a row.                                           *)
LEMMA HookMerged ==
  ASSUME NEW old \in H!Row, NEW new \in H!Row
  PROVE  /\ H!Merged(old, new) \in H!Row
         /\ H!Merged(old, new).status = IF new.status # "pending" THEN new.status ELSE old.status
BY DEF H!Merged, H!Row

LEMMA HookCommit ==
  ASSUME H!IInv, NEW p \in Replica, H!Commit(p)
  PROVE  /\ H!IInv'
         /\ \A d \in Delivery : delivery[d].status \in {"delivered", "failed"} =>
              delivery'[d].status \in {"delivered", "failed"}
<1> USE DEF H!IInv
<1>1. /\ passes' = [passes EXCEPT ![p] = H!NoPass] /\ UNCHANGED received
      /\ delivery' = [d \in Delivery |->
           IF d \in DOMAIN passes[p].changed THEN H!Merged(delivery[d], passes[p].changed[d])
                                           ELSE delivery[d]]
  BY DEF H!Commit
<1>2. \A d \in DOMAIN passes[p].changed :
        /\ passes[p].changed[d] \in H!Row /\ passes[p].changed[d].status # "none"
        /\ passes[p].changed[d].status = "delivered" => d \in received
  BY HookChanged DEF H!Typed, H!PassesAgree, HookRecord
<1>3. \A d \in Delivery :
        /\ delivery'[d] \in H!Row
        /\ delivery'[d].status = "delivered" => d \in received
        /\ delivery[d].status \in {"delivered", "failed"} =>
             delivery'[d].status \in {"delivered", "failed"}
  <2> SUFFICES ASSUME NEW d \in Delivery
               PROVE  /\ delivery'[d] \in H!Row
                      /\ delivery'[d].status = "delivered" => d \in received
                      /\ delivery[d].status \in {"delivered", "failed"} =>
                           delivery'[d].status \in {"delivered", "failed"}
    OBVIOUS
  <2>1. delivery[d] \in H!Row
    BY DEF H!Typed
  <2>2. CASE d \in DOMAIN passes[p].changed
    <3>1. delivery'[d] = H!Merged(delivery[d], passes[p].changed[d])
      BY <1>1, <2>2
    <3>2. passes[p].changed[d].status \in {"pending", "delivered", "failed"}
      BY <1>2, <2>2 DEF H!Row
    <3> QED BY <1>2, <2>1, <2>2, <3>1, <3>2, HookMerged DEF H!DeliveredWasReceived
  <2>3. CASE d \notin DOMAIN passes[p].changed
    BY <1>1, <2>1, <2>3 DEF H!DeliveredWasReceived
  <2> QED BY <2>2, <2>3
<1>4. delivery' \in [Delivery -> H!Row]
  BY <1>1, <1>3
<1>5. H!Typed'
  BY <1>1, <1>4, HookIs DEF H!Typed, HookRecord
<1>6. \A q \in Replica : passes'[q] = IF q = p THEN H!NoPass ELSE passes[q]
  BY <1>1 DEF H!Typed
<1>7. H!PassesAgree'
  BY <1>1, <1>6, HookIs DEF H!PassesAgree, HookAgrees
<1> QED BY <1>1, <1>3, <1>5, <1>7 DEF H!DeliveredWasReceived

LEMMA HookInit ==
  ASSUME H!Init
  PROVE  H!IInv
BY HookIs DEF H!Init, H!IInv, H!Typed, H!PassesAgree, H!DeliveredWasReceived, HookRecord,
              HookAgrees

LEMMA HookRest ==
  ASSUME H!IInv, UNCHANGED <<delivery, passes, received>>
  PROVE  H!IInv'
BY DEF H!IInv, H!Typed, H!PassesAgree, H!DeliveredWasReceived

LEMMA HookNext ==
  ASSUME H!IInv, H!Next
  PROVE  H!IInv'
<1>1. CASE H!Repair
  BY <1>1, HookRest DEF H!Repair
<1> QED BY <1>1, HookEmit, HookLoad, HookSend, HookEnds, HookCommit DEF H!Next, H!Step

LEMMA HookSettled ==
  ASSUME H!IInv, H!Next, NEW d \in Delivery, delivery[d].status \in {"delivered", "failed"}
  PROVE  delivery'[d].status \in {"delivered", "failed"}
<1>1. CASE \E c \in Delivery : H!Emit(c)
  BY <1>1 DEF H!Emit, H!IInv, H!Typed
<1>2. CASE \E c \in Delivery : H!FallDue(c)
  BY <1>2 DEF H!FallDue, H!IInv, H!Typed
<1>3. CASE \E p \in Replica : H!Commit(p)
  BY <1>3, HookCommit
<1>4. CASE UNCHANGED delivery
  BY <1>4
<1>5. \/ \E c \in Delivery : H!Emit(c) \/ H!FallDue(c)
      \/ \E p \in Replica : H!Commit(p)
      \/ UNCHANGED delivery
  BY DEF H!Next, H!Step, H!Repair, H!Load, H!Send, H!GiveUp, H!Raise, H!Die
<1> QED BY <1>1, <1>2, <1>3, <1>4, <1>5

-----------------------------------------------------------------------------
(* Answer scripts.  Who waits for the LMS holds the row (HeldWhileSent), so*)
(* a score is on record, about to be, or excused (Counted); an analysis that*)
(* a row or a request names is over (Analyses); requests that do not overlap*)
(* find the row as it is (Alone).                                          *)
(* A handler that is idle names no mark and no analysis.                   *)
LEMMA ScriptIdle ==
  A!Idle \in A!Call /\ A!NoScore \in A!Score /\ A!Fits(A!Idle) /\ A!Idle.at = "idle" /\ A!Idle.op = "none"
    /\ ~A!Idle.read.lms /\ A!Idle.read.analysis = 0
BY DEF A!Idle, A!NoScore, A!Call, A!Score, A!Status, A!Fits

LEMMA ScriptFits ==
  ASSUME NEW c \in A!Call, A!Fits(c), c # A!Idle
  PROVE  c.at # "idle" /\ c.op # "none"
BY DEF A!Fits

LEMMA ScriptStored ==
  ASSUME A!IInv, NEW h \in Handler, call[h].at \in {"write", "wait"}, call[h].op # "return"
  PROVE  /\ A!Stored(call[h]) \in [status : A!Status, score : A!Score]
         /\ A!Stored(call[h]).score.lms =>
              A!Stored(call[h]).score.mark \in
                approved \cup (IF call[h].op = "approve" THEN {call[h].id} ELSE {})
         /\ call[h].op = "analyze" =>
              A!Stored(call[h]).score.analysis = call[h].id
         /\ call[h].op # "analyze" =>
              A!Stored(call[h]).score.analysis \in {script.score.analysis, call[h].read.analysis}
<1> DEFINE c == call[h]
<1>1. c \in A!Call /\ A!Fits(c) /\ c # A!Idle
  BY DEF A!IInv, A!Typed, A!Numbered, A!Idle
<1>2. c.op \in {"analyze", "approve", "patch", "status", "accept"}
  <2>1. c.op # "none" /\ c.op # "return"
    BY <1>1, ScriptFits
  <2> QED BY <1>1, <2>1 DEF A!Call
<1>3. script.status \in A!Status /\ script.score \in A!Score /\ script \in [status : A!Status, score : A!Score]
  BY DEF A!IInv, A!Typed
<1>4. c.read \in A!Score /\ c.id \in Nat /\ c.status \in A!Status
  BY <1>1 DEF A!Call
<1>5. /\ script.score.lms => script.score.mark \in approved
      /\ c.read.lms => c.read.mark \in approved
  BY DEF A!IInv, A!MarksApproved
<1> HIDE DEF c
<1>6. CASE c.op = "analyze"
  <2> DEFINE s == [c.read EXCEPT !.analysis = c.id]
  <2>1. A!Stored(c) = [status |-> "ready_for_review", score |-> s]
    BY <1>6 DEF A!Stored
  <2>2. s \in A!Score /\ s.analysis = c.id /\ s.lms = c.read.lms /\ s.mark = c.read.mark
    BY <1>4 DEF A!Score
  <2> HIDE DEF s
  <2> QED BY <1>5, <1>6, <2>1, <2>2 DEF A!Status, c
<1>7. CASE c.op = "approve"
  <2> DEFINE s == [c.read EXCEPT !.mark = c.id, !.lms = TRUE, !.published = FALSE]
  <2>1. A!Stored(c) = [status |-> "approved", score |-> s]
    BY <1>7 DEF A!Stored
  <2>2. s \in A!Score /\ s.analysis = c.read.analysis /\ s.mark = c.id
    BY <1>4 DEF A!Score
  <2> HIDE DEF s
  <2> QED BY <1>7, <2>1, <2>2 DEF A!Status, c
<1>8. CASE c.op = "patch"
  <2>1. A!Stored(c) = [status |-> script.status, score |-> c.read]
    BY <1>8 DEF A!Stored
  <2> QED BY <1>3, <1>4, <1>5, <1>8, <2>1 DEF c
<1>9. CASE c.op = "status"
  <2>1. PICK s \in A!Status : A!Stored(c) = [status |-> s, score |-> script.score]
    BY <1>9 DEF A!Stored, A!Status
  <2> QED BY <1>3, <1>5, <1>9, <2>1 DEF c
<1>10. CASE c.op = "accept"
  <2>1. A!Stored(c) = [status |-> "approved", score |-> script.score]
    BY <1>10 DEF A!Stored
  <2> QED BY <1>3, <1>5, <1>10, <2>1 DEF c, A!Status
<1> QED BY <1>2, <1>6, <1>7, <1>8, <1>9, <1>10

(* A request that begins has a number of its own and the row as it is.     *)
LEMMA ScriptStart ==
  ASSUME A!IInv, A!ScriptAssumption, NEW h \in Handler, NEW c \in A!Call, A!Start(h, c),
         c.op # "none", c.at # "idle", A!Fits(c), c.at \notin {"post", "posted"},
         c.op = "analyze" => /\ c.at = "respond" /\ c.left = Questions
                             /\ \A r \in responses : r.by # c.by,
         UNCHANGED <<script, responses, lock, posted, approved, excused, faults>>
  PROVE  A!IInv'
<1> DEFINE new == [c EXCEPT !.id = count + 1, !.read = script.score, !.status = script.status]
<1> USE DEF A!IInv
<1>1. /\ call' = [call EXCEPT ![h] = new] /\ count' = count + 1 /\ call[h] = A!Idle
      /\ raced' = (raced \/ A!Active(h) # {})
  BY DEF A!Start
<1>2. /\ new \in A!Call /\ new.op = c.op /\ new.at = c.at /\ new.left = c.left /\ new.by = c.by
      /\ new.id = count + 1 /\ new.read = script.score /\ new.status = script.status
  <2>1. count + 1 \in Nat /\ script.score \in A!Score /\ script.status \in A!Status
    BY DEF A!Typed
  <2> QED BY <2>1 DEF A!Call
<1>3. A!Fits(new) /\ new # A!Idle
  <2>1. c # A!Idle
    BY ScriptIdle
  <2>2. new # A!Idle
    BY <1>2, ScriptIdle
  <2> QED BY <1>2, <2>1, <2>2 DEF A!Fits
<1> HIDE DEF new
<1>4. \A g \in Handler : call'[g] = IF g = h THEN new ELSE call[g]
  BY <1>1 DEF A!Typed
<1>5. A!Typed'
  <2>1. call' \in [Handler -> A!Call] /\ count' \in Nat /\ raced' \in BOOLEAN
    BY <1>1, <1>2 DEF A!Typed
  <2>2. responses' \subseteq [of : 1..count', by : Teachers \cup {A!Nobody}, n : Nat]
    <3>1. 1..count \subseteq 1..count'
      BY <1>1 DEF A!Typed
    <3> QED BY <3>1 DEF A!Typed
  <2> QED BY <2>1, <2>2 DEF A!Typed
<1>6. A!Numbered'
  <2>1. \A g \in Handler : A!Fits(call'[g])
    BY <1>3, <1>4 DEF A!Numbered
  <2>2. \A g \in Handler : call'[g] # A!Idle => call'[g].id \in 1..count'
    BY <1>1, <1>2, <1>4 DEF A!Numbered, A!Typed
  <2>3. \A g \in Handler \ {h} : call[g] # A!Idle => call[g].id # new.id
    BY <1>1, <1>2 DEF A!Numbered, A!Typed
  <2> QED BY <1>4, <2>1, <2>2, <2>3 DEF A!Numbered
<1>7. A!HeldWhileSent'
  BY <1>2, <1>4 DEF A!HeldWhileSent
<1>8. A!Counted'
  <2>1. (\E g \in Handler : call[g].at = "posted") => \E g \in Handler : call'[g].at = "posted"
    BY <1>1, <1>4, ScriptIdle
  <2> QED BY <2>1 DEF A!Counted, A!Typed
<1>9. A!MarksApproved'
  BY <1>2, <1>4 DEF A!MarksApproved
<1>10. \A i : A!Made(i)' = A!Made(i)
  BY DEF A!Made
<1>11. \A i : A!Finished(i) => A!Finished(i)'
  BY <1>1, <1>2, <1>4, <1>10 DEF A!Finished, A!Typed
<1>12. c.op = "analyze" => A!Made(new.id) = {}
  BY <1>1, <1>2 DEF A!Made, A!Typed
<1>13. A!Analyses'
  <2>1. A!Finished(script.score.analysis)' /\ \A g \in Handler : A!Finished(call[g].read.analysis)'
    BY <1>2, <1>4, <1>11 DEF A!Analyses
  <2>2. (Questions + 1)..Questions = {}
    BY DEF A!ScriptAssumption
  <2>3. \A g \in Handler : (call[g].op = "analyze")' =>
          (A!Made(call[g].id) = (call[g].left + 1)..Questions)'
    <3> SUFFICES ASSUME NEW g \in Handler, call'[g].op = "analyze"
                 PROVE  A!Made(call'[g].id) = (call'[g].left + 1)..Questions
      BY DEF A!Made
    <3>1. CASE g = h
      BY <1>2, <1>4, <1>12, <2>2, <3>1
    <3>2. CASE g # h
      BY <1>4, <3>2 DEF A!Analyses
    <3> QED BY <3>1, <3>2
  <2> QED BY <2>1, <2>3 DEF A!Analyses
<1>14. A!Alone'
  <2> SUFFICES ASSUME ~raced' PROVE A!Alone'
    BY DEF A!Alone
  <2>1. ~raced /\ \A g \in Handler \ {h} : call[g].at = "idle"
    BY <1>1 DEF A!Active
  <2>2. \A g \in Handler \ {h} : call[g] = A!Idle
    BY <2>1, ScriptFits DEF A!Typed, A!Numbered
  <2>3. \A g \in Handler \ {h} : call'[g] = A!Idle
    BY <1>4, <2>2
  <2>4. \A g \in Handler : call'[g] # A!Idle => call'[g].read.analysis = script'.score.analysis
    BY <1>2, <1>4, <2>3
  <2>5. \A g \in Handler, r \in responses' :
          call'[g].op = "analyze" /\ r.by = call'[g].by => r.of = call'[g].id
    BY <1>2, <1>4, <2>3, ScriptIdle
  <2>6. \A g, k \in Handler : g = k \/ call'[g] = A!Idle \/ call'[k] = A!Idle
    BY <2>3
  <2>7. responses' # {} /\ script'.score.analysis = 0 =>
         faults' > 0 \/ \E g \in Handler : call'[g].op = "analyze"
    BY <2>1, <2>2, ScriptIdle, <1>1 DEF A!Alone
  <2>8. \A r, s \in responses' : r.by = s.by => r.of = s.of
    BY <2>1 DEF A!Alone
  <2> QED BY <2>4, <2>5, <2>6, <2>7, <2>8 DEF A!Alone
<1> QED BY <1>5, <1>6, <1>7, <1>8, <1>9, <1>13, <1>14

(* Requests that end leave what holds of the others.                       *)
LEMMA ScriptEnd ==
  ASSUME A!IInv, NEW D \in SUBSET Handler,
         call' = [g \in Handler |-> IF g \in D THEN A!Idle ELSE call[g]],
         UNCHANGED <<responses, count, raced>>, approved \subseteq approved'
  PROVE  /\ call' \in [Handler -> A!Call] /\ A!Numbered'
         /\ \A i : A!Finished(i) => A!Finished(i)'
         /\ \A g \in Handler : A!Finished(call[g].read.analysis)'
         /\ \A g \in Handler : (call[g].op = "analyze")' =>
              (A!Made(call[g].id) = (call[g].left + 1)..Questions)'
         /\ \A g \in Handler : call'[g].read.lms => call'[g].read.mark \in approved'
<1> USE DEF A!IInv
<1>1. \A g \in Handler : call'[g] = IF g \in D THEN A!Idle ELSE call[g]
  OBVIOUS
<1>2. call' \in [Handler -> A!Call]
  BY ScriptIdle DEF A!Typed
<1>3. A!Numbered'
  BY <1>1, ScriptIdle DEF A!Numbered
<1>4. \A i : A!Made(i)' = A!Made(i)
  BY DEF A!Made
<1>5. \A i : A!Finished(i) => A!Finished(i)'
  BY <1>1, <1>4 DEF A!Finished
<1>6. \A g \in Handler : A!Finished(call[g].read.analysis)'
  <2> SUFFICES ASSUME NEW g \in Handler PROVE A!Finished(call[g].read.analysis)'
    OBVIOUS
  <2>1. CASE g \in D
    BY <1>1, <2>1, ScriptIdle DEF A!Finished
  <2>2. CASE g \notin D
    <3>1. A!Finished(call[g].read.analysis)
      BY DEF A!Analyses
    <3>2. call'[g] = call[g]
      BY <1>1, <2>2
    <3> QED BY <1>1, <1>4, <3>1, <3>2 DEF A!Finished
  <2> QED BY <2>1, <2>2
<1>7. \A g \in Handler : (call[g].op = "analyze")' =>
        (A!Made(call[g].id) = (call[g].left + 1)..Questions)'
  <2> SUFFICES ASSUME NEW g \in Handler, call'[g].op = "analyze"
               PROVE  A!Made(call'[g].id) = (call'[g].left + 1)..Questions
    BY DEF A!Made
  <2> QED BY <1>1, ScriptIdle DEF A!Analyses
<1>8. \A g \in Handler : call'[g].read.lms => call'[g].read.mark \in approved'
  BY <1>1, ScriptIdle DEF A!MarksApproved
<1> QED BY <1>2, <1>3, <1>5, <1>6, <1>7, <1>8

(* A handler that goes to another place and changes nothing else there.    *)
LEMMA ScriptMove ==
  ASSUME A!IInv, NEW h \in Handler, NEW c \in A!Call, call' = [call EXCEPT ![h] = c],
         call[h] # A!Idle, c # A!Idle, A!Fits(c), c.id = call[h].id,
         c.read \in {call[h].read, script.score}, c.op = call[h].op, c.left = call[h].left,
         c.by = call[h].by, UNCHANGED <<script, responses, count, raced, approved>>,
         faults' = faults
  PROVE  /\ call' \in [Handler -> A!Call] /\ A!Numbered' /\ A!Analyses' /\ A!Alone'
         /\ \A g \in Handler : call'[g].read.lms => call'[g].read.mark \in approved'
<1> USE DEF A!IInv
<1>1. \A g \in Handler : call'[g] = IF g = h THEN c ELSE call[g]
  BY DEF A!Typed
<1>2. call' \in [Handler -> A!Call]
  BY DEF A!Typed
<1>3. A!Numbered'
  BY <1>1 DEF A!Numbered
<1>4. \A i : A!Made(i)' = A!Made(i)
  BY DEF A!Made
<1>5. \A i : A!Finished(i) => A!Finished(i)'
  BY <1>1, <1>4 DEF A!Finished
<1>6. \A g \in Handler : A!Finished(call[g].read.analysis)'
  <2> SUFFICES ASSUME NEW g \in Handler PROVE A!Finished(call[g].read.analysis)'
    OBVIOUS
  <2>1. PICK k \in Handler : call'[g].read.analysis \in {call[k].read.analysis, script.score.analysis}
    BY <1>1
  <2>2. A!Finished(call[k].read.analysis) /\ A!Finished(script.score.analysis)
    BY DEF A!Analyses
  <2> QED BY <1>1, <1>4, <2>1, <2>2 DEF A!Finished
<1>7. A!Analyses'
  <2>1. \A g \in Handler : (call[g].op = "analyze")' =>
        (A!Made(call[g].id) = (call[g].left + 1)..Questions)'
    <3> SUFFICES ASSUME NEW g \in Handler, call'[g].op = "analyze"
                 PROVE  A!Made(call'[g].id) = (call'[g].left + 1)..Questions
      BY DEF A!Made
    <3> QED BY <1>1 DEF A!Analyses
  <2>2. A!Finished(script.score.analysis)'
    BY <1>5 DEF A!Analyses
  <2> QED BY <1>6, <2>1, <2>2 DEF A!Analyses
<1>8. A!Alone'
  <2> SUFFICES ASSUME ~raced PROVE A!Alone'
    BY DEF A!Alone
  <2>1. \A g \in Handler : call'[g] # A!Idle => call[g] # A!Idle
    BY <1>1
  <2>2. \A g \in Handler : call'[g].op = call[g].op /\ call'[g].id = call[g].id /\ call'[g].by = call[g].by
    BY <1>1
  <2>3. \A g \in Handler : call'[g] # A!Idle => call'[g].read.analysis = script'.score.analysis
    BY <1>1 DEF A!Alone
  <2> QED BY <2>1, <2>2, <2>3 DEF A!Alone
<1>9. \A g \in Handler : call'[g].read.lms => call'[g].read.mark \in approved'
  BY <1>1 DEF A!MarksApproved
<1> QED BY <1>2, <1>3, <1>7, <1>8, <1>9

LEMMA ScriptRespond ==
  ASSUME A!IInv, A!ScriptAssumption, NEW h \in Handler, A!Respond(h)
  PROVE  A!IInv'
<1> USE DEF A!IInv
<1> DEFINE c == call[h]
           r0 == [of |-> c.id, by |-> c.by, n |-> c.left]
           new == [c EXCEPT !.left = @ - 1,
                            !.at = IF @ = "respond" /\ c.left = 1 THEN "write" ELSE @]
<1>1. /\ c \in A!Call /\ c.at = "respond" /\ c.op = "analyze" /\ c # A!Idle /\ c.left \in 1..Questions
      /\ c.id \in 1..count /\ c.by \in Teachers \cup {A!Nobody}
  BY DEF A!Respond, A!Typed, A!Numbered, A!Fits, A!Idle, A!Call
<1>2. /\ responses' = responses \cup {r0} /\ call' = [call EXCEPT ![h] = new]
  BY DEF A!Respond
<1>3. /\ new \in A!Call /\ new.op = "analyze" /\ new.left = c.left - 1 /\ new.id = c.id
      /\ new.by = c.by /\ new.read = c.read
      /\ new.at = IF c.left = 1 THEN "write" ELSE "respond"
  <2>1. c.left - 1 \in Nat
    BY <1>1 DEF A!ScriptAssumption
  <2>2. PICK a \in {"write", "respond"} : a = IF c.left = 1 THEN "write" ELSE "respond"
    OBVIOUS
  <2>3. new = [c EXCEPT !.left = c.left - 1, !.at = a]
    BY <1>1, <2>2 DEF A!Call
  <2> DEFINE l == c.left - 1
  <2>4. l \in Nat
    BY <2>1
  <2> HIDE DEF new, c, l
  <2>5. new = [c EXCEPT !.left = l, !.at = a] /\ c \in A!Call
    BY <1>1, <2>3 DEF l
  <2>6. new \in A!Call /\ new.left = l /\ new.at = a
    BY <2>2, <2>4, <2>5 DEF A!Call
  <2>7. new.op = c.op /\ new.id = c.id /\ new.by = c.by /\ new.read = c.read
    BY <2>5 DEF A!Call
  <2>8. new.at = IF c.left = 1 THEN "write" ELSE "respond"
    BY <2>2, <2>6
  <2>9. new.left = c.left - 1
    BY <2>6 DEF l
  <2>10. new.op = "analyze" /\ new.id = c.id /\ new.by = c.by /\ new.read = c.read
    BY <1>1, <2>7
  <2> QED BY <2>6, <2>8, <2>9, <2>10
<1>4. A!Fits(new) /\ new # A!Idle
  <2> HIDE DEF new, c
  <2>1. c.left = 1 => A!Fits(new)
    BY <1>1, <1>3 DEF A!Fits
  <2>2. c.left # 1 => A!Fits(new)
    <3>1. c.left # 1 => new.left \in 1..Questions
      BY <1>1, <1>3 DEF A!ScriptAssumption
    <3> QED BY <1>3, <3>1 DEF A!Fits
  <2> QED BY <1>3, <2>1, <2>2, ScriptIdle
<1>5. r0.of = c.id /\ r0.by = c.by /\ r0.n = c.left
  OBVIOUS
<1>6. r0 \in [of : 1..count, by : Teachers \cup {A!Nobody}, n : Nat]
  BY <1>1 DEF A!ScriptAssumption
<1> HIDE DEF new, r0, c
<1>7. \A g \in Handler : call'[g] = IF g = h THEN new ELSE call[g]
  BY <1>2 DEF A!Typed
<1>8. UNCHANGED <<script, lock, posted, approved, excused, raced, count, faults>>
  BY DEF A!Respond
<1>9. A!Typed'
  BY <1>2, <1>3, <1>6, <1>8 DEF A!Typed
<1>10. A!Numbered'
  BY <1>3, <1>4, <1>7, <1>8, <1>1 DEF A!Numbered, c
<1>11. A!HeldWhileSent'
  BY <1>3, <1>7, <1>8, <1>1 DEF A!HeldWhileSent
<1>12. A!Counted'
  <2>1. \A g \in Handler : call'[g].at = "posted" <=> call[g].at = "posted"
    BY <1>1, <1>3, <1>7 DEF c
  <2> QED BY <1>8, <2>1 DEF A!Counted
<1>13. A!MarksApproved'
  BY <1>3, <1>7, <1>8 DEF A!MarksApproved, c
<1>14. \A i : A!Made(i)' = IF i = c.id THEN A!Made(i) \cup {c.left} ELSE A!Made(i)
  BY <1>2, <1>5 DEF A!Made
<1>15. \A i : A!Finished(i) => A!Finished(i)'
  <2> SUFFICES ASSUME NEW i, A!Finished(i), i # 0 PROVE A!Finished(i)'
    BY DEF A!Finished
  <2>1. i # c.id
    BY <1>1 DEF A!Finished, c
  <2>2. \A g \in Handler : call'[g] # A!Idle => call'[g].id # i
    BY <1>3, <1>7, <2>1 DEF A!Finished
  <2> QED BY <1>8, <1>14, <2>1, <2>2 DEF A!Finished
<1>16. A!Analyses'
  <2>1. A!Finished(script.score.analysis)'
    BY <1>8, <1>15 DEF A!Analyses
  <2>2. \A g \in Handler : A!Finished(call[g].read.analysis)'
    <3> SUFFICES ASSUME NEW g \in Handler PROVE A!Finished(call[g].read.analysis)'
      OBVIOUS
    <3>1. call'[g].read = call[g].read
      BY <1>3, <1>7 DEF c
    <3>2. A!Finished(call[g].read.analysis)
      BY DEF A!Analyses
    <3> DEFINE i == call[g].read.analysis
    <3>3. i # 0 => i # c.id
      BY <1>1, <3>2 DEF A!Finished, c
    <3>4. i # 0 => \A k \in Handler : call'[k] # A!Idle => call'[k].id # i
      BY <1>3, <1>7, <3>2, <3>3 DEF A!Finished
    <3> QED BY <1>8, <1>14, <3>1, <3>2, <3>3, <3>4 DEF A!Finished
  <2>3. \A g \in Handler : (call[g].op = "analyze")' =>
        (A!Made(call[g].id) = (call[g].left + 1)..Questions)'
    <3> SUFFICES ASSUME NEW g \in Handler, call'[g].op = "analyze"
                 PROVE  (A!Made(call[g].id) = (call[g].left + 1)..Questions)'
      OBVIOUS
    <3>1. CASE g = h
      <4> PICK i : i = c.id
        OBVIOUS
      <4>1. A!Made(i) = (c.left + 1)..Questions
        BY <1>1 DEF A!Analyses, c
      <4>2. A!Made(i)' = A!Made(i) \cup {c.left}
        BY <1>14
      <4>3. call'[h].id = c.id /\ call'[h].left + 1 = c.left
        BY <1>1, <1>3, <1>7 DEF A!ScriptAssumption
      <4>4. ((c.left + 1)..Questions) \cup {c.left} = c.left..Questions
        BY <1>1 DEF A!ScriptAssumption
      <4>5. A!Made(call[h].id)' = A!Made(i)'
        BY <4>3 DEF A!Made
      <4> QED BY <3>1, <4>1, <4>2, <4>3, <4>4, <4>5
    <3>2. CASE g # h
      <4>1. call'[g] = call[g] /\ call[g].op = "analyze"
        BY <1>7, <3>2
      <4>2. call[g].id # c.id
        BY <1>1, <3>2, <4>1, ScriptIdle DEF A!Numbered, c
      <4>3. A!Made(call[g].id) = (call[g].left + 1)..Questions
        BY <4>1 DEF A!Analyses
      <4> QED BY <1>14, <4>1, <4>2, <4>3
    <3> QED BY <3>1, <3>2
  <2> QED BY <2>1, <2>2, <2>3 DEF A!Analyses
<1>17. A!Alone'
  <2> SUFFICES ASSUME ~raced PROVE A!Alone'
    BY <1>8 DEF A!Alone
  <2>1. \A g \in Handler \ {h} : call[g] = A!Idle /\ call'[g] = A!Idle
    BY <1>1, <1>7 DEF A!Alone, c
  <2>2. \A r \in responses : r.by = c.by => r.of = c.id
    BY <1>1 DEF A!Alone, c
  <2>3. \A r, s \in responses' : r.by = s.by => r.of = s.of
    BY <1>2, <1>5, <2>2 DEF A!Alone
  <2>4. \A g, k \in Handler : g = k \/ call'[g] = A!Idle \/ call'[k] = A!Idle
    BY <2>1
  <2>5. \A g \in Handler : call'[g] # A!Idle => call'[g].read.analysis = script'.score.analysis
    BY <1>1, <1>3, <1>7, <1>8, <2>1 DEF A!Alone, c
  <2>6. \A g \in Handler, r \in responses' :
         call'[g].op = "analyze" /\ r.by = call'[g].by => r.of = call'[g].id
    BY <1>2, <1>3, <1>5, <1>7, <2>1, <2>2, ScriptIdle
  <2>7. call'[h].op = "analyze"
    BY <1>3, <1>7
  <2> QED BY <2>3, <2>4, <2>5, <2>6, <2>7 DEF A!Alone
<1> QED BY <1>9, <1>10, <1>11, <1>12, <1>13, <1>16, <1>17

(* When a request ends that overlapped with none, nothing is under way.    *)
LEMMA ScriptLast ==
  ASSUME A!IInv, NEW D \in SUBSET Handler, NEW h \in D, call[h] # A!Idle, ~raced,
         call' = [g \in Handler |-> IF g \in D THEN A!Idle ELSE call[g]],
         UNCHANGED <<responses, raced>>,
         responses # {} /\ script'.score.analysis = 0 => faults' > 0
  PROVE  A!Alone'
<1>1. \A g \in Handler : call'[g] = A!Idle
  BY DEF A!IInv, A!Alone
<1>2. \A r, s \in responses' : r.by = s.by => r.of = s.of
  BY DEF A!IInv, A!Alone
<1> QED BY <1>1, <1>2, ScriptIdle DEF A!Alone

LEMMA ScriptWait ==
  ASSUME A!IInv, NEW h \in Handler, call[h].at = "write",
         call' = [call EXCEPT ![h].at = "wait"],
         UNCHANGED <<script, approved, excused, responses, lock, posted, raced, count, faults>>
  PROVE  A!IInv'
<1> DEFINE c == [call[h] EXCEPT !.at = "wait"]
<1> USE DEF A!IInv
<1>1. call[h] \in A!Call /\ A!Fits(call[h]) /\ call[h] # A!Idle
  BY ScriptIdle DEF A!Typed, A!Numbered
<1>2. /\ c \in A!Call /\ c.at = "wait" /\ c.op = call[h].op /\ c.left = call[h].left
      /\ c.by = call[h].by /\ c.id = call[h].id /\ c.read = call[h].read
  BY <1>1 DEF A!Call
<1>3. call' = [call EXCEPT ![h] = c]
  BY DEF A!Typed
<1> HIDE DEF c
<1>4. A!Fits(c) /\ c # A!Idle
  BY <1>1, <1>2, ScriptIdle DEF A!Fits
<1>5. call' \in [Handler -> A!Call] /\ A!Numbered' /\ A!Analyses' /\ A!Alone'
      /\ \A g \in Handler : call'[g].read.lms => call'[g].read.mark \in approved'
  BY <1>1, <1>2, <1>3, <1>4, ScriptMove
<1>6. \A g \in Handler : call'[g] = IF g = h THEN c ELSE call[g]
  BY <1>3 DEF A!Typed
<1>7. A!Typed'
  BY <1>5 DEF A!Typed
<1>8. A!HeldWhileSent'
  BY <1>2, <1>6 DEF A!HeldWhileSent
<1>9. A!Counted'
  <2>1. \A g \in Handler : call'[g].at = "posted" <=> call[g].at = "posted"
    BY <1>2, <1>6
  <2> QED BY <2>1 DEF A!Counted
<1>10. A!MarksApproved'
  BY <1>5 DEF A!MarksApproved
<1> QED BY <1>5, <1>7, <1>8, <1>9, <1>10

LEMMA ScriptWrite ==
  ASSUME A!IInv, A!ScriptAssumption, NEW h \in Handler, A!Write(h)
  PROVE  A!IInv'
<1> USE DEF A!IInv
<1> DEFINE c == call[h]
<1>1. CASE lock # A!Nobody
  BY <1>1, ScriptWait DEF A!Write
<1>2. CASE lock = A!Nobody
  <2>1. /\ script' = A!Stored(c) /\ call' = [call EXCEPT ![h] = A!Idle]
        /\ approved' = IF c.op = "approve" THEN approved \cup {c.id} ELSE approved
        /\ excused' = IF script.score.published /\ ~A!Stored(c).score.published
                      THEN excused + 1 ELSE excused
        /\ UNCHANGED <<responses, lock, posted, raced, count, faults>>
    BY <1>2 DEF A!Write
  <2>2. c.at \in {"write", "wait"} /\ c.op # "return"
    BY DEF A!Write, A!Numbered, A!Fits, A!Idle
  <2>3. /\ script' \in [status : A!Status, score : A!Score]
        /\ script'.score.lms => script'.score.mark \in approved'
        /\ c.op = "analyze" => script'.score.analysis = c.id
        /\ c.op # "analyze" => script'.score.analysis \in {script.score.analysis, c.read.analysis}
    BY <2>1, <2>2, ScriptStored
  <2>4. call' = [g \in Handler |-> IF g \in {h} THEN A!Idle ELSE call[g]]
    BY <2>1 DEF A!Typed
  <2>5. approved \subseteq approved' /\ approved' \subseteq Nat /\ excused' \in Nat
    <3>1. c.id \in Nat
      BY DEF A!Typed, A!Call
    <3>2. approved \subseteq Nat /\ excused \in Nat
      BY DEF A!Typed
    <3>3. excused' \in {excused, excused + 1}
      BY <2>1
    <3>4. approved' \in {approved, approved \cup {c.id}}
      BY <2>1
    <3> HIDE DEF c
    <3> QED BY <3>1, <3>2, <3>3, <3>4
  <2>6. c \in A!Call /\ A!Fits(c) /\ c # A!Idle /\ c.id \in 1..count
    BY <2>2, ScriptIdle DEF A!Typed, A!Numbered
  <2>7. /\ call' \in [Handler -> A!Call] /\ A!Numbered'
        /\ \A i : A!Finished(i) => A!Finished(i)'
        /\ \A g \in Handler : A!Finished(call[g].read.analysis)'
        /\ \A g \in Handler : (call[g].op = "analyze")' =>
             (A!Made(call[g].id) = (call[g].left + 1)..Questions)'
        /\ \A g \in Handler : call'[g].read.lms => call'[g].read.mark \in approved'
    <3> HIDE DEF A!IInv
    <3> QED BY <2>1, <2>4, <2>5, ScriptEnd
  <2>8. A!Typed'
    BY <2>1, <2>3, <2>5, <2>7 DEF A!Typed
  <2>9. \A g \in Handler : call[g].at \notin {"post", "posted"} /\ call'[g].at \notin {"post", "posted"}
    BY <1>2, <2>4, ScriptIdle DEF A!HeldWhileSent, A!ScriptAssumption
  <2>10. A!HeldWhileSent'
    BY <2>9 DEF A!HeldWhileSent
  <2>11. A!Counted'
    <3>1. posted[1] <= excused + IF script.score.published THEN 1 ELSE 0
      BY <2>9 DEF A!Counted
    <3>2. posted[1] \in Nat /\ excused \in Nat
      BY DEF A!Typed
    <3>3. excused' = IF script.score.published /\ ~script'.score.published THEN excused + 1 ELSE excused
      BY <2>1
    <3>4. posted'[1] <= excused' + IF script'.score.published THEN 1 ELSE 0
      BY <2>1, <3>1, <3>2, <3>3
    <3> QED BY <2>9, <3>4 DEF A!Counted
  <2>12. A!MarksApproved'
    BY <2>1, <2>3, <2>5, <2>7 DEF A!MarksApproved
  <2>13. A!Finished(script.score.analysis)'
    <3>1. CASE c.op = "analyze"
      <4> PICK i : i = c.id
        OBVIOUS
      <4>1. A!Made(i) = (0 + 1)..Questions
        BY <2>2, <2>6, <3>1 DEF A!Analyses, A!Fits
      <4>2. \A g \in Handler : call'[g] # A!Idle => call'[g].id # i
        BY <2>4, <2>6 DEF A!Numbered
      <4>3. (A!Made(script.score.analysis) = A!Made(i))'
        BY <2>3, <3>1
      <4>4. A!Made(i)' = A!Made(i)
        BY <2>1 DEF A!Made
      <4> QED BY <2>1, <2>3, <2>6, <3>1, <4>1, <4>2, <4>3, <4>4 DEF A!Finished
    <3>2. CASE c.op # "analyze"
      <4>1. PICK i : i = script'.score.analysis
        OBVIOUS
      <4>2. A!Finished(i)
        BY <2>3, <3>2, <4>1 DEF A!Analyses
      <4>3. A!Finished(i)'
        BY <2>7, <4>2
      <4> QED BY <4>1, <4>3 DEF A!Finished
    <3> QED BY <3>1, <3>2
  <2>14. A!Analyses'
    BY <2>7, <2>13 DEF A!Analyses
  <2>15. A!Alone'
    <3> SUFFICES ASSUME ~raced PROVE A!Alone'
      BY <2>1 DEF A!Alone
    <3>1. responses # {} /\ script'.score.analysis = 0 => faults' > 0
      <4> SUFFICES ASSUME responses # {}, script'.score.analysis = 0 PROVE faults > 0
        BY <2>1
      <4>1. c.op # "analyze"
        BY <2>3, <2>6 DEF A!Typed
      <4>2. script.score.analysis = 0
        BY <2>3, <2>6, <4>1 DEF A!Alone
      <4>3. \A g \in Handler : call[g].op # "analyze"
        BY <2>6, <4>1, ScriptIdle DEF A!Alone
      <4> QED BY <4>2, <4>3 DEF A!Alone
    <3> HIDE DEF A!IInv
    <3> QED BY <2>1, <2>4, <2>6, <3>1, ScriptLast
  <2> QED BY <2>8, <2>7, <2>10, <2>11, <2>12, <2>14, <2>15
<1> QED BY <1>1, <1>2

LEMMA ScriptTake ==
  ASSUME A!IInv, A!ScriptAssumption, NEW h \in Handler, A!Take(h)
  PROVE  A!IInv'
<1> USE DEF A!IInv
<1>1. /\ call[h] \in A!Call /\ A!Fits(call[h]) /\ call[h] # A!Idle /\ call[h].op = "return"
      /\ lock = A!Nobody
      /\ UNCHANGED <<script, responses, posted, approved, excused, raced, count, faults>>
  BY ScriptIdle DEF A!Take, A!Typed, A!Numbered
<1>2. \A g \in Handler : call[g].at \notin {"post", "posted"}
  BY <1>1 DEF A!HeldWhileSent, A!ScriptAssumption
<1>3. CASE A!Returnable
  <2> DEFINE c == [call[h] EXCEPT !.at = "post", !.read = script.score]
  <2>1. script.score \in A!Score
    BY DEF A!Typed
  <2>2. /\ c \in A!Call /\ c.at = "post" /\ c.op = call[h].op /\ c.left = call[h].left
        /\ c.by = call[h].by /\ c.id = call[h].id /\ c.read = script.score
    BY <1>1, <2>1 DEF A!Call
  <2>3. call' = [call EXCEPT ![h] = c] /\ lock' = h
    BY <1>3 DEF A!Typed, A!Take
  <2> HIDE DEF c
  <2>4. A!Fits(c) /\ c # A!Idle
    BY <1>1, <2>2, ScriptIdle DEF A!Fits
  <2>5. call' \in [Handler -> A!Call] /\ A!Numbered' /\ A!Analyses' /\ A!Alone'
        /\ \A g \in Handler : call'[g].read.lms => call'[g].read.mark \in approved'
    BY <1>1, <2>2, <2>3, <2>4, ScriptMove
  <2>6. \A g \in Handler : call'[g] = IF g = h THEN c ELSE call[g]
    BY <2>3 DEF A!Typed
  <2>7. A!Typed'
    BY <1>1, <2>3, <2>5 DEF A!Typed
  <2>8. A!HeldWhileSent'
    BY <1>1, <1>2, <1>3, <2>2, <2>3, <2>6 DEF A!HeldWhileSent, A!Returnable
  <2>9. A!Counted'
    <3>1. \A g \in Handler : call'[g].at = "posted" <=> call[g].at = "posted"
      BY <1>2, <2>2, <2>6
    <3> QED BY <1>1, <3>1 DEF A!Counted
  <2>10. A!MarksApproved'
    BY <1>1, <2>5 DEF A!MarksApproved
  <2> QED BY <2>5, <2>7, <2>8, <2>9, <2>10
<1>4. CASE ~A!Returnable
  <2>1. call' = [call EXCEPT ![h] = A!Idle] /\ lock' = lock
    BY <1>4 DEF A!Take
  <2>2. call' = [g \in Handler |-> IF g \in {h} THEN A!Idle ELSE call[g]]
    BY <2>1 DEF A!Typed
  <2> HIDE DEF A!IInv
  <2>3. /\ call' \in [Handler -> A!Call] /\ A!Numbered'
        /\ \A i : A!Finished(i) => A!Finished(i)'
        /\ \A g \in Handler : A!Finished(call[g].read.analysis)'
        /\ \A g \in Handler : (call[g].op = "analyze")' =>
             (A!Made(call[g].id) = (call[g].left + 1)..Questions)'
        /\ \A g \in Handler : call'[g].read.lms => call'[g].read.mark \in approved'
    BY <1>1, <2>2, ScriptEnd
  <2> USE DEF A!IInv
  <2>4. \A g \in Handler : call'[g].at \notin {"post", "posted"}
    BY <1>2, <2>2, ScriptIdle
  <2>5. A!Typed' /\ A!HeldWhileSent' /\ A!Counted' /\ A!MarksApproved'
    BY <1>1, <1>2, <2>1, <2>3, <2>4 DEF A!Typed, A!HeldWhileSent, A!Counted, A!MarksApproved
  <2>6. A!Finished(script.score.analysis)'
    <3>1. PICK i : i = script.score.analysis
      OBVIOUS
    <3> QED BY <1>1, <2>3, <3>1 DEF A!Analyses, A!Finished
  <2>7. A!Analyses'
    BY <2>3, <2>6 DEF A!Analyses
  <2>8. A!Alone'
    <3> SUFFICES ASSUME ~raced PROVE A!Alone'
      BY <1>1 DEF A!Alone
    <3>1. responses # {} /\ script'.score.analysis = 0 => faults' > 0
      <4>1. \A g \in Handler : call[g].op # "analyze"
        BY <1>1, ScriptIdle DEF A!Alone
      <4> QED BY <1>1, <4>1 DEF A!Alone
    <3> HIDE DEF A!IInv
    <3> QED BY <1>1, <2>2, <3>1, ScriptLast
  <2> QED BY <2>3, <2>5, <2>7, <2>8
<1> QED BY <1>3, <1>4

(* A return that ends, with or without a record, and processes that die.   *)
LEMMA ScriptOver ==
  ASSUME A!IInv, A!ScriptAssumption, NEW D \in SUBSET Handler, NEW h \in D, call[h] # A!Idle,
         call' = [g \in Handler |-> IF g \in D THEN A!Idle ELSE call[g]],
         lock' = IF lock \in D THEN A!Nobody ELSE lock,
         UNCHANGED <<responses, approved, raced, count>>,
         posted' \in Nat \X Nat, excused' \in Nat,
         posted'[1] > 0 => posted'[2] \in approved,
         A!Counted',
         \/ UNCHANGED script
         \/ /\ \A g \in Handler : call'[g].at \notin {"post", "posted"}
            /\ script' \in [status : A!Status, score : A!Score]
            /\ \E g \in Handler : /\ script'.score.lms = call[g].read.lms
                                  /\ script'.score.mark = call[g].read.mark
                                  /\ script'.score.analysis = call[g].read.analysis
                                  /\ call[g] # A!Idle,
         UNCHANGED faults \/ faults' > 0,
         faults' > 0 \/ call[h].op = "return"
  PROVE  A!IInv'
<1> DEFINE new == /\ \A g \in Handler : call'[g].at \notin {"post", "posted"}
                  /\ script' \in [status : A!Status, score : A!Score]
           from(g) == /\ script'.score.lms = call[g].read.lms
                      /\ script'.score.mark = call[g].read.mark
                      /\ script'.score.analysis = call[g].read.analysis
                      /\ call[g] # A!Idle
<1>1. UNCHANGED script \/ (new /\ \E g \in Handler : from(g))
  OBVIOUS
<1> HIDE DEF new
<1>2. /\ call' \in [Handler -> A!Call] /\ A!Numbered'
      /\ \A i : A!Finished(i) => A!Finished(i)'
      /\ \A g \in Handler : A!Finished(call[g].read.analysis)'
      /\ \A g \in Handler : (call[g].op = "analyze")' =>
           (A!Made(call[g].id) = (call[g].left + 1)..Questions)'
      /\ \A g \in Handler : call'[g].read.lms => call'[g].read.mark \in approved'
  BY ScriptEnd
<1> USE DEF A!IInv
<1>3. A!Typed'
  BY <1>1, <1>2 DEF A!Typed, new
<1>4. A!HeldWhileSent'
  <2>1. CASE UNCHANGED script
    BY <2>1, ScriptIdle DEF A!HeldWhileSent
  <2>2. CASE new
    BY <2>2 DEF A!HeldWhileSent, new
  <2> QED BY <1>1, <2>1, <2>2
<1>5. A!MarksApproved'
  BY <1>1, <1>2 DEF A!MarksApproved
<1>6. PICK i : i = script'.score.analysis
  OBVIOUS
<1>7. A!Finished(i)
  BY <1>1, <1>6 DEF A!Analyses
<1>8. A!Finished(script.score.analysis)'
  BY <1>2, <1>6, <1>7 DEF A!Finished
<1>9. A!Analyses'
  BY <1>2, <1>8 DEF A!Analyses
<1>10. A!Alone'
  <2> SUFFICES ASSUME ~raced PROVE A!Alone'
    BY DEF A!Alone
  <2>1. script'.score.analysis = script.score.analysis
    BY <1>1 DEF A!Alone
  <2>2. responses # {} /\ script'.score.analysis = 0 => faults' > 0
    <3>1. CASE faults' > 0
      BY <3>1
    <3>2. CASE call[h].op = "return" /\ UNCHANGED faults
      <4>1. \A g \in Handler : call[g].op # "analyze"
        BY <3>2, ScriptIdle DEF A!Alone
      <4> QED BY <2>1, <3>2, <4>1 DEF A!Alone
    <3> QED BY <3>1, <3>2
  <2> HIDE DEF A!IInv
  <2> QED BY <2>2, ScriptLast
<1> QED BY <1>2, <1>3, <1>4, <1>5, <1>9, <1>10

LEMMA ScriptPost ==
  ASSUME A!IInv, A!ScriptAssumption, NEW h \in Handler, A!Post(h), faults \in Nat
  PROVE  A!IInv'
<1> USE DEF A!IInv
<1>1. /\ call[h] \in A!Call /\ A!Fits(call[h]) /\ call[h] # A!Idle /\ call[h].op = "return"
      /\ call[h].at = "post" /\ UNCHANGED <<script, responses, approved, raced, count>>
  BY ScriptIdle DEF A!Post, A!Typed, A!Numbered, A!Fits
<1>2. /\ lock = h /\ script.score.lms /\ ~script.score.published /\ call[h].read = script.score
      /\ \A g \in Handler \ {h} : call[g].at \notin {"post", "posted"}
  BY <1>1 DEF A!HeldWhileSent
<1>3. posted \in Nat \X Nat /\ posted[1] <= excused /\ excused \in Nat
  <2>1. \A g \in Handler : call[g].at # "posted"
    BY <1>1, <1>2
  <2> QED BY <1>2, <2>1 DEF A!Counted, A!Typed
<1>4. script.score.mark \in approved /\ script.score.mark \in Nat
  BY <1>2 DEF A!MarksApproved, A!Typed
<1>5. /\ posted[1] \in Nat /\ posted = <<posted[1], posted[2]>>
      /\ A!Taken(h) => posted' \in Nat \X Nat /\ posted'[1] = posted[1] + 1
                    /\ posted'[2] = script.score.mark
  BY <1>2, <1>3, <1>4 DEF A!Taken
<1>6. CASE A!Taken(h) /\ call' = [call EXCEPT ![h].at = "posted"] /\ UNCHANGED <<lock, excused, faults>>
  <2> DEFINE c == [call[h] EXCEPT !.at = "posted"]
  <2>1. /\ c \in A!Call /\ c.at = "posted" /\ c.op = call[h].op /\ c.left = call[h].left
        /\ c.by = call[h].by /\ c.id = call[h].id /\ c.read = call[h].read
    BY <1>1 DEF A!Call
  <2>2. call' = [call EXCEPT ![h] = c]
    BY <1>6 DEF A!Typed
  <2> HIDE DEF c
  <2>3. A!Fits(c) /\ c # A!Idle
    BY <1>1, <2>1, ScriptIdle DEF A!Fits
  <2>4. call' \in [Handler -> A!Call] /\ A!Numbered' /\ A!Analyses' /\ A!Alone'
        /\ \A g \in Handler : call'[g].read.lms => call'[g].read.mark \in approved'
    BY <1>1, <1>6, <2>1, <2>2, <2>3, ScriptMove
  <2>5. \A g \in Handler : call'[g] = IF g = h THEN c ELSE call[g]
    BY <2>2 DEF A!Typed
  <2>6. A!Typed'
    BY <1>1, <1>5, <1>6, <2>4 DEF A!Typed
  <2>7. A!HeldWhileSent'
    BY <1>1, <1>2, <1>6, <2>1, <2>5 DEF A!HeldWhileSent
  <2>8. A!Counted'
    <3>1. call'[h].at = "posted"
      BY <2>1, <2>5
    <3> QED BY <1>3, <1>5, <1>6, <3>1 DEF A!Counted
  <2>9. A!MarksApproved'
    BY <1>1, <1>4, <1>5, <1>6, <2>4 DEF A!MarksApproved
  <2> QED BY <2>4, <2>6, <2>7, <2>8, <2>9
<1>7. CASE /\ faults' = faults + 1 /\ A!Ended(h)
           /\ \/ A!Taken(h) /\ excused' = excused + 1
              \/ UNCHANGED <<posted, excused>>
  <2>1. /\ call' = [g \in Handler |-> IF g \in {h} THEN A!Idle ELSE call[g]]
        /\ lock' = IF lock \in {h} THEN A!Nobody ELSE lock
    BY <1>7 DEF A!Ended, A!Typed
  <2>2. /\ posted' \in Nat \X Nat /\ excused' \in Nat /\ posted'[1] <= excused'
        /\ posted'[1] > 0 => posted'[2] \in approved
    BY <1>3, <1>4, <1>5, <1>7 DEF A!MarksApproved
  <2>3. A!Counted'
    BY <2>2 DEF A!Counted
  <2>4. faults' > 0
    BY <1>7
  <2> HIDE DEF A!IInv
  <2> QED BY <1>1, <2>1, <2>2, <2>3, <2>4, ScriptOver
<1> QED BY <1>6, <1>7 DEF A!Post

LEMMA ScriptRecord ==
  ASSUME A!IInv, A!ScriptAssumption, NEW h \in Handler, A!Record(h)
  PROVE  A!IInv'
<1> USE DEF A!IInv
<1>1. /\ call[h] \in A!Call /\ A!Fits(call[h]) /\ call[h] # A!Idle /\ call[h].op = "return"
      /\ call[h].at = "posted" /\ UNCHANGED <<responses, posted, approved, raced, count, faults>>
  BY ScriptIdle DEF A!Record, A!Typed, A!Numbered, A!Fits
<1>2. /\ call[h].read = script.score
      /\ \A g \in Handler \ {h} : call[g].at \notin {"post", "posted"}
  BY <1>1 DEF A!HeldWhileSent
<1>3. /\ call' = [g \in Handler |-> IF g \in {h} THEN A!Idle ELSE call[g]]
      /\ lock' = IF lock \in {h} THEN A!Nobody ELSE lock
  BY DEF A!Record, A!Ended, A!Typed
<1>4. \A g \in Handler : call'[g].at \notin {"post", "posted"}
  BY <1>2, <1>3, ScriptIdle
<1>5. posted[1] \in Nat /\ excused \in Nat /\ posted[1] <= excused + 1
  BY DEF A!Counted, A!Typed
<1>6. CASE /\ script' = [script EXCEPT !.score = [call[h].read EXCEPT !.published = TRUE]]
           /\ UNCHANGED excused
  <2> DEFINE s == [script.score EXCEPT !.published = TRUE]
  <2>1. /\ s \in A!Score /\ s.published /\ s.lms = script.score.lms /\ s.mark = script.score.mark
        /\ s.analysis = script.score.analysis
    BY DEF A!Typed, A!Score
  <2> HIDE DEF s
  <2>2. script' \in [status : A!Status, score : A!Score] /\ script'.score = s
    BY <1>2, <1>6, <2>1 DEF A!Typed, s
  <2>3. A!Counted'
    BY <1>1, <1>5, <1>6, <2>1, <2>2 DEF A!Counted
  <2>4. posted' \in Nat \X Nat /\ excused' \in Nat /\ (posted'[1] > 0 => posted'[2] \in approved)
    BY <1>1, <1>6 DEF A!Typed, A!MarksApproved
  <2>5. /\ script'.score.lms = call[h].read.lms
        /\ script'.score.mark = call[h].read.mark
        /\ script'.score.analysis = call[h].read.analysis
    BY <1>2, <2>1, <2>2
  <2> HIDE DEF A!IInv
  <2>6. \E g \in Handler : /\ script'.score.lms = call[g].read.lms
                            /\ script'.score.mark = call[g].read.mark
                            /\ script'.score.analysis = call[g].read.analysis
                            /\ call[g] # A!Idle
    BY <1>1, <2>5
  <2> QED BY <1>1, <1>3, <1>4, <2>2, <2>3, <2>4, <2>6, ScriptOver
<1>7. CASE excused' = excused + 1 /\ UNCHANGED script
  <2>1. A!Counted'
    BY <1>1, <1>5, <1>7 DEF A!Counted
  <2>2. posted' \in Nat \X Nat /\ excused' \in Nat /\ (posted'[1] > 0 => posted'[2] \in approved)
    BY <1>1, <1>7 DEF A!Typed, A!MarksApproved
  <2> HIDE DEF A!IInv
  <2> QED BY <1>1, <1>3, <1>7, <2>1, <2>2, ScriptOver
<1> QED BY <1>6, <1>7 DEF A!Record

LEMMA ScriptCrash ==
  ASSUME A!IInv, A!ScriptAssumption, NEW h \in Handler, A!Crash(h), faults \in Nat
  PROVE  A!IInv'
<1> DEFINE D == {g \in Handler : Home(g) = Home(h)}
<1>1. /\ D \in SUBSET Handler /\ faults' = faults + 1
      /\ call' = [g \in Handler |-> IF g \in D THEN A!Idle ELSE call[g]]
      /\ lock' = IF lock \in D THEN A!Nobody ELSE lock
      /\ excused' = IF \E g \in D : call[g].at = "posted" THEN excused + 1 ELSE excused
      /\ UNCHANGED <<script, responses, posted, approved, raced, count>>
  BY DEF A!Crash
<1>2. PICK k \in D : call[k] # A!Idle
  BY DEF A!Crash
<1> HIDE DEF D
<1>3. posted[1] \in Nat /\ excused \in Nat /\ posted \in Nat \X Nat
  BY DEF A!IInv, A!Typed
<1>4. A!Counted'
  <2>1. CASE \E g \in D : call[g].at = "posted"
    BY <1>1, <1>3, <2>1 DEF A!IInv, A!Counted
  <2>2. CASE ~\E g \in D : call[g].at = "posted"
    <3>1. (\E g \in Handler : call[g].at = "posted") => \E g \in Handler : call'[g].at = "posted"
      BY <1>1, <2>2
    <3>2. excused' = excused
      BY <1>1, <2>2
    <3> QED BY <1>1, <1>3, <3>1, <3>2 DEF A!IInv, A!Counted
  <2> QED BY <2>1, <2>2
<1>5. faults' > 0
  BY <1>1
<1>6. excused' \in Nat /\ posted' \in Nat \X Nat /\ (posted'[1] > 0 => posted'[2] \in approved)
  BY <1>1, <1>3 DEF A!IInv, A!MarksApproved
<1> QED BY <1>1, <1>2, <1>4, <1>5, <1>6, ScriptOver

LEMMA ScriptInit == A!Init /\ A!ScriptAssumption => A!IInv
<1> SUFFICES ASSUME A!Init, A!ScriptAssumption PROVE A!IInv
  OBVIOUS
<1>1. \A h \in Handler : call[h] = A!Idle
  BY DEF A!Init
<1>2. /\ script.score = A!NoScore /\ script \in [status : A!Status, score : A!Score]
      /\ responses = {} /\ posted[1] = 0
  BY ScriptIdle DEF A!Init, A!Status
<1>3. A!Typed
  <2>1. call \in [Handler -> A!Call] /\ lock \in Handler \cup {A!Nobody}
    BY ScriptIdle DEF A!Init
  <2>2. posted \in Nat \X Nat /\ approved \subseteq Nat /\ excused \in Nat /\ raced \in BOOLEAN
        /\ count \in Nat
    BY DEF A!Init
  <2> QED BY <1>2, <2>1, <2>2 DEF A!Typed
<1>4. A!Numbered /\ A!HeldWhileSent
  BY <1>1, ScriptIdle DEF A!Numbered, A!HeldWhileSent
<1>5. A!Counted /\ A!MarksApproved
  BY <1>1, <1>2, ScriptIdle DEF A!Counted, A!MarksApproved, A!Init, A!NoScore
<1>6. A!Analyses
  BY <1>1, <1>2, ScriptIdle DEF A!Analyses, A!Finished, A!NoScore
<1>7. A!Alone
  BY <1>1, <1>2, ScriptIdle DEF A!Alone
<1> QED BY <1>3, <1>4, <1>5, <1>6, <1>7 DEF A!IInv

LEMMA ScriptRest ==
  ASSUME A!IInv, faults \in Nat, faults' \in Nat, faults' >= faults,
         UNCHANGED <<script, responses, call, lock, posted, approved, excused, raced, count>>
  PROVE  A!IInv'
<1>1. A!Typed' /\ A!Numbered' /\ A!HeldWhileSent' /\ A!Counted' /\ A!MarksApproved'
  BY DEF A!IInv, A!Typed, A!Numbered, A!HeldWhileSent, A!Counted, A!MarksApproved
<1>2. \A i : A!Finished(i) <=> A!Finished(i)'
  BY DEF A!Finished, A!Made
<1>3. A!Analyses'
  BY DEF A!IInv, A!Analyses, A!Finished, A!Made
<1>4. A!Alone'
  BY DEF A!IInv, A!Alone
<1> QED BY <1>1, <1>3, <1>4 DEF A!IInv

LEMMA ScriptNext ==
  ASSUME A!IInv, A!ScriptAssumption, faults \in Nat, A!Next
  PROVE  A!IInv' /\ faults' \in Nat /\ faults' >= faults
<1>0. faults' \in {faults, faults + 1}
  BY DEF A!Next, A!Step, A!Respond, A!Write, A!Take, A!Post, A!Record, A!Crash, A!Analyze,
         A!Approve, A!Patch, A!Return
<1>1. PICK h \in Handler :
        \/ A!Step(h) \/ A!Crash(h)
        \/ \E t \in Teachers : A!Analyze(h, t) \/ A!Approve(h, t) \/ A!Patch(h, t) \/ A!Return(h, t)
  BY DEF A!Next
<1>2. ASSUME A!Step(h) \/ A!Crash(h) PROVE A!IInv'
  <2>1. CASE A!Respond(h)
    BY <2>1, ScriptRespond
  <2>2. CASE A!Write(h)
    BY <2>2, ScriptWrite
  <2>3. CASE A!Take(h)
    BY <2>3, ScriptTake
  <2>4. CASE A!Post(h)
    BY <2>4, ScriptPost
  <2>5. CASE A!Record(h)
    BY <2>5, ScriptRecord
  <2>6. CASE A!Crash(h)
    BY <2>6, ScriptCrash
  <2> QED BY <1>2, <2>1, <2>2, <2>3, <2>4, <2>5, <2>6 DEF A!Step
<1>3. ASSUME \E t \in Teachers : A!Analyze(h, t) \/ A!Approve(h, t) \/ A!Patch(h, t) \/ A!Return(h, t)
      PROVE  A!IInv'
  <2>1. PICK t \in Teachers : A!Analyze(h, t) \/ A!Approve(h, t) \/ A!Patch(h, t) \/ A!Return(h, t)
    BY <1>3
  <2>2. ASSUME NEW o \in {"approve", "patch", "status", "accept", "return"},
               NEW a \in {"write", "wait"}, (o = "return") = (a = "wait"),
               A!Start(h, [A!Idle EXCEPT !.op = o, !.at = a, !.by = t]),
               UNCHANGED <<script, responses, lock, posted, approved, excused, faults>>
        PROVE  A!IInv'
    <3> DEFINE c == [A!Idle EXCEPT !.op = o, !.at = a, !.by = t]
    <3>1. c \in A!Call /\ c.op = o /\ c.at = a
      BY <2>2, ScriptIdle DEF A!Call
    <3> HIDE DEF c
    <3>2. A!Fits(c) /\ c.op # "none" /\ c.at # "idle" /\ c.at \notin {"post", "posted"}
          /\ c.op # "analyze"
      BY <2>2, <3>1 DEF A!Fits
    <3>3. A!Start(h, c)
      BY <2>2 DEF c
    <3> QED BY <2>2, <3>1, <3>2, <3>3, ScriptStart
  <2>3. CASE A!Analyze(h, t)
    <3> DEFINE c == [A!Idle EXCEPT !.op = "analyze", !.at = "respond", !.by = t, !.left = Questions]
    <3>1. c \in A!Call /\ c.op = "analyze" /\ c.at = "respond" /\ c.by = t /\ c.left = Questions
      BY ScriptIdle DEF A!Call, A!ScriptAssumption
    <3>2. /\ A!Start(h, c) /\ \A r \in responses : r.by # t
          /\ UNCHANGED <<script, responses, lock, posted, approved, excused, faults>>
      BY <2>3 DEF A!Analyze
    <3> HIDE DEF c
    <3>3. A!Fits(c)
      BY <3>1 DEF A!Fits, A!ScriptAssumption
    <3> QED BY <3>1, <3>2, <3>3, ScriptStart
  <2>4. CASE A!Approve(h, t)
    BY <2>2, <2>4 DEF A!Approve
  <2>5. CASE A!Patch(h, t)
    BY <2>2, <2>5 DEF A!Patch
  <2>6. CASE A!Return(h, t)
    BY <2>2, <2>6 DEF A!Return
  <2> QED BY <2>1, <2>3, <2>4, <2>5, <2>6
<1> QED BY <1>0, <1>1, <1>2, <1>3

LEMMA ScriptHolds ==
  ASSUME A!IInv, faults \in Nat
  PROVE  A!PostedOnce /\ A!AnalysisWhole
<1>1. A!PostedOnce
  BY DEF A!IInv, A!Typed, A!Counted, A!MarksApproved, A!PostedOnce
<1>2. script.score.analysis # 0 => A!Made(script.score.analysis) = 1..Questions
  BY DEF A!IInv, A!Analyses, A!Finished
<1>3. /\ \A r, s \in responses : r.by = s.by /\ r.of # s.of => raced
      /\ responses # {} /\ script.score.analysis = 0 =>
           faults > 0 \/ raced \/ \E h \in Handler : call[h].op = "analyze"
  BY DEF A!IInv, A!Alone
<1> QED BY <1>1, <1>2, <1>3 DEF A!AnalysisWhole

-----------------------------------------------------------------------------
(* The scene.                                                              *)
Kept ==
  /\ I!IInv /\ O!IInv /\ H!IInv /\ A!IInv
  /\ AssignedKept /\ SourceRemoved /\ faults \in Nat
  /\ focus = "jobs" => IInv
  /\ focus = "ingest" => faults \in 0..MaxDeaths
  /\ focus = "transfer" => faults \in 0..MaxOutages

(* The steps of the other parts leave the jobs.                            *)
LEMMA JobsLeft ==
  ASSUME AssignedKept, SourceRemoved, UNCHANGED jobs, faults \in Nat, faults' \in Nat,
         faults' >= faults
  PROVE  AssignedKept' /\ SourceRemoved'
BY DEF jobs, server, AssignedKept, SourceRemoved, SameContent

LEMMA KeptInit ==
  ASSUME TravelAssumption, SceneInit
  PROVE  Kept
<1>1. I!IInv
  BY IngestInit DEF SceneInit, TravelAssumption
<1>2. O!IInv
  BY OutInit DEF SceneInit, TravelAssumption
<1>3. H!IInv
  <2>1. CASE focus = "webhooks"
    BY <2>1, HookInit DEF SceneInit
  <2>2. CASE NoWebhooks
    BY <2>2, HookIs DEF NoWebhooks, H!IInv, H!Typed, H!PassesAgree, H!DeliveredWasReceived,
                        HookAgrees, HookRecord
  <2> QED BY <2>1, <2>2 DEF SceneInit
<1>4. A!IInv
  BY ScriptInit DEF SceneInit, TravelAssumption
<1>5. IInv /\ AssignedKept /\ SourceRemoved
  BY JobsInit DEF SceneInit, TravelAssumption, IInv
<1>6. faults = 0
  BY DEF SceneInit, Init
<1>7. MaxDeaths \in Nat /\ MaxOutages \in Nat
  BY DEF TravelAssumption, I!IngestAssumption, O!OutboxAssumption
<1> QED BY <1>1, <1>2, <1>3, <1>4, <1>5, <1>6, <1>7 DEF Kept

(* A step of one part, beside which the others rest.                       *)
LEMMA KeptStep ==
  ASSUME TravelAssumption, Kept,
         JobStep \/ IngestStep \/ TransferStep \/ WebhookStep \/ ScriptStep
  PROVE  Kept'
<1> USE DEF Kept
<1>a. /\ MaxDeaths \in Nat /\ MaxOutages \in Nat /\ MaxFaults \in Nat
      /\ WorkerAssumption /\ I!IngestAssumption /\ O!OutboxAssumption /\ A!ScriptAssumption
  BY DEF TravelAssumption, WorkerAssumption, I!IngestAssumption, O!OutboxAssumption
<1>1. CASE JobStep
  <2>1. IInv' /\ focus' = "jobs"
    BY <1>1, <1>a, JobsNext DEF JobStep
  <2>2. faults' \in Nat /\ faults' >= faults
    <3>1. faults' \in 0..MaxFaults
      BY <2>1 DEF IInv, TypeOK
    <3>2. faults' \in {faults, faults + 1}
      BY <1>1 DEF JobStep, Next, Sweep, Stage, CreateJob, LeaseEnds, Claim, DeviceStep, Process,
                  UploadRead, UploadWrite, PostResult, TryRemoveObject, Report, Timeout,
                  DeviceCrash, SetWorker, Fault
    <3> QED BY <1>a, <3>1, <3>2
  <2>3. I!IInv' /\ O!IInv' /\ H!IInv' /\ A!IInv'
    BY <1>1, <2>2, IngestRest, OutRest, HookRest, ScriptRest
       DEF JobStep, ingest, transfer, webhooks, scripts
  <2> QED BY <2>1, <2>2, <2>3 DEF IInv
<1>2. CASE IngestStep
  <2>1. faults' \in 0..MaxDeaths /\ faults' >= faults /\ focus' = "ingest" /\ focus = "ingest"
    <3>1. UNCHANGED faults \/ (faults < MaxDeaths /\ faults' = faults + 1)
      BY <1>2 DEF IngestStep, I!Next, I!Receive, I!StoreDocument, I!Record, I!Fail, I!Look,
                  I!Store
    <3> QED BY <1>2, <1>a, <3>1 DEF IngestStep
  <2>2. I!IInv'
    BY <1>2, <1>a, IngestNext DEF IngestStep
  <2>3. O!IInv' /\ H!IInv' /\ A!IInv'
    BY <1>2, <2>1, OutRest, HookRest, ScriptRest DEF IngestStep, transfer, webhooks, scripts
  <2>4. AssignedKept' /\ SourceRemoved'
    BY <1>2, <2>1, JobsLeft DEF IngestStep
  <2> QED BY <2>1, <2>2, <2>3, <2>4
<1>3. CASE TransferStep
  <2>1. faults' \in 0..MaxOutages /\ faults' >= faults /\ focus' = "transfer" /\ focus = "transfer"
    <3>1. UNCHANGED faults \/ (faults < MaxOutages /\ faults' = faults + 1)
      BY <1>3 DEF TransferStep, O!Next, O!Select, O!Edit, O!DeleteJob, O!PassStep, O!Begin,
                  O!Send, O!Answered, O!Timeout, O!Settle, O!DeviceCrash, O!Fault
    <3> QED BY <1>3, <1>a, <3>1 DEF TransferStep
  <2>2. O!IInv'
    BY <1>3, <1>a, OutNext DEF TransferStep
  <2>3. I!IInv' /\ H!IInv' /\ A!IInv'
    BY <1>3, <2>1, IngestRest, HookRest, ScriptRest DEF TransferStep, ingest, webhooks, scripts
  <2>4. AssignedKept' /\ SourceRemoved'
    BY <1>3, <2>1, JobsLeft DEF TransferStep
  <2> QED BY <2>1, <2>2, <2>3, <2>4
<1>4. CASE WebhookStep
  <2>1. faults' \in Nat /\ faults' >= faults /\ focus' = "webhooks"
    <3>1. faults' \in {faults, faults + 1}
      BY <1>4 DEF WebhookStep, H!Next, H!Step, H!Emit, H!FallDue, H!Load, H!Send, H!GiveUp,
                  H!Commit, H!Raise, H!Die, H!Repair
    <3> QED BY <1>4, <3>1 DEF WebhookStep
  <2>2. H!IInv'
    BY <1>4, HookNext DEF WebhookStep
  <2>3. I!IInv' /\ O!IInv' /\ A!IInv'
    BY <1>4, <2>1, IngestRest, OutRest, ScriptRest DEF WebhookStep, ingest, transfer, scripts
  <2>4. AssignedKept' /\ SourceRemoved'
    BY <1>4, <2>1, JobsLeft DEF WebhookStep
  <2> QED BY <2>1, <2>2, <2>3, <2>4
<1>5. CASE ScriptStep
  <2>1. A!IInv' /\ faults' \in Nat /\ faults' >= faults /\ focus' = "scripts"
    BY <1>5, <1>a, ScriptNext DEF ScriptStep
  <2>2. I!IInv' /\ O!IInv' /\ H!IInv'
    BY <1>5, <2>1, IngestRest, OutRest, HookRest DEF ScriptStep, ingest, transfer, webhooks
  <2>3. AssignedKept' /\ SourceRemoved'
    BY <1>5, <2>1, JobsLeft DEF ScriptStep
  <2> QED BY <2>1, <2>2, <2>3
<1> QED BY <1>1, <1>2, <1>3, <1>4, <1>5

LEMMA KeptRests ==
  ASSUME Kept, UNCHANGED all
  PROVE  Kept'
<1> USE DEF Kept
<1>1. UNCHANGED <<jobs, ingest, transfer, webhooks, scripts, focus, faults>>
  BY DEF all
<1>2. I!IInv' /\ O!IInv' /\ H!IInv' /\ A!IInv'
  BY <1>1, IngestRest, OutRest, HookRest, ScriptRest
     DEF ingest, transfer, webhooks, scripts
<1>3. AssignedKept' /\ SourceRemoved'
  BY <1>1, JobsLeft
<1>4. IInv => IInv'
  BY <1>1, JobsRest DEF jobs, vars
<1> QED BY <1>1, <1>2, <1>3, <1>4

LEMMA Invariance == TravelAssumption /\ Scene => [](Kept /\ TravelAssumption)
<1> DEFINE Steps == JobStep \/ IngestStep \/ TransferStep \/ WebhookStep \/ ScriptStep
<1>1. TravelAssumption /\ SceneInit => Kept
  BY KeptInit
<1>2. Kept /\ TravelAssumption /\ [Steps]_all => (Kept /\ TravelAssumption)'
  BY KeptStep, KeptRests DEF TravelAssumption, WorkerAssumption, I!IngestAssumption,
                             O!OutboxAssumption, A!ScriptAssumption
<1> QED BY <1>1, <1>2, PTL DEF Scene

(* The rows and handlers of the protocols with OCR Studio and devices stay *)
(* in their ranges, for every number of them.                              *)
THEOREM TypesInScene == TravelAssumption /\ Scene => []TypesOK
<1>1. Kept => TypesOK
  BY DEF Kept, TypesOK, IInv, I!IInv, I!TypeOK, O!IInv, O!TypeOK
<1> QED BY <1>1, Invariance, PTL

(* A staged source is there while its job needs it and goes when the job   *)
(* ends, whatever devices, sweeps and revocations do in between.           *)
THEOREM SourcesFollow == TravelAssumption /\ Scene => []SourceFollowsJob
<1>1. Kept => SourceFollowsJob
  BY DEF Kept, SourceFollowsJob, SourceAvailable, AssignedKept
<1> QED BY <1>1, Invariance, PTL

(* What is answered with 200 is stored whole, no row lacks its object, and *)
(* an event in flight has the pass that will settle it.                    *)
THEOREM Accounted == TravelAssumption /\ Scene => []ResultsAccounted
<1>1. Kept => ResultsAccounted
  BY DEF Kept, ResultsAccounted, I!IInv, O!IInv
<1> QED BY <1>1, Invariance, PTL

(* A delivery that says so was received, an approved mark goes to the LMS  *)
(* once unless a return failed behind its back, and an analysis is whole.  *)
THEOREM Outside == TravelAssumption /\ Scene => []OutsideOnce
<1>1. Kept => OutsideOnce
  BY ScriptHolds DEF Kept, OutsideOnce, H!IInv
<1> QED BY <1>1, Invariance, PTL

(* What a job came to stays: no late report, lease or revocation undoes it.*)
THEOREM OutcomesStay == TravelAssumption /\ Scene => OutcomeKept
<1> DEFINE Steps == JobStep \/ IngestStep \/ TransferStep \/ WebhookStep \/ ScriptStep
           Stays == \A j \in Job : jst[j] \in Terminal => jst'[j] = jst[j]
<1>1. Kept /\ [Steps]_all => [Stays]_vars
  <2> SUFFICES ASSUME Kept, [Steps]_all PROVE Stays \/ UNCHANGED vars
    OBVIOUS
  <2>1. CASE JobStep
    BY <2>1, JobsKept DEF JobStep, Kept
  <2>2. CASE UNCHANGED jobs
    BY <2>2 DEF jobs, server
  <2> QED BY <2>1, <2>2 DEF all, IngestStep, TransferStep, WebhookStep, ScriptStep
<1> QED BY <1>1, Invariance, PTL DEF OutcomeKept, Scene

(* A settled delivery stays settled, whichever replica writes its row      *)
(* last.                                                                   *)
THEOREM SettledStay == TravelAssumption /\ Scene => H!SettledStays
<1> DEFINE Steps == JobStep \/ IngestStep \/ TransferStep \/ WebhookStep \/ ScriptStep
           Stays == \A d \in Delivery : delivery[d].status \in {"delivered", "failed"}
                                          => delivery'[d].status \in {"delivered", "failed"}
<1>1. Kept /\ [Steps]_all => [Stays]_(H!vars)
  <2> SUFFICES ASSUME Kept, [Steps]_all PROVE Stays \/ UNCHANGED H!vars
    OBVIOUS
  <2>1. CASE WebhookStep
    BY <2>1, HookSettled DEF WebhookStep, Kept
  <2>2. CASE UNCHANGED webhooks
    BY <2>2 DEF webhooks
  <2> QED BY <2>1, <2>2 DEF all, JobStep, IngestStep, TransferStep, ScriptStep
<1> QED BY <1>1, Invariance, PTL DEF H!SettledStays, Scene

(* The replicas together implement the one ledger: a key has one summary   *)
(* for ever and the same request the same answer, however they overlap.    *)
THEOREM LedgerKept == TravelAssumption /\ Scene => KeepsLedger
<1> DEFINE Steps == JobStep \/ IngestStep \/ TransferStep \/ WebhookStep \/ ScriptStep
           Accepts == \E env \in I!Envelope : I!Ledger!Accept(env)
<1>1. SceneInit => I!Ledger!LedgerInit
  BY DEF SceneInit, I!Init
<1>2. Kept /\ [Steps]_all => [Accepts]_<<record, told>>
  <2> SUFFICES ASSUME Kept, [Steps]_all PROVE [Accepts]_<<record, told>>
    OBVIOUS
  <2>1. CASE IngestStep
    BY <2>1, LedgerStep DEF IngestStep, Kept
  <2>2. CASE UNCHANGED ingest
    BY <2>2 DEF ingest
  <2> QED BY <2>1, <2>2 DEF all, JobStep, TransferStep, WebhookStep, ScriptStep
<1> QED BY <1>1, <1>2, Invariance, PTL
        DEF Scene, KeepsLedger, I!KeepsLedger, I!Ledger!LedgerSpec, I!Ledger!ledgerVars

=============================================================================
