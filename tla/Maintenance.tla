----------------------------- MODULE Maintenance -----------------------------
(***************************************************************************)
(* Runtime maintenance of the desktop: MaintenanceService stages and       *)
(* validates the components of a signed release in a thread of the program *)
(* and leaves a promotion plan on disk; complete_maintenance_update.ps1,   *)
(* run by start_web.bat before the next start, moves them into place and   *)
(* keeps each previous runtime as a backup.  start_web.bat starts nothing  *)
(* when the script fails.                                                  *)
(*                                                                         *)
(* The version of a runtime is the job that brought it, 0 for what was     *)
(* there before.                                                           *)
(***************************************************************************)
EXTENDS Naturals, Sequences, SequencesExt

CONSTANTS Targets,    \* where a component is installed
          MaxParts,   \* components of a release
          MaxJobs,    \* bound of the model: jobs accepted
          MaxFaults   \* bound of the model: disk errors and kills

VARIABLES
  app,      \* the program and the script: "down", "up", "promote", ...
  job,      \* per job: what the running program knows of it
  record,   \* per job: the status in its JSON file
  plan,     \* pending-update.json
  staged,   \* validated components in staging: <<job, number>>
  runtime,  \* per target: the version installed, <<>> without one
  backup,   \* per target and job: the version the job has set aside
  script,   \* the component the script is at, and the targets it has moved
  before,   \* the runtimes as the script found them
  faults

vars == <<app, job, record, plan, staged, runtime, backup, script, before, faults>>
program == <<job, record, plan, staged>>
installed == <<runtime, backup, script, before>>

Jobs == 1..MaxJobs
None == "none"
Parts == SeqOf(Targets, MaxParts) \ {<<>>}
NewJob(at, parts) == [at |-> at, parts |-> parts, k |-> 1, cancel |-> FALSE]
NoJob == NewJob(None, <<>>)
NoPlan == [job |-> 0, parts |-> <<>>]

Init ==
  /\ app = "down" /\ job = [j \in Jobs |-> NoJob] /\ record = [j \in Jobs |-> None]
  /\ plan = NoPlan /\ staged = {}
  /\ \E existing \in SUBSET Targets :
       runtime = [t \in Targets |-> IF t \in existing THEN <<0>> ELSE <<>>]
  /\ backup = [t \in Targets |-> [j \in Jobs |-> <<>>]]
  /\ script = [k |-> 1, aside |-> FALSE, moved |-> <<>>]
  /\ before = runtime /\ faults = 0

Fault == faults < MaxFaults /\ faults' = faults + 1

-----------------------------------------------------------------------------
(* The service.                                                            *)

Over(j) == job[j].at \in {None, "failed", "cancelled"}

(* apply: one job at a time, of those this process knows.  When the record *)
(* cannot be written the job stays queued, and no thread runs it.          *)
Apply(j, parts) ==
  /\ app = "up" /\ \A i \in Jobs : Over(i)
  /\ record[j] = None /\ job[j] = NoJob /\ \A i \in 1..(j - 1) : record[i] # None
  /\ \/ /\ job' = [job EXCEPT ![j] = NewJob("queued", parts)]
        /\ record' = [record EXCEPT ![j] = "queued"]
        /\ UNCHANGED faults
     \/ /\ Fault
        /\ job' = [job EXCEPT ![j] = NewJob("orphan", parts)]
        /\ UNCHANGED record
  /\ UNCHANGED <<app, plan, staged>> /\ UNCHANGED installed

Put(j, at, k, cancel) ==
  job' = [job EXCEPT ![j] = [at |-> at, parts |-> job[j].parts, k |-> k, cancel |-> cancel]]
Enter(j, at) ==
  /\ Put(j, at, 1, job[j].cancel)
  /\ record' = [record EXCEPT ![j] = at]

Begin(j) ==
  /\ job[j].at = "queued"
  /\ Enter(j, "downloading")
  /\ UNCHANGED <<app, plan, staged, faults>> /\ UNCHANGED installed

(* Each turn of the two loops first looks at the cancel flag.              *)
Cancelled(j) ==
  /\ job[j].at \in {"downloading", "validating"} /\ job[j].k <= Len(job[j].parts)
  /\ job[j].cancel
  /\ Enter(j, "cancelled")
  /\ staged' = {s \in staged : s[1] # j}
  /\ UNCHANGED <<app, plan, faults>> /\ UNCHANGED installed

Download(j) ==
  /\ job[j].at = "downloading" /\ ~job[j].cancel
  /\ IF job[j].k < Len(job[j].parts)
     THEN Put(j, "downloading", job[j].k + 1, FALSE) /\ UNCHANGED record
     ELSE Enter(j, "validating")
  /\ UNCHANGED <<app, plan, staged, faults>> /\ UNCHANGED installed

Validate(j) ==
  /\ job[j].at = "validating" /\ ~job[j].cancel
  /\ job[j].k <= Len(job[j].parts)
  /\ staged' = staged \cup {<<j, job[j].k>>}
  /\ Put(j, "validating", job[j].k + 1, FALSE)
  /\ UNCHANGED <<app, record, plan, faults>> /\ UNCHANGED installed

(* The plan is on disk before the status says so, and the cancel flag is   *)
(* not looked at any more.                                                 *)
WritePlan(j) ==
  /\ job[j].at = "validating" /\ job[j].k > Len(job[j].parts)
  /\ plan' = [job |-> j, parts |-> job[j].parts]
  /\ Put(j, "planned", job[j].k, job[j].cancel)
  /\ UNCHANGED <<app, record, staged, faults>> /\ UNCHANGED installed

RequireRestart(j) ==
  /\ job[j].at = "planned"
  /\ Enter(j, "restart_required")
  /\ UNCHANGED <<app, plan, staged, faults>> /\ UNCHANGED installed

WriteAudit(j) ==
  /\ job[j].at = "restart_required"
  /\ Put(j, "validated", job[j].k, job[j].cancel)
  /\ UNCHANGED <<app, record, plan, staged, faults>> /\ UNCHANGED installed

(* Any exception: a download or a validation that fails, or a disk error   *)
(* after the plan was written.  The plan and the staging directory stay.   *)
FailJob(j) ==
  /\ \/ job[j].at \in {"downloading", "validating"} /\ UNCHANGED faults
     \/ job[j].at \in {"planned", "restart_required"} /\ Fault
  /\ Enter(j, "failed")
  /\ UNCHANGED <<app, plan, staged>> /\ UNCHANGED installed

(* cancel sets a flag, as long as the status says that it can.             *)
Cancel(j) ==
  /\ job[j].at \in {"queued", "orphan", "downloading", "validating", "planned"}
  /\ ~job[j].cancel
  /\ Put(j, job[j].at, job[j].k, TRUE)
  /\ UNCHANGED <<app, record, plan, staged, faults>> /\ UNCHANGED installed

Stop ==
  /\ app = "up"
  /\ app' = "down" /\ job' = [j \in Jobs |-> NoJob]
  /\ UNCHANGED <<record, plan, staged, faults>> /\ UNCHANGED installed

-----------------------------------------------------------------------------
(* start_web.bat and the promotion script.                                 *)

Start ==
  /\ app = "down"
  /\ app' = IF plan = NoPlan THEN "up" ELSE "promote"
  /\ script' = [k |-> 1, aside |-> FALSE, moved |-> <<>>]
  /\ before' = runtime
  /\ UNCHANGED <<runtime, backup, faults>> /\ UNCHANGED program

Here == plan.parts[script.k]
AtPart == app = "promote" /\ script.k <= Len(plan.parts)

(* The component must be in staging and have no backup of this job yet.    *)
Blocked == <<plan.job, script.k>> \notin staged \/ backup[Here][plan.job] # <<>>

(* mutant: the previous backup is dropped and the runtime only deleted     *)
SetAsideDelete ==
  /\ AtPart /\ ~script.aside /\ ~Blocked
  /\ runtime' = [runtime EXCEPT ![Here] = <<>>]
  /\ script' = [script EXCEPT !.aside = TRUE]
  /\ UNCHANGED <<app, backup, before, faults>> /\ UNCHANGED program

SetAside ==
  /\ AtPart /\ ~script.aside /\ ~Blocked
  /\ backup' = [backup EXCEPT ![Here][plan.job] = runtime[Here]]
  /\ runtime' = [runtime EXCEPT ![Here] = <<>>]
  /\ script' = [k |-> script.k, aside |-> TRUE,
                moved |-> IF runtime[Here] = <<>> THEN script.moved
                                                  ELSE Append(script.moved, Here)]
  /\ UNCHANGED <<app, before, faults>> /\ UNCHANGED program

MoveIn ==
  /\ AtPart /\ script.aside
  /\ runtime' = [runtime EXCEPT ![Here] = <<plan.job>>]
  /\ staged' = staged \ {<<plan.job, script.k>>}
  /\ script' = [k |-> script.k + 1, aside |-> FALSE, moved |-> script.moved]
  /\ UNCHANGED <<app, job, record, plan, backup, before, faults>>

Complete ==
  /\ app = "promote" /\ script.k > Len(plan.parts)
  /\ record' = [record EXCEPT ![plan.job] = "completed"]
  /\ app' = "completed"
  /\ UNCHANGED <<job, plan, staged, faults>> /\ UNCHANGED installed

RemovePlan ==
  /\ app = "completed"
  /\ plan' = NoPlan /\ app' = "up"
  /\ UNCHANGED <<job, record, staged, faults>> /\ UNCHANGED installed

(* A component that is missing or has a backup, or an error of the disk.   *)
Throw ==
  /\ \/ AtPart /\ ~script.aside /\ Blocked /\ UNCHANGED faults
     \/ app \in {"promote", "completed"} /\ Fault
  /\ app' = "rollback"
  /\ UNCHANGED program /\ UNCHANGED installed

RollBack ==
  /\ app = "rollback" /\ script.moved # <<>>
  /\ LET t == Last(script.moved)
     IN IF runtime[t] # <<>>
        THEN runtime' = [runtime EXCEPT ![t] = <<>>] /\ UNCHANGED <<backup, script>>
        ELSE /\ runtime' = [runtime EXCEPT ![t] = backup[t][plan.job]]
             /\ backup' = [backup EXCEPT ![t][plan.job] = <<>>]
             /\ script' = [k |-> script.k, aside |-> script.aside, moved |-> Front(script.moved)]
  /\ UNCHANGED <<app, before, faults>> /\ UNCHANGED program

(* The script has ended, and start_web.bat with it.                        *)
GiveUp ==
  /\ app = "rollback" /\ script.moved = <<>>
  /\ app' = "down"
  /\ UNCHANGED faults /\ UNCHANGED program /\ UNCHANGED installed

(* The machine goes down, or an error in the rollback ends the script.     *)
Kill ==
  /\ app \in {"promote", "completed", "rollback"} /\ Fault
  /\ app' = "down"
  /\ UNCHANGED program /\ UNCHANGED installed

Next ==
  \/ \E j \in Jobs :
       \/ \E parts \in Parts : Apply(j, parts)
       \/ Begin(j) \/ Cancelled(j) \/ Download(j) \/ Validate(j) \/ WritePlan(j)
       \/ RequireRestart(j) \/ WriteAudit(j) \/ FailJob(j) \/ Cancel(j)
  \/ Stop \/ Start
  \/ SetAside \/ MoveIn \/ Complete \/ RemovePlan \/ Throw \/ RollBack \/ GiveUp \/ Kill

Spec == Init /\ [][Next]_vars

-----------------------------------------------------------------------------
(* A machine that loses its runtime cannot start the program that would    *)
(* repair it.  Whatever the script is killed at, a target whose runtime is *)
(* away has it in a backup; and when the script gives up, without having   *)
(* been killed, every runtime it found is back where it was.               *)
RuntimeKept ==
  /\ \A t \in Targets : before[t] # <<>> =>
       runtime[t] # <<>> \/ \E j \in Jobs : backup[t][j] # <<>>
  /\ (app = "rollback" /\ script.moved = <<>>) =>
       \A t \in Targets : before[t] # <<>> => runtime[t] = before[t]

(* What a job's record says: a completed one, whose plan is not pending    *)
(* any more, was installed, and is there or in a backup unless a later one *)
(* replaced it; a cancelled one has nothing installed and nothing waiting. *)
RecordTrue ==
  \A j \in Jobs :
    /\ (record[j] = "completed" /\ plan.job # j) =>
         \E t \in Targets : \E v \in {runtime[t]} \cup {backup[t][i] : i \in Jobs} :
           v # <<>> /\ v[1] >= j
    /\ record[j] = "cancelled" =>
         /\ plan.job # j
         /\ \A t \in Targets : runtime[t] # <<j>>

-----------------------------------------------------------------------------
(* What these rest on: the record of a job follows what the program knows  *)
(* of it; while the script is at work the plan stays, and every target is  *)
(* as it was found or set aside; and nothing but the plan at work is ever  *)
(* taken away, so that a completed job has another witness.                *)
UpdateAssumption == MaxParts \in Nat /\ MaxJobs \in Nat

Versions == {<<>>} \cup {<<n>> : n \in 0 .. MaxJobs}
Scripted == app \in {"promote", "completed", "rollback"}
Installed == {runtime[t] : t \in Targets} \cup {backup[t][j] : t \in Targets, j \in Jobs}

Typed ==
  /\ app \in {"down", "up", "promote", "completed", "rollback"}
  /\ job \in [Jobs -> [at : {None, "queued", "orphan", "downloading", "validating", "planned",
                            "restart_required", "validated", "failed", "cancelled"},
                      parts : Parts \cup {<<>>}, k : Nat \ {0}, cancel : BOOLEAN]]
  /\ record \in [Jobs -> {None, "queued", "downloading", "validating", "restart_required",
                         "failed", "cancelled", "completed"}]
  /\ plan \in [job : Jobs, parts : Parts] \cup {NoPlan}
  /\ runtime \in [Targets -> Versions] /\ backup \in [Targets -> [Jobs -> Versions]]
  /\ before \in [Targets -> Versions]
  /\ script \in [k : Nat \ {0}, aside : BOOLEAN, moved : Seq(Targets)]

RecordFollows ==
  \A j \in Jobs :
    /\ app # "up" => job[j] = NoJob
    /\ job[j].at = "orphan" => record[j] = None
    /\ job[j].at = "planned" => record[j] = "validating"
    /\ job[j].at = "validated" => record[j] = "restart_required"
    /\ job[j].at \notin {None, "orphan", "planned", "validated"} => record[j] = job[j].at
    /\ job[j].at = None => job[j] = NoJob
    /\ job[j].at \notin {None, "orphan"} => job[j].parts \in Parts
    /\ plan.job = j => /\ record[j] \notin {None, "cancelled"}
                       /\ job[j].at \in {None, "planned", "restart_required", "validated", "failed"}
                       /\ app = "up" => record[j] # "completed"
    /\ <<j>> \in Installed => job[j] = NoJob /\ record[j] \notin {None, "cancelled"}

ScriptAgrees ==
  Scripted =>
    /\ plan # NoPlan /\ script.k <= Len(plan.parts) + 1
    /\ \A m, n \in DOMAIN script.moved : m # n => script.moved[m] # script.moved[n]
    /\ \A n \in DOMAIN script.moved :
         LET t == script.moved[n]
         IN /\ backup[t][plan.job] # <<>> /\ runtime[t] \in {<<>>, <<plan.job>>}
            /\ before[t] # <<>> => backup[t][plan.job] = before[t]
    /\ \A t \in Targets : t \notin Range(script.moved) /\ before[t] # <<>> => runtime[t] = before[t]
    /\ app # "rollback" /\ script.aside =>
         script.k <= Len(plan.parts) /\ runtime[Here] = <<>>
    /\ app # "rollback" /\ ~script.aside /\ script.k > 1 =>
         runtime[plan.parts[script.k - 1]] = <<plan.job>>
    /\ app = "completed" => script.k > Len(plan.parts)

Witnessed ==
  \A j \in Jobs : record[j] = "completed" /\ plan.job # j =>
    \E v \in Installed : v # <<>> /\ v[1] >= j /\ v # <<plan.job>>

IInv == Typed /\ RecordFollows /\ ScriptAgrees /\ Witnessed /\ RuntimeKept
=============================================================================
