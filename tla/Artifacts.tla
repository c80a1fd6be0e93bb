------------------------------- MODULE Artifacts -------------------------------
(***************************************************************************)
(* The document bundles of the runs that share one output name: staged,    *)
(* judged complete or partial, archived in History with a manifest, and    *)
(* published under the name by two renames.  The job thread runs one at a  *)
(* time; a step may fail, the program may die and another run begin.       *)
(***************************************************************************)
EXTENDS Naturals, FiniteSets

CONSTANTS Run,        \* jobs whose input has the same name
          MaxFaults,  \* bound of the model: failing file operations
          MaxKills    \* bound of the model: programs that die

VARIABLES
  at,        \* per run: the step it is at
  complete,  \* runs whose bundle has a DOCX
  publish,   \* runs that decided to publish under the name
  staged,    \* runs with a bundle in their staging directory
  named,     \* the run whose bundle has the output name, or None
  previous,  \* per run: the bundle its .previous directory holds
  archive,   \* per run: its archive in History: "none", "part", "whole"
  manifest,  \* runs with a manifest
  outcome,   \* per run: what the job is told: artifact status, manifest
  faults, kills

vars == <<at, complete, publish, staged, named, previous, archive, manifest,
          outcome, faults, kills>>
bundles == <<staged, named, previous>>
history == <<archive, manifest>>

None == "none"
Nothing == [status |-> None, manifest |-> FALSE, published |-> FALSE]

Init ==
  /\ at = [r \in Run |-> "new"] /\ complete = {} /\ publish = {} /\ staged = {}
  /\ named = None /\ previous = [r \in Run |-> None]
  /\ archive = [r \in Run |-> "none"] /\ manifest = {}
  /\ outcome = [r \in Run |-> Nothing] /\ faults = 0 /\ kills = 0

Idle == \A r \in Run : at[r] \in {"new", "over", "dead"}
Goto(r, step) == at' = [at EXCEPT ![r] = step]
Fault == faults < MaxFaults /\ faults' = faults + 1

-----------------------------------------------------------------------------
Stage(r) ==
  /\ at[r] = "new" /\ Idle
  /\ Goto(r, "build") /\ staged' = staged \cup {r}
  /\ UNCHANGED <<complete, publish, named, previous, outcome, faults, kills>>
  /\ UNCHANGED history

(* Previews, figures, Markdown and tables; the DOCX is optional.           *)
Build(r) ==
  /\ at[r] = "build"
  /\ complete' \in {complete, complete \cup {r}}
  /\ Goto(r, "decide")
  /\ UNCHANGED <<publish, outcome, faults, kills>> /\ UNCHANGED bundles
  /\ UNCHANGED history

(* A partial bundle does not replace a complete one.                       *)
Decide(r) ==
  /\ at[r] = "decide"
  /\ publish' = IF r \in complete \/ named \notin complete THEN publish \cup {r} ELSE publish
  /\ Goto(r, "archive")
  /\ UNCHANGED <<complete, outcome, faults, kills>> /\ UNCHANGED bundles
  /\ UNCHANGED history

(* Any exception up to here, a checkpoint's cancellation too, and one of   *)
(* the publication: the job is told that its export failed.                *)
Failed(r) ==
  /\ Goto(r, "clean")
  /\ outcome' = [outcome EXCEPT ![r] = [Nothing EXCEPT !.status = "failed"]]

BuildFails(r) ==
  /\ at[r] \in {"build", "decide", "archive", "publish"}
  /\ Failed(r)
  /\ UNCHANGED <<complete, publish, faults, kills>> /\ UNCHANGED bundles
  /\ UNCHANGED history

(* The archive is copied beside its place and renamed; then the manifest   *)
(* is written.  Without it the job goes on.                                *)
CopyArchive(r) ==
  /\ at[r] = "archive"
  /\ \/ archive' = [archive EXCEPT ![r] = "whole"] /\ Goto(r, "manifest") /\ UNCHANGED faults
     \/ Fault /\ Goto(r, "publish") /\ UNCHANGED archive
  /\ UNCHANGED <<complete, publish, manifest, outcome, kills>> /\ UNCHANGED bundles

WriteManifest(r) ==
  /\ at[r] = "manifest"
  /\ \/ manifest' = manifest \cup {r} /\ UNCHANGED faults
     \/ Fault /\ UNCHANGED manifest
  /\ Goto(r, "publish")
  /\ UNCHANGED <<complete, publish, archive, outcome, kills>> /\ UNCHANGED bundles

Told(r) ==
  outcome' = [outcome EXCEPT ![r] =
    [status |-> IF r \in complete THEN "complete" ELSE "partial",
     manifest |-> r \in manifest, published |-> r \in publish]]

Withhold(r) ==
  /\ at[r] = "publish" /\ r \notin publish
  /\ Told(r) /\ Goto(r, "clean")
  /\ UNCHANGED <<complete, publish, faults, kills>> /\ UNCHANGED bundles
  /\ UNCHANGED history

(* mutant: the previous output is deleted instead                          *)
MoveAsideDelete(r) ==
  /\ at[r] = "publish" /\ r \in publish
  /\ named' = None /\ Goto(r, "rename")
  /\ UNCHANGED <<complete, publish, staged, previous, outcome, faults, kills>>
  /\ UNCHANGED history

(* publish_named_output.                                                   *)
MoveAside(r) ==
  /\ at[r] = "publish" /\ r \in publish
  /\ \/ /\ previous' = [previous EXCEPT ![r] = named]
        /\ named' = None /\ Goto(r, "rename") /\ UNCHANGED <<outcome, faults>>
     \/ Fault /\ Failed(r) /\ UNCHANGED <<named, previous>>
  /\ UNCHANGED <<complete, publish, staged, kills>> /\ UNCHANGED history

Rename(r) ==
  /\ at[r] = "rename"
  /\ \/ /\ named' = r /\ staged' = staged \ {r}
        /\ Told(r) /\ Goto(r, "clean") /\ UNCHANGED <<previous, faults>>
     \/ Fault /\ Goto(r, "restore") /\ UNCHANGED <<staged, named, previous, outcome>>
  /\ UNCHANGED <<complete, publish, kills>> /\ UNCHANGED history

Restore(r) ==
  /\ at[r] = "restore"
  /\ \/ /\ named' = IF named = None THEN previous[r] ELSE named
        /\ previous' = [previous EXCEPT ![r] = None] /\ UNCHANGED faults
     \/ Fault /\ UNCHANGED <<named, previous>>
  /\ Failed(r)
  /\ UNCHANGED <<complete, publish, staged, kills>> /\ UNCHANGED history

(* The staging directory of the run goes, with the previous output in it.  *)
Clean(r) ==
  /\ at[r] = "clean"
  /\ staged' = staged \ {r} /\ previous' = [previous EXCEPT ![r] = None]
  /\ Goto(r, "over")
  /\ UNCHANGED <<complete, publish, named, outcome, faults, kills>>
  /\ UNCHANGED history

Die(r) ==
  /\ at[r] \notin {"new", "over", "dead"} /\ kills < MaxKills
  /\ kills' = kills + 1 /\ Goto(r, "dead")
  /\ UNCHANGED <<complete, publish, outcome, faults>> /\ UNCHANGED bundles
  /\ UNCHANGED history

Next ==
  \E r \in Run :
    \/ Stage(r) \/ Build(r) \/ Decide(r) \/ BuildFails(r) \/ CopyArchive(r)
    \/ WriteManifest(r) \/ Withhold(r) \/ MoveAside(r) \/ Rename(r) \/ Restore(r)
    \/ Clean(r) \/ Die(r)

Spec == Init /\ [][Next]_vars

-----------------------------------------------------------------------------
(* "Promote a staged bundle atomically and restore the prior output on     *)
(* failure": once the name had a complete bundle, a complete one is under  *)
(* it or, in the middle of a publication or after the program died in it,  *)
(* in the .previous directory of that run.  One failing operation does not *)
(* lose it; a second one, in the restore, does.                            *)
NameKept ==
  [][(named \in complete /\ faults' <= 1) =>
       named' \in complete' \/ \E r \in Run : previous'[r] = named]_vars
PreviousKept ==
  [][\A r \in Run : (previous[r] \in complete /\ previous'[r] = None /\ faults' <= 1) =>
       named' \in complete']_vars
CompleteKept == NameKept /\ PreviousKept

(* What the job is told is what it will find: a manifest names an archive  *)
(* that is whole, a run that was told "published" was under the name at    *)
(* the end of its publication, and one that was told of a failure is not.  *)
ToldTrue ==
  \A r \in Run :
    /\ r \in manifest => archive[r] = "whole"
    /\ outcome[r].manifest => r \in manifest
    /\ outcome[r].published => (at[r] = "clean" => named = r)
    /\ outcome[r].status = "failed" => named # r

-----------------------------------------------------------------------------
(* What these rest on: one run is at work, nobody has named or kept a      *)
(* bundle that is not out or has failed, and the name is free between the  *)
(* two renames.                                                            *)
ArtifactsAssumption == None \notin Run

Typed ==
  /\ at \in [Run -> {"new", "build", "decide", "archive", "manifest", "publish", "rename",
                     "restore", "clean", "over", "dead"}]
  /\ complete \subseteq Run /\ named \in Run \cup {None}
  /\ previous \in [Run -> Run \cup {None}]
  /\ archive \in [Run -> {"none", "part", "whole"}]
  /\ outcome \in [Run -> [status : {None, "failed", "partial", "complete"}, manifest : BOOLEAN,
                          published : BOOLEAN]]
  /\ faults \in Nat

OneAtWork ==
  \A p, q \in Run :
    {at[p], at[q]} \cap {"new", "over", "dead"} = {} => p = q

NotOut ==
  \A r \in Run :
    at[r] \in {"new", "build", "decide", "archive", "manifest", "publish", "rename", "restore"}
    \/ outcome[r].status = "failed"
    => named # r /\ \A q \in Run : previous[q] # r

Publication ==
  \A r \in Run :
    /\ at[r] = "manifest" => archive[r] = "whole"
    /\ at[r] \in {"rename", "restore"} => named = None
    /\ at[r] = "restore" => faults >= 1
    /\ at[r] \in {"new", "build", "decide", "archive", "manifest", "publish"} => previous[r] = None
    /\ at[r] \in {"new", "build", "decide"} => r \notin publish
    /\ at[r] \in {"archive", "manifest", "publish"} /\ r \in publish =>
         r \in complete \/ named \notin complete
    /\ at[r] \in {"rename", "restore", "clean"} /\ previous[r] \in complete => r \in complete
    /\ at[r] = "clean" /\ previous[r] # None => named = r \/ faults >= 2

IInv == Typed /\ OneAtWork /\ NotOut /\ Publication /\ ToldTrue
=============================================================================
