---------------------------- MODULE DocumentProofs ----------------------------
(***************************************************************************)
(* What becomes of a document on the computer: its published output, its   *)
(* History, the analysis a teacher makes of it and what is made of that.   *)
(***************************************************************************)
EXTENDS ComputerProofs

-----------------------------------------------------------------------------
(* The published output. One run at a time is at work (OneAtWork), and what*)
(* it found under the name is there or set aside (Publication).            *)

USE DEF A!None

(* The range of every variable.                                            *)
LEMMA OutputTypes ==
  ASSUME A!IInv, A!Next
  PROVE  A!Typed'
<1> USE DEF A!IInv, A!Typed, A!Goto, A!Fault, A!bundles, A!history
<1>1. ASSUME NEW r \in Run, A!Stage(r) \/ A!Build(r) \/ A!Decide(r) \/ A!CopyArchive(r) PROVE A!Typed'
  BY <1>1 DEF A!Stage, A!Build, A!Decide, A!CopyArchive
<1>2. ASSUME NEW r \in Run, A!BuildFails(r) PROVE A!Typed'
  BY <1>2 DEF A!BuildFails, A!Failed, A!Nothing
<1>3. ASSUME NEW r \in Run, A!WriteManifest(r) PROVE A!Typed'
  BY <1>3 DEF A!WriteManifest
<1>4. ASSUME NEW r \in Run, A!Withhold(r) PROVE A!Typed'
  BY <1>4 DEF A!Withhold, A!Told
<1>5. ASSUME NEW r \in Run, A!MoveAside(r) PROVE A!Typed'
  <2>1. CASE previous' = [previous EXCEPT ![r] = named] /\ named' = A!None /\ UNCHANGED <<outcome, faults>>
    BY <1>5, <2>1 DEF A!MoveAside
  <2>2. CASE A!Fault /\ A!Failed(r) /\ UNCHANGED <<named, previous>>
    <3>1. outcome' \in [Run -> [status : {A!None, "failed", "partial", "complete"}, manifest : BOOLEAN,
                                published : BOOLEAN]]
      BY <2>2 DEF A!Failed, A!Nothing
    <3> QED BY <1>5, <2>2, <3>1 DEF A!MoveAside, A!Failed
  <2> QED BY <1>5, <2>1, <2>2 DEF A!MoveAside
<1>6. ASSUME NEW r \in Run, A!Rename(r) PROVE A!Typed'
  <2>1. CASE named' = r /\ A!Told(r) /\ UNCHANGED <<previous, faults>>
    BY <1>6, <2>1 DEF A!Rename, A!Told
  <2>2. CASE A!Fault /\ UNCHANGED <<bundles, named, previous, outcome>>
    BY <1>6, <2>2 DEF A!Rename
  <2> QED BY <1>6, <2>1, <2>2 DEF A!Rename
<1>7. ASSUME NEW r \in Run, A!Restore(r) PROVE A!Typed'
  <2>1. outcome' \in [Run -> [status : {A!None, "failed", "partial", "complete"}, manifest : BOOLEAN,
                              published : BOOLEAN]]
    BY <1>7 DEF A!Restore, A!Failed, A!Nothing
  <2>2. /\ named' \in Run \cup {A!None} /\ previous' \in [Run -> Run \cup {A!None}] /\ faults' \in Nat
    BY <1>7 DEF A!Restore
  <2> QED BY <1>7, <2>1, <2>2 DEF A!Restore, A!Failed
<1>8. ASSUME NEW r \in Run, A!Clean(r) \/ A!Die(r) PROVE A!Typed'
  BY <1>8 DEF A!Clean, A!Die
<1> QED BY <1>1, <1>2, <1>3, <1>4, <1>5, <1>6, <1>7, <1>8 DEF A!Next

(* A run at work is the only one, and a step moves it alone.               *)
LEMMA OutputOne ==
  ASSUME A!IInv, NEW r \in Run, A!Stage(r) \/ run[r] \notin {"new", "over", "dead"}
  PROVE  \A q \in Run : q # r => run[q] \in {"new", "over", "dead"}
BY DEF A!IInv, A!OneAtWork, A!Stage, A!Idle

(* A step moves one run, the others are over or not begun.                 *)
LEMMA OutputMoves ==
  ASSUME A!IInv, NEW r \in Run,
         \/ A!Stage(r) \/ A!Build(r) \/ A!Decide(r) \/ A!BuildFails(r) \/ A!CopyArchive(r)
         \/ A!WriteManifest(r) \/ A!Withhold(r) \/ A!MoveAside(r) \/ A!Rename(r) \/ A!Restore(r)
         \/ A!Clean(r) \/ A!Die(r)
  PROVE  /\ \A q \in Run : q # r => run'[q] = run[q] /\ run[q] \in {"new", "over", "dead"}
         /\ run'[r] # "new"
         /\ A!OneAtWork'
<1>1. A!Stage(r) \/ run[r] \notin {"new", "over", "dead"}
  BY DEF A!Build, A!Decide, A!BuildFails, A!CopyArchive, A!WriteManifest, A!Withhold,
     A!MoveAside, A!Rename,
         A!Restore, A!Clean, A!Die
<1>2. \A q \in Run : q # r => run[q] \in {"new", "over", "dead"}
  BY <1>1, OutputOne
<1>3. \E s \in {"build", "decide", "archive", "manifest", "publish", "rename", "restore", "clean",
                "over", "dead"} : run' = [run EXCEPT ![r] = s]
  BY DEF A!Stage, A!Build, A!Decide, A!BuildFails, A!CopyArchive, A!WriteManifest, A!Withhold,
     A!MoveAside, A!Rename,
         A!Restore, A!Clean, A!Die, A!Goto, A!Failed
<1>4. run'[r] # "new" /\ \A q \in Run : q # r => run'[q] = run[q]
  BY <1>3 DEF A!IInv, A!Typed
<1> QED BY <1>2, <1>4 DEF A!OneAtWork

(* What a run has published or set aside, and what it was told.            *)
LEMMA OutputNext ==
  ASSUME A!ArtifactsAssumption, A!IInv, NEW r \in Run,
         \/ A!Stage(r) \/ A!Build(r) \/ A!Decide(r) \/ A!BuildFails(r) \/ A!CopyArchive(r)
         \/ A!WriteManifest(r) \/ A!Withhold(r) \/ A!MoveAside(r) \/ A!Rename(r) \/ A!Restore(r)
         \/ A!Clean(r) \/ A!Die(r), A!Typed'
  PROVE  A!NotOut' /\ A!Publication' /\ A!ToldTrue'
<1>0. /\ \A q \in Run : q # r => run'[q] = run[q] /\ run[q] \in {"new", "over", "dead"}
      /\ run'[r] # "new"
  BY OutputMoves
<1> USE DEF A!IInv, A!Typed, A!NotOut, A!Publication, A!ToldTrue, A!Goto, A!Fault, A!bundles, A!history,
            A!ArtifactsAssumption
<1>1. CASE A!Stage(r)
  BY <1>0, <1>1 DEF A!Stage
<1>2. CASE A!Build(r)
  BY <1>0, <1>2 DEF A!Build
<1>3. CASE A!Decide(r)
  BY <1>0, <1>3 DEF A!Decide
<1>4. CASE A!BuildFails(r)
  BY <1>0, <1>4 DEF A!BuildFails, A!Failed, A!Nothing
<1>5. CASE A!CopyArchive(r)
  BY <1>0, <1>5 DEF A!CopyArchive
<1>6. CASE A!WriteManifest(r)
  BY <1>0, <1>6 DEF A!WriteManifest
<1>7. CASE A!Withhold(r)
  <2>1. A!NotOut'
    BY <1>0, <1>7 DEF A!Withhold, A!Told
  <2>2. A!Publication'
    BY <1>0, <1>7 DEF A!Withhold
  <2>3. A!ToldTrue'
    <3>1. outcome'[r] = [status |-> IF r \in complete THEN "complete" ELSE "partial",
                         manifest |-> r \in manifest, published |-> r \in publish]
      BY <1>7 DEF A!Withhold, A!Told
    <3>2. \A q \in Run : q # r => outcome'[q] = outcome[q]
      BY <1>7 DEF A!Withhold, A!Told
    <3>3. outcome'[r].status # "failed" /\ outcome'[r].manifest = (r \in manifest)
          /\ ~outcome'[r].published
      BY <3>1, <1>7 DEF A!Withhold
    <3> QED BY <1>0, <1>7, <3>2, <3>3 DEF A!Withhold
  <2> QED BY <2>1, <2>2, <2>3
<1>8. CASE A!MoveAside(r)
  <2>1. CASE previous' = [previous EXCEPT ![r] = named] /\ named' = A!None /\ A!Goto(r, "rename")
             /\ UNCHANGED <<outcome, faults>>
    <3>1. A!NotOut'
      BY <1>0, <1>8, <2>1 DEF A!MoveAside
    <3>2. A!Publication'
      BY <1>0, <1>8, <2>1 DEF A!MoveAside
    <3>3. A!ToldTrue'
      BY <1>0, <1>8, <2>1 DEF A!MoveAside
    <3> QED BY <3>1, <3>2, <3>3
  <2>2. CASE A!Fault /\ A!Failed(r) /\ UNCHANGED <<named, previous>>
    <3>1. A!NotOut'
      BY <1>0, <1>8, <2>2 DEF A!MoveAside, A!Failed, A!Nothing
    <3>2. A!Publication'
      BY <1>0, <1>8, <2>2 DEF A!MoveAside, A!Failed, A!Nothing
    <3>3. A!ToldTrue'
      BY <1>0, <1>8, <2>2 DEF A!MoveAside, A!Failed, A!Nothing
    <3> QED BY <3>1, <3>2, <3>3
  <2> QED BY <1>8, <2>1, <2>2 DEF A!MoveAside
<1>9. CASE A!Rename(r)
  <2>1. CASE named' = r /\ A!Told(r) /\ A!Goto(r, "clean") /\ UNCHANGED <<previous, faults>>
    <3>0. \A q \in Run : q # r => outcome'[q] = outcome[q]
      BY <2>1 DEF A!Told
    <3>a. outcome'[r].status \in {"complete", "partial"} /\ outcome'[r].manifest = (r \in manifest)
          /\ run'[r] = "clean"
      BY <2>1 DEF A!Told
    <3>1. A!NotOut'
      BY <1>0, <1>9, <2>1, <3>0, <3>a DEF A!Rename
    <3>2. A!Publication'
      BY <1>0, <1>9, <2>1 DEF A!Rename
    <3>3. A!ToldTrue'
      BY <1>0, <1>9, <2>1, <3>0, <3>a DEF A!Rename
    <3> QED BY <3>1, <3>2, <3>3
  <2>2. CASE A!Fault /\ A!Goto(r, "restore") /\ UNCHANGED <<bundles, named, previous, outcome>>
    BY <1>0, <1>9, <2>2 DEF A!Rename
  <2> QED BY <1>9, <2>1, <2>2 DEF A!Rename
<1>10. CASE A!Restore(r)
  <2>0. named = A!None /\ run'[r] = "clean" /\ outcome'[r] = [A!Nothing EXCEPT !.status = "failed"]
        /\ (\A q \in Run : q # r => outcome'[q] = outcome[q])
    BY <1>10 DEF A!Restore, A!Failed
  <2>a. outcome'[r].status = "failed" /\ ~outcome'[r].manifest /\ ~outcome'[r].published
    BY <2>0 DEF A!Nothing
  <2>1. CASE named' = previous[r] /\ previous' = [previous EXCEPT ![r] = A!None] /\ UNCHANGED faults
    <3>1. A!NotOut'
      BY <1>0, <1>10, <2>0, <2>a, <2>1 DEF A!Restore
    <3>2. A!Publication'
      BY <1>0, <1>10, <2>0, <2>a, <2>1 DEF A!Restore
    <3>3. A!ToldTrue'
      BY <1>0, <1>10, <2>0, <2>a, <2>1 DEF A!Restore
    <3> QED BY <3>1, <3>2, <3>3
  <2>2. CASE A!Fault /\ UNCHANGED <<named, previous>>
    <3>1. A!NotOut'
      BY <1>0, <1>10, <2>0, <2>a, <2>2 DEF A!Restore
    <3>2. A!Publication'
      BY <1>0, <1>10, <2>0, <2>a, <2>2 DEF A!Restore
    <3>3. A!ToldTrue'
      BY <1>0, <1>10, <2>0, <2>a, <2>2 DEF A!Restore
    <3> QED BY <3>1, <3>2, <3>3
  <2> QED BY <1>10, <2>0, <2>1, <2>2 DEF A!Restore
<1>11. CASE A!Clean(r)
  BY <1>0, <1>11 DEF A!Clean
<1>12. CASE A!Die(r)
  BY <1>0, <1>12 DEF A!Die
<1> QED BY <1>1, <1>2, <1>3, <1>4, <1>5, <1>6, <1>7, <1>8, <1>9, <1>10, <1>11, <1>12

LEMMA OutputStep ==
  ASSUME A!ArtifactsAssumption, A!IInv, A!Next
  PROVE  A!IInv'
BY OutputTypes, OutputMoves, OutputNext DEF A!Next, A!IInv

LEMMA OutputStill ==
  ASSUME A!IInv, UNCHANGED <<run, complete, publish, bundles, named, previous, archive, manifest, outcome>>,
         faults' \in Nat, faults <= faults'
  PROVE  A!IInv'
BY DEF A!IInv, A!Typed, A!OneAtWork, A!NotOut, A!Publication, A!ToldTrue

LEMMA OutputInit ==
  ASSUME A!ArtifactsAssumption, A!Init
  PROVE  A!IInv
BY DEF A!ArtifactsAssumption, A!Init, A!IInv, A!Typed, A!OneAtWork, A!NotOut, A!Publication,
   A!ToldTrue, A!Nothing

(* A complete bundle is under the name or set aside.                       *)
LEMMA OutputKept ==
  ASSUME A!ArtifactsAssumption, A!IInv, A!Next, faults' <= 1
  PROVE  /\ named \in complete =>
              named' \in complete' \/ \E r \in Run : previous'[r] = named
         /\ \A r \in Run : previous[r] \in complete /\ previous'[r] = A!None => named' \in complete'
<1>1. PICK r \in Run :
        \/ A!Stage(r) \/ A!Build(r) \/ A!Decide(r) \/ A!BuildFails(r) \/ A!CopyArchive(r)
        \/ A!WriteManifest(r) \/ A!Withhold(r) \/ A!MoveAside(r) \/ A!Rename(r) \/ A!Restore(r)
        \/ A!Clean(r) \/ A!Die(r)
  BY DEF A!Next
<1> USE DEF A!IInv, A!Typed, A!Publication, A!ArtifactsAssumption, A!Goto, A!Fault, A!bundles
<1>2. CASE A!Stage(r) \/ A!Build(r) \/ A!Decide(r) \/ A!BuildFails(r) \/ A!CopyArchive(r) \/ A!WriteManifest(r)
           \/ A!Withhold(r) \/ A!Die(r)
  BY <1>2 DEF A!Stage, A!Build, A!Decide, A!BuildFails, A!CopyArchive, A!WriteManifest,
     A!Withhold, A!Die
<1>3. CASE A!MoveAside(r)
  BY <1>3 DEF A!MoveAside
<1>4. CASE A!Rename(r)
  BY <1>4 DEF A!Rename
<1>5. CASE A!Restore(r)
  BY <1>5 DEF A!Restore
<1>6. CASE A!Clean(r)
  BY <1>6 DEF A!Clean
<1> QED BY <1>1, <1>2, <1>3, <1>4, <1>5, <1>6

-----------------------------------------------------------------------------
(* History. A handler works on records that were over when it listed them  *)
(* (HandlerAgrees), a job alone on its own (WriterAgrees), and a directory *)
(* without a row is in some work or was left by a failure (Explained).     *)

USE DEF H!Id, H!None, H!NoRow, H!NoDir, H!NoReq, H!Active, H!Status, H!Rows, H!Dirs, H!Works

(* The migration.                                                          *)
LEMMA HistoryOpenStep ==
  ASSUME H!HistoryAssumption, H!IInv, H!Open
  PROVE  H!IInv'
<1> USE DEF H!HistoryAssumption, H!IInv, H!Open, H!start, H!server
<1>1. H!TypeOK'
  BY DEF H!TypeOK
<1>2. H!RowsHaveFiles'
  BY DEF H!RowsHaveFiles, H!Recorded
<1>3. H!WriterAgrees'
  BY DEF H!WriterAgrees
<1>4. H!MigrationAgrees'
  BY DEF H!MigrationAgrees
<1>5. H!HandlerAgrees'
  BY DEF H!HandlerAgrees, H!Known
<1> QED BY <1>1, <1>2, <1>3, <1>4, <1>5

LEMMA HistoryCreateStep ==
  ASSUME H!HistoryAssumption, H!IInv, H!Create
  PROVE  H!IInv'
<1> USE DEF H!HistoryAssumption, H!IInv, H!Create, H!start, H!server
<1>1. H!TypeOK'
  BY DEF H!TypeOK
<1>2. H!RowsHaveFiles'
  BY DEF H!RowsHaveFiles, H!Recorded
<1>3. H!WriterAgrees'
  BY DEF H!WriterAgrees
<1>4. H!MigrationAgrees'
  BY DEF H!MigrationAgrees
<1>5. H!HandlerAgrees'
  BY DEF H!HandlerAgrees, H!Known
<1> QED BY <1>1, <1>2, <1>3, <1>4, <1>5

LEMMA HistoryCopyDatabaseStep ==
  ASSUME H!HistoryAssumption, H!IInv, H!CopyDatabase
  PROVE  H!IInv'
<1> USE DEF H!HistoryAssumption, H!IInv, H!CopyDatabase, H!start, H!server
<1>1. H!TypeOK'
  BY DEF H!TypeOK
<1>2. H!RowsHaveFiles'
  BY DEF H!RowsHaveFiles, H!Recorded
<1>3. H!WriterAgrees'
  BY DEF H!WriterAgrees
<1>4. H!MigrationAgrees'
  BY DEF H!MigrationAgrees
<1>5. H!HandlerAgrees'
  BY DEF H!HandlerAgrees, H!Known
<1> QED BY <1>1, <1>2, <1>3, <1>4, <1>5

LEMMA HistoryCopyOutputStep ==
  ASSUME H!HistoryAssumption, H!IInv, NEW i \in Legacy, H!CopyOutput(i)
  PROVE  H!IInv'
<1> USE DEF H!HistoryAssumption, H!IInv, H!CopyOutput, H!start, H!server
<1>1. H!TypeOK'
  BY DEF H!TypeOK
<1>2. H!RowsHaveFiles'
  BY DEF H!RowsHaveFiles, H!Recorded
<1>3. H!WriterAgrees'
  <2>1. \A j \in Job : dir'[j] = dir[j]
    BY DEF H!TypeOK
  <2> QED BY <2>1 DEF H!WriterAgrees
<1>4. H!MigrationAgrees'
  BY DEF H!MigrationAgrees
<1>5. H!HandlerAgrees'
  BY DEF H!HandlerAgrees, H!Known
<1> QED BY <1>1, <1>2, <1>3, <1>4, <1>5

LEMMA HistoryCommitMigrationStep ==
  ASSUME H!HistoryAssumption, H!IInv, H!CommitMigration
  PROVE  H!IInv'
<1> USE DEF H!HistoryAssumption, H!IInv, H!CommitMigration, H!Row, H!start, H!server
<1>1. H!TypeOK'
  BY DEF H!TypeOK
<1>2. H!RowsHaveFiles'
  BY DEF H!RowsHaveFiles, H!Recorded, H!TypeOK, H!MigrationAgrees
<1>3. H!WriterAgrees'
  BY DEF H!WriterAgrees, H!TypeOK
<1>4. H!MigrationAgrees'
  BY DEF H!MigrationAgrees
<1>5. H!HandlerAgrees'
  BY DEF H!HandlerAgrees, H!Known
<1> QED BY <1>1, <1>2, <1>3, <1>4, <1>5

LEMMA HistoryRecoverStep ==
  ASSUME H!HistoryAssumption, H!IInv, H!Recover
  PROVE  H!IInv'
<1> USE DEF H!HistoryAssumption, H!IInv, H!Recover, H!start, H!server
<1>1. H!TypeOK'
  BY DEF H!TypeOK
<1>2. H!RowsHaveFiles'
  BY DEF H!RowsHaveFiles, H!Recorded
<1>3. H!WriterAgrees'
  BY DEF H!WriterAgrees
<1>4. H!MigrationAgrees'
  BY DEF H!MigrationAgrees
<1>5. H!HandlerAgrees'
  BY DEF H!HandlerAgrees, H!Known
<1> QED BY <1>1, <1>2, <1>3, <1>4, <1>5

LEMMA HistoryKillStep ==
  ASSUME H!HistoryAssumption, H!IInv, H!Kill
  PROVE  H!IInv'
<1> USE DEF H!HistoryAssumption, H!IInv, H!Kill, H!start, H!server
<1>1. H!TypeOK'
  BY DEF H!TypeOK
<1>2. H!RowsHaveFiles'
  BY DEF H!RowsHaveFiles, H!Recorded
<1>3. H!WriterAgrees'
  BY DEF H!WriterAgrees
<1>4. H!MigrationAgrees'
  BY DEF H!MigrationAgrees
<1>5. H!HandlerAgrees'
  BY DEF H!HandlerAgrees, H!Known
<1> QED BY <1>1, <1>2, <1>3, <1>4, <1>5

(* The writers.                                                            *)
LEMMA HistorySubmitStep ==
  ASSUME H!HistoryAssumption, H!IInv, NEW j \in Job, H!Submit(j)
  PROVE  H!IInv'
<1> USE DEF H!HistoryAssumption, H!IInv, H!Submit, H!Upsert, H!Row, H!start, H!server
<1>1. H!TypeOK'
  BY DEF H!TypeOK
<1>2. H!RowsHaveFiles'
  BY DEF H!RowsHaveFiles, H!Recorded, H!TypeOK, H!WriterAgrees
<1>3. H!WriterAgrees'
  BY DEF H!WriterAgrees, H!TypeOK
<1>4. H!MigrationAgrees'
  BY DEF H!MigrationAgrees
<1>5. H!HandlerAgrees'
  BY DEF H!HandlerAgrees, H!Known, H!Over
<1> QED BY <1>1, <1>2, <1>3, <1>4, <1>5

LEMMA HistoryBeginStep ==
  ASSUME H!HistoryAssumption, H!IInv, NEW j \in Job, H!Begin(j)
  PROVE  H!IInv'
<1> USE DEF H!HistoryAssumption, H!IInv, H!Begin, H!Upsert, H!Row, H!start, H!server
<1>1. H!TypeOK'
  BY DEF H!TypeOK
<1>2. H!RowsHaveFiles'
  BY DEF H!RowsHaveFiles, H!Recorded, H!TypeOK, H!WriterAgrees
<1>3. H!WriterAgrees'
  BY DEF H!WriterAgrees, H!TypeOK
<1>4. H!MigrationAgrees'
  BY DEF H!MigrationAgrees
<1>5. H!HandlerAgrees'
  BY DEF H!HandlerAgrees, H!Known, H!Over
<1> QED BY <1>1, <1>2, <1>3, <1>4, <1>5

LEMMA HistoryCommandStep ==
  ASSUME H!HistoryAssumption, H!IInv, NEW j \in Job, H!Command(j)
  PROVE  H!IInv'
<1> USE DEF H!HistoryAssumption, H!IInv, H!Command, H!start, H!server
<1>1. H!TypeOK'
  BY DEF H!TypeOK
<1>2. H!RowsHaveFiles'
  BY DEF H!RowsHaveFiles, H!Recorded
<1>3. H!WriterAgrees'
  BY DEF H!WriterAgrees
<1>4. H!MigrationAgrees'
  BY DEF H!MigrationAgrees
<1>5. H!HandlerAgrees'
  BY DEF H!HandlerAgrees, H!Known, H!Over
<1> QED BY <1>1, <1>2, <1>3, <1>4, <1>5

LEMMA HistoryWriteArtifactsStep ==
  ASSUME H!HistoryAssumption, H!IInv, NEW j \in Job, H!WriteArtifacts(j)
  PROVE  H!IInv'
<1> USE DEF H!HistoryAssumption, H!IInv, H!WriteArtifacts, H!Written, H!start, H!server
<1> DEFINE new == [res |-> FALSE, man |-> j, of |-> j]
<1>0. /\ dir' \in [H!Id -> H!Dirs] /\ work' \in [Job -> H!Works]
      /\ dir'[j] \in {new, dir[j]} /\ work'[j] = H!Written(work[j])
      /\ \A i \in H!Id \ {j} : dir'[i] = dir[i]
      /\ \A k \in Job \ {j} : work'[k] = work[k]
  <2>1. new \in H!Dirs
    OBVIOUS
  <2>2. PICK d \in {new, dir[j]} : dir' = [dir EXCEPT ![j] = d]
    BY DEF H!TypeOK
  <2> HIDE DEF new, H!Dirs
  <2>3. d \in H!Dirs
    BY <2>1, <2>2 DEF H!TypeOK
  <2> QED BY <2>2, <2>3 DEF H!TypeOK
<1>1. H!TypeOK'
  BY <1>0 DEF H!TypeOK
<1>2. H!RowsHaveFiles'
  BY DEF H!RowsHaveFiles, H!Recorded, H!TypeOK, H!WriterAgrees
<1>3. H!WriterAgrees'
  <2>1. ASSUME NEW k \in Job \ {j}
        PROVE  /\ rows'[k] = rows[k] /\ dir'[k] = dir[k] /\ work'[k] = work[k]
               /\ mode' = mode
    BY <1>0
  <2>2. dir[j] = H!NoDir /\ rows' = rows /\ mode' = mode
    BY DEF H!WriterAgrees
  <2>3. dir'[j].man \in {"none", j}
    BY <1>0, <2>2
  <2> QED BY <1>0, <2>1, <2>2, <2>3 DEF H!WriterAgrees
<1>4. H!MigrationAgrees'
  <2>1. \A i \in Legacy : dir'[i] = dir[i]
    BY <1>0
  <2> QED BY <2>1 DEF H!MigrationAgrees
<1>5. H!HandlerAgrees'
  BY DEF H!HandlerAgrees, H!Known, H!Over, H!TypeOK
<1> QED BY <1>1, <1>2, <1>3, <1>4, <1>5

LEMMA HistorySaveResultStep ==
  ASSUME H!HistoryAssumption, H!IInv, NEW j \in Job, H!SaveResult(j)
  PROVE  H!IInv'
<1> USE DEF H!HistoryAssumption, H!IInv, H!SaveResult, H!start, H!server
<1> DEFINE old == dir[j]
           new == [res |-> TRUE, man |-> old.man, of |-> j]
<1>0. /\ dir' = [dir EXCEPT ![j] = new] /\ new \in H!Dirs
      /\ dir' \in [H!Id -> H!Dirs] /\ dir'[j] = new
      /\ \A i \in H!Id \ {j} : dir'[i] = dir[i]
  <2>1. old \in H!Dirs
    BY DEF H!TypeOK
  <2>3. dir' = [dir EXCEPT ![j] = new] /\ new \in H!Dirs
    BY <2>1
  <2>4. dir \in [H!Id -> H!Dirs] /\ j \in H!Id
    BY DEF H!TypeOK
  <2> HIDE DEF new, H!Dirs, H!Id, H!SaveResult, H!IInv
  <2> QED BY <2>3, <2>4
<1>1. H!TypeOK'
  BY <1>0 DEF H!TypeOK
<1>2. H!RowsHaveFiles'
  BY DEF H!RowsHaveFiles, H!Recorded, H!TypeOK, H!WriterAgrees
<1>3. H!WriterAgrees'
  <2>1. ASSUME NEW k \in Job \ {j}
        PROVE  /\ rows'[k] = rows[k] /\ dir'[k] = dir[k] /\ work'[k] = work[k]
               /\ mode' = mode
    BY <1>0 DEF H!TypeOK
  <2>2. work'[j] = "saved" /\ rows'[j] = rows[j] /\ mode' = mode
    BY DEF H!TypeOK
  <2>3. dir'[j].res /\ dir'[j].of = j /\ dir'[j].man = dir[j].man
    BY <1>0
  <2>4. work[j] \in {"exported", "named"}
    OBVIOUS
  <2> HIDE DEF H!SaveResult
  <2> QED BY <2>1, <2>2, <2>3, <2>4 DEF H!WriterAgrees
<1>4. H!MigrationAgrees'
  BY DEF H!MigrationAgrees
<1>5. H!HandlerAgrees'
  BY DEF H!HandlerAgrees, H!Known, H!Over
<1> QED BY <1>1, <1>2, <1>3, <1>4, <1>5

LEMMA HistoryCompleteStep ==
  ASSUME H!HistoryAssumption, H!IInv, NEW j \in Job, H!Complete(j)
  PROVE  H!IInv'
<1> USE DEF H!HistoryAssumption, H!IInv, H!Complete, H!Upsert, H!Row, H!start, H!server
<1>1. H!TypeOK'
  BY DEF H!TypeOK
<1>2. H!RowsHaveFiles'
  BY DEF H!RowsHaveFiles, H!Recorded, H!TypeOK, H!WriterAgrees
<1>3. H!WriterAgrees'
  BY DEF H!WriterAgrees, H!TypeOK
<1>4. H!MigrationAgrees'
  BY DEF H!MigrationAgrees
<1>5. H!HandlerAgrees'
  BY DEF H!HandlerAgrees, H!Known, H!Over
<1> QED BY <1>1, <1>2, <1>3, <1>4, <1>5

LEMMA HistoryFailStep ==
  ASSUME H!HistoryAssumption, H!IInv, NEW j \in Job, H!Fail(j)
  PROVE  H!IInv'
<1> USE DEF H!HistoryAssumption, H!IInv, H!Fail, H!start, H!server
<1>1. H!TypeOK'
  BY DEF H!TypeOK
<1>2. H!RowsHaveFiles'
  BY DEF H!RowsHaveFiles, H!Recorded
<1>3. H!WriterAgrees'
  BY DEF H!WriterAgrees, H!TypeOK
<1>4. H!MigrationAgrees'
  BY DEF H!MigrationAgrees
<1>5. H!HandlerAgrees'
  BY DEF H!HandlerAgrees, H!Known, H!Over
<1> QED BY <1>1, <1>2, <1>3, <1>4, <1>5

(* The handlers.                                                           *)
LEMMA HistoryDeleteStep ==
  ASSUME H!HistoryAssumption, H!IInv, NEW gone \in SUBSET H!Recorded, H!Delete(gone)
  PROVE  H!IInv'
<1> USE DEF H!HistoryAssumption, H!IInv, H!Delete, H!Handler, H!Ask, H!Ended, H!Recorded, H!start, H!server
<1>1. H!TypeOK'
  BY DEF H!TypeOK
<1>2. H!RowsHaveFiles'
  BY DEF H!RowsHaveFiles
<1>3. H!WriterAgrees'
  BY DEF H!WriterAgrees
<1>4. H!MigrationAgrees'
  BY DEF H!MigrationAgrees
<1>5. H!HandlerAgrees'
  BY DEF H!HandlerAgrees, H!Known, H!Over, H!TypeOK, H!WriterAgrees
<1> QED BY <1>1, <1>2, <1>3, <1>4, <1>5

LEMMA HistoryClearStep ==
  ASSUME H!HistoryAssumption, H!IInv, H!Clear
  PROVE  H!IInv'
<1> USE DEF H!HistoryAssumption, H!IInv, H!Clear, H!Handler, H!Ask, H!Ended, H!Recorded, H!start, H!server
<1>1. H!TypeOK'
  BY DEF H!TypeOK
<1>2. H!RowsHaveFiles'
  BY DEF H!RowsHaveFiles
<1>3. H!WriterAgrees'
  BY DEF H!WriterAgrees
<1>4. H!MigrationAgrees'
  BY DEF H!MigrationAgrees
<1>5. H!HandlerAgrees'
  BY DEF H!HandlerAgrees, H!Known, H!Over, H!TypeOK, H!WriterAgrees
<1> QED BY <1>1, <1>2, <1>3, <1>4, <1>5

LEMMA HistoryDropRowsStep ==
  ASSUME H!HistoryAssumption, H!IInv, H!DropRows
  PROVE  H!IInv'
<1> USE DEF H!HistoryAssumption, H!IInv, H!DropRows, H!Named, H!Ended, H!Recorded, H!start, H!server
<1>1. H!TypeOK'
  BY DEF H!TypeOK
<1>2. H!RowsHaveFiles'
  BY DEF H!RowsHaveFiles
<1>3. H!WriterAgrees'
  BY DEF H!WriterAgrees, H!TypeOK, H!HandlerAgrees, H!Over
<1>4. H!MigrationAgrees'
  BY DEF H!MigrationAgrees
<1>5. H!HandlerAgrees'
  BY DEF H!HandlerAgrees, H!Known, H!Over, H!TypeOK, H!WriterAgrees
<1> QED BY <1>1, <1>2, <1>3, <1>4, <1>5

LEMMA HistoryRemoveStep ==
  ASSUME H!HistoryAssumption, H!IInv, NEW i \in H!Id, H!Remove(i)
  PROVE  H!IInv'
<1> USE DEF H!HistoryAssumption, H!IInv, H!Remove, H!Done, H!Fault, H!start, H!server
<1>0. /\ dir' \in [H!Id -> H!Dirs] /\ dir'[i] \in {H!NoDir, dir[i]}
      /\ \A k \in H!Id \ {i} : dir'[k] = dir[k]
      /\ req' = H!NoReq \/ req' = [req EXCEPT !.todo = req.todo \ {i}]
      /\ i \in req.todo /\ req.op = "remove" /\ UNCHANGED <<H!server, rows, work, exported>>
  <2>1. H!NoDir \in H!Dirs
    OBVIOUS
  <2> HIDE DEF H!NoDir, H!Dirs
  <2> QED BY <2>1 DEF H!TypeOK
<1>1. H!TypeOK'
  BY <1>0 DEF H!TypeOK
<1>2. H!RowsHaveFiles'
  BY DEF H!RowsHaveFiles, H!Recorded, H!TypeOK, H!HandlerAgrees, H!Over
<1>3. H!WriterAgrees'
  <2>1. i \notin Job \/ work[i] = "over"
    BY <1>0 DEF H!HandlerAgrees, H!Over
  <2> QED BY <1>0, <2>1 DEF H!WriterAgrees
<1>4. H!MigrationAgrees'
  BY DEF H!MigrationAgrees, H!HandlerAgrees
<1>5. H!HandlerAgrees'
  <2>1. CASE req' = H!NoReq
    BY <1>0, <2>1 DEF H!HandlerAgrees, H!Known
  <2>2. CASE req' = [req EXCEPT !.todo = req.todo \ {i}]
    <3>1. req'.op = req.op /\ req'.todo \subseteq req.todo
      BY <2>2
    <3> QED BY <1>0, <3>1 DEF H!HandlerAgrees, H!Known, H!Over
  <2> QED BY <1>0, <2>1, <2>2
<1> QED BY <1>1, <1>2, <1>3, <1>4, <1>5

LEMMA HistoryExportStep ==
  ASSUME H!HistoryAssumption, H!IInv, NEW gone \in SUBSET H!Recorded, H!Export(gone)
  PROVE  H!IInv'
<1> USE DEF H!HistoryAssumption, H!IInv, H!Export, H!Handler, H!Recorded, H!start, H!server
<1>1. H!TypeOK'
  BY DEF H!TypeOK
<1>2. H!RowsHaveFiles'
  BY DEF H!RowsHaveFiles
<1>3. H!WriterAgrees'
  BY DEF H!WriterAgrees
<1>4. H!MigrationAgrees'
  BY DEF H!MigrationAgrees
<1>5. H!HandlerAgrees'
  BY DEF H!HandlerAgrees, H!Known, H!Over, H!TypeOK
<1> QED BY <1>1, <1>2, <1>3, <1>4, <1>5

LEMMA HistoryPackStep ==
  ASSUME H!HistoryAssumption, H!IInv, NEW i \in H!Id, H!Pack(i)
  PROVE  H!IInv'
<1> USE DEF H!HistoryAssumption, H!IInv, H!Pack, H!start, H!server
<1>1. H!TypeOK'
  BY DEF H!TypeOK
<1>2. H!RowsHaveFiles'
  BY DEF H!RowsHaveFiles, H!Recorded
<1>3. H!WriterAgrees'
  BY DEF H!WriterAgrees
<1>4. H!MigrationAgrees'
  BY DEF H!MigrationAgrees
<1>5. H!HandlerAgrees'
  BY DEF H!HandlerAgrees, H!Known, H!Over, H!TypeOK
<1> QED BY <1>1, <1>2, <1>3, <1>4, <1>5

LEMMA HistoryHashStep ==
  ASSUME H!HistoryAssumption, H!IInv, NEW a \in exported, H!Hash(a)
  PROVE  H!IInv'
<1> USE DEF H!HistoryAssumption, H!IInv, H!Hash, H!Done, H!start, H!server
<1>1. H!TypeOK'
  BY DEF H!TypeOK
<1>2. H!RowsHaveFiles'
  BY DEF H!RowsHaveFiles, H!Recorded
<1>3. H!WriterAgrees'
  BY DEF H!WriterAgrees
<1>4. H!MigrationAgrees'
  BY DEF H!MigrationAgrees
<1>5. H!HandlerAgrees'
  <2>1. req' \in {H!NoReq, req} \/ (req'.op = req.op /\ req'.todo = req.todo /\ req'.seen = req.seen)
    OBVIOUS
  <2>2. \A b \in exported' : \E c \in exported : b.id = c.id /\ b.st = c.st /\ b.files = c.files
    <3> DEFINE new == [a EXCEPT !.hashed = TRUE, !.good = dir[a.id] = a.files]
    <3>1. new.id = a.id /\ new.st = a.st /\ new.files = a.files
      OBVIOUS
    <3>2. exported' = (exported \ {a}) \cup {new}
      OBVIOUS
    <3> HIDE DEF new
    <3> QED BY <3>1, <3>2
  <2>3. UNCHANGED <<mode, rows, dir, work>>
    OBVIOUS
  <2> HIDE DEF H!Hash, H!Dirs, H!Status, H!Id
  <2>4. \A b \in exported' : H!Known(b.id)' /\ b.st \in H!Status /\ b.files \in H!Dirs
    BY <2>2, <2>3 DEF H!HandlerAgrees, H!Known
  <2>5. req.op = "export" /\ mode = "up"
    BY DEF H!Hash, H!HandlerAgrees
  <2> QED BY <2>1, <2>3, <2>4, <2>5 DEF H!HandlerAgrees, H!Known
<1> QED BY <1>1, <1>2, <1>3, <1>4, <1>5

LEMMA HistoryImportStep ==
  ASSUME H!HistoryAssumption, H!IInv, H!Import
  PROVE  H!IInv'
<1> USE DEF H!HistoryAssumption, H!IInv, H!Import, H!Handler, H!start, H!server
<1>1. H!TypeOK'
  BY DEF H!TypeOK
<1>2. H!RowsHaveFiles'
  BY DEF H!RowsHaveFiles, H!Recorded
<1>3. H!WriterAgrees'
  BY DEF H!WriterAgrees
<1>4. H!MigrationAgrees'
  BY DEF H!MigrationAgrees
<1>5. H!HandlerAgrees'
  BY DEF H!HandlerAgrees, H!Known
<1> QED BY <1>1, <1>2, <1>3, <1>4, <1>5

LEMMA HistoryMoveInStep ==
  ASSUME H!HistoryAssumption, H!IInv, NEW a \in exported, H!MoveIn(a)
  PROVE  H!IInv'
<1> USE DEF H!HistoryAssumption, H!IInv, H!MoveIn, H!Assigned, H!Rewritten, H!Recorded, H!start, H!server
<1>0. PICK i \in H!Assigned(a) :
        IF dir[i] # H!NoDir \/ a.files = H!NoDir
        THEN req' = H!NoReq /\ UNCHANGED dir
        ELSE /\ dir' = [dir EXCEPT ![i] = H!Rewritten(a.files, i)]
             /\ req' = [op |-> "row", todo |-> req.todo \ {a}, seen |-> {[id |-> i, st |-> a.st]}]
  OBVIOUS
<1>6. /\ i \in H!Id /\ rows[i] = H!NoRow /\ (i \in Job => work[i] = "over")
      /\ a.files \in H!Dirs /\ a.st \in H!Status
      /\ req.op = "import" /\ a \in req.todo /\ UNCHANGED <<H!server, rows, work, exported, faults>>
  BY DEF H!HandlerAgrees, H!Known
<1>7. /\ dir' \in [H!Id -> H!Dirs] /\ \A k \in H!Id \ {i} : dir'[k] = dir[k]
      /\ \/ req' = H!NoReq /\ dir' = dir
         \/ /\ dir'[i].man \in {H!None, i}
            /\ req' = [op |-> "row", todo |-> req.todo \ {a}, seen |-> {[id |-> i, st |-> a.st]}]
  <2> DEFINE new == [res |-> a.files.res, man |-> IF a.files.man = H!None THEN H!None ELSE i,
                     of |-> a.files.of]
  <2>1. H!Rewritten(a.files, i) = new /\ new \in H!Dirs /\ new.man \in {H!None, i}
    BY <1>6
  <2> HIDE DEF new, H!Dirs, H!Rewritten
  <2> QED BY <1>0, <1>6, <2>1 DEF H!TypeOK
<1> HIDE DEF H!MoveIn
<1>1. H!TypeOK'
  BY <1>6, <1>7 DEF H!TypeOK
<1>2. H!RowsHaveFiles'
  BY <1>6, <1>7 DEF H!RowsHaveFiles, H!Recorded
<1>3. H!WriterAgrees'
  BY <1>6, <1>7 DEF H!WriterAgrees
<1>4. H!MigrationAgrees'
  BY <1>6, <1>7 DEF H!MigrationAgrees, H!HandlerAgrees
<1>5. H!HandlerAgrees'
  BY <1>6, <1>7 DEF H!HandlerAgrees, H!Known, H!Over
<1> QED BY <1>1, <1>2, <1>3, <1>4, <1>5

LEMMA HistoryAddRowStep ==
  ASSUME H!HistoryAssumption, H!IInv, H!AddRow
  PROVE  H!IInv'
<1> USE DEF H!HistoryAssumption, H!IInv, H!AddRow, H!Row, H!Fault, H!start, H!server
<1>0. PICK s \in req.seen :
        \/ /\ rows' = [rows EXCEPT ![s.id] = H!Row(s.st, s.id, dir[s.id])]
           /\ req' = IF req.todo = {} THEN H!NoReq ELSE [op |-> "import", todo |-> req.todo, seen |-> {}]
        \/ req' = H!NoReq /\ UNCHANGED rows
  OBVIOUS
<1>6. /\ s.id \in H!Id /\ s.st \in H!Status /\ dir[s.id].man \in {H!None, s.id}
      /\ s.id \in Job => work[s.id] = "over"
      /\ req.op = "row" /\ mode = "up" /\ UNCHANGED <<H!server, dir, work, exported>>
  BY DEF H!HandlerAgrees, H!Over
<1>7. /\ rows' \in [H!Id -> H!Rows] /\ \A k \in H!Id \ {s.id} : rows'[k] = rows[k]
      /\ rows'[s.id] = rows[s.id] \/ rows'[s.id] = H!Row(s.st, s.id, dir[s.id])
      /\ req' = H!NoReq \/ (req'.op = "import" /\ req'.todo = req.todo)
  <2>1. H!Row(s.st, s.id, dir[s.id]) \in H!Rows
    BY <1>6 DEF H!TypeOK
  <2>2. rows \in [H!Id -> H!Rows]
    BY DEF H!TypeOK
  <2>3. req' = H!NoReq \/ (req'.op = "import" /\ req'.todo = req.todo)
    BY <1>0
  <2> HIDE DEF H!Rows, H!Row, H!Id, H!IInv, H!AddRow
  <2> QED BY <1>0, <1>6, <2>1, <2>2, <2>3
<1> HIDE DEF H!AddRow
<1>1. H!TypeOK'
  BY <1>6, <1>7 DEF H!TypeOK
<1>2. H!RowsHaveFiles'
  BY <1>6, <1>7 DEF H!RowsHaveFiles, H!Recorded, H!TypeOK
<1>3. H!WriterAgrees'
  BY <1>6, <1>7 DEF H!WriterAgrees
<1>4. H!MigrationAgrees'
  BY <1>6, <1>7 DEF H!MigrationAgrees
<1>5. H!HandlerAgrees'
  <2>1. \A i : H!Known(i) => H!Known(i)'
    BY <1>6, <1>7 DEF H!Known
  <2> QED BY <1>6, <1>7, <2>1 DEF H!HandlerAgrees
<1> QED BY <1>1, <1>2, <1>3, <1>4, <1>5

LEMMA HistoryInitInv ==
  ASSUME H!Init
  PROVE  H!IInv
BY DEF H!Init, H!IInv, H!TypeOK, H!RowsHaveFiles, H!Recorded, H!WriterAgrees, H!MigrationAgrees,
   H!HandlerAgrees

LEMMA HistoryStepInv ==
  ASSUME H!HistoryAssumption, H!IInv, H!Next
  PROVE  H!IInv'
BY HistoryOpenStep, HistoryCreateStep, HistoryCopyDatabaseStep, HistoryCopyOutputStep,
   HistoryCommitMigrationStep, HistoryRecoverStep,
   HistoryKillStep, HistorySubmitStep, HistoryBeginStep, HistoryCommandStep,
   HistoryWriteArtifactsStep, HistorySaveResultStep,
   HistoryCompleteStep, HistoryFailStep, HistoryDeleteStep, HistoryClearStep,
   HistoryDropRowsStep, HistoryRemoveStep, HistoryExportStep,
   HistoryPackStep, HistoryHashStep, HistoryImportStep, HistoryMoveInStep, HistoryAddRowStep
   DEF H!Next

LEMMA HistoryStutterInv ==
  ASSUME H!IInv, UNCHANGED H!vars
  PROVE  H!IInv'
BY DEF H!vars, H!IInv, H!TypeOK, H!RowsHaveFiles, H!Recorded, H!WriterAgrees, H!MigrationAgrees,
   H!HandlerAgrees, H!Known, H!Over

(* The steps that touch neither a row nor a directory.                     *)
LEMMA HistoryQuietExplained ==
  ASSUME H!HistoryAssumption, H!IInv, H!Explained,
         \/ H!Open \/ H!Create \/ \E j \in Job : H!Command(j)
         \/ \E gone \in SUBSET H!Recorded : H!Delete(gone) \/ H!Export(gone)
         \/ \E i \in H!Id : H!Pack(i)
         \/ \E a \in exported : H!Hash(a)
         \/ H!Clear \/ H!Import
  PROVE  H!Explained'
<1>0. /\ rows' = rows /\ dir' = dir /\ faults' = faults /\ kills' = kills /\ swept' = swept
      /\ outputs' = outputs /\ interrupted' = interrupted
      /\ mode' = "files" => mode = "files"
      /\ mode = "files" => mode' = "files"
  BY DEF H!Open, H!Create, H!Command, H!Delete, H!Export, H!Pack, H!Hash, H!Clear, H!Import,
     H!Handler, H!Ask, H!server, H!start
<1>a. \A j \in Job : work[j] \in {"named", "saved"} => work'[j] = work[j]
  BY DEF H!Open, H!Create, H!Command, H!Delete, H!Export, H!Pack, H!Hash, H!Clear, H!Import,
     H!server, H!start, H!IInv, H!TypeOK
<1>b. req' # req => req.op \notin {"remove", "row"} /\ req'.op # "row"
  <2>1. CASE H!Open \/ H!Create \/ \E j \in Job : H!Command(j)
    BY <2>1 DEF H!Open, H!Create, H!Command
  <2>2. CASE \E gone \in SUBSET H!Recorded : H!Delete(gone)
    <3>1. req = H!NoReq /\ req'.op = "delete"
      BY <2>2 DEF H!Delete, H!Ask, H!Handler
    <3> QED BY <3>1
  <2>3. CASE H!Clear \/ H!Import \/ \E gone \in SUBSET H!Recorded : H!Export(gone)
    <3>1. CASE H!Clear
      BY <3>1 DEF H!Clear, H!Ask, H!Handler
    <3>2. CASE H!Import
      BY <3>2 DEF H!Import, H!Handler
    <3>3. CASE \E gone \in SUBSET H!Recorded : H!Export(gone)
      BY <3>3 DEF H!Export, H!Handler
    <3> QED BY <2>3, <3>1, <3>2, <3>3
  <2>4. CASE \E i \in H!Id : H!Pack(i)
    BY <2>4 DEF H!Pack
  <2>5. CASE \E a \in exported : H!Hash(a)
    <3>1. req.op = "export" /\ (req' = H!NoReq \/ req' = [req EXCEPT !.todo = req.todo])
      BY <2>5 DEF H!Hash, H!Done
    <3>2. CASE req' = [req EXCEPT !.todo = req.todo]
      BY <3>1, <3>2
    <3> QED BY <3>1, <3>2
  <2> QED BY <2>1, <2>2, <2>3, <2>4, <2>5
<1>1. H!Recorded' = H!Recorded
  BY <1>0 DEF H!Recorded
<1>2. H!OldOnlyInterrupted' /\ (mode' = "files" => ~(mode # "files"))
  BY <1>0, <1>1 DEF H!Explained, H!OldOnlyInterrupted
<1>3. H!OrphansExplained'
  BY <1>0, <1>a, <1>b, <1>1 DEF H!Explained, H!OrphansExplained
<1> QED BY <1>0, <1>b, <1>1, <1>2, <1>3 DEF H!Explained

(* The migration makes rows of the old database, and records whether it was*)
(* interrupted.                                                            *)
LEMMA HistoryMigrationExplained ==
  ASSUME H!HistoryAssumption, H!IInv, H!Explained,
         H!CopyDatabase \/ H!CommitMigration \/ H!Recover \/ H!Kill \/ \E i \in Legacy : H!CopyOutput(i)
  PROVE  H!Explained'
<1>1. CASE H!CopyDatabase
  <2>0. \A i \in H!Id : rows'[i] = IF i \notin Legacy THEN rows[i] ELSE
                [st |-> "completed", res |-> IF i \in outputs THEN "old" ELSE H!None,
                 man |-> FALSE, of |-> i]
    BY <1>1 DEF H!CopyDatabase
  <2>1. /\ \A i \in Legacy : rows'[i] # H!NoRow /\ (rows'[i].res = "old" => i \in outputs)
        /\ \A i \in H!Id \ Legacy : rows'[i] = rows[i]
    <3>1. ASSUME NEW i \in Legacy
          PROVE  rows'[i].st = "completed" /\ (rows'[i].res = "old" => i \in outputs)
      <4>1. rows'[i] = [st |-> "completed", res |-> IF i \in outputs THEN "old" ELSE H!None,
                        man |-> FALSE, of |-> i]
        BY <2>0
      <4> QED BY <4>1
    <3>2. H!NoRow.st = "none"
      OBVIOUS
    <3> HIDE DEF H!NoRow
    <3>3. \A i \in Legacy : rows'[i] # H!NoRow
      BY <3>1, <3>2
    <3> QED BY <2>0, <3>1, <3>3
  <2>2. /\ dir' = dir /\ work' = work /\ req' = req /\ UNCHANGED <<faults, kills, outputs, interrupted, swept>>
        /\ mode = "copy" /\ mode' = "files"
    BY <1>1 DEF H!CopyDatabase
  <2> HIDE DEF H!Id, H!NoRow
  <2>3. Legacy \subseteq H!Id
    BY DEF H!Id
  <2> QED BY <2>1, <2>2, <2>3 DEF H!Explained, H!OldOnlyInterrupted, H!OrphansExplained, H!Recorded
<1>2. CASE H!CommitMigration
  <2>0. \A i \in H!Id : rows'[i] = IF i \in outputs THEN H!Row("completed", i, dir[i]) ELSE rows[i]
    BY <1>2 DEF H!CommitMigration
  <2>1. /\ \A i \in outputs : rows'[i] # H!NoRow /\ rows'[i].res # "old"
        /\ \A i \in H!Id \ outputs : rows'[i] = rows[i]
    <3>1. ASSUME NEW i \in outputs PROVE rows'[i].st = "completed" /\ rows'[i].res # "old"
      <4>1. i \in H!Id /\ rows'[i] = H!Row("completed", i, dir[i])
        BY <2>0 DEF H!IInv, H!TypeOK
      <4> QED BY <4>1 DEF H!Row
    <3> QED BY <2>0, <3>1
  <2>2. /\ dir' = dir /\ work' = work /\ req' = req /\ UNCHANGED <<faults, kills, outputs, interrupted, swept>>
        /\ mode = "files" /\ mode' = "recover"
    BY <1>2 DEF H!CommitMigration
  <2> HIDE DEF H!Id, H!NoRow
  <2> QED BY <2>1, <2>2 DEF H!Explained, H!OldOnlyInterrupted, H!OrphansExplained, H!Recorded
<1>3. CASE H!Recover
  <2>1. \A i \in H!Id : (rows'[i] = H!NoRow <=> rows[i] = H!NoRow) /\ rows'[i].res = rows[i].res
    BY <1>3 DEF H!Recover, H!IInv, H!TypeOK
  <2>2. /\ dir' = dir /\ work' = work /\ req' = req /\ UNCHANGED <<faults, kills, outputs, interrupted, swept>>
        /\ mode = "recover" /\ mode' = "up"
    BY <1>3 DEF H!Recover
  <2> HIDE DEF H!Id, H!NoRow
  <2> QED BY <2>1, <2>2 DEF H!Explained, H!OldOnlyInterrupted, H!OrphansExplained, H!Recorded
<1>4. CASE H!Kill
  <2>1. /\ kills' = kills + 1 /\ mode' = "down" /\ req' = H!NoReq /\ rows' = rows /\ faults' = faults
        /\ interrupted' = (interrupted \/ mode \in {"copy", "files"})
    BY <1>4 DEF H!Kill
  <2>2. H!OldOnlyInterrupted'
    <3>1. H!Recorded' = H!Recorded
      BY <2>1 DEF H!Recorded
    <3>2. \A i \in H!Recorded : rows[i].res = "old" => interrupted \/ mode = "files"
      BY DEF H!Explained, H!OldOnlyInterrupted
    <3> QED BY <2>1, <3>1, <3>2 DEF H!OldOnlyInterrupted
  <2>3. /\ faults \in Nat /\ kills \in Nat
    BY DEF H!Explained
  <2>4. faults' + kills' > 0 /\ faults' \in Nat /\ kills' \in Nat
    BY <2>1, <2>3
  <2>5. H!OrphansExplained'
    BY <2>4 DEF H!OrphansExplained
  <2>6. mode' # "files" /\ req'.op # "row"
    BY <2>1
  <2> QED BY <2>2, <2>4, <2>5, <2>6 DEF H!Explained
<1>5. ASSUME NEW i \in Legacy, H!CopyOutput(i) PROVE H!Explained'
  <2>1. /\ \A k \in H!Id : k # i => dir'[k] = dir[k]
        /\ rows' = rows /\ work' = work /\ req' = req
        /\ UNCHANGED <<faults, kills, outputs, interrupted, swept, mode>> /\ mode = "files"
    BY <1>5 DEF H!CopyOutput, H!IInv, H!TypeOK
  <2>2. rows[i] # H!NoRow
    BY <2>1 DEF H!Explained
  <2> HIDE DEF H!Id, H!NoRow, H!NoDir
  <2> QED BY <2>1, <2>2 DEF H!Explained, H!OldOnlyInterrupted, H!OrphansExplained, H!Recorded
<1> QED BY <1>1, <1>2, <1>3, <1>4, <1>5

(* A writer has a row, or is a command line that has not yet written it.   *)
LEMMA HistoryWriterExplained ==
  ASSUME H!HistoryAssumption, H!IInv, H!Explained, NEW j \in Job,
         H!Submit(j) \/ H!Begin(j) \/ H!WriteArtifacts(j) \/ H!SaveResult(j) \/ H!Complete(j) \/ H!Fail(j)
  PROVE  H!Explained'
<1>1. /\ \A i \in H!Id : i # j => rows'[i] = rows[i] /\ dir'[i] = dir[i]
      /\ \A k \in Job : k # j => work'[k] = work[k]
      /\ req' = req /\ UNCHANGED <<faults, kills, outputs, interrupted, swept, mode>>
  BY DEF H!Submit, H!Begin, H!WriteArtifacts, H!SaveResult, H!Complete, H!Fail, H!Upsert,
     H!server, H!start, H!IInv, H!TypeOK
<1>2. rows'[j] # H!NoRow => rows'[j].res # "old"
  <2>1. CASE H!Submit(j) \/ H!Begin(j) \/ H!Complete(j)
    BY <2>1 DEF H!Submit, H!Begin, H!Complete, H!Upsert, H!Row, H!IInv, H!TypeOK
  <2>2. CASE H!Fail(j)
    BY <2>2 DEF H!Fail, H!IInv, H!TypeOK
  <2>3. CASE H!WriteArtifacts(j) \/ H!SaveResult(j)
    BY <2>3 DEF H!WriteArtifacts, H!SaveResult, H!IInv, H!WriterAgrees
  <2> QED BY <2>1, <2>2, <2>3
<1>3. rows'[j] # H!NoRow \/ work'[j] \in {"named", "saved"}
  <2>1. CASE H!Submit(j) \/ H!Begin(j) \/ H!Complete(j)
    BY <2>1 DEF H!Submit, H!Begin, H!Complete, H!Upsert, H!Row, H!IInv, H!TypeOK
  <2>2. CASE H!Fail(j)
    BY <2>2 DEF H!Fail, H!IInv, H!TypeOK
  <2>3. CASE H!WriteArtifacts(j)
    BY <2>3 DEF H!WriteArtifacts, H!Written, H!IInv, H!TypeOK, H!WriterAgrees
  <2>4. CASE H!SaveResult(j)
    BY <2>4 DEF H!SaveResult, H!IInv, H!TypeOK
  <2> QED BY <2>1, <2>2, <2>3, <2>4
<1>4. j \in H!Id /\ j \notin Legacy
  BY DEF H!HistoryAssumption
<1> HIDE DEF H!Id, H!NoRow, H!NoDir
<1>5. H!OldOnlyInterrupted'
  BY <1>1, <1>2 DEF H!Explained, H!OldOnlyInterrupted, H!Recorded
<1>6. H!OrphansExplained'
  <2>1. ASSUME NEW i \in H!Id, i # j, rows'[i] = H!NoRow, dir'[i] # H!NoDir
        PROVE  \/ faults + kills > 0 \/ i \in swept
               \/ req.op = "remove" /\ i \in req.todo
               \/ req.op = "row" /\ \E s \in req.seen : s.id = i
               \/ i \in Job /\ work'[i] \in {"named", "saved"}
    BY <1>1, <2>1 DEF H!Explained, H!OrphansExplained, H!Recorded
  <2> QED BY <1>1, <1>3, <2>1 DEF H!OrphansExplained, H!Recorded
<1>7. mode' = "files" =>
       /\ \A i \in Legacy : rows'[i] # H!NoRow
       /\ interrupted' \/ \A i \in H!Recorded' : rows'[i].res = "old" => i \in outputs'
  <2>1. \A i \in Legacy : i \in H!Id /\ i # j
    BY <1>4 DEF H!Id
  <2> QED BY <1>1, <1>2, <2>1 DEF H!Explained, H!Recorded
<1> QED BY <1>1, <1>5, <1>6, <1>7 DEF H!Explained

(* A handler deletes, clears or imports one record at a time.              *)
LEMMA HistoryHandlerExplained ==
  ASSUME H!HistoryAssumption, H!IInv, H!Explained,
         \/ H!DropRows \/ H!AddRow
         \/ \E i \in H!Id : H!Remove(i)
         \/ \E a \in exported : H!MoveIn(a)
  PROVE  H!Explained'
<1>0. UNCHANGED H!start /\ mode' # "files"
  <2>1. UNCHANGED H!start
    BY DEF H!DropRows, H!Remove, H!MoveIn, H!AddRow, H!server
  <2>2. req.op # "none"
    BY DEF H!DropRows, H!Remove, H!MoveIn, H!AddRow
  <2>3. mode = "up"
    BY <2>2 DEF H!IInv, H!HandlerAgrees
  <2> QED BY <2>1, <2>3 DEF H!start
<1>1. CASE H!DropRows
  <2>1. /\ \A i \in H!Id : rows'[i] = IF i \in H!Named THEN H!NoRow ELSE rows[i]
        /\ swept' = swept \cup (H!Named \ req.todo)
        /\ req' = IF req.todo = {} THEN H!NoReq ELSE [req EXCEPT !.op = "remove"]
        /\ dir' = dir /\ work' = work /\ faults' = faults /\ req.op \in {"delete", "clear"}
    BY <1>1 DEF H!DropRows
  <2>2. /\ req'.op # "row"
        /\ \A i \in req.todo : req'.op = "remove" /\ i \in req'.todo
    <3>1. CASE req.todo = {}
      BY <2>1, <3>1
    <3>2. CASE req.todo # {} /\ req' = [req EXCEPT !.op = "remove"]
      BY <3>2
    <3> QED BY <2>1, <3>1, <3>2
  <2>3. \A i \in H!Id : rows'[i] # H!NoRow => rows'[i] = rows[i]
    BY <2>1
  <2>4. H!OldOnlyInterrupted'
    BY <1>0, <2>3 DEF H!Explained, H!OldOnlyInterrupted, H!Recorded, H!start
  <2>5. H!OrphansExplained'
    BY <1>0, <2>1, <2>2 DEF H!Explained, H!OrphansExplained, H!Recorded, H!start
  <2> QED BY <1>0, <2>1, <2>2, <2>4, <2>5 DEF H!Explained, H!start
<1>2. CASE H!AddRow
  <2>1. PICK s \in req.seen :
        \/ /\ rows' = [rows EXCEPT ![s.id] = H!Row(s.st, s.id, dir[s.id])]
           /\ faults' = faults
           /\ req' = IF req.todo = {} THEN H!NoReq ELSE [op |-> "import", todo |-> req.todo, seen |-> {}]
        \/ faults' = faults + 1 /\ req' = H!NoReq /\ UNCHANGED rows
    BY <1>2 DEF H!AddRow, H!Fault
  <2>2. dir' = dir /\ work' = work /\ swept' = swept /\ req.op = "row" /\ kills' = kills
    BY <1>2 DEF H!AddRow, H!server, H!start
  <2>3. /\ s.id \in H!Id /\ s.st \in H!Status
        /\ \A t \in req.seen : t.id = s.id
    BY <2>1, <2>2 DEF H!IInv, H!HandlerAgrees, H!Over, H!Explained
  <2>4. CASE faults' = faults + 1 /\ req' = H!NoReq /\ UNCHANGED rows
    BY <1>0, <2>2, <2>4 DEF H!Explained, H!OldOnlyInterrupted, H!OrphansExplained, H!Recorded,
       H!start
  <2>5. CASE /\ rows' = [rows EXCEPT ![s.id] = H!Row(s.st, s.id, dir[s.id])]
             /\ faults' = faults
             /\ req' = IF req.todo = {} THEN H!NoReq ELSE [op |-> "import", todo |-> req.todo, seen |-> {}]
    <3>1. /\ \A i \in H!Id : i # s.id => rows'[i] = rows[i]
          /\ rows'[s.id] # H!NoRow /\ rows'[s.id].res # "old"
      BY <2>3, <2>5 DEF H!Row, H!IInv, H!TypeOK
    <3>2. req'.op \notin {"row", "remove"}
      BY <2>5
    <3> HIDE DEF H!NoRow, H!NoDir, H!Id
    <3> QED BY <1>0, <2>2, <2>3, <2>5, <3>1, <3>2 DEF H!Explained, H!OldOnlyInterrupted,
       H!OrphansExplained, H!Recorded, H!start
  <2> QED BY <2>1, <2>4, <2>5
<1>3. ASSUME NEW i \in H!Id, H!Remove(i) PROVE H!Explained'
  <2>1. /\ rows' = rows /\ work' = work /\ swept' = swept /\ kills' = kills
        /\ req.op = "remove" /\ i \in req.todo
    BY <1>3 DEF H!Remove, H!server, H!start
  <2>2. CASE dir' = [dir EXCEPT ![i] = H!NoDir] /\ H!Done(req.todo \ {i}) /\ UNCHANGED faults
    <3>1. /\ dir'[i] = H!NoDir /\ \A k \in H!Id : k # i => dir'[k] = dir[k]
      BY <2>2 DEF H!IInv, H!TypeOK
    <3>2. req'.op # "row" /\ \A k \in req.todo : k # i => req'.op = "remove" /\ k \in req'.todo
      <4>1. CASE req.todo \ {i} = {}
        BY <2>1, <2>2, <4>1 DEF H!Done
      <4>2. CASE req' = [req EXCEPT !.todo = req.todo \ {i}]
        BY <2>1, <4>2
      <4> QED BY <2>2, <4>1, <4>2 DEF H!Done
    <3> HIDE DEF H!NoRow, H!NoDir, H!Id
    <3> QED BY <1>0, <2>1, <2>2, <3>1, <3>2 DEF H!Explained, H!OldOnlyInterrupted,
       H!OrphansExplained, H!Recorded, H!start
  <2>3. CASE H!Fault /\ req' = H!NoReq /\ UNCHANGED dir
    BY <1>0, <2>1, <2>3 DEF H!Fault, H!Explained, H!OldOnlyInterrupted, H!OrphansExplained,
       H!Recorded, H!start
  <2> QED BY <1>3, <2>2, <2>3 DEF H!Remove
<1>4. ASSUME NEW a \in exported, H!MoveIn(a) PROVE H!Explained'
  <2>1. PICK i \in H!Assigned(a) :
        IF dir[i] # H!NoDir \/ a.files = H!NoDir
        THEN req' = H!NoReq /\ UNCHANGED dir
        ELSE /\ dir' = [dir EXCEPT ![i] = H!Rewritten(a.files, i)]
             /\ req' = [op |-> "row", todo |-> req.todo \ {a}, seen |-> {[id |-> i, st |-> a.st]}]
    BY <1>4 DEF H!MoveIn
  <2>2. UNCHANGED <<rows, work, swept, kills, faults>> /\ req.op = "import" /\ i \in H!Id
    BY <1>4 DEF H!MoveIn, H!server, H!start, H!IInv, H!HandlerAgrees, H!Known, H!Assigned
  <2>3. CASE req' = H!NoReq /\ UNCHANGED dir
    BY <1>0, <2>2, <2>3 DEF H!Explained, H!OldOnlyInterrupted, H!OrphansExplained, H!Recorded,
       H!start
  <2>4. CASE /\ dir' = [dir EXCEPT ![i] = H!Rewritten(a.files, i)]
             /\ req' = [op |-> "row", todo |-> req.todo \ {a}, seen |-> {[id |-> i, st |-> a.st]}]
    <3>1. \A k \in H!Id : k # i => dir'[k] = dir[k]
      BY <2>2, <2>4 DEF H!IInv, H!TypeOK
    <3>2. req'.op = "row" /\ \E s \in req'.seen : s.id = i /\ \A t \in req'.seen : t = s
      BY <2>4
    <3> HIDE DEF H!NoRow, H!NoDir, H!Id
    <3> QED BY <1>0, <2>2, <3>1, <3>2 DEF H!Explained, H!OldOnlyInterrupted, H!OrphansExplained,
       H!Recorded, H!start
  <2> QED BY <2>1, <2>3, <2>4
<1> QED BY <1>1, <1>2, <1>3, <1>4

LEMMA HistoryExplainedStep ==
  ASSUME H!HistoryAssumption, H!IInv, H!Explained, H!Next
  PROVE  H!Explained'
BY HistoryQuietExplained, HistoryMigrationExplained, HistoryWriterExplained,
   HistoryHandlerExplained DEF H!Next

LEMMA HistoryStill ==
  ASSUME H!IInv, H!Explained,
         UNCHANGED <<mode, database, rows, dir, outputs, work, req, exported, interrupted, swept>>,
         faults' \in Nat, kills' \in Nat, faults <= faults', kills <= kills'
  PROVE  H!IInv' /\ H!Explained'
<1>1. H!IInv'
  BY DEF H!IInv, H!TypeOK, H!RowsHaveFiles, H!Recorded, H!WriterAgrees, H!MigrationAgrees,
     H!HandlerAgrees, H!Known, H!Over
<1>2. H!OldOnlyInterrupted'
  BY DEF H!Explained, H!OldOnlyInterrupted, H!Recorded
<1>3. faults + kills > 0 => faults' + kills' > 0
  <2>1. faults \in Nat /\ kills \in Nat
    BY DEF H!Explained
  <2>2. \A a, b, c, d \in Nat : a <= c /\ b <= d /\ a + b > 0 => c + d > 0
    OBVIOUS
  <2> QED BY <2>1, <2>2
<1>4. H!OrphansExplained'
  BY <1>3 DEF H!Explained, H!OrphansExplained, H!Recorded
<1>5. H!Explained'
  BY <1>2, <1>4 DEF H!Explained, H!Recorded
<1> QED BY <1>1, <1>5

LEMMA HistoryInit ==
  ASSUME H!Init
  PROVE  H!IInv /\ H!Explained
BY HistoryInitInv DEF H!Init, H!Explained, H!OldOnlyInterrupted, H!OrphansExplained, H!Recorded

-----------------------------------------------------------------------------
(* The analysis of a paper. Every request ends in Save: what that leaves   *)
(* when it is cut off (SaveEffect), and what is handed to it (Handed).     *)

(* What holds of an analysis by itself.                                    *)
TeachSound(made) ==
  /\ made \in N!Analyses
  /\ made.totals \in {N!Counted(made.override, made.ai), N!Base.totals}
  /\ made.totals # N!Counted(made.override, made.ai) => made.model = 0
  /\ \A q \in Question : made.ai[q] \in {0, made.model}
  /\ made.practice[1] = "model" => made.practice[2] = made.model

TeachWrites == {N!Outputs, Append(N!Outputs, "summary")}

(* The writes of a request, all of them or those before a failure.         *)
TeachComplete(made, writes) ==
  /\ json' = made /\ markdown' = made /\ docx' = made
  /\ audit' = audit \cup {N!Request} /\ failed' = failed
  /\ summary' = IF writes = N!Outputs THEN summary ELSE (made.model # 0)

TeachCutOff(made) ==
  /\ json' \in {json, made}
  /\ audit' \in {audit, audit \cup {N!Request}} /\ failed' = failed \cup {N!Request}

(* A request writes everything, or a first part of it and is known to have *)
(* failed.                                                                 *)
LEMMA TeachSaveEffect ==
  ASSUME NEW made, NEW writes \in TeachWrites, N!Save(made, writes)
  PROVE  /\ requests' = N!Request
         /\ TeachComplete(made, writes) \/ TeachCutOff(made)
         /\ writes = N!Outputs => summary' = summary
<1> DEFINE Wrote(n, what) == \E k \in 1 .. n : writes[k] = what
<1>1. PICK n \in 0 .. Len(writes) :
        /\ requests' = N!Request
        /\ failed' = IF n < Len(writes) THEN failed \cup {N!Request} ELSE failed
        /\ json' = IF Wrote(n, "json") THEN made ELSE json
        /\ markdown' = IF Wrote(n, "markdown") THEN made ELSE markdown
        /\ docx' \in IF Wrote(n, "docx") THEN {made}
                     ELSE IF Wrote(n, "markdown") THEN {docx, N!Torn} ELSE {docx}
        /\ audit' = IF Wrote(n, "audit") THEN audit \cup {N!Request} ELSE audit
        /\ summary' = IF Wrote(n, "summary") THEN made.model # 0 ELSE summary
  BY DEF N!Save
<1>2. /\ Len(writes) \in {4, 5} /\ (writes = N!Outputs <=> Len(writes) = 4)
      /\ writes[1] = "json" /\ writes[2] = "markdown" /\ writes[3] = "docx"
      /\ writes[4] = "audit" /\ (Len(writes) = 5 => writes[5] = "summary")
  BY DEF TeachWrites, N!Outputs
<1>3. writes = N!Outputs => summary' = summary
  <2>1. ASSUME writes = N!Outputs PROVE ~Wrote(n, "summary")
    <3>1. n \in Nat /\ n <= 4
      <4>1. Len(writes) = 4
        BY <1>2, <2>1
      <4> QED BY <4>1
    <3>2. \A k \in 1 .. n : k = 1 \/ k = 2 \/ k = 3 \/ k = 4
      BY <3>1
    <3> QED BY <1>2, <3>2
  <2> HIDE DEF Wrote
  <2> QED BY <1>1, <2>1
<1>4. CASE n < Len(writes)
  <2> HIDE DEF Wrote
  <2> QED BY <1>1, <1>3, <1>4 DEF TeachCutOff
<1>5. CASE n = Len(writes)
  <2>1. n \in {4, 5} /\ 1 \in 1 .. n /\ 2 \in 1 .. n /\ 3 \in 1 .. n /\ 4 \in 1 .. n
    BY <1>2, <1>5
  <2>2. Wrote(n, "json") /\ Wrote(n, "markdown") /\ Wrote(n, "docx") /\ Wrote(n, "audit")
    BY <1>2, <2>1
  <2>3. ASSUME writes # N!Outputs PROVE Wrote(n, "summary")
    <3>1. n = 5 /\ 5 \in 1 .. n /\ writes[5] = "summary"
      BY <1>2, <1>5, <2>1, <2>3
    <3> QED BY <3>1
  <2> HIDE DEF Wrote
  <2> QED BY <1>1, <1>3, <1>5, <2>2, <2>3 DEF TeachComplete
<1> QED BY <1>1, <1>3, <1>4, <1>5

LEMMA TeachCountedType ==
  ASSUME NEW override \in [Question -> [Field -> Nat]], NEW ai \in [Question -> Nat]
  PROVE  N!Counted(override, ai) \in [Question -> [Field -> {"teacher", "model"} \X Nat]]
BY DEF N!Counted

LEMMA TeachBaseSound == TeachSound(N!Base)
<1>1. N!Untouched \in [Question -> [Field -> Nat]] /\ N!NoModel \in [Question -> Nat]
  BY DEF N!Untouched, N!NoModel
<1>2. N!Counted(N!Untouched, N!NoModel) \in [Question -> [Field -> {"teacher", "model"} \X Nat]]
  BY <1>1, TeachCountedType
<1>3. \A q \in Question : N!NoModel[q] = 0
  BY DEF N!NoModel
<1> QED BY <1>1, <1>2, <1>3 DEF TeachSound, N!Base, N!Analyses

(* A stored analysis is one, and not None.                                 *)
LEMMA TeachStored ==
  ASSUME N!TypeOK, json # N!None
  PROVE  json \in N!Analyses
BY DEF N!TypeOK

LEMMA TeachNotNone ==
  ASSUME NEW made \in N!Analyses
  PROVE  made # N!None
<1>1. DOMAIN made = {"override", "ai", "model", "practice", "totals"}
  BY DEF N!Analyses
<1>2. DOMAIN N!None = {"model"}
  BY DEF N!None
<1> QED BY <1>1, <1>2

(* The changes of one field, over opaque sets: the provers compare records *)
(* whose fields are functions badly.                                       *)
LEMMA TeachChanged ==
  ASSUME NEW OO, NEW AA, NEW MM, NEW PP, NEW TT, NEW o, NEW p,
         NEW old \in [override : OO, ai : AA, model : MM, practice : PP, totals : TT]
  PROVE  /\ [old EXCEPT !.override = o] =
              [override |-> o, ai |-> old.ai, model |-> old.model,
               practice |-> old.practice, totals |-> old.totals]
         /\ [old EXCEPT !.practice = p] =
              [override |-> old.override, ai |-> old.ai, model |-> old.model,
               practice |-> p, totals |-> old.totals]
<1>1. [old EXCEPT !.override = o] =
        [override |-> o, ai |-> old.ai, model |-> old.model,
         practice |-> old.practice, totals |-> old.totals]
  OBVIOUS
<1>2. [old EXCEPT !.practice = p] =
        [override |-> old.override, ai |-> old.ai, model |-> old.model,
         practice |-> p, totals |-> old.totals]
  OBVIOUS
<1> QED BY <1>1, <1>2

LEMMA TeachChangedAnalysis ==
  ASSUME NEW old \in N!Analyses, NEW o, NEW p
  PROVE  /\ [old EXCEPT !.override = o] =
              [override |-> o, ai |-> old.ai, model |-> old.model,
               practice |-> old.practice, totals |-> old.totals]
         /\ [old EXCEPT !.practice = p] =
              [override |-> old.override, ai |-> old.ai, model |-> old.model,
               practice |-> p, totals |-> old.totals]
<1> DEFINE OO == [Question -> [Field -> Nat]]
           AA == [Question -> Nat]
           PP == {"none", "local", "model"} \X Nat
           TT == [Question -> [Field -> {"teacher", "model"} \X Nat]]
<1>1. old \in [override : OO, ai : AA, model : Nat, practice : PP, totals : TT]
  BY DEF N!Analyses
<1> HIDE DEF OO, AA, PP, TT
<1> QED BY <1>1, TeachChanged

(* What a request hands to Save: a sound analysis, whose decisions are     *)
(* those that are stored, or come with the request.                        *)
TeachHanded(made) ==
  /\ TeachSound(made)
  /\ \A q \in Question, f \in Field :
       made.override[q][f] \in {N!Overrides(json)[q][f], N!Request}

LEMMA TeachCarriedHanded ==
  ASSUME N!TypeOK
  PROVE  /\ TeachHanded(N!Carried(N!Base))
         /\ N!Carried(N!Base).totals = N!Base.totals /\ N!Carried(N!Base).model = 0
<1>1. CASE json = N!None
  <2>1. N!Carried(N!Base) = N!Base /\ N!Overrides(json) = N!Base.override
    BY <1>1 DEF N!Carried, N!Overrides, N!Base
  <2> QED BY <2>1, TeachBaseSound DEF TeachHanded, N!Base
<1>2. CASE json # N!None
  <2>1. json \in N!Analyses
    BY <1>2, TeachStored
  <2>2. N!Base \in N!Analyses
    BY TeachBaseSound DEF TeachSound
  <2>4. json.override \in [Question -> [Field -> Nat]]
    BY <2>1 DEF N!Analyses
  <2>5. N!Carried(N!Base) = [override |-> json.override, ai |-> N!Base.ai, model |-> N!Base.model,
                         practice |-> N!Base.practice, totals |-> N!Base.totals]
    BY <1>2, <2>2, TeachChangedAnalysis DEF N!Carried
  <2>6. N!Base.model = 0
    BY DEF N!Base
  <2>7. TeachSound(N!Carried(N!Base))
    BY <2>2, <2>4, <2>5, <2>6, TeachBaseSound DEF TeachSound, N!Analyses
  <2> QED BY <1>2, <2>5, <2>6, <2>7 DEF TeachHanded, N!Overrides
<1> QED BY <1>1, <1>2

LEMMA TeachEnrichedHanded ==
  ASSUME N!TypeOK, NEW made, TeachHanded(made), NEW answered \in SUBSET Question,
         NEW practice \in BOOLEAN
  PROVE  TeachHanded(N!Enriched(made, answered, practice))
<1> DEFINE ai == [q \in Question |-> IF q \in answered THEN N!Request ELSE 0]
           items == IF practice THEN <<"model", N!Request>> ELSE <<"none", 0>>
           totals == N!Counted(made.override, ai)
           new == [override |-> made.override, ai |-> ai, model |-> N!Request,
                   practice |-> items, totals |-> totals]
<1>1. made \in N!Analyses /\ N!Request \in Nat
  BY DEF TeachHanded, TeachSound, N!Request, N!TypeOK
<1>2. ai \in [Question -> Nat] /\ items \in {"none", "local", "model"} \X Nat
  BY <1>1
<1>3. totals \in [Question -> [Field -> {"teacher", "model"} \X Nat]]
  <2>1. made.override \in [Question -> [Field -> Nat]]
    BY <1>1 DEF N!Analyses
  <2> HIDE DEF ai
  <2> QED BY <1>2, <2>1, TeachCountedType
<1>4. N!Enriched(made, answered, practice) = new
  BY DEF N!Enriched
<1>5. new \in N!Analyses
  <2> HIDE DEF ai, items, totals
  <2> QED BY <1>1, <1>2, <1>3 DEF N!Analyses
<1>6. \A q \in Question : ai[q] \in {0, N!Request}
  OBVIOUS
<1>7. items[1] = "model" => items[2] = N!Request
  OBVIOUS
<1>8. TeachSound(new)
  <2> HIDE DEF ai, items
  <2> QED BY <1>5, <1>6, <1>7 DEF TeachSound
<1> QED BY <1>4, <1>8 DEF TeachHanded

LEMMA TeachPracticeHanded ==
  ASSUME N!IInv, json # N!None
  PROVE  TeachHanded([json EXCEPT !.practice = <<"local", N!Request>>])
<1> DEFINE new == [json EXCEPT !.practice = <<"local", N!Request>>]
<1>1. json \in N!Analyses /\ N!Request \in Nat
  BY TeachStored DEF N!IInv, N!Request, N!TypeOK
<1>2. new = [override |-> json.override, ai |-> json.ai, model |-> json.model,
             practice |-> <<"local", N!Request>>, totals |-> json.totals]
  BY <1>1, TeachChangedAnalysis
<1>3. TeachSound(json)
  BY <1>1 DEF TeachSound, N!IInv, N!AnalysisSound, N!TotalsKnown
<1>4. TeachSound(new)
  <2> HIDE DEF new
  <2> QED BY <1>1, <1>2, <1>3 DEF TeachSound, N!Analyses
<1>5. new.override = json.override
  BY <1>2
<1> HIDE DEF new
<1> QED BY <1>4, <1>5 DEF TeachHanded, N!Overrides, new

LEMMA TeachUpdateHanded ==
  ASSUME N!IInv, json # N!None, NEW q \in Question, NEW fields \in SUBSET Field, NEW override,
         override = [json.override EXCEPT ![q] =
                       [f \in Field |-> IF f \in fields THEN N!Request ELSE @[f]]]
  PROVE  TeachHanded([override |-> override, ai |-> json.ai, model |-> json.model,
                 practice |-> json.practice, totals |-> N!Counted(override, json.ai)])
<1> DEFINE totals == N!Counted(override, json.ai)
           new == [override |-> override, ai |-> json.ai, model |-> json.model,
                   practice |-> json.practice, totals |-> totals]
<1>1. json \in N!Analyses /\ N!Request \in Nat
  BY TeachStored DEF N!IInv, N!Request, N!TypeOK
<1>2. json.override \in [Question -> [Field -> Nat]] /\ json.ai \in [Question -> Nat]
  BY <1>1 DEF N!Analyses
<1>3. /\ override \in [Question -> [Field -> Nat]]
      /\ \A p \in Question, f \in Field : override[p][f] \in {json.override[p][f], N!Request}
  BY <1>1, <1>2
<1>4. totals \in [Question -> [Field -> {"teacher", "model"} \X Nat]]
  BY <1>2, <1>3, TeachCountedType
<1>6. TeachSound(json)
  BY <1>1 DEF TeachSound, N!IInv, N!AnalysisSound, N!TotalsKnown
<1>7. new \in N!Analyses
  <2> HIDE DEF totals
  <2> QED BY <1>1, <1>3, <1>4 DEF N!Analyses
<1>8. TeachSound(new)
  BY <1>6, <1>7 DEF TeachSound
<1>9. new.override = override
  OBVIOUS
<1> HIDE DEF new
<1> QED BY <1>3, <1>8, <1>9 DEF TeachHanded, N!Overrides, new, totals

(* What a request that hands a sound analysis to Save leaves behind: one   *)
(* that makes an analysis writes the summary too and is the last that did; *)
(* any other keeps the suggestions, and so what the summary says of them.  *)
TeachDecides == json' # json =>
  \A q \in Question, f \in Field :
    N!Overrides(json')[q][f] \in {N!Overrides(json)[q][f], requests'}

LEMMA TeachSaveKeeps ==
  ASSUME N!IInv, NEW made, NEW writes \in TeachWrites, TeachHanded(made), N!Save(made, writes),
         \/ writes # N!Outputs /\ created' = N!Request
         \/ writes = N!Outputs /\ created' = created /\ json # N!None /\ made.model = json.model
  PROVE  N!IInv' /\ TeachDecides
<1>1. /\ requests' = N!Request
      /\ TeachComplete(made, writes) \/ TeachCutOff(made)
      /\ writes = N!Outputs => summary' = summary
  BY TeachSaveEffect
<1>2. made \in N!Analyses /\ made # N!None /\ N!Request \in Nat
  BY TeachNotNone DEF TeachHanded, TeachSound, N!IInv, N!TypeOK, N!Request
<1>3. json' \in {json, made} /\ audit \subseteq audit' /\ failed \subseteq failed'
      /\ audit' \subseteq audit \cup {N!Request} /\ failed' \subseteq failed \cup {N!Request}
      /\ N!Request \in audit' \cup failed'
  BY <1>1 DEF TeachComplete, TeachCutOff
<1>4. N!TypeOK'
  BY <1>1, <1>2, <1>3 DEF N!IInv, N!TypeOK
<1>5. N!TotalsKnown'
  <2>1. CASE json' = json
    BY <2>1 DEF N!IInv, N!AnalysisSound, N!TotalsKnown
  <2>2. CASE json' = made
    BY <2>2 DEF TeachHanded, TeachSound, N!TotalsKnown
  <2> QED BY <1>3, <2>1, <2>2
<1>6. \A q \in Question, f \in Field :
        N!Overrides(json')[q][f] \in {N!Overrides(json)[q][f], N!Request}
  <2>1. CASE json' = json
    BY <2>1
  <2>2. CASE json' = made
    BY <1>2, <2>2 DEF TeachHanded, N!Overrides
  <2> QED BY <1>3, <2>1, <2>2
<1>7. N!SidecarAgrees'
  <2>1. requests' \notin failed' => markdown' = json' /\ docx' = json'
    BY <1>1 DEF TeachComplete, TeachCutOff
  <2>2. created' \notin failed' /\ json' # N!None => summary' = (json'.model # 0)
    <3>1. CASE writes # N!Outputs /\ created' = N!Request
      BY <1>1, <3>1 DEF TeachComplete, TeachCutOff
    <3>2. CASE writes = N!Outputs /\ created' = created /\ json # N!None
               /\ made.model = json.model
      <4>1. summary' = summary /\ json'.model = json.model
        BY <1>1, <1>3, <3>2
      <4> QED BY <1>3, <3>2, <4>1 DEF N!IInv, N!AnalysisSound, N!SidecarAgrees
    <3> QED BY <3>1, <3>2
  <2>3. \A q \in Question, f \in Field :
          N!Overrides(json')[q][f] \in audit' \cup failed' \cup {0}
    <3>1. \A q \in Question, f \in Field :
            N!Overrides(json)[q][f] \in audit \cup failed \cup {0}
      BY DEF N!IInv, N!AnalysisSound, N!SidecarAgrees
    <3> QED BY <1>3, <1>6, <3>1
  <2> QED BY <2>1, <2>2, <2>3 DEF N!SidecarAgrees
<1> QED BY <1>1, <1>4, <1>5, <1>6, <1>7 DEF N!IInv, N!AnalysisSound, TeachDecides

LEMMA TeachCreateStep ==
  ASSUME N!IInv, N!CreateAnalysis
  PROVE  N!IInv' /\ TeachDecides
<1> DEFINE writes == Append(N!Outputs, "summary")
<1>1. writes \in TeachWrites /\ writes # N!Outputs /\ created' = N!Request
  BY DEF TeachWrites, N!Outputs, N!CreateAnalysis
<1>2. TeachHanded(N!Carried(N!Base))
  BY TeachCarriedHanded DEF N!IInv
<1> HIDE DEF writes
<1>3. CASE N!Save(N!Carried(N!Base), writes)
  BY <1>1, <1>2, <1>3, TeachSaveKeeps
<1>4. ASSUME NEW answered \in SUBSET Question, NEW practice \in BOOLEAN,
             N!Save(N!Enriched(N!Carried(N!Base), answered, practice), writes)
      PROVE  N!IInv' /\ TeachDecides
  <2>1. TeachHanded(N!Enriched(N!Carried(N!Base), answered, practice))
    BY <1>2, TeachEnrichedHanded DEF N!IInv
  <2> QED BY <1>1, <1>4, <2>1, TeachSaveKeeps
<1> QED BY <1>3, <1>4 DEF N!CreateAnalysis, writes

LEMMA TeachPracticeStep ==
  ASSUME N!IInv, N!GeneratePractice
  PROVE  N!IInv' /\ TeachDecides
<1> DEFINE new == [json EXCEPT !.practice = <<"local", N!Request>>]
<1>1. json # N!None /\ N!Save(new, N!Outputs) /\ created' = created
  BY DEF N!GeneratePractice
<1>2. TeachHanded(new) /\ N!Outputs \in TeachWrites
  BY <1>1, TeachPracticeHanded DEF TeachWrites
<1>3. new.model = json.model
  BY <1>1, TeachStored, TeachChangedAnalysis DEF N!IInv
<1> HIDE DEF new
<1> QED BY <1>1, <1>2, <1>3, TeachSaveKeeps

LEMMA TeachUpdateStep ==
  ASSUME N!IInv, NEW q \in Question, NEW fields \in SUBSET Field, N!UpdateQuestion(q, fields)
  PROVE  N!IInv' /\ TeachDecides
<1> DEFINE override == [json.override EXCEPT ![q] =
                          [f \in Field |-> IF f \in fields THEN N!Request ELSE @[f]]]
           new == [override |-> override, ai |-> json.ai, model |-> json.model,
                   practice |-> json.practice, totals |-> N!Counted(override, json.ai)]
<1>1. json # N!None /\ N!Save(new, N!Outputs) /\ created' = created
  BY DEF N!UpdateQuestion
<1>2. TeachHanded(new) /\ N!Outputs \in TeachWrites
  BY <1>1, TeachUpdateHanded DEF TeachWrites
<1>3. new.model = json.model
  OBVIOUS
<1> HIDE DEF new
<1> QED BY <1>1, <1>2, <1>3, TeachSaveKeeps

LEMMA TeachInitInv ==
  ASSUME N!Init
  PROVE  N!IInv
BY DEF N!Init, N!IInv, N!TypeOK, N!AnalysisSound, N!SidecarAgrees, N!TotalsKnown, N!Overrides,
   N!Untouched

LEMMA TeachStepInv ==
  ASSUME N!IInv, N!Next
  PROVE  N!IInv' /\ TeachDecides
BY TeachCreateStep, TeachPracticeStep, TeachUpdateStep DEF N!Next

LEMMA TeachStutterInv ==
  ASSUME N!IInv, UNCHANGED N!vars
  PROVE  N!IInv'
BY DEF N!vars, N!IInv, N!TypeOK, N!AnalysisSound, N!SidecarAgrees, N!TotalsKnown, N!Overrides

-----------------------------------------------------------------------------
(* Corrections, bank and packs. One correction counts per line (OneCounts),*)
(* and the version in the bank was approved if its status says so.         *)

USE DEF X!Kind, X!Shown, X!Status, X!NoRow, X!NoItem

(* Changes of a correction keep the index.                                 *)
LEMMA RecordsWriteCorrection ==
  ASSUME X!TypeOK, X!OneCounts, NEW c \in Correction, NEW p \in Paper, NEW kind \in X!Kind,
         NEW st \in X!Status, X!Free(c, p, kind, st),
         correction' = [correction EXCEPT ![c] = [paper |-> p, kind |-> kind, st |-> st]]
  PROVE  X!OneCounts'
<1>1. \A d \in Correction \ {c} : correction'[d] = correction[d]
  BY DEF X!TypeOK
<1>2. correction'[c] = [paper |-> p, kind |-> kind, st |-> st]
  BY DEF X!TypeOK
<1> QED BY <1>1, <1>2 DEF X!OneCounts, X!Free

LEMMA RecordsArriveStep ==
  ASSUME X!IInv, NEW p \in Paper, X!Arrive(p)
  PROVE  X!IInv'
BY DEF X!IInv, X!TypeOK, X!OneCounts, X!BankApproved, X!MaterialHasPaper, X!ExportApproved,
   X!Arrive, X!material

LEMMA RecordsCreateStep ==
  ASSUME X!IInv, NEW p \in Paper, NEW c \in Correction, NEW kind \in X!Kind, NEW st \in X!Status,
         X!CreateCorrection(c, p, kind, st)
  PROVE  X!IInv'
<1> USE DEF X!IInv
<1> DEFINE new == [paper |-> p, kind |-> kind, st |-> st]
<1>1. /\ correction' = [correction EXCEPT ![c] = new]
      /\ p \in recorded /\ p \in evidence /\ X!Free(c, p, kind, st)
      /\ UNCHANGED <<recorded, evidence, bank, pack, export, approved>>
  BY DEF X!CreateCorrection, X!papers, X!material
<1>2. X!TypeOK'
  BY <1>1 DEF X!TypeOK
<1>3. X!OneCounts'
  BY <1>1, RecordsWriteCorrection
<1>4. X!MaterialHasPaper'
  BY <1>1 DEF X!MaterialHasPaper, X!TypeOK
<1>5. X!BankApproved' /\ X!ExportApproved'
  BY <1>1 DEF X!BankApproved, X!ExportApproved
<1> QED BY <1>2, <1>3, <1>4, <1>5

LEMMA RecordsUpdateStep ==
  ASSUME X!IInv, NEW c \in Correction, NEW st \in X!Status, X!UpdateCorrection(c, st)
  PROVE  X!IInv'
<1> USE DEF X!IInv
<1> DEFINE p == correction[c].paper
           kind == correction[c].kind
<1>1. /\ correction[c] # X!NoRow /\ correction' = [correction EXCEPT ![c].st = st]
      /\ X!Free(c, p, kind, st)
      /\ UNCHANGED <<recorded, evidence, bank, pack, export, approved>>
  BY DEF X!UpdateCorrection, X!papers, X!material
<1>2. correction[c] \in [paper : Paper, kind : X!Kind, st : X!Status]
  BY <1>1 DEF X!TypeOK
<1>3. correction' = [correction EXCEPT ![c] = [paper |-> p, kind |-> kind, st |-> st]]
  <2> DEFINE old == correction[c]
  <2>1. ASSUME NEW entry \in [paper : Paper, kind : X!Kind, st : X!Status]
        PROVE  [entry EXCEPT !.st = st] = [paper |-> entry.paper, kind |-> entry.kind, st |-> st]
    OBVIOUS
  <2>2. [old EXCEPT !.st = st] = [paper |-> p, kind |-> kind, st |-> st]
    BY <1>2, <2>1
  <2> QED BY <1>1, <2>2 DEF X!TypeOK
<1>4. X!TypeOK'
  BY <1>1, <1>2, <1>3 DEF X!TypeOK
<1>5. X!OneCounts'
  <2> HIDE DEF p, kind
  <2>1. p \in Paper /\ kind \in X!Kind
    BY <1>2 DEF p, kind
  <2> QED BY <1>1, <1>3, <2>1, RecordsWriteCorrection
<1>6. X!MaterialHasPaper'
  BY <1>1, <1>3 DEF X!MaterialHasPaper, X!TypeOK
<1>7. X!BankApproved' /\ X!ExportApproved'
  BY <1>1 DEF X!BankApproved, X!ExportApproved
<1> QED BY <1>4, <1>5, <1>6, <1>7

LEMMA RecordsUpsertStep ==
  ASSUME X!IInv, NEW p \in Paper, NEW st \in X!Shown, X!UpsertItem(p, st)
  PROVE  X!IInv'
<1> USE DEF X!IInv
<1> DEFINE version == bank[p].version + 1
<1>1. /\ bank' = [bank EXCEPT ![p] = [st |-> st, version |-> version]]
      /\ approved' = IF st = "approved" THEN approved \cup {<<p, version>>} ELSE approved
      /\ p \in recorded /\ p \in evidence
      /\ UNCHANGED <<recorded, evidence, correction, pack, export>>
  BY DEF X!UpsertItem, X!papers
<1>2. version \in Nat
  BY DEF X!TypeOK
<1>3. X!TypeOK' /\ X!OneCounts'
  BY <1>1, <1>2 DEF X!TypeOK, X!OneCounts
<1>4. X!BankApproved'
  BY <1>1 DEF X!BankApproved, X!TypeOK
<1>5. X!MaterialHasPaper'
  BY <1>1 DEF X!MaterialHasPaper, X!TypeOK
<1>6. X!ExportApproved'
  BY <1>1 DEF X!ExportApproved
<1> QED BY <1>3, <1>4, <1>5, <1>6

LEMMA RecordsSavePackStep ==
  ASSUME X!IInv, NEW st \in X!Shown, NEW items \in SUBSET Paper, X!SavePack(st, items)
  PROVE  X!IInv'
BY DEF X!IInv, X!TypeOK, X!OneCounts, X!BankApproved, X!MaterialHasPaper, X!ExportApproved,
   X!SavePack, X!papers

LEMMA RecordsExportStep ==
  ASSUME X!IInv, X!ExportPack
  PROVE  X!IInv'
<1> USE DEF X!IInv
<1> DEFINE items == pack.items \cap X!InBank
           versions == {<<p, bank[p].version>> : p \in items}
<1>1. /\ pack.st = "approved" => items = pack.items
      /\ export' = [st |-> pack.st, named |-> pack.items, items |-> versions]
      /\ UNCHANGED <<recorded, evidence, correction, bank, pack, approved>>
  BY DEF X!ExportPack, X!papers
<1>2. versions \subseteq approved
  BY DEF X!InBank, X!BankApproved
<1>3. {e[1] : e \in versions} = items
  <2>1. ASSUME NEW q \in items PROVE q \in {e[1] : e \in versions}
    <3>1. <<q, bank[q].version>> \in versions /\ <<q, bank[q].version>>[1] = q
      OBVIOUS
    <3> HIDE DEF versions
    <3> QED BY <3>1
  <2>2. ASSUME NEW e \in versions PROVE e[1] \in items
    OBVIOUS
  <2> HIDE DEF items, versions
  <2> QED BY <2>1, <2>2
<1>4. X!ExportApproved'
  BY <1>1, <1>2, <1>3 DEF X!ExportApproved
<1> QED BY <1>1, <1>4 DEF X!TypeOK, X!OneCounts, X!BankApproved, X!MaterialHasPaper

LEMMA RecordsDeleteStep ==
  ASSUME X!IInv, NEW gone \in SUBSET Paper, X!Delete(gone)
  PROVE  X!IInv'
<1> USE DEF X!IInv
<1>1. /\ recorded' = recorded \ gone
      /\ correction' = [c \in Correction |->
                          IF correction[c].paper \in gone THEN X!NoRow ELSE correction[c]]
      /\ \A p \in gone : bank[p] = X!NoItem
      /\ evidence' \subseteq evidence /\ evidence \ gone \subseteq evidence'
      /\ UNCHANGED <<bank, pack, export, approved>>
  BY DEF X!Delete, X!material
<1>2. X!TypeOK'
  BY <1>1 DEF X!TypeOK
<1>3. X!OneCounts'
  BY <1>1 DEF X!OneCounts
<1>4. X!MaterialHasPaper'
  BY <1>1 DEF X!MaterialHasPaper, X!TypeOK
<1>5. X!BankApproved' /\ X!ExportApproved'
  BY <1>1 DEF X!BankApproved, X!ExportApproved
<1> QED BY <1>2, <1>3, <1>4, <1>5

LEMMA RecordsInitInv ==
  ASSUME X!Init
  PROVE  X!IInv
BY DEF X!Init, X!IInv, X!TypeOK, X!OneCounts, X!BankApproved, X!MaterialHasPaper, X!ExportApproved

LEMMA RecordsStepInv ==
  ASSUME X!IInv, X!Next
  PROVE  X!IInv'
BY RecordsArriveStep, RecordsCreateStep, RecordsUpdateStep, RecordsUpsertStep,
   RecordsSavePackStep, RecordsExportStep, RecordsDeleteStep DEF X!Next

LEMMA RecordsStutterInv ==
  ASSUME X!IInv, UNCHANGED <<recorded, evidence, correction, bank, pack, export, approved>>
  PROVE  X!IInv'
BY DEF X!IInv, X!TypeOK, X!OneCounts, X!BankApproved, X!MaterialHasPaper, X!ExportApproved

(* At most one correction stands for a line, in whatever order they are    *)
(* rejected, reverted and taken up again.                                  *)
LEMMA RecordsTextOne ==
  ASSUME X!IInv
  PROVE  X!OneText
<1>0. \A p \in Paper : X!Cardinality(X!Overlay(p)) = Cardinality(X!Overlay(p))
  BY DEF X!Cardinality, Cardinality
<1> SUFFICES ASSUME NEW p \in Paper PROVE Cardinality(X!Overlay(p)) <= 1
  BY <1>0 DEF X!OneText
<1>1. ASSUME NEW kind \in X!Kind PROVE Cardinality(X!Approved(p, kind)) <= 1
  <2>1. \A c, d \in X!Approved(p, kind) : c = d
    BY DEF X!IInv, X!OneCounts, X!Approved
  <2>2. CASE X!Approved(p, kind) = {}
    BY <2>2, FS_EmptySet
  <2>3. CASE X!Approved(p, kind) # {}
    <3>1. PICK c \in X!Approved(p, kind) : X!Approved(p, kind) = {c}
      BY <2>1, <2>3
    <3>2. Cardinality({c}) = 1
      BY FS_Singleton
    <3> QED BY <3>1, <3>2
  <2> QED BY <2>2, <2>3
<1> QED BY <1>1 DEF X!Overlay

-----------------------------------------------------------------------------
(* The scene.                                                              *)

(* Kills are counted by all parts too.                                     *)
LEMMA KillsGrow ==
  ASSUME kills \in Nat, \/ LaunchStep \/ MaintenanceStep \/ SetupStep
                        \/ RecognitionStep \/ TableStep \/ ArtifactStep \/ HistoryStep
                        \/ AnalysisStep \/ RecordsStep \/ UNCHANGED all
  PROVE  kills' \in Nat /\ kills <= kills'
<1>1. kills' \in {kills, kills + 1}
  <2>1. CASE Next
    BY <2>1 DEF Next, Acquire, EndWait, Probe, Migrated, Bind, Submit, JobEnds, Quit, Drain,
                ServerEnds, HostEnds, StopWaiting, Die, Copy, Copied, UserDeletes
  <2>2. CASE A!Next
    BY <2>2 DEF A!Next, A!Stage, A!Build, A!Decide, A!BuildFails, A!CopyArchive, A!WriteManifest,
       A!Withhold,
                A!MoveAside, A!Rename, A!Restore, A!Clean, A!Die
  <2>3. CASE H!Next
    BY <2>3 DEF H!Next, H!Open, H!Create, H!CopyDatabase, H!CopyOutput, H!CommitMigration,
       H!Recover, H!Kill,
                H!Submit, H!Begin, H!Command, H!WriteArtifacts, H!SaveResult, H!Complete, H!Fail,
                H!Delete,
                H!Clear, H!DropRows, H!Remove, H!Export, H!Pack, H!Hash, H!Import, H!MoveIn,
                H!AddRow,
                H!start, H!server
  <2>4. CASE UNCHANGED kills
    BY <2>4
  <2> QED BY <2>1, <2>2, <2>3, <2>4
             DEF LaunchStep, MaintenanceStep, SetupStep, RecognitionStep, TableStep, ArtifactStep,
                 HistoryStep, AnalysisStep, RecordsStep, vars, all
<1> QED BY <1>1

DocumentsKept == A!IInv /\ H!IInv /\ H!Explained /\ N!IInv /\ X!IInv

(* Each part begins as its module says, or with nothing under way.         *)
LEMMA DocumentsBegin ==
  ASSUME Assumed, SceneInit
  PROVE  DocumentsKept
<1>1. A!IInv
  BY OutputInit DEF SceneInit, Assumed, ComputerAssumption
<1>2. H!IInv /\ H!Explained
  BY HistoryInit DEF SceneInit
<1>3. N!IInv
  BY TeachInitInv DEF SceneInit
<1>4. X!IInv
  BY RecordsInitInv DEF SceneInit
<1> QED BY <1>1, <1>2, <1>3, <1>4 DEF DocumentsKept

(* Every step of the scene keeps the invariants of its parts.              *)
LEMMA DocumentsStep ==
  ASSUME Assumed, DocumentsKept,
         \/ LaunchStep \/ MaintenanceStep \/ SetupStep
         \/ RecognitionStep \/ TableStep \/ ArtifactStep \/ HistoryStep
         \/ AnalysisStep \/ RecordsStep \/ UNCHANGED all
  PROVE  DocumentsKept' /\ (TeachDecides \/ UNCHANGED analysis)
<1>1. /\ faults' \in Nat /\ faults <= faults'
      /\ kills' \in Nat /\ kills <= kills'
  BY FaultsGrow, KillsGrow DEF DocumentsKept, H!Explained
<1>2. A!IInv'
  <2>1. CASE ArtifactStep
    BY <2>1, OutputStep DEF ArtifactStep, DocumentsKept, Assumed, ComputerAssumption
  <2>2. CASE ~ArtifactStep
    <3>1. UNCHANGED artifacts
      BY <2>2 DEF LaunchStep, MaintenanceStep, SetupStep, RecognitionStep, TableStep, HistoryStep,
                  AnalysisStep, RecordsStep, all, others
    <3> QED BY <1>1, <3>1, OutputStill DEF DocumentsKept, artifacts
  <2> QED BY <2>1, <2>2
<1>3. H!IInv' /\ H!Explained'
  <2>1. CASE HistoryStep
    BY <2>1, HistoryStepInv, HistoryExplainedStep DEF HistoryStep, DocumentsKept, Assumed,
       ComputerAssumption
  <2>2. CASE ~HistoryStep
    <3>1. UNCHANGED history
      BY <2>2 DEF LaunchStep, MaintenanceStep, SetupStep, RecognitionStep, TableStep, ArtifactStep,
                  AnalysisStep, RecordsStep, all, others
    <3> QED BY <1>1, <3>1, HistoryStill DEF DocumentsKept, history
  <2> QED BY <2>1, <2>2
<1>4. N!IInv' /\ (TeachDecides \/ UNCHANGED analysis)
  <2>1. CASE AnalysisStep
    BY <2>1, TeachStepInv DEF AnalysisStep, DocumentsKept
  <2>2. CASE ~AnalysisStep
    <3>1. UNCHANGED analysis
      BY <2>2 DEF LaunchStep, MaintenanceStep, SetupStep, RecognitionStep, TableStep, ArtifactStep,
                  HistoryStep, RecordsStep, all, others, teaching
    <3> QED BY <3>1, TeachStutterInv DEF DocumentsKept, analysis, N!vars
  <2> QED BY <2>1, <2>2
<1>5. X!IInv'
  <2>1. CASE RecordsStep
    BY <2>1, RecordsStepInv DEF RecordsStep, DocumentsKept
  <2>2. CASE ~RecordsStep
    <3>1. UNCHANGED records
      BY <2>2 DEF LaunchStep, MaintenanceStep, SetupStep, RecognitionStep, TableStep, ArtifactStep,
                  HistoryStep, AnalysisStep, all, others, teaching
    <3> QED BY <3>1, RecordsStutterInv DEF DocumentsKept, records
  <2> QED BY <2>1, <2>2
<1> QED BY <1>2, <1>3, <1>4, <1>5 DEF DocumentsKept

(* A complete output is taken from its name or from where it was set aside *)
(* by a complete one only, as long as one operation at most has failed.    *)
LEMMA DocumentsReplaced ==
  ASSUME Assumed, DocumentsKept, ArtifactStep \/ UNCHANGED artifacts
  PROVE  /\ (named \in complete /\ faults' <= 1) =>
              named' \in complete' \/ \E r \in Run : previous'[r] = named
         /\ \A r \in Run : (previous[r] \in complete /\ previous'[r] = A!None /\ faults' <= 1) =>
              named' \in complete'
<1>1. CASE ArtifactStep
  <2>1. A!Next /\ A!ArtifactsAssumption /\ A!IInv
    BY <1>1 DEF ArtifactStep, Assumed, ComputerAssumption, DocumentsKept
  <2> QED BY <2>1, OutputKept
<1>2. CASE UNCHANGED artifacts
  <2>1. UNCHANGED <<named, previous, complete>>
    BY <1>2 DEF artifacts
  <2>2. A!None \notin complete
    BY DEF Assumed, ComputerAssumption, A!ArtifactsAssumption, DocumentsKept, A!IInv, A!Typed
  <2> QED BY <2>1, <2>2
<1> QED BY <1>1, <1>2

LEMMA DocumentsAreKept == Assumed /\ Scene => [](DocumentsKept /\ Assumed)
<1> DEFINE Steps == \/ LaunchStep \/ MaintenanceStep \/ SetupStep
                    \/ RecognitionStep \/ TableStep \/ ArtifactStep \/ HistoryStep
                    \/ AnalysisStep \/ RecordsStep
<1>1. Assumed /\ SceneInit => DocumentsKept
  BY DocumentsBegin
<1>2. DocumentsKept /\ Assumed /\ [Steps]_all => DocumentsKept'
  BY DocumentsStep
<1>3. Assumed /\ Scene => []Assumed
  BY SceneKeeps, PTL
<1> QED BY <1>1, <1>2, <1>3, PTL DEF Scene

(* What a row of History names is there, of its own document and in its    *)
(* own directory, whatever is migrated, written, deleted, cleared or       *)
(* imported and wherever the server dies; and a directory without a row is *)
(* in someone's work or was left by a failure.                             *)
THEOREM DocumentHistory == ComputerAssumption /\ Scene => []HistorySound
<1>1. DocumentsKept => HistorySound
  BY DEF DocumentsKept, HistorySound, H!HistorySound, H!IInv, H!Explained
<1> QED BY <1>1, DocumentsAreKept, PTL DEF Assumed

(* A job is told the truth about its artifacts, and a complete output      *)
(* gives way to a complete one only, unless two operations fail.           *)
THEOREM DocumentOutput == ComputerAssumption /\ Scene => OutputSound
<1> DEFINE Steps == \/ LaunchStep \/ MaintenanceStep \/ SetupStep
                    \/ RecognitionStep \/ TableStep \/ ArtifactStep \/ HistoryStep
                    \/ AnalysisStep \/ RecordsStep
           Named == (named \in complete /\ faults' <= 1) =>
                       named' \in complete' \/ \E r \in Run : previous'[r] = named
           Aside == \A r \in Run : (previous[r] \in complete /\ previous'[r] = A!None /\ faults' <= 1) =>
                       named' \in complete'
<1>1. DocumentsKept => A!ToldTrue
  BY DEF DocumentsKept, A!IInv
<1>2. DocumentsKept /\ Assumed /\ [Steps]_all => [Named]_(A!vars) /\ [Aside]_(A!vars)
  <2> SUFFICES ASSUME DocumentsKept, Assumed, [Steps]_all
               PROVE  Named /\ Aside
    OBVIOUS
  <2>1. ArtifactStep \/ UNCHANGED artifacts
    BY DEF LaunchStep, MaintenanceStep, SetupStep, RecognitionStep, TableStep, HistoryStep,
           AnalysisStep, RecordsStep, all, others
  <2> QED BY <2>1, DocumentsReplaced
<1>3. Assumed /\ Scene => [][A!ToldTrue']_all
  BY <1>1, DocumentsAreKept, PTL
<1>4. Assumed /\ Scene => [][Named]_(A!vars) /\ [][Aside]_(A!vars)
  BY <1>2, DocumentsAreKept, PTL DEF Scene
<1> QED BY <1>3, <1>4 DEF Assumed, OutputSound, A!CompleteKept, A!NameKept, A!PreviousKept

(* The sidecar, its renderings and the row agree, the decision of a        *)
(* teacher gives way to a later one only, and what is made of a paper has  *)
(* the paper, one text and approved items.                                 *)
THEOREM DocumentTeaching == ComputerAssumption /\ Scene => TeachingSound
<1> DEFINE Steps == \/ LaunchStep \/ MaintenanceStep \/ SetupStep
                    \/ RecognitionStep \/ TableStep \/ ArtifactStep \/ HistoryStep
                    \/ AnalysisStep \/ RecordsStep
<1>1. DocumentsKept => N!AnalysisSound /\ X!RecordsSound
  BY RecordsTextOne DEF DocumentsKept, N!IInv, X!IInv, X!RecordsSound
<1>2. DocumentsKept /\ Assumed /\ [Steps]_all => [TeachDecides]_(N!vars)
  BY DocumentsStep DEF analysis, N!vars
<1>3. Assumed /\ Scene => [][teaching' # teaching => N!AnalysisSound' /\ X!RecordsSound']_teaching
  BY <1>1, DocumentsAreKept, PTL
<1>4. Assumed /\ Scene => [][TeachDecides]_(N!vars)
  BY <1>2, DocumentsAreKept, PTL DEF Scene
<1> QED BY <1>3, <1>4 DEF Assumed, TeachingSound, N!OverridesKept, TeachDecides
=============================================================================
