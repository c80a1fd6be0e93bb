------------------------------ MODULE HistoryFiles ------------------------------
(***************************************************************************)
(* The History database and the directories beside it: the migration of an *)
(* old installation, the jobs that write results, and the handlers that    *)
(* delete, clear, export and import records.  The handlers run one at a    *)
(* time on the event loop; the job thread and the command line write       *)
(* between their steps, and the server may die between any two.  (A job    *)
(* that starts after its cancellation is in JobQueue.)                     *)
(***************************************************************************)
EXTENDS Naturals, FiniteSets

CONSTANTS Legacy,     \* records of the old installation
          Job,        \* jobs of this one
          New,        \* identifiers an import may assign
          MaxFaults,  \* bound of the model: failing removals and inserts
          MaxKills    \* bound of the model: servers that die

HistoryAssumption ==
  /\ Legacy \cap Job = {} /\ Legacy \cap New = {} /\ Job \cap New = {}
  /\ "none" \notin Legacy \cup Job \cup New

VARIABLES
  mode,         \* "down", "create", "copy", "files", "recover", "up"
  database,     \* whether the database file exists
  rows,         \* per record: its row, or NoRow
  dir,          \* per record: what jobs/<id> holds, or NoDir
  outputs,      \* old records with files in the old output directory
  work,         \* per job: where its writer is
  req,          \* the handler in progress
  archive,      \* the records of the exported archive
  interrupted,  \* whether a migration ended before its commit
  swept,        \* records whose row a clearing deleted without having listed it
  faults, kills

vars == <<mode, database, rows, dir, outputs, work, req, archive, interrupted,
          swept, faults, kills>>
start == <<mode, database, outputs, interrupted, kills>>
server == <<start, swept>>

Id == Legacy \cup Job \cup New
None == "none"
NoRow == [st |-> None, res |-> None, man |-> FALSE, of |-> None]
NoDir == [res |-> FALSE, man |-> None, of |-> None]
NoReq == [op |-> None, todo |-> {}, seen |-> {}]
Active == {"pending", "processing"}

Recorded == {i \in Id : rows[i] # NoRow}
Row(st, i, files) ==
  [st |-> st, res |-> IF files.res THEN "new" ELSE None, man |-> files.man # None,
   of |-> files.of]

Init ==
  /\ mode = "down" /\ database = FALSE
  /\ rows = [i \in Id |-> NoRow] /\ dir = [i \in Id |-> NoDir]
  /\ outputs \in SUBSET Legacy
  /\ work = [j \in Job |-> "new"] /\ req = NoReq /\ archive = {}
  /\ interrupted = FALSE /\ swept = {} /\ faults = 0 /\ kills = 0

-----------------------------------------------------------------------------
(* The first use of the store migrates when there is no database yet.      *)
Open ==
  /\ mode = "down"
  /\ mode' = IF ~database /\ Legacy # {} THEN "create" ELSE "recover"
  /\ UNCHANGED <<database, rows, dir, outputs, work, req, archive, interrupted,
                 swept, faults, kills>>

Create ==
  /\ mode = "create"
  /\ mode' = "copy" /\ database' = TRUE
  /\ UNCHANGED <<rows, dir, outputs, work, req, archive, interrupted, swept,
                 faults, kills>>

CopyDatabase ==
  /\ mode = "copy"
  /\ mode' = "files"
  /\ rows' = [i \in Id |-> IF i \notin Legacy THEN rows[i] ELSE
                [st |-> "completed", res |-> IF i \in outputs THEN "old" ELSE None,
                 man |-> FALSE, of |-> i]]
  /\ UNCHANGED <<database, dir, outputs, work, req, archive, interrupted, swept,
                 faults, kills>>

CopyOutput(i) ==
  /\ mode = "files" /\ i \in outputs /\ dir[i] = NoDir
  /\ dir' = [dir EXCEPT ![i] = [res |-> TRUE, man |-> i, of |-> i]]
  /\ UNCHANGED <<mode, database, rows, outputs, work, req, archive, interrupted,
                 swept, faults, kills>>

CommitMigration ==
  /\ mode = "files" /\ \A i \in outputs : dir[i] # NoDir
  /\ mode' = "recover"
  /\ rows' = [i \in Id |-> IF i \in outputs THEN Row("completed", i, dir[i]) ELSE rows[i]]
  /\ UNCHANGED <<database, dir, outputs, work, req, archive, interrupted, swept,
                 faults, kills>>

Recover ==
  /\ mode = "recover"
  /\ mode' = "up" /\ database' = TRUE
  /\ rows' = [i \in Id |-> IF rows[i].st \in Active
                THEN [rows[i] EXCEPT !.st = "failed"] ELSE rows[i]]
  /\ UNCHANGED <<dir, outputs, work, req, archive, interrupted, swept,
                 faults, kills>>

(* The server dies, or an exception leaves the migration and ends it.      *)
Kill ==
  /\ mode # "down" /\ kills < MaxKills
  /\ kills' = kills + 1 /\ mode' = "down" /\ req' = NoReq
  /\ interrupted' = (interrupted \/ mode \in {"copy", "files"})
  /\ work' = [j \in Job |-> IF work[j] \in {"new", "command", "named"} THEN work[j] ELSE "over"]
  /\ UNCHANGED <<database, rows, dir, outputs, archive, swept, faults>>

-----------------------------------------------------------------------------
(* The writers: the job thread, and a command line with a record of its    *)
(* own that has no row before its end.                                     *)
Upsert(j, st) == rows' = [rows EXCEPT ![j] = Row(st, j, [dir[j] EXCEPT !.of = j])]

Submit(j) ==
  /\ mode = "up" /\ work[j] = "new"
  /\ work' = [work EXCEPT ![j] = "pending"] /\ Upsert(j, "pending")
  /\ UNCHANGED <<server, dir, req, archive, faults>>

Begin(j) ==
  /\ work[j] = "pending" /\ \A k \in Job : work[k] \notin {"processing", "exported", "saved"}
  /\ work' = [work EXCEPT ![j] = "processing"] /\ Upsert(j, "processing")
  /\ UNCHANGED <<server, dir, req, archive, faults>>

Command(j) ==
  /\ database /\ mode \in {"down", "up"} /\ work[j] = "new"
  /\ work' = [work EXCEPT ![j] = "command"]
  /\ UNCHANGED <<server, rows, dir, req, archive, faults>>

Written(w) == IF w = "processing" THEN "exported" ELSE "named"

WriteArtifacts(j) ==
  /\ work[j] \in {"processing", "command"}
  /\ work' = [work EXCEPT ![j] = Written(@)]
  /\ dir' \in {[dir EXCEPT ![j] = [res |-> FALSE, man |-> j, of |-> j]], dir}
  /\ UNCHANGED <<server, rows, req, archive, faults>>

SaveResult(j) ==
  /\ work[j] \in {"exported", "named"}
  /\ work' = [work EXCEPT ![j] = "saved"]
  /\ dir' = [dir EXCEPT ![j] = [res |-> TRUE, man |-> dir[j].man, of |-> j]]
  /\ UNCHANGED <<server, rows, req, archive, faults>>

Complete(j) ==
  /\ work[j] = "saved"
  /\ work' = [work EXCEPT ![j] = "over"] /\ Upsert(j, "completed")
  /\ UNCHANGED <<server, dir, req, archive, faults>>

(* A failure or a cancellation: the row has no result.                     *)
Fail(j) ==
  /\ work[j] \in {"pending", "processing", "exported"}
  /\ work' = [work EXCEPT ![j] = "over"]
  /\ \E st \in {"failed", "cancelled"} :
       rows' = [rows EXCEPT ![j] = [st |-> st, res |-> None, man |-> FALSE, of |-> j]]
  /\ UNCHANGED <<server, dir, req, archive, faults>>

-----------------------------------------------------------------------------
(* The handlers.                                                           *)
Handler == mode = "up" /\ req = NoReq
Fault == faults < MaxFaults /\ faults' = faults + 1
Done(rest) == req' = IF rest = {} THEN NoReq ELSE [req EXCEPT !.todo = rest]

Ended == {i \in Recorded : rows[i].st \notin Active}
Ask(op, S) == Handler /\ req' = [NoReq EXCEPT !.op = op, !.todo = S]

(* One record, several, or those that are older than a time.               *)
Delete(S) ==
  /\ S # {} /\ S \subseteq Ended /\ Ask("delete", S)
  /\ UNCHANGED <<server, rows, dir, work, archive, faults>>

(* All that have ended; a pin does not count.                              *)
Clear ==
  /\ Ask("clear", Ended)
  /\ UNCHANGED <<server, rows, dir, work, archive, faults>>

(* Clearing deletes by the condition again, not by what it has listed.     *)
Named == IF req.op = "clear" THEN Ended ELSE req.todo

DropRows ==
  /\ req.op \in {"delete", "clear"}
  /\ rows' = [i \in Id |-> IF i \in Named THEN NoRow ELSE rows[i]]
  /\ swept' = swept \cup (Named \ req.todo)
  /\ req' = IF req.todo = {} THEN NoReq ELSE [req EXCEPT !.op = "remove"]
  /\ UNCHANGED <<start, dir, work, archive, faults>>

Remove(i) ==
  /\ req.op = "remove" /\ i \in req.todo
  /\ \/ dir' = [dir EXCEPT ![i] = NoDir] /\ Done(req.todo \ {i}) /\ UNCHANGED faults
     \/ Fault /\ req' = NoReq /\ UNCHANGED dir
  /\ UNCHANGED <<server, rows, work, archive>>

(* An export reads the rows first, then each file twice: for the archive   *)
(* and for its checksum.                                                   *)
Export(S) ==
  /\ Handler /\ S # {} /\ S \subseteq Recorded
  /\ req' = [op |-> "export", todo |-> S, seen |-> {[id |-> i, st |-> rows[i].st] : i \in S}]
  /\ archive' = {}
  /\ UNCHANGED <<server, rows, dir, work, faults>>

Pack(i) ==
  /\ req.op = "export" /\ i \in req.todo
  /\ \A a \in archive : a.hashed
  /\ \E s \in req.seen :
       s.id = i /\ archive' = archive \cup
         {[id |-> i, st |-> s.st, files |-> dir[i], hashed |-> FALSE, good |-> FALSE]}
  /\ req' = [req EXCEPT !.todo = @ \ {i}]
  /\ UNCHANGED <<server, rows, dir, work, faults>>

Hash(a) ==
  /\ req.op = "export" /\ a \in archive /\ ~a.hashed
  /\ archive' = (archive \ {a}) \cup
       {[a EXCEPT !.hashed = TRUE, !.good = dir[a.id] = a.files]}
  /\ Done(req.todo)
  /\ UNCHANGED <<server, rows, dir, work, faults>>

(* Every file is verified before the first record is imported.             *)
Import ==
  /\ Handler /\ archive # {} /\ \A a \in archive : a.good
  /\ req' = [op |-> "import", todo |-> archive, seen |-> {}]
  /\ UNCHANGED <<server, rows, dir, work, archive, faults>>

(* A record that exists is imported under a new identifier.                *)
Assigned(a) == IF a.id \notin Recorded THEN {a.id}
               ELSE {n \in New : n \notin Recorded /\ dir[n] = NoDir}

(* mutant: the manifest keeps the directory it named                       *)
RewrittenNot(files, i) == files
Rewritten(files, i) == [files EXCEPT !.man = IF @ = None THEN None ELSE i]

(* The directory is in the way, the record has no files, or it is moved    *)
(* into its place.                                                         *)
MoveIn(a) ==
  /\ req.op = "import" /\ a \in req.todo
  /\ \E i \in Assigned(a) :
       IF dir[i] # NoDir \/ a.files = NoDir
       THEN req' = NoReq /\ UNCHANGED dir
       ELSE /\ dir' = [dir EXCEPT ![i] = Rewritten(a.files, i)]
            /\ req' = [op |-> "row", todo |-> req.todo \ {a}, seen |-> {[id |-> i, st |-> a.st]}]
  /\ UNCHANGED <<server, rows, work, archive, faults>>

AddRow ==
  /\ req.op = "row"
  /\ \E s \in req.seen :
       \/ /\ rows' = [rows EXCEPT ![s.id] = Row(s.st, s.id, dir[s.id])]
          /\ UNCHANGED faults
          /\ req' = IF req.todo = {} THEN NoReq
                    ELSE [op |-> "import", todo |-> req.todo, seen |-> {}]
       \/ Fault /\ req' = NoReq /\ UNCHANGED rows
  /\ UNCHANGED <<server, dir, work, archive>>

Next ==
  \/ Open \/ Create \/ CopyDatabase \/ CommitMigration \/ Recover \/ Kill
  \/ \E i \in Legacy : CopyOutput(i)
  \/ \E j \in Job : Submit(j) \/ Begin(j) \/ Command(j) \/ WriteArtifacts(j)
                    \/ SaveResult(j) \/ Complete(j) \/ Fail(j)
  \/ \E S \in SUBSET Recorded : Delete(S) \/ Export(S)
  \/ \E i \in Id : Remove(i) \/ Pack(i)
  \/ \E a \in archive : Hash(a) \/ MoveIn(a)
  \/ Clear \/ DropRows \/ Import \/ AddRow

Spec == Init /\ [][Next]_vars

-----------------------------------------------------------------------------
(* A row that names a result or a manifest finds it, of the document the   *)
(* row is of and in the directory of the row, in every state of a          *)
(* deletion, an import or a migration and after every crash.               *)
RowsHaveFiles ==
  \A i \in Recorded :
    /\ rows[i].res = "new" => dir[i].res /\ dir[i].of = rows[i].of
    /\ rows[i].man => dir[i].man = i

(* Only a migration that was interrupted leaves rows that name the old     *)
(* output directory (no later start resumes it).                           *)
OldOnlyInterrupted ==
  \A i \in Recorded : rows[i].res = "old" => interrupted \/ mode = "files"

(* A directory without a row, which would block a later import of the      *)
(* record, is in the work of someone or left by a failure or a crash, or   *)
(* is that of a record which ended while History was being cleared.        *)
OrphansExplained ==
  \A i \in Id \ Recorded : dir[i] # NoDir =>
    \/ faults + kills > 0 \/ i \in swept
    \/ req.op = "remove" /\ i \in req.todo
    \/ req.op = "row" /\ \E s \in req.seen : s.id = i
    \/ i \in Job /\ work[i] \in {"named", "saved"}

HistorySound == RowsHaveFiles /\ OldOnlyInterrupted /\ OrphansExplained

-----------------------------------------------------------------------------
(* What makes RowsHaveFiles inductive.                                     *)
Status == {"pending", "processing", "completed", "failed", "cancelled"}
Rows == [st : Status \cup {None},
         res : {None, "old", "new"}, man : BOOLEAN, of : Id \cup {None}]
Dirs == [res : BOOLEAN, man : Id \cup {None}, of : Id \cup {None}]
Works == {"new", "command", "named", "pending", "processing", "exported", "saved", "over"}

TypeOK ==
  /\ rows \in [Id -> Rows] /\ dir \in [Id -> Dirs] /\ work \in [Job -> Works]
  /\ outputs \subseteq Legacy /\ \A i \in Id : rows[i].st = None => rows[i] = NoRow

(* Until a job is over nobody else touches its row and its directory, and  *)
(* what it has written so far is in the place the row will name.           *)
WriterAgrees ==
  \A j \in Job :
    /\ work[j] \in {"new", "command", "named"} => rows[j] = NoRow
    /\ work[j] \in {"pending", "processing", "exported"} => mode = "up" /\ rows[j].st \in Active
    /\ work[j] = "saved" => rows[j] = NoRow \/ (mode = "up" /\ rows[j].st \in Active)
    /\ work[j] # "over" => rows[j].res = None /\ ~rows[j].man
    /\ work[j] \in {"new", "command", "pending", "processing"} => dir[j] = NoDir
    /\ work[j] \in {"named", "exported"} => dir[j].man \in {None, j}
    /\ work[j] = "saved" => dir[j].res /\ dir[j].of = j /\ dir[j].man \in {None, j}

(* A migration meets only its own directories.                             *)
MigrationAgrees ==
  /\ mode = "up" => database
  /\ mode \in {"copy", "files"} => database
  /\ ~database \/ mode = "copy" => \A i \in Legacy : dir[i] = NoDir
  /\ mode = "create" => ~database
  /\ mode = "files" => \A i \in Legacy : dir[i].man \in {None, i}

(* Whoever has seen a record knows one whose job is over or has a row,     *)
(* which it keeps until it is over.                                        *)
Known(i) == i \in Id /\ (i \in Job => work[i] = "over" \/ rows[i] # NoRow)
Over(i) == i \in Id /\ rows[i].st \notin Active /\ (i \in Job => work[i] = "over")

HandlerAgrees ==
  /\ mode # "up" => req = NoReq
  /\ req.op \in {None, "delete", "clear", "remove", "export", "import", "row"}
  /\ \A a \in archive : Known(a.id) /\ a.st \in Status /\ a.files \in Dirs
  /\ req.op \in {"delete", "clear"} => \A i \in req.todo : Over(i)
  /\ req.op = "remove" => \A i \in req.todo : Over(i) /\ rows[i] = NoRow
  /\ req.op = "export" => /\ \A i \in req.todo : Known(i)
                          /\ \A s \in req.seen : Known(s.id) /\ s.st \in Status
  /\ req.op \in {"import", "row"} =>
       \A a \in req.todo : Known(a.id) /\ a.st \in Status /\ a.files \in Dirs
  /\ req.op = "row" =>
       \A s \in req.seen : Over(s.id) /\ s.st \in Status /\ dir[s.id].man \in {None, s.id}

IInv == TypeOK /\ RowsHaveFiles /\ WriterAgrees /\ MigrationAgrees /\ HandlerAgrees

(* The rest of HistorySound: no row is taken for migrated that is not, and *)
(* an import brings one record at a time.                                  *)
Explained ==
  /\ mode = "files" =>
       /\ \A i \in Legacy : rows[i] # NoRow
       /\ interrupted \/ \A i \in Recorded : rows[i].res = "old" => i \in outputs
  /\ req.op = "row" => \A s, t \in req.seen : s.id = t.id
  /\ faults \in Nat /\ kills \in Nat
  /\ OldOnlyInterrupted /\ OrphansExplained
=============================================================================
