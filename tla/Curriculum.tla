------------------------------ MODULE Curriculum ------------------------------
(***************************************************************************)
(* Objectives of a curriculum version: the import of a file                *)
(* (curriculum.py), single objectives and the publication (api.py).        *)
(*                                                                         *)
(* An import checks that the version is a draft, waits for the upload, and *)
(* then commits one objective after the other.                             *)
(***************************************************************************)
EXTENDS FiniteSets, Naturals, Sequences, SequencesExt

CONSTANTS Codes,      \* stable codes, without the case of their letters
          MaxRows,    \* rows of a file
          Replica,    \* server processes
          MaxImports, \* bound of the model: imports begun
          MaxFaults   \* bound of the model: processes that die

CurriculumAssumption == MaxRows \in Nat

VARIABLES
  status,      \* of the curriculum version
  objectives,  \* objectives stored: code, references, and the import
  import,      \* per process: the import under way
  finished,    \* imports that were answered as committed
  late,        \* objectives that came after the publication
  checkedIn,   \* imports whose check found a draft
  count, faults

vars == <<status, objectives, import, finished, late, checkedIn, count, faults>>

NoImport == [at |-> "idle", id |-> 0, rows |-> <<>>]

(* A row of a file; a row without a code, or whose references no row of    *)
(* the file has, is an error of the preview.                               *)
Missing == "no code"
Rows == [code : Codes \cup {Missing}, refs : {{}} \cup {{c} : c \in Codes}]
Files == SeqOf(Rows, MaxRows)

Known(file) == {file[k].code : k \in DOMAIN file} \ {Missing}

Valid(file) ==
  /\ \A k \in DOMAIN file : file[k].code # Missing
  /\ \A j, k \in DOMAIN file : j # k => file[j].code # file[k].code
  /\ \A k \in DOMAIN file : file[k].refs \subseteq Known(file)

Init ==
  /\ status = "draft" /\ objectives = {}
  /\ import = [p \in Replica |-> NoImport]
  /\ finished = {} /\ late = {} /\ checkedIn = {}
  /\ count = 0 /\ faults = 0

(* Before the upload is read the version is checked, and not afterwards.   *)
Begin(p) ==
  /\ import[p] = NoImport /\ count < MaxImports
  /\ status = "draft"
  /\ count' = count + 1
  /\ import' = [import EXCEPT ![p] = [at |-> "upload", id |-> count + 1, rows |-> <<>>]]
  /\ checkedIn' = checkedIn \cup {count + 1}
  /\ UNCHANGED <<status, objectives, finished, late, faults>>

(* The upload arrives.  With errors, and without `commit', the answer is   *)
(* only a preview.                                                         *)
Validate(p) ==
  /\ import[p].at = "upload"
  /\ \E file \in Files :
       import' = [import EXCEPT ![p] =
         IF Valid(file) THEN [@ EXCEPT !.at = "store", !.rows = file]
                                  ELSE NoImport]
  /\ UNCHANGED <<status, objectives, finished, late, checkedIn, count, faults>>

Add(code, refs, id) ==
  LET new == [code |-> code, refs |-> refs, of |-> id]
  IN /\ objectives' = objectives \cup {new}
     /\ late' = IF status = "draft" THEN late ELSE late \cup {new}

Store(p) ==
  LET rows == import[p].rows
  IN /\ import[p].at = "store"
     /\ IF rows = <<>>
        THEN /\ finished' = finished \cup {import[p].id}
             /\ import' = [import EXCEPT ![p] = NoImport]
             /\ UNCHANGED <<objectives, late>>
        ELSE /\ Add(Head(rows).code, Head(rows).refs, import[p].id)
             /\ import' = [import EXCEPT ![p].rows = Tail(rows)]
             /\ UNCHANGED finished
     /\ UNCHANGED <<status, checkedIn, count, faults>>

Die(p) ==
  /\ import[p] # NoImport /\ faults < MaxFaults
  /\ faults' = faults + 1
  /\ import' = [import EXCEPT ![p] = NoImport]
  /\ UNCHANGED <<status, objectives, finished, late, checkedIn, count>>

(* A single objective, whose prerequisites nobody looks up.                *)
CreateObjective(c) ==
  /\ status = "draft" /\ ~\E o \in objectives : o.code = c
  /\ Add(c, {}, 0)
  /\ UNCHANGED <<status, import, finished, checkedIn, count, faults>>

Publish ==
  /\ status = "draft"
  /\ status' = "published"
  /\ UNCHANGED <<objectives, import, finished, late, checkedIn, count, faults>>

Next ==
  \/ Publish
  \/ \E c \in Codes : CreateObjective(c)
  \/ \E p \in Replica : Begin(p) \/ Validate(p) \/ Store(p) \/ Die(p)

Spec == Init /\ [][Next]_vars

-----------------------------------------------------------------------------
(* A published version gets no objective but those of imports that had     *)
(* found it a draft before they waited for their upload.                   *)
LateOnlyFromEarlier == \A o \in late : o.of \in checkedIn

(* What an import that says committed has stored refers only to what it    *)
(* stored: the hierarchy and the prerequisites of the file are whole.  One *)
(* that died halfway leaves a part, whose references may be open.          *)
ImportedWhole ==
  \A id \in finished :
    LET mine == {o \in objectives : o.of = id}
    IN \A o \in mine : \A c \in o.refs : \E n \in mine : n.code = c

-----------------------------------------------------------------------------
(* What these rest on: the objectives an import has stored refer to one    *)
(* another and to the rows it has left, and every import has its number.   *)
ValidRow == [code : Codes, refs : SUBSET Codes]
Imports(n) == [at : {"idle", "upload", "store"}, id : 0 .. n, rows : Seq(ValidRow)]
Objectives(n) == [code : Codes, refs : SUBSET Codes, of : 0 .. n]

Mine(stored, id) == {o \in stored : o.of = id}
RowsOf(rows) == {rows[k] : k \in DOMAIN rows}
Complete(S) == \A o \in S : \A c \in o.refs : \E n \in S : n.code = c

UnderWay(t, stored, open) ==
  /\ t.at # "idle" /\ t.id \in open
  /\ t.at = "upload" => Mine(stored, t.id) = {}
  /\ Complete(Mine(stored, t.id) \cup RowsOf(t.rows))

IInv ==
  /\ count \in Nat
  /\ import \in [Replica -> Imports(count)]
  /\ checkedIn \subseteq 1 .. count /\ finished \subseteq 1 .. count
  /\ objectives \subseteq Objectives(count)
  /\ \A p \in Replica : import[p] # NoImport =>
       /\ UnderWay(import[p], objectives, checkedIn \ finished)
       /\ \A q \in Replica \ {p} : import[q] # NoImport => import[q].id # import[p].id
  /\ LateOnlyFromEarlier /\ ImportedWhole
==============================================================================
