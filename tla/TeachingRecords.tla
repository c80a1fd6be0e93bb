---------------------------- MODULE TeachingRecords ----------------------------
(***************************************************************************)
(* What teachers build on the papers in History (teaching/store.py,        *)
(* teaching/service.py, api/teaching.py): corrections of a line, items of  *)
(* the question bank, a revision pack made of them and its export, and the *)
(* deletion of the papers under them.  The rows refer to the paper's row:  *)
(* corrections and their events go with it, a bank item forbids that it    *)
(* goes.                                                                   *)
(*                                                                         *)
(* Requests run one at a time: they await nothing between the version they *)
(* compare with If-Match and the version they write, so a request with an  *)
(* ETag that is out of date has no effect and is left out here.  Every     *)
(* paper has one line and one question.                                    *)
(***************************************************************************)
EXTENDS Naturals, FiniteSets

CONSTANTS Paper, Correction,
          MaxEdits,   \* bound of the model: changes of corrections and items
          MaxFaults   \* bound of the model: deletions cut off half-way

VARIABLES
  recorded,    \* papers with a row
  evidence,    \* papers with a directory
  correction,  \* per identifier: its row
  bank,        \* per paper: the row of its question
  pack,        \* the revision pack
  export,      \* the exported pack: status, items it names, versions it has
  approved,    \* versions of items that were ever approved
  edits, faults

vars == <<recorded, evidence, correction, bank, pack, export, approved,
          edits, faults>>
papers == <<recorded, evidence, faults>>
material == <<bank, pack, export, approved>>

Kind == {"line", "block"}   \* two kinds of correction that concern one line
(* "reviewed" is treated as "draft" is, and a pack's "retired" too.         *)
Shown == {"draft", "approved"}
Status == Shown \cup {"rejected"}

NoRow == [paper |-> 0, kind |-> "none", st |-> "none"]
NoItem == [st |-> "none", version |-> 0]

Init ==
  /\ recorded = {} /\ evidence = {}
  /\ correction = [c \in Correction |-> NoRow]
  /\ bank = [p \in Paper |-> NoItem]
  /\ pack = [st |-> "none", items |-> {}] /\ export = [st |-> "none", named |-> {}, items |-> {}]
  /\ approved = {}
  /\ edits = 0 /\ faults = 0

(* A job is completed, or a record imported where neither row nor          *)
(* directory is in the way.                                                *)
Arrive(p) ==
  /\ p \notin recorded /\ p \notin evidence
  /\ recorded' = recorded \cup {p} /\ evidence' = evidence \cup {p}
  /\ UNCHANGED <<correction, edits, faults>> /\ UNCHANGED material

Edit == edits < MaxEdits /\ edits' = edits + 1

-----------------------------------------------------------------------------
(* Corrections.                                                            *)

(* The unique index: one correction that counts per target.                *)
Free(c, p, kind, st) ==
  st \in Shown =>
    \A d \in Correction \ {c} :
      ~(correction[d].paper = p /\ correction[d].kind = kind /\ correction[d].st \in Shown)

CreateCorrection(c, p, kind, st) ==
  /\ Edit /\ correction[c] = NoRow
  /\ p \in recorded /\ p \in evidence /\ Free(c, p, kind, st)
  /\ correction' = [correction EXCEPT ![c] = [paper |-> p, kind |-> kind, st |-> st]]
  /\ UNCHANGED papers /\ UNCHANGED material

(* A rejected one may be taken up again, and so may one that was reverted, *)
(* which is the same with another name.                                    *)
UpdateCorrection(c, st) ==
  /\ Edit /\ correction[c] # NoRow /\ correction[c].paper \in evidence
  /\ Free(c, correction[c].paper, correction[c].kind, st)
  /\ correction' = [correction EXCEPT ![c].st = st]
  /\ UNCHANGED papers /\ UNCHANGED material

(* What the effective view puts in the place of a line: the approved       *)
(* correction of the line before that of the block.                        *)
Approved(p, kind) ==
  {c \in Correction : correction[c] = [paper |-> p, kind |-> kind, st |-> "approved"]}
Overlay(p) == IF Approved(p, "line") # {} THEN Approved(p, "line") ELSE Approved(p, "block")

-----------------------------------------------------------------------------
(* The question bank and the revision pack.                                *)

(* POST writes over an item that is there, PATCH does with an ETag.        *)
UpsertItem(p, st) ==
  /\ Edit /\ p \in recorded /\ p \in evidence
  /\ LET version == bank[p].version + 1
     IN /\ bank' = [bank EXCEPT ![p] = [st |-> st, version |-> version]]
        /\ approved' = IF st = "approved" THEN approved \cup {<<p, version>>} ELSE approved
  /\ UNCHANGED <<correction, pack, export>> /\ UNCHANGED papers

InBank == {p \in Paper : bank[p].st = "approved"}

(* An approved pack names approved items only; the items of a draft are    *)
(* not looked at.                                                          *)
SavePack(st, items) ==
  /\ st = "approved" => items \subseteq InBank
  /\ pack' = [st |-> st, items |-> items]
  /\ UNCHANGED <<correction, bank, export, approved, edits>> /\ UNCHANGED papers

(* Items that are no longer approved are left out of a draft and make the  *)
(* export of an approved pack fail; the paper of each item is read.        *)
ExportPack ==
  /\ pack.st # "none"
  /\ LET items == pack.items \cap InBank
     IN /\ pack.st = "approved" => items = pack.items
        /\ {p \in pack.items : bank[p] # NoItem} \subseteq evidence
        /\ export' = [st |-> pack.st, named |-> pack.items,
                   items |-> {<<p, bank[p].version>> : p \in items}]
  /\ UNCHANGED <<correction, bank, pack, approved, edits>> /\ UNCHANGED papers

-----------------------------------------------------------------------------
(* The deletion of one paper, of several or of all: the rows in one        *)
(* transaction, which fails as a whole for one item in the bank, and then  *)
(* the directories.                                                        *)
Delete(S) ==
  /\ S # {} /\ S \subseteq recorded
  /\ \A p \in S : bank[p] = NoItem
  /\ recorded' = recorded \ S
  /\ correction' = [c \in Correction |->
                      IF correction[c].paper \in S THEN NoRow ELSE correction[c]]
  /\ \E left \in SUBSET S :
       /\ evidence' = evidence \ (S \ left)
       /\ IF left = {} THEN UNCHANGED faults ELSE faults < MaxFaults /\ faults' = faults + 1
  /\ UNCHANGED edits /\ UNCHANGED material

Next ==
  \/ \E p \in Paper :
       \/ Arrive(p)
       \/ \E st \in Shown : UpsertItem(p, st)
       \/ \E c \in Correction, kind \in Kind, st \in Status : CreateCorrection(c, p, kind, st)
  \/ \E c \in Correction, st \in Status : UpdateCorrection(c, st)
  \/ \E S \in SUBSET Paper :
       Delete(S) \/ \E st \in Shown : SavePack(st, S)
  \/ ExportPack

Spec == Init /\ [][Next]_vars

-----------------------------------------------------------------------------
(* A question in the bank can be shown with its paper whatever is deleted  *)
(* and wherever a deletion is cut off, and no correction outlives its      *)
(* paper, to be applied to one that is imported under its identifier.      *)
MaterialHasPaper ==
  /\ \A p \in Paper : bank[p] # NoItem => p \in recorded \cap evidence
  /\ \A c \in Correction : correction[c] # NoRow => correction[c].paper \in recorded \cap evidence

(* One text stands for a line, in whatever order corrections are rejected, *)
(* reverted and taken up again.                                            *)
OneText == \A p \in Paper : Cardinality(Overlay(p)) <= 1

(* An export has only what a teacher approved, and that of an approved     *)
(* pack has every item it names, though items were changed, withdrawn or   *)
(* approved again since the pack was.                                      *)
ExportApproved ==
  /\ export.items \subseteq approved
  /\ export.st = "approved" => {e[1] : e \in export.items} = export.named

RecordsSound == MaterialHasPaper /\ OneText /\ ExportApproved

(* What they rest on: one correction that counts per target, and the       *)
(* version in the bank being an approved one whenever its status says so.  *)
TypeOK ==
  /\ recorded \subseteq Paper /\ evidence \subseteq Paper
  /\ correction \in [Correction -> [paper : Paper, kind : Kind, st : Status] \cup {NoRow}]
  /\ bank \in [Paper -> [st : Status, version : Nat] \cup {NoItem}]
  /\ pack \in [st : Shown \cup {"none"}, items : SUBSET Paper]

OneCounts ==
  \A c, d \in Correction :
    /\ correction[c].paper = correction[d].paper /\ correction[c].kind = correction[d].kind
    /\ correction[c].st \in Shown /\ correction[d].st \in Shown
    => c = d

BankApproved ==
  \A p \in Paper : bank[p].st = "approved" => <<p, bank[p].version>> \in approved

IInv == TypeOK /\ OneCounts /\ BankApproved /\ MaterialHasPaper /\ ExportApproved
=============================================================================
