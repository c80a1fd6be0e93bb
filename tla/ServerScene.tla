----------------------------- MODULE ServerScene ------------------------------
(***************************************************************************)
(* What the server processes of an institution do with their rows: reviewed*)
(* resources, dataset releases, imports of curricula, pages of lists, and  *)
(* clients, launches and identities.  These modules share no state, so a   *)
(* behaviour is one of the module it began with (focus), and the variables *)
(* of the others stay as they were.                                        *)
(***************************************************************************)
EXTENDS ResourceStore

CONSTANTS
  Items, Reviewers, MaxRequests,      \* see Datasets and Identity
  Codes, MaxRows, MaxImports, MaxFaults,  \* see Curriculum
  Listed, Limit, MaxTime,             \* see Paging
  Learners                            \* see Identity

VARIABLES focus,
  project, item, review, releases, raced, chosen,
  status, objectives, import, finished, late, checkedIn,
  updated, matches, now, cursor, listed, stable, done,
  client, secrets, nonce, launched, vault, handling, met,
  count, faults

D == INSTANCE Datasets WITH tx <- review
C == INSTANCE Curriculum
P == INSTANCE Paging WITH Resources <- Listed
Y == INSTANCE Identity WITH tx <- handling, overlap <- met

ASSUME ServerAssumption == C!CurriculumAssumption /\ P!PagingAssumption

datasets == <<project, item, review, releases, raced, chosen>>
curriculum == <<status, objectives, import, finished, late, checkedIn>>
pages == <<updated, matches, now, cursor, listed, stable, done>>
identity == <<client, secrets, nonce, launched, vault, handling, met>>
all == <<vars, focus, datasets, curriculum, pages, identity, count, faults>>

NoResources ==
  /\ row = [r \in Resources |-> Absent] /\ object = {}
  /\ reads = [r \in Resources |-> {}] /\ tx = [p \in Replica |-> Closed]
  /\ log = {} /\ lastSeq = 0 /\ record = [k \in Keys |-> [res |-> 0, body |-> "none"]]
  /\ answered = {} /\ reader = [after |-> 0, sent |-> {}]
  /\ ids = 0 /\ overlap = {} /\ disturbed = {}

NoDatasets ==
  /\ project = "draft" /\ item = [i \in Items |-> D!NoItem]
  /\ review = [p \in Replica |-> D!Closed]
  /\ releases = {} /\ raced = {} /\ chosen = {} /\ count = 0

NoPages ==
  /\ updated = [r \in Listed |-> 0] /\ matches = {} /\ now = 0
  /\ cursor = P!Top /\ listed = [r \in Listed |-> 0] /\ stable = {} /\ done = FALSE

SceneInit ==
  /\ focus \in {"resources", "datasets", "curriculum", "pages", "identity"}
  /\ IF focus = "resources" THEN Init ELSE NoResources
  /\ IF focus = "datasets" THEN D!Init ELSE NoDatasets
  /\ IF focus = "pages" THEN P!Init ELSE NoPages
  /\ C!Init /\ Y!Init

(* Two requests, and a third for the row that is approved, held and then   *)
(* met by retention.                                                       *)
ResourceStep == /\ focus = "resources" /\ Next
                /\ ids' > 2 => \E r \in Resources : row[r].type = "answer_script"
                /\ UNCHANGED <<focus, datasets, curriculum, pages, identity,
                               count, faults>>
DatasetStep == /\ focus = "datasets" /\ D!Next
               /\ UNCHANGED <<vars, focus, curriculum, pages, identity, faults>>
CurriculumStep == /\ focus = "curriculum" /\ C!Next
                  /\ UNCHANGED <<vars, focus, datasets, pages, identity>>
PageStep == /\ focus = "pages" /\ P!Next
            /\ UNCHANGED <<vars, focus, datasets, curriculum, identity, count,
                           faults>>
IdentityStep == /\ focus = "identity" /\ Y!Next
                /\ UNCHANGED <<vars, focus, datasets, curriculum, pages, faults>>

Scene ==
  /\ SceneInit
  /\ [][\/ ResourceStep \/ DatasetStep \/ CurriculumStep
        \/ PageStep \/ IdentityStep]_all

-----------------------------------------------------------------------------
(* A released item was verified by two persons (Datasets); a published     *)
(* version gets nothing but the rest of an import that began before, and a *)
(* finished import is whole (Curriculum).                                  *)
ContentReviewed ==
  D!ReleasedTwiceVerified /\ C!LateOnlyFromEarlier /\ C!ImportedWhole

(* Following the cursors lists what was left alone exactly once (Paging).  *)
StableListedOnce == P!StableListedOnce

(* Launch states and identities are used once, and revocation is final     *)
(* (Identity).                                                             *)
AccessSound == [][Y!UsedOnce']_all /\ Y!RevokedStays
=============================================================================
