---------------------------- MODULE ResourceStore ----------------------------
(***************************************************************************)
(* The reviewed resources of the institution server: service.py, the       *)
(* endpoints of api.py and catalog.py that use it, retention.py and the    *)
(* reader of events.py.                                                    *)
(*                                                                         *)
(* A handler awaits nothing, so in one process handlers run one by one;    *)
(* the deployment has several processes (Replica), whose transactions      *)
(* overlap.  PostgreSQL runs them at READ COMMITTED: a query sees what is  *)
(* committed, an UPDATE or DELETE holds the row until its transaction      *)
(* ends, and an UPDATE writes the columns that were assigned.  Sessions do *)
(* not flush by themselves (database.py), so rows are locked where the     *)
(* code flushes.                                                           *)
(*                                                                         *)
(* A payload is the set of the edits it contains; a client sends back the  *)
(* payload it read with its own edit.  Edits are named by the transaction  *)
(* that made them, and Hold stands for the legal hold in a payload.        *)
(***************************************************************************)
EXTENDS FiniteSets, FiniteSetsExt, Naturals

CONSTANTS Resources,  \* resources, numbered from 1
          Replica,    \* server processes
          Keys,       \* idempotency keys that clients use
          Types,      \* types of the resource that exists at first
          NewTypes,   \* types of the resources clients create
          ObjectOf(_),\* stored object a resource names: rows of equal content share one
          MaxTx       \* bound of the model: requests that write

ASSUME ResourceAssumption == 0 \notin Resources /\ MaxTx \in Nat

VARIABLES
  row,        \* committed rows of the table of resources
  object,     \* stored objects that exist
  reads,      \* per resource: version and payload clients have seen
  tx,         \* per replica: the handler and its open transaction
  log,        \* committed audit events
  lastSeq,    \* last sequence drawn for an audit event
  record,     \* idempotency records
  answered,   \* key, body and resource of every 201
  reader,     \* position of a client of the event stream, and what it got
  ids,        \* requests begun so far
  overlap,    \* pairs of requests that were under way together
  disturbed   \* resources two requests have worked on together

vars == <<row, object, reads, tx, log, lastSeq, record, answered, reader, ids,
          overlap, disturbed>>

Hold == 0
NoKey == "no key"

AllowedTransitions(type, status) ==
  LET version(s) == CASE s = "draft" -> {"published"}
                      [] s = "published" -> {"superseded", "retired"}
                      [] s = "superseded" -> {"retired"}
                      [] OTHER -> {}
      overlay(s) == CASE s = "draft" -> {"reviewed", "rejected"}
                      [] s = "reviewed" -> {"approved", "rejected", "draft"}
                      [] s = "approved" -> {"reverted"}
                      [] s = "rejected" -> {"draft"}
                      [] OTHER -> {}
      review(s) ==
        CASE s \in {"open", "changes_requested"} -> {"in_review", "cancelled"}
          [] s = "in_review" ->
               {"approved", "changes_requested", "rejected", "cancelled"}
          [] OTHER -> {}
      script(s) == CASE s \in {"draft", "changes_requested"} -> {"ready_for_review"}
                     [] s = "ready_for_review" -> {"approved", "changes_requested"}
                     [] OTHER -> {}
      description(s) ==
        CASE s = "draft" -> {"approved", "rejected", "needs_specialist"}
          [] s = "needs_specialist" -> {"approved", "rejected"}
          [] OTHER -> {}
      project(s) == CASE s = "draft" -> {"active", "archived"}
                      [] s = "active" -> {"archived"}
                      [] OTHER -> {}
  IN CASE type \in {"curriculum_version", "rubric_version", "taxonomy_version",
                    "syllabus_version"} -> version(status)
       [] type = "correction_overlay" -> overlay(status)
       [] type = "review_task" -> review(status)
       [] type = "answer_script" -> script(status)
       [] type = "accessibility_description" -> description(status)
       [] type = "dataset_project" -> project(status)

Publishable == {"curriculum_version", "rubric_version", "taxonomy_version",
                "syllabus_version"}

(* types retention accepts, and the statuses it takes for terminal         *)
Retainable == {"archive_document", "evidence_version", "review_task",
               "answer_script", "answer_response", "dataset_item",
               "dataset_release", "accessibility_description", "worker_job",
               "worker_source"}
Terminal == {"approved", "archived", "cancelled", "completed", "consumed",
             "expired", "published", "rejected", "released", "retired",
             "superseded"}

(* Types with a collection of the catalog, whose routes create a row in     *)
(* any status and change payload and status under the general rules.       *)
Catalog == {"rubric_version", "taxonomy_version", "syllabus_version",
            "correction_overlay", "answer_script", "accessibility_description",
            "dataset_project"}

Statuses(type) ==
  {s \in {"draft", "open", "in_review", "changes_requested", "ready_for_review",
          "needs_specialist", "active", "reviewed"} :
     AllowedTransitions(type, s) # {}}
    \cup UNION {AllowedTransitions(type, s) : s \in {"draft", "in_review", "published"}}

(* The statuses a new row may have; the schemas of the other routes are    *)
(* narrower.                                                               *)
FirstStatus(type) ==
  IF type \in Catalog THEN Statuses(type)
  ELSE IF type = "review_task" THEN {"open", "in_review"} ELSE {"draft"}

(* The status in which a row waits for the endpoint of its type.           *)
Awaiting(type) == CASE type = "review_task" -> "in_review"
                    [] type = "answer_script" -> "ready_for_review"
                    [] OTHER -> "draft"

Absent == [type |-> "none", status |-> "none", version |-> 0, payload |-> {},
           immutable |-> FALSE]
Fresh(type, status) == [Absent EXCEPT !.type = type, !.status = status, !.version = 1]

Closed == [at |-> "idle", op |-> "none", id |-> 0, res |-> {}, new |-> Absent,
           left |-> {}, locks |-> {}, prev |-> 0, events |-> {}, key |-> NoKey]

Init ==
  \E first \in {Absent} \cup {Fresh(t, Awaiting(t)) : t \in Types} :
    /\ row = [r \in Resources |-> IF r = 1 THEN first ELSE Absent]
    /\ reads = [r \in Resources |->
         IF row[r] # Absent THEN {[version |-> 1, payload |-> {}]} ELSE {}]
    /\ object = {ObjectOf(r) : r \in {q \in Resources : row[q] # Absent}}
    /\ tx = [p \in Replica |-> Closed]
    /\ log = {} /\ lastSeq = 0
    /\ record = [k \in Keys |-> [res |-> 0, body |-> "none"]]
    /\ answered = {} /\ reader = [after |-> 0, sent |-> {}]
    /\ ids = 0 /\ overlap = {} /\ disturbed = {}

-----------------------------------------------------------------------------
Open(p) == tx[p].at # "idle"
Others(p) == {q \in Replica \ {p} : Open(q)}
Unlocked(p, S) == \A q \in Others(p) : tx[q].locks \cap S = {}

(* A request begins: its handler has run the queries and passed the checks *)
(* of its endpoint.  The object of a new row is put before the row.        *)
Begin(p, request) ==
  /\ ~Open(p) /\ ids < MaxTx
  /\ ids' = ids + 1
  /\ tx' = [tx EXCEPT ![p] = [request EXCEPT !.id = ids + 1]]
  /\ overlap' = overlap \cup {{ids + 1, tx[q].id} : q \in Others(p)}
  /\ disturbed' = disturbed \cup
       {r \in request.res : \E q \in Others(p) : r \in tx[q].res}
  /\ object' = object \cup
       {ObjectOf(r) : r \in IF request.op = "create" THEN request.res ELSE {}}
  /\ UNCHANGED <<row, reads, log, lastSeq, record, answered, reader>>

RequireMatch(r, seen) == seen.version = row[r].version

Editable(r) ==
  ~(row[r].immutable \/ (row[r].type \in Publishable /\ row[r].status # "draft"))

(* What a client that read `seen' sends: its edit, or a hold set or lifted. *)
Payloads(seen, id) ==
  {seen.payload \cup {id},
   IF Hold \in seen.payload THEN seen.payload \ {Hold} ELSE seen.payload \cup {Hold}}

(* mutant: the precondition is not tested                                  *)
PatchBlind(p, r) ==
  /\ row[r].type \in Catalog /\ Editable(r)
  /\ \E seen \in reads[r] : \E new \in Payloads(seen, ids + 1) :
       Begin(p, [Closed EXCEPT !.at = "update", !.op = "patch", !.res = {r},
            !.new = [row[r] EXCEPT !.payload = new, !.version = @ + 1]])

(* PATCH of the payload or of the status of a resource of the catalog.      *)
Patch(p, r) ==
  /\ row[r].type \in Catalog /\ Editable(r)
  /\ \E seen \in reads[r] :
       /\ RequireMatch(r, seen)
       /\ \/ \E new \in Payloads(seen, ids + 1) :
               Begin(p, [Closed EXCEPT !.at = "update", !.op = "patch", !.res = {r},
                 !.new = [row[r] EXCEPT !.payload = new, !.version = @ + 1]])
          \/ \E next \in AllowedTransitions(row[r].type, row[r].status) :
               Begin(p, [Closed EXCEPT !.at = "update", !.op = "status", !.res = {r},
                 !.new = [row[r] EXCEPT !.status = next, !.version = @ + 1]])

(* PATCH of the assignment of a review: three fields of the payload the    *)
(* handler reads.                                                          *)
Assign(p, r) ==
  /\ row[r].type = "review_task" /\ Editable(r)
  /\ \E seen \in reads[r] : RequireMatch(r, seen)
  /\ Begin(p, [Closed EXCEPT !.at = "update", !.op = "patch", !.res = {r},
       !.new = [row[r] EXCEPT !.payload = @ \cup {ids + 1}, !.version = @ + 1]])

(* A transition to a status the table allows after the one the handler has  *)
(* read; what is published becomes immutable.                              *)
TransitionTo(p, r, next, op, payload) ==
  /\ \E seen \in reads[r] : RequireMatch(r, seen)
  /\ next \in AllowedTransitions(row[r].type, row[r].status)
  /\ Begin(p, [Closed EXCEPT !.at = "previous", !.op = op, !.res = {r},
       !.new = [row[r] EXCEPT !.status = next, !.version = @ + 1, !.payload = payload,
                  !.immutable = @ \/ (row[r].type \in Publishable
                                        /\ next = "published")]])

(* The decision on a review; its reasons go to the audit event.            *)
Decide(p, r) ==
  /\ row[r].type = "review_task"
  /\ \E decision \in {"approved", "changes_requested", "rejected"} :
       TransitionTo(p, r, decision, "transition", row[r].payload)

Publish(p, r) ==
  /\ row[r].type \in {"curriculum_version", "rubric_version"}
  /\ TransitionTo(p, r, "published", "transition", row[r].payload)

(* A teacher's approval and a verification write their note into the       *)
(* payload the handler has read.                                           *)
Approve(p, r) ==
  /\ row[r].type = "answer_script" /\ row[r].status = "ready_for_review"
  /\ TransitionTo(p, r, "approved", "approve", row[r].payload \cup {ids + 1})

Verify(p, r) ==
  /\ row[r].type = "accessibility_description"
  /\ \E decision \in {"approved", "rejected", "needs_specialist"} :
       TransitionTo(p, r, decision, "approve", row[r].payload \cup {ids + 1})

(* POST of a new resource.  A key that has a record is answered from it if *)
(* the body is the same, and refused otherwise.                            *)
Create(p, r, k, t) ==
  /\ row[r] = Absent /\ reads[r] = {}
  /\ \A q \in Replica : r \notin tx[q].res
  /\ k # NoKey => record[k].res = 0
  /\ \E s \in FirstStatus(t) :
       Begin(p, [Closed EXCEPT !.at = "previous", !.op = "create", !.res = {r},
                               !.new = Fresh(t, s), !.key = k])

Replay(k, t) ==
  /\ record[k].res # 0 /\ record[k].body = t
  /\ answered' = answered \cup {<<k, t, record[k].res>>}
  /\ UNCHANGED <<row, object, reads, tx, log, lastSeq, record, reader, ids, overlap,
                 disturbed>>

(* POST of /retention/apply: those rows of the requested types in a        *)
(* terminal status that are older than the limit, without the held ones.   *)
(* Days may pass between any two requests.                                 *)
Deletable(v) == /\ v.type \in Retainable /\ v.status \in Terminal
                /\ Hold \notin v.payload

(* mutant: held rows are deleted with the others                           *)
RetainHeld(p) ==
  \E candidates \in SUBSET {r \in Resources :
                            Deletable([row[r] EXCEPT !.payload = @ \ {Hold}])} :
    /\ candidates # {}
    /\ Begin(p, [Closed EXCEPT !.at = "previous", !.op = "retain",
                               !.res = candidates, !.left = candidates])

Retain(p) ==
  \E candidates \in SUBSET {r \in Resources : Deletable(row[r])} :
    /\ candidates # {}
    /\ Begin(p, [Closed EXCEPT !.at = "previous", !.op = "retain",
                               !.res = candidates, !.left = candidates])

-----------------------------------------------------------------------------
(* The steps of an open transaction.  patch flushes its row before the     *)
(* audit event; a row that was deleted meanwhile fails the handler.        *)
Update(p) ==
  /\ tx[p].at = "update" /\ Unlocked(p, tx[p].res)
  /\ tx' = [tx EXCEPT ![p] =
       IF \E r \in tx[p].res : row[r] = Absent THEN Closed
       ELSE [@ EXCEPT !.at = "previous", !.locks = tx[p].res]]
  /\ UNCHANGED <<row, object, reads, log, lastSeq, record, answered, reader, ids,
                 overlap, disturbed>>

(* mutant: the query finds the event that was just added                   *)
PreviousOwn(p) ==
  /\ tx[p].at = "previous"
  /\ tx' = [tx EXCEPT ![p].at = "insert", ![p].prev = lastSeq + 1]
  /\ UNCHANGED <<row, object, reads, log, lastSeq, record, answered, reader, ids,
                 overlap, disturbed>>

(* audit_subject looks for the last event it sees, ...                     *)
Previous(p) ==
  /\ tx[p].at = "previous"
  /\ tx' = [tx EXCEPT ![p].at = "insert",
               ![p].prev = Max({e.seq : e \in log \cup tx[p].events} \cup {0})]
  /\ UNCHANGED <<row, object, reads, log, lastSeq, record, answered, reader, ids,
                 overlap, disturbed>>

(* ... and flushes a new one, with the status of a transition and the      *)
(* deletions marked before.  Retention goes on with its next row.          *)
Insert(p) ==
  LET t == tx[p]
      marked == CASE t.op \in {"transition", "approve"} -> t.res
                  [] t.op = "retain" -> t.res \ t.left
                  [] OTHER -> {}
      gone == t.op \in {"transition", "approve"} /\ \E r \in t.res : row[r] = Absent
  IN /\ t.at = "insert" /\ Unlocked(p, marked)
     /\ \E done \in IF t.op = "retain" THEN {{r} : r \in t.left} ELSE {{}} :
          tx' = [tx EXCEPT ![p] =
            IF gone THEN Closed
            ELSE [t EXCEPT
              !.at = IF t.left \ done # {} THEN "previous" ELSE "commit",
              !.left = @ \ done, !.locks = @ \cup marked,
              !.events = @ \cup {[seq |-> lastSeq + 1, prev |-> t.prev, id |-> t.id]}]]
     /\ lastSeq' = lastSeq + 1
     /\ UNCHANGED <<row, object, reads, log, record, answered, reader, ids, overlap,
                    disturbed>>

(* What the transaction makes of a row: the columns it assigned.           *)
Written(t, r) ==
  CASE t.op = "create" -> t.new
    [] t.op = "patch" -> [row[r] EXCEPT !.payload = t.new.payload,
                            !.version = t.new.version]
    [] t.op = "status" -> [row[r] EXCEPT !.status = t.new.status,
                            !.version = t.new.version]
    [] t.op = "transition" -> [row[r] EXCEPT !.status = t.new.status,
                            !.version = t.new.version,
                            !.immutable = @ \/ t.new.immutable]
    [] t.op = "approve" -> [row[r] EXCEPT !.status = t.new.status,
                            !.payload = t.new.payload,
                            !.version = t.new.version]
    [] t.op = "retain" -> Absent

(* The commit, after which the answer is sent, the idempotency record      *)
(* added or the stored objects deleted.                                    *)
Commit(p) ==
  LET t == tx[p]
      answer == t.op # "retain" /\ t.key = NoKey
  IN /\ t.at = "commit"
     /\ t.op = "retain" => Unlocked(p, t.res)
     /\ row' = [r \in Resources |-> IF r \in t.res THEN Written(t, r) ELSE row[r]]
     /\ reads' = [r \in Resources |->
          IF r \in t.res /\ t.op # "retain"
          THEN reads[r] \cup {[version |-> row'[r].version, payload |-> row'[r].payload]}
          ELSE reads[r]]
     /\ log' = log \cup t.events
     /\ tx' = [tx EXCEPT ![p] =
          IF answer THEN Closed
          ELSE [Closed EXCEPT !.at = IF t.op = "retain" THEN "purge" ELSE "record",
                  !.op = t.op, !.id = t.id, !.res = t.res, !.new = t.new,
                  !.key = t.key]]
     /\ UNCHANGED <<object, lastSeq, record, answered, reader, ids, overlap, disturbed>>

(* mutant: the handler answers although the key was taken meanwhile        *)
RecordAnyway(p) ==
  LET t == tx[p]
      r == CHOOSE x \in t.res : TRUE
  IN /\ t.at = "record"
     /\ record' = [record EXCEPT ![t.key] = [res |-> r, body |-> t.new.type]]
     /\ answered' = answered \cup {<<t.key, t.new.type, r>>}
     /\ tx' = [tx EXCEPT ![p] = Closed]
     /\ UNCHANGED <<row, object, reads, log, lastSeq, reader, ids, overlap, disturbed>>

(* The idempotency record is a second transaction; the unique constraint   *)
(* fails it if another handler has recorded the key.                       *)
Record(p) ==
  LET t == tx[p]
      r == CHOOSE x \in t.res : TRUE
  IN /\ t.at = "record"
     /\ IF record[t.key].res = 0
        THEN /\ record' = [record EXCEPT ![t.key] = [res |-> r, body |-> t.new.type]]
             /\ answered' = answered \cup {<<t.key, t.new.type, r>>}
        ELSE UNCHANGED <<record, answered>>
     /\ tx' = [tx EXCEPT ![p] = Closed]
     /\ UNCHANGED <<row, object, reads, log, lastSeq, reader, ids, overlap, disturbed>>

(* Objects are deleted after the commit, one by one; failures are counted  *)
(* and left.  The process may die before the last one (Abort).             *)
Purge(p) ==
  /\ tx[p].at = "purge"
  /\ \E S \in SUBSET tx[p].res : object' = object \ {ObjectOf(r) : r \in S}
  /\ tx' = [tx EXCEPT ![p] = Closed]
  /\ UNCHANGED <<row, reads, log, lastSeq, record, answered, reader, ids, overlap,
                 disturbed>>

(* The process dies or the database refuses: what is not committed is gone.*)
Abort(p) ==
  /\ Open(p)
  /\ tx' = [tx EXCEPT ![p] = Closed]
  /\ UNCHANGED <<row, object, reads, log, lastSeq, record, answered, reader, ids,
                 overlap, disturbed>>

-----------------------------------------------------------------------------
(* The event stream reads the events after its position and sends them in  *)
(* their order.                                                            *)
Unsent == {e \in log : e.seq > reader.after}

(* mutant: the stream goes on after the last sequence drawn                *)
StreamAhead ==
  /\ Unsent # {}
  /\ reader' = [after |-> lastSeq, sent |-> reader.sent \cup Unsent]
  /\ UNCHANGED <<row, object, reads, tx, log, lastSeq, record, answered, ids, overlap,
                 disturbed>>

Stream ==
  /\ Unsent # {}
  /\ reader' = [after |-> Max({e.seq : e \in Unsent}), sent |-> reader.sent \cup Unsent]
  /\ UNCHANGED <<row, object, reads, tx, log, lastSeq, record, answered, ids, overlap,
                 disturbed>>

Next ==
  \/ \E p \in Replica :
       \/ \E r \in Resources :
            \/ Patch(p, r) \/ Assign(p, r)
            \/ Decide(p, r) \/ Publish(p, r) \/ Approve(p, r) \/ Verify(p, r)
            \/ \E k \in Keys \cup {NoKey}, t \in NewTypes : Create(p, r, k, t)
       \/ Retain(p)
       \/ Update(p) \/ Previous(p) \/ Insert(p) \/ Commit(p)
       \/ Record(p) \/ Purge(p) \/ Abort(p)
  \/ \E k \in Keys, t \in NewTypes : Replay(k, t)
  \/ Stream

Spec == Init /\ [][Next]_vars

-----------------------------------------------------------------------------
TypeOK ==
  /\ \A r \in Resources :
       /\ row[r].version \in 0 .. MaxTx + 1 /\ row[r].payload \subseteq 0 .. MaxTx
       /\ row[r] = Absent \/ row[r].type \in Types \cup NewTypes
       /\ \A s \in reads[r] : s.version \in 1 .. MaxTx + 1
  /\ object \subseteq {ObjectOf(r) : r \in Resources} /\ disturbed \subseteq Resources
  /\ \A p \in Replica :
       /\ tx[p].at \in {"idle", "update", "previous", "insert", "commit", "record", "purge"}
       /\ tx[p].res \subseteq Resources /\ tx[p].left \subseteq tx[p].res
       /\ tx[p].locks \subseteq tx[p].res /\ tx[p].id \in 0 .. MaxTx
  /\ \A e \in log : e.prev < e.seq /\ e.seq \in 1 .. lastSeq
  /\ \A k \in Keys : record[k].res \in Resources \cup {0}

(* An edit that was saved is in every later version of its resource, as    *)
(* long as no two requests worked on the resource together: the            *)
(* precondition is on every path that writes a payload (service.patch,     *)
(* update_review_assignment, approve_answer_script, verify).               *)
EditsKept ==
  [][\A r \in Resources \ disturbed :
       row[r] # Absent /\ row'[r] # Absent => row[r].payload \ {Hold} \subseteq row'[r].payload]_vars

(* Two teachers' edits: the documentation says that no stale edit silently *)
(* overwrites another teacher's (README.md, "Assignment changes are ETag   *)
(* protected"), whoever else is at work.                                   *)
NoStaleEdit ==
  [][\A r \in Resources :
       row[r] # Absent /\ row'[r] # Absent => row[r].payload \ {Hold} \subseteq row'[r].payload]_vars

(* What is published stays as it was, statuses change along the transition *)
(* table, and a row is deleted only by retention, in a terminal status     *)
(* and without a legal hold: again unless two requests met.                *)
RecordsKept ==
  [][\A r \in Resources \ disturbed : row[r] # Absent /\ row'[r] # row[r] =>
       \/ row'[r] = Absent /\ Deletable(row[r])
       \/ /\ ~Editable(r) => row'[r].payload = row[r].payload
          /\ row[r].immutable => row'[r].immutable
          /\ row'[r].status \in {row[r].status}
                \cup AllowedTransitions(row[r].type, row[r].status)]_vars

(* A resource that is there has its object: retention deletes objects only *)
(* after the rows, wherever it is interrupted.  What it does not look at   *)
(* is whether another row names the object of a row it has deleted.        *)
Deleted(r) == row[r] = Absent /\ reads[r] # {}
ObjectsKept ==
  \A r \in Resources : row[r] # Absent /\ ObjectOf(r) \notin object =>
    \E q \in Resources : Deleted(q) /\ ObjectOf(q) = ObjectOf(r)

(* The audit chain forks only where two requests were under way together:  *)
(* one after the other they append to one chain.                           *)
ChainLinear ==
  \A e, f \in log : e # f /\ e.prev = f.prev => {e.id, f.id} \in overlap

(* A client of the event stream misses an event only if its transaction    *)
(* overlapped that of a later event it was sent.                           *)
NothingSkipped ==
  \A e \in log : e.seq <= reader.after /\ e \notin reader.sent =>
    \E f \in reader.sent : f.seq > e.seq /\ {e.id, f.id} \in overlap

(* All answers to one key and body name the same resource, although the    *)
(* record of the key is committed after the resource and either may fail.  *)
OneAnswerPerKey ==
  \A a, b \in answered : a[1] = b[1] /\ a[2] = b[2] => a[3] = b[3]

(* A row has its object wherever retention is interrupted, and a key of a  *)
(* creation names one resource whoever answers it and whatever failed.     *)
CreatedOnce == ObjectsKept /\ OneAnswerPerKey

(* The audit chain forks, and the event stream misses an event, only where *)
(* two transactions overlapped.                                            *)
EventsInOrder == ChainLinear /\ NothingSkipped

-----------------------------------------------------------------------------
(* What these rest on: the inductive invariant.                            *)
Pending(t) == t.at \in {"update", "previous", "insert", "commit"}
Changing == {"patch", "status", "transition", "approve"}

StoredRow(v, n) ==
  /\ v \in [type : Types \cup NewTypes, status : {v.status}, version : 1 .. n + 1,
            payload : SUBSET (0 .. n), immutable : BOOLEAN]
  /\ v.immutable => v.type \in Publishable

Version(n) == [version : 1 .. n + 1, payload : SUBSET (0 .. n)]

Event(n, last) ==
  {e \in [seq : 1 .. last, prev : 0 .. last, id : 1 .. n] : e.prev < e.seq}

(* A handler: its places, and what its operation makes of the fields; n is *)
(* the number of requests begun, last the last sequence drawn.             *)
IsRequest(t, n, last) ==
  /\ t \in [at : {"idle", "update", "previous", "insert", "commit", "record", "purge"},
            op : Changing \cup {"none", "create", "retain"}, id : 0 .. n,
            res : SUBSET Resources, new : {t.new}, left : SUBSET t.res,
            locks : SUBSET t.res, prev : 0 .. last, events : SUBSET Event(n, last),
            key : Keys \cup {NoKey}]
  /\ IF t.at = "idle" THEN t = Closed ELSE t.id # 0 /\ t.op # "none"
  /\ \A e \in t.events : e.id = t.id
  /\ ~Pending(t) => t.events = {}
  /\ t.at = "update" => t.op \in {"patch", "status"}
  /\ t.at = "record" => t.key # NoKey
  /\ t.at = "purge" => t.op = "retain"
  /\ t.key # NoKey => t.op = "create"
  /\ t.op = "create" => \E r \in Resources : t.res = {r}
  /\ t.op = "create" \/ (t.op \in Changing /\ Pending(t)) => StoredRow(t.new, n)

Typed ==
  /\ row = [r \in Resources |-> row[r]]
  /\ \A r \in Resources : row[r] = Absent \/ StoredRow(row[r], ids)
  /\ reads \in [Resources -> SUBSET Version(ids)]
  /\ object \subseteq {ObjectOf(r) : r \in Resources} /\ disturbed \subseteq Resources
  /\ tx = [p \in Replica |-> tx[p]] /\ \A p \in Replica : IsRequest(tx[p], ids, lastSeq)
  /\ log \subseteq Event(ids, lastSeq)
  /\ lastSeq \in Nat /\ ids \in 0 .. MaxTx
  /\ record \in [Keys -> [res : Resources \cup {0}, body : Types \cup NewTypes \cup {"none"}]]
  /\ reader \in [after : 0 .. lastSeq, sent : SUBSET log]

(* Requests under way have numbers of their own and are known to overlap.  *)
Together ==
  \A p, q \in Replica : p # q /\ Open(p) /\ Open(q) =>
    /\ tx[p].id # tx[q].id /\ {tx[p].id, tx[q].id} \in overlap
    /\ tx[p].res \cap tx[q].res \subseteq disturbed

(* Events, committed or not: two have one predecessor, and one is drawn    *)
(* while another is not committed, only if their requests overlapped.      *)
Events == log \cup UNION {tx[p].events : p \in Replica}

Chained ==
  /\ \A e, f \in Events : e.seq = f.seq => e = f
  /\ \A e, f \in Events : e # f /\ e.prev = f.prev => {e.id, f.id} \in overlap
  /\ \A p \in Replica : tx[p].at = "insert" =>
       \A f \in Events : f.prev = tx[p].prev => {tx[p].id, f.id} \in overlap
  /\ \A p \in Replica : Pending(tx[p]) => \A f \in log : f.id # tx[p].id
  /\ \A p \in Replica : \A e \in tx[p].events, f \in Events :
       f.seq > e.seq /\ f.id # e.id => {e.id, f.id} \in overlap

Overtaken(e) == \E f \in reader.sent : f.seq > e.seq /\ {e.id, f.id} \in overlap

Streamed ==
  /\ NothingSkipped
  /\ \A p \in Replica : \A e \in tx[p].events : e.seq <= reader.after => Overtaken(e)

(* A row that is or was there, and one about to be, has its object unless  *)
(* retention took it with another row.                                     *)
HasObject(r) == \/ ObjectOf(r) \in object
                \/ \E q \in Resources : Deleted(q) /\ ObjectOf(q) = ObjectOf(r)

Stocked ==
  /\ \A r \in Resources : row[r] # Absent => reads[r] # {}
  /\ \A r \in Resources : reads[r] # {} => HasObject(r)
  /\ \A p \in Replica : \A r \in tx[p].res :
       /\ tx[p].op # "create" => reads[r] # {}
       /\ tx[p].at = "purge" => Deleted(r)
       /\ tx[p].op = "create" /\ Pending(tx[p]) =>
            /\ row[r] = Absent /\ reads[r] = {} /\ HasObject(r)
            /\ \A q \in Replica \ {p} : r \notin tx[q].res

(* A row that is about to be changed keeps its type, and is locked and     *)
(* there.                                                                  *)
Held ==
  \A p \in Replica : tx[p].op \in Changing =>
    /\ Pending(tx[p]) =>
         \A r \in tx[p].res : row[r] # Absent => row[r].type = tx[p].new.type
    /\ \A r \in tx[p].locks : row[r] # Absent
    /\ \/ tx[p].at = "commit"
       \/ tx[p].op \in {"patch", "status"} /\ tx[p].at \in {"previous", "insert"}
       => tx[p].res \subseteq tx[p].locks

Keyed == \A a \in answered : \E k \in Keys :
           record[k].res # 0 /\ a = <<k, record[k].body, record[k].res>>

(* While no two requests work on a row together, it is what the one that   *)
(* does has read, and its last version is the last a client has seen.      *)
Follows(v, new) ==
  /\ new.version = v.version + 1 /\ v.payload \ {Hold} \subseteq new.payload
  /\ new.status \in {v.status} \cup AllowedTransitions(v.type, v.status)

AsRead ==
  /\ \A p \in Replica : \A r \in tx[p].res \ disturbed : Pending(tx[p]) =>
       /\ tx[p].op \in Changing => Follows(row[r], tx[p].new)
       /\ tx[p].op \in {"patch", "approve"} => Editable(r)
       /\ tx[p].op = "retain" => Deletable(row[r])
  /\ \A r \in Resources \ disturbed : row[r] # Absent =>
       \A s \in reads[r] : /\ s.version <= row[r].version
                           /\ s.version = row[r].version => s.payload = row[r].payload

IInv == /\ Typed /\ Together /\ Chained /\ Streamed /\ Stocked
        /\ Held /\ Keyed /\ AsRead
=============================================================================
