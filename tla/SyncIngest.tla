----------------------------- MODULE SyncIngest -----------------------------
(***************************************************************************)
(* The sync endpoint of the institution server                             *)
(* (institution_server/sync.py, ingest_sync_envelope).                     *)
(*                                                                         *)
(* A handler awaits nothing and so runs undisturbed in its process, but it *)
(* commits after every part it stores, and the deployment has several      *)
(* processes (Replica).  Clients send what they like as often as they like:*)
(* a request that timed out, was answered or is under way comes again.     *)
(***************************************************************************)
EXTENDS FiniteSets, Naturals

CONSTANTS Selection,   \* see SyncLedger
          Evidence,    \* the sha256 of the OCR result of each selection
          Replica,     \* server processes
          MaxFaults    \* bound of the model: handlers that fail half-way

IngestAssumption ==
  /\ DOMAIN Evidence = Selection /\ MaxFaults \in Nat
  /\ \A s \in Selection : Evidence[s] \notin {"none", "present"}

VARIABLES
  srv,       \* per replica: next step, envelope and what the last query found
  document,  \* content_sha256 of the archive document
  rows,      \* evidence and analysis resources
  objects,   \* stored evidence and analysis objects
  record,    \* idempotency_records: the summary hashed with the key
  acked,     \* envelopes answered with 200
  faults

vars == <<srv, document, rows, objects, record, acked, faults>>

Ledger == INSTANCE SyncLedger WITH ledger <- record
None == Ledger!None
Envelope == Ledger!Envelope
Kind == {"evidence", "analysis"}
Sha == {Evidence[s] : s \in Selection}
Part == ({"evidence"} \X Sha) \cup ({"analysis"} \X Selection)
PartOf(kind, s) == <<kind, IF kind = "evidence" THEN Evidence[s] ELSE s>>

(* where a handler stands: it has run the query for a part and will store  *)
(* it next, or has committed one and will look for the next                *)
Place == ({"look"} \X Kind) \cup ({"store"} \X (Kind \cup {"document"}))
           \cup {<<"store", "record">>, <<"idle", None>>}
Idle == <<"idle", None>>

Free == [step |-> Idle, env |-> None, seen |-> None]

Busy == [step : Place \ {Idle}, env : Envelope, seen : Sha \cup {None, "present"}]

Typed ==
  /\ srv \in [Replica -> Busy \cup {Free}]
  /\ document \in Sha \cup {None}
  /\ rows \subseteq Part /\ objects \subseteq Part
  /\ record \in [Selection -> Ledger!Summary \cup {None}]
  /\ acked \subseteq Envelope

TypeOK == Typed /\ faults \in 0 .. MaxFaults

Init ==
  /\ srv = [r \in Replica |-> Free]
  /\ document = None /\ rows = {} /\ objects = {}
  /\ Ledger!LedgerInit /\ faults = 0

Key(r) == srv[r].env.key
Mine(r, kind) == PartOf(kind, Key(r))
Go(r, step) == srv' = [srv EXCEPT ![r].step = step, ![r].seen = None]

Done(r) == srv' = [srv EXCEPT ![r] = Free]

-----------------------------------------------------------------------------
(* A known key is answered at once, with 200 for the request it was        *)
(* recorded with and 409 for another one.                                  *)
Replay(r, env) ==
  /\ record[env.key] # None
  /\ acked' = IF record[env.key] = env.summary THEN acked \cup {env} ELSE acked
  /\ UNCHANGED <<srv, objects>>

(* A new one is validated, its evidence object put, and the document       *)
(* looked for.                                                             *)
Open(r, env) ==
  /\ record[env.key] = None
  /\ objects' = objects \cup {PartOf("evidence", env.key)}
  /\ srv' = [srv EXCEPT ![r] = [step |-> <<"store", "document">>, env |-> env,
                                seen |-> document]]
  /\ UNCHANGED acked

(* a request whose signature does not match what it says changes nothing   *)
Receive(r, env) ==
  /\ srv[r].step = Idle
  /\ Ledger!Verified(env)
  /\ Replay(r, env) \/ Open(r, env)
  /\ UNCHANGED <<document, rows, record, faults>>

(* The document is created, or its current evidence replaced if the query  *)
(* found another one; a second creation violates the unique constraint     *)
(* and ends the handler with 500.                                          *)
StoreDocument(r) ==
  /\ srv[r].step = <<"store", "document">>
  /\ IF srv[r].seen = None /\ document # None
     THEN Done(r) /\ UNCHANGED document
     ELSE /\ document' = IF srv[r].seen = Evidence[Key(r)] THEN document
                        ELSE Evidence[Key(r)]
          /\ Go(r, <<"look", "evidence">>)
  /\ UNCHANGED <<rows, objects, record, acked, faults>>

(* the query for a resource and, if there is none, its object              *)
Look(r, kind) ==
  /\ srv[r].step = <<"look", kind>>
  /\ srv' = [srv EXCEPT ![r].step = <<"store", kind>>,
                        ![r].seen = IF Mine(r, kind) \in rows THEN "present" ELSE None]
  /\ objects' = IF Mine(r, kind) \in rows THEN objects ELSE objects \cup {Mine(r, kind)}
  /\ UNCHANGED <<document, rows, record, acked, faults>>

(* mutant: the idempotency record is committed before the analysis         *)
StoreEarly(r, kind) ==
  /\ srv[r].step = <<"store", kind>>
  /\ rows' = rows \cup {Mine(r, kind)}
  /\ Go(r, <<"store", "record">>)
  /\ UNCHANGED <<document, objects, record, acked, faults>>

(* its creation, refused by the unique constraint if another replica was   *)
(* faster                                                                  *)
Store(r, kind) ==
  /\ srv[r].step = <<"store", kind>>
  /\ IF srv[r].seen = None /\ Mine(r, kind) \in rows
     THEN Done(r) /\ UNCHANGED rows
     ELSE /\ rows' = rows \cup {Mine(r, kind)}
          /\ Go(r, IF kind = "evidence" THEN <<"look", "analysis">> ELSE <<"store", "record">>)
  /\ UNCHANGED <<document, objects, record, acked, faults>>

(* mutant: an existing idempotency record is overwritten                   *)
RecordAgain(r) ==
  /\ srv[r].step = <<"store", "record">>
  /\ record' = [record EXCEPT ![Key(r)] = srv[r].env.summary]
  /\ acked' = acked \cup {srv[r].env}
  /\ Done(r)
  /\ UNCHANGED <<document, rows, objects, faults>>

(* the idempotency record is committed last, then the answer               *)
Record(r) ==
  /\ srv[r].step = <<"store", "record">>
  /\ IF record[Key(r)] # None
     THEN UNCHANGED <<record, acked>>
     ELSE /\ record' = [record EXCEPT ![Key(r)] = srv[r].env.summary]
          /\ acked' = acked \cup {srv[r].env}
  /\ Done(r)
  /\ UNCHANGED <<document, rows, objects, faults>>

(* the process or a statement fails between two commits                    *)
Fail(r) ==
  /\ srv[r].step # Idle /\ faults < MaxFaults
  /\ faults' = faults + 1
  /\ Done(r)
  /\ UNCHANGED <<document, rows, objects, record, acked>>

Next ==
  \E r \in Replica :
    \/ \E env \in Envelope : Receive(r, env)
    \/ StoreDocument(r) \/ Record(r) \/ Fail(r)
    \/ \E kind \in Kind : Look(r, kind) \/ Store(r, kind)

Spec == Init /\ [][Next]_vars

-----------------------------------------------------------------------------
(* Properties.                                                             *)

(* A 200 means that everything of the selection is stored, whichever       *)
(* replica answered, failed half-way or stored some of it before.          *)
AcceptedIsStored ==
  \A env \in acked :
    /\ \A kind \in Kind : PartOf(kind, env.key) \in rows
    /\ document # None

(* No row points at an object that is not stored: objects come first, at   *)
(* every point where a handler may stop.                                   *)
RowsHaveObjects ==
  /\ rows \subseteq objects
  /\ document # None => <<"evidence", document>> \in objects

(* What a handler has behind it at each step: its part of AcceptedIsStored *)
(* and RowsHaveObjects, which hold only because no handler goes on before. *)
HandlerAgrees ==
  \A r \in Replica :
    LET step == srv[r].step
    IN step # Idle =>
         /\ Ledger!Verified(srv[r].env)
         /\ Mine(r, "evidence") \in objects
         /\ \A kind \in Kind : step = <<"store", kind>> => Mine(r, kind) \in objects
         /\ IF step = <<"store", "document">>
            THEN srv[r].seen # None => document # None
            ELSE document # None
         /\ step[2] \in {"analysis", "record"} => Mine(r, "evidence") \in rows
         /\ step[2] = "record" => Mine(r, "analysis") \in rows

(* What the record of a key stands for.                                    *)
RecordAgrees ==
  \A s \in Selection : record[s] # None =>
    /\ \A kind \in Kind : PartOf(kind, s) \in rows
    /\ document # None

IInv == Typed /\ HandlerAgrees /\ RecordAgrees /\ AcceptedIsStored /\ RowsHaveObjects

(* The replicas together keep the promise made for one ledger: a key is    *)
(* accepted with one summary for ever, however requests overlap.           *)
KeepsLedger == Ledger!LedgerSpec
=============================================================================
