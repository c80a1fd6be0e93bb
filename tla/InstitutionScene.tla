--------------------------- MODULE InstitutionScene ---------------------------
(***************************************************************************)
(* What travels between the institution server and the machines around it: *)
(* OCR results (ingest, outbox), OCR jobs for devices, webhooks and the    *)
(* grades for the LMS.  The modules share no state here, so a behaviour is *)
(* one of the module it began with (focus).                                *)
(***************************************************************************)
EXTENDS WorkerJobs

CONSTANTS
  Selection, Evidence, Replica,               \* see SyncIngest
  Selected, Pass, MaxEvents,                  \* see SyncOutbox
  Delivery, MaxAttempts,                      \* see Webhooks
  Handler, Home(_), Teachers, Questions, MaxRequests,  \* see AnswerScripts
  MaxOutages,    \* bound of the model: faults of the outbox
  MaxDeaths      \* bound of the model: faults of ingest, webhooks and scripts

VARIABLES focus,
  srv, document, rows, objects, record, told,
  summary, outbox, pass, ledger, acked,
  delivery, broken, orphan, passes, received,
  script, responses, call, lock, posted, approved, excused, raced, count

I == INSTANCE SyncIngest WITH MaxFaults <- MaxDeaths, acked <- told
O == INSTANCE SyncOutbox WITH Selection <- Selected, MaxFaults <- MaxOutages
H == INSTANCE Webhooks WITH MaxFaults <- MaxDeaths, pass <- passes
A == INSTANCE AnswerScripts WITH MaxFaults <- MaxDeaths

ASSUME TravelAssumption ==
  WorkerAssumption /\ I!IngestAssumption /\ O!OutboxAssumption /\ A!ScriptAssumption

jobs == <<server, phase, at, inflight>>
ingest == <<srv, document, rows, objects, record, told>>
transfer == <<summary, outbox, pass, ledger, acked>>
webhooks == <<delivery, broken, orphan, passes, received>>
scripts == <<script, responses, call, lock, posted, approved, excused, raced, count>>
all == <<jobs, ingest, transfer, webhooks, scripts, focus, faults>>

NoWebhooks ==
  /\ delivery = [d \in Delivery |-> H!NoRow] /\ broken = {} /\ orphan = {}
  /\ passes = [p \in Replica |-> H!NoPass] /\ received = {} /\ faults = 0

SceneInit ==
  /\ focus \in {"jobs", "ingest", "transfer", "webhooks", "scripts"}
  /\ Init /\ I!Init /\ O!Init
  /\ IF focus = "webhooks" THEN H!Init ELSE NoWebhooks
  /\ A!Init /\ (focus = "scripts" \/ script.status = "draft")

JobStep == focus = "jobs" /\ Next
           /\ UNCHANGED <<focus, ingest, transfer, webhooks, scripts>>
IngestStep == focus = "ingest" /\ I!Next
              /\ UNCHANGED <<focus, jobs, transfer, webhooks, scripts>>
TransferStep == focus = "transfer" /\ O!Next
                /\ UNCHANGED <<focus, ingest, jobs, webhooks, scripts>>
WebhookStep == focus = "webhooks" /\ H!Next
               /\ UNCHANGED <<focus, ingest, jobs, transfer, scripts>>
ScriptStep == focus = "scripts" /\ A!Next
              /\ UNCHANGED <<focus, ingest, jobs, transfer, webhooks>>

(* The fairness of each module, while it runs.                             *)
JobFairness ==
  /\ \A w \in Worker : WF_vars(focus = "jobs" /\ DeviceStep(w))
  /\ WF_vars(focus = "jobs" /\ \E w \in Worker : Claim(w))
  /\ \A j \in Job : WF_vars(focus = "jobs" /\ LeaseEnds(j))
TransferFairness ==
  \A p \in Pass : WF_(O!vars)(focus = "transfer" /\ O!PassStep(p))
WebhookFairness ==
  /\ \A p \in Replica : WF_(H!vars)(focus = "webhooks" /\ H!Step(p))
  /\ \A d \in Delivery : WF_(H!vars)(focus = "webhooks" /\ H!FallDue(d))
ScriptFairness ==
  \A h \in Handler : WF_(A!vars)(focus = "scripts" /\ A!Step(h))

Scene ==
  /\ SceneInit
  /\ [][JobStep \/ IngestStep \/ TransferStep \/ WebhookStep \/ ScriptStep]_all
  /\ JobFairness /\ TransferFairness /\ WebhookFairness /\ ScriptFairness

-----------------------------------------------------------------------------
(* The rows and handlers of the protocols with OCR Studio and devices stay *)
(* in their ranges.                                                        *)
TypesOK ==
  /\ focus = "jobs" => TypeOK
  /\ focus = "ingest" => I!TypeOK
  /\ focus = "transfer" => O!TypeOK

(* A result that was answered with 200 is stored whole, and at no point    *)
(* does a row lack its object (SyncIngest); an event in flight has a pass  *)
(* that will settle it (SyncOutbox), ...                                   *)
ResultsAccounted == I!AcceptedIsStored /\ I!RowsHaveObjects /\ O!InFlightIsSent

(* ... and the replicas keep the promise of SyncLedger: one summary for    *)
(* each key.                                                               *)
KeepsLedger == I!KeepsLedger

(* ... and every pass over the outbox ends (SyncOutbox).                   *)
PassesEnd == O!PassesEnd

(* What a job came to stays (WorkerJobs), and a job that is not held is    *)
(* taken in the end.                                                       *)
JobsHandled == OutcomeKept /\ OpenJobsTaken

(* What reaches systems outside: a delivery that says so was received      *)
(* (Webhooks), one approved mark goes to the LMS once, and an analysis is  *)
(* whole (AnswerScripts), ...                                              *)
OutsideOnce == H!DeliveredWasReceived /\ A!PostedOnce /\ A!AnalysisWhole

(* ... a settled delivery stays settled, and each is settled in the end.   *)
DeliveriesSettle == H!SettledStays /\ H!DeliveriesSettle

(* ... and the requests on a script end.                                   *)
RequestsEnd == A!RequestsEnd
=============================================================================
