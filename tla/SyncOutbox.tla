----------------------------- MODULE SyncOutbox -----------------------------
(***************************************************************************)
(* The outbox of selected History results in OCR Studio                    *)
(* (app/institution/service.py, app/storage/history.py), against an        *)
(* institution that keeps the promise of SyncLedger.                       *)
(*                                                                         *)
(* Every request to /sync-now runs a pass of its own.  A pass is           *)
(* undisturbed between its awaits, and it awaits one answer at a time.     *)
(***************************************************************************)
EXTENDS Naturals, FiniteSets

CONSTANTS
  Selection,   \* see SyncLedger
  Pass,        \* requests to /sync-now that may overlap
  MaxEvents,   \* bound of the model: outbox rows
  MaxFaults    \* bound of the model: crashes, timeouts, unreadable payloads

OutboxAssumption == MaxEvents \in Nat \ {0} /\ MaxFaults \in Nat

Event == 1 .. MaxEvents
NoEvent == 0

VARIABLES
  summary,   \* of the History row
  outbox,    \* institution_sync_outbox: status, selection and summary
  pass,      \* snapshot still to send, event under way, answer to it
  ledger,    \* what the institution accepted each key with
  acked,     \* envelopes it answered with 200
  faults

vars == <<summary, outbox, pass, ledger, acked, faults>>

Institution == INSTANCE SyncLedger
None == Institution!None
Summary == Institution!Summary

Row == [status : {"none", "pending", "in_flight", "completed", "gone"},
        key : Selection \cup {None}, summary : Summary]
Idle == [todo |-> {}, at |-> NoEvent, answer |-> None]

Typed ==
  /\ summary \in Summary
  /\ outbox \in [Event -> Row]
  /\ pass \in [Pass -> [todo : SUBSET Event, at : Event \cup {NoEvent},
                        answer : {None, "accepted", "refused", "lost"}]]
  /\ ledger \in [Selection -> Summary \cup {None}]
  /\ acked \subseteq Institution!Envelope

TypeOK == Typed /\ faults \in 0 .. MaxFaults

Init ==
  /\ summary = "first"
  /\ outbox = [e \in Event |-> [status |-> "none", key |-> None, summary |-> "first"]]
  /\ pass = [p \in Pass |-> Idle]
  /\ Institution!LedgerInit
  /\ faults = 0

Fault == faults < MaxFaults /\ faults' = faults + 1

-----------------------------------------------------------------------------
Pending == {e \in Event : outbox[e].status = "pending"}
First(S) == CHOOSE e \in S : \A f \in S : e <= f

(* queue_history: occurred_at makes the hash of every payload another one, *)
(* so each selection adds a row, also a repeated one.                      *)
Select(s) ==
  /\ \A e \in Event : outbox[e].status # "gone"
  /\ \E e \in Event :
       /\ outbox[e].status = "none"
       /\ \A f \in Event : f < e => outbox[f].status # "none"
       /\ outbox' = [outbox EXCEPT ![e] =
                       [status |-> "pending", key |-> s, summary |-> summary]]
  /\ UNCHANGED <<summary, pass, ledger, acked, faults>>

(* the row is pinned, or its analysis summary set                         *)
Edit ==
  /\ summary = "first" /\ summary' = "edited"
  /\ UNCHANGED <<outbox, pass, ledger, acked, faults>>

(* HistoryStore.delete: the outbox rows go with the job (ON DELETE CASCADE)*)
DeleteJob ==
  /\ \E e \in Event : outbox[e].status \notin {"none", "gone"}
  /\ outbox' = [e \in Event |-> [outbox[e] EXCEPT !.status = "gone"]]
  /\ UNCHANGED <<summary, pass, ledger, acked, faults>>

(* sync_pending lists the pending rows once                                *)
Begin(p) ==
  /\ pass[p] = Idle /\ Pending # {}
  /\ pass' = [pass EXCEPT ![p].todo = Pending]
  /\ UNCHANGED <<summary, outbox, ledger, acked, faults>>

(* The next event is marked in_flight, whatever became of it since the     *)
(* list was read, and posted.  A row that is gone, and a payload that      *)
(* cannot be read, end the pass with an error nobody catches.              *)
Send(p) ==
  /\ pass[p].at = NoEvent /\ pass[p].todo # {}
  /\ LET e == First(pass[p].todo)
     IN \/ /\ outbox[e].status = "gone"
           /\ pass' = [pass EXCEPT ![p] = Idle]
           /\ UNCHANGED <<outbox, faults>>
        \/ /\ outbox[e].status # "gone"
           /\ outbox' = [outbox EXCEPT ![e].status = "in_flight"]
           /\ pass' = [pass EXCEPT ![p].at = e, ![p].todo = @ \ {e}]
           /\ UNCHANGED faults
        \/ /\ outbox[e].status # "gone" /\ Fault
           /\ outbox' = [outbox EXCEPT ![e].status = "in_flight"]
           /\ pass' = [pass EXCEPT ![p] = Idle]
  /\ UNCHANGED <<summary, ledger, acked>>

(* what sync_pending signs and posts: the events of queue_history have no  *)
(* event_id                                                                *)
Posted(p) == [key |-> outbox[pass[p].at].key,
              summary |-> outbox[pass[p].at].summary, id |-> FALSE]

Waiting(p) == pass[p].at # NoEvent /\ pass[p].answer = None

(* The institution answers: 200, or 401, 409 or 500 without any effect.    *)
(* Verified is false of every envelope posted here, so the answer is 401.  *)
Answered(p) ==
  /\ Waiting(p)
  /\ Institution!Handle(Posted(p))
  /\ pass' = [pass EXCEPT ![p].answer =
                IF Institution!Acceptable(Posted(p)) THEN "accepted" ELSE "refused"]
  /\ UNCHANGED <<summary, outbox, faults>>

(* no answer in 30 seconds, or the connection breaks, before or after the  *)
(* institution has handled the request                                     *)
Timeout(p) ==
  /\ Waiting(p) /\ Fault
  /\ pass' = [pass EXCEPT ![p].answer = "lost"]
  /\ \E handled \in BOOLEAN :
       IF handled THEN Institution!Handle(Posted(p)) ELSE UNCHANGED <<ledger, acked>>
  /\ UNCHANGED <<summary, outbox>>

(* mutant: a failed event goes back to the end of the pass                 *)
SettleAgain(p) ==
  /\ pass[p].answer # None
  /\ LET e == pass[p].at
         ok == pass[p].answer = "accepted"
     IN /\ outbox' = [outbox EXCEPT ![e].status = IF ok THEN "completed" ELSE "pending"]
        /\ pass' = [pass EXCEPT ![p].at = NoEvent, ![p].answer = None,
                                ![p].todo = IF ok THEN @ ELSE @ \cup {e}]
  /\ UNCHANGED <<summary, ledger, acked, faults>>

(* 200 completes the event, every other answer makes it pending again; the *)
(* update of a row that is gone ends the pass                              *)
Settle(p) ==
  /\ pass[p].answer # None
  /\ LET e == pass[p].at
     IN IF outbox[e].status = "gone"
        THEN pass' = [pass EXCEPT ![p] = Idle] /\ UNCHANGED outbox
        ELSE /\ outbox' = [outbox EXCEPT ![e].status =
                             IF pass[p].answer = "accepted" THEN "completed" ELSE "pending"]
             /\ pass' = [pass EXCEPT ![p].at = NoEvent, ![p].answer = None]
  /\ UNCHANGED <<summary, ledger, acked, faults>>

(* the process ends; nothing looks at in_flight rows when it starts again  *)
DeviceCrash ==
  /\ \E p \in Pass : pass[p] # Idle
  /\ Fault
  /\ pass' = [p \in Pass |-> Idle]
  /\ UNCHANGED <<summary, outbox, ledger, acked>>

-----------------------------------------------------------------------------
PassStep(p) == Send(p) \/ Answered(p) \/ Settle(p)

Next ==
  \/ \E s \in Selection : Select(s)
  \/ Edit \/ DeleteJob \/ DeviceCrash
  \/ \E p \in Pass : Begin(p) \/ PassStep(p) \/ Timeout(p)

Spec == Init /\ [][Next]_vars

(* The event loop runs, and a request gets an answer or times out.         *)
FairSpec == Spec /\ \A p \in Pass : WF_vars(PassStep(p))

(* ... and a user who goes on asking for a transfer.                       *)
EagerSpec == FairSpec /\ \A p \in Pass : WF_vars(Begin(p))

-----------------------------------------------------------------------------
(* Properties.                                                             *)

(* "in_flight" is kept by a pass that will settle it, also when two passes *)
(* send the same event; after a fault it may be left for ever, since no    *)
(* pass takes it up again.                                                 *)
InFlightIsSent ==
  faults = 0 => \A e \in Event :
    outbox[e].status = "in_flight" => \E p \in Pass : pass[p].at = e

(* Why it holds: the event of an answer is known, and what is still to     *)
(* send was selected.  That the institution accepts nothing, for no event  *)
(* has an event_id, keeps its ledger as it was.                            *)
AnswerHasEvent == \A p \in Pass : pass[p].answer # None => pass[p].at \in Event

NothingAccepted == Institution!LedgerInit

IInv == Typed /\ faults \in Nat /\ AnswerHasEvent /\ NothingAccepted /\ InFlightIsSent

(* A pass ends: a refused or lost event waits for the next request to      *)
(* /sync-now, so a row that is always refused cannot keep one going.       *)
PassesEnd == \A p \in Pass : []<>(pass[p] = Idle)

(* README: "Transfers use bounded payloads, checksums, stable event IDs,   *)
(* retry backoff, and idempotent replay."  What a user selected reaches    *)
(* the institution if transfers are asked for again and again.             *)
SelectedDelivered ==
  \A e \in Event : outbox[e].status = "pending" ~>
    outbox[e].status \in {"completed", "gone"}
=============================================================================
