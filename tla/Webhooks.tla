------------------------------- MODULE Webhooks -------------------------------
(***************************************************************************)
(* Delivery of audit events to webhook subscriptions (webhooks.py), by the *)
(* loop of every server process (Replica).                                 *)
(*                                                                         *)
(* A pass loads the pending rows that are due, sends them one after the    *)
(* other and commits once, at its end: until then what it has done is only *)
(* in its session.  The commit writes the columns the pass has changed.    *)
(* The HTTP requests are awaited, and the passes of two processes overlap. *)
(***************************************************************************)
EXTENDS FiniteSets, Naturals

CONSTANTS Delivery,     \* webhook_deliveries, one subscription each
          Replica,
          MaxAttempts,  \* requests before a delivery is given up (10)
          MaxFaults     \* bound of the model: processes that die

VARIABLES
  delivery,  \* committed rows: status, attempt, and whether the row is due
  broken,    \* deliveries whose subscription has no usable target_url
  orphan,    \* deliveries whose subscription or event is gone
  pass,      \* per replica: the rows still to send, and the changed ones
  received,  \* deliveries the target has accepted
  faults

vars == <<delivery, broken, orphan, pass, received, faults>>

NoRow == [status |-> "none", attempt |-> 0, due |-> FALSE]
NoPass == [on |-> FALSE, left |-> {}, changed |-> [d \in {} |-> NoRow]]

Init ==
  /\ delivery = [d \in Delivery |-> NoRow]
  /\ broken \in SUBSET Delivery
  /\ orphan \in {S \in SUBSET Delivery : Cardinality(S) <= 1}
  /\ pass = [p \in Replica |-> NoPass]
  /\ received = {} /\ faults = 0

(* audit_subject adds a row for every subscription to the event.           *)
Emit(d) ==
  /\ delivery[d].status = "none"
  /\ delivery' = [delivery EXCEPT ![d] = [status |-> "pending", attempt |-> 0, due |-> TRUE]]
  /\ UNCHANGED <<broken, orphan, pass, received, faults>>

(* The delay of a row that failed is over.                                 *)
FallDue(d) ==
  /\ delivery[d].status = "pending" /\ ~delivery[d].due
  /\ delivery' = [delivery EXCEPT ![d].due = TRUE]
  /\ UNCHANGED <<broken, orphan, pass, received, faults>>

(* The teacher's patch of a subscription gives it a target.                *)
Repair ==
  /\ broken # {}
  /\ broken' = {}
  /\ UNCHANGED <<delivery, orphan, pass, received, faults>>

Load(p) ==
  /\ ~pass[p].on
  /\ LET rows == {d \in Delivery : delivery[d].status = "pending" /\ delivery[d].due}
     IN /\ rows # {}
        /\ pass' = [pass EXCEPT ![p] = [on |-> TRUE, left |-> rows,
                                        changed |-> [d \in rows |-> delivery[d]]]]
  /\ UNCHANGED <<delivery, broken, orphan, received, faults>>

Leave(p, d, r) == [pass EXCEPT ![p].left = @ \ {d}, ![p].changed[d] = r]

(* The row after a request that failed: given up at the last attempt.      *)
Failed(r) ==
  LET n == r.attempt + 1
  IN IF n >= MaxAttempts
     THEN [r EXCEPT !.attempt = n, !.status = "failed"]
     ELSE [r EXCEPT !.attempt = n, !.due = FALSE]

(* One request: accepted, refused or lost on the way, in either direction. *)
Send(p, d) ==
  /\ d \in pass[p].left /\ d \notin broken /\ d \notin orphan
  /\ LET r == pass[p].changed[d]
     IN \/ /\ received' = received \cup {d}
           /\ pass' = Leave(p, d, [r EXCEPT !.attempt = @ + 1, !.status = "delivered"])
        \/ /\ received' \in {received, received \cup {d}}
           /\ pass' = Leave(p, d, Failed(r))
  /\ UNCHANGED <<delivery, broken, orphan, faults>>

GiveUp(p, d) ==
  /\ d \in pass[p].left /\ d \in orphan
  /\ pass' = Leave(p, d, [pass[p].changed[d] EXCEPT !.status = "failed"])
  /\ UNCHANGED <<delivery, broken, orphan, received, faults>>

(* A target that is no URL raises something else than an HTTP error, which *)
(* ends the pass: delivery_loop logs it, nothing is committed.             *)
Raise(p, d) ==
  /\ d \in pass[p].left /\ d \in broken /\ d \notin orphan
  /\ pass' = [pass EXCEPT ![p] = NoPass]
  /\ UNCHANGED <<delivery, broken, orphan, received, faults>>

(* mutant: the commit writes every column                                  *)
MergedAll(old, new) == new
(* What the commit makes of a row: a column the pass left as it had loaded *)
(* it keeps what another pass may have written meanwhile.                  *)
Merged(old, new) ==
  [status |-> IF new.status # "pending" THEN new.status ELSE old.status,
   attempt |-> new.attempt,
   due |-> IF ~new.due THEN FALSE ELSE old.due]

Commit(p) ==
  /\ pass[p].on /\ pass[p].left = {}
  /\ delivery' = [d \in Delivery |->
       IF d \in DOMAIN pass[p].changed THEN Merged(delivery[d], pass[p].changed[d])
                                       ELSE delivery[d]]
  /\ pass' = [pass EXCEPT ![p] = NoPass]
  /\ UNCHANGED <<broken, orphan, received, faults>>

Die(p) ==
  /\ pass[p].on /\ faults < MaxFaults
  /\ pass' = [pass EXCEPT ![p] = NoPass] /\ faults' = faults + 1
  /\ UNCHANGED <<delivery, broken, orphan, received>>

Step(p) ==
  \/ Load(p) \/ Commit(p)
  \/ \E d \in Delivery : Send(p, d) \/ GiveUp(p, d) \/ Raise(p, d)

Next ==
  \/ \E d \in Delivery : Emit(d) \/ FallDue(d)
  \/ Repair
  \/ \E p \in Replica : Step(p) \/ Die(p)

(* The loops run and every request has a timeout of 15 seconds.            *)
Fairness == /\ \A p \in Replica : WF_vars(Step(p))
            /\ \A d \in Delivery : WF_vars(FallDue(d))

Spec == Init /\ [][Next]_vars /\ Fairness

-----------------------------------------------------------------------------
(* A row that says delivered was accepted by its target, whichever pass    *)
(* wrote the row last.                                                     *)
DeliveredWasReceived ==
  \A d \in Delivery : delivery[d].status = "delivered" => d \in received

(* Why it holds: what a pass has changed and not committed says so of      *)
(* deliveries that were received, too, and makes no row one without a      *)
(* status.                                                                 *)
Row == [status : {"none", "pending", "delivered", "failed"}, attempt : Nat, due : BOOLEAN]

Changes == UNION {[D -> Row] : D \in SUBSET Delivery}

Typed ==
  /\ delivery \in [Delivery -> Row]
  /\ pass \in [Replica -> [on : BOOLEAN, left : SUBSET Delivery, changed : Changes]]

PassesAgree ==
  \A p \in Replica :
    /\ pass[p].left \subseteq DOMAIN pass[p].changed
    /\ \A d \in DOMAIN pass[p].changed :
         /\ pass[p].changed[d].status # "none"
         /\ pass[p].changed[d].status = "delivered" => d \in received

IInv == Typed /\ PassesAgree /\ DeliveredWasReceived

(* A settled row is not tried again: the late commit of another pass does  *)
(* not make a delivered or failed row pending.                             *)
SettledStays ==
  [][\A d \in Delivery : delivery[d].status \in {"delivered", "failed"} =>
       delivery'[d].status \in {"delivered", "failed"}]_vars

(* Once no subscription is broken, every delivery is settled in the end,   *)
(* although passes overwrite each other's counts and processes die.        *)
DeliveriesSettle ==
  \A d \in Delivery :
    []<>(broken # {} \/ delivery[d].status \in {"none", "delivered", "failed"})
=============================================================================
