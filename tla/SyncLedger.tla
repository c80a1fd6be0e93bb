----------------------------- MODULE SyncLedger -----------------------------
(***************************************************************************)
(* What a sync envelope is, and what the institution promises about it:    *)
(* one meaning per idempotency key, and the same answer whenever the same  *)
(* request comes again.  SyncIngest implements it, SyncOutbox relies on it.*)
(***************************************************************************)
CONSTANT Selection   \* what a user can select of one History job: its result,
                     \* analysis and approved previews, by their hash

None == "none"
Summary == {"first", "edited"}   \* record.summary() before and after an edit

(* idempotency_key is the hash of the selection alone; the payload also    *)
(* carries the summary.  `id` says whether the event has its event_id.     *)
Envelope == [key : Selection, summary : Summary, id : BOOLEAN]

(* SyncEnvelope fills in an event_id where the body has none (and writes   *)
(* occurred_at its own way); the signature is verified over that form.     *)
Dumped(env) == [env EXCEPT !.id = TRUE]
Verified(env) == env = Dumped(env)

VARIABLES ledger,   \* the summary each key was accepted with
          acked     \* envelopes answered with 200

ledgerVars == <<ledger, acked>>

LedgerInit == ledger = [s \in Selection |-> None] /\ acked = {}

Acceptable(env) == Verified(env) /\ ledger[env.key] \in {None, env.summary}

Accept(env) ==
  /\ Acceptable(env)
  /\ ledger' = [ledger EXCEPT ![env.key] = env.summary]
  /\ acked' = acked \cup {env}

(* A request the institution does not accept has no effect.                *)
Handle(env) == IF Acceptable(env) THEN Accept(env) ELSE UNCHANGED ledgerVars

LedgerSpec == LedgerInit /\ [][\E env \in Envelope : Accept(env)]_ledgerVars
=============================================================================
