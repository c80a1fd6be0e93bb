------------------------------- MODULE Identity -------------------------------
(***************************************************************************)
(* Rows of the institution server that decide who may do what: API clients *)
(* (api_clients.py), LTI launch states (lti.py) and the vault of learners' *)
(* identities (identities.py).                                             *)
(*                                                                         *)
(* Each handler reads a row, decides, and commits; handlers of different   *)
(* processes (Replica) overlap between the two.  An UPDATE writes the      *)
(* columns the handler has assigned.                                       *)
(***************************************************************************)
EXTENDS FiniteSets, Naturals

CONSTANTS Replica,
          Learners,    \* learners whose identity may be put into the vault
          MaxRequests  \* bound of the model: requests begun

VARIABLES
  client,    \* the API client: active, version, and the number of its secret
  secrets,   \* secrets that were returned to an administrator
  nonce,     \* state of the LTI launch: absent, open, used or expired
  launched,  \* requests whose launch was accepted
  vault,     \* mappings stored, a bag: learner -> rows
  tx,        \* per replica: the request under way, and what it has read
  overlap,   \* pairs of requests that were under way together
  count

vars == <<client, secrets, nonce, launched, vault, tx, overlap, count>>

Closed == [op |-> "none", id |-> 0, version |-> 0, learner |-> "none"]

Init ==
  /\ client = [active |-> TRUE, version |-> 1, secret |-> 0]
  /\ secrets = {0} /\ nonce = "absent" /\ launched = {}
  /\ vault = [l \in Learners |-> 0]
  /\ tx = [p \in Replica |-> Closed] /\ overlap = {} /\ count = 0

Begin(p, op, learner) ==
  /\ tx[p] = Closed /\ count < MaxRequests
  /\ count' = count + 1
  /\ tx' = [tx EXCEPT ![p] = [op |-> op, id |-> count + 1, version |-> client.version,
                              learner |-> learner]]
  /\ overlap' = overlap \cup {{count + 1, tx[q].id} : q \in {r \in Replica \ {p} : tx[r] # Closed}}
  /\ UNCHANGED <<client, secrets, nonce, launched, vault>>

(* Rotation and revocation ask for the version the administrator has seen; *)
(* a revoked client is not rotated, and revoking it again changes nothing. *)
Rotate(p) == client.active /\ Begin(p, "rotate", "none")
Revoke(p) == client.active /\ Begin(p, "revoke", "none")

(* A token for the secret of an active client; its commit notes the time.  *)
Token(p) == client.active /\ Begin(p, "token", "none")

(* A launch whose state is known, not used and not older than ten minutes. *)
Launch(p) == nonce = "open" /\ Begin(p, "launch", "none")

Learn(p, l) == vault[l] = 0 /\ Begin(p, "learn", l)

Login ==
  /\ nonce = "absent" /\ nonce' = "open"
  /\ UNCHANGED <<client, secrets, launched, vault, tx, overlap, count>>

Expire ==
  /\ nonce = "open" /\ nonce' = "expired"
  /\ UNCHANGED <<client, secrets, launched, vault, tx, overlap, count>>

(* mutant: a rotation writes the whole row it has read                     *)
UpdatedWhole(t) ==
  CASE t.op = "rotate" -> [active |-> TRUE, secret |-> t.id, version |-> t.version + 1]
    [] t.op = "revoke" -> [client EXCEPT !.active = FALSE, !.version = t.version + 1]
    [] OTHER -> client

(* The client's row after the commit of a request.                         *)
Updated(t) ==
  CASE t.op = "rotate" -> [client EXCEPT !.secret = t.id, !.version = t.version + 1]
    [] t.op = "revoke" -> [client EXCEPT !.active = FALSE, !.version = t.version + 1]
    [] OTHER -> client

(* The second of two mappings of a learner fails at the unique constraint. *)
Stored(t) == IF t.op = "learn" /\ vault[t.learner] = 0
             THEN [vault EXCEPT ![t.learner] = 1] ELSE vault

Commit(p) ==
  LET t == tx[p]
  IN /\ t # Closed
     /\ client' = Updated(t)
     /\ secrets' = IF t.op = "rotate" THEN secrets \cup {t.id} ELSE secrets
     /\ nonce' = IF t.op = "launch" THEN "used" ELSE nonce
     /\ launched' = IF t.op = "launch" THEN launched \cup {t.id} ELSE launched
     /\ vault' = Stored(t)
     /\ tx' = [tx EXCEPT ![p] = Closed]
     /\ UNCHANGED <<overlap, count>>

Next ==
  \/ Login \/ Expire
  \/ \E p \in Replica :
       \/ Rotate(p) \/ Revoke(p) \/ Token(p) \/ Launch(p) \/ Commit(p)
       \/ \E l \in Learners : Learn(p, l)

Spec == Init /\ [][Next]_vars

-----------------------------------------------------------------------------
(* A revoked client stays revoked, although a rotation that had read it    *)
(* as active commits later; and what is stored is a secret that somebody   *)
(* was given.                                                              *)
RevokedStays == [][~client.active => ~client'.active /\ client'.secret \in secrets']_vars

(* A launch state serves two launches only if they were under way together *)
(* (the read of `used' and its commit are apart), and a learner has one    *)
(* mapping whatever happens.                                               *)
UsedOnce ==
  /\ \A a, b \in launched : a # b => {a, b} \in overlap
  /\ \A l \in Learners : vault[l] <= 1

-----------------------------------------------------------------------------
(* What these rest on: a launch is accepted only after its state was open, *)
(* by requests that had all begun before the first of them ended.          *)
IInv ==
  /\ count \in Nat
  /\ client \in [active : BOOLEAN, version : Nat, secret : secrets]
  /\ vault \in [Learners -> {0, 1}] /\ launched \subseteq 1 .. count
  /\ tx \in [Replica -> [op : {"none", "rotate", "revoke", "token", "launch", "learn"},
                         id : 0 .. count, version : Nat, learner : Learners \cup {"none"}]]
  /\ nonce \in {"absent", "open"} => launched = {}
  /\ \A p \in Replica : tx[p] # Closed =>
       /\ tx[p].id # 0
       /\ \A q \in Replica \ {p} : tx[q] # Closed => {tx[p].id, tx[q].id} \in overlap
       /\ tx[p].op = "launch" =>
            /\ nonce # "absent"
            /\ \A a \in launched : {a, tx[p].id} \in overlap
  /\ UsedOnce
==============================================================================
