------------------------------- MODULE Datasets -------------------------------
(***************************************************************************)
(* Dataset items, their reviews and releases: the dataset endpoints of     *)
(* api.py, the catalogue's patch of an item, and the export of datasets.py.*)
(*                                                                         *)
(* A handler reads the item it reviews and writes it in the same           *)
(* transaction without a lock; the handlers of two server processes        *)
(* (Replica) overlap.  The UPDATE has the columns whose value the handler  *)
(* has changed: a status that is assigned again is not among them.         *)
(***************************************************************************)
EXTENDS FiniteSets, Naturals, Sequences, SequencesExt

CONSTANTS Items,       \* items that may be added to the project
          Reviewers,
          Replica,
          MaxRequests  \* bound of the model: reviews, patches and releases

VARIABLES
  project,   \* status of the dataset project
  item,      \* per item: label status, version and reviews
  tx,        \* per replica: the request under way and the item it has read
  releases,  \* released manifests with the reviews at the time
  raced,     \* items two requests have worked on together
  chosen,    \* items whose status or reviews a client has chosen
  count

vars == <<project, item, tx, releases, raced, chosen, count>>

NoItem == [status |-> "none", version |-> 0, reviews |-> <<>>]
Closed == [op |-> "none", id |-> "none", read |-> NoItem, new |-> NoItem]

Present(i) == item[i] # NoItem
By(reviews) == {reviews[k].by : k \in DOMAIN reviews}
Verified(reviews) == Cardinality({k \in DOMAIN reviews : reviews[k].decision = "verified"})

Init ==
  /\ project \in {"draft", "active"}
  /\ item = [i \in Items |-> NoItem]
  /\ tx = [p \in Replica |-> Closed]
  /\ releases = {} /\ raced = {} /\ chosen = {} /\ count = 0

(* Items enter while the project is open, with no reviews; their status is *)
(* the client's.                                                           *)
AddItem(i) ==
  /\ project \in {"draft", "active"} /\ ~Present(i)
  /\ \E status \in {"draft", "gold"} :
       /\ item' = [item EXCEPT ![i] = [status |-> status, version |-> 1, reviews |-> <<>>]]
       /\ chosen' = IF status = "gold" THEN chosen \cup {i} ELSE chosen
  /\ UNCHANGED <<project, tx, releases, raced, count>>

Advance ==
  /\ \/ project = "draft" /\ project' \in {"active", "archived"}
     \/ project = "active" /\ project' = "archived"
  /\ UNCHANGED <<item, tx, releases, raced, chosen, count>>

Begin(p, i, op, new) ==
  /\ tx[p] = Closed /\ count < MaxRequests
  /\ tx' = [tx EXCEPT ![p] = [op |-> op, id |-> i, read |-> item[i], new |-> new]]
  /\ raced' = IF \E q \in Replica \ {p} : tx[q].id = i THEN raced \cup {i} ELSE raced
  /\ count' = count + 1
  /\ UNCHANGED <<project, item, releases, chosen>>

Label(reviews) ==
  CASE Verified(reviews) >= 2 -> "gold"
    [] Verified(reviews) = 1 -> "silver"
    [] OTHER -> "rejected"

(* mutant: a person may review an item again                               *)
ReviewAgain(p, i, by, decision) ==
  /\ Present(i)
  /\ LET reviews == Append(item[i].reviews, [by |-> by, decision |-> decision])
     IN Begin(p, i, "review", [status |-> Label(reviews), version |-> item[i].version + 1,
                               reviews |-> reviews])

(* A review: the version must be the one the reviewer has seen, and one    *)
(* person reviews an item once.                                            *)
Review(p, i, by, decision) ==
  /\ Present(i) /\ by \notin By(item[i].reviews)
  /\ LET reviews == Append(item[i].reviews, [by |-> by, decision |-> decision])
     IN Begin(p, i, "review", [status |-> Label(reviews), version |-> item[i].version + 1,
                               reviews |-> reviews])

(* PATCH of the catalogue: dataset items have no transition table, and the *)
(* payload, reviews included, is the client's.                             *)
Patch(p, i) ==
  /\ Present(i)
  /\ \/ Begin(p, i, "patch", [item[i] EXCEPT !.status = "gold", !.version = @ + 1])
     \/ Begin(p, i, "patch", [item[i] EXCEPT !.reviews = <<>>, !.version = @ + 1])

(* The commit writes what differs from the row that was read.              *)
Column(read, new, row) == IF new = read THEN row ELSE new

Commit(p) ==
  LET t == tx[p]
      i == t.id
  IN /\ t # Closed
     /\ item' = [item EXCEPT ![i] =
          [status |-> Column(t.read.status, t.new.status, @.status),
           version |-> Column(t.read.version, t.new.version, @.version),
           reviews |-> Column(t.read.reviews, t.new.reviews, @.reviews)]]
     /\ chosen' = IF t.op = "patch" THEN chosen \cup {i} ELSE chosen
     /\ tx' = [tx EXCEPT ![p] = Closed]
     /\ UNCHANGED <<project, releases, raced, count>>

(* A release: every item the project has must be gold.  The manifest is a  *)
(* copy, and the row immutable.                                            *)
Release ==
  LET here == {i \in Items : Present(i)}
  IN /\ here # {} /\ \A i \in here : item[i].status = "gold"
     /\ count < MaxRequests /\ count' = count + 1
     /\ releases' = releases \cup {[i \in here |-> item[i]]}
     /\ UNCHANGED <<project, item, tx, raced, chosen>>

Next ==
  \/ Advance \/ Release
  \/ \E i \in Items : AddItem(i)
  \/ \E p \in Replica :
       \/ Commit(p)
       \/ \E i \in Items :
            \/ Patch(p, i)
            \/ \E by \in Reviewers, decision \in {"verified", "rejected"} :
                 Review(p, i, by, decision)

Spec == Init /\ [][Next]_vars

-----------------------------------------------------------------------------
TwiceVerified(row) ==
  \E j, k \in DOMAIN row.reviews :
    /\ row.reviews[j].by # row.reviews[k].by
    /\ row.reviews[j].decision = "verified" /\ row.reviews[k].decision = "verified"

(* A released item has the verified reviews of two persons, unless its     *)
(* label was a client's or two requests met on it: the label is computed   *)
(* in one request, stored, and trusted by the release in another.          *)
ReleasedTwiceVerified ==
  \A release \in releases : \A i \in DOMAIN release :
    i \in raced \cup chosen \/ TwiceVerified(release[i])

-----------------------------------------------------------------------------
(* What this rests on: a label no client chose and no two requests met on  *)
(* is the one its reviews give, each of another person, and a request      *)
(* writes what it makes of the row that is there.                          *)
ReviewRow == [by : Reviewers, decision : {"verified", "rejected"}]
ItemRow == [status : {"draft", "gold", "silver", "rejected"}, version : Nat \ {0},
            reviews : Seq(ReviewRow)]
Requests == {t \in [op : {"review", "patch"}, id : Items, read : ItemRow, new : ItemRow] :
               t.new.version # t.read.version}

Earned(row) ==
  /\ row.status = "gold" => TwiceVerified(row)
  /\ \A j, k \in DOMAIN row.reviews : j # k => row.reviews[j].by # row.reviews[k].by

IInv ==
  /\ item \in [Items -> ItemRow \cup {NoItem}] /\ tx \in [Replica -> Requests \cup {Closed}]
  /\ \A i \in Items \ (raced \cup chosen) : Present(i) => Earned(item[i])
  /\ \A p \in Replica : tx[p] # Closed =>
       /\ Present(tx[p].id)
       /\ tx[p].id \notin raced \cup chosen => /\ tx[p].read = item[tx[p].id]
                                               /\ tx[p].op = "review" => Earned(tx[p].new)
       /\ \A q \in Replica \ {p} : tx[q] # Closed /\ tx[q].id = tx[p].id => tx[p].id \in raced
  /\ ReleasedTwiceVerified
==============================================================================
