-------------------------------- MODULE Paging --------------------------------
(***************************************************************************)
(* Listing resources page by page (service.list, service.search and the    *)
(* GET endpoints built on them), while the resources are being changed.    *)
(*                                                                         *)
(* A page is the newest rows below the cursor, in the order of updated_at  *)
(* and, for rows of the same time, of the identifier.  The cursor is the   *)
(* place of the last row of the page, so it says nothing of what has been  *)
(* seen: rows move to the front when they are changed.                     *)
(***************************************************************************)
EXTENDS FiniteSets, Naturals

CONSTANTS Resources,  \* identifiers, numbers whose order is that of the code's UUIDs
          Limit,      \* rows of a page
          MaxTime     \* bound of the model: clock values of updated_at

VARIABLES
  updated,  \* updated_at of every resource
  matches,  \* resources that fulfil the scope and the filters of the query
  now,      \* clock; several changes may have the same time
  cursor,   \* place the next page starts below
  listed,   \* how often each resource has been on a page
  stable,   \* resources not changed since the first page
  done      \* the last page had no next_cursor

vars == <<updated, matches, now, cursor, listed, stable, done>>

Place(r) == <<updated[r], r>>
(* mutant: rows of the time of the cursor count as seen                    *)
BelowTime(a, b) == a[1] < b[1]
Below(a, b) == a[1] < b[1] \/ (a[1] = b[1] /\ a[2] < b[2])
(* ORDER BY updated_at DESC, resource_id DESC.                              *)
Newer(r, q) == updated[r] > updated[q] \/ (updated[r] = updated[q] /\ r > q)
Top == <<MaxTime + 1, 0>>

Init ==
  /\ now \in 0 .. MaxTime
  /\ updated \in [Resources -> 0 .. now]
  /\ matches \in SUBSET Resources
  /\ cursor = Top /\ listed = [r \in Resources |-> 0] /\ stable = Resources /\ done = FALSE

(* A resource is changed; it may come to match the filters, or cease to.   *)
Change(r) ==
  /\ updated' = [updated EXCEPT ![r] = now]
  /\ matches' \in {matches \cup {r}, matches \ {r}}
  /\ stable' = stable \ {r}
  /\ UNCHANGED <<now, cursor, listed, done>>

Tick ==
  /\ now < MaxTime /\ now' = now + 1
  /\ UNCHANGED <<updated, matches, cursor, listed, stable, done>>

(* The newest rows below the cursor; a query for one row more than the     *)
(* limit shows whether there are others.                                   *)
Page ==
  LET rows == {r \in matches : Below(Place(r), cursor)}
  IN /\ ~done
     /\ \E page \in SUBSET rows :
          /\ Cardinality(page) = IF Cardinality(rows) > Limit THEN Limit ELSE Cardinality(rows)
          /\ \A r \in page, q \in rows \ page : Newer(r, q)
          /\ listed' = [r \in Resources |-> listed[r] + IF r \in page THEN 1 ELSE 0]
          /\ done' = (page = rows)
          /\ IF page = rows THEN UNCHANGED cursor
             ELSE \E last \in page : /\ \A r \in page \ {last} : Newer(r, last)
                                     /\ cursor' = Place(last)
     /\ UNCHANGED <<updated, matches, now, stable>>

Next == Page \/ Tick \/ \E r \in Resources : Change(r)

Spec == Init /\ [][Next]_vars

-----------------------------------------------------------------------------
(* A reader who follows the cursors to the end has met every resource that *)
(* matched and was left alone exactly once, whatever else was changed and  *)
(* however many rows have the same time.                                   *)
StableListedOnce ==
  \A r \in Resources \cap stable :
    listed[r] <= 1 /\ (done => listed[r] = IF r \in matches THEN 1 ELSE 0)

(* Why it holds: of what was left alone, the rows that are not below the   *)
(* cursor have been listed once and the others not yet.                    *)
PagingAssumption == Resources \subseteq Nat /\ Limit \in Nat \ {0} /\ MaxTime \in Nat

Typed ==
  /\ now \in 0 .. MaxTime /\ updated \in [Resources -> 0 .. now]
  /\ matches \subseteq Resources /\ cursor \in Nat \X Nat
  /\ listed \in [Resources -> Nat] /\ stable \subseteq Resources /\ done \in BOOLEAN

IInv ==
  /\ Typed
  /\ \A r \in stable :
       listed[r] = IF r \in matches /\ (done \/ ~Below(Place(r), cursor)) THEN 1 ELSE 0
=============================================================================
