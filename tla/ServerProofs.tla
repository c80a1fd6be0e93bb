----------------------------- MODULE ServerProofs -----------------------------
(***************************************************************************)
(* What the server keeps in its rows, proved for every number of processes,*)
(* resources, keys, items, reviewers, imports and learners.                *)
(*                                                                         *)
(* Each part has its inductive invariant IInv in its module: one lemma for *)
(* each action shows that it is kept, a lemma ...Next puts these together, *)
(* and ...Still says that the steps of the other parts leave it.           *)
(***************************************************************************)
EXTENDS ServerScene, SequencesExt, FiniteSetTheorems, WellFoundedInduction, TLAPS

(* A set of numbers that is not empty has a least one.                     *)
LEMMA ResLeast ==
  ASSUME NEW T, T \subseteq Nat, T # {}
  PROVE  \E e \in T : \A f \in T : e <= f
<1>1. PICK e \in T : \A f \in T : ~(<<f, e>> \in OpToRel(<, Nat))
  BY WFMin, NatLessThanWellFounded
<1>2. \A f \in T : ~(f < e)
  BY <1>1 DEF OpToRel
<1> QED BY <1>2

(* Sequences up to a number have a greatest one.                           *)
LEMMA ResMax ==
  ASSUME NEW n \in Nat, NEW T, T \subseteq 0..n, T # {}
  PROVE  Max(T) \in T /\ \A t \in T : t <= Max(T)
<1> DEFINE U == {n - t : t \in T}
<1>1. U \subseteq Nat /\ U # {}
  <2>1. \A t \in T : n - t \in Nat
    OBVIOUS
  <2> QED BY <2>1
<1>2. PICK u \in U : \A v \in U : u <= v
  <2> HIDE DEF U
  <2> QED BY <1>1, ResLeast
<1>3. PICK m \in T : u = n - m
  OBVIOUS
<1>4. \A t \in T : m >= t
  <2> SUFFICES ASSUME NEW t \in T PROVE m >= t
    OBVIOUS
  <2>1. n - t \in U
    OBVIOUS
  <2>2. n - m <= n - t
    BY <1>2, <1>3, <2>1
  <2> QED BY <2>2
<1>5. \E x \in T : \A t \in T : x >= t
  BY <1>4
<1>6. Max(T) \in T /\ \A t \in T : Max(T) >= t
  BY <1>5 DEF Max
<1> QED BY <1>6

(* What may be stored, logged and asked for only grows with the counters.  *)
LEMMA ResGrow ==
  ASSUME NEW m \in Nat, NEW n \in Nat, m <= n, NEW k \in Nat, NEW l \in Nat, k <= l
  PROVE  /\ \A v : StoredRow(v, m) => StoredRow(v, n)
         /\ Version(m) \subseteq Version(n)
         /\ Event(m, k) \subseteq Event(n, l)
         /\ \A t : IsRequest(t, m, k) => IsRequest(t, n, l)
<1>1. 1 .. m + 1 \subseteq 1 .. n + 1 /\ 0 .. m \subseteq 0 .. n /\ 1 .. m \subseteq 1 .. n
      /\ 1 .. k \subseteq 1 .. l /\ 0 .. k \subseteq 0 .. l
  OBVIOUS
<1>2. \A v : StoredRow(v, m) => StoredRow(v, n)
  BY <1>1 DEF StoredRow
<1>3. Version(m) \subseteq Version(n)
  BY <1>1 DEF Version
<1>4. Event(m, k) \subseteq Event(n, l)
  BY <1>1 DEF Event
<1>5. ASSUME NEW t, IsRequest(t, m, k) PROVE IsRequest(t, n, l)
  <2>1. SUBSET Event(m, k) \subseteq SUBSET Event(n, l)
    BY <1>4
  <2>2. t \in [at : {"idle", "update", "previous", "insert", "commit", "record", "purge"},
            op : Changing \cup {"none", "create", "retain"}, id : 0 .. n,
            res : SUBSET Resources, new : {t.new}, left : SUBSET t.res,
            locks : SUBSET t.res, prev : 0 .. l, events : SUBSET Event(n, l),
            key : Keys \cup {NoKey}]
    BY <1>1, <1>5, <2>1 DEF IsRequest
  <2>3. t.op = "create" \/ (t.op \in Changing /\ Pending(t)) => StoredRow(t.new, n)
    BY <1>2, <1>5 DEF IsRequest
  <2> QED BY <1>5, <2>2, <2>3 DEF IsRequest
<1> QED BY <1>2, <1>3, <1>4, <1>5

(* A closed transaction is one whatever has been drawn.                    *)
LEMMA ResClosed ==
  ASSUME NEW n \in Nat, NEW l \in Nat
  PROVE  /\ IsRequest(Closed, n, l) /\ ~Pending(Closed)
         /\ Closed.at = "idle" /\ Closed.op = "none" /\ Closed.res = {} /\ Closed.id = 0
         /\ Closed.events = {} /\ Closed.locks = {} /\ Closed.left = {} /\ Closed.key = NoKey
BY DEF IsRequest, Closed, Changing, Pending

(* What is idle is closed, and works on nothing.                           *)
LEMMA ResIdle ==
  ASSUME NEW n \in Nat, NEW l \in Nat, NEW t, IsRequest(t, n, l)
  PROVE  /\ t.at = "idle" => t = Closed
         /\ t.at # "idle" => t.id \in 1 .. n /\ t.op # "none"
         /\ t.res \subseteq Resources /\ t.left \subseteq t.res /\ t.locks \subseteq t.res
         /\ t.events \subseteq Event(n, l) /\ \A e \in t.events : e.id = t.id
         /\ t.events # {} \/ t.op # "none" \/ t.res # {} \/ Pending(t) => t.at # "idle"
<1>1. t.at = "idle" => t = Closed
  BY DEF IsRequest
<1>2. t.at # "idle" => t.id \in 1 .. n /\ t.op # "none"
  BY DEF IsRequest
<1>3. /\ t.res \subseteq Resources /\ t.left \subseteq t.res /\ t.locks \subseteq t.res
      /\ t.events \subseteq Event(n, l) /\ \A e \in t.events : e.id = t.id
  BY DEF IsRequest
<1> QED BY <1>1, <1>2, <1>3, ResClosed

(* What a handler brings to a request that it begins.                      *)
Asked(t) ==
  /\ t \in [at : {"update", "previous"}, op : Changing \cup {"create", "retain"}, id : {0},
            res : SUBSET Resources, new : {t.new}, left : SUBSET t.res, locks : {{}},
            prev : {0}, events : {{}}, key : Keys \cup {NoKey}]
  /\ t.op \in {"patch", "status"} <=> t.at = "update"
  /\ t.key # NoKey => t.op = "create"
  /\ t.op = "create" => \E r \in Resources : t.res = {r}
  /\ t.op = "create" \/ t.op \in Changing => StoredRow(t.new, ids + 1)
  /\ \A r \in t.res :
       /\ t.op = "create" => /\ row[r] = Absent /\ reads[r] = {}
                             /\ \A q \in Replica : r \notin tx[q].res
       /\ t.op # "create" => row[r] # Absent
       /\ t.op \in Changing => row[r].type = t.new.type
       /\ r \notin disturbed =>
            /\ t.op \in Changing => Follows(row[r], t.new)
            /\ t.op \in {"patch", "approve"} => Editable(r)
            /\ t.op = "retain" => Deletable(row[r])

(* What a handler hands to Begin is a request with the next number.        *)
LEMMA ResNumbered ==
  ASSUME NEW n \in Nat, NEW l \in Nat, NEW t,
         t \in [at : {"update", "previous"}, op : Changing \cup {"create", "retain"}, id : {0},
            res : SUBSET Resources, new : {t.new}, left : SUBSET t.res, locks : {{}},
            prev : {0}, events : {{}}, key : Keys \cup {NoKey}],
         t.op \in {"patch", "status"} <=> t.at = "update",
         t.key # NoKey => t.op = "create",
         t.op = "create" => \E r \in Resources : t.res = {r},
         t.op = "create" \/ t.op \in Changing => StoredRow(t.new, n + 1),
         NEW u, u = [t EXCEPT !.id = n + 1]
  PROVE  /\ IsRequest(u, n + 1, l) /\ Pending(u)
         /\ u.at = t.at /\ u.op = t.op /\ u.id = n + 1 /\ u.res = t.res /\ u.new = t.new
         /\ u.locks = {} /\ u.events = {} /\ u.key = t.key
<1>1. /\ u.at = t.at /\ u.op = t.op /\ u.id = n + 1 /\ u.res = t.res /\ u.new = t.new
      /\ u.left = t.left /\ u.locks = {} /\ u.events = {} /\ u.key = t.key /\ u.prev = 0
  OBVIOUS
<1>2. n + 1 \in 0 .. n + 1 /\ 0 \in 0 .. l
  OBVIOUS
<1>3. u \in [at : {"idle", "update", "previous", "insert", "commit", "record", "purge"},
            op : Changing \cup {"none", "create", "retain"}, id : 0 .. n + 1,
            res : SUBSET Resources, new : {u.new}, left : SUBSET u.res,
            locks : SUBSET u.res, prev : 0 .. l, events : SUBSET Event(n + 1, l),
            key : Keys \cup {NoKey}]
  <2> DEFINE fields == [at : {"update", "previous"}, op : Changing \cup {"create", "retain"},
            id : {n + 1},
            res : SUBSET Resources, new : {t.new}, left : SUBSET t.res, locks : {{}},
            prev : {0}, events : {{}}, key : Keys \cup {NoKey}]
  <2>1. u \in fields
    OBVIOUS
  <2> QED BY <2>1, <1>1, <1>2
<1>4. u.at \in {"update", "previous"} /\ u.id # 0 /\ u.op # "none"
  BY <1>1 DEF Changing
<1> QED BY <1>1, <1>3, <1>4 DEF IsRequest, Pending

(* A request that begins takes the next number and is known to overlap     *)
(* with those under way.                                                   *)
LEMMA ResBegin ==
  ASSUME ResourceAssumption, IInv, NEW p \in Replica, NEW t, Asked(t), Begin(p, t)
  PROVE  IInv'
<1> DEFINE u == [t EXCEPT !.id = ids + 1]
<1>0. ids \in Nat /\ lastSeq \in Nat /\ ids <= MaxTx /\ MaxTx \in Nat
  BY DEF IInv, Typed, ResourceAssumption
<1>1. /\ tx[p].at = "idle" /\ tx[p] = Closed /\ ids < MaxTx /\ ids' = ids + 1 /\ u = [t EXCEPT !.id = ids + 1]
      /\ UNCHANGED <<row, reads, log, lastSeq, record, answered, reader>>
  BY <1>0, ResIdle DEF Begin, Open, IInv, Typed
<1>2. /\ IsRequest(u, ids', lastSeq) /\ Pending(u)
      /\ u.at = t.at /\ u.op = t.op /\ u.id = ids + 1 /\ u.res = t.res /\ u.new = t.new
      /\ u.locks = {} /\ u.events = {} /\ u.key = t.key
  <2> HIDE DEF u
  <2> QED BY <1>0, <1>1, ResNumbered DEF Asked
<1>3. /\ tx'[p] = u /\ \A q \in Replica : q # p => tx'[q] = tx[q]
      /\ tx' = [q \in Replica |-> tx'[q]]
  BY DEF Begin, IInv, Typed
<1> HIDE DEF u
<1>4. /\ overlap \subseteq overlap' /\ disturbed \subseteq disturbed'
      /\ disturbed' \subseteq Resources
      /\ object \subseteq object' /\ object' \subseteq {ObjectOf(r) : r \in Resources}
      /\ \A q \in Replica \ {p} : tx[q].at # "idle" =>
           {ids + 1, tx[q].id} \in overlap' /\ t.res \cap tx[q].res \subseteq disturbed'
  <2>1. t.res \subseteq Resources
    BY DEF Asked
  <2> QED BY <2>1 DEF Begin, Others, Open, IInv, Typed
<1>5. \A q \in Replica : IsRequest(tx[q], ids, lastSeq)
  BY DEF IInv, Typed
<1>6. \A q \in Replica : IsRequest(tx'[q], ids', lastSeq')
  <2> SUFFICES ASSUME NEW q \in Replica PROVE IsRequest(tx'[q], ids', lastSeq')
    OBVIOUS
  <2>1. CASE q = p
    BY <2>1, <1>1, <1>2, <1>3
  <2>2. CASE q # p
    <3>1. ids + 1 \in Nat /\ ids <= ids + 1 /\ lastSeq <= lastSeq
      BY <1>0
    <3> QED BY <3>1, <2>2, <1>0, <1>1, <1>3, <1>5, ResGrow
  <2> QED BY <2>1, <2>2
<1>7. Typed'
  <2>1. ids + 1 \in Nat /\ ids <= ids + 1 /\ lastSeq <= lastSeq /\ ids + 1 \in 0 .. MaxTx
    BY <1>0, <1>1
  <2>2. /\ \A r \in Resources : row[r] = Absent \/ StoredRow(row[r], ids + 1)
        /\ reads \in [Resources -> SUBSET Version(ids + 1)]
        /\ log \subseteq Event(ids + 1, lastSeq)
    <3>1. SUBSET Version(ids) \subseteq SUBSET Version(ids + 1)
      BY <2>1, <1>0, ResGrow
    <3>2. Event(ids, lastSeq) \subseteq Event(ids + 1, lastSeq)
      BY <2>1, <1>0, ResGrow
    <3>3. \A v : StoredRow(v, ids) => StoredRow(v, ids + 1)
      BY <2>1, <1>0, ResGrow
    <3> QED BY <3>1, <3>2, <3>3 DEF IInv, Typed
  <2> QED BY <2>1, <2>2, <1>1, <1>3, <1>4, <1>6 DEF IInv, Typed
<1>8. Together'
  <2> SUFFICES ASSUME NEW a \in Replica, NEW b \in Replica, a # b,
                      tx'[a].at # "idle", tx'[b].at # "idle"
               PROVE  /\ tx'[a].id # tx'[b].id /\ {tx'[a].id, tx'[b].id} \in overlap'
                      /\ tx'[a].res \cap tx'[b].res \subseteq disturbed'
    BY DEF Together, Open
  <2>1. \A q \in Replica : tx[q].id <= ids /\ tx[q].id \in Nat
    BY <1>0, <1>5, ResIdle DEF IsRequest
  <2>2. \A q \in Replica : tx[q].id # ids + 1
    BY <1>0, <2>1
  <2>3. CASE a = p
    BY <2>2, <2>3, <1>2, <1>3, <1>4
  <2>4. CASE b = p
    <3>1. {tx'[a].id, tx'[b].id} = {tx'[b].id, tx'[a].id}
      OBVIOUS
    <3> QED BY <3>1, <2>2, <2>4, <1>2, <1>3, <1>4
  <2>5. CASE a # p /\ b # p
    BY <2>5, <1>3, <1>4 DEF IInv, Together, Open
  <2> QED BY <2>3, <2>4, <2>5
<1>9. Events' = Events
  <2>1. \A q \in Replica : tx'[q].events = tx[q].events
    BY <1>1, <1>2, <1>3, <1>0, ResClosed
  <2> QED BY <2>1, <1>1 DEF Events
<1>10. \A f \in log : f.id # ids + 1
  <2>1. \A f \in log : f.id <= ids
    BY <1>0 DEF IInv, Typed, Event
  <2>2. \A f \in log : f.id \in Nat
    BY <1>0 DEF IInv, Typed, Event
  <2> QED BY <2>1, <2>2, <1>0
<1>11. Chained'
  <2>1. /\ \A e, f \in Events' : e.seq = f.seq => e = f
        /\ \A e, f \in Events' : e # f /\ e.prev = f.prev => {e.id, f.id} \in overlap'
    BY <1>9, <1>4 DEF IInv, Chained
  <2>2. \A q \in Replica : tx'[q].at = "insert" =>
          \A f \in Events' : f.prev = tx'[q].prev => {tx'[q].id, f.id} \in overlap'
    <3> SUFFICES ASSUME NEW q \in Replica, tx'[q].at = "insert"
                 PROVE  \A f \in Events' : f.prev = tx'[q].prev => {tx'[q].id, f.id} \in overlap'
      OBVIOUS
    <3>1. t.at # "insert"
      BY DEF Asked
    <3>2. tx'[q] = tx[q]
      BY <3>1, <1>2, <1>3
    <3>3. \A f \in Events : f.prev = tx[q].prev => {tx[q].id, f.id} \in overlap
      BY <3>2 DEF IInv, Chained
    <3>4. \A e : e \in Events' => e \in Events
      BY <1>9
    <3> QED BY <3>2, <3>3, <3>4, <1>4
  <2>3. \A q \in Replica : Pending(tx'[q]) => \A f \in log' : f.id # tx'[q].id
    <3> SUFFICES ASSUME NEW q \in Replica, Pending(tx'[q])
                 PROVE  \A f \in log : f.id # tx'[q].id
      BY <1>1
    <3>1. CASE q = p
      BY <3>1, <1>2, <1>3, <1>10
    <3>2. CASE q # p
      BY <3>2, <1>3 DEF IInv, Chained
    <3> QED BY <3>1, <3>2
  <2>4. \A q \in Replica : \A e \in tx'[q].events, f \in Events' :
          f.seq > e.seq /\ f.id # e.id => {e.id, f.id} \in overlap'
    BY <1>2, <1>3, <1>9, <1>4 DEF IInv, Chained
  <2> QED BY <2>1, <2>2, <2>3, <2>4 DEF Chained, Pending
<1>12. Streamed'
  <2>1. \A q \in Replica : tx'[q].events \subseteq tx[q].events
    BY <1>2, <1>3
  <2> QED BY <2>1, <1>1, <1>4 DEF IInv, Streamed, NothingSkipped, Overtaken
<1>13. Stocked'
  <2>1. \A r : HasObject(r) => HasObject(r)'
    BY <1>1, <1>4 DEF HasObject, Deleted
  <2>2. /\ \A r \in Resources : row'[r] # Absent => reads'[r] # {}
        /\ \A r \in Resources : reads'[r] # {} => HasObject(r)'
    BY <1>1, <2>1 DEF IInv, Stocked
  <2>3. \A r \in t.res : t.op = "create" => HasObject(r)'
    BY DEF Begin, HasObject
  <2>4. ASSUME NEW q \in Replica, NEW r \in tx'[q].res
        PROVE  /\ tx'[q].op # "create" => reads'[r] # {}
               /\ tx'[q].at = "purge" => row'[r] = Absent /\ reads'[r] # {}
               /\ tx'[q].op = "create" /\ Pending(tx'[q]) =>
                    /\ row'[r] = Absent /\ reads'[r] = {} /\ HasObject(r)'
                    /\ \A z \in Replica \ {q} : r \notin tx'[z].res
    <3>1. CASE q = p
      <4>1. r \in t.res /\ r \in Resources /\ tx'[q].op = t.op /\ tx'[q].at # "purge"
        BY <3>1, <2>4, <1>2, <1>3 DEF Asked
      <4>2. t.op # "create" => reads'[r] # {}
        BY <4>1, <1>1 DEF Asked, IInv, Stocked
      <4>3. t.op = "create" => /\ row'[r] = Absent /\ reads'[r] = {}
                               /\ \A z \in Replica \ {p} : r \notin tx'[z].res
        BY <4>1, <1>1, <1>3 DEF Asked
      <4> QED BY <3>1, <4>1, <4>2, <4>3, <2>3
    <3>2. CASE q # p
      <4>1. tx'[q] = tx[q] /\ r \in Resources
        BY <3>2, <2>4, <1>3, <1>5, <1>0, ResIdle
      <4>2. tx[q].op = "create" /\ Pending(tx[q]) => r \notin t.res
        <5>1. tx[q].op = "create" /\ Pending(tx[q]) => row[r] = Absent
          BY <4>1, <2>4 DEF IInv, Stocked
        <5>2. r \in t.res => (t.op # "create" => row[r] # Absent)
          BY DEF Asked
        <5>3. r \in t.res => (t.op = "create" => r \notin tx[q].res)
          BY DEF Asked
        <5> QED BY <5>1, <5>2, <5>3, <4>1, <2>4
      <4>3. /\ tx[q].op # "create" => reads[r] # {}
            /\ tx[q].at = "purge" => row[r] = Absent /\ reads[r] # {}
            /\ tx[q].op = "create" /\ Pending(tx[q]) =>
                    /\ row[r] = Absent /\ reads[r] = {} /\ HasObject(r)
                    /\ \A z \in Replica \ {q} : r \notin tx[z].res
        BY <4>1, <2>4 DEF IInv, Stocked, Deleted
      <4> QED BY <4>1, <4>2, <4>3, <2>1, <1>1, <1>2, <1>3
    <3> QED BY <3>1, <3>2
  <2> QED BY <2>2, <2>4 DEF Stocked, Deleted, Pending
<1>14. Held'
  <2> SUFFICES ASSUME NEW q \in Replica, tx'[q].op \in Changing
               PROVE  /\ Pending(tx'[q]) =>
                           \A r \in tx'[q].res : row'[r] # Absent => row'[r].type = tx'[q].new.type
                      /\ \A r \in tx'[q].locks : row'[r] # Absent
                      /\ \/ tx'[q].at = "commit"
                         \/ tx'[q].op \in {"patch", "status"} /\ tx'[q].at \in {"previous", "insert"}
                         => tx'[q].res \subseteq tx'[q].locks
    BY DEF Held, Pending
  <2>1. CASE q = p
    BY <2>1, <1>1, <1>2, <1>3 DEF Asked, Changing
  <2>2. CASE q # p
    BY <2>2, <1>1, <1>3 DEF IInv, Held
  <2> QED BY <2>1, <2>2
<1>15. Keyed'
  BY <1>1 DEF IInv, Keyed
<1>16. AsRead'
  <2>1. \A r \in Resources \ disturbed' : row'[r] # Absent =>
          \A s \in reads'[r] : /\ s.version <= row'[r].version
                               /\ s.version = row'[r].version => s.payload = row'[r].payload
    BY <1>1, <1>4 DEF IInv, AsRead
  <2>2. ASSUME NEW q \in Replica, NEW r \in tx'[q].res \ disturbed', Pending(tx'[q])
        PROVE  /\ tx'[q].op \in Changing => Follows(row'[r], tx'[q].new)
               /\ tx'[q].op \in {"patch", "approve"} => Editable(r)'
               /\ tx'[q].op = "retain" => Deletable(row'[r])
    <3>1. r \notin disturbed /\ row' = row
      BY <1>1, <1>4
    <3>2. CASE q = p
      BY <3>1, <3>2, <1>2, <1>3, <2>2 DEF Asked, Editable
    <3>3. CASE q # p
      BY <3>1, <3>3, <1>3, <2>2 DEF IInv, AsRead, Editable
    <3> QED BY <3>2, <3>3
  <2> QED BY <2>1, <2>2 DEF AsRead, Pending
<1> QED BY <1>7, <1>8, <1>11, <1>12, <1>13, <1>14, <1>15, <1>16 DEF IInv

(* A transaction that ends without a commit leaves nothing but numbers it  *)
(* has drawn, and stored objects it has deleted.                           *)
LEMMA ResEnd ==
  ASSUME IInv, NEW p \in Replica, tx' = [tx EXCEPT ![p] = Closed],
         UNCHANGED <<row, reads, log, reader, ids, overlap, disturbed>>,
         lastSeq' \in Nat, lastSeq <= lastSeq', object' \subseteq object,
         \A r \in Resources : ObjectOf(r) \in object \ object' =>
           \E q \in Resources : Deleted(q) /\ ObjectOf(q) = ObjectOf(r)
  PROVE  /\ record' \in [Keys -> [res : Resources \cup {0}, body : Types \cup NewTypes \cup {"none"}]]
            => Typed'
         /\ Together' /\ Chained' /\ Streamed' /\ Stocked' /\ Held' /\ AsRead'
<1>0. ids \in Nat /\ lastSeq \in Nat /\ ids \in 0 .. MaxTx
  BY DEF IInv, Typed
<1>1. \A q \in Replica : IsRequest(tx[q], ids, lastSeq)
  BY DEF IInv, Typed
<1>2. /\ tx'[p] = Closed /\ \A q \in Replica : q # p => tx'[q] = tx[q]
      /\ tx' = [q \in Replica |-> tx'[q]]
  BY DEF IInv, Typed
<1>3. /\ IsRequest(Closed, ids, lastSeq') /\ ~Pending(Closed)
      /\ Closed.at = "idle" /\ Closed.op = "none" /\ Closed.res = {} /\ Closed.id = 0
      /\ Closed.events = {} /\ Closed.locks = {} /\ Closed.left = {} /\ Closed.key = NoKey
  BY <1>0, ResClosed
<1>4. \A q \in Replica : IsRequest(tx'[q], ids', lastSeq')
  <2>1. ids <= ids
    BY <1>0
  <2> QED BY <2>1, <1>0, <1>1, <1>2, <1>3, ResGrow
<1>5. record' \in [Keys -> [res : Resources \cup {0}, body : Types \cup NewTypes \cup {"none"}]]
        => Typed'
  <2>1. Event(ids, lastSeq) \subseteq Event(ids, lastSeq')
    <3>1. ids <= ids
      BY <1>0
    <3> QED BY <3>1, <1>0, ResGrow
  <2>2. 0 .. lastSeq \subseteq 0 .. lastSeq'
    BY <1>0
  <2>3. reader \in [after : 0 .. lastSeq', sent : SUBSET log]
    BY <2>2 DEF IInv, Typed
  <2> QED BY <2>1, <2>3, <1>2, <1>4 DEF IInv, Typed
<1>6. Together'
  BY <1>2, <1>3 DEF IInv, Together, Open
<1>7. Events' \subseteq Events
  BY <1>2, <1>3 DEF Events
<1>8. Chained'
  <2>1. \A q \in Replica : tx'[q] = tx[q] \/ tx'[q] = Closed
    BY <1>2
  <2>2. /\ \A e, f \in Events' : e.seq = f.seq => e = f
        /\ \A e, f \in Events' : e # f /\ e.prev = f.prev => {e.id, f.id} \in overlap'
    BY <1>7 DEF IInv, Chained
  <2>3. \A q \in Replica : tx'[q].at = "insert" =>
          \A f \in Events' : f.prev = tx'[q].prev => {tx'[q].id, f.id} \in overlap'
    BY <1>3, <1>7, <2>1 DEF IInv, Chained
  <2>4. \A q \in Replica : Pending(tx'[q]) => \A f \in log' : f.id # tx'[q].id
    BY <1>3, <2>1 DEF IInv, Chained
  <2>5. \A q \in Replica : \A e \in tx'[q].events, f \in Events' :
          f.seq > e.seq /\ f.id # e.id => {e.id, f.id} \in overlap'
    BY <1>3, <1>7, <2>1 DEF IInv, Chained
  <2> QED BY <2>2, <2>3, <2>4, <2>5 DEF Chained, Pending
<1>9. Streamed'
  <2>1. \A q \in Replica : tx'[q].events \subseteq tx[q].events
    BY <1>2, <1>3
  <2> QED BY <2>1 DEF IInv, Streamed, NothingSkipped, Overtaken
<1>10. Stocked'
  <2>1. \A r \in Resources : HasObject(r) => HasObject(r)'
    BY DEF HasObject, Deleted
  <2>2. \A q \in Replica : tx'[q].res \subseteq tx[q].res
    BY <1>2, <1>3
  <2>3. ASSUME NEW q \in Replica, NEW r \in tx'[q].res
        PROVE  /\ tx'[q].op # "create" => reads'[r] # {}
               /\ tx'[q].at = "purge" => row'[r] = Absent /\ reads'[r] # {}
               /\ tx'[q].op = "create" /\ Pending(tx'[q]) =>
                    /\ row'[r] = Absent /\ reads'[r] = {} /\ HasObject(r)'
                    /\ \A z \in Replica \ {q} : r \notin tx'[z].res
    <3>1. tx'[q] = tx[q] /\ r \in Resources
      BY <2>3, <1>0, <1>1, <1>2, <1>3, ResIdle
    <3>2. /\ tx[q].op # "create" => reads[r] # {}
          /\ tx[q].at = "purge" => row[r] = Absent /\ reads[r] # {}
          /\ tx[q].op = "create" /\ Pending(tx[q]) =>
                    /\ row[r] = Absent /\ reads[r] = {} /\ HasObject(r)
                    /\ \A z \in Replica \ {q} : r \notin tx[z].res
      BY <2>3, <3>1 DEF IInv, Stocked, Deleted
    <3> QED BY <2>1, <2>2, <3>1, <3>2
  <2> QED BY <2>1, <2>3 DEF IInv, Stocked, Deleted, Pending
<1>11. Held'
  <2>1. "none" \notin Changing
    BY DEF Changing
  <2>2. \A q \in Replica : tx'[q].op \in Changing => tx'[q] = tx[q]
    BY <2>1, <1>2, <1>3
  <2> QED BY <2>2 DEF IInv, Held, Pending
<1>12. AsRead'
  <2>1. \A q \in Replica : Pending(tx'[q]) => tx'[q] = tx[q]
    BY <1>2, <1>3
  <2> QED BY <2>1 DEF IInv, AsRead, Pending, Editable
<1> QED BY <1>5, <1>6, <1>8, <1>9, <1>10, <1>11, <1>12

(* A transaction goes on: its locks grow within its rows, and what it has  *)
(* drawn is left to the cases below.                                       *)
LEMMA ResOn ==
  ASSUME IInv, NEW p \in Replica, NEW u, tx' = [tx EXCEPT ![p] = u],
         UNCHANGED <<row, object, reads, log, record, answered, reader, ids, overlap, disturbed>>,
         lastSeq' \in Nat, lastSeq <= lastSeq',
         IsRequest(u, ids, lastSeq'), Pending(tx[p]), Pending(u),
         u.id = tx[p].id, u.op = tx[p].op, u.res = tx[p].res, u.new = tx[p].new,
         \A r \in u.locks : u.op \in Changing => r \in tx[p].locks \/ row[r] # Absent,
         u.op \in Changing =>
           ( \/ u.at = "commit"
             \/ u.op \in {"patch", "status"} /\ u.at \in {"previous", "insert"}
             => u.res \subseteq u.locks )
  PROVE  Chained' /\ Streamed' => IInv'
<1>0. ids \in Nat /\ lastSeq \in Nat /\ ids \in 0 .. MaxTx
  BY DEF IInv, Typed
<1>1. \A q \in Replica : IsRequest(tx[q], ids, lastSeq)
  BY DEF IInv, Typed
<1>2. /\ tx'[p] = u /\ \A q \in Replica : q # p => tx'[q] = tx[q]
      /\ tx' = [q \in Replica |-> tx'[q]]
  BY DEF IInv, Typed
<1>3. \A q \in Replica : IsRequest(tx'[q], ids', lastSeq')
  <2>1. ids <= ids
    BY <1>0
  <2> QED BY <2>1, <1>0, <1>1, <1>2, ResGrow
<1>4. Typed'
  <2>1. Event(ids, lastSeq) \subseteq Event(ids, lastSeq')
    <3>1. ids <= ids
      BY <1>0
    <3> QED BY <3>1, <1>0, ResGrow
  <2>2. 0 .. lastSeq \subseteq 0 .. lastSeq'
    BY <1>0
  <2>3. reader \in [after : 0 .. lastSeq', sent : SUBSET log]
    BY <2>2 DEF IInv, Typed
  <2> QED BY <2>1, <2>3, <1>2, <1>3 DEF IInv, Typed
<1>5. tx[p].at \notin {"idle", "purge"} /\ u.at \notin {"idle", "purge"}
  BY DEF Pending
<1>6. \A q \in Replica : /\ tx'[q].id = tx[q].id /\ tx'[q].op = tx[q].op
                         /\ tx'[q].res = tx[q].res /\ tx'[q].new = tx[q].new
                         /\ Pending(tx'[q]) <=> Pending(tx[q])
                         /\ tx'[q].at = "idle" <=> tx[q].at = "idle"
                         /\ tx'[q].at = "purge" <=> tx[q].at = "purge"
  BY <1>2, <1>5
<1>7. Together'
  <2> SUFFICES ASSUME NEW a \in Replica, NEW b \in Replica, a # b,
                      tx'[a].at # "idle", tx'[b].at # "idle"
               PROVE  /\ tx'[a].id # tx'[b].id /\ {tx'[a].id, tx'[b].id} \in overlap
                      /\ tx'[a].res \cap tx'[b].res \subseteq disturbed
    BY DEF Together, Open
  <2>1. tx[a].at # "idle" /\ tx[b].at # "idle"
    BY <1>6
  <2>2. /\ tx[a].id # tx[b].id /\ {tx[a].id, tx[b].id} \in overlap
        /\ tx[a].res \cap tx[b].res \subseteq disturbed
    BY <2>1 DEF IInv, Together, Open
  <2>3. tx'[a].id = tx[a].id /\ tx'[b].id = tx[b].id /\ tx'[a].res = tx[a].res /\ tx'[b].res = tx[b].res
    BY <1>6
  <2> QED BY <2>2, <2>3
<1>8. Stocked'
  <2>1. \A r : HasObject(r)' <=> HasObject(r)
    BY DEF HasObject, Deleted
  <2> QED BY <2>1, <1>6 DEF IInv, Stocked, Deleted, Pending
<1>9. Held'
  <2>1. ASSUME NEW q \in Replica, tx'[q].op \in Changing
        PROVE  /\ Pending(tx'[q]) =>
                   \A r \in tx'[q].res : row'[r] # Absent => row'[r].type = tx'[q].new.type
               /\ \A r \in tx'[q].locks : row'[r] # Absent
               /\ \/ tx'[q].at = "commit"
                  \/ tx'[q].op \in {"patch", "status"} /\ tx'[q].at \in {"previous", "insert"}
                  => tx'[q].res \subseteq tx'[q].locks
    <3>1. CASE q = p
      BY <3>1, <2>1, <1>2 DEF IInv, Held
    <3>2. CASE q # p
      BY <3>2, <2>1, <1>2 DEF IInv, Held
    <3> QED BY <3>1, <3>2
  <2> QED BY <2>1 DEF Held, Pending
<1>10. Keyed' /\ AsRead'
  BY <1>6 DEF IInv, Keyed, AsRead, Pending, Editable
<1> QED BY <1>4, <1>7, <1>8, <1>9, <1>10 DEF IInv

(* The row that patch flushes takes its lock, unless it was deleted.       *)
LEMMA ResUpdate ==
  ASSUME IInv, NEW p \in Replica, Update(p)
  PROVE  IInv'
<1>0. ids \in Nat /\ lastSeq \in Nat /\ IsRequest(tx[p], ids, lastSeq) /\ Pending(tx[p])
  BY DEF IInv, Typed, Update, Pending
<1>1. CASE \E r \in tx[p].res : row[r] = Absent
  <2>1. tx' = [tx EXCEPT ![p] = Closed]
    BY <1>1 DEF Update, IInv, Typed
  <2>2. lastSeq <= lastSeq' /\ lastSeq' \in Nat
    BY <1>0 DEF Update
  <2> QED BY <2>1, <2>2, ResEnd DEF Update, IInv, Keyed, Typed
<1>2. CASE \A r \in tx[p].res : row[r] # Absent
  <2> DEFINE u == [tx[p] EXCEPT !.at = "previous", !.locks = tx[p].res]
  <2>1. tx' = [tx EXCEPT ![p] = u]
    BY <1>2 DEF Update, IInv, Typed
  <2>2. /\ u.at = "previous" /\ u.locks = tx[p].res /\ u.id = tx[p].id /\ u.op = tx[p].op
        /\ u.res = tx[p].res /\ u.new = tx[p].new /\ u.events = tx[p].events
        /\ u.left = tx[p].left /\ u.key = tx[p].key /\ u.prev = tx[p].prev
    BY <1>0 DEF IsRequest
  <2>3. IsRequest(u, ids, lastSeq)
    <3>1. u \in [at : {"idle", "update", "previous", "insert", "commit", "record", "purge"},
            op : Changing \cup {"none", "create", "retain"}, id : 0 .. ids,
            res : SUBSET Resources, new : {u.new}, left : SUBSET u.res,
            locks : SUBSET u.res, prev : 0 .. lastSeq, events : SUBSET Event(ids, lastSeq),
            key : Keys \cup {NoKey}]
      BY <1>0, <2>2 DEF IsRequest
    <3> QED BY <3>1, <2>2, <1>0 DEF IsRequest, Pending, Update
  <2>4. Chained' /\ Streamed'
    <3>1. tx'[p] = u /\ \A q \in Replica : q # p => tx'[q] = tx[q]
      BY <2>1 DEF IInv, Typed
    <3>2. \A q \in Replica : /\ tx'[q].events = tx[q].events /\ tx'[q].id = tx[q].id
                             /\ tx'[q].at = "insert" => tx'[q] = tx[q]
                             /\ Pending(tx'[q]) => Pending(tx[q])
      BY <3>1, <2>2, <1>0 DEF Pending
    <3>3. Events' = Events
      BY <3>2 DEF Events, Update
    <3> HIDE DEF u
    <3>4. Chained'
      BY <3>2, <3>3 DEF IInv, Chained, Update, Pending
    <3>5. Streamed'
      BY <3>2 DEF IInv, Streamed, NothingSkipped, Overtaken, Update
    <3> QED BY <3>4, <3>5
  <2>5. /\ lastSeq' \in Nat /\ lastSeq <= lastSeq' /\ IsRequest(u, ids, lastSeq') /\ Pending(u)
        /\ \A r \in u.locks : r \in tx[p].locks \/ row[r] # Absent
        /\ UNCHANGED <<row, object, reads, log, record, answered, reader, ids, overlap, disturbed>>
    BY <1>0, <1>2, <2>2, <2>3 DEF Update, Pending
  <2> HIDE DEF u
  <2> QED BY <1>0, <2>1, <2>2, <2>4, <2>5, ResOn
<1> QED BY <1>1, <1>2

(* The event a request appends to is the last it sees: one with the same   *)
(* predecessor is of a request under way.                                  *)
LEMMA ResPrevious ==
  ASSUME IInv, NEW p \in Replica, Previous(p)
  PROVE  IInv'
<1> DEFINE T == {e.seq : e \in log \cup tx[p].events} \cup {0}
           u == [tx[p] EXCEPT !.at = "insert", !.prev = Max(T)]
<1>0. ids \in Nat /\ lastSeq \in Nat /\ IsRequest(tx[p], ids, lastSeq) /\ Pending(tx[p])
  <2>1. tx[p].at = "previous"
    BY Zenon DEF Previous
  <2> QED BY <2>1 DEF IInv, Typed, Pending
<1>1. /\ tx' = [tx EXCEPT ![p] = u]
      /\ UNCHANGED <<row, object, reads, log, lastSeq, record, answered, reader, ids, overlap, disturbed>>
      /\ tx[p].at = "previous"
  BY Zenon DEF Previous
<1>2. log \cup tx[p].events \subseteq Event(ids, lastSeq)
  BY <1>0 DEF IsRequest, IInv, Typed
<1>3. Max(T) \in 0 .. lastSeq /\ \A t \in T : t <= Max(T)
  <2>1. T \subseteq 0 .. lastSeq /\ T # {}
    BY <1>0, <1>2 DEF Event
  <2> HIDE DEF T
  <2>2. Max(T) \in T /\ \A t \in T : t <= Max(T)
    BY <1>0, <2>1, ResMax
  <2> QED BY <2>1, <2>2
<1> DEFINE m == Max(T)
<1>4. m \in 0 .. lastSeq /\ \A f \in log \cup tx[p].events : f.prev # m
  <2>1. \A f \in log \cup tx[p].events : f.seq <= m
    BY <1>3
  <2> HIDE DEF m
  <2>2. m \in 0 .. lastSeq
    BY <1>3 DEF m
  <2> QED BY <1>0, <1>2, <2>1, <2>2 DEF Event
<1> HIDE DEF T
<1>5. u = [tx[p] EXCEPT !.at = "insert", !.prev = m]
  OBVIOUS
<1> HIDE DEF m, u
<1>6. /\ u.at = "insert" /\ u.locks = tx[p].locks /\ u.id = tx[p].id /\ u.op = tx[p].op
      /\ u.res = tx[p].res /\ u.new = tx[p].new /\ u.events = tx[p].events
      /\ u.left = tx[p].left /\ u.key = tx[p].key /\ u.prev = m
  BY <1>0, <1>5 DEF IsRequest
<1>7. IsRequest(u, ids, lastSeq)
  <2>1. u \in [at : {"idle", "update", "previous", "insert", "commit", "record", "purge"},
            op : Changing \cup {"none", "create", "retain"}, id : 0 .. ids,
            res : SUBSET Resources, new : {u.new}, left : SUBSET u.res,
            locks : SUBSET u.res, prev : 0 .. lastSeq, events : SUBSET Event(ids, lastSeq),
            key : Keys \cup {NoKey}]
    BY <1>0, <1>4, <1>5, <1>6 DEF IsRequest
  <2> QED BY <2>1, <1>6, <1>0 DEF IsRequest, Pending
<1>8. tx'[p] = u /\ \A q \in Replica : q # p => tx'[q] = tx[q]
  BY <1>1 DEF IInv, Typed
<1>9. \A q \in Replica : /\ tx'[q].events = tx[q].events /\ tx'[q].id = tx[q].id
                         /\ Pending(tx'[q]) => Pending(tx[q])
  BY <1>0, <1>6, <1>8
<1>10. Events' = Events
  BY <1>1, <1>9 DEF Events
<1>11. \A f \in Events : f.prev = m => {tx[p].id, f.id} \in overlap
  <2> SUFFICES ASSUME NEW f \in Events, f.prev = m PROVE {tx[p].id, f.id} \in overlap
    OBVIOUS
  <2>1. PICK q \in Replica : f \in tx[q].events
    BY <1>4 DEF Events
  <2>2. q # p
    BY <2>1, <1>4
  <2>3. tx[q].at # "idle" /\ f.id = tx[q].id /\ tx[p].at # "idle"
    BY <2>1, <1>0, ResIdle DEF IInv, Typed, Pending
  <2> QED BY <2>2, <2>3 DEF IInv, Together, Open
<1>12. Chained'
  <2>1. \A q \in Replica : tx'[q].at = "insert" =>
          \A f \in Events' : f.prev = tx'[q].prev => {tx'[q].id, f.id} \in overlap'
    <3> SUFFICES ASSUME NEW q \in Replica, tx'[q].at = "insert"
                 PROVE  \A f \in Events : f.prev = tx'[q].prev => {tx'[q].id, f.id} \in overlap
      BY <1>1, <1>10
    <3>1. CASE q = p
      BY <3>1, <1>6, <1>8, <1>11
    <3>2. CASE q # p
      BY <3>2, <1>8 DEF IInv, Chained
    <3> QED BY <3>1, <3>2
  <2>2. /\ \A e, f \in Events' : e.seq = f.seq => e = f
        /\ \A e, f \in Events' : e # f /\ e.prev = f.prev => {e.id, f.id} \in overlap'
        /\ \A q \in Replica : \A e \in tx'[q].events, f \in Events' :
             f.seq > e.seq /\ f.id # e.id => {e.id, f.id} \in overlap'
    BY <1>1, <1>9, <1>10 DEF IInv, Chained
  <2>3. \A q \in Replica : Pending(tx'[q]) => \A f \in log' : f.id # tx'[q].id
    BY <1>1, <1>9 DEF IInv, Chained
  <2> QED BY <2>1, <2>2, <2>3 DEF Chained, Pending
<1>13. Streamed'
  BY <1>1, <1>9 DEF IInv, Streamed, NothingSkipped, Overtaken
<1>14. /\ lastSeq' \in Nat /\ lastSeq <= lastSeq' /\ IsRequest(u, ids, lastSeq') /\ Pending(u)
       /\ \A r \in u.locks : r \in tx[p].locks \/ row[r] # Absent
  BY <1>0, <1>1, <1>6, <1>7 DEF Pending
<1>15. u.op \in Changing =>
           ( \/ u.at = "commit"
             \/ u.op \in {"patch", "status"} /\ u.at \in {"previous", "insert"}
             => u.res \subseteq u.locks )
  BY <1>6 DEF IInv, Held, Previous
<1> QED BY <1>0, <1>1, <1>6, <1>12, <1>13, <1>14, <1>15, ResOn

(* A new event takes the next sequence; those of the requests under way    *)
(* have overlapped it.                                                     *)
LEMMA ResInsert ==
  ASSUME IInv, NEW p \in Replica, Insert(p)
  PROVE  IInv'
<1> DEFINE t == tx[p]
           marked == CASE t.op \in {"transition", "approve"} -> t.res
                       [] t.op = "retain" -> t.res \ t.left
                       [] OTHER -> {}
           gone == t.op \in {"transition", "approve"} /\ \E r \in t.res : row[r] = Absent
           n == [seq |-> lastSeq + 1, prev |-> t.prev, id |-> t.id]
           on(d) == [t EXCEPT !.at = IF t.left \ d # {} THEN "previous" ELSE "commit",
                              !.left = @ \ d, !.locks = @ \cup marked,
                              !.events = @ \cup {n}]
<1>0. /\ ids \in Nat /\ lastSeq \in Nat /\ IsRequest(t, ids, lastSeq) /\ Pending(t)
      /\ t.at = "insert"
  <2>1. t.at = "insert"
    BY Zenon DEF Insert
  <2> QED BY <2>1 DEF IInv, Typed, Pending
<1>1. PICK given : tx' = [tx EXCEPT ![p] = IF gone THEN Closed ELSE on(given)]
  BY Zenon DEF Insert
<1>2. /\ lastSeq' = lastSeq + 1 /\ lastSeq' \in Nat /\ lastSeq <= lastSeq'
      /\ UNCHANGED <<row, object, reads, log, record, answered, reader, ids, overlap, disturbed>>
  BY <1>0 DEF Insert
<1>3. CASE gone
  <2>1. tx' = [tx EXCEPT ![p] = Closed]
    BY <1>1, <1>3 DEF IInv, Typed
  <2> QED BY <2>1, <1>2, ResEnd DEF IInv, Keyed, Typed
<1>4. CASE ~gone
  <2> DEFINE at == IF t.left \ given # {} THEN "previous" ELSE "commit"
             u == [t EXCEPT !.at = at, !.left = @ \ given, !.locks = @ \cup marked,
                            !.events = @ \cup {n}]
  <2>1. tx' = [tx EXCEPT ![p] = u]
    <3>1. u = on(given)
      OBVIOUS
    <3> HIDE DEF gone, on, u
    <3> QED BY <3>1, <1>1, <1>4
  <2>2. at \in {"previous", "commit"} /\ marked \subseteq t.res
    OBVIOUS
  <2>3. \A r \in marked : t.op \in Changing => row[r] # Absent
    BY <1>4 DEF Changing
  <2>4. t.op \in {"transition", "approve"} => marked = t.res
    OBVIOUS
  <2>5. n \in Event(ids, lastSeq') /\ n.id = t.id /\ n.seq = lastSeq + 1 /\ n.prev = t.prev
        /\ n \in [seq : {lastSeq + 1}, prev : {t.prev}, id : {t.id}]
    <3>1. t.prev \in 0 .. lastSeq /\ t.id \in 1 .. ids
      BY <1>0, ResIdle DEF IsRequest
    <3>2. /\ lastSeq + 1 \in 1 .. lastSeq + 1 /\ t.prev \in 0 .. lastSeq + 1
          /\ t.prev < lastSeq + 1
      BY <1>0, <3>1
    <3> QED BY <3>1, <3>2, <1>2 DEF Event
  <2> HIDE DEF at, marked, gone, n
  <2>6. /\ u.at = at /\ u.locks = t.locks \cup marked /\ u.id = t.id /\ u.op = t.op
        /\ u.res = t.res /\ u.new = t.new /\ u.events = t.events \cup {n}
        /\ u.left = t.left \ given /\ u.key = t.key /\ u.prev = t.prev
    BY <1>0 DEF IsRequest
  <2>7. IsRequest(u, ids, lastSeq')
    <3>0. SUBSET Event(ids, lastSeq) \subseteq SUBSET Event(ids, lastSeq')
      BY <1>0, <1>2, ResGrow
    <3>1. /\ t.events \subseteq Event(ids, lastSeq) /\ \A e \in t.events : e.id = t.id
          /\ t.locks \subseteq t.res /\ t.left \subseteq t.res
      BY <1>0 DEF IsRequest
    <3>2. u.events \subseteq Event(ids, lastSeq') /\ \A e \in u.events : e.id = u.id
      BY <3>0, <3>1, <2>5, <2>6
    <3>3. u.locks \subseteq u.res /\ u.left \subseteq u.res
      BY <3>1, <2>2, <2>6
    <3>4. t.prev \in 0 .. lastSeq'
      BY <1>0, <1>2 DEF IsRequest
    <3>5. u \in [at : {"idle", "update", "previous", "insert", "commit", "record", "purge"},
            op : Changing \cup {"none", "create", "retain"}, id : 0 .. ids,
            res : SUBSET Resources, new : {u.new}, left : SUBSET u.res,
            locks : SUBSET u.res, prev : 0 .. lastSeq', events : SUBSET Event(ids, lastSeq'),
            key : Keys \cup {NoKey}]
      <4> DEFINE fields == [at : {at}, op : Changing \cup {"none", "create", "retain"},
            id : 0 .. ids, res : {t.res}, new : {t.new}, left : {t.left \ given},
            locks : {t.locks \cup marked}, prev : {t.prev}, events : {t.events \cup {n}},
            key : Keys \cup {NoKey}]
      <4>1. u \in fields
        BY <1>0 DEF IsRequest
      <4>2. t.res \subseteq Resources
        BY <1>0 DEF IsRequest
      <4> HIDE DEF u
      <4> QED BY <4>1, <4>2, <2>2, <2>6, <3>2, <3>3, <3>4
    <3> HIDE DEF u
    <3> QED BY <3>2, <3>5, <2>2, <2>6, <1>0 DEF IsRequest, Pending
  <2> HIDE DEF u, t
  <2>8. tx'[p] = u /\ \A q \in Replica : q # p => tx'[q] = tx[q]
    BY <2>1 DEF IInv, Typed
  <2>9. Events' = Events \cup {n}
    BY <2>6, <2>8, <1>2 DEF Events, t
  <2>10. \A q \in Replica : /\ tx'[q].id = tx[q].id
                            /\ Pending(tx'[q]) => Pending(tx[q])
                            /\ tx'[q].at = "insert" => tx'[q] = tx[q] /\ q # p
                            /\ q # p => tx'[q] = tx[q]
    BY <1>0, <2>2, <2>6, <2>8 DEF t
  <2>11. \A e \in Events : e.seq \in 1 .. lastSeq /\ e.seq # n.seq /\ ~(e.seq > n.seq)
    <3>1. Events \subseteq Event(ids, lastSeq)
      BY ResIdle, <1>0 DEF Events, IInv, Typed
    <3> QED BY <3>1, <2>5, <1>0 DEF Event
  <2>12. \A q \in Replica : q # p /\ tx[q].at # "idle" =>
           {tx[q].id, n.id} \in overlap /\ {n.id, tx[q].id} \in overlap
    BY <1>0, <2>5 DEF IInv, Together, Open, t
  <2>13. Chained'
    <3>1. \A e, f \in Events' : e.seq = f.seq => e = f
      BY <2>9, <2>11 DEF IInv, Chained
    <3>2. \A e, f \in Events' : e # f /\ e.prev = f.prev => {e.id, f.id} \in overlap'
      <4>1. \A f \in Events : f.prev = n.prev => {n.id, f.id} \in overlap
        BY <1>0, <2>5 DEF IInv, Chained, t
      <4>2. \A f \in Events : f.prev = n.prev => {f.id, n.id} \in overlap
        <5>1. \A f : {f.id, n.id} = {n.id, f.id}
          OBVIOUS
        <5> QED BY <5>1, <4>1
      <4> QED BY <4>1, <4>2, <2>9, <1>2 DEF IInv, Chained
    <3>3. \A q \in Replica : tx'[q].at = "insert" =>
            \A f \in Events' : f.prev = tx'[q].prev => {tx'[q].id, f.id} \in overlap'
      <4> SUFFICES ASSUME NEW q \in Replica, tx'[q].at = "insert", NEW f \in Events',
                          f.prev = tx'[q].prev
                   PROVE  {tx'[q].id, f.id} \in overlap
        BY <1>2
      <4>1. tx'[q] = tx[q] /\ q # p
        BY <2>10
      <4>2. CASE f \in Events
        BY <4>1, <4>2 DEF IInv, Chained
      <4>3. CASE f = n
        BY <4>1, <4>3, <2>12
      <4> QED BY <4>2, <4>3, <2>9
    <3>4. \A q \in Replica : Pending(tx'[q]) => \A f \in log' : f.id # tx'[q].id
      <4> SUFFICES ASSUME NEW q \in Replica, Pending(tx'[q])
                   PROVE  \A f \in log : f.id # tx'[q].id
        BY <1>2
      <4>1. Pending(tx[q]) /\ tx'[q].id = tx[q].id
        BY <2>10
      <4> QED BY <4>1 DEF IInv, Chained
    <3>5. \A q \in Replica : \A e \in tx'[q].events, f \in Events' :
            f.seq > e.seq /\ f.id # e.id => {e.id, f.id} \in overlap'
      <4> SUFFICES ASSUME NEW q \in Replica, NEW e \in tx'[q].events, NEW f \in Events',
                          f.seq > e.seq, f.id # e.id
                   PROVE  {e.id, f.id} \in overlap
        BY <1>2
      <4>1. e \in Events'
        BY DEF Events
      <4>2. CASE e = n
        BY <4>2, <2>5, <2>9, <2>11, <1>0
      <4>3. CASE e # n /\ f # n
        <5>1. e \in tx[q].events /\ f \in Events
          BY <4>3, <2>6, <2>8, <2>9 DEF t
        <5> QED BY <5>1 DEF IInv, Chained
      <4>4. CASE e # n /\ f = n
        <5>1. e \in tx[q].events
          BY <4>4, <2>6, <2>8 DEF t
        <5>2. e.id = tx[q].id /\ tx[q].at # "idle"
          BY <5>1, <1>0, ResIdle DEF IInv, Typed
        <5>3. q # p
          BY <5>2, <4>4, <2>5 DEF t
        <5> QED BY <5>2, <5>3, <4>4, <2>12
      <4> QED BY <4>2, <4>3, <4>4
    <3> QED BY <3>1, <3>2, <3>3, <3>4, <3>5 DEF Chained, Pending
  <2>14. Streamed'
    <3>1. ~(n.seq <= reader.after)
      BY <1>0, <2>5 DEF IInv, Typed
    <3>2. \A q \in Replica : tx'[q].events \subseteq tx[q].events \cup {n}
      BY <2>6, <2>8 DEF t
    <3> QED BY <3>1, <3>2, <1>2 DEF IInv, Streamed, NothingSkipped, Overtaken
  <2>15. /\ Pending(u) /\ \A r \in u.locks : u.op \in Changing => r \in tx[p].locks \/ row[r] # Absent
         /\ u.id = tx[p].id /\ u.op = tx[p].op /\ u.res = tx[p].res /\ u.new = tx[p].new
         /\ Pending(tx[p])
    BY <1>0, <2>2, <2>3, <2>6 DEF t, Pending
  <2>16. u.op \in Changing =>
           ( \/ u.at = "commit"
             \/ u.op \in {"patch", "status"} /\ u.at \in {"previous", "insert"}
             => u.res \subseteq u.locks )
    <3>1. CASE u.op \in {"patch", "status"}
      <4>1. t.op \in Changing /\ t.op \in {"patch", "status"}
        BY <3>1, <2>6 DEF Changing
      <4>2. t.res \subseteq t.locks
        BY <4>1, <1>0 DEF IInv, Held, t
      <4> QED BY <4>2, <2>6
    <3>2. CASE u.op \in {"transition", "approve"}
      BY <3>2, <2>4, <2>6
    <3> QED BY <3>1, <3>2 DEF Changing
  <2> QED BY <1>2, <2>1, <2>7, <2>13, <2>14, <2>15, <2>16, ResOn
<1> QED BY <1>3, <1>4

(* The process dies or the database refuses.                               *)
LEMMA ResAbort ==
  ASSUME IInv, NEW p \in Replica, Abort(p)
  PROVE  IInv'
<1>1. lastSeq' \in Nat /\ lastSeq <= lastSeq'
  BY DEF Abort, IInv, Typed
<1> QED BY <1>1, ResEnd DEF Abort, IInv, Keyed, Typed

(* Retention deletes the objects of rows that are gone.                    *)
LEMMA ResPurge ==
  ASSUME IInv, NEW p \in Replica, Purge(p)
  PROVE  IInv'
<1>1. lastSeq' \in Nat /\ lastSeq <= lastSeq'
  BY DEF Purge, IInv, Typed
<1>2. PICK S \in SUBSET tx[p].res : object' = object \ {ObjectOf(r) : r \in S}
  BY DEF Purge
<1>3. tx[p].res \subseteq Resources /\ \A r \in tx[p].res : Deleted(r)
  BY DEF Purge, IInv, Typed, IsRequest, Stocked
<1>4. \A r \in Resources : ObjectOf(r) \in object \ object' =>
           \E q \in Resources : Deleted(q) /\ ObjectOf(q) = ObjectOf(r)
  BY <1>2, <1>3
<1> QED BY <1>1, <1>2, <1>4, ResEnd DEF Purge, IInv, Keyed, Typed

(* The second transaction adds the record, or fails for its key.           *)
LEMMA ResRecord ==
  ASSUME ResourceAssumption, IInv, NEW p \in Replica, Record(p)
  PROVE  IInv'
<1> DEFINE t == tx[p]
           r == CHOOSE x \in t.res : TRUE
<1>0. /\ lastSeq' \in Nat /\ lastSeq <= lastSeq' /\ object' \subseteq object
      /\ UNCHANGED <<row, object, reads, log, reader, ids, overlap, disturbed>>
      /\ tx' = [tx EXCEPT ![p] = Closed] /\ object \ object' = {}
  BY DEF Record, IInv, Typed
<1>1. t.op = "create" /\ t.key \in Keys /\ t.new.type \in Types \cup NewTypes
  BY DEF Record, IInv, Typed, IsRequest, StoredRow
<1>2. r \in Resources /\ r # 0
  <2>1. \E x \in Resources : t.res = {x}
    BY <1>1 DEF IInv, Typed, IsRequest
  <2> QED BY <2>1 DEF ResourceAssumption
<1>3. \/ /\ record[t.key].res = 0
         /\ record' = [record EXCEPT ![t.key] = [res |-> r, body |-> t.new.type]]
         /\ answered' = answered \cup {<<t.key, t.new.type, r>>}
      \/ UNCHANGED <<record, answered>>
  BY DEF Record
<1> HIDE DEF r, t
<1>4. record \in [Keys -> [res : Resources \cup {0}, body : Types \cup NewTypes \cup {"none"}]]
  BY DEF IInv, Typed
<1>5. record' \in [Keys -> [res : Resources \cup {0}, body : Types \cup NewTypes \cup {"none"}]]
  BY <1>1, <1>2, <1>3, <1>4
<1>6. Keyed'
  <2>1. CASE UNCHANGED <<record, answered>>
    BY <2>1 DEF IInv, Keyed
  <2>2. CASE /\ record[t.key].res = 0
             /\ record' = [record EXCEPT ![t.key] = [res |-> r, body |-> t.new.type]]
             /\ answered' = answered \cup {<<t.key, t.new.type, r>>}
    <3>1. record'[t.key].res = r /\ record'[t.key].body = t.new.type
      BY <2>2, <1>1, <1>4
    <3>2. \A k \in Keys : k # t.key => record'[k] = record[k]
      BY <2>2, <1>4
    <3>3. \A a \in answered : \E k \in Keys :
            record'[k].res # 0 /\ a = <<k, record'[k].body, record'[k].res>>
      BY <2>2, <3>2 DEF IInv, Keyed
    <3> QED BY <2>2, <3>1, <3>3, <1>1, <1>2 DEF Keyed
  <2> QED BY <1>3, <2>1, <2>2
<1> QED BY <1>0, <1>5, <1>6, ResEnd DEF IInv

(* A repeated request is answered from its record and changes nothing else.*)
LEMMA ResReplay ==
  ASSUME IInv, NEW k \in Keys, NEW t, Replay(k, t)
  PROVE  IInv'
<1>1. UNCHANGED <<row, object, reads, tx, log, lastSeq, record, reader, ids, overlap, disturbed>>
  BY DEF Replay
<1>2. Keyed'
  BY DEF Replay, IInv, Keyed
<1>3. Typed' /\ Together' /\ Streamed'
  BY <1>1 DEF IInv, Typed, Together, Streamed, NothingSkipped, Overtaken, Open
<1>5. Chained'
  <2>1. Events' = Events
    BY <1>1 DEF Events
  <2> QED BY <1>1, <2>1 DEF IInv, Chained, Pending
<1>4. Stocked' /\ Held' /\ AsRead'
  BY <1>1 DEF IInv, Stocked, HasObject, Deleted, Held, AsRead, Pending, Editable
<1> QED BY <1>2, <1>3, <1>4, <1>5 DEF IInv

(* The reader goes on to the last event that is committed; one that is not *)
(* has overlapped it.                                                      *)
LEMMA ResStream ==
  ASSUME IInv, Stream
  PROVE  IInv'
<1> DEFINE T == {e.seq : e \in Unsent}
<1>1. /\ UNCHANGED <<row, object, reads, tx, log, lastSeq, record, answered, ids, overlap, disturbed>>
      /\ reader' = [after |-> Max(T), sent |-> reader.sent \cup Unsent]
      /\ Unsent # {} /\ Unsent \subseteq log
  BY DEF Stream, Unsent
<1>2. log \subseteq Event(ids, lastSeq) /\ lastSeq \in Nat
      /\ reader.after \in 0 .. lastSeq /\ reader.sent \subseteq log
  BY DEF IInv, Typed
<1>3. Max(T) \in T /\ Max(T) \in 0 .. lastSeq /\ \A t \in T : t <= Max(T)
  <2>1. T \subseteq 0 .. lastSeq /\ T # {}
    BY <1>1, <1>2 DEF Event
  <2> HIDE DEF T
  <2> QED BY <1>2, <2>1, ResMax
<1>4. reader'.after = Max(T) /\ reader'.sent = reader.sent \cup Unsent
      /\ reader' \in [after : 0 .. lastSeq, sent : SUBSET log]
  <2> HIDE DEF T
  <2> QED BY <1>1, <1>2, <1>3
<1>5. PICK g \in Unsent : g.seq = Max(T)
  BY <1>3
<1>6. \A e \in log : e.seq <= Max(T) => e.seq <= reader.after \/ e \in Unsent
  BY <1>2 DEF Unsent, Event
<1> HIDE DEF T
<1>7. Streamed'
  <2>1. NothingSkipped'
    BY <1>1, <1>4, <1>6 DEF IInv, Streamed, NothingSkipped
  <2>2. ASSUME NEW p \in Replica, NEW e \in tx[p].events, e.seq <= Max(T)
        PROVE  Overtaken(e)'
    <3>1. e \in Event(ids, lastSeq) /\ e.id = tx[p].id /\ Pending(tx[p])
      BY <2>2 DEF IInv, Typed, IsRequest
    <3>2. CASE e.seq <= reader.after
      BY <3>2, <1>1, <1>4 DEF IInv, Streamed, Overtaken
    <3>3. CASE ~(e.seq <= reader.after)
      <4>1. g \in log /\ g.id # e.id
        BY <3>1, <1>1, <1>5 DEF IInv, Chained
      <4>2. e \in Events /\ g \in Events
        BY <4>1 DEF Events
      <4>3. g.seq # e.seq
        BY <4>1, <4>2 DEF IInv, Chained
      <4>4. g.seq > e.seq
        BY <4>1, <4>3, <3>1, <1>2, <1>5, <2>2 DEF Event
      <4>5. {e.id, g.id} \in overlap
        BY <4>1, <4>2, <4>4 DEF IInv, Chained
      <4> QED BY <4>4, <4>5, <1>1, <1>4 DEF Overtaken
    <3> QED BY <3>2, <3>3
  <2> QED BY <2>1, <2>2, <1>1, <1>4 DEF Streamed
<1>8. Typed'
  BY <1>1, <1>4 DEF IInv, Typed
<1>9. Together' /\ Chained' /\ Keyed'
  <2>1. Events' = Events
    BY <1>1 DEF Events
  <2>2. Chained'
    BY <1>1, <2>1 DEF IInv, Chained, Pending
  <2>3. Together' /\ Keyed'
    BY <1>1 DEF IInv, Together, Open, Keyed
  <2> QED BY <2>2, <2>3
<1>10. Stocked' /\ Held' /\ AsRead'
  BY <1>1 DEF IInv, Stocked, HasObject, Deleted, Held, AsRead, Pending, Editable
<1> QED BY <1>7, <1>8, <1>9, <1>10 DEF IInv

(* What a commit makes of a row.                                           *)
LEMMA ResWritten ==
  ASSUME IInv, NEW p \in Replica, tx[p].at = "commit", NEW r \in tx[p].res,
         NEW w, w = Written(tx[p], r)
  PROVE  /\ r \in Resources /\ tx[p].op \in Changing \cup {"create", "retain"}
         /\ tx[p].op = "retain" => w = Absent
         /\ tx[p].op # "retain" => StoredRow(w, ids)
         /\ tx[p].op \in Changing => row[r] # Absent /\ StoredRow(row[r], ids)
         /\ tx[p].op = "create" => row[r] = Absent /\ reads[r] = {}
         /\ r \notin disturbed /\ tx[p].op \in Changing =>
              /\ w.version = row[r].version + 1
              /\ row[r].payload \ {Hold} \subseteq w.payload
              /\ ~Editable(r) => w.payload = row[r].payload
              /\ row[r].immutable => w.immutable
              /\ w.status \in {row[r].status} \cup AllowedTransitions(row[r].type, row[r].status)
         /\ r \notin disturbed /\ tx[p].op = "retain" => Deletable(row[r])
<1> DEFINE t == tx[p]
<1>1. IsRequest(t, ids, lastSeq) /\ Pending(t) /\ r \in Resources
  BY DEF IInv, Typed, Pending, IsRequest
<1>2. t.op \in Changing \cup {"create", "retain"}
  BY <1>1 DEF IsRequest
<1>3. t.op = "retain" => w = Absent
  BY DEF Written
<1>4. t.op = "create" => w = t.new /\ StoredRow(t.new, ids) /\ row[r] = Absent /\ reads[r] = {}
  BY <1>1 DEF Written, IsRequest, IInv, Stocked
<1>5. ASSUME t.op \in Changing
      PROVE  /\ row[r] # Absent /\ StoredRow(row[r], ids) /\ StoredRow(t.new, ids)
             /\ row[r].type = t.new.type
             /\ r \notin disturbed =>
                  Follows(row[r], t.new) /\ (t.op \in {"patch", "approve"} => Editable(r))
  <2>1. row[r] # Absent
    BY <1>5 DEF IInv, Held
  <2>2. StoredRow(row[r], ids)
    BY <1>1, <2>1 DEF IInv, Typed
  <2>3. StoredRow(t.new, ids)
    BY <1>1, <1>5 DEF IsRequest
  <2>4. row[r].type = t.new.type
    BY <1>1, <1>5, <2>1 DEF IInv, Held
  <2>5. r \notin disturbed =>
          Follows(row[r], t.new) /\ (t.op \in {"patch", "approve"} => Editable(r))
    BY <1>1, <1>5 DEF IInv, AsRead
  <2> QED BY <2>1, <2>2, <2>3, <2>4, <2>5
<1>6. ASSUME t.op \in Changing
      PROVE  /\ StoredRow(w, ids) /\ w.version = t.new.version
             /\ w.payload = IF t.op \in {"patch", "approve"} THEN t.new.payload ELSE row[r].payload
             /\ w.status = IF t.op = "patch" THEN row[r].status ELSE t.new.status
             /\ row[r].immutable => w.immutable
  <2> DEFINE v == row[r]
             new == t.new
  <2>1. /\ v \in [type : Types \cup NewTypes, status : {v.status}, version : 1 .. ids + 1,
                  payload : SUBSET (0 .. ids), immutable : BOOLEAN]
        /\ new \in [type : Types \cup NewTypes, status : {new.status}, version : 1 .. ids + 1,
                  payload : SUBSET (0 .. ids), immutable : BOOLEAN]
        /\ v.immutable => v.type \in Publishable
        /\ new.immutable => new.type \in Publishable
        /\ v.type = new.type
    BY <1>5, <1>6 DEF StoredRow
  <2>2. w = CASE t.op = "patch" -> [v EXCEPT !.payload = new.payload, !.version = new.version]
              [] t.op = "status" -> [v EXCEPT !.status = new.status, !.version = new.version]
              [] t.op = "transition" -> [v EXCEPT !.status = new.status,
                         !.version = new.version, !.immutable = @ \/ new.immutable]
              [] t.op = "approve" -> [v EXCEPT !.status = new.status,
                         !.payload = new.payload, !.version = new.version]
    <3>1. CASE t.op = "patch"
      BY <3>1 DEF Written
    <3>2. CASE t.op = "status"
      BY <3>2 DEF Written
    <3>3. CASE t.op = "transition"
      BY <3>3 DEF Written
    <3>4. CASE t.op = "approve"
      BY <3>4 DEF Written
    <3> QED BY <1>6, <3>1, <3>2, <3>3, <3>4 DEF Changing
  <2> HIDE DEF v, new
  <2>3. CASE t.op = "patch"
    <3>1. w = [v EXCEPT !.payload = new.payload, !.version = new.version]
      BY <2>2, <2>3
    <3> QED BY <2>1, <2>3, <3>1 DEF StoredRow, v, new
  <2>4. CASE t.op = "status"
    <3>1. w = [v EXCEPT !.status = new.status, !.version = new.version]
      BY <2>2, <2>4
    <3> QED BY <2>1, <2>4, <3>1 DEF StoredRow, v, new
  <2>5. CASE t.op = "transition"
    <3>1. w = [v EXCEPT !.status = new.status, !.version = new.version,
                        !.immutable = v.immutable \/ new.immutable]
      BY <2>2, <2>5
    <3>2. (v.immutable \/ new.immutable) \in BOOLEAN
      OBVIOUS
    <3>3. /\ w \in [type : Types \cup NewTypes, status : {new.status}, version : 1 .. ids + 1,
                  payload : SUBSET (0 .. ids), immutable : BOOLEAN]
          /\ w.immutable = (v.immutable \/ new.immutable)
          /\ w.type = v.type /\ w.version = new.version /\ w.payload = v.payload
          /\ w.status = new.status
      BY <2>1, <3>1, <3>2
    <3> QED BY <2>1, <2>5, <3>3 DEF StoredRow, v, new
  <2>6. CASE t.op = "approve"
    <3>1. w = [v EXCEPT !.status = new.status, !.payload = new.payload,
                        !.version = new.version]
      BY <2>2, <2>6
    <3> QED BY <2>1, <2>6, <3>1 DEF StoredRow, v, new
  <2> QED BY <1>6, <2>3, <2>4, <2>5, <2>6 DEF Changing
<1>7. r \notin disturbed /\ t.op = "retain" => Deletable(row[r])
  BY <1>1 DEF IInv, AsRead
<1>8. "create" \notin Changing /\ "retain" \notin Changing
  BY DEF Changing
<1> HIDE DEF t
<1>9. r \notin disturbed /\ t.op \in Changing =>
              /\ w.version = row[r].version + 1
              /\ row[r].payload \ {Hold} \subseteq w.payload
              /\ ~Editable(r) => w.payload = row[r].payload
              /\ row[r].immutable => w.immutable
              /\ w.status \in {row[r].status} \cup AllowedTransitions(row[r].type, row[r].status)
  BY <1>5, <1>6 DEF Follows
<1> QED BY <1>1, <1>2, <1>3, <1>4, <1>5, <1>6, <1>7, <1>8, <1>9 DEF t

(* The commit: the rows and the log change together, and the answer        *)
(* follows.                                                                *)
LEMMA ResCommit ==
  ASSUME IInv, NEW p \in Replica, Commit(p)
  PROVE  IInv'
<1> DEFINE t == tx[p]
           W(r) == Written(t, r)
<1>0. /\ ids \in Nat /\ lastSeq \in Nat /\ ids \in 0 .. MaxTx
      /\ IsRequest(t, ids, lastSeq) /\ Pending(t) /\ t.at = "commit"
  <2>1. t.at = "commit"
    BY DEF Commit
  <2> QED BY <2>1 DEF IInv, Typed, Pending
<1>1. UNCHANGED <<object, lastSeq, record, answered, reader, ids, overlap, disturbed>>
  BY DEF Commit
<1>2. /\ row' = [r \in Resources |-> IF r \in t.res THEN W(r) ELSE row[r]]
      /\ reads' = [r \in Resources |->
          IF r \in t.res /\ t.op # "retain"
          THEN reads[r] \cup {[version |-> row'[r].version, payload |-> row'[r].payload]}
          ELSE reads[r]]
      /\ log' = log \cup t.events
      /\ t.op = "retain" => Unlocked(p, t.res)
  BY DEF Commit
<1>3. PICK u : /\ tx' = [tx EXCEPT ![p] = u]
               /\ u = Closed \/
                  (u = [Closed EXCEPT !.at = IF t.op = "retain" THEN "purge" ELSE "record",
                           !.op = t.op, !.id = t.id, !.res = t.res, !.new = t.new,
                           !.key = t.key] /\ (t.op = "retain" \/ t.key # NoKey))
  BY DEF Commit
<1>4. /\ t.res \subseteq Resources
      /\ t.op \in Changing \cup {"create", "retain"} /\ t.id \in 1 .. ids
      /\ t.key # NoKey => t.op = "create" /\ t.key \in Keys
      /\ t.op = "create" => StoredRow(t.new, ids) /\ \E r \in Resources : t.res = {r}
  BY <1>0, ResIdle DEF IsRequest
<1>5. /\ IsRequest(u, ids, lastSeq) /\ ~Pending(u) /\ u.events = {} /\ u.locks = {}
      /\ u.at # "idle" => u.id = t.id
      /\ \/ u.res = t.res /\ u.op = t.op
         \/ u.res = {} /\ u.op = "none"
      /\ u.at = "purge" => u.op = "retain"
      /\ u.at \in {"idle", "purge", "record"}
  <2>1. CASE u = Closed
    BY <2>1, <1>0, ResClosed
  <2>2. CASE u = [Closed EXCEPT !.at = IF t.op = "retain" THEN "purge" ELSE "record",
                           !.op = t.op, !.id = t.id, !.res = t.res, !.new = t.new,
                           !.key = t.key] /\ (t.op = "retain" \/ t.key # NoKey)
    <3> HIDE DEF t
    <3>1. /\ u.at = IF t.op = "retain" THEN "purge" ELSE "record"
          /\ u.op = t.op /\ u.id = t.id /\ u.res = t.res /\ u.new = t.new
          /\ u.key = t.key /\ u.left = {} /\ u.locks = {} /\ u.prev = 0 /\ u.events = {}
      BY <2>2 DEF Closed
    <3>2. u \in [at : {"purge", "record"}, op : {t.op}, id : {t.id}, res : {t.res},
                 new : {t.new}, left : {{}}, locks : {{}}, prev : {0}, events : {{}},
                 key : {t.key}]
      BY <2>2 DEF Closed
    <3>3. t.op \in Changing \cup {"none", "create", "retain"} /\ t.id \in 0 .. ids
          /\ t.res \in SUBSET Resources /\ 0 \in 0 .. lastSeq /\ t.key \in Keys \cup {NoKey}
          /\ t.op # "none" /\ t.id # 0 /\ ("create" # "none")
      BY <1>0, <1>4 DEF Changing, IsRequest
    <3> HIDE DEF t
    <3>4. u \in [at : {"idle", "update", "previous", "insert", "commit", "record", "purge"},
            op : Changing \cup {"none", "create", "retain"}, id : 0 .. ids,
            res : SUBSET Resources, new : {u.new}, left : SUBSET u.res,
            locks : SUBSET u.res, prev : 0 .. lastSeq, events : SUBSET Event(ids, lastSeq),
            key : Keys \cup {NoKey}]
      BY <3>1, <3>2, <3>3
    <3> QED BY <3>1, <3>3, <3>4, <2>2, <1>4 DEF IsRequest, Pending
  <2> QED BY <1>3, <2>1, <2>2
<1>6. /\ tx'[p] = u /\ \A q \in Replica : q # p => tx'[q] = tx[q]
      /\ tx' = [q \in Replica |-> tx'[q]]
  BY <1>3 DEF IInv, Typed
<1>7. \A r \in t.res : /\ row'[r] = W(r)
                       /\ t.op # "retain" => reads'[r] = reads[r] \cup
                            {[version |-> row'[r].version, payload |-> row'[r].payload]}
                       /\ t.op = "retain" => reads'[r] = reads[r]
  BY <1>2, <1>4
<1>8. \A r \in Resources \ t.res : row'[r] = row[r] /\ reads'[r] = reads[r]
  BY <1>2
<1>9. \A r \in t.res :
        /\ t.op = "retain" => W(r) = Absent
        /\ t.op # "retain" => StoredRow(W(r), ids)
        /\ t.op \in Changing => row[r] # Absent /\ StoredRow(row[r], ids)
        /\ t.op = "create" => row[r] = Absent /\ reads[r] = {}
        /\ r \notin disturbed /\ t.op \in Changing => W(r).version = row[r].version + 1
  BY <1>0, ResWritten
<1> HIDE DEF t, W
<1>10. \A r \in Resources : row'[r] = Absent \/ StoredRow(row'[r], ids)
  BY <1>7, <1>8, <1>9 DEF IInv, Typed
<1>11. reads' \in [Resources -> SUBSET Version(ids)]
  <2> SUFFICES ASSUME NEW r \in Resources PROVE reads'[r] \subseteq Version(ids)
    BY <1>2
  <2>1. reads[r] \subseteq Version(ids)
    BY DEF IInv, Typed
  <2>2. StoredRow(row'[r], ids) =>
          [version |-> row'[r].version, payload |-> row'[r].payload] \in Version(ids)
    BY DEF StoredRow, Version
  <2> QED BY <2>1, <2>2, <1>7, <1>8, <1>9
<1>12. Typed'
  <2>1. row' = [r \in Resources |-> row'[r]]
    BY <1>2
  <2>2. log' \subseteq Event(ids, lastSeq) /\ reader \in [after : 0 .. lastSeq, sent : SUBSET log']
    BY <1>0, <1>2, ResIdle DEF IInv, Typed
  <2>3. \A q \in Replica : IsRequest(tx'[q], ids, lastSeq)
    BY <1>5, <1>6 DEF IInv, Typed
  <2> QED BY <2>1, <2>2, <2>3, <1>1, <1>6, <1>10, <1>11 DEF IInv, Typed
<1>13. \A q \in Replica : tx'[q].at # "idle" => tx[q].at # "idle" /\ tx'[q].id = tx[q].id
  BY <1>0, <1>5, <1>6 DEF t
<1>14. \A q \in Replica : tx'[q].res \subseteq tx[q].res
  BY <1>5, <1>6 DEF t
<1>15. Together'
  <2> SUFFICES ASSUME NEW a \in Replica, NEW b \in Replica, a # b,
                      tx'[a].at # "idle", tx'[b].at # "idle"
               PROVE  /\ tx'[a].id # tx'[b].id /\ {tx'[a].id, tx'[b].id} \in overlap
                      /\ tx'[a].res \cap tx'[b].res \subseteq disturbed
    BY <1>1 DEF Together, Open
  <2>1. /\ tx[a].id # tx[b].id /\ {tx[a].id, tx[b].id} \in overlap
        /\ tx[a].res \cap tx[b].res \subseteq disturbed
    BY <1>13 DEF IInv, Together, Open
  <2> QED BY <2>1, <1>13, <1>14
<1>16. Events' = Events
  <2>1. Events' \subseteq Events
    BY <1>2, <1>5, <1>6 DEF Events, t
  <2>2. Events \subseteq Events'
    BY <1>2, <1>6 DEF Events, t
  <2> QED BY <2>1, <2>2
<1>17. \A q \in Replica : Pending(tx'[q]) => q # p /\ tx'[q] = tx[q]
  BY <1>5, <1>6
<1>18. \A e \in t.events : e.id = t.id
  BY <1>0, ResIdle
<1>19. Chained'
  <2>1. /\ \A e, f \in Events' : e.seq = f.seq => e = f
        /\ \A e, f \in Events' : e # f /\ e.prev = f.prev => {e.id, f.id} \in overlap'
    BY <1>1, <1>16 DEF IInv, Chained
  <2>2. \A q \in Replica : tx'[q].at = "insert" =>
          \A f \in Events' : f.prev = tx'[q].prev => {tx'[q].id, f.id} \in overlap'
    BY <1>1, <1>16, <1>17 DEF IInv, Chained, Pending
  <2>3. \A q \in Replica : Pending(tx'[q]) => \A f \in log' : f.id # tx'[q].id
    <3> SUFFICES ASSUME NEW q \in Replica, Pending(tx'[q]), NEW f \in log'
                 PROVE  f.id # tx[q].id
      BY <1>17
    <3>1. q # p /\ Pending(tx[q])
      BY <1>17
    <3>2. CASE f \in log
      BY <3>1, <3>2 DEF IInv, Chained
    <3>3. CASE f \in t.events
      <4>1. f.id = t.id
        BY <3>3, <1>18
      <4>2. tx[p].id # tx[q].id
        BY <3>1, <1>0 DEF IInv, Together, Open, Pending, t
      <4> QED BY <4>1, <4>2 DEF t
    <3> QED BY <3>2, <3>3, <1>2
  <2>4. \A q \in Replica : \A e \in tx'[q].events, f \in Events' :
          f.seq > e.seq /\ f.id # e.id => {e.id, f.id} \in overlap'
    <3>1. \A q \in Replica : tx'[q].events \subseteq tx[q].events
      BY <1>5, <1>6
    <3> QED BY <3>1, <1>1, <1>16 DEF IInv, Chained
  <2> QED BY <2>1, <2>2, <2>3, <2>4 DEF Chained, Pending
<1>20. Streamed'
  <2>1. \A q \in Replica : tx'[q].events \subseteq tx[q].events
    BY <1>5, <1>6
  <2>2. \A e : Overtaken(e)' <=> Overtaken(e)
    BY <1>1 DEF Overtaken
  <2>3. NothingSkipped'
    <3> SUFFICES ASSUME NEW e \in log', e.seq <= reader.after, e \notin reader.sent
                 PROVE  Overtaken(e)
      BY <1>1 DEF NothingSkipped, Overtaken
    <3>1. CASE e \in log
      BY <3>1 DEF IInv, Streamed, NothingSkipped, Overtaken
    <3>2. CASE e \in t.events
      BY <3>2 DEF IInv, Streamed, t
    <3> QED BY <3>1, <3>2, <1>2
  <2> QED BY <2>1, <2>2, <2>3, <1>1 DEF IInv, Streamed
<1>21. \A r \in Resources : Deleted(r) => Deleted(r)'
  <2> SUFFICES ASSUME NEW r \in Resources, row[r] = Absent, reads[r] # {}
               PROVE  row'[r] = Absent /\ reads'[r] # {}
    BY DEF Deleted
  <2>1. CASE r \in t.res
    <3>1. t.op = "retain"
      BY <2>1, <1>4, <1>9
    <3> QED BY <3>1, <2>1, <1>7, <1>9
  <2>2. CASE r \notin t.res
    BY <2>2, <1>8
  <2> QED BY <2>1, <2>2
<1>22. \A r \in Resources : HasObject(r) => HasObject(r)'
  BY <1>1, <1>21 DEF HasObject
<1>23. Stocked'
  <2>1. \A r \in Resources : row'[r] # Absent => reads'[r] # {}
    <3> SUFFICES ASSUME NEW r \in Resources, row'[r] # Absent PROVE reads'[r] # {}
      OBVIOUS
    <3>1. CASE r \in t.res
      BY <3>1, <1>7, <1>9
    <3>2. CASE r \notin t.res
      BY <3>2, <1>8 DEF IInv, Stocked
    <3> QED BY <3>1, <3>2
  <2>2. \A r \in Resources : reads'[r] # {} => HasObject(r)'
    <3> SUFFICES ASSUME NEW r \in Resources, reads'[r] # {} PROVE HasObject(r)
      BY <1>22
    <3>1. CASE r \in t.res /\ t.op = "create"
      BY <3>1, <1>0 DEF IInv, Stocked, t
    <3>2. CASE r \in t.res /\ t.op # "create"
      BY <3>2 DEF IInv, Stocked, t
    <3>3. CASE r \notin t.res
      BY <3>3, <1>8 DEF IInv, Stocked
    <3> QED BY <3>1, <3>2, <3>3
  <2>3. \A r \in t.res : t.op # "create" => reads'[r] # {}
    BY <1>7 DEF IInv, Stocked, t
  <2>4. ASSUME NEW q \in Replica, NEW r \in tx'[q].res
        PROVE  /\ tx'[q].op # "create" => reads'[r] # {}
               /\ tx'[q].at = "purge" => row'[r] = Absent /\ reads'[r] # {}
               /\ tx'[q].op = "create" /\ Pending(tx'[q]) =>
                    /\ row'[r] = Absent /\ reads'[r] = {} /\ HasObject(r)'
                    /\ \A z \in Replica \ {q} : r \notin tx'[z].res
    <3>1. CASE q = p
      <4>1. r \in t.res /\ tx'[q].op = t.op /\ ~Pending(tx'[q])
        BY <3>1, <1>5, <1>6, <2>4
      <4>2. tx'[q].at = "purge" => t.op = "retain"
        BY <3>1, <4>1, <1>5, <1>6
      <4>3. t.op = "retain" => t.op # "create"
        OBVIOUS
      <4> QED BY <4>1, <4>2, <4>3, <2>3, <1>7, <1>9
    <3>2. CASE q # p
      <4>1. tx'[q] = tx[q] /\ r \in Resources
        BY <3>2, <2>4, <1>0, <1>6, ResIdle DEF IInv, Typed
      <4>2. /\ tx[q].op # "create" => reads[r] # {}
            /\ tx[q].at = "purge" => Deleted(r)
            /\ tx[q].op = "create" /\ Pending(tx[q]) =>
                    /\ row[r] = Absent /\ reads[r] = {} /\ HasObject(r)
                    /\ \A z \in Replica \ {q} : r \notin tx[z].res
        BY <4>1, <2>4 DEF IInv, Stocked
      <4>3. reads[r] # {} => reads'[r] # {}
        BY <4>1, <1>7, <1>8
      <4>4. tx[q].op = "create" /\ Pending(tx[q]) => r \notin t.res
        BY <3>2, <4>2 DEF t
      <4> QED BY <4>1, <4>2, <4>3, <4>4, <1>8, <1>14, <1>21, <1>22 DEF Deleted
    <3> QED BY <3>1, <3>2
  <2> QED BY <2>1, <2>2, <2>4 DEF Stocked, Deleted, Pending
<1>24. \A r \in Resources : row[r] # Absent /\ (r \in t.res => t.op # "retain") =>
         row'[r] # Absent /\ row'[r].type = row[r].type
  <2>1. \A v : StoredRow(v, ids) => v # Absent
    BY <1>0 DEF StoredRow, Absent
  <2> SUFFICES ASSUME NEW r \in t.res, row[r] # Absent, t.op # "retain"
               PROVE  row'[r] # Absent /\ row'[r].type = row[r].type
    BY <1>8
  <2>2. t.op \in Changing
    BY <1>4, <1>9
  <2>3. row'[r].type = row[r].type
    <3>1. StoredRow(row[r], ids)
      BY <2>2, <1>9
    <3>2. W(r).type = row[r].type
      <4>1. row[r] \in [type : Types \cup NewTypes, status : {row[r].status},
               version : 1 .. ids + 1, payload : SUBSET (0 .. ids), immutable : BOOLEAN]
        BY <3>1 DEF StoredRow
      <4>2. CASE t.op = "patch"
        BY <4>1, <4>2 DEF W, Written
      <4>3. CASE t.op = "status"
        BY <4>1, <4>3 DEF W, Written
      <4>4. CASE t.op = "transition"
        BY <4>1, <4>4 DEF W, Written
      <4>5. CASE t.op = "approve"
        BY <4>1, <4>5 DEF W, Written
      <4> QED BY <2>2, <4>2, <4>3, <4>4, <4>5 DEF Changing
    <3> QED BY <3>2, <1>7
  <2> QED BY <2>1, <2>3, <1>7, <1>9
<1>25. Held'
  <2> SUFFICES ASSUME NEW q \in Replica, tx'[q].op \in Changing
               PROVE  /\ Pending(tx'[q]) =>
                           \A r \in tx'[q].res : row'[r] # Absent => row'[r].type = tx'[q].new.type
                      /\ \A r \in tx'[q].locks : row'[r] # Absent
                      /\ \/ tx'[q].at = "commit"
                         \/ tx'[q].op \in {"patch", "status"} /\ tx'[q].at \in {"previous", "insert"}
                         => tx'[q].res \subseteq tx'[q].locks
    BY DEF Held, Pending
  <2>1. CASE q = p
    BY <2>1, <1>5, <1>6 DEF Pending
  <2>2. CASE q # p
    <3>1. tx'[q] = tx[q] /\ tx[q].res \subseteq Resources /\ tx[q].locks \subseteq tx[q].res
          /\ tx[q].at # "idle"
      <4>1. "none" \notin Changing
        BY DEF Changing
      <4> QED BY <4>1, <2>2, <1>0, <1>6, ResIdle DEF IInv, Typed
    <3>2. t.op = "retain" => tx[q].locks \cap t.res = {}
      BY <3>1, <2>2, <1>2 DEF Unlocked, Others, Open
    <3>3. \A r \in tx[q].locks : row'[r] # Absent
      <4> SUFFICES ASSUME NEW r \in tx[q].locks PROVE row'[r] # Absent
        OBVIOUS
      <4>1. row[r] # Absent /\ r \in Resources
        BY <3>1 DEF IInv, Held
      <4> QED BY <4>1, <3>2, <1>24
    <3>4. Pending(tx[q]) => \A r \in tx[q].res : row'[r] # Absent => row'[r].type = tx[q].new.type
      <4> SUFFICES ASSUME Pending(tx[q]), NEW r \in tx[q].res, row'[r] # Absent
                   PROVE  row'[r].type = tx[q].new.type
        OBVIOUS
      <4>1. row[r] # Absent => row[r].type = tx[q].new.type
        BY <3>1 DEF IInv, Held
      <4>2. reads[r] # {}
        BY <3>1 DEF IInv, Stocked, Changing
      <4>3. row[r] # Absent
        BY <4>2, <3>1, <1>21 DEF Deleted
      <4>4. r \in t.res => t.op # "retain"
        BY <1>7, <1>9
      <4> QED BY <4>1, <4>3, <4>4, <3>1, <1>24
    <3> QED BY <3>1, <3>3, <3>4 DEF IInv, Held
  <2> QED BY <2>1, <2>2
<1>26. Keyed'
  BY <1>1 DEF IInv, Keyed
<1>27. AsRead'
  <2>1. ASSUME NEW q \in Replica, NEW r \in tx'[q].res \ disturbed, Pending(tx'[q])
        PROVE  /\ tx'[q].op \in Changing => Follows(row'[r], tx'[q].new)
               /\ tx'[q].op \in {"patch", "approve"} => Editable(r)'
               /\ tx'[q].op = "retain" => Deletable(row'[r])
    <3>1. q # p /\ tx'[q] = tx[q] /\ Pending(tx[q])
      BY <2>1, <1>17
    <3>2. r \notin t.res /\ r \in Resources
      <4>1. tx[q].at # "idle" /\ tx[p].at # "idle"
        BY <3>1, <1>0 DEF Pending, t
      <4>2. tx[p].res \cap tx[q].res \subseteq disturbed
        BY <3>1, <4>1 DEF IInv, Together, Open
      <4>3. tx[q].res \subseteq Resources
        BY <1>0, ResIdle DEF IInv, Typed
      <4> QED BY <4>2, <4>3, <3>1, <2>1 DEF t
    <3>3. row'[r] = row[r]
      BY <3>2, <1>8
    <3>4. /\ tx[q].op \in Changing => Follows(row[r], tx[q].new)
          /\ tx[q].op \in {"patch", "approve"} => Editable(r)
          /\ tx[q].op = "retain" => Deletable(row[r])
      BY <3>1, <2>1 DEF IInv, AsRead
    <3> QED BY <3>1, <3>3, <3>4 DEF Editable
  <2>2. ASSUME NEW r \in Resources \ disturbed, row'[r] # Absent, NEW s \in reads'[r]
        PROVE  /\ s.version <= row'[r].version
               /\ s.version = row'[r].version => s.payload = row'[r].payload
    <3>1. CASE r \notin t.res
      BY <2>2, <3>1, <1>8 DEF IInv, AsRead
    <3>2. CASE r \in t.res
      <4>1. t.op # "retain"
        BY <2>2, <3>2, <1>7, <1>9
      <4>2. StoredRow(row'[r], ids) /\ row'[r].version \in Nat
        <5>1. StoredRow(row'[r], ids)
          BY <4>1, <3>2, <1>7, <1>9
        <5> QED BY <5>1, <1>0 DEF StoredRow
      <4>3. CASE s = [version |-> row'[r].version, payload |-> row'[r].payload]
        BY <4>2, <4>3
      <4>4. CASE s \in reads[r]
        <5>1. t.op \in Changing
          BY <4>1, <4>4, <3>2, <1>4, <1>9
        <5>2. row[r] # Absent /\ StoredRow(row[r], ids) /\ row'[r].version = row[r].version + 1
          BY <5>1, <3>2, <2>2, <1>7, <1>9
        <5>3. s.version <= row[r].version
          BY <5>2, <4>4, <2>2 DEF IInv, AsRead
        <5>4. s.version \in Nat /\ row[r].version \in Nat
          <6>1. s \in Version(ids)
            BY <4>4 DEF IInv, Typed
          <6> QED BY <6>1, <5>2, <1>0 DEF Version, StoredRow
        <5> QED BY <5>2, <5>3, <5>4
      <4> QED BY <4>1, <4>3, <4>4, <3>2, <1>7, <2>2
    <3> QED BY <3>1, <3>2
  <2> QED BY <2>1, <2>2, <1>1 DEF AsRead, Pending
<1> QED BY <1>12, <1>15, <1>19, <1>20, <1>23, <1>25, <1>26, <1>27 DEF IInv

(* What each handler asks for.                                             *)
LEMMA ResPatch ==
  ASSUME ResourceAssumption, IInv, NEW p \in Replica, NEW r \in Resources, Patch(p, r)
  PROVE  IInv'
<1> DEFINE v == row[r]
<1>1. ids \in Nat /\ v.type \in Catalog /\ Editable(r)
  <2>1. v.type \in Catalog /\ Editable(r)
    BY Zenon DEF Patch
  <2>2. ids \in Nat
    BY DEF IInv, Typed
  <2> QED BY <2>1, <2>2
<1>2. v # Absent /\ StoredRow(v, ids)
  <2>1. Absent.type \notin Catalog
    BY DEF Catalog, Absent
  <2> QED BY <2>1, <1>1 DEF IInv, Typed
<1>3. PICK known \in reads[r] :
       /\ RequireMatch(r, known)
       /\ \/ \E new \in Payloads(known, ids + 1) :
               Begin(p, [Closed EXCEPT !.at = "update", !.op = "patch", !.res = {r},
                 !.new = [row[r] EXCEPT !.payload = new, !.version = @ + 1]])
          \/ \E next \in AllowedTransitions(row[r].type, row[r].status) :
               Begin(p, [Closed EXCEPT !.at = "update", !.op = "status", !.res = {r},
                 !.new = [row[r] EXCEPT !.status = next, !.version = @ + 1]])
  BY DEF Patch
<1>4. known.payload \subseteq 0 .. ids /\ (r \notin disturbed => known.payload = v.payload)
  <2>1. known \in Version(ids)
    BY DEF IInv, Typed
  <2>2. r \notin disturbed => known.payload = v.payload
    <3>1. known.version = row[r].version
      BY <1>3 DEF RequireMatch
    <3> QED BY <3>1, <1>2 DEF IInv, AsRead
  <2> QED BY <2>1, <2>2 DEF Version
<1>5. /\ v \in [type : Types \cup NewTypes, status : {v.status}, version : 1 .. ids + 1,
                  payload : SUBSET (0 .. ids), immutable : BOOLEAN]
      /\ v.immutable => v.type \in Publishable
      /\ v.version + 1 \in 1 .. ids + 2 /\ ids + 1 \in 0 .. ids + 1 /\ 0 .. ids \subseteq 0 .. ids + 1
  BY <1>1, <1>2 DEF StoredRow
<1>6. ASSUME NEW op \in {"patch", "status"}, NEW n, StoredRow(n, ids + 1), n.type = v.type,
             r \notin disturbed => Follows(v, n),
             Begin(p, [Closed EXCEPT !.at = "update", !.op = op, !.res = {r}, !.new = n])
      PROVE  IInv'
  <2> DEFINE t == [Closed EXCEPT !.at = "update", !.op = op, !.res = {r}, !.new = n]
  <2>1. /\ t \in [at : {"update"}, op : {op}, id : {0}, res : {{r}}, new : {n}, left : {{}},
                locks : {{}}, prev : {0}, events : {{}}, key : {NoKey}]
        /\ t.at = "update" /\ t.op = op /\ t.res = {r} /\ t.new = n /\ t.key = NoKey
        /\ t.left = {}
    BY DEF Closed
  <2>2. Begin(p, t)
    BY <1>6
  <2> HIDE DEF t, v
  <2>3. op \in Changing /\ op # "create" /\ op # "retain"
    BY <1>6 DEF Changing
  <2>4. Asked(t)
    BY <2>1, <2>3, <1>1, <1>2, <1>6 DEF Asked, v
  <2> QED BY <2>2, <2>4, ResBegin
<1>7. CASE \E new \in Payloads(known, ids + 1) :
               Begin(p, [Closed EXCEPT !.at = "update", !.op = "patch", !.res = {r},
                 !.new = [row[r] EXCEPT !.payload = new, !.version = @ + 1]])
  <2>1. PICK new \in Payloads(known, ids + 1) :
               Begin(p, [Closed EXCEPT !.at = "update", !.op = "patch", !.res = {r},
                 !.new = [row[r] EXCEPT !.payload = new, !.version = @ + 1]])
    BY <1>7
  <2> DEFINE n == [row[r] EXCEPT !.payload = new, !.version = @ + 1]
  <2>2. new \subseteq 0 .. ids + 1 /\ known.payload \ {Hold} \subseteq new
    BY <2>1, <1>4, <1>5, <1>1 DEF Payloads, Hold
  <2>3. /\ n \in [type : {v.type}, status : {v.status}, version : {v.version + 1},
                  payload : {new}, immutable : {v.immutable}]
        /\ n.type = v.type /\ n.immutable = v.immutable /\ n.status = v.status
        /\ n.version = v.version + 1 /\ n.payload = new
    BY <1>5
  <2>4. ids + 1 + 1 = ids + 2 /\ v.type \in Types \cup NewTypes /\ v.immutable \in BOOLEAN
    BY <1>1, <1>5
  <2> HIDE DEF n, v
  <2>5. StoredRow(n, ids + 1)
    BY <2>2, <2>3, <2>4, <1>5 DEF StoredRow
  <2>6. r \notin disturbed => Follows(v, n)
    BY <2>2, <2>3, <1>4 DEF Follows
  <2> QED BY <2>1, <2>3, <2>5, <2>6, <1>6 DEF n
<1>8. CASE \E next \in AllowedTransitions(row[r].type, row[r].status) :
               Begin(p, [Closed EXCEPT !.at = "update", !.op = "status", !.res = {r},
                 !.new = [row[r] EXCEPT !.status = next, !.version = @ + 1]])
  <2>1. PICK next \in AllowedTransitions(row[r].type, row[r].status) :
               Begin(p, [Closed EXCEPT !.at = "update", !.op = "status", !.res = {r},
                 !.new = [row[r] EXCEPT !.status = next, !.version = @ + 1]])
    BY <1>8
  <2> DEFINE n == [row[r] EXCEPT !.status = next, !.version = @ + 1]
  <2>3. /\ n \in [type : {v.type}, status : {next}, version : {v.version + 1},
                  payload : {v.payload}, immutable : {v.immutable}]
        /\ n.type = v.type /\ n.immutable = v.immutable /\ n.status = next
        /\ n.version = v.version + 1 /\ n.payload = v.payload
    BY <1>5
  <2>4. ids + 1 + 1 = ids + 2 /\ v.type \in Types \cup NewTypes /\ v.immutable \in BOOLEAN
        /\ v.payload \subseteq 0 .. ids
    BY <1>1, <1>5
  <2> HIDE DEF n
  <2>5. StoredRow(n, ids + 1)
    <3> HIDE DEF v
    <3> QED BY <2>3, <2>4, <1>5 DEF StoredRow
  <2>6. r \notin disturbed => Follows(v, n)
    BY <2>1, <2>3 DEF Follows
  <2> QED BY <2>1, <2>3, <2>5, <2>6, <1>6 DEF n
<1> QED BY <1>3, <1>7, <1>8

LEMMA ResAssign ==
  ASSUME ResourceAssumption, IInv, NEW p \in Replica, NEW r \in Resources, Assign(p, r)
  PROVE  IInv'
<1> DEFINE v == row[r]
           n == [row[r] EXCEPT !.payload = @ \cup {ids + 1}, !.version = @ + 1]
           t == [Closed EXCEPT !.at = "update", !.op = "patch", !.res = {r}, !.new = n]
<1>1. ids \in Nat /\ v.type = "review_task" /\ Editable(r) /\ Begin(p, t)
  BY DEF Assign, IInv, Typed
<1>2. v # Absent /\ StoredRow(v, ids)
  BY <1>1 DEF Absent, IInv, Typed
<1>3. /\ v \in [type : Types \cup NewTypes, status : {v.status}, version : 1 .. ids + 1,
                  payload : SUBSET (0 .. ids), immutable : BOOLEAN]
      /\ v.immutable => v.type \in Publishable
      /\ v.version + 1 \in 1 .. ids + 1 + 1 /\ ids + 1 \in 0 .. ids + 1
      /\ 0 .. ids \subseteq 0 .. ids + 1
  BY <1>1, <1>2 DEF StoredRow
<1>4. /\ n \in [type : {v.type}, status : {v.status}, version : {v.version + 1},
                payload : {v.payload \cup {ids + 1}}, immutable : {v.immutable}]
      /\ n.type = v.type /\ n.immutable = v.immutable /\ n.status = v.status
      /\ n.version = v.version + 1 /\ n.payload = v.payload \cup {ids + 1}
  BY <1>3
<1>5. v.type \in Types \cup NewTypes /\ v.immutable \in BOOLEAN /\ v.payload \subseteq 0 .. ids
  BY <1>3
<1>6. /\ t \in [at : {"update"}, op : {"patch"}, id : {0}, res : {{r}}, new : {n}, left : {{}},
                locks : {{}}, prev : {0}, events : {{}}, key : {NoKey}]
      /\ t.at = "update" /\ t.op = "patch" /\ t.res = {r} /\ t.new = n /\ t.key = NoKey
      /\ t.left = {}
  <2> HIDE DEF n
  <2> QED BY DEF Closed
<1> HIDE DEF n, t
<1>7. StoredRow(n, ids + 1) /\ Follows(v, n)
  <2> HIDE DEF v
  <2> QED BY <1>3, <1>4, <1>5 DEF StoredRow, Follows
<1>8. Asked(t)
  BY <1>1, <1>2, <1>4, <1>6, <1>7 DEF Asked, Changing
<1> QED BY <1>1, <1>8, ResBegin

LEMMA ResTransition ==
  ASSUME ResourceAssumption, IInv, NEW p \in Replica, NEW r \in Resources, NEW next,
         NEW op \in {"transition", "approve"}, NEW payload,
         TransitionTo(p, r, next, op, payload), row[r] # Absent,
         payload \subseteq 0 .. ids + 1, row[r].payload \subseteq payload,
         op = "approve" => row[r].type \notin Publishable
  PROVE  IInv'
<1> DEFINE v == row[r]
           published == v.immutable \/ (v.type \in Publishable /\ next = "published")
           n == [row[r] EXCEPT !.status = next, !.version = @ + 1, !.payload = payload,
                  !.immutable = published]
           t == [Closed EXCEPT !.at = "previous", !.op = op, !.res = {r}, !.new = n]
<1>1. ids \in Nat /\ Begin(p, t) /\ next \in AllowedTransitions(v.type, v.status)
  BY DEF TransitionTo, IInv, Typed
<1>2. v # Absent /\ StoredRow(v, ids)
  BY <1>1 DEF IInv, Typed
<1>3. /\ v \in [type : Types \cup NewTypes, status : {v.status}, version : 1 .. ids + 1,
                  payload : SUBSET (0 .. ids), immutable : BOOLEAN]
      /\ v.immutable => v.type \in Publishable
      /\ v.version + 1 \in 1 .. ids + 1 + 1
  BY <1>1, <1>2 DEF StoredRow
<1>4. published \in BOOLEAN /\ (published => v.type \in Publishable)
  BY <1>3
<1> HIDE DEF published
<1>5. /\ n \in [type : {v.type}, status : {next}, version : {v.version + 1},
                payload : {payload}, immutable : {published}]
      /\ n.type = v.type /\ n.immutable = published /\ n.status = next
      /\ n.version = v.version + 1 /\ n.payload = payload
  BY <1>3
<1>6. v.type \in Types \cup NewTypes
  BY <1>3
<1>7. /\ t \in [at : {"previous"}, op : {op}, id : {0}, res : {{r}}, new : {n}, left : {{}},
                locks : {{}}, prev : {0}, events : {{}}, key : {NoKey}]
      /\ t.at = "previous" /\ t.op = op /\ t.res = {r} /\ t.new = n /\ t.key = NoKey
      /\ t.left = {}
  <2> HIDE DEF n
  <2> QED BY DEF Closed
<1> HIDE DEF n, t
<1>8. StoredRow(n, ids + 1) /\ Follows(v, n)
  <2>1. v.payload \ {Hold} \subseteq payload
    OBVIOUS
  <2> HIDE DEF v
  <2> QED BY <2>1, <1>1, <1>3, <1>4, <1>5, <1>6 DEF StoredRow, Follows
<1>9. op = "approve" => Editable(r)
  BY <1>3 DEF Editable
<1>10. op \in Changing /\ op \notin {"create", "retain", "patch", "status"}
  BY DEF Changing
<1>11. Asked(t)
  BY <1>2, <1>5, <1>7, <1>8, <1>9, <1>10 DEF Asked
<1> QED BY <1>1, <1>11, ResBegin

LEMMA ResDecide ==
  ASSUME ResourceAssumption, IInv, NEW p \in Replica, NEW r \in Resources,
         Decide(p, r) \/ Publish(p, r) \/ Approve(p, r) \/ Verify(p, r)
  PROVE  IInv'
<1>1. ids \in Nat /\ (row[r] = Absent \/ StoredRow(row[r], ids))
  BY DEF IInv, Typed
<1>2. row[r] # Absent
  BY DEF Decide, Publish, Approve, Verify, Absent
<1>3. row[r].payload \subseteq 0 .. ids
  BY <1>1, <1>2 DEF StoredRow
<1>4. /\ row[r].payload \subseteq 0 .. ids + 1 /\ row[r].payload \cup {ids + 1} \subseteq 0 .. ids + 1
  <2>1. 0 .. ids \subseteq 0 .. ids + 1 /\ ids + 1 \in 0 .. ids + 1
    BY <1>1
  <2> QED BY <2>1, <1>3
<1>5. CASE Decide(p, r)
  BY <1>2, <1>4, <1>5, ResTransition DEF Decide
<1>6. CASE Publish(p, r)
  BY <1>2, <1>4, <1>6, ResTransition DEF Publish
<1>7. CASE Approve(p, r)
  <2>1. row[r].type \notin Publishable
    BY <1>7 DEF Approve, Publishable
  <2> QED BY <2>1, <1>2, <1>4, <1>7, ResTransition DEF Approve
<1>8. CASE Verify(p, r)
  <2>1. row[r].type \notin Publishable
    BY <1>8 DEF Verify, Publishable
  <2> QED BY <2>1, <1>2, <1>4, <1>8, ResTransition DEF Verify
<1> QED BY <1>5, <1>6, <1>7, <1>8

LEMMA ResCreate ==
  ASSUME ResourceAssumption, IInv, NEW p \in Replica, NEW r \in Resources,
         NEW k \in Keys \cup {NoKey}, NEW type \in NewTypes, Create(p, r, k, type)
  PROVE  IInv'
<1>1. PICK s \in FirstStatus(type) :
       Begin(p, [Closed EXCEPT !.at = "previous", !.op = "create", !.res = {r},
                               !.new = Fresh(type, s), !.key = k])
  BY DEF Create
<1> DEFINE n == Fresh(type, s)
           t == [Closed EXCEPT !.at = "previous", !.op = "create", !.res = {r},
                               !.new = n, !.key = k]
<1>2. row[r] = Absent /\ reads[r] = {} /\ (\A q \in Replica : r \notin tx[q].res)
      /\ ids \in Nat /\ Begin(p, t)
  BY <1>1 DEF Create, IInv, Typed
<1>3. StoredRow(n, ids + 1)
  <2>1. n \in [type : {type}, status : {s}, version : {1}, payload : {{}}, immutable : {FALSE}]
        /\ n.status = s /\ n.immutable = FALSE
    BY DEF Fresh, Absent
  <2>2. 1 \in 1 .. ids + 1 + 1
    BY <1>2
  <2> HIDE DEF n
  <2> QED BY <2>1, <2>2 DEF StoredRow
<1> HIDE DEF n
<1>4. /\ t \in [at : {"previous"}, op : {"create"}, id : {0}, res : {{r}}, new : {n}, left : {{}},
                locks : {{}}, prev : {0}, events : {{}}, key : {k}]
      /\ t.at = "previous" /\ t.op = "create" /\ t.res = {r} /\ t.new = n /\ t.key = k
      /\ t.left = {}
  BY DEF Closed
<1> HIDE DEF t
<1>5. "create" \notin Changing
  BY DEF Changing
<1>6. Asked(t)
  BY <1>2, <1>3, <1>4, <1>5 DEF Asked
<1> QED BY <1>2, <1>6, ResBegin

LEMMA ResRetain ==
  ASSUME ResourceAssumption, IInv, NEW p \in Replica, Retain(p)
  PROVE  IInv'
<1>1. PICK c \in SUBSET {r \in Resources : Deletable(row[r])} :
        Begin(p, [Closed EXCEPT !.at = "previous", !.op = "retain", !.res = c, !.left = c])
  BY DEF Retain
<1> DEFINE t == [Closed EXCEPT !.at = "previous", !.op = "retain", !.res = c, !.left = c]
<1>2. /\ t \in [at : {"previous"}, op : {"retain"}, id : {0}, res : {c}, new : {Absent}, left : {c},
                locks : {{}}, prev : {0}, events : {{}}, key : {NoKey}]
      /\ t.at = "previous" /\ t.op = "retain" /\ t.res = c /\ t.new = Absent /\ t.key = NoKey
      /\ t.left = c
  BY DEF Closed
<1>3. Begin(p, t)
  BY <1>1
<1> HIDE DEF t
<1>4. "retain" \notin Changing
  BY DEF Changing
<1>5. \A r \in c : r \in Resources /\ Deletable(row[r]) /\ row[r] # Absent
  BY <1>1 DEF Deletable, Retainable, Absent
<1>6. Asked(t)
  BY <1>2, <1>4, <1>5 DEF Asked
<1> QED BY <1>3, <1>6, ResBegin

(* Every action keeps the invariant.                                       *)
LEMMA ResStep ==
  ASSUME ResourceAssumption, IInv, Next
  PROVE  IInv'
<1>1. CASE \E p \in Replica, r \in Resources :
            \/ Patch(p, r) \/ Assign(p, r)
            \/ Decide(p, r) \/ Publish(p, r) \/ Approve(p, r) \/ Verify(p, r)
            \/ \E k \in Keys \cup {NoKey}, t \in NewTypes : Create(p, r, k, t)
  BY <1>1, ResPatch, ResAssign, ResDecide, ResCreate
<1>2. CASE \E p \in Replica :
       \/ Retain(p) \/ Update(p) \/ Previous(p) \/ Insert(p) \/ Commit(p)
       \/ Record(p) \/ Purge(p) \/ Abort(p)
  BY <1>2, ResRetain, ResUpdate, ResPrevious, ResInsert, ResCommit, ResRecord, ResPurge, ResAbort
<1>3. CASE \E k \in Keys, t \in NewTypes : Replay(k, t)
  BY <1>3, ResReplay
<1>4. CASE Stream
  BY <1>4, ResStream
<1> QED BY <1>1, <1>2, <1>3, <1>4 DEF Next

(* Whatever rows there are at first, the invariant holds.                  *)
LEMMA ResInit ==
  ASSUME ResourceAssumption, Init
  PROVE  IInv
<1>1. PICK first \in {Absent} \cup {Fresh(t, Awaiting(t)) : t \in Types} :
        row = [r \in Resources |-> IF r = 1 THEN first ELSE Absent]
  BY DEF Init
<1>2. /\ reads = [r \in Resources |->
             IF row[r] # Absent THEN {[version |-> 1, payload |-> {}]} ELSE {}]
      /\ object = {ObjectOf(r) : r \in {q \in Resources : row[q] # Absent}}
      /\ tx = [p \in Replica |-> Closed]
      /\ log = {} /\ lastSeq = 0
      /\ record = [k \in Keys |-> [res |-> 0, body |-> "none"]]
      /\ answered = {} /\ reader = [after |-> 0, sent |-> {}]
      /\ ids = 0 /\ overlap = {} /\ disturbed = {}
  BY DEF Init
<1>3. \A r \in Resources : row[r] = Absent
        \/ (StoredRow(row[r], 0) /\ row[r].version = 1 /\ row[r].payload = {})
  <2>1. ASSUME NEW t \in Types, NEW s, NEW v, v = Fresh(t, s)
        PROVE  StoredRow(v, 0) /\ v.version = 1 /\ v.payload = {}
    <3>1. /\ v \in [type : {t}, status : {s}, version : {1}, payload : {{}}, immutable : {FALSE}]
          /\ v.version = 1 /\ v.payload = {} /\ v.immutable = FALSE /\ v.status = s
      BY <2>1 DEF Fresh, Absent
    <3>2. 1 \in 1 .. 0 + 1
      OBVIOUS
    <3> QED BY <3>1, <3>2 DEF StoredRow
  <2>2. first = Absent \/ (StoredRow(first, 0) /\ first.version = 1 /\ first.payload = {})
    BY <1>1, <2>1
  <2> QED BY <1>1, <2>2
<1>4. \A r \in Resources : reads[r] = IF row[r] # Absent THEN {[version |-> 1, payload |-> {}]} ELSE {}
  BY <1>2
<1>5. \A p \in Replica : /\ tx[p] = Closed /\ IsRequest(tx[p], 0, 0) /\ ~Pending(tx[p])
                         /\ tx[p].at = "idle" /\ tx[p].op = "none" /\ tx[p].res = {}
                         /\ tx[p].events = {} /\ tx[p].locks = {}
  BY <1>2, ResClosed
<1>6. Typed
  <2>1. \A r \in Resources : reads[r] \subseteq Version(0)
    BY <1>4 DEF Version
  <2>2. reads \in [Resources -> SUBSET Version(0)]
    BY <1>2, <2>1
  <2>3. 0 \in 0 .. MaxTx
    BY DEF ResourceAssumption
  <2> QED BY <1>1, <1>2, <1>3, <1>5, <2>2, <2>3 DEF Typed
<1>7. Together /\ Chained /\ Streamed /\ Held /\ Keyed
  <2>1. Events = {}
    BY <1>2, <1>5 DEF Events
  <2>2. "none" \notin Changing
    BY DEF Changing
  <2> QED BY <2>1, <2>2, <1>2, <1>5
      DEF Together, Open, Chained, Streamed, NothingSkipped, Held, Keyed, Pending
<1>8. Stocked
  BY <1>2, <1>4, <1>5 DEF Stocked, HasObject
<1>9. AsRead
  <2>1. ASSUME NEW r \in Resources, row[r] # Absent, NEW s \in reads[r]
        PROVE  /\ s.version <= row[r].version
               /\ s.version = row[r].version => s.payload = row[r].payload
    <3>1. s = [version |-> 1, payload |-> {}]
      BY <2>1, <1>4
    <3>2. s.version = 1 /\ s.payload = {}
      BY <3>1
    <3>3. row[r].version = 1 /\ row[r].payload = {}
      BY <2>1, <1>3
    <3> QED BY <3>2, <3>3
  <2> QED BY <2>1, <1>5 DEF AsRead
<1> QED BY <1>6, <1>7, <1>8, <1>9 DEF IInv

(* The invariant gives what is promised of a state and of a step.          *)
LEMMA ResPromises ==
  ASSUME ResourceAssumption, IInv
  PROVE  TypeOK /\ CreatedOnce /\ EventsInOrder
<1>0. ids \in Nat /\ lastSeq \in Nat /\ ids <= MaxTx /\ MaxTx \in Nat
  BY DEF IInv, Typed, ResourceAssumption
<1>1. 1 .. ids + 1 \subseteq 1 .. MaxTx + 1 /\ 0 .. ids \subseteq 0 .. MaxTx
      /\ 1 .. ids + 1 \subseteq 0 .. MaxTx + 1 /\ 0 \in 0 .. MaxTx + 1
  BY <1>0
<1>2. TypeOK
  <2>1. ASSUME NEW r \in Resources
        PROVE  /\ row[r].version \in 0 .. MaxTx + 1 /\ row[r].payload \subseteq 0 .. MaxTx
               /\ row[r] = Absent \/ row[r].type \in Types \cup NewTypes
               /\ \A s \in reads[r] : s.version \in 1 .. MaxTx + 1
    <3>1. \A s \in reads[r] : s \in Version(ids)
      BY DEF IInv, Typed
    <3>2. CASE row[r] = Absent
      BY <1>1, <3>1, <3>2 DEF Absent, Version
    <3>3. CASE StoredRow(row[r], ids)
      BY <1>1, <3>1, <3>3 DEF StoredRow, Version
    <3> QED BY <3>2, <3>3 DEF IInv, Typed
  <2>2. ASSUME NEW p \in Replica
        PROVE  /\ tx[p].at \in {"idle", "update", "previous", "insert", "commit", "record", "purge"}
               /\ tx[p].res \subseteq Resources /\ tx[p].left \subseteq tx[p].res
               /\ tx[p].locks \subseteq tx[p].res /\ tx[p].id \in 0 .. MaxTx
    BY <1>1 DEF IInv, Typed, IsRequest
  <2>3. \A e \in log : e.prev < e.seq /\ e.seq \in 1 .. lastSeq
    BY DEF IInv, Typed, Event
  <2>4. \A k \in Keys : record[k].res \in Resources \cup {0}
    BY DEF IInv, Typed
  <2> QED BY <2>1, <2>2, <2>3, <2>4 DEF TypeOK, IInv, Typed
<1>3. ObjectsKept
  BY DEF ObjectsKept, IInv, Stocked, HasObject
<1>4. OneAnswerPerKey
  <2> SUFFICES ASSUME NEW a \in answered, NEW b \in answered, a[1] = b[1]
               PROVE  a[3] = b[3]
    BY DEF OneAnswerPerKey
  <2>1. PICK k \in Keys : a = <<k, record[k].body, record[k].res>>
    BY DEF IInv, Keyed
  <2>2. PICK l \in Keys : b = <<l, record[l].body, record[l].res>>
    BY DEF IInv, Keyed
  <2> QED BY <2>1, <2>2
<1>5. ChainLinear /\ NothingSkipped
  BY DEF ChainLinear, IInv, Chained, Events, Streamed
<1> QED BY <1>2, <1>3, <1>4, <1>5 DEF CreatedOnce, EventsInOrder

(* The rows change only in a commit.                                       *)
LEMMA ResRows ==
  ASSUME Next
  PROVE  UNCHANGED row \/ \E p \in Replica : Commit(p)
<1>1. ASSUME NEW p \in Replica, NEW t, Begin(p, t) PROVE UNCHANGED row
  BY <1>1 DEF Begin
<1>2. ASSUME NEW p \in Replica, NEW r \in Resources, NEW next, NEW op, NEW payload,
             TransitionTo(p, r, next, op, payload)
      PROVE  UNCHANGED row
  BY <1>1, <1>2 DEF TransitionTo
<1>3. ASSUME NEW p \in Replica, NEW r \in Resources, Patch(p, r) \/ Assign(p, r)
      PROVE  UNCHANGED row
  <2>1. CASE Patch(p, r)
    BY <2>1, <1>1 DEF Patch
  <2>2. CASE Assign(p, r)
    BY <2>2, <1>1 DEF Assign
  <2> QED BY <1>3, <2>1, <2>2
<1>4. ASSUME NEW p \in Replica, NEW r \in Resources,
             Decide(p, r) \/ Publish(p, r) \/ Approve(p, r) \/ Verify(p, r)
      PROVE  UNCHANGED row
  BY <1>2, <1>4 DEF Decide, Publish, Approve, Verify
<1>5. ASSUME NEW p \in Replica, NEW r \in Resources, NEW k, NEW t, Create(p, r, k, t)
      PROVE  UNCHANGED row
  BY <1>1, <1>5 DEF Create
<1>6. ASSUME NEW p \in Replica,
             \/ Retain(p) \/ Update(p) \/ Previous(p) \/ Insert(p)
             \/ Record(p) \/ Purge(p) \/ Abort(p)
      PROVE  UNCHANGED row
  <2>1. CASE Retain(p)
    BY <2>1, <1>1 DEF Retain
  <2>2. CASE Update(p)
    BY <2>2, Zenon DEF Update
  <2>3. CASE Previous(p)
    BY <2>3, Zenon DEF Previous
  <2>4. CASE Insert(p)
    BY <2>4, Zenon DEF Insert
  <2>5. CASE Record(p) \/ Purge(p) \/ Abort(p)
    BY <2>5 DEF Record, Purge, Abort
  <2> QED BY <1>6, <2>1, <2>2, <2>3, <2>4, <2>5
<1>7. CASE Stream \/ \E k \in Keys, t \in NewTypes : Replay(k, t)
  BY <1>7 DEF Stream, Replay
<1> QED BY <1>3, <1>4, <1>5, <1>6, <1>7 DEF Next

(* What one step may make of a row that no two requests met on.            *)
LEMMA ResKept ==
  ASSUME ResourceAssumption, IInv, Next, NEW r \in Resources \ disturbed, row[r] # Absent
  PROVE  /\ row'[r] # Absent => row[r].payload \ {Hold} \subseteq row'[r].payload
         /\ row'[r] # row[r] =>
              \/ row'[r] = Absent /\ Deletable(row[r])
              \/ /\ ~Editable(r) => row'[r].payload = row[r].payload
                 /\ row[r].immutable => row'[r].immutable
                 /\ row'[r].status \in {row[r].status}
                      \cup AllowedTransitions(row[r].type, row[r].status)
<1>1. CASE UNCHANGED row
  BY <1>1
<1>2. ASSUME NEW p \in Replica, Commit(p)
      PROVE  /\ row'[r] # Absent => row[r].payload \ {Hold} \subseteq row'[r].payload
             /\ row'[r] # row[r] =>
                  \/ row'[r] = Absent /\ Deletable(row[r])
                  \/ /\ ~Editable(r) => row'[r].payload = row[r].payload
                     /\ row[r].immutable => row'[r].immutable
                     /\ row'[r].status \in {row[r].status}
                          \cup AllowedTransitions(row[r].type, row[r].status)
  <2>1. tx[p].at = "commit" /\ row'[r] = IF r \in tx[p].res THEN Written(tx[p], r) ELSE row[r]
    BY <1>2 DEF Commit
  <2>2. CASE r \in tx[p].res
    <3> DEFINE w == Written(tx[p], r)
    <3>1. row'[r] = w
      BY <2>1, <2>2
    <3>2. /\ tx[p].op \in Changing \cup {"create", "retain"}
          /\ tx[p].op = "retain" => w = Absent /\ Deletable(row[r])
          /\ tx[p].op # "create"
          /\ tx[p].op \in Changing =>
               /\ row[r].payload \ {Hold} \subseteq w.payload
               /\ ~Editable(r) => w.payload = row[r].payload
               /\ row[r].immutable => w.immutable
               /\ w.status \in {row[r].status} \cup AllowedTransitions(row[r].type, row[r].status)
      <4> HIDE DEF w
      <4>1. \A x : x = Written(tx[p], r) =>
              /\ tx[p].op \in Changing \cup {"create", "retain"}
              /\ tx[p].op = "retain" => x = Absent /\ Deletable(row[r])
              /\ tx[p].op # "create"
              /\ tx[p].op \in Changing =>
                   /\ row[r].payload \ {Hold} \subseteq x.payload
                   /\ ~Editable(r) => x.payload = row[r].payload
                   /\ row[r].immutable => x.immutable
                   /\ x.status \in {row[r].status}
                        \cup AllowedTransitions(row[r].type, row[r].status)
        BY <2>1, <2>2, ResWritten
      <4> QED BY <4>1 DEF w
    <3> HIDE DEF w
    <3> QED BY <3>1, <3>2
  <2>3. CASE r \notin tx[p].res
    BY <2>1, <2>3
  <2> QED BY <2>2, <2>3
<1> QED BY <1>1, <1>2, ResRows

(* Every action, and none.                                                 *)
LEMMA ResSteps ==
  ASSUME ResourceAssumption, IInv, [Next]_vars
  PROVE  IInv'
<1>1. CASE UNCHANGED vars
  <2>1. UNCHANGED <<row, object, reads, tx, log, lastSeq, record, answered, reader, ids, overlap, disturbed>>
    BY <1>1 DEF vars
  <2>2. Events' = Events
    BY <2>1 DEF Events
  <2>3. Chained'
    BY <2>1, <2>2 DEF IInv, Chained, Pending
  <2>4. Typed' /\ Together' /\ Keyed'
    BY <2>1 DEF IInv, Typed, Together, Open, Keyed
  <2>5. Streamed' /\ Held'
    BY <2>1 DEF IInv, Streamed, NothingSkipped, Overtaken, Held, Pending
  <2>6. Stocked' /\ AsRead'
    BY <2>1 DEF IInv, Stocked, HasObject, Deleted, AsRead, Pending, Editable
  <2> QED BY <2>3, <2>4, <2>5, <2>6 DEF IInv
<1> QED BY <1>1, ResStep

-----------------------------------------------------------------------------
(* Datasets. The label of an item no client chose and no two requests met  *)
(* on is the one its reviews give (Earned), and so is what a request will  *)
(* write.                                                                  *)

(* Two verified reviews, each of another person, verify an item twice.     *)
LEMMA DatasetGold ==
  ASSUME NEW reviews \in Seq(D!ReviewRow), D!Label(reviews) = "gold",
         \A j, k \in DOMAIN reviews : j # k => reviews[j].by # reviews[k].by,
         NEW made, made.reviews = reviews
  PROVE  D!TwiceVerified(made)
<1> DEFINE S == {k \in DOMAIN reviews : reviews[k].decision = "verified"}
<1>1. Cardinality(S) >= 2
  <2>1. D!Cardinality(S) = Cardinality(S)
    BY DEF D!Cardinality, Cardinality
  <2> QED BY <2>1 DEF D!Label, D!Verified
<1>2. \E j, k \in S : j # k
  <2> SUFFICES ASSUME \A j, k \in S : j = k PROVE FALSE
    OBVIOUS
  <2>1. CASE S = {}
    <3>1. Cardinality(S) = 0
      BY <2>1, FS_EmptySet
    <3> QED BY <3>1, <1>1
  <2>2. CASE S # {}
    <3>1. PICK k \in S : TRUE
      BY <2>2
    <3>2. S = {k}
      OBVIOUS
    <3>3. Cardinality(S) = 1
      BY <3>2, FS_Singleton
    <3> QED BY <3>3, <1>1
  <2> QED BY <2>1, <2>2
<1> QED BY <1>2 DEF D!TwiceVerified

(* One more review, by someone who has given none.                         *)
LEMMA DatasetReview ==
  ASSUME NEW reviews \in Seq(D!ReviewRow), NEW by \in Reviewers, by \notin D!By(reviews),
         NEW decision \in {"verified", "rejected"},
         \A j, k \in DOMAIN reviews : j # k => reviews[j].by # reviews[k].by,
         NEW longer, longer = Append(reviews, [by |-> by, decision |-> decision])
  PROVE  \A j, k \in DOMAIN longer : j # k => longer[j].by # longer[k].by
<1> DEFINE n == [by |-> by, decision |-> decision]
<1>1. n.by = by
  OBVIOUS
<1> HIDE DEF n
<1>2. /\ DOMAIN longer = 1 .. Len(reviews) + 1 /\ DOMAIN reviews = 1 .. Len(reviews)
      /\ Len(reviews) \in Nat /\ longer[Len(reviews) + 1] = n
      /\ \A j \in 1 .. Len(reviews) : longer[j] = reviews[j]
  BY DEF n
<1>3. \A j \in 1 .. Len(reviews) : reviews[j].by # by
  BY <1>2 DEF D!By
<1>4. \A j \in 1 .. Len(reviews) + 1 : j \in 1 .. Len(reviews) \/ j = Len(reviews) + 1
  BY <1>2
<1> QED BY <1>1, <1>2, <1>3, <1>4

(* No item and no request is none.                                         *)
LEMMA DatasetTypes ==
  /\ D!NoItem \notin D!ItemRow /\ D!Closed \notin D!Requests
  /\ D!NoItem.version = 0
  /\ \A t \in D!Requests : t.op # "none" /\ t \in [op : {"review", "patch"}, id : Items, read : D!ItemRow, new : D!ItemRow]
<1>1. D!NoItem.version = 0 /\ \A made \in D!ItemRow : made.version # 0
  BY DEF D!ItemRow, D!NoItem
<1>2. D!Closed.op = "none" /\ \A t \in D!Requests : t.op # "none"
  BY DEF D!Closed, D!Requests
<1>3. \A t \in D!Requests : t \in [op : {"review", "patch"}, id : Items, read : D!ItemRow, new : D!ItemRow]
  BY DEF D!Requests
<1>4. D!NoItem \notin D!ItemRow /\ D!Closed \notin D!Requests
  BY <1>1, <1>2
<1> QED BY <1>1, <1>2, <1>3, <1>4

(* A request begins on the row that is there.                              *)
LEMMA DatasetBegin ==
  ASSUME D!IInv, NEW p \in Replica, NEW i \in Items, D!Present(i), NEW op \in {"review", "patch"},
         NEW new \in D!ItemRow, D!Begin(p, i, op, new), new.version # item[i].version,
         op = "review" /\ i \notin raced \cup chosen => D!Earned(new)
  PROVE  D!IInv'
<1> DEFINE t == [op |-> op, id |-> i, read |-> item[i], new |-> new]
<1>1. /\ review[p] = D!Closed /\ review' = [review EXCEPT ![p] = t]
      /\ UNCHANGED <<project, item, releases, chosen>>
      /\ raced \subseteq raced' /\ (\A q \in Replica \ {p} : review[q].id = i => i \in raced')
      /\ raced' \subseteq raced \cup {i}
  BY DEF D!Begin
<1>2. t \in D!Requests /\ t.id = i /\ t.op = op /\ t.read = item[i] /\ t.new = new
  BY DEF D!IInv, D!Present, D!Requests
<1> HIDE DEF t
<1>3. review'[p] = t /\ (\A q \in Replica : q # p => review'[q] = review[q])
      /\ review' \in [Replica -> D!Requests \cup {D!Closed}]
  BY <1>1, <1>2 DEF D!IInv
<1>4. ASSUME NEW q \in Replica, review'[q] # D!Closed
      PROVE  /\ item[review'[q].id] # D!NoItem
             /\ review'[q].id \notin raced' \cup chosen =>
                  /\ review'[q].read = item[review'[q].id]
                  /\ review'[q].op = "review" => D!Earned(review'[q].new)
             /\ \A z \in Replica \ {q} :
                  review'[z] # D!Closed /\ review'[z].id = review'[q].id => review'[q].id \in raced'
  <2>1. CASE q = p
    BY <2>1, <1>1, <1>2, <1>3 DEF D!Present
  <2>2. CASE q # p
    <3>1. review[q] # D!Closed /\ review'[q] = review[q] /\ review[q].id \in Items
      BY <2>2, <1>3, <1>4, DatasetTypes DEF D!IInv
    <3>2. /\ item[review[q].id] # D!NoItem
          /\ review[q].id \notin raced \cup chosen =>
                  /\ review[q].read = item[review[q].id]
                  /\ review[q].op = "review" => D!Earned(review[q].new)
          /\ \A z \in Replica \ {q} : review[z] # D!Closed /\ review[z].id = review[q].id => review[q].id \in raced
      BY <3>1 DEF D!IInv, D!Present
    <3>3. \A z \in Replica \ {q} :
            review'[z] # D!Closed /\ review'[z].id = review'[q].id => review'[q].id \in raced'
      BY <3>1, <3>2, <2>2, <1>1, <1>2, <1>3
    <3> QED BY <3>1, <3>2, <3>3, <1>1
  <2> QED BY <2>1, <2>2
<1>5. D!ReleasedTwiceVerified'
  BY <1>1 DEF D!IInv, D!ReleasedTwiceVerified
<1>6. \A j \in Items \ (raced' \cup chosen) : item[j] # D!NoItem => D!Earned(item[j])
  BY <1>1 DEF D!IInv, D!Present
<1> QED BY <1>1, <1>3, <1>4, <1>5, <1>6 DEF D!IInv, D!Present

(* A review begins on the row it has read.                                 *)
LEMMA DatasetReviews ==
  ASSUME D!IInv, NEW p \in Replica, NEW i \in Items, NEW by \in Reviewers,
         NEW decision \in {"verified", "rejected"}, D!Review(p, i, by, decision)
  PROVE  D!IInv'
<1> DEFINE reviews == Append(item[i].reviews, [by |-> by, decision |-> decision])
           new == [status |-> D!Label(reviews), version |-> item[i].version + 1,
                   reviews |-> reviews]
<1>1. D!Present(i) /\ by \notin D!By(item[i].reviews) /\ D!Begin(p, i, "review", new)
  BY DEF D!Review
<1>2. item[i] \in D!ItemRow
  BY <1>1 DEF D!Present, D!IInv
<1>3. item[i].reviews \in Seq(D!ReviewRow) /\ item[i].version \in Nat \ {0}
  BY <1>2 DEF D!ItemRow
<1>4. reviews \in Seq(D!ReviewRow)
  <2>1. [by |-> by, decision |-> decision] \in D!ReviewRow
    BY DEF D!ReviewRow
  <2> QED BY <2>1, <1>3
<1> HIDE DEF reviews
<1>5. D!Label(reviews) \in {"gold", "silver", "rejected"}
  BY DEF D!Label
<1>6. /\ new \in D!ItemRow /\ new.version # item[i].version
      /\ new.reviews = reviews /\ new.status = D!Label(reviews)
  BY <1>3, <1>4, <1>5 DEF D!ItemRow
<1> HIDE DEF new
<1>7. ASSUME i \notin raced \cup chosen PROVE D!Earned(new)
  <2>1. \A j, k \in DOMAIN item[i].reviews : j # k => item[i].reviews[j].by # item[i].reviews[k].by
    BY <1>1, <1>7 DEF D!IInv, D!Earned
  <2>2. \A j, k \in DOMAIN reviews : j # k => reviews[j].by # reviews[k].by
    BY <2>1, <1>1, <1>3, DatasetReview DEF reviews
  <2>3. new.status = "gold" => D!TwiceVerified(new)
    BY <2>2, <1>4, <1>6, DatasetGold
  <2> QED BY <2>2, <2>3, <1>6 DEF D!Earned
<1> QED BY <1>1, <1>6, <1>7, DatasetBegin

(* So does an edit.                                                        *)
LEMMA DatasetPatch ==
  ASSUME D!IInv, NEW p \in Replica, NEW i \in Items, D!Patch(p, i)
  PROVE  D!IInv'
<1> DEFINE a == [item[i] EXCEPT !.status = "gold", !.version = @ + 1]
           b == [item[i] EXCEPT !.reviews = <<>>, !.version = @ + 1]
<1>1. D!Present(i) /\ (D!Begin(p, i, "patch", a) \/ D!Begin(p, i, "patch", b))
  BY DEF D!Patch
<1>2. item[i] \in D!ItemRow
  BY <1>1 DEF D!Present, D!IInv
<1>3. a \in D!ItemRow /\ b \in D!ItemRow /\ a.version # item[i].version /\ b.version # item[i].version
  <2> DEFINE n == item[i].version + 1
  <2>1. n \in Nat \ {0} /\ n # item[i].version
    BY <1>2 DEF D!ItemRow
  <2>2. a = [item[i] EXCEPT !.status = "gold", !.version = n]
        /\ b = [item[i] EXCEPT !.reviews = <<>>, !.version = n]
    OBVIOUS
  <2> HIDE DEF n, a, b
  <2>3. a \in D!ItemRow /\ a.version = n
    BY <1>2, <2>1, <2>2 DEF D!ItemRow
  <2>4. b \in D!ItemRow /\ b.version = n
    <3>1. <<>> \in Seq(D!ReviewRow)
      OBVIOUS
    <3> QED BY <3>1, <1>2, <2>1, <2>2 DEF D!ItemRow
  <2> QED BY <2>1, <2>3, <2>4
<1> HIDE DEF a, b
<1> QED BY <1>1, <1>3, DatasetBegin

(* A commit of a request that met no other writes the row it has made.     *)
LEMMA DatasetCommit ==
  ASSUME D!IInv, NEW p \in Replica, D!Commit(p)
  PROVE  D!IInv'
<1> DEFINE t == review[p]
           i == t.id
           w == [status |-> D!Column(t.read.status, t.new.status, item[i].status),
                 version |-> D!Column(t.read.version, t.new.version, item[i].version),
                 reviews |-> D!Column(t.read.reviews, t.new.reviews, item[i].reviews)]
<1>1. /\ t # D!Closed /\ item' = [item EXCEPT ![i] = w]
      /\ chosen' = IF t.op = "patch" THEN chosen \cup {i} ELSE chosen
      /\ review' = [review EXCEPT ![p] = D!Closed]
      /\ UNCHANGED <<project, releases, raced, count>>
  BY DEF D!Commit
<1>2. /\ t \in D!Requests /\ i \in Items /\ t.read \in D!ItemRow /\ t.new \in D!ItemRow
      /\ t.op \in {"review", "patch"} /\ t.new.version # t.read.version
      /\ item[i] # D!NoItem
  BY <1>1, DatasetTypes DEF D!IInv, D!Present, D!Requests
<1>3. item[i] \in D!ItemRow
  BY <1>2 DEF D!IInv
<1>4. /\ w \in D!ItemRow /\ w.status = D!Column(t.read.status, t.new.status, item[i].status)
      /\ w.reviews = D!Column(t.read.reviews, t.new.reviews, item[i].reviews)
  BY <1>2, <1>3 DEF D!ItemRow, D!Column
<1> HIDE DEF w
<1>5. item'[i] = w /\ (\A j \in Items : j # i => item'[j] = item[j])
      /\ item' \in [Items -> D!ItemRow \cup {D!NoItem}]
  BY <1>1, <1>2, <1>4 DEF D!IInv
<1>6. review'[p] = D!Closed /\ (\A q \in Replica : q # p => review'[q] = review[q])
      /\ review' \in [Replica -> D!Requests \cup {D!Closed}]
  BY <1>1 DEF D!IInv
<1>7. i \notin raced' \cup chosen' => D!Earned(w)
  <2> SUFFICES ASSUME i \notin raced \cup chosen, t.op = "review"
               PROVE  D!Earned(w)
    BY <1>1, <1>2
  <2>1. t.read = item[i] /\ D!Earned(t.new)
    BY <1>1 DEF D!IInv
  <2>2. w.status = t.new.status /\ w.reviews = t.new.reviews
    BY <2>1, <1>4 DEF D!Column
  <2> QED BY <2>1, <2>2 DEF D!Earned, D!TwiceVerified
<1>8. \A j \in Items \ (raced' \cup chosen') : item'[j] # D!NoItem => D!Earned(item'[j])
  <2> SUFFICES ASSUME NEW j \in Items \ (raced' \cup chosen'), item'[j] # D!NoItem
               PROVE  D!Earned(item'[j])
    OBVIOUS
  <2>1. CASE j = i
    BY <2>1, <1>5, <1>7
  <2>2. CASE j # i
    BY <2>2, <1>1, <1>5 DEF D!IInv, D!Present
  <2> QED BY <2>1, <2>2
<1>9. ASSUME NEW q \in Replica, review'[q] # D!Closed
      PROVE  /\ item'[review'[q].id] # D!NoItem
             /\ review'[q].id \notin raced' \cup chosen' =>
                  /\ review'[q].read = item'[review'[q].id]
                  /\ review'[q].op = "review" => D!Earned(review'[q].new)
             /\ \A z \in Replica \ {q} :
                  review'[z] # D!Closed /\ review'[z].id = review'[q].id => review'[q].id \in raced'
  <2>1. q # p /\ review'[q] = review[q] /\ review[q] # D!Closed /\ review[q].id \in Items
    BY <1>6, <1>9, DatasetTypes DEF D!IInv
  <2>2. /\ item[review[q].id] # D!NoItem
        /\ review[q].id \notin raced \cup chosen =>
                  /\ review[q].read = item[review[q].id]
                  /\ review[q].op = "review" => D!Earned(review[q].new)
        /\ \A z \in Replica \ {q} : review[z] # D!Closed /\ review[z].id = review[q].id => review[q].id \in raced
    BY <2>1 DEF D!IInv, D!Present
  <2>3. review[q].id \notin raced => review[q].id # i
    BY <2>1, <2>2, <1>1
  <2>4. item'[review[q].id] # D!NoItem
    BY <2>1, <2>2, <1>4, <1>5, DatasetTypes
  <2>5. \A z \in Replica \ {q} :
          review'[z] # D!Closed /\ review'[z].id = review'[q].id => review'[q].id \in raced'
    BY <2>1, <2>2, <1>1, <1>6
  <2>6. review[q].id \notin raced' \cup chosen' => review[q].id \notin raced \cup chosen
    BY <1>1
  <2> QED BY <2>1, <2>2, <2>3, <2>4, <2>5, <2>6, <1>1, <1>5
<1>10. D!ReleasedTwiceVerified'
  BY <1>1 DEF D!IInv, D!ReleasedTwiceVerified
<1> HIDE DEF t, i
<1> QED BY <1>5, <1>6, <1>8, <1>9, <1>10 DEF D!IInv, D!Present

(* Items are added and released, and the dataset moves on.                 *)
LEMMA DatasetOthers ==
  ASSUME D!IInv, D!Advance \/ D!Release \/ \E i \in Items : D!AddItem(i)
  PROVE  D!IInv'
<1>1. CASE D!Advance
  <2>1. UNCHANGED <<item, review, releases, raced, chosen>>
    BY <1>1 DEF D!Advance
  <2> QED BY <2>1 DEF D!IInv, D!Present, D!ReleasedTwiceVerified
<1>2. CASE D!Release
  <2> DEFINE here == {i \in Items : D!Present(i)}
             r == [i \in here |-> item[i]]
  <2>1. /\ UNCHANGED <<item, review, raced, chosen>> /\ releases' = releases \cup {r}
        /\ \A i \in here : item[i].status = "gold"
    BY <1>2 DEF D!Release
  <2>2. \A i \in DOMAIN r : i \in raced \cup chosen \/ D!TwiceVerified(r[i])
    BY <2>1 DEF D!IInv, D!Earned
  <2> HIDE DEF r, here
  <2>3. D!ReleasedTwiceVerified'
    BY <2>1, <2>2 DEF D!IInv, D!ReleasedTwiceVerified
  <2> QED BY <2>1, <2>3 DEF D!IInv, D!Present
<1>3. ASSUME NEW i \in Items, D!AddItem(i) PROVE D!IInv'
  <2>1. PICK label \in {"draft", "gold"} :
       /\ item' = [item EXCEPT ![i] = [status |-> label, version |-> 1, reviews |-> <<>>]]
       /\ chosen' = IF label = "gold" THEN chosen \cup {i} ELSE chosen
    BY <1>3 DEF D!AddItem
  <2> DEFINE w == [status |-> label, version |-> 1, reviews |-> <<>>]
  <2>2. UNCHANGED <<project, review, releases, raced, count>> /\ item[i] = D!NoItem /\ chosen \subseteq chosen'
        /\ (label = "gold" => i \in chosen')
    BY <2>1, <1>3 DEF D!AddItem, D!Present
  <2>3. w \in D!ItemRow /\ w.status = label /\ w.reviews = <<>>
    BY <2>1 DEF D!ItemRow
  <2> HIDE DEF w
  <2>4. item'[i] = w /\ (\A j \in Items : j # i => item'[j] = item[j])
        /\ item' \in [Items -> D!ItemRow \cup {D!NoItem}]
    BY <2>1, <2>3 DEF D!IInv, w
  <2>5. i \notin chosen' => D!Earned(w)
    BY <2>2, <2>3 DEF D!Earned
  <2>6. \A j \in Items \ (raced' \cup chosen') : item'[j] # D!NoItem => D!Earned(item'[j])
    BY <2>2, <2>4, <2>5 DEF D!IInv, D!Present
  <2>7. ASSUME NEW q \in Replica, review[q] # D!Closed
        PROVE  /\ item'[review[q].id] # D!NoItem
               /\ review[q].id \notin raced' \cup chosen' =>
                    /\ review[q].read = item'[review[q].id]
                    /\ review[q].op = "review" => D!Earned(review[q].new)
    <3>1. review[q].id \in Items
      BY <2>7, DatasetTypes DEF D!IInv
    <3>2. item[review[q].id] # D!NoItem /\ review[q].id # i
      BY <2>2, <2>7 DEF D!IInv, D!Present
    <3> QED BY <3>1, <3>2, <2>2, <2>4, <2>7 DEF D!IInv
  <2>8. D!ReleasedTwiceVerified'
    BY <2>2 DEF D!IInv, D!ReleasedTwiceVerified
  <2>9. \A q \in Replica : review[q] # D!Closed => \A z \in Replica \ {q} :
          review[z] # D!Closed /\ review[z].id = review[q].id => review[q].id \in raced
    BY DEF D!IInv
  <2> QED BY <2>2, <2>4, <2>6, <2>7, <2>8, <2>9 DEF D!IInv, D!Present
<1> QED BY <1>1, <1>2, <1>3

LEMMA DatasetNext ==
  ASSUME D!IInv, D!Next
  PROVE  D!IInv'
BY DatasetOthers, DatasetCommit, DatasetPatch, DatasetReviews DEF D!Next

LEMMA DatasetStill ==
  ASSUME D!IInv, UNCHANGED <<item, review, releases, raced, chosen>>
  PROVE  D!IInv'
BY DEF D!IInv, D!Present, D!ReleasedTwiceVerified

LEMMA DatasetInit ==
  ASSUME D!Init
  PROVE  D!IInv
BY DEF D!Init, D!IInv, D!Present, D!ReleasedTwiceVerified

-----------------------------------------------------------------------------
(* Curriculum. Every import under way has stored, with the rows it still   *)
(* has to store, whatever they refer to (UnderWay).                        *)

(* A file that is valid has the codes it refers to.                        *)
LEMMA CurriculumFile ==
  ASSUME C!CurriculumAssumption, NEW file \in C!Files, C!Valid(file)
  PROVE  /\ file \in Seq(C!ValidRow)
         /\ \A k \in DOMAIN file : \A c \in file[k].refs :
              \E j \in DOMAIN file : file[j].code = c
<1>1. PICK m \in 0 .. MaxRows : file \in [1 .. m -> C!Rows]
  BY DEF C!Files, C!SeqOf
<1>2. m \in Nat /\ DOMAIN file = 1 .. m
  BY <1>1 DEF C!CurriculumAssumption
<1>3. \A k \in 1 .. m : file[k] \in C!ValidRow
  <2> SUFFICES ASSUME NEW k \in 1 .. m PROVE file[k] \in C!ValidRow
    OBVIOUS
  <2>1. file[k] \in C!Rows /\ file[k].code # C!Missing
    BY <1>1, <1>2 DEF C!Valid
  <2>2. \A c \in file[k].refs : c \in Codes
    BY <2>1 DEF C!Rows
  <2> QED BY <2>1, <2>2 DEF C!Rows, C!ValidRow
<1>4. file \in Seq(C!ValidRow)
  BY <1>1, <1>2, <1>3
<1>5. \A k \in DOMAIN file : \A c \in file[k].refs : \E j \in DOMAIN file : file[j].code = c
  BY DEF C!Valid, C!Known
<1> QED BY <1>4, <1>5

(* The rows of a file are its first one and the rest.                      *)
LEMMA CurriculumRows ==
  ASSUME NEW rows \in Seq(C!ValidRow), rows # <<>>
  PROVE  /\ Head(rows) \in C!ValidRow /\ Tail(rows) \in Seq(C!ValidRow)
         /\ C!RowsOf(rows) = {Head(rows)} \cup C!RowsOf(Tail(rows))
<1>1. /\ Len(rows) \in Nat \ {0} /\ DOMAIN rows = 1 .. Len(rows) /\ Head(rows) = rows[1]
      /\ Tail(rows) \in Seq(C!ValidRow) /\ DOMAIN Tail(rows) = 1 .. Len(rows) - 1
      /\ \A k \in 1 .. Len(rows) - 1 : Tail(rows)[k] = rows[k + 1]
  OBVIOUS
<1>2. \A k \in 1 .. Len(rows) : k = 1 \/ (k - 1 \in 1 .. Len(rows) - 1 /\ (k - 1) + 1 = k)
  BY <1>1
<1>3. \A k \in 1 .. Len(rows) - 1 : k + 1 \in 1 .. Len(rows)
  BY <1>1
<1>4. Head(rows) \in C!ValidRow
  BY <1>1
<1>5. 1 \in 1 .. Len(rows)
  BY <1>1
<1>6. ASSUME NEW k \in 1 .. Len(rows)
      PROVE  rows[k] \in {Head(rows)} \cup C!RowsOf(Tail(rows))
  <2>1. CASE k = 1
    BY <2>1, <1>1
  <2>2. CASE k # 1
    <3>1. k - 1 \in 1 .. Len(rows) - 1 /\ (k - 1) + 1 = k
      BY <2>2, <1>2
    <3>2. k - 1 \in DOMAIN Tail(rows) /\ Tail(rows)[k - 1] = rows[k]
      BY <3>1, <1>1
    <3> QED BY <3>2, Zenon DEF C!RowsOf
  <2> QED BY <2>1, <2>2
<1>7. ASSUME NEW k \in 1 .. Len(rows) - 1
      PROVE  Tail(rows)[k] \in C!RowsOf(rows)
  <2>1. k + 1 \in DOMAIN rows /\ Tail(rows)[k] = rows[k + 1]
    BY <1>1, <1>3
  <2> QED BY <2>1, Zenon DEF C!RowsOf
<1>8. C!RowsOf(rows) \subseteq {Head(rows)} \cup C!RowsOf(Tail(rows))
  BY <1>1, <1>6 DEF C!RowsOf
<1>9. C!RowsOf(Tail(rows)) \subseteq C!RowsOf(rows)
  <2>1. DOMAIN Tail(rows) = 1 .. Len(rows) - 1
    BY <1>1
  <2> HIDE DEF C!RowsOf
  <2>2. ASSUME NEW v \in C!RowsOf(Tail(rows)) PROVE v \in C!RowsOf(rows)
    <3>1. PICK k \in DOMAIN Tail(rows) : v = Tail(rows)[k]
      BY DEF C!RowsOf
    <3> QED BY <3>1, <2>1, <1>7
  <2> QED BY <2>2
<1>10. Head(rows) \in C!RowsOf(rows)
  BY <1>1, <1>5, Zenon DEF C!RowsOf
<1> QED BY <1>4, <1>1, <1>8, <1>9, <1>10

(* An import that is over has nothing to store.                            *)
LEMMA CurriculumIdle ==
  ASSUME NEW n \in Nat
  PROVE  C!NoImport \in C!Imports(n) /\ C!NoImport.at = "idle"
BY DEF C!NoImport, C!Imports

LEMMA CurriculumMore ==
  ASSUME NEW n \in Nat, NEW m \in Nat, n <= m
  PROVE  /\ C!Imports(n) \subseteq C!Imports(m) /\ C!Objectives(n) \subseteq C!Objectives(m)
         /\ 1 .. n \subseteq 1 .. m
<1>1. 0 .. n \subseteq 0 .. m /\ 1 .. n \subseteq 1 .. m
  OBVIOUS
<1> QED BY <1>1 DEF C!Imports, C!Objectives

(* One import has changed: the others are as they were.                    *)
LEMMA CurriculumOne ==
  ASSUME C!IInv, NEW p \in Replica, NEW t, import' = [import EXCEPT ![p] = t],
         t = C!NoImport \/ (t.id = import[p].id /\ import[p] # C!NoImport),
         t \in C!Imports(count), UNCHANGED <<checkedIn, count>>,
         \A q \in Replica \ {p} : import[q] # C!NoImport =>
           C!UnderWay(import[q], objectives', checkedIn \ finished'),
         t # C!NoImport => C!UnderWay(t, objectives', checkedIn \ finished'),
         finished' \subseteq 1 .. count, objectives' \subseteq C!Objectives(count),
         C!LateOnlyFromEarlier', C!ImportedWhole'
  PROVE  C!IInv'
<1>1. import'[p] = t /\ (\A q \in Replica : q # p => import'[q] = import[q])
      /\ import' \in [Replica -> C!Imports(count)]
  BY DEF C!IInv
<1>2. ASSUME NEW q \in Replica, import'[q] # C!NoImport
      PROVE  /\ C!UnderWay(import'[q], objectives', checkedIn \ finished')
             /\ \A z \in Replica \ {q} : import'[z] # C!NoImport => import'[z].id # import'[q].id
  <2>1. \A z \in Replica : import'[z] # C!NoImport =>
          import[z] # C!NoImport /\ import'[z].id = import[z].id
    BY <1>1
  <2>2. \A z \in Replica \ {q} : import[z] # C!NoImport => import[z].id # import[q].id
    BY <2>1, <1>2 DEF C!IInv
  <2>3. C!UnderWay(import'[q], objectives', checkedIn \ finished')
    BY <1>1, <1>2
  <2> QED BY <2>1, <2>2, <2>3, <1>2
<1> QED BY <1>1, <1>2 DEF C!IInv

LEMMA CurriculumBegin ==
  ASSUME C!IInv, NEW p \in Replica, C!Begin(p)
  PROVE  C!IInv'
<1> DEFINE t == [at |-> "upload", id |-> count + 1, rows |-> <<>>]
<1>1. /\ import' = [import EXCEPT ![p] = t] /\ count' = count + 1
      /\ checkedIn' = checkedIn \cup {count + 1} /\ import[p] = C!NoImport
      /\ UNCHANGED <<status, objectives, finished, late, faults>>
  BY DEF C!Begin
<1>2. /\ count \in Nat /\ count' \in Nat /\ count <= count' /\ count + 1 \in 1 .. count'
      /\ count + 1 \notin 0 .. count /\ count + 1 \in 0 .. count' /\ count + 1 \notin 1 .. count
  BY <1>1 DEF C!IInv
<1>3. /\ C!Imports(count) \subseteq C!Imports(count') /\ C!Objectives(count) \subseteq C!Objectives(count')
      /\ 1 .. count \subseteq 1 .. count'
  BY <1>2, CurriculumMore
<1>4. t \in C!Imports(count') /\ t.at = "upload" /\ t.id = count + 1 /\ t.rows = <<>>
  BY <1>2 DEF C!Imports
<1> HIDE DEF t
<1>5. import'[p] = t /\ (\A q \in Replica : q # p => import'[q] = import[q])
      /\ import' \in [Replica -> C!Imports(count')]
  BY <1>1, <1>3, <1>4 DEF C!IInv
<1>6. C!Mine(objectives, count + 1) = {}
  BY <1>2 DEF C!IInv, C!Mine, C!Objectives
<1>7. \A q \in Replica : import[q].id # count + 1
  BY <1>2 DEF C!IInv, C!Imports
<1>8. C!UnderWay(t, objectives, checkedIn' \ finished)
  <2>1. C!RowsOf(t.rows) = {}
    BY <1>4 DEF C!RowsOf
  <2>2. count + 1 \in checkedIn' \ finished
    BY <1>1, <1>2 DEF C!IInv
  <2> QED BY <2>1, <2>2, <1>4, <1>6 DEF C!UnderWay, C!Complete
<1>9. ASSUME NEW q \in Replica, import'[q] # C!NoImport
      PROVE  /\ C!UnderWay(import'[q], objectives', checkedIn' \ finished')
             /\ \A z \in Replica \ {q} : import'[z] # C!NoImport => import'[z].id # import'[q].id
  <2>1. CASE q = p
    BY <2>1, <1>1, <1>4, <1>5, <1>7, <1>8
  <2>2. CASE q # p
    <3>1. /\ import'[q] = import[q] /\ C!UnderWay(import[q], objectives, checkedIn \ finished)
          /\ \A z \in Replica \ {q} : import[z] # C!NoImport => import[z].id # import[q].id
      BY <2>2, <1>5, <1>9 DEF C!IInv
    <3>2. C!UnderWay(import[q], objectives, checkedIn' \ finished)
      BY <3>1, <1>1 DEF C!UnderWay
    <3>3. \A z \in Replica \ {q} : import'[z] # C!NoImport => import'[z].id # import[q].id
      BY <3>1, <2>2, <1>4, <1>5, <1>7
    <3> QED BY <3>1, <3>2, <3>3, <1>1
  <2> QED BY <2>1, <2>2
<1>10. /\ checkedIn' \subseteq 1 .. count' /\ finished' \subseteq 1 .. count'
       /\ objectives' \subseteq C!Objectives(count')
  BY <1>1, <1>2, <1>3 DEF C!IInv
<1>11. C!LateOnlyFromEarlier' /\ C!ImportedWhole'
  BY <1>1 DEF C!IInv, C!LateOnlyFromEarlier, C!ImportedWhole
<1> QED BY <1>2, <1>5, <1>9, <1>10, <1>11 DEF C!IInv

(* An import ends, or takes the file that has arrived.                     *)
LEMMA CurriculumTake ==
  ASSUME C!CurriculumAssumption, C!IInv, NEW p \in Replica, C!Validate(p) \/ C!Die(p)
  PROVE  C!IInv'
<1>1. /\ UNCHANGED <<status, objectives, finished, late, checkedIn, count>> /\ count \in Nat
      /\ finished \subseteq 1 .. count /\ objectives \subseteq C!Objectives(count)
  BY DEF C!Validate, C!Die, C!IInv
<1>2. C!LateOnlyFromEarlier' /\ C!ImportedWhole'
  BY <1>1 DEF C!IInv, C!LateOnlyFromEarlier, C!ImportedWhole
<1>3. \A q \in Replica : import[q] # C!NoImport => C!UnderWay(import[q], objectives', checkedIn \ finished')
  BY <1>1 DEF C!IInv
<1>4. ASSUME import' = [import EXCEPT ![p] = C!NoImport] PROVE C!IInv'
  BY <1>1, <1>2, <1>3, <1>4, CurriculumIdle, CurriculumOne
<1>5. ASSUME NEW file \in C!Files, C!Valid(file), import[p].at = "upload",
             import' = [import EXCEPT ![p] = [@ EXCEPT !.at = "store", !.rows = file]]
      PROVE  C!IInv'
  <2> DEFINE t == [import[p] EXCEPT !.at = "store", !.rows = file]
  <2>1. import[p] # C!NoImport /\ import[p] \in C!Imports(count)
    BY <1>1, <1>5, CurriculumIdle DEF C!IInv
  <2>2. file \in Seq(C!ValidRow) /\ \A k \in DOMAIN file : \A c \in file[k].refs :
              \E j \in DOMAIN file : file[j].code = c
    BY <1>5, CurriculumFile
  <2>3. t \in C!Imports(count) /\ t.at = "store" /\ t.id = import[p].id /\ t.rows = file
    BY <2>1, <2>2 DEF C!Imports
  <2>4. import' = [import EXCEPT ![p] = t]
    BY <1>5
  <2> HIDE DEF t
  <2>5. C!Mine(objectives, t.id) = {} /\ t.id \in checkedIn \ finished
    BY <2>1, <2>3, <1>5 DEF C!IInv, C!UnderWay
  <2>6. C!Complete(C!RowsOf(file))
    BY <2>2 DEF C!Complete, C!RowsOf
  <2>7. C!UnderWay(t, objectives', checkedIn \ finished')
    <3>1. C!Mine(objectives, t.id) \cup C!RowsOf(t.rows) = C!RowsOf(file)
      BY <2>3, <2>5
    <3> QED BY <3>1, <2>3, <2>5, <2>6, <1>1 DEF C!UnderWay
  <2> QED BY <2>1, <2>3, <2>4, <2>7, <1>1, <1>2, <1>3, CurriculumOne
<1>6. CASE C!Validate(p)
  <2>1. PICK file \in C!Files :
       import' = [import EXCEPT ![p] =
         IF C!Valid(file) THEN [@ EXCEPT !.at = "store", !.rows = file]
                                  ELSE C!NoImport]
    BY <1>6 DEF C!Validate
  <2>2. import[p].at = "upload"
    BY <1>6 DEF C!Validate
  <2>3. CASE C!Valid(file)
    BY <2>1, <2>2, <2>3, <1>5
  <2>4. CASE ~C!Valid(file)
    BY <2>1, <2>4, <1>4
  <2> QED BY <2>3, <2>4
<1>7. CASE C!Die(p)
  BY <1>7, <1>4 DEF C!Die
<1> QED BY <1>6, <1>7

(* The last answer of an import, when nothing of its file is left.         *)
LEMMA CurriculumFinish ==
  ASSUME C!IInv, NEW p \in Replica, C!Store(p), import[p].rows = <<>>
  PROVE  C!IInv'
<1> DEFINE id == import[p].id
<1>1. /\ finished' = finished \cup {id} /\ import' = [import EXCEPT ![p] = C!NoImport]
      /\ UNCHANGED <<status, objectives, late, checkedIn, count, faults>>
      /\ import[p].at = "store" /\ count \in Nat
  BY DEF C!Store, C!IInv
<1>2. import[p] # C!NoImport
  BY <1>1, CurriculumIdle
<1>3. C!UnderWay(import[p], objectives, checkedIn \ finished)
      /\ \A q \in Replica \ {p} : import[q] # C!NoImport => import[q].id # id
  BY <1>2 DEF C!IInv
<1>4. C!RowsOf(import[p].rows) = {}
  BY DEF C!RowsOf
<1>5. C!Complete(C!Mine(objectives, id)) /\ id \in checkedIn \ finished
  BY <1>3, <1>4 DEF C!UnderWay
<1> HIDE DEF id
<1>6. C!ImportedWhole'
  BY <1>1, <1>5 DEF C!IInv, C!ImportedWhole, C!Complete, C!Mine
<1>7. finished' \subseteq 1 .. count /\ objectives' \subseteq C!Objectives(count)
      /\ C!LateOnlyFromEarlier'
  BY <1>1, <1>5 DEF C!IInv, C!LateOnlyFromEarlier
<1>8. \A q \in Replica \ {p} : import[q] # C!NoImport =>
        C!UnderWay(import[q], objectives', checkedIn \ finished')
  <2> SUFFICES ASSUME NEW q \in Replica \ {p}, import[q] # C!NoImport
               PROVE  C!UnderWay(import[q], objectives, checkedIn \ finished')
    BY <1>1
  <2>1. C!UnderWay(import[q], objectives, checkedIn \ finished) /\ import[q].id # id
    BY <1>3 DEF C!IInv
  <2> QED BY <2>1, <1>1 DEF C!UnderWay
<1> QED BY <1>1, <1>6, <1>7, <1>8, CurriculumIdle, CurriculumOne

(* An import commits its next row.                                         *)
LEMMA CurriculumStore ==
  ASSUME C!IInv, NEW p \in Replica, C!Store(p), import[p].rows # <<>>
  PROVE  C!IInv'
<1> DEFINE id == import[p].id
           rows == import[p].rows
           new == [code |-> Head(rows).code, refs |-> Head(rows).refs, of |-> id]
           t == [import[p] EXCEPT !.rows = Tail(rows)]
<1>1. /\ objectives' = objectives \cup {new} /\ import' = [import EXCEPT ![p] = t]
      /\ late' \subseteq late \cup {new}
      /\ UNCHANGED <<status, finished, checkedIn, count, faults>>
      /\ import[p].at = "store" /\ count \in Nat
  BY DEF C!Store, C!Add, C!IInv
<1>2. import[p] \in C!Imports(count)
  BY DEF C!IInv
<1>3. /\ Head(rows) \in C!ValidRow /\ Tail(rows) \in Seq(C!ValidRow)
      /\ C!RowsOf(rows) = {Head(rows)} \cup C!RowsOf(Tail(rows))
  <2>1. rows \in Seq(C!ValidRow) /\ rows # <<>>
    BY <1>2 DEF C!Imports
  <2> HIDE DEF rows
  <2> QED BY <2>1, CurriculumRows
<1>4. import[p] # C!NoImport
  BY <1>1, CurriculumIdle
<1>5. /\ C!UnderWay(import[p], objectives, checkedIn \ finished)
      /\ \A q \in Replica \ {p} : import[q] # C!NoImport => import[q].id # id
  BY <1>4 DEF C!IInv
<1>6. /\ new \in C!Objectives(count)
      /\ new.code = Head(rows).code /\ new.refs = Head(rows).refs /\ new.of = id
  BY <1>2, <1>3 DEF C!ValidRow, C!Objectives, C!Imports
<1>7. t \in C!Imports(count) /\ t.at = "store" /\ t.id = id /\ t.rows = Tail(rows)
  <2>1. \A r \in Seq(C!ValidRow) : [import[p] EXCEPT !.rows = r] \in C!Imports(count)
          /\ [import[p] EXCEPT !.rows = r].at = "store"
          /\ [import[p] EXCEPT !.rows = r].id = id
          /\ [import[p] EXCEPT !.rows = r].rows = r
    BY <1>1, <1>2 DEF C!Imports
  <2> QED BY <2>1, <1>3
<1>8. id \in checkedIn \ finished /\ C!Complete(C!Mine(objectives, id) \cup C!RowsOf(rows))
  BY <1>5 DEF C!UnderWay
<1> HIDE DEF new, t, rows, id
<1>9. C!Mine(objectives', id) = C!Mine(objectives, id) \cup {new}
  BY <1>1, <1>6 DEF C!Mine
<1>10. \A i : i # id => C!Mine(objectives', i) = C!Mine(objectives, i)
  BY <1>1, <1>6 DEF C!Mine
<1>11. C!UnderWay(t, objectives', checkedIn \ finished')
  <2> DEFINE old == C!Mine(objectives, id)
             rest == C!RowsOf(Tail(rows))
  <2>1. \A o \in old \cup ({Head(rows)} \cup rest) : \A c \in o.refs :
            \E n \in old \cup ({Head(rows)} \cup rest) : n.code = c
    BY <1>3, <1>8 DEF C!Complete
  <2> HIDE DEF old, rest
  <2>2. \A o \in (old \cup {new}) \cup rest : \A c \in o.refs :
            \E n \in (old \cup {new}) \cup rest : n.code = c
    <3> SUFFICES ASSUME NEW o \in (old \cup {new}) \cup rest, NEW c \in o.refs
                 PROVE  \E n \in (old \cup {new}) \cup rest : n.code = c
      OBVIOUS
    <3>1. \E n \in old \cup ({Head(rows)} \cup rest) : n.code = c
      BY <2>1, <1>6
    <3> QED BY <3>1, <1>6
  <2>3. C!Complete(C!Mine(objectives', id) \cup rest)
    BY <2>2, <1>9 DEF C!Complete, old
  <2> QED BY <2>3, <1>1, <1>7, <1>8 DEF C!UnderWay, rest
<1>12. \A q \in Replica \ {p} : import[q] # C!NoImport =>
        C!UnderWay(import[q], objectives', checkedIn \ finished')
  <2> SUFFICES ASSUME NEW q \in Replica \ {p}, import[q] # C!NoImport
               PROVE  C!UnderWay(import[q], objectives', checkedIn \ finished)
    BY <1>1
  <2>1. C!UnderWay(import[q], objectives, checkedIn \ finished) /\ import[q].id # id
    BY <1>5 DEF C!IInv
  <2>2. C!Mine(objectives', import[q].id) = C!Mine(objectives, import[q].id)
    BY <2>1, <1>10
  <2> QED BY <2>1, <2>2 DEF C!UnderWay
<1>13. C!LateOnlyFromEarlier'
  BY <1>1, <1>6, <1>8 DEF C!IInv, C!LateOnlyFromEarlier
<1>14. C!ImportedWhole'
  <2>1. \A i \in finished : C!Mine(objectives', i) = C!Mine(objectives, i)
    BY <1>8, <1>10
  <2> QED BY <2>1, <1>1 DEF C!IInv, C!ImportedWhole, C!Mine
<1>15. objectives' \subseteq C!Objectives(count) /\ finished' \subseteq 1 .. count
  BY <1>1, <1>6 DEF C!IInv
<1> QED BY <1>1, <1>4, <1>7, <1>11, <1>12, <1>13, <1>14, <1>15, CurriculumOne DEF id

(* The number of requests may be shared with another component.            *)
LEMMA CurriculumStill ==
  ASSUME C!IInv, UNCHANGED <<import, finished, late, checkedIn>>,
         count' \in Nat, count <= count', objectives' \subseteq C!Objectives(count),
         \A i \in 1 .. count : C!Mine(objectives', i) = C!Mine(objectives, i)
  PROVE  C!IInv'
<1>1. /\ C!Imports(count) \subseteq C!Imports(count') /\ C!Objectives(count) \subseteq C!Objectives(count')
      /\ 1 .. count \subseteq 1 .. count'
  BY CurriculumMore DEF C!IInv
<1>2. /\ import \in [Replica -> C!Imports(count')] /\ objectives' \subseteq C!Objectives(count')
      /\ checkedIn \subseteq 1 .. count' /\ finished \subseteq 1 .. count'
  BY <1>1 DEF C!IInv
<1>3. ASSUME NEW q \in Replica, import[q] # C!NoImport
      PROVE  C!UnderWay(import[q], objectives', checkedIn \ finished)
  <2>1. C!UnderWay(import[q], objectives, checkedIn \ finished) /\ checkedIn \subseteq 1 .. count
    BY <1>3 DEF C!IInv
  <2>2. import[q].id \in 1 .. count
    BY <2>1 DEF C!UnderWay
  <2> QED BY <2>1, <2>2 DEF C!UnderWay
<1>4. C!ImportedWhole'
  <2>1. \A i \in finished : C!Mine(objectives', i) = C!Mine(objectives, i)
    BY DEF C!IInv
  <2> QED BY <2>1 DEF C!IInv, C!ImportedWhole, C!Mine
<1> QED BY <1>2, <1>3, <1>4 DEF C!IInv, C!LateOnlyFromEarlier

(* A single objective belongs to no import.                                *)
LEMMA CurriculumCreate ==
  ASSUME C!IInv, NEW c \in Codes, C!CreateObjective(c)
  PROVE  C!IInv'
<1> DEFINE new == [code |-> c, refs |-> {}, of |-> 0]
<1>1. /\ objectives' = objectives \cup {new} /\ late' = late
      /\ UNCHANGED <<status, import, finished, checkedIn, count, faults>>
      /\ count \in Nat /\ count <= count
  BY DEF C!CreateObjective, C!Add, C!IInv
<1>2. new \in C!Objectives(count) /\ new.of = 0
  <2>1. 0 \in 0 .. count
    BY <1>1
  <2> QED BY <2>1 DEF C!Objectives
<1> HIDE DEF new
<1>3. \A i \in 1 .. count : C!Mine(objectives', i) = C!Mine(objectives, i)
  BY <1>1, <1>2 DEF C!Mine
<1>4. objectives' \subseteq C!Objectives(count)
  BY <1>1, <1>2 DEF C!IInv
<1> QED BY <1>1, <1>3, <1>4, CurriculumStill

LEMMA CurriculumNext ==
  ASSUME C!CurriculumAssumption, C!IInv, C!Next
  PROVE  C!IInv'
<1>1. CASE C!Publish
  <2>1. UNCHANGED <<objectives, import, finished, late, checkedIn, count>> /\ count \in Nat
        /\ count <= count /\ objectives \subseteq C!Objectives(count)
    BY <1>1 DEF C!Publish, C!IInv
  <2> QED BY <2>1, CurriculumStill
<1>2. ASSUME NEW p \in Replica, C!Store(p) PROVE C!IInv'
  BY <1>2, CurriculumStore, CurriculumFinish
<1> QED BY <1>1, <1>2, CurriculumCreate, CurriculumBegin, CurriculumTake DEF C!Next

LEMMA CurriculumInit ==
  ASSUME C!Init
  PROVE  C!IInv
<1>1. 0 \in Nat
  OBVIOUS
<1> QED BY <1>1, CurriculumIdle DEF C!Init, C!IInv, C!LateOnlyFromEarlier, C!ImportedWhole

-----------------------------------------------------------------------------
(* Paging. Of what was left alone, the rows that are not below the cursor  *)
(* have been listed once and the others not yet.                           *)

(* Every change of a row, tick and page.                                   *)
LEMMA PageNext ==
  ASSUME P!PagingAssumption, P!IInv, P!Next
  PROVE  P!IInv'
<1> USE DEF P!PagingAssumption
<1>1. ASSUME NEW r \in Listed, P!Change(r)
      PROVE  P!IInv'
  <2>1. \A s \in stable' : s # r /\ s \in stable /\ P!Place(s)' = P!Place(s)
                           /\ (s \in matches' <=> s \in matches)
    BY <1>1 DEF P!IInv, P!Typed, P!Change, P!Place
  <2>2. P!Typed'
    BY <1>1 DEF P!IInv, P!Typed, P!Change
  <2> QED BY <1>1, <2>1, <2>2 DEF P!IInv, P!Change, P!Below
<1>2. CASE P!Tick
  <2>1. P!Typed'
    BY <1>2 DEF P!IInv, P!Typed, P!Tick
  <2> QED BY <1>2, <2>1 DEF P!IInv, P!Tick, P!Below, P!Place
<1>3. CASE P!Page
  <2> DEFINE rows == {r \in matches : P!Below(P!Place(r), cursor)}
  <2>1. PICK page \in SUBSET rows :
          /\ \A r \in page, q \in rows \ page : P!Newer(r, q)
          /\ listed' = [r \in Listed |-> listed[r] + IF r \in page THEN 1 ELSE 0]
          /\ done' = (page = rows)
          /\ IF page = rows THEN UNCHANGED cursor
             ELSE \E last \in page : /\ \A r \in page \ {last} : P!Newer(r, last)
                                     /\ cursor' = P!Place(last)
    BY <1>3 DEF P!Page
  <2>2. ~done /\ UNCHANGED <<updated, matches, now, stable>>
    BY <1>3 DEF P!Page
  <2>3. \A r \in Listed : updated[r] \in Nat /\ r \in Nat /\ P!Place(r)' = P!Place(r)
    BY <2>2 DEF P!IInv, P!Typed, P!Place
  <2>4. P!Typed'
    <3>1. cursor' \in Nat \X Nat
      BY <2>1, <2>3 DEF P!IInv, P!Typed, P!Place
    <3> QED BY <2>1, <2>2, <3>1 DEF P!IInv, P!Typed
  <2>5. ASSUME NEW r \in stable
        PROVE  listed'[r] = IF r \in matches /\ (done' \/ ~P!Below(P!Place(r), cursor')) THEN 1 ELSE 0
    <3>1. /\ r \in Listed /\ r \in Nat /\ updated[r] \in Nat
          /\ listed[r] = IF r \in matches /\ ~P!Below(P!Place(r), cursor) THEN 1 ELSE 0
          /\ listed'[r] = listed[r] + IF r \in page THEN 1 ELSE 0
      BY <2>1, <2>2, <2>3 DEF P!IInv, P!Typed
    <3>2. CASE page = rows
      <4>1. r \in matches /\ ~(r \in page) => ~P!Below(P!Place(r), cursor)
        BY <3>2
      <4>2. done'
        BY <2>1, <3>2
      <4>3. r \in page => r \in matches /\ P!Below(P!Place(r), cursor)
        OBVIOUS
      <4> QED BY <3>1, <4>1, <4>2, <4>3
    <3>3. CASE page # rows
      <4>1. PICK last \in page : /\ \A q \in page \ {last} : P!Newer(q, last)
                                 /\ cursor' = P!Place(last)
        BY <2>1, <3>3
      <4>2. /\ last \in matches /\ last \in Listed /\ last \in Nat /\ updated[last] \in Nat
            /\ P!Below(P!Place(last), cursor)
        BY <4>1, <2>3 DEF P!IInv, P!Typed
      <4>3. r \in page => ~P!Below(P!Place(r), cursor')
        BY <3>1, <4>1, <4>2 DEF P!Newer, P!Below, P!Place
      <4>4. r \in rows \ page => P!Below(P!Place(r), cursor')
        BY <2>1, <3>1, <4>1, <4>2 DEF P!Newer, P!Below, P!Place
      <4>5. ~P!Below(P!Place(r), cursor) => ~P!Below(P!Place(r), cursor')
        BY <3>1, <4>1, <4>2 DEF P!IInv, P!Typed, P!Below, P!Place
      <4>6. ~done'
        BY <2>1, <3>3
      <4> QED BY <3>1, <4>3, <4>4, <4>5, <4>6
    <3> QED BY <3>2, <3>3
  <2> QED BY <2>2, <2>3, <2>4, <2>5 DEF P!IInv, P!Typed
<1> QED BY <1>1, <1>2, <1>3 DEF P!Next

(* At first every row is below the cursor.                                 *)
LEMMA PageInit ==
  ASSUME P!PagingAssumption, P!Init
  PROVE  P!IInv
<1>1. P!Typed
  <2>1. cursor \in Nat \X Nat
    BY DEF P!PagingAssumption, P!Init, P!Top
  <2> QED BY <2>1 DEF P!PagingAssumption, P!Init, P!Typed
<1>2. \A r \in Listed : P!Below(P!Place(r), cursor)
  BY DEF P!PagingAssumption, P!Init, P!Below, P!Place, P!Top
<1> QED BY <1>1, <1>2 DEF P!IInv, P!Init

LEMMA PageStill ==
  ASSUME P!IInv, UNCHANGED P!vars
  PROVE  P!IInv'
BY DEF P!IInv, P!Typed, P!vars, P!Below, P!Place

(* What a reader has met.                                                  *)
LEMMA PageListed == P!IInv => P!StableListedOnce
BY DEF P!IInv, P!Typed, P!StableListedOnce

-----------------------------------------------------------------------------
(* Identity. A launch is accepted only by requests that began before the   *)
(* first of them ended.                                                    *)

(* A request begins.                                                       *)
LEMMA IdBegin ==
  ASSUME Y!IInv, NEW p \in Replica, NEW op \in {"rotate", "revoke", "token", "launch", "learn"},
         NEW l \in Learners \cup {"none"}, Y!Begin(p, op, l), op = "launch" => nonce = "open"
  PROVE  Y!IInv'
<1> DEFINE t == [op |-> op, id |-> count + 1, version |-> client.version, learner |-> l]
<1>1. /\ handling[p] = Y!Closed /\ count' = count + 1 /\ handling' = [handling EXCEPT ![p] = t]
      /\ UNCHANGED <<client, secrets, nonce, launched, vault>>
      /\ met \subseteq met'
      /\ \A q \in Replica \ {p} : handling[q] # Y!Closed => {count + 1, handling[q].id} \in met'
  BY DEF Y!Begin
<1>2. count \in Nat /\ count' \in Nat /\ 0 .. count \subseteq 0 .. count' /\ 1 .. count \subseteq 1 .. count'
      /\ count + 1 \in 0 .. count' /\ count + 1 # 0
  BY <1>1 DEF Y!IInv
<1>3. t \in [op : {"none", "rotate", "revoke", "token", "launch", "learn"},
             id : 0 .. count', version : Nat, learner : Learners \cup {"none"}]
      /\ t.op = op /\ t.id = count + 1
  BY <1>1, <1>2 DEF Y!IInv
<1> HIDE DEF t
<1>4. handling'[p] = t /\ \A q \in Replica : q # p => handling'[q] = handling[q]
  BY <1>1 DEF Y!IInv
<1>5. handling' \in [Replica -> [op : {"none", "rotate", "revoke", "token", "launch", "learn"},
                         id : 0 .. count', version : Nat, learner : Learners \cup {"none"}]]
  BY <1>1, <1>2, <1>3 DEF Y!IInv
<1>6. ASSUME NEW q \in Replica, handling'[q] # Y!Closed
      PROVE  /\ handling'[q].id # 0
             /\ \A z \in Replica \ {q} : handling'[z] # Y!Closed => {handling'[q].id, handling'[z].id} \in met'
             /\ handling'[q].op = "launch" =>
                  nonce # "absent" /\ \A a \in launched : {a, handling'[q].id} \in met'
  <2>1. CASE q = p
    BY <2>1, <1>1, <1>2, <1>3, <1>4 DEF Y!IInv
  <2>2. CASE q # p
    <3>1. /\ handling[q].id # 0 /\ handling[q] # Y!Closed
          /\ \A z \in Replica \ {q} : handling[z] # Y!Closed => {handling[q].id, handling[z].id} \in met
          /\ handling[q].op = "launch" =>
                  nonce # "absent" /\ \A a \in launched : {a, handling[q].id} \in met
      BY <2>2, <1>4, <1>6 DEF Y!IInv
    <3>2. {handling[q].id, t.id} \in met'
      <4>1. {handling[q].id, count + 1} = {count + 1, handling[q].id}
        OBVIOUS
      <4> QED BY <4>1, <3>1, <2>2, <1>1, <1>3
    <3> QED BY <3>1, <3>2, <2>2, <1>1, <1>4
  <2> QED BY <2>1, <2>2
<1>7. Y!UsedOnce'
  BY <1>1 DEF Y!IInv, Y!UsedOnce
<1>8. launched \subseteq 1 .. count'
  BY <1>2 DEF Y!IInv
<1> QED BY <1>1, <1>2, <1>5, <1>6, <1>7, <1>8 DEF Y!IInv

(* A request commits.                                                      *)
LEMMA IdCommit ==
  ASSUME Y!IInv, NEW p \in Replica, Y!Commit(p)
  PROVE  Y!IInv'
<1> DEFINE t == handling[p]
<1>1. /\ t # Y!Closed /\ handling' = [handling EXCEPT ![p] = Y!Closed] /\ UNCHANGED <<met, count>>
      /\ client' = Y!Updated(t) /\ vault' = Y!Stored(t)
      /\ secrets' = IF t.op = "rotate" THEN secrets \cup {t.id} ELSE secrets
      /\ nonce' = IF t.op = "launch" THEN "used" ELSE nonce
      /\ launched' = IF t.op = "launch" THEN launched \cup {t.id} ELSE launched
  BY DEF Y!Commit
<1>2. /\ t.id \in 1 .. count /\ t.version \in Nat
      /\ t.op = "launch" => \A a \in launched : {a, t.id} \in met
      /\ \A q \in Replica \ {p} : handling[q] # Y!Closed => {t.id, handling[q].id} \in met
  BY <1>1 DEF Y!IInv
<1>3. handling'[p] = Y!Closed /\ \A q \in Replica : q # p => handling'[q] = handling[q]
  BY <1>1 DEF Y!IInv
<1>4. Y!Closed \in [op : {"none", "rotate", "revoke", "token", "launch", "learn"},
                  id : 0 .. count, version : Nat, learner : Learners \cup {"none"}]
  BY DEF Y!IInv, Y!Closed
<1>5. client' \in [active : BOOLEAN, version : Nat, secret : secrets']
  <2>1. client \in [active : BOOLEAN, version : Nat, secret : secrets]
    BY DEF Y!IInv
  <2>2. CASE t.op = "rotate"
    <3>1. client' = [client EXCEPT !.secret = t.id, !.version = t.version + 1]
      BY <2>2, <1>1 DEF Y!Updated
    <3>2. client' \in [active : {client.active}, version : {t.version + 1}, secret : {t.id}]
      BY <3>1, <2>1
    <3>3. client.active \in BOOLEAN /\ t.version + 1 \in Nat /\ t.id \in secrets'
      BY <2>1, <2>2, <1>1, <1>2
    <3> QED BY <3>2, <3>3
  <2>3. CASE t.op = "revoke"
    <3>1. client' = [client EXCEPT !.active = FALSE, !.version = t.version + 1]
      BY <2>3, <1>1 DEF Y!Updated
    <3>2. client' \in [active : {FALSE}, version : {t.version + 1}, secret : {client.secret}]
      BY <3>1, <2>1
    <3>3. t.version + 1 \in Nat /\ client.secret \in secrets'
      BY <2>1, <2>3, <1>1, <1>2
    <3> QED BY <3>2, <3>3
  <2>4. CASE t.op \notin {"rotate", "revoke"}
    <3>1. client' = client
      BY <2>4, <1>1 DEF Y!Updated
    <3> QED BY <3>1, <2>1, <2>4, <1>1
  <2> QED BY <2>2, <2>3, <2>4
<1>6. vault' \in [Learners -> {0, 1}]
  BY <1>1 DEF Y!Stored, Y!IInv
<1> HIDE DEF t
<1>7. launched' \subseteq 1 .. count /\ (nonce' \in {"absent", "open"} => launched' = {})
  BY <1>1, <1>2 DEF Y!IInv
<1>8. handling' \in [Replica -> [op : {"none", "rotate", "revoke", "token", "launch", "learn"},
                         id : 0 .. count, version : Nat, learner : Learners \cup {"none"}]]
  BY <1>1, <1>4 DEF Y!IInv
<1>9. ASSUME NEW q \in Replica, handling'[q] # Y!Closed
      PROVE  /\ handling'[q].id # 0
             /\ \A z \in Replica \ {q} : handling'[z] # Y!Closed => {handling'[q].id, handling'[z].id} \in met
             /\ handling'[q].op = "launch" =>
                  nonce' # "absent" /\ \A a \in launched' : {a, handling'[q].id} \in met
  <2>1. q # p /\ handling'[q] = handling[q] /\ \A z \in Replica : handling'[z] = handling[z] \/ handling'[z] = Y!Closed
    BY <1>3, <1>9
  <2> QED BY <2>1, <1>1, <1>2, <1>9 DEF Y!IInv
<1>10. Y!UsedOnce'
  <2>1. \A l \in Learners : vault'[l] <= 1
    <3>1. \A l \in Learners : vault'[l] \in {0, 1}
      BY <1>6
    <3> QED BY <3>1
  <2>2. ASSUME NEW a \in launched', NEW b \in launched', a # b
        PROVE  {a, b} \in met
    <3>1. CASE a \in launched /\ b \in launched
      BY <3>1, <2>2 DEF Y!IInv, Y!UsedOnce
    <3>2. CASE a \in launched /\ b = t.id /\ t.op = "launch"
      BY <3>2, <1>2
    <3>3. CASE b \in launched /\ a = t.id /\ t.op = "launch"
      <4>1. {a, b} = {b, a}
        OBVIOUS
      <4> QED BY <4>1, <3>3, <1>2
    <3> QED BY <3>1, <3>2, <3>3, <2>2, <1>1
  <2> QED BY <2>1, <2>2, <1>1 DEF Y!UsedOnce
<1> QED BY <1>1, <1>5, <1>6, <1>7, <1>8, <1>9, <1>10 DEF Y!IInv

LEMMA IdNext ==
  ASSUME Y!IInv, Y!Next
  PROVE  Y!IInv'
<1>1. CASE Y!Login \/ Y!Expire
  <2>1. /\ UNCHANGED <<client, secrets, launched, vault, handling, met, count>>
        /\ nonce' # "absent" /\ (nonce' \in {"absent", "open"} => nonce \in {"absent", "open"})
    BY <1>1 DEF Y!Login, Y!Expire
  <2> QED BY <2>1 DEF Y!IInv, Y!UsedOnce
<1>2. CASE \E p \in Replica :
             Y!Rotate(p) \/ Y!Revoke(p) \/ Y!Token(p) \/ Y!Launch(p) \/ \E l \in Learners : Y!Learn(p, l)
  BY <1>2, IdBegin DEF Y!Rotate, Y!Revoke, Y!Token, Y!Launch, Y!Learn
<1>3. CASE \E p \in Replica : Y!Commit(p)
  BY <1>3, IdCommit
<1> QED BY <1>1, <1>2, <1>3 DEF Y!Next

(* The number of requests may be shared with another component.            *)
LEMMA IdStill ==
  ASSUME Y!IInv, UNCHANGED <<client, secrets, nonce, launched, vault, handling, met>>,
         count' \in Nat, count <= count'
  PROVE  Y!IInv'
<1>1. 0 .. count \subseteq 0 .. count' /\ 1 .. count \subseteq 1 .. count'
  BY DEF Y!IInv
<1>2. handling \in [Replica -> [op : {"none", "rotate", "revoke", "token", "launch", "learn"},
                         id : 0 .. count', version : Nat, learner : Learners \cup {"none"}]]
  BY <1>1 DEF Y!IInv
<1> QED BY <1>1, <1>2 DEF Y!IInv, Y!UsedOnce

LEMMA IdInit ==
  ASSUME Y!Init
  PROVE  Y!IInv
<1>1. /\ client \in [active : BOOLEAN, version : Nat, secret : secrets]
      /\ vault \in [Learners -> {0, 1}] /\ launched = {} /\ count = 0
      /\ \A l \in Learners : vault[l] = 0
      /\ handling = [p \in Replica |-> Y!Closed]
  BY DEF Y!Init
<1>2. Y!Closed \in [op : {"none", "rotate", "revoke", "token", "launch", "learn"},
                  id : 0 .. 0, version : Nat, learner : Learners \cup {"none"}]
  BY DEF Y!Closed
<1>3. Y!UsedOnce
  BY <1>1 DEF Y!UsedOnce
<1> QED BY <1>1, <1>2, <1>3 DEF Y!IInv

(* A revoked client is never active again.                                 *)
LEMMA IdRevoked ==
  ASSUME Y!IInv, Y!IInv', Y!Next
  PROVE  ~client.active => ~client'.active /\ client'.secret \in secrets'
<1>1. client'.secret \in secrets' /\ client \in [active : BOOLEAN, version : Nat, secret : secrets]
  BY DEF Y!IInv
<1>2. UNCHANGED client \/ \E t : client' = Y!Updated(t)
  BY DEF Y!Next, Y!Login, Y!Expire, Y!Rotate, Y!Revoke, Y!Token, Y!Launch, Y!Learn, Y!Begin,
     Y!Commit
<1>3. ASSUME NEW t, client' = Y!Updated(t), ~client.active PROVE ~client'.active
  <2>1. CASE t.op = "rotate"
    <3>1. client' = [client EXCEPT !.secret = t.id, !.version = t.version + 1]
      BY <2>1, <1>3 DEF Y!Updated
    <3> QED BY <3>1, <1>1, <1>3
  <2>2. CASE t.op = "revoke"
    <3>1. client' = [client EXCEPT !.active = FALSE, !.version = t.version + 1]
      BY <2>2, <1>3 DEF Y!Updated
    <3> QED BY <3>1, <1>1
  <2>3. CASE t.op \notin {"rotate", "revoke"}
    BY <2>3, <1>3 DEF Y!Updated
  <2> QED BY <2>1, <2>2, <2>3
<1> QED BY <1>1, <1>2, <1>3

-----------------------------------------------------------------------------
(* The scene.                                                              *)

(* Each part begins as its module says, or with nothing under way.         *)
LEMMA SceneBegins ==
  ASSUME ResourceAssumption, ServerAssumption, SceneInit
  PROVE  IInv /\ D!IInv /\ C!IInv /\ P!IInv /\ Y!IInv
<1>1. C!IInv /\ Y!IInv
  BY CurriculumInit, IdInit DEF SceneInit
<1>2. D!IInv
  <2>1. CASE focus = "datasets"
    BY <2>1, DatasetInit DEF SceneInit
  <2>2. CASE focus # "datasets"
    <3>1. NoDatasets
      BY <2>2 DEF SceneInit
    <3> QED BY <3>1 DEF NoDatasets, D!IInv, D!Present, D!ReleasedTwiceVerified
  <2> QED BY <2>1, <2>2
<1>3. IInv
  <2>1. CASE focus = "resources"
    BY <2>1, ResInit DEF SceneInit
  <2>2. CASE focus # "resources"
    <3>1. NoResources
      BY <2>2 DEF SceneInit
    <3>2. \A r \in Resources : row[r] = Absent
      BY <3>1 DEF NoResources
    <3>3. /\ row = [r \in Resources |-> IF r = 1 THEN Absent ELSE Absent]
          /\ reads = [r \in Resources |->
               IF row[r] # Absent THEN {[version |-> 1, payload |-> {}]} ELSE {}]
          /\ object = {ObjectOf(r) : r \in {q \in Resources : row[q] # Absent}}
      BY <3>1, <3>2, Zenon DEF NoResources
    <3>4. Init
      BY <3>1, <3>3, Zenon DEF Init, NoResources
    <3> QED BY <3>4, ResInit
  <2> QED BY <2>1, <2>2
<1>4. P!IInv
  <2>1. CASE focus = "pages"
    BY <2>1, PageInit DEF SceneInit, ServerAssumption
  <2>2. CASE focus # "pages"
    <3>1. NoPages
      BY <2>2 DEF SceneInit
    <3>2. P!Typed
      <4>1. cursor \in Nat \X Nat
        BY <3>1 DEF NoPages, ServerAssumption, P!PagingAssumption, P!Top
      <4>2. now \in 0 .. MaxTime /\ updated \in [Listed -> 0 .. now]
        BY <3>1 DEF NoPages, ServerAssumption, P!PagingAssumption
      <4>3. listed \in [Listed -> Nat] /\ matches \subseteq Listed /\ stable \subseteq Listed
        BY <3>1 DEF NoPages
      <4> QED BY <3>1, <4>1, <4>2, <4>3 DEF NoPages, P!Typed
    <3> QED BY <3>1, <3>2 DEF NoPages, P!IInv
  <2> QED BY <2>1, <2>2
<1> QED BY <1>1, <1>2, <1>3, <1>4

(* Every step of the scene keeps the invariants of its parts.              *)
LEMMA SceneStep ==
  ASSUME ResourceAssumption, ServerAssumption, IInv, D!IInv, C!IInv, P!IInv, Y!IInv,
         \/ ResourceStep \/ DatasetStep \/ CurriculumStep
         \/ PageStep \/ IdentityStep \/ UNCHANGED all
  PROVE  IInv' /\ D!IInv' /\ C!IInv' /\ P!IInv' /\ Y!IInv'
<1>1. count \in Nat /\ count <= count /\ objectives \subseteq C!Objectives(count)
  BY DEF Y!IInv, C!IInv
<1>2. P!IInv'
  <2>1. CASE PageStep
    BY <2>1, PageNext DEF PageStep, ServerAssumption
  <2>2. CASE ~PageStep
    <3>1. UNCHANGED pages
      BY <2>2 DEF ResourceStep, DatasetStep, CurriculumStep, IdentityStep, all
    <3> QED BY <3>1, PageStill DEF pages, P!vars
  <2> QED BY <2>1, <2>2
<1>3. CASE ResourceStep
  <2>1. Next /\ UNCHANGED <<datasets, curriculum, identity, count>>
    BY <1>3 DEF ResourceStep
  <2>2. /\ UNCHANGED <<item, review, releases, raced, chosen>>
        /\ UNCHANGED <<objectives, import, finished, late, checkedIn, count>>
        /\ UNCHANGED <<client, secrets, nonce, launched, vault, handling, met>>
    BY <2>1 DEF datasets, curriculum, identity
  <2>3. IInv'
    BY <2>1, ResSteps
  <2>4. D!IInv'
    BY <2>2, DatasetStill
  <2>5. C!IInv'
    BY <1>1, <2>2, CurriculumStill DEF C!Mine
  <2>6. Y!IInv'
    BY <1>1, <2>2, IdStill
  <2> QED BY <1>2, <2>3, <2>4, <2>5, <2>6
<1>4. CASE DatasetStep
  <2>1. D!Next /\ UNCHANGED <<vars, curriculum, identity>>
    BY <1>4 DEF DatasetStep
  <2>2. /\ UNCHANGED <<objectives, import, finished, late, checkedIn>>
        /\ UNCHANGED <<client, secrets, nonce, launched, vault, handling, met>>
    BY <2>1 DEF curriculum, identity
  <2>3. count' = count \/ count' = count + 1
    BY <2>1 DEF D!Next, D!Advance, D!Release, D!AddItem, D!Commit, D!Patch, D!Review, D!Begin
  <2>4. count' \in Nat /\ count <= count'
    BY <1>1, <2>3
  <2>5. IInv'
    BY <2>1, ResSteps
  <2>6. D!IInv'
    BY <2>1, DatasetNext
  <2>7. C!IInv'
    BY <1>1, <2>2, <2>4, CurriculumStill DEF C!Mine
  <2>8. Y!IInv'
    BY <2>2, <2>4, IdStill
  <2> QED BY <1>2, <2>5, <2>6, <2>7, <2>8
<1>5. CASE CurriculumStep
  <2>1. C!Next /\ UNCHANGED <<vars, datasets, identity>>
    BY <1>5 DEF CurriculumStep
  <2>2. /\ UNCHANGED <<item, review, releases, raced, chosen>>
        /\ UNCHANGED <<client, secrets, nonce, launched, vault, handling, met>>
    BY <2>1 DEF datasets, identity
  <2>3. count' = count \/ count' = count + 1
    BY <2>1 DEF C!Next, C!Publish, C!CreateObjective, C!Begin, C!Validate, C!Store, C!Die
  <2>4. count' \in Nat /\ count <= count'
    BY <1>1, <2>3
  <2>5. IInv'
    BY <2>1, ResSteps
  <2>6. D!IInv'
    BY <2>2, DatasetStill
  <2>7. C!IInv'
    BY <2>1, CurriculumNext DEF ServerAssumption
  <2>8. Y!IInv'
    BY <2>2, <2>4, IdStill
  <2> QED BY <1>2, <2>5, <2>6, <2>7, <2>8
<1>6. CASE PageStep \/ UNCHANGED all
  <2>1. UNCHANGED <<vars, datasets, curriculum, identity, count>>
    BY <1>6 DEF PageStep, all
  <2>2. /\ UNCHANGED <<item, review, releases, raced, chosen>>
        /\ UNCHANGED <<objectives, import, finished, late, checkedIn, count>>
        /\ UNCHANGED <<client, secrets, nonce, launched, vault, handling, met>>
    BY <2>1 DEF datasets, curriculum, identity
  <2>3. IInv'
    BY <2>1, ResSteps
  <2>4. D!IInv'
    BY <2>2, DatasetStill
  <2>5. C!IInv'
    BY <1>1, <2>2, CurriculumStill DEF C!Mine
  <2>6. Y!IInv'
    BY <1>1, <2>2, IdStill
  <2> QED BY <1>2, <2>3, <2>4, <2>5, <2>6
<1>7. CASE IdentityStep
  <2>1. Y!Next /\ UNCHANGED <<vars, datasets, curriculum>>
    BY <1>7 DEF IdentityStep
  <2>2. /\ UNCHANGED <<item, review, releases, raced, chosen>>
        /\ UNCHANGED <<objectives, import, finished, late, checkedIn>>
    BY <2>1 DEF datasets, curriculum
  <2>3. count' = count \/ count' = count + 1
    BY <2>1 DEF Y!Next, Y!Login, Y!Expire, Y!Rotate, Y!Revoke, Y!Token, Y!Launch, Y!Learn,
                Y!Commit, Y!Begin
  <2>4. count' \in Nat /\ count <= count'
    BY <1>1, <2>3
  <2>5. IInv'
    BY <2>1, ResSteps
  <2>6. D!IInv'
    BY <2>2, DatasetStill
  <2>7. C!IInv'
    BY <1>1, <2>2, <2>4, CurriculumStill DEF C!Mine
  <2>8. Y!IInv'
    BY <2>1, IdNext
  <2> QED BY <1>2, <2>5, <2>6, <2>7, <2>8
<1> QED BY <1>3, <1>4, <1>5, <1>6, <1>7

Kept == IInv /\ D!IInv /\ C!IInv /\ P!IInv /\ Y!IInv

Assumed == ResourceAssumption /\ ServerAssumption

LEMMA SceneKeeps == Assumed /\ Scene => [](Kept /\ Assumed)
<1> DEFINE Steps == \/ ResourceStep \/ DatasetStep \/ CurriculumStep
                    \/ PageStep \/ IdentityStep
<1>1. Assumed /\ SceneInit => Kept
  BY SceneBegins DEF Kept, Assumed
<1>2. Kept /\ Assumed /\ [Steps]_all => (Kept /\ Assumed)'
  <2>1. Assumed => Assumed'
    BY DEF Assumed, ResourceAssumption, ServerAssumption, C!CurriculumAssumption, P!PagingAssumption
  <2>2. Kept /\ Assumed /\ [Steps]_all => Kept'
    BY SceneStep DEF Kept, Assumed
  <2> QED BY <2>1, <2>2
<1> QED BY <1>1, <1>2, PTL DEF Scene

(* The row of every resource, object, request and event is in its range.   *)
THEOREM ServerTypes == ResourceAssumption /\ ServerAssumption /\ Scene => []TypeOK
<1>1. Kept /\ Assumed => TypeOK
  BY ResPromises DEF Kept, Assumed
<1> QED BY <1>1, SceneKeeps, PTL DEF Assumed

(* A key creates one resource, whatever is repeated or overlaps.           *)
THEOREM ServerCreatedOnce == ResourceAssumption /\ ServerAssumption /\ Scene => []CreatedOnce
<1>1. Kept /\ Assumed => CreatedOnce
  BY ResPromises DEF Kept, Assumed
<1> QED BY <1>1, SceneKeeps, PTL DEF Assumed

(* Who follows the events misses none and gets them in order.              *)
THEOREM ServerEventsInOrder == ResourceAssumption /\ ServerAssumption /\ Scene => []EventsInOrder
<1>1. Kept /\ Assumed => EventsInOrder
  BY ResPromises DEF Kept, Assumed
<1> QED BY <1>1, SceneKeeps, PTL DEF Assumed

(* A released item was verified by two persons, a published curriculum gets*)
(* only what an earlier import still stores, and a finished import is whole*)
THEOREM ServerReviewed == ResourceAssumption /\ ServerAssumption /\ Scene => []ContentReviewed
<1>1. Kept => ContentReviewed
  BY DEF Kept, ContentReviewed, D!IInv, C!IInv
<1> QED BY <1>1, SceneKeeps, PTL DEF Assumed

(* Who follows the cursors gets every row that was left alone once.        *)
THEOREM ServerPages == ResourceAssumption /\ ServerAssumption /\ Scene => []StableListedOnce
<1>1. Kept => StableListedOnce
  BY PageListed DEF Kept, StableListedOnce
<1> QED BY <1>1, SceneKeeps, PTL DEF Assumed

LEMMA SceneSteps ==
  Scene => [][\/ ResourceStep \/ DatasetStep \/ CurriculumStep
              \/ PageStep \/ IdentityStep]_all
BY PTL DEF Scene

(* An edit that was answered is not lost to another: the next one keeps it *)
(* unless the requests met or retention took the row.                      *)
THEOREM ServerEditsKept == ResourceAssumption /\ ServerAssumption /\ Scene => EditsKept
<1> DEFINE Steps == \/ ResourceStep \/ DatasetStep \/ CurriculumStep
                    \/ PageStep \/ IdentityStep
           Keeps == \A r \in Resources \ disturbed :
                      row[r] # Absent /\ row'[r] # Absent =>
                        row[r].payload \ {Hold} \subseteq row'[r].payload
<1>1. Kept /\ Assumed /\ [Steps]_all => [Keeps]_vars
  <2> SUFFICES ASSUME Kept, Assumed, [Steps]_all PROVE Keeps \/ UNCHANGED vars
    OBVIOUS
  <2>1. CASE ResourceStep
    <3>1. Next /\ IInv /\ ResourceAssumption
      BY <2>1 DEF ResourceStep, Kept, Assumed
    <3> QED BY <3>1, ResKept
  <2>2. CASE ~ResourceStep
    BY <2>2 DEF DatasetStep, CurriculumStep, PageStep, IdentityStep, all
  <2> QED BY <2>1, <2>2
<1> QED BY <1>1, SceneKeeps, PTL DEF EditsKept, Scene, Assumed

(* What is published keeps its payload, a status moves as its table says,  *)
(* and only retention removes a row, a terminal one without a hold.        *)
THEOREM ServerRecordsKept == ResourceAssumption /\ ServerAssumption /\ Scene => RecordsKept
<1> DEFINE Steps == \/ ResourceStep \/ DatasetStep \/ CurriculumStep
                    \/ PageStep \/ IdentityStep
           Keeps == \A r \in Resources \ disturbed : row[r] # Absent /\ row'[r] # row[r] =>
                      \/ row'[r] = Absent /\ Deletable(row[r])
                      \/ /\ ~Editable(r) => row'[r].payload = row[r].payload
                         /\ row[r].immutable => row'[r].immutable
                         /\ row'[r].status \in {row[r].status}
                               \cup AllowedTransitions(row[r].type, row[r].status)
<1>1. Kept /\ Assumed /\ [Steps]_all => [Keeps]_vars
  <2> SUFFICES ASSUME Kept, Assumed, [Steps]_all PROVE Keeps \/ UNCHANGED vars
    OBVIOUS
  <2>1. CASE ResourceStep
    <3>1. Next /\ IInv /\ ResourceAssumption
      BY <2>1 DEF ResourceStep, Kept, Assumed
    <3> QED BY <3>1, ResKept
  <2>2. CASE ~ResourceStep
    BY <2>2 DEF DatasetStep, CurriculumStep, PageStep, IdentityStep, all
  <2> QED BY <2>1, <2>2
<1> QED BY <1>1, SceneKeeps, PTL DEF RecordsKept, Scene, Assumed

(* Of two uses of a launch state both were under way at once, a learner has*)
(* one identity, and a revoked client never comes back.                    *)
THEOREM ServerAccessSound == ResourceAssumption /\ ServerAssumption /\ Scene => AccessSound
<1> DEFINE Steps == \/ ResourceStep \/ DatasetStep \/ CurriculumStep
                    \/ PageStep \/ IdentityStep
           Stays == ~client.active => ~client'.active /\ client'.secret \in secrets'
<1>1. Kept /\ Kept' /\ [Steps]_all => [Stays]_(Y!vars)
  <2> SUFFICES ASSUME Kept, Kept', [Steps]_all PROVE Stays \/ UNCHANGED Y!vars
    OBVIOUS
  <2>1. CASE IdentityStep
    BY <2>1, IdRevoked DEF IdentityStep, Kept
  <2>2. CASE ~IdentityStep
    <3>1. UNCHANGED identity
      BY <2>2 DEF ResourceStep, DatasetStep, CurriculumStep, PageStep, all
    <3>2. UNCHANGED client /\ UNCHANGED secrets
      BY <3>1 DEF identity
    <3> QED BY <3>2 DEF Kept, Y!IInv
  <2> QED BY <2>1, <2>2
<1>2. Kept' => [Y!UsedOnce']_all
  BY DEF Kept, Y!IInv
<1> HIDE DEF Steps, Stays
<1>3. Assumed /\ Scene => [][Steps]_all
  BY PTL DEF Scene, Steps
<1>4. Assumed /\ Scene => [][Stays]_(Y!vars)
  BY <1>1, <1>3, SceneKeeps, PTL
<1>5. Assumed /\ Scene => [][Y!UsedOnce']_all
  BY <1>2, SceneKeeps, PTL
<1> QED BY <1>4, <1>5, Zenon DEF AccessSound, Y!RevokedStays, Stays, Assumed
=============================================================================
