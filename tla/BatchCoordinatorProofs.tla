------------------------ MODULE BatchCoordinatorProofs ------------------------
(***************************************************************************)
(* What the batch coordinator keeps for every set of batches and items.    *)
(*                                                                         *)
(* OneItemProcessing alone is not inductive: it takes that nothing but the *)
(* awaited item can say processing in a process that runs (AwaitedOnly).   *)
(* That a running item has its source takes that the source of a submitted *)
(* item is there when the item is marked (SourceHeld), which holds because *)
(* no request runs between these two commits.                              *)
(*                                                                         *)
(* Every action but MarkProcessing only takes items out of processing, and *)
(* all but two keep the source of every item that is still needed: Calm    *)
(* names what such a step leaves alone, and CalmStep does the rest.        *)
(*                                                                         *)
(* TypeOK is inductive only with what a coordinator at work holds          *)
(* (Holding); that a line has each item once (LinesWhole) only with both,  *)
(* because a patch of a row that never existed would add an item.          *)
(***************************************************************************)
EXTENDS BatchCoordinator, FunctionTheorems, FiniteSetTheorems, SequenceTheorems, TLAPS

USE DEF ItemStatus, BatchStatus

(* What the items and their sources need.                                  *)
Core ==
  /\ item \in [Item -> ItemStatus] /\ batch \in [Batch -> BatchStatus]
  /\ mode = "down" => coord = "off"
  /\ OneItemProcessing /\ NoStraySource /\ AwaitedOnly /\ SourceHeld

(* No item begins to process, none loses its source but with its own       *)
(* status, and the coordinator stays with the item it awaits.              *)
Calm ==
  /\ item' \in [Item -> ItemStatus] /\ batch' \in [Batch -> BatchStatus]
  /\ mode' = "down" => coord' = "off"
  /\ \A i \in Item : item'[i] = "processing" =>
       /\ item[i] = "processing"
       /\ i \in src => i \in src'
       /\ mode' # "down" => mode # "down" /\ cur' = cur /\ coord' = coord
  /\ \A i \in Item : item'[i] \in {"none", "gone"} =>
       i \notin src' \/ (item[i] = item'[i] /\ src' \subseteq src)
  /\ coord' = "submitted" => cur' \in src'

(* A running item does not lose its source unless it is completed, or      *)
(* cancelled, or deleted.                                                  *)
Keeps ==
  \A i \in Item : item[i] = "processing" =>
    /\ i \in src
    /\ item'[i] \in {"processing", "interrupted", "queued", "failed"} => i \in src'

LEMMA CalmStep ==
  ASSUME Core, Calm
  PROVE  Core'
<1>1. OneItemProcessing'
  BY DEF Core, Calm, OneItemProcessing, AwaitedOnly
<1>2. NoStraySource'
  BY DEF Core, Calm, NoStraySource
<1>3. AwaitedOnly'
  BY DEF Core, Calm, AwaitedOnly
<1>4. SourceHeld'
  BY DEF Core, Calm, SourceHeld
<1> QED BY <1>1, <1>2, <1>3, <1>4 DEF Core, Calm

LEMMA ClosedType ==
  ASSUME Core
  PROVE  Closed(First) \in [Batch -> BatchStatus]
BY DEF Core, Closed

(* The coordinator's and the queue's steps.                                *)
LEMMA MarkProcessingStep ==
  ASSUME Core, MarkProcessing
  PROVE  Core' /\ Keeps
<1>1. coord = "submitted" /\ cur \in src /\ src' = src /\ mode' = mode /\ mode # "down"
      /\ batch' = batch
  BY DEF MarkProcessing, Core, SourceHeld
<1>2. \A i \in Item : item[i] # "processing"
  BY <1>1 DEF Core, AwaitedOnly
<1>3. CASE PatchItem(cur, "processing", FALSE) /\ coord' = "waiting" /\ cur' = cur
  <2>1. /\ item' \in [Item -> ItemStatus]
        /\ \A i \in Item : item'[i] = "processing" => i = cur
        /\ \A i \in Item : item'[i] \in {"none", "gone"} => item'[i] = item[i]
    BY <1>2, <1>3 DEF Core, PatchItem
  <2>2. OneItemProcessing' /\ AwaitedOnly'
    BY <1>3, <2>1 DEF OneItemProcessing, AwaitedOnly
  <2>3. NoStraySource' /\ SourceHeld'
    BY <1>1, <1>3, <2>1 DEF Core, NoStraySource, SourceHeld
  <2> QED BY <1>1, <1>2, <2>1, <2>2, <2>3 DEF Core, Keeps
<1>4. CASE PatchItem(cur, "failed", TRUE) /\ Rest
  <2>1. Calm /\ Keeps
    BY <1>1, <1>2, <1>4 DEF Core, PatchItem, Rest, Calm, Keeps, NoStraySource
  <2> QED BY <2>1, CalmStep
<1> QED BY <1>3, <1>4 DEF MarkProcessing

LEMMA CoordinatorStep ==
  ASSUME Core, Coordinator
  PROVE  Core' /\ Keeps
<1> USE DEF Core, Calm, Keeps, SourceHeld, AwaitedOnly, NoStraySource, tables, job
<1>1. CASE Pick
  BY <1>1, CalmStep, ClosedType DEF Pick
<1>2. CASE CloseBatches
  BY <1>2, CalmStep, ClosedType DEF CloseBatches
<1>3. CASE Refuse
  BY <1>3, CalmStep DEF Refuse, PatchItem, Rest
<1>4. CASE QueueFull
  BY <1>4, CalmStep DEF QueueFull, PatchItem
<1>5. CASE SleepEnds
  BY <1>5, CalmStep DEF SleepEnds, Rest
<1>6. CASE Submit
  BY <1>6, CalmStep DEF Submit
<1>7. CASE MarkProcessing
  BY <1>7, MarkProcessingStep
<1>8. CASE Record
  <2>1. PICK st \in ItemStatus \ {"none", "gone", "processing"}, pending \in BOOLEAN,
             next \in {"recorded", "idle"} : RecordAs(st, pending, next)
    BY <1>8 DEF Record
  <2>2. /\ coord = "waiting" /\ mode' = mode /\ batch' = batch /\ src' = src
        /\ item' = [item EXCEPT ![cur] = st] /\ coord' = next
    BY <1>8, <2>1 DEF Record, RecordAs, PatchItem
  <2> QED BY <2>1, <2>2, CalmStep
<1>9. CASE Unlink
  BY <1>9, CalmStep DEF Unlink, Rest
<1>10. CASE Die
  BY <1>10, CalmStep DEF Die
<1> QED BY <1>1, <1>2, <1>3, <1>4, <1>5, <1>6, <1>7, <1>8, <1>9, <1>10 DEF Coordinator

LEMMA QueueStepStep ==
  ASSUME Core, QueueStep
  PROVE  Core' /\ Keeps
BY CalmStep DEF QueueStep, Core, Calm, Keeps, SourceHeld, tables

(* The requests: they run while the coordinator awaits.                    *)
LEMMA RequestsStep ==
  ASSUME Core, Requests
  PROVE  Core' /\ Keeps
<1> USE DEF Core, Calm, Keeps, SourceHeld, Serving, In
<1>1. ASSUME NEW b \in Batch, Create(b)
      PROVE  Calm /\ Keeps
  <2> DEFINE new == {i \in Item : BatchOf[i] = b}
  <2>1. /\ item' = [i \in Item |-> IF i \in new THEN "queued" ELSE item[i]]
        /\ src' = src \cup new /\ mode' = mode /\ coord' = coord /\ cur' = cur
        /\ coord # "submitted"
    BY <1>1 DEF Create
  <2>2. batch' \in [Batch -> BatchStatus]
    BY <1>1 DEF Create
  <2> HIDE DEF new
  <2> QED BY <2>1, <2>2 DEF NoStraySource
<1>2. ASSUME NEW b \in Batch, CancelBatch(b)
      PROVE  Calm /\ Keeps
  BY <1>2 DEF CancelBatch
<1>3. ASSUME NEW b \in Batch, DeleteBatch(b)
      PROVE  Calm /\ Keeps
  BY <1>3 DEF DeleteBatch
<1>4. ASSUME NEW b \in Batch, Move(b)
      PROVE  Calm /\ Keeps
  BY <1>4 DEF Move
<1>5. ASSUME NEW b \in Batch, NEW st \in {"queued", "paused"}, SetBatch(b, st)
      PROVE  Calm /\ Keeps
  BY <1>5 DEF SetBatch
<1>6. ASSUME NEW i \in Item, Retry(i)
      PROVE  Calm /\ Keeps
  BY <1>6 DEF Retry, PatchItem
<1>7. ASSUME NEW i \in Item, CancelItem(i)
      PROVE  Calm /\ Keeps
  BY <1>7 DEF CancelItem, PatchItem
<1>8. ASSUME NEW i \in Item, ProcessNext(i)
      PROVE  Calm /\ Keeps
  BY <1>8 DEF ProcessNext
<1>9. ASSUME NEW i \in Item, DeleteItem(i)
      PROVE  Calm /\ Keeps
  BY <1>9 DEF DeleteItem
<1> HIDE DEF Core, Calm, Keeps
<1> QED BY <1>1, <1>2, <1>3, <1>4, <1>5, <1>6, <1>7, <1>8, <1>9, CalmStep DEF Requests

(* Start and stop of the service.                                          *)
LEMMA LifeStep ==
  ASSUME Core, BeginStop \/ Stop \/ Crash \/ Start
  PROVE  Core' /\ Keeps
<1> USE DEF Core, Calm, Keeps, SourceHeld, NoStraySource, AwaitedOnly, tables, job
<1>1. CASE BeginStop
  BY <1>1, CalmStep DEF BeginStop
<1>2. CASE StopWaiting
  <2>1. \A i \in Item : i # cur => item'[i] = item[i] /\ (i \in src' <=> i \in src)
    BY <1>2 DEF StopWaiting, PatchItem
  <2>2. /\ item' \in [Item -> ItemStatus] /\ src' \subseteq src
        /\ cur \in Item => item'[cur] \in {"gone", "completed", "cancelled", "failed", "interrupted"}
        /\ cur \in Item /\ item'[cur] = "gone" => item[cur] = "gone"
        /\ item'[cur] \notin {"completed", "cancelled"} => src' = src
    BY <1>2 DEF StopWaiting, PatchItem
  <2>3. mode' = mode /\ coord' = "off" /\ mode # "down" /\ batch' = batch
    BY <1>2 DEF StopWaiting
  <2>4. Calm /\ Keeps
    BY <2>1, <2>2, <2>3
  <2> QED BY <2>4, CalmStep
<1>3. CASE StopIdle
  BY <1>3, CalmStep DEF StopIdle
<1>4. CASE Exit \/ Crash
  BY <1>4, CalmStep DEF Exit, Crash, ProcessEnds
<1>5. CASE Start
  BY <1>5, CalmStep DEF Start
<1> QED BY <1>1, <1>2, <1>3, <1>4, <1>5 DEF Stop

LEMMA StepInv ==
  ASSUME Core, [Next]_vars
  PROVE  Core' /\ Keeps
<1>1. CASE UNCHANGED vars
  BY <1>1, CalmStep DEF vars, tables, Core, Calm, Keeps, SourceHeld
<1> QED BY <1>1, CoordinatorStep, QueueStepStep, RequestsStep, LifeStep DEF Next

LEMMA CoreHolds == IInv => Core
BY DEF IInv, Core, TypeOK

-----------------------------------------------------------------------------
(* The lines.                                                              *)

(* Where no row appears or goes and no position changes, nothing is due.   *)
LEMMA LinesRest ==
  ASSUME LinesWhole, line' = line,
         \A i \in Item : item'[i] \in {"none", "gone"} <=> item[i] \in {"none", "gone"}
  PROVE  LinesWhole'
<1>1. \A b \in Batch : In(b)' = In(b)
  BY DEF In
<1> QED BY <1>1 DEF LinesWhole

(* An order of all items of a set lists each of them.                      *)
LEMMA OrderProperties ==
  ASSUME NEW new \in SUBSET Item, IsFiniteSet(Item), NEW order \in SetToSeqs(new)
  PROVE  /\ order \in Seq(Item) /\ Range(order) = new
         /\ \A m, n \in DOMAIN order : order[m] = order[n] => m = n
<1>1. IsFiniteSet(new) /\ Cardinality(new) \in Nat
  BY FS_Subset, FS_CardinalityType
<1> DEFINE D == 1 .. Cardinality(new)
<1>2. order \in [D -> new] /\ \A m, n \in D : order[m] = order[n] => m = n
  BY DEF SetToSeqs
<1>3. IsFiniteSet(D) /\ Cardinality(D) = Cardinality(new)
  BY <1>1, FS_Interval
<1>4. order \in Injection(D, new)
  BY <1>2, Fun_IsInj
<1>5. order \in Surjection(D, new)
  BY <1>1, <1>3, <1>4, FS_Injection
<1>6. Range(order) = new
  BY <1>5, Fun_SurjectionProperties
<1>7. order \in Seq(Item)
  <2>1. order \in [D -> Item]
    BY <1>2
  <2>2. [D -> Item] \in {[1 .. n -> Item] : n \in Nat}
    BY <1>1
  <2>3. order \in UNION {[1 .. n -> Item] : n \in Nat}
    BY <2>1, <2>2, Zenon
  <2> QED BY <2>3, SeqDef, Zenon
<1> QED BY <1>2, <1>6, <1>7

(* What is left of a sequence without one of its positions.                *)
LEMMA RemoveAtProperties ==
  ASSUME NEW s \in Seq(Item), NEW k \in DOMAIN s
  PROVE  /\ RemoveAt(s, k) \in Seq(Item) /\ Len(RemoveAt(s, k)) = Len(s) - 1
         /\ \A n \in 1 .. Len(s) - 1 : RemoveAt(s, k)[n] = IF n < k THEN s[n] ELSE s[n + 1]
<1> DEFINE front == SubSeq(s, 1, k - 1)
           back == SubSeq(s, k + 1, Len(s))
<1>1. Len(s) \in Nat /\ k \in 1 .. Len(s) /\ \A n \in 1 .. Len(s) : s[n] \in Item
  BY LenProperties, ElementOfSeq
<1>2. /\ front \in Seq(Item) /\ Len(front) = k - 1
      /\ \A n \in 1 .. k - 1 : front[n] = s[n]
  <2>1. \A n \in 1 .. k - 1 : s[n] \in Item
    BY <1>1
  <2> QED BY <1>1, <2>1, SubSeqProperties
<1>3. /\ back \in Seq(Item) /\ Len(back) = Len(s) - k
      /\ \A n \in 1 .. Len(s) - k : back[n] = s[n + k]
  <2>1. \A n \in k + 1 .. Len(s) : s[n] \in Item
    BY <1>1
  <2>2. /\ back \in Seq(Item)
        /\ Len(back) = IF k + 1 <= Len(s) THEN Len(s) - (k + 1) + 1 ELSE 0
        /\ \A n \in 1 .. Len(s) - (k + 1) + 1 : back[n] = s[k + 1 + n - 1]
    BY <1>1, <2>1, SubSeqProperties
  <2> HIDE DEF back
  <2> QED BY <1>1, <2>2
<1>4. RemoveAt(s, k) = front \o back
  BY DEF RemoveAt
<1> HIDE DEF front, back
<1>5. /\ front \o back \in Seq(Item) /\ Len(front \o back) = Len(front) + Len(back)
      /\ \A n \in 1 .. Len(front) + Len(back) : (front \o back)[n] =
           IF n <= Len(front) THEN front[n] ELSE back[n - Len(front)]
  BY <1>2, <1>3, ConcatProperties
<1>6. Len(front \o back) = Len(s) - 1
  BY <1>1, <1>2, <1>3, <1>5
<1>7. ASSUME NEW n \in 1 .. Len(s) - 1
      PROVE  (front \o back)[n] = IF n < k THEN s[n] ELSE s[n + 1]
  <2>1. (front \o back)[n] = IF n <= k - 1 THEN front[n] ELSE back[n - (k - 1)]
    <3>1. n \in 1 .. Len(front) + Len(back) /\ Len(front) = k - 1
      BY <1>1, <1>2, <1>3
    <3>2. (front \o back)[n] = IF n <= Len(front) THEN front[n] ELSE back[n - Len(front)]
      BY <1>5, <3>1, Zenon
    <3> QED BY <3>1, <3>2, Zenon
  <2>2. CASE n < k
    BY <1>1, <1>2, <2>1, <2>2
  <2>3. CASE ~(n < k)
    <3>1. n - (k - 1) \in 1 .. Len(s) - k /\ n - (k - 1) + k = n + 1
      BY <1>1, <2>3
    <3> QED BY <1>1, <1>3, <2>1, <2>3, <3>1
  <2> QED BY <2>2, <2>3
<1> QED BY <1>4, <1>5, <1>6, <1>7

(* An item of the batch has a place in its line, and one only.             *)
LEMMA PlaceProperties ==
  ASSUME BatchAssumption, TypeOK, LinesWhole, NEW i \in Item, item[i] \notin {"none", "gone"}
  PROVE  /\ BatchOf[i] \in Batch /\ line[BatchOf[i]] \in Seq(Item)
         /\ Place(i) \in DOMAIN line[BatchOf[i]] /\ line[BatchOf[i]][Place(i)] = i
<1>1. BatchOf[i] \in Batch /\ line[BatchOf[i]] \in Seq(Item)
  BY DEF BatchAssumption, TypeOK
<1>2. i \in Range(line[BatchOf[i]])
  BY <1>1 DEF LinesWhole, In
<1>3. \E n \in DOMAIN line[BatchOf[i]] : line[BatchOf[i]][n] = i
  BY <1>2 DEF Range
<1> QED BY <1>1, <1>3 DEF Place

LEMMA WithoutProperties ==
  ASSUME NEW s \in Seq(Item), NEW k \in DOMAIN s,
         \A m, n \in DOMAIN s : s[m] = s[n] => m = n, NEW i, s[k] = i
  PROVE  /\ RemoveAt(s, k) \in Seq(Item) /\ Range(RemoveAt(s, k)) = Range(s) \ {i}
         /\ \A m, n \in DOMAIN RemoveAt(s, k) :
              RemoveAt(s, k)[m] = RemoveAt(s, k)[n] => m = n
<1> DEFINE r == RemoveAt(s, k)
<1>1. /\ Len(s) \in Nat /\ DOMAIN s = 1 .. Len(s) /\ DOMAIN r = 1 .. Len(s) - 1
      /\ k \in 1 .. Len(s)
      /\ \A n \in 1 .. Len(s) - 1 : r[n] = IF n < k THEN s[n] ELSE s[n + 1]
  BY RemoveAtProperties, LenProperties
<1> HIDE DEF r
<1>2. \A m, n \in DOMAIN r : r[m] = r[n] => m = n
  <2> SUFFICES ASSUME NEW m \in DOMAIN r, NEW n \in DOMAIN r, r[m] = r[n]
               PROVE  m = n
    OBVIOUS
  <2> DEFINE at(x) == IF x < k THEN x ELSE x + 1
  <2>1. at(m) \in DOMAIN s /\ at(n) \in DOMAIN s /\ s[at(m)] = s[at(n)]
    BY <1>1
  <2>2. at(m) = at(n)
    BY <2>1
  <2> QED BY <1>1, <2>2
<1>3. ASSUME NEW x \in Range(r)
      PROVE  x \in Range(s) /\ x # s[k]
  <2>1. PICK n \in 1 .. Len(s) - 1 : x = IF n < k THEN s[n] ELSE s[n + 1]
    BY <1>1, <1>3 DEF Range
  <2>2. n \in DOMAIN s /\ n + 1 \in DOMAIN s
    BY <1>1
  <2>3. CASE n < k
    BY <1>1, <2>1, <2>2, <2>3 DEF Range
  <2>4. CASE ~(n < k)
    BY <1>1, <2>1, <2>2, <2>4 DEF Range
  <2> QED BY <2>3, <2>4
<1>4. ASSUME NEW n \in DOMAIN s, n # k
      PROVE  s[n] \in Range(r)
  <2>1. CASE n < k
    BY <1>1, <2>1 DEF Range
  <2>2. CASE n > k
    <3>1. n - 1 \in DOMAIN r /\ r[n - 1] = s[n]
      BY <1>1, <2>2
    <3> QED BY <3>1 DEF Range
  <2> QED BY <1>1, <1>4, <2>1, <2>2
<1>5. Range(r) = Range(s) \ {s[k]}
  BY <1>3, <1>4 DEF Range
<1> QED BY <1>2, <1>5, RemoveAtProperties DEF r

(* The line of one batch changes and nothing of the others.                *)
LEMMA OneLine ==
  ASSUME TypeOK, LinesWhole, NEW b \in Batch, NEW s, line' = [line EXCEPT ![b] = s],
         \A i \in Item : BatchOf[i] # b => item'[i] = item[i],
         Range(s) = {i \in Item : BatchOf[i] = b /\ item'[i] \notin {"none", "gone"}},
         \A m, n \in DOMAIN s : s[m] = s[n] => m = n
  PROVE  LinesWhole'
<1>1. line'[b] = s /\ \A c \in Batch : c # b => line'[c] = line[c]
  BY DEF TypeOK
<1>2. \A c \in Batch : c # b => In(c)' = In(c)
  BY DEF In
<1>3. In(b)' = Range(s)
  BY DEF In
<1> QED BY <1>1, <1>2, <1>3 DEF LinesWhole
-----------------------------------------------------------------------------
(* Types, what the coordinator holds, and the lines, step by step.         *)
Shape == TypeOK /\ Holding /\ LinesWhole

(* What the contract of the awaited job does to its variables.             *)
JobTyped ==
  /\ state \in [{Awaited} -> {"none", "active", "withdrawn"} \cup Queue!Ended]
  /\ asked \subseteq {Awaited} /\ done \subseteq {Awaited}

LEMMA ForgetTyped ==
  ASSUME Queue!Forget
  PROVE  JobTyped'
BY DEF Queue!Forget, JobTyped

LEMMA CancelTyped ==
  ASSUME JobTyped, NEW i, CancelJob(i)
  PROVE  JobTyped'
<1>1. CASE UNCHANGED job
  BY <1>1 DEF job, JobTyped
<1>2. CASE AskQueue
  BY <1>2 DEF AskQueue, Queue!Ask, JobTyped
<1> QED BY <1>1, <1>2 DEF CancelJob

LEMMA QueueTyped ==
  ASSUME JobTyped, QueueStep
  PROVE  JobTyped'
<1> USE DEF JobTyped, Queue!Ended
<1>1. ASSUME NEW outcome \in Queue!Ended, Queue!End(Awaited, outcome)
      PROVE  JobTyped'
  BY <1>1 DEF Queue!End
<1>2. CASE Queue!Revive(Awaited)
  BY <1>2 DEF Queue!Revive
<1>3. CASE Queue!Drop({Awaited})
  BY <1>3 DEF Queue!Drop
<1>4. CASE Queue!Resolve(Awaited)
  BY <1>4 DEF Queue!Resolve
<1> QED BY <1>1, <1>2, <1>3, <1>4 DEF QueueStep

(* A patch of a row that exists: its status changes and nothing appears.   *)
LEMMA PatchShape ==
  ASSUME TypeOK, LinesWhole, NEW i \in Item, item[i] # "none",
         NEW st \in ItemStatus \ {"none", "gone"}, NEW pending \in BOOLEAN,
         PatchItem(i, st, pending)
  PROVE  /\ item' \in [Item -> ItemStatus] /\ retry' \subseteq Item
         /\ \A k \in Item : item'[k] \in {"none", "gone"} <=> item[k] \in {"none", "gone"}
         /\ \A k \in Item : item'[k] = "none" <=> item[k] = "none"
         /\ line' = line => LinesWhole'
<1>1. /\ item' \in [Item -> ItemStatus] /\ retry' \subseteq Item
      /\ \A k \in Item : item'[k] \in {"none", "gone"} <=> item[k] \in {"none", "gone"}
      /\ \A k \in Item : item'[k] = "none" <=> item[k] = "none"
  BY DEF TypeOK, PatchItem
<1> QED BY <1>1, LinesRest

LEMMA CoordinatorShape ==
  ASSUME IInv, Coordinator
  PROVE  Shape'
<1>1. TypeOK /\ Holding /\ LinesWhole /\ JobTyped
  BY DEF IInv, TypeOK, JobTyped
<1> USE DEF Shape, tables, job
<1>2. CASE Pick
  <2>1. PICK b \in First :
          /\ batch' = [Closed(First) EXCEPT ![b] = "processing"]
          /\ \E n \in Queued(b) : cur' = line[b][n]
    BY <1>2 DEF Pick
  <2>2. PICK n \in DOMAIN line[b] : cur' = line[b][n] /\ item[line[b][n]] = "queued"
    BY <2>1 DEF Queued
  <2>3. cur' \in Item
    <3>1. b \in Batch /\ line[b] \in Seq(Item)
      BY <1>1 DEF First, TypeOK
    <3> QED BY <2>2, <3>1
  <2>4. batch' \in [Batch -> BatchStatus]
    BY <2>1, ClosedType, CoreHolds
  <2>5. LinesWhole'
    BY <1>1, <1>2, LinesRest DEF Pick
  <2>6. Holding'
    BY <1>2, <2>2, <2>3 DEF Pick, Holding
  <2> QED BY <1>1, <1>2, <2>3, <2>4, <2>5, <2>6 DEF Pick, TypeOK, Places
<1>3. CASE CloseBatches
  <2>1. LinesWhole'
    BY <1>1, <1>3, LinesRest DEF CloseBatches
  <2>2. batch' \in [Batch -> BatchStatus]
    BY <1>3, ClosedType, CoreHolds DEF CloseBatches
  <2> QED BY <1>1, <1>3, <2>1, <2>2 DEF CloseBatches, TypeOK, Holding
<1>4. CASE Refuse
  <2>1. cur \in Item /\ item[cur] # "none"
    BY <1>1, <1>4 DEF Refuse, Holding
  <2> QED BY <1>1, <1>4, <2>1, PatchShape DEF Refuse, Rest, TypeOK, Holding, Places
<1>5. CASE QueueFull
  <2>1. cur \in Item /\ item[cur] # "none"
    BY <1>1, <1>5 DEF QueueFull, Holding
  <2> QED BY <1>1, <1>5, <2>1, PatchShape DEF QueueFull, TypeOK, Holding, Places
<1>6. CASE SleepEnds
  <2>1. LinesWhole'
    BY <1>1, <1>6, LinesRest DEF SleepEnds
  <2> QED BY <1>1, <1>6, <2>1 DEF SleepEnds, Rest, TypeOK, Holding, Places
<1>7. CASE Submit
  <2>1. LinesWhole'
    BY <1>1, <1>7, LinesRest DEF Submit
  <2>2. JobTyped'
    BY <1>1, <1>7 DEF Submit, Queue!Accept, JobTyped
  <2> QED BY <1>1, <1>7, <2>1, <2>2 DEF Submit, TypeOK, JobTyped, Holding, Places
<1>8. CASE MarkProcessing
  <2>1. cur \in Item /\ item[cur] # "none"
    BY <1>1, <1>8 DEF MarkProcessing, Holding
  <2>2. CASE PatchItem(cur, "processing", FALSE) /\ coord' = "waiting" /\ UNCHANGED <<cur, job>>
    BY <1>1, <1>8, <2>1, <2>2, PatchShape DEF MarkProcessing, TypeOK, Holding, Places
  <2>3. CASE PatchItem(cur, "failed", TRUE) /\ Rest /\ Queue!Forget
    <3>1. JobTyped'
      BY <2>3, ForgetTyped
    <3> QED BY <1>1, <1>8, <2>1, <2>3, <3>1, PatchShape
        DEF MarkProcessing, TypeOK, JobTyped, Holding, Places, Rest
  <2> QED BY <1>8, <2>2, <2>3 DEF MarkProcessing
<1>9. CASE Record
  <2>1. cur \in Item /\ item[cur] # "none"
    BY <1>1, <1>9 DEF Record, Holding
  <2>2. PICK st \in ItemStatus \ {"none", "gone", "processing"}, pending \in BOOLEAN,
             next \in {"recorded", "idle"} : RecordAs(st, pending, next)
    BY <1>9 DEF Record
  <2>3. JobTyped'
    BY <1>9, ForgetTyped DEF Record
  <2>4. /\ PatchItem(cur, st, pending) /\ coord' = next /\ mode' = mode
        /\ cur' \in {cur, NoItem} /\ (next = "recorded" => cur' = cur)
        /\ UNCHANGED <<batch, line, src, retries>>
    BY <1>9, <2>2 DEF Record, RecordAs
  <2> QED BY <1>1, <2>1, <2>3, <2>4, PatchShape DEF TypeOK, JobTyped, Holding, Places
<1>10. CASE Unlink
  <2>1. LinesWhole'
    BY <1>1, <1>10, LinesRest DEF Unlink
  <2> QED BY <1>1, <1>10, <2>1 DEF Unlink, Rest, TypeOK, Holding, Places
<1>11. CASE Die
  <2>1. LinesWhole'
    BY <1>1, <1>11, LinesRest DEF Die
  <2>2. JobTyped'
    BY <1>11, ForgetTyped DEF Die
  <2> QED BY <1>1, <1>11, <2>1, <2>2 DEF Die, TypeOK, JobTyped, Holding, Places
<1> QED BY <1>2, <1>3, <1>4, <1>5, <1>6, <1>7, <1>8, <1>9, <1>10, <1>11 DEF Coordinator

LEMMA QueueStepShape ==
  ASSUME IInv, QueueStep
  PROVE  Shape'
<1>1. TypeOK /\ Holding /\ LinesWhole /\ JobTyped
  BY DEF IInv, TypeOK, JobTyped
<1>2. JobTyped'
  BY <1>1, QueueTyped
<1>3. LinesWhole'
  BY <1>1, LinesRest DEF QueueStep, tables
<1> QED BY <1>1, <1>2, <1>3 DEF QueueStep, tables, TypeOK, JobTyped, Holding, Shape

LEMMA CreateShape ==
  ASSUME IInv, NEW b \in Batch, Create(b)
  PROVE  Shape'
<1>1. TypeOK /\ Holding /\ LinesWhole
  BY DEF IInv
<1> DEFINE new == {i \in Item : BatchOf[i] = b}
<1>2. /\ item' = [i \in Item |-> IF i \in new THEN "queued" ELSE item[i]]
      /\ src' = src \cup new /\ batch' = [batch EXCEPT ![b] = "queued"]
      /\ UNCHANGED <<mode, coord, cur, retry, retries, job>>
  BY DEF Create
<1>3. PICK order \in SetToSeqs(new) : line' = [line EXCEPT ![b] = order]
  BY DEF Create
<1>4. /\ order \in Seq(Item) /\ Range(order) = new
      /\ \A m, n \in DOMAIN order : order[m] = order[n] => m = n
  BY BatchAssumption, OrderProperties DEF BatchAssumption
<1>5. LinesWhole'
  <2>1. \A i \in Item : BatchOf[i] # b => item'[i] = item[i]
    BY <1>2
  <2>2. Range(order) = {i \in Item : BatchOf[i] = b /\ item'[i] \notin {"none", "gone"}}
    BY <1>2, <1>4
  <2> QED BY <1>1, <1>3, <1>4, <2>1, <2>2, OneLine
<1>6. item' \in [Item -> ItemStatus] /\ \A i \in Item : item'[i] = "none" => item[i] = "none"
  BY <1>1, <1>2 DEF TypeOK
<1>7. line' \in [Batch -> Seq(Item)] /\ src' \subseteq Item /\ batch' \in [Batch -> BatchStatus]
  BY <1>1, <1>2, <1>3, <1>4 DEF TypeOK
<1> QED BY <1>1, <1>2, <1>5, <1>6, <1>7 DEF TypeOK, Holding, Shape, job

LEMMA CancelBatchShape ==
  ASSUME IInv, NEW b \in Batch, CancelBatch(b)
  PROVE  Shape'
<1>1. TypeOK /\ Holding /\ LinesWhole /\ JobTyped
  BY DEF IInv, TypeOK, JobTyped
<1> DEFINE ends == {i \in In(b) : item[i] \in {"queued", "failed", "interrupted"}}
<1>2. /\ item' = [i \in Item |-> IF i \in ends THEN "cancelled" ELSE item[i]]
      /\ retry' = retry \ ends /\ src' = src \ ends
      /\ batch' = [batch EXCEPT ![b] = "cancelled"]
      /\ UNCHANGED <<mode, coord, cur, line, retries>>
      /\ CancelJob(cur) \/ UNCHANGED job
  BY DEF CancelBatch
<1>3. JobTyped'
  BY <1>1, <1>2, CancelTyped DEF job, JobTyped
<1>4. /\ item' \in [Item -> ItemStatus]
      /\ \A i \in Item : item'[i] \in {"none", "gone"} <=> item[i] \in {"none", "gone"}
      /\ \A i \in Item : item'[i] = "none" => item[i] = "none"
  BY <1>1, <1>2 DEF TypeOK, In
<1>5. LinesWhole'
  BY <1>1, <1>2, <1>4, LinesRest
<1> QED BY <1>1, <1>2, <1>3, <1>4, <1>5 DEF TypeOK, JobTyped, Holding, Shape

LEMMA DeleteBatchShape ==
  ASSUME IInv, NEW b \in Batch, DeleteBatch(b)
  PROVE  Shape'
<1>1. TypeOK /\ Holding /\ LinesWhole
  BY DEF IInv
<1>2. /\ item' = [i \in Item |-> IF i \in In(b) THEN "gone" ELSE item[i]]
      /\ retry' = retry \ In(b) /\ src' = src \ In(b) /\ line' = [line EXCEPT ![b] = <<>>]
      /\ batch' = [batch EXCEPT ![b] = "gone"]
      /\ UNCHANGED <<mode, coord, cur, retries, job>>
  BY DEF DeleteBatch
<1>3. item' \in [Item -> ItemStatus] /\ \A i \in Item : item'[i] = "none" => item[i] = "none"
  BY <1>1, <1>2 DEF TypeOK
<1>4. LinesWhole'
  <2>1. \A i \in Item : BatchOf[i] # b => item'[i] = item[i]
    BY <1>2 DEF In
  <2>2. Range(<<>>) = {i \in Item : BatchOf[i] = b /\ item'[i] \notin {"none", "gone"}}
    BY <1>2 DEF In, Range
  <2>3. \A m, n \in DOMAIN <<>> : <<>>[m] = <<>>[n] => m = n
    OBVIOUS
  <2>4. line' = [line EXCEPT ![b] = <<>>]
    BY <1>2
  <2> QED BY <1>1, <2>1, <2>2, <2>3, <2>4, OneLine
<1>5. line' \in [Batch -> Seq(Item)] /\ batch' \in [Batch -> BatchStatus]
  BY <1>1, <1>2 DEF TypeOK
<1> QED BY <1>1, <1>2, <1>3, <1>4, <1>5 DEF TypeOK, Holding, Shape, job

(* Two neighbours change places.                                           *)
LEMMA MoveShape ==
  ASSUME IInv, NEW b \in Batch, Move(b)
  PROVE  Shape'
<1>1. TypeOK /\ Holding /\ LinesWhole
  BY DEF IInv
<1> DEFINE s == line[b]
<1>2. PICK n \in 1 .. Len(s) - 1 :
        line' = [line EXCEPT ![b] = [s EXCEPT ![n] = s[n + 1], ![n + 1] = s[n]]]
  BY DEF Move
<1> DEFINE t == [s EXCEPT ![n] = s[n + 1], ![n + 1] = s[n]]
<1>3. s \in Seq(Item) /\ Len(s) \in Nat /\ DOMAIN s = 1 .. Len(s)
      /\ n \in DOMAIN s /\ n + 1 \in DOMAIN s /\ n # n + 1
  BY <1>1 DEF TypeOK
<1>4. /\ t \in Seq(Item) /\ DOMAIN t = DOMAIN s /\ t[n] = s[n + 1] /\ t[n + 1] = s[n]
      /\ \A m \in DOMAIN s : m \notin {n, n + 1} => t[m] = s[m]
  BY <1>3
<1>5. \A k, m \in DOMAIN s : s[k] = s[m] => k = m
  BY <1>1 DEF LinesWhole
<1> HIDE DEF s, t
<1>6. \A k, m \in DOMAIN t : t[k] = t[m] => k = m
  BY <1>3, <1>4, <1>5
<1>7. Range(t) = Range(s)
  <2>1. \A m \in DOMAIN t : \E k \in DOMAIN s : t[m] = s[k]
    BY <1>3, <1>4
  <2>2. \A m \in DOMAIN s : \E k \in DOMAIN t : s[m] = t[k]
    BY <1>3, <1>4
  <2> QED BY <2>1, <2>2 DEF Range
<1>8. Range(s) = {i \in Item : BatchOf[i] = b /\ item[i] \notin {"none", "gone"}}
  BY <1>1 DEF LinesWhole, In, s
<1>9. item' = item /\ line' = [line EXCEPT ![b] = t]
  BY <1>2 DEF Move, s, t
<1>10. LinesWhole'
  <2>1. Range(t) = {i \in Item : BatchOf[i] = b /\ item'[i] \notin {"none", "gone"}}
    BY <1>7, <1>8, <1>9
  <2> QED BY <1>1, <1>6, <1>9, <2>1, OneLine
<1> QED BY <1>1, <1>4, <1>9, <1>10 DEF Move, TypeOK, Holding, Shape, job

LEMMA SetBatchShape ==
  ASSUME IInv, NEW b \in Batch, NEW st \in {"queued", "paused"}, SetBatch(b, st)
  PROVE  Shape'
<1>1. TypeOK /\ Holding /\ LinesWhole
  BY DEF IInv
<1>2. LinesWhole'
  BY <1>1, LinesRest DEF SetBatch
<1> QED BY <1>1, <1>2 DEF SetBatch, TypeOK, Holding, Shape, job

LEMMA RetryShape ==
  ASSUME IInv, NEW i \in Item, Retry(i)
  PROVE  Shape'
<1>1. TypeOK /\ Holding /\ LinesWhole
  BY DEF IInv
<1>2. retries' \in 0 .. MaxRetries
  BY <1>1, BatchAssumption DEF Retry, TypeOK, BatchAssumption
<1>3. /\ PatchItem(i, "queued", TRUE) /\ item[i] # "none"
      /\ batch' = [batch EXCEPT ![BatchOf[i]] = "queued"]
      /\ UNCHANGED <<mode, coord, cur, line, src, job>>
  BY DEF Retry
<1>4. batch' \in [Batch -> BatchStatus]
  BY <1>1, <1>3 DEF TypeOK
<1> QED BY <1>1, <1>2, <1>3, <1>4, PatchShape DEF TypeOK, Holding, Shape, job

LEMMA CancelItemShape ==
  ASSUME IInv, NEW i \in Item, CancelItem(i)
  PROVE  Shape'
<1>1. TypeOK /\ Holding /\ LinesWhole /\ JobTyped
  BY DEF IInv, TypeOK, JobTyped
<1>2. JobTyped'
  BY <1>1, CancelTyped DEF CancelItem
<1>3. /\ PatchItem(i, "cancelled", FALSE) /\ item[i] # "none" /\ src' = src \ {i}
      /\ UNCHANGED <<mode, coord, cur, batch, line, retries>>
  BY DEF CancelItem
<1> QED BY <1>1, <1>2, <1>3, PatchShape DEF TypeOK, JobTyped, Holding, Shape

LEMMA ProcessNextShape ==
  ASSUME IInv, NEW i \in Item, ProcessNext(i)
  PROVE  Shape'
<1>1. TypeOK /\ Holding /\ LinesWhole
  BY DEF IInv
<1> DEFINE b == BatchOf[i]
           s == line[b]
           r == RemoveAt(s, Place(i))
           t == <<i>> \o r
<1>2. b \in Batch /\ s \in Seq(Item) /\ Place(i) \in DOMAIN s /\ s[Place(i)] = i
  BY <1>1, BatchAssumption, PlaceProperties DEF ProcessNext
<1>3. /\ line' = [line EXCEPT ![b] = t] /\ batch' = [batch EXCEPT ![b] = "queued"]
      /\ UNCHANGED <<mode, coord, cur, item, retry, src, retries, job>>
  BY DEF ProcessNext
<1>4. \A k, m \in DOMAIN s : s[k] = s[m] => k = m
  BY <1>1, <1>2 DEF LinesWhole
<1>5. /\ r \in Seq(Item) /\ Range(r) = Range(s) \ {i}
      /\ \A k, m \in DOMAIN r : r[k] = r[m] => k = m
  BY <1>2, <1>4, WithoutProperties, Zenon
<1>6. Range(s) = {k \in Item : BatchOf[k] = b /\ item[k] \notin {"none", "gone"}}
  BY <1>1, <1>2 DEF LinesWhole, In
<1>7. i \in Range(s)
  BY <1>2 DEF Range
<1> HIDE DEF r, s
<1>8. /\ t \in Seq(Item) /\ DOMAIN t = 1 .. Len(r) + 1 /\ t[1] = i /\ Len(r) \in Nat
      /\ DOMAIN r = 1 .. Len(r)
      /\ \A m \in 2 .. Len(r) + 1 : m - 1 \in DOMAIN r /\ t[m] = r[m - 1]
  BY <1>5
<1> HIDE DEF t
<1>9. \A m \in DOMAIN r : r[m] \in Range(r)
  BY DEF Range
<1>10. \A k, m \in DOMAIN t : t[k] = t[m] => k = m
  <2>1. \A m \in DOMAIN t : m = 1 \/ m \in 2 .. Len(r) + 1
    BY <1>8
  <2>2. \A m \in 2 .. Len(r) + 1 : t[m] # i
    BY <1>5, <1>8, <1>9
  <2> SUFFICES ASSUME NEW k \in DOMAIN t, NEW m \in DOMAIN t, t[k] = t[m]
               PROVE  k = m
    OBVIOUS
  <2>3. CASE k = 1 \/ m = 1
    BY <1>8, <2>1, <2>2, <2>3
  <2>4. CASE k # 1 /\ m # 1
    <3>1. k \in 2 .. Len(r) + 1 /\ m \in 2 .. Len(r) + 1
      BY <2>1, <2>4
    <3>2. k - 1 \in DOMAIN r /\ m - 1 \in DOMAIN r /\ r[k - 1] = r[m - 1]
      BY <1>8, <3>1
    <3>3. k - 1 = m - 1
      BY <1>5, <3>2
    <3> QED BY <1>8, <3>1, <3>3
  <2> QED BY <2>3, <2>4
<1>11. Range(t) = Range(s)
  <2>1. \A m \in DOMAIN t : t[m] = i \/ t[m] \in Range(r)
    BY <1>8, <1>9
  <2>2. \A m \in DOMAIN r : m + 1 \in DOMAIN t /\ t[m + 1] = r[m]
    BY <1>8
  <2>3. 1 \in DOMAIN t
    BY <1>8
  <2>4. Range(r) \cup {i} = Range(t)
    BY <1>8, <2>1, <2>2, <2>3 DEF Range
  <2> QED BY <1>5, <1>7, <2>4
<1>12. LinesWhole'
  <2>1. item' = item
    BY <1>3
  <2>2. Range(t) = {k \in Item : BatchOf[k] = b /\ item'[k] \notin {"none", "gone"}}
    BY <1>6, <1>11, <2>1
  <2> QED BY <1>1, <1>2, <1>3, <1>10, <2>1, <2>2, OneLine
<1>13. line' \in [Batch -> Seq(Item)] /\ batch' \in [Batch -> BatchStatus]
  BY <1>1, <1>3, <1>8 DEF TypeOK
<1> QED BY <1>1, <1>3, <1>12, <1>13 DEF TypeOK, Holding, Shape, job

LEMMA DeleteItemShape ==
  ASSUME IInv, NEW i \in Item, DeleteItem(i)
  PROVE  Shape'
<1>1. TypeOK /\ Holding /\ LinesWhole
  BY DEF IInv
<1> DEFINE b == BatchOf[i]
           s == line[b]
           r == RemoveAt(s, Place(i))
<1>2. b \in Batch /\ s \in Seq(Item) /\ Place(i) \in DOMAIN s /\ s[Place(i)] = i
  BY <1>1, BatchAssumption, PlaceProperties DEF DeleteItem
<1>3. /\ line' = [line EXCEPT ![b] = r] /\ item' = [item EXCEPT ![i] = "gone"]
      /\ retry' = retry \ {i} /\ src' = src \ {i} /\ item[i] # "none"
      /\ UNCHANGED <<mode, coord, cur, batch, retries, job>>
  BY DEF DeleteItem
<1>4. \A k, m \in DOMAIN s : s[k] = s[m] => k = m
  BY <1>1, <1>2 DEF LinesWhole
<1>5. /\ r \in Seq(Item) /\ Range(r) = Range(s) \ {i}
      /\ \A k, m \in DOMAIN r : r[k] = r[m] => k = m
  BY <1>2, <1>4, WithoutProperties, Zenon
<1>6. Range(s) = {k \in Item : BatchOf[k] = b /\ item[k] \notin {"none", "gone"}}
  BY <1>1, <1>2 DEF LinesWhole, In
<1>7. /\ item' \in [Item -> ItemStatus] /\ item'[i] = "gone"
      /\ \A k \in Item : k # i => item'[k] = item[k]
  BY <1>1, <1>3 DEF TypeOK
<1> HIDE DEF r, s
<1>8. LinesWhole'
  <2>1. \A k \in Item : BatchOf[k] # b => item'[k] = item[k]
    BY <1>7
  <2>2. Range(r) = {k \in Item : BatchOf[k] = b /\ item'[k] \notin {"none", "gone"}}
    BY <1>5, <1>6, <1>7
  <2> QED BY <1>1, <1>2, <1>3, <1>5, <2>1, <2>2, OneLine
<1>9. line' \in [Batch -> Seq(Item)]
  BY <1>1, <1>3, <1>5 DEF TypeOK
<1> QED BY <1>1, <1>3, <1>7, <1>8, <1>9 DEF TypeOK, Holding, Shape, job

LEMMA LifeShape ==
  ASSUME IInv, BeginStop \/ Stop \/ Crash \/ Start
  PROVE  Shape'
<1>1. TypeOK /\ Holding /\ LinesWhole /\ JobTyped
  BY DEF IInv, TypeOK, JobTyped
<1> USE DEF Shape, tables, job
<1>2. CASE BeginStop
  <2>1. LinesWhole'
    BY <1>1, <1>2, LinesRest DEF BeginStop
  <2> QED BY <1>1, <1>2, <2>1 DEF BeginStop, TypeOK, Holding
<1>3. CASE StopWaiting
  <2>1. cur \in Item /\ item[cur] # "none"
    BY <1>1, <1>3 DEF StopWaiting, Holding
  <2>2. \/ UNCHANGED <<item, retry>>
        \/ \E st \in ItemStatus \ {"none", "gone"}, pending \in BOOLEAN :
             PatchItem(cur, st, pending)
    BY <1>3 DEF StopWaiting
  <2>3. item' \in [Item -> ItemStatus] /\ retry' \subseteq Item /\ LinesWhole'
    <3>1. line' = line
      BY <1>3 DEF StopWaiting
    <3>2. CASE UNCHANGED <<item, retry>>
      BY <1>1, <3>1, <3>2, LinesRest DEF TypeOK
    <3> QED BY <1>1, <2>1, <2>2, <3>1, <3>2, PatchShape
  <2>4. JobTyped'
    BY <1>1, <1>3 DEF StopWaiting, Queue!Abandon, JobTyped
  <2>5. /\ src' \subseteq src /\ coord' = "off" /\ cur' = NoItem
        /\ UNCHANGED <<mode, batch, line, retries>>
    BY <1>3 DEF StopWaiting
  <2> QED BY <1>1, <2>3, <2>4, <2>5 DEF TypeOK, JobTyped, Holding, Places
<1>4. CASE StopIdle
  <2>1. LinesWhole'
    BY <1>1, <1>4, LinesRest DEF StopIdle
  <2> QED BY <1>1, <1>4, <2>1 DEF StopIdle, TypeOK, Holding, Places
<1>5. CASE Exit \/ Crash
  <2>1. ProcessEnds
    BY <1>5 DEF Exit, Crash
  <2>2. LinesWhole'
    BY <1>1, <2>1, LinesRest DEF ProcessEnds
  <2>3. JobTyped'
    BY <2>1, ForgetTyped DEF ProcessEnds
  <2> QED BY <1>1, <2>1, <2>2, <2>3 DEF ProcessEnds, TypeOK, JobTyped, Holding, Places
<1>6. CASE Start
  <2> DEFINE back == {i \in Item : item[i] \in {"processing", "interrupted"}}
  <2>1. /\ item' = [i \in Item |-> IF i \in back THEN "queued" ELSE item[i]]
        /\ retry' = retry \cup back /\ mode' = "up" /\ coord' = "idle"
        /\ batch' = [b \in Batch |-> IF batch[b] = "processing" THEN "queued" ELSE batch[b]]
        /\ UNCHANGED <<cur, line, src, retries, job>>
    BY <1>6 DEF Start
  <2>2. /\ item' \in [Item -> ItemStatus] /\ batch' \in [Batch -> BatchStatus]
        /\ retry' \subseteq Item
        /\ \A i \in Item : item'[i] \in {"none", "gone"} <=> item[i] \in {"none", "gone"}
    BY <1>1, <2>1 DEF TypeOK
  <2>3. LinesWhole'
    BY <1>1, <2>1, <2>2, LinesRest
  <2> QED BY <1>1, <2>1, <2>2, <2>3 DEF TypeOK, Holding, Places
<1> QED BY <1>2, <1>3, <1>4, <1>5, <1>6 DEF Stop

LEMMA RequestsShape ==
  ASSUME IInv, Requests
  PROVE  Shape'
BY CreateShape, CancelBatchShape, DeleteBatchShape, MoveShape, SetBatchShape, RetryShape,
   CancelItemShape, ProcessNextShape, DeleteItemShape DEF Requests

-----------------------------------------------------------------------------
LEMMA Invariance == Spec => []IInv
<1>1. Init => IInv
  <2> SUFFICES ASSUME Init PROVE IInv
    OBVIOUS
  <2>1. TypeOK
    BY BatchAssumption DEF Init, TypeOK, BatchAssumption, Places, Queue!ContractInit
  <2>2. LinesWhole
    BY DEF Init, LinesWhole, In, Range
  <2> QED BY <2>1, <2>2
      DEF Init, IInv, OneItemProcessing, NoStraySource, AwaitedOnly, SourceHeld, Holding
<1>2. IInv /\ [Next]_vars => IInv'
  <2> SUFFICES ASSUME IInv, [Next]_vars PROVE IInv'
    OBVIOUS
  <2>1. Core'
    BY CoreHolds, StepInv
  <2>2. Shape'
    <3>1. CASE UNCHANGED vars
      <4>1. LinesWhole'
        BY <3>1, LinesRest DEF IInv, vars, tables
      <4> QED BY <3>1, <4>1 DEF IInv, Shape, TypeOK, Holding, vars, tables, job
    <3> QED BY <3>1, CoordinatorShape, QueueStepShape, RequestsShape, LifeShape DEF Next
  <2> QED BY <2>1, <2>2 DEF IInv, Core, Shape
<1> QED BY <1>1, <1>2, PTL DEF Spec

(* Every variable keeps its range, through every request, crash and        *)
(* restart: no status the tables have not got, no item in line that is     *)
(* none, a coordinator that holds one item or nothing.                     *)
THEOREM Types == Spec => []TypeOK
<1>1. IInv => TypeOK
  BY DEF IInv
<1> QED BY Invariance, <1>1, PTL

(* At most one item of all batches says processing, also after a crash,    *)
(* and while the service runs it is the one the coordinator awaits; no     *)
(* source is left without its item; and every item of a batch has one      *)
(* position in it, whatever was moved, put first or deleted.               *)
THEOREM Exclusive == Spec => []ItemsExclusive
<1>1. IInv => ItemsExclusive
  BY DEF IInv, ItemsExclusive
<1> QED BY Invariance, <1>1, PTL

(* A batch is completed only by the coordinator passing it, and then with  *)
(* all its items.                                                          *)
LEMMA CompletedStep ==
  ASSUME Core, [Next]_vars, NEW b \in Batch, batch[b] # "completed", batch'[b] = "completed"
  PROVE  \A i \in In(b) : item[i] = "completed"
<1>1. ASSUME \/ batch' = Closed(First)
             \/ \E c \in Batch : batch' = [Closed(First) EXCEPT ![c] = "processing"]
      PROVE  \A i \in In(b) : item[i] = "completed"
  <2>1. batch'[b] = Closed(First)[b]
    <3>1. Closed(First) \in [Batch -> BatchStatus]
      BY ClosedType
    <3> QED BY <1>1, <3>1
  <2>2. Closed(First)[b] = IF b \notin Passed(First) THEN batch[b]
                            ELSE IF \A i \in In(b) : item[i] = "completed"
                                 THEN "completed" ELSE "partial"
    BY DEF Closed
  <2> QED BY <2>1, <2>2
<1>2. CASE Coordinator
  <2>1. Pick \/ CloseBatches \/ batch' = batch
    BY <1>2 DEF Coordinator, Refuse, QueueFull, SleepEnds, Submit, MarkProcessing, Record,
       RecordAs, Unlink, Die, tables
  <2>2. Pick => \E c \in Batch : batch' = [Closed(First) EXCEPT ![c] = "processing"]
    BY DEF Pick, First
  <2>3. CloseBatches => batch' = Closed(First)
    BY DEF CloseBatches
  <2>4. batch' # batch
    OBVIOUS
  <2> QED BY <1>1, <2>1, <2>2, <2>3, <2>4
<1>3. CASE Requests
  BY <1>3 DEF Core, Requests, Create, CancelBatch, DeleteBatch, Move, SetBatch, Retry, CancelItem,
     ProcessNext, DeleteItem
<1>4. CASE QueueStep \/ BeginStop \/ Stop \/ Crash \/ Start
  BY <1>4 DEF QueueStep, BeginStop, Stop, StopWaiting, StopIdle, Exit, Crash, ProcessEnds,
     Start, tables
<1> QED BY <1>2, <1>3, <1>4 DEF Next, vars, tables

(* A running item keeps its source through shutdown, crash, restart and    *)
(* failure, and a batch is completed only when every item in it is.        *)
THEOREM Closing == Spec => ClosedProperly
<1>1. IInv /\ [Next]_vars =>
        [\A i \in Item : item[i] = "processing" =>
           /\ i \in src
           /\ item'[i] \in {"processing", "interrupted", "queued", "failed"} => i \in src']_vars
  BY CoreHolds, StepInv DEF Keeps
<1>2. IInv /\ [Next]_vars =>
        [\A b \in Batch : batch[b] # "completed" /\ batch'[b] = "completed" =>
           \A i \in In(b) : item[i] = "completed"]_vars
  BY CoreHolds, CompletedStep
<1> QED BY Invariance, <1>1, <1>2, PTL
     DEF Spec, ClosedProperly, RunningKeepsSource, CompletedMeansAll

=============================================================================
