---------------------------- MODULE ComputerProofs ----------------------------
(***************************************************************************)
(* Starting, updating and setting up the studio and reading a document and *)
(* its tables, proved for every number of launches, files, targets,        *)
(* components, jobs, commands, pages, lines and cells, and every number of *)
(* failures and kills.                                                     *)
(*                                                                         *)
(* Each part has its inductive invariant IInv in its module; a lemma       *)
(* ...Still says that the steps of the other parts leave it, as far as     *)
(* they only add to the failures that all parts count together.            *)
(***************************************************************************)
EXTENDS ComputerScene, Sequences, FiniteSetTheorems, SequenceTheorems, WellFoundedInduction,
        TLAPS

-----------------------------------------------------------------------------
(* Launch. Of the programs that have not given up waiting, the one with the*)
(* lock runs a server (InCharge); what a migration has not copied yet is   *)
(* where it was, and what it has copied is what it found (CopyAgrees,      *)
(* AllInSight).                                                            *)

USE DEF Nobody, Missing, Part, Running

(* The range of every variable.                                            *)
LEMMA LaunchTypes ==
  ASSUME LaunchAssumption, IInv, Next
  PROVE  Typed'
<1> USE DEF IInv, Typed, launching, migrating, Over, NoCopy, NoMarker, Staged
<1>1. ASSUME NEW p \in Program, Acquire(p) \/ EndWait(p) \/ HostEnds(p) \/ StopWaiting(p)
      PROVE  Typed'
  BY <1>1 DEF Acquire, EndWait, HostEnds, StopWaiting
<1>2. ASSUME NEW p \in Program, Bind(p) \/ Submit(p) \/ JobEnds(p) \/ Quit(p) \/ Drain(p) \/ ServerEnds(p)
      PROVE  Typed'
  BY <1>2 DEF Bind, Submit, JobEnds, Quit, Drain, ServerEnds
<1>3. ASSUME NEW p \in Program, Probe(p) PROVE Typed'
  <2> DEFINE new == IF marker.there THEN NoCopy
                    ELSE [todo |-> {f \in Files : legacy[f] # {}}, open |-> {},
                          conflicts |-> {f \in Files : legacy[f] = {"new", "old"}}]
  <2>1. new \in [todo : SUBSET Files, open : SUBSET Files, conflicts : SUBSET Files]
    OBVIOUS
  <2>2. /\ UNCHANGED <<legacy, target, marker, own, deleted>>
        /\ copying' \in {copying, [copying EXCEPT ![p] = new]}
        /\ server' \in {server, [server EXCEPT ![p] = "migrate"]}
        /\ host' \in {[host EXCEPT ![p] = "over"], [host EXCEPT ![p] = "up"]}
        /\ lock' \in {lock, Nobody}
    BY <1>3 DEF Probe
  <2> HIDE DEF new
  <2>3. copying' \in [Program -> [todo : SUBSET Files, open : SUBSET Files, conflicts : SUBSET Files]]
    BY <2>1, <2>2
  <2>4. server' \in [Program -> {"none"} \cup Running] /\ lock' \in Program \cup {Nobody}
    BY <2>2
  <2>5. host' \in [Program -> {"idle", "wait", "probe", "up", "over"}]
    BY <2>2
  <2> QED BY <2>2, <2>3, <2>4, <2>5
<1>4. ASSUME NEW p \in Program, Migrated(p) PROVE Typed'
  BY <1>4 DEF Migrated
<1>5. ASSUME NEW p \in Program, Die(p) PROVE Typed'
  BY <1>5 DEF Die
<1>6. ASSUME NEW p \in Program, NEW f \in Files, Copy(p, f) PROVE Typed'
  <2>1. UNCHANGED <<host, server, lock, legacy, marker, own, deleted>>
    BY <1>6 DEF Copy
  <2>2. target' \in {target, [target EXCEPT ![f] = Part]}
    BY <1>6 DEF Copy
  <2>3. copying' \in [Program -> [todo : SUBSET Files, open : SUBSET Files, conflicts : SUBSET Files]]
    <3>1. \/ copying' = [copying EXCEPT ![p].todo = @ \ {f}, ![p].open = @ \cup {f}]
          \/ copying' = [copying EXCEPT ![p].todo = @ \ {f},
                 ![p].conflicts = IF target[f] = Staged(f) THEN @ ELSE @ \cup {f}]
      BY <1>6 DEF Copy
    <3> DEFINE c == copying[p]
               Copies == [todo : SUBSET Files, open : SUBSET Files, conflicts : SUBSET Files]
    <3>2. c \in Copies
      OBVIOUS
    <3>3. \A d : [[c EXCEPT !.todo = @ \ {f}] EXCEPT !.open = c.open \cup {f}] \in Copies
      BY <3>2
    <3>4. \A d \in SUBSET Files : [[c EXCEPT !.todo = @ \ {f}] EXCEPT !.conflicts = d] \in Copies
      BY <3>2
    <3>5. \E n \in Copies : copying' = [copying EXCEPT ![p] = n]
      <4>1. CASE copying' = [copying EXCEPT ![p].todo = @ \ {f}, ![p].open = @ \cup {f}]
        <5>1. copying' = [copying EXCEPT ![p] = [[c EXCEPT !.todo = @ \ {f}] EXCEPT !.open = c.open \cup {f}]]
          BY <4>1
        <5> QED BY <5>1, <3>3
      <4>2. ASSUME NEW d \in SUBSET Files,
                   copying' = [copying EXCEPT ![p].todo = @ \ {f}, ![p].conflicts = d]
            PROVE  \E n \in Copies : copying' = [copying EXCEPT ![p] = n]
        <5>1. copying' = [copying EXCEPT ![p] = [[c EXCEPT !.todo = @ \ {f}] EXCEPT !.conflicts = d]]
          BY <4>2
        <5> QED BY <5>1, <3>4
      <4>3. \/ copying' = [copying EXCEPT ![p].todo = @ \ {f}, ![p].open = @ \cup {f}]
            \/ copying' = [copying EXCEPT ![p].todo = @ \ {f}, ![p].conflicts = c.conflicts]
            \/ copying' = [copying EXCEPT ![p].todo = @ \ {f}, ![p].conflicts = c.conflicts \cup {f}]
        BY <3>1
      <4>4. c.conflicts \in SUBSET Files /\ c.conflicts \cup {f} \in SUBSET Files
        BY <3>2
      <4> HIDE DEF c, Copies
      <4> QED BY <4>1, <4>2, <4>3, <4>4
    <3> HIDE DEF Copies
    <3> QED BY <3>5 DEF Copies
  <2> QED BY <2>1, <2>2, <2>3
<1>7. ASSUME NEW p \in Program, NEW f \in Files, Copied(p, f) PROVE Typed'
  <2>1. UNCHANGED <<host, server, lock, legacy, marker, own, deleted>>
    BY <1>7 DEF Copied
  <2>2. Staged(f) \in {"new", "old"} /\ target' = [target EXCEPT ![f] = Staged(f)]
    BY <1>7 DEF Copied
  <2>3. target' \in [Files -> {Missing, Part, "own", "new", "old"}]
    BY <2>2
  <2> DEFINE c == [copying[p] EXCEPT !.open = @ \ {f}]
             Copies == [todo : SUBSET Files, open : SUBSET Files, conflicts : SUBSET Files]
  <2>4. c \in Copies
    OBVIOUS
  <2>5. copying' = [copying EXCEPT ![p] = c]
    BY <1>7 DEF Copied
  <2> HIDE DEF c
  <2>6. copying' \in [Program -> Copies]
    BY <2>4, <2>5
  <2> QED BY <2>1, <2>3, <2>6
<1>8. ASSUME NEW f \in Files, UserDeletes(f) PROVE Typed'
  BY <1>8 DEF UserDeletes
<1> QED BY <1>1, <1>2, <1>3, <1>4, <1>5, <1>6, <1>7, <1>8 DEF Next

(* Of the programs that have not given up, the one with the lock runs a    *)
(* server.                                                                 *)
LEMMA LaunchInCharge ==
  ASSUME LaunchAssumption, IInv, Next
  PROVE  InCharge'
<1> USE DEF IInv, Typed, InCharge, LaunchAssumption, launching, migrating, Over
<1>1. ASSUME NEW p \in Program, Acquire(p) \/ EndWait(p) \/ HostEnds(p) \/ StopWaiting(p)
      PROVE  InCharge'
  <2>1. CASE Acquire(p)
    BY <2>1 DEF Acquire
  <2>2. CASE EndWait(p)
    BY <2>2 DEF EndWait
  <2>3. CASE HostEnds(p)
    BY <2>3 DEF HostEnds
  <2>4. CASE StopWaiting(p)
    BY <2>4 DEF StopWaiting
  <2> QED BY <1>1, <2>1, <2>2, <2>3, <2>4
<1>2. ASSUME NEW p \in Program, Bind(p) \/ Submit(p) \/ JobEnds(p) \/ Quit(p) \/ Drain(p) \/ ServerEnds(p)
      PROVE  InCharge'
  BY <1>2 DEF Bind, Submit, JobEnds, Quit, Drain, ServerEnds
<1>3. ASSUME NEW p \in Program, Probe(p) PROVE InCharge'
  BY <1>3 DEF Probe
<1>4. ASSUME NEW p \in Program, Migrated(p) PROVE InCharge'
  BY <1>4 DEF Migrated
<1>5. ASSUME NEW p \in Program, Die(p) PROVE InCharge'
  BY <1>5 DEF Die
<1>6. ASSUME NEW p \in Program, NEW f \in Files, Copy(p, f) \/ Copied(p, f) PROVE InCharge'
  BY <1>6 DEF Copy, Copied
<1>7. ASSUME NEW f \in Files, UserDeletes(f) PROVE InCharge'
  BY <1>7 DEF UserDeletes
<1> QED BY <1>1, <1>2, <1>3, <1>4, <1>5, <1>6, <1>7 DEF Next

(* While nobody has stopped waiting, one launch is in the lifespan.        *)
LEMMA LaunchOne ==
  ASSUME InCharge, gaveUp = {}, NEW p \in Program, NEW q \in Program,
         server[p] \in Running, server[q] \in Running
  PROVE  p = q
BY DEF InCharge

(* The files, by the steps that do not copy.                               *)
LEMMA LaunchFiles ==
  ASSUME LaunchAssumption, IInv, InCharge', NEW p \in Program,
         \/ Acquire(p) \/ EndWait(p) \/ HostEnds(p) \/ StopWaiting(p)
         \/ Bind(p) \/ Submit(p) \/ JobEnds(p) \/ Quit(p) \/ Drain(p) \/ ServerEnds(p)
  PROVE  CopyAgrees' /\ AllInSight' /\ MigrationAccounts'
<1>1. /\ UNCHANGED migrating /\ (gaveUp' = {} => gaveUp = {})
      /\ \A q \in Program : q # p => server'[q] = server[q]
      /\ server'[p] = "migrate" <=> server[p] = "migrate"
      /\ server'[p] \in {"recover", "serving", "leaving"} => server[p] \in {"recover", "serving", "leaving"}
  BY DEF Acquire, EndWait, HostEnds, StopWaiting, Bind, Submit, JobEnds, Quit, Drain, ServerEnds,
         IInv, Typed
<1>2. UNCHANGED <<legacy, target, copying, marker, own, deleted>>
  BY <1>1 DEF migrating
<1> QED BY <1>1, <1>2 DEF IInv, CopyAgrees, AllInSight, MigrationAccounts, Staged

(* A program dies, perhaps in the middle of a file.                        *)
LEMMA LaunchDeath ==
  ASSUME LaunchAssumption, IInv, NEW p \in Program, Die(p)
  PROVE  CopyAgrees' /\ AllInSight' /\ MigrationAccounts'
<1>1. /\ UNCHANGED <<gaveUp, legacy, target, marker, own, deleted>>
      /\ server' = [server EXCEPT ![p] = "none"] /\ copying' = [copying EXCEPT ![p] = NoCopy]
  BY DEF Die
<1>2. /\ \A q \in Program : q # p => server'[q] = server[q] /\ copying'[q] = copying[q]
      /\ server'[p] = "none" /\ copying'[p] = NoCopy /\ NoCopy.open = {}
  BY <1>1 DEF IInv, Typed, NoCopy
<1> QED BY <1>1, <1>2 DEF IInv, CopyAgrees, AllInSight, MigrationAccounts, Staged

(* A migration begins with the files that are there.                       *)
LEMMA LaunchProbes ==
  ASSUME LaunchAssumption, IInv, InCharge', NEW p \in Program, Probe(p)
  PROVE  CopyAgrees' /\ AllInSight' /\ MigrationAccounts'
<1> DEFINE found == [todo |-> {f \in Files : legacy[f] # {}}, open |-> {},
                   conflicts |-> {f \in Files : legacy[f] = {"new", "old"}}]
<1>1. UNCHANGED <<busy, gaveUp, legacy, target, marker, own, deleted, kills>>
  BY DEF Probe
<1>2. CASE UNCHANGED <<server, copying>>
  BY <1>1, <1>2 DEF IInv, CopyAgrees, AllInSight, MigrationAccounts, Staged
<1>3. CASE ~UNCHANGED <<server, copying>>
  <2>1. /\ server' = [server EXCEPT ![p] = "migrate"]
        /\ copying' = [copying EXCEPT ![p] = IF marker.there THEN NoCopy ELSE found]
    BY <1>3 DEF Probe
  <2>2. /\ \A q \in Program : q # p => server'[q] = server[q] /\ copying'[q] = copying[q]
        /\ server'[p] = "migrate" /\ copying'[p] = IF marker.there THEN NoCopy ELSE found
        /\ NoCopy.open = {} /\ found.open = {} /\ found.todo = {f \in Files : legacy[f] # {}}
    BY <2>1 DEF IInv, Typed, NoCopy
  <2> HIDE DEF found
  <2> QED BY <1>1, <2>2 DEF IInv, CopyAgrees, AllInSight, MigrationAccounts, Staged
<1> QED BY <1>2, <1>3

(* It ends with the marker, when every file has been copied.               *)
LEMMA LaunchMigrated ==
  ASSUME LaunchAssumption, IInv, InCharge', NEW p \in Program, Migrated(p)
  PROVE  CopyAgrees' /\ AllInSight' /\ MigrationAccounts'
<1>1. /\ server[p] = "migrate" /\ copying[p].open = {} /\ (copying[p].todo = {} \/ marker.there)
      /\ marker' = IF marker.there THEN marker
                   ELSE [there |-> TRUE, conflicts |-> copying[p].conflicts]
      /\ server' = [server EXCEPT ![p] = "recover"] /\ copying' = [copying EXCEPT ![p] = NoCopy]
      /\ UNCHANGED <<host, busy, lock, gaveUp, legacy, target, own, deleted, kills>>
  BY DEF Migrated
<1>2. /\ \A q \in Program : q # p => server'[q] = server[q] /\ copying'[q] = copying[q]
      /\ server'[p] = "recover" /\ copying'[p] = NoCopy /\ NoCopy.open = {}
      /\ marker'.there /\ (marker.there => marker' = marker)
      /\ ~marker.there => marker'.conflicts = copying[p].conflicts /\ copying[p].todo = {}
  BY <1>1 DEF IInv, Typed, NoCopy
<1>3. CopyAgrees'
  BY <1>1, <1>2 DEF IInv, CopyAgrees
<1>4. gaveUp = {} => \A q \in Program : q # p => server[q] # "migrate"
  BY <1>1, LaunchOne DEF IInv
<1>5. AllInSight'
  BY <1>1, <1>2, <1>4 DEF IInv, AllInSight
<1>6. MigrationAccounts'
  BY <1>1, <1>2 DEF IInv, AllInSight, MigrationAccounts, Staged
<1> QED BY <1>3, <1>5, <1>6

(* A file is opened, and then there as it was found.                       *)
LEMMA LaunchCopies ==
  ASSUME LaunchAssumption, IInv, NEW p \in Program, NEW f \in Files, Copy(p, f) \/ Copied(p, f)
  PROVE  CopyAgrees' /\ AllInSight' /\ MigrationAccounts'
<1>1. /\ server[p] = "migrate" /\ UNCHANGED <<legacy, marker, own, deleted, server, gaveUp>>
      /\ \A q \in Program : q # p => copying'[q] = copying[q]
      /\ \A g \in Files : g # f => target'[g] = target[g]
      /\ copying[p] # NoCopy
  BY DEF Copy, Copied, launching, IInv, Typed, NoCopy
<1>2. gaveUp = {} => ~marker.there /\ deleted = {} /\ \A q \in Program : q # p => server[q] # "migrate"
  BY <1>1, LaunchOne DEF IInv, AllInSight
<1>3. CASE Copy(p, f)
  <2>1. CASE target[f] = Missing
    <3>1. /\ target'[f] = Part /\ copying'[p].todo = copying[p].todo \ {f}
          /\ copying'[p].open = copying[p].open \cup {f}
          /\ copying'[p].conflicts = copying[p].conflicts
      BY <1>3, <2>1 DEF Copy, IInv, Typed
    <3>2. f \in own => f \in deleted
      BY <2>1 DEF IInv, MigrationAccounts
    <3>3. CopyAgrees'
      BY <1>1, <3>1, <3>2 DEF IInv, CopyAgrees
    <3>4. AllInSight'
      BY <1>1, <1>2, <3>1 DEF IInv, AllInSight, Staged
    <3>5. MigrationAccounts'
      BY <1>1, <1>2, <3>1, <3>2, <2>1 DEF IInv, Typed, MigrationAccounts, Staged
    <3> QED BY <3>3, <3>4, <3>5
  <2>2. CASE target[f] # Missing
    <3>1. /\ target' = target /\ copying'[p].todo = copying[p].todo \ {f}
          /\ copying'[p].open = copying[p].open
          /\ copying'[p].conflicts = IF target[f] = Staged(f) THEN copying[p].conflicts
                                     ELSE copying[p].conflicts \cup {f}
      <4> DEFINE c == copying[p]
                 d == IF target[f] = Staged(f) THEN c.conflicts ELSE c.conflicts \cup {f}
      <4>1. target' = target
        BY <1>3, <2>2 DEF Copy
      <4>2. copying' = [copying EXCEPT ![p].todo = @ \ {f},
                 ![p].conflicts = IF target[f] = Staged(f) THEN @ ELSE @ \cup {f}]
        BY <1>3, <2>2 DEF Copy
      <4>3. copying' = [copying EXCEPT ![p] = [[c EXCEPT !.todo = @ \ {f}] EXCEPT !.conflicts = d]]
        <5>1. CASE target[f] = Staged(f)
          BY <4>2, <5>1
        <5>2. CASE target[f] # Staged(f)
          BY <4>2, <5>2
        <5> QED BY <5>1, <5>2
      <4>4. c \in [todo : SUBSET Files, open : SUBSET Files, conflicts : SUBSET Files]
        BY DEF IInv, Typed
      <4> HIDE DEF d
      <4>5. /\ [[c EXCEPT !.todo = @ \ {f}] EXCEPT !.conflicts = d].todo = c.todo \ {f}
            /\ [[c EXCEPT !.todo = @ \ {f}] EXCEPT !.conflicts = d].open = c.open
            /\ [[c EXCEPT !.todo = @ \ {f}] EXCEPT !.conflicts = d].conflicts = d
        BY <4>4
      <4>6. copying'[p] = [[c EXCEPT !.todo = @ \ {f}] EXCEPT !.conflicts = d]
        BY <4>3 DEF IInv, Typed
      <4> QED BY <4>1, <4>5, <4>6 DEF d
    <3>3. CopyAgrees'
      BY <1>1, <3>1 DEF IInv, CopyAgrees
    <3>4. AllInSight'
      BY <1>1, <1>2, <3>1 DEF IInv, AllInSight, Staged
    <3>5. MigrationAccounts'
      BY <1>1, <1>2, <3>1 DEF IInv, Typed, MigrationAccounts, Staged
    <3> QED BY <3>3, <3>4, <3>5
  <2> QED BY <2>1, <2>2
<1>4. CASE Copied(p, f)
  <2>1. /\ target'[f] = Staged(f) /\ copying'[p].todo = copying[p].todo
        /\ copying'[p].open = copying[p].open \ {f}
        /\ copying'[p].conflicts = copying[p].conflicts /\ f \in copying[p].open
    BY <1>4 DEF Copied, IInv, Typed
  <2>2. f \in own => f \in deleted
    BY <2>1 DEF IInv, CopyAgrees
  <2>3. CopyAgrees'
    BY <1>1, <2>1 DEF IInv, CopyAgrees
  <2>4. AllInSight'
    BY <1>1, <1>2, <2>1 DEF IInv, AllInSight, Staged
  <2>5. MigrationAccounts'
    BY <1>1, <1>2, <2>1, <2>2 DEF IInv, Typed, MigrationAccounts, Staged
  <2> QED BY <2>3, <2>4, <2>5
<1> QED BY <1>3, <1>4

(* The user deletes a file: nothing is promised of it any more.            *)
LEMMA LaunchDeletes ==
  ASSUME LaunchAssumption, IInv, NEW f \in Files, UserDeletes(f)
  PROVE  CopyAgrees' /\ AllInSight' /\ MigrationAccounts'
<1>0. own \subseteq Files /\ deleted \subseteq Files
  BY DEF IInv, Typed
<1>1. /\ UNCHANGED <<server, gaveUp, legacy, copying, marker, own>> /\ deleted' = deleted \cup {f}
      /\ target'[f] = Missing /\ \A g \in Files : g # f => target'[g] = target[g]
  BY DEF UserDeletes, launching, IInv, Typed
<1>2. PICK p \in Program : server[p] \in {"serving", "leaving"}
  BY DEF UserDeletes, Listening
<1>3. gaveUp = {} => marker.there /\ \A q \in Program : server[q] # "migrate"
  BY <1>2, LaunchOne DEF IInv, AllInSight
<1>4. CopyAgrees'
  BY <1>1 DEF IInv, CopyAgrees
<1>5. AllInSight'
  BY <1>1, <1>3 DEF IInv, AllInSight
<1>6. \A g \in Files \ deleted' : g \in Files \ deleted /\ target'[g] = target[g]
  BY <1>1
<1>7. \A g \in deleted' : g \in deleted \/ g = f
  BY <1>1
<1>8. (marker.there /\ gaveUp = {}) => \A g \in deleted' : target'[g] = Missing
  BY <1>0, <1>1, <1>7 DEF IInv, MigrationAccounts
<1>9. \A g \in own : g \notin deleted' => target'[g] = "own"
  BY <1>0, <1>1 DEF IInv, MigrationAccounts
<1>10. MigrationAccounts'
  BY <1>1, <1>6, <1>8, <1>9 DEF IInv, MigrationAccounts, Staged
<1> QED BY <1>4, <1>5, <1>10

LEMMA LaunchNext ==
  ASSUME LaunchAssumption, IInv, Next
  PROVE  IInv'
<1>1. InCharge'
  BY LaunchInCharge
<1>2. CopyAgrees' /\ AllInSight' /\ MigrationAccounts'
  BY <1>1, LaunchFiles, LaunchDeath, LaunchProbes, LaunchMigrated, LaunchCopies,
     LaunchDeletes DEF Next
<1> QED BY <1>1, <1>2, LaunchTypes DEF IInv

LEMMA LaunchStill ==
  ASSUME IInv, UNCHANGED <<host, server, lock, gaveUp, legacy, target, copying, marker, own, deleted>>
  PROVE  IInv'
BY DEF IInv, Typed, InCharge, CopyAgrees, AllInSight, MigrationAccounts, Staged

LEMMA LaunchInit ==
  ASSUME LaunchAssumption,
         host = [p \in Program |-> "idle"], server = [p \in Program |-> "none"],
         lock = Nobody, gaveUp = {}, legacy \in [Files -> SUBSET {"new", "old"}],
         own \subseteq Files, target = [f \in Files |-> IF f \in own THEN "own" ELSE Missing],
         copying = [p \in Program |-> NoCopy], marker = NoMarker, deleted = {}
  PROVE  IInv
BY DEF LaunchAssumption, IInv, Typed, InCharge, CopyAgrees, AllInSight, MigrationAccounts,
       Staged, NoCopy, NoMarker

(* The invariant gives what is promised.                                   *)
LEMMA LaunchPromised ==
  ASSUME IInv
  PROVE  LaunchSound
<1>1. ASSUME gaveUp = {} PROVE Cardinality({p \in Program : server[p] \in Running}) <= 1
  <2> DEFINE up == {p \in Program : server[p] \in Running}
  <2>1. up \subseteq {lock}
    BY <1>1 DEF IInv, InCharge
  <2>2. up = {} \/ up = {lock}
    BY <2>1
  <2>3. Cardinality(up) = 0 \/ Cardinality(up) = 1
    BY <2>2, FS_EmptySet, FS_Singleton
  <2> QED BY <2>3
<1> QED BY <1>1 DEF IInv, LaunchSound, OneLifespan

-----------------------------------------------------------------------------
(* Maintenance. While the script is at work every target is as it was found*)
(* or set aside (ScriptAgrees), nothing but the plan at work is ever taken *)
(* away (ScriptInstalled), and so a completed job has a witness.           *)

(* A plan has at least one part, each with its target.                     *)
LEMMA PartsLong ==
  ASSUME M!UpdateAssumption, NEW p \in M!Parts
  PROVE  /\ p \in Seq(Targets) /\ Len(p) \in Nat /\ Len(p) >= 1
         /\ \A k \in 1..Len(p) : p[k] \in Targets
<1>1. PICK m \in 0..MaxParts : p \in [1..m -> Targets]
  BY DEF M!Parts, M!SeqOf
<1>2. p \in Seq(Targets) /\ Len(p) = m
  BY <1>1 DEF M!UpdateAssumption
<1>3. p # <<>>
  BY DEF M!Parts
<1> QED BY <1>1, <1>2, <1>3 DEF M!UpdateAssumption

ServiceStep(j) ==
  \/ \E parts \in M!Parts : M!Apply(j, parts)
  \/ M!Begin(j) \/ M!Cancelled(j) \/ M!Download(j) \/ M!Validate(j) \/ M!WritePlan(j)
  \/ M!RequireRestart(j) \/ M!WriteAudit(j) \/ M!FailJob(j) \/ M!Cancel(j)

(* The service moves one job, and nothing that is installed.               *)
LEMMA ServiceKeeps ==
  ASSUME M!IInv, NEW j \in M!Jobs, ServiceStep(j)
  PROVE  /\ app = "up" /\ app' = "up" /\ UNCHANGED M!installed
         /\ \A i \in M!Jobs : i # j => job'[i] = job[i] /\ record'[i] = record[i]
         /\ M!Typed'
<1>0. app = "up"
  <2>1. app = "up" \/ job[j].at # "none"
    BY DEF ServiceStep, M!Apply, M!Begin, M!Cancelled, M!Download, M!Validate, M!WritePlan,
       M!RequireRestart,
           M!WriteAudit, M!FailJob, M!Cancel
  <2>2. app # "up" => job[j].at = "none"
    <3>1. M!RecordFollows /\ M!NoJob.at = "none"
      BY DEF M!IInv, M!NoJob, M!NewJob, M!None
    <3> QED BY <3>1 DEF M!RecordFollows
  <2> QED BY <2>1, <2>2
<1>1. app = "up" /\ app' = app
  BY <1>0 DEF ServiceStep, M!Apply, M!Begin, M!Cancelled, M!Download, M!Validate, M!WritePlan,
     M!RequireRestart,
         M!WriteAudit, M!FailJob, M!Cancel, M!Enter
<1>2. UNCHANGED M!installed
  BY DEF ServiceStep, M!Apply, M!Begin, M!Cancelled, M!Download, M!Validate, M!WritePlan,
     M!RequireRestart,
         M!WriteAudit, M!FailJob, M!Cancel
<1> DEFINE JT == [at : {M!None, "queued", "orphan", "downloading", "validating", "planned",
                            "restart_required", "validated", "failed", "cancelled"},
                      parts : M!Parts \cup {<<>>}, k : Nat \ {0}, cancel : BOOLEAN]
           RT == {M!None, "queued", "downloading", "validating", "restart_required",
                         "failed", "cancelled", "completed"}
<1>3. \E c \in JT, d \in RT : job' = [job EXCEPT ![j] = c] /\ record' = [record EXCEPT ![j] = d]
  <2>0. /\ job[j] \in JT /\ record[j] \in RT /\ job \in [M!Jobs -> JT]
        /\ record' = record => record' = [record EXCEPT ![j] = record[j]]
    BY DEF M!IInv, M!Typed
  <2>1. ASSUME NEW parts \in M!Parts, NEW a \in {"queued", "orphan"}, NEW b \in RT,
               job' = [job EXCEPT ![j] = M!NewJob(a, parts)], record' = [record EXCEPT ![j] = b]
        PROVE  \E c \in JT, d \in RT : job' = [job EXCEPT ![j] = c] /\ record' = [record EXCEPT ![j] = d]
    <3>1. M!NewJob(a, parts) \in JT
      BY <2>1 DEF M!NewJob, M!None
    <3> HIDE DEF JT
    <3> QED BY <2>1, <3>1
  <2>2. ASSUME NEW a \in {"downloading", "validating", "planned", "validated", "restart_required",
                          "failed", "cancelled", job[j].at},
               NEW k \in Nat \ {0}, NEW e \in BOOLEAN, NEW b \in RT,
               M!Put(j, a, k, e), record' = [record EXCEPT ![j] = b]
        PROVE  \E c \in JT, d \in RT : job' = [job EXCEPT ![j] = c] /\ record' = [record EXCEPT ![j] = d]
    <3> DEFINE c == [at |-> a, parts |-> job[j].parts, k |-> k, cancel |-> e]
    <3>1. c \in JT
      BY <2>0, <2>2
    <3>2. job' = [job EXCEPT ![j] = c]
      BY <2>2 DEF M!Put
    <3> HIDE DEF c, JT, RT
    <3> QED BY <2>2, <3>1, <3>2
  <2>3. /\ job[j].k + 1 \in Nat \ {0} /\ job[j].k \in Nat \ {0} /\ 1 \in Nat \ {0}
        /\ job[j].cancel \in BOOLEAN /\ TRUE \in BOOLEAN /\ FALSE \in BOOLEAN
    BY <2>0
  <2>4. {"queued", "downloading", "validating", "restart_required", "failed", "cancelled"} \subseteq RT
    OBVIOUS
  <2> HIDE DEF JT, RT
  <2>5. ASSUME NEW parts \in M!Parts, M!Apply(j, parts)
        PROVE  \E c \in JT, d \in RT : job' = [job EXCEPT ![j] = c] /\ record' = [record EXCEPT ![j] = d]
    BY <2>5, <2>0, <2>1, <2>4 DEF M!Apply
  <2>6. CASE M!Begin(j) \/ M!Cancelled(j) \/ M!RequireRestart(j) \/ M!FailJob(j)
    BY <2>6, <2>2, <2>3, <2>4 DEF M!Begin, M!Cancelled, M!RequireRestart, M!FailJob, M!Enter
  <2>7. CASE M!Download(j)
    <3>1. CASE job[j].k < Len(job[j].parts)
      BY <2>7, <2>0, <2>2, <2>3, <3>1 DEF M!Download
    <3>2. CASE ~(job[j].k < Len(job[j].parts))
      BY <2>7, <2>2, <2>3, <2>4, <3>2 DEF M!Download, M!Enter
    <3> QED BY <3>1, <3>2
  <2>8. CASE M!Validate(j)
    BY <2>8, <2>0, <2>2, <2>3 DEF M!Validate
  <2>9. CASE M!WritePlan(j) \/ M!WriteAudit(j)
    BY <2>9, <2>0, <2>2, <2>3 DEF M!WritePlan, M!WriteAudit
  <2>10. CASE M!Cancel(j)
    BY <2>10, <2>0, <2>2, <2>3 DEF M!Cancel
  <2> QED BY <2>5, <2>6, <2>7, <2>8, <2>9, <2>10 DEF ServiceStep
<1>4. plan' \in [job : M!Jobs, parts : M!Parts] \cup {M!NoPlan}
  <2>1. CASE M!WritePlan(j)
    <3>1. job[j].parts \in M!Parts
      BY <2>1 DEF M!WritePlan, M!IInv, M!RecordFollows, M!None
    <3> QED BY <2>1, <3>1 DEF M!WritePlan
  <2>2. CASE ~M!WritePlan(j)
    BY <2>2 DEF M!IInv, M!Typed, M!Apply, M!Begin, M!Cancelled, M!Download, M!Validate,
       M!RequireRestart,
         M!WriteAudit, M!FailJob, M!Cancel, ServiceStep
  <2> QED BY <2>1, <2>2
<1>5. M!Typed'
  BY <1>1, <1>2, <1>3, <1>4 DEF M!IInv, M!Typed, M!installed
<1>6. \A i \in M!Jobs : i # j => job'[i] = job[i] /\ record'[i] = record[i]
  BY <1>3 DEF M!IInv, M!Typed
<1> QED BY <1>1, <1>2, <1>5, <1>6

(* The record of a job says where it is, as long as it is at work.         *)
LEMMA ServiceFollows ==
  ASSUME M!UpdateAssumption, M!IInv, NEW j \in M!Jobs, ServiceStep(j)
  PROVE  M!RecordFollows' /\ M!Witnessed'
<1>1. /\ app = "up" /\ app' = "up" /\ UNCHANGED M!installed
      /\ \A i \in M!Jobs : i # j => job'[i] = job[i] /\ record'[i] = record[i]
      /\ M!Typed'
  BY ServiceKeeps
<1>2. M!Installed' = M!Installed
  BY <1>1 DEF M!Installed, M!installed
<1> DEFINE F(i) == 
    /\ job[i].at = "orphan" => record[i] = M!None
    /\ job[i].at = "planned" => record[i] = "validating"
    /\ job[i].at = "validated" => record[i] = "restart_required"
    /\ job[i].at \notin {M!None, "orphan", "planned", "validated"} => record[i] = job[i].at
    /\ job[i].at \notin {M!None, "orphan"} => job[i].parts \in M!Parts
    /\ <<i>> \in M!Installed => job[i].at = M!None /\ record[i] \notin {M!None, "cancelled"}
    /\ job[i].at = M!None => job[i] = M!NoJob
  P(i) == /\ record[i] \notin {M!None, "cancelled"}
          /\ job[i].at \in {M!None, "planned", "restart_required", "validated", "failed"}
          /\ record[i] # "completed"
<1>3. /\ \A i \in M!Jobs : F(i) /\ (plan.job = i => P(i))
      /\ job[j].at = "none" => job[j] = M!NoJob
  <2>1. M!RecordFollows /\ M!NoJob.at = M!None
    BY DEF M!IInv, M!NoJob, M!NewJob
  <2>2. ASSUME NEW i \in M!Jobs PROVE F(i) /\ (plan.job = i => P(i))
    BY <1>1, <2>1, <2>2 DEF M!RecordFollows
  <2> QED BY <2>1, <2>2 DEF M!RecordFollows, M!None
<1>4. F(j)' /\ (job'[j].at = M!None => job'[j] = job[j])
  <2>0. F(j)
    BY <1>3
  <2>a. job \in [M!Jobs -> [at : {M!None, "queued", "orphan", "downloading", "validating", "planned",
                            "restart_required", "validated", "failed", "cancelled"},
                      parts : M!Parts \cup {<<>>}, k : Nat \ {0}, cancel : BOOLEAN]]
        /\ record \in [M!Jobs -> {M!None, "queued", "downloading", "validating", "restart_required",
                         "failed", "cancelled", "completed"}]
    BY DEF M!IInv, M!Typed
  <2>1. ASSUME NEW parts \in M!Parts, M!Apply(j, parts) PROVE <<j>> \notin M!Installed
    BY <2>0, <2>1 DEF M!Apply
  <2>2. CASE \E parts \in M!Parts : M!Apply(j, parts)
    BY <1>2, <2>0, <2>a, <2>1, <2>2 DEF M!Apply, M!NewJob, M!None
  <2>3. CASE M!Begin(j) \/ M!Cancelled(j) \/ M!RequireRestart(j) \/ M!FailJob(j)
    BY <1>2, <2>0, <2>a, <2>3 DEF M!Begin, M!Cancelled, M!RequireRestart, M!FailJob, M!Enter,
       M!Put, M!None
  <2>4. CASE M!Download(j) \/ M!Validate(j)
    BY <1>2, <2>0, <2>a, <2>4 DEF M!Download, M!Validate, M!Enter, M!Put, M!None
  <2>5. CASE M!WritePlan(j) \/ M!WriteAudit(j) \/ M!Cancel(j)
    BY <1>2, <2>0, <2>a, <2>5 DEF M!WritePlan, M!WriteAudit, M!Cancel, M!Put, M!None
  <2> QED BY <2>2, <2>3, <2>4, <2>5 DEF ServiceStep
<1>5. \A i \in M!Jobs : F(i)'
  <2> SUFFICES ASSUME NEW i \in M!Jobs PROVE F(i)'
    OBVIOUS
  <2>1. CASE i = j
    BY <1>4, <2>1
  <2>2. CASE i # j
    <3>1. job'[i] = job[i] /\ record'[i] = record[i]
      BY <1>1, <2>2
    <3>2. F(i)
      BY <1>3
    <3> QED BY <1>2, <3>1, <3>2
  <2> QED BY <2>1, <2>2
<1>6. /\ plan'.job # j => plan' = plan
      /\ plan'.job = j => P(j)'
      /\ plan' # plan => plan'.job = j /\ <<j>> \notin M!Installed
  BY <1>1, <1>2, <1>3
     DEF ServiceStep, M!Apply, M!Begin, M!Cancelled, M!Download, M!Validate, M!WritePlan,
        M!RequireRestart, M!WriteAudit,
         M!FailJob, M!Cancel, M!Enter, M!Put, M!NewJob, M!NoJob, M!None, M!IInv, M!Typed
<1>7. M!RecordFollows'
  BY <1>1, <1>3, <1>5, <1>6 DEF M!RecordFollows, M!None, M!NoJob, M!NewJob
<1>8. record'[j] # "completed" \/ record' = record
  BY <1>1
     DEF ServiceStep, M!Apply, M!Begin, M!Cancelled, M!Download, M!Validate, M!WritePlan,
        M!RequireRestart, M!WriteAudit,
         M!FailJob, M!Cancel, M!Enter, M!IInv, M!Typed
<1>9. M!Witnessed'
  <2> SUFFICES ASSUME NEW i \in M!Jobs, record'[i] = "completed", plan'.job # i
              PROVE  \E v \in M!Installed : v # <<>> /\ v[1] >= i /\ v # <<plan'.job>>
    BY <1>2 DEF M!Witnessed
  <2>1. record[i] = "completed"
    BY <1>1, <1>8
  <2>2. plan.job # i
    BY <1>3, <1>6, <2>1
  <2>3. PICK v \in M!Installed : v # <<>> /\ v[1] >= i /\ v # <<plan.job>>
    BY <2>1, <2>2 DEF M!IInv, M!Witnessed
  <2>4. v # <<plan'.job>>
    BY <1>6, <2>3
  <2> QED BY <2>3, <2>4
<1> QED BY <1>7, <1>9

LEMMA ServiceStepOK ==
  ASSUME M!UpdateAssumption, M!IInv, NEW j \in M!Jobs, ServiceStep(j)
  PROVE  M!IInv'
<1>1. /\ app' = "up" /\ UNCHANGED M!installed /\ M!Typed'
  BY ServiceKeeps
<1>2. M!ScriptAgrees'
  BY <1>1 DEF M!ScriptAgrees, M!Scripted
<1>3. M!RuntimeKept'
  BY <1>1 DEF M!IInv, M!RuntimeKept, M!installed
<1> QED BY <1>1, <1>2, <1>3, ServiceFollows DEF M!IInv

ScriptStep == M!SetAside \/ M!MoveIn \/ M!Complete \/ M!RemovePlan \/ M!Throw \/ M!RollBack \/ M!GiveUp \/ M!Kill

(* Where the script is at work: its part, its target, its job.             *)
LEMMA ScriptAt ==
  ASSUME M!UpdateAssumption, M!IInv, M!Scripted
  PROVE  /\ plan.job \in M!Jobs /\ plan.parts \in M!Parts
         /\ Len(plan.parts) \in Nat /\ Len(plan.parts) >= 1
         /\ \A k \in 1..Len(plan.parts) : plan.parts[k] \in Targets
         /\ M!AtPart => M!Here \in Targets
         /\ \A j \in M!Jobs : job[j] = M!NoJob
         /\ <<plan.job>> # <<>> /\ <<plan.job>> \in M!Versions
         /\ \A n \in DOMAIN script.moved : script.moved[n] \in Targets
<1>1. plan.job \in M!Jobs /\ plan.parts \in M!Parts
  BY DEF M!IInv, M!Typed, M!ScriptAgrees
<1>2. /\ Len(plan.parts) \in Nat /\ Len(plan.parts) >= 1
      /\ \A k \in 1..Len(plan.parts) : plan.parts[k] \in Targets
  BY <1>1, PartsLong
<1>3. M!AtPart => M!Here \in Targets
  BY <1>2 DEF M!AtPart, M!Here, M!IInv, M!Typed
<1>4. \A j \in M!Jobs : job[j] = M!NoJob
  BY DEF M!IInv, M!RecordFollows, M!Scripted
<1>5. <<plan.job>> # <<>> /\ <<plan.job>> \in M!Versions
  BY <1>1 DEF M!Versions, M!Jobs, M!UpdateAssumption
<1>6. \A n \in DOMAIN script.moved : script.moved[n] \in Targets
  BY DEF M!IInv, M!Typed
<1> QED BY <1>1, <1>2, <1>3, <1>4, <1>5, <1>6

(* The range of every variable.                                            *)
LEMMA ScriptTyped ==
  ASSUME M!UpdateAssumption, M!IInv, ScriptStep
  PROVE  M!Typed'
<1>0. M!Scripted
  BY DEF ScriptStep, M!SetAside, M!MoveIn, M!Complete, M!RemovePlan, M!Throw, M!RollBack,
     M!GiveUp, M!Kill, M!AtPart, M!Scripted
<1>1. /\ plan.job \in M!Jobs /\ plan.parts \in M!Parts
      /\ M!AtPart => M!Here \in Targets
      /\ <<plan.job>> # <<>> /\ <<plan.job>> \in M!Versions /\ <<>> \in M!Versions
      /\ \A n \in DOMAIN script.moved : script.moved[n] \in Targets
  BY <1>0, ScriptAt DEF M!Versions
<1>2. CASE M!SetAside
  <2>1. M!Here \in Targets
    BY <1>1, <1>2 DEF M!SetAside
  <2>2. script' \in [k : Nat \ {0}, aside : BOOLEAN, moved : Seq(Targets)]
    <3>1. Append(script.moved, M!Here) \in Seq(Targets)
      BY <2>1 DEF M!IInv, M!Typed
    <3> QED BY <3>1, <1>2 DEF M!SetAside, M!IInv, M!Typed
  <2>3. backup' \in [Targets -> [M!Jobs -> M!Versions]]
    BY <1>1, <1>2, <2>1 DEF M!SetAside, M!IInv, M!Typed
  <2>4. runtime' \in [Targets -> M!Versions]
    BY <1>1, <1>2, <2>1 DEF M!SetAside, M!IInv, M!Typed
  <2> QED BY <1>2, <2>2, <2>3, <2>4 DEF M!SetAside, M!program, M!IInv, M!Typed
<1>3. CASE M!MoveIn
  <2>1. runtime' \in [Targets -> M!Versions]
    BY <1>1, <1>3 DEF M!MoveIn, M!IInv, M!Typed
  <2>2. script' \in [k : Nat \ {0}, aside : BOOLEAN, moved : Seq(Targets)]
    BY <1>3 DEF M!MoveIn, M!IInv, M!Typed
  <2> QED BY <1>3, <2>1, <2>2 DEF M!MoveIn, M!IInv, M!Typed
<1>4. CASE M!Complete
  BY <1>1, <1>4 DEF M!Complete, M!installed, M!IInv, M!Typed
<1>5. CASE M!RemovePlan
  BY <1>5 DEF M!RemovePlan, M!installed, M!IInv, M!Typed
<1>6. CASE M!Throw \/ M!GiveUp \/ M!Kill
  BY <1>6 DEF M!Throw, M!GiveUp, M!Kill, M!program, M!installed, M!IInv, M!Typed
<1>7. CASE M!RollBack
  <2> DEFINE t == M!Last(script.moved)
  <2>1. t \in Targets
    BY <1>7, <1>1 DEF M!RollBack, M!Last, M!IInv, M!Typed
  <2>2. M!Front(script.moved) \in Seq(Targets)
    BY <1>7 DEF M!RollBack, M!Front, M!IInv, M!Typed
  <2>3. CASE runtime' = [runtime EXCEPT ![t] = <<>>] /\ UNCHANGED <<backup, script>>
    BY <1>1, <1>7, <2>1, <2>3 DEF M!RollBack, M!program, M!IInv, M!Typed
  <2>4. CASE /\ runtime' = [runtime EXCEPT ![t] = backup[t][plan.job]]
             /\ backup' = [backup EXCEPT ![t][plan.job] = <<>>]
             /\ script' = [k |-> script.k, aside |-> script.aside, moved |-> M!Front(script.moved)]
    <3>1. script' \in [k : Nat \ {0}, aside : BOOLEAN, moved : Seq(Targets)]
      BY <2>2, <2>4 DEF M!IInv, M!Typed
    <3>2. runtime' \in [Targets -> M!Versions]
      BY <1>1, <2>1, <2>4 DEF M!IInv, M!Typed
    <3>3. backup' \in [Targets -> [M!Jobs -> M!Versions]]
      BY <1>1, <2>1, <2>4 DEF M!IInv, M!Typed
    <3> QED BY <1>7, <3>1, <3>2, <3>3 DEF M!RollBack, M!program, M!IInv, M!Typed
  <2> QED BY <1>7, <2>3, <2>4 DEF M!RollBack
<1> QED BY <1>2, <1>3, <1>4, <1>5, <1>6, <1>7 DEF ScriptStep

(* Nothing but the plan at work is taken away, and nothing else is put in. *)
LEMMA ScriptInstalled ==
  ASSUME M!UpdateAssumption, M!IInv, ScriptStep
  PROVE  /\ \A v \in M!Installed' : v \in M!Installed \cup {<<>>, <<plan.job>>}
         /\ \A v \in M!Installed : v \notin {<<>>, <<plan.job>>} => v \in M!Installed'
<1>0. M!Scripted
  BY DEF ScriptStep, M!SetAside, M!MoveIn, M!Complete, M!RemovePlan, M!Throw, M!RollBack,
     M!GiveUp, M!Kill, M!AtPart, M!Scripted
<1>1. /\ plan.job \in M!Jobs
      /\ M!AtPart => M!Here \in Targets
      /\ \A n \in DOMAIN script.moved : script.moved[n] \in Targets
  BY <1>0, ScriptAt
<1>2. /\ runtime \in [Targets -> M!Versions] /\ backup \in [Targets -> [M!Jobs -> M!Versions]]
      /\ script.moved \in Seq(Targets)
  BY DEF M!IInv, M!Typed
<1>3. CASE M!SetAside
  <2>1. /\ runtime' = [runtime EXCEPT ![M!Here] = <<>>]
        /\ backup' = [backup EXCEPT ![M!Here][plan.job] = runtime[M!Here]]
        /\ M!Here \in Targets /\ backup[M!Here][plan.job] = <<>>
    BY <1>1, <1>3 DEF M!SetAside, M!Blocked
  <2> QED BY <1>1, <1>2, <2>1 DEF M!Installed
<1>4. CASE M!MoveIn
  <2>1. /\ runtime' = [runtime EXCEPT ![M!Here] = <<plan.job>>] /\ backup' = backup
        /\ M!Here \in Targets /\ runtime[M!Here] = <<>>
    BY <1>0, <1>1, <1>4 DEF M!MoveIn, M!AtPart, M!IInv, M!ScriptAgrees
  <2> QED BY <1>1, <1>2, <2>1 DEF M!Installed
<1>5. CASE M!Complete \/ M!RemovePlan \/ M!Throw \/ M!GiveUp \/ M!Kill
  BY <1>5 DEF M!Complete, M!RemovePlan, M!Throw, M!GiveUp, M!Kill, M!installed, M!Installed
<1>6. CASE M!RollBack
  <2> DEFINE t == M!Last(script.moved)
  <2>1. /\ t \in Targets /\ runtime[t] \in {<<>>, <<plan.job>>}
    <3>1. Len(script.moved) \in DOMAIN script.moved
      BY <1>2, <1>6 DEF M!RollBack
    <3> QED BY <1>0, <1>1, <3>1 DEF M!Last, M!IInv, M!ScriptAgrees
  <2>2. CASE runtime' = [runtime EXCEPT ![t] = <<>>] /\ UNCHANGED <<backup, script>>
    <3> HIDE DEF t
    <3> QED BY <1>2, <2>1, <2>2 DEF M!Installed
  <2>3. CASE /\ runtime' = [runtime EXCEPT ![t] = backup[t][plan.job]]
             /\ backup' = [backup EXCEPT ![t][plan.job] = <<>>]
    <3> HIDE DEF t
    <3> QED BY <1>1, <1>2, <2>1, <2>3 DEF M!Installed
  <2> QED BY <1>6, <2>2, <2>3 DEF M!RollBack
<1> QED BY <1>3, <1>4, <1>5, <1>6 DEF ScriptStep

(* No job is at work while the script is, and the record of its plan is    *)
(* open.                                                                   *)
LEMMA ScriptFollows ==
  ASSUME M!UpdateAssumption, M!IInv, ScriptStep
  PROVE  M!RecordFollows'
<1>0. M!Scripted
  BY DEF ScriptStep, M!SetAside, M!MoveIn, M!Complete, M!RemovePlan, M!Throw, M!RollBack,
     M!GiveUp, M!Kill, M!AtPart, M!Scripted
<1>1. plan.job \in M!Jobs /\ \A j \in M!Jobs : job[j] = M!NoJob
  BY <1>0, ScriptAt
<1>2. job' = job
  BY DEF ScriptStep, M!SetAside, M!MoveIn, M!Complete, M!RemovePlan, M!Throw, M!RollBack,
     M!GiveUp, M!Kill, M!program
<1>3. M!NoJob.at = M!None
  BY DEF M!NoJob, M!NewJob
<1>4. CASE M!Complete
  <2>1. record' = [record EXCEPT ![plan.job] = "completed"] /\ plan' = plan /\ app' = "completed"
    BY <1>4 DEF M!Complete
  <2>2. record \in [M!Jobs -> {M!None, "queued", "downloading", "validating", "restart_required",
                         "failed", "cancelled", "completed"}]
    BY DEF M!IInv, M!Typed
  <2> SUFFICES ASSUME NEW j \in M!Jobs
               PROVE  /\ plan.job = j => record'[j] \notin {M!None, "cancelled"}
                      /\ <<j>> \in M!Installed' => record'[j] \notin {M!None, "cancelled"}
    BY <1>1, <1>2, <1>3, <2>1 DEF M!RecordFollows, M!None
  <2>3. <<j>> \in M!Installed' => <<j>> \in M!Installed \/ j = plan.job
    BY ScriptInstalled
  <2>4. <<j>> \in M!Installed \/ plan.job = j => record[j] \notin {M!None, "cancelled"}
    BY DEF M!IInv, M!RecordFollows
  <2> QED BY <2>1, <2>2, <2>3, <2>4 DEF M!None
<1>5. CASE ~M!Complete
  <2>1. /\ record' = record
        /\ app' = "up" => plan' = M!NoPlan
        /\ plan' \in {plan, M!NoPlan}
    BY <1>5 DEF ScriptStep, M!SetAside, M!MoveIn, M!RemovePlan, M!Throw, M!RollBack, M!GiveUp,
       M!Kill, M!program, M!AtPart
  <2>2. /\ plan'.job \in {plan.job, 0} /\ 0 \notin M!Jobs
        /\ app' = "up" => plan'.job = 0
    BY <2>1 DEF M!NoPlan, M!Jobs
  <2> SUFFICES ASSUME NEW j \in M!Jobs
               PROVE  /\ plan.job = j => record[j] \notin {M!None, "cancelled"}
                      /\ <<j>> \in M!Installed' => record[j] \notin {M!None, "cancelled"}
    BY <1>1, <1>2, <1>3, <2>1, <2>2 DEF M!RecordFollows, M!None
  <2>3. <<j>> \in M!Installed' => <<j>> \in M!Installed \/ j = plan.job
    BY ScriptInstalled
  <2>4. <<j>> \in M!Installed \/ plan.job = j => record[j] \notin {M!None, "cancelled"}
    BY DEF M!IInv, M!RecordFollows
  <2> QED BY <2>3, <2>4
<1> QED BY <1>4, <1>5

(* What a completed job has installed, or a later version, is still there. *)
LEMMA ScriptWitnessed ==
  ASSUME M!UpdateAssumption, M!IInv, ScriptStep
  PROVE  M!Witnessed'
<1>0. M!Scripted
  BY DEF ScriptStep, M!SetAside, M!MoveIn, M!Complete, M!RemovePlan, M!Throw, M!RollBack,
     M!GiveUp, M!Kill, M!AtPart, M!Scripted
<1>1. /\ plan.job \in M!Jobs /\ plan.parts \in M!Parts /\ Len(plan.parts) \in Nat /\ Len(plan.parts) >= 1
      /\ \A k \in 1..Len(plan.parts) : plan.parts[k] \in Targets
  BY <1>0, ScriptAt
<1> SUFFICES ASSUME NEW j \in M!Jobs, record'[j] = "completed", plan'.job # j
             PROVE  \E v \in M!Installed' : v # <<>> /\ v[1] >= j /\ v # <<plan'.job>>
  BY DEF M!Witnessed
<1>2. CASE M!RemovePlan /\ plan.job = j
  <2>1. /\ script.k \in Nat /\ script.k <= Len(plan.parts) + 1 /\ script.k > Len(plan.parts)
        /\ app = "completed"
    BY <1>0, <1>2 DEF M!RemovePlan, M!IInv, M!Typed, M!ScriptAgrees
  <2>2. ~script.aside
    BY <1>0, <2>1, <1>1 DEF M!IInv, M!Typed, M!ScriptAgrees
  <2>3. runtime[plan.parts[script.k - 1]] = <<j>> /\ script.k - 1 \in 1..Len(plan.parts)
    BY <1>0, <1>1, <1>2, <2>1, <2>2 DEF M!IInv, M!Typed, M!ScriptAgrees
  <2>4. <<j>> \in M!Installed'
    BY <1>1, <1>2, <2>3 DEF M!RemovePlan, M!installed, M!Installed
  <2>5. plan'.job = 0
    BY <1>2 DEF M!RemovePlan, M!NoPlan
  <2>6. <<j>> # <<>> /\ <<j>>[1] >= j /\ <<j>> # <<0>>
    BY DEF M!Jobs, M!UpdateAssumption
  <2> QED BY <2>4, <2>5, <2>6
<1>3. CASE plan.job # j
  <2>1. record[j] = "completed"
    BY <1>1, <1>3 DEF ScriptStep, M!SetAside, M!MoveIn, M!Complete, M!RemovePlan, M!Throw,
       M!RollBack, M!GiveUp, M!Kill,
                      M!program, M!IInv, M!Typed
  <2>2. PICK v \in M!Installed : v # <<>> /\ v[1] >= j /\ v # <<plan.job>>
    BY <1>3, <2>1 DEF M!IInv, M!Witnessed
  <2>3. v \in M!Installed'
    BY <2>2, ScriptInstalled
  <2>4. plan'.job \in {plan.job, 0}
    BY DEF ScriptStep, M!SetAside, M!MoveIn, M!Complete, M!RemovePlan, M!Throw, M!RollBack,
       M!GiveUp, M!Kill,
           M!program, M!NoPlan
  <2>5. v # <<0>>
    BY <2>2 DEF M!Jobs, M!UpdateAssumption
  <2> QED BY <2>2, <2>3, <2>4, <2>5
<1>4. CASE plan.job = j /\ ~M!RemovePlan
  BY <1>4 DEF ScriptStep, M!SetAside, M!MoveIn, M!Complete, M!Throw, M!RollBack, M!GiveUp,
     M!Kill, M!program
<1> QED BY <1>2, <1>3, <1>4

(* A target is as it was found until the script is at it, and is then set  *)
(* aside.                                                                  *)
LEMMA ScriptAgreement ==
  ASSUME M!UpdateAssumption, M!IInv, ScriptStep
  PROVE  M!ScriptAgrees'
<1>0. M!Scripted
  BY DEF ScriptStep, M!SetAside, M!MoveIn, M!Complete, M!RemovePlan, M!Throw, M!RollBack,
     M!GiveUp, M!Kill, M!AtPart, M!Scripted
<1>1. /\ plan.job \in M!Jobs /\ plan # M!NoPlan
      /\ Len(plan.parts) \in Nat /\ Len(plan.parts) >= 1
      /\ \A k \in 1..Len(plan.parts) : plan.parts[k] \in Targets
      /\ M!AtPart => M!Here \in Targets
      /\ <<plan.job>> # <<>>
      /\ \A n \in DOMAIN script.moved : script.moved[n] \in Targets
  BY <1>0, ScriptAt DEF M!IInv, M!ScriptAgrees
<1>2. /\ runtime \in [Targets -> M!Versions] /\ backup \in [Targets -> [M!Jobs -> M!Versions]]
      /\ before \in [Targets -> M!Versions]
      /\ script.moved \in Seq(Targets) /\ script.k \in Nat \ {0} /\ script.aside \in BOOLEAN
  BY DEF M!IInv, M!Typed
<1> DEFINE Moved(t) == /\ backup[t][plan.job] # <<>> /\ runtime[t] \in {<<>>, <<plan.job>>}
                       /\ before[t] # <<>> => backup[t][plan.job] = before[t]
           MovedNow(t) == /\ backup'[t][plan'.job] # <<>> /\ runtime'[t] \in {<<>>, <<plan'.job>>}
                          /\ before'[t] # <<>> => backup'[t][plan'.job] = before'[t]
<1>3. /\ script.k <= Len(plan.parts) + 1
      /\ \A m, n \in DOMAIN script.moved : m # n => script.moved[m] # script.moved[n]
      /\ \A n \in DOMAIN script.moved : Moved(script.moved[n])
      /\ \A t \in Targets : t \notin M!Range(script.moved) /\ before[t] # <<>> => runtime[t] = before[t]
  BY <1>0 DEF M!IInv, M!ScriptAgrees
<1>4. CASE M!SetAside
  <2>1. /\ runtime' = [runtime EXCEPT ![M!Here] = <<>>]
        /\ backup' = [backup EXCEPT ![M!Here][plan.job] = runtime[M!Here]]
        /\ M!Here \in Targets /\ backup[M!Here][plan.job] = <<>>
        /\ script' = [k |-> script.k, aside |-> TRUE,
                      moved |-> IF runtime[M!Here] = <<>> THEN script.moved
                                                        ELSE Append(script.moved, M!Here)]
        /\ app' = "promote" /\ plan' = plan /\ before' = before
        /\ script.k <= Len(plan.parts)
    BY <1>1, <1>4 DEF M!SetAside, M!Blocked, M!AtPart, M!program
  <2>2. M!Here \notin M!Range(script.moved)
    BY <1>3, <2>1 DEF M!Range
  <2>3. \A t \in Targets : t # M!Here => runtime'[t] = runtime[t] /\ backup'[t] = backup[t]
    BY <1>2, <2>1
  <2>4. runtime'[M!Here] = <<>> /\ backup'[M!Here][plan.job] = runtime[M!Here]
    BY <1>1, <1>2, <2>1
  <2>5. M!Here' = M!Here
    BY <2>1 DEF M!Here
  <2>6. CASE runtime[M!Here] = <<>>
    <3>1. script'.moved = script.moved /\ script'.k = script.k /\ script'.aside
      BY <2>1, <2>6
    <3>2. before[M!Here] = <<>>
      BY <1>3, <2>1, <2>2, <2>6
    <3>3. \A n \in DOMAIN script.moved : script.moved[n] # M!Here
      BY <2>2 DEF M!Range
    <3>4. \A n \in DOMAIN script'.moved : MovedNow(script'.moved[n])
      <4> SUFFICES ASSUME NEW n \in DOMAIN script.moved PROVE MovedNow(script.moved[n])
        BY <3>1
      <4>1. /\ Moved(script.moved[n]) /\ script.moved[n] # M!Here /\ script.moved[n] \in Targets
            /\ plan'.job = plan.job
        BY <1>1, <1>3, <2>1, <3>3
      <4> QED BY <2>1, <2>3, <4>1
    <3>5. \A t \in Targets : t \notin M!Range(script'.moved) /\ before'[t] # <<>> => runtime'[t] = before'[t]
      BY <1>3, <2>1, <2>3, <3>1, <3>2
    <3>6. \A m, n \in DOMAIN script'.moved : m # n => script'.moved[m] # script'.moved[n]
      BY <1>3, <3>1
    <3>7. /\ plan' # M!NoPlan' /\ script'.k <= Len(plan'.parts) + 1 /\ app' = "promote"
          /\ script'.k <= Len(plan'.parts) /\ runtime'[M!Here'] = <<>>
      BY <1>1, <1>3, <2>1, <2>4, <2>5, <3>1
    <3> QED BY <3>1, <3>4, <3>5, <3>6, <3>7 DEF M!ScriptAgrees
  <2>7. CASE runtime[M!Here] # <<>>
    <3>1. script'.moved = Append(script.moved, M!Here) /\ script'.k = script.k /\ script'.aside
      BY <2>1, <2>7
    <3>2. /\ DOMAIN script'.moved = 1..(Len(script.moved) + 1) /\ DOMAIN script.moved = 1..Len(script.moved)
          /\ Len(script.moved) \in Nat
          /\ script'.moved[Len(script.moved) + 1] = M!Here
          /\ \A n \in DOMAIN script.moved : script'.moved[n] = script.moved[n] /\ script.moved[n] # M!Here
      BY <1>2, <2>1, <2>2, <3>1 DEF M!Range
    <3>3. \A m, n \in DOMAIN script'.moved : m # n => script'.moved[m] # script'.moved[n]
      BY <1>3, <3>2
    <3>4. \A n \in DOMAIN script'.moved : MovedNow(script'.moved[n])
      <4>1. before[M!Here] # <<>> => runtime[M!Here] = before[M!Here]
        BY <1>3, <2>1, <2>2
      <4>2. ASSUME NEW n \in DOMAIN script.moved
            PROVE MovedNow(script'.moved[n])
        BY <1>1, <1>3, <2>1, <2>3, <3>2
      <4>3. MovedNow(M!Here)
        BY <2>1, <2>4, <2>7, <4>1
      <4> HIDE DEF MovedNow
      <4> QED BY <3>2, <4>2, <4>3
    <3>5. \A t \in Targets : t \notin M!Range(script'.moved) /\ before'[t] # <<>> => runtime'[t] = before'[t]
      <4>1. M!Range(script.moved) \cup {M!Here} \subseteq M!Range(script'.moved)
        BY <3>2 DEF M!Range
      <4> QED BY <1>3, <2>1, <2>3, <4>1
    <3> QED BY <1>1, <1>3, <2>1, <2>4, <2>5, <3>1, <3>3, <3>4, <3>5 DEF M!ScriptAgrees
  <2> QED BY <2>6, <2>7
<1>5. CASE M!MoveIn
  <2>1. /\ runtime' = [runtime EXCEPT ![M!Here] = <<plan.job>>] /\ backup' = backup
        /\ M!Here \in Targets /\ runtime[M!Here] = <<>>
        /\ script'.k = script.k + 1 /\ ~script'.aside /\ script'.moved = script.moved
        /\ script.k <= Len(plan.parts)
        /\ app' = "promote" /\ plan' = plan /\ before' = before
    BY <1>0, <1>1, <1>5 DEF M!MoveIn, M!AtPart, M!IInv, M!ScriptAgrees
  <2>2. M!Here = plan'.parts[script'.k - 1]
    BY <1>2, <2>1 DEF M!Here
  <2>3. \A t \in Targets : t # M!Here => runtime'[t] = runtime[t]
    BY <1>2, <2>1
  <2>4. runtime'[M!Here] = <<plan.job>>
    BY <1>2, <2>1
  <2>5. \A n \in DOMAIN script'.moved : MovedNow(script'.moved[n])
    BY <1>1, <1>3, <2>1, <2>3, <2>4
  <2>6. \A t \in Targets : t \notin M!Range(script'.moved) /\ before'[t] # <<>> => runtime'[t] = before'[t]
    BY <1>3, <2>1, <2>3
  <2> QED BY <1>1, <1>2, <1>3, <2>1, <2>2, <2>4, <2>5, <2>6 DEF M!ScriptAgrees
<1>6. CASE M!Complete
  BY <1>0, <1>1, <1>3, <1>6 DEF M!Complete, M!installed, M!ScriptAgrees, M!Here, M!IInv
<1>7. CASE M!RemovePlan \/ M!GiveUp \/ M!Kill
  BY <1>7 DEF M!RemovePlan, M!GiveUp, M!Kill, M!ScriptAgrees, M!Scripted
<1>8. CASE M!Throw
  BY <1>0, <1>1, <1>3, <1>8 DEF M!Throw, M!installed, M!program, M!ScriptAgrees, M!Here
<1>9. CASE M!RollBack
  <2> DEFINE t == M!Last(script.moved)
  <2>0. app = "rollback" /\ app' = app /\ plan' = plan /\ before' = before /\ script.moved # <<>>
    BY <1>9 DEF M!RollBack, M!program
  <2>1. /\ Len(script.moved) \in DOMAIN script.moved /\ t = script.moved[Len(script.moved)]
        /\ t \in Targets /\ Moved(t)
    BY <1>1, <1>2, <1>3, <2>0 DEF M!Last
  <2>2. CASE runtime' = [runtime EXCEPT ![t] = <<>>] /\ UNCHANGED <<backup, script>> /\ runtime[t] # <<>>
    <3> HIDE DEF t
    <3>1. runtime'[t] = <<>> /\ (\A u \in Targets : u # t => runtime'[u] = runtime[u])
      BY <1>2, <2>1, <2>2
    <3>2. t \in M!Range(script'.moved)
      BY <2>1, <2>2 DEF M!Range
    <3>3. \A n \in DOMAIN script'.moved : MovedNow(script'.moved[n])
      BY <1>1, <1>3, <2>0, <2>2, <3>1
    <3>4. \A u \in Targets : u \notin M!Range(script'.moved) /\ before'[u] # <<>> => runtime'[u] = before'[u]
      BY <1>3, <2>0, <2>2, <3>1, <3>2
    <3> QED BY <1>1, <1>3, <2>0, <2>2, <3>3, <3>4 DEF M!ScriptAgrees
  <2>3. CASE /\ runtime' = [runtime EXCEPT ![t] = backup[t][plan.job]]
             /\ backup' = [backup EXCEPT ![t][plan.job] = <<>>]
             /\ script' = [k |-> script.k, aside |-> script.aside, moved |-> M!Front(script.moved)]
    <3>1. /\ DOMAIN script'.moved = 1..(Len(script.moved) - 1) /\ DOMAIN script.moved = 1..Len(script.moved)
          /\ Len(script.moved) \in Nat \ {0}
          /\ \A n \in DOMAIN script'.moved : script'.moved[n] = script.moved[n]
      BY <1>2, <2>0, <2>3 DEF M!Front
    <3>2. \A n \in DOMAIN script'.moved : script'.moved[n] # t /\ n \in DOMAIN script.moved
      BY <1>3, <2>1, <3>1
    <3>3. \A u \in M!Range(script.moved) : u = t \/ u \in M!Range(script'.moved)
      BY <2>1, <3>1 DEF M!Range
    <3> HIDE DEF t
    <3>4. runtime'[t] = backup[t][plan.job] /\ (\A u \in Targets : u # t => runtime'[u] = runtime[u] /\ backup'[u] = backup[u])
      BY <1>2, <2>1, <2>3
    <3>5. \A n \in DOMAIN script'.moved : MovedNow(script'.moved[n])
      BY <1>1, <1>3, <2>0, <3>1, <3>2, <3>4
    <3>6. \A u \in Targets : u \notin M!Range(script'.moved) /\ before'[u] # <<>> => runtime'[u] = before'[u]
      BY <1>3, <2>0, <2>1, <3>3, <3>4
    <3>7. \A m, n \in DOMAIN script'.moved : m # n => script'.moved[m] # script'.moved[n]
      BY <1>3, <3>1, <3>2
    <3> QED BY <1>1, <1>3, <2>0, <2>3, <3>5, <3>6, <3>7 DEF M!ScriptAgrees
  <2> QED BY <1>9, <2>2, <2>3 DEF M!RollBack
<1> QED BY <1>4, <1>5, <1>6, <1>7, <1>8, <1>9 DEF ScriptStep

(* A runtime that was found is installed or set aside.                     *)
LEMMA ScriptRuntime ==
  ASSUME M!UpdateAssumption, M!IInv, ScriptStep
  PROVE  M!RuntimeKept'
<1>0. M!Scripted
  BY DEF ScriptStep, M!SetAside, M!MoveIn, M!Complete, M!RemovePlan, M!Throw, M!RollBack,
     M!GiveUp, M!Kill, M!AtPart, M!Scripted
<1>1. /\ plan.job \in M!Jobs /\ (M!AtPart => M!Here \in Targets)
      /\ <<plan.job>> # <<>>
      /\ \A n \in DOMAIN script.moved : script.moved[n] \in Targets
  BY <1>0, ScriptAt
<1>2. /\ runtime \in [Targets -> M!Versions] /\ backup \in [Targets -> [M!Jobs -> M!Versions]]
      /\ script.moved \in Seq(Targets)
      /\ \A t \in Targets : before[t] # <<>> =>
           runtime[t] # <<>> \/ \E j \in M!Jobs : backup[t][j] # <<>>
  BY DEF M!IInv, M!Typed, M!RuntimeKept
<1>3. before' = before
  BY DEF ScriptStep, M!SetAside, M!MoveIn, M!Complete, M!RemovePlan, M!Throw, M!RollBack,
     M!GiveUp, M!Kill, M!installed
<1>4. \A t \in Targets : before[t] # <<>> =>
           runtime'[t] # <<>> \/ \E j \in M!Jobs : backup'[t][j] # <<>>
  <2>1. CASE M!SetAside
    <3>1. /\ runtime' = [runtime EXCEPT ![M!Here] = <<>>]
          /\ backup' = [backup EXCEPT ![M!Here][plan.job] = runtime[M!Here]]
          /\ M!Here \in Targets /\ backup[M!Here][plan.job] = <<>>
      BY <1>1, <2>1 DEF M!SetAside, M!Blocked
    <3>2. \A t \in Targets : t # M!Here => runtime'[t] = runtime[t] /\ backup'[t] = backup[t]
      BY <1>2, <3>1
    <3>3. /\ backup'[M!Here][plan.job] = runtime[M!Here]
          /\ \A j \in M!Jobs : j # plan.job => backup'[M!Here][j] = backup[M!Here][j]
      BY <1>1, <1>2, <3>1
    <3>4. before[M!Here] # <<>> => \E j \in M!Jobs : backup'[M!Here][j] # <<>>
      BY <1>1, <1>2, <3>1, <3>3
    <3> QED BY <1>2, <3>2, <3>4
  <2>2. CASE M!MoveIn
    BY <1>1, <1>2, <2>2 DEF M!MoveIn
  <2>3. CASE M!RollBack
    <3> DEFINE t == M!Last(script.moved)
    <3>1. Len(script.moved) \in DOMAIN script.moved /\ t = script.moved[Len(script.moved)] /\ t \in Targets
      BY <1>1, <1>2, <2>3 DEF M!RollBack, M!Last
    <3>2. backup[t][plan.job] # <<>>
      BY <1>0, <3>1 DEF M!IInv, M!ScriptAgrees
    <3>3. CASE runtime' = [runtime EXCEPT ![t] = <<>>] /\ UNCHANGED <<backup, script>>
      <4> HIDE DEF t
      <4> QED BY <1>1, <1>2, <3>1, <3>2, <3>3
    <3>4. CASE /\ runtime' = [runtime EXCEPT ![t] = backup[t][plan.job]]
               /\ backup' = [backup EXCEPT ![t][plan.job] = <<>>]
      <4> HIDE DEF t
      <4> QED BY <1>1, <1>2, <3>1, <3>2, <3>4
    <3> QED BY <2>3, <3>3, <3>4 DEF M!RollBack
  <2>4. CASE M!Complete \/ M!RemovePlan \/ M!Throw \/ M!GiveUp \/ M!Kill
    BY <1>2, <2>4 DEF M!Complete, M!RemovePlan, M!Throw, M!GiveUp, M!Kill, M!installed
  <2> QED BY <2>1, <2>2, <2>3, <2>4 DEF ScriptStep
<1>5. app' = "rollback" /\ script'.moved = <<>> => \A t \in Targets : before[t] # <<>> => runtime'[t] = before[t]
  BY <1>3, ScriptAgreement DEF M!ScriptAgrees, M!Scripted, M!Range
<1> QED BY <1>3, <1>4, <1>5 DEF M!RuntimeKept

(* The app stops for the update, and its jobs with it.                     *)
LEMMA StopStep ==
  ASSUME M!UpdateAssumption, M!IInv, M!Stop
  PROVE  M!IInv'
<1>1. M!Typed'
  <2>1. M!NoJob \in [at : {M!None, "queued", "orphan", "downloading", "validating", "planned",
                            "restart_required", "validated", "failed", "cancelled"},
                      parts : M!Parts \cup {<<>>}, k : Nat \ {0}, cancel : BOOLEAN]
    BY DEF M!NoJob, M!NewJob
  <2>2. job' = [j \in M!Jobs |-> M!NoJob]
    BY DEF M!Stop
  <2> HIDE DEF M!NoJob
  <2> QED BY <2>1, <2>2 DEF M!IInv, M!Typed, M!Stop, M!installed
<1>2. M!RecordFollows'
  <2>1. M!NoJob.at = M!None
    BY DEF M!NoJob, M!NewJob
  <2> QED BY <2>1 DEF M!IInv, M!RecordFollows, M!Stop, M!installed, M!Installed, M!None
<1>3. M!ScriptAgrees' /\ M!Witnessed' /\ M!RuntimeKept'
  BY DEF M!IInv, M!ScriptAgrees, M!Scripted, M!Witnessed, M!RuntimeKept, M!Stop, M!installed,
     M!Installed
<1> QED BY <1>1, <1>2, <1>3 DEF M!IInv

(* The script starts with the plan it finds.                               *)
LEMMA StartStep ==
  ASSUME M!UpdateAssumption, M!IInv, M!Start
  PROVE  M!IInv'
<1>0. /\ script'.k = 1 /\ ~script'.aside /\ script'.moved = <<>> /\ before' = runtime
      /\ UNCHANGED <<runtime, backup, job, record, plan, staged>>
      /\ app = "down" /\ app' = IF plan = M!NoPlan THEN "up" ELSE "promote"
  BY DEF M!Start, M!program
<1>1. M!Typed'
  BY DEF M!IInv, M!Typed, M!Start, M!program
<1>2. M!RecordFollows'
  BY <1>0 DEF M!IInv, M!RecordFollows, M!Installed, M!NoPlan, M!Jobs
<1>3. M!ScriptAgrees'
  <2>1. CASE plan = M!NoPlan
    BY <1>0, <2>1 DEF M!ScriptAgrees, M!Scripted
  <2>2. CASE plan # M!NoPlan
    <3>1. Len(plan.parts) \in Nat
      BY <2>2, PartsLong DEF M!IInv, M!Typed
    <3> QED BY <1>0, <2>2, <3>1 DEF M!ScriptAgrees
  <2> QED BY <2>1, <2>2
<1>4. M!Witnessed' /\ M!RuntimeKept'
  BY <1>0 DEF M!IInv, M!Witnessed, M!RuntimeKept, M!Installed
<1> QED BY <1>1, <1>2, <1>3, <1>4 DEF M!IInv

LEMMA UpdateStep ==
  ASSUME M!UpdateAssumption, M!IInv, M!Next
  PROVE  M!IInv'
<1>1. CASE \E j \in M!Jobs : ServiceStep(j)
  BY <1>1, ServiceStepOK
<1>2. CASE ScriptStep
  BY <1>2, ScriptTyped, ScriptFollows, ScriptWitnessed, ScriptAgreement, ScriptRuntime DEF M!IInv
<1> QED BY <1>1, <1>2, StopStep, StartStep DEF M!Next, ServiceStep, ScriptStep

LEMMA UpdateStill ==
  ASSUME M!IInv, UNCHANGED <<app, job, record, plan, staged, runtime, backup, script, before>>
  PROVE  M!IInv'
BY DEF M!IInv, M!Typed, M!RecordFollows, M!ScriptAgrees, M!Scripted, M!Witnessed, M!RuntimeKept,
   M!Installed, M!Here

LEMMA UpdateInit ==
  ASSUME M!UpdateAssumption, M!Init
  PROVE  M!IInv
<1>0. /\ app = "down" /\ job = [j \in M!Jobs |-> M!NoJob] /\ record = [j \in M!Jobs |-> M!None]
      /\ plan = M!NoPlan /\ backup = [t \in Targets |-> [j \in M!Jobs |-> <<>>]]
      /\ script = [k |-> 1, aside |-> FALSE, moved |-> <<>>] /\ before = runtime
      /\ runtime \in [Targets -> {<<>>, <<0>>}]
  BY DEF M!Init
<1>1. M!Typed
  <2>1. M!NoJob \in [at : {M!None, "queued", "orphan", "downloading", "validating", "planned",
                            "restart_required", "validated", "failed", "cancelled"},
                      parts : M!Parts \cup {<<>>}, k : Nat \ {0}, cancel : BOOLEAN]
    BY DEF M!NoJob, M!NewJob
  <2>2. {<<>>, <<0>>} \subseteq M!Versions
    BY DEF M!Versions, M!UpdateAssumption
  <2>3. script \in [k : Nat \ {0}, aside : BOOLEAN, moved : Seq(Targets)]
    BY <1>0
  <2> HIDE DEF M!NoJob
  <2> QED BY <1>0, <2>1, <2>2, <2>3 DEF M!Typed
<1>2. M!RecordFollows
  <2>1. M!NoJob.at = M!None /\ plan.job = 0 /\ 0 \notin M!Jobs
    BY <1>0 DEF M!NoJob, M!NewJob, M!NoPlan, M!Jobs
  <2>2. \A v \in M!Installed : v \in {<<>>, <<0>>}
    BY <1>0 DEF M!Installed
  <2>3. \A j \in M!Jobs : <<j>> \notin M!Installed
    BY <2>2 DEF M!Jobs
  <2> QED BY <1>0, <2>1, <2>3 DEF M!RecordFollows, M!None
<1>3. M!ScriptAgrees /\ M!Witnessed /\ M!RuntimeKept
  BY <1>0 DEF M!ScriptAgrees, M!Scripted, M!Witnessed, M!RuntimeKept, M!None
<1> QED BY <1>1, <1>2, <1>3 DEF M!IInv

LEMMA UpdatePromised ==
  ASSUME M!UpdateAssumption, M!IInv
  PROVE  M!RuntimeKept /\ M!RecordTrue
<1>1. ASSUME NEW j \in M!Jobs, record[j] = "completed", plan.job # j
      PROVE  \E t \in Targets : \E v \in {runtime[t]} \cup {backup[t][i] : i \in M!Jobs} : v # <<>> /\ v[1] >= j
  <2>1. PICK v \in M!Installed : v # <<>> /\ v[1] >= j
    BY <1>1 DEF M!IInv, M!Witnessed
  <2>2. PICK t \in Targets : v = runtime[t] \/ \E i \in M!Jobs : v = backup[t][i]
    BY DEF M!Installed
  <2> QED BY <2>1, <2>2
<1>2. ASSUME NEW j \in M!Jobs, record[j] = "cancelled"
      PROVE  plan.job # j /\ \A t \in Targets : runtime[t] # <<j>>
  BY <1>2 DEF M!IInv, M!RecordFollows, M!Installed
<1> QED BY <1>1, <1>2 DEF M!IInv, M!RecordTrue

-----------------------------------------------------------------------------
(* Setup. A root certificate that is trusted is named by the marker or was *)
(* left by an undo that failed, and a runtime is there or set aside.       *)

(* What is trusted is named, or an undo could not take it back.            *)
LEMMA SetupRoots ==
  ASSUME S!IInv, S!Next
  PROVE  S!RootsNamed'
<1> USE DEF S!IInv, S!Typed, S!RootsNamed, S!Goto, S!Fault, S!Absent, S!directories, S!https
<1>1. CASE S!InstallRuntime \/ S!DropBackup \/ S!MoveAside \/ S!Promote \/ S!PutBack \/ S!CleanBackup
  BY <1>1 DEF S!InstallRuntime, S!DropBackup, S!MoveAside, S!Promote, S!PutBack, S!CleanBackup
<1>2. CASE S!InstallHttps \/ S!RemoveHttps \/ S!RemoveHosts
  BY <1>2 DEF S!InstallHttps, S!RemoveHttps, S!RemoveHosts
<1>3. CASE S!RemoveRoot
  BY <1>3 DEF S!RemoveRoot, S!Untrust
<1>4. CASE S!RemoveFiles
  BY <1>4 DEF S!RemoveFiles
<1>5. CASE S!RemoveMarker
  BY <1>5 DEF S!RemoveMarker
<1>6. CASE S!CreateCertificates \/ S!WriteMarker
  BY <1>6 DEF S!CreateCertificates, S!WriteMarker
<1>7. CASE S!Trust \/ S!MapHost \/ S!Verify
  BY <1>7 DEF S!Trust, S!MapHost, S!Verify
<1>8. CASE S!Undo \/ S!UndoHosts \/ S!Kill
  BY <1>8 DEF S!Undo, S!UndoHosts, S!Kill
<1>9. CASE S!UndoRoot
  BY <1>9 DEF S!UndoRoot, S!Untrust
<1> QED BY <1>1, <1>2, <1>3, <1>4, <1>5, <1>6, <1>7, <1>8, <1>9 DEF S!Next

(* A runtime is installed, or set aside while it is replaced.              *)
LEMMA SetupRuntime ==
  ASSUME S!IInv, S!Next
  PROVE  S!RuntimeThere' /\ S!Typed'
<1> USE DEF S!IInv, S!Typed, S!RuntimeThere, S!Goto, S!Fault, S!Absent, S!directories, S!https
<1>1. CASE S!InstallRuntime \/ S!DropBackup \/ S!MoveAside \/ S!Promote \/ S!PutBack \/ S!CleanBackup
  BY <1>1 DEF S!InstallRuntime, S!DropBackup, S!MoveAside, S!Promote, S!PutBack, S!CleanBackup
<1>2. CASE S!InstallHttps \/ S!RemoveHttps \/ S!RemoveHosts
  BY <1>2 DEF S!InstallHttps, S!RemoveHttps, S!RemoveHosts
<1>3. CASE S!RemoveRoot \/ S!RemoveFiles \/ S!RemoveMarker
  BY <1>3 DEF S!RemoveRoot, S!Untrust, S!RemoveFiles, S!RemoveMarker
<1>4. CASE S!CreateCertificates \/ S!WriteMarker
  BY <1>4 DEF S!CreateCertificates, S!WriteMarker
<1>5. CASE S!Trust \/ S!MapHost \/ S!Verify
  BY <1>5 DEF S!Trust, S!MapHost, S!Verify
<1>6. CASE S!Undo \/ S!UndoHosts \/ S!UndoRoot \/ S!Kill
  BY <1>6 DEF S!Undo, S!UndoHosts, S!UndoRoot, S!Untrust, S!Kill
<1> QED BY <1>1, <1>2, <1>3, <1>4, <1>5, <1>6 DEF S!Next

LEMMA SetupNext ==
  ASSUME S!IInv, S!Next
  PROVE  S!IInv'
BY SetupRoots, SetupRuntime DEF S!IInv

(* More faults elsewhere excuse more.                                      *)
LEMMA SetupStill ==
  ASSUME S!IInv, UNCHANGED <<step, commands, current, aside, store, thumbprint, stuck>>,
         faults' \in Nat, faults <= faults', faults' > faults => current # S!Absent
  PROVE  S!IInv'
BY DEF S!IInv, S!Typed, S!RootsNamed, S!RuntimeThere, S!Absent

LEMMA SetupInit ==
  ASSUME S!Init
  PROVE  S!IInv
BY DEF S!Init, S!IInv, S!Typed, S!RootsNamed, S!RuntimeThere, S!Absent

(* The invariant gives what is promised.                                   *)
LEMMA SetupPromised ==
  ASSUME S!IInv
  PROVE  S!SetupRecoverable
BY DEF S!IInv, S!Typed, S!RootsNamed, S!RuntimeThere, S!SetupRecoverable

-----------------------------------------------------------------------------
(* The scene.                                                              *)

(* The failures are counted by all parts.                                  *)
LEMMA FaultsGrow ==
  ASSUME faults \in Nat, \/ LaunchStep \/ MaintenanceStep \/ SetupStep
                         \/ RecognitionStep \/ TableStep \/ ArtifactStep \/ HistoryStep
                         \/ AnalysisStep \/ RecordsStep \/ UNCHANGED all
  PROVE  faults' \in Nat /\ faults <= faults'
<1>1. faults' \in {faults, faults + 1}
  <2>1. CASE M!Next
    BY <2>1 DEF M!Next, M!Apply, M!Begin, M!Cancelled, M!Download, M!Validate, M!WritePlan,
       M!RequireRestart,
                M!WriteAudit, M!FailJob, M!Cancel, M!Stop, M!Start, M!SetAside, M!MoveIn,
                M!Complete,
                M!RemovePlan, M!Throw, M!RollBack, M!GiveUp, M!Kill, M!Fault
  <2>2. CASE S!Next
    BY <2>2 DEF S!Next, S!InstallRuntime, S!DropBackup, S!MoveAside, S!Promote, S!PutBack,
       S!CleanBackup,
                S!InstallHttps, S!RemoveHttps, S!RemoveHosts, S!RemoveRoot, S!RemoveFiles,
                S!RemoveMarker,
                S!CreateCertificates, S!WriteMarker, S!Trust, S!MapHost, S!Verify, S!Undo,
                S!UndoHosts,
                S!UndoRoot, S!Untrust, S!Kill, S!Fault
  <2>3. CASE A!Next
    BY <2>3 DEF A!Next, A!Stage, A!Build, A!Decide, A!BuildFails, A!CopyArchive, A!WriteManifest,
       A!Withhold,
                A!MoveAside, A!Rename, A!Restore, A!Clean, A!Die, A!Fault
  <2>4. CASE H!Next
    BY <2>4 DEF H!Next, H!Open, H!Create, H!CopyDatabase, H!CopyOutput, H!CommitMigration,
       H!Recover, H!Kill,
                H!Submit, H!Begin, H!Command, H!WriteArtifacts, H!SaveResult, H!Complete, H!Fail,
                H!Delete,
                H!Clear, H!DropRows, H!Remove, H!Export, H!Pack, H!Hash, H!Import, H!MoveIn,
                H!AddRow, H!Fault
  <2>5. CASE X!Next
    BY <2>5 DEF X!Next, X!Arrive, X!CreateCorrection, X!UpdateCorrection, X!UpsertItem, X!SavePack,
                X!ExportPack, X!Delete, X!papers
  <2>6. CASE UNCHANGED faults
    BY <2>6
  <2> QED BY <2>1, <2>2, <2>3, <2>4, <2>5, <2>6
             DEF LaunchStep, MaintenanceStep, SetupStep, RecognitionStep, TableStep, ArtifactStep,
                 HistoryStep, AnalysisStep, RecordsStep, others, all
<1> QED BY <1>1

Kept ==
  /\ IInv /\ M!IInv /\ S!IInv
  /\ focus # "setup" => current # S!Absent

Assumed == ComputerAssumption

(* Each part begins as its module says, or with nothing under way.         *)
LEMMA SceneBegins ==
  ASSUME Assumed, SceneInit
  PROVE  Kept
<1>1. IInv
  <2>1. CASE focus = "launch"
    BY <2>1, LaunchInit DEF SceneInit, Init, Assumed, ComputerAssumption
  <2>2. CASE focus # "launch"
    <3>1. NoLaunch
      BY <2>2 DEF SceneInit
    <3>2. target = [f \in Files |-> IF f \in own THEN "own" ELSE Missing]
      BY <3>1 DEF NoLaunch
    <3> QED BY <3>1, <3>2, LaunchInit DEF NoLaunch, Assumed, ComputerAssumption
  <2> QED BY <2>1, <2>2
<1>2. M!IInv
  BY UpdateInit DEF SceneInit, Assumed, ComputerAssumption
<1>3. S!IInv /\ current # S!Absent
  <2>1. S!Init
    BY DEF SceneInit
  <2>2. S!IInv
    BY <2>1, SetupInit
  <2>3. current = 1
    BY <2>1 DEF S!Init
  <2> QED BY <2>2, <2>3 DEF S!Absent
<1> QED BY <1>1, <1>2, <1>3 DEF Kept

(* Every step of the scene keeps the invariants of its parts.              *)
LEMMA SceneStep ==
  ASSUME Assumed, Kept,
         \/ LaunchStep \/ MaintenanceStep \/ SetupStep
         \/ RecognitionStep \/ TableStep \/ ArtifactStep \/ HistoryStep
         \/ AnalysisStep \/ RecordsStep \/ UNCHANGED all
  PROVE  Kept'
<1>1. faults' \in Nat /\ faults <= faults'
  BY FaultsGrow DEF Kept, S!IInv, S!Typed
<1>2. focus' = focus
  BY DEF LaunchStep, MaintenanceStep, SetupStep, RecognitionStep, TableStep, ArtifactStep,
         HistoryStep, AnalysisStep, RecordsStep, all
<1>3. IInv'
  <2>1. CASE LaunchStep
    BY <2>1, LaunchNext DEF LaunchStep, Kept, Assumed, ComputerAssumption
  <2>2. CASE ~LaunchStep
    <3>1. UNCHANGED <<host, server, lock, gaveUp, legacy, target, copying, marker, own, deleted>>
      BY <2>2 DEF MaintenanceStep, SetupStep, RecognitionStep, TableStep, ArtifactStep, HistoryStep,
                  AnalysisStep, RecordsStep, all, vars, launch
    <3> QED BY <3>1, LaunchStill DEF Kept
  <2> QED BY <2>1, <2>2
<1>4. M!IInv'
  <2>1. CASE MaintenanceStep
    BY <2>1, UpdateStep DEF MaintenanceStep, Kept, Assumed, ComputerAssumption
  <2>2. CASE ~MaintenanceStep
    <3>1. UNCHANGED maintenance
      BY <2>2 DEF LaunchStep, SetupStep, RecognitionStep, TableStep, ArtifactStep, HistoryStep,
                  AnalysisStep, RecordsStep, all, others
    <3> QED BY <3>1, UpdateStill DEF Kept, maintenance
  <2> QED BY <2>1, <2>2
<1>5. S!IInv' /\ (focus' # "setup" => current' # S!Absent)
  <2>1. CASE SetupStep
    BY <1>2, <2>1, SetupNext DEF SetupStep, Kept
  <2>2. CASE ~SetupStep
    <3>1. UNCHANGED setup
      BY <2>2 DEF LaunchStep, MaintenanceStep, RecognitionStep, TableStep, ArtifactStep,
         HistoryStep,
                  AnalysisStep, RecordsStep, all, others
    <3>2. focus = "setup" => faults' = faults
      BY <2>2 DEF LaunchStep, MaintenanceStep, RecognitionStep, TableStep, ArtifactStep,
         HistoryStep,
                  AnalysisStep, RecordsStep, all, others
    <3>3. faults' > faults => current # S!Absent
      BY <1>1, <3>2 DEF Kept, S!IInv, S!Typed
    <3> QED BY <1>1, <1>2, <3>1, <3>3, SetupStill DEF Kept, setup
  <2> QED BY <2>1, <2>2
<1> QED BY <1>2, <1>3, <1>4, <1>5 DEF Kept

LEMMA SceneKeeps == Assumed /\ Scene => [](Kept /\ Assumed)
<1> DEFINE Steps == \/ LaunchStep \/ MaintenanceStep \/ SetupStep
                    \/ RecognitionStep \/ TableStep \/ ArtifactStep \/ HistoryStep
                    \/ AnalysisStep \/ RecordsStep
<1>1. Assumed /\ SceneInit => Kept
  BY SceneBegins
<1>2. Kept /\ Assumed /\ [Steps]_all => (Kept /\ Assumed)'
  <2>1. Assumed => Assumed'
    BY DEF Assumed, ComputerAssumption, LaunchAssumption, DesktopPrograms, Nobody,
       M!UpdateAssumption, R!ReadingAssumption, T!TableAssumption,
           A!ArtifactsAssumption, A!None, H!HistoryAssumption
  <2>2. Kept /\ Assumed /\ [Steps]_all => Kept'
    BY SceneStep
  <2> QED BY <2>1, <2>2
<1> QED BY <1>1, <1>2, PTL DEF Scene

(* Unless a host gave up waiting for its server, one program at most runs  *)
(* one; whatever dies, a migration loses and overwrites nothing.           *)
THEOREM ComputerLaunches == ComputerAssumption /\ Scene => []LaunchSound
<1>1. Kept /\ Assumed => LaunchSound
  BY LaunchPromised DEF Kept, Assumed
<1> QED BY <1>1, SceneKeeps, PTL DEF Assumed

(* Wherever the promotion script dies, a runtime it found is installed or  *)
(* in a backup, and after a roll-back it is back; a completed job's        *)
(* component, or a later one, is there, a cancelled job's is nowhere.      *)
THEOREM ComputerUpdates == ComputerAssumption /\ Scene => []UpdatesSound
<1>1. Kept /\ Assumed => UpdatesSound
  BY UpdatePromised DEF Kept, Assumed, ComputerAssumption, UpdatesSound
<1> QED BY <1>1, SceneKeeps, PTL DEF Assumed

(* Wherever a command of the bootstrapper fails or is killed, a later one  *)
(* can undo what it left.                                                  *)
THEOREM ComputerSetup == ComputerAssumption /\ Scene => []SetupRecoverable
<1>1. Kept /\ Assumed => SetupRecoverable
  BY SetupPromised DEF Kept, Assumed, SetupRecoverable
<1> QED BY <1>1, SceneKeeps, PTL DEF Assumed

-----------------------------------------------------------------------------
(* The reading of a document. The lines that an engine returned for a page *)
(* are told of as long as the page is at hand (PagesKept); those of the    *)
(* pages are in the result where the pages are (Combined).                 *)

(* The lines that an engine returns.                                       *)
LEMMA ReadLines ==
  ASSUME R!ReadingAssumption, NEW by \in {"first", "page_retry"}, NEW lines \in R!Passes(by)
  PROVE  lines \in Seq(R!Line) /\ \A i \in DOMAIN lines : lines[i].by = by
<1> DEFINE Read(n, d) == [i \in 1..n |-> [by |-> by, doubtful |-> d[i], retry |-> FALSE]]
<1>1. \E n \in 0..MaxLines, d \in [1..MaxLines -> BOOLEAN] : lines = Read(n, d)
  <2>1. lines \in {Read(n, d) : n \in 0..MaxLines, d \in [1..MaxLines -> BOOLEAN]}
    BY DEF R!Passes
  <2> QED BY ONLY <2>1, SMT
<1>2. ASSUME NEW n \in 0..MaxLines, NEW d \in [1..MaxLines -> BOOLEAN], lines = Read(n, d)
      PROVE  lines \in Seq(R!Line) /\ \A i \in DOMAIN lines : lines[i].by = by
  <2>1. n \in Nat /\ \A i \in 1..n : i \in 1..MaxLines
    BY DEF R!ReadingAssumption
  <2>2. \A i \in 1..MaxLines : d[i] \in BOOLEAN
    BY Zenon
  <2>3. \A i \in 1..n : [by |-> by, doubtful |-> d[i], retry |-> FALSE] \in R!Line
    BY <2>1, <2>2, Zenon DEF R!Line
  <2>4. lines \in [1..n -> R!Line]
    BY <1>2, <2>3, Zenon
  <2>5. lines \in Seq(R!Line)
    BY <2>1, <2>4
  <2>6. \A i \in DOMAIN lines : lines[i].by = by
    BY <1>2, Zenon
  <2> QED BY <2>5, <2>6
<1> QED BY <1>1, <1>2

(* How the steps move the marker.                                          *)
LEMMA ReadingInit ==
  ASSUME R!ReadingAssumption, R!Init \/ NoDocument
  PROVE  R!IInv
<1>1. /\ at = "start" /\ page = R!NoPage /\ pages = <<>> /\ kept = <<>> /\ result = R!NoResult
      /\ cancel = "no" /\ truth = <<>>
      /\ input.count \in Nat \ {0}
  <2>1. CASE NoDocument
    BY <2>1 DEF NoDocument
  <2>2. CASE R!Init
    <3>1. /\ at = "start" /\ page = R!NoPage /\ pages = <<>> /\ kept = <<>> /\ result = R!NoResult
          /\ cancel = "no" /\ truth = <<>> /\ input \in [pdf : BOOLEAN, count : 1..MaxPages]
      BY <2>2 DEF R!Init
    <3>2. input.count \in 1..MaxPages
      BY <3>1, Zenon
    <3> QED BY <3>1, <3>2 DEF R!ReadingAssumption
  <2> QED BY <2>1, <2>2
<1>2. ~R!Verifying /\ flow \in [asked : R!Flows, now : {"text", "structure"}]
  BY DEF R!Init, NoDocument, R!Verifying, R!Flows
<1>3. R!Typed
  BY <1>1, <1>2 DEF R!Typed, R!NoPage, R!NoResult, R!PageRead
<1>4. R!PagesKept /\ R!Counted /\ R!Returned
  BY <1>1, <1>2 DEF R!PagesKept, R!Counted, R!Returned, R!AtHand, R!Own, R!NoResult
<1> QED BY <1>3, <1>4 DEF R!IInv

(* The pages stay as they are told of while the marker moves among the     *)
(* steps that have a page at hand, or among the others.                    *)
LEMMA ReadingGoes ==
  ASSUME R!IInv, NEW goal, R!Goto(goal), goal \notin {"page_retry", "retrying_page", "over"},
         at # "over", R!AtHand' = R!AtHand
  PROVE  R!Typed' /\ R!PagesKept'
<1>1. UNCHANGED <<flow, input, page, pages, kept, result, cancel, truth>> /\ at' = goal
  BY DEF R!Goto
<1>2. R!Typed'
  BY <1>1 DEF R!IInv, R!Typed
<1>3. R!Own' = R!Own /\ R!Verifying' = R!Verifying
  BY <1>1 DEF R!Own, R!Verifying
<1>4. \A done, k : R!Holds(done, k)' = R!Holds(done, k)
  BY <1>1 DEF R!Holds, R!Unread, R!Reread, R!Text
<1> QED BY <1>1, <1>2, <1>3, <1>4 DEF R!IInv, R!PagesKept, R!Holds, R!Unread, R!Reread, R!Text

LEMMA ReadingMoves ==
  ASSUME R!IInv,
         \/ R!Start \/ R!Inspect \/ R!NextPage \/ R!Render \/ R!Rendered \/ R!Recognize
         \/ R!Regions \/ R!RegionRetry \/ R!Completed \/ R!PagesDone \/ R!Finalize
  PROVE  R!IInv'
<1>1. PICK goal : R!Goto(goal) /\ goal = at'
  BY DEF R!Start, R!Inspect, R!NextPage, R!Render, R!Rendered, R!Recognize,
         R!Regions, R!RegionRetry, R!Completed, R!PagesDone, R!Finalize, R!Goto
<1>2. UNCHANGED <<flow, input, page, pages, kept, result, cancel, truth>>
  BY <1>1 DEF R!Goto
<1>3. R!Verifying' = R!Verifying /\ R!AtHand' = R!AtHand
  BY <1>2 DEF R!Verifying, R!AtHand, R!Start, R!Inspect, R!NextPage, R!Render, R!Rendered,
     R!Recognize, R!Regions, R!RegionRetry, R!Completed, R!PagesDone, R!Finalize, R!Goto, R!Past
<1>4. at # "over" /\ at' \notin {"page_retry", "retrying_page", "over"}
  BY DEF R!Start, R!Inspect, R!NextPage, R!Render, R!Rendered, R!Recognize, R!Regions,
         R!RegionRetry, R!Completed, R!PagesDone, R!Finalize, R!Goto, R!Past
<1>5. R!Typed' /\ R!PagesKept'
  BY <1>1, <1>3, <1>4, ReadingGoes
<1>6. R!Counted'
  <2>1. Len(pages) \in Nat /\ input.count \in Nat \ {0} /\ (pages = <<>> => Len(pages) = 0)
    BY DEF R!IInv, R!Typed
  <2> QED BY <1>2, <1>3, <2>1 DEF R!IInv, R!Counted, R!AtHand, R!Start, R!Inspect, R!NextPage, R!Render,
     R!Rendered, R!Recognize, R!Regions, R!RegionRetry, R!Completed, R!PagesDone, R!Finalize, R!Goto, R!Past
<1>7. R!Returned'
  <2>1. at \notin {"combine", "over"} /\ result = R!NoResult
    BY DEF R!IInv, R!Returned, R!Start, R!Inspect, R!NextPage, R!Render, R!Rendered, R!Recognize, R!Regions,
         R!RegionRetry, R!Completed, R!PagesDone, R!Finalize, R!Goto, R!Past
  <2>2. at' = "combine" => cancel # "asked"
    BY DEF R!Start, R!Inspect, R!NextPage, R!Render, R!Rendered, R!Recognize, R!Regions,
         R!RegionRetry, R!Completed, R!PagesDone, R!Finalize, R!Goto, R!Past
  <2>3. R!Combined'
    BY <1>2, <2>1 DEF R!Combined, R!NoResult, R!Cursor, R!IInv, R!Typed
  <2> QED BY <1>2, <1>4, <2>1, <2>2, <2>3 DEF R!Returned, R!NoResult
<1> QED BY <1>5, <1>6, <1>7 DEF R!IInv

(* A document that is read keeps its pages and their truth.                *)
LEMMA ReadingAsk ==
  ASSUME R!IInv, R!Ask
  PROVE  R!IInv'
<1>1. UNCHANGED <<flow, input, at, page, pages, kept, result, truth>>
  BY DEF R!Ask
<1>2. R!Typed' /\ R!PagesKept' /\ R!Counted'
  <2>1. R!Typed' /\ R!Counted'
    BY <1>1 DEF R!IInv, R!Typed, R!Counted, R!AtHand, R!Verifying
  <2>2. R!PagesKept' = R!PagesKept
    BY <1>1 DEF R!PagesKept, R!AtHand, R!Own, R!Verifying, R!Holds, R!Unread, R!Reread, R!Text
  <2> QED BY <2>1, <2>2 DEF R!IInv
<1>3. R!Combined' = R!Combined /\ R!Verifying' = R!Verifying
  BY <1>1 DEF R!Combined, R!Cursor, R!Verifying
<1>4. R!Returned'
  BY <1>1, <1>3 DEF R!IInv, R!Returned, R!Ask
<1> QED BY <1>2, <1>4 DEF R!IInv

LEMMA ReadingRaise ==
  ASSUME R!IInv, NEW goal \in {"cancelled", "failed"}, R!Raise(goal),
         UNCHANGED <<input, cancel, truth>>, at \notin {"combine", "over"}
  PROVE  R!IInv'
<1>1. CASE R!Verifying
  <2>1. /\ at' = "finalize" /\ pages' = kept /\ page' = R!NoPage
        /\ flow' = [flow EXCEPT !.now = "structure"] /\ UNCHANGED <<kept, result>>
    BY <1>1 DEF R!Raise
  <2>2. R!Typed'
    <3>1. page' \in R!PageRead
      BY <2>1 DEF R!NoPage, R!PageRead
    <3>2. flow' \in [asked : R!Flows, now : {"text", "structure"}]
      BY <2>1 DEF R!IInv, R!Typed
    <3> QED BY <2>1, <3>1, <3>2 DEF R!IInv, R!Typed
  <2>3. ~R!Verifying' /\ R!Own' = R!Own /\ ~R!AtHand'
    BY <1>1, <2>1, <2>2 DEF R!Verifying, R!Own, R!AtHand, R!Typed, R!IInv
  <2>4. R!PagesKept'
    BY <1>1, <2>1, <2>3 DEF R!IInv, R!PagesKept, R!Holds, R!Unread, R!Reread
  <2>5. R!Counted' /\ R!Returned'
    BY <1>1, <2>1, <2>3 DEF R!IInv, R!Counted, R!Returned, R!Own, R!AtHand, R!NoResult
  <2> QED BY <2>2, <2>4, <2>5 DEF R!IInv
<1>2. CASE ~R!Verifying
  <2>1. /\ at' = "over" /\ result' = [R!NoResult EXCEPT !.status = goal]
        /\ UNCHANGED <<flow, page, pages, kept>>
    BY <1>2 DEF R!Raise
  <2>2. R!Typed'
    <3>1. result' \in [status : {"none", "completed", "cancelled", "failed"}, lines : Seq(R!Line),
                        pages : Seq(R!Summaries), attempted : Nat, accepted : Nat]
      <4>1. result' = [status |-> goal, lines |-> <<>>, pages |-> <<>>, attempted |-> 0, accepted |-> 0]
        BY <2>1 DEF R!NoResult
      <4>2. <<>> \in Seq(R!Line) /\ <<>> \in Seq(R!Summaries)
        OBVIOUS
      <4> QED BY <4>1, <4>2
    <3> QED BY <2>1, <3>1 DEF R!IInv, R!Typed
  <2>3. ~R!Verifying' /\ R!Own' = R!Own /\ ~R!AtHand'
    BY <1>2, <2>1 DEF R!Verifying, R!Own, R!AtHand
  <2>4. R!PagesKept'
    BY <1>2, <2>1, <2>3 DEF R!IInv, R!PagesKept, R!Holds, R!Unread, R!Reread
  <2>5. R!Counted' /\ R!Returned'
    BY <1>2, <2>1, <2>3 DEF R!IInv, R!Counted, R!Returned, R!AtHand, R!NoResult
  <2> QED BY <2>2, <2>4, <2>5 DEF R!IInv
<1> QED BY <1>1, <1>2

(* A page that is read begins with its first reading.                      *)
LEMMA ReadingPredicted ==
  ASSUME R!ReadingAssumption, R!IInv, R!Predicted
  PROVE  R!IInv'
<1>1. PICK lines \in R!Passes("first") :
        /\ page' = [R!NoPage EXCEPT !.number = Len(pages) + 1, !.lines = lines]
        /\ truth' = IF R!Verifying THEN truth ELSE Append(truth, lines)
  BY DEF R!Predicted
<1>2. lines \in Seq(R!Line) /\ \A i \in DOMAIN lines : lines[i].by = "first"
  BY ReadLines DEF R!ReadingAssumption
<1>3. /\ at = "predicting" /\ at' \in {"append", "page_retry", "regions"}
      /\ UNCHANGED <<flow, input, pages, kept, result, cancel>>
  BY DEF R!Predicted
<1>4. page' = [number |-> Len(pages) + 1, lines |-> lines, attempted |-> 0, accepted |-> 0,
               original |-> <<>>]
  BY <1>1 DEF R!NoPage
<1>5. /\ pages \in Seq(R!PageRead) /\ truth \in Seq(Seq(R!Line)) /\ page' \in R!PageRead
  <2>1. <<>> \in Seq(R!Line) /\ pages \in Seq(R!PageRead) /\ truth \in Seq(Seq(R!Line))
    BY DEF R!IInv, R!Typed
  <2> QED BY <1>2, <1>4, <2>1 DEF R!PageRead
<1>6. truth' \in Seq(Seq(R!Line))
  BY <1>1, <1>2, <1>5
<1>7. R!Typed'
  BY <1>3, <1>6, <1>5 DEF R!IInv, R!Typed
<1>8. R!Verifying' = R!Verifying /\ R!Own' = R!Own /\ R!AtHand' /\ ~R!AtHand
  BY <1>3 DEF R!Verifying, R!Own, R!AtHand
<1>9. Len(truth) = Len(R!Own) /\ \A k \in DOMAIN R!Own : R!Holds(R!Own[k], k)
  BY <1>3, <1>5, <1>8 DEF R!IInv, R!PagesKept, R!AtHand, R!Typed, R!Own
<1>10. /\ \A k \in DOMAIN R!Own : truth'[k] = truth[k]
       /\ R!Verifying => Len(truth') = Len(R!Own)
       /\ ~R!Verifying => Len(truth') = Len(R!Own) + 1 /\ truth'[Len(pages) + 1] = lines
  BY <1>1, <1>2, <1>9, <1>5 DEF R!Own, R!IInv, R!Typed
<1>11. R!PagesKept'
  <2>1. \A k \in DOMAIN R!Own' : R!Holds(R!Own[k], k)'
    BY <1>8, <1>9, <1>10 DEF R!Holds, R!Unread, R!Reread, R!Text
  <2>2. ~R!Verifying => R!Holds(page, Len(pages) + 1)'
    BY <1>2, <1>3, <1>4, <1>10 DEF R!Holds, R!Unread
  <2>3. page'.accepted = 0 /\ (~R!Verifying => R!Unread(page, truth[Len(pages) + 1])')
    BY <1>2, <1>3, <1>4, <1>10 DEF R!Holds, R!Unread
  <2> QED BY <1>3, <1>8, <1>10, <2>1, <2>2, <2>3 DEF R!PagesKept
<1>12. R!Counted' /\ R!Returned'
  BY <1>3, <1>8 DEF R!IInv, R!Counted, R!Returned, R!AtHand, R!NoResult
<1> QED BY <1>7, <1>11, <1>12 DEF R!IInv

(* What is done to the page at hand.                                       *)
LEMMA ReadingAtHand ==
  ASSUME R!IInv, R!AtHand, at' \in {"retrying_page", "regions", "append"},
         UNCHANGED <<flow, input, pages, kept, result, cancel, truth>>, page' \in R!PageRead,
         ~R!Verifying => R!Holds(page, Len(pages) + 1)',
         at' = "retrying_page" =>
           /\ page'.accepted = 0 /\ page'.attempted = 1
           /\ ~R!Verifying => R!Unread(page, truth[Len(pages) + 1])'
  PROVE  R!IInv'
<1>1. R!Verifying' = R!Verifying /\ R!Own' = R!Own /\ R!AtHand' /\ at \notin {"over", "combine", "verify"}
  BY DEF R!Verifying, R!Own, R!AtHand
<1>2. R!Typed'
  BY DEF R!IInv, R!Typed
<1>3. \A k \in DOMAIN R!Own' : R!Holds(R!Own[k], k)'
  BY <1>1 DEF R!IInv, R!PagesKept, R!Holds, R!Unread, R!Reread, R!Text
<1>4. R!PagesKept'
  BY <1>1, <1>3 DEF R!IInv, R!PagesKept
<1>5. R!Counted' /\ R!Returned'
  BY <1>1 DEF R!IInv, R!Counted, R!Returned, R!AtHand, R!NoResult
<1> QED BY <1>2, <1>4, <1>5 DEF R!IInv

LEMMA ReadingRetries ==
  ASSUME R!ReadingAssumption, R!IInv, R!PageRetry \/ R!PageRetried \/ R!RegionsRetried
  PROVE  R!IInv'
<1> DEFINE first == truth[Len(pages) + 1]
<1>1. /\ page \in R!PageRead /\ Len(pages) \in Nat
      /\ UNCHANGED <<flow, input, pages, kept, result, cancel, truth>>
  <2>1. page \in R!PageRead /\ Len(pages) \in Nat
    BY DEF R!IInv, R!Typed
  <2>2. UNCHANGED <<flow, input, pages, kept, result, cancel, truth>>
    BY Zenon DEF R!PageRetry, R!PageRetried, R!RegionsRetried
  <2> QED BY <2>1, <2>2
<1>2. CASE R!PageRetry
  <2>1. at = "page_retry" /\ at' = "retrying_page" /\ page' = [page EXCEPT !.attempted = 1]
    BY <1>2 DEF R!PageRetry, R!Past
  <2>2. page.accepted = 0 /\ (~R!Verifying => R!Unread(page, first) /\ page.number = Len(pages) + 1)
    BY <2>1 DEF R!IInv, R!PagesKept, R!AtHand, R!Holds
  <2>3. page' \in R!PageRead /\ page'.attempted = 1 /\ page'.accepted = 0
        /\ page'.number = page.number /\ page'.lines = page.lines /\ page'.original = page.original
    BY <1>1, <2>1, <2>2 DEF R!PageRead
  <2>4. ~R!Verifying => R!Unread(page, truth[Len(pages) + 1])' /\ R!Holds(page, Len(pages) + 1)'
    BY <1>1, <2>2, <2>3 DEF R!Unread, R!Holds, R!Text
  <2> QED BY <1>1, <2>1, <2>3, <2>4, ReadingAtHand DEF R!AtHand
<1>3. CASE R!PageRetried
  <2>1. at = "retrying_page" /\ at' = "regions"
    BY <1>3 DEF R!PageRetried
  <2>2. page.accepted = 0 /\ page.attempted = 1
        /\ (~R!Verifying => R!Unread(page, first) /\ page.number = Len(pages) + 1)
    BY <2>1 DEF R!IInv, R!PagesKept, R!AtHand, R!Holds
  <2>3. CASE UNCHANGED page
    <3>1. ~R!Verifying => R!Holds(page, Len(pages) + 1)'
      BY <1>1, <2>2, <2>3 DEF R!Unread, R!Holds, R!Text
    <3> QED BY <1>1, <2>1, <2>3, <3>1, ReadingAtHand DEF R!AtHand
  <2>4. ASSUME NEW lines \in R!Passes("page_retry"), lines # <<>>,
               page' = [page EXCEPT !.lines = lines, !.accepted = 1, !.original = page.lines]
        PROVE  R!IInv'
    <3>1. lines \in Seq(R!Line) /\ \A i \in DOMAIN lines : lines[i].by = "page_retry"
      BY ReadLines
    <3>2. /\ page' \in R!PageRead /\ page'.accepted = 1 /\ page'.attempted = 1
          /\ page'.number = page.number /\ page'.lines = lines /\ page'.original = page.lines
      BY <1>1, <2>2, <2>4, <3>1 DEF R!PageRead
    <3>3. ~R!Verifying => R!Holds(page, Len(pages) + 1)'
      BY <1>1, <2>2, <2>4, <3>1, <3>2 DEF R!Unread, R!Reread, R!Holds, R!Text
    <3> QED BY <1>1, <2>1, <3>2, <3>3, ReadingAtHand DEF R!AtHand
  <2> QED BY <1>3, <2>3, <2>4 DEF R!PageRetried
<1>4. CASE R!RegionsRetried
  <2> DEFINE marked(better) == [i \in DOMAIN page.lines |-> [page.lines[i] EXCEPT !.retry = i \in better]]
  <2>1. PICK better \in SUBSET R!Flagged :
          page' = [page EXCEPT !.lines = marked(better), !.attempted = @ + Cardinality(R!Flagged),
                               !.accepted = @ + Cardinality(better)]
    <3>1. \A B : R!Cardinality(B) = Cardinality(B)
      BY DEF R!Cardinality, Cardinality
    <3>2. \E better \in SUBSET R!Flagged :
            page' = [page EXCEPT !.lines = marked(better), !.attempted = @ + R!Cardinality(R!Flagged),
                                 !.accepted = @ + R!Cardinality(better)]
      BY <1>4, Zenon DEF R!RegionsRetried
    <3> HIDE DEF marked
    <3> QED BY <3>1, <3>2, Zenon
  <2>2. at = "retrying_regions" /\ at' = "append"
    BY <1>4 DEF R!RegionsRetried
  <2>3. Cardinality(better) \in Nat /\ Cardinality(R!Flagged) \in Nat
        /\ Cardinality(better) <= Cardinality(R!Flagged)
    <3>1. page.lines \in Seq(R!Line)
      BY <1>1 DEF R!PageRead
    <3>2. IsFiniteSet(DOMAIN page.lines)
      BY <3>1, FS_Interval
    <3>3. IsFiniteSet(R!Flagged) /\ R!Flagged \subseteq DOMAIN page.lines
      BY <3>2, FS_Subset DEF R!Flagged
    <3> QED BY <3>3, FS_Subset, FS_CardinalityType
  <2>4. marked(better) \in Seq(R!Line) /\ DOMAIN marked(better) = DOMAIN page.lines
        /\ \A i \in DOMAIN page.lines : /\ marked(better)[i].by = page.lines[i].by
                                        /\ marked(better)[i].doubtful = page.lines[i].doubtful
    <3>1. page.lines \in Seq(R!Line)
      BY <1>1 DEF R!PageRead
    <3>2. ASSUME NEW i \in DOMAIN page.lines
          PROVE  LET new == [page.lines[i] EXCEPT !.retry = i \in better]
                 IN new \in R!Line /\ new.by = page.lines[i].by /\ new.doubtful = page.lines[i].doubtful
      <4>1. page.lines[i] \in R!Line /\ (i \in better) \in BOOLEAN
        BY <3>1
      <4> HIDE DEF marked
      <4> QED BY <4>1, Zenon DEF R!Line
    <3>3. Len(page.lines) \in Nat /\ DOMAIN page.lines = 1..Len(page.lines)
      BY <3>1
    <3>4. marked(better) \in [1..Len(page.lines) -> R!Line]
      BY <3>2, <3>3, Zenon
    <3> QED BY <3>2, <3>3, <3>4
  <2> HIDE DEF marked
  <2>5. /\ page' \in R!PageRead /\ page'.lines = marked(better) /\ page'.original = page.original
        /\ page'.accepted = page.accepted + Cardinality(better) /\ page'.number = page.number
        /\ page'.attempted = page.attempted + Cardinality(R!Flagged)
    <3>1. ASSUME NEW l \in Seq(R!Line), NEW m \in Nat, NEW n \in Nat,
                 page' = [page EXCEPT !.lines = l, !.attempted = @ + m, !.accepted = @ + n]
          PROVE  /\ page' \in R!PageRead /\ page'.lines = l /\ page'.original = page.original
                 /\ page'.accepted = page.accepted + n /\ page'.number = page.number
                 /\ page'.attempted = page.attempted + m
      <4>1. /\ page.number \in Nat /\ page.original \in Seq(R!Line)
            /\ page.attempted + m \in Nat /\ page.accepted + n \in Nat
        BY <1>1 DEF R!PageRead
      <4>2. page' = [number |-> page.number, lines |-> l, attempted |-> page.attempted + m,
                     accepted |-> page.accepted + n, original |-> page.original]
        BY <1>1, <3>1, Zenon DEF R!PageRead
      <4> QED BY <4>1, <4>2 DEF R!PageRead
    <3> QED BY <2>1, <2>3, <2>4, <3>1
  <2>6. R!Text(page'.lines) = R!Text(page.lines)
    BY <2>4, <2>5 DEF R!Text
  <2>7. page'.lines = <<>> <=> page.lines = <<>>
    BY <2>4, <2>5, <1>1 DEF R!PageRead
  <2>8. ~R!Verifying => R!Holds(page, Len(pages) + 1)
    BY <2>2 DEF R!IInv, R!PagesKept, R!AtHand
  <2>9. ~R!Verifying => R!Holds(page, Len(pages) + 1)'
    <3>1. page.accepted <= page.attempted => page'.accepted <= page'.attempted
      BY <1>1, <2>3, <2>5 DEF R!PageRead
    <3>2. R!Unread(page, first) => R!Unread(page, truth[Len(pages) + 1])'
      BY <1>1, <2>4, <2>5, <2>6 DEF R!Unread, R!Text
    <3>3. R!Reread(page, first) => R!Reread(page, truth[Len(pages) + 1])'
      BY <1>1, <2>4, <2>5, <2>6, <2>7 DEF R!Reread, R!Text
    <3> QED BY <1>1, <2>5, <2>8, <3>1, <3>2, <3>3 DEF R!Holds
  <2> QED BY <1>1, <2>2, <2>5, <2>9, ReadingAtHand DEF R!AtHand
<1> QED BY <1>2, <1>3, <1>4

(* A page that is done is the next of the pages.                           *)
LEMMA ReadingPageDone ==
  ASSUME R!IInv, R!PageDone
  PROVE  R!IInv'
<1>1. /\ at = "append" /\ pages' = Append(pages, page) /\ page' = R!NoPage /\ at' = "page_done"
      /\ UNCHANGED <<flow, input, kept, result, cancel, truth>>
  BY DEF R!PageDone
<1>2. pages \in Seq(R!PageRead) /\ page \in R!PageRead /\ page' \in R!PageRead
  <2>1. <<>> \in Seq(R!Line)
    OBVIOUS
  <2>2. page' \in R!PageRead
    BY <1>1, <2>1 DEF R!NoPage, R!PageRead
  <2> QED BY <2>2 DEF R!IInv, R!Typed
<1>3. /\ pages' \in Seq(R!PageRead) /\ Len(pages') = Len(pages) + 1
      /\ \A k \in DOMAIN pages' : pages'[k] = IF k = Len(pages) + 1 THEN page ELSE pages[k]
  BY <1>1, <1>2
<1>4. R!Typed'
  BY <1>1, <1>2, <1>3 DEF R!IInv, R!Typed
<1>5. R!Verifying' = R!Verifying /\ R!AtHand /\ ~R!AtHand'
  BY <1>1 DEF R!Verifying, R!AtHand
<1>6. R!PagesKept'
  <2>1. Len(truth) = Len(R!Own')
    <3>1. Len(truth) = Len(R!Own) + IF R!Verifying THEN 0 ELSE 1
      BY <1>1, <1>2, <1>5 DEF R!IInv, R!PagesKept, R!Typed, R!Own
    <3> QED BY <1>1, <1>2, <1>3, <1>5, <3>1 DEF R!Own
  <2>2. ASSUME NEW k \in DOMAIN R!Own' PROVE R!Holds(R!Own'[k], k)
    <3>1. CASE R!Verifying
      BY <1>1, <1>5, <3>1 DEF R!IInv, R!PagesKept, R!Own
    <3>2. CASE ~R!Verifying
      <4>1. k \in DOMAIN pages' /\ R!Own'[k] = pages'[k]
        BY <1>5, <3>2 DEF R!Own
      <4>2. CASE k = Len(pages) + 1
        BY <1>3, <1>5, <3>2, <4>1, <4>2 DEF R!IInv, R!PagesKept
      <4>3. CASE k # Len(pages) + 1
        <5>1. k \in DOMAIN R!Own /\ R!Own[k] = pages[k]
          BY <1>2, <1>3, <3>2, <4>1, <4>3 DEF R!Own
        <5> QED BY <1>3, <4>1, <4>3, <5>1 DEF R!IInv, R!PagesKept
      <4> QED BY <4>2, <4>3
    <3> QED BY <3>1, <3>2
  <2>3. \A k \in DOMAIN R!Own' : R!Holds(R!Own[k], k)'
    BY <1>1, <2>2 DEF R!Holds, R!Unread, R!Reread, R!Text
  <2> QED BY <1>1, <1>5, <2>1, <2>3 DEF R!PagesKept
<1>7. R!Counted'
  <2>1. ~R!Verifying => Len(pages) < input.count
    BY <1>5 DEF R!IInv, R!Counted
  <2> QED BY <1>1, <1>2, <1>3, <1>5, <2>1 DEF R!IInv, R!Counted, R!Typed
<1>8. R!Returned'
  BY <1>1, <1>5 DEF R!IInv, R!Returned, R!NoResult
<1> QED BY <1>4, <1>6, <1>7, <1>8 DEF R!IInv

(* The verification of tables puts the pages aside and takes them back.    *)
LEMMA ReadingVerify ==
  ASSUME R!IInv, R!Verify
  PROVE  R!IInv'
<1>1. /\ at = "verify" /\ at' = "start" /\ kept' = pages /\ pages' = <<>>
      /\ flow' = [flow EXCEPT !.now = "text"]
      /\ UNCHANGED <<input, page, result, cancel, truth>>
  BY DEF R!Verify, R!Past
<1>2. flow = [asked |-> "table", now |-> "structure"]
  BY <1>1 DEF R!IInv, R!Counted
<1>3. flow' = [asked |-> "table", now |-> "text"] /\ ~R!Verifying /\ R!Verifying'
  BY <1>1, <1>2 DEF R!Verifying
<1>4. R!Typed'
  <2>1. flow' \in [asked : R!Flows, now : {"text", "structure"}] /\ <<>> \in Seq(R!PageRead)
    BY <1>3 DEF R!Flows
  <2> QED BY <1>1, <2>1 DEF R!IInv, R!Typed
<1>5. R!Own' = R!Own /\ R!Own = pages /\ ~R!AtHand /\ ~R!AtHand'
  BY <1>1, <1>3 DEF R!Own, R!AtHand
<1>6. R!PagesKept'
  <2>1. \A k \in DOMAIN R!Own' : R!Holds(R!Own[k], k)'
    BY <1>1, <1>5 DEF R!IInv, R!PagesKept, R!Holds, R!Unread, R!Reread, R!Text
  <2> QED BY <1>1, <1>3, <1>5, <2>1 DEF R!IInv, R!PagesKept
<1>7. R!Counted' /\ R!Returned'
  BY <1>1, <1>3 DEF R!IInv, R!Counted, R!Returned, R!NoResult
<1> QED BY <1>4, <1>6, <1>7 DEF R!IInv

(* What stands where in two sequences, one after the other.                *)
LEMMA ReadJoined ==
  ASSUME NEW Any, NEW a \in Seq(Any), NEW b \in Seq(Any)
  PROVE  /\ a \o b \in Seq(Any) /\ Len(a \o b) = Len(a) + Len(b)
         /\ \A i \in 1..Len(a) : (a \o b)[i] = a[i]
         /\ \A i \in 1..Len(b) : (a \o b)[Len(a) + i] = b[i]
<1>1. a \o b \in Seq(Any) /\ Len(a \o b) = Len(a) + Len(b) /\ Len(a) \in Nat /\ Len(b) \in Nat
  BY ConcatProperties, LenProperties
<1>2. \A i \in 1..(Len(a) + Len(b)) : (a \o b)[i] = IF i <= Len(a) THEN a[i] ELSE b[i - Len(a)]
  BY ConcatProperties
<1> QED BY <1>1, <1>2

(* Each page is combined where the one before ends.                        *)
LEMMA ReadingCombinePage ==
  ASSUME R!IInv, R!CombinePage
  PROVE  R!IInv'
<1>1. PICK m : m = Len(result.pages)
  OBVIOUS
<1>2. PICK done : done = pages[m + 1]
  OBVIOUS
<1>3. PICK brief : brief = R!Summary(done)
  OBVIOUS
<1>4. /\ at = "combine" /\ ~R!Verifying /\ m < Len(pages)
      /\ result' = [result EXCEPT !.lines = @ \o done.lines, !.pages = Append(@, brief),
                                  !.attempted = @ + done.attempted, !.accepted = @ + done.accepted]
      /\ UNCHANGED <<flow, input, at, page, pages, kept, cancel, truth>>
  BY <1>1, <1>2, <1>3 DEF R!CombinePage
<1>5. /\ pages \in Seq(R!PageRead) /\ result.lines \in Seq(R!Line) /\ result.pages \in Seq(R!Summaries)
      /\ result.attempted \in Nat /\ result.accepted \in Nat /\ result.status = "none"
      /\ DOMAIN result = {"status", "lines", "pages", "attempted", "accepted"}
  BY <1>4 DEF R!IInv, R!Typed, R!Returned
<1>6. R!Combined /\ cancel # "asked" /\ Len(pages) = input.count /\ ~R!AtHand
  BY <1>4 DEF R!IInv, R!Returned, R!Counted, R!AtHand
<1>7. m \in Nat /\ m + 1 \in DOMAIN pages /\ done \in R!PageRead
  BY <1>1, <1>2, <1>4, <1>5
<1>8. /\ done.lines \in Seq(R!Line) /\ done.original \in Seq(R!Line) /\ done.attempted \in Nat
      /\ done.accepted \in Nat /\ done.number \in Nat
  BY <1>7 DEF R!PageRead
<1>9. done.number = m + 1 /\ done.accepted <= done.attempted
  BY <1>4, <1>7, <1>2 DEF R!IInv, R!PagesKept, R!Holds, R!Own
<1>10. PICK n \in Nat : n = Len(result.lines)
  BY <1>5
<1>11. PICK d \in Nat : d = Len(done.lines)
  BY <1>8
<1>12. R!Cursor = n
  BY <1>6, <1>10 DEF R!Combined
<1>13. DOMAIN result.lines = 1..n /\ DOMAIN done.lines = 1..d /\ n + d \in Nat
  BY <1>5, <1>8, <1>10, <1>11
<1>14. brief = [number |-> m + 1, start |-> n, end |-> n + d, original |-> done.original]
  BY <1>3, <1>9, <1>11, <1>12 DEF R!Summary
<1>15. brief \in R!Summaries /\ brief.number = m + 1 /\ brief.start = n /\ brief.end = n + d
       /\ brief.original = done.original
  BY <1>7, <1>8, <1>13, <1>14 DEF R!Summaries
<1>16. PICK lines : lines = result.lines \o done.lines
  OBVIOUS
<1>17. /\ lines \in Seq(R!Line) /\ Len(lines) = n + d
       /\ \A i \in 1..n : lines[i] = result.lines[i]
       /\ \A i \in 1..d : lines[n + i] = done.lines[i]
  <2>1. /\ lines \in Seq(R!Line) /\ Len(lines) = Len(result.lines) + Len(done.lines)
        /\ \A i \in 1..Len(result.lines) : lines[i] = result.lines[i]
        /\ \A i \in 1..Len(done.lines) : lines[Len(result.lines) + i] = done.lines[i]
    <3>1. result.lines \in Seq(R!Line) /\ done.lines \in Seq(R!Line)
      BY <1>5, <1>8
    <3>2. \A a, b \in Seq(R!Line) :
            /\ a \o b \in Seq(R!Line) /\ Len(a \o b) = Len(a) + Len(b)
            /\ \A i \in 1..Len(a) : (a \o b)[i] = a[i]
            /\ \A i \in 1..Len(b) : (a \o b)[Len(a) + i] = b[i]
      BY ReadJoined
    <3> QED BY <1>16, <3>1, <3>2, Zenon
  <2> QED BY <1>10, <1>11, <2>1, Zenon
<1>18. PICK briefs : briefs = Append(result.pages, brief)
  OBVIOUS
<1>19. /\ briefs \in Seq(R!Summaries) /\ Len(briefs) = m + 1 /\ briefs[m + 1] = brief
       /\ DOMAIN briefs = 1..(m + 1) /\ DOMAIN result.pages = 1..m /\ briefs # <<>>
       /\ \A k \in 1..m : briefs[k] = result.pages[k]
  BY <1>1, <1>5, <1>7, <1>15, <1>18
<1>20. result' = [status |-> "none", lines |-> lines, pages |-> briefs,
                  attempted |-> result.attempted + done.attempted,
                  accepted |-> result.accepted + done.accepted]
  <2>1. result \in [status : {"none", "completed", "cancelled", "failed"}, lines : Seq(R!Line),
                    pages : Seq(R!Summaries), attempted : Nat, accepted : Nat]
    BY DEF R!IInv, R!Typed
  <2> QED BY <1>4, <1>5, <1>16, <1>18, <2>1, Zenon
<1>21. /\ result'.status = "none" /\ result'.lines = lines /\ result'.pages = briefs
       /\ result'.accepted <= result'.attempted
  <2>1. result.accepted <= result.attempted
    BY <1>6 DEF R!Combined
  <2> QED BY <1>5, <1>8, <1>9, <1>20, <2>1
<1>22. R!Typed'
  <2>1. result.attempted + done.attempted \in Nat /\ result.accepted + done.accepted \in Nat
    BY <1>5, <1>8
  <2>2. result' \in [status : {"none", "completed", "cancelled", "failed"}, lines : Seq(R!Line),
                     pages : Seq(R!Summaries), attempted : Nat, accepted : Nat]
    BY <1>17, <1>19, <1>20, <2>1
  <2> QED BY <1>4, <2>2 DEF R!IInv, R!Typed
<1>23. R!PagesKept' /\ R!Counted'
  <2>1. R!PagesKept' = R!PagesKept
    BY <1>4 DEF R!PagesKept, R!AtHand, R!Own, R!Verifying, R!Holds, R!Unread, R!Reread, R!Text
  <2>2. R!Counted' = R!Counted
    BY <1>4 DEF R!Counted, R!AtHand, R!Verifying
  <2> QED BY <2>1, <2>2 DEF R!IInv
<1>24. ASSUME NEW k \in 1..(m + 1)
       PROVE  /\ briefs[k].number = k /\ briefs[k].original = pages[k].original
              /\ briefs[k].start = IF k = 1 THEN 0 ELSE briefs[k - 1].end
              /\ briefs[k].end = briefs[k].start + Len(pages[k].lines)
              /\ briefs[k].end <= n + d
              /\ \A i \in DOMAIN pages[k].lines : lines[briefs[k].start + i] = pages[k].lines[i]
  <2>1. CASE k = m + 1
    <3>1. briefs[k] = brief /\ pages[k] = done
      BY <1>2, <1>19, <2>1
    <3>2. n = IF k = 1 THEN 0 ELSE briefs[k - 1].end
      <4>1. CASE m = 0
        <5>1. k = 1
          BY <2>1, <4>1
        <5>2. result.pages = <<>>
          BY <1>1, <1>5, <4>1, EmptySeq, Zenon
        <5> QED BY <1>12, <5>1, <5>2 DEF R!Cursor
      <4>2. CASE m # 0
        <5>1. m \in 1..m /\ k # 1 /\ k - 1 = m /\ result.pages # <<>>
          BY <1>1, <1>7, <2>1, <4>2
        <5>2. R!Cursor = result.pages[m].end
          BY <1>1, <5>1 DEF R!Cursor, R!Last
        <5> QED BY <1>12, <1>19, <5>1, <5>2
      <4> QED BY <4>1, <4>2
    <3>3. n + d <= n + d
      BY <1>13
    <3>4. \A i \in DOMAIN done.lines : lines[n + i] = done.lines[i]
      BY <1>13, <1>17
    <3> QED BY <1>11, <1>15, <2>1, <3>1, <3>2, <3>3, <3>4
  <2>2. CASE k \in 1..m
    <3>1. briefs[k] = result.pages[k] /\ (k # 1 => briefs[k - 1] = result.pages[k - 1])
      <4>1. k # 1 => k - 1 \in 1..m
        BY <1>7, <2>2
      <4> QED BY <1>19, <2>2, <4>1
    <3>2. /\ result.pages[k].number = k /\ result.pages[k].original = pages[k].original
          /\ result.pages[k].start = IF k = 1 THEN 0 ELSE result.pages[k - 1].end
          /\ result.pages[k].end = result.pages[k].start + Len(pages[k].lines)
          /\ result.pages[k].end <= Len(result.lines)
          /\ \A i \in DOMAIN pages[k].lines :
               result.lines[result.pages[k].start + i] = pages[k].lines[i]
      BY <1>6, <1>19, <2>2, Zenon DEF R!Combined
    <3>3. PICK start \in Nat, end \in Nat, length \in Nat :
            /\ start = result.pages[k].start /\ end = result.pages[k].end
            /\ length = Len(pages[k].lines) /\ DOMAIN pages[k].lines = 1..length
      <4>1. result.pages[k] \in R!Summaries /\ pages[k] \in R!PageRead
        BY <1>1, <1>4, <1>5, <2>2
      <4>2. result.pages[k].start \in Nat /\ result.pages[k].end \in Nat /\ pages[k].lines \in Seq(R!Line)
        BY <4>1 DEF R!Summaries, R!PageRead
      <4>3. Len(pages[k].lines) \in Nat /\ DOMAIN pages[k].lines = 1..Len(pages[k].lines)
        BY <4>2
      <4> QED BY <4>2, <4>3, Zenon
    <3>4. end = start + length /\ end <= n
      BY <1>10, <3>2, <3>3
    <3>5. \A i \in 1..length : start + i \in 1..n
      BY <3>4
    <3>6. end <= n + d
      BY <3>4
    <3>7. \A i \in DOMAIN pages[k].lines : lines[start + i] = pages[k].lines[i]
      BY <1>17, <3>2, <3>3, <3>5, Zenon
    <3> QED BY <3>1, <3>2, <3>3, <3>6, <3>7
  <2> QED BY <1>7, <2>1, <2>2
<1>25. R!Combined'
  <2>1. Len(result'.pages) <= Len(pages')
    BY <1>4, <1>5, <1>7, <1>19, <1>21
  <2>2. Len(result'.lines) = R!Cursor'
    <3>1. R!Cursor' = n + d
      BY <1>15, <1>19, <1>21 DEF R!Cursor, R!Last
    <3> QED BY <1>17, <1>21, <3>1
  <2>3. \A k \in DOMAIN result'.pages :
          LET here == result'.pages[k]
          IN /\ here.number = k /\ here.original = pages'[k].original
             /\ here.start = IF k = 1 THEN 0 ELSE result'.pages[k - 1].end
             /\ here.end = here.start + Len(pages'[k].lines)
             /\ here.end <= Len(result'.lines)
             /\ \A i \in DOMAIN pages'[k].lines : result'.lines[here.start + i] = pages'[k].lines[i]
    <3>1. /\ DOMAIN result'.pages = 1..(m + 1) /\ result'.pages = briefs /\ pages' = pages
          /\ Len(result'.lines) = n + d /\ result'.lines = lines
      BY <1>4, <1>17, <1>19, <1>21
    <3> QED BY <1>24, <3>1
  <2> QED BY <1>21, <2>1, <2>2, <2>3, Zenon DEF R!Combined
<1>26. R!Returned'
  <2>1. at' = "combine" /\ ~R!Verifying' /\ cancel' # "asked"
    BY <1>4, <1>6 DEF R!Verifying
  <2> QED BY <1>21, <1>25, <2>1 DEF R!Returned
<1> QED BY <1>22, <1>23, <1>26 DEF R!IInv

LEMMA ReadingCombine ==
  ASSUME R!IInv, R!Combine
  PROVE  R!IInv'
<1>1. at = "combine" /\ UNCHANGED <<input, page, kept, cancel, truth>> /\ ~R!AtHand
  BY DEF R!Combine, R!AtHand
<1>2. CASE R!Verifying
  <2>1. /\ pages' = kept /\ at' = "finalize" /\ result' = result
        /\ flow' = [flow EXCEPT !.now = "structure"]
    BY <1>2 DEF R!Combine
  <2>2. flow' \in [asked : R!Flows, now : {"text", "structure"}] /\ flow'.now = "structure"
    BY <2>1 DEF R!IInv, R!Typed
  <2>3. R!Typed'
    BY <1>1, <2>1, <2>2 DEF R!IInv, R!Typed
  <2>4. ~R!Verifying' /\ R!Own' = R!Own /\ ~R!AtHand'
    BY <1>1, <1>2, <2>1, <2>2 DEF R!Verifying, R!Own, R!AtHand
  <2>5. R!PagesKept'
    BY <1>1, <2>1, <2>4 DEF R!IInv, R!PagesKept, R!Holds, R!Unread, R!Reread, R!Text
  <2>6. R!Counted' /\ R!Returned'
    BY <1>1, <1>2, <2>1, <2>4 DEF R!IInv, R!Counted, R!Returned, R!AtHand, R!NoResult
  <2> QED BY <2>3, <2>5, <2>6 DEF R!IInv
<1>3. CASE ~R!Verifying
  <2>1. /\ Len(result.pages) = Len(pages) /\ result' = [result EXCEPT !.status = "completed"]
        /\ at' = "over" /\ UNCHANGED <<flow, pages>>
    BY <1>3 DEF R!Combine
  <2>2. /\ result'.status = "completed" /\ result'.lines = result.lines /\ result'.pages = result.pages
        /\ result'.attempted = result.attempted /\ result'.accepted = result.accepted
        /\ result' \in [status : {"none", "completed", "cancelled", "failed"}, lines : Seq(R!Line),
                        pages : Seq(R!Summaries), attempted : Nat, accepted : Nat]
    BY <2>1 DEF R!IInv, R!Typed
  <2>3. R!Typed'
    BY <1>1, <2>1, <2>2 DEF R!IInv, R!Typed
  <2>4. ~R!Verifying' /\ R!Own' = R!Own /\ ~R!AtHand'
    BY <1>1, <1>3, <2>1 DEF R!Verifying, R!Own, R!AtHand
  <2>5. R!PagesKept'
    BY <1>1, <2>1, <2>4 DEF R!IInv, R!PagesKept, R!Holds, R!Unread, R!Reread, R!Text
  <2>6. R!Combined'
    <3>1. R!Combined
      BY <1>1, <1>3 DEF R!IInv, R!Returned
    <3> QED BY <2>1, <2>2, <3>1 DEF R!Combined, R!Cursor
  <2>7. R!Counted' /\ R!Returned'
    BY <1>1, <1>3, <2>1, <2>2, <2>4, <2>6 DEF R!IInv, R!Counted, R!Returned, R!AtHand
  <2> QED BY <2>3, <2>5, <2>7 DEF R!IInv
<1> QED BY <1>2, <1>3

(* Every step keeps the invariant, and so does what leaves a document.     *)
LEMMA ReadingStep ==
  ASSUME R!ReadingAssumption, R!IInv, R!Next
  PROVE  R!IInv'
<1>1. CASE R!Ask
  BY <1>1, ReadingAsk
<1>2. CASE R!Cancelled \/ R!Fail
  <2>1. /\ \E goal \in {"cancelled", "failed"} : R!Raise(goal)
        /\ UNCHANGED <<input, cancel, truth>> /\ at \notin {"combine", "over"}
    BY <1>2 DEF R!Cancelled, R!Fail, R!Checkpoints
  <2> QED BY <2>1, ReadingRaise
<1>3. CASE \/ R!Start \/ R!Inspect \/ R!NextPage \/ R!Render \/ R!Rendered \/ R!Recognize
           \/ R!Regions \/ R!RegionRetry \/ R!Completed \/ R!PagesDone \/ R!Finalize
  BY <1>3, ReadingMoves
<1>4. CASE R!Predicted
  BY <1>4, ReadingPredicted
<1>5. CASE R!PageRetry \/ R!PageRetried \/ R!RegionsRetried
  BY <1>5, ReadingRetries
<1>6. CASE R!PageDone \/ R!Verify \/ R!CombinePage \/ R!Combine
  BY <1>6, ReadingPageDone, ReadingVerify, ReadingCombinePage, ReadingCombine
<1> QED BY <1>1, <1>2, <1>3, <1>4, <1>5, <1>6 DEF R!Next

LEMMA ReadingStill ==
  ASSUME R!IInv, UNCHANGED recognition
  PROVE  R!IInv'
<1>1. UNCHANGED <<flow, input, at, page, pages, kept, result, cancel, truth>>
  BY DEF recognition
<1>2. R!Typed' = R!Typed /\ R!Counted' = R!Counted
  BY <1>1 DEF R!Typed, R!Counted, R!AtHand, R!Verifying
<1>3. R!PagesKept' = R!PagesKept
  BY <1>1 DEF R!PagesKept, R!AtHand, R!Own, R!Verifying, R!Holds, R!Unread, R!Reread, R!Text
<1>4. R!Returned' = R!Returned
  BY <1>1 DEF R!Returned, R!Combined, R!Cursor, R!Verifying
<1> QED BY <1>2, <1>3, <1>4 DEF R!IInv

(* What the invariant means for the result.                                *)
LEMMA ReadingPromised ==
  ASSUME R!IInv
  PROVE  R!EvidenceWhole /\ R!CancelHeeded
<1>1. R!CancelHeeded
  BY DEF R!IInv, R!Returned, R!CancelHeeded
<1>2. R!EvidenceWhole
  <2> DEFINE Page(k) == SubSeq(result.lines, result.pages[k].start + 1, result.pages[k].end)
  <2> SUFFICES ASSUME result.status = "completed"
               PROVE  /\ Len(result.pages) = input.count
                      /\ Len(result.lines) = R!Last(result.pages).end
                      /\ \A k \in 1..input.count :
                           LET reread == Page(k) # <<>> /\ Page(k)[1].by = "page_retry"
                           IN /\ result.pages[k].number = k
                              /\ result.pages[k].start = IF k = 1 THEN 0 ELSE result.pages[k - 1].end
                              /\ R!Text(IF reread THEN result.pages[k].original ELSE Page(k))
                                   = R!Text(truth[k])
                      /\ result.accepted <= result.attempted
    BY DEF R!EvidenceWhole
  <2>1. /\ R!Combined /\ Len(result.pages) = input.count /\ Len(pages) = input.count /\ ~R!Verifying
    BY DEF R!IInv, R!Returned
  <2>2. PICK n \in Nat \ {0} : /\ n = input.count
                               /\ DOMAIN result.pages = 1..n /\ DOMAIN pages = 1..n
                               /\ result.pages # <<>>
    BY <2>1 DEF R!IInv, R!Typed
  <2>3. Len(result.lines) = R!Last(result.pages).end
    BY <2>1, <2>2 DEF R!Combined, R!Cursor
  <2>4. ASSUME NEW k \in 1..n
        PROVE  LET reread == Page(k) # <<>> /\ Page(k)[1].by = "page_retry"
               IN R!Text(IF reread THEN result.pages[k].original ELSE Page(k)) = R!Text(truth[k])
    <3>1. /\ result.pages[k].original = pages[k].original
          /\ result.pages[k].end = result.pages[k].start + Len(pages[k].lines)
          /\ result.pages[k].end <= Len(result.lines)
          /\ \A i \in DOMAIN pages[k].lines :
               result.lines[result.pages[k].start + i] = pages[k].lines[i]
      BY <2>1, <2>2, Zenon DEF R!Combined
    <3>2. result.pages[k] \in R!Summaries /\ pages[k] \in R!PageRead /\ result.lines \in Seq(R!Line)
      BY <2>1, <2>2 DEF R!IInv, R!Typed
    <3>3. /\ result.pages[k].start \in Nat /\ result.pages[k].end \in Nat
          /\ pages[k].lines \in Seq(R!Line)
      BY <3>2 DEF R!Summaries, R!PageRead
    <3>4. Page(k) = pages[k].lines
      <4>1. PICK start \in Nat, end \in Nat, length \in Nat, size \in Nat :
              /\ start = result.pages[k].start /\ end = result.pages[k].end
              /\ length = Len(pages[k].lines) /\ size = Len(result.lines)
        <5>1. Len(pages[k].lines) \in Nat /\ Len(result.lines) \in Nat
          BY <3>2, <3>3, LenProperties
        <5> QED BY <3>3, <5>1, Zenon
      <4>2. end = start + length /\ end <= size
        BY <3>1, <4>1
      <4>3. SubSeq(result.lines, start + 1, end) = [i \in 1..length |-> result.lines[start + i]]
        <5>1. SubSeq(result.lines, start + 1, end)
                = [i \in 1..(end - (start + 1) + 1) |-> result.lines[i + (start + 1) - 1]]
          OBVIOUS
        <5>2. end - (start + 1) + 1 = length /\ \A i \in 1..length : i + (start + 1) - 1 = start + i
          BY <4>2
        <5> QED BY <5>1, <5>2
      <4>4. pages[k].lines = [i \in 1..length |-> pages[k].lines[i]] /\ DOMAIN pages[k].lines = 1..length
        BY <3>3, <4>1
      <4>5. \A i \in 1..length : result.lines[start + i] = pages[k].lines[i]
        BY <3>1, <4>1, <4>4, Zenon
      <4> QED BY <4>1, <4>3, <4>4, <4>5, Zenon
    <3>5. R!Holds(pages[k], k)
      BY <2>1, <2>2 DEF R!IInv, R!PagesKept, R!Own
    <3>6. CASE R!Unread(pages[k], truth[k])
      <4>1. pages[k].lines # <<>> => pages[k].lines[1].by # "page_retry"
        <5>1. pages[k].lines # <<>> => 1 \in DOMAIN pages[k].lines
          BY <3>3
        <5> QED BY <3>6, <5>1 DEF R!Unread
      <4> QED BY <3>4, <3>6, <4>1, Zenon DEF R!Unread
    <3>7. CASE R!Reread(pages[k], truth[k])
      <4>1. pages[k].lines # <<>> /\ pages[k].lines[1].by = "page_retry"
        <5>1. pages[k].lines # <<>> => 1 \in DOMAIN pages[k].lines
          BY <3>3
        <5> QED BY <3>7, <5>1 DEF R!Reread
      <4> QED BY <3>1, <3>4, <3>7, <4>1, Zenon DEF R!Reread
    <3> QED BY <3>5, <3>6, <3>7 DEF R!Holds
  <2>5. \A k \in 1..n : /\ result.pages[k].number = k
                        /\ result.pages[k].start = IF k = 1 THEN 0 ELSE result.pages[k - 1].end
    BY <2>1, <2>2, Zenon DEF R!Combined
  <2>6. result.accepted <= result.attempted
    BY <2>1 DEF R!Combined
  <2> HIDE DEF Page
  <2> QED BY <2>1, <2>2, <2>3, <2>4, <2>5, <2>6
<1> QED BY <1>1, <1>2

-----------------------------------------------------------------------------
(* A table. The cells that are closed have the slots that are taken        *)
(* (Parsing); arranged anew they overlap nowhere, and what is normalized   *)
(* has cells of one column or fills its rows (Placing).                    *)

(* A table by its cells.                                                   *)
LEMMA TableHas ==
  ASSUME NEW table, T!IsTable(table)
  PROVE  /\ Len(table) \in Nat /\ DOMAIN table = 1..Len(table)
         /\ table = [i \in 1..Len(table) |-> table[i]]
         /\ \A i \in 1..Len(table) :
              /\ table[i].row \in Nat /\ table[i].col \in Nat
              /\ table[i].rows \in Nat \ {0} /\ table[i].cols \in Nat \ {0}
              /\ table[i] = [row |-> table[i].row, col |-> table[i].col, rows |-> table[i].rows,
                             cols |-> table[i].cols, text |-> table[i].text]
<1> DEFINE Here == [row : Nat, col : Nat, rows : Nat \ {0}, cols : Nat \ {0},
                    text : {table[i].text : i \in DOMAIN table}]
<1>1. table \in Seq(Here)
  BY DEF T!IsTable
<1>2. \A x \in Here : /\ x.row \in Nat /\ x.col \in Nat /\ x.rows \in Nat \ {0} /\ x.cols \in Nat \ {0}
                      /\ x = [row |-> x.row, col |-> x.col, rows |-> x.rows, cols |-> x.cols,
                              text |-> x.text]
  OBVIOUS
<1> HIDE DEF Here
<1>3. Len(table) \in Nat /\ DOMAIN table = 1..Len(table) /\ table \in [1..Len(table) -> Here]
  BY <1>1, LenProperties
<1>4. table = [i \in 1..Len(table) |-> table[i]]
  BY <1>3
<1>5. \A i \in 1..Len(table) : table[i] \in Here
  BY <1>3
<1> QED BY <1>2, <1>3, <1>4, <1>5, Zenon

LEMMA TableIs ==
  ASSUME NEW n \in Nat, NEW table, table = [i \in 1..n |-> table[i]],
         \A i \in 1..n :
            /\ table[i].row \in Nat /\ table[i].col \in Nat
            /\ table[i].rows \in Nat \ {0} /\ table[i].cols \in Nat \ {0}
            /\ table[i] = [row |-> table[i].row, col |-> table[i].col, rows |-> table[i].rows,
                           cols |-> table[i].cols, text |-> table[i].text]
  PROVE  T!IsTable(table) /\ Len(table) = n /\ DOMAIN table = 1..n
<1> DEFINE Here == [row : Nat, col : Nat, rows : Nat \ {0}, cols : Nat \ {0},
                    text : {table[i].text : i \in DOMAIN table}]
<1>1. DOMAIN table = 1..n
  BY Zenon
<1>2. \A i \in 1..n : table[i] \in Here
  <2> SUFFICES ASSUME NEW i \in 1..n PROVE table[i] \in Here
    OBVIOUS
  <2>1. table[i].text \in {table[k].text : k \in DOMAIN table}
    BY <1>1
  <2>2. \A Texts : \A r, c \in Nat, m, k \in Nat \ {0}, t \in Texts :
          [row |-> r, col |-> c, rows |-> m, cols |-> k, text |-> t]
            \in [row : Nat, col : Nat, rows : Nat \ {0}, cols : Nat \ {0}, text : Texts]
    BY Zenon
  <2>3. /\ table[i].row \in Nat /\ table[i].col \in Nat
        /\ table[i].rows \in Nat \ {0} /\ table[i].cols \in Nat \ {0}
        /\ table[i] = [row |-> table[i].row, col |-> table[i].col, rows |-> table[i].rows,
                       cols |-> table[i].cols, text |-> table[i].text]
    BY Zenon
  <2>4. [row |-> table[i].row, col |-> table[i].col, rows |-> table[i].rows,
         cols |-> table[i].cols, text |-> table[i].text] \in Here
    BY <2>1, <2>2, <2>3, Zenon
  <2> QED BY <2>3, <2>4, Zenon
<1> HIDE DEF Here
<1>3. table \in [1..n -> Here]
  BY <1>2, Zenon
<1>4. table \in Seq(Here) /\ Len(table) = n
  BY <1>3
<1> QED BY <1>1, <1>4 DEF Here, T!IsTable

LEMMA TableAppend ==
  ASSUME NEW table, T!IsTable(table), NEW cell,
         /\ cell.row \in Nat /\ cell.col \in Nat
         /\ cell.rows \in Nat \ {0} /\ cell.cols \in Nat \ {0}
         /\ cell = [row |-> cell.row, col |-> cell.col, rows |-> cell.rows, cols |-> cell.cols,
                    text |-> cell.text]
  PROVE  /\ T!IsTable(Append(table, cell))
         /\ DOMAIN Append(table, cell) = 1..(Len(table) + 1)
         /\ Append(table, cell)[Len(table) + 1] = cell
         /\ \A i \in 1..Len(table) : Append(table, cell)[i] = table[i]
<1>1. PICK n : /\ n \in Nat /\ n = Len(table) /\ DOMAIN table = 1..n
               /\ table = [i \in 1..n |-> table[i]]
               /\ \A i \in 1..n :
                    /\ table[i].row \in Nat /\ table[i].col \in Nat
                    /\ table[i].rows \in Nat \ {0} /\ table[i].cols \in Nat \ {0}
                    /\ table[i] = [row |-> table[i].row, col |-> table[i].col, rows |-> table[i].rows,
                                   cols |-> table[i].cols, text |-> table[i].text]
  BY TableHas, Zenon
<1>2. PICK new : new = Append(table, cell)
  OBVIOUS
<1>3. new = [i \in 1..(n + 1) |-> IF i = n + 1 THEN cell ELSE table[i]]
  <2> DEFINE All == {table[i] : i \in 1..n} \cup {cell}
  <2>1. \A i \in 1..n : table[i] \in All
    OBVIOUS
  <2>2. cell \in All
    OBVIOUS
  <2> HIDE DEF All
  <2>3. table \in [1..n -> All]
    BY <1>1, <2>1, Zenon
  <2>4. table \in Seq(All) /\ Len(table) = n
    BY <1>1, <2>3
  <2>5. /\ new \in Seq(All) /\ Len(new) = n + 1 /\ new[n + 1] = cell
        /\ \A i \in 1..n : new[i] = table[i]
    BY <1>1, <1>2, <2>2, <2>4
  <2>6. new = [i \in 1..(n + 1) |-> new[i]]
    BY <1>1, <2>5
  <2>7. \A i \in 1..(n + 1) : new[i] = IF i = n + 1 THEN cell ELSE table[i]
    <3>1. \A i \in 1..(n + 1) : i # n + 1 => i \in 1..n
      BY <1>1
    <3> QED BY <2>5, <3>1, Zenon
  <2> QED BY <2>6, <2>7
<1>4. /\ n + 1 \in Nat /\ n + 1 \in 1..(n + 1) /\ \A i \in 1..n : i \in 1..(n + 1) /\ i # n + 1
      /\ \A i \in 1..(n + 1) : i # n + 1 => i \in 1..n
  BY <1>1
<1>5. new[n + 1] = cell /\ \A i \in 1..n : new[i] = table[i]
  BY <1>3, <1>4, Zenon
<1>6. new = [i \in 1..(n + 1) |-> new[i]]
  BY <1>3, Zenon
<1>7. ASSUME NEW i \in 1..(n + 1)
      PROVE  /\ new[i].row \in Nat /\ new[i].col \in Nat
             /\ new[i].rows \in Nat \ {0} /\ new[i].cols \in Nat \ {0}
             /\ new[i] = [row |-> new[i].row, col |-> new[i].col, rows |-> new[i].rows,
                          cols |-> new[i].cols, text |-> new[i].text]
  <2>1. CASE i = n + 1
    BY <1>5, <2>1, Zenon
  <2>2. CASE i \in 1..n
    BY <1>1, <1>5, <2>2, Zenon
  <2> QED BY <1>4, <2>1, <2>2
<1>8. T!IsTable(new) /\ DOMAIN new = 1..(n + 1)
  BY <1>4, <1>6, <1>7, TableIs, Zenon
<1> QED BY <1>1, <1>2, <1>5, <1>8, Zenon

(* Of the numbers that stand in a row there is a greatest.                 *)
LEMMA TableGreatest ==
  ASSUME NEW n \in Nat \ {0}, NEW f, \A i \in 1..n : f[i] \in Int
  PROVE  \E m \in 1..n : \A i \in 1..n : f[i] <= f[m]
<1> DEFINE Without == {k \in 1..n : ~\E m \in 1..k : \A i \in 1..k : f[i] <= f[m]}
<1>1. SUFFICES ASSUME Without # {} PROVE FALSE
  BY n \in 1..n DEF Without
<1>2. Without \subseteq Nat
  OBVIOUS
<1>3. PICK k \in Without : \A j \in Without : ~(<<j, k>> \in OpToRel(<, Nat))
  <2> HIDE DEF Without
  <2> QED BY <1>1, <1>2, WFMin, NatLessThanWellFounded
<1>4. \A j \in Without : ~(j < k)
  <2>1. \A j \in Without : j \in Nat /\ k \in Nat
    BY <1>2
  <2> HIDE DEF Without
  <2> QED BY <1>3, <2>1 DEF OpToRel
<1>5. k \in 1..n /\ ~\E m \in 1..k : \A i \in 1..k : f[i] <= f[m]
  <2>1. k \in Without
    OBVIOUS
  <2> QED BY <2>1, Zenon DEF Without
<1> HIDE DEF Without
<1>6. CASE k = 1
  <2>1. \A i \in 1..1 : f[i] <= f[1]
    BY n \in Nat, 1 \in 1..n
  <2> QED BY <1>5, <1>6, <2>1
<1>7. CASE k # 1
  <2>1. k - 1 \in 1..n /\ k - 1 < k /\ k \in 1..n /\ k - 1 \in Nat
    BY <1>5, <1>7
  <2>2. k - 1 \notin Without
    BY <1>4, <2>1
  <2>3. PICK m \in 1..(k - 1) : \A i \in 1..(k - 1) : f[i] <= f[m]
    BY <2>1, <2>2 DEF Without
  <2>4. m \in 1..k /\ f[m] \in Int /\ f[k] \in Int /\ k \in 1..k /\ m \in 1..n
    BY <2>1, <2>3
  <2>5. \A i \in 1..k : i = k \/ i \in 1..(k - 1)
    BY <2>1
  <2>6. \A i \in 1..k : f[i] \in Int
    BY <2>1
  <2>7. CASE f[k] <= f[m]
    <3>1. \A i \in 1..k : f[i] <= f[m]
      BY <2>3, <2>5, <2>7, Zenon
    <3> QED BY <1>5, <2>4, <3>1
  <2>8. CASE ~(f[k] <= f[m])
    <3>1. \A i \in 1..k : f[i] <= f[k]
      <4>1. \A i \in 1..(k - 1) : f[i] <= f[k]
        <5>1. \A i \in 1..(k - 1) : f[i] <= f[m] /\ i \in 1..k
          BY <2>1, <2>3
        <5> QED BY <2>4, <2>6, <2>8, <5>1
      <4>2. f[k] <= f[k]
        BY <2>4
      <4> QED BY <2>5, <4>1, <4>2, Zenon
    <3> QED BY <1>5, <2>4, <3>1
  <2> QED BY <2>7, <2>8
<1> QED BY <1>6, <1>7

(* The rows and columns of a table are those of a cell, and of all.        *)
LEMMA TableSize ==
  ASSUME NEW table, T!IsTable(table), table # <<>>
  PROVE  /\ T!Rows(table) \in Nat \ {0} /\ T!Cols(table) \in Nat \ {0}
         /\ \E i \in DOMAIN table : table[i].row + table[i].rows = T!Rows(table)
         /\ \A i \in DOMAIN table : table[i].row + table[i].rows <= T!Rows(table)
         /\ \E i \in DOMAIN table : table[i].col + table[i].cols = T!Cols(table)
         /\ \A i \in DOMAIN table : table[i].col + table[i].cols <= T!Cols(table)
<1>1. PICK n : /\ n \in Nat \ {0} /\ DOMAIN table = 1..n
               /\ \A i \in 1..n :
                    /\ table[i].row \in Nat /\ table[i].col \in Nat
                    /\ table[i].rows \in Nat \ {0} /\ table[i].cols \in Nat \ {0}
  <2>1. PICK n : /\ n \in Nat /\ n = Len(table) /\ DOMAIN table = 1..n
                 /\ table = [i \in 1..n |-> table[i]]
                 /\ \A i \in 1..n :
                      /\ table[i].row \in Nat /\ table[i].col \in Nat
                      /\ table[i].rows \in Nat \ {0} /\ table[i].cols \in Nat \ {0}
    BY TableHas, Zenon
  <2>2. n # 0
    <3>1. n = 0 => 1..n = {}
      OBVIOUS
    <3>2. n = 0 => table = <<>>
      BY <2>1, <3>1
    <3> QED BY <3>2
  <2> QED BY <2>1, <2>2
<1>2. ASSUME NEW f, \A i \in 1..n : f[i] \in Nat \ {0}
      PROVE  LET All == {f[i] : i \in 1..n}
             IN /\ T!Max(All) \in Nat \ {0} /\ \E i \in 1..n : f[i] = T!Max(All)
                /\ \A i \in 1..n : f[i] <= T!Max(All)
  <2> DEFINE All == {f[i] : i \in 1..n}
  <2>1. \A i \in 1..n : f[i] \in Int
    BY <1>2
  <2>2. PICK m \in 1..n : \A i \in 1..n : f[i] <= f[m]
    BY <1>1, <2>1, TableGreatest
  <2>3. \A x \in All : f[m] >= x
    BY <1>2, <2>2
  <2>4. f[m] \in All
    OBVIOUS
  <2> HIDE DEF All
  <2>5. T!Max(All) \in All /\ \A x \in All : T!Max(All) >= x
    BY <2>3, <2>4 DEF T!Max
  <2> USE DEF All
  <2>6. PICK i \in 1..n : f[i] = T!Max(All)
    BY <2>5
  <2>7. \A j \in 1..n : f[j] \in All
    OBVIOUS
  <2> HIDE DEF All
  <2>8. \A j \in 1..n : f[j] <= T!Max(All)
    BY <1>2, <2>5, <2>6, <2>7
  <2>9. T!Max(All) \in Nat \ {0}
    BY <1>2, <2>6
  <2> QED BY <2>6, <2>8, <2>9 DEF All
<1>3. /\ T!Rows(table) \in Nat \ {0}
      /\ \E i \in DOMAIN table : table[i].row + table[i].rows = T!Rows(table)
      /\ \A i \in DOMAIN table : table[i].row + table[i].rows <= T!Rows(table)
  <2> DEFINE f == [i \in 1..n |-> table[i].row + table[i].rows]
  <2>1. \A i \in 1..n : f[i] \in Nat \ {0} /\ f[i] = table[i].row + table[i].rows
    BY <1>1
  <2>2. T!Rows(table) = T!Max({f[i] : i \in 1..n})
    <3>1. {table[i].row + table[i].rows : i \in DOMAIN table} = {f[i] : i \in 1..n}
      BY <1>1
    <3> QED BY <3>1, Zenon DEF T!Rows
  <2> HIDE DEF f
  <2> QED BY <1>1, <1>2, <2>1, <2>2, Zenon
<1>4. /\ T!Cols(table) \in Nat \ {0}
      /\ \E i \in DOMAIN table : table[i].col + table[i].cols = T!Cols(table)
      /\ \A i \in DOMAIN table : table[i].col + table[i].cols <= T!Cols(table)
  <2> DEFINE f == [i \in 1..n |-> table[i].col + table[i].cols]
  <2>1. \A i \in 1..n : f[i] \in Nat \ {0} /\ f[i] = table[i].col + table[i].cols
    BY <1>1
  <2>2. T!Cols(table) = T!Max({f[i] : i \in 1..n})
    <3>1. {table[i].col + table[i].cols : i \in DOMAIN table} = {f[i] : i \in 1..n}
      BY <1>1
    <3> QED BY <3>1, Zenon DEF T!Cols
  <2> HIDE DEF f
  <2> QED BY <1>1, <1>2, <2>1, <2>2, Zenon
<1> QED BY <1>3, <1>4

LEMMA TableUnion ==
  ASSUME NEW table
  PROVE  \A s : s \in T!SlotsOfAll(table) <=> \E i \in DOMAIN table : s \in T!SlotsOf(table[i])
<1> SUFFICES ASSUME NEW s PROVE s \in T!SlotsOfAll(table) <=> \E i \in DOMAIN table : s \in T!SlotsOf(table[i])
  OBVIOUS
<1> DEFINE All == {T!SlotsOf(table[i]) : i \in DOMAIN table}
<1>1. \A i \in DOMAIN table : T!SlotsOf(table[i]) \in All
  OBVIOUS
<1>2. \A x \in All : \E i \in DOMAIN table : x = T!SlotsOf(table[i])
  OBVIOUS
<1>3. T!SlotsOfAll(table) = UNION All
  BY Zenon DEF T!SlotsOfAll
<1> HIDE DEF All
<1> QED BY <1>1, <1>2, <1>3

(* The slots of a table with one more cell.                                *)
LEMMA TableAdds ==
  ASSUME NEW table, T!IsTable(table), T!OfHTML(table), NEW cell,
         /\ cell.row \in Nat /\ cell.col \in Nat
         /\ cell.rows \in Nat \ {0} /\ cell.cols \in Nat \ {0}
         /\ cell = [row |-> cell.row, col |-> cell.col, rows |-> cell.rows, cols |-> cell.cols,
                    text |-> cell.text],
         cell.text \in {T!Blank, <<Len(table) + 1>>},
         T!SlotsOf(cell) \cap T!SlotsOfAll(table) = {},
         \A d \in 0..(cell.col - 1) : <<cell.row, d>> \in T!SlotsOfAll(table)
  PROVE  /\ T!IsTable(Append(table, cell)) /\ T!OfHTML(Append(table, cell))
         /\ T!SlotsOfAll(Append(table, cell)) = T!SlotsOfAll(table) \cup T!SlotsOf(cell)
<1>1. PICK n : n \in Nat /\ n = Len(table) /\ DOMAIN table = 1..n
  BY TableHas, Zenon
<1>2. PICK new : new = Append(table, cell)
  OBVIOUS
<1>3. /\ T!IsTable(new) /\ DOMAIN new = 1..(n + 1) /\ new[n + 1] = cell
      /\ \A i \in 1..n : new[i] = table[i]
  <2>1. /\ T!IsTable(Append(table, cell)) /\ DOMAIN Append(table, cell) = 1..(Len(table) + 1)
        /\ Append(table, cell)[Len(table) + 1] = cell
        /\ \A i \in 1..Len(table) : Append(table, cell)[i] = table[i]
    BY TableAppend
  <2> QED BY <1>1, <1>2, <2>1, Zenon
<1>4. /\ n + 1 \in 1..(n + 1) /\ n + 1 \notin 1..n /\ \A i \in 1..n : i \in 1..(n + 1) /\ i # n + 1
      /\ \A i \in 1..(n + 1) : i # n + 1 => i \in 1..n
      /\ \A i \in 1..n : 1..(i - 1) \subseteq 1..n
      /\ 1..((n + 1) - 1) = 1..n
  BY <1>1
<1>5. \A s : s \in T!SlotsOfAll(new) <=> s \in T!SlotsOfAll(table) \cup T!SlotsOf(cell)
  <2> TAKE s
  <2>1. s \in T!SlotsOfAll(new) <=> \E i \in 1..(n + 1) : s \in T!SlotsOf(new[i])
    BY <1>3, TableUnion, Zenon
  <2>2. s \in T!SlotsOfAll(table) <=> \E i \in 1..n : s \in T!SlotsOf(table[i])
    BY <1>1, TableUnion, Zenon
  <2>3. (\E i \in 1..(n + 1) : s \in T!SlotsOf(new[i])) =>
          s \in T!SlotsOf(cell) \/ \E i \in 1..n : s \in T!SlotsOf(table[i])
    BY <1>3, <1>4, Zenon
  <2>4. (s \in T!SlotsOf(cell) \/ \E i \in 1..n : s \in T!SlotsOf(table[i])) =>
          \E i \in 1..(n + 1) : s \in T!SlotsOf(new[i])
    BY <1>3, <1>4, Zenon
  <2> QED BY <2>1, <2>2, <2>3, <2>4, Zenon
<1>6. T!Disjoint(table) /\ \A i \in 1..n :
        /\ table[i].text \in {T!Blank, <<i>>}
        /\ \A d \in 0..(table[i].col - 1) :
             \E j \in 1..(i - 1) : <<table[i].row, d>> \in T!SlotsOf(table[j])
  BY <1>1, Zenon DEF T!OfHTML
<1>7. T!Disjoint(new)
  <2> SUFFICES ASSUME NEW i \in 1..(n + 1), NEW j \in 1..(n + 1), i # j
               PROVE  T!SlotsOf(new[i]) \cap T!SlotsOf(new[j]) = {}
    BY <1>3, Zenon DEF T!Disjoint
  <2>1. CASE i \in 1..n /\ j \in 1..n
    BY <1>1, <1>3, <1>6, <2>1, Zenon DEF T!Disjoint
  <2>2. CASE i = n + 1 /\ j \in 1..n
    <3>1. \A s \in T!SlotsOf(table[j]) : s \in T!SlotsOfAll(table)
      BY <1>1, <2>2, TableUnion, Zenon
    <3> QED BY <1>3, <2>2, <3>1, Zenon
  <2>3. CASE j = n + 1 /\ i \in 1..n
    <3>1. \A s \in T!SlotsOf(table[i]) : s \in T!SlotsOfAll(table)
      BY <1>1, <2>3, TableUnion, Zenon
    <3> QED BY <1>3, <2>3, <3>1, Zenon
  <2> QED BY <1>4, <2>1, <2>2, <2>3, Zenon
<1>8. ASSUME NEW i \in 1..(n + 1)
       PROVE  /\ new[i].text \in {T!Blank, <<i>>}
              /\ \A d \in 0..(new[i].col - 1) :
                   \E j \in 1..(i - 1) : <<new[i].row, d>> \in T!SlotsOf(new[j])
  <2>1. CASE i \in 1..n
    <3>1. \A d \in 0..(table[i].col - 1) :
             \E j \in 1..(i - 1) : <<table[i].row, d>> \in T!SlotsOf(new[j])
      <4> SUFFICES ASSUME NEW d \in 0..(table[i].col - 1)
                   PROVE  \E j \in 1..(i - 1) : <<table[i].row, d>> \in T!SlotsOf(new[j])
        OBVIOUS
      <4>1. PICK j \in 1..(i - 1) : <<table[i].row, d>> \in T!SlotsOf(table[j])
        BY <1>6, <2>1, Zenon
      <4>2. new[j] = table[j]
        BY <1>3, <1>4, <2>1, Zenon
      <4> QED BY <4>1, <4>2, Zenon
    <3> QED BY <1>3, <1>6, <2>1, <3>1, Zenon
  <2>2. CASE i = n + 1
    <3>1. \A d \in 0..(cell.col - 1) : \E j \in 1..n : <<cell.row, d>> \in T!SlotsOf(table[j])
      BY <1>1, TableUnion, Zenon
    <3>2. \A d \in 0..(cell.col - 1) : \E j \in 1..(i - 1) : <<cell.row, d>> \in T!SlotsOf(new[j])
      BY <1>3, <1>4, <2>2, <3>1, Zenon
    <3>3. new[i].text \in {T!Blank, <<i>>}
      BY <1>1, <1>3, <2>2, Zenon
    <3> QED BY <1>3, <2>2, <3>2, <3>3, Zenon
  <2> QED BY <1>4, <2>1, <2>2, Zenon
<1>9. T!OfHTML(new)
  BY <1>3, <1>7, <1>8, Zenon DEF T!OfHTML
<1> QED BY <1>2, <1>3, <1>5, <1>9, Zenon

(* The slots of one cell are finitely many.                                *)
LEMMA TableFinite ==
  ASSUME NEW r \in Nat, NEW c \in Nat, NEW m \in Nat, NEW k \in Nat,
         NEW old, T!IsFiniteSet(old)
  PROVE  T!IsFiniteSet(old \cup T!Slots(r, c, m, k)) /\ T!Cardinality(old) \in Nat
<1>1. \A s : T!IsFiniteSet(s) <=> IsFiniteSet(s)
  BY DEF T!IsFiniteSet, IsFiniteSet
<1>2. T!Cardinality(old) = Cardinality(old)
  BY DEF T!Cardinality, Cardinality
<1>3. IsFiniteSet(r..(r + m - 1)) /\ IsFiniteSet(c..(c + k - 1))
  BY FS_Interval
<1>4. IsFiniteSet(T!Slots(r, c, m, k))
  BY <1>3, FS_Product DEF T!Slots
<1>5. IsFiniteSet(old)
  BY <1>1
<1> QED BY <1>1, <1>2, <1>4, <1>5, FS_Union, FS_CardinalityType, Zenon

(* A table that is not verified yet: nothing was invented.                 *)
LEMMA TableUnverified ==
  ASSUME status = "unverified" PROVE T!NothingInvented
BY DEF T!NothingInvented

LEMMA TableEmpty == T!IsTable(<<>>) /\ T!OfHTML(<<>>) /\ T!SlotsOfAll(<<>>) = {}
<1>1. DOMAIN <<>> = {}
  OBVIOUS
<1>2. T!IsTable(<<>>)
  BY DEF T!IsTable
<1> QED BY <1>1, <1>2 DEF T!OfHTML, T!Disjoint, T!SlotsOfAll

LEMMA TableInit == T!Init => T!IInv
<1> SUFFICES ASSUME T!Init PROVE T!IInv
  OBVIOUS
<1>1. /\ place = "parse" /\ row = -1 /\ col = 0 /\ open = FALSE
      /\ span = [rows |-> 1, cols |-> 1] /\ occupied = {} /\ cells = <<>> /\ parsed = <<>>
      /\ normalized = FALSE /\ status = "unverified"
  BY DEF T!Init
<1>2. T!IsFiniteSet({})
  BY FS_EmptySet DEF T!IsFiniteSet, IsFiniteSet
<1>3. /\ span \in [rows : Nat \ {0}, cols : Nat \ {0}] /\ col \in Nat /\ row \in Nat \cup {-1}
      /\ \A c \in 0..(col - 1) : <<row, c>> \in occupied
  BY <1>1
<1>4. T!Parsing
  BY <1>1, <1>2, <1>3, TableEmpty, Zenon DEF T!Parsing
<1> QED BY <1>1, <1>4, TableEmpty, TableUnverified, Zenon DEF T!IInv

LEMMA TableStartRow == T!IInv /\ T!StartRow => T!IInv'
<1> SUFFICES ASSUME T!IInv, T!StartRow PROVE T!IInv'
  OBVIOUS
<1>1. /\ place = "parse" /\ row' = row + 1 /\ col' = 0
      /\ place' = place /\ open' = open /\ span' = span /\ occupied' = occupied
      /\ cells' = cells /\ parsed' = parsed /\ normalized' = normalized
      /\ source' = source /\ status' = status
  BY DEF T!StartRow
<1>2. /\ T!IsTable(cells) /\ T!IsTable(parsed) /\ T!OfHTML(parsed) /\ T!Parsing
      /\ status = "unverified"
  BY <1>1, Zenon DEF T!IInv
<1>3. /\ row \in Nat \cup {-1}
  BY <1>2 DEF T!Parsing
<1>4. /\ row' \in Nat /\ col' \in Nat /\ row' # -1
      /\ \A c \in 0..(col' - 1) : <<row', c>> \in occupied'
  BY <1>1, <1>3
<1>5. T!Parsing'
  BY <1>1, <1>2, <1>4, Zenon DEF T!Parsing
<1>6. T!NothingInvented'
  BY <1>1, <1>2, Zenon DEF T!NothingInvented
<1> QED BY <1>1, <1>2, <1>5, <1>6, Zenon DEF T!IInv

LEMMA TableMalformed ==
  ASSUME T!IInv, place = "parse", T!Malformed,
         UNCHANGED <<parsed, normalized, source, status>>
  PROVE  T!IInv'
<1>1. /\ place' = "error" /\ cells' = cells /\ parsed' = parsed /\ status' = status
  BY DEF T!Malformed
<1>2. /\ T!IsTable(cells) /\ T!IsTable(parsed) /\ T!OfHTML(parsed) /\ status = "unverified"
  BY Zenon DEF T!IInv
<1>3. T!NothingInvented'
  BY <1>1, <1>2, Zenon DEF T!NothingInvented
<1> QED BY <1>1, <1>2, <1>3, Zenon DEF T!IInv

LEMMA TableStartCell == T!IInv /\ T!StartCell /\ T!TableAssumption => T!IInv'
<1> SUFFICES ASSUME T!IInv, T!StartCell, T!TableAssumption PROVE T!IInv'
  OBVIOUS
<1>1. /\ place = "parse" /\ UNCHANGED <<parsed, normalized, source, status>>
  BY Zenon DEF T!StartCell
<1>2. PICK rows1 \in 1..MaxSpan, cols1 \in 1..MaxSpan, c \in col..(col + T!Cardinality(occupied)) :
        /\ T!FirstFree(c)
        /\ \/ T!Malformed
           \/ /\ row >= 0
              /\ col' = c /\ open' = TRUE /\ span' = [rows |-> rows1, cols |-> cols1]
              /\ UNCHANGED <<place, row, occupied, cells>>
  <2>1. PICK rows1 \in 1..MaxSpan, cols1 \in 1..MaxSpan,
             c \in col..(col + T!Cardinality(occupied)) :
        /\ T!FirstFree(c)
        /\ IF row < 0 \/ open \/ rows1 * cols1 > MaxTableCells
             \/ (row + rows1) * (c + cols1) > MaxTableCells
           THEN T!Malformed
           ELSE /\ col' = c /\ open' = TRUE /\ span' = [rows |-> rows1, cols |-> cols1]
                /\ UNCHANGED <<place, row, occupied, cells>>
    BY Zenon DEF T!StartCell
  <2>2. row \in Int
    BY <1>1 DEF T!IInv, T!Parsing
  <2>3. ~(row < 0) => row >= 0
    BY <2>2
  <2> QED BY <2>1, <2>3, Zenon
<1>3. CASE T!Malformed
  BY <1>1, <1>3, TableMalformed, Zenon
<1>4. CASE /\ row >= 0
           /\ col' = c /\ open' = TRUE /\ span' = [rows |-> rows1, cols |-> cols1]
           /\ UNCHANGED <<place, row, occupied, cells>>
  <2>1. /\ T!IsTable(cells) /\ T!IsTable(parsed) /\ T!OfHTML(parsed) /\ T!Parsing
        /\ status = "unverified"
    BY <1>1, Zenon DEF T!IInv
  <2>2. row \in Nat \cup {-1} /\ col \in Nat /\ T!IsFiniteSet(occupied)
    BY <2>1, Zenon DEF T!Parsing
  <2>3. T!Cardinality(occupied) \in Nat
    BY <2>2, TableFinite, 0 \in Nat, Zenon
  <2>4. c \in Nat /\ row # -1
    BY <1>4, <2>2, <2>3
  <2>5. /\ rows1 \in Nat \ {0} /\ cols1 \in Nat \ {0}
    BY DEF T!TableAssumption
  <2>6. span' \in [rows : Nat \ {0}, cols : Nat \ {0}]
    BY <1>4, <2>5
  <2>7. \A d \in 0..(c - 1) : d \in 0..(col - 1) \/ d \in col..(c - 1)
    BY <2>2, <2>4
  <2>8. \A d \in 0..(c - 1) : <<row, d>> \in occupied
    BY <1>2, <2>1, <2>7, Zenon DEF T!Parsing, T!FirstFree
  <2>9. T!Parsing'
    BY <1>1, <1>4, <2>1, <2>2, <2>4, <2>6, <2>8, Zenon DEF T!Parsing
  <2>10. T!NothingInvented'
    BY <1>1, <2>1, Zenon DEF T!NothingInvented
  <2> QED BY <1>1, <1>4, <2>1, <2>9, <2>10, Zenon DEF T!IInv
<1> QED BY <1>2, <1>3, <1>4, Zenon

LEMMA TableEndCell == T!IInv /\ T!EndCell => T!IInv'
<1> SUFFICES ASSUME T!IInv, T!EndCell PROVE T!IInv'
  OBVIOUS
<1>1. /\ place = "parse" /\ open /\ UNCHANGED <<parsed, normalized, source, status>>
  BY Zenon DEF T!EndCell
<1>2. CASE T!Malformed
  BY <1>1, <1>2, TableMalformed, Zenon
<1>3. CASE ~T!Malformed
  <2> DEFINE slots == T!Slots(row, col, span.rows, span.cols)
  <2>1. /\ slots \cap occupied = {} /\ occupied' = occupied \cup slots
        /\ col' = col + span.cols /\ open' = FALSE /\ UNCHANGED <<place, row, span>>
        /\ \E text \in {T!Blank, <<Len(cells) + 1>>} :
             cells' = Append(cells, [row |-> row, col |-> col, rows |-> span.rows,
                                     cols |-> span.cols, text |-> text])
    <3> USE <1>3
    <3> QED BY Zenon DEF T!EndCell
  <2>2. PICK text \in {T!Blank, <<Len(cells) + 1>>} :
             cells' = Append(cells, [row |-> row, col |-> col, rows |-> span.rows,
                                     cols |-> span.cols, text |-> text])
    BY <2>1, Zenon
  <2>3. /\ T!IsTable(cells) /\ T!IsTable(parsed) /\ T!OfHTML(parsed) /\ T!Parsing
        /\ status = "unverified"
    BY <1>1, Zenon DEF T!IInv
  <2>4. /\ row \in Nat \cup {-1} /\ row # -1 /\ col \in Nat /\ T!IsFiniteSet(occupied)
        /\ T!OfHTML(cells) /\ occupied = T!SlotsOfAll(cells)
        /\ span \in [rows : Nat \ {0}, cols : Nat \ {0}]
        /\ \A d \in 0..(col - 1) : <<row, d>> \in T!SlotsOfAll(cells)
    BY <1>1, <2>3, Zenon DEF T!Parsing
  <2>5. /\ row \in Nat /\ span.rows \in Nat \ {0} /\ span.cols \in Nat \ {0}
        /\ span.rows \in Nat /\ span.cols \in Nat
    BY <2>4
  <2>6. /\ T!IsTable(cells') /\ T!OfHTML(cells')
        /\ T!SlotsOfAll(cells') = T!SlotsOfAll(cells) \cup slots
    <3>1. /\ T!Slots(row, col, span.rows, span.cols) \cap T!SlotsOfAll(cells) = {}
      BY <2>1, <2>4, Zenon
    <3>2. PICK cell : cell = [row |-> row, col |-> col, rows |-> span.rows,
                              cols |-> span.cols, text |-> text]
      OBVIOUS
    <3>3. /\ cell.row = row /\ cell.col = col /\ cell.rows = span.rows
          /\ cell.cols = span.cols /\ cell.text = text
      BY <3>2
    <3>4. cell = [row |-> cell.row, col |-> cell.col, rows |-> cell.rows, cols |-> cell.cols,
                  text |-> cell.text]
      BY <3>2, <3>3, Zenon
    <3>5. T!SlotsOf(cell) = T!Slots(row, col, span.rows, span.cols)
      BY <3>3, Zenon DEF T!SlotsOf
    <3>6. /\ cell.row \in Nat /\ cell.col \in Nat
          /\ cell.rows \in Nat \ {0} /\ cell.cols \in Nat \ {0}
          /\ cell.text \in {T!Blank, <<Len(cells) + 1>>}
          /\ T!SlotsOf(cell) \cap T!SlotsOfAll(cells) = {}
          /\ \A d \in 0..(cell.col - 1) : <<cell.row, d>> \in T!SlotsOfAll(cells)
      BY <2>4, <2>5, <3>1, <3>3, <3>5, Zenon
    <3>7. cells' = Append(cells, cell)
      BY <2>2, <3>2, Zenon
    <3>8. /\ T!IsTable(Append(cells, cell)) /\ T!OfHTML(Append(cells, cell))
          /\ T!SlotsOfAll(Append(cells, cell)) = T!SlotsOfAll(cells) \cup T!SlotsOf(cell)
      BY <2>3, <2>4, <3>4, <3>6, TableAdds, Zenon
    <3> QED BY <3>5, <3>7, <3>8, Zenon
  <2>7. T!IsFiniteSet(occupied')
    BY <2>1, <2>4, <2>5, TableFinite, Zenon
  <2>8. \A d \in 0..(col' - 1) : <<row, d>> \in slots \/ d \in 0..(col - 1)
    BY <2>1, <2>4, <2>5 DEF T!Slots
  <2>9. col' \in Nat
    BY <2>1, <2>4, <2>5
  <2>10. \A d \in 0..(col' - 1) : <<row, d>> \in occupied'
    BY <2>1, <2>4, <2>8, Zenon
  <2> HIDE DEF slots
  <2>11. T!Parsing'
    BY <1>1, <2>1, <2>3, <2>4, <2>6, <2>7, <2>9, <2>10, Zenon DEF T!Parsing
  <2>12. T!NothingInvented'
    BY <1>1, <2>3, Zenon DEF T!NothingInvented
  <2> QED BY <1>1, <2>1, <2>3, <2>6, <2>11, <2>12, Zenon DEF T!IInv
<1> QED BY <1>2, <1>3

LEMMA TableEndOfText == T!IInv /\ T!EndOfText => T!IInv'
<1> SUFFICES ASSUME T!IInv, T!EndOfText PROVE T!IInv'
  OBVIOUS
<1>1. /\ place = "parse" /\ cells # <<>> /\ place' = "boxes" /\ parsed' = cells /\ cells' = cells
      /\ normalized' = normalized /\ source' = source /\ status' = status
  BY DEF T!EndOfText
<1>2. /\ T!IsTable(cells) /\ T!Parsing /\ status = "unverified"
  BY <1>1, Zenon DEF T!IInv
<1>3. T!OfHTML(cells) /\ ~normalized /\ T!Disjoint(cells)
  BY <1>2, Zenon DEF T!Parsing, T!OfHTML
<1>4. \A i \in DOMAIN cells : cells[i].text \in {T!Blank, <<i>>}
  BY <1>3, Zenon DEF T!OfHTML
<1>5. \A i, j : <<i>> = <<j>> => i = j
  OBVIOUS
<1>6. T!OneCellEach(cells)
  BY <1>4, <1>5, Zenon DEF T!OneCellEach
<1>7. T!Placing'
  BY <1>1, <1>2, <1>3, <1>6, Zenon DEF T!Placing
<1>8. T!NothingInvented'
  BY <1>1, <1>2, Zenon DEF T!NothingInvented
<1> QED BY <1>1, <1>2, <1>3, <1>7, <1>8, Zenon DEF T!IInv

LEMMA TableKeepCells == T!IInv /\ T!KeepCells => T!IInv'
<1> SUFFICES ASSUME T!IInv, T!KeepCells PROVE T!IInv'
  OBVIOUS
<1>1. /\ place = "boxes" /\ place' = "placed" /\ parsed' = parsed /\ cells' = cells
      /\ normalized' = normalized /\ source' = source /\ status' = status
  BY DEF T!KeepCells
<1>2. /\ T!IsTable(cells) /\ T!IsTable(parsed) /\ T!OfHTML(parsed) /\ T!Placing
      /\ status = "unverified"
  BY <1>1, Zenon DEF T!IInv
<1>3. T!Placing'
  BY <1>1, <1>2, Zenon DEF T!Placing
<1>4. T!NothingInvented'
  BY <1>1, <1>2, Zenon DEF T!NothingInvented
<1> QED BY <1>1, <1>2, <1>3, <1>4, Zenon DEF T!IInv

(* The text at a slot is that of a cell which has its corner there.        *)
LEMMA TableText ==
  ASSUME NEW table, T!IsTable(table), T!Disjoint(table), NEW r \in Nat, NEW c \in Nat
  PROVE  \/ T!GridText(table, r, c) = T!Blank
         \/ \E k \in DOMAIN table : /\ table[k].row = r /\ table[k].col = c
                                    /\ T!GridText(table, r, c) = table[k].text
<1>1. PICK n : /\ n \in Nat /\ DOMAIN table = 1..n
               /\ \A i \in 1..n :
                    /\ table[i].row \in Nat /\ table[i].col \in Nat
                    /\ table[i].rows \in Nat \ {0} /\ table[i].cols \in Nat \ {0}
  BY TableHas, Zenon
<1> DEFINE here == {i \in DOMAIN table : table[i].row = r /\ table[i].col = c}
<1>2. T!GridText(table, r, c) = IF here = {} THEN T!Blank ELSE table[T!Max(here)].text
  BY Zenon DEF T!GridText
<1>3. \A k \in here : k \in 1..n /\ table[k].row = r /\ table[k].col = c
  BY <1>1
<1>4. CASE here = {}
  BY <1>2, <1>4, Zenon
<1>5. CASE here # {}
  <2>1. PICK k : k \in here
    BY <1>5
  <2>2. \A i \in here : <<r, c>> \in T!SlotsOf(table[i])
    <3> SUFFICES ASSUME NEW i \in here PROVE <<r, c>> \in T!SlotsOf(table[i])
      OBVIOUS
    <3>1. PICK rows1, cols1 : /\ rows1 = table[i].rows /\ cols1 = table[i].cols
                              /\ rows1 \in Nat \ {0} /\ cols1 \in Nat \ {0}
      BY <1>1, <1>3, Zenon
    <3>2. table[i].row = r /\ table[i].col = c
      BY <1>3, Zenon
    <3>3. T!SlotsOf(table[i]) = (r..(r + rows1 - 1)) \X (c..(c + cols1 - 1))
      BY <3>1, <3>2, Zenon DEF T!SlotsOf, T!Slots
    <3>4. r \in r..(r + rows1 - 1) /\ c \in c..(c + cols1 - 1)
      BY <3>1
    <3> QED BY <3>3, <3>4
  <2>3. \A i \in here : i = k
    BY <1>1, <1>3, <2>1, <2>2, Zenon DEF T!Disjoint
  <2> HIDE DEF here
  <2>4. here = {k}
    BY <2>1, <2>3
  <2>5. k \in Nat
    BY <1>1, <1>3, <2>1
  <2>6. T!Max({k}) = k
    BY <2>5 DEF T!Max
  <2> QED BY <1>1, <1>2, <1>3, <1>5, <2>1, <2>4, <2>6, Zenon
<1> QED BY <1>4, <1>5

(* The slot of a cell that spans nothing.                                  *)
LEMMA TableUnit ==
  ASSUME NEW r \in Nat, NEW c \in Nat, NEW text, NEW cell, cell = T!Cell(r, c, text)
  PROVE  /\ cell.row = r /\ cell.col = c /\ cell.rows = 1 /\ cell.cols = 1 /\ cell.text = text
         /\ cell = [row |-> cell.row, col |-> cell.col, rows |-> cell.rows,
                    cols |-> cell.cols, text |-> cell.text]
         /\ T!SlotsOf(cell) = {<<r, c>>}
<1>1. cell = [row |-> r, col |-> c, rows |-> 1, cols |-> 1, text |-> text]
  BY Zenon DEF T!Cell
<1>2. cell.row = r /\ cell.col = c /\ cell.rows = 1 /\ cell.cols = 1 /\ cell.text = text
  BY <1>1
<1>3. cell = [row |-> cell.row, col |-> cell.col, rows |-> cell.rows, cols |-> cell.cols,
              text |-> cell.text]
  BY <1>1, <1>2, Zenon
<1>4. T!SlotsOf(cell) = (r..(r + 1 - 1)) \X (c..(c + 1 - 1))
  BY <1>2, Zenon DEF T!SlotsOf, T!Slots
<1>5. r..(r + 1 - 1) = {r} /\ c..(c + 1 - 1) = {c}
  OBVIOUS
<1>6. {r} \X {c} = {<<r, c>>}
  OBVIOUS
<1>7. T!SlotsOf(cell) = {<<r, c>>}
  BY <1>4, <1>5, <1>6, Zenon
<1> QED BY <1>2, <1>3, <1>7, Zenon

LEMMA TableVisualCells == T!IInv /\ T!VisualCells /\ T!TableAssumption => T!IInv'
<1> SUFFICES ASSUME T!IInv, T!VisualCells, T!TableAssumption PROVE T!IInv'
  OBVIOUS
<1>1. /\ place = "boxes" /\ place' = "placed" /\ normalized' = TRUE
      /\ parsed' = parsed /\ source' = source /\ status' = status
  BY Zenon DEF T!VisualCells
<1>2. /\ T!IsTable(cells) /\ T!IsTable(parsed) /\ T!OfHTML(parsed) /\ T!Placing
      /\ status = "unverified"
  BY <1>1, Zenon DEF T!IInv
<1>3. /\ T!Disjoint(cells) /\ cells = parsed /\ T!OneCellEach(cells)
  BY <1>1, <1>2, Zenon DEF T!Placing
<1>4. PICK length \in UNION {[0..r -> 1..MaxTableCells] : r \in 0..(MaxTableCells - 1)} :
       LET rows1 == DOMAIN length
           slots == {s \in rows1 \X (0..(MaxTableCells - 1)) : s[2] < length[s[1]]}
           html == T!Rows(cells) * T!Cols(cells) <= MaxTableCells
           grid == \A r \in rows1 : length[r] = length[0]
       IN /\ T!Cardinality(slots) <= MaxTableCells
          /\ \E order \in T!SetToSeqs(slots), keep \in {html} \cup (IF grid THEN {FALSE} ELSE {}) :
               /\ T!RowByRow(order)
               /\ cells' = [i \in DOMAIN order |->
                             T!Cell(order[i][1], order[i][2],
                                  IF keep THEN T!GridText(cells, order[i][1], order[i][2])
                                  ELSE T!Blank)]
  BY Zenon DEF T!VisualCells
<1>5. PICK r \in 0..(MaxTableCells - 1) : length \in [0..r -> 1..MaxTableCells]
  OBVIOUS
<1>6. DOMAIN length = 0..r
  BY <1>5
<1>7. PICK all1, choice :
        /\ all1 = {s \in (DOMAIN length) \X (0..(MaxTableCells - 1)) : s[2] < length[s[1]]}
        /\ choice = {T!Rows(cells) * T!Cols(cells) <= MaxTableCells} \cup
             (IF \A r1 \in DOMAIN length : length[r1] = length[0] THEN {FALSE} ELSE {})
  OBVIOUS
<1>8. PICK order \in T!SetToSeqs(all1), keep \in choice :
        /\ T!RowByRow(order)
        /\ cells' = [i \in DOMAIN order |->
             T!Cell(order[i][1], order[i][2],
                    IF keep THEN T!GridText(cells, order[i][1], order[i][2]) ELSE T!Blank)]
  BY <1>4, <1>7, Zenon
<1>9. cells' = [i \in DOMAIN order |->
             T!Cell(order[i][1], order[i][2],
                    IF keep THEN T!GridText(cells, order[i][1], order[i][2]) ELSE T!Blank)]
  BY <1>8, Zenon
<1> DEFINE slots == {s \in (0..r) \X (0..(MaxTableCells - 1)) : s[2] < length[s[1]]}
<1>10. MaxTableCells \in Nat /\ r \in Nat
  BY DEF T!TableAssumption
<1>11. PICK n : /\ n \in Nat \ {0} /\ order \in [1..n -> slots] /\ DOMAIN order = 1..n
               /\ \A i, j \in 1..n : i # j => order[i] # order[j]
  <2>1. IsFiniteSet(0..r) /\ IsFiniteSet(0..(MaxTableCells - 1))
    <3>1. 0 \in Int /\ r \in Int /\ MaxTableCells - 1 \in Int
      BY <1>10
    <3> QED BY <3>1, FS_Interval
  <2>2. IsFiniteSet((0..r) \X (0..(MaxTableCells - 1)))
    BY <2>1, FS_Product
  <2>3. slots \in SUBSET ((0..r) \X (0..(MaxTableCells - 1)))
    OBVIOUS
  <2>4. <<0, 0>> \in slots
    <3>1. 0 \in 0..r /\ 0 \in 0..(MaxTableCells - 1)
      BY <1>10
    <3>2. length[0] \in 1..MaxTableCells
      BY <1>5, <3>1
    <3>3. 0 < length[0]
      BY <3>2
    <3>4. \A s : s = <<0, 0>> => s \in (0..r) \X (0..(MaxTableCells - 1)) /\ s[1] = 0 /\ s[2] = 0
      BY <3>1
    <3> QED BY <3>3, <3>4
  <2>5. order \in T!SetToSeqs(slots)
    BY <1>6, <1>7, <1>8, Zenon
  <2> HIDE DEF slots
  <2>6. IsFiniteSet(slots)
    BY <2>2, <2>3, FS_Subset
  <2>7. PICK n : n = Cardinality(slots) /\ n \in Nat
    BY <2>6, FS_CardinalityType
  <2>8. n # 0
    BY <2>4, <2>6, <2>7, FS_EmptySet
  <2>9. T!Cardinality(slots) = n
    BY <2>7 DEF T!Cardinality, Cardinality
  <2>10. order \in [1..n -> slots] /\ \A i, j \in 1..n : i # j => order[i] # order[j]
    BY <2>5, <2>9, Zenon DEF T!SetToSeqs
  <2>11. DOMAIN order = 1..n
    BY <2>10
  <2> QED BY <2>7, <2>8, <2>10, <2>11, Zenon
<1>12. \A s \in slots : s[1] \in Nat /\ s[2] \in Nat /\ s = <<s[1], s[2]>>
  BY <1>10
<1>13. PICK R1 : R1 = [i \in 1..n |-> order[i][1]]
  OBVIOUS
<1>14. PICK C1 : C1 = [i \in 1..n |-> order[i][2]]
  OBVIOUS
<1> HIDE DEF slots
<1>15. ASSUME NEW i \in 1..n
       PROVE  /\ R1[i] = order[i][1] /\ C1[i] = order[i][2] /\ R1[i] \in Nat /\ C1[i] \in Nat
              /\ order[i] = <<R1[i], C1[i]>>
  <2>1. order[i] \in slots
    BY <1>11, Zenon
  <2>2. R1[i] = order[i][1] /\ C1[i] = order[i][2]
    BY <1>13, <1>14, Zenon
  <2> QED BY <1>12, <2>1, <2>2, Zenon
<1>16. \A i, j \in 1..n : i # j => <<R1[i], C1[i]>> # <<R1[j], C1[j]>>
  <2> SUFFICES ASSUME NEW i \in 1..n, NEW j \in 1..n, i # j
               PROVE  <<R1[i], C1[i]>> # <<R1[j], C1[j]>>
    OBVIOUS
  <2>1. order[i] = <<R1[i], C1[i]>> /\ order[j] = <<R1[j], C1[j]>> /\ order[i] # order[j]
    BY <1>11, <1>15, Zenon
  <2> QED BY <2>1, Zenon
<1>17. PICK texts : /\ \A i \in 1..n : cells'[i] = T!Cell(R1[i], C1[i], texts[i])
                    /\ cells' = [i \in 1..n |-> cells'[i]]
                    /\ \A i \in 1..n : texts[i] \in {T!Blank, T!GridText(cells, R1[i], C1[i])}
  <2> DEFINE texts == [i \in 1..n |-> IF keep THEN T!GridText(cells, order[i][1], order[i][2])
                                      ELSE T!Blank]
  <2>1. \A i \in 1..n : texts[i] = IF keep THEN T!GridText(cells, order[i][1], order[i][2])
                                   ELSE T!Blank
    BY Zenon
  <2>2. \A i \in 1..n : cells'[i] = T!Cell(order[i][1], order[i][2],
                           IF keep THEN T!GridText(cells, order[i][1], order[i][2])
                           ELSE T!Blank)
    BY <1>9, <1>11, Zenon
  <2> HIDE DEF texts
  <2>3. \A i \in 1..n : cells'[i] = T!Cell(R1[i], C1[i], texts[i])
    BY <1>15, <2>1, <2>2, Zenon
  <2>4. \A i \in 1..n : texts[i] \in {T!Blank, T!GridText(cells, R1[i], C1[i])}
    BY <1>15, <2>1, Zenon
  <2>5. cells' = [i \in 1..n |-> cells'[i]]
    BY <1>9, <1>11, Zenon
  <2> QED BY <2>3, <2>4, <2>5, Zenon
<1>18. \A i \in 1..n :
         /\ cells'[i].row = R1[i] /\ cells'[i].col = C1[i] /\ cells'[i].rows = 1
         /\ cells'[i].cols = 1 /\ cells'[i].text = texts[i]
         /\ cells'[i] = [row |-> cells'[i].row, col |-> cells'[i].col, rows |-> cells'[i].rows,
                         cols |-> cells'[i].cols, text |-> cells'[i].text]
         /\ T!SlotsOf(cells'[i]) = {<<R1[i], C1[i]>>}
  <2> SUFFICES ASSUME NEW i \in 1..n, NEW cell, cell = cells'[i]
               PROVE  /\ cell.row = R1[i] /\ cell.col = C1[i] /\ cell.rows = 1
                      /\ cell.cols = 1 /\ cell.text = texts[i]
                      /\ cell = [row |-> cell.row, col |-> cell.col, rows |-> cell.rows,
                                 cols |-> cell.cols, text |-> cell.text]
                      /\ T!SlotsOf(cell) = {<<R1[i], C1[i]>>}
    BY Zenon
  <2>1. cell = T!Cell(R1[i], C1[i], texts[i]) /\ R1[i] \in Nat /\ C1[i] \in Nat
    BY <1>15, <1>17, Zenon
  <2> QED BY <2>1, TableUnit
<1>19. 1 \in Nat \ {0} /\ n \in Nat
  BY <1>11
<1>20. T!IsTable(cells') /\ DOMAIN cells' = 1..n
  BY <1>15, <1>17, <1>18, <1>19, TableIs, Zenon
<1>21. T!Disjoint(cells')
  <2>1. \A i, j \in 1..n : i # j => {<<R1[i], C1[i]>>} \cap {<<R1[j], C1[j]>>} = {}
    BY <1>16, Zenon
  <2> QED BY <1>18, <1>20, <2>1, Zenon DEF T!Disjoint
<1>22. \A i \in 1..n :
         \/ texts[i] = T!Blank
         \/ \E k \in DOMAIN cells : /\ cells[k].row = R1[i] /\ cells[k].col = C1[i]
                                    /\ texts[i] = cells[k].text
  <2> SUFFICES ASSUME NEW i \in 1..n, texts[i] # T!Blank
               PROVE  \E k \in DOMAIN cells : /\ cells[k].row = R1[i] /\ cells[k].col = C1[i]
                                              /\ texts[i] = cells[k].text
    BY Zenon
  <2>1. texts[i] = T!GridText(cells, R1[i], C1[i]) /\ R1[i] \in Nat /\ C1[i] \in Nat
    BY <1>15, <1>17, Zenon
  <2>2. \/ T!GridText(cells, R1[i], C1[i]) = T!Blank
        \/ \E k \in DOMAIN cells : /\ cells[k].row = R1[i] /\ cells[k].col = C1[i]
                                   /\ T!GridText(cells, R1[i], C1[i]) = cells[k].text
    BY <1>2, <1>3, <2>1, TableText
  <2> QED BY <2>1, <2>2, Zenon
<1>23. T!OneCellEach(cells')
  <2> SUFFICES ASSUME NEW i \in 1..n, NEW j \in 1..n, i # j, texts[i] # T!Blank,
                      texts[i] = texts[j]
               PROVE  FALSE
    <3>1. \A i \in 1..n : cells'[i].text = texts[i]
      BY <1>18, Zenon
    <3> QED BY <1>20, <3>1, Zenon DEF T!OneCellEach
  <2>1. PICK k \in DOMAIN cells : /\ cells[k].row = R1[i] /\ cells[k].col = C1[i]
                                  /\ texts[i] = cells[k].text
    BY <1>22, Zenon
  <2>2. PICK m \in DOMAIN cells : /\ cells[m].row = R1[j] /\ cells[m].col = C1[j]
                                  /\ texts[j] = cells[m].text
    BY <1>22, Zenon
  <2>3. k # m
    BY <1>16, <2>1, <2>2, Zenon
  <2> QED BY <1>3, <2>1, <2>2, <2>3, Zenon DEF T!OneCellEach
<1>24. \A i \in DOMAIN cells' : cells'[i].text = T!Blank \/
            \E k \in DOMAIN parsed : cells'[i].text = parsed[k].text
  <2> SUFFICES ASSUME NEW i \in 1..n
               PROVE  texts[i] = T!Blank \/ \E k \in DOMAIN parsed : texts[i] = parsed[k].text
    <3>1. \A i \in 1..n : cells'[i].text = texts[i]
      BY <1>18, Zenon
    <3> QED BY <1>20, <3>1, Zenon
  <2> QED BY <1>3, <1>22, Zenon
<1>25. cells' # <<>>
  <2>1. 1 \in 1..n
    BY <1>11
  <2> QED BY <1>20, <2>1
<1>26. T!Placing'
  BY <1>1, <1>18, <1>20, <1>21, <1>23, <1>24, <1>25, Zenon DEF T!Placing
<1>27. T!NothingInvented'
  BY <1>1, <1>2, Zenon DEF T!NothingInvented
<1> QED BY <1>1, <1>2, <1>20, <1>26, <1>27, Zenon DEF T!IInv

(* A set of naturals has a least one.                                      *)
LEMMA TableLeast ==
  ASSUME NEW S1, S1 \subseteq Nat, S1 # {}
  PROVE  \E k \in S1 : \A j \in S1 : ~(j < k)
<1>1. PICK k \in S1 : \A j \in S1 : ~(<<j, k>> \in OpToRel(<, Nat))
  BY WFMin, NatLessThanWellFounded
<1>2. \A j \in S1 : ~(j < k)
  <2>1. \A j \in S1 : j \in Nat /\ k \in Nat
    OBVIOUS
  <2> QED BY <1>1, <2>1 DEF OpToRel
<1> QED BY <1>2

(* Cells k of 1..n in the rows rs[k], from the columns cs[k], of the       *)
(* widths ws[k]: each stands beside the one before or at the beginning of  *)
(* the next row, when the one before ends a row of the width W.            *)
SideBySide(n, W, rs, cs, ws) ==
  /\ \A k \in 1..n : rs[k] \in Nat /\ cs[k] \in Nat /\ ws[k] \in Nat \ {0}
  /\ \A k \in 1..(n - 1) :
       \/ cs[k] + ws[k] = W /\ rs[k + 1] = rs[k] + 1 /\ cs[k + 1] = 0
       \/ cs[k] + ws[k] # W /\ rs[k + 1] = rs[k] /\ cs[k + 1] = cs[k] + ws[k]

(* Cells that stand each beside the one before or at the beginning of the  *)
(* next row: the later ones are below, or to the right in the same row.    *)
LEMMA TableChain ==
  ASSUME NEW n \in Nat, NEW W \in Nat, NEW rs, NEW cs, NEW ws,
         SideBySide(n, W, rs, cs, ws)
  PROVE  \A i, j \in 1..n : i < j => rs[i] < rs[j] \/ (rs[i] = rs[j] /\ cs[i] + ws[i] <= cs[j])
<1> USE DEF SideBySide
<1> DEFINE Wrong == {j \in 1..n : \E i \in 1..n : i < j /\
                       ~(rs[i] < rs[j] \/ (rs[i] = rs[j] /\ cs[i] + ws[i] <= cs[j]))}
<1>1. SUFFICES ASSUME Wrong # {} PROVE FALSE
  OBVIOUS
<1>2. Wrong \subseteq Nat
  OBVIOUS
<1>3. PICK j \in Wrong : \A m \in Wrong : ~(m < j)
  <2> HIDE DEF Wrong
  <2> QED BY <1>1, <1>2, TableLeast
<1>4. PICK i \in 1..n : i < j /\ ~(rs[i] < rs[j] \/ (rs[i] = rs[j] /\ cs[i] + ws[i] <= cs[j]))
  OBVIOUS
<1>5. j \in 1..n
  OBVIOUS
<1>6. PICK m : m \in 1..(n - 1) /\ m + 1 = j /\ m \in 1..n /\ m < j /\ (i = m \/ i < m)
  <2> HIDE DEF Wrong
  <2>1. j - 1 \in 1..(n - 1) /\ (j - 1) + 1 = j /\ j - 1 \in 1..n /\ j - 1 < j
        /\ (i = j - 1 \/ i < j - 1)
    BY <1>4, <1>5
  <2> QED BY <2>1
<1>7. \/ cs[m] + ws[m] = W /\ rs[j] = rs[m] + 1 /\ cs[j] = 0
      \/ rs[j] = rs[m] /\ cs[j] = cs[m] + ws[m]
  BY <1>6, Zenon
<1>8. /\ rs[i] \in Nat /\ cs[i] \in Nat /\ ws[i] \in Nat \ {0}
      /\ rs[j] \in Nat /\ cs[j] \in Nat /\ ws[j] \in Nat \ {0}
      /\ rs[m] \in Nat /\ cs[m] \in Nat /\ ws[m] \in Nat \ {0}
  BY <1>4, <1>5, <1>6, Zenon
<1>9. CASE i = m
  BY <1>4, <1>7, <1>8, <1>9
<1>10. CASE i < m
  <2>1. m \notin Wrong
    BY <1>3, <1>6, Zenon
  <2>2. rs[i] < rs[m] \/ (rs[i] = rs[m] /\ cs[i] + ws[i] <= cs[m])
    BY <1>4, <1>6, <1>10, <2>1, Zenon
  <2> HIDE DEF Wrong
  <2> QED BY <1>4, <1>7, <1>8, <2>2
<1> QED BY <1>6, <1>9, <1>10

(* No slot that is before the end of one of them is left out.              *)
NoneLeft(n, W, rs, cs, ws) ==
  \A k \in 1..n : \A r \in Nat : \A c \in 0..(W - 1) :
    r < rs[k] \/ (r = rs[k] /\ c < cs[k] + ws[k]) =>
      \E i \in 1..n : rs[i] = r /\ cs[i] <= c /\ c < cs[i] + ws[i]

(* They leave no slot out.                                                 *)
LEMMA TableFilled ==
  ASSUME NEW n \in Nat, NEW W \in Nat, NEW rs, NEW cs, NEW ws,
         SideBySide(n, W, rs, cs, ws),
         n # 0 => rs[1] = 0 /\ cs[1] = 0
  PROVE  NoneLeft(n, W, rs, cs, ws)
<1> USE DEF SideBySide
<1> DEFINE Wrong == {k \in 1..n : \E r \in Nat : \E c \in 0..(W - 1) :
                       /\ r < rs[k] \/ (r = rs[k] /\ c < cs[k] + ws[k])
                       /\ ~\E i \in 1..n : rs[i] = r /\ cs[i] <= c /\ c < cs[i] + ws[i]}
<1>1. SUFFICES ASSUME NEW k1 \in 1..n, NEW r1 \in Nat, NEW c1 \in 0..(W - 1),
                      r1 < rs[k1] \/ (r1 = rs[k1] /\ c1 < cs[k1] + ws[k1]),
                      ~\E i \in 1..n : rs[i] = r1 /\ cs[i] <= c1 /\ c1 < cs[i] + ws[i]
               PROVE  FALSE
  BY DEF NoneLeft
<1>2. Wrong # {}
  <2>1. k1 \in Wrong
    BY <1>1, Zenon
  <2> QED BY <2>1, Zenon
<1>3. Wrong \subseteq Nat
  OBVIOUS
<1>4. PICK k \in Wrong : \A m \in Wrong : ~(m < k)
  <2> HIDE DEF Wrong
  <2> QED BY <1>2, <1>3, TableLeast
<1>5. PICK r \in Nat : \E c \in 0..(W - 1) :
           /\ r < rs[k] \/ (r = rs[k] /\ c < cs[k] + ws[k])
           /\ ~\E i \in 1..n : rs[i] = r /\ cs[i] <= c /\ c < cs[i] + ws[i]
  BY <1>4, Zenon
<1>6. PICK c \in 0..(W - 1) :
           /\ r < rs[k] \/ (r = rs[k] /\ c < cs[k] + ws[k])
           /\ ~\E i \in 1..n : rs[i] = r /\ cs[i] <= c /\ c < cs[i] + ws[i]
  BY <1>5, Zenon
<1>7. k \in 1..n
  BY <1>4, Zenon
<1>8. /\ rs[k] \in Nat /\ cs[k] \in Nat /\ ws[k] \in Nat \ {0} /\ c \in Nat
      /\ r < rs[k] \/ (r = rs[k] /\ c < cs[k] + ws[k])
      /\ ~(rs[k] = r /\ cs[k] <= c /\ c < cs[k] + ws[k])
  <2>1. c \in Nat
    OBVIOUS
  <2> QED BY <1>6, <1>7, <2>1, Zenon
<1> HIDE DEF Wrong
<1>9. CASE k = 1
  <2>1. rs[1] = 0 /\ cs[1] = 0
    BY <1>7
  <2> QED BY <1>8, <1>9, <2>1
<1>10. CASE k # 1
  <2>1. PICK m : m \in 1..(n - 1) /\ m + 1 = k /\ m \in 1..n /\ m < k
    <3>1. k - 1 \in 1..(n - 1) /\ (k - 1) + 1 = k /\ k - 1 \in 1..n /\ k - 1 < k
      BY <1>7, <1>10
    <3> QED BY <3>1
  <2>2. \/ cs[m] + ws[m] = W /\ rs[k] = rs[m] + 1 /\ cs[k] = 0
        \/ rs[k] = rs[m] /\ cs[k] = cs[m] + ws[m]
    BY <2>1, Zenon
  <2>3. rs[m] \in Nat /\ cs[m] \in Nat /\ ws[m] \in Nat \ {0}
    BY <2>1, Zenon
  <2>4. m \notin Wrong
    BY <1>4, <2>1, Zenon
  <2>5. ~(r < rs[m] \/ (r = rs[m] /\ c < cs[m] + ws[m]))
    BY <1>6, <2>1, <2>4, Zenon DEF Wrong
  <2>6. c < W
    OBVIOUS
  <2> QED BY <1>8, <2>2, <2>3, <2>5, <2>6
<1> QED BY <1>9, <1>10

LEMMA TableMoved ==
  ASSUME NEW Texts, NEW old \in [row : Nat, col : Nat, rows : Nat, cols : Nat, text : Texts],
         NEW r \in Nat, NEW c \in Nat, NEW new, new = [old EXCEPT !.row = r, !.col = c]
  PROVE  new =
           [row |-> r, col |-> c, rows |-> old.rows, cols |-> old.cols, text |-> old.text]
<1>1. new \in [row : Nat, col : Nat, rows : Nat, cols : Nat, text : Texts]
  OBVIOUS
<1>2. /\ new.row = r /\ new.col = c /\ new.rows = old.rows /\ new.cols = old.cols
      /\ new.text = old.text
  OBVIOUS
<1>3. new = [row |-> new.row, col |-> new.col, rows |-> new.rows, cols |-> new.cols,
             text |-> new.text]
  BY <1>1
<1> QED BY <1>2, <1>3, Zenon

(* Cells of one row each that fill the rows of their table one after the   *)
(* other: each slot of the table is in one cell.                           *)
LEMMA TablePlaced ==
  ASSUME NEW table, T!IsTable(table), table # <<>>, \A i \in DOMAIN table : table[i].rows = 1,
         T!OneCellEach(table),
         NEW order \in T!Arrangements(table), NEW corner \in T!Corners(table),
         T!FullRows(table, order, corner),
         NEW new, new = T!Placed(table, order, corner)
  PROVE  /\ T!IsTable(new) /\ new # <<>> /\ T!Disjoint(new) /\ T!Filled(new) /\ T!OneCellEach(new)
         /\ \A k \in DOMAIN new : \E i \in DOMAIN table : new[k].text = table[i].text
<1>1. PICK n : /\ n \in Nat \ {0} /\ DOMAIN table = 1..n /\ n = Len(table) /\ n \in Nat
               /\ \A i \in 1..n :
                    /\ table[i].row \in Nat /\ table[i].col \in Nat
                    /\ table[i].rows \in Nat \ {0} /\ table[i].cols \in Nat \ {0}
                    /\ table[i] = [row |-> table[i].row, col |-> table[i].col,
                                   rows |-> table[i].rows, cols |-> table[i].cols,
                                   text |-> table[i].text]
  <2>1. PICK n : /\ n \in Nat /\ n = Len(table) /\ DOMAIN table = 1..n
                 /\ table = [i \in 1..n |-> table[i]]
                 /\ \A i \in 1..n :
                      /\ table[i].row \in Nat /\ table[i].col \in Nat
                      /\ table[i].rows \in Nat \ {0} /\ table[i].cols \in Nat \ {0}
                      /\ table[i] = [row |-> table[i].row, col |-> table[i].col,
                                     rows |-> table[i].rows, cols |-> table[i].cols,
                                     text |-> table[i].text]
    BY TableHas, Zenon
  <2>2. n # 0
    <3>1. n = 0 => 1..n = {}
      OBVIOUS
    <3>2. n = 0 => table = <<>>
      BY <2>1, <3>1
    <3> QED BY <3>2
  <2>3. n \in Nat \ {0}
    BY <2>1, <2>2
  <2> QED BY <2>1, <2>3, Zenon
<1>2. /\ n \in Nat \ {0} /\ DOMAIN table = 1..n /\ n \in Nat
      /\ \A i \in 1..n :
           /\ table[i].row \in Nat /\ table[i].col \in Nat
           /\ table[i].rows \in Nat \ {0} /\ table[i].cols \in Nat \ {0}
           /\ table[i] = [row |-> table[i].row, col |-> table[i].col,
                          rows |-> table[i].rows, cols |-> table[i].cols,
                          text |-> table[i].text]
  BY <1>1, Zenon
<1>3. PICK H1, W : /\ H1 = T!Rows(table) /\ W = T!Cols(table) /\ H1 \in Nat \ {0} /\ W \in Nat \ {0}
  BY TableSize, Zenon
<1>4. /\ order \in [1..n -> 1..n] /\ \A i, j \in 1..n : order[i] = order[j] => i = j
  BY <1>2, Zenon DEF T!Arrangements, T!IsInjective
<1>5. corner \in [1..n -> (0..(H1 - 1)) \X (0..(W - 1))]
  BY <1>2, <1>3, Zenon DEF T!Corners
<1>6. PICK rs : rs = [k \in 1..n |-> corner[k][1]]
  OBVIOUS
<1>7. PICK cs : cs = [k \in 1..n |-> corner[k][2]]
  OBVIOUS
<1>8. PICK ws : ws = [k \in 1..n |-> table[order[k]].cols]
  OBVIOUS
<1>9. ASSUME NEW k \in 1..n
      PROVE  /\ rs[k] = corner[k][1] /\ cs[k] = corner[k][2] /\ ws[k] = table[order[k]].cols
             /\ rs[k] \in 0..(H1 - 1) /\ cs[k] \in 0..(W - 1) /\ corner[k] = <<rs[k], cs[k]>>
             /\ rs[k] \in Nat /\ cs[k] \in Nat /\ ws[k] \in Nat \ {0} /\ order[k] \in 1..n
             /\ rs[k] < H1 /\ cs[k] < W
  <2>1. rs[k] = corner[k][1] /\ cs[k] = corner[k][2] /\ ws[k] = table[order[k]].cols
    BY <1>6, <1>7, <1>8, Zenon
  <2>2. order[k] \in 1..n /\ ws[k] \in Nat \ {0}
    BY <1>2, <1>4, <2>1, Zenon
  <2>3. corner[k] \in (0..(H1 - 1)) \X (0..(W - 1))
    BY <1>5, Zenon
  <2>4. \A x : x \in (0..(H1 - 1)) \X (0..(W - 1)) =>
          x[1] \in 0..(H1 - 1) /\ x[2] \in 0..(W - 1) /\ x = <<x[1], x[2]>>
    OBVIOUS
  <2>5. rs[k] \in 0..(H1 - 1) /\ cs[k] \in 0..(W - 1) /\ corner[k] = <<rs[k], cs[k]>>
    BY <2>1, <2>3, <2>4, Zenon
  <2>6. \A x \in 0..(H1 - 1) : x \in Nat /\ x < H1
    BY <1>3
  <2>7. \A x \in 0..(W - 1) : x \in Nat /\ x < W
    BY <1>3
  <2> QED BY <2>1, <2>2, <2>5, <2>6, <2>7, Zenon
<1>10. /\ corner[1] = <<0, 0>>
      /\ \A k \in 1..(n - 1) : corner[k + 1] = T!After(corner[k], table[order[k]].cols, table)
  BY <1>1, <1>3, Zenon DEF T!FullRows
<1>11. T!After(corner[n], table[order[n]].cols, table) = <<H1, 0>>
  BY <1>1, <1>3, Zenon DEF T!FullRows
<1>12. /\ 1 \in 1..n /\ n \in 1..n
       /\ \A k \in 1..(n - 1) : k \in 1..n /\ k + 1 \in 1..n
  BY <1>2
<1>13. \A k \in 1..n : T!After(corner[k], table[order[k]].cols, table) =
          IF cs[k] + ws[k] = W THEN <<rs[k] + 1, 0>> ELSE <<rs[k], cs[k] + ws[k]>>
  BY <1>3, <1>9, Zenon DEF T!After
<1>14. \A a, b, c, d : <<a, b>> = <<c, d>> => a = c /\ b = d
  OBVIOUS
<1>15. rs[1] = 0 /\ cs[1] = 0
  <2>1. <<rs[1], cs[1]>> = <<0, 0>>
    BY <1>9, <1>10, <1>12, Zenon
  <2> QED BY <1>14, <2>1, Zenon
<1>16. \A k \in 1..(n - 1) :
         \/ cs[k] + ws[k] = W /\ rs[k + 1] = rs[k] + 1 /\ cs[k + 1] = 0
         \/ cs[k] + ws[k] # W /\ rs[k + 1] = rs[k] /\ cs[k + 1] = cs[k] + ws[k]
  <2> TAKE k \in 1..(n - 1)
  <2>1. <<rs[k + 1], cs[k + 1]>> =
          IF cs[k] + ws[k] = W THEN <<rs[k] + 1, 0>> ELSE <<rs[k], cs[k] + ws[k]>>
    <3>1. k \in 1..n /\ k + 1 \in 1..n
      BY <1>12, Zenon
    <3>2. corner[k + 1] = T!After(corner[k], table[order[k]].cols, table)
      BY <1>10, Zenon
    <3>3. corner[k + 1] = <<rs[k + 1], cs[k + 1]>>
      BY <1>9, <3>1, Zenon
    <3> QED BY <1>13, <3>1, <3>2, <3>3, Zenon
  <2> QED BY <1>14, <2>1, Zenon
<1>17. cs[n] + ws[n] = W /\ rs[n] + 1 = H1
  <2>1. <<H1, 0>> = IF cs[n] + ws[n] = W THEN <<rs[n] + 1, 0>> ELSE <<rs[n], cs[n] + ws[n]>>
    <3>1. n \in 1..n
      BY <1>2
    <3>2. T!After(corner[n], table[order[n]].cols, table) =
            IF cs[n] + ws[n] = W THEN <<rs[n] + 1, 0>> ELSE <<rs[n], cs[n] + ws[n]>>
      BY <1>13, <3>1
    <3> QED BY <1>11, <3>2
  <2>2. cs[n] \in Nat /\ ws[n] \in Nat \ {0}
    BY <1>9, <1>12, Zenon
  <2>3. cs[n] + ws[n] # 0
    BY <2>2
  <2> QED BY <1>14, <2>1, <2>3, Zenon
<1>18. \A k \in 1..n : cs[k] + ws[k] <= W
  <2> TAKE k \in 1..n
  <2>1. CASE k = n
    BY <1>3, <1>17, <2>1
  <2>2. CASE k # n
    <3>1. k \in 1..(n - 1)
      BY <1>2, <2>2
    <3>2. cs[k] + ws[k] = W \/ cs[k + 1] = cs[k] + ws[k]
      BY <1>16, <3>1, Zenon
    <3>3. cs[k + 1] \in Nat /\ cs[k + 1] < W
      BY <1>9, <1>12, <3>1, Zenon
    <3> QED BY <1>3, <3>2, <3>3
  <2> QED BY <2>1, <2>2
<1>19. SideBySide(n, W, rs, cs, ws)
  <2>1. \A k \in 1..n : rs[k] \in Nat /\ cs[k] \in Nat /\ ws[k] \in Nat \ {0}
    BY <1>9, Zenon
  <2> QED BY <1>16, <2>1, Zenon DEF SideBySide
<1>20. n \in Nat /\ W \in Nat /\ (n # 0 => rs[1] = 0 /\ cs[1] = 0)
  BY <1>2, <1>3, <1>15
<1>21. \A i, j \in 1..n : i < j => rs[i] < rs[j] \/ (rs[i] = rs[j] /\ cs[i] + ws[i] <= cs[j])
  BY <1>19, <1>20, TableChain, Zenon
<1>22. \A r \in Nat : \A c \in 0..(W - 1) :
         r < rs[n] \/ (r = rs[n] /\ c < cs[n] + ws[n]) =>
           \E i \in 1..n : rs[i] = r /\ cs[i] <= c /\ c < cs[i] + ws[i]
  <2>1. NoneLeft(n, W, rs, cs, ws)
    BY <1>19, <1>20, TableFilled, Zenon
  <2> QED BY <1>12, <2>1, Zenon DEF NoneLeft
<1>23. ASSUME NEW k \in 1..n
       PROVE  /\ new[k].row = rs[k] /\ new[k].col = cs[k] /\ new[k].rows = 1
              /\ new[k].cols = ws[k] /\ new[k].text = table[order[k]].text
              /\ new[k] = [row |-> new[k].row, col |-> new[k].col, rows |-> new[k].rows,
                           cols |-> new[k].cols, text |-> new[k].text]
  <2>1. new[k] = [table[order[k]] EXCEPT !.row = rs[k], !.col = cs[k]]
    BY <1>2, <1>9, Zenon DEF T!Placed
  <2>2. PICK old : old = table[order[k]]
    OBVIOUS
  <2>3. old = [row |-> old.row, col |-> old.col, rows |-> old.rows, cols |-> old.cols,
               text |-> old.text]
    BY <1>2, <1>9, <2>2, Zenon
  <2>4. old.rows = 1 /\ old.cols = ws[k]
    BY <1>2, <1>9, <2>2, Zenon
  <2>5. PICK Texts : old.text \in Texts
    <3>1. old.text \in {old.text}
      OBVIOUS
    <3> QED BY <3>1
  <2>6. old \in [row : Nat, col : Nat, rows : Nat, cols : Nat, text : Texts]
    <3>1. old.row \in Nat /\ old.col \in Nat /\ old.rows \in Nat /\ old.cols \in Nat
      BY <1>2, <1>9, <2>2
    <3> QED BY <2>3, <2>5, <3>1
  <2>7. new[k] = [old EXCEPT !.row = rs[k], !.col = cs[k]] /\ rs[k] \in Nat /\ cs[k] \in Nat
    BY <1>9, <2>1, <2>2, Zenon
  <2>8. new[k] = [row |-> rs[k], col |-> cs[k], rows |-> old.rows, cols |-> old.cols,
                  text |-> old.text]
    BY <2>6, <2>7, TableMoved
  <2>9. /\ new[k].row = rs[k] /\ new[k].col = cs[k] /\ new[k].rows = old.rows
        /\ new[k].cols = old.cols /\ new[k].text = old.text
    BY <2>8
  <2> QED BY <2>2, <2>4, <2>8, <2>9, Zenon
<1>24. new = [k \in 1..n |-> new[k]]
  BY <1>2, Zenon DEF T!Placed
<1>25. T!IsTable(new) /\ DOMAIN new = 1..n
  <2>1. 1 \in Nat \ {0}
    OBVIOUS
  <2>2. ASSUME NEW k \in 1..n
        PROVE  /\ new[k].row \in Nat /\ new[k].col \in Nat
               /\ new[k].rows \in Nat \ {0} /\ new[k].cols \in Nat \ {0}
    BY <1>9, <1>23, <2>1, Zenon
  <2>3. \A k \in 1..n :
               /\ new[k].row \in Nat /\ new[k].col \in Nat
               /\ new[k].rows \in Nat \ {0} /\ new[k].cols \in Nat \ {0}
               /\ new[k] = [row |-> new[k].row, col |-> new[k].col, rows |-> new[k].rows,
                            cols |-> new[k].cols, text |-> new[k].text]
    BY <1>23, <2>2, Zenon
  <2> QED BY <1>2, <1>24, <2>3, TableIs, Zenon
<1>26. new # <<>>
  BY <1>12, <1>25
<1>27. T!Rows(new) = H1 /\ T!Cols(new) = W
  <2>1. PICK h, w : h = T!Rows(new) /\ w = T!Cols(new) /\ h \in Nat /\ w \in Nat
    <3>1. T!Rows(new) \in Nat \ {0} /\ T!Cols(new) \in Nat \ {0}
      BY <1>25, <1>26, TableSize, Zenon
    <3> QED BY <3>1
  <2>2. PICK i \in 1..n : new[i].row + new[i].rows = h
    BY <1>25, <1>26, <2>1, TableSize, Zenon
  <2>3. PICK j \in 1..n : new[j].col + new[j].cols = w
    BY <1>25, <1>26, <2>1, TableSize, Zenon
  <2>4. new[n].row + new[n].rows <= h /\ new[n].col + new[n].cols <= w
    BY <1>12, <1>25, <1>26, <2>1, TableSize, Zenon
  <2>5. rs[i] + 1 = h /\ rs[n] + 1 <= h /\ cs[j] + ws[j] = w /\ cs[n] + ws[n] <= w
    BY <1>12, <1>23, <2>2, <2>3, <2>4, Zenon
  <2>6. rs[i] < H1 /\ rs[i] \in Nat /\ cs[j] + ws[j] <= W
    BY <1>9, <1>18, Zenon
  <2>7. h = H1
    BY <1>3, <1>17, <2>1, <2>5, <2>6
  <2>8. w = W
    BY <1>3, <1>17, <2>1, <2>5, <2>6
  <2> QED BY <2>1, <2>7, <2>8
<1>28. ASSUME NEW k \in 1..n, NEW s
       PROVE  s \in T!SlotsOf(new[k]) <=>
                /\ s = <<s[1], s[2]>> /\ s[1] = rs[k] /\ s[2] \in Nat
                /\ cs[k] <= s[2] /\ s[2] < cs[k] + ws[k]
  <2>1. T!SlotsOf(new[k]) = (rs[k]..(rs[k] + 1 - 1)) \X (cs[k]..(cs[k] + ws[k] - 1))
    BY <1>23, Zenon DEF T!SlotsOf, T!Slots
  <2>2. PICK r, c, w : /\ r = rs[k] /\ c = cs[k] /\ w = ws[k]
                       /\ r \in Nat /\ c \in Nat /\ w \in Nat \ {0}
    BY <1>9, Zenon
  <2>3. s \in (r..(r + 1 - 1)) \X (c..(c + w - 1)) <=>
                /\ s = <<s[1], s[2]>> /\ s[1] = r /\ s[2] \in Nat
                /\ c <= s[2] /\ s[2] < c + w
    BY <2>2
  <2> QED BY <2>1, <2>2, <2>3, Zenon
<1>29. T!Disjoint(new)
  <2>1. ASSUME NEW i \in 1..n, NEW j \in 1..n, i < j
        PROVE  T!SlotsOf(new[i]) \cap T!SlotsOf(new[j]) = {}
    <3>1. SUFFICES ASSUME NEW s, s \in T!SlotsOf(new[i]), s \in T!SlotsOf(new[j]) PROVE FALSE
      BY Zenon
    <3>2. /\ s[1] = rs[i] /\ s[2] \in Nat /\ cs[i] <= s[2] /\ s[2] < cs[i] + ws[i]
          /\ s[1] = rs[j] /\ cs[j] <= s[2] /\ s[2] < cs[j] + ws[j]
      BY <1>28, <3>1, Zenon
    <3>3. rs[i] < rs[j] \/ (rs[i] = rs[j] /\ cs[i] + ws[i] <= cs[j])
      BY <1>21, <2>1, Zenon
    <3>4. /\ rs[i] \in Nat /\ cs[i] \in Nat /\ ws[i] \in Nat \ {0}
          /\ rs[j] \in Nat /\ cs[j] \in Nat /\ ws[j] \in Nat \ {0}
      BY <1>9, Zenon
    <3>5. PICK a, b, r, c, w, q : /\ a = s[1] /\ b = s[2] /\ r = rs[i] /\ c = cs[i] /\ w = ws[i]
                                  /\ q = cs[j]
      OBVIOUS
    <3> QED BY <3>2, <3>3, <3>4
  <2>2. SUFFICES ASSUME NEW i \in 1..n, NEW j \in 1..n, i # j
                 PROVE  T!SlotsOf(new[i]) \cap T!SlotsOf(new[j]) = {}
    BY <1>25, Zenon DEF T!Disjoint
  <2>3. i < j \/ j < i
    BY <2>2
  <2> QED BY <2>1, <2>3, Zenon
<1>30. T!Filled(new)
  <2>1. ASSUME NEW s
        PROVE  s \in T!SlotsOfAll(new) <=> s \in (0..(H1 - 1)) \X (0..(W - 1))
    <3>1. s \in T!SlotsOfAll(new) <=> \E k \in 1..n : s \in T!SlotsOf(new[k])
      BY <1>25, TableUnion, Zenon
    <3>2. ASSUME NEW k \in 1..n, s \in T!SlotsOf(new[k])
          PROVE  s \in (0..(H1 - 1)) \X (0..(W - 1))
      <4>1. /\ s = <<s[1], s[2]>> /\ s[1] = rs[k] /\ s[2] \in Nat
            /\ cs[k] <= s[2] /\ s[2] < cs[k] + ws[k]
        BY <1>28, <3>2, Zenon
      <4>2. rs[k] \in 0..(H1 - 1) /\ cs[k] \in Nat /\ ws[k] \in Nat \ {0} /\ cs[k] + ws[k] <= W
        BY <1>9, <1>18, Zenon
      <4>3. s[2] \in 0..(W - 1)
        BY <1>3, <4>1, <4>2
      <4> QED BY <4>1, <4>2, <4>3, Zenon
    <3>3. ASSUME s \in (0..(H1 - 1)) \X (0..(W - 1))
          PROVE  \E k \in 1..n : s \in T!SlotsOf(new[k])
      <4>1. s = <<s[1], s[2]>> /\ s[1] \in 0..(H1 - 1) /\ s[2] \in 0..(W - 1)
        BY <3>3
      <4>2. s[1] \in Nat /\ s[2] \in Nat /\ s[1] <= H1 - 1 /\ s[2] < W
        BY <1>3, <4>1
      <4>3. rs[n] \in Nat
        BY <1>9, <1>12, Zenon
      <4>4. s[1] < rs[n] \/ (s[1] = rs[n] /\ s[2] < cs[n] + ws[n])
        BY <1>3, <1>17, <4>2, <4>3
      <4>5. PICK i \in 1..n : rs[i] = s[1] /\ cs[i] <= s[2] /\ s[2] < cs[i] + ws[i]
        BY <1>22, <4>1, <4>2, <4>4, Zenon
      <4> QED BY <1>28, <4>1, <4>2, <4>5, Zenon
    <3> QED BY <3>1, <3>2, <3>3, Zenon
  <2>2. T!SlotsOfAll(new) = (0..(H1 - 1)) \X (0..(W - 1))
    BY <2>1, Zenon
  <2> QED BY <1>27, <2>2, Zenon DEF T!Filled
<1>31. T!OneCellEach(new)
  <2>1. SUFFICES ASSUME NEW i \in 1..n, NEW j \in 1..n, i # j
                 PROVE  new[i].text = T!Blank \/ new[i].text # new[j].text
    BY <1>25, Zenon DEF T!OneCellEach
  <2>2. order[i] \in DOMAIN table /\ order[j] \in DOMAIN table /\ order[i] # order[j]
    BY <1>2, <1>4, <1>9, <2>1, Zenon
  <2>3. table[order[i]].text = T!Blank \/ table[order[i]].text # table[order[j]].text
    BY <2>2, Zenon DEF T!OneCellEach
  <2> QED BY <1>23, <2>3, Zenon
<1>32. \A k \in DOMAIN new : \E i \in DOMAIN table : new[k].text = table[i].text
  <2> SUFFICES ASSUME NEW k \in 1..n PROVE \E i \in 1..n : new[k].text = table[i].text
    BY <1>2, <1>25, Zenon
  <2> QED BY <1>9, <1>23, Zenon
<1> QED BY <1>25, <1>26, <1>29, <1>30, <1>31, <1>32, Zenon

LEMMA TableNormalize == T!IInv /\ T!Normalize => T!IInv'
<1> SUFFICES ASSUME T!IInv, T!Normalize PROVE T!IInv'
  OBVIOUS
<1>1. /\ place = "placed" /\ place' = "verify" /\ parsed' = parsed /\ source' = source
      /\ status' = status
  BY Zenon DEF T!Normalize
<1>2. /\ T!IsTable(cells) /\ T!IsTable(parsed) /\ T!OfHTML(parsed) /\ T!Placing
      /\ status = "unverified"
  BY <1>1, Zenon DEF T!IInv
<1>3. T!NothingInvented'
  BY <1>1, <1>2, Zenon DEF T!NothingInvented
<1>4. CASE UNCHANGED <<cells, normalized>>
  <2>1. T!Placing'
    BY <1>1, <1>2, <1>4, Zenon DEF T!Placing
  <2> QED BY <1>1, <1>2, <1>3, <1>4, <2>1, Zenon DEF T!IInv
<1>5. CASE /\ \A i \in DOMAIN cells : cells[i].rows = 1
           /\ \E corner \in T!Corners(cells), order \in T!Arrangements(cells) :
                T!FullRows(cells, order, corner) /\ cells' = T!Placed(cells, order, corner)
           /\ normalized' = TRUE
  <2>1. PICK corner \in T!Corners(cells), order \in T!Arrangements(cells) :
                T!FullRows(cells, order, corner) /\ cells' = T!Placed(cells, order, corner)
    BY <1>5, Zenon
  <2>2. /\ cells # <<>> /\ T!OneCellEach(cells)
        /\ \A i \in DOMAIN cells : cells[i].text = T!Blank \/
             \E k \in DOMAIN parsed : cells[i].text = parsed[k].text
    BY <1>2, Zenon DEF T!Placing
  <2>3. PICK new : new = cells'
    OBVIOUS
  <2>4. /\ T!IsTable(new) /\ new # <<>> /\ T!Disjoint(new) /\ T!Filled(new) /\ T!OneCellEach(new)
        /\ \A k \in DOMAIN new : \E i \in DOMAIN cells : new[k].text = cells[i].text
    <3>1. T!FullRows(cells, order, corner) /\ new = T!Placed(cells, order, corner)
      BY <2>1, <2>3, Zenon
    <3>2. T!IsTable(cells) /\ \A i \in DOMAIN cells : cells[i].rows = 1
      BY <1>2, <1>5, Zenon
    <3> QED BY <2>2, <3>1, <3>2, TablePlaced
  <2>5. \A k \in DOMAIN new : new[k].text = T!Blank \/
             \E i \in DOMAIN parsed : new[k].text = parsed[i].text
    BY <2>2, <2>4, Zenon
  <2>6. T!Placing'
    BY <1>1, <2>3, <2>4, <2>5, Zenon DEF T!Placing
  <2> QED BY <1>1, <1>2, <1>3, <2>3, <2>4, <2>6, Zenon DEF T!IInv
<1> QED BY <1>4, <1>5, Zenon DEF T!Normalize

(* A cell with another text.                                               *)
LEMMA TableTold ==
  ASSUME NEW old, NEW text, NEW new,
         old = [row |-> old.row, col |-> old.col, rows |-> old.rows, cols |-> old.cols,
                text |-> old.text],
         old.row \in Nat, old.col \in Nat, old.rows \in Nat \ {0}, old.cols \in Nat \ {0},
         new = [old EXCEPT !.text = text]
  PROVE  /\ new.row = old.row /\ new.col = old.col /\ new.rows = old.rows
         /\ new.cols = old.cols /\ new.text = text
         /\ new = [row |-> new.row, col |-> new.col, rows |-> new.rows, cols |-> new.cols,
                   text |-> new.text]
<1> DEFINE Texts == {text, old.text}
<1>1. old.text \in Texts /\ text \in Texts
  OBVIOUS
<1> HIDE DEF Texts
<1>2. old \in [row : Nat, col : Nat, rows : Nat, cols : Nat, text : Texts]
  <2>1. \A T1 : \A r, c, m, k \in Nat, t \in T1 :
          [row |-> r, col |-> c, rows |-> m, cols |-> k, text |-> t]
            \in [row : Nat, col : Nat, rows : Nat, cols : Nat, text : T1]
    BY Zenon
  <2>2. old.row \in Nat /\ old.col \in Nat /\ old.rows \in Nat /\ old.cols \in Nat
    OBVIOUS
  <2>3. [row |-> old.row, col |-> old.col, rows |-> old.rows, cols |-> old.cols, text |-> old.text]
          \in [row : Nat, col : Nat, rows : Nat, cols : Nat, text : Texts]
    BY <1>1, <2>1, <2>2, Zenon
  <2> QED BY <2>3, Zenon
<1>3. \A T1 : \A x \in [row : Nat, col : Nat, rows : Nat, cols : Nat, text : T1] : \A t \in T1 :
        LET y == [x EXCEPT !.text = t]
        IN /\ y.row = x.row /\ y.col = x.col /\ y.rows = x.rows /\ y.cols = x.cols /\ y.text = t
           /\ y = [row |-> y.row, col |-> y.col, rows |-> y.rows, cols |-> y.cols, text |-> y.text]
  OBVIOUS
<1> QED BY <1>1, <1>2, <1>3, Zenon

(* Of the spots nine tenths are found: at most a tenth is not.             *)
LEMMA TableTenth ==
  ASSUME NEW all1, T!IsFiniteSet(all1), NEW found \in SUBSET all1, NEW lost \in SUBSET all1,
         found \cap lost = {},
         10 * T!Cardinality(found) >= 9 * T!Cardinality(all1)
  PROVE  10 * T!Cardinality(lost) <= T!Cardinality(all1)
<1>1. \A s : (T!IsFiniteSet(s) <=> IsFiniteSet(s)) /\ T!Cardinality(s) = Cardinality(s)
  BY DEF T!IsFiniteSet, IsFiniteSet, T!Cardinality, Cardinality
<1>2. IsFiniteSet(all1) /\ IsFiniteSet(found) /\ IsFiniteSet(lost)
  <2>1. IsFiniteSet(all1)
    BY <1>1, Zenon
  <2> QED BY <2>1, FS_Subset
<1>3. IsFiniteSet(found \cup lost) /\ Cardinality(found \cup lost) <= Cardinality(all1)
  <2>1. found \cup lost \in SUBSET all1
    OBVIOUS
  <2> QED BY <1>2, <2>1, FS_Subset
<1>4. Cardinality(found \cup lost) = Cardinality(found) + Cardinality(lost) - Cardinality({})
  BY <1>2, FS_Union
<1>5. Cardinality({}) = 0
  BY FS_EmptySet
<1>6. PICK a, f, l, u : /\ a = Cardinality(all1) /\ f = Cardinality(found)
                        /\ l = Cardinality(lost) /\ u = Cardinality(found \cup lost)
                        /\ a \in Nat /\ f \in Nat /\ l \in Nat /\ u \in Nat
  <2>1. /\ Cardinality(all1) \in Nat /\ Cardinality(found) \in Nat /\ Cardinality(lost) \in Nat
        /\ Cardinality(found \cup lost) \in Nat
    BY <1>2, <1>3, FS_CardinalityType, Zenon
  <2> QED BY <2>1
<1>7. u <= a /\ u = f + l - 0 /\ 10 * f >= 9 * a
  BY <1>1, <1>3, <1>4, <1>5, <1>6, Zenon
<1>8. 10 * l <= a
  BY ONLY <1>6, <1>7, SMT
<1> QED BY <1>1, <1>6, <1>8, Zenon

(* The text of a cell is its own or that of its lines.                     *)
LEMMA TableReconciled ==
  ASSUME NEW cell, NEW src, NEW confidence
  PROVE  \/ T!Reconciled(cell, src, confidence) = cell
         \/ T!Reconciled(cell, src, confidence) = [cell EXCEPT !.text = src]
BY Zenon DEF T!Reconciled

LEMMA TableVerify == T!IInv /\ T!Verify /\ T!TableAssumption => T!IInv'
<1> SUFFICES ASSUME T!IInv, T!Verify, T!TableAssumption PROVE T!IInv'
  OBVIOUS
<1>1. /\ place = "verify" /\ place' = "export" /\ parsed' = parsed /\ normalized' = normalized
  BY Zenon DEF T!Verify
<1>2. /\ T!IsTable(cells) /\ T!IsTable(parsed) /\ T!OfHTML(parsed) /\ T!Placing
      /\ status = "unverified"
  BY <1>1, Zenon DEF T!IInv
<1>3. PICK assigned \in T!Assignments, agrees \in SUBSET (1..MaxSource) :
      \E confidence \in {f \in [DOMAIN cells -> {"high", "fair", "low"}] :
                           \A i \in DOMAIN cells : i \notin T!Range(assigned) => f[i] = "low"} :
        LET src == [i \in DOMAIN cells |-> T!SourceOf(assigned, agrees, i)]
            done == [i \in DOMAIN cells |-> T!Reconciled(cells[i], src[i], confidence[i])]
            texts == [i \in DOMAIN done |-> done[i].text]
        IN /\ cells' = done /\ source' = src
           /\ status' \in IF T!Spots(src) # {} /\ T!Covered(src, texts)
                          THEN {"accepted", "needs_review"} ELSE {"needs_review"}
  BY Zenon DEF T!Verify
<1>4. PICK confidence :
        LET src == [i \in DOMAIN cells |-> T!SourceOf(assigned, agrees, i)]
            done == [i \in DOMAIN cells |-> T!Reconciled(cells[i], src[i], confidence[i])]
            texts == [i \in DOMAIN done |-> done[i].text]
        IN /\ cells' = done /\ source' = src
           /\ status' \in IF T!Spots(src) # {} /\ T!Covered(src, texts)
                          THEN {"accepted", "needs_review"} ELSE {"needs_review"}
  BY <1>3, Zenon
<1>5. PICK src : src = [i \in DOMAIN cells |-> T!SourceOf(assigned, agrees, i)]
  OBVIOUS
<1>6. PICK done : done = [i \in DOMAIN cells |-> T!Reconciled(cells[i], src[i], confidence[i])]
  OBVIOUS
<1>7. PICK texts : texts = [i \in DOMAIN done |-> done[i].text]
  OBVIOUS
<1>8. /\ cells' = done /\ source' = src
      /\ status' \in IF T!Spots(src) # {} /\ T!Covered(src, texts)
                     THEN {"accepted", "needs_review"} ELSE {"needs_review"}
  BY <1>4, <1>5, <1>6, <1>7, Zenon
<1>9. PICK n : /\ n \in Nat /\ DOMAIN cells = 1..n
               /\ \A i \in 1..n :
                    /\ cells[i].row \in Nat /\ cells[i].col \in Nat
                    /\ cells[i].rows \in Nat \ {0} /\ cells[i].cols \in Nat \ {0}
                    /\ cells[i] = [row |-> cells[i].row, col |-> cells[i].col,
                                   rows |-> cells[i].rows, cols |-> cells[i].cols,
                                   text |-> cells[i].text]
  BY <1>2, TableHas, Zenon
<1>10. /\ cells # <<>> /\ T!Disjoint(cells)
       /\ normalized => (\A i \in DOMAIN cells : cells[i].cols = 1) \/ T!Filled(cells)
       /\ \A i \in DOMAIN cells :
            cells[i].text = T!Blank \/ \E k \in DOMAIN parsed : cells[i].text = parsed[k].text
  BY <1>2, Zenon DEF T!Placing
<1>11. ASSUME NEW i \in 1..n
       PROVE  /\ done[i].row = cells[i].row /\ done[i].col = cells[i].col
              /\ done[i].rows = cells[i].rows /\ done[i].cols = cells[i].cols
              /\ done[i].text \in {cells[i].text, src[i]}
              /\ done[i] = [row |-> done[i].row, col |-> done[i].col, rows |-> done[i].rows,
                            cols |-> done[i].cols, text |-> done[i].text]
  <2>1. done[i] = cells[i] \/ done[i] = [cells[i] EXCEPT !.text = src[i]]
    BY <1>6, <1>9, TableReconciled, Zenon
  <2>2. CASE done[i] = cells[i]
    BY <1>9, <2>2, Zenon
  <2>3. CASE done[i] = [cells[i] EXCEPT !.text = src[i]]
    <3>1. PICK old, new : old = cells[i] /\ new = done[i]
      OBVIOUS
    <3>2. /\ old.row \in Nat /\ old.col \in Nat
          /\ old.rows \in Nat \ {0} /\ old.cols \in Nat \ {0}
          /\ old = [row |-> old.row, col |-> old.col, rows |-> old.rows, cols |-> old.cols,
                    text |-> old.text]
      BY <1>9, <3>1, Zenon
    <3>3. new = [old EXCEPT !.text = src[i]]
      BY <2>3, <3>1
    <3>4. /\ new.row = old.row /\ new.col = old.col /\ new.rows = old.rows
          /\ new.cols = old.cols /\ new.text = src[i]
          /\ new = [row |-> new.row, col |-> new.col, rows |-> new.rows, cols |-> new.cols,
                    text |-> new.text]
      BY <3>2, <3>3, TableTold
    <3> QED BY <3>1, <3>4, Zenon
  <2> QED BY <2>1, <2>2, <2>3
<1>12. done = [i \in 1..n |-> done[i]]
  BY <1>6, <1>9, Zenon
<1>13. T!IsTable(done) /\ DOMAIN done = 1..n
  <2>1. ASSUME NEW i \in 1..n
        PROVE  /\ done[i].row \in Nat /\ done[i].col \in Nat
               /\ done[i].rows \in Nat \ {0} /\ done[i].cols \in Nat \ {0}
               /\ done[i] = [row |-> done[i].row, col |-> done[i].col, rows |-> done[i].rows,
                             cols |-> done[i].cols, text |-> done[i].text]
    BY <1>9, <1>11, Zenon
  <2> QED BY <1>9, <1>12, <2>1, TableIs, Zenon
<1>14. \A i \in 1..n : T!SlotsOf(done[i]) = T!SlotsOf(cells[i])
  BY <1>11, Zenon DEF T!SlotsOf
<1>15. T!Disjoint(done)
  BY <1>9, <1>10, <1>13, <1>14, Zenon DEF T!Disjoint
<1>16. T!Filled(cells) => T!Filled(done)
  <2>1. \A s : s \in T!SlotsOfAll(done) <=> s \in T!SlotsOfAll(cells)
    BY <1>9, <1>13, <1>14, TableUnion, Zenon
  <2>2. T!SlotsOfAll(done) = T!SlotsOfAll(cells)
    BY <2>1, Zenon
  <2>3. {done[i].row + done[i].rows : i \in 1..n} = {cells[i].row + cells[i].rows : i \in 1..n}
    <3>1. \A i \in 1..n : done[i].row + done[i].rows = cells[i].row + cells[i].rows
      BY <1>11, Zenon
    <3> QED BY ONLY <3>1, SMT
  <2>4. {done[i].col + done[i].cols : i \in 1..n} = {cells[i].col + cells[i].cols : i \in 1..n}
    <3>1. \A i \in 1..n : done[i].col + done[i].cols = cells[i].col + cells[i].cols
      BY <1>11, Zenon
    <3> QED BY ONLY <3>1, SMT
  <2>5. T!Rows(done) = T!Rows(cells) /\ T!Cols(done) = T!Cols(cells)
    BY <1>9, <1>13, <2>3, <2>4, Zenon DEF T!Rows, T!Cols
  <2> QED BY <2>2, <2>5, Zenon DEF T!Filled
<1>17. done # <<>>
  <2>1. PICK i : i \in 1..n
    <3>1. n # 0
      <4>1. n = 0 => 1..n = {}
        OBVIOUS
      <4>2. n = 0 => cells = <<>>
        <5>1. PICK k : /\ k = Len(cells) /\ k \in Nat /\ DOMAIN cells = 1..k
                       /\ cells = [i \in 1..k |-> cells[i]]
          BY <1>2, TableHas, Zenon
        <5> QED BY <1>9, <4>1, <5>1
      <4> QED BY <1>10, <4>2
    <3>2. n \in Nat => 1 \in 1..n
      BY ONLY <3>1, SMTT(30)
    <3>3. n \in Nat
      BY <1>9
    <3> QED BY <3>2, <3>3, Zenon
  <2>2. DOMAIN <<>> = {}
    OBVIOUS
  <2> QED BY <1>13, <2>1, <2>2, Zenon
<1>18. status' \in {"accepted", "needs_review"}
  BY <1>8, Zenon
<1>19. T!Placing'
  <2>1. normalized => (\A i \in DOMAIN done : done[i].cols = 1) \/ T!Filled(done)
    BY <1>9, <1>10, <1>11, <1>13, <1>16, Zenon
  <2>2. status' # "unverified"
    BY <1>18
  <2>3. "export" # "placed" /\ "export" # "boxes"
    OBVIOUS
  <2> QED BY <1>1, <1>8, <1>15, <1>17, <2>1, <2>2, <2>3, Zenon DEF T!Placing
<1>20. \A i \in 1..n : DOMAIN src[i] = {k \in 1..MaxSource : assigned[k] = i}
  <2>1. \A i \in 1..n : src[i] = T!SourceOf(assigned, agrees, i)
    BY <1>5, <1>9, Zenon
  <2>2. \A i : DOMAIN T!SourceOf(assigned, agrees, i) = {k \in 1..MaxSource : assigned[k] = i}
    BY Zenon DEF T!SourceOf
  <2> QED BY <2>1, <2>2, Zenon
<1>21. \A i, j \in 1..n : i # j => DOMAIN src[i] \cap DOMAIN src[j] = {}
  BY <1>20
<1>22. \A i \in 1..n : \/ done[i].text \in {T!Blank, src[i]}
                       \/ \E k \in DOMAIN parsed : done[i].text = parsed[k].text
  <2> SUFFICES ASSUME NEW i \in 1..n
               PROVE  \/ done[i].text \in {T!Blank, src[i]}
                      \/ \E k \in DOMAIN parsed : done[i].text = parsed[k].text
    OBVIOUS
  <2>1. done[i].text \in {cells[i].text, src[i]}
    BY <1>11, Zenon
  <2>2. cells[i].text = T!Blank \/ \E k \in DOMAIN parsed : cells[i].text = parsed[k].text
    BY <1>9, <1>10, Zenon
  <2> QED BY <2>1, <2>2, Zenon
<1>23. \A table : T!Spots(table) = UNION {{i} \X DOMAIN table[i] : i \in DOMAIN table}
  BY Zenon DEF T!Spots
<1>24. \A table : \A s \in T!Spots(table) : s[1] \in DOMAIN table /\ s[2] \in DOMAIN table[s[1]]
                                            /\ s = <<s[1], s[2]>>
  <2> SUFFICES ASSUME NEW table, NEW s \in T!Spots(table)
               PROVE  s[1] \in DOMAIN table /\ s[2] \in DOMAIN table[s[1]] /\ s = <<s[1], s[2]>>
    OBVIOUS
  <2>1. PICK i \in DOMAIN table : s \in {i} \X DOMAIN table[i]
    BY <1>23
  <2> QED BY <2>1
<1>25. DOMAIN src = 1..n
  BY <1>5, <1>9, Zenon
<1>26. T!IsFiniteSet(T!Spots(src))
  <2>1. T!Spots(src) \in SUBSET ((1..n) \X (1..MaxSource))
    <3> SUFFICES ASSUME NEW s \in T!Spots(src) PROVE s \in (1..n) \X (1..MaxSource)
      BY Zenon
    <3>1. s[1] \in 1..n /\ s[2] \in DOMAIN src[s[1]] /\ s = <<s[1], s[2]>>
      BY <1>24, <1>25, Zenon
    <3>2. s[2] \in 1..MaxSource
      BY <1>20, <3>1
    <3> QED BY <3>1, <3>2, Zenon
  <2>2. n \in Int /\ MaxSource \in Int /\ 1 \in Int
    BY <1>9 DEF T!TableAssumption
  <2>3. IsFiniteSet(1..n) /\ IsFiniteSet(1..MaxSource)
    BY <2>2, FS_Interval
  <2>4. IsFiniteSet((1..n) \X (1..MaxSource))
    BY <2>3, FS_Product
  <2>5. IsFiniteSet(T!Spots(src))
    BY <2>1, <2>4, FS_Subset
  <2>6. T!IsFiniteSet(T!Spots(src)) <=> IsFiniteSet(T!Spots(src))
    BY DEF T!IsFiniteSet, IsFiniteSet
  <2> QED BY <2>5, <2>6
<1>27. T!Covered(src, texts) => 10 * T!Cardinality(T!Lost') <= T!Cardinality(T!Spots(src))
  <2>1. SUFFICES ASSUME T!Covered(src, texts)
                 PROVE  10 * T!Cardinality(T!Lost') <= T!Cardinality(T!Spots(src))
    OBVIOUS
  <2>2. PICK found \in SUBSET T!Spots(src) :
          /\ 10 * T!Cardinality(found) >= 9 * T!Cardinality(T!Spots(src))
          /\ \E match \in [found -> T!Spots(texts)] :
               /\ T!IsInjective(match)
               /\ \A s \in found : texts[match[s][1]][match[s][2]] = src[s[1]][s[2]]
    BY <2>1, Zenon DEF T!Covered
  <2>3. PICK match \in [found -> T!Spots(texts)] :
               \A s \in found : texts[match[s][1]][match[s][2]] = src[s[1]][s[2]]
    BY <2>2, Zenon
  <2>4. T!Lost' = {s \in T!Spots(src) :
           \A i \in 1..n : src[s[1]][s[2]] \notin T!Range(done[i].text)}
    BY <1>8, <1>13, Zenon DEF T!Lost
  <2>5. ASSUME NEW s \in found, s \in T!Lost' PROVE FALSE
    <3>1. match[s] \in T!Spots(texts)
      BY <2>3, Zenon
    <3>2. PICK i, j : i = match[s][1] /\ j = match[s][2]
      OBVIOUS
    <3>3. i \in DOMAIN texts /\ j \in DOMAIN texts[i]
      BY <1>24, <3>1, <3>2, Zenon
    <3>4. i \in 1..n /\ texts[i] = done[i].text
      BY <1>7, <1>13, <3>3, Zenon
    <3>5. texts[i][j] \in T!Range(done[i].text)
      BY <3>3, <3>4 DEF T!Range
    <3>6. texts[i][j] = src[s[1]][s[2]]
      BY <2>3, <3>2, Zenon
    <3>7. \A k \in 1..n : src[s[1]][s[2]] \notin T!Range(done[k].text)
      BY <2>4, <2>5, Zenon
    <3> QED BY <3>4, <3>5, <3>6, <3>7, Zenon
  <2>6. T!Lost' \in SUBSET T!Spots(src)
    BY <2>4
  <2>7. found \cap T!Lost' = {}
    BY <2>5
  <2>8. PICK lost : lost = T!Lost'
    OBVIOUS
  <2>9. lost \in SUBSET T!Spots(src) /\ found \cap lost = {}
    BY <2>6, <2>7, <2>8, Zenon
  <2>10. 10 * T!Cardinality(lost) <= T!Cardinality(T!Spots(src))
    BY <1>26, <2>2, <2>9, TableTenth, Zenon
  <2> QED BY <2>8, <2>10, Zenon
<1>28. status' = "accepted" => T!Covered(src, texts)
  <2>1. "accepted" # "needs_review"
    OBVIOUS
  <2> QED BY <1>8, <2>1, Zenon
<1>29. T!NothingInvented'
  BY <1>1, <1>8, <1>13, <1>21, <1>22, <1>27, <1>28, Zenon DEF T!NothingInvented
<1> QED BY <1>1, <1>2, <1>8, <1>13, <1>19, <1>29, Zenon DEF T!IInv

LEMMA TableNotVerified == T!IInv /\ T!NotVerified => T!IInv'
<1> SUFFICES ASSUME T!IInv, T!NotVerified PROVE T!IInv'
  OBVIOUS
<1>1. /\ place = "verify" /\ place' = "export" /\ parsed' = parsed /\ cells' = cells
      /\ normalized' = normalized /\ source' = source /\ status' = status
  BY DEF T!NotVerified
<1>2. /\ T!IsTable(cells) /\ T!IsTable(parsed) /\ T!OfHTML(parsed) /\ T!Placing
      /\ status = "unverified"
  BY <1>1, Zenon DEF T!IInv
<1>3. T!Placing'
  BY <1>1, <1>2, Zenon DEF T!Placing
<1>4. T!NothingInvented'
  BY <1>1, <1>2, Zenon DEF T!NothingInvented
<1> QED BY <1>1, <1>2, <1>3, <1>4, Zenon DEF T!IInv

LEMMA TableExport == T!IInv /\ T!Export => T!IInv'
<1> SUFFICES ASSUME T!IInv, T!Export PROVE T!IInv'
  OBVIOUS
<1>1. /\ place = "export" /\ place' \in {"error", "over"} /\ parsed' = parsed /\ cells' = cells
      /\ normalized' = normalized /\ source' = source /\ status' = status
  BY DEF T!Export
<1>2. /\ T!IsTable(cells) /\ T!IsTable(parsed) /\ T!OfHTML(parsed) /\ T!Placing
      /\ T!NothingInvented
  BY <1>1, Zenon DEF T!IInv
<1>3. T!Placing'
  BY <1>1, <1>2, Zenon DEF T!Placing
<1>4. T!NothingInvented'
  BY <1>1, <1>2, Zenon DEF T!NothingInvented, T!Lost
<1> QED BY <1>1, <1>2, <1>3, <1>4, Zenon DEF T!IInv

(* Every step of a table.                                                  *)
LEMMA TablesKeep == T!TableAssumption /\ T!IInv /\ T!Next => T!IInv'
BY TableStartRow, TableStartCell, TableEndCell, TableEndOfText, TableKeepCells,
   TableVisualCells, TableNormalize, TableVerify, TableNotVerified, TableExport, Zenon
   DEF T!Next

LEMMA TablesStill == T!IInv /\ UNCHANGED tables => T!IInv'
<1> SUFFICES ASSUME T!IInv, UNCHANGED tables PROVE T!IInv'
  OBVIOUS
<1>1. /\ place' = place /\ row' = row /\ col' = col /\ open' = open /\ span' = span
      /\ occupied' = occupied /\ cells' = cells /\ parsed' = parsed
      /\ normalized' = normalized /\ source' = source /\ status' = status
  BY DEF tables
<1> QED BY <1>1, Zenon DEF T!IInv, T!Parsing, T!Placing, T!NothingInvented, T!Lost

LEMMA TablesPromised == T!IInv => T!GridRight /\ T!NothingInvented
<1> SUFFICES ASSUME T!IInv PROVE T!GridRight /\ T!NothingInvented
  OBVIOUS
<1>1. T!NothingInvented /\ T!OfHTML(parsed)
  BY Zenon DEF T!IInv
<1>2. /\ T!Disjoint(parsed)
      /\ \A i \in DOMAIN parsed : \A c \in 0..(parsed[i].col - 1) :
           \E j \in 1..(i - 1) : <<parsed[i].row, c>> \in T!SlotsOf(parsed[j])
  BY <1>1, Zenon DEF T!OfHTML
<1>3. ASSUME place \in {"verify", "export", "over"}
      PROVE  /\ T!Disjoint(cells)
             /\ (normalized /\ \E i \in DOMAIN cells : cells[i].cols > 1) => T!Filled(cells)
             /\ place = "verify" => T!OneCellEach(cells)
  <2>1. T!Placing /\ (place = "verify" => status = "unverified")
    BY <1>3 DEF T!IInv
  <2>2. /\ T!Disjoint(cells)
        /\ normalized => (\A i \in DOMAIN cells : cells[i].cols = 1) \/ T!Filled(cells)
        /\ status = "unverified" => T!OneCellEach(cells)
    BY <2>1, Zenon DEF T!Placing
  <2>3. ~(1 > 1)
    OBVIOUS
  <2> QED BY <2>1, <2>2, <2>3, Zenon
<1>4. place = "verify" => place \in {"verify", "export", "over"}
  OBVIOUS
<1> QED BY <1>1, <1>2, <1>3, <1>4, Zenon DEF T!GridRight

-----------------------------------------------------------------------------
(* What is kept of a reading and of a table through every step.            *)
ReadingKept == R!IInv /\ T!IInv

LEMMA ReadingBegins ==
  ASSUME Assumed, SceneInit
  PROVE  ReadingKept
<1>1. R!IInv
  BY ReadingInit DEF SceneInit, Assumed, ComputerAssumption
<1>2. T!IInv
  BY TableInit DEF SceneInit
<1> QED BY <1>1, <1>2 DEF ReadingKept

LEMMA ReadingGoesOn ==
  ASSUME Assumed, ReadingKept,
         \/ LaunchStep \/ MaintenanceStep \/ SetupStep
         \/ RecognitionStep \/ TableStep \/ ArtifactStep \/ HistoryStep
         \/ AnalysisStep \/ RecordsStep \/ UNCHANGED all
  PROVE  ReadingKept'
<1>1. R!ReadingAssumption /\ T!TableAssumption
  BY DEF Assumed, ComputerAssumption
<1>2. R!IInv'
  <2>1. CASE RecognitionStep
    BY <1>1, <2>1, ReadingStep DEF RecognitionStep, ReadingKept
  <2>2. CASE ~RecognitionStep
    <3>1. UNCHANGED recognition
      BY <2>2 DEF LaunchStep, MaintenanceStep, SetupStep, TableStep, ArtifactStep, HistoryStep,
                  AnalysisStep, RecordsStep, all, others
    <3> QED BY <3>1, ReadingStill DEF ReadingKept
  <2> QED BY <2>1, <2>2
<1>3. T!IInv'
  <2>1. CASE TableStep
    BY <1>1, <2>1, TablesKeep DEF TableStep, ReadingKept
  <2>2. CASE ~TableStep
    <3>1. UNCHANGED tables
      BY <2>2 DEF LaunchStep, MaintenanceStep, SetupStep, RecognitionStep, ArtifactStep, HistoryStep,
                  AnalysisStep, RecordsStep, all, others
    <3> QED BY <3>1, TablesStill DEF ReadingKept
  <2> QED BY <2>1, <2>2
<1> QED BY <1>2, <1>3 DEF ReadingKept

(* The lines of a result are those of its pages, each once and where its   *)
(* page is, and a cancellation seen in time ends the workflow; the cells   *)
(* of a table overlap nowhere and lose no text of the HTML when they are   *)
(* arranged anew, and an accepted table lacks a tenth of the tokens of its *)
(* lines at most, for any number of pages, lines, cells and spans.         *)
THEOREM ComputerReading == ComputerAssumption /\ Scene => []ReadingSound
<1> DEFINE Steps == \/ LaunchStep \/ MaintenanceStep \/ SetupStep
                    \/ RecognitionStep \/ TableStep \/ ArtifactStep \/ HistoryStep
                    \/ AnalysisStep \/ RecordsStep
<1>1. Assumed /\ SceneInit => ReadingKept
  BY ReadingBegins
<1>2. ReadingKept /\ Assumed /\ [Steps]_all => ReadingKept'
  BY ReadingGoesOn
<1>3. Assumed /\ Scene => []Assumed
  BY SceneKeeps, PTL
<1>4. ReadingKept => ReadingSound
  BY ReadingPromised, TablesPromised DEF ReadingKept, ReadingSound
<1> QED BY <1>1, <1>2, <1>3, <1>4, PTL DEF Scene, Assumed
=============================================================================
