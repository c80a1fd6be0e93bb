-------------------------------- MODULE Launch --------------------------------
(***************************************************************************)
(* Starting and stopping the studio: the instance lock, the probe of the   *)
(* port, the lifespan of the server with its migration of legacy data, and *)
(* the desktop host, whose server runs in a thread beside the tray icon.   *)
(*                                                                         *)
(* Every program is one launch.  Its server is in the lifespan from the    *)
(* migration until the queue is drained; it listens only in between.       *)
(***************************************************************************)
EXTENDS FiniteSets, Naturals

CONSTANTS Program,    \* launches
          Desktop,    \* those that run the desktop host
          Files,      \* names below the legacy directories
          MaxKills    \* bound of the model: programs that die

DesktopPrograms == Desktop \subseteq Program

VARIABLES
  host,       \* per launch: where its main thread is
  server,     \* per launch: where its server is
  busy,       \* launches with an active OCR job
  lock,       \* the launch that holds predixalearn.lock, or Nobody
  gaveUp,     \* desktop hosts that stopped waiting for their server
  legacy,     \* per file: the legacy sources that have it
  target,     \* per file: its content in the data directory
  copying,    \* per launch: the files still to copy, and its conflicts
  marker,     \* the migration marker: absent, or the conflicts it lists
  own,        \* files that were in the data directory before
  deleted,    \* files deleted by the user
  kills

vars == <<host, server, busy, lock, gaveUp, legacy, target, copying, marker,
          own, deleted, kills>>
launching == <<host, server, busy, lock, gaveUp>>
migrating == <<legacy, target, copying, marker, own, deleted>>

Nobody == "nobody"
Missing == "missing"   \* no such file
Part == "part"         \* a copy that has not come to its end
NoMarker == [there |-> FALSE, conflicts |-> {}]
NoCopy == [todo |-> {}, open |-> {}, conflicts |-> {}]

Init ==
  /\ host = [p \in Program |-> "idle"] /\ server = [p \in Program |-> "none"]
  /\ busy = {} /\ lock = Nobody /\ gaveUp = {}
  /\ legacy \in [Files -> SUBSET {"new", "old"}]
  /\ own \in SUBSET Files
  /\ target = [f \in Files |-> IF f \in own THEN "own" ELSE Missing]
  /\ copying = [p \in Program |-> NoCopy] /\ marker = NoMarker /\ deleted = {}
  /\ kills = 0

Running == {"migrate", "recover", "serving", "leaving", "draining"}
Listening(p) == server[p] \in {"serving", "leaving"}

(* The main thread returns and the lock with it.                           *)
Over(p) ==
  /\ host' = [host EXCEPT ![p] = "over"]
  /\ lock' = IF lock = p THEN Nobody ELSE lock

-----------------------------------------------------------------------------
(* mutant: the launch goes on without the lock                             *)
AcquireAnyway(p) ==
  /\ host[p] = "idle"
  /\ host' = [host EXCEPT ![p] = "probe"]
  /\ lock' = IF lock = Nobody THEN p ELSE lock
  /\ UNCHANGED <<server, busy, gaveUp, kills>> /\ UNCHANGED migrating

Acquire(p) ==
  /\ host[p] = "idle"
  /\ IF lock = Nobody
     THEN host' = [host EXCEPT ![p] = "probe"] /\ lock' = p
     ELSE host' = [host EXCEPT ![p] = "wait"] /\ UNCHANGED lock
  /\ UNCHANGED <<server, busy, gaveUp, kills>> /\ UNCHANGED migrating

(* Without the lock: the other service answers, or the time is over.       *)
EndWait(p) ==
  /\ host[p] = "wait"
  /\ Over(p)
  /\ UNCHANGED <<server, busy, gaveUp, kills>> /\ UNCHANGED migrating

(* With it: a server that listens is used, and none is started beside it.  *)
Probe(p) ==
  /\ host[p] = "probe"
  /\ IF \E q \in Program : Listening(q)
     THEN Over(p) /\ UNCHANGED <<server, copying>>
     ELSE /\ host' = [host EXCEPT ![p] = "up"] /\ UNCHANGED lock
          /\ server' = [server EXCEPT ![p] = "migrate"]
          /\ copying' = [copying EXCEPT ![p] =
               IF marker.there THEN NoCopy
               ELSE [todo |-> {f \in Files : legacy[f] # {}}, open |-> {},
                     conflicts |-> {f \in Files : legacy[f] = {"new", "old"}}]]
  /\ UNCHANGED <<busy, gaveUp, legacy, target, marker, own, deleted, kills>>

(* What the staging directory has of a file: the newer source comes first, *)
(* and a second file of its name is a conflict.                            *)
Staged(f) == IF "new" \in legacy[f] THEN "new" ELSE "old"

(* Files are copied where none is; another size in its place is a conflict.*)
Copy(p, f) ==
  /\ server[p] = "migrate" /\ ~marker.there /\ f \in copying[p].todo
  /\ IF target[f] = Missing
     THEN /\ target' = [target EXCEPT ![f] = Part]
          /\ copying' = [copying EXCEPT ![p].todo = @ \ {f}, ![p].open = @ \cup {f}]
     ELSE /\ copying' = [copying EXCEPT ![p].todo = @ \ {f},
               ![p].conflicts = IF target[f] = Staged(f) THEN @ ELSE @ \cup {f}]
          /\ UNCHANGED target
  /\ UNCHANGED <<legacy, marker, own, deleted, kills>> /\ UNCHANGED launching

Copied(p, f) ==
  /\ server[p] = "migrate" /\ f \in copying[p].open
  /\ target' = [target EXCEPT ![f] = Staged(f)]
  /\ copying' = [copying EXCEPT ![p].open = @ \ {f}]
  /\ UNCHANGED <<legacy, marker, own, deleted, kills>> /\ UNCHANGED launching

(* The marker is written once; then come the old logs, the stale uploads   *)
(* and the History rows of jobs that an earlier program left running.      *)
Migrated(p) ==
  /\ server[p] = "migrate" /\ copying[p].open = {} /\ (copying[p].todo = {} \/ marker.there)
  /\ marker' = IF marker.there THEN marker
               ELSE [there |-> TRUE, conflicts |-> copying[p].conflicts]
  /\ server' = [server EXCEPT ![p] = "recover"]
  /\ copying' = [copying EXCEPT ![p] = NoCopy]
  /\ UNCHANGED <<host, busy, lock, gaveUp, legacy, target, own, deleted, kills>>

(* The socket is bound last; when it is taken, the lifespan is shut down.  *)
Bind(p) ==
  /\ server[p] = "recover"
  /\ server' = [server EXCEPT ![p] =
       IF \E q \in Program : Listening(q) THEN "draining" ELSE "serving"]
  /\ UNCHANGED <<host, busy, lock, gaveUp, kills>> /\ UNCHANGED migrating

-----------------------------------------------------------------------------
Submit(p) ==
  /\ Listening(p) /\ p \notin busy
  /\ busy' = busy \cup {p}
  /\ UNCHANGED <<host, server, lock, gaveUp, kills>> /\ UNCHANGED migrating

JobEnds(p) ==
  /\ p \in busy /\ server[p] \in Running
  /\ busy' = busy \ {p}
  /\ UNCHANGED <<host, server, lock, gaveUp, kills>> /\ UNCHANGED migrating

UserDeletes(f) ==
  /\ \E p \in Program : Listening(p)
  /\ target[f] # Missing
  /\ target' = [target EXCEPT ![f] = Missing] /\ deleted' = deleted \cup {f}
  /\ UNCHANGED <<legacy, copying, marker, own, kills>> /\ UNCHANGED launching

(* An interrupt of the console, or the tray's Exit, which is refused while *)
(* the queue has active jobs; a job may still be submitted after it.       *)
Quit(p) ==
  /\ server[p] = "serving" /\ (p \in Desktop => p \notin busy)
  /\ server' = [server EXCEPT ![p] = "leaving"]
  /\ UNCHANGED <<host, busy, lock, gaveUp, kills>> /\ UNCHANGED migrating

Drain(p) ==
  /\ server[p] = "leaving"
  /\ server' = [server EXCEPT ![p] = "draining"]
  /\ UNCHANGED <<host, busy, lock, gaveUp, kills>> /\ UNCHANGED migrating

(* reset_queue waits for the running job.                                  *)
ServerEnds(p) ==
  /\ server[p] = "draining" /\ p \notin busy
  /\ server' = [server EXCEPT ![p] = "none"]
  /\ UNCHANGED <<host, busy, lock, gaveUp, kills>> /\ UNCHANGED migrating

HostEnds(p) ==
  /\ host[p] = "up" /\ server[p] = "none"
  /\ Over(p)
  /\ UNCHANGED <<server, busy, gaveUp, kills>> /\ UNCHANGED migrating

(* A desktop host waits 5 seconds for a server that did not start, and 40  *)
(* for one it has stopped; then it lets go of the lock all the same.       *)
StopWaiting(p) ==
  /\ p \in Desktop /\ host[p] = "up" /\ server[p] \in Running
  /\ Over(p)
  /\ gaveUp' = gaveUp \cup {p}
  /\ UNCHANGED <<server, busy, kills>> /\ UNCHANGED migrating

Die(p) ==
  /\ host[p] # "idle" /\ kills < MaxKills
  /\ host[p] # "over" \/ server[p] # "none"
  /\ kills' = kills + 1
  /\ Over(p)
  /\ server' = [server EXCEPT ![p] = "none"] /\ busy' = busy \ {p}
  /\ copying' = [copying EXCEPT ![p] = NoCopy]
  /\ UNCHANGED <<gaveUp, legacy, target, marker, own, deleted>>

Next ==
  \/ \E p \in Program :
       \/ Acquire(p) \/ EndWait(p) \/ Probe(p) \/ Migrated(p) \/ Bind(p)
       \/ Submit(p) \/ JobEnds(p) \/ Quit(p) \/ Drain(p)
       \/ ServerEnds(p) \/ HostEnds(p) \/ StopWaiting(p) \/ Die(p)
       \/ \E f \in Files : Copy(p, f) \/ Copied(p, f)
  \/ \E f \in Files : UserDeletes(f)

Spec == Init /\ [][Next]_vars

-----------------------------------------------------------------------------
(* The lifespan deletes every upload and fails every open History row, for *)
(* it takes them for those of a program that died.  They are nobody's: two *)
(* programs are never in the lifespan at once, however they are started    *)
(* and stopped, unless a desktop host had stopped waiting for its server.  *)
OneLifespan ==
  gaveUp = {} => Cardinality({p \in Program : server[p] \in Running}) <= 1

(* The migration may be killed in the middle of a file and begin anew.     *)
(* What its marker says is still true: every legacy file is in the data    *)
(* directory as it was, or is listed as a conflict, or the user deleted it *)
(* and it did not come back; and no file of the user was overwritten.      *)
MigrationAccounts ==
  /\ (marker.there /\ gaveUp = {}) => \A f \in Files \ deleted :
       legacy[f] # {} => target[f] = Staged(f) \/ f \in marker.conflicts
  /\ \A f \in own : f \notin deleted => target[f] = "own"
  /\ (marker.there /\ gaveUp = {}) => \A f \in deleted : target[f] = Missing

(* One server has the files of the computer, and what is migrated, copied  *)
(* over or in conflict is accounted for.                                   *)
LaunchSound == OneLifespan /\ MigrationAccounts

-----------------------------------------------------------------------------
(* What these rest on: who is in the lifespan has the lock, and a migration*)
(* that is under way still has to copy, is copying, has copied or has      *)
(* listed every file.                                                      *)
LaunchAssumption == DesktopPrograms /\ Nobody \notin Program

Typed ==
  /\ host \in [Program -> {"idle", "wait", "probe", "up", "over"}]
  /\ server \in [Program -> {"none"} \cup Running]
  /\ lock \in Program \cup {Nobody} /\ own \subseteq Files /\ deleted \subseteq Files
  /\ copying \in [Program -> [todo : SUBSET Files, open : SUBSET Files,
                             conflicts : SUBSET Files]]
  /\ target \in [Files -> {Missing, Part, "own", "new", "old"}]
  /\ legacy \in [Files -> SUBSET {"new", "old"}]
  /\ marker \in [there : BOOLEAN, conflicts : SUBSET Files]

InCharge ==
  /\ \A p \in Program : host[p] \in {"probe", "up"} <=> lock = p
  /\ gaveUp = {} => \A p \in Program : server[p] \in Running => host[p] = "up"

CopyAgrees ==
  \A p \in Program :
    /\ server[p] # "migrate" => copying[p] = NoCopy
    /\ copying[p].open \cap own \subseteq deleted

AllInSight ==
  gaveUp = {} =>
    /\ deleted # {} => marker.there
    /\ \A p \in Program :
         /\ server[p] \in {"recover", "serving", "leaving"} => marker.there
         /\ server[p] = "migrate" =>
              IF marker.there THEN copying[p] = NoCopy
              ELSE \A f \in Files : legacy[f] # {} =>
                     \/ f \in copying[p].todo \cup copying[p].open \cup copying[p].conflicts
                     \/ target[f] = Staged(f)

IInv == Typed /\ InCharge /\ CopyAgrees /\ AllInSight /\ MigrationAccounts
=============================================================================
