---------------------------- MODULE DesktopSetup ----------------------------
(***************************************************************************)
(* The bootstrapper of the desktop edition (desktop_bootstrap.py), run by  *)
(* the installer, one command at a time: it promotes a verified runtime    *)
(* directory, and it installs, repairs and removes the local HTTPS root.   *)
(* A command may be killed between any two of its steps.                   *)
(***************************************************************************)
EXTENDS Naturals

CONSTANTS MaxCommands,  \* bound of the model: commands run
          MaxFaults     \* bound of the model: errors and kills

VARIABLES
  at,        \* the step of the command under way, or "idle"
  count,     \* commands run; its number is the version, or the thumbprint
  runtime,   \* the runtime directory: its version, or Absent
  backup,    \* the directory beside it
  store,     \* roots Windows trusts
  marker,    \* desktop-state.json: the thumbprint it names
  tls,       \* the certificate files
  hosts,     \* whether the hosts file maps the local name
  stuck,     \* roots that certutil could not delete
  faults

vars == <<at, count, runtime, backup, store, marker, tls, hosts, stuck, faults>>
directories == <<runtime, backup>>
https == <<store, marker, tls, hosts, stuck>>

Absent == 0

Init ==
  /\ at = "idle" /\ count = 1
  /\ runtime = 1 /\ backup = Absent
  /\ store = {} /\ marker = Absent /\ tls = Absent /\ hosts = FALSE /\ stuck = {}
  /\ faults = 0

Fault == faults < MaxFaults /\ faults' = faults + 1

Goto(from, to) == at = from /\ at' = to

-----------------------------------------------------------------------------
(* The runtime.  The archive was verified and extracted into a staging     *)
(* directory of its own before the first of these steps.                   *)

InstallRuntime ==
  /\ Goto("idle", "drop") /\ count < MaxCommands /\ count' = count + 1
  /\ UNCHANGED faults /\ UNCHANGED directories /\ UNCHANGED https

DropBackup ==
  /\ Goto("drop", "aside")
  /\ backup' = Absent
  /\ UNCHANGED <<count, runtime, faults>> /\ UNCHANGED https

(* mutant: the old directory is removed to make room                       *)
MoveAsideRemove ==
  /\ Goto("aside", "promote")
  /\ runtime' = Absent
  /\ UNCHANGED <<count, backup, faults>> /\ UNCHANGED https

(* destination.replace(backup), of a destination that is there             *)
MoveAside ==
  /\ Goto("aside", "promote")
  /\ backup' = IF runtime = Absent THEN backup ELSE runtime
  /\ runtime' = Absent
  /\ UNCHANGED <<count, faults>> /\ UNCHANGED https

Promote ==
  /\ Goto("promote", "clean")
  /\ runtime' = count
  /\ UNCHANGED <<count, backup, faults>> /\ UNCHANGED https

(* extracted.replace raises: the old directory is put back.                *)
PutBack ==
  /\ Goto("promote", "idle") /\ Fault
  /\ runtime' = backup /\ backup' = Absent
  /\ UNCHANGED count /\ UNCHANGED https

CleanBackup ==
  /\ Goto("clean", "idle")
  /\ backup' = Absent
  /\ UNCHANGED <<count, runtime, faults>> /\ UNCHANGED https

-----------------------------------------------------------------------------
(* HTTPS.  Both a repair and the uninstaller remove what an earlier        *)
(* command has left; a repair then goes on.                                *)

InstallHttps ==
  /\ at = "idle" /\ count < MaxCommands /\ count' = count + 1
  /\ at' = IF marker # Absent \/ tls # Absent THEN "repair:hosts" ELSE "certificates"
  /\ UNCHANGED faults /\ UNCHANGED directories /\ UNCHANGED https

RemoveHttps ==
  /\ Goto("idle", "remove:hosts") /\ count < MaxCommands /\ count' = count + 1
  /\ UNCHANGED faults /\ UNCHANGED directories /\ UNCHANGED https

RemoveHosts ==
  /\ \/ Goto("repair:hosts", "repair:store") \/ Goto("remove:hosts", "remove:store")
  /\ hosts' = FALSE
  /\ UNCHANGED <<count, store, marker, tls, stuck, faults>> /\ UNCHANGED directories

(* An error of certutil is passed over.                                    *)
Untrust(thumbprint) ==
  \/ store' = store \ {thumbprint} /\ UNCHANGED <<stuck, faults>>
  \/ Fault /\ stuck' = stuck \cup {thumbprint} /\ UNCHANGED store

RemoveRoot ==
  /\ \/ Goto("repair:store", "repair:files") \/ Goto("remove:store", "remove:files")
  /\ IF marker # Absent THEN Untrust(marker) ELSE UNCHANGED <<store, stuck, faults>>
  /\ UNCHANGED <<count, marker, tls, hosts>> /\ UNCHANGED directories

RemoveFiles ==
  /\ \/ Goto("repair:files", "repair:marker") \/ Goto("remove:files", "remove:marker")
     \/ Goto("undo:files", "idle")
  /\ tls' = Absent
  /\ UNCHANGED <<count, store, marker, hosts, stuck, faults>> /\ UNCHANGED directories

RemoveMarker ==
  /\ \/ Goto("repair:marker", "certificates") \/ Goto("remove:marker", "idle")
     \/ Goto("undo:marker", "undo:files")
  /\ marker' = Absent
  /\ UNCHANGED <<count, store, tls, hosts, stuck, faults>> /\ UNCHANGED directories

(* A new pair each time; an error removes the directory.                   *)
CreateCertificates ==
  /\ \/ Goto("certificates", "marker") /\ tls' = count /\ UNCHANGED faults
     \/ Goto("certificates", "idle") /\ Fault /\ tls' = Absent
  /\ UNCHANGED <<count, store, marker, hosts, stuck>> /\ UNCHANGED directories

(* The marker comes before the store, for the next repair or removal.      *)
WriteMarker ==
  /\ Goto("marker", "trust")
  /\ marker' = count
  /\ UNCHANGED <<count, store, tls, hosts, stuck, faults>> /\ UNCHANGED directories

Trust ==
  /\ Goto("trust", "map")
  /\ store' = store \cup {count}
  /\ UNCHANGED <<count, marker, tls, hosts, stuck, faults>> /\ UNCHANGED directories

TrustFirst ==
  /\ Goto("trust", "map")
  /\ marker' = count
  /\ UNCHANGED <<count, store, tls, hosts, stuck, faults>> /\ UNCHANGED directories

MapHost ==
  /\ Goto("map", "verify")
  /\ hosts' = TRUE
  /\ UNCHANGED <<count, store, marker, tls, stuck, faults>> /\ UNCHANGED directories

(* The access list, the files, the marker, the mapping and the store.      *)
Verify ==
  /\ Goto("verify", "idle")
  /\ tls = marker /\ hosts /\ marker \in store
  /\ UNCHANGED <<count, faults>> /\ UNCHANGED directories /\ UNCHANGED https

(* Any error from the marker on takes the installation back.               *)
Undo ==
  /\ at \in {"marker", "trust", "map", "verify"} /\ Fault
  /\ at' = "undo:hosts"
  /\ UNCHANGED count /\ UNCHANGED directories /\ UNCHANGED https

UndoHosts ==
  /\ Goto("undo:hosts", "undo:store")
  /\ hosts' = FALSE
  /\ UNCHANGED <<count, store, marker, tls, stuck, faults>> /\ UNCHANGED directories

UndoRoot ==
  /\ Goto("undo:store", "undo:marker")
  /\ Untrust(count)
  /\ UNCHANGED <<count, marker, tls, hosts>> /\ UNCHANGED directories

Kill ==
  /\ at # "idle" /\ Fault
  /\ at' = "idle"
  /\ UNCHANGED count /\ UNCHANGED directories /\ UNCHANGED https

Next ==
  \/ InstallRuntime \/ DropBackup \/ MoveAside \/ Promote \/ PutBack \/ CleanBackup
  \/ InstallHttps \/ RemoveHttps \/ RemoveHosts \/ RemoveRoot \/ RemoveFiles \/ RemoveMarker
  \/ CreateCertificates \/ WriteMarker \/ Trust \/ MapHost \/ Verify
  \/ Undo \/ UndoHosts \/ UndoRoot \/ Kill

Spec == Init /\ [][Next]_vars

-----------------------------------------------------------------------------
(* What an interrupted command leaves is enough for the next one.  One     *)
(* error or kill never costs the runtime once no command runs (a second    *)
(* one may: the next installation deletes the backup, the only copy,       *)
(* before it has moved its own directory in); and a root that Windows      *)
(* trusts is named by the marker, so that a repair or the uninstaller can  *)
(* take it back, except one that certutil had refused to delete.           *)
SetupRecoverable ==
  /\ (at = "idle" /\ faults <= 1) => runtime # Absent \/ backup # Absent
  /\ store \subseteq {marker} \cup stuck

-----------------------------------------------------------------------------
(* What this rests on: whatever is trusted is named by the marker, was     *)
(* refused or is about to be taken back, and the only runtime is never     *)
(* away while nothing has gone wrong.                                      *)
Typed ==
  /\ count \in Nat \ {0} /\ faults \in Nat /\ runtime \in Nat /\ backup \in Nat
  /\ Absent \notin store

RootsNamed ==
  /\ store \subseteq {marker} \cup stuck
  /\ at \in {"repair:files", "repair:marker", "remove:files", "remove:marker",
             "certificates", "marker", "undo:marker"} => store \subseteq stuck
  /\ at \in {"trust", "map", "verify"} => marker = count
  /\ at \in {"undo:hosts", "undo:store"} => store \subseteq {count} \cup stuck

RuntimeThere ==
  /\ faults = 0 => IF at = "promote" THEN backup # Absent ELSE runtime # Absent
  /\ faults = 1 => \/ at \in {"drop", "aside", "promote"}
                   \/ runtime # Absent \/ backup # Absent
  /\ at = "clean" => runtime # Absent

IInv == Typed /\ RootsNamed /\ RuntimeThere
=============================================================================
