-------------------------------- MODULE Engines --------------------------------
(***************************************************************************)
(* The models of the studio and the threads that load them: the engine     *)
(* manager with its inference lock, the warmup thread, the job thread that *)
(* opens one session after another, the probe of LibreOffice, which waits  *)
(* for the warmup, and the shutdown that releases the manager.             *)
(*                                                                         *)
(* Not modelled: the locks of initialization, which are only taken under   *)
(* the inference lock, and sessions within sessions, which no code opens.  *)
(***************************************************************************)
EXTENDS Naturals, FiniteSets

CONSTANTS Variant,      \* per engine name: its variants
          WarmVariant,  \* the variant the warmup asks for
          MaxSessions   \* bound of the model: sessions of the job thread

VARIABLES
  engines,   \* per name: the variant loaded, or Unloaded
  lock,      \* the thread inside the inference lock
  at,        \* per thread: where it is
  want,      \* per thread: the engine and variant of its session
  warm,      \* the warmup state shown by the health report
  probe,     \* the LibreOffice probe state shown by the health report
  convert,   \* the probe's validation: its step and attempt, and its directories
  sessions,  \* sessions the job thread has opened
  stop       \* shutdown: "no", "asked", "released", "over"

vars == <<engines, lock, at, want, warm, probe, convert, sessions, stop>>

Names == DOMAIN Variant
Threads == {"warmup", "job"}
Requests == UNION {{<<n, v>> : v \in Variant[n]} : n \in Names}
Unloaded == "unloaded"
Nobody == "nobody"
NoRequest == <<>>

EnginesAssumption ==
  WarmVariant \in Requests /\ \A n \in Names : Unloaded \notin Variant[n]

Init ==
  /\ engines = [n \in Names |-> Unloaded] /\ lock = Nobody
  /\ at = [t \in Threads |-> "idle"] /\ want = [t \in Threads |-> NoRequest]
  /\ warm = "not_started" /\ probe = "not_started"
  /\ convert = [at |-> "wait", attempt |-> 0, dirs |-> {}]
  /\ sessions = 0 /\ stop = "no"

loaders == <<engines, lock, at, want, sessions>>

-----------------------------------------------------------------------------
(* The manager.                                                            *)

(* A session first waits for the lock, then asks for its engine.           *)
Open(t, request) ==
  /\ at[t] = "idle"
  /\ at' = [at EXCEPT ![t] = "locking"] /\ want' = [want EXCEPT ![t] = request]

OpenJob ==
  /\ stop = "no" /\ sessions < MaxSessions
  /\ \E request \in Requests : Open("job", request)
  /\ sessions' = sessions + 1
  /\ UNCHANGED <<engines, lock, warm, probe, convert, stop>>

(* mutant: get_engine is called without the session's lock                 *)
LockNot(t) ==
  /\ at[t] = "locking"
  /\ at' = [at EXCEPT ![t] = "getting"]
  /\ UNCHANGED <<engines, lock, want, warm, probe, convert, sessions, stop>>

Lock(t) ==
  /\ at[t] = "locking" /\ lock = Nobody
  /\ lock' = t /\ at' = [at EXCEPT ![t] = "getting"]
  /\ UNCHANGED <<engines, want, warm, probe, convert, sessions, stop>>

(* An engine of another variant, and every other engine, is released       *)
(* before the one that is wanted is created.                               *)
Released == [n \in Names |-> Unloaded]

GetEngine(t) ==
  /\ at[t] = "getting"
  /\ IF engines[want[t][1]] = want[t][2]
     THEN at' = [at EXCEPT ![t] = "open"] /\ UNCHANGED engines
     ELSE at' = [at EXCEPT ![t] = "creating"] /\ engines' = Released
  /\ UNCHANGED <<lock, want, warm, probe, convert, sessions, stop>>

Create(t) ==
  /\ at[t] = "creating"
  /\ engines' = [engines EXCEPT ![want[t][1]] = want[t][2]]
  /\ at' = [at EXCEPT ![t] = "open"]
  /\ UNCHANGED <<lock, want, warm, probe, convert, sessions, stop>>

(* The end of a session: its work is done, or it failed, or the creation   *)
(* of its engine did, which leaves no engine loaded.                       *)
Close(t) ==
  /\ at[t] \in {"creating", "open"}
  /\ at' = [at EXCEPT ![t] = "idle"] /\ want' = [want EXCEPT ![t] = NoRequest]
  /\ lock' = IF lock = t THEN Nobody ELSE lock
  /\ IF t = "warmup"
     THEN warm' = IF at[t] = "open" THEN "ready" ELSE "failed"
     ELSE UNCHANGED warm
  /\ UNCHANGED <<engines, probe, convert, sessions, stop>>

-----------------------------------------------------------------------------
(* The health threads.                                                     *)

StartWarmup ==
  /\ warm = "not_started" /\ stop = "no"
  /\ warm' = "initializing"
  /\ Open("warmup", WarmVariant)
  /\ UNCHANGED <<engines, lock, probe, convert, sessions, stop>>

StartProbe ==
  /\ probe = "not_started" /\ warm # "not_started" /\ stop = "no"
  /\ probe' = "checking"
  /\ UNCHANGED <<warm, convert, stop>> /\ UNCHANGED loaders

(* mutant: only a warmup that succeeded is waited for                      *)
ProbeBeginReady ==
  /\ probe = "checking" /\ convert.at = "wait"
  /\ warm = "ready"
  /\ convert' \in {[convert EXCEPT !.at = "failed"],
                   [convert EXCEPT !.at = "attempt", !.attempt = 1, !.dirs = {"probe"}]}
  /\ UNCHANGED <<warm, probe, stop>> /\ UNCHANGED loaders

(* The probe polls the warmup; then the executable and its bootstrap file  *)
(* are looked at, and a document is written.                               *)
ProbeBegin ==
  /\ probe = "checking" /\ convert.at = "wait"
  /\ warm \in {"ready", "failed"}
  /\ convert' \in {[convert EXCEPT !.at = "failed"],
                   [convert EXCEPT !.at = "attempt", !.attempt = 1, !.dirs = {"probe"}]}
  /\ UNCHANGED <<warm, probe, stop>> /\ UNCHANGED loaders

(* An attempt: a process that fails or is killed at its timeout, a PDF     *)
(* that is looked at, or none, after which there is one more attempt.  A   *)
(* process that taskkill does not end keeps communicate waiting.           *)
Convert ==
  /\ convert.at = "attempt"
  /\ convert' \in
       {[convert EXCEPT !.at = "failed", !.dirs = @ \cup {"qa"}],
        [convert EXCEPT !.at = "rendered", !.dirs = @ \cup {"qa"}],
        [convert EXCEPT !.at = "hung", !.dirs = @ \cup {"qa"}],
        IF convert.attempt = 2 THEN [convert EXCEPT !.at = "failed", !.dirs = @ \cup {"qa"}]
        ELSE [convert EXCEPT !.attempt = 2, !.dirs = @ \cup {"qa"}]}
  /\ UNCHANGED <<warm, probe, stop>> /\ UNCHANGED loaders

(* The pages are counted and must not be blank; then the validation and    *)
(* the probe remove their directories, and the state is set.               *)
ProbeEnds ==
  /\ probe = "checking" /\ convert.at \in {"rendered", "failed"}
  /\ probe' \in IF convert.at = "rendered" THEN {"ready", "degraded"} ELSE {"degraded"}
  /\ convert' = [convert EXCEPT !.at = "done", !.dirs = {}]
  /\ UNCHANGED <<warm, stop>> /\ UNCHANGED loaders

-----------------------------------------------------------------------------
(* The lifespan waits for the job thread, then for the inference lock.     *)

Shutdown ==
  /\ stop = "no" /\ probe # "not_started"
  /\ stop' = "asked"
  /\ UNCHANGED <<warm, probe, convert>> /\ UNCHANGED loaders

ResetManager ==
  /\ stop = "asked" /\ at["job"] = "idle" /\ lock = Nobody
  /\ engines' = Released /\ stop' = "released"
  /\ UNCHANGED <<lock, at, want, warm, probe, convert, sessions>>

Next ==
  \/ OpenJob \/ StartWarmup \/ StartProbe \/ ProbeBegin \/ Convert \/ ProbeEnds
  \/ Shutdown \/ ResetManager
  \/ \E t \in Threads : Lock(t) \/ GetEngine(t) \/ Create(t) \/ Close(t)

(* The threads run, the lock is given to whoever waits for it alone, and   *)
(* lifespan starts the warmup before the probe.                            *)
Fairness ==
  /\ WF_vars(StartWarmup) /\ WF_vars(StartProbe) /\ WF_vars(ProbeBegin)
  /\ WF_vars(Convert) /\ WF_vars(ProbeEnds) /\ WF_vars(ResetManager)
  /\ \A t \in Threads : WF_vars(Lock(t)) /\ WF_vars(GetEngine(t)) /\ WF_vars(Close(t))

Spec == Init /\ [][Next]_vars /\ Fairness

-----------------------------------------------------------------------------
(* The GPU holds one model.  While a session is open, whatever the other   *)
(* threads and the shutdown do, its engine is loaded in the variant it was *)
(* asked for (a document is not read with the models of another language)  *)
(* and no other engine is; and while one is created, none is.              *)
EngineHeld ==
  \A t \in Threads :
    /\ at[t] = "open" => engines = [Released EXCEPT ![want[t][1]] = want[t][2]]
    /\ at[t] = "creating" => engines = Released

(* Why it holds: only the thread inside the lock is past it, and what is   *)
(* loaded is one engine in one variant.                                    *)
Loaded(request) == [Released EXCEPT ![request[1]] = request[2]]

LoadersAgree ==
  /\ at \in [Threads -> {"idle", "locking", "getting", "creating", "open"}]
  /\ want \in [Threads -> Requests \cup {NoRequest}]
  /\ \A t \in Threads : at[t] # "idle" => want[t] \in Requests
  /\ \A t \in Threads : at[t] \in {"getting", "creating", "open"} => lock = t
  /\ engines = Released \/ \E request \in Requests : engines = Loaded(request)

IInv == LoadersAgree /\ EngineHeld

(* The health report leaves "initializing" and "checking" whatever fails,  *)
(* a failed warmup included, unless a LibreOffice process cannot be ended; *)
(* and a shutdown gets past the models that are being loaded.              *)
HealthSettles ==
  /\ []<>(stop # "no" \/ (/\ warm \in {"ready", "failed"}
                          /\ probe \in {"ready", "degraded"} \/ convert.at = "hung"))
  /\ []<>(stop # "asked")
=============================================================================
