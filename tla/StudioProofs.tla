------------------------------ MODULE StudioProofs -----------------------------
(***************************************************************************)
(* That the loaded engine is the one a session asked for, for every set of *)
(* engines and variants and any number of sessions.                        *)
(*                                                                         *)
(* EngineHeld alone is not inductive: GetEngine takes an engine that is    *)
(* loaded for the only one because at most one ever is, and a release by   *)
(* one thread cannot meet the session of another because both are past the *)
(* lock (LoadersAgree).                                                    *)
(***************************************************************************)
EXTENDS StudioScene, TLAPS

USE DEF E!Threads, E!Nobody, E!Unloaded

LEMMA EngineRequest ==
  ASSUME E!EnginesAssumption, NEW request \in E!Requests
  PROVE  request[1] \in E!Names /\ request[2] # E!Unloaded
BY DEF E!Requests, E!Names, E!EnginesAssumption

(* An engine that is loaded in a variant is the only one.                  *)
LEMMA EngineOnlyOne ==
  ASSUME E!EnginesAssumption, E!LoadersAgree, NEW request \in E!Requests,
         engines[request[1]] = request[2]
  PROVE  engines = E!Loaded(request)
<1>1. request[1] \in E!Names /\ request[2] # E!Unloaded
  BY EngineRequest
<1>2. engines # E!Released
  BY <1>1 DEF E!Released
<1>3. PICK other \in E!Requests : engines = E!Loaded(other)
  BY <1>2 DEF E!LoadersAgree
<1>4. other[1] \in E!Names
  BY EngineRequest
<1>5. request[1] = other[1]
  BY <1>1, <1>3, <1>4 DEF E!Loaded, E!Released
<1>6. request[2] = other[2]
  BY <1>1, <1>3, <1>5 DEF E!Loaded, E!Released
<1> QED BY <1>3, <1>5, <1>6 DEF E!Loaded

(* Whoever is not inside the lock may open, wait and close.                *)
LEMMA EngineOpenStep ==
  ASSUME E!IInv, NEW t \in E!Threads, NEW request \in E!Requests, E!Open(t, request),
         UNCHANGED <<engines, lock>>
  PROVE  E!IInv'
BY DEF E!IInv, E!LoadersAgree, E!EngineHeld, E!Open, E!Loaded, E!Released

LEMMA EngineLockStep ==
  ASSUME E!IInv, NEW t \in E!Threads, E!Lock(t)
  PROVE  E!IInv'
<1> USE DEF E!IInv, E!LoadersAgree, E!Lock
<1>1. \A u \in E!Threads : at[u] \notin {"getting", "creating", "open"}
  BY DEF E!Lock
<1>2. E!LoadersAgree'
  BY <1>1 DEF E!Loaded, E!Released
<1> QED BY <1>1, <1>2 DEF E!EngineHeld

LEMMA EngineGetStep ==
  ASSUME E!EnginesAssumption, E!IInv, NEW t \in E!Threads, E!GetEngine(t)
  PROVE  E!IInv'
<1> USE DEF E!IInv
<1>1. /\ at[t] = "getting" /\ want[t] \in E!Requests /\ UNCHANGED <<lock, want>>
      /\ \A u \in E!Threads \ {t} : at[u] \notin {"getting", "creating", "open"}
  BY DEF E!GetEngine, E!LoadersAgree
<1>2. CASE engines[want[t][1]] = want[t][2]
  <2>1. at' = [at EXCEPT ![t] = "open"] /\ UNCHANGED engines
    BY <1>2 DEF E!GetEngine
  <2>2. E!LoadersAgree'
    BY <1>1, <2>1 DEF E!LoadersAgree, E!Loaded, E!Released
  <2>3. engines = E!Loaded(want[t])
    BY <1>1, <1>2, EngineOnlyOne
  <2>4. \A u \in E!Threads : at'[u] \in {"creating", "open"} => u = t /\ at'[u] = "open"
    BY <1>1, <2>1 DEF E!LoadersAgree
  <2>5. E!EngineHeld'
    BY <1>1, <2>1, <2>3, <2>4 DEF E!EngineHeld, E!Loaded, E!Released
  <2> QED BY <2>2, <2>5
<1>3. CASE engines[want[t][1]] # want[t][2]
  <2>1. at' = [at EXCEPT ![t] = "creating"] /\ engines' = E!Released
    BY <1>3 DEF E!GetEngine
  <2>2. E!LoadersAgree'
    BY <1>1, <2>1 DEF E!LoadersAgree, E!Loaded, E!Released
  <2>3. E!EngineHeld'
    BY <1>1, <2>1 DEF E!LoadersAgree, E!EngineHeld, E!Released
  <2> QED BY <2>2, <2>3
<1> QED BY <1>2, <1>3

LEMMA EngineCreateStep ==
  ASSUME E!IInv, NEW t \in E!Threads, E!Create(t)
  PROVE  E!IInv'
<1> USE DEF E!IInv
<1>1. /\ at[t] = "creating" /\ want[t] \in E!Requests /\ UNCHANGED <<lock, want>>
      /\ at' = [at EXCEPT ![t] = "open"]
      /\ \A u \in E!Threads \ {t} : at[u] \notin {"getting", "creating", "open"}
  BY DEF E!Create, E!LoadersAgree
<1>2. engines' = E!Loaded(want[t])
  BY <1>1 DEF E!Create, E!EngineHeld, E!Loaded
<1>3. E!LoadersAgree'
  BY <1>1, <1>2 DEF E!LoadersAgree, E!Loaded, E!Released
<1>4. E!EngineHeld'
  BY <1>1, <1>2 DEF E!LoadersAgree, E!EngineHeld, E!Loaded, E!Released
<1> QED BY <1>3, <1>4

LEMMA EngineCloseStep ==
  ASSUME E!IInv, NEW t \in E!Threads, E!Close(t)
  PROVE  E!IInv'
<1> USE DEF E!IInv
<1>1. /\ at' = [at EXCEPT ![t] = "idle"] /\ want' = [want EXCEPT ![t] = E!NoRequest]
      /\ lock = t /\ lock' = E!Nobody /\ UNCHANGED engines
      /\ \A u \in E!Threads \ {t} : at[u] \notin {"getting", "creating", "open"}
  BY DEF E!Close, E!LoadersAgree
<1>2. E!LoadersAgree'
  BY <1>1 DEF E!LoadersAgree, E!Loaded, E!Released
<1>3. E!EngineHeld'
  BY <1>1 DEF E!LoadersAgree, E!EngineHeld
<1> QED BY <1>2, <1>3

(* The shutdown releases the engines when nobody is inside the lock.       *)
LEMMA EngineResetStep ==
  ASSUME E!IInv, E!ResetManager
  PROVE  E!IInv'
<1> USE DEF E!IInv
<1>1. \A u \in E!Threads : at[u] \notin {"getting", "creating", "open"}
  BY DEF E!ResetManager, E!LoadersAgree
<1>2. E!LoadersAgree'
  BY DEF E!ResetManager, E!LoadersAgree, E!Loaded, E!Released
<1> QED BY <1>1, <1>2 DEF E!ResetManager, E!EngineHeld

LEMMA EngineInit ==
  ASSUME E!EnginesAssumption, E!Init
  PROVE  E!IInv
BY DEF E!Init, E!IInv, E!LoadersAgree, E!EngineHeld, E!Released

LEMMA EngineRests ==
  ASSUME E!IInv, UNCHANGED <<engines, lock, at, want>>
  PROVE  E!IInv'
BY DEF E!IInv, E!LoadersAgree, E!EngineHeld, E!Loaded, E!Released

LEMMA EngineStep ==
  ASSUME E!EnginesAssumption, E!IInv, E!Next
  PROVE  E!IInv'
<1>1. CASE UNCHANGED <<engines, lock, at, want>>
  BY <1>1, EngineRests
<1>2. CASE E!OpenJob
  <2>1. PICK request \in E!Requests : E!Open("job", request)
    BY <1>2 DEF E!OpenJob
  <2> QED BY <1>2, <2>1, EngineOpenStep DEF E!OpenJob
<1>3. CASE E!StartWarmup
  BY <1>3, EngineOpenStep DEF E!StartWarmup, E!EnginesAssumption
<1>4. CASE E!ResetManager
  BY <1>4, EngineResetStep
<1>5. CASE \E t \in E!Threads : E!Lock(t) \/ E!GetEngine(t) \/ E!Create(t) \/ E!Close(t)
  BY <1>5, EngineLockStep, EngineGetStep, EngineCreateStep, EngineCloseStep
<1>6. \/ UNCHANGED <<engines, lock, at, want>>
      \/ E!OpenJob \/ E!StartWarmup \/ E!ResetManager
      \/ \E t \in E!Threads : E!Lock(t) \/ E!GetEngine(t) \/ E!Create(t) \/ E!Close(t)
  BY DEF E!Next, E!StartProbe, E!ProbeBegin, E!Convert, E!ProbeEnds, E!Shutdown, E!loaders
<1> QED BY <1>1, <1>2, <1>3, <1>4, <1>5, <1>6

(* A session works with the engine and variant it asked for, and with no   *)
(* other one loaded, whatever the warmup, other jobs and the shutdown do:  *)
(* in the scene, ...                                                       *)
THEOREM HeldInScene == Scene => []EngineHeld
<1>1. SceneInit => E!IInv
  BY ModelsAssumption, EngineInit DEF SceneInit
<1>2. E!IInv /\ [JobStep \/ BatchStep \/ ModelStep]_all => E!IInv'
  BY ModelsAssumption, EngineStep, EngineRests DEF JobStep, BatchStep, ModelStep, models, all
<1>3. E!IInv => EngineHeld
  BY DEF E!IInv, EngineHeld
<1> QED BY <1>1, <1>2, <1>3, PTL DEF Scene

(* ... and of the engines by themselves.                                   *)
THEOREM Held == E!Spec => []E!EngineHeld
<1>1. E!Init => E!IInv
  BY ModelsAssumption, EngineInit
<1>2. E!IInv /\ [E!Next]_(E!vars) => E!IInv'
  BY ModelsAssumption, EngineStep, EngineRests DEF E!vars
<1> QED BY <1>1, <1>2, PTL DEF E!Spec, E!IInv
=============================================================================
