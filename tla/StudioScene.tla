----------------------------- MODULE StudioScene ------------------------------
(***************************************************************************)
(* What must go on in a running OCR Studio: its job queue, its batch       *)
(* coordinator and its model threads.  JobQueue and BatchCoordinator meet  *)
(* in JobContract; here each runs by itself, and a behaviour is one of the *)
(* module it began with (focus).                                           *)
(***************************************************************************)
EXTENDS JobQueue

CONSTANTS Batch, Item, BatchOf, MaxRetries,    \* see BatchCoordinator
          Variant, WarmVariant, MaxSessions    \* see Engines

VARIABLES focus,
  service, coord, cur, batch, line, item, retry, src, retries, state, asked, done,
  engines, lock, at, want, warm, probe, convert, sessions, stop

B == INSTANCE BatchCoordinator WITH mode <- service
E == INSTANCE Engines

ASSUME ModelsAssumption == E!EnginesAssumption

batches == <<service, coord, cur, batch, line, item, retry, src, retries, state, asked,
             done>>
models == <<engines, lock, at, want, warm, probe, convert, sessions, stop>>
all == <<vars, focus, batches, models>>

SceneInit == focus \in {"jobs", "batches", "models"} /\ Init /\ B!Init /\ E!Init

JobStep == focus = "jobs" /\ Next /\ UNCHANGED <<focus, batches, models>>
BatchStep == focus = "batches" /\ B!Next /\ UNCHANGED <<vars, focus, models>>
ModelStep == focus = "models" /\ E!Next /\ UNCHANGED <<vars, focus, batches>>

(* The fairness of each module, while it runs.                             *)
JobFairness ==
  /\ WF_vars(focus = "jobs" /\ Worker) /\ WF_vars(focus = "jobs" /\ Shutdown)
  /\ WF_vars(focus = "jobs" /\ Drain) /\ WF_vars(focus = "jobs" /\ Exit)

BatchFairness ==
  /\ WF_batches(focus = "batches" /\ B!Coordinator)
  /\ SF_batches(focus = "batches" /\ (B!Submit \/ B!Refuse))
  /\ WF_batches(focus = "batches" /\ B!QueueStep)
  /\ WF_batches(focus = "batches" /\ B!Stop)

ModelFairness ==
  /\ WF_models(focus = "models" /\ E!StartWarmup)
  /\ WF_models(focus = "models" /\ E!StartProbe)
  /\ WF_models(focus = "models" /\ E!ProbeBegin)
  /\ WF_models(focus = "models" /\ E!Convert)
  /\ WF_models(focus = "models" /\ E!ProbeEnds)
  /\ WF_models(focus = "models" /\ E!ResetManager)
  /\ \A t \in E!Threads : /\ WF_models(focus = "models" /\ E!Lock(t))
                          /\ WF_models(focus = "models" /\ E!GetEngine(t))
                          /\ WF_models(focus = "models" /\ E!Close(t))

Scene ==
  /\ SceneInit /\ [][JobStep \/ BatchStep \/ ModelStep]_all
  /\ JobFairness /\ BatchFairness /\ ModelFairness

-----------------------------------------------------------------------------
(* Every job of a running queue ends, and so does a shutdown, whose wait   *)
(* for the pool is not a wait for a thread that waits for the loop.        *)
JobsEnd == EveryJobEnds /\ ShutdownCompletes

(* Queued items are taken, exhausted batches closed, and a stop of the     *)
(* coordinator ends (BatchCoordinator).                                    *)
BatchesProgress == B!ItemsTaken /\ B!BatchesClose /\ B!StopEnds

(* A session has the engine it asked for (Engines), ...                    *)
EngineHeld == E!EngineHeld

(* ... and the health report settles.                                      *)
HealthSettles == focus # "models" \/ E!HealthSettles
=============================================================================
