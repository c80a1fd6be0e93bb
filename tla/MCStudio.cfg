\* A full queue: a second job is admitted only beside an ended or cancelled one; two
\* batches; three engines, one in two variants.
SPECIFICATION Scene
CONSTANTS
  MaxJobs = 2
  MaxQueued = 0
  MaxHistory = 0
  Batch = {1, 2}
  Item = {1, 2}
  BatchOf <- OneEach
  MaxRetries = 1
  Variant <- TwoModels
  WarmVariant <- English
  MaxSessions = 2
INVARIANTS
  CapacityRespected
  EngineHeld
PROPERTIES
  
  
  HealthSettles
CHECK_DEADLOCK FALSE
