\* A deleted row under a running coordinator.
SPECIFICATION FairSpec
CONSTANTS
  Batch = {1, 2}
  Item = {1, 2}
  BatchOf <- OneEach
  MaxRetries = 1
PROPERTIES
  CoordinatorRuns
