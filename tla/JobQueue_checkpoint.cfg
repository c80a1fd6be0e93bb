\* A cancellation seen while artifacts are built.
SPECIFICATION Spec
CONSTANTS
  MaxJobs = 2
  MaxQueued = 1
  MaxHistory = 1
INVARIANT CheckpointHonoured
