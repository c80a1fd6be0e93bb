\* One running and one waiting job, crashes and restarts, lost writes.
SPECIFICATION Spec
CONSTANTS
  MaxJobs = 2
  MaxQueued = 1
  MaxHistory = 1
INVARIANTS
  TypeOK
  OneJobProcessing
  InputAvailable
  
  HistoryAgrees
  ResultBeforeRow
PROPERTIES
  SettledRowsKept
  
