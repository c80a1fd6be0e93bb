\* A revocation while an upload handler waits for the file.
SPECIFICATION Spec
CONSTANTS
  w1 = w1
  w2 = w2
  Worker = {w1, w2}
  NJobs = 1
  Content <- OneContent
  Able <- AllAble
  MaxFaults = 0
INVARIANT RevokedLeaseRemoved
CHECK_DEADLOCK FALSE
