\* Two batches, the first with two items: pauses, retries, cancellations, deletions,
\* reordering, a full queue, shutdowns, crashes and restarts.
SPECIFICATION FairSpec
CONSTANTS
  Batch = {1, 2}
  Item = {1, 2, 3}
  BatchOf <- TwoAndOne
  MaxRetries = 1
INVARIANTS
  TypeOK
  
PROPERTIES
  ClosedProperly
