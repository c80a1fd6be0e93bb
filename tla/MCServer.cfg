\* Two server processes whose handlers overlap; two resources, one dataset
\* item, two objectives, three rows to list, one learner.
SPECIFICATION Scene
CONSTANTS
  p1 = p1
  p2 = p2
  k1 = k1
  i1 = i1
  a = a
  b = b
  c = c
  Replica = {p1, p2}
  Resources = {1, 2}
  Keys = {k1}
  Types = {"accessibility_description", "answer_script", "review_task", "rubric_version"}
  ObjectOf <- OneObject
  NewTypes = {"review_task", "rubric_version"}
  MaxTx = 3
  Items = {i1}
  Reviewers = {a, b, c}
  MaxRequests = 4
  Codes = {a, b}
  MaxRows = 2
  MaxImports = 2
  MaxFaults = 1
  Listed = {1, 2, 3}
  Limit = 1
  MaxTime = 2
  Learners = {a}
SYMMETRY Symmetric
INVARIANTS
  TypeOK
  CreatedOnce
  EventsInOrder
  
  StableListedOnce
PROPERTIES
  EditsKept
  RecordsKept
  AccessSound
CHECK_DEADLOCK FALSE
