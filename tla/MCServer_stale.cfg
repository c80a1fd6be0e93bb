\* Two processes and one review.
SPECIFICATION Scene
CONSTANTS
  p1 = p1
  p2 = p2
  k1 = k1
  i1 = i1
  a = a
  b = b
  c = c
  Replica = {p1, p2}
  Resources = {1}
  Keys = {k1}
  Types = {"review_task"}
  ObjectOf <- OneObject
  NewTypes = {}
  MaxTx = 2
  Items = {i1}
  Reviewers = {a, b, c}
  MaxRequests = 4
  Codes = {a, b}
  MaxRows = 2
  MaxImports = 2
  MaxFaults = 1
  Listed = {1, 2, 3}
  Limit = 1
  MaxTime = 2
  Learners = {a}
PROPERTY NoStaleEdit
CHECK_DEADLOCK FALSE
