\* One row, one pass at a time, no fault at all, and a patient user.
SPECIFICATION EagerSpec
CONSTANTS
  p1 = p1
  p2 = p2
  s1 = s1
  s2 = s2
  Selection = {s1}
  Pass = {p1}
  MaxEvents = 1
  MaxFaults = 0
PROPERTY SelectedDelivered
CHECK_DEADLOCK FALSE
