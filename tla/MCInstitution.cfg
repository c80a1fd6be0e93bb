\* Two devices and two jobs of one content; three selections and two server
\* processes; two passes over two outbox rows; two deliveries;
\* three handlers on one answer script; faults in each.
SPECIFICATION Scene
CONSTANTS
  w1 = w1
  w2 = w2
  r1 = r1
  r2 = r2
  s1 = s1
  s2 = s2
  s3 = s3
  d1 = d1
  d2 = d2
  Worker = {w1, w2}
  NJobs = 2
  Content <- SameContents
  Able <- AbleOne
  MaxFaults = 1
  MaxOutages = 2
  Selection = {s1, s2, s3}
  Evidence <- MCEvidence
  Replica = {r1, r2}
  Selected = {s1, s2}
  Pass = {r1, r2}
  MaxEvents = 2
  Delivery = {d1, d2}
  MaxAttempts = 2
  Handler = {"h1", "h2", "h3"}
  Home <- MCHome
  Teachers = {"t1", "t2"}
  Questions = 2
  MaxRequests = 3
  MaxDeaths = 1
INVARIANTS
  TypesOK
  
  ResultsAccounted
  
PROPERTIES
  
  KeepsLedger
  PassesEnd
  DeliveriesSettle
  RequestsEnd
CHECK_DEADLOCK FALSE
