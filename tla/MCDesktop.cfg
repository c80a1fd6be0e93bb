\* Three launches, one of them from the desktop; two maintenance jobs of two parts; five
\* setup commands; a document of two pages; tables of four cells; two runs of one name; one
\* old record and one job in History; three requests on the analysis of two questions; two
\* papers with three changes of what is made of them.
SPECIFICATION Scene
CONSTANTS
  o1 = o1
  o2 = o2
  Program = {"p1", "p2", "p3"}
  Desktop = {"p2"}
  Files = {"f"}
  MaxKills = 1
  Targets = {"python", "models"}
  MaxParts = 2
  MaxJobs = 2
  MaxCommands = 5
  MaxPages = 2
  MaxLines = 1
  MaxRegions = 1
  MaxTableCells = 4
  MaxSpan = 2
  MaxRows = 2
  MaxBlank = 0
  MaxSource = 1
  Run = {o1, o2}
  Legacy = {o1}
  Job = {o2}
  New = {"n1"}
  Question = {1, 2}
  Field = {"topic", "marks"}
  MaxRequests = 3
  Paper = {1, 2}
  Correction = {"c1", "c2"}
  MaxEdits = 3
  UpdateFaults = 2
  SetupFaults = 3
  OutputFaults = 2
  HistoryFaults = 1
  AnalysisFaults = 2
  RecordFaults = 1
INVARIANTS
  
  UpdatesSound
  
  
  HistorySound

  
  
CHECK_DEADLOCK FALSE
