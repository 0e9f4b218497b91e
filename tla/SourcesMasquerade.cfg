CONSTANTS
  Works = {"dump", "analyze"}
  Kind <- Kinds
  Callers = {"c1", "c2"}
  Workers = {"mat", "dl0", "dl1"}
  LaneOf <- Queues
  MaxJobs = 3
  Writers = {"w1", "w2", "w3"}
  ProcessOf <- Pids
  MaxCrashes = 1
  Keys = {"anaidx", "rstot", "classtable", "anat"}
  Needs <- Loaders
  ReadsDb = {"anaidx", "rstot", "anat"}
  Requests = {"r1", "r2"}
  Wanted <- Asking
  Captures = {"anat"}
  MaxVersion = 2
  Lanes <- InOrder
  Probed = {"s3"}
  Due <- Retries
  ProbeTtl = 9
  Objects = {1, 2, 3, 4}
  Used <- Sizes
  Classes = {1, 2, 3}
  Graphs <- Small
  MaxGroupsPerClass = 1
  MaxGroups = 3
  MaxDepth = 1
SPECIFICATION Spec
INVARIANTS AbsentIsConfirmed
CHECK_DEADLOCK FALSE
