CONSTANTS
  c1 = c1
  c2 = c2
  Clients <- Two
  Starts <- Ends
SPECIFICATION FairSpec
INVARIANTS
  DoneIsBacked
PROPERTIES
  DownloadEnds
  AnalysisEnds
