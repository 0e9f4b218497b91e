CONSTANTS
  Last = 3
  Lanes = 1
  Parallel = 2
  Starts <- Sound
  MaxVersion = 2
SPECIFICATION FairSpec
INVARIANTS
  MatSeesWhole
PROPERTIES
  MatSeesFresh
  WritesSurvive
  AnalysisEnds
