CONSTANTS
  Count = 2
  Size = 2
  Connections = 1
  Retries = 2
  Attempts = 2
  Starts <- Sound
SPECIFICATION FairSpec
INVARIANTS
  TypeOK
PROPERTIES
  KeepsPromise
  Heals
  PartsSurvive
