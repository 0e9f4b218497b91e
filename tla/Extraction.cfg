CONSTANTS
  Classes = {1, 2}
  Counts = {1, 2}
  MaxKey = 2
  Starts <- Sound
SPECIFICATION FairSpec
INVARIANTS
  RecordedIsItsOwn
PROPERTIES
  NothingIsRunTwice
  Resumes
