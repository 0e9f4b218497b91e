CONSTANTS
  c1 = c1
  c2 = c2
  Clients <- Two
  Starts <- Downloads
SPECIFICATION Spec
SYMMETRY Alike
INVARIANTS
  TypeOK
  DoneIsBacked
PROPERTIES
  StopsWaitForUser
