CONSTANTS
  Last = 3
  Lanes = 1
  Parallel = 2
  Starts <- TwoRestores
  MaxVersion = 2
SPECIFICATION Spec
INVARIANTS
  MatSeesWhole
