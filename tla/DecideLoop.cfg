CONSTANTS
  InitialMachines <- MCMachines
  InitialInputs <- MCInputs
SPECIFICATION Spec
INVARIANTS
  TypeOK
  DoneIsEarned
  InProgressIsDriven
PROPERTIES
  Settles
  StopsAreSticky
