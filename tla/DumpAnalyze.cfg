CONSTANTS
  c1 = c1
  c2 = c2
  Clients <- Two
  Starts <- Analyses
SPECIFICATION Spec
SYMMETRY Alike
PROPERTIES
  SweepSparesStages
