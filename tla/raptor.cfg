CONSTANTS
  A = A
  B = B
  C = C
  D = D
  Stops <- MCStops
  Infinity <- MCInfinity
  Networks <- ExactNetworks
  Queries <- ExactQueries
SPECIFICATION Spec
INVARIANTS
  TypeOK
  BagsAreFrontiers
  GuardsBoundTarget
  LabelsAreJourneys
  ExactFrontier
  SamplingKeepsEnds
PROPERTIES
  FrontiersOnlyImprove
