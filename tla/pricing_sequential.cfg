CONSTANTS
  s1 = s1
  s2 = s2
  scan = scan
  direct = direct
  viaCar = viaCar
  c1 = c1
  c2 = c2
  c3 = c3
  Searches <- TwoSearches
  Scans <- OneScan
  Itineraries <- TrainAndCar
  Legs <- TrainAndCarLegs
  Requests = 2
  Limit <- Refined
  ScanLimit = 2
  Probes = 1
  Cars <- MCCars
  Snapshot <- Snapshots
  CarOf <- Rides
  SamePlaces <- Near
  Concurrent = FALSE
SPECIFICATION FairSpec
INVARIANTS
  TypeOK
  WithinAllowance
  ChargedToOwner
  QuietMeansNoBudget
  PricedFromOwnSnapshot
PROPERTIES
  KeepsAllowances
