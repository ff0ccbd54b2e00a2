CONSTANTS
  s1 = s1
  s2 = s2
  scan = scan
  direct = direct
  viaCar = viaCar
  c1 = c1
  c2 = c2
  c3 = c3
  Searches <- TwoSearches
  Scans <- NoCalls
  Itineraries <- TrainOnly
  Legs <- TrainOnlyLegs
  Requests = 2
  Limit <- Refined
  ScanLimit = 2
  Probes = 2
  Cars <- MCCars
  Snapshot <- Snapshots
  CarOf <- Rides
  SamePlaces <- Near
  Concurrent = TRUE
SPECIFICATION FairSpec
PROPERTIES
  EveryCallEnds
