SPECIFICATION Spec
CONSTANTS
  Trains <- SomeTrains
  Origins <- OneOrigin
  Destinations <- OneDestination
  Hubs <- ThreeHubs
  MaxSplits = 2
  Limits <- UpToFour
  Fares <- SomeFares
  HintSaving = 1
CHECK_DEADLOCK FALSE
INVARIANTS
  TicketsAreCheapest
  ScanBeatsHint
