SPECIFICATION Spec
CONSTANTS
  Feeds <- ManyFeeds
  Wanted <- Intercity
  Agencies <- AnyAgency
  Collapse = TRUE
  Near <- NearStations
  ServiceDate = 1
  Day = 4
  MaxTransfer = 4
CHECK_DEADLOCK FALSE
INVARIANTS
  RidesAreReal
  RidesAreOffered
  FootpathsAreShortest
