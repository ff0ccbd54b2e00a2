CONSTANTS
  c1 = c1
  c2 = c2
  w1 = w1
  w2 = w2
  Cars <- TwoCars
  Swedish <- TwoCars
  Drifting <- OneCar
  Watches <- TwoWatches
  Hooked <- OneWatch
  Unusable <- NoWatch
  Route <- ThreePairs
  MaxCrashes = 1
SPECIFICATION FairWatcherSpec
INVARIANTS
  AnnouncedOnce
  LiveCarsAreLogged
PROPERTIES
  CarsGetLogged
  PollingStarts
