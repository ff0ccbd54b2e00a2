CONSTANTS
  c1 = c1
  c2 = c2
  w1 = w1
  w2 = w2
  Cars <- OneCar
  Swedish <- OneCar
  Drifting <- OneCar
  Watches <- OneWatch
  Hooked <- OneWatch
  Unusable <- OneWatch
  Route <- OnePair
  MaxCrashes = 1
SPECIFICATION FairWatcherSpec
PROPERTIES
  PollingStarts
