SPECIFICATION FairSpec
CONSTANTS
  c1 = c1
  c2 = c2
  Operators <- Companies
  ExactFares <- Airline
  Discounted <- Students
  DefaultFloor <- Defaults
  MinSamples = 1
  Margin <- ThreeQuarters
  Clouds <- UpToFour
  Fares <- SomeFares
  Honored <- Railway
  Canaries <- TwoCanaries
  MaxFares = 2
  MaxDowns = 1
INVARIANTS
  FloorsUnderFares
  FitIsBest
  DetectorIsExact
  FormMeansRoutable
PROPERTIES
  StaleIsProbed
  FloorsHeal
