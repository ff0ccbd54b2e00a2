SPECIFICATION Spec
CONSTANTS
  north = north
  south = south
  city = city
  train = train
  coach = coach
  express = express
  Cards <- ThreeCards
  Stops <- FiveStops
  Honors <- HonorsOf
  Excluded <- ExpressOnly
  LocalOnly <- CityOnly
  Gated <- NoCard
  Denied <- DeniedAt
  Border <- BorderOf
  Regions <- ThreeFeeds
  Rentals <- TwoRentals
  Journeys <- OutAndBack
  ServiceDate <- Dates
  Fares <- TwoFares
  FeeStop = 5
  FeeExempt <- NoOperator
  Fee = 1
INVARIANTS
  RentalOnlyWhenBetter
  TripPaysOnce
  FreedHaveNoFloor
  HonestZero
