SPECIFICATION Spec
CONSTANTS
  LabelLists <- LabelSets
  Constraints <- Requests
  Totals <- TwoTotals
  Ranks <- TwoRanks
  PerShape = 3
  ToPrice = 4
  PageSize <- Pages
  TravelModes <- ModeOrder
CHECK_DEADLOCK FALSE
INVARIANTS
  CallsAreSpread
  NothingIsWithheld
  ShownStaysShown
