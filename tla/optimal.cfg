SPECIFICATION Spec
CONSTANTS
  Days = {1, 2, 3, 4, 5}
  Amounts = {2, 5}
  MaxBids = 4
INVARIANTS
  RecommendedBidsFit
  RecommendationIsBest
CHECK_DEADLOCK FALSE
