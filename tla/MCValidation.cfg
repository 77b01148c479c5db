SPECIFICATION Spec
CONSTANTS
  Quantities <- BoundaryQuantities
  Prices <- BoundaryPrices
  Times <- Days
  MaxQuantity = 3
  MaxPrice = 3
  MaxAge = 2
  MaxFutureSkew = 1
INVARIANTS VerdictMatchesRules
PROPERTIES RejectionsStand
