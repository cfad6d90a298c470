\* An address without any route but the default one.
SPECIFICATION Spec
CONSTANTS
  W = 3
  Offer <- Manual
  MaxRoutes = 1
PROPERTY AlwaysReturns
