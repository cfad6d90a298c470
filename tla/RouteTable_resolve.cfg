\* Three-bit addresses; up to three routes on top of the default one, in any order, whose
\* next hops lead anywhere.
SPECIFICATION Spec
CONSTANTS
  W = 3
  Offer <- Some
  MaxRoutes = 3
INVARIANTS TypeOK Reachable OneNexthop LongestMatch KeepsToChain
PROPERTY GroundedReturns
