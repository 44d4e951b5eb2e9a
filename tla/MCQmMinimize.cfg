\* Every truth table of three variables, don't-cares included.
CONSTANTS
  NumVars = 3
  Functions <- AllFunctions
  ConeCosts = {100}
SPECIFICATION FairSpec
INVARIANTS
  OffSetAvoided
  PrimesComplete
  SearchIsExact
PROPERTIES
  ExactWithoutTwins
  Terminates
