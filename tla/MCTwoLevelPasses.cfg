\* Up to three variables, machine words of four bits.
CONSTANTS
  WordBits = 4
  Modules <- QmModules
  CoverModules <- MCCoverModules
SPECIFICATION MCSpec
INVARIANTS
  
  QmEvaluationExact
  CoverModuleKept
