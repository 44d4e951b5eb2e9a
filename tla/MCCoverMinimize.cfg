\* Every $or of up to three products of three variables and a common
\* literal, and two matrices of four variables.
CONSTANTS
  NumVars = 4
  MaxIter = 3
  Inputs <- MCInputs
  ExtraCosts <- MCExtraCosts
SPECIFICATION FairSpec
INVARIANTS
  FunctionPreserved
  ResultPrimeIrredundant
PROPERTIES
  BestNeverDearer
  Terminates
  ImplementsRootRewrite
