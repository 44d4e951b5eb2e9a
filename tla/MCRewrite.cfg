\* One to three products over four inputs; the bounds of the pass.
CONSTANTS
  Netlists <- MCNetlists
  MaxKernelLiterals = 6
SPECIFICATION Spec
INVARIANTS
  DivisionExact
  EndsByItself
PROPERTIES
  FunctionKept
  GainIsReal
