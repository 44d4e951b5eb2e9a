\* Three operations and two selections.
CONSTANTS
  Netlists <- MCNetlists
  Word = 3
SPECIFICATION Spec
INVARIANT
  FunctionKept
