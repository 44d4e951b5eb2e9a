\* Three operations and two selections, loops and doubly driven signals included.
CONSTANTS
  Netlists <- Candidates
  Word = 3
SPECIFICATION Spec
INVARIANTS
  DriversKept
  FoldsSave
