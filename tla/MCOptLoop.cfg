\* Every option, two passes with work at the start, two changes that make new.
CONSTANTS
  OptionSets <- MCOptionSets
  MaxWork = 2
  MaxNew = 2
SPECIFICATION Spec
INVARIANT
  RoundsAreRight
PROPERTY
  Terminates
