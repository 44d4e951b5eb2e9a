\* All graphs of three gates, all loop-free ones of four.
CONSTANTS
  a = a
  b = b
  c = c
  d = d
  Cell = {a, b, c, d}
  Source = Source
  NoCell = NoCell
  Netlists <- MCNetlists
  Selections <- MCSelections
  Clocks = {0, 4, 1073741823}
  FreeFanout = 1
SPECIFICATION FairSpec
INVARIANTS
  GraphIsSorted
  ArrivalIsLongestPath
  SlacksAreRight
  CriticalPathExplained
PROPERTY
  Terminates
