\* Three gates, a flip-flop and four bits.
CONSTANTS
  Cell <- MCCell
  Bit <- MCBit
  Port <- MCPort
  Module = Module
  NoCell = NoCell
  Netlists <- MCNetlists
SPECIFICATION FairSpec
INVARIANTS
  UsesExact
  NoDanglingReader
  RemovesLeastClosed
PROPERTY
  Terminates
