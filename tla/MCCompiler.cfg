\* Words of one to three bits.
CONSTANTS
  Idents <- MCIdents
  Literals <- MCLiterals
  Sources <- MCSources
SPECIFICATION Spec
INVARIANTS
  WrittenIsSound
  ParsesExactly
  FunctionKept
