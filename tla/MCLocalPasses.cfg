\* Scripts of up to six passes.
CONSTANT
  Modules <- MCModules
SPECIFICATION Spec
INVARIANTS
  ModuleKept
  AllMergedInTheEnd
