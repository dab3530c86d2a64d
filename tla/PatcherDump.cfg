\* What the patcher says of its dump.
CONSTANTS
  Func = {f1, f2}
  Other = Other
  Guides <- AllGuides
  MaxLines = 2
  MaxCopies = 2
  MaxRuns = 2
SYMMETRY Symmetry
SPECIFICATION Spec
INVARIANT
  DumpShowsPatches
CHECK_DEADLOCK FALSE
