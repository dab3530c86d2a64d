\* What the failure message of the patcher says.
CONSTANTS
  Func = {f1, f2}
  Other = Other
  Guides <- AllGuides
  MaxLines = 2
  MaxCopies = 2
  MaxRuns = 2
SYMMETRY Symmetry
SPECIFICATION Spec
INVARIANT
  FailureMeansLeftOver
CHECK_DEADLOCK FALSE
