\* What the error about marked functions says has gone wrong.
CONSTANTS
  Func = {f1, f2, f3}
  Kind = {"skipped", "plain", "extracted"}
  NoFunc = NoFunc
  NoFile = NoFile
  Options <- Modes
  MaxRuns = 1
SYMMETRY Symmetry
SPECIFICATION Spec
INVARIANT
  MarkedErrorMeansLoss
CHECK_DEADLOCK FALSE
