\* The description of -sensitive-only-checked, for loaded networks too.
CONSTANTS
  Func = {f1, f2}
  Kind = {"skipped", "plain", "extracted"}
  NoFunc = NoFunc
  NoFile = NoFile
  Options <- Modes
  MaxRuns = 2
SYMMETRY Symmetry
SPECIFICATION Spec
INVARIANT
  SensitiveNeverCheck
CHECK_DEADLOCK FALSE
