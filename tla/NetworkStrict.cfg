\* What the comment beside the connectivity check says of the strict mode.
CONSTANTS
  Func = {f1, f2, f3}
  Connectivities = {1}
SYMMETRY Symmetry
SPECIFICATION Spec
INVARIANT
  StrictConnectivity
CHECK_DEADLOCK FALSE
