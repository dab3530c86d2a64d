\* Every guide of up to three guards, copies left out or doubled, two runs.
CONSTANTS
  Func = {f1, f2, f3}
  Other = Other
  Guides <- AllGuides
  MaxLines = 3
  MaxCopies = 2
  MaxRuns = 2
SYMMETRY Symmetry
SPECIFICATION Spec
INVARIANTS
  TypeOK
  AlarmsExactlyOnChange
  DoneMeansComplete
  RefusalWritesNothing
PROPERTY
  ImplementsGuardedBinary
\* The last run ends in "done", "exit" or "killed".
CHECK_DEADLOCK FALSE
