\* Two runs of the pass over three functions: construct, dump, load again.
CONSTANTS
  Func = {f1, f2, f3}
  Kind = {"skipped", "plain", "extracted"}
  NoFunc = NoFunc
  NoFile = NoFile
  Options <- Modes
  MaxRuns = 2
SYMMETRY Symmetry
SPECIFICATION Spec
INVARIANTS
  TypeOK
  FilterNamesFound
  OptionsHonoured
  NoGuardLost
  GuardsBottomUp
  StatsCountGuards
  RefusedBeforeGuards
  CrashOnlyOnLostName
PROPERTY
  RunsShorten
\* The last run ends in "done", "exit" or "crash".
CHECK_DEADLOCK FALSE
