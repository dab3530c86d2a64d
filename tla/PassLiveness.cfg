\* A run of the pass that may not crash ends; so does every construction
\* and sort, without the exit of strict mode; no symmetry.
CONSTANTS
  Func = {f1, f2, f3}
  Kind = {"skipped", "plain"}
  NoFunc = NoFunc
  NoFile = NoFile
  Options <- PlainModes
  MaxRuns = 2
SPECIFICATION FairSpec
PROPERTIES
  PassEnds
  NetworkTerminates
\* The last run ends in "done", "exit" or "crash".
CHECK_DEADLOCK FALSE
