\* Any three scripts one after the other, each tool working or failing.
CONSTANTS
  Scripts <- AllScripts
  NoFile = NoFile
  MaxJobs = 3
  MaxGuards = 2
SPECIFICATION Spec
INVARIANTS
  TypeOK
  GuideOfOneExecution
  CleanRunProtects
  CheckedScriptMatches
\* The last script ends.
CHECK_DEADLOCK FALSE
