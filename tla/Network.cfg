\* The class on every module of four functions, safety and refinement.
CONSTANTS
  Func = {f1, f2, f3, f4}
  Connectivities <- Levels
SYMMETRY Symmetry
SPECIFICATION Spec
INVARIANTS
  TypeOK
  NoCheckingCycle
  CheckeesFirst
  ListsEveryChecker
  ConnectivityReached
  RolesRespected
PROPERTIES
  ImplementsGraph
  CallsShorten
\* The caller is served once: "done" and "exit" are ends.
CHECK_DEADLOCK FALSE
