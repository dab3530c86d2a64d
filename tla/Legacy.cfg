\* Every network of four nodes, built in one call or in more.
CONSTANTS
  MaxNodes = 4
  Levels = {1, 2, 3}
  MaxCalls = 2
  MaxTotal = 6
SPECIFICATION FairSpec
INVARIANTS
  TypeOK
  LevelReached
  SortsAllCheckers
PROPERTIES
  Terminates
  ImplementsGraph
  CallsShorten
\* The functions are mapped once: "done" and "undefined" are ends.
CHECK_DEADLOCK FALSE
