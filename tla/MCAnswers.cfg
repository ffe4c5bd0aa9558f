SPECIFICATION Spec
CONSTANTS
  Names = {"add", "add_all"}
  ProgramNames = {"add", "add_all", "run"}
  Elsewhere = "obj"
  Programs <- MCPrograms
  Depth = 3
  MaxNodes = 3
  CallersLimit = 2
  PartOf <- MCPartOf
  NameOrder <- MCNameOrder
  TestFiles = {"test"}
INVARIANTS CallerIsInnermost DeadIsUnattributed PlansCoverCalls LayersAreDistances
CHECK_DEADLOCK FALSE
