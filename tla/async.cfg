SPECIFICATION MCSpec
CONSTANTS
  MaxDepth = 3
  MaxRequests = 4
  MaxAwaits = 2
  MaxLoops = 3
  MaxItems = 3
  Names <- ModuleNames
  Graphs <- Programs
  StaticGraphs <- ExportPrograms
  MaxDefs = 4
INVARIANTS
  GeneratorsExact
  CombinatorsExact
  ModulesExact
PROPERTIES
  RequestsAnswered
CHECK_DEADLOCK FALSE
