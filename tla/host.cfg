SPECIFICATION MCSpec
CONSTANTS
  RustValues <- MCRustValues
  ScriptHeap <- MCScriptHeap
  ScriptValues <- MCScriptValues
  ZeroKeys <- MCZeroKeys
  MaxDepth = 4
  MaxCalls = 1
  MaxArgs = 2
  MaxCallbackCalls = 1
  Arity = 1
  MaxContexts = 3
  MaxCallbacks = 3
  MaxJobs = 2
INVARIANTS
  FailuresHandled
  RoundTrip
  OwnsItsContext
  ClosuresOutliveCalls
  NothingCrashes
PROPERTIES
  CallFinishes
CHECK_DEADLOCK FALSE
