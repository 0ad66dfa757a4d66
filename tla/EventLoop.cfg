SPECIFICATION LoopFairSpec
CONSTANTS
  ScriptValues <- ScriptSamples
  Lookalikes <- LookalikeSamples
  MaxPromises = 2
  MaxFuncs = 6
  Reentrant = TRUE
  MaxEvals = 2
  MaxNesting = 2
  MaxFailures = 1
  Written <- WrittenSamples
  MaxWrites = 1
INVARIANTS
  EvalReturnsOwnOutcome
  NoStaleHandler
PROPERTIES
  EvalFinishes
CONSTRAINT SmallWhenDisturbed
CHECK_DEADLOCK FALSE
