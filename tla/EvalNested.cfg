SPECIFICATION LoopSpec
CONSTANTS
  ScriptValues <- PlainSamples
  Lookalikes = {}
  MaxPromises = 2
  MaxFuncs = 6
  Reentrant = TRUE
  MaxEvals = 2
  MaxNesting = 2
  MaxFailures = 0
  Written = {}
  MaxWrites = 0
INVARIANTS
  EvalReturnsOutcome
CHECK_DEADLOCK FALSE
