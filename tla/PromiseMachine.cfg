SPECIFICATION FairSpec
CONSTANTS
  ScriptValues <- ObjectSamples
  MaxPromises = 3
  MaxFuncs = 3
  Reentrant = TRUE
INVARIANTS
  SettledOnce
  PendingHasRight
  NoLostReaction
  OutcomesAgree
  ReactionsInOrder
PROPERTY
  QueuedReactionsRun
CHECK_DEADLOCK FALSE
