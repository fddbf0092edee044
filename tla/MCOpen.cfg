\* Every signal the declared interface admits, in any stage.
SPECIFICATION FairSpec
CONSTANTS
  p1 = p1
  p2 = p2
  Keep = Keep
  Products <- TwoProducts
  Selections <- PairOrSingle
  EligibleProducts = {p1}
  AdvanceTargets <- AnyTarget
  HumanStages <- DecidedStages
  HumanDecisions <- AnyDecision
  ApiRows = {}
  Verdicts = {"CLEARED", "FLAGGED"}
  MaxAdvance = 2
  MaxHuman = 1
  MaxFaults = 1
  MaxAttempts = 1
INVARIANTS FlaggedIsEscalated RowMatchesStage CompletedIsProvisioned
PROPERTIES EventuallyCloses EveryStepCounts
CHECK_DEADLOCK FALSE
