\* Every entry point, with a loss.
SPECIFICATION JourneySpec
CONSTANTS
  p1 = p1
  p2 = p2
  d1 = d1
  Keep = Keep
  Products <- TwoProducts
  Selections <- NoneOrEither
  EligibleProducts <- TwoProducts
  AdvanceTargets <- SentTargets
  HumanStages = {"ESCALATED"}
  HumanDecisions = {"APPROVED"}
  ApiRows <- WrittenRows
  Verdicts = {"CLEARED"}
  MaxAdvance = 6
  MaxHuman = 2
  MaxFaults = 0
  MaxAttempts = 1
  Institutional <- OneProduct
  Docs = {d1}
  Calls <- AllCalls
  MaxCalls = 3
  MaxReviews = 2
  MaxLost = 1
INVARIANTS DecisionsOnlyEscalated
PROPERTIES ImplementsWorkflow
CHECK_DEADLOCK FALSE
