\* The documented route: no questionnaire signal, products not changed.
SPECIFICATION JourneySpec
CONSTANTS
  p1 = p1
  p2 = p2
  d1 = d1
  Keep = Keep
  Products <- OneProduct
  Selections <- NoneOrFirst
  EligibleProducts <- OneProduct
  AdvanceTargets <- SentTargets
  HumanStages = {"ESCALATED"}
  HumanDecisions = {"APPROVED"}
  ApiRows <- WrittenRows
  Verdicts = {"CLEARED"}
  MaxAdvance = 6
  MaxHuman = 2
  MaxFaults = 0
  MaxAttempts = 1
  Institutional <- OneProduct
  Docs = {d1}
  Calls <- RouteCalls
  MaxCalls = 5
  MaxReviews = 2
  MaxLost = 0
INVARIANTS InstitutionalNeedsApproval ApprovalReachesWorkflow
CHECK_DEADLOCK FALSE
