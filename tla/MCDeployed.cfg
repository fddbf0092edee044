\* The senders the code has: three targets, approvals of an escalated case only.
SPECIFICATION Spec
CONSTANTS
  p1 = p1
  p2 = p2
  Keep = Keep
  Products <- TwoProducts
  Selections <- PairOrNone
  EligibleProducts <- TwoProducts
  AdvanceTargets <- SentTargets
  HumanStages = {"ESCALATED"}
  HumanDecisions = {"APPROVED"}
  ApiRows = {"REVIEW", "KYC"}
  Verdicts = {"CLEARED", "FLAGGED"}
  MaxAdvance = 3
  MaxHuman = 1
  MaxFaults = 1
  MaxAttempts = 1
INVARIANTS TypeOK ProductsOnlyAfterClearance
PROPERTIES ImplementsClearance
CHECK_DEADLOCK FALSE
