\* A case that comes back from the products and is screened again.
SPECIFICATION Spec
CONSTANTS
  p1 = p1
  p2 = p2
  Keep = Keep
  Products <- TwoProducts
  Selections <- PairOrNone
  EligibleProducts <- TwoProducts
  AdvanceTargets <- SentTargets
  HumanStages = {}
  HumanDecisions = {}
  ApiRows = {}
  Verdicts = {"CLEARED"}
  MaxAdvance = 3
  MaxHuman = 0
  MaxFaults = 0
  MaxAttempts = 1
PROPERTIES TracksOfThisPass
CHECK_DEADLOCK FALSE
