SPECIFICATION MCSpec
CONSTANTS
  Keep = Keep
  Products = {"cash_account"}
  Selections <- MCSelections
  EligibleProducts = {"cash_account"}
  AdvanceTargets <- SentTargets
  HumanStages = {"ESCALATED"}
  HumanDecisions = {"APPROVED"}
  ApiRows = {}
  Verdicts = {"CLEARED"}
  MaxAdvance = 2
  MaxHuman = 1
  MaxFaults = 0
  MaxAttempts = 1
  Processes = {p1, p2}
  Tasks = {t1, t2}
  Builtin <- MCBuiltin
  MaxTries = 2
  ThisCase = this
  Others = {other}
  Threshold = 70000
  Pipelines <- MCPipelines
  FallbackSteps <- MCFallback
  BadSteps = {"bad"}
  Criterias <- MCCriterias
  BadCriterias <- MCBadCriterias
  Clients <- MCClients
  ProductCode = "retirement_account"
  MaxPasses = 2
  Sends = {s1, s2, s3, s4}
  Followed = {s1}
  Servers = {q1, q2}
  Posts = {n1, n2}
  Packets <- MCPackets
  EmailEnabled = TRUE
  MaxMoves = 4
SYMMETRY MCSymmetry
INVARIANTS DivergenceHasCause LetThroughWhileAsked StepRowsAreTrue StuckHasCause ActivationIsEarned SentTwiceHasCause ToldUnlessAway OneRoomUnlessOverlap SanctionedStaysOut
CHECK_DEADLOCK FALSE
