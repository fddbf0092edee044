\* Two timed stages, one of them with a pause; up to three visits and one failure.
SPECIFICATION Spec
CONSTANTS
  Stages <- AllStages
  Tracked = {"REVIEW", "KYC"}
  PauseStages = {"REVIEW"}
  WarnAt <- Warnings
  BreachAt <- Windows
  MaxTime = 8
  MaxVisits = 3
  MaxFaults = 1
INVARIANTS ClockIsTrue NeverEarly NeverMissed RepeatsOverlap
CHECK_DEADLOCK FALSE
