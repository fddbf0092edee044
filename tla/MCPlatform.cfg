SPECIFICATION MCSpec
CONSTANTS
  Appends = {c1, c2, w1, w2, w3, w4}
  Calls = {c1, c2}
  Domains <- MCDomains
  Users <- MCUsers
  SeedRows <- MCSeedRows
  Active = "wealth"
SYMMETRY MCSymmetry
INVARIANTS LoadWalksAll SoloAppendsVerify SingleActive StaleGrantHasCause
PROPERTIES BreakIsPermanent
CHECK_DEADLOCK FALSE
