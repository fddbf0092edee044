\* Two uploads of one case with every call; or one document read, or two versions.
SPECIFICATION MCSpec
CONSTANTS
  MaxDocs = 2
  Institutional = {1, 2}
  Patched = {"REQUESTED", "RECEIVED", "NEEDS_REVISION", "APPROVED"}
  Calls = {"upload", "validate", "patch", "decide"}
  MaxCalls = 3
  MaxJobs = 1
  MaxRestarts = 1
  Formats = {"scan", "word"}
  Contents <- MCContents
  Names = {"n1", "n2"}
  Prompts <- MCPrompts
  MaxChanges = 2
INVARIANTS UnreadVerdict ComparedTexts
PROPERTIES DueCheckMovesOn 
CHECK_DEADLOCK FALSE
