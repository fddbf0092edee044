\* Nobody but the review task decides: no PATCH.
SPECIFICATION MCSpec
CONSTANTS
  MaxDocs = 2
  Institutional = {1}
  Patched = {}
  Calls = {"upload", "validate", "decide"}
  MaxCalls = 3
  MaxJobs = 1
  MaxRestarts = 0
  Formats = {"word"}
  Contents <- MCContents
  Names = {"n1"}
  Prompts <- MCPrompts
  MaxChanges = 0
PROPERTIES ApprovalStands
CHECK_DEADLOCK FALSE
