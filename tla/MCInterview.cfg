SPECIFICATION MCSpec
CONSTANTS
  Products = {"cash"}
  Stored <- MCStored
  Fallback <- MCFallback
  Messages <- MCMessages
  Within <- MCWithin
  Codes = {"cash", "fund"}
  Asks <- MCAsks
  Required = {"income"}
  ShowIf <- MCShowIf
  Values = {"x", "y"}
  Extracted = {"funds"}
  Uploaded = {"pdf"}
  Clicks = {1}
  MaxPatches = 2
  MaxChanges = 2
  MaxSubmits = 1
  Borne = {}
  Streams = 2
  MaxMessages = 3
  MaxRestarts = 1
INVARIANTS SignalOncePerSession SignalIsEarned AnswersAgree RowsFollowSelection
PROPERTIES CompleteIsSignalled ScreenedIsEntered
CHECK_DEADLOCK FALSE
