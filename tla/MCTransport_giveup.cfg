SPECIFICATION Spec
CONSTANTS
  c1 = c1
  c2 = c2
  Second <- MCSecond
  MaxDuration <- MCMaxDuration
  Calls = {c1}
  Requests <- PathRequests
  Options <- PathOptions
  Replies <- PathReplies
  Backoffs <- PathBackoffs
  TokenUnit = 2
  MaxTokens = 3
  Ratio = 1
  Settles = FALSE
INVARIANTS
  GiveUpHookRuns
CHECK_DEADLOCK FALSE
