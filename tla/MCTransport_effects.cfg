SPECIFICATION Spec
CONSTANTS
  c1 = c1
  c2 = c2
  Second <- MCSecond
  MaxDuration <- MCMaxDuration
  Calls = {c1}
  Requests <- EffectRequests
  Options <- EffectOptions
  Replies <- EffectReplies
  Backoffs <- EffectBackoffs
  TokenUnit = 2
  MaxTokens = 3
  Ratio = 1
  Settles = TRUE
INVARIANTS
  EffectOnce
CHECK_DEADLOCK FALSE
