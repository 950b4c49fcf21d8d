SPECIFICATION Spec
CONSTANTS
  c1 = c1
  c2 = c2
  Second <- MCSecond
  MaxDuration <- MCMaxDuration
  Calls = {c1, c2}
  Requests <- SharedRequests
  Options <- SharedOptions
  Replies <- SharedReplies
  Backoffs <- EffectBackoffs
  TokenUnit = 2
  MaxTokens = 3
  Ratio = 1
  Settles = FALSE
INVARIANTS
  RetriesFunded
  InFlightGauge
  TokensAccounted
SYMMETRY Pair
CHECK_DEADLOCK FALSE
