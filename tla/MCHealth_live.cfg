SPECIFICATION Spec
CONSTANTS
  w1 = w1
  w2 = w2
  r1 = r1
  r2 = r2
  h1 = h1
  h2 = h2
  h3 = h3
  NoChannel = NoChannel
  Second = 2
  Settings <- LiveSettings
  Waiters = {w1}
  Reporters = {r1}
  Stoppers = {s1}
  Channels = {h1, h2}
PROPERTIES
  Reopens
  WaitersReleased
  StopCompletes
