\* Four objects of the app, two of them with destructor events, three at the compositor.
CONSTANTS
  Servers = {s1, s2, s3, s4}
  Upstreams = {u1, u2, u3}
  Callbacks = {s1}
  Feedbacks = {s2}
  Globals = {g1, g2}
  Filtered = {g2}
  None = None
SPECIFICATION FairSpec
INVARIANTS TypeOK TwinsInverse AliveHasTwin CleanWhenIdle
PROPERTY HandlersReturn
CHECK_DEADLOCK FALSE
