SPECIFICATION Spec
CONSTANTS
  Streamers = {s1, s2}
  None = None
  MaxCallbacks = 2
INVARIANT
  SubscribedMeansPumped
