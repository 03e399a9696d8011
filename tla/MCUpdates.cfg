CONSTANTS
  common = common
  c1 = c1
  Common = common
  Channels = {c1}
  Counts = {0, 1, 2}
  MaxPoints = 2
SPECIFICATION Spec
INVARIANT NoUpdateSkipped
INVARIANT GapNeverNegative
INVARIANT QueuedUpdatesAwaited
PROPERTY PtsNeverGoesBack
