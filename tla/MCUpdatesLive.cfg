CONSTANTS
  common = common
  c1 = c1
  Common = common
  Channels = {}
  Counts = {1, 2}
  MaxPoints = 4
SPECIFICATION FairSpec
PROPERTY GapEventuallyFilled
