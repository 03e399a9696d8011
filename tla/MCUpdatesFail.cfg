CONSTANTS
  common = common
  c1 = c1
  Common = common
  Channels = {c1}
  Counts = {1}
  MaxPoints = 1
SPECIFICATION FairSpec
PROPERTY ChannelDifferenceRetried
