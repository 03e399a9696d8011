SPECIFICATION FairSpec
CONSTANTS
    PartSizes <- Doubling
    MaxPartsCount = 3
    Limit0 = 4
    Limit1 = 8
    MaxSize = 60
    Ids = {1, 2}
    Dcs = {0, 1}
    PartsOf <- Parts
    SizeOf <- Sizes
    MaxParallel = 32
    RealSizes <- Changed
    MaxUploads = 3
CHECK_DEADLOCK FALSE
INVARIANT ReadyIsWhole
INVARIANT SizesOfRequests
INVARIANT SmallestFits
PROPERTY EventuallyEnds
