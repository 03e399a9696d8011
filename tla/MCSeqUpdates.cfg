CONSTANTS
  Sizes = {1, 2}
  Kinds = {"push", "logout", "result"}
  MaxSeq = 4
SPECIFICATION FairSpec
INVARIANT NoContainerSkipped
PROPERTY TimerIsServed
PROPERTY QueuedEventuallyApplied
