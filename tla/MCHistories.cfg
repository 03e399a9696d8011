CONSTANTS
  h1 = h1
  b1 = b1
  History = {h1}
  Types = {"History", "Send", "Delete", "DeleteChannel"}
  BatchIds = {b1}
  MaxRequests = 1
  MaxId = 2
SPECIFICATION FairSpec
INVARIANT PagesWaitForDeletes
INVARIANT AssertsHold
INVARIANT ReadNotLost
PROPERTY ReadEventuallySent
PROPERTY NoneForgotten
