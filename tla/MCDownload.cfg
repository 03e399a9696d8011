CONSTANTS
  d1 = d1
  d2 = d2
  stream = stream
  web = web
  cdnFile = cdnFile
  cdnStream = cdnStream
  token = token
  other = other
  DcIds = {d1, d2}
  Tasks <- Files
  Together <- Scenes
  DcOf <- Places
  MaxParts = 3
  Parts <- PartsOf
  Streams = {stream, cdnStream, token}
  UnknownSize = {web}
  Web = {web}
  OnCdn = {cdnFile, cdnStream, token}
  TokenErrors = {token}
  MaxEvents = 2
  StartWaited = 1
  MaxWaited = 2
  MaxSessions = 2
  RetrySuccesses = 1
  MaxTrackedRemoves = 1
  RemoveAfterTimeouts = 1
SPECIFICATION DownloadSpec
CHECK_DEADLOCK FALSE
INVARIANT BalanceIsExact
INVARIANT IdleQueueIsServed
INVARIANT OneRequestPerOffset
INVARIANT FinishedIsWhole
INVARIANT UncheckedIsAwaited
INVARIANT StopsOnlyIdle
