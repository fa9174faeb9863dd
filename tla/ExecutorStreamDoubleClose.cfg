SPECIFICATION Spec
CONSTANTS
  r1 = r1
  r2 = r2
  i1 = i1
  i2 = i2
  Requests <- MCRequests
  StreamIDs <- MCStreamIDs
  StreamID <- DistinctIDs
  NoRequest = NoRequest
  MaxReads = 1
  MaxFrames = 1
  MaxDrains = 1
INVARIANT ClientEndedOnce
