SPECIFICATION FairSpec
CONSTANTS
  r1 = r1
  r2 = r2
  i1 = i1
  i2 = i2
  Requests <- MCRequests
  StreamIDs <- MCOneID
  StreamID <- SharedID
  NoRequest = NoRequest
  MaxReads = 1
  MaxFrames = 1
  MaxDrains = 0
INVARIANT ClientEndedOnce
INVARIANT AcceptedIsRegistered
PROPERTY KeepsPromise
PROPERTY AcceptedEnds
