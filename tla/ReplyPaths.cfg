SPECIFICATION ReplySpec
CONSTANTS
  Chunks <- MCChunks
  MaxDisordered = 4
  MaxChunks = 5
  Mode = "agent"
  Disorders <- MCDisorders
  Bodies <- MCBodies
  MaxBody = 2
  MaxPieces = 3
INVARIANT ReplyTypeOK
INVARIANT CompletedToolsAreWhole
INVARIANT ContentDelivered
INVARIANT StreamedEqualsBuffered
INVARIANT RelayedWhole
INVARIANT WholeOrError
PROPERTY FollowsGrammar
PROPERTY BlocksSequential
PROPERTY MessageEnds
PROPERTY ReadEnds
