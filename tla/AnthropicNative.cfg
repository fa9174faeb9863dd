SPECIFICATION Spec
CONSTANTS
  Chunks <- MCChunks
  MaxDisordered = 4
  MaxChunks = 2
  Mode = "native"
  Disorders <- MCOrderly
INVARIANT ContentDelivered
