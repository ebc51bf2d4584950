SPECIFICATION Spec
CONSTANTS
  MaxChunks = 2
  MaxImages = 1
INVARIANTS
  ReturnedMeansSent
