SPECIFICATION Spec
CONSTANTS
  Zone <- MCZone
  BaseOffset = 0
  MaxOffset = 1
  Requests <- MCClearRequests
  Intervals <- MCIntervals
  MaxTime = 40
INVARIANTS
  RecurrenceInv
  KeepsWallTime
  NothingSkippedAhead
