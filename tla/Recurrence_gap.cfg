SPECIFICATION Spec
CONSTANTS
  Zone <- MCZone
  BaseOffset = 0
  MaxOffset = 1
  Requests <- MCRequests
  Intervals <- MCIntervals
  MaxTime = 40
INVARIANTS
  KeepsWallTime
