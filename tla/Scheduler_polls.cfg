SPECIFICATION FairSpec
CONSTANTS
  Zone <- MCZone
  BaseOffset = 0
  MaxOffset = 1
  Agents = {a1, a2}
  Owners = {o1}
  Requests <- MCRequests
  Intervals <- MCIntervals
  MaxJobs = 1
  MaxTime = 3
  MaxLag = 1
  MaxCrashes = 1
  MaxBlips = 1
INVARIANTS
  NoBacklog
  IInv
PROPERTIES
  AtMostOnce
  CancelIsFinal
  NothingLost
  KeepsLedger
  DueIsClaimed
