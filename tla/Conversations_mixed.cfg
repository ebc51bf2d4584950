SPECIFICATION Spec
CONSTANTS
  Chats = {t, d}
  Serial = {t}
  JobChats = {t}
  MaxEvents = 3
  MaxCrashes = 1
INVARIANTS
  ResetIsolates
  LostOnlyToOverlap
