SPECIFICATION Spec
CONSTANTS
  Chats = {d}
  Serial = {}
  JobChats = {}
  MaxEvents = 3
  MaxCrashes = 0
INVARIANTS
  ResetClears
