SPECIFICATION FairSpec
CONSTANTS
  Chats = {t, u}
  Serial = {t, u}
  JobChats = {}
  MaxEvents = 3
  MaxCrashes = 1
INVARIANTS
  ResetClears
  FollowUpsContinue
  OrderInv
PROPERTIES
  EveryEventEnds
  KeepsDialogue
