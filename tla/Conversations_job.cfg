SPECIFICATION Spec
CONSTANTS
  Chats = {t}
  Serial = {t}
  JobChats = {t}
  MaxEvents = 3
  MaxCrashes = 0
INVARIANTS
  FollowUpsContinue
