SPECIFICATION MCSpec
CONSTANTS
  MaxChunks = 2
  MaxImages = 1
  MaxTurns = 2
  MaxRequests = 2
  MaxDrawings = 1
  MaxTime = 2
  MaxKey = 3
  Seeds <- MCSeeds
  NamespaceOf <- MCNamespaces
  PageSize = 1
  Limits = {1, 2}
  MaxOps = 3
  MaxBoots = 2
  PruneAfter = 5
  Interval = 2
  Retention = 1
  Shown = 3
  MaxNow = 3
  MaxBytes = 2
  MaxSamples = 3
  MaxLives = 2
  MaxWork = 2
INVARIANTS
  AgentInv
  LostOnlyToFlood
  FewCopies
  QuietWhileReplying
  OneMainCall
  TurnsApart
  NoStaleReturn
  CreatedKept
  ListingComplete
  RatesNeverOverstate
  PoolOutlivesTelegram
  AdapterUpAtEnd
PROPERTIES
  AgentEnds
  SeedKeepsEdits
