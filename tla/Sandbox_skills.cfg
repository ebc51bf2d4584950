SPECIFICATION MCSpec
CONSTANTS
  Calls = {c1}
  Asks = {0, 1, 4}
  Timeout = 2
  MaxTimeout = 3
  Slack = 4
  InstallerPatience = 1
  Lag = 1
  MaxOutput = 2
  MaxWrites = 3
  MaxSend = 1
  MaxCrashes = 1
  MaxMoves = 3
  Lengths = {1, 3}
  PieceBytes = 44000
  Users = {u1, u2}
  Trees <- MCTrees
  Subpaths <- MCSubpaths
  SkillMd = 5
  Markdown = {5, 6}
  Clean <- MCClean
  Big <- MCBig
  Cap = 2
  FilesPerSkill = 2
  MaxInstalls = 2
INVARIANT InstalledAsDocumented
