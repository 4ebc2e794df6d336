SPECIFICATION FairSpec
CONSTANTS
  MAX_CLIENTS = 1
  MAX_WINDOWS = 2
  Pids = {p1}
  NoPid = NoPid
  Places = {0, 1}
  MaxCreates = 2
  MaxDraws = 1
  Scenes = {{"draw"}, {"point"}}
INVARIANTS FlipsTracked
PROPERTIES CommitShown RepaintErases
