\* Two workers, two keys, two failures; it stops when every key is recorded.
SPECIFICATION Spec
CONSTANTS
  k1 = k1
  k2 = k2
  w1 = w1
  w2 = w2
  Workers = {w1, w2}
  Keys = {k1, k2}
  NoKey = NoKey
  DiscordEnabled = TRUE
  MaxFaults = 2
SYMMETRY Symmetry
INVARIANTS RecordedImpliesPosted PostsExplained
CHECK_DEADLOCK FALSE
