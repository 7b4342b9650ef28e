\* One runner, three failures, the clock moves past record 1, which Discord refuses; every
\* limit is at least a page.
SPECIFICATION FairSpec
CONSTANTS
  k1 = k1
  k2 = k2
  k3 = k3
  Never = Never
  NoKey = NoKey
  Runners = {r1}
  FeedSize = 5
  Keys <- MCKeys
  KeyOf <- MCKeyOf
  Rank <- MCRank
  MinRank = 1
  OccurTime <- MCOccurTime
  NoTime = Never
  Window = 1
  PageSize = 2
  Limits = {2, 3}
  MaxPages = 1
  Refused = {1}
  SendAttempts = 2
  DiscordEnabled = TRUE
  MaxTime = 2
  MaxFaults = 3
INVARIANTS TypeOK CursorPassesOnlySettled CountersAddUp
PROPERTIES OnlyFailureRewinds EventuallySettled
