\* A limit below the page size: the run never gets past the first records of a page.
SPECIFICATION FairSpec
CONSTANTS
  k1 = k1
  k2 = k2
  k3 = k3
  Never = Never
  NoKey = NoKey
  Runners = {r1}
  FeedSize = 3
  Keys <- MCKeys
  KeyOf <- BacklogKeyOf
  Rank <- BacklogRank
  MinRank = 1
  OccurTime <- BacklogOccurTime
  NoTime = Never
  Window = 1
  PageSize = 2
  Limits = {1}
  MaxPages = 2
  Refused = {}
  SendAttempts = 2
  DiscordEnabled = TRUE
  MaxTime = 0
  MaxFaults = 0
PROPERTIES EventuallySettled
