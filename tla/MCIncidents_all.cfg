\* An incident within the limit and one behind it are updated, and a request asks for the
\* latter by time.
SPECIFICATION FairSpec
CONSTANTS
  k1 = k1
  k2 = k2
  k3 = k3
  k4 = k4
  k5 = k5
  NoKey = NoKey
  Runners = {r1, r2}
  Scheduled = {r1}
  ListSize = 3
  MaxVersion = 1
  Updated = {2, 3}
  Keys <- MCKeys
  KeyOf <- AllKeyOf
  Rank <- MCRank
  UpdateTime <- MCUpdateTime
  Filters = {1}
  MinRank = 1
  Limits = {2}
  MaxLimit = 2
  PageCap = 1
  SendAttempts = 1
  DiscordEnabled = TRUE
  MaxFaults = 1
INVARIANTS TypeOK CountsAddUp HorizonIsLimit
PROPERTIES ImplementsDelivery EventuallyNotified
