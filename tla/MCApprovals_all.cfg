\* All jobs, two workers, two failures.
SPECIFICATION FairSpec
CONSTANTS
  a1 = a1
  a2 = a2
  k1 = k1
  k2 = k2
  w1 = w1
  w2 = w2
  NoRow = NoRow
  NoKey = NoKey
  Workers = {w1, w2}
  Approvals = {a1, a2}
  Keys = {k1, k2}
  KeyOf <- MCKeyOf
  Jobs <- AllJobs
  ListLimit = 2
  SendAttempts = 2
  DiscordEnabled = TRUE
  MaxFaults = 2
INVARIANTS ApprovedImpliesRecorded
PROPERTIES ImplementsDelivery BackfillDrains
