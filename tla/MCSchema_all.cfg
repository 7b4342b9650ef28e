\* An API and a worker beside the script, upgrades and downgrades.
SPECIFICATION FairSpec
CONSTANTS
  Alembic = "script"
  Sessions <- Processes
  Objects <- MCObjects
  TableOf <- MCTableOf
  LastRevision = 7
  Makes <- UpgradeChain
  Drops <- DowngradeChain
  IdLength <- RevisionLength
  Widths <- BothWidths
  Calls <- MCCalls
  NoCall = "none"
  Needs <- MCNeeds
INVARIANTS VersionIsHonest EnsuredIsFound
PROPERTIES AppTablesKept EveryoneEnds
