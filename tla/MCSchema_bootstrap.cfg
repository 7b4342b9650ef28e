\* The script by itself, on an empty database.
SPECIFICATION BootstrapSpec
CONSTANTS
  Alembic = "script"
  Sessions <- NoProcess
  Objects <- MCObjects
  TableOf <- MCTableOf
  LastRevision = 7
  Makes <- UpgradeChain
  Drops <- DowngradeChain
  IdLength <- RevisionLength
  Widths <- OnlyDefault
  Calls <- NoCalls
  NoCall = "none"
  Needs <- MCNeeds
PROPERTY BootstrapReachesHead
