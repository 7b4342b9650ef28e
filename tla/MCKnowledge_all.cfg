\* Two runs of the script over two files, one change and one failure.
SPECIFICATION FairSpec
CONSTANTS
  w1 = w1
  w2 = w2
  empty = empty
  long = long
  Ingesters = {w1, w2}
  Paths = {1, 2}
  Texts = {empty, long}
  Length <- LengthDef
  Missing = Missing
  Settings <- SettingsDef
  MaxEdits = 1
  MaxFaults = 1
INVARIANTS PassagesWhole NoSurplus InsertsFree
PROPERTIES ListIsIndexed
