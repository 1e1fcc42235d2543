CONSTANTS
  Files <- FilesDef
  Texts <- TextsDef
  Ids = {"p"}
  FileName <- NameOf
  Absent = {"/none"}
  Mains = {"/m"}
  DEPTH = 4
SPECIFICATION FairSpec
INVARIANTS LostBehindRefused ScannerFollows
PROPERTY Ends
CHECK_DEADLOCK FALSE
