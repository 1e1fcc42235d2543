CONSTANTS
  Natives <- NativesDef
  Functions_ = {"f", "g"}
  Classes = {"A"}
  Vars = {"v"}
  Hosted = {"h"}
  Texts <- TextsDef
  Strays = {0, 2}
  CAPACITY = 4
  FRAMES = 3
  LINES = 3
SPECIFICATION Spec
INVARIANTS UsesMeant Survives
CHECK_DEADLOCK FALSE
