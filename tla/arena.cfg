CONSTANTS
  PAGE = 5
  OFFSET = 1
  Sizes = {0, 1, 2, 4, 5}
  MAX_LEN = 10
  MAX_MAPS = 2
  Bases <- BasesDef
SPECIFICATION Spec
INVARIANTS NoOverlap WellLinked
PROPERTIES FreedIsReusable HeapSpec
CHECK_DEADLOCK FALSE
