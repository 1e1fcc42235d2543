CONSTANTS
  Vars = {"a", "b"}
  Locals = {"l"}
  Texts <- TextsDef
  ROUNDS = 3
SPECIFICATION Spec
INVARIANTS SeesItsValues Reclaims
CHECK_DEADLOCK FALSE
