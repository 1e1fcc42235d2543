CONSTANTS
  C = C
  d = d
  x = x
  m = m
  init = init
  Classes = {C}
  HasInit = {C}
  Methods <- MethodsDef
  Names = {x, m, init}
  Read = {x, m}
  Fields = {x}
  Data = {d}
  FRAMES_MAX = 3
  MAX_STACK = 5
  MAX_OPS = 2
  MAX_JUNK = 0
  MAX_TABLES = 2
  MAX_ARGS = 1
  MAX_LEFT = 0
SPECIFICATION Spec
INVARIANTS TablesOwned ConstructorsNest ThisIsReceiver OperandsAsMeant
CHECK_DEADLOCK FALSE
