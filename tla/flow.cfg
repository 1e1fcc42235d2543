CONSTANTS
  Programs <- ProgramsDef
  EXPR = 2
  BYTE = 64
SPECIFICATION Spec
INVARIANTS JumpsLand RunsAsMeant
PROPERTY Lively
CHECK_DEADLOCK FALSE
