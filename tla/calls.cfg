CONSTANTS
  d = d
  f = f
  g = g
  nat = nat
  script = script
  Script = script
  Junk = Junk
  Data = {d}
  Funs = {f, g}
  Natives = {nat}
  Arity <- ArityDef
  STACK_SIZE = 2
  WORD = 8
  BYTE = 3
  FRAMES_MAX = 3
  MAX_DEPTH = 5
  MAX_LOCALS = 2
  MAX_LEFT = 1
SPECIFICATION Spec
INVARIANTS TypeOK CallerIntact LocalsKeptUnmoved CodeMatchesFrame
PROPERTY ReturnRestores
CHECK_DEADLOCK FALSE
