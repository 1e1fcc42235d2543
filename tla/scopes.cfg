CONSTANTS
  Garbage = Garbage
  Nil = Nil
  Unset = Unset
  Junk = Junk
  a = a
  b = b
  Names = {a, b}
  Literals = {0, 2}
  MAX_LOCALS = 3
  MAX_SCOPE = 2
  MAX_CELLS = 4
  MAX_FUNS = 1
SPECIFICATION Spec
INVARIANTS NamesResolve DuplicatesReported
PROPERTY BlocksRestore
SYMMETRY Symmetry
CHECK_DEADLOCK FALSE
