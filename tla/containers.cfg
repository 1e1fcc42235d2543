CONSTANTS
  Null = Null
  Empty = Empty
  Wild = Wild
  Hashes = {0, 2, 3, 4}
  Vals = {x, y}
  x = x
  y = y
  t1 = t1
  t2 = t2
  Tables = {t1, t2}
  LEN = 2
  MAX_LEN = 4
  MAX_NODES = 2
  n1 = n1
  n2 = n2
  s1 = s1
  Items = {n1, n2, s1}
  Kind <- KindDef
  GEN = "gen"
  Blank = Blank
  VEC_LEN = 4
  Indexes <- IndexesDef
  MAX_VEC = 8
  MAX_BELOW = 1
SPECIFICATION ContainersSpec
INVARIANTS SameList LegalIsSafe
PROPERTIES GrowthKillsFresh WrittenIsFound DictSpec
SYMMETRY Symmetry
CHECK_DEADLOCK FALSE
