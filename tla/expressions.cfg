CONSTANTS
  Programs <- ProgramsDef
  Locals <- LocalsDef
  Globals = {"g"}
SPECIFICATION Spec
INVARIANTS Accepts AsMeant NullRules Resumes
CHECK_DEADLOCK FALSE
