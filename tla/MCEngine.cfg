SPECIFICATION EngineSpec
CONSTANTS
  Sites = {"int", "string"}
  MaxScopes = 3
  TableNames = {"a", "b"}
  Tables = {t1, t2}
  NoTable = NoTable
  Operators = {o1, o2, o3}
  None = None
SYMMETRY Interchangeable
INVARIANTS EngineTypeOK OutputIsSource
PROPERTIES OutputsKept PrintIsSilent WarnsOutsideScopes
