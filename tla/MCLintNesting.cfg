SPECIFICATION Spec
CONSTANTS
  Texts <- MCTexts
  Verbosities = {0, 1}
  LongNamespace = 3
  NormalTrigger = 1
  TestTrigger = 2
INVARIANTS FirstBranchCounts BlocksMatchBraces LongFunctionsPrinted
CHECK_DEADLOCK FALSE
