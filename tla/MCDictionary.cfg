SPECIFICATION Spec
CONSTANTS
  IS_DEBUG = TRUE
  DataTypes = {"int", "float"}
  UnknownTypes = {}
  Variants <- MCVariants
  Values <- MCValues
  type_cast <- MCtype_cast
  NaN = NaN
  Throws = Throws
  NoNumber = NoNumber
  U8 = 2
  U16 = 4
  U32 = 8
  One = 2
  IntLimit <- MCIntLimit
  Exact = 20
  Step = 20
  Texts <- MCTexts
  T = "float"
  Bits <- MCBits
  MaxRows = 5
INVARIANTS MatchesClosedForm Lossless DictionaryTight ScanByIds InvalidIdUnused
CHECK_DEADLOCK FALSE
