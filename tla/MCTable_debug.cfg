SPECIFICATION FairSpec
CONSTANTS
  IS_DEBUG = TRUE
  DataTypes = {"int", "string"}
  UnknownTypes = {"weird_type"}
  Variants <- MCVariants
  Values <- MCValues
  type_cast <- MCtype_cast
  NaN = NaN
  Throws = Throws
  NoNumber = NoNumber
  U8 = 4
  U16 = 8
  U32 = 16
  One = 2
  IntLimit <- MCIntLimit
  Exact = 20
  Step = 20
  Texts <- MCTexts
  chunk_size = 2
  Names = {"col_1"}
  Rows <- MCRows
  MaxColumns = 2
  MaxChunks = 2
INVARIANTS TypeOK RowCountExact
PROPERTIES AppendOnly Immutable AllOrNothing CompressEnds
