------------------------------ MODULE Segments ------------------------------
(***************************************************************************)
(* The two segment types that hold the values of one column of one chunk:  *)
(* ValueSegment<T>, a growing vector of T, and DictionarySegment<T>, the   *)
(* immutable compressed form (a sorted dictionary of the distinct values   *)
(* and one value id per row).                                              *)
(*                                                                         *)
(* A stored value of any data type is represented by its position in the   *)
(* total order of that type, an integer; NaN is the one value outside      *)
(* the order.  ValueIDs, ChunkOffsets and ColumnIDs count from 0 as in     *)
(* the code; the sequences that hold them are indexed from 1.              *)
(***************************************************************************)
EXTENDS Integers, Sequences, FiniteSets, Functions

CONSTANTS
  IS_DEBUG,      \* TRUE in a debug build: DebugAssert is active
  DataTypes,     \* the type strings that name a data type
  UnknownTypes,  \* other strings a caller may pass as a type
  Variants,      \* the AllTypeVariant values callers use
  Values,        \* what type_cast can yield: integers and possibly NaN
  type_cast,     \* type_cast[T][v]: the T that variant v converts to, or Throws
  NaN,           \* not-a-number, unequal to everything and unordered
  Throws,        \* the outcome of a call that throws
  U8, U16, U32   \* how many values uint8_t, uint16_t and uint32_t have

ASSUME BuildAssumption == IS_DEBUG \in BOOLEAN

ASSUME ValueAssumption ==
  /\ Values \subseteq Int \cup {NaN}
  /\ NaN \notin Int
  /\ Throws \notin Int \cup {NaN}

ASSUME TypeAssumption ==
  /\ DataTypes \cap UnknownTypes = {}
  /\ type_cast \in [DataTypes -> [Variants -> Values \cup {Throws}]]

ASSUME WidthAssumption ==
  /\ U8 \in Nat /\ U16 \in Nat /\ U32 \in Nat
  /\ 1 < U8 /\ U8 < U16 /\ U16 < U32

-----------------------------------------------------------------------------
(* Comparison of two stored values: operator< and operator== of T.         *)

Less(a, b) == a # NaN /\ b # NaN /\ a < b

Equal(a, b) == a # NaN /\ b # NaN /\ a = b

-----------------------------------------------------------------------------
(* ValueSegment<T>                                                         *)

ValueSegment(type) == [kind |-> "value", type |-> type, values |-> << >>]

(* What a failed type resolution leaves behind in a release build: a       *)
(* shared_ptr that points nowhere.                                         *)
NullSegment == [kind |-> "null"]

(* An exception is not a segment.                                          *)
ASSUME ThrowsAssumption ==
  Throws # NullSegment /\ \A type \in DataTypes : Throws # ValueSegment(type)

(* make_shared_by_data_type<BaseSegment, ValueSegment>(type): the new       *)
(* segment, nullptr for an unknown type when DebugAssert is compiled out,   *)
(* an exception when it is not.                                            *)
make_value_segment(type) ==
  IF type \in DataTypes THEN ValueSegment(type)
  ELSE IF IS_DEBUG THEN Throws ELSE NullSegment

(* push_back(type_cast<T>(val)), for a val whose conversion succeeds.      *)
ValueSegmentAppend(segment, val) ==
  [segment EXCEPT !.values = Append(@, type_cast[segment.type][val])]

-----------------------------------------------------------------------------
(* FixedSizeAttributeVector<uint8_t | uint16_t | uint32_t>                 *)

Widths == {1, 2, 4}

(* Number of value ids a vector whose elements have this many bytes can    *)
(* tell apart; static_cast<T>(value_id) keeps the id modulo this number.   *)
IdLimit(width) == IF width = 1 THEN U8 ELSE IF width = 2 THEN U16 ELSE U32

INVALID_VALUE_ID == U32 - 1

-----------------------------------------------------------------------------
(* DictionarySegment<T>                                                    *)

(* The std::set<T> filled with the values in order.  NaN compares          *)
(* equivalent to every element, so it enters an empty set only, and once   *)
(* it is in, nothing else enters.                                          *)
set_dict(values) ==
  IF values # << >> /\ values[1] = NaN THEN {NaN} ELSE Range(values) \ {NaN}

(* How many elements of S precede v in ascending order.                    *)
Rank(S, v) == Cardinality({u \in S : Less(u, v)})

(* A mistake: the vector is filled from the other end.                     *)
SortedVector_mutant(S) ==
  [i \in 1..Cardinality(S) |-> CHOOSE v \in S : Rank(S, v) = Cardinality(S) - i]

(* The std::vector<T> made from the std::set, which iterates in ascending  *)
(* order: the i-th entry is the element with i - 1 smaller ones.           *)
SortedVector(S) ==
  [i \in 1..Cardinality(S) |-> CHOOSE v \in S : Rank(S, v) = i - 1]

(* A mistake: the distance counts from 1.                                  *)
FindIndex_mutant(dictionary, v) ==
  CHOOSE i \in DOMAIN dictionary : Equal(dictionary[i], v)

(* std::distance(begin, std::find(begin, end, v)): the first position that  *)
(* holds v, or the length of the dictionary when no position does.          *)
FindIndex(dictionary, v) ==
  IF \E i \in DOMAIN dictionary : Equal(dictionary[i], v)
  THEN (CHOOSE i \in DOMAIN dictionary :
          /\ Equal(dictionary[i], v)
          /\ \A j \in DOMAIN dictionary : j < i => ~Equal(dictionary[j], v)) - 1
  ELSE Len(dictionary)

(* entropy <= 8 * width, where entropy is (int)std::log2(unique) + 1: for  *)
(* unique >= 1 that is unique < 2^(8 * width).  Module Dictionary has the  *)
(* formula itself.                                                         *)
EntropyFits(unique, width) == unique < IdLimit(width)

(* The element widths the constructor may choose for a dictionary of this  *)
(* size; the empty set stands for the runtime_error "Not enough memory".   *)
(* log2(0) is -infinity and its conversion to int is undefined.  The        *)
(* conversions of x86-64 and ARM yield INT_MIN and so the first branch;    *)
(* every branch that makes a vector is allowed here.                       *)
WidthChoices(unique) ==
  IF unique = 0 THEN Widths
  ELSE {w \in Widths : /\ EntropyFits(unique, w)
                       /\ \A u \in Widths : u < w => ~EntropyFits(unique, u)}

(* The constructor, for a value segment with these values.  Each value id   *)
(* is set at the end of the attribute vector, where inserting appends;      *)
(* module Dictionary has its loops and checks that this is their result.    *)
DictionarySegment(type, values, width) ==
  LET dictionary == SortedVector(set_dict(values)) IN
  [kind |-> "dict", type |-> type, dictionary |-> dictionary,
   attribute_vector |->
     [i \in 1..Len(values) |-> FindIndex(dictionary, values[i]) % IdLimit(width)],
   width |-> width]

(* _dictionary->at(value_id), which throws out_of_range.                   *)
value_by_value_id(segment, value_id) ==
  IF value_id < Len(segment.dictionary) THEN segment.dictionary[value_id + 1] ELSE Throws

(* A mistake: std::upper_bound where std::lower_bound is meant.            *)
lower_bound_mutant(segment, v) ==
  LET candidates == {i \in DOMAIN segment.dictionary : Less(v, segment.dictionary[i])}
  IN  IF candidates = {} THEN INVALID_VALUE_ID
      ELSE (CHOOSE i \in candidates : \A j \in candidates : i <= j) - 1

(* The first value id whose value is not smaller than v.                   *)
lower_bound(segment, v) ==
  LET candidates == {i \in DOMAIN segment.dictionary : ~Less(segment.dictionary[i], v)}
  IN  IF candidates = {} THEN INVALID_VALUE_ID
      ELSE (CHOOSE i \in candidates : \A j \in candidates : i <= j) - 1

(* The first value id whose value is greater than v.                       *)
upper_bound(segment, v) ==
  LET candidates == {i \in DOMAIN segment.dictionary : Less(v, segment.dictionary[i])}
  IN  IF candidates = {} THEN INVALID_VALUE_ID
      ELSE (CHOOSE i \in candidates : \A j \in candidates : i <= j) - 1

-----------------------------------------------------------------------------
(* BaseSegment: what both types answer                                     *)

SegmentSize(segment) ==
  IF segment.kind = "value" THEN Len(segment.values) ELSE Len(segment.attribute_vector)

(* operator[] at every offset of the segment.                              *)
Decode(segment) ==
  IF segment.kind = "value" THEN segment.values
  ELSE [i \in 1..Len(segment.attribute_vector) |->
          value_by_value_id(segment, segment.attribute_vector[i])]

ValueSegments == [kind : {"value"}, type : DataTypes, values : Seq(Values)]

DictionarySegments ==
  [kind : {"dict"}, type : DataTypes, dictionary : Seq(Values),
   attribute_vector : Seq(Nat), width : Widths]

BaseSegments == ValueSegments \cup DictionarySegments \cup {NullSegment}
=============================================================================
