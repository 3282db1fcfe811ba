----------------------------- MODULE Dictionary -----------------------------
(***************************************************************************)
(* The constructor of DictionarySegment<T>, loop by loop: a value segment  *)
(* is filled, then its values go into a std::set, the set into a vector,   *)
(* the width of the ids is chosen from the size of the vector, and the id  *)
(* of every value is set in the attribute vector.                          *)
(***************************************************************************)
EXTENDS Segments

CONSTANTS
  T,         \* the data type of the segment
  Bits,      \* Bits[w]: how many bits an id of w bytes has
  MaxRows    \* bound: how many values are appended to the value segment

ASSUME DictionaryAssumption ==
  /\ T \in DataTypes /\ MaxRows \in Nat /\ Bits \in [Widths -> Nat]
  /\ \A w \in Widths : IdLimit(w) = 2^Bits[w]

(* What ^ means, as far as it is used: the provers have no rule for it.    *)
ASSUME PowerAssumption ==
  /\ 2^0 = 1
  /\ \A k \in 0..(MaxRows + Bits[1] + Bits[2] + Bits[4]) : 2^k \in Nat /\ 2^(k + 1) = 2 * 2^k

VARIABLES
  values,       \* of the value segment
  pc,           \* "append", "emplace", "set", "done", or "threw"
  i,            \* rows the current loop has treated
  seen,         \* set_dict
  dictionary,   \* _dictionary
  width,        \* the width of _attribute_vector
  vector        \* the elements of _attribute_vector

vars == <<values, pc, i, seen, dictionary, width, vector>>

(* The segment as far as it is built.                                      *)
segment ==
  [kind |-> "dict", type |-> T, dictionary |-> dictionary,
   attribute_vector |-> vector, width |-> width]

(* Before the width is known the vector is one of uint16_t.                *)
Init ==
  /\ values = << >> /\ pc = "append" /\ i = 0
  /\ seen = {} /\ dictionary = << >> /\ width = 2 /\ vector = << >>

append(val) ==
  /\ pc = "append" /\ Len(values) < MaxRows
  /\ type_cast[T][val] # Throws
  /\ values' = ValueSegmentAppend([ValueSegment(T) EXCEPT !.values = values], val).values
  /\ UNCHANGED <<pc, i, seen, dictionary, width, vector>>

construct ==
  /\ pc = "append"
  /\ pc' = "emplace"
  /\ UNCHANGED <<values, i, seen, dictionary, width, vector>>

(* std::set::emplace: nothing is inserted next to an equivalent element.   *)
Emplace(S, v) == IF \E u \in S : ~Less(u, v) /\ ~Less(v, u) THEN S ELSE S \cup {v}

emplace ==
  /\ pc = "emplace" /\ i < Len(values)
  /\ seen' = Emplace(seen, values[i + 1])
  /\ i' = i + 1
  /\ UNCHANGED <<values, pc, dictionary, width, vector>>

(* A mistake: the 1 is forgotten.                                          *)
Entropy_mutant(n) == CHOOSE k \in 0..n : 2^k <= n /\ n < 2^(k + 1)

(* (int)std::log2(n) + 1 for n > 0.                                        *)
Entropy(n) == (CHOOSE k \in 0..n : 2^k <= n /\ n < 2^(k + 1)) + 1

(* A mistake: as many values as there are ids, leaving none for            *)
(* INVALID_VALUE_ID.                                                       *)
Branches_mutant(n) ==
  IF n = 0 THEN Widths
  ELSE {w \in Widths : n <= 2^Bits[w] /\ \A u \in Widths : u < w => n > 2^Bits[u]}

(* The first branch whose bound the entropy does not exceed; the entropy of *)
(* an empty dictionary is undefined.                                       *)
Branches(n) ==
  IF n = 0 THEN Widths
  ELSE {w \in Widths : Entropy(n) <= Bits[w] /\ \A u \in Widths : u < w => Entropy(n) > Bits[u]}

choose_width ==
  /\ pc = "emplace" /\ i = Len(values)
  /\ dictionary' = SortedVector(seen)
  /\ LET branches == Branches(Len(dictionary')) IN
     /\ pc' = IF branches = {} THEN "threw" ELSE "set"
     /\ width' \in IF branches = {} THEN {width} ELSE branches
  /\ i' = 0
  /\ UNCHANGED <<values, seen, vector>>

(* A mistake: the position is ignored.                                     *)
AttributeVectorSet_mutant(vec, w, pos, value_id) == <<value_id % IdLimit(w)>> \o vec

(* FixedSizeAttributeVector::set(pos, value_id) inserts before position pos. *)
AttributeVectorSet(vec, w, pos, value_id) ==
  SubSeq(vec, 1, pos) \o <<value_id % IdLimit(w)>> \o SubSeq(vec, pos + 1, Len(vec))

set ==
  /\ pc = "set" /\ i < Len(values)
  /\ vector' = AttributeVectorSet(vector, width, i, FindIndex(dictionary, values[i + 1]))
  /\ i' = i + 1
  /\ UNCHANGED <<values, pc, seen, dictionary, width>>

finish ==
  /\ pc = "set" /\ i = Len(values)
  /\ pc' = "done"
  /\ UNCHANGED <<values, i, seen, dictionary, width, vector>>

Next == (\E val \in Variants : append(val)) \/ construct \/ emplace \/ choose_width \/ set \/ finish

Spec == Init /\ [][Next]_vars

-----------------------------------------------------------------------------
(* Properties of the finished segment                                      *)

(* The loops build the segment that Segments!DictionarySegment defines,    *)
(* with the width it allows, also for columns that hold NaN.               *)
MatchesClosedForm ==
  pc = "done" =>
    /\ segment = DictionarySegment(T, values, width)
    /\ width \in WidthChoices(Cardinality(set_dict(values)))

(* The segment is finished, and its column holds no NaN.                   *)
Ordinary == pc = "done" /\ NaN \notin Range(values)

(* operator[] of the dictionary segment returns, at every offset, what the *)
(* value segment held there.                                               *)
Lossless == Ordinary => Decode(segment) = values

(* The dictionary is strictly ascending and every id of it is used.        *)
DictionaryTight ==
  Ordinary =>
    /\ \A j, k \in DOMAIN dictionary : j < k => Less(dictionary[j], dictionary[k])
    /\ Range(vector) = 0..Len(dictionary) - 1

(* A scan may compare value ids instead of values: an id reaches the lower *)
(* (upper) bound of v exactly if its value is at least (greater than) v,   *)
(* and INVALID_VALUE_ID is a bound that no id reaches.                     *)
ScanByIds ==
  Ordinary => \A v \in Values \ {NaN} : \A r \in DOMAIN values :
    /\ vector[r] >= lower_bound(segment, v) <=> ~Less(values[r], v)
    /\ vector[r] >= upper_bound(segment, v) <=> Less(v, values[r])

(* "after a down-cast INVALID_VALUE_ID will look like their                *)
(* numeric_limit::max()": cast down to the width of the vector, it is not  *)
(* the id of any row.                                                      *)
InvalidIdUnused ==
  Ordinary => INVALID_VALUE_ID % IdLimit(width) \notin Range(vector)
=============================================================================
