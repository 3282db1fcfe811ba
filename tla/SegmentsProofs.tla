--------------------------- MODULE SegmentsProofs ---------------------------
(***************************************************************************)
(* Facts about the dictionary segment for dictionaries and columns of any  *)
(* size.  The id of a value is its rank in the set of values; that makes    *)
(* the dictionary a bijection without any induction.                        *)
(***************************************************************************)
EXTENDS Segments, TLAPS, FiniteSetTheorems, SequenceTheorems, FunctionTheorems, WellFoundedInduction

(* The values of a column are finitely many.                               *)
LEMMA RangeFinite ==
  ASSUME NEW S, NEW seq \in Seq(S)
  PROVE  IsFiniteSet(Range(seq)) /\ Range(seq) \subseteq S
<1>1. Len(seq) \in Nat /\ seq \in [1..Len(seq) -> S]
  BY LenProperties
<1>2. seq \in Surjection(1..Len(seq), Range(seq)) /\ Range(seq) \subseteq S
  BY <1>1, Fun_RangeProperties
<1>3. IsFiniteSet(1..Len(seq))
  BY <1>1, FS_Interval
<1> QED
  BY <1>2, <1>3, FS_Surjection

(* A set of natural numbers that is not empty has a least element.         *)
LEMMA LeastNatural ==
  ASSUME NEW P \in SUBSET Nat, P # {}
  PROVE  \E i \in P : \A j \in P : i <= j
<1> DEFINE R == {ss \in Nat \X Nat : ss[1] < ss[2]}
<1>1. R = OpToRel(<, Nat)
  BY Zenon DEF OpToRel
<1>2. IsWellFoundedOn(R, Nat)
  BY <1>1, NatLessThanWellFounded, Zenon
<1>3. \A i, j \in Nat : <<j, i>> \in R <=> j < i
  OBVIOUS
<1> HIDE DEF R
<1>4. \E i \in P : \A j \in P : <<j, i>> \notin R
  BY <1>2, WFMin
<1>5. PICK i \in P : \A j \in P : <<j, i>> \notin R
  BY <1>4
<1>6. \A j \in P : ~(j < i)
  BY <1>3, <1>5
<1> QED
  BY <1>6

(* There are n ids below n.                                                *)
LEMMA IdsFinite ==
  ASSUME NEW n \in Nat
  PROVE  IsFiniteSet(0..n - 1) /\ Cardinality(0..n - 1) = n
<1>1. 0 \in Int /\ n - 1 \in Int
  OBVIOUS
<1>2. /\ IsFiniteSet(0..n - 1)
      /\ Cardinality(0..n - 1) = IF 0 > n - 1 THEN 0 ELSE n - 1 - 0 + 1
  BY <1>1, FS_Interval, Zenon
<1> QED
  BY <1>2

(* A larger value has a higher rank.                                       *)
LEMMA RankMonotone ==
  ASSUME NEW S \in SUBSET Int, IsFiniteSet(S), NEW u \in S, NEW v \in S, u < v
  PROVE  /\ Rank(S, u) \in Nat /\ Rank(S, v) \in Nat
         /\ Rank(S, u) < Rank(S, v)
<1> DEFINE U == {y \in S : Less(y, u)}
           V == {y \in S : Less(y, v)}
<1>1. /\ \A y \in S : Less(y, u) => Less(y, v)
      /\ Less(u, v) /\ ~Less(u, u)
  BY ValueAssumption DEF Less
<1>2. U \in SUBSET V /\ U # V /\ V \in SUBSET S
  BY <1>1
<1>3. Rank(S, u) = Cardinality(U) /\ Rank(S, v) = Cardinality(V)
  BY DEF Rank
<1> HIDE DEF U, V
<1>4. IsFiniteSet(V) /\ IsFiniteSet(U)
  BY <1>2, FS_Subset
<1>5. Cardinality(U) <= Cardinality(V) /\ Cardinality(U) # Cardinality(V)
  BY <1>2, <1>4, FS_Subset
<1> QED
  BY <1>3, <1>4, <1>5, FS_CardinalityType

(* The ranks are 0 to one less than the number of values, each of them the *)
(* rank of one value.                                                      *)
LEMMA RankBijective ==
  ASSUME NEW S \in SUBSET Int, IsFiniteSet(S)
  PROVE  /\ Cardinality(S) \in Nat
         /\ \A v \in S : Rank(S, v) \in 0..Cardinality(S) - 1
         /\ \A u, v \in S : Rank(S, u) = Rank(S, v) => u = v
         /\ \A n \in 0..Cardinality(S) - 1 : \E v \in S : Rank(S, v) = n
<1>1. Cardinality(S) \in Nat
  BY FS_CardinalityType
<1>2. ASSUME NEW v \in S PROVE Rank(S, v) \in 0..Cardinality(S) - 1
  <2> DEFINE below == {y \in S : Less(y, v)}
  <2>1. below \in SUBSET S /\ v \notin below
    BY ValueAssumption DEF Less
  <2>2. IsFiniteSet(below) /\ Cardinality(below) <= Cardinality(S) /\ Cardinality(below) # Cardinality(S)
    BY <2>1, FS_Subset
  <2>3. Cardinality(below) \in Nat
    BY <2>2, FS_CardinalityType
  <2> QED
    BY <1>1, <2>2, <2>3 DEF Rank
<1>3. ASSUME NEW u \in S, NEW v \in S, Rank(S, u) = Rank(S, v) PROVE u = v
  <2>1. CASE u < v
    BY <2>1, <1>3, RankMonotone
  <2>2. CASE v < u
    BY <2>2, <1>3, RankMonotone
  <2> QED
    BY <2>1, <2>2
<1>4. ASSUME NEW n \in 0..Cardinality(S) - 1 PROVE \E v \in S : Rank(S, v) = n
  <2> DEFINE ids == 0..Cardinality(S) - 1
             f == [v \in S |-> Rank(S, v)]
  <2>1. f \in Injection(S, ids)
    <3>1. f \in [S -> ids]
      BY <1>2
    <3>2. \A a, b \in S : f[a] = f[b] => a = b
      BY <1>3
    <3> HIDE DEF f, ids
    <3> QED
      BY <3>1, <3>2, Fun_IsInj
  <2>2. IsFiniteSet(ids) /\ Cardinality(ids) = Cardinality(S)
    BY <1>1, IdsFinite
  <2>3. f \in Surjection(S, ids)
    <3> HIDE DEF f, ids
    <3> QED
      BY <2>1, <2>2, FS_Injection
  <2>4. \A t \in ids : \E v \in S : f[v] = t
    <3> HIDE DEF f, ids
    <3> QED
      BY <2>3, Fun_SurjectionProperties
  <2> QED
    BY <2>4
<1> QED
  BY <1>1, <1>2, <1>3, <1>4

(* The dictionary lists the values in ascending order: the value with id n *)
(* is the one of rank n.                                                   *)
LEMMA SortedVectorProperties ==
  ASSUME NEW S \in SUBSET Int, IsFiniteSet(S)
  PROVE  LET d == SortedVector(S) IN
         /\ d \in Seq(S) /\ Len(d) = Cardinality(S) /\ Cardinality(S) \in Nat
         /\ \A i \in 1..Len(d) : d[i] \in S /\ Rank(S, d[i]) = i - 1
         /\ \A v \in S : d[Rank(S, v) + 1] = v
         /\ \A i, j \in 1..Len(d) : i < j => d[i] < d[j]
<1> DEFINE n == Cardinality(S)
           d == SortedVector(S)
<1>1. /\ n \in Nat
      /\ \A v \in S : Rank(S, v) \in 0..n - 1
      /\ \A u, v \in S : Rank(S, u) = Rank(S, v) => u = v
      /\ \A m \in 0..n - 1 : \E v \in S : Rank(S, v) = m
  BY RankBijective
<1>2. d = [i \in 1..n |-> CHOOSE v \in S : Rank(S, v) = i - 1]
  BY DEF SortedVector
<1> HIDE DEF n, d
<1>3. \A i \in 1..n : d[i] \in S /\ Rank(S, d[i]) = i - 1
  <2> SUFFICES ASSUME NEW i \in 1..n PROVE d[i] \in S /\ Rank(S, d[i]) = i - 1
    OBVIOUS
  <2>1. i - 1 \in 0..n - 1
    BY <1>1
  <2>2. \E v \in S : Rank(S, v) = i - 1
    BY <1>1, <2>1
  <2>3. d[i] = CHOOSE v \in S : Rank(S, v) = i - 1
    BY <1>2
  <2> QED
    BY <2>2, <2>3
<1>4. d \in Seq(S) /\ Len(d) = n
  <2>1. d \in [1..n -> S]
    BY <1>2, <1>3
  <2> QED
    BY <1>1, <2>1
<1>5. \A v \in S : d[Rank(S, v) + 1] = v
  <2> SUFFICES ASSUME NEW v \in S PROVE d[Rank(S, v) + 1] = v
    OBVIOUS
  <2>1. Rank(S, v) + 1 \in 1..n
    BY <1>1
  <2>2. d[Rank(S, v) + 1] \in S /\ Rank(S, d[Rank(S, v) + 1]) = Rank(S, v)
    BY <1>1, <1>3, <2>1
  <2> QED
    BY <1>1, <2>2
<1>6. \A i, j \in 1..n : i < j => d[i] < d[j]
  <2> SUFFICES ASSUME NEW i \in 1..n, NEW j \in 1..n, i < j PROVE d[i] < d[j]
    OBVIOUS
  <2>1. d[i] \in S /\ d[j] \in S /\ Rank(S, d[i]) = i - 1 /\ Rank(S, d[j]) = j - 1
    BY <1>3
  <2>2. d[i] \in Int /\ d[j] \in Int
    BY <2>1
  <2>4. d[i] # d[j]
    <3>1. i - 1 # j - 1
      BY <1>1
    <3> QED
      BY <2>1, <3>1
  <2>3. CASE d[j] < d[i]
    <3>1. Rank(S, d[j]) < Rank(S, d[i])
      BY <2>1, <2>3, RankMonotone
    <3>2. j - 1 < i - 1
      BY <3>1, <2>1
    <3> QED
      BY <3>2, <1>1
  <2> QED
    BY <2>2, <2>3, <2>4
<1> QED
  BY <1>1, <1>3, <1>4, <1>5, <1>6 DEF n, d

(* std::find in the dictionary finds a value at its rank.                  *)
LEMMA FindIndexIsRank ==
  ASSUME NEW S \in SUBSET Int, IsFiniteSet(S), NEW v \in S
  PROVE  FindIndex(SortedVector(S), v) = Rank(S, v) /\ Rank(S, v) \in 0..Cardinality(S) - 1
<1> DEFINE d == SortedVector(S)
<1>1. /\ d \in Seq(S) /\ Len(d) = Cardinality(S) /\ Cardinality(S) \in Nat
      /\ \A i \in 1..Len(d) : d[i] \in S /\ Rank(S, d[i]) = i - 1
      /\ d[Rank(S, v) + 1] = v
  BY SortedVectorProperties
<1>2. Rank(S, v) \in 0..Cardinality(S) - 1
  BY RankBijective
<1> HIDE DEF d
<1> DEFINE k == Rank(S, v) + 1
           found(i) == /\ Equal(d[i], v)
                       /\ \A j \in DOMAIN d : j < i => ~Equal(d[j], v)
<1>3. DOMAIN d = 1..Len(d) /\ k \in DOMAIN d
  BY <1>1, <1>2
<1>4. \A i \in DOMAIN d : Equal(d[i], v) <=> i = k
  <2>1. \A i \in DOMAIN d : Equal(d[i], v) <=> d[i] = v
    BY <1>1, <1>3, ValueAssumption DEF Equal
  <2>2. \A i \in DOMAIN d : d[i] = v => i = k
    BY <1>1, <1>2, <1>3
  <2> QED
    BY <1>1, <2>1, <2>2
<1>5. k \in DOMAIN d /\ found(k) /\ \A i \in DOMAIN d : found(i) => i = k
  <2>1. \A j \in DOMAIN d : j < k => j # k
    BY <1>1, <1>3
  <2> QED
    BY <1>3, <1>4, <2>1
<1>6. (CHOOSE i \in DOMAIN d : found(i)) = k
  BY <1>5
<1>7. FindIndex(d, v) = (CHOOSE i \in DOMAIN d : found(i)) - 1
  BY <1>3, <1>4 DEF FindIndex
<1> HIDE DEF found
<1>8. FindIndex(d, v) = k - 1
  BY <1>6, <1>7
<1>9. FindIndex(d, v) = Rank(S, v)
  BY <1>2, <1>8
<1> QED
  BY <1>2, <1>9 DEF d

-----------------------------------------------------------------------------
(* The dictionary segment                                                  *)

(* Every width can hold at least the id 0.                                 *)
LEMMA IdLimitPositive ==
  ASSUME NEW w \in Widths
  PROVE  IdLimit(w) \in Nat /\ IdLimit(w) > 0 /\ IdLimit(w) <= U32
BY WidthAssumption DEF Widths, IdLimit

(* The set of a column is finite and holds values of the column, NaN or     *)
(* numbers but not both.                                                   *)
LEMMA SetDictProperties ==
  ASSUME NEW values \in Seq(Values)
  PROVE  /\ IsFiniteSet(set_dict(values)) /\ set_dict(values) \subseteq Values
         /\ set_dict(values) = {NaN} \/ set_dict(values) \subseteq Int
         /\ NaN \notin Range(values) =>
              set_dict(values) = Range(values) /\ set_dict(values) \subseteq Int
<1>1. IsFiniteSet(Range(values)) /\ Range(values) \subseteq Values
  BY RangeFinite
<1>2. CASE values # << >> /\ values[1] = NaN
  <2>1. set_dict(values) = {NaN}
    BY <1>2 DEF set_dict
  <2>2. values[1] \in Values /\ values[1] \in Range(values)
    BY <1>2 DEF Range
  <2> QED
    BY <1>2, <2>1, <2>2, FS_Singleton
<1>3. CASE ~(values # << >> /\ values[1] = NaN)
  <2>1. set_dict(values) = Range(values) \ {NaN}
    BY <1>3 DEF set_dict
  <2>2. IsFiniteSet(set_dict(values))
    BY <1>1, <2>1, FS_Subset
  <2> QED
    BY <1>1, <2>1, <2>2, ValueAssumption
<1> QED
  BY <1>2, <1>3

(* The dictionary of a column is a sequence of values.                     *)
LEMMA DictionaryInSeq ==
  ASSUME NEW values \in Seq(Values)
  PROVE  SortedVector(set_dict(values)) \in Seq(Values)
<1> DEFINE S == set_dict(values)
<1>1. IsFiniteSet(S) /\ S \subseteq Values /\ (S = {NaN} \/ S \subseteq Int)
  BY SetDictProperties
<1> HIDE DEF S
<1>2. CASE S \subseteq Int
  <2>1. SortedVector(S) \in Seq(S)
    BY <1>1, <1>2, SortedVectorProperties
  <2> QED
    BY <1>1, <2>1, SeqMonotonic DEF S
<1>3. CASE S = {NaN}
  <2>1. Cardinality(S) = 1
    BY <1>3, FS_Singleton
  <2>2. \A v \in S : Rank(S, v) = 0
    <3>1. \A v \in S : {u \in S : Less(u, v)} = {}
      BY <1>3 DEF Less
    <3> QED
      BY <3>1, FS_EmptySet DEF Rank
  <2>3. \E v \in S : Rank(S, v) = 1 - 1
    BY <1>3, <2>2
  <2>4. SortedVector(S) = [i \in 1..1 |-> CHOOSE v \in S : Rank(S, v) = i - 1]
    BY <2>1 DEF SortedVector
  <2>5. SortedVector(S)[1] \in S /\ DOMAIN SortedVector(S) = 1..1
    BY <2>3, <2>4
  <2>6. SortedVector(S) \in [1..1 -> S]
    BY <2>4, <2>5
  <2>7. SortedVector(S) \in Seq(S)
    BY <2>6, SeqDef, 1 \in Nat
  <2> QED
    BY <1>1, <2>7, SeqMonotonic DEF S
<1> QED
  BY <1>1, <1>2, <1>3

(* std::find ends somewhere in the dictionary or at its end.                *)
LEMMA FindIndexType ==
  ASSUME NEW d \in Seq(Values), NEW v
  PROVE  FindIndex(d, v) \in Int
<1> DEFINE first(i) == /\ Equal(d[i], v)
                       /\ \A j \in DOMAIN d : j < i => ~Equal(d[j], v)
<1>1. Len(d) \in Nat /\ DOMAIN d = 1..Len(d)
  OBVIOUS
<1>2. CASE \E i \in DOMAIN d : Equal(d[i], v)
  <2> DEFINE P == {i \in DOMAIN d : Equal(d[i], v)}
  <2>1. P \subseteq Nat /\ P # {}
    BY <1>1, <1>2
  <2>2. \E i \in P : \A j \in P : i <= j
    <3> HIDE DEF P
    <3> QED
      BY <2>1, LeastNatural
  <2>3. \E i \in DOMAIN d : first(i)
    <3>1. PICK i \in P : \A j \in P : i <= j
      BY <2>2
    <3>2. \A j \in DOMAIN d : j < i => j \notin P
      BY <1>1, <3>1
    <3> QED
      BY <3>1, <3>2
  <2>4. (CHOOSE i \in DOMAIN d : first(i)) \in DOMAIN d
    BY <2>3
  <2>5. FindIndex(d, v) = (CHOOSE i \in DOMAIN d : first(i)) - 1
    BY <1>2 DEF FindIndex
  <2> HIDE DEF first
  <2> QED
    BY <1>1, <2>4, <2>5
<1>3. CASE ~\E i \in DOMAIN d : Equal(d[i], v)
  BY <1>1, <1>3 DEF FindIndex
<1> QED
  BY <1>2, <1>3

(* The constructor builds a dictionary segment of the size of the column.   *)
LEMMA DictionarySegmentType ==
  ASSUME NEW type \in DataTypes, NEW values \in Seq(Values), NEW w \in Widths
  PROVE  /\ DictionarySegment(type, values, w) \in DictionarySegments
         /\ Len(DictionarySegment(type, values, w).attribute_vector) = Len(values)
<1> DEFINE d == SortedVector(set_dict(values))
           ids == [i \in 1..Len(values) |-> FindIndex(d, values[i]) % IdLimit(w)]
<1>1. d \in Seq(Values)
  BY DictionaryInSeq
<1>2. DictionarySegment(type, values, w) =
        [kind |-> "dict", type |-> type, dictionary |-> d, attribute_vector |-> ids, width |-> w]
  BY DEF DictionarySegment
<1> HIDE DEF d
<1>3. \A i \in 1..Len(values) : FindIndex(d, values[i]) \in Int
  BY <1>1, FindIndexType
<1>4. \A i \in 1..Len(values) : ids[i] \in Nat
  BY <1>3, IdLimitPositive
<1>5. ids \in [1..Len(values) -> Nat]
  BY <1>4
<1> HIDE DEF ids
<1>6. ids \in Seq(Nat) /\ Len(ids) = Len(values)
  BY <1>5, LenProperties
<1> QED
  BY <1>1, <1>2, <1>6 DEF DictionarySegments

-----------------------------------------------------------------------------
(* What compression promises                                               *)

(* The width the constructor chooses has more ids than the dictionary has   *)
(* values.                                                                 *)
LEMMA ChosenWidthSuffices ==
  ASSUME NEW n \in Nat \ {0}, NEW w \in WidthChoices(n)
  PROVE  w \in Widths /\ n < IdLimit(w)
BY DEF WidthChoices, EntropyFits

(* The ids of a column without NaN are the ranks of its values: the        *)
(* narrowing cast of FixedSizeAttributeVector::set loses nothing, and       *)
(* every id is below the id limit by two, so that INVALID_VALUE_ID cast     *)
(* down to the width is the id of no row.                                  *)
THEOREM IdsAreRanks ==
  ASSUME NEW type \in DataTypes, NEW values \in Seq(Values), NaN \notin Range(values),
         NEW w \in WidthChoices(Cardinality(set_dict(values))), NEW r \in 1..Len(values)
  PROVE  LET S == set_dict(values)
             id == DictionarySegment(type, values, w).attribute_vector[r]
         IN  /\ w \in Widths /\ values[r] \in S
             /\ id = Rank(S, values[r]) /\ id \in 0..Cardinality(S) - 1
             /\ id < IdLimit(w) - 1
<1> DEFINE S == set_dict(values)
           d == SortedVector(S)
           n == Cardinality(S)
           ids == [i \in 1..Len(values) |-> FindIndex(d, values[i]) % IdLimit(w)]
<1>1. S = Range(values) /\ IsFiniteSet(S) /\ S \in SUBSET Int
  BY SetDictProperties
<1>2. DictionarySegment(type, values, w).attribute_vector = ids
  BY DEF DictionarySegment
<1>3. values[r] \in S
  BY <1>1 DEF Range
<1> HIDE DEF S
<1>4. FindIndex(d, values[r]) = Rank(S, values[r]) /\ Rank(S, values[r]) \in 0..n - 1 /\ n \in Nat
  BY <1>1, <1>3, FindIndexIsRank, FS_CardinalityType
<1>5. n \in Nat \ {0}
  BY <1>4
<1>6. w \in Widths /\ n < IdLimit(w) /\ IdLimit(w) \in Nat
  BY <1>5, ChosenWidthSuffices, IdLimitPositive DEF S
<1>7. ids[r] = FindIndex(d, values[r]) % IdLimit(w)
  OBVIOUS
<1> HIDE DEF d, n, ids
<1>8. ids[r] = Rank(S, values[r])
  BY <1>4, <1>6, <1>7
<1>9. ids[r] < IdLimit(w) - 1
  BY <1>4, <1>6, <1>8
<1> QED
  BY <1>2, <1>3, <1>4, <1>6, <1>8, <1>9 DEF S, n

(* Compression is lossless: for columns of any length and with any number  *)
(* of distinct values, without NaN, operator[] of the dictionary segment    *)
(* returns at every offset the value the value segment held there.          *)
THEOREM RoundTrip ==
  ASSUME NEW type \in DataTypes, NEW values \in Seq(Values), NaN \notin Range(values),
         NEW w \in WidthChoices(Cardinality(set_dict(values)))
  PROVE  Decode(DictionarySegment(type, values, w)) = values
<1> DEFINE S == set_dict(values)
           segment == DictionarySegment(type, values, w)
<1>1. w \in Widths
  BY DEF WidthChoices
<1>2. /\ segment \in DictionarySegments
      /\ Len(segment.attribute_vector) = Len(values)
      /\ segment.dictionary = SortedVector(S)
  <2>1. segment.dictionary = SortedVector(S)
    BY DEF DictionarySegment
  <2> QED
    BY <1>1, <2>1, DictionarySegmentType
<1>3. IsFiniteSet(S) /\ S \in SUBSET Int
  BY SetDictProperties
<1>4. ASSUME NEW r \in 1..Len(values)
      PROVE  value_by_value_id(segment, segment.attribute_vector[r]) = values[r]
  <2> DEFINE id == segment.attribute_vector[r]
  <2>1. values[r] \in S /\ id = Rank(S, values[r]) /\ id \in 0..Cardinality(S) - 1
    BY IdsAreRanks
  <2>2. Len(segment.dictionary) = Cardinality(S) /\ segment.dictionary[Rank(S, values[r]) + 1] = values[r]
    BY <1>2, <1>3, <2>1, SortedVectorProperties
  <2>3. Cardinality(S) \in Nat
    BY <1>3, FS_CardinalityType
  <2> HIDE DEF id, segment, S
  <2>4. id < Len(segment.dictionary)
    BY <2>1, <2>2, <2>3
  <2> QED
    BY <2>1, <2>2, <2>4 DEF value_by_value_id, id
<1>5. Decode(segment) =
        [i \in 1..Len(values) |-> value_by_value_id(segment, segment.attribute_vector[i])]
  <2> HIDE DEF segment
  <2> QED
    BY <1>2 DEF Decode, DictionarySegments
<1> HIDE DEF segment
<1>6. Decode(segment) = [i \in 1..Len(values) |-> values[i]]
  BY <1>4, <1>5
<1> QED
  BY <1>6 DEF segment

(* lower_bound splits an ascending dictionary at v.                        *)
LEMMA LowerBoundSplits ==
  ASSUME NEW segment, NEW v \in Int, NEW k \in 1..Len(segment.dictionary),
         segment.dictionary \in Seq(Int), Len(segment.dictionary) < U32,
         \A i, j \in 1..Len(segment.dictionary) :
           i < j => segment.dictionary[i] < segment.dictionary[j]
  PROVE  k - 1 >= lower_bound(segment, v) <=> ~Less(segment.dictionary[k], v)
<1> DEFINE d == segment.dictionary
           C == {i \in DOMAIN d : ~Less(d[i], v)}
<1>1. lower_bound(segment, v) = IF C = {} THEN INVALID_VALUE_ID
                           ELSE (CHOOSE i \in C : \A j \in C : i <= j) - 1
  BY DEF lower_bound
<1>2. DOMAIN d = 1..Len(d) /\ Len(d) \in Nat /\ \A i \in 1..Len(d) : d[i] \in Int
  OBVIOUS
<1>3. \A i \in 1..Len(d) : i \in C <=> d[i] >= v
  BY <1>2, ValueAssumption DEF Less
<1>4. k \in C <=> ~Less(d[k], v)
  BY <1>2
<1>5. C \in SUBSET (1..Len(d))
  BY <1>2
<1> HIDE DEF d, C
<1>6. CASE C = {}
  <2>1. k - 1 < INVALID_VALUE_ID /\ INVALID_VALUE_ID \in Int
    BY <1>2, WidthAssumption DEF INVALID_VALUE_ID, d
  <2> QED
    BY <1>1, <1>2, <1>4, <1>6, <2>1 DEF d
<1>7. CASE C # {}
  <2> DEFINE m == CHOOSE i \in C : \A j \in C : i <= j
  <2>1. \E i \in C : \A j \in C : i <= j
    <3>1. C \in SUBSET Nat
      BY <1>5
    <3> QED
      BY <1>7, <3>1, LeastNatural
  <2>2. m \in C /\ \A j \in C : m <= j
    BY <2>1
  <2>3. lower_bound(segment, v) = m - 1
    BY <1>1, <1>7
  <2> HIDE DEF m
  <2>4. m \in 1..Len(d) /\ k \in 1..Len(d)
    BY <1>5, <2>2 DEF d
  <2>5. k \in C <=> k >= m
    <3>1. ASSUME m < k PROVE d[m] < d[k]
      BY <2>4, <3>1 DEF d
    <3>2. ASSUME k >= m PROVE k \in C
      BY <1>2, <1>3, <2>2, <2>4, <3>1, <3>2
    <3> QED
      BY <2>2, <3>2
  <2>6. k - 1 >= m - 1 <=> k >= m
    BY <2>4
  <2> QED
    BY <1>4, <2>3, <2>5, <2>6 DEF d
<1> QED
  BY <1>6, <1>7

(* upper_bound splits it behind v.                                         *)
LEMMA UpperBoundSplits ==
  ASSUME NEW segment, NEW v \in Int, NEW k \in 1..Len(segment.dictionary),
         segment.dictionary \in Seq(Int), Len(segment.dictionary) < U32,
         \A i, j \in 1..Len(segment.dictionary) :
           i < j => segment.dictionary[i] < segment.dictionary[j]
  PROVE  k - 1 >= upper_bound(segment, v) <=> Less(v, segment.dictionary[k])
<1> DEFINE d == segment.dictionary
           C == {i \in DOMAIN d : Less(v, d[i])}
<1>1. upper_bound(segment, v) = IF C = {} THEN INVALID_VALUE_ID
                           ELSE (CHOOSE i \in C : \A j \in C : i <= j) - 1
  BY DEF upper_bound
<1>2. DOMAIN d = 1..Len(d) /\ Len(d) \in Nat /\ \A i \in 1..Len(d) : d[i] \in Int
  OBVIOUS
<1>3. \A i \in 1..Len(d) : i \in C <=> d[i] > v
  BY <1>2, ValueAssumption DEF Less
<1>4. k \in C <=> Less(v, d[k])
  BY <1>2
<1>5. C \in SUBSET (1..Len(d))
  BY <1>2
<1> HIDE DEF d, C
<1>6. CASE C = {}
  <2>1. k - 1 < INVALID_VALUE_ID /\ INVALID_VALUE_ID \in Int
    BY <1>2, WidthAssumption DEF INVALID_VALUE_ID, d
  <2> QED
    BY <1>1, <1>2, <1>4, <1>6, <2>1 DEF d
<1>7. CASE C # {}
  <2> DEFINE m == CHOOSE i \in C : \A j \in C : i <= j
  <2>1. \E i \in C : \A j \in C : i <= j
    <3>1. C \in SUBSET Nat
      BY <1>5
    <3> QED
      BY <1>7, <3>1, LeastNatural
  <2>2. m \in C /\ \A j \in C : m <= j
    BY <2>1
  <2>3. upper_bound(segment, v) = m - 1
    BY <1>1, <1>7
  <2> HIDE DEF m
  <2>4. m \in 1..Len(d) /\ k \in 1..Len(d)
    BY <1>5, <2>2 DEF d
  <2>5. k \in C <=> k >= m
    <3>1. ASSUME m < k PROVE d[m] < d[k]
      BY <2>4, <3>1 DEF d
    <3>2. ASSUME k >= m PROVE k \in C
      BY <1>2, <1>3, <2>2, <2>4, <3>1, <3>2
    <3> QED
      BY <2>2, <3>2
  <2>6. k - 1 >= m - 1 <=> k >= m
    BY <2>4
  <2> QED
    BY <1>4, <2>3, <2>5, <2>6 DEF d
<1> QED
  BY <1>6, <1>7

(* Scanning by ids: for every column without NaN and every search value,   *)
(* comparing the id of a row with lower_bound or upper_bound decides the    *)
(* comparison of the stored value, INVALID_VALUE_ID included.               *)
THEOREM ScanByIdsCorrect ==
  ASSUME NEW type \in DataTypes, NEW values \in Seq(Values), NaN \notin Range(values),
         NEW w \in WidthChoices(Cardinality(set_dict(values))), NEW r \in 1..Len(values),
         NEW v \in Int
  PROVE  LET segment == DictionarySegment(type, values, w)
             id == segment.attribute_vector[r]
         IN  /\ id >= lower_bound(segment, v) <=> ~Less(values[r], v)
             /\ id >= upper_bound(segment, v) <=> Less(v, values[r])
<1> DEFINE S == set_dict(values)
           segment == DictionarySegment(type, values, w)
           id == segment.attribute_vector[r]
           d == segment.dictionary
<1>1. IsFiniteSet(S) /\ S \in SUBSET Int
  BY SetDictProperties
<1>2. d = SortedVector(S)
  BY DEF DictionarySegment
<1>3. w \in Widths /\ values[r] \in S /\ id = Rank(S, values[r]) /\ id \in 0..Cardinality(S) - 1
  BY IdsAreRanks
<1> HIDE DEF S, segment
<1>4. /\ d \in Seq(S) /\ Len(d) = Cardinality(S) /\ Cardinality(S) \in Nat
      /\ d[Rank(S, values[r]) + 1] = values[r]
      /\ \A i, j \in 1..Len(d) : i < j => d[i] < d[j]
  <2> HIDE DEF d
  <2> DEFINE e == SortedVector(S)
  <2>1. /\ e \in Seq(S) /\ Len(e) = Cardinality(S) /\ Cardinality(S) \in Nat
        /\ \A x \in S : e[Rank(S, x) + 1] = x
        /\ \A i, j \in 1..Len(e) : i < j => e[i] < e[j]
    BY <1>1, SortedVectorProperties
  <2> HIDE DEF e
  <2>2. d = e
    BY <1>2 DEF e
  <2> QED
    BY <1>3, <2>1, <2>2
<1>5. Len(d) < U32
  <2>1. Cardinality(S) \in Nat \ {0}
    BY <1>3, <1>4
  <2>2. Cardinality(S) < IdLimit(w) /\ IdLimit(w) \in Nat /\ IdLimit(w) <= U32
    BY <1>3, <2>1, ChosenWidthSuffices, IdLimitPositive DEF S
  <2> QED
    BY <1>4, <2>2, WidthAssumption
<1>6. d \in Seq(Int)
  BY <1>1, <1>4, SeqMonotonic
<1>7. id + 1 \in 1..Len(d) /\ d[id + 1] = values[r] /\ (id + 1) - 1 = id
  BY <1>3, <1>4
<1> HIDE DEF id
<1>8. (id + 1) - 1 >= lower_bound(segment, v) <=> ~Less(d[id + 1], v)
  BY <1>4, <1>5, <1>6, <1>7, LowerBoundSplits
<1>9. (id + 1) - 1 >= upper_bound(segment, v) <=> Less(v, d[id + 1])
  BY <1>4, <1>5, <1>6, <1>7, UpperBoundSplits
<1> QED
  BY <1>7, <1>8, <1>9 DEF segment, id
=============================================================================
