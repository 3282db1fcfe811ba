-------------------------- MODULE DictionaryProofs --------------------------
(***************************************************************************)
(* The loops of the DictionarySegment constructor build the segment that   *)
(* Segments defines, for columns of any length, with or without NaN, and   *)
(* for any widths of the ids.  What the segment promises follows from the  *)
(* theorems of SegmentsProofs.                                             *)
(***************************************************************************)
EXTENDS Dictionary, SegmentsProofs

-----------------------------------------------------------------------------
(* Powers of two                                                           *)

Pow(k) == 2^k

(* The exponents that matter.                                              *)
Top == MaxRows + Bits[1] + Bits[2] + Bits[4]

(* They are natural numbers.                                               *)
LEMMA TopProperties ==
  /\ Top \in Nat /\ MaxRows \in Nat /\ MaxRows <= Top
  /\ \A w \in Widths : Bits[w] \in Nat /\ Bits[w] <= Top
<1>1. MaxRows \in Nat /\ \A w \in Widths : Bits[w] \in Nat
  BY DictionaryAssumption
<1>2. 1 \in Widths /\ 2 \in Widths /\ 4 \in Widths /\ \A w \in Widths : w = 1 \/ w = 2 \/ w = 4
  BY DEF Widths
<1>3. MaxRows \in Nat /\ Bits[1] \in Nat /\ Bits[2] \in Nat /\ Bits[4] \in Nat
  BY <1>1, <1>2
<1>4. Top \in Nat /\ MaxRows <= Top /\ Bits[1] <= Top /\ Bits[2] <= Top /\ Bits[4] <= Top
  BY <1>3 DEF Top
<1> QED
  BY <1>1, <1>2, <1>4

(* The recursion equations.                                                *)
LEMMA PowSteps ==
  /\ Pow(0) = 1
  /\ \A k \in 0..Top : Pow(k) \in Nat /\ Pow(k + 1) = 2 * Pow(k)
BY PowerAssumption, Zenon DEF Pow, Top

(* A power is larger than its exponent.                                    *)
LEMMA PowLarger ==
  ASSUME NEW k \in 0..Top
  PROVE  Pow(k) > k
<1> DEFINE Bad == {m \in 0..Top : ~(Pow(m) > m)}
<1>1. ASSUME Bad # {} PROVE FALSE
  <2>1. Bad \in SUBSET Nat
    BY TopProperties
  <2>2. PICK m \in Bad : \A j \in Bad : m <= j
    BY <1>1, <2>1, LeastNatural
  <2>3. m \in 0..Top /\ m \in Nat /\ ~(Pow(m) > m)
    BY TopProperties
  <2>4. m # 0
    BY <2>3, PowSteps
  <2>5. m - 1 \in 0..Top /\ ~(m <= m - 1) /\ (m - 1) + 1 = m
    BY <2>3, <2>4, TopProperties
  <2>6. Pow(m - 1) > m - 1
    BY <2>2, <2>5
  <2>7. Pow(m - 1) \in Nat /\ Pow(m) = 2 * Pow(m - 1)
    <3>1. Pow((m - 1) + 1) = 2 * Pow(m - 1)
      BY <2>5, PowSteps
    <3> QED
      BY <2>5, <3>1, PowSteps
  <2> QED
    BY <2>3, <2>4, <2>6, <2>7
<1> QED
  BY <1>1

(* Powers grow with their exponents.                                       *)
LEMMA PowMonotone ==
  ASSUME NEW a \in 0..Top, NEW b \in 0..Top, a <= b
  PROVE  Pow(a) <= Pow(b)
<1> DEFINE Bad == {m \in 0..Top : a <= m /\ ~(Pow(a) <= Pow(m))}
<1>1. ASSUME Bad # {} PROVE FALSE
  <2>1. Bad \in SUBSET Nat
    BY TopProperties
  <2>2. PICK m \in Bad : \A j \in Bad : m <= j
    BY <1>1, <2>1, LeastNatural
  <2>3. m \in 0..Top /\ m \in Nat /\ a \in Nat /\ a <= m /\ ~(Pow(a) <= Pow(m))
    BY TopProperties
  <2>4. m # a
    BY <2>3, PowSteps
  <2>5. m - 1 \in 0..Top /\ ~(m <= m - 1) /\ (m - 1) + 1 = m /\ a <= m - 1
    BY <2>3, <2>4, TopProperties
  <2>6. Pow(a) <= Pow(m - 1)
    BY <2>2, <2>5
  <2>7. Pow(m - 1) \in Nat /\ Pow(a) \in Nat /\ Pow(m) = 2 * Pow(m - 1)
    <3>1. Pow((m - 1) + 1) = 2 * Pow(m - 1)
      BY <2>5, PowSteps
    <3> QED
      BY <2>3, <2>5, <3>1, PowSteps
  <2> QED
    BY <2>3, <2>6, <2>7
<1> QED
  BY <1>1

-----------------------------------------------------------------------------
(* The width of the ids                                                    *)

(* The entropy fits a width exactly when the number of values is below the *)
(* number of ids.                                                          *)
LEMMA EntropyFitsWidth ==
  ASSUME NEW n \in 1..MaxRows, NEW w \in Widths
  PROVE  /\ Entropy(n) \in Nat
         /\ Entropy(n) <= Bits[w] <=> EntropyFits(n, w)
<1>1. n \in Nat \ {0} /\ n <= Top /\ n \in 0..Top
  BY TopProperties
<1>2. PICK b : b = Bits[w]
  OBVIOUS
<1>3. b \in 0..Top /\ IdLimit(w) = Pow(b)
  <2>1. IdLimit(w) = Pow(b)
    BY <1>2, DictionaryAssumption, Zenon DEF Pow
  <2> QED
    BY <1>2, <2>1, TopProperties
<1> DEFINE Above == {m \in 0..n : n < Pow(m)}
<1>4. n \in Above
  BY <1>1, PowLarger
<1>5. PICK m \in Above : \A j \in Above : m <= j
  <2>1. Above \in SUBSET Nat /\ Above # {}
    BY <1>1, <1>4
  <2> HIDE DEF Above
  <2> QED
    BY <2>1, LeastNatural
<1>6. m \in 0..n /\ n < Pow(m) /\ m # 0
  BY <1>1, <1>5, PowSteps
<1>7. m - 1 \in 0..n /\ (m - 1) + 1 = m /\ ~(m <= m - 1) /\ m - 1 \in 0..Top
  BY <1>1, <1>6, TopProperties
<1>8. Pow(m - 1) <= n /\ n < Pow((m - 1) + 1)
  <2>1. m - 1 \notin Above
    BY <1>5, <1>7
  <2>2. Pow(m - 1) \in Nat /\ ~(n < Pow(m - 1))
    BY <1>7, <2>1, PowSteps
  <2>3. n < Pow((m - 1) + 1)
    BY <1>6, <1>7
  <2> QED
    BY <1>1, <2>2, <2>3
<1> DEFINE Log(k) == Pow(k) <= n /\ n < Pow(k + 1)
           e == CHOOSE k \in 0..n : Log(k)
<1>9. \E k \in 0..n : Log(k)
  BY <1>7, <1>8, Zenon
<1>10. e \in 0..n /\ Log(e)
  BY <1>9
<1>11. Entropy(n) = e + 1
  BY DEF Entropy, Pow
<1>12. e \in 0..n /\ Pow(e) <= n /\ n < Pow(e + 1)
  BY <1>10
<1> HIDE DEF e
<1>13. e \in 0..Top /\ e \in Nat /\ Pow(e) \in Nat /\ Pow(b) \in Nat
  BY <1>1, <1>3, <1>12, PowSteps, TopProperties
<1>14. ASSUME e + 1 <= b PROVE n < Pow(b)
  <2>1. e + 1 \in 0..Top
    BY <1>3, <1>13, <1>14, TopProperties
  <2>2. Pow(e + 1) <= Pow(b) /\ Pow(e + 1) \in Nat
    BY <1>3, <1>14, <2>1, PowMonotone, PowSteps
  <2> QED
    BY <1>1, <1>12, <1>13, <2>2
<1>15. ASSUME n < Pow(b) PROVE e + 1 <= b
  <2>1. CASE b <= e
    <3>1. Pow(b) <= Pow(e)
      BY <1>3, <1>13, <2>1, PowMonotone
    <3> QED
      BY <1>1, <1>12, <1>13, <1>15, <3>1
  <2> QED
    BY <1>3, <1>13, <2>1, TopProperties
<1> QED
  BY <1>2, <1>3, <1>11, <1>13, <1>14, <1>15 DEF EntropyFits

(* The branches of the constructor choose the widths of the closed form.   *)
LEMMA BranchesAreChoices ==
  ASSUME NEW n \in 0..MaxRows
  PROVE  Branches(n) = WidthChoices(n)
<1>1. CASE n = 0
  BY <1>1 DEF Branches, WidthChoices
<1>2. CASE n # 0
  <2>1. n \in 1..MaxRows
    BY <1>2, TopProperties
  <2>2. \A w \in Widths : /\ Entropy(n) \in Nat /\ Bits[w] \in Nat
                          /\ Entropy(n) <= Bits[w] <=> EntropyFits(n, w)
    BY <2>1, EntropyFitsWidth, TopProperties
  <2>3. \A w \in Widths : Entropy(n) > Bits[w] <=> ~EntropyFits(n, w)
    BY <2>2
  <2> QED
    BY <1>2, <2>2, <2>3 DEF Branches, WidthChoices
<1> QED
  BY <1>1, <1>2

-----------------------------------------------------------------------------
(* The loops                                                               *)

(* set_dict after n values.                                                *)
Collected(n) ==
  IF n > 0 /\ values[1] = NaN THEN {NaN} ELSE {values[j] : j \in 1..n} \ {NaN}

(* The attribute vector after n values.                                    *)
Ids(n) == [j \in 1..n |-> FindIndex(dictionary, values[j]) % IdLimit(width)]

(* dictionary and width as the closed form has them.                       *)
Chosen ==
  /\ dictionary = SortedVector(set_dict(values))
  /\ width \in WidthChoices(Cardinality(set_dict(values)))

LoopInv ==
  /\ values \in Seq(Values) /\ Len(values) <= MaxRows
  /\ i \in 0..Len(values)
  /\ pc \in {"append", "emplace", "set", "done", "threw"}
  /\ pc = "append" => i = 0 /\ seen = {}
  /\ pc = "emplace" => seen = Collected(i)
  /\ pc \in {"append", "emplace"} => vector = << >>
  /\ pc \in {"set", "done"} => Chosen /\ vector = Ids(i)
  /\ pc = "done" => i = Len(values)

(* std::set::emplace, one value at a time, makes the set of the closed     *)
(* form: a NaN that comes first keeps everything else out, any other one   *)
(* is left out itself.                                                     *)
LEMMA EmplaceCollects ==
  ASSUME values \in Seq(Values), NEW n \in 0..Len(values) - 1
  PROVE  Emplace(Collected(n), values[n + 1]) = Collected(n + 1)
<1>1. Len(values) \in Nat /\ n \in Nat /\ n + 1 \in 1..Len(values)
  OBVIOUS
<1>2. PICK v : v = values[n + 1]
  OBVIOUS
<1>3. v \in Values /\ (v = NaN \/ v \in Int)
  <2>1. values[n + 1] \in Values
    BY <1>1
  <2> QED
    BY <1>2, <2>1, ValueAssumption
<1> DEFINE P == {values[j] : j \in 1..n}
<1>4. {values[j] : j \in 1..n + 1} = P \cup {v}
  <2>1. \A j : j \in 1..n + 1 <=> j \in 1..n \/ j = n + 1
    BY <1>1
  <2> QED
    BY <1>2, <2>1
<1>5. \A u \in P : u = NaN \/ u \in Int
  <2>1. \A j \in 1..n : values[j] \in Values
    BY <1>1
  <2> QED
    BY <2>1, ValueAssumption
<1>6. CASE n = 0
  <2>1. P = {}
    BY <1>6
  <2>2. Collected(n) = {}
    BY <1>6, <2>1 DEF Collected
  <2>3. Emplace({}, v) = {v}
    BY DEF Emplace
  <2>4. values[1] = v /\ n + 1 > 0
    BY <1>2, <1>6
  <2>5. Collected(n + 1) = IF v = NaN THEN {NaN} ELSE {v} \ {NaN}
    BY <1>4, <2>1, <2>4 DEF Collected
  <2> QED
    BY <1>2, <2>2, <2>3, <2>5
<1>7. CASE n > 0 /\ values[1] = NaN
  <2>1. Collected(n) = {NaN} /\ Collected(n + 1) = {NaN}
    BY <1>1, <1>7 DEF Collected
  <2>2. Emplace({NaN}, v) = {NaN}
    BY DEF Emplace, Less
  <2> QED
    BY <1>2, <2>1, <2>2
<1>8. CASE n > 0 /\ values[1] # NaN
  <2>1. Collected(n) = P \ {NaN} /\ Collected(n + 1) = (P \cup {v}) \ {NaN}
    BY <1>1, <1>4, <1>8 DEF Collected
  <2>2. values[1] \in P \ {NaN}
    BY <1>1, <1>8
  <2>3. CASE v = NaN
    <3>1. Emplace(P \ {NaN}, v) = P \ {NaN}
      BY <2>2, <2>3 DEF Emplace, Less
    <3>2. (P \cup {v}) \ {NaN} = P \ {NaN}
      BY <2>3
    <3> QED
      BY <1>2, <2>1, <3>1, <3>2
  <2>4. CASE v # NaN
    <3>1. v \in Int
      BY <1>3, <2>4
    <3>2. \A u \in P \ {NaN} : (~Less(u, v) /\ ~Less(v, u)) <=> u = v
      <4>1. \A u \in P \ {NaN} : u \in Int /\ u # NaN
        BY <1>5
      <4> HIDE DEF P
      <4>2. \A u \in Int : (~(u < v) /\ ~(v < u)) <=> u = v
        BY <3>1
      <4> QED
        BY <2>4, <4>1, <4>2, Zenon DEF Less
    <3>3. Emplace(P \ {NaN}, v) = (P \cup {v}) \ {NaN}
      <4>1. (\E u \in P \ {NaN} : ~Less(u, v) /\ ~Less(v, u)) <=> v \in P \ {NaN}
        BY <3>2
      <4>2. Emplace(P \ {NaN}, v) = IF v \in P \ {NaN} THEN P \ {NaN} ELSE (P \ {NaN}) \cup {v}
        BY <4>1, Zenon DEF Emplace
      <4> QED
        BY <2>4, <4>2
    <3> QED
      BY <1>2, <2>1, <3>3
  <2> QED
    BY <2>3, <2>4
<1> QED
  BY <1>1, <1>6, <1>7, <1>8

(* All values together give the set of the closed form.                    *)
LEMMA CollectedAll ==
  ASSUME values \in Seq(Values)
  PROVE  Collected(Len(values)) = set_dict(values)
<1>1. Range(values) = {values[j] : j \in 1..Len(values)}
  BY DEF Range
<1>2. Len(values) \in Nat /\ (Len(values) > 0 <=> values # << >>)
  OBVIOUS
<1> QED
  BY <1>1, <1>2 DEF Collected, set_dict

(* There are no more distinct values than rows.                            *)
LEMMA DictionarySmall ==
  ASSUME values \in Seq(Values)
  PROVE  Cardinality(set_dict(values)) \in 0..Len(values)
<1>1. Len(values) \in Nat /\ values \in [1..Len(values) -> Values]
  BY LenProperties
<1>2. values \in Surjection(1..Len(values), Range(values))
  BY <1>1, Fun_RangeProperties
<1>3. IsFiniteSet(1..Len(values)) /\ Cardinality(1..Len(values)) = Len(values)
  BY <1>1, FS_Interval
<1>4. IsFiniteSet(Range(values)) /\ Cardinality(Range(values)) <= Len(values)
  BY <1>2, <1>3, FS_Surjection
<1>5. set_dict(values) \subseteq Range(values)
  <2>1. values # << >> => values[1] \in Range(values)
    BY DEF Range
  <2> QED
    BY <2>1 DEF set_dict
<1>6. /\ Cardinality(set_dict(values)) \in Nat /\ Cardinality(Range(values)) \in Nat
      /\ Cardinality(set_dict(values)) <= Cardinality(Range(values))
  BY <1>4, <1>5, FS_Subset, FS_CardinalityType
<1> QED
  BY <1>1, <1>4, <1>6

(* Inserting at the end of the attribute vector appends.                   *)
LEMMA SetAppends ==
  ASSUME NEW vec \in Seq(Int), NEW w \in Widths, NEW id \in Int
  PROVE  AttributeVectorSet(vec, w, Len(vec), id) = Append(vec, id % IdLimit(w))
<1> DEFINE x == id % IdLimit(w)
<1>1. Len(vec) \in Nat /\ SubSeq(vec, 1, Len(vec)) = vec
  BY SubSeqFull
<1>2. SubSeq(vec, Len(vec) + 1, Len(vec)) = << >>
  BY <1>1
<1>3. AttributeVectorSet(vec, w, Len(vec), id) =
        SubSeq(vec, 1, Len(vec)) \o <<x>> \o SubSeq(vec, Len(vec) + 1, Len(vec))
  BY DEF AttributeVectorSet
<1>4. x \in Int
  BY IdLimitPositive
<1> HIDE DEF x
<1>5. vec \o <<x>> \o << >> = Append(vec, x)
  BY <1>1, <1>4
<1> QED
  BY <1>1, <1>2, <1>3, <1>5, Zenon DEF x

(* The loop that sets the ids extends the vector by the next one.          *)
LEMMA IdsGrow ==
  ASSUME LoopInv, pc = "set", i < Len(values), NEW n, n = i
  PROVE  AttributeVectorSet(vector, width, n, FindIndex(dictionary, values[n + 1])) = Ids(n + 1)
<1>1. /\ values \in Seq(Values) /\ n \in 0..Len(values) /\ n \in Nat /\ n + 1 \in 1..Len(values)
      /\ Chosen /\ vector = Ids(n)
  BY DEF LoopInv
<1>2. width \in Widths /\ dictionary \in Seq(Values)
  BY <1>1, DictionaryInSeq DEF Chosen, WidthChoices
<1>3. \A j : FindIndex(dictionary, values[j]) \in Int
  BY <1>2, FindIndexType
<1>4. IdLimit(width) \in Nat /\ IdLimit(width) > 0
  BY <1>2, IdLimitPositive
<1> DEFINE id(j) == FindIndex(dictionary, values[j]) % IdLimit(width)
<1>5. \A j : id(j) \in Int
  BY <1>3, <1>4
<1>6. Ids(n) = [j \in 1..n |-> id(j)] /\ Ids(n + 1) = [j \in 1..n + 1 |-> id(j)]
  BY DEF Ids
<1>7. AttributeVectorSet(vector, width, Len(vector), FindIndex(dictionary, values[n + 1]))
        = Append(vector, id(n + 1)) /\ vector \in Seq(Int) /\ Len(vector) = n
  <2>1. vector \in Seq(Int) /\ Len(vector) = n
    <3> HIDE DEF id
    <3> QED
      BY <1>1, <1>5, <1>6
  <2> QED
    BY <1>2, <1>3, <2>1, SetAppends
<1> HIDE DEF id
<1>8. Append(vector, id(n + 1)) = [j \in 1..n + 1 |-> id(j)]
  <2>1. Append(vector, id(n + 1)) \in Seq(Int) /\ Len(Append(vector, id(n + 1))) = n + 1
    BY <1>5, <1>7
  <2>2. \A j \in 1..n + 1 : Append(vector, id(n + 1))[j] = id(j)
    <3>1. \A j \in 1..n : vector[j] = id(j)
      BY <1>1, <1>6
    <3>2. \A j \in 1..n + 1 : j \in 1..n \/ j = n + 1
      BY <1>1
    <3>3. \A j \in 1..n : Append(vector, id(n + 1))[j] = vector[j]
      BY <1>1, <1>5, <1>7
    <3>4. Append(vector, id(n + 1))[n + 1] = id(n + 1)
      BY <1>1, <1>5, <1>7
    <3> QED
      BY <3>1, <3>2, <3>3, <3>4
  <2>3. Append(vector, id(n + 1)) = [j \in 1..n + 1 |-> Append(vector, id(n + 1))[j]]
    BY <2>1
  <2> QED
    BY <2>2, <2>3
<1> QED
  BY <1>6, <1>7, <1>8

(* Every step of the constructor keeps what its loops have built.          *)
LEMMA LoopStep ==
  ASSUME LoopInv, [Next]_vars
  PROVE  LoopInv'
<1>0. PICK n : n = i
  OBVIOUS
<1>1. values \in Seq(Values) /\ Len(values) \in Nat /\ Len(values) <= MaxRows /\ n \in 0..Len(values)
  BY <1>0 DEF LoopInv
<1>2. ASSUME NEW val \in Variants, append(val) PROVE LoopInv'
  <2>1. PICK x : x = type_cast[T][val]
    OBVIOUS
  <2>2. x \in Values
    BY <1>2, <2>1, TypeAssumption, DictionaryAssumption DEF append
  <2>3. values' = Append(values, x)
    BY <1>2, <2>1 DEF append, ValueSegmentAppend, ValueSegment
  <2>4. pc = "append" /\ pc' = pc /\ i' = i /\ seen' = seen /\ vector' = vector /\ Len(values) < MaxRows
    BY <1>2 DEF append
  <2>5. values' \in Seq(Values) /\ Len(values') = Len(values) + 1
    BY <1>1, <2>2, <2>3
  <2>6. i = 0 /\ seen = {} /\ vector = << >>
    BY <2>4 DEF LoopInv
  <2> QED
    BY <1>1, <2>4, <2>5, <2>6, DictionaryAssumption DEF LoopInv
<1>3. CASE construct
  <2>1. pc = "append" /\ pc' = "emplace" /\ i' = 0 /\ seen' = {} /\ vector' = << >> /\ values' = values
    BY <1>3 DEF construct, LoopInv
  <2>2. (Collected(i))' = {}
    BY <2>1 DEF Collected
  <2> QED
    BY <1>1, <2>1, <2>2 DEF LoopInv
<1>4. CASE emplace
  <2>1. /\ pc = "emplace" /\ pc' = pc /\ n < Len(values) /\ i' = n + 1 /\ vector' = vector
        /\ values' = values /\ seen' = Emplace(seen, values[n + 1])
    BY <1>0, <1>4 DEF emplace
  <2>2. seen = Collected(n) /\ vector = << >>
    BY <1>0, <2>1 DEF LoopInv
  <2>3. n \in 0..Len(values) - 1 /\ n + 1 \in 0..Len(values)
    BY <1>1, <2>1
  <2>4. seen' = Collected(n + 1)
    BY <1>1, <2>1, <2>2, <2>3, EmplaceCollects
  <2>5. (Collected(i))' = Collected(n + 1)
    BY <2>1 DEF Collected
  <2> QED
    BY <1>1, <2>1, <2>2, <2>3, <2>4, <2>5 DEF LoopInv
<1>5. CASE choose_width
  <2>1. /\ pc = "emplace" /\ n = Len(values) /\ i' = 0 /\ vector' = vector /\ values' = values
        /\ dictionary' = SortedVector(seen)
        /\ \/ Branches(Len(dictionary')) = {} /\ pc' = "threw"
           \/ pc' = "set" /\ width' \in Branches(Len(dictionary'))
    BY <1>0, <1>5 DEF choose_width
  <2>2. seen = set_dict(values) /\ vector = << >>
    BY <1>0, <1>1, <2>1, CollectedAll DEF LoopInv
  <2>3. Len(dictionary') = Cardinality(set_dict(values))
    <3>1. Cardinality(set_dict(values)) \in 0..Len(values)
      BY <1>1, DictionarySmall
    <3> QED
      BY <1>1, <2>1, <2>2, <3>1 DEF SortedVector
  <2>4. Branches(Len(dictionary')) = WidthChoices(Cardinality(set_dict(values)))
    <3>1. Cardinality(set_dict(values)) \in 0..Len(values)
      BY <1>1, DictionarySmall
    <3>2. Cardinality(set_dict(values)) \in 0..MaxRows
      BY <1>1, <3>1, DictionaryAssumption
    <3> QED
      BY <2>3, <3>2, BranchesAreChoices
  <2>5. pc' = "set" => Chosen'
    BY <2>1, <2>2, <2>4 DEF Chosen
  <2>6. (Ids(i))' = << >>
    BY <2>1 DEF Ids
  <2> QED
    BY <1>1, <2>1, <2>2, <2>5, <2>6 DEF LoopInv
<1>6. CASE set
  <2>1. /\ pc = "set" /\ pc' = pc /\ n < Len(values) /\ i' = n + 1 /\ values' = values
        /\ dictionary' = dictionary /\ width' = width
        /\ vector' = AttributeVectorSet(vector, width, n, FindIndex(dictionary, values[n + 1]))
    BY <1>0, <1>6 DEF set
  <2>2. vector' = Ids(n + 1)
    BY <1>0, <2>1, IdsGrow
  <2>3. (Ids(i))' = Ids(n + 1)
    BY <2>1 DEF Ids
  <2>4. Chosen /\ Chosen'
    BY <2>1 DEF LoopInv, Chosen
  <2>5. n + 1 \in 0..Len(values)
    BY <1>1, <2>1
  <2> QED
    BY <1>1, <2>1, <2>2, <2>3, <2>4, <2>5 DEF LoopInv
<1>7. CASE finish
  <2>1. /\ pc = "set" /\ pc' = "done" /\ n = Len(values)
        /\ UNCHANGED <<values, i, dictionary, width, vector>>
    BY <1>0, <1>7 DEF finish
  <2>2. (Ids(i))' = Ids(i) /\ (Chosen' <=> Chosen)
    BY <2>1 DEF Ids, Chosen
  <2> QED
    BY <1>0, <1>1, <2>1, <2>2 DEF LoopInv
<1>8. CASE UNCHANGED vars
  <2>1. (Ids(i))' = Ids(i) /\ (Chosen' <=> Chosen) /\ (Collected(i))' = Collected(i)
    BY <1>8 DEF Ids, Chosen, Collected, vars
  <2> QED
    BY <1>8, <2>1 DEF LoopInv, vars
<1> QED
  BY <1>2, <1>3, <1>4, <1>5, <1>6, <1>7, <1>8 DEF Next

(* At first nothing is built.                                              *)
LEMMA LoopInit == Init => LoopInv
<1> SUFFICES ASSUME Init PROVE LoopInv
  OBVIOUS
<1> QED
  BY DictionaryAssumption DEF Init, LoopInv

(* The loops, one value at a time, build the segment that                  *)
(* Segments!DictionarySegment defines, with a width the closed form        *)
(* allows: (int)std::log2 and the branches on it choose the width whose    *)
(* ids suffice.                                                            *)
THEOREM LoopsMatch == Spec => []MatchesClosedForm
<1>1. LoopInv => MatchesClosedForm
  <2> SUFFICES ASSUME LoopInv, pc = "done" PROVE MatchesClosedForm
    BY DEF MatchesClosedForm
  <2>1. Chosen /\ vector = Ids(Len(values))
    BY DEF LoopInv
  <2>2. segment = DictionarySegment(T, values, width)
    BY <2>1 DEF Chosen, Ids, segment, DictionarySegment
  <2> QED
    BY <2>1, <2>2 DEF MatchesClosedForm, Chosen
<1>2. LoopInv /\ [Next]_vars => LoopInv'
  BY LoopStep
<1> QED
  BY <1>1, <1>2, LoopInit, PTL DEF Spec

-----------------------------------------------------------------------------
(* What the finished segment promises                                      *)

(* The finished segment of a column without NaN is the one that the        *)
(* theorems of SegmentsProofs are about.                                   *)
LEMMA Finished ==
  ASSUME LoopInv, Ordinary, NEW S, S = set_dict(values)
  PROVE  /\ values \in Seq(Values) /\ Len(values) \in Nat /\ NaN \notin Range(values)
         /\ T \in DataTypes /\ width \in WidthChoices(Cardinality(S)) /\ width \in Widths
         /\ segment = DictionarySegment(T, values, width)
         /\ segment.attribute_vector = vector /\ segment.dictionary = dictionary
         /\ dictionary = SortedVector(S) /\ DOMAIN vector = 1..Len(values)
         /\ S = Range(values) /\ IsFiniteSet(S) /\ S \in SUBSET Int
         /\ Cardinality(S) \in Nat
<1>1. Chosen /\ vector = Ids(Len(values)) /\ values \in Seq(Values)
  BY DEF LoopInv, Ordinary
<1>2. /\ segment = DictionarySegment(T, values, width)
      /\ segment.attribute_vector = vector /\ segment.dictionary = dictionary
  BY <1>1 DEF Chosen, Ids, segment, DictionarySegment
<1>3. NaN \notin Range(values)
  BY DEF Ordinary
<1>4. S = Range(values) /\ IsFiniteSet(S) /\ S \in SUBSET Int
  BY <1>1, <1>3, SetDictProperties
<1>5. width \in WidthChoices(Cardinality(S)) /\ width \in Widths
  BY <1>1 DEF Chosen, WidthChoices
<1>6. DOMAIN vector = 1..Len(values)
  BY <1>1 DEF Ids
<1> QED
  BY <1>1, <1>2, <1>3, <1>4, <1>5, <1>6, DictionaryAssumption, FS_CardinalityType DEF Chosen

(* The id of every row is the rank of its value.                           *)
LEMMA RowIds ==
  ASSUME LoopInv, Ordinary, NEW S, S = set_dict(values), NEW r \in 1..Len(values)
  PROVE  /\ values[r] \in S /\ vector[r] = Rank(S, values[r])
         /\ vector[r] \in 0..Cardinality(S) - 1 /\ vector[r] < IdLimit(width) - 1
<1>1. /\ values \in Seq(Values) /\ NaN \notin Range(values)
      /\ T \in DataTypes /\ width \in WidthChoices(Cardinality(S))
      /\ DictionarySegment(T, values, width).attribute_vector = vector
  BY Finished
<1> QED
  BY <1>1, IdsAreRanks

(* Reading the finished segment returns the column it was made from.       *)
THEOREM LossIsNone == Spec => []Lossless
<1>1. LoopInv => Lossless
  <2> SUFFICES ASSUME LoopInv, Ordinary PROVE Decode(segment) = values
    BY DEF Lossless
  <2>1. /\ values \in Seq(Values) /\ NaN \notin Range(values) /\ T \in DataTypes
        /\ width \in WidthChoices(Cardinality(set_dict(values)))
        /\ segment = DictionarySegment(T, values, width)
    BY Finished
  <2> QED
    BY <2>1, RoundTrip
<1>2. LoopInv /\ [Next]_vars => LoopInv'
  BY LoopStep
<1> QED
  BY <1>1, <1>2, LoopInit, PTL DEF Spec

(* The dictionary is strictly ascending, and its ids are those of the rows *)
(* and no others.                                                          *)
THEOREM DictionaryIsTight == Spec => []DictionaryTight
<1>1. LoopInv => DictionaryTight
  <2> SUFFICES ASSUME LoopInv, Ordinary
               PROVE  /\ \A j, k \in DOMAIN dictionary : j < k => Less(dictionary[j], dictionary[k])
                      /\ Range(vector) = 0..Len(dictionary) - 1
    BY DEF DictionaryTight
  <2>0. PICK S : S = set_dict(values)
    OBVIOUS
  <2>1. /\ dictionary = SortedVector(S) /\ S = Range(values) /\ IsFiniteSet(S) /\ S \in SUBSET Int
        /\ DOMAIN vector = 1..Len(values) /\ DOMAIN values = 1..Len(values)
    BY <2>0, Finished
  <2> DEFINE d == SortedVector(S)
  <2>2. /\ d \in Seq(S) /\ Len(d) = Cardinality(S) /\ Cardinality(S) \in Nat
        /\ \A j \in 1..Len(d) : d[j] \in S
        /\ \A j, k \in 1..Len(d) : j < k => d[j] < d[k]
    BY <2>1, SortedVectorProperties
  <2> HIDE DEF d
  <2>3. dictionary = d
    BY <2>1 DEF d
  <2>4. \A j, k \in DOMAIN dictionary : j < k => Less(dictionary[j], dictionary[k])
    <3>1. DOMAIN dictionary = 1..Len(d)
      BY <2>2, <2>3
    <3>2. \A x \in S : x # NaN
      BY <2>1, ValueAssumption
    <3> QED
      BY <2>2, <2>3, <3>1, <3>2 DEF Less
  <2>5. ASSUME NEW r \in 1..Len(values) PROVE vector[r] \in 0..Cardinality(S) - 1
    BY <2>0, RowIds
  <2>6. ASSUME NEW n \in 0..Cardinality(S) - 1 PROVE \E r \in 1..Len(values) : vector[r] = n
    <3>1. PICK v \in S : Rank(S, v) = n
      BY <2>1, RankBijective
    <3>2. PICK r \in 1..Len(values) : values[r] = v
      BY <2>1 DEF Range
    <3> QED
      BY <2>0, <3>1, <3>2, RowIds
  <2>7. Range(vector) = 0..Cardinality(S) - 1
    BY <2>1, <2>5, <2>6 DEF Range
  <2> QED
    BY <2>2, <2>3, <2>4, <2>7
<1>2. LoopInv /\ [Next]_vars => LoopInv'
  BY LoopStep
<1> QED
  BY <1>1, <1>2, LoopInit, PTL DEF Spec

(* A scan of the finished segment may compare ids with the bounds.         *)
THEOREM ScansByIds == Spec => []ScanByIds
<1>1. LoopInv => ScanByIds
  <2> SUFFICES ASSUME LoopInv, Ordinary, NEW v \in Values \ {NaN}, NEW r \in DOMAIN values
               PROVE  /\ vector[r] >= lower_bound(segment, v) <=> ~Less(values[r], v)
                      /\ vector[r] >= upper_bound(segment, v) <=> Less(v, values[r])
    BY DEF ScanByIds
  <2>1. /\ values \in Seq(Values) /\ NaN \notin Range(values) /\ T \in DataTypes
        /\ width \in WidthChoices(Cardinality(set_dict(values)))
        /\ segment = DictionarySegment(T, values, width)
        /\ segment.attribute_vector = vector
    BY Finished
  <2>2. v \in Int /\ r \in 1..Len(values)
    BY <2>1, ValueAssumption
  <2> DEFINE s == DictionarySegment(T, values, width)
  <2>3. /\ s.attribute_vector[r] >= lower_bound(s, v) <=> ~Less(values[r], v)
        /\ s.attribute_vector[r] >= upper_bound(s, v) <=> Less(v, values[r])
    BY <2>1, <2>2, ScanByIdsCorrect
  <2> HIDE DEF s
  <2>4. segment = s
    BY <2>1 DEF s
  <2> QED
    BY <2>1, <2>3, <2>4
<1>2. LoopInv /\ [Next]_vars => LoopInv'
  BY LoopStep
<1> QED
  BY <1>1, <1>2, LoopInit, PTL DEF Spec

(* A power divides every larger one.                                       *)
LEMMA PowDivides ==
  ASSUME NEW a \in 0..Top, NEW b \in 0..Top, a <= b
  PROVE  \E q \in Nat : Pow(b) = q * Pow(a)
<1> DEFINE Bad == {m \in 0..Top : a <= m /\ ~\E q \in Nat : Pow(m) = q * Pow(a)}
<1>0. Pow(a) \in Nat
  BY PowSteps
<1>1. ASSUME Bad # {} PROVE FALSE
  <2>1. Bad \in SUBSET Nat
    BY TopProperties
  <2>2. PICK m \in Bad : \A j \in Bad : m <= j
    BY <1>1, <2>1, LeastNatural
  <2>3. m \in 0..Top /\ m \in Nat /\ a \in Nat /\ a <= m /\ ~\E q \in Nat : Pow(m) = q * Pow(a)
    BY TopProperties
  <2>4. m # a
    <3>1. Pow(a) = 1 * Pow(a)
      BY <1>0
    <3> QED
      BY <2>3, <3>1
  <2>5. m - 1 \in 0..Top /\ ~(m <= m - 1) /\ (m - 1) + 1 = m /\ a <= m - 1
    BY <2>3, <2>4, TopProperties
  <2>6. PICK q \in Nat : Pow(m - 1) = q * Pow(a)
    BY <2>2, <2>5
  <2>7. Pow(m) = 2 * Pow(m - 1)
    <3>1. Pow((m - 1) + 1) = 2 * Pow(m - 1)
      BY <2>5, PowSteps
    <3> QED
      BY <2>5, <3>1
  <2>8. Pow(m) = (2 * q) * Pow(a) /\ 2 * q \in Nat
    BY <1>0, <2>6, <2>7
  <2> QED
    BY <2>3, <2>8
<1> QED
  BY <1>1

(* One less than a multiple.                                               *)
LEMMA BeforeMultiple ==
  ASSUME NEW q \in Nat, NEW p \in Nat, p > 0, q * p > 0
  PROVE  (q * p - 1) % p = p - 1
<1>1. q >= 1
  OBVIOUS
<1>2. q * p - 1 = (q - 1) * p + (p - 1) /\ q - 1 \in Nat
  BY <1>1
<1> QED
  BY <1>2

(* INVALID_VALUE_ID, cast down to a width, is the largest id of the width. *)
LEMMA CastDown ==
  ASSUME NEW w \in Widths
  PROVE  INVALID_VALUE_ID % IdLimit(w) = IdLimit(w) - 1
<1>1. PICK a, b : a = Bits[w] /\ b = Bits[4]
  OBVIOUS
<1>2. 4 \in Widths /\ IdLimit(4) = U32
  BY DEF Widths, IdLimit
<1>3. a \in 0..Top /\ b \in 0..Top /\ IdLimit(w) = Pow(a) /\ U32 = Pow(b)
  <2>1. IdLimit(w) = Pow(a) /\ IdLimit(4) = Pow(b)
    BY <1>1, <1>2, DictionaryAssumption, Zenon DEF Pow
  <2> QED
    BY <1>1, <1>2, <2>1, TopProperties
<1>4. IdLimit(w) \in Nat /\ IdLimit(w) > 0 /\ IdLimit(w) <= U32 /\ U32 \in Nat
  BY IdLimitPositive, WidthAssumption
<1>5. a <= b
  <2>1. CASE a > b
    <3>1. a \in Nat /\ b \in Nat /\ b + 1 \in 0..Top /\ b + 1 <= a
      BY <1>3, <2>1, TopProperties
    <3>2. Pow(b + 1) <= Pow(a) /\ Pow(b + 1) = 2 * Pow(b)
      BY <1>3, <3>1, PowMonotone, PowSteps
    <3> QED
      BY <1>3, <1>4, <3>2
  <2> QED
    BY <1>3, <2>1, TopProperties
<1>6. PICK q \in Nat : Pow(b) = q * Pow(a)
  BY <1>3, <1>5, PowDivides
<1>7. PICK p : p = Pow(a)
  OBVIOUS
<1>8. p \in Nat /\ p > 0 /\ U32 = q * p /\ q * p > 0
  BY <1>3, <1>4, <1>6, <1>7
<1>9. (q * p - 1) % p = p - 1
  BY <1>8, BeforeMultiple
<1> QED
  BY <1>3, <1>7, <1>8, <1>9 DEF INVALID_VALUE_ID

(* After the down-cast of FixedSizeAttributeVector, INVALID_VALUE_ID is    *)
(* not the id of any row: the widths are powers of two, and the entropy    *)
(* leaves the last id of a width unused.                                   *)
THEOREM InvalidIsUnused == Spec => []InvalidIdUnused
<1>1. LoopInv => InvalidIdUnused
  <2> SUFFICES ASSUME LoopInv, Ordinary
               PROVE  INVALID_VALUE_ID % IdLimit(width) \notin Range(vector)
    BY DEF InvalidIdUnused
  <2>0. DOMAIN vector = 1..Len(values)
    BY Finished
  <2> SUFFICES ASSUME NEW r \in 1..Len(values), vector[r] = INVALID_VALUE_ID % IdLimit(width)
               PROVE  FALSE
    BY <2>0, Zenon DEF Range
  <2>1. PICK S : S = set_dict(values)
    OBVIOUS
  <2>2. vector[r] \in 0..Cardinality(S) - 1 /\ vector[r] < IdLimit(width) - 1
    BY <2>1, RowIds
  <2>3. width \in Widths /\ Cardinality(S) \in Nat
    BY <2>1, Finished
  <2>4. vector[r] = IdLimit(width) - 1 /\ IdLimit(width) \in Nat
    BY <2>3, CastDown, IdLimitPositive
  <2> QED
    BY <2>2, <2>3, <2>4
<1>2. LoopInv /\ [Next]_vars => LoopInv'
  BY LoopStep
<1> QED
  BY <1>1, <1>2, LoopInit, PTL DEF Spec
=============================================================================
