---------------------------- MODULE TableProofs ----------------------------
(***************************************************************************)
(* Theorems about the table, for every chunk size, every number of columns *)
(* and chunks, and every order of the compression tasks: its types, and    *)
(* that what is stored stays there and the row count is right (TypeOK,     *)
(* AppendOnly, Immutable, AllOrNothing, PrintInBounds, RowCountExact); and *)
(* what a careful caller gets (Rectangular, SchemaMatches, NeverFails,     *)
(* IsRelation, PrintsRelation).                                            *)
(***************************************************************************)
EXTENDS TableProperties, SegmentsProofs

-----------------------------------------------------------------------------
(* Facts about the operators of Segments, Chunk and Table                  *)

(* What the modulo of an unsigned conversion does.                         *)
LEMMA Remainder ==
  ASSUME NEW x \in Nat, NEW m \in Nat \ {0}
  PROVE  x % m \in Nat /\ x % m <= x /\ x % m < m /\ (x < m => x % m = x)
OBVIOUS

(* The uint16_t column count is exact for fewer than 2^16 columns.         *)
LEMMA ColumnCount ==
  ASSUME NEW chunk \in Seq(BaseSegments)
  PROVE  /\ chunk_column_count(chunk) \in Nat /\ Len(chunk) \in Nat
         /\ chunk_column_count(chunk) <= Len(chunk)
         /\ Len(chunk) < U16 => chunk_column_count(chunk) = Len(chunk)
<1> DEFINE n == Len(chunk)
<1>1. n \in Nat /\ U16 \in Nat \ {0}
  BY WidthAssumption
<1> HIDE DEF n
<1>2. n % U16 \in Nat /\ n % U16 <= n /\ (n < U16 => n % U16 = n)
  BY <1>1, Remainder
<1> QED
  BY <1>1, <1>2 DEF chunk_column_count, n

(* Cutting off the last element and appending another one replaces it.     *)
LEMMA ReplaceLast ==
  ASSUME NEW S, NEW s \in Seq(S), s # << >>, NEW e \in S
  PROVE  Append(SubSeq(s, 1, Len(s) - 1), e) = [s EXCEPT ![Len(s)] = e]
<1> DEFINE n == Len(s)
           front == SubSeq(s, 1, n - 1)
           t == [s EXCEPT ![n] = e]
<1>1. n \in Nat \ {0} /\ s \in [1..n -> S] /\ n - 1 \in Nat
  BY EmptySeq, LenProperties
<1>2. front \in Seq(S) /\ Len(front) = n - 1
  BY <1>1
<1>3. \A i \in 1..n - 1 : front[i] = s[i]
  BY <1>1
<1>4. t \in Seq(S) /\ Len(t) = n /\ \A i \in 1..n : t[i] = IF i = n THEN e ELSE s[i]
  BY <1>1
<1> HIDE DEF front, t, n
<1>5. /\ Append(front, e) \in Seq(S) /\ Len(Append(front, e)) = n
      /\ \A i \in 1..n : Append(front, e)[i] = IF i = n THEN e ELSE front[i]
  BY <1>1, <1>2
<1>6. \A i \in 1..n : Append(front, e)[i] = t[i]
  <2> SUFFICES ASSUME NEW i \in 1..n PROVE Append(front, e)[i] = t[i]
    OBVIOUS
  <2>1. CASE i = n
    BY <1>4, <1>5, <2>1
  <2>2. CASE i # n
    <3>1. i \in 1..n - 1
      BY <1>1, <2>2
    <3> QED
      BY <1>3, <1>4, <1>5, <2>2, <3>1
  <2> QED
    BY <2>1, <2>2
<1>7. Append(front, e) = t
  BY <1>4, <1>5, <1>6, SeqEqual
<1> QED
  BY <1>7 DEF front, t, n

(* An empty value segment is a value segment.                              *)
LEMMA ValueSegmentType ==
  ASSUME NEW type \in DataTypes
  PROVE  ValueSegment(type) \in ValueSegments
BY DEF ValueSegment, ValueSegments

(* What make_shared_by_data_type returns when it does not throw.           *)
LEMMA make_value_segmentType ==
  ASSUME NEW type, make_value_segment(type) # Throws
  PROVE  /\ make_value_segment(type) \in BaseSegments
         /\ \/ type \in DataTypes /\ make_value_segment(type) = ValueSegment(type)
            \/ type \notin DataTypes /\ ~IS_DEBUG /\ make_value_segment(type) = NullSegment
BY ValueSegmentType DEF make_value_segment, BaseSegments

(* A segment says which of the three forms it has.                         *)
LEMMA SegmentKinds ==
  ASSUME NEW segment \in BaseSegments
  PROVE  /\ segment.kind \in {"value", "dict", "null"}
         /\ segment.kind = "value" => segment \in ValueSegments
         /\ segment.kind = "dict" => segment \in DictionarySegments
         /\ segment.kind = "null" => segment = NullSegment
BY DEF BaseSegments, ValueSegments, DictionarySegments, NullSegment

(* ValueSegment::append adds the converted value at the end.               *)
LEMMA ValueSegmentAppendType ==
  ASSUME NEW segment \in ValueSegments, NEW val \in Variants, type_cast[segment.type][val] # Throws
  PROVE  /\ ValueSegmentAppend(segment, val) \in ValueSegments
         /\ ValueSegmentAppend(segment, val).values =
              Append(segment.values, type_cast[segment.type][val])
         /\ type_cast[segment.type][val] \in Values
<1>1. segment.type \in DataTypes /\ segment.values \in Seq(Values)
  BY DEF ValueSegments
<1>2. type_cast[segment.type][val] \in Values
  BY <1>1, TypeAssumption
<1>3. Append(segment.values, type_cast[segment.type][val]) \in Seq(Values)
  BY <1>1, <1>2
<1> QED
  BY <1>2, <1>3 DEF ValueSegmentAppend, ValueSegments

(* Chunk::append keeps the columns of a chunk, and each of them is as       *)
(* before or a value segment that is one value longer.                      *)
LEMMA ChunkAppendProperties ==
  ASSUME NEW chunk \in Seq(BaseSegments), NEW values \in Seq(Variants)
  PROVE  /\ ChunkAppend(chunk, values) \in Seq(BaseSegments)
         /\ Len(ChunkAppend(chunk, values)) = Len(chunk)
         /\ \A k \in 1..Len(chunk) :
              \/ ChunkAppend(chunk, values)[k] = chunk[k]
              \/ /\ chunk[k] \in ValueSegments
                 /\ ChunkAppend(chunk, values)[k] \in ValueSegments
                 /\ \E x \in Values :
                      ChunkAppend(chunk, values)[k].values = Append(chunk[k].values, x)
<1> DEFINE new == ChunkAppend(chunk, values)
           taken(k) == k \in DOMAIN values /\ LoopReaches(chunk, values, k)
                         /\ Accepts(chunk, k, values[k])
<1>1. CASE ArityRejected(chunk, values)
  BY <1>1 DEF ChunkAppend
<1>2. CASE ~ArityRejected(chunk, values)
  <2>1. new = [k \in 1..Len(chunk) |->
                 IF taken(k) THEN ValueSegmentAppend(chunk[k], values[k]) ELSE chunk[k]]
    BY <1>2 DEF ChunkAppend
  <2> HIDE DEF new
  <2>2. ASSUME NEW k \in 1..Len(chunk)
        PROVE  /\ new[k] \in BaseSegments
               /\ \/ new[k] = chunk[k]
                  \/ /\ chunk[k] \in ValueSegments
                     /\ new[k] \in ValueSegments
                     /\ \E x \in Values : new[k].values = Append(chunk[k].values, x)
    <3>1. chunk[k] \in BaseSegments
      OBVIOUS
    <3>2. CASE taken(k)
      <4>1. /\ chunk[k].kind = "value" /\ values[k] \in Variants
            /\ type_cast[chunk[k].type][values[k]] # Throws
        BY <3>2 DEF Accepts
      <4>2. chunk[k] \in ValueSegments
        BY <3>1, <4>1, SegmentKinds
      <4>3. new[k] = ValueSegmentAppend(chunk[k], values[k])
        BY <2>1, <3>2
      <4> QED
        BY <4>1, <4>2, <4>3, ValueSegmentAppendType DEF BaseSegments
    <3>3. CASE ~taken(k)
      BY <2>1, <3>1, <3>3
    <3> QED
      BY <3>2, <3>3
  <2>3. new \in [1..Len(chunk) -> BaseSegments]
    BY <2>1, <2>2
  <2>4. new \in Seq(BaseSegments) /\ Len(new) = Len(chunk)
    BY <2>3, LenProperties
  <2> QED
    BY <2>2, <2>4 DEF new
<1> QED
  BY <1>1, <1>2

(* build_chunk makes a chunk of empty segments for a prefix of the columns, *)
(* for all of them unless it throws.                                        *)
LEMMA BuiltChunkProperties ==
  ASSUME col_types \in Seq(DataTypes \cup UnknownTypes)
  PROVE  /\ BuiltChunk \in Seq(BaseSegments)
         /\ Len(BuiltChunk) <= Len(col_types)
         /\ ~BuildThrows => Len(BuiltChunk) = Len(col_types)
         /\ \A k \in 1..Len(BuiltChunk) :
              /\ BuiltChunk[k] = make_value_segment(col_types[k])
              /\ make_value_segment(col_types[k]) # Throws
<1> DEFINE n == Len(col_types)
           P(k) == Buildable(k) /\ (k < n => ~Buildable(k + 1))
           built == CHOOSE k \in 0..n : P(k)
<1>1. n \in Nat /\ DOMAIN col_types = 1..n
  OBVIOUS
<1>2. \E k \in 0..n : P(k)
  <2> DEFINE bad == {k \in 1..n : ~Buildable(k)}
  <2>1. CASE bad = {}
    <3>1. Buildable(n)
      BY <1>1, <2>1 DEF Buildable
    <3> QED
      BY <1>1, <3>1
  <2>2. CASE bad # {}
    <3>1. PICK m \in bad : \A j \in bad : m <= j
      <4>1. bad \in SUBSET Nat
        BY <1>1
      <4> HIDE DEF bad
      <4> QED
        BY <2>2, <4>1, LeastNatural
    <3>2. m - 1 \in 0..n /\ m \in 1..n /\ ~Buildable((m - 1) + 1)
      BY <1>1, <3>1
    <3>3. Buildable(m - 1)
      <4>1. CASE m = 1
        BY <4>1 DEF Buildable
      <4>2. CASE m # 1
        <5>1. m - 1 \in 1..n /\ m - 1 < m
          BY <1>1, <3>2, <4>2
        <5> QED
          BY <3>1, <3>2, <5>1
      <4> QED
        BY <4>1, <4>2
    <3> QED
      BY <3>2, <3>3
  <2> QED
    BY <2>1, <2>2
<1>3. built \in 0..n /\ P(built)
  BY <1>2
<1>4. BuiltChunk = [k \in 1..built |-> make_value_segment(col_types[k])]
  BY DEF BuiltChunk
<1> HIDE DEF built
<1>5. \A k \in 1..built : make_value_segment(col_types[k]) # Throws
  BY <1>1, <1>3 DEF Buildable
<1>6. BuiltChunk \in [1..built -> BaseSegments]
  BY <1>4, <1>5, make_value_segmentType
<1>7. BuiltChunk \in Seq(BaseSegments) /\ Len(BuiltChunk) = built
  BY <1>1, <1>3, <1>6, LenProperties
<1>8. ASSUME ~BuildThrows PROVE built = n
  <2>1. ~(built < n)
    <3> SUFFICES ASSUME built < n PROVE FALSE
      OBVIOUS
    <3>1. 1..built + 1 \subseteq 1..n
      BY <1>1, <1>3
    <3>2. Buildable(built + 1)
      BY <1>1, <1>8, <3>1 DEF BuildThrows, Buildable
    <3> QED
      BY <1>3, <3>2
  <2>2. built \in 0..n
    BY <1>3
  <2> HIDE DEF n
  <2> QED
    BY <1>1, <2>1, <2>2
<1>9. Len(BuiltChunk) <= Len(col_types)
  BY <1>1, <1>3, <1>7
<1>10. \A k \in 1..Len(BuiltChunk) :
         BuiltChunk[k] = make_value_segment(col_types[k]) /\ make_value_segment(col_types[k]) # Throws
  BY <1>4, <1>5, <1>7
<1> QED
  BY <1>7, <1>8, <1>9, <1>10

-----------------------------------------------------------------------------
(* Type correctness                                                        *)

(* TypeInv holds of a new table.                                           *)
LEMMA TypeInit == Init => TypeInv
<1> SUFFICES ASSUME Init PROVE TypeInv
  OBVIOUS
<1>1. << << >> >> \in Seq(Seq(BaseSegments)) /\ << << >> >> # << >>
  OBVIOUS
<1>2. TypeOK
  BY <1>1, TableAssumption DEF Init, TypeOK
<1>3. Shape
  BY TableAssumption DEF Init, Shape
<1> QED
  BY <1>2, <1>3 DEF TypeInv

(* The last chunk and the chunks before it.                                *)
LEMMA LastChunk ==
  ASSUME TypeOK
  PROVE  /\ Len(chunks) \in Nat \ {0} /\ DOMAIN chunks = 1..Len(chunks)
         /\ Len(chunks) \in DOMAIN chunks
         /\ Last(chunks) = chunks[Len(chunks)] /\ Last(chunks) \in Seq(BaseSegments)
BY DEF TypeOK, Last

(* The chunks after append: those in front are as before, and what          *)
(* Chunk::append made of the last or of a new one comes after them.         *)
LEMMA AppendCases ==
  ASSUME TypeOK, NEW values \in Rows, append(values)
  PROVE  \/ chunks' = chunks
         \/ /\ LastChunkFull /\ ~SizeCrashes(Last(chunks)) /\ Len(chunks) < MaxChunks
            /\ \/ chunks' = Append(chunks, BuiltChunk)
               \/ chunks' = Append(chunks, ChunkAppend(BuiltChunk, values))
         \/ /\ ~LastChunkFull /\ ~SizeCrashes(Last(chunks))
            /\ chunks' = [chunks EXCEPT ![Len(chunks)] = ChunkAppend(Last(chunks), values)]
<1> DEFINE n == Len(chunks)
           new == ChunkAppend(Last(chunks), values)
<1>1. chunks \in Seq(Seq(BaseSegments)) /\ n \in Nat \ {0} /\ Last(chunks) \in Seq(BaseSegments)
  BY LastChunk DEF TypeOK
<1>2. new \in Seq(BaseSegments)
  BY <1>1, ChunkAppendProperties, TableAssumption
<1>3. Append(SubSeq(chunks, 1, n - 1), new) = [chunks EXCEPT ![n] = new]
  <2> HIDE DEF new
  <2> QED
    BY <1>1, <1>2, ReplaceLast
<1> QED
  BY <1>3 DEF append, AppendTo

(* What a finished task can hold.                                          *)
LEMMA compress_segmentType ==
  ASSUME NEW old_segment \in BaseSegments, NEW type,
         type \in DataTypes => CastSucceeds(old_segment, type),
         NEW outcome \in compress_segment(old_segment, type)
  PROVE  /\ outcome \in Tasks
         /\ outcome.state \in {"done", "threw"}
         /\ outcome.state = "done" =>
              \/ type \notin DataTypes /\ ~IS_DEBUG /\ outcome.segment = NullSegment
              \/ /\ type \in DataTypes /\ old_segment \in ValueSegments
                 /\ old_segment.values \in Seq(Values)
                 /\ \E w \in WidthChoices(Cardinality(set_dict(old_segment.values))) :
                      w \in Widths /\ outcome.segment = DictionarySegment(type, old_segment.values, w)
<1>1. NullSegment \in BaseSegments
  BY DEF BaseSegments
<1>2. CASE type \notin DataTypes
  <2>1. outcome = [state |-> IF IS_DEBUG THEN "threw" ELSE "done", segment |-> NullSegment]
    BY <1>2 DEF compress_segment
  <2>2. CASE IS_DEBUG
    BY <1>1, <2>1, <2>2 DEF Tasks
  <2>3. CASE ~IS_DEBUG
    BY <1>1, <1>2, <2>1, <2>3 DEF Tasks
  <2> QED
    BY <2>2, <2>3
<1>3. CASE type \in DataTypes
  <2> DEFINE widths == WidthChoices(Cardinality(set_dict(old_segment.values)))
  <2>1. old_segment \in ValueSegments /\ old_segment.values \in Seq(Values)
    BY <1>3, SegmentKinds DEF CastSucceeds, ValueSegments
  <2>2. widths \subseteq Widths
    BY DEF WidthChoices
  <2>3. \/ \E w \in widths : outcome = [state |-> "done", segment |-> DictionarySegment(type, old_segment.values, w)]
        \/ outcome = [state |-> "threw", segment |-> NullSegment]
    BY <1>3 DEF compress_segment
  <2> HIDE DEF widths
  <2>4. CASE outcome = [state |-> "threw", segment |-> NullSegment]
    BY <1>1, <2>4 DEF Tasks
  <2>5. ASSUME NEW w \in widths,
               outcome = [state |-> "done", segment |-> DictionarySegment(type, old_segment.values, w)]
        PROVE  /\ outcome \in Tasks /\ outcome.state = "done" /\ w \in Widths
               /\ outcome.segment = DictionarySegment(type, old_segment.values, w)
    <3>1. DictionarySegment(type, old_segment.values, w) \in BaseSegments
      BY <1>3, <2>1, <2>2, DictionarySegmentType DEF BaseSegments
    <3> QED
      BY <2>2, <2>5, <3>1 DEF Tasks
  <2> QED
    BY <1>3, <2>1, <2>3, <2>4, <2>5 DEF widths
<1> QED
  BY <1>2, <1>3

(* add_column preserves TypeInv, also when the type is unknown.            *)
LEMMA TypeAddColumn ==
  ASSUME TypeInv, NEW name \in Names, NEW type \in DataTypes \cup UnknownTypes, add_column(name, type)
  PROVE  TypeInv'
<1> USE DEF TypeInv
<1>1. /\ col_names' \in Seq(Names) /\ col_types' \in Seq(DataTypes \cup UnknownTypes)
      /\ Len(col_names') = Len(col_names) + 1 /\ Len(col_types') = Len(col_types) + 1
      /\ Len(col_types') <= MaxColumns
  BY TableAssumption DEF add_column, TypeOK
<1>2. pc = "idle" /\ UNCHANGED call_vars /\ result' \in {"ok", "threw"}
  BY DEF add_column, Ready
<1>3. \/ chunks' = chunks
      \/ \E segment \in BaseSegments :
           chunks' = [chunks EXCEPT ![Len(chunks)] = Append(Last(chunks), segment)]
  BY make_value_segmentType DEF add_column, Last
<1>4. /\ chunks' \in Seq(Seq(BaseSegments)) /\ Len(chunks') = Len(chunks)
      /\ \A c \in 1..Len(chunks) : Len(chunks'[c]) <= Len(chunks[c]) + 1
  <2>1. CASE chunks' = chunks
    BY <2>1 DEF TypeOK
  <2>2. ASSUME NEW segment \in BaseSegments,
               chunks' = [chunks EXCEPT ![Len(chunks)] = Append(Last(chunks), segment)]
        PROVE  <1>4
    <3> DEFINE e == Append(Last(chunks), segment)
    <3>1. e \in Seq(BaseSegments) /\ Len(e) = Len(Last(chunks)) + 1
      BY LastChunk
    <3> HIDE DEF e
    <3>2. chunks' = [chunks EXCEPT ![Len(chunks)] = e]
      BY <2>2 DEF e
    <3> QED
      BY <3>1, <3>2, LastChunk DEF TypeOK
  <2> QED
    BY <1>3, <2>1, <2>2
<1>5. chunks' # << >>
  BY <1>4, LastChunk DEF TypeOK
<1>6. TypeOK'
  BY <1>1, <1>2, <1>4, <1>5 DEF TypeOK, call_vars
<1>7. \A c \in DOMAIN chunks' : Len(chunks'[c]) <= Len(col_types')
  <2>1. DOMAIN chunks' = 1..Len(chunks) /\ DOMAIN chunks = 1..Len(chunks)
    BY <1>4, LastChunk
  <2>2. \A c \in 1..Len(chunks) : Len(chunks'[c]) \in Nat /\ Len(chunks[c]) \in Nat
    BY <1>4 DEF TypeOK
  <2>3. \A c \in 1..Len(chunks) : Len(chunks[c]) <= Len(col_types)
    BY <2>1 DEF Shape
  <2>4. Len(col_types) \in Nat
    BY DEF TypeOK
  <2> QED
    BY <1>1, <1>4, <2>1, <2>2, <2>3, <2>4
<1>8. Shape'
  BY <1>2, <1>4, <1>7 DEF Shape, call_vars
<1> QED
  BY <1>6, <1>8

(* append preserves TypeInv, also when build_chunk or Chunk::append        *)
(* throws.                                                                 *)
LEMMA TypeAppend ==
  ASSUME TypeInv, NEW values \in Rows, append(values)
  PROVE  TypeInv'
<1> USE DEF TypeInv
<1>1. values \in Seq(Variants)
  BY TableAssumption
<1>2. pc = "idle" /\ UNCHANGED <<schema_vars, call_vars>> /\ result' \in {"ok", "threw", "crashed"}
  BY DEF append, AppendTo, Ready, Crash
<1>3. BuiltChunk \in Seq(BaseSegments) /\ Len(BuiltChunk) <= Len(col_types)
  BY BuiltChunkProperties DEF TypeOK
<1>4. /\ ChunkAppend(BuiltChunk, values) \in Seq(BaseSegments)
      /\ Len(ChunkAppend(BuiltChunk, values)) = Len(BuiltChunk)
  BY <1>1, <1>3, ChunkAppendProperties
<1>5. /\ ChunkAppend(Last(chunks), values) \in Seq(BaseSegments)
      /\ Len(ChunkAppend(Last(chunks), values)) = Len(Last(chunks))
  BY <1>1, ChunkAppendProperties, LastChunk
<1>6. /\ chunks' \in Seq(Seq(BaseSegments)) /\ Len(chunks') >= Len(chunks) /\ Len(chunks') <= MaxChunks
      /\ \A c \in 1..Len(chunks') : Len(chunks'[c]) <= Len(col_types)
  <2>1. CASE chunks' = chunks
    BY <2>1, LastChunk DEF TypeOK, Shape
  <2>2. ASSUME NEW e \in Seq(BaseSegments), Len(e) <= Len(col_types), Len(chunks) < MaxChunks,
               chunks' = Append(chunks, e)
        PROVE  <1>6
    <3>1. chunks \in Seq(Seq(BaseSegments)) /\ Len(chunks) \in Nat
      BY DEF TypeOK
    <3>2. \A c \in 1..Len(chunks) : Len(chunks[c]) <= Len(col_types)
      BY LastChunk DEF Shape
    <3>3. /\ chunks' \in Seq(Seq(BaseSegments)) /\ Len(chunks') = Len(chunks) + 1
          /\ \A c \in 1..Len(chunks) : chunks'[c] = chunks[c]
          /\ chunks'[Len(chunks) + 1] = e
      BY <2>2, <3>1, AppendProperties
    <3>4. \A c \in 1..Len(chunks') : c \in 1..Len(chunks) \/ c = Len(chunks) + 1
      BY <3>1, <3>3
    <3>5. \A c \in 1..Len(chunks') : Len(chunks'[c]) <= Len(col_types)
      BY <2>2, <3>2, <3>3, <3>4
    <3> QED
      BY <2>2, <3>1, <3>3, <3>5, TableAssumption
  <2>3. ASSUME NEW e \in Seq(BaseSegments), Len(e) = Len(Last(chunks)),
               chunks' = [chunks EXCEPT ![Len(chunks)] = e]
        PROVE  <1>6
    BY <2>3, LastChunk DEF TypeOK, Shape
  <2> QED
    BY <1>3, <1>4, <1>5, <2>1, <2>2, <2>3, AppendCases
<1>7. chunks' # << >>
  BY <1>6, LastChunk DEF TypeOK
<1>8. TypeOK'
  BY <1>2, <1>6, <1>7, LastChunk DEF TypeOK, call_vars, schema_vars
<1>9. Shape'
  BY <1>2, <1>6, <1>8, LastChunk DEF Shape, TypeOK, call_vars, schema_vars
<1> QED
  BY <1>8, <1>9

(* The start of compress_chunk preserves TypeInv.                          *)
LEMMA TypeCompressChunk ==
  ASSUME TypeInv, NEW chunk_id \in 0..MaxChunks, compress_chunk(chunk_id)
  PROVE  TypeInv'
<1> USE DEF TypeInv
<1>1. CASE chunk_id >= Len(chunks)
  BY <1>1 DEF compress_chunk, TypeOK, Shape, call_vars, schema_vars, Ready
<1>2. CASE ~(chunk_id >= Len(chunks))
  <2> DEFINE n == chunk_column_count(chunks[chunk_id + 1])
  <2>1. PICK policy \in [1..n -> Policies] :
          futures' = [k \in DOMAIN policy |-> [state |-> policy[k], segment |-> NullSegment]]
    BY <1>2 DEF compress_chunk
  <2>2. /\ pc' = "collect" /\ target' = chunk_id + 1 /\ dict_chunk' = << >>
        /\ UNCHANGED <<schema_vars, chunks, result>>
    BY <1>2 DEF compress_chunk
  <2>3. target' \in 1..Len(chunks)
    BY <1>2, <2>2, TableAssumption, LastChunk
  <2>4. n \in Nat
    <3>1. chunks[target'] \in Seq(BaseSegments)
      BY <2>3, LastChunk DEF TypeOK
    <3> QED
      BY <2>2, <3>1, ColumnCount
  <2> HIDE DEF n
  <2>5. futures' \in [1..n -> Tasks]
    BY <2>1 DEF Tasks, Policies, BaseSegments
  <2>6. futures' \in Seq(Tasks) /\ Len(futures') = n
    BY <2>4, <2>5, LenProperties
  <2>7. TypeOK'
    BY <2>2, <2>3, <2>6, LastChunk DEF TypeOK, schema_vars
  <2>8. Shape'
    <3>1. Len(futures') = chunk_column_count(chunks'[target'])
      BY <2>2, <2>6 DEF n
    <3>2. Len(dict_chunk') <= Len(futures')
      BY <2>2, <2>4, <2>6
    <3> QED
      BY <2>2, <3>1, <3>2 DEF Shape, schema_vars
  <2> QED
    BY <2>7, <2>8
<1> QED
  BY <1>1, <1>2

(* A task works on a segment of the chunk that is being compressed.        *)
LEMMA TaskSegment ==
  ASSUME TypeInv, Running, NEW k \in DOMAIN futures
  PROVE  /\ target \in DOMAIN chunks /\ k \in 1..Len(chunks[target]) /\ k \in DOMAIN col_types
         /\ chunks[target][k] \in BaseSegments
<1> USE DEF TypeInv
<1>1. target \in 1..Len(chunks) /\ target \in DOMAIN chunks
  BY LastChunk DEF TypeOK, Running
<1>2. chunks[target] \in Seq(BaseSegments) /\ Len(chunks[target]) \in Nat
  BY <1>1 DEF TypeOK
<1>3. Len(futures) <= Len(chunks[target])
  BY <1>2, ColumnCount DEF Shape, Running
<1>4. k \in 1..Len(futures) /\ Len(futures) \in Nat /\ Len(col_types) \in Nat
  BY DEF TypeOK
<1>5. Len(chunks[target]) <= Len(col_types)
  BY <1>1 DEF Shape
<1>6. k \in 1..Len(chunks[target]) /\ k \in 1..Len(col_types)
  BY <1>2, <1>3, <1>4, <1>5
<1> QED
  BY <1>1, <1>2, <1>6 DEF TypeOK

(* A task that runs either crashes or ends in one of its outcomes.         *)
LEMMA run_taskCases ==
  ASSUME TypeInv, NEW k \in 1..MaxColumns, run_task(k)
  PROVE  /\ k \in DOMAIN futures /\ Running
         /\ UNCHANGED <<schema_vars, chunks, pc, target, dict_chunk>>
         /\ \/ futures' = futures /\ result' = "crashed"
            \/ /\ result' = result
               /\ col_types[k] \in DataTypes => CastSucceeds(chunks[target][k], col_types[k])
               /\ futures[k].state \in Policies
               /\ \E outcome \in compress_segment(chunks[target][k], col_types[k]) :
                    futures' = [futures EXCEPT ![k] = outcome]
BY DEF run_task, Crash, TaskMayRun, Policies

(* A compression task preserves TypeInv.                                   *)
LEMMA TypeRunTask ==
  ASSUME TypeInv, NEW k \in 1..MaxColumns, run_task(k)
  PROVE  TypeInv'
<1>1. /\ k \in DOMAIN futures /\ Running
      /\ UNCHANGED <<schema_vars, chunks, pc, target, dict_chunk>>
  BY run_taskCases
<1>2. futures' \in Seq(Tasks) /\ Len(futures') = Len(futures) /\ result' \in {"ok", "threw", "crashed"}
  <2>1. CASE futures' = futures /\ result' = "crashed"
    BY <2>1 DEF TypeInv, TypeOK
  <2>2. CASE /\ result' = result
             /\ col_types[k] \in DataTypes => CastSucceeds(chunks[target][k], col_types[k])
             /\ \E outcome \in compress_segment(chunks[target][k], col_types[k]) :
                  futures' = [futures EXCEPT ![k] = outcome]
    <3>1. PICK outcome \in compress_segment(chunks[target][k], col_types[k]) :
            futures' = [futures EXCEPT ![k] = outcome]
      BY <2>2
    <3>2. outcome \in Tasks
      BY <1>1, <2>2, TaskSegment, compress_segmentType
    <3> QED
      BY <1>1, <2>2, <3>1, <3>2 DEF TypeInv, TypeOK
  <2> QED
    BY <2>1, <2>2, run_taskCases
<1>3. TypeOK'
  BY <1>1, <1>2 DEF TypeInv, TypeOK, schema_vars
<1>4. Shape'
  BY <1>1, <1>2 DEF TypeInv, Shape, schema_vars
<1> QED
  BY <1>3, <1>4 DEF TypeInv

(* future.get() preserves TypeInv.                                         *)
LEMMA TypeCollect == TypeInv /\ collect => TypeInv'
<1> SUFFICES ASSUME TypeInv, collect PROVE TypeInv'
  OBVIOUS
<1> USE DEF TypeInv
<1>1. /\ UNCHANGED <<schema_vars, chunks, target, futures, result>>
      /\ NextFuture \in DOMAIN futures /\ pc' \in {"collect", "unwind"} /\ pc = "collect"
      /\ \/ dict_chunk' = dict_chunk
         \/ dict_chunk' = Append(dict_chunk, futures[NextFuture].segment)
  BY DEF collect
<1>2. NextFuture \in 1..Len(futures) /\ futures[NextFuture].segment \in BaseSegments
  <2>1. futures \in Seq(Tasks)
    BY DEF TypeOK
  <2>2. NextFuture \in 1..Len(futures) /\ futures[NextFuture] \in Tasks
    BY <1>1, <2>1
  <2> QED
    BY <2>2 DEF Tasks
<1>3. dict_chunk' \in Seq(BaseSegments) /\ Len(dict_chunk') <= Len(futures)
  <2>1. dict_chunk \in Seq(BaseSegments) /\ Len(dict_chunk) <= Len(futures)
    BY <1>1 DEF TypeOK, Shape
  <2> QED
    BY <1>1, <1>2, <2>1 DEF NextFuture
<1>4. TypeOK'
  BY <1>1, <1>3 DEF TypeOK, schema_vars
<1>5. Shape'
  BY <1>1, <1>3 DEF Shape, schema_vars
<1> QED
  BY <1>4, <1>5

(* The exception of a task preserves TypeInv.                              *)
LEMMA TypeUnwind == TypeInv /\ unwind => TypeInv'
<1> SUFFICES ASSUME TypeInv, unwind PROVE TypeInv'
  OBVIOUS
<1>1. TypeOK'
  BY DEF TypeInv, TypeOK, unwind, EndCall, schema_vars
<1>2. Shape'
  BY DEF TypeInv, Shape, unwind, EndCall, schema_vars
<1> QED
  BY <1>1, <1>2 DEF TypeInv

(* The end of compress_chunk preserves TypeInv.                            *)
LEMMA TypeReplaceChunk == TypeInv /\ replace_chunk => TypeInv'
<1> SUFFICES ASSUME TypeInv, replace_chunk PROVE TypeInv'
  OBVIOUS
<1> USE DEF TypeInv
<1>1. /\ chunks' = [chunks EXCEPT ![target] = dict_chunk] /\ pc = "collect" /\ pc' = "idle"
      /\ target' = 0 /\ futures' = << >> /\ dict_chunk' = << >> /\ result' = "ok"
      /\ UNCHANGED schema_vars
  BY DEF replace_chunk, EndCall
<1>2. target \in 1..Len(chunks) /\ dict_chunk \in Seq(BaseSegments)
  BY <1>1, LastChunk DEF TypeOK
<1>3. Len(dict_chunk) <= Len(col_types)
  <2>1. Len(dict_chunk) <= chunk_column_count(chunks[target])
    BY <1>1 DEF Shape
  <2>2. chunks[target] \in Seq(BaseSegments) /\ Len(chunks[target]) \in Nat
    BY <1>2 DEF TypeOK
  <2>3. chunk_column_count(chunks[target]) <= Len(chunks[target]) /\ chunk_column_count(chunks[target]) \in Nat
    BY <2>2, ColumnCount
  <2>4. Len(chunks[target]) <= Len(col_types) /\ Len(col_types) \in Nat
    BY <1>2, LastChunk DEF Shape, TypeOK
  <2>5. Len(dict_chunk) \in Nat
    BY <1>2
  <2> QED
    BY <2>1, <2>2, <2>3, <2>4, <2>5
<1>4. chunks' \in Seq(Seq(BaseSegments)) /\ Len(chunks') = Len(chunks) /\ chunks' # << >>
  BY <1>1, <1>2, LastChunk DEF TypeOK
<1>5. TypeOK'
  BY <1>1, <1>4 DEF TypeOK, schema_vars
<1>6. \A c \in DOMAIN chunks' : Len(chunks'[c]) <= Len(col_types)
  BY <1>1, <1>2, <1>3 DEF TypeOK, Shape
<1>7. Shape'
  BY <1>1, <1>4, <1>6 DEF Shape, schema_vars
<1> QED
  BY <1>5, <1>7

(* TypeInv is inductive.                                                   *)
LEMMA TypeStep == TypeInv /\ [Next]_vars => TypeInv'
<1> SUFFICES ASSUME TypeInv, [Next]_vars PROVE TypeInv'
  OBVIOUS
<1>1. CASE UNCHANGED vars
  BY <1>1 DEF TypeInv, TypeOK, Shape, vars, call_vars, schema_vars
<1>2. CASE Next
  BY <1>1, <1>2, TypeAddColumn, TypeAppend, TypeCompressChunk, TypeRunTask, TypeCollect, TypeUnwind,
     TypeReplaceChunk DEF Next, CallerStep, crashed
<1> QED
  BY <1>1, <1>2

(* TypeOK holds in every reachable state, whatever the caller does.         *)
THEOREM TypeCorrect == Spec => []TypeOK
<1>1. TypeInv => TypeOK
  BY DEF TypeInv
<1> QED
  BY <1>1, TypeInit, TypeStep, PTL DEF Spec

-----------------------------------------------------------------------------
(* What a segment stores                                                   *)

(* The values a reader gets, for each of the three kinds of segment.       *)
LEMMA StoredProperties ==
  ASSUME NEW segment \in BaseSegments
  PROVE  /\ Len(Stored(segment)) \in Nat
         /\ DOMAIN Stored(segment) = 1..Len(Stored(segment))
         /\ segment \in ValueSegments =>
              segment.kind = "value" /\ Stored(segment) = segment.values /\ segment.values \in Seq(Values)
         /\ segment.kind = "null" => Stored(segment) = << >>
         /\ segment.kind # "null" => SegmentSize(segment) = Len(Stored(segment))
<1>1. CASE segment \in ValueSegments
  <2>1. segment.kind = "value" /\ segment.values \in Seq(Values)
    BY <1>1 DEF ValueSegments
  <2>2. Stored(segment) = segment.values /\ SegmentSize(segment) = Len(segment.values)
    BY <2>1 DEF Stored, Decode, SegmentSize
  <2> QED
    BY <2>1, <2>2
<1>2. CASE segment \in DictionarySegments
  <2>1. segment.kind = "dict" /\ Len(segment.attribute_vector) \in Nat
    BY <1>2 DEF DictionarySegments
  <2> DEFINE n == Len(segment.attribute_vector)
  <2>2. /\ Stored(segment) =
             [i \in 1..n |-> value_by_value_id(segment, segment.attribute_vector[i])]
        /\ SegmentSize(segment) = n
    BY <2>1 DEF Stored, Decode, SegmentSize
  <2> HIDE DEF n
  <2>3. Len(Stored(segment)) = n /\ DOMAIN Stored(segment) = 1..n
    BY <2>1, <2>2 DEF n
  <2>4. segment \notin ValueSegments
    BY <2>1 DEF ValueSegments
  <2> QED
    BY <2>1, <2>2, <2>3, <2>4 DEF n
<1>3. CASE segment = NullSegment
  <2>1. segment.kind = "null" /\ Stored(segment) = << >> /\ segment \notin ValueSegments
    BY <1>3 DEF NullSegment, Stored, ValueSegments
  <2> QED
    BY <2>1
<1> QED
  BY <1>1, <1>2, <1>3 DEF BaseSegments

(* A fresh segment stores nothing.                                         *)
LEMMA FreshSegment ==
  ASSUME NEW type, make_value_segment(type) # Throws
  PROVE  /\ make_value_segment(type).kind = "null" <=> ~IS_DEBUG /\ type \notin DataTypes
         /\ make_value_segment(type).kind # "dict"
         /\ Len(Stored(make_value_segment(type))) = 0
<1>1. CASE type \in DataTypes /\ make_value_segment(type) = ValueSegment(type)
  BY <1>1 DEF ValueSegment, Stored, Decode
<1>2. CASE type \notin DataTypes /\ ~IS_DEBUG /\ make_value_segment(type) = NullSegment
  BY <1>2 DEF NullSegment, Stored
<1> QED
  BY <1>1, <1>2, make_value_segmentType

(* Chunk::append and the stored values: a column is unchanged or a value   *)
(* segment that stores one value more at its end.                          *)
LEMMA ChunkAppendStores ==
  ASSUME NEW chunk \in Seq(BaseSegments), NEW values \in Seq(Variants), NEW k \in 1..Len(chunk)
  PROVE  LET new == ChunkAppend(chunk, values)[k] IN
         /\ new.kind = chunk[k].kind
         /\ \/ new = chunk[k]
            \/ /\ chunk[k].kind = "value"
               /\ Len(Stored(new)) = Len(Stored(chunk[k])) + 1
               /\ \A i \in 1..Len(Stored(chunk[k])) : Stored(new)[i] = Stored(chunk[k])[i]
<1> DEFINE new == ChunkAppend(chunk, values)[k]
           old == chunk[k]
<1>1. old \in BaseSegments
  OBVIOUS
<1>2. \/ new = old
      \/ /\ old \in ValueSegments /\ new \in ValueSegments
         /\ \E x \in Values : new.values = Append(old.values, x)
  BY ChunkAppendProperties
<1> HIDE DEF new, old
<1>3. ASSUME old \in ValueSegments, new \in ValueSegments, NEW x \in Values,
             new.values = Append(old.values, x)
      PROVE  /\ new.kind = "value" /\ old.kind = "value"
             /\ Len(Stored(new)) = Len(Stored(old)) + 1
             /\ \A i \in 1..Len(Stored(old)) : Stored(new)[i] = Stored(old)[i]
  <2>1. /\ old.kind = "value" /\ Stored(old) = old.values /\ old.values \in Seq(Values)
        /\ new.kind = "value" /\ Stored(new) = new.values
    BY <1>3, StoredProperties DEF BaseSegments
  <2> QED
    BY <1>3, <2>1
<1> QED
  BY <1>2, <1>3 DEF new, old

(* A dictionary segment is the compressed form of the value segment it was  *)
(* made from.                                                              *)
LEMMA DictionaryCompresses ==
  ASSUME NEW type \in DataTypes, NEW old \in ValueSegments,
         NEW w \in WidthChoices(Cardinality(set_dict(old.values))), w \in Widths
  PROVE  Compresses(DictionarySegment(type, old.values, w), old)
<1> DEFINE new == DictionarySegment(type, old.values, w)
<1>1. old.kind = "value" /\ old.values \in Seq(Values) /\ Stored(old) = old.values
  BY StoredProperties DEF BaseSegments
<1>2. new \in DictionarySegments /\ Len(new.attribute_vector) = Len(old.values)
  BY <1>1, DictionarySegmentType
<1>3. NaN \notin Values => Decode(new) = old.values
  BY <1>1, RoundTrip, RangeFinite
<1> HIDE DEF new
<1>4. new.kind = "dict" /\ Stored(new) = Decode(new)
  BY <1>2 DEF DictionarySegments, Stored
<1>5. SegmentSize(new) = Len(old.values)
  BY <1>2, <1>4 DEF SegmentSize
<1>6. Len(Stored(new)) = Len(Stored(old))
  BY <1>1, <1>2, <1>4, <1>5, StoredProperties DEF BaseSegments
<1> QED
  BY <1>1, <1>3, <1>4, <1>6 DEF Compresses, new

-----------------------------------------------------------------------------
(* What a step does to the chunks                                          *)

(* add_column with a known type, or with any type in a release build.      *)
AddsColumn ==
  \E type \in DataTypes \cup UnknownTypes :
    /\ make_value_segment(type) # Throws
    /\ col_types' = Append(col_types, type)
    /\ chunks' = [chunks EXCEPT ![Len(chunks)] = Append(chunks[Len(chunks)], make_value_segment(type))]

(* add_column with an unknown type in a debug build.                       *)
RejectsColumn ==
  /\ IS_DEBUG /\ chunks' = chunks
  /\ \E type \in DataTypes \cup UnknownTypes : col_types' = Append(col_types, type)

(* append when the last chunk is full.                                     *)
StartsChunk ==
  /\ LastChunkFull /\ ~SizeCrashes(Last(chunks)) /\ UNCHANGED col_types
  /\ IS_DEBUG \/ ~BuildThrows
  /\ \/ chunks' = Append(chunks, BuiltChunk)
     \/ \E values \in Rows : chunks' = Append(chunks, ChunkAppend(BuiltChunk, values))

(* append when it is not.                                                  *)
ExtendsLast ==
  /\ ~LastChunkFull /\ ~SizeCrashes(Last(chunks)) /\ UNCHANGED col_types
  /\ \E values \in Rows :
       chunks' = [chunks EXCEPT ![Len(chunks)] = ChunkAppend(chunks[Len(chunks)], values)]

(* The end of compress_chunk.                                              *)
ReplacesChunk ==
  /\ target \in 1..Len(chunks) /\ UNCHANGED col_types
  /\ chunks' = [chunks EXCEPT ![target] = dict_chunk]
  /\ Len(dict_chunk) = Len(chunks[target])
  /\ \A k \in 1..Len(dict_chunk) : Compresses(dict_chunk[k], chunks[target][k])

LeavesChunks == UNCHANGED <<chunks, col_types>>

(* A release build resolves every type, if only to a null pointer.         *)
LEMMA ReleaseBuilds ==
  /\ \A type : make_value_segment(type) = Throws => IS_DEBUG
  /\ BuildThrows => IS_DEBUG
BY ThrowsAssumption DEF BuildThrows, make_value_segment

(* Every step does one of these to the chunks; only a compress_chunk in    *)
(* progress replaces one.                                                  *)
LEMMA StepEffect ==
  ASSUME MaxColumns < U16, ContentInv, [Next]_vars
  PROVE  \/ LeavesChunks
         \/ pc = "idle" /\ (AddsColumn \/ RejectsColumn \/ StartsChunk \/ ExtendsLast)
         \/ ReplacesChunk
<1> USE DEF ContentInv, TypeInv
<1>1. CASE UNCHANGED vars
  BY <1>1 DEF vars, schema_vars, LeavesChunks
<1>2. ASSUME NEW name \in Names, NEW type \in DataTypes \cup UnknownTypes, add_column(name, type)
      PROVE  pc = "idle" /\ (AddsColumn \/ RejectsColumn)
  <2>1. CASE make_value_segment(type) = Throws
    <3>1. IS_DEBUG
      BY <2>1, ReleaseBuilds
    <3> QED
      BY <1>2, <2>1, <3>1 DEF add_column, Ready, RejectsColumn
  <2>2. CASE make_value_segment(type) # Throws
    BY <1>2, <2>2 DEF add_column, Ready, AddsColumn
  <2> QED
    BY <2>1, <2>2
<1>3. ASSUME NEW values \in Rows, append(values)
      PROVE  LeavesChunks \/ (pc = "idle" /\ (StartsChunk \/ ExtendsLast))
  <2>1. pc = "idle" /\ UNCHANGED col_types
    BY <1>3 DEF append, Ready, schema_vars
  <2> QED
    BY <1>3, <2>1, AppendCases, LastChunk, ReleaseBuilds DEF StartsChunk, ExtendsLast, LeavesChunks
<1>4. ASSUME NEW chunk_id \in 0..MaxChunks, compress_chunk(chunk_id)
      PROVE  LeavesChunks
  BY <1>4 DEF compress_chunk, LeavesChunks, schema_vars
<1>5. ASSUME NEW k \in 1..MaxColumns, run_task(k)
      PROVE  LeavesChunks
  BY <1>5 DEF run_task, LeavesChunks, schema_vars
<1>6. ASSUME collect \/ unwind \/ crashed
      PROVE  LeavesChunks
  BY <1>6 DEF collect, unwind, crashed, vars, LeavesChunks, schema_vars
<1>7. ASSUME replace_chunk
      PROVE  ReplacesChunk
  <2>1. /\ pc = "collect" /\ NextFuture \notin DOMAIN futures /\ UNCHANGED col_types
        /\ chunks' = [chunks EXCEPT ![target] = dict_chunk]
    BY <1>7 DEF replace_chunk, schema_vars
  <2>2. target \in 1..Len(chunks) /\ chunks[target] \in Seq(BaseSegments)
    BY <2>1, LastChunk DEF TypeOK
  <2>3. Len(chunks[target]) < U16
    <3>1. Len(chunks[target]) <= Len(col_types) /\ Len(col_types) <= MaxColumns
      BY <2>2, LastChunk DEF Shape, TypeOK
    <3>2. Len(chunks[target]) \in Nat /\ Len(col_types) \in Nat
      BY <2>2 DEF TypeOK
    <3> QED
      BY <3>1, <3>2, TableAssumption, WidthAssumption
  <2>4. Len(futures) = Len(chunks[target])
    BY <2>1, <2>2, <2>3, ColumnCount DEF Shape
  <2>5. Len(dict_chunk) = Len(futures)
    <3>1. futures \in Seq(Tasks) /\ dict_chunk \in Seq(BaseSegments) /\ Len(dict_chunk) <= Len(futures)
      BY <2>1 DEF TypeOK, Shape
    <3>2. Len(futures) \in Nat /\ Len(dict_chunk) \in Nat /\ DOMAIN futures = 1..Len(futures)
      BY <3>1
    <3> QED
      BY <2>1, <3>1, <3>2 DEF NextFuture
  <2>6. \A k \in 1..Len(dict_chunk) : Compresses(dict_chunk[k], chunks[target][k])
    BY <2>1, <2>5 DEF TasksFaithful
  <2> QED
    BY <2>1, <2>2, <2>4, <2>5, <2>6 DEF ReplacesChunk
<1> QED
  BY <1>1, <1>2, <1>3, <1>4, <1>5, <1>6, <1>7 DEF Next, CallerStep

-----------------------------------------------------------------------------
(* What becomes of a column of a chunk                                     *)

Grown(new, old) ==
  /\ old.kind = "value" /\ new.kind = "value"
  /\ Len(Stored(new)) = Len(Stored(old)) + 1
  /\ \A i \in 1..Len(Stored(old)) : Stored(new)[i] = Stored(old)[i]

(* What a step makes of the segment at position k of chunk c.              *)
Fate(c, k) ==
  \/ chunks'[c][k] = chunks[c][k]
  \/ c = Len(chunks) /\ Grown(chunks'[c][k], chunks[c][k])
  \/ Compresses(chunks'[c][k], chunks[c][k])

NullAsTyped(segment, type) == segment.kind = "null" <=> ~IS_DEBUG /\ type \notin DataTypes

Fresh(segment, type) == NullAsTyped(segment, type) /\ segment.kind # "dict"

(* No chunk and no column of a chunk goes away, a column only grows or is  *)
(* compressed, and a new one is uncompressed, and null exactly when its    *)
(* type is unknown.                                                        *)
Fates ==
  /\ Len(chunks) <= Len(chunks')
  /\ \A c \in 1..Len(chunks) :
       Len(chunks[c]) <= Len(chunks'[c]) /\ \A k \in 1..Len(chunks[c]) : Fate(c, k)
  /\ \A c \in 1..Len(chunks') : \A k \in 1..Len(chunks'[c]) :
       \/ c \in 1..Len(chunks) /\ k \in 1..Len(chunks[c])
       \/ Fresh(chunks'[c][k], col_types'[k])

(* The columns of a chunk made by build_chunk are empty.                   *)
LEMMA BuiltChunkFresh ==
  ASSUME col_types \in Seq(DataTypes \cup UnknownTypes)
  PROVE  \A k \in 1..Len(BuiltChunk) :
           Fresh(BuiltChunk[k], col_types[k]) /\ Len(Stored(BuiltChunk[k])) = 0
BY BuiltChunkProperties, FreshSegment DEF Fresh, NullAsTyped

(* add_column leaves every column as it is and adds one to the last chunk. *)
LEMMA AddsColumnFates ==
  ASSUME ContentInv, AddsColumn
  PROVE  Fates
<1> DEFINE n == Len(chunks)
<1>1. PICK type \in DataTypes \cup UnknownTypes :
        /\ make_value_segment(type) # Throws
        /\ col_types' = Append(col_types, type)
        /\ chunks' = [chunks EXCEPT ![n] = Append(chunks[n], make_value_segment(type))]
  BY DEF AddsColumn
<1> DEFINE segment == make_value_segment(type)
           old == chunks[n]
           m == Len(old)
<1>2. /\ n \in Nat \ {0} /\ chunks \in Seq(Seq(BaseSegments)) /\ old \in Seq(BaseSegments)
      /\ col_types \in Seq(DataTypes \cup UnknownTypes) /\ segment \in BaseSegments
  BY <1>1, LastChunk, make_value_segmentType DEF ContentInv, TypeInv, TypeOK
<1>3. m \in Nat /\ m <= Len(col_types) /\ (~IS_DEBUG => m = Len(col_types)) /\ Len(col_types) \in Nat
  <2>1. Last(chunks) = old /\ n \in DOMAIN chunks
    BY LastChunk DEF ContentInv, TypeInv
  <2>2. m <= Len(col_types) /\ (~IS_DEBUG => m = Len(col_types))
    BY <2>1 DEF ContentInv, TypeInv, Shape, NullsAligned
  <2> QED
    BY <1>2, <2>2
<1>4. (segment.kind = "null" <=> ~IS_DEBUG /\ type \notin DataTypes) /\ segment.kind # "dict"
  BY <1>1, FreshSegment
<1>5. ~IS_DEBUG => col_types'[m + 1] = type
  BY <1>1, <1>2, <1>3
<1> HIDE DEF segment
<1>6. /\ Append(old, segment) \in Seq(BaseSegments) /\ Len(Append(old, segment)) = m + 1
      /\ \A k \in 1..m : Append(old, segment)[k] = old[k]
      /\ Append(old, segment)[m + 1] = segment
  BY <1>2, AppendProperties
<1>7. Len(chunks') = n /\ chunks'[n] = Append(old, segment)
      /\ \A c \in 1..n : c # n => chunks'[c] = chunks[c]
  BY <1>1, <1>2 DEF segment
<1> HIDE DEF n, old, m
<1>8. Fresh(segment, col_types'[m + 1])
  <2>1. CASE IS_DEBUG
    BY <1>4, <2>1 DEF Fresh, NullAsTyped
  <2>2. CASE ~IS_DEBUG
    BY <1>4, <1>5, <2>2 DEF Fresh, NullAsTyped
  <2> QED
    BY <2>1, <2>2
<1>9. \A c \in 1..n : Len(chunks[c]) <= Len(chunks'[c]) /\ \A k \in 1..Len(chunks[c]) : Fate(c, k)
  <2> SUFFICES ASSUME NEW c \in 1..n
               PROVE  /\ Len(chunks[c]) <= Len(chunks'[c])
                      /\ \A k \in 1..Len(chunks[c]) : chunks'[c][k] = chunks[c][k]
    BY DEF Fate
  <2>1. Len(chunks[c]) \in Nat
    BY <1>2 DEF n
  <2>2. CASE c = n
    <3>1. chunks[c] = old
      BY <2>2 DEF old, n
    <3> QED
      BY <1>3, <1>6, <1>7, <2>2, <3>1 DEF m
  <2>3. CASE c # n
    BY <1>7, <2>1, <2>3
  <2> QED
    BY <2>2, <2>3
<1>10. \A c \in 1..n : \A k \in 1..Len(chunks'[c]) :
         (c \in 1..n /\ k \in 1..Len(chunks[c])) \/ Fresh(chunks'[c][k], col_types'[k])
  <2> SUFFICES ASSUME NEW c \in 1..n, NEW k \in 1..Len(chunks'[c]), k \notin 1..Len(chunks[c])
               PROVE  Fresh(chunks'[c][k], col_types'[k])
    OBVIOUS
  <2>1. c = n
    BY <1>7
  <2>2. k = m + 1
    <3>1. k \in 1..m + 1 /\ k \notin 1..m
      BY <1>6, <1>7, <2>1 DEF m, old, n
    <3> QED
      BY <1>3, <3>1
  <2> QED
    BY <1>6, <1>7, <1>8, <2>1, <2>2
<1> QED
  BY <1>2, <1>7, <1>9, <1>10 DEF Fates, n

(* Steps that only replace one chunk, column by column.                    *)
LEMMA ReplacedFates ==
  ASSUME ContentInv, UNCHANGED col_types, NEW t \in 1..Len(chunks), NEW new \in Seq(BaseSegments),
         chunks' = [chunks EXCEPT ![t] = new], Len(new) = Len(chunks[t]),
         \A k \in 1..Len(new) :
           \/ new[k] = chunks[t][k]
           \/ t = Len(chunks) /\ Grown(new[k], chunks[t][k])
           \/ Compresses(new[k], chunks[t][k])
  PROVE  Fates
<1> DEFINE n == Len(chunks)
<1>1. n \in Nat \ {0} /\ chunks \in Seq(Seq(BaseSegments))
  BY LastChunk DEF ContentInv, TypeInv, TypeOK
<1>2. Len(chunks') = n /\ chunks'[t] = new /\ \A c \in 1..n : c # t => chunks'[c] = chunks[c]
  BY <1>1
<1>3. \A c \in 1..n : Len(chunks[c]) \in Nat
  BY <1>1
<1> HIDE DEF n
<1>4. \A c \in 1..n : Len(chunks[c]) = Len(chunks'[c]) /\ \A k \in 1..Len(chunks[c]) : Fate(c, k)
  <2> SUFFICES ASSUME NEW c \in 1..n
               PROVE  /\ Len(chunks[c]) = Len(chunks'[c])
                      /\ \A k \in 1..Len(chunks[c]) : Fate(c, k)
    OBVIOUS
  <2>1. CASE c = t
    BY <1>2, <2>1 DEF Fate
  <2>2. CASE c # t
    BY <1>2, <2>2 DEF Fate
  <2> QED
    BY <2>1, <2>2
<1>5. Len(chunks) <= Len(chunks')
  <2>1. n <= n
    BY <1>1
  <2>2. Len(chunks') = n
    BY <1>2
  <2> QED
    BY <2>1, <2>2, Zenon DEF n
<1>6. \A c \in 1..n : Len(chunks[c]) <= Len(chunks'[c])
  BY <1>3, <1>4
<1>7. \A c \in 1..Len(chunks') : \A k \in 1..Len(chunks'[c]) : c \in 1..n /\ k \in 1..Len(chunks[c])
  BY <1>2, <1>4
<1> HIDE DEF Fate
<1> QED
  BY <1>4, <1>5, <1>6, <1>7, Zenon DEF Fates, n

(* append extends columns of the last chunk only.                          *)
LEMMA ExtendsLastFates ==
  ASSUME ContentInv, ExtendsLast
  PROVE  Fates
<1> DEFINE n == Len(chunks)
           old == chunks[n]
<1>1. PICK values \in Rows : chunks' = [chunks EXCEPT ![n] = ChunkAppend(old, values)]
  BY DEF ExtendsLast
<1> DEFINE new == ChunkAppend(old, values)
<1>2. n \in 1..Len(chunks) /\ old \in Seq(BaseSegments) /\ values \in Seq(Variants)
  BY LastChunk, TableAssumption DEF ContentInv, TypeInv, TypeOK
<1>3. new \in Seq(BaseSegments) /\ Len(new) = Len(old)
  BY <1>2, ChunkAppendProperties
<1>4. \A k \in 1..Len(new) : new[k] = old[k] \/ Grown(new[k], old[k])
  BY <1>2, <1>3, ChunkAppendStores DEF Grown
<1>5. UNCHANGED col_types
  BY DEF ExtendsLast
<1> HIDE DEF new
<1>6. chunks' = [chunks EXCEPT ![n] = new]
  BY <1>1 DEF new
<1> QED
  BY <1>2, <1>3, <1>4, <1>5, <1>6, ReplacedFates

(* compress_chunk replaces every column of one chunk by its compressed     *)
(* form.                                                                   *)
LEMMA ReplacesChunkFates ==
  ASSUME ContentInv, ReplacesChunk
  PROVE  Fates
<1>1. dict_chunk \in Seq(BaseSegments)
  BY DEF ContentInv, TypeInv, TypeOK
<1> QED
  BY <1>1, ReplacedFates DEF ReplacesChunk

(* append leaves every chunk as it is when it starts a new one.            *)
LEMMA StartsChunkFates ==
  ASSUME ContentInv, StartsChunk
  PROVE  Fates
<1> DEFINE n == Len(chunks)
<1>1. n \in Nat \ {0} /\ chunks \in Seq(Seq(BaseSegments)) /\ col_types \in Seq(DataTypes \cup UnknownTypes)
  BY LastChunk DEF ContentInv, TypeInv, TypeOK
<1>2. PICK new \in Seq(BaseSegments) :
        /\ chunks' = Append(chunks, new)
        /\ \A k \in 1..Len(new) : Fresh(new[k], col_types[k])
  <2>1. /\ BuiltChunk \in Seq(BaseSegments)
        /\ \A k \in 1..Len(BuiltChunk) : Fresh(BuiltChunk[k], col_types[k])
    BY <1>1, BuiltChunkProperties, BuiltChunkFresh
  <2>2. CASE chunks' = Append(chunks, BuiltChunk)
    BY <2>1, <2>2
  <2>3. ASSUME NEW values \in Rows, chunks' = Append(chunks, ChunkAppend(BuiltChunk, values))
        PROVE  \E chunk \in Seq(BaseSegments) :
                 /\ chunks' = Append(chunks, chunk)
                 /\ \A k \in 1..Len(chunk) : Fresh(chunk[k], col_types[k])
    <3> DEFINE new == ChunkAppend(BuiltChunk, values)
    <3>1. values \in Seq(Variants)
      BY TableAssumption
    <3>2. new \in Seq(BaseSegments) /\ Len(new) = Len(BuiltChunk)
      BY <2>1, <3>1, ChunkAppendProperties
    <3>3. \A k \in 1..Len(BuiltChunk) : new[k].kind = BuiltChunk[k].kind
      BY <2>1, <3>1, ChunkAppendStores
    <3> HIDE DEF new
    <3>4. \A k \in 1..Len(new) : Fresh(new[k], col_types[k])
      BY <2>1, <3>2, <3>3 DEF Fresh, NullAsTyped
    <3> QED
      BY <2>3, <3>2, <3>4 DEF new
  <2> QED
    BY <2>2, <2>3 DEF StartsChunk
<1>3. UNCHANGED col_types
  BY DEF StartsChunk
<1>4. /\ Len(chunks') = n + 1 /\ chunks'[n + 1] = new
      /\ \A c \in 1..n : chunks'[c] = chunks[c]
  BY <1>1, <1>2, AppendProperties
<1>5. \A c \in 1..n : Len(chunks[c]) \in Nat
  BY <1>1
<1> HIDE DEF n
<1>6. \A c \in 1..n + 1 : c \in 1..n \/ c = n + 1
  BY <1>1
<1> QED
  BY <1>1, <1>2, <1>3, <1>4, <1>5, <1>6 DEF Fates, Fate, n

(* Every step leaves every column of every chunk one of its fates.         *)
LEMMA StepFates ==
  ASSUME MaxColumns < U16, ContentInv, [Next]_vars
  PROVE  Fates
<1>1. CASE chunks' = chunks
  <2>1. chunks \in Seq(Seq(BaseSegments)) /\ Len(chunks) \in Nat
    BY DEF ContentInv, TypeInv, TypeOK
  <2>2. \A c \in 1..Len(chunks) : Len(chunks[c]) \in Nat
    BY <2>1
  <2> QED
    BY <1>1, <2>1, <2>2 DEF Fates, Fate
<1> QED
  BY <1>1, StepEffect, AddsColumnFates, StartsChunkFates, ExtendsLastFates, ReplacesChunkFates
     DEF LeavesChunks, RejectsColumn

-----------------------------------------------------------------------------
(* The invariant                                                           *)

(* ContentInv holds of a new table.                                        *)
LEMMA ContentInit == Init => ContentInv
<1> SUFFICES ASSUME Init PROVE ContentInv
  OBVIOUS
<1>1. NullsAligned
  BY DEF Init, NullsAligned, Last
<1>2. TasksFaithful
  BY DEF Init, TasksFaithful
<1> QED
  BY <1>1, <1>2, TypeInit DEF ContentInv

(* The task of column k, once done, holds the compressed form of it.       *)
LEMMA OutcomeCompresses ==
  ASSUME ContentInv, Running, NEW k \in DOMAIN futures,
         col_types[k] \in DataTypes => CastSucceeds(chunks[target][k], col_types[k]),
         NEW outcome \in compress_segment(chunks[target][k], col_types[k]), outcome.state = "done"
  PROVE  Compresses(outcome.segment, chunks[target][k])
<1> DEFINE old == chunks[target][k]
<1>1. target \in DOMAIN chunks /\ k \in 1..Len(chunks[target]) /\ old \in BaseSegments
  BY TaskSegment DEF ContentInv
<1>2. \/ col_types[k] \notin DataTypes /\ ~IS_DEBUG /\ outcome.segment = NullSegment
      \/ /\ col_types[k] \in DataTypes /\ old \in ValueSegments
         /\ \E w \in WidthChoices(Cardinality(set_dict(old.values))) :
              w \in Widths /\ outcome.segment = DictionarySegment(col_types[k], old.values, w)
  BY <1>1, compress_segmentType
<1>3. CASE col_types[k] \notin DataTypes /\ ~IS_DEBUG /\ outcome.segment = NullSegment
  <2>1. old.kind = "null"
    BY <1>1, <1>3 DEF ContentInv, NullsAligned
  <2>2. outcome.segment = old
    BY <1>1, <1>3, <2>1, SegmentKinds
  <2> HIDE DEF old
  <2> QED
    BY <2>1, <2>2 DEF Compresses, old
<1>4. CASE /\ col_types[k] \in DataTypes /\ old \in ValueSegments
           /\ \E w \in WidthChoices(Cardinality(set_dict(old.values))) :
                w \in Widths /\ outcome.segment = DictionarySegment(col_types[k], old.values, w)
  BY <1>4, DictionaryCompresses
<1> QED
  BY <1>2, <1>3, <1>4

(* Tasks and collected results stay faithful to the columns, in any order  *)
(* of the tasks.                                                           *)
LEMMA TasksFaithfulStep ==
  ASSUME ContentInv, [Next]_vars
  PROVE  TasksFaithful'
<1> USE DEF ContentInv, TypeInv
<1>1. CASE pc' = "idle"
  BY <1>1 DEF TasksFaithful
<1>2. CASE UNCHANGED vars
  BY <1>2 DEF TasksFaithful, vars, call_vars
<1>3. ASSUME NEW chunk_id \in 0..MaxChunks, compress_chunk(chunk_id), pc' # "idle"
      PROVE  TasksFaithful'
  <2>1. ~(chunk_id >= Len(chunks))
    BY <1>3 DEF compress_chunk, call_vars, Ready
  <2>2. PICK policy \in [1..chunk_column_count(chunks[chunk_id + 1]) -> Policies] :
          futures' = [k \in DOMAIN policy |-> [state |-> policy[k], segment |-> NullSegment]]
    BY <1>3, <2>1 DEF compress_chunk
  <2>3. dict_chunk' = << >>
    BY <1>3, <2>1 DEF compress_chunk
  <2>4. \A k \in DOMAIN futures' : futures'[k].state # "done"
    BY <2>2 DEF Policies
  <2>5. DOMAIN futures' = 1..Len(futures')
    <3>1. TypeInv'
      BY <1>3, TypeCompressChunk
    <3> QED
      BY <3>1 DEF TypeOK
  <2> QED
    BY <2>3, <2>4, <2>5 DEF TasksFaithful
<1>4. ASSUME NEW k \in 1..MaxColumns, run_task(k)
      PROVE  TasksFaithful'
  <2>1. /\ k \in DOMAIN futures /\ Running /\ pc # "idle"
        /\ chunks' = chunks /\ pc' = pc /\ target' = target /\ dict_chunk' = dict_chunk
    BY <1>4, run_taskCases DEF Running
  <2>2. CASE futures' = futures
    BY <2>1, <2>2 DEF TasksFaithful
  <2>3. CASE /\ col_types[k] \in DataTypes => CastSucceeds(chunks[target][k], col_types[k])
             /\ futures[k].state \in Policies
             /\ \E outcome \in compress_segment(chunks[target][k], col_types[k]) :
                  futures' = [futures EXCEPT ![k] = outcome]
    <3>1. PICK outcome \in compress_segment(chunks[target][k], col_types[k]) :
            futures' = [futures EXCEPT ![k] = outcome]
      BY <2>3
    <3>2. outcome.state = "done" => Compresses(outcome.segment, chunks[target][k])
      BY <2>1, <2>3, OutcomeCompresses
    <3>3. futures \in Seq(Tasks) /\ DOMAIN futures = 1..Len(futures)
      BY DEF TypeOK
    <3>4. /\ Len(futures') = Len(futures) /\ futures'[k] = outcome
          /\ \A j \in 1..Len(futures) : j # k => futures'[j] = futures[j]
      <4>1. DOMAIN futures' = DOMAIN futures
        BY <3>1
      <4> QED
        BY <1>4, <2>1, <3>1, <3>3, <4>1, TypeRunTask DEF TypeOK
    <3>5. \A j \in 1..Len(futures') :
            futures'[j].state = "done" => Compresses(futures'[j].segment, chunks[target][j])
      BY <2>1, <3>2, <3>4 DEF TasksFaithful
    <3>6. \A j \in 1..Len(dict_chunk) :
            futures'[j].state = "done" /\ dict_chunk[j] = futures'[j].segment
      <4>1. \A j \in 1..Len(dict_chunk) : j # k
        BY <2>1, <2>3 DEF TasksFaithful, Policies
      <4>2. Len(dict_chunk) <= Len(futures) /\ Len(dict_chunk) \in Nat /\ Len(futures) \in Nat
        BY <2>1, <3>3 DEF Shape, TypeOK
      <4>3. 1..Len(dict_chunk) \subseteq 1..Len(futures)
        BY <4>2
      <4> QED
        BY <2>1, <3>4, <4>1, <4>3 DEF TasksFaithful
    <3> QED
      BY <2>1, <3>5, <3>6 DEF TasksFaithful
  <2> QED
    BY <1>4, <2>2, <2>3, run_taskCases
<1>5. ASSUME collect
      PROVE  TasksFaithful'
  <2>1. /\ UNCHANGED <<chunks, target, futures>> /\ pc = "collect"
        /\ \/ dict_chunk' = dict_chunk
           \/ /\ dict_chunk' = Append(dict_chunk, futures[NextFuture].segment)
              /\ futures[NextFuture].state = "done"
              /\ NextFuture \in DOMAIN futures
    BY <1>5 DEF collect
  <2>2. CASE dict_chunk' = dict_chunk
    BY <2>1, <2>2 DEF TasksFaithful
  <2>3. CASE /\ dict_chunk' = Append(dict_chunk, futures[NextFuture].segment)
             /\ futures[NextFuture].state = "done"
             /\ NextFuture \in DOMAIN futures
    <3>1. dict_chunk \in Seq(BaseSegments) /\ futures[NextFuture].segment \in BaseSegments
      <4>1. dict_chunk \in Seq(BaseSegments) /\ futures \in Seq(Tasks)
        BY DEF TypeOK
      <4>2. futures[NextFuture] \in Tasks
        BY <2>3, <4>1
      <4> QED
        BY <4>1, <4>2 DEF Tasks
    <3>2. /\ Len(dict_chunk) \in Nat /\ Len(dict_chunk') = Len(dict_chunk) + 1
          /\ dict_chunk'[NextFuture] = futures[NextFuture].segment
          /\ \A j \in 1..Len(dict_chunk) : dict_chunk'[j] = dict_chunk[j]
      BY <2>3, <3>1, AppendProperties DEF NextFuture
    <3>3. \A j \in 1..Len(dict_chunk') : j \in 1..Len(dict_chunk) \/ j = NextFuture
      BY <3>2 DEF NextFuture
    <3>4. \A j \in 1..Len(dict_chunk') :
            futures[j].state = "done" /\ dict_chunk'[j] = futures[j].segment
      BY <2>1, <2>3, <3>2, <3>3 DEF TasksFaithful
    <3> QED
      BY <2>1, <3>4 DEF TasksFaithful
  <2> QED
    BY <2>1, <2>2, <2>3
<1>6. ASSUME \/ \E name \in Names, type \in DataTypes \cup UnknownTypes : add_column(name, type)
             \/ \E values \in Rows : append(values)
      PROVE  pc' = "idle"
  BY <1>6 DEF add_column, append, Ready, call_vars
<1>7. ASSUME unwind \/ replace_chunk
      PROVE  pc' = "idle"
  BY <1>7 DEF unwind, replace_chunk, EndCall
<1> QED
  BY <1>1, <1>2, <1>3, <1>4, <1>5, <1>6, <1>7 DEF Next, CallerStep, crashed

(* Columns keep their types.                                               *)
LEMMA TypesKept ==
  ASSUME MaxColumns < U16, ContentInv, [Next]_vars
  PROVE  /\ col_types' = col_types \/ (AddsColumn \/ RejectsColumn)
         /\ \A k \in 1..Len(col_types) : col_types'[k] = col_types[k]
<1>1. col_types' = col_types \/ (AddsColumn \/ RejectsColumn)
  BY StepEffect DEF LeavesChunks, StartsChunk, ExtendsLast, ReplacesChunk
<1>2. col_types' = col_types \/ \E type \in DataTypes \cup UnknownTypes : col_types' = Append(col_types, type)
  BY <1>1 DEF AddsColumn, RejectsColumn
<1>3. col_types \in Seq(DataTypes \cup UnknownTypes)
  BY DEF ContentInv, TypeInv, TypeOK
<1> QED
  BY <1>1, <1>2, <1>3, AppendProperties

(* In a release build the last chunk keeps all columns of the schema.       *)
LEMMA LastChunkComplete ==
  ASSUME MaxColumns < U16, ContentInv, [Next]_vars, ~IS_DEBUG
  PROVE  Len(Last(chunks')) = Len(col_types')
<1> DEFINE n == Len(chunks)
<1>1. /\ n \in Nat \ {0} /\ chunks \in Seq(Seq(BaseSegments)) /\ chunks[n] \in Seq(BaseSegments)
      /\ col_types \in Seq(DataTypes \cup UnknownTypes)
  BY LastChunk DEF ContentInv, TypeInv, TypeOK
<1>2. Len(chunks[n]) = Len(col_types)
  BY DEF ContentInv, NullsAligned, Last
<1>3. CASE LeavesChunks
  BY <1>2, <1>3 DEF LeavesChunks, Last
<1>4. ASSUME NEW t \in 1..n, NEW new \in Seq(BaseSegments), Len(new) = Len(chunks[t]),
             chunks' = [chunks EXCEPT ![t] = new], UNCHANGED col_types
      PROVE  Len(Last(chunks')) = Len(col_types')
  BY <1>1, <1>2, <1>4 DEF Last
<1>5. ASSUME NEW new \in Seq(BaseSegments), Len(new) = Len(col_types),
             chunks' = Append(chunks, new), UNCHANGED col_types
      PROVE  Len(Last(chunks')) = Len(col_types')
  BY <1>1, <1>5, AppendProperties DEF Last
<1>6. CASE AddsColumn
  <2>1. PICK type \in DataTypes \cup UnknownTypes :
          /\ make_value_segment(type) # Throws
          /\ col_types' = Append(col_types, type)
          /\ chunks' = [chunks EXCEPT ![n] = Append(chunks[n], make_value_segment(type))]
    BY <1>6 DEF AddsColumn
  <2> DEFINE segment == make_value_segment(type)
  <2>2. segment \in BaseSegments
    BY <2>1, make_value_segmentType
  <2> HIDE DEF segment
  <2> DEFINE new == Append(chunks[n], segment)
  <2>3. new \in Seq(BaseSegments) /\ Len(new) = Len(chunks[n]) + 1
    BY <1>1, <2>2
  <2>4. chunks' = [chunks EXCEPT ![n] = new]
    BY <2>1 DEF segment
  <2>5. Len(col_types') = Len(col_types) + 1
    BY <1>1, <2>1
  <2> HIDE DEF new
  <2>6. Last(chunks') = new
    BY <1>1, <2>3, <2>4 DEF Last
  <2> QED
    BY <1>2, <2>3, <2>5, <2>6
<1>7. CASE StartsChunk
  <2>1. BuiltChunk \in Seq(BaseSegments) /\ Len(BuiltChunk) = Len(col_types)
    BY <1>1, <1>7, BuiltChunkProperties DEF StartsChunk
  <2>2. \A values \in Rows : /\ ChunkAppend(BuiltChunk, values) \in Seq(BaseSegments)
                             /\ Len(ChunkAppend(BuiltChunk, values)) = Len(col_types)
    BY <2>1, ChunkAppendProperties, TableAssumption
  <2> QED
    BY <1>5, <1>7, <2>1, <2>2 DEF StartsChunk
<1>8. CASE ExtendsLast
  <2>1. \A values \in Rows : /\ ChunkAppend(chunks[n], values) \in Seq(BaseSegments)
                             /\ Len(ChunkAppend(chunks[n], values)) = Len(chunks[n])
    BY <1>1, ChunkAppendProperties, TableAssumption
  <2>2. n \in 1..n
    BY <1>1
  <2> QED
    BY <1>4, <1>8, <2>1, <2>2 DEF ExtendsLast
<1>9. CASE ReplacesChunk
  BY <1>4, <1>9 DEF ReplacesChunk, ContentInv, TypeInv, TypeOK
<1> QED
  BY <1>3, <1>6, <1>7, <1>8, <1>9, StepEffect DEF RejectsColumn

(* The null segments stay those of the columns with unknown types.         *)
LEMMA NullsAlignedStep ==
  ASSUME MaxColumns < U16, ContentInv, [Next]_vars
  PROVE  NullsAligned'
<1>1. ASSUME NEW c \in 1..Len(chunks'), NEW k \in 1..Len(chunks'[c])
      PROVE  NullAsTyped(chunks'[c][k], col_types'[k])
  <2>1. Fates
    BY StepFates
  <2>2. CASE c \in 1..Len(chunks) /\ k \in 1..Len(chunks[c])
    <3>1. c \in DOMAIN chunks /\ k \in 1..Len(col_types)
      <4>1. c \in DOMAIN chunks /\ Len(chunks[c]) \in Nat /\ Len(col_types) \in Nat
        BY <2>2 DEF ContentInv, TypeInv, TypeOK
      <4>2. Len(chunks[c]) <= Len(col_types)
        BY <4>1 DEF ContentInv, TypeInv, Shape
      <4> QED
        BY <2>2, <4>1, <4>2
    <3>2. NullAsTyped(chunks[c][k], col_types[k])
      BY <2>2, <3>1 DEF ContentInv, NullsAligned, NullAsTyped
    <3>3. col_types'[k] = col_types[k]
      BY <3>1, TypesKept
    <3>4. chunks'[c][k].kind = "null" <=> chunks[c][k].kind = "null"
      <4>1. Fate(c, k)
        BY <2>1, <2>2 DEF Fates
      <4> QED
        BY <4>1 DEF Fate, Grown, Compresses
    <3> QED
      BY <3>2, <3>3, <3>4 DEF NullAsTyped
  <2> QED
    BY <2>1, <2>2 DEF Fates, Fresh
<1>2. DOMAIN chunks' = 1..Len(chunks')
  BY TypeStep DEF ContentInv, TypeInv, TypeOK
<1>3. ~IS_DEBUG => Len(Last(chunks')) = Len(col_types')
  BY LastChunkComplete
<1>4. \A c \in DOMAIN chunks' : \A k \in 1..Len(chunks'[c]) :
        chunks'[c][k].kind = "null" <=> ~IS_DEBUG /\ col_types'[k] \notin DataTypes
  BY <1>1, <1>2 DEF NullAsTyped
<1> QED
  BY <1>3, <1>4 DEF NullsAligned, Last

(* ContentInv is inductive.                                                *)
LEMMA ContentStep ==
  ASSUME MaxColumns < U16
  PROVE  ContentInv /\ [Next]_vars => ContentInv'
BY TypeStep, NullsAlignedStep, TasksFaithfulStep DEF ContentInv

(* No step changes or removes a stored value.                              *)
LEMMA StoredStep ==
  ASSUME MaxColumns < U16, NaN \notin Values, ContentInv, [Next]_vars
  PROVE  StoredStays
<1>1. Fates /\ TypeOK'
  BY StepFates, TypeStep DEF ContentInv, TypeInv
<1>2. /\ chunks \in Seq(Seq(BaseSegments)) /\ chunks' \in Seq(Seq(BaseSegments))
      /\ Len(chunks) \in Nat /\ Len(chunks') \in Nat /\ Len(chunks) <= Len(chunks')
      /\ DOMAIN chunks = 1..Len(chunks) /\ DOMAIN chunks' = 1..Len(chunks')
  BY <1>1 DEF ContentInv, TypeInv, TypeOK, Fates
<1> SUFFICES ASSUME NEW c \in DOMAIN chunks, NEW k \in DOMAIN chunks[c]
             PROVE  /\ c \in DOMAIN chunks' /\ k \in DOMAIN chunks'[c]
                    /\ Prefix(Stored(chunks[c][k]), Stored(chunks'[c][k]))
                    /\ c < Len(chunks) => Stored(chunks'[c][k]) = Stored(chunks[c][k])
  BY DEF StoredStays
<1>3. c \in 1..Len(chunks) /\ c \in 1..Len(chunks')
  BY <1>2
<1>4. chunks[c] \in Seq(BaseSegments) /\ chunks'[c] \in Seq(BaseSegments)
  BY <1>2, <1>3
<1>5. /\ k \in 1..Len(chunks[c]) /\ Len(chunks[c]) \in Nat /\ Len(chunks'[c]) \in Nat
      /\ DOMAIN chunks'[c] = 1..Len(chunks'[c]) /\ chunks[c][k] \in BaseSegments
  BY <1>4
<1>6. Len(chunks[c]) <= Len(chunks'[c]) /\ Fate(c, k)
  BY <1>1, <1>3, <1>5 DEF Fates
<1>7. c \in DOMAIN chunks' /\ k \in DOMAIN chunks'[c]
  BY <1>2, <1>3, <1>5, <1>6
<1> DEFINE old == chunks[c][k]
           new == chunks'[c][k]
<1>8. Len(Stored(old)) \in Nat
  BY <1>5, StoredProperties
<1> HIDE DEF old, new
<1>9. Stored(new) = Stored(old) \/ (c = Len(chunks) /\ Grown(new, old))
  BY <1>6 DEF Fate, Compresses, old, new
<1>10. Prefix(Stored(old), Stored(new))
  BY <1>8, <1>9 DEF Prefix, Grown
<1>11. c < Len(chunks) => Stored(new) = Stored(old)
  BY <1>2, <1>9
<1> QED
  BY <1>7, <1>10, <1>11 DEF old, new

-----------------------------------------------------------------------------
(* The theorems                                                            *)

(* Below 2^16 columns, whatever the caller does and however the tasks of   *)
(* compress_chunk interleave: no stored value changes or goes away, if     *)
(* none is NaN (NaN is what a dictionary cannot give back).                *)
THEOREM ContentsAppendOnly ==
  ASSUME MaxColumns < U16, NaN \notin Values
  PROVE  Spec => AppendOnly
<1>1. ContentInv /\ [Next]_vars => StoredStays
  BY StoredStep
<1>2. ContentInv /\ [Next]_vars => ContentInv'
  BY ContentStep
<1> QED
  BY <1>1, <1>2, ContentInit, PTL DEF Spec, AppendOnly

(* Below 2^16 columns a compressed column is never altered again.          *)
THEOREM CompressedImmutable ==
  ASSUME MaxColumns < U16
  PROVE  Spec => Immutable
<1>1. ContentInv /\ [Next]_vars => CompressedStays
  <2> SUFFICES ASSUME ContentInv, [Next]_vars,
                      NEW c \in DOMAIN chunks, NEW k \in DOMAIN chunks[c], chunks[c][k].kind = "dict"
               PROVE  chunks'[c][k] = chunks[c][k]
    BY DEF CompressedStays
  <2>1. Fates
    BY StepFates
  <2>2. chunks \in Seq(Seq(BaseSegments))
    BY DEF ContentInv, TypeInv, TypeOK
  <2>3. c \in 1..Len(chunks) /\ k \in 1..Len(chunks[c])
    BY <2>2
  <2>4. Fate(c, k)
    BY <2>1, <2>3 DEF Fates
  <2> QED
    BY <2>4 DEF Fate, Grown, Compresses
<1>2. ContentInv /\ [Next]_vars => ContentInv'
  BY ContentStep
<1> QED
  BY <1>1, <1>2, ContentInit, PTL DEF Spec, Immutable

(* Below 2^16 columns compress_chunk replaces a chunk whole or not at all, *)
(* in whatever order the tasks end and whichever of them throw.            *)
THEOREM CompressAllOrNothing ==
  ASSUME MaxColumns < U16
  PROVE  Spec => AllOrNothing
<1>1. ContentInv /\ [Next]_vars => WholeChunkReplaced
  <2> SUFFICES ASSUME ContentInv, [Next]_vars, pc # "idle", NEW c \in DOMAIN chunks, chunks'[c] # chunks[c]
               PROVE  /\ Len(chunks'[c]) = Len(chunks[c])
                      /\ ~\E k \in DOMAIN chunks'[c] : chunks'[c][k].kind = "value"
    BY DEF WholeChunkReplaced
  <2>1. ReplacesChunk
    BY StepEffect DEF LeavesChunks
  <2>2. c = target /\ chunks'[c] = dict_chunk
    BY <2>1 DEF ReplacesChunk
  <2>3. DOMAIN dict_chunk = 1..Len(dict_chunk)
    BY DEF ContentInv, TypeInv, TypeOK
  <2> QED
    BY <2>1, <2>2, <2>3 DEF ReplacesChunk, Compresses
<1>2. ContentInv /\ [Next]_vars => ContentInv'
  BY ContentStep
<1> QED
  BY <1>1, <1>2, ContentInit, PTL DEF Spec, AllOrNothing

(* Below 2^16 columns, in a release build: Print indexes its widths within *)
(* bounds, because the last chunk has all columns of the schema and no     *)
(* chunk has more.                                                         *)
THEOREM PrintWidthsInBounds ==
  ASSUME MaxColumns < U16, IS_DEBUG = FALSE
  PROVE  Spec => []PrintInBounds
<1>1. ContentInv => PrintInBounds
  <2> SUFFICES ASSUME ContentInv, NEW v \in Visits PROVE v[2] <= column_count
    BY DEF PrintInBounds
  <2>1. PICK c \in DOMAIN chunks :
          v \in {c} \X (1..chunk_column_count(chunks[c]))
                    \X (1..IF SizeCrashes(chunks[c]) THEN 1 ELSE chunk_size_of(chunks[c]))
    BY DEF Visits
  <2>2. v[2] \in 1..chunk_column_count(chunks[c])
    BY <2>1
  <2>3. /\ chunks[c] \in Seq(BaseSegments) /\ Last(chunks) \in Seq(BaseSegments)
        /\ Len(chunks[c]) <= Len(col_types)
    BY LastChunk DEF ContentInv, TypeInv, TypeOK, Shape
  <2>4. Len(Last(chunks)) = Len(col_types) /\ Len(col_types) <= MaxColumns /\ MaxColumns \in Nat /\ U16 \in Nat
    BY WidthAssumption, TableAssumption DEF ContentInv, TypeInv, TypeOK, NullsAligned
  <2>5. /\ chunk_column_count(chunks[c]) \in Nat /\ Len(chunks[c]) \in Nat
        /\ chunk_column_count(chunks[c]) <= Len(chunks[c])
        /\ Len(Last(chunks)) \in Nat
        /\ Len(Last(chunks)) < U16 => column_count = Len(Last(chunks))
    BY <2>3, ColumnCount DEF column_count
  <2> HIDE DEF ContentInv
  <2> QED
    BY <2>2, <2>3, <2>4, <2>5
<1>2. ContentInv /\ [Next]_vars => ContentInv'
  BY ContentStep
<1> QED
  BY <1>1, <1>2, ContentInit, PTL DEF Spec

-----------------------------------------------------------------------------
(* Table::row_count looks at the last chunk only and counts the rows of    *)
(* all chunks: the theorem behind RowCountExact.                           *)

Full(chunk) ==
  /\ chunk # << >> /\ chunk[1].kind # "null"
  /\ Len(Stored(chunk[1])) = chunk_size

NotOverfull(chunk) == chunk # << >> => Len(Stored(chunk[1])) <= chunk_size

(* The uint32_t of Chunk::size is exact for a chunk that is not over-full. *)
LEMMA ExactSize ==
  ASSUME NEW chunk \in Seq(BaseSegments), ~SizeCrashes(chunk), NotOverfull(chunk)
  PROVE  /\ chunk_size_of(chunk) \in Nat /\ chunk_size_of(chunk) <= chunk_size
         /\ chunk = << >> => chunk_size_of(chunk) = 0
         /\ chunk # << >> => chunk_size_of(chunk) = Len(Stored(chunk[1]))
<1>1. CASE chunk = << >>
  BY <1>1, TableAssumption DEF chunk_size_of
<1>2. CASE chunk # << >>
  <2> DEFINE n == Len(Stored(chunk[1]))
  <2>1. chunk[1] \in BaseSegments /\ chunk[1].kind # "null"
    BY <1>2 DEF SizeCrashes
  <2>2. n \in Nat /\ SegmentSize(chunk[1]) = n
    BY <2>1, StoredProperties
  <2>3. n <= chunk_size
    BY <1>2 DEF NotOverfull
  <2>4. chunk_size_of(chunk) = n % U32
    BY <1>2, <2>2 DEF chunk_size_of
  <2> HIDE DEF n
  <2>5. n % U32 = n
    BY <2>2, <2>3, TableAssumption, WidthAssumption, Remainder
  <2> QED
    BY <1>2, <2>2, <2>3, <2>4, <2>5 DEF n
<1> QED
  BY <1>1, <1>2

(* Replacing one chunk by one that is as full keeps the chunks filled.     *)
LEMMA ReplaceFilled ==
  ASSUME ContentInv, ChunksFilled, NEW t \in 1..Len(chunks), NEW new \in Seq(BaseSegments),
         chunks' = [chunks EXCEPT ![t] = new], NotOverfull(new),
         Full(chunks[t]) => Full(new)
  PROVE  ChunksFilled'
<1> DEFINE n == Len(chunks)
<1>1. n \in Nat \ {0} /\ chunks \in Seq(Seq(BaseSegments)) /\ DOMAIN chunks = 1..n
  BY LastChunk DEF ContentInv, TypeInv, TypeOK
<1>2. \A c \in 1..n : (c < n => Full(chunks[c])) /\ NotOverfull(chunks[c])
  BY <1>1 DEF ChunksFilled, Full, NotOverfull
<1>3. /\ Len(chunks') = n /\ DOMAIN chunks' = 1..n /\ chunks'[t] = new
      /\ \A c \in 1..n : c # t => chunks'[c] = chunks[c]
  BY <1>1
<1> HIDE DEF n
<1>4. \A c \in 1..n : (c < n => Full(chunks'[c])) /\ NotOverfull(chunks'[c])
  <2> SUFFICES ASSUME NEW c \in 1..n
               PROVE  (c < n => Full(chunks'[c])) /\ NotOverfull(chunks'[c])
    OBVIOUS
  <2>1. CASE c = t
    BY <1>2, <1>3, <2>1
  <2>2. CASE c # t
    BY <1>2, <1>3, <2>2
  <2> QED
    BY <2>1, <2>2
<1> QED
  BY <1>3, <1>4 DEF ChunksFilled, Full, NotOverfull, n

(* add_column keeps the chunks filled: a new first column is empty.        *)
LEMMA AddsColumnFilled ==
  ASSUME ContentInv, ChunksFilled, AddsColumn
  PROVE  ChunksFilled'
<1> DEFINE n == Len(chunks)
           old == chunks[n]
<1>1. n \in 1..n /\ n \in DOMAIN chunks /\ old \in Seq(BaseSegments) /\ NotOverfull(old)
  BY LastChunk DEF ContentInv, TypeInv, TypeOK, ChunksFilled, NotOverfull
<1>2. PICK segment \in BaseSegments :
        Len(Stored(segment)) = 0 /\ chunks' = [chunks EXCEPT ![n] = Append(old, segment)]
  BY make_value_segmentType, FreshSegment DEF AddsColumn
<1> DEFINE new == Append(old, segment)
<1>3. new \in Seq(BaseSegments) /\ new # << >>
  BY <1>1
<1>4. new[1] = IF old = << >> THEN segment ELSE old[1]
  <2>1. Len(old) \in Nat /\ (old = << >> <=> Len(old) = 0)
    BY <1>1, EmptySeq
  <2> QED
    BY <1>1, <2>1, AppendProperties
<1> HIDE DEF new
<1>5. NotOverfull(new)
  BY <1>1, <1>2, <1>4, TableAssumption DEF NotOverfull
<1>6. Full(old) => Full(new)
  BY <1>3, <1>4 DEF Full
<1>7. chunks' = [chunks EXCEPT ![n] = new]
  BY <1>2 DEF new
<1> QED
  BY <1>1, <1>3, <1>5, <1>6, <1>7, ReplaceFilled

(* append to a last chunk that is not full makes it at most full.          *)
LEMMA ExtendsLastFilled ==
  ASSUME ContentInv, ChunksFilled, ExtendsLast
  PROVE  ChunksFilled'
<1> DEFINE n == Len(chunks)
           old == chunks[n]
<1>1. n \in 1..n /\ n \in DOMAIN chunks /\ old \in Seq(BaseSegments) /\ NotOverfull(old) /\ Last(chunks) = old
  BY LastChunk DEF ContentInv, TypeInv, TypeOK, ChunksFilled, NotOverfull
<1>2. PICK values \in Rows : chunks' = [chunks EXCEPT ![n] = ChunkAppend(old, values)]
  BY DEF ExtendsLast
<1> DEFINE new == ChunkAppend(old, values)
<1>3. values \in Seq(Variants) /\ ~SizeCrashes(old) /\ ~(chunk_size_of(old) >= chunk_size)
  BY <1>1, TableAssumption DEF ExtendsLast, LastChunkFull
<1>4. new \in Seq(BaseSegments) /\ Len(new) = Len(old)
  BY <1>1, <1>3, ChunkAppendProperties
<1>5. new # << >> => old # << >> /\ 1 \in 1..Len(old)
  BY <1>1, <1>4
<1>6. old # << >> => Len(Stored(old[1])) < chunk_size /\ Len(Stored(old[1])) \in Nat
  BY <1>1, <1>3, ExactSize, TableAssumption
<1>7. new # << >> => Len(Stored(new[1])) = Len(Stored(old[1])) \/ Len(Stored(new[1])) = Len(Stored(old[1])) + 1
  BY <1>1, <1>3, <1>5, ChunkAppendStores
<1> HIDE DEF new, old, n
<1>8. NotOverfull(new)
  BY <1>5, <1>6, <1>7, TableAssumption DEF NotOverfull
<1>9. ~Full(old)
  BY <1>6, TableAssumption DEF Full
<1>10. chunks' = [chunks EXCEPT ![n] = new] /\ n \in 1..Len(chunks) /\ old = chunks[n]
  BY <1>1, <1>2 DEF new, old, n
<1> QED
  BY <1>4, <1>8, <1>9, <1>10, ReplaceFilled

(* compress_chunk keeps the size of the chunk.                             *)
LEMMA ReplacesChunkFilled ==
  ASSUME ContentInv, ChunksFilled, ReplacesChunk
  PROVE  ChunksFilled'
<1> DEFINE old == chunks[target]
<1>1. /\ target \in 1..Len(chunks) /\ dict_chunk \in Seq(BaseSegments) /\ old \in Seq(BaseSegments)
      /\ NotOverfull(old)
  BY DEF ContentInv, TypeInv, TypeOK, ReplacesChunk, ChunksFilled, NotOverfull
<1>2. dict_chunk # << >> <=> old # << >>
  BY <1>1, EmptySeq DEF ReplacesChunk
<1>3. old # << >> => Compresses(dict_chunk[1], old[1])
  <2>1. old # << >> => 1 \in 1..Len(dict_chunk)
    BY <1>1, <1>2
  <2> QED
    BY <2>1 DEF ReplacesChunk
<1> HIDE DEF old
<1>4. NotOverfull(dict_chunk) /\ (Full(old) => Full(dict_chunk))
  BY <1>1, <1>2, <1>3 DEF NotOverfull, Full, Compresses
<1> QED
  BY <1>1, <1>4, ReplaceFilled DEF ReplacesChunk, old

(* append starts a new chunk only after a full one, and the new chunk      *)
(* holds at most one row.                                                  *)
LEMMA StartsChunkFilled ==
  ASSUME chunk_size > 0, ContentInv, ChunksFilled, StartsChunk
  PROVE  ChunksFilled'
<1> DEFINE n == Len(chunks)
<1>1. /\ n \in Nat \ {0} /\ n \in DOMAIN chunks /\ DOMAIN chunks = 1..n
      /\ chunks \in Seq(Seq(BaseSegments)) /\ chunks[n] \in Seq(BaseSegments)
      /\ col_types \in Seq(DataTypes \cup UnknownTypes) /\ Last(chunks) = chunks[n]
  BY LastChunk DEF ContentInv, TypeInv, TypeOK
<1>2. \A c \in 1..n : (c < n => Full(chunks[c])) /\ NotOverfull(chunks[c])
  BY <1>1 DEF ChunksFilled, Full, NotOverfull
<1>3. Full(chunks[n])
  <2>1. ~SizeCrashes(chunks[n]) /\ chunk_size_of(chunks[n]) >= chunk_size /\ NotOverfull(chunks[n])
    BY <1>1, <1>2 DEF StartsChunk, LastChunkFull
  <2> DEFINE size == chunk_size_of(chunks[n])
  <2>2. size \in Nat /\ size <= chunk_size /\ (chunks[n] = << >> => size = 0)
        /\ (chunks[n] # << >> => size = Len(Stored(chunks[n][1])))
    BY <1>1, <2>1, ExactSize
  <2> HIDE DEF size
  <2>3. size >= chunk_size
    BY <2>1 DEF size
  <2>4. size = chunk_size /\ chunks[n] # << >>
    BY <2>2, <2>3, TableAssumption
  <2> QED
    BY <2>1, <2>2, <2>4 DEF Full, SizeCrashes
<1>4. PICK new \in Seq(BaseSegments) : chunks' = Append(chunks, new) /\ NotOverfull(new)
  <2>1. BuiltChunk \in Seq(BaseSegments)
    BY <1>1, BuiltChunkProperties
  <2>2. BuiltChunk # << >> => Len(Stored(BuiltChunk[1])) = 0
    BY <1>1, <2>1, BuiltChunkFresh
  <2>3. CASE chunks' = Append(chunks, BuiltChunk)
    BY <2>1, <2>2, <2>3, TableAssumption DEF NotOverfull
  <2>4. ASSUME NEW values \in Rows, chunks' = Append(chunks, ChunkAppend(BuiltChunk, values))
        PROVE  \E chunk \in Seq(BaseSegments) : chunks' = Append(chunks, chunk) /\ NotOverfull(chunk)
    <3> DEFINE new == ChunkAppend(BuiltChunk, values)
    <3>1. values \in Seq(Variants)
      BY TableAssumption
    <3>2. new \in Seq(BaseSegments) /\ Len(new) = Len(BuiltChunk)
      BY <2>1, <3>1, ChunkAppendProperties
    <3>3. new # << >> => BuiltChunk # << >> /\ 1 \in 1..Len(BuiltChunk)
      BY <2>1, <3>2
    <3>4. new # << >> =>
            \/ Len(Stored(new[1])) = Len(Stored(BuiltChunk[1]))
            \/ Len(Stored(new[1])) = Len(Stored(BuiltChunk[1])) + 1
      BY <2>1, <3>1, <3>3, ChunkAppendStores
    <3> HIDE DEF new
    <3>5. NotOverfull(new)
      BY <2>2, <3>3, <3>4, TableAssumption DEF NotOverfull
    <3> QED
      BY <2>4, <3>2, <3>5 DEF new
  <2> QED
    BY <2>3, <2>4 DEF StartsChunk
<1>5. /\ Len(chunks') = n + 1 /\ DOMAIN chunks' = 1..n + 1 /\ chunks'[n + 1] = new
      /\ \A c \in 1..n : chunks'[c] = chunks[c]
  BY <1>1, <1>4, AppendProperties
<1> HIDE DEF n
<1>6. \A c \in 1..n + 1 : (c < n + 1 => Full(chunks'[c])) /\ NotOverfull(chunks'[c])
  <2> SUFFICES ASSUME NEW c \in 1..n + 1
               PROVE  (c < n + 1 => Full(chunks'[c])) /\ NotOverfull(chunks'[c])
    OBVIOUS
  <2>1. CASE c = n + 1
    BY <1>1, <1>4, <1>5, <2>1
  <2>2. CASE c = n
    BY <1>1, <1>2, <1>3, <1>5, <2>2
  <2>3. CASE c < n
    <3>1. c \in 1..n
      BY <1>1, <2>3
    <3> QED
      BY <1>2, <1>5, <2>3, <3>1
  <2> QED
    BY <1>1, <2>1, <2>2, <2>3
<1> QED
  BY <1>5, <1>6 DEF ChunksFilled, Full, NotOverfull

(* ChunksFilled is inductive relative to ContentInv.                       *)
LEMMA FilledStep ==
  ASSUME chunk_size > 0, MaxColumns < U16
  PROVE  ContentInv /\ ChunksFilled /\ [Next]_vars => ChunksFilled'
<1> SUFFICES ASSUME ContentInv, ChunksFilled, [Next]_vars PROVE ChunksFilled'
  OBVIOUS
<1>1. CASE chunks' = chunks
  BY <1>1 DEF ChunksFilled
<1> QED
  BY <1>1, StepEffect, AddsColumnFilled, StartsChunkFilled, ExtendsLastFilled, ReplacesChunkFilled
     DEF LeavesChunks, RejectsColumn

(* The constructor makes one chunk without columns.                        *)
LEMMA FilledInit == Init => ChunksFilled
BY DEF Init, ChunksFilled

-----------------------------------------------------------------------------
(* Counting                                                                *)

(* n - 1 chunks with the offsets B each and a last one with the offsets C. *)
LEMMA CountPairs ==
  ASSUME NEW n \in Nat \ {0}, NEW B, IsFiniteSet(B), NEW C, IsFiniteSet(C)
  PROVE  Cardinality(((1..n - 1) \X B) \cup ({n} \X C)) = Cardinality(B) * (n - 1) + Cardinality(C)
<1> DEFINE A == 1..n - 1
           S == A \X B
           T == {n} \X C
           b == Cardinality(B)
           a == Cardinality(C)
<1>1. IsFiniteSet(A) /\ Cardinality(A) = n - 1
  <2>1. IsFiniteSet(1..n - 1) /\ Cardinality(1..n - 1) = IF 1 > n - 1 THEN 0 ELSE (n - 1) - 1 + 1
    BY FS_Interval, SMT
  <2> QED
    BY <2>1
<1>2. b \in Nat /\ a \in Nat
  BY FS_CardinalityType
<1>3. IsFiniteSet({n}) /\ Cardinality({n}) = 1
  BY FS_Singleton
<1> HIDE DEF A
<1>4. IsFiniteSet(S) /\ Cardinality(S) = Cardinality(A) * Cardinality(B)
  BY <1>1, FS_Product, Zenon
<1>5. IsFiniteSet(T) /\ Cardinality(T) = Cardinality({n}) * Cardinality(C)
  BY <1>3, FS_Product, Zenon
<1>6. S \cap T = {}
  BY DEF A
<1>7. Cardinality(S \cap T) = 0
  BY <1>6, FS_EmptySet
<1> HIDE DEF S, T
<1>8. Cardinality(S \cup T) = Cardinality(S) + Cardinality(T) - Cardinality(S \cap T)
  BY <1>4, <1>5, FS_Union
<1>9. Cardinality(S) = (n - 1) * b /\ Cardinality(T) = 1 * a
  BY <1>1, <1>3, <1>4, <1>5
<1> HIDE DEF a, b
<1>10. Cardinality(S \cup T) = (n - 1) * b + 1 * a - 0
  BY <1>7, <1>8, <1>9
<1>11. (n - 1) * b + 1 * a - 0 = b * (n - 1) + a
  BY <1>2
<1> QED
  BY <1>10, <1>11 DEF S, T, A, a, b

(* n - 1 chunks of b rows each and a last one of a rows.                   *)
LEMMA CountRows ==
  ASSUME NEW n \in Nat \ {0}, NEW b \in Nat, NEW a \in Nat
  PROVE  Cardinality(((1..n - 1) \X (0..b - 1)) \cup ({n} \X (0..a - 1))) = b * (n - 1) + a
<1> DEFINE B == 0..b - 1
           C == 0..a - 1
<1>1. IsFiniteSet(B) /\ Cardinality(B) = b /\ IsFiniteSet(C) /\ Cardinality(C) = a
  BY IdsFinite
<1> HIDE DEF B, C
<1>2. Cardinality(((1..n - 1) \X B) \cup ({n} \X C)) = b * (n - 1) + a
  BY <1>1, CountPairs
<1> QED
  BY <1>2 DEF B, C

(* Below 2^16 columns and 2^32 chunks of at least one row, row_count is    *)
(* the number of rows modulo 2^32, whatever calls failed in between.       *)
THEOREM RowCountCorrect ==
  ASSUME chunk_size > 0, MaxColumns < U16, MaxChunks < U32
  PROVE  Spec => []RowCountExact
<1>1. ContentInv /\ ChunksFilled => RowCountExact
  <2> SUFFICES ASSUME ContentInv, ChunksFilled, ~SizeCrashes(Last(chunks))
               PROVE  row_count = Cardinality(RowIDs) % U32
    BY DEF RowCountExact
  <2> DEFINE n == Len(chunks)
             a == chunk_size_of(Last(chunks))
  <2>1. /\ n \in Nat \ {0} /\ DOMAIN chunks = 1..n /\ Last(chunks) = chunks[n]
        /\ chunks \in Seq(Seq(BaseSegments)) /\ n <= MaxChunks
    BY LastChunk DEF ContentInv, TypeInv, TypeOK, Shape
  <2>2. \A c \in 1..n : (c < n => Full(chunks[c])) /\ NotOverfull(chunks[c])
    BY <2>1 DEF ChunksFilled, Full, NotOverfull
  <2>3. a \in Nat
    BY <2>1, <2>2, ExactSize
  <2>4. \A c \in 1..n : c < n => chunk_size_of(chunks[c]) = chunk_size
    <3> SUFFICES ASSUME NEW c \in 1..n, c < n PROVE chunk_size_of(chunks[c]) = chunk_size
      OBVIOUS
    <3>1. Full(chunks[c]) /\ NotOverfull(chunks[c]) /\ chunks[c] \in Seq(BaseSegments)
      BY <2>1, <2>2
    <3>2. ~SizeCrashes(chunks[c])
      BY <3>1 DEF Full, SizeCrashes
    <3> QED
      BY <3>1, <3>2, ExactSize DEF Full
  <2>5. chunk_count = n
    <3> HIDE DEF n
    <3>1. n % U32 = n
      BY <2>1, Remainder, WidthAssumption, TableAssumption
    <3> QED
      BY <3>1 DEF chunk_count, n
  <2>6. row_count = (chunk_size * (n - 1) + a) % U32
    BY <2>5 DEF row_count
  <2>7. RowIDs = ((1..n - 1) \X (0..chunk_size - 1)) \cup ({n} \X (0..a - 1))
    <3>1. RowIDs = UNION {{c} \X (0..chunk_size_of(chunks[c]) - 1) : c \in 1..n}
      BY <2>1 DEF RowIDs
    <3>2. chunk_size_of(chunks[n]) = a
      BY <2>1
    <3> DEFINE size(c) == chunk_size_of(chunks[c])
    <3>3. /\ \A c \in 1..n - 1 : size(c) = chunk_size
          /\ size(n) = a /\ 1..n = (1..n - 1) \cup {n}
      BY <2>1, <2>4, <3>2
    <3>4. RowIDs = UNION {{c} \X (0..size(c) - 1) : c \in 1..n}
      BY <3>1
    <3> HIDE DEF n, a, size
    <3> QED
      BY <3>3, <3>4
  <2> HIDE DEF n, a
  <2>8. Cardinality(RowIDs) = chunk_size * (n - 1) + a
    BY <2>1, <2>3, <2>7, CountRows, TableAssumption
  <2> QED
    BY <2>6, <2>8
<1>2. ContentInv /\ ChunksFilled /\ [Next]_vars => (ContentInv /\ ChunksFilled)'
  BY ContentStep, FilledStep
<1>3. Init => ContentInv /\ ChunksFilled
  BY ContentInit, FilledInit
<1> QED
  BY <1>1, <1>2, <1>3, PTL DEF Spec

-----------------------------------------------------------------------------
(* The steps of a careful caller are steps of a caller                     *)

(* Every call of a careful caller is a call that any caller may make.      *)
LEMMA CarefulIsNext ==
  ASSUME CarefulInv, [CarefulNext]_vars
  PROVE  [Next]_vars
<1>1. Len(chunks) \in Nat /\ Len(chunks) <= MaxChunks /\ MaxChunks \in Nat
  BY TableAssumption DEF CarefulInv, ContentInv, TypeInv, TypeOK, Shape
<1>2. \A c \in 1..Len(chunks) : c - 1 \in 0..MaxChunks
  BY <1>1
<1>3. CASE UNCHANGED vars
  BY <1>3
<1>4. ASSUME CarefulNext PROVE Next
  <2>1. CASE \E name \in Names, type \in DataTypes : ~HasEntries /\ add_column(name, type)
    BY <2>1 DEF Next
  <2>2. CASE \E values \in Rows : col_types # << >> /\ GoodRow(values) /\ append(values)
    BY <2>2 DEF Next
  <2>3. CASE \E c \in 1..Len(chunks) :
               /\ chunk_size_of(chunks[c]) = chunk_size /\ Uncompressed(chunks[c])
               /\ compress_chunk(c - 1)
    <3>1. PICK c \in 1..Len(chunks) : compress_chunk(c - 1)
      BY <2>3
    <3> DEFINE chunk_id == c - 1
    <3>2. chunk_id \in 0..MaxChunks /\ compress_chunk(chunk_id)
      BY <1>2, <3>1
    <3> HIDE DEF chunk_id
    <3> QED
      BY <3>2 DEF Next
  <2>4. CASE (\E k \in 1..MaxColumns : run_task(k)) \/ CallerStep
    BY <2>4 DEF Next
  <2> QED
    BY <1>4, <2>1, <2>2, <2>3, <2>4 DEF CarefulNext
<1> QED
  BY <1>3, <1>4

(* Facts about the state that every step needs.                            *)
LEMMA CarefulState ==
  ASSUME CarefulInv, MaxColumns < U16
  PROVE  /\ chunks \in Seq(Seq(BaseSegments)) /\ Len(chunks) \in Nat \ {0}
         /\ DOMAIN chunks = 1..Len(chunks) /\ Last(chunks) = chunks[Len(chunks)]
         /\ col_types \in Seq(DataTypes) /\ Len(col_types) \in Nat /\ Len(col_types) < U16
         /\ \A c \in 1..Len(chunks) :
              /\ chunks[c] \in Seq(BaseSegments) /\ ChunkFits(chunks[c], col_types)
              /\ Len(chunks[c]) = Len(col_types)
              /\ \A k \in 1..Len(col_types) : chunks[c][k] \in BaseSegments
<1>1. TypeOK
  BY DEF CarefulInv, ContentInv, TypeInv
<1>2. /\ chunks \in Seq(Seq(BaseSegments)) /\ Len(chunks) \in Nat \ {0}
      /\ DOMAIN chunks = 1..Len(chunks) /\ Last(chunks) = chunks[Len(chunks)]
  BY <1>1, LastChunk DEF TypeOK
<1>3. Len(col_types) \in Nat /\ Len(col_types) < U16
  BY <1>1, TableAssumption, WidthAssumption DEF TypeOK
<1>4. col_types \in Seq(DataTypes)
  <2>1. \A k \in 1..Len(col_types) : col_types[k] \in DataTypes
    BY DEF CarefulInv
  <2>2. col_types \in [1..Len(col_types) -> DataTypes]
    BY <1>1, <2>1 DEF TypeOK
  <2> QED
    BY <1>3, <2>2
<1>5. ASSUME NEW c \in 1..Len(chunks)
      PROVE  /\ chunks[c] \in Seq(BaseSegments) /\ ChunkFits(chunks[c], col_types)
             /\ Len(chunks[c]) = Len(col_types)
             /\ \A k \in 1..Len(col_types) : chunks[c][k] \in BaseSegments
  <2>1. chunks[c] \in Seq(BaseSegments)
    BY <1>2
  <2>2. ChunkFits(chunks[c], col_types)
    BY DEF CarefulInv
  <2>3. Len(chunks[c]) = Len(col_types)
    BY <2>2 DEF ChunkFits
  <2> QED
    BY <2>1, <2>2, <2>3
<1> QED
  BY <1>2, <1>3, <1>4, <1>5

-----------------------------------------------------------------------------
(* append                                                                  *)

(* new is old with the converted values added, one to each column.         *)
RowAdded(new, old, values) ==
  /\ new \in Seq(BaseSegments) /\ old \in Seq(BaseSegments)
  /\ Len(new) = Len(col_types) /\ Len(old) = Len(col_types)
  /\ \A k \in 1..Len(col_types) :
       /\ old[k] \in ValueSegments /\ new[k] \in ValueSegments
       /\ old[k].type = col_types[k] /\ new[k].type = col_types[k]
       /\ new[k].values = Append(old[k].values, type_cast[col_types[k]][values[k]])
       /\ type_cast[col_types[k]][values[k]] \in Values

(* A good row is accepted by every column of an uncompressed chunk.        *)
LEMMA GoodRowAdded ==
  ASSUME NEW chunk \in Seq(BaseSegments), NEW values \in Seq(Variants), GoodRow(values),
         col_types \in Seq(DataTypes), Len(col_types) < U16, Len(chunk) = Len(col_types),
         \A k \in 1..Len(col_types) : chunk[k] \in ValueSegments /\ chunk[k].type = col_types[k]
  PROVE  /\ ~ChunkAppendCrashes(chunk, values) /\ ~ChunkAppendThrows(chunk, values)
         /\ RowAdded(ChunkAppend(chunk, values), chunk, values)
<1> DEFINE n == Len(col_types)
           new == ChunkAppend(chunk, values)
<1>1. /\ n \in Nat /\ DOMAIN chunk = 1..n /\ Len(values) = n /\ DOMAIN values = 1..n
      /\ \A k \in 1..n : values[k] \in Variants /\ type_cast[col_types[k]][values[k]] # Throws
  BY DEF GoodRow
<1>2. ~ArityRejected(chunk, values)
  BY <1>1, ColumnCount DEF ArityRejected
<1>3. \A k \in 1..n : Accepts(chunk, k, values[k])
  BY <1>1 DEF Accepts, ValueSegments
<1>4. LoopCompletes(chunk, values) /\ \A k \in 1..n : LoopReaches(chunk, values, k)
  BY <1>1, <1>3 DEF LoopCompletes, LoopReaches
<1>5. ~ChunkAppendCrashes(chunk, values)
  BY <1>1, <1>3 DEF ChunkAppendCrashes, Accepts
<1>6. ~ChunkAppendThrows(chunk, values)
  BY <1>2, <1>4 DEF ChunkAppendThrows
<1>7. new \in Seq(BaseSegments) /\ Len(new) = n
  BY ChunkAppendProperties
<1>8. \A k \in 1..n : new[k] = ValueSegmentAppend(chunk[k], values[k])
  BY <1>1, <1>2, <1>3, <1>4 DEF ChunkAppend
<1> HIDE DEF new
<1>9. ASSUME NEW k \in 1..n
      PROVE  /\ new[k] \in ValueSegments /\ new[k].type = col_types[k]
             /\ new[k].values = Append(chunk[k].values, type_cast[col_types[k]][values[k]])
             /\ type_cast[col_types[k]][values[k]] \in Values
  <2>1. chunk[k] \in ValueSegments /\ chunk[k].type = col_types[k] /\ values[k] \in Variants
        /\ type_cast[chunk[k].type][values[k]] # Throws
    BY <1>1
  <2>2. ValueSegmentAppend(chunk[k], values[k]).type = chunk[k].type
    BY <2>1 DEF ValueSegmentAppend, ValueSegments
  <2> QED
    BY <1>8, <2>1, <2>2, ValueSegmentAppendType
<1> QED
  BY <1>5, <1>6, <1>7, <1>9 DEF RowAdded, new

(* A chunk to which a row was added fits the schema if it was at most full. *)
LEMMA RowAddedFits ==
  ASSUME NEW new, NEW old, NEW values, RowAdded(new, old, values), col_types \in Seq(DataTypes),
         \A k \in 1..Len(col_types) : Len(Stored(old[k])) = Len(Stored(old[1]))
  PROVE  /\ ChunkFits(new, col_types)
         /\ \A k \in 1..Len(col_types) :
              /\ Len(Stored(new[k])) = Len(Stored(old[1])) + 1
              /\ Stored(new[k])[Len(Stored(old[1])) + 1] = type_cast[col_types[k]][values[k]]
<1> DEFINE n == Len(col_types)
<1>1. n \in Nat
  OBVIOUS
<1>2. ASSUME NEW k \in 1..n
      PROVE  /\ new[k].kind = "value" /\ new[k].type = col_types[k]
             /\ Len(Stored(new[k])) = Len(Stored(old[1])) + 1
             /\ Stored(new[k])[Len(Stored(old[1])) + 1] = type_cast[col_types[k]][values[k]]
  <2>1. /\ old[k] \in ValueSegments /\ new[k] \in ValueSegments /\ new[k].type = col_types[k]
        /\ new[k].values = Append(old[k].values, type_cast[col_types[k]][values[k]])
        /\ type_cast[col_types[k]][values[k]] \in Values
    BY DEF RowAdded
  <2>2. /\ Stored(old[k]) = old[k].values /\ old[k].values \in Seq(Values)
        /\ Stored(new[k]) = new[k].values /\ new[k].kind = "value"
    BY <2>1, StoredProperties DEF BaseSegments
  <2>3. Len(Stored(old[k])) = Len(Stored(old[1]))
    OBVIOUS
  <2> QED
    BY <2>1, <2>2, <2>3
<1>3. n > 0 => 1 \in 1..n
  BY <1>1
<1>4. Len(new) = n
  BY DEF RowAdded
<1>5. \A k \in 1..n : Len(Stored(new[k])) = Len(Stored(new[1]))
  BY <1>1, <1>2, <1>3
<1> QED
  BY <1>2, <1>4, <1>5 DEF ChunkFits

(* The step of a good append: every column of the last chunk, or of a new  *)
(* one when the last is full, grows by the converted value.                *)
LEMMA GoodAppend ==
  ASSUME CarefulInv, MaxColumns < U16, chunk_size > 0, NEW values \in Rows,
         col_types # << >>, GoodRow(values), append(values)
  PROVE  /\ result' = "ok" /\ UNCHANGED <<schema_vars, call_vars>>
         /\ \E old, new :
              /\ RowAdded(new, old, values)
              /\ \A k \in 1..Len(col_types) : Len(Stored(old[k])) = Len(Stored(old[1]))
              /\ \/ /\ Len(Stored(old[1])) = 0 /\ Len(Stored(chunks[Len(chunks)][1])) = chunk_size
                    /\ chunks' = Append(chunks, new)
                 \/ /\ Len(Stored(old[1])) < chunk_size /\ old = chunks[Len(chunks)]
                    /\ chunks' = [chunks EXCEPT ![Len(chunks)] = new]
<1> DEFINE n == Len(chunks)
           last == chunks[n]
<1>1. /\ n \in 1..n /\ Last(chunks) = last /\ last \in Seq(BaseSegments) /\ ChunkFits(last, col_types)
      /\ Len(last) = Len(col_types) /\ col_types \in Seq(DataTypes) /\ Len(col_types) \in Nat
      /\ chunks \in Seq(Seq(BaseSegments)) /\ Len(col_types) < U16
      /\ \A k \in 1..Len(col_types) : last[k] \in BaseSegments
  BY CarefulState
<1>2. 1 \in 1..Len(col_types) /\ last # << >>
  BY <1>1, EmptySeq
<1>3. ~SizeCrashes(last)
  BY <1>1, <1>2 DEF SizeCrashes, ChunkFits
<1>4. chunk_size_of(last) = Len(Stored(last[1])) /\ Len(Stored(last[1])) \in Nat
      /\ Len(Stored(last[1])) <= chunk_size
  <2>1. NotOverfull(last)
    BY <1>1, CarefulState DEF CarefulInv, ChunksFilled, NotOverfull
  <2>2. chunk_size_of(last) \in Nat /\ chunk_size_of(last) <= chunk_size
        /\ chunk_size_of(last) = Len(Stored(last[1]))
    BY <1>1, <1>2, <1>3, <2>1, ExactSize
  <2> QED
    BY <2>2
<1>5. values \in Seq(Variants) /\ UNCHANGED <<schema_vars, call_vars>>
  BY TableAssumption DEF append
<1>6. CASE LastChunkFull
  <2>1. Len(Stored(last[1])) = chunk_size
    <3>1. chunk_size_of(last) >= chunk_size
      BY <1>1, <1>6 DEF LastChunkFull
    <3> DEFINE size == Len(Stored(last[1]))
    <3>2. size >= chunk_size /\ size <= chunk_size /\ size \in Nat
      BY <1>4, <3>1
    <3> HIDE DEF size
    <3>3. size = chunk_size
      BY <3>2, TableAssumption
    <3> QED
      BY <3>3 DEF size
  <2>2. \A k \in 1..Len(col_types) : make_value_segment(col_types[k]) = ValueSegment(col_types[k])
    BY <1>1 DEF make_value_segment
  <2>3. ~BuildThrows
    BY <1>1, <2>2, ThrowsAssumption DEF BuildThrows
  <2> DEFINE old == BuiltChunk
             new == ChunkAppend(old, values)
  <2>4. col_types \in Seq(DataTypes \cup UnknownTypes)
    BY DEF CarefulInv, ContentInv, TypeInv, TypeOK
  <2>5. /\ old \in Seq(BaseSegments) /\ Len(old) = Len(col_types)
        /\ \A k \in 1..Len(col_types) : old[k] = ValueSegment(col_types[k])
    BY <2>2, <2>3, <2>4, BuiltChunkProperties
  <2> HIDE DEF old
  <2>6. \A k \in 1..Len(col_types) :
          old[k] \in ValueSegments /\ old[k].type = col_types[k] /\ Len(Stored(old[k])) = 0
    <3> SUFFICES ASSUME NEW k \in 1..Len(col_types)
                 PROVE  old[k] \in ValueSegments /\ old[k].type = col_types[k] /\ Len(Stored(old[k])) = 0
      OBVIOUS
    <3>1. old[k] = ValueSegment(col_types[k]) /\ col_types[k] \in DataTypes
      BY <1>1, <2>5
    <3>2. old[k] \in ValueSegments
      BY <3>1, ValueSegmentType
    <3>3. Stored(old[k]) = old[k].values
      BY <3>2, StoredProperties DEF BaseSegments
    <3>4. old[k].type = col_types[k] /\ old[k].values = << >>
      BY <3>1 DEF ValueSegment
    <3> QED
      BY <3>2, <3>3, <3>4
  <2>7. /\ ~ChunkAppendCrashes(old, values) /\ ~ChunkAppendThrows(old, values)
        /\ RowAdded(new, old, values)
    BY <1>1, <1>5, <2>5, <2>6, GoodRowAdded
  <2> HIDE DEF new
  <2>8. chunks' = Append(chunks, new) /\ result' = "ok"
    BY <1>1, <1>3, <1>6, <2>3, <2>7 DEF append, AppendTo, old, new
  <2>9. \A k \in 1..Len(col_types) : Len(Stored(old[k])) = Len(Stored(old[1]))
    BY <1>2, <2>6
  <2> QED
    BY <1>2, <1>5, <2>1, <2>6, <2>7, <2>8, <2>9
<1>7. CASE ~LastChunkFull
  <2>1. Len(Stored(last[1])) < chunk_size
    <3>1. ~(chunk_size_of(last) >= chunk_size)
      BY <1>1, <1>7 DEF LastChunkFull
    <3> QED
      BY <1>4, <3>1, TableAssumption
  <2>2. ASSUME NEW k \in 1..Len(col_types)
        PROVE  /\ last[k] \in ValueSegments /\ last[k].type = col_types[k]
               /\ Len(Stored(last[k])) = Len(Stored(last[1]))
    <3>1. /\ last[k].kind # "null" /\ last[k].type = col_types[k]
          /\ Len(Stored(last[k])) = Len(Stored(last[1]))
          /\ last[k].kind = "dict" => Len(Stored(last[k])) = chunk_size
      BY <1>1 DEF ChunkFits
    <3>2. last[k].kind # "dict"
      BY <1>4, <2>1, <3>1, TableAssumption
    <3> QED
      BY <1>1, <3>1, <3>2, SegmentKinds
  <2> DEFINE new == ChunkAppend(last, values)
  <2>3. /\ ~ChunkAppendCrashes(last, values) /\ ~ChunkAppendThrows(last, values)
        /\ RowAdded(new, last, values)
    BY <1>1, <1>5, <2>2, GoodRowAdded
  <2>4. chunks' = Append(SubSeq(chunks, 1, n - 1), new) /\ result' = "ok"
    BY <1>1, <1>3, <1>7, <2>3 DEF append, AppendTo
  <2>5. new \in Seq(BaseSegments) /\ chunks # << >>
    BY <1>1, <2>3, EmptySeq DEF RowAdded
  <2> HIDE DEF new
  <2>6. chunks' = [chunks EXCEPT ![n] = new]
    BY <1>1, <2>4, <2>5, ReplaceLast
  <2> QED
    BY <1>5, <2>1, <2>2, <2>3, <2>4, <2>6
<1> QED
  BY <1>6, <1>7

-----------------------------------------------------------------------------
(* The invariant                                                           *)

(* Every chunk fits after a step that replaces one chunk or adds one.      *)
LEMMA FitsAfterReplacing ==
  ASSUME CarefulInv, MaxColumns < U16, UNCHANGED col_types,
         NEW t \in 1..Len(chunks), NEW new, ChunkFits(new, col_types),
         chunks' = [chunks EXCEPT ![t] = new]
  PROVE  \A c \in 1..Len(chunks') : ChunkFits(chunks'[c], col_types')
<1>1. /\ Len(chunks') = Len(chunks) /\ chunks'[t] = new
      /\ \A c \in 1..Len(chunks) : c # t => chunks'[c] = chunks[c]
  BY CarefulState
<1>2. \A c \in 1..Len(chunks) : ChunkFits(chunks[c], col_types)
  BY DEF CarefulInv
<1> QED
  BY <1>1, <1>2

(* Adding a chunk that fits the schema keeps that all of them do.          *)
LEMMA FitsAfterAdding ==
  ASSUME CarefulInv, MaxColumns < U16, UNCHANGED col_types,
         NEW new \in Seq(BaseSegments), ChunkFits(new, col_types), chunks' = Append(chunks, new)
  PROVE  \A c \in 1..Len(chunks') : ChunkFits(chunks'[c], col_types')
<1> DEFINE n == Len(chunks)
<1>1. n \in Nat /\ chunks \in Seq(Seq(BaseSegments))
  BY CarefulState
<1>2. /\ Len(chunks') = n + 1 /\ chunks'[n + 1] = new
      /\ \A c \in 1..n : chunks'[c] = chunks[c]
  BY <1>1, AppendProperties
<1>3. \A c \in 1..n : ChunkFits(chunks[c], col_types)
  BY DEF CarefulInv
<1> HIDE DEF n
<1>4. \A c \in 1..n + 1 : c \in 1..n \/ c = n + 1
  BY <1>1
<1> QED
  BY <1>2, <1>3, <1>4

(* A new table fits its empty schema.                                      *)
LEMMA CarefulInit == Init => CarefulInv
<1> SUFFICES ASSUME Init PROVE CarefulInv
  OBVIOUS
<1>1. ContentInv /\ ChunksFilled
  BY ContentInit, FilledInit
<1>2. /\ col_types = << >> /\ chunks = << << >> >> /\ pc = "idle" /\ result = "ok"
  BY DEF Init
<1>3. \A c \in 1..Len(chunks) : ChunkFits(chunks[c], col_types)
  BY <1>2 DEF ChunkFits
<1> QED
  BY <1>1, <1>2, <1>3 DEF CarefulInv, NeverFails, TasksFit

(* A table without entries has one chunk, and its columns are empty.       *)
LEMMA NoEntries ==
  ASSUME CarefulInv, MaxColumns < U16, chunk_size > 0, ~HasEntries
  PROVE  /\ Len(chunks) = 1
         /\ \A k \in 1..Len(col_types) : Len(Stored(chunks[1][k])) = 0
<1>1. \A c \in 1..Len(chunks) : \A k \in 1..Len(col_types) :
        k \in DOMAIN chunks[c] /\ Len(Stored(chunks[c][k])) = 0
  <2> SUFFICES ASSUME NEW c \in 1..Len(chunks), NEW k \in 1..Len(col_types)
               PROVE  k \in DOMAIN chunks[c] /\ Len(Stored(chunks[c][k])) = 0
    OBVIOUS
  <2>1. c \in DOMAIN chunks /\ k \in DOMAIN chunks[c]
    BY CarefulState
  <2>2. Stored(chunks[c][k]) = << >>
    BY <2>1 DEF HasEntries
  <2> QED
    BY <2>1, <2>2
<1>2. ASSUME Len(chunks) # 1 PROVE FALSE
  <2>1. 1 \in 1..Len(chunks) /\ 1 < Len(chunks) /\ 1 \in DOMAIN chunks
    BY <1>2, CarefulState
  <2>2. chunks[1] # << >> /\ Len(Stored(chunks[1][1])) = chunk_size
    BY <2>1 DEF CarefulInv, ChunksFilled
  <2>3. 1 \in 1..Len(col_types)
    BY <2>1, <2>2, CarefulState, EmptySeq
  <2> QED
    BY <1>1, <2>1, <2>2, <2>3, TableAssumption
<1>3. 1 \in 1..Len(chunks)
  BY CarefulState
<1> QED
  BY <1>1, <1>2, <1>3

(* add_column in a table without entries.                                  *)
LEMMA CarefulAddColumn ==
  ASSUME CarefulInv, MaxColumns < U16, chunk_size > 0,
         NEW name \in Names, NEW type \in DataTypes, ~HasEntries, add_column(name, type)
  PROVE  /\ NeverFails' /\ TasksFit'
         /\ \A k \in 1..Len(col_types') : col_types'[k] \in DataTypes
         /\ \A c \in 1..Len(chunks') : ChunkFits(chunks'[c], col_types')
<1> DEFINE segment == make_value_segment(type)
           m == Len(col_types)
           old == chunks[1]
           new == Append(old, segment)
<1>1. segment = ValueSegment(type) /\ segment # Throws
  BY ThrowsAssumption DEF make_value_segment
<1>2. segment \in BaseSegments /\ segment.kind = "value" /\ segment.type = type /\ Len(Stored(segment)) = 0
  <2>1. segment.kind = "value" /\ segment.type = type
    BY <1>1 DEF ValueSegment
  <2> QED
    BY <1>1, <2>1, make_value_segmentType, FreshSegment
<1>3. Len(chunks) = 1 /\ \A k \in 1..m : Len(Stored(old[k])) = 0
  BY NoEntries
<1>4. /\ col_types' = Append(col_types, type) /\ chunks' = [chunks EXCEPT ![1] = new]
      /\ result' = "ok" /\ pc' = "idle"
  BY <1>1, <1>3 DEF add_column, Ready, call_vars
<1>5. /\ col_types \in Seq(DataTypes) /\ m \in Nat /\ old \in Seq(BaseSegments) /\ Len(old) = m
      /\ chunks \in Seq(Seq(BaseSegments)) /\ ChunkFits(old, col_types)
  BY <1>3, CarefulState
<1> HIDE DEF segment
<1>6. /\ Len(col_types') = m + 1 /\ col_types'[m + 1] = type
      /\ \A k \in 1..m : col_types'[k] = col_types[k] /\ col_types[k] \in DataTypes
  BY <1>4, <1>5, AppendProperties
<1>7. Len(new) = m + 1 /\ new[m + 1] = segment /\ \A k \in 1..m : new[k] = old[k]
  BY <1>2, <1>5, AppendProperties
<1>8. Len(chunks') = 1 /\ chunks'[1] = new
  BY <1>3, <1>4, <1>5
<1> HIDE DEF new, old, m
<1>9. \A k \in 1..m + 1 : k \in 1..m \/ k = m + 1
  BY <1>5
<1>10. \A k \in 1..m + 1 :
         /\ new[k].kind # "null" /\ new[k].type = col_types'[k] /\ Len(Stored(new[k])) = 0
         /\ new[k].kind # "dict"
  <2>1. \A k \in 1..m : new[k].kind # "null" /\ new[k].type = col_types'[k]
    BY <1>5, <1>6, <1>7 DEF ChunkFits, m
  <2>2. \A k \in 1..m : new[k].kind # "dict"
    BY <1>3, <1>5, <1>7, TableAssumption DEF ChunkFits, m
  <2> QED
    BY <1>2, <1>3, <1>6, <1>7, <1>9, <2>1, <2>2
<1>11. 1 \in 1..m + 1
  BY <1>5
<1>12. ChunkFits(new, col_types')
  BY <1>6, <1>7, <1>10, <1>11 DEF ChunkFits
<1>13. \A c \in 1..Len(chunks') : ChunkFits(chunks'[c], col_types')
  BY <1>8, <1>12
<1>14. \A k \in 1..Len(col_types') : col_types'[k] \in DataTypes
  BY <1>6, <1>9
<1>15. NeverFails' /\ TasksFit'
  BY <1>4 DEF NeverFails, TasksFit
<1> QED
  BY <1>13, <1>14, <1>15

(* append of a row that converts to the schema.                            *)
LEMMA CarefulAppend ==
  ASSUME CarefulInv, MaxColumns < U16, chunk_size > 0, NEW values \in Rows,
         col_types # << >>, GoodRow(values), append(values)
  PROVE  /\ NeverFails' /\ TasksFit' /\ UNCHANGED col_types
         /\ \A c \in 1..Len(chunks') : ChunkFits(chunks'[c], col_types')
<1>1. result' = "ok" /\ UNCHANGED <<schema_vars, call_vars>>
  BY GoodAppend
<1>2. UNCHANGED col_types /\ pc' = "idle"
  BY <1>1 DEF schema_vars, call_vars, append, Ready
<1>3. PICK old, new :
        /\ RowAdded(new, old, values)
        /\ \A k \in 1..Len(col_types) : Len(Stored(old[k])) = Len(Stored(old[1]))
        /\ \/ chunks' = Append(chunks, new)
           \/ chunks' = [chunks EXCEPT ![Len(chunks)] = new]
  BY GoodAppend
<1>4. ChunkFits(new, col_types) /\ new \in Seq(BaseSegments)
  BY <1>3, RowAddedFits, CarefulState DEF RowAdded
<1>5. Len(chunks) \in 1..Len(chunks)
  BY CarefulState
<1>6. \A c \in 1..Len(chunks') : ChunkFits(chunks'[c], col_types')
  BY <1>2, <1>3, <1>4, <1>5, FitsAfterReplacing, FitsAfterAdding
<1>7. NeverFails' /\ TasksFit'
  BY <1>1, <1>2 DEF NeverFails, TasksFit
<1> QED
  BY <1>2, <1>6, <1>7

(* compress_chunk of a full chunk that is not compressed.                  *)
LEMMA CarefulCompress ==
  ASSUME CarefulInv, MaxColumns < U16, chunk_size > 0, NEW c \in 1..Len(chunks),
         chunk_size_of(chunks[c]) = chunk_size, Uncompressed(chunks[c]), compress_chunk(c - 1)
  PROVE  NeverFails' /\ TasksFit' /\ UNCHANGED <<col_types, chunks>>
<1>1. c \in Nat /\ Len(chunks) \in Nat /\ c <= Len(chunks) /\ ~(c - 1 >= Len(chunks)) /\ c - 1 + 1 = c
  BY CarefulState
<1>2. /\ pc' = "collect" /\ target' = c /\ UNCHANGED <<col_types, chunks, result>>
      /\ \E policy \in [1..chunk_column_count(chunks[c]) -> Policies] :
           futures' = [k \in DOMAIN policy |-> [state |-> policy[k], segment |-> NullSegment]]
  BY <1>1 DEF compress_chunk, schema_vars
<1>3. \A k \in DOMAIN futures' : futures'[k].state \in Policies
  BY <1>2
<1>4. DOMAIN futures' = 1..Len(futures')
  <2>1. chunk_column_count(chunks[c]) \in Nat
    BY CarefulState, ColumnCount
  <2>2. PICK policy \in [1..chunk_column_count(chunks[c]) -> Policies] :
          futures' = [k \in DOMAIN policy |-> [state |-> policy[k], segment |-> NullSegment]]
    BY <1>2
  <2>3. futures' = [k \in 1..chunk_column_count(chunks[c]) |-> [state |-> policy[k], segment |-> NullSegment]]
    BY <2>2
  <2> QED
    BY <2>1, <2>3
<1>5. Len(Stored(chunks[c][1])) = chunk_size
  <2>1. chunks[c] # << >>
    BY TableAssumption DEF chunk_size_of
  <2>2. chunks[c] \in Seq(BaseSegments) /\ NotOverfull(chunks[c]) /\ ChunkFits(chunks[c], col_types)
        /\ Len(chunks[c]) = Len(col_types)
    BY CarefulState DEF CarefulInv, ChunksFilled, NotOverfull
  <2>3. 1 \in 1..Len(col_types)
    BY <2>1, <2>2, EmptySeq
  <2>4. ~SizeCrashes(chunks[c])
    BY <2>2, <2>3 DEF ChunkFits, SizeCrashes
  <2> QED
    BY <2>1, <2>2, <2>4, ExactSize
<1>6. TasksFit'
  <2>1. \A k \in 1..Len(futures') : futures'[k].state # "threw" /\ futures'[k].state # "done"
    BY <1>3, <1>4 DEF Policies
  <2>2. chunks'[target'] = chunks[c]
    BY <1>2
  <2> QED
    BY <1>2, <1>5, <2>1, <2>2 DEF TasksFit, Uncompressed
<1> QED
  BY <1>2, <1>6 DEF NeverFails, CarefulInv

(* A column of at most 2^32 - 1 values fits one of the widths, so that the  *)
(* constructor of its dictionary segment does not run out of them.         *)
LEMMA SomeWidth ==
  ASSUME NEW values \in Seq(Values), Len(values) < U32
  PROVE  WidthChoices(Cardinality(set_dict(values))) # {}
<1> DEFINE S == set_dict(values)
           n == Cardinality(S)
<1>1. n \in Nat
  BY SetDictProperties, FS_CardinalityType
<1>2. n <= Len(values)
  <2>1. CASE values # << >> /\ values[1] = NaN
    <3>1. n = 1
      BY <2>1, FS_Singleton DEF set_dict
    <3>2. Len(values) \in Nat /\ Len(values) # 0
      BY <2>1, EmptySeq
    <3> QED
      BY <3>1, <3>2
  <2>2. CASE ~(values # << >> /\ values[1] = NaN)
    <3>1. S \subseteq Range(values)
      BY <2>2 DEF set_dict
    <3>2. IsFiniteSet(1..Len(values)) /\ Cardinality(1..Len(values)) = Len(values)
      <4>1. Len(values) \in Nat
        OBVIOUS
      <4> DEFINE l == Len(values)
      <4>2. IsFiniteSet(1..l) /\ Cardinality(1..l) = IF 1 > l THEN 0 ELSE l - 1 + 1
        BY <4>1, FS_Interval, SMT
      <4> HIDE DEF l
      <4>3. Cardinality(1..l) = l
        BY <4>1, <4>2 DEF l
      <4> QED
        BY <4>2, <4>3 DEF l
    <3>3. values \in Surjection(1..Len(values), Range(values))
      BY DEF Range, Surjection
    <3>4. IsFiniteSet(Range(values)) /\ Cardinality(Range(values)) <= Len(values)
      BY <3>2, <3>3, FS_Surjection
    <3>5. n <= Cardinality(Range(values))
      BY <3>1, <3>4, FS_Subset
    <3>6. Cardinality(Range(values)) \in Nat /\ Len(values) \in Nat
      BY <3>4, FS_CardinalityType
    <3> QED
      BY <1>1, <3>4, <3>5, <3>6
  <2> QED
    BY <2>1, <2>2
<1>3. n < U32
  BY <1>1, <1>2, WidthAssumption
<1> HIDE DEF n
<1>4. \E w \in WidthChoices(n) : TRUE
  <2>1. CASE n = 0
    BY <2>1 DEF WidthChoices, Widths
  <2>2. CASE n # 0 /\ n < U8
    <3>1. 1 \in WidthChoices(n)
      BY <2>2 DEF WidthChoices, Widths, EntropyFits, IdLimit
    <3> QED
      BY <3>1
  <2>3. CASE n # 0 /\ ~(n < U8) /\ n < U16
    <3>1. 2 \in WidthChoices(n)
      BY <2>3 DEF WidthChoices, Widths, EntropyFits, IdLimit
    <3> QED
      BY <3>1
  <2>4. CASE n # 0 /\ ~(n < U8) /\ ~(n < U16)
    <3>1. 4 \in WidthChoices(n)
      BY <1>3, <2>4 DEF WidthChoices, Widths, EntropyFits, IdLimit
    <3> QED
      BY <3>1
  <2> QED
    BY <2>1, <2>2, <2>3, <2>4
<1> QED
  BY <1>4 DEF n

(* No task of a careful caller's compress_chunk fails: its column is a      *)
(* value segment of the type the task casts to, and no longer than a chunk. *)
LEMMA CarefulTask ==
  ASSUME CarefulInv, MaxColumns < U16, NEW k \in 1..MaxColumns, run_task(k)
  PROVE  NeverFails' /\ TasksFit' /\ UNCHANGED <<col_types, chunks>>
<1> DEFINE old == chunks[target][k]
           type == col_types[k]
<1>1. /\ k \in DOMAIN futures /\ Running
      /\ UNCHANGED <<schema_vars, chunks, pc, target, dict_chunk>>
  BY run_taskCases DEF CarefulInv, ContentInv
<1>2. /\ target \in DOMAIN chunks /\ k \in 1..Len(chunks[target]) /\ old \in BaseSegments
      /\ k \in DOMAIN chunks[target]
  BY <1>1, TaskSegment, CarefulState DEF CarefulInv, ContentInv
<1>3. k \in 1..Len(col_types) /\ type \in DataTypes /\ ChunkFits(chunks[target], col_types)
  BY <1>2, CarefulState
<1>4. old.kind = "value" /\ Len(Stored(chunks[target][1])) = chunk_size /\ pc = "collect"
  BY <1>1, <1>2 DEF CarefulInv, TasksFit, Uncompressed, Running
<1>5. old.type = type /\ Len(Stored(old)) = chunk_size
  BY <1>3, <1>4 DEF ChunkFits
<1>6. old.values \in Seq(Values) /\ Len(old.values) < U32
  BY <1>2, <1>4, <1>5, SegmentKinds, StoredProperties, TableAssumption
<1>7. WidthChoices(Cardinality(set_dict(old.values))) # {}
  BY <1>6, SomeWidth
<1>8. CastSucceeds(old, type)
  BY <1>4, <1>5 DEF CastSucceeds
<1>9. \A outcome \in compress_segment(old, type) :
        outcome.state = "done" /\ outcome.segment.type = type
  BY <1>3, <1>7 DEF compress_segment, DictionarySegment
<1>10. UNCHANGED result /\ \E outcome \in compress_segment(old, type) : futures' = [futures EXCEPT ![k] = outcome]
  BY <1>8 DEF run_task
<1>11. PICK outcome \in compress_segment(old, type) : futures' = [futures EXCEPT ![k] = outcome]
  BY <1>10
<1>12. futures \in Seq(Tasks) /\ DOMAIN futures = 1..Len(futures)
  BY DEF CarefulInv, ContentInv, TypeInv, TypeOK
<1>13. /\ Len(futures') = Len(futures) /\ futures'[k] = outcome
       /\ \A j \in 1..Len(futures) : j # k => futures'[j] = futures[j]
  <2>1. TypeInv'
    BY TypeRunTask DEF CarefulInv, ContentInv
  <2>2. DOMAIN futures' = DOMAIN futures /\ DOMAIN futures' = 1..Len(futures')
    BY <1>11, <2>1 DEF TypeInv, TypeOK
  <2>3. Len(futures) \in Nat /\ Len(futures') \in Nat
    BY <1>12, <2>1 DEF TypeInv, TypeOK
  <2> QED
    BY <1>1, <1>11, <1>12, <2>2, <2>3
<1>14. \A j \in 1..Len(futures') :
         futures'[j].state # "threw" /\ (futures'[j].state = "done" => futures'[j].segment.type = col_types[j])
  <2> SUFFICES ASSUME NEW j \in 1..Len(futures')
               PROVE  /\ futures'[j].state # "threw"
                      /\ futures'[j].state = "done" => futures'[j].segment.type = col_types[j]
    OBVIOUS
  <2>1. CASE j = k
    BY <1>9, <1>13, <2>1
  <2>2. CASE j # k
    BY <1>4, <1>13, <2>2 DEF CarefulInv, TasksFit
  <2> QED
    BY <2>1, <2>2
<1> QED
  BY <1>1, <1>4, <1>10, <1>14 DEF NeverFails, CarefulInv, TasksFit, Uncompressed, schema_vars

(* Collecting the results and putting the new chunk in place.              *)
LEMMA CarefulCallerStep ==
  ASSUME CarefulInv, MaxColumns < U16, CallerStep
  PROVE  /\ NeverFails' /\ TasksFit' /\ UNCHANGED col_types
         /\ \A c \in 1..Len(chunks') : ChunkFits(chunks'[c], col_types')
<1>1. \A c \in 1..Len(chunks) : ChunkFits(chunks[c], col_types)
  BY DEF CarefulInv
<1>2. pc # "idle" /\ pc = "collect"
  BY DEF CarefulInv, TasksFit, CallerStep, collect, unwind, replace_chunk, Running
<1>3. ASSUME collect
      PROVE  /\ NeverFails' /\ TasksFit' /\ UNCHANGED <<col_types, chunks>>
  <2>1. NextFuture \in 1..Len(futures)
    BY <1>3 DEF collect, CarefulInv, ContentInv, TypeInv, TypeOK
  <2>2. futures[NextFuture].state # "threw"
    BY <1>2, <2>1 DEF CarefulInv, TasksFit
  <2>3. pc' = "collect" /\ UNCHANGED <<col_types, chunks, target, futures, result>>
    BY <1>2, <1>3, <2>2 DEF collect, schema_vars
  <2> QED
    BY <1>2, <2>3 DEF CarefulInv, NeverFails, TasksFit, Uncompressed
<1>4. ASSUME replace_chunk
      PROVE  /\ NeverFails' /\ TasksFit' /\ UNCHANGED col_types
             /\ \A c \in 1..Len(chunks') : ChunkFits(chunks'[c], col_types')
  <2>1. pc' = "idle" /\ result' = "ok" /\ UNCHANGED col_types /\ chunks' = [chunks EXCEPT ![target] = dict_chunk]
    BY <1>4 DEF replace_chunk, EndCall, schema_vars
  <2>2. [Next]_vars /\ ContentInv
    BY <1>4 DEF Next, CallerStep, CarefulInv
  <2>3. LeavesChunks \/ ReplacesChunk
    BY <1>2, <2>2, StepEffect
  <2>4. NeverFails' /\ TasksFit'
    BY <2>1 DEF NeverFails, TasksFit
  <2>5. ASSUME LeavesChunks
        PROVE  \A c \in 1..Len(chunks') : ChunkFits(chunks'[c], col_types')
    BY <1>1, <2>5 DEF LeavesChunks
  <2>6. ASSUME ReplacesChunk
        PROVE  \A c \in 1..Len(chunks') : ChunkFits(chunks'[c], col_types')
    <3> DEFINE old == chunks[target]
    <3>1. /\ target \in 1..Len(chunks) /\ Len(dict_chunk) = Len(old)
          /\ \A k \in 1..Len(dict_chunk) : Compresses(dict_chunk[k], old[k])
      BY <2>6 DEF ReplacesChunk
    <3>2. ChunkFits(old, col_types) /\ Len(old) = Len(col_types) /\ Len(col_types) \in Nat
      BY <3>1, CarefulState
    <3>3. Len(Stored(old[1])) = chunk_size
      BY <1>2 DEF CarefulInv, TasksFit
    <3>4. \A k \in 1..Len(col_types) : Len(Stored(dict_chunk[k])) = chunk_size /\ dict_chunk[k].kind # "null"
      BY <3>1, <3>2, <3>3 DEF Compresses, ChunkFits
    <3>5. \A k \in 1..Len(col_types) : dict_chunk[k].type = col_types[k]
      <4>1. 1..Len(dict_chunk) \subseteq 1..Len(futures)
        <5>1. Len(dict_chunk) <= Len(futures) /\ Len(dict_chunk) \in Nat /\ Len(futures) \in Nat
          BY <1>2 DEF CarefulInv, ContentInv, TypeInv, TypeOK, Shape
        <5> QED
          BY <5>1
      <4>2. \A k \in 1..Len(dict_chunk) : futures[k].state = "done" /\ dict_chunk[k] = futures[k].segment
        BY <1>2, <2>2 DEF ContentInv, TasksFaithful
      <4>3. \A k \in 1..Len(futures) : futures[k].state = "done" => futures[k].segment.type = col_types[k]
        BY <1>2 DEF CarefulInv, TasksFit
      <4> QED
        BY <3>1, <3>2, <4>1, <4>2, <4>3
    <3>6. Len(col_types) > 0 => 1 \in 1..Len(col_types)
      BY <3>2
    <3>7. ChunkFits(dict_chunk, col_types)
      BY <3>1, <3>2, <3>4, <3>5, <3>6 DEF ChunkFits
    <3> QED
      BY <2>1, <3>1, <3>7, FitsAfterReplacing
  <2> QED
    BY <2>1, <2>3, <2>4, <2>5, <2>6
<1>5. ~unwind
  BY <1>2 DEF unwind
<1> QED
  BY <1>1, <1>3, <1>4, <1>5 DEF CallerStep, ChunkFits

(* CarefulInv is inductive.                                                *)
LEMMA CarefulStep ==
  ASSUME MaxColumns < U16, chunk_size > 0
  PROVE  CarefulInv /\ [CarefulNext]_vars => CarefulInv'
<1> SUFFICES ASSUME CarefulInv, [CarefulNext]_vars PROVE CarefulInv'
  OBVIOUS
<1>1. [Next]_vars
  BY CarefulIsNext
<1>2. ContentInv' /\ ChunksFilled'
  BY <1>1, ContentStep, FilledStep DEF CarefulInv
<1> DEFINE Kept == /\ NeverFails' /\ TasksFit'
                   /\ \A k \in 1..Len(col_types') : col_types'[k] \in DataTypes
                   /\ \A c \in 1..Len(chunks') : ChunkFits(chunks'[c], col_types')
<1>3. ASSUME UNCHANGED <<col_types, chunks>>, NeverFails', TasksFit' PROVE Kept
  BY <1>3 DEF CarefulInv
<1>4. ASSUME UNCHANGED vars
      PROVE  Kept
  <2>1. UNCHANGED <<col_types, chunks>> /\ UNCHANGED result /\ UNCHANGED <<pc, target, futures>>
    BY <1>4 DEF vars, schema_vars, call_vars
  <2>2. NeverFails' /\ TasksFit'
    BY <2>1 DEF CarefulInv, NeverFails, TasksFit, Uncompressed
  <2> QED
    BY <1>3, <2>1, <2>2
<1>5. ASSUME NEW name \in Names, NEW type \in DataTypes, ~HasEntries, add_column(name, type)
      PROVE  Kept
  BY <1>5, CarefulAddColumn
<1>6. ASSUME NEW values \in Rows, col_types # << >>, GoodRow(values), append(values)
      PROVE  Kept
  BY <1>6, CarefulAppend DEF CarefulInv
<1>7. ASSUME NEW c \in 1..Len(chunks), chunk_size_of(chunks[c]) = chunk_size,
             Uncompressed(chunks[c]), compress_chunk(c - 1)
      PROVE  Kept
  BY <1>3, <1>7, CarefulCompress
<1>8. ASSUME NEW k \in 1..MaxColumns, run_task(k)
      PROVE  Kept
  BY <1>3, <1>8, CarefulTask
<1>9. ASSUME CallerStep
      PROVE  Kept
  BY <1>9, CarefulCallerStep DEF CarefulInv
<1> HIDE DEF Kept
<1>10. Kept
  BY <1>4, <1>5, <1>6, <1>7, <1>8, <1>9 DEF CarefulNext
<1> QED
  BY <1>2, <1>10 DEF CarefulInv, Kept

-----------------------------------------------------------------------------
(* The theorems                                                            *)

(* With fewer than 2^16 columns and chunks of at least one row: all columns *)
(* of a chunk have the same number of values.                              *)
THEOREM ChunksRectangular ==
  ASSUME MaxColumns < U16, chunk_size > 0
  PROVE  CarefulSpec => []Rectangular
<1>1. CarefulInv => Rectangular
  <2> SUFFICES ASSUME CarefulInv, NEW c \in DOMAIN chunks, NEW j \in DOMAIN chunks[c], NEW k \in DOMAIN chunks[c]
               PROVE  Len(Stored(chunks[c][j])) = Len(Stored(chunks[c][k]))
    BY DEF Rectangular
  <2>1. ChunkFits(chunks[c], col_types) /\ j \in 1..Len(col_types) /\ k \in 1..Len(col_types)
    BY CarefulState
  <2> QED
    BY <2>1 DEF ChunkFits
<1> QED
  BY <1>1, CarefulInit, CarefulStep, PTL DEF CarefulSpec

(* Under the same conditions every chunk, compressed or not, has the       *)
(* columns of the schema with its types, and column_count, which asks the  *)
(* last chunk, is their number.                                            *)
THEOREM ChunksMatchSchema ==
  ASSUME MaxColumns < U16, chunk_size > 0
  PROVE  CarefulSpec => []SchemaMatches
<1>1. CarefulInv => SchemaMatches
  <2> SUFFICES ASSUME CarefulInv PROVE SchemaMatches
    OBVIOUS
  <2>1. column_count = Len(col_types)
    <3>1. /\ Last(chunks) \in Seq(BaseSegments) /\ Len(Last(chunks)) = Len(col_types)
          /\ Len(col_types) < U16
      BY CarefulState
    <3> QED
      BY <3>1, ColumnCount DEF column_count
  <2>2. ASSUME NEW c \in DOMAIN chunks
        PROVE  /\ Len(chunks[c]) = Len(col_types)
               /\ \A k \in DOMAIN chunks[c] :
                    chunks[c][k].kind # "null" /\ chunks[c][k].type = col_types[k]
    <3>1. /\ ChunkFits(chunks[c], col_types) /\ Len(chunks[c]) = Len(col_types)
          /\ DOMAIN chunks[c] = 1..Len(col_types)
      BY CarefulState
    <3> QED
      BY <3>1 DEF ChunkFits
  <2> QED
    BY <2>1, <2>2 DEF SchemaMatches
<1> QED
  BY <1>1, CarefulInit, CarefulStep, PTL DEF CarefulSpec

(* Under the same conditions no call of a careful caller throws and none   *)
(* dereferences a null pointer, in a debug and in a release build.         *)
THEOREM CarefulNeverFails ==
  ASSUME MaxColumns < U16, chunk_size > 0
  PROVE  CarefulSpec => []NeverFails
<1>1. CarefulInv => NeverFails
  BY DEF CarefulInv
<1> QED
  BY <1>1, CarefulInit, CarefulStep, PTL DEF CarefulSpec

-----------------------------------------------------------------------------
(* Rows and their positions                                                *)

(* A product with a natural number grows with its other factor.            *)
LEMMA ProductMonotone ==
  ASSUME NEW a \in Nat, NEW b \in Nat, NEW c \in Nat, a <= b
  PROVE  c * a \in Nat /\ c * a <= c * b
OBVIOUS

(* Quotient and remainder, as append and row_count use them.               *)
LEMMA DivisionIdentity ==
  ASSUME NEW x \in Nat, NEW b \in Nat \ {0}, NEW q \in Int, q = x \div b, NEW r \in Int, r = x % b
  PROVE  q \in Nat /\ r \in 0..b - 1 /\ x = b * q + r
<1>1. x = b * q + r
  OBVIOUS
<1>2. q \in Nat
  OBVIOUS
<1>3. r \in 0..b - 1
  OBVIOUS
<1> QED
  BY <1>1, <1>2, <1>3

(* A row number taken apart again gives back its chunk and its offset.     *)
LEMMA DivisionUnique ==
  ASSUME NEW b \in Nat \ {0}, NEW q \in Nat, NEW r \in 0..b - 1
  PROVE  (b * q + r) \div b = q /\ (b * q + r) % b = r
<1> DEFINE x == b * q + r
<1>1. x \in Nat
  BY ProductMonotone
<1>2. x = b * q + r
  OBVIOUS
<1> HIDE DEF x
<1>3. x \div b = q
  BY <1>1, <1>2
<1>4. x % b = r
  BY <1>1, <1>2
<1> QED
  BY <1>3, <1>4 DEF x

(* The number of rows in a sequence of chunks of which all but the last    *)
(* are full.                                                               *)
RowsOf(chunk) == IF chunk = << >> THEN 0 ELSE Len(Stored(chunk[1]))

RowsIn(all) == chunk_size * (Len(all) - 1) + RowsOf(all[Len(all)])

(* Table::row_count does not overflow when 2^32 rows do not fit.           *)
LEMMA RowsCounted ==
  ASSUME NEW all \in Seq(Seq(BaseSegments)), Len(all) # 0, Len(all) <= MaxChunks,
         chunk_size > 0, MaxChunks * chunk_size < U32,
         ~SizeCrashes(all[Len(all)]), NotOverfull(all[Len(all)])
  PROVE  /\ RowsOf(all[Len(all)]) \in Nat /\ RowsOf(all[Len(all)]) <= chunk_size
         /\ RowsIn(all) \in Nat
         /\ (chunk_size * ((Len(all) % U32) - 1) + chunk_size_of(all[Len(all)])) % U32 = RowsIn(all)
<1> DEFINE n == Len(all)
           a == RowsOf(all[n])
<1>1. n \in Nat \ {0} /\ all[n] \in Seq(BaseSegments) /\ chunk_size \in Nat \ {0}
      /\ MaxChunks \in Nat /\ U32 \in Nat \ {0} /\ n <= MaxChunks
  BY TableAssumption, WidthAssumption
<1>2. chunk_size_of(all[n]) = a /\ a \in Nat /\ a <= chunk_size
  BY <1>1, ExactSize DEF RowsOf
<1> HIDE DEF n, a
<1>3. n < U32
  <2> DEFINE p == MaxChunks * chunk_size
  <2>1. MaxChunks * 1 <= p /\ p \in Nat /\ p < U32
    BY <1>1, ProductMonotone
  <2>2. MaxChunks * 1 = MaxChunks
    BY <1>1
  <2> HIDE DEF p
  <2> QED
    BY <1>1, <2>1, <2>2
<1>4. n % U32 = n
  BY <1>1, <1>3, Remainder
<1> DEFINE x == chunk_size * (n - 1) + a
<1>5. x \in Nat /\ x < U32
  <2> DEFINE before == chunk_size * (n - 1)
             most == chunk_size * MaxChunks
  <2>1. before \in Nat
    BY <1>1, ProductMonotone
  <2>2. before + chunk_size = chunk_size * n
    BY <1>1
  <2>3. chunk_size * n <= most /\ most \in Nat
    BY <1>1, ProductMonotone
  <2>4. most < U32
    BY <1>1
  <2>5. x = before + a
    OBVIOUS
  <2> HIDE DEF before, most, x
  <2>6. before + chunk_size <= most
    BY <2>2, <2>3
  <2> QED
    BY <1>1, <1>2, <2>1, <2>3, <2>4, <2>5, <2>6
<1> HIDE DEF x
<1>6. x % U32 = x
  BY <1>1, <1>5, Remainder
<1> QED
  BY <1>2, <1>4, <1>5, <1>6 DEF RowsIn, x, n, a

(* What CarefulInv says of a sequence of chunks, for this and for the next *)
(* state.                                                                  *)
Chunked(all, types) ==
  /\ all \in Seq(Seq(BaseSegments)) /\ Len(all) # 0 /\ Len(all) <= MaxChunks
  /\ types \in Seq(DataTypes) /\ Len(types) < U16
  /\ \A c \in 1..Len(all) :
       /\ ChunkFits(all[c], types) /\ NotOverfull(all[c])
       /\ c < Len(all) => Full(all[c])

(* The chunks of a careful caller are full but for the last.               *)
LEMMA CarefulChunked ==
  ASSUME CarefulInv, MaxColumns < U16
  PROVE  Chunked(chunks, col_types)
<1>1. \A c \in 1..Len(chunks) : NotOverfull(chunks[c]) /\ (c < Len(chunks) => Full(chunks[c]))
  BY CarefulState DEF CarefulInv, ChunksFilled, NotOverfull, Full
<1>2. Len(chunks) <= MaxChunks
  BY DEF CarefulInv, ContentInv, TypeInv, Shape
<1> QED
  BY <1>1, <1>2, CarefulState DEF Chunked

(* The same in the next state.                                             *)
LEMMA CarefulChunkedNext ==
  ASSUME MaxColumns < U16
  PROVE  CarefulInv' => Chunked(chunks, col_types)'
<1>1. CarefulInv => Chunked(chunks, col_types)
  BY CarefulChunked
<1> QED
  BY <1>1, PTL

(* In such chunks the uint32_t expression of row_count is the number of    *)
(* rows.                                                                   *)
LEMMA ChunkedRows ==
  ASSUME NEW all, NEW types, Chunked(all, types), chunk_size > 0, MaxChunks * chunk_size < U32
  PROVE  /\ RowsOf(all[Len(all)]) \in Nat /\ RowsOf(all[Len(all)]) <= chunk_size
         /\ RowsIn(all) \in Nat
         /\ (chunk_size * ((Len(all) % U32) - 1) + chunk_size_of(all[Len(all)])) % U32 = RowsIn(all)
<1> DEFINE last == all[Len(all)]
<1>1. /\ all \in Seq(Seq(BaseSegments)) /\ Len(all) # 0 /\ Len(all) <= MaxChunks
      /\ Len(all) \in 1..Len(all) /\ last \in Seq(BaseSegments)
  BY DEF Chunked
<1>2. ChunkFits(last, types) /\ NotOverfull(last)
  BY <1>1 DEF Chunked
<1>3. ~SizeCrashes(last)
  <2>1. last # << >> => 1 \in 1..Len(last) /\ Len(last) = Len(types)
    BY <1>1, <1>2, EmptySeq DEF ChunkFits
  <2> QED
    BY <1>2, <2>1 DEF SizeCrashes, ChunkFits
<1> QED
  BY <1>1, <1>2, <1>3, RowsCounted

(* Every row by number is a row of a chunk: below the length of each of     *)
(* its columns.                                                            *)
LEMMA RowPosition ==
  ASSUME NEW all, NEW types, Chunked(all, types), chunk_size > 0, MaxChunks * chunk_size < U32,
         NEW r \in 1..RowsIn(all)
  PROVE  LET c == ((r - 1) \div chunk_size) + 1
             o == ((r - 1) % chunk_size) + 1
         IN  /\ c \in 1..Len(all) /\ o \in Nat /\ o > 0
             /\ \A k \in 1..Len(types) : o \in 1..Len(Stored(all[c][k]))
<1> DEFINE n == Len(all)
           a == RowsOf(all[n])
           q == (r - 1) \div chunk_size
           o == (r - 1) % chunk_size
           b == chunk_size
<1>1. /\ n \in Nat \ {0} /\ b \in Nat \ {0} /\ a \in Nat /\ a <= b /\ RowsIn(all) = b * (n - 1) + a
      /\ RowsIn(all) \in Nat
  BY ChunkedRows, TableAssumption DEF Chunked, RowsIn
<1>2. r \in Nat /\ r - 1 \in Nat /\ r - 1 < b * (n - 1) + a
  BY <1>1
<1> DEFINE y == r - 1
<1>3. y \in Nat /\ q = y \div b /\ o = y % b
  BY <1>2
<1> HIDE DEF q, o, b, y
<1>4. q \in Nat /\ o \in 0..b - 1 /\ r - 1 = b * q + o
  <2>1. q \in Int /\ o \in Int
    <3>1. y \div b \in Int
      BY <1>1, <1>3
    <3>2. y % b \in Int
      BY <1>1, <1>3
    <3> QED
      BY <1>3, <3>1, <3>2
  <2>2. b \in Nat \ {0}
    BY <1>1
  <2>3. q \in Nat /\ o \in 0..b - 1 /\ y = b * q + o
    BY ONLY <1>3, <2>1, <2>2, DivisionIdentity
  <2> QED
    BY <2>3 DEF y
<1> HIDE DEF q, o, a, n, b
<1>5. q <= n - 1
  <2> SUFFICES ASSUME q > n - 1 PROVE FALSE
    BY <1>1, <1>4
  <2>1. b * ((n - 1) + 1) <= b * q /\ b * (n - 1) \in Nat /\ b * q \in Nat
    BY <1>1, <1>4, ProductMonotone
  <2>2. b * ((n - 1) + 1) = b * (n - 1) + b
    BY <1>1
  <2> QED
    BY <1>1, <1>2, <1>4, <2>1, <2>2
<1>6. q + 1 \in 1..n
  BY <1>1, <1>4, <1>5
<1>7. q = n - 1 => o < a
  BY <1>1, <1>2, <1>4
<1>8. o < RowsOf(all[q + 1])
  <2>1. CASE q = n - 1
    BY <1>1, <1>7, <2>1 DEF a
  <2>2. CASE q # n - 1
    <3>1. q + 1 < n
      BY <1>1, <1>4, <1>5, <2>2
    <3>2. Full(all[q + 1])
      BY <1>6, <3>1 DEF Chunked, n
    <3>3. RowsOf(all[q + 1]) = b
      BY <3>2 DEF Full, RowsOf, b
    <3> QED
      BY <1>1, <1>4, <3>3
  <2> QED
    BY <2>1, <2>2
<1>9. ASSUME NEW k \in 1..Len(types)
      PROVE  o + 1 \in 1..Len(Stored(all[q + 1][k]))
  <2> DEFINE chunk == all[q + 1]
  <2>1. ChunkFits(chunk, types) /\ chunk \in Seq(BaseSegments) /\ types \in Seq(DataTypes)
    BY <1>6 DEF Chunked, n
  <2> HIDE DEF chunk
  <2>2. Len(chunk) = Len(types) /\ Len(Stored(chunk[k])) = Len(Stored(chunk[1]))
    BY <2>1 DEF ChunkFits
  <2>3. chunk # << >> /\ chunk[k] \in BaseSegments
    BY <2>1, <2>2, EmptySeq
  <2>4. Len(Stored(chunk[k])) = RowsOf(chunk) /\ Len(Stored(chunk[k])) \in Nat
    BY <2>2, <2>3, StoredProperties DEF RowsOf
  <2>5. o < Len(Stored(chunk[k]))
    BY <1>8, <2>4 DEF chunk
  <2> QED
    BY <1>4, <2>4, <2>5 DEF chunk
<1> QED
  BY <1>4, <1>6, <1>9 DEF q, o, n, b

-----------------------------------------------------------------------------
(* The relation                                                            *)

(* The variables of AbstractTable, as INSTANCE substitutes them.           *)
Columns == [k \in 1..Len(col_types) |-> [name |-> col_names[k], type |-> col_types[k]]]

Relation == [r \in 1..row_count |-> RowAt(r)]

(* What a step that no operation overflows in can rely on.                 *)
CarefulPair ==
  /\ MaxColumns < U16 /\ chunk_size > 0 /\ MaxChunks * chunk_size < U32 /\ NaN \notin Values
  /\ CarefulInv /\ CarefulInv' /\ [Next]_vars

(* Extending a sequence, given as a function, by one element.              *)
LEMMA AppendedFunction ==
  ASSUME NEW S, NEW m \in Nat, NEW old \in [1..m -> S], NEW new \in [1..m + 1 -> S],
         \A k \in 1..m : new[k] = old[k]
  PROVE  new = Append(old, new[m + 1])
<1> DEFINE e == new[m + 1]
<1>1. 1..m \subseteq 1..m + 1 /\ m + 1 \in 1..m + 1 /\ \A k \in 1..m + 1 : k \in 1..m \/ k = m + 1
  OBVIOUS
<1>2. e \in S
  BY <1>1
<1> HIDE DEF e
<1>3. old \in Seq(S) /\ Len(old) = m /\ new \in Seq(S) /\ Len(new) = m + 1
  OBVIOUS
<1>4. /\ Append(old, e) \in Seq(S) /\ Len(Append(old, e)) = m + 1
      /\ Append(old, e)[m + 1] = e /\ \A k \in 1..m : Append(old, e)[k] = old[k]
  BY <1>2, <1>3, AppendProperties
<1>5. \A k \in 1..m + 1 : new[k] = Append(old, e)[k]
  BY <1>1, <1>4 DEF e
<1>6. new = Append(old, e)
  BY <1>3, <1>4, <1>5
<1> QED
  BY <1>6 DEF e

(* Before and after a step, row_count is the number of rows.               *)
LEMMA CountExact ==
  ASSUME CarefulPair
  PROVE  /\ row_count = RowsIn(chunks) /\ row_count' = RowsIn(chunks')
         /\ RowsIn(chunks) \in Nat /\ RowsIn(chunks') \in Nat
<1>1. Chunked(chunks, col_types) /\ Chunked(chunks', col_types')
  BY CarefulChunked, CarefulChunkedNext DEF CarefulPair
<1>2. ASSUME NEW all, NEW types, Chunked(all, types)
      PROVE  /\ RowsIn(all) \in Nat
             /\ (chunk_size * ((Len(all) % U32) - 1) + chunk_size_of(all[Len(all)])) % U32 = RowsIn(all)
  BY <1>2, ChunkedRows DEF CarefulPair
<1>3. row_count = (chunk_size * ((Len(chunks) % U32) - 1) + chunk_size_of(chunks[Len(chunks)])) % U32
  BY DEF row_count, chunk_count, Last
<1>4. row_count' = (chunk_size * ((Len(chunks') % U32) - 1) + chunk_size_of(chunks'[Len(chunks')])) % U32
  BY DEF row_count, chunk_count, Last
<1> QED
  BY <1>1, <1>2, <1>3, <1>4

(* A row that is there stays as it is.                                     *)
LEMMA RowKept ==
  ASSUME CarefulPair, UNCHANGED col_types, NEW r \in 1..RowsIn(chunks)
  PROVE  RowAt(r)' = RowAt(r)
<1> DEFINE c == ((r - 1) \div chunk_size) + 1
           o == ((r - 1) % chunk_size) + 1
<1>1. c \in 1..Len(chunks) /\ \A k \in 1..Len(col_types) : o \in 1..Len(Stored(chunks[c][k]))
  BY CarefulChunked, RowPosition DEF CarefulPair
<1>2. RowAt(r) = [k \in 1..Len(col_types) |-> Stored(chunks[c][k])[o]]
  BY DEF RowAt
<1>3. RowAt(r)' = [k \in 1..Len(col_types) |-> Stored(chunks'[c][k])[o]]
  BY DEF RowAt
<1> HIDE DEF c, o
<1>4. StoredStays
  BY StoredStep DEF CarefulPair, CarefulInv
<1>5. ASSUME NEW k \in 1..Len(col_types) PROVE Stored(chunks'[c][k])[o] = Stored(chunks[c][k])[o]
  <2>1. c \in DOMAIN chunks /\ k \in DOMAIN chunks[c]
    BY <1>1, CarefulState DEF CarefulPair
  <2>2. Prefix(Stored(chunks[c][k]), Stored(chunks'[c][k]))
    BY <1>4, <2>1 DEF StoredStays
  <2> QED
    BY <1>1, <2>2 DEF Prefix
<1> QED
  BY <1>2, <1>3, <1>5

(* A step that adds no row and no column leaves the relation as it is.     *)
LEMMA RelationKept ==
  ASSUME CarefulPair, UNCHANGED schema_vars, RowsIn(chunks') = RowsIn(chunks)
  PROVE  UNCHANGED <<Columns, Relation>>
<1>1. UNCHANGED <<col_names, col_types>>
  BY DEF schema_vars
<1>2. row_count' = row_count /\ row_count = RowsIn(chunks)
  BY CountExact
<1>3. \A r \in 1..row_count : RowAt(r)' = RowAt(r)
  BY <1>1, <1>2, RowKept
<1>4. Relation' = [r \in 1..row_count |-> RowAt(r)']
  BY <1>2 DEF Relation
<1>5. Relation' = Relation
  BY <1>3, <1>4 DEF Relation
<1>6. Columns' = Columns
  BY <1>1 DEF Columns
<1> QED
  BY <1>5, <1>6

(* compress_chunk does not change the number of rows.                      *)
LEMMA ReplaceKeepsRows ==
  ASSUME CarefulPair, ReplacesChunk
  PROVE  RowsIn(chunks') = RowsIn(chunks)
<1> DEFINE n == Len(chunks)
<1>1. n \in Nat \ {0} /\ chunks \in Seq(Seq(BaseSegments))
  BY CarefulState DEF CarefulPair
<1>2. /\ target \in 1..n /\ chunks' = [chunks EXCEPT ![target] = dict_chunk]
      /\ Len(dict_chunk) = Len(chunks[target])
      /\ \A k \in 1..Len(dict_chunk) : Compresses(dict_chunk[k], chunks[target][k])
  BY DEF ReplacesChunk
<1>3. Len(chunks') = n /\ chunks'[n] = IF n = target THEN dict_chunk ELSE chunks[n]
  BY <1>1, <1>2
<1>4. RowsOf(dict_chunk) = RowsOf(chunks[target])
  <2>1. dict_chunk \in Seq(BaseSegments) /\ chunks[target] \in Seq(BaseSegments)
    BY <1>1, <1>2 DEF CarefulPair, CarefulInv, ContentInv, TypeInv, TypeOK
  <2>2. dict_chunk = << >> <=> chunks[target] = << >>
    BY <1>2, <2>1, EmptySeq
  <2>3. dict_chunk # << >> => 1 \in 1..Len(dict_chunk)
    BY <2>1, EmptySeq
  <2> QED
    BY <1>2, <2>2, <2>3 DEF RowsOf, Compresses
<1>5. RowsOf(chunks'[n]) = RowsOf(chunks[n])
  BY <1>3, <1>4
<1> QED
  BY <1>3, <1>5 DEF RowsIn

(* add_column adds a column to a relation without rows.                    *)
LEMMA AddsToRelation ==
  ASSUME CarefulPair, NEW name \in Names, NEW type \in DataTypes, ~HasEntries, add_column(name, type)
  PROVE  /\ Relation = << >> /\ Relation' = << >>
         /\ Columns' = Append(Columns, [name |-> name, type |-> type])
<1> DEFINE m == Len(col_types)
           new == Append(chunks[1], make_value_segment(type))
<1>1. Len(chunks) = 1 /\ \A k \in 1..m : Len(Stored(chunks[1][k])) = 0
  BY NoEntries DEF CarefulPair
<1>2. /\ col_types' = Append(col_types, type) /\ col_names' = Append(col_names, name)
      /\ make_value_segment(type) = ValueSegment(type)
      /\ chunks' = [chunks EXCEPT ![1] = new]
  BY <1>1, ThrowsAssumption DEF add_column, make_value_segment
<1>3. /\ chunks \in Seq(Seq(BaseSegments)) /\ chunks[1] \in Seq(BaseSegments) /\ Len(chunks[1]) = m /\ m \in Nat
      /\ col_types \in Seq(DataTypes) /\ col_names \in Seq(Names) /\ Len(col_names) = m
  BY <1>1, CarefulState DEF CarefulPair, CarefulInv, ContentInv, TypeInv, TypeOK
<1>4. RowsOf(chunks[1]) = 0
  BY <1>1, <1>3, EmptySeq DEF RowsOf
<1>5. /\ make_value_segment(type) \in BaseSegments /\ Len(Stored(make_value_segment(type))) = 0
  BY <1>2, make_value_segmentType, FreshSegment, ThrowsAssumption
<1>6. new # << >> /\ Len(Stored(new[1])) = 0
  <2> DEFINE segment == make_value_segment(type)
  <2> HIDE DEF segment
  <2>1. new = Append(chunks[1], segment) /\ segment \in BaseSegments /\ Len(Stored(segment)) = 0
    BY <1>5 DEF segment
  <2>2. Len(new) = m + 1 /\ new \in Seq(BaseSegments) /\ new[m + 1] = segment /\ \A k \in 1..m : new[k] = chunks[1][k]
    BY <1>3, <2>1, AppendProperties
  <2>3. 1 \in 1..m \/ m = 0
    BY <1>3
  <2> HIDE DEF new, m
  <2>4. Len(Stored(new[1])) = 0
    BY <1>1, <2>1, <2>2, <2>3
  <2> QED
    BY <1>3, <2>2, <2>4
<1> HIDE DEF new
<1>7. Len(chunks') = 1 /\ chunks'[1] = new
  BY <1>1, <1>2, <1>3
<1>8. RowsOf(chunks'[1]) = 0
  BY <1>6, <1>7 DEF RowsOf
<1>9. row_count = 0 /\ row_count' = 0
  BY <1>1, <1>4, <1>7, <1>8, CountExact, TableAssumption DEF RowsIn
<1>10. Relation = << >> /\ Relation' = << >>
  BY <1>9 DEF Relation
<1>11. Columns' = Append(Columns, [name |-> name, type |-> type])
  <2> DEFINE next == Columns'
  <2>1. \A k \in 1..m : Columns[k] = [name |-> col_names[k], type |-> col_types[k]]
    BY DEF Columns
  <2>2. Len(col_types') = m + 1 /\ \A k \in 1..m : col_types'[k] = col_types[k] /\ col_names'[k] = col_names[k]
    BY <1>2, <1>3, AppendProperties
  <2>3. col_types'[m + 1] = type /\ col_names'[m + 1] = name
    BY <1>2, <1>3, AppendProperties
  <2>4. next = [k \in 1..m + 1 |-> [name |-> col_names'[k], type |-> col_types'[k]]]
    BY <2>2 DEF Columns
  <2>5. \A k \in 1..m + 1 : col_types'[k] \in DataTypes /\ col_names'[k] \in Names
    <3>1. \A k \in 1..m + 1 : k \in 1..m \/ k = m + 1
      BY <1>3
    <3>2. \A k \in 1..m : col_types[k] \in DataTypes /\ col_names[k] \in Names
      BY <1>3
    <3> QED
      BY <2>2, <2>3, <3>1, <3>2
  <2>6. \A k \in 1..m : k \in 1..m + 1 /\ next[k] = Columns[k]
    <3> SUFFICES ASSUME NEW k \in 1..m PROVE k \in 1..m + 1 /\ next[k] = Columns[k]
      OBVIOUS
    <3>1. k \in 1..m + 1
      BY <1>3
    <3>2. next[k] = [name |-> col_names'[k], type |-> col_types'[k]]
      BY <2>4, <3>1
    <3> HIDE DEF next, m
    <3> QED
      BY <2>1, <2>2, <3>1, <3>2
  <2>7. next[m + 1] = [name |-> name, type |-> type]
    BY <1>3, <2>3, <2>4
  <2>8. next \in [1..m + 1 -> [name : Names, type : DataTypes]]
    BY <2>4, <2>5
  <2>9. Columns \in [1..m -> [name : Names, type : DataTypes]]
    BY <1>3 DEF Columns
  <2> HIDE DEF m, next
  <2>10. next = Append(Columns, next[m + 1])
    BY <1>3, <2>6, <2>8, <2>9, AppendedFunction
  <2> QED
    BY <2>7, <2>10 DEF next
<1> QED
  BY <1>10, <1>11

(* append adds the converted row at the end of the relation.               *)
LEMMA InsertsIntoRelation ==
  ASSUME CarefulPair, NEW values \in Rows, col_types # << >>, GoodRow(values), append(values)
  PROVE  /\ UNCHANGED Columns
         /\ Relation' = Append(Relation, [k \in 1..Len(col_types) |-> type_cast[col_types[k]][values[k]]])
<1> DEFINE b == chunk_size
           m == Len(col_types)
           n == Len(chunks)
           row == [k \in 1..m |-> type_cast[col_types[k]][values[k]]]
<1>1. UNCHANGED <<col_names, col_types>>
  BY GoodAppend DEF CarefulPair, schema_vars
<1>2. /\ n \in Nat \ {0} /\ b \in Nat \ {0} /\ m \in Nat \ {0} /\ chunks \in Seq(Seq(BaseSegments))
      /\ col_types \in Seq(DataTypes)
  BY CarefulState, TableAssumption, EmptySeq DEF CarefulPair
<1>3. PICK old, new :
        /\ RowAdded(new, old, values)
        /\ \A k \in 1..m : Len(Stored(old[k])) = Len(Stored(old[1]))
        /\ \/ /\ Len(Stored(old[1])) = 0 /\ Len(Stored(chunks[n][1])) = b
              /\ chunks' = Append(chunks, new)
           \/ /\ Len(Stored(old[1])) < b /\ old = chunks[n]
              /\ chunks' = [chunks EXCEPT ![n] = new]
  BY GoodAppend DEF CarefulPair
<1> DEFINE a == Len(Stored(old[1]))
           c == Len(chunks')
<1>4. /\ new \in Seq(BaseSegments) /\ old \in Seq(BaseSegments)
      /\ new # << >> /\ old # << >> /\ old[1] \in BaseSegments
  BY <1>2, <1>3, EmptySeq DEF RowAdded
<1>5. a \in Nat /\ a < b
  BY <1>2, <1>3, <1>4, StoredProperties
<1>6. \A k \in 1..m : Len(Stored(new[k])) = a + 1 /\ Stored(new[k])[a + 1] = type_cast[col_types[k]][values[k]]
  BY <1>2, <1>3, RowAddedFits
<1>7. RowsOf(new) = a + 1
  BY <1>2, <1>4, <1>6 DEF RowsOf
<1>8. c \in Nat \ {0} /\ chunks'[c] = new /\ RowsIn(chunks) = b * (c - 1) + a
  <2>1. chunks[n] # << >>
    <3>1. n \in 1..n /\ chunks[n] \in Seq(BaseSegments) /\ Len(chunks[n]) = m
      BY <1>2, CarefulState DEF CarefulPair
    <3> QED
      BY <1>2, <3>1
  <2>2. CASE a = 0 /\ Len(Stored(chunks[n][1])) = b /\ chunks' = Append(chunks, new)
    <3>1. c = n + 1 /\ chunks'[c] = new
      BY <1>2, <1>4, <2>2, AppendProperties
    <3>2. RowsIn(chunks) = b * (n - 1) + b
      BY <2>1, <2>2 DEF RowsIn, RowsOf
    <3> HIDE DEF n, b, c, a
    <3>3. b * (n - 1) + b = b * ((n + 1) - 1) + 0
      BY <1>2
    <3> QED
      BY <1>2, <2>2, <3>1, <3>2, <3>3
  <2>3. CASE old = chunks[n] /\ chunks' = [chunks EXCEPT ![n] = new]
    BY <1>2, <2>1, <2>3 DEF RowsIn, RowsOf
  <2> QED
    BY <1>3, <2>2, <2>3
<1>9. RowsIn(chunks') = b * (c - 1) + (a + 1)
  BY <1>7, <1>8 DEF RowsIn
<1> HIDE DEF a, b, c, n
<1>10. PICK N \in Nat : /\ N = b * (c - 1) + a /\ N = RowsIn(chunks)
                         /\ row_count = N /\ row_count' = N + 1
  <2> DEFINE x == b * (c - 1)
             N == x + a
  <2>1. x \in Nat
    BY <1>2, <1>8, ProductMonotone
  <2>2. N = RowsIn(chunks) /\ row_count = N /\ row_count' = x + (a + 1)
    BY <1>8, <1>9, CountExact
  <2>3. N = b * (c - 1) + a
    OBVIOUS
  <2> HIDE DEF x
  <2>4. N \in Nat /\ row_count' = N + 1
    BY <1>5, <2>1, <2>2
  <2> HIDE DEF N
  <2> QED
    BY <2>2, <2>3, <2>4
<1>11. RowAt(N + 1)' = row
  <2>1. N \div b = c - 1 /\ N % b = a
    <3>1. c - 1 \in Nat /\ a \in 0..b - 1
      BY <1>2, <1>5, <1>8
    <3>2. b \in Nat \ {0} /\ N = b * (c - 1) + a
      BY <1>2, <1>10
    <3> DEFINE q == c - 1
    <3> HIDE DEF q
    <3>3. q \in Nat /\ N = b * q + a
      BY <3>1, <3>2 DEF q
    <3>4. (b * q + a) \div b = q /\ (b * q + a) % b = a
      BY ONLY <3>1, <3>2, <3>3, DivisionUnique
    <3> QED
      BY <3>3, <3>4 DEF q
  <2>2. RowAt(N + 1)' = LET chunk  == chunks'[(((N + 1) - 1) \div chunk_size) + 1]
                            offset == (((N + 1) - 1) % chunk_size) + 1
                        IN  [k \in 1..Len(col_types') |-> Stored(chunk[k])[offset]]
    BY DEF RowAt
  <2>3. (N + 1) - 1 = N /\ (c - 1) + 1 = c
    BY <1>8, <1>10
  <2>4. RowAt(N + 1)' = [k \in 1..m |-> Stored(chunks'[c][k])[a + 1]]
    BY <1>1, <2>1, <2>2, <2>3 DEF b
  <2> QED
    BY <1>6, <1>8, <2>4
<1> HIDE DEF row
<1>12. \A r \in 1..N : RowAt(r)' = RowAt(r)
  BY <1>1, <1>10, RowKept
<1> DEFINE next == Relation'
           S == {next[r] : r \in 1..N + 1}
<1>13. next = [r \in 1..N + 1 |-> RowAt(r)'] /\ Relation = [r \in 1..N |-> RowAt(r)]
  BY <1>10 DEF Relation
<1>14. \A r \in 1..N : r \in 1..N + 1
  BY <1>10
<1>15. N + 1 \in 1..N + 1 /\ next[N + 1] = row
  <2>1. N + 1 \in 1..N + 1
    BY <1>10
  <2> QED
    BY <1>11, <1>13, <2>1
<1>16. \A r \in 1..N : next[r] = Relation[r]
  BY <1>12, <1>13, <1>14
<1>17. next \in [1..N + 1 -> S]
  BY <1>13
<1>18. Relation \in [1..N -> S]
  <2>1. \A r \in 1..N : Relation[r] \in S
    BY <1>14, <1>16
  <2> HIDE DEF S
  <2> QED
    BY <1>13, <2>1
<1> HIDE DEF next, S
<1>19. next = Append(Relation, next[N + 1])
  BY <1>10, <1>16, <1>17, <1>18, AppendedFunction
<1>20. UNCHANGED Columns
  BY <1>1 DEF Columns
<1> QED
  BY <1>15, <1>19, <1>20 DEF next, row

(* With fewer than 2^16 columns, chunks of at least one row, room for fewer *)
(* than 2^32 rows and no NaN, a table used with care implements            *)
(* AbstractTable: add_column and append are its two operations and every   *)
(* step of compress_chunk, in any order of its tasks, leaves the relation  *)
(* as it is.                                                               *)
THEOREM CarefulTableIsRelation ==
  ASSUME MaxColumns < U16, chunk_size > 0, MaxChunks * chunk_size < U32, NaN \notin Values
  PROVE  CarefulSpec => IsRelation
<1> USE DEF Columns, Relation
<1>1. Init => Abstract!Init
  <2> SUFFICES ASSUME Init PROVE Columns = << >> /\ Relation = << >>
    BY DEF Abstract!Init
  <2>1. col_types = << >> /\ chunks = << << >> >>
    BY DEF Init
  <2>2. row_count = 0
    <3>1. Len(chunks) = 1 /\ Last(chunks) = << >>
      BY <2>1 DEF Last
    <3>2. chunk_count = 1 /\ chunk_size_of(Last(chunks)) = 0
      BY <3>1, WidthAssumption DEF chunk_count, chunk_size_of
    <3>3. (chunk_size * (1 - 1) + 0) % U32 = 0
      BY TableAssumption, WidthAssumption
    <3> QED
      BY <3>2, <3>3 DEF row_count
  <2> QED
    BY <2>1, <2>2
<1>2. CarefulInv /\ CarefulInv' /\ [CarefulNext]_vars => [Abstract!Next]_(Abstract!vars)
  <2> SUFFICES ASSUME CarefulInv, CarefulInv', [CarefulNext]_vars
               PROVE  Abstract!Next \/ UNCHANGED <<Columns, Relation>>
    BY DEF Abstract!vars
  <2>1. CarefulPair
    BY CarefulIsNext DEF CarefulPair
  <2> HIDE DEF Columns, Relation
  <2>2. ASSUME UNCHANGED chunks, UNCHANGED schema_vars PROVE UNCHANGED <<Columns, Relation>>
    BY <2>1, <2>2, RelationKept
  <2>3. CASE UNCHANGED vars
    BY <2>2, <2>3 DEF vars
  <2>4. ASSUME NEW name \in Names, NEW type \in DataTypes, ~HasEntries, add_column(name, type)
        PROVE  Abstract!Next
    <3>1. /\ Relation = << >> /\ Relation' = << >>
          /\ Columns' = Append(Columns, [name |-> name, type |-> type])
      BY <2>1, <2>4, AddsToRelation
    <3>2. Abstract!AddColumn(name, type)
      BY <3>1 DEF Abstract!AddColumn, Columns, Relation
    <3> QED
      BY <3>2 DEF Abstract!Next
  <2>5. ASSUME NEW values \in Rows, col_types # << >>, GoodRow(values), append(values)
        PROVE  Abstract!Next
    <3>1. /\ UNCHANGED Columns
          /\ Relation' = Append(Relation, [k \in 1..Len(col_types) |-> type_cast[col_types[k]][values[k]]])
      BY <2>1, <2>5, InsertsIntoRelation
    <3>2. /\ Len(Columns) = Len(col_types) /\ Len(values) = Len(col_types) /\ DOMAIN values = 1..Len(col_types)
          /\ \A k \in 1..Len(col_types) : Columns[k].type = col_types[k]
      <4>1. Len(col_types) \in Nat
        BY <2>1, CarefulState DEF CarefulPair
      <4>2. values \in Seq(Variants) /\ Len(values) = Len(col_types)
        BY <2>5, TableAssumption DEF GoodRow
      <4>3. Len(Columns) = Len(col_types)
        BY <4>1 DEF Columns
      <4>4. \A k \in 1..Len(col_types) : Columns[k].type = col_types[k]
        BY DEF Columns
      <4> QED
        BY <4>1, <4>2, <4>3, <4>4
    <3>3. \A k \in DOMAIN values : type_cast[Columns[k].type][values[k]] # Throws
      BY <2>5, <3>2 DEF GoodRow
    <3>4. [k \in 1..Len(col_types) |-> type_cast[col_types[k]][values[k]]]
            = [k \in 1..Len(Columns) |-> type_cast[Columns[k].type][values[k]]]
      BY <3>2
    <3>5. /\ Len(values) = Len(Columns)
          /\ Relation' = Append(Relation, [k \in 1..Len(Columns) |-> type_cast[Columns[k].type][values[k]]])
      BY <3>1, <3>2, <3>4
    <3>6. Abstract!Insert(values)
      BY <3>1, <3>3, <3>5 DEF Abstract!Insert, Columns, Relation
    <3> QED
      BY <2>5, <3>6 DEF Abstract!Next
  <2>6. ASSUME NEW k \in 1..Len(chunks), compress_chunk(k - 1)
        PROVE  UNCHANGED <<Columns, Relation>>
    BY <2>2, <2>6 DEF compress_chunk
  <2>7. ASSUME NEW k \in 1..MaxColumns, run_task(k)
        PROVE  UNCHANGED <<Columns, Relation>>
    BY <2>2, <2>7 DEF run_task
  <2>8. ASSUME collect \/ unwind
        PROVE  UNCHANGED <<Columns, Relation>>
    BY <2>2, <2>8 DEF collect, unwind
  <2>9. ASSUME replace_chunk
        PROVE  UNCHANGED <<Columns, Relation>>
    <3>1. UNCHANGED schema_vars /\ pc # "idle"
      BY <2>9 DEF replace_chunk, Running
    <3>2. LeavesChunks \/ ReplacesChunk
      BY <2>1, <3>1, StepEffect DEF CarefulPair, CarefulInv
    <3>3. CASE LeavesChunks
      BY <2>2, <3>1, <3>3 DEF LeavesChunks
    <3>4. CASE ReplacesChunk
      BY <2>1, <3>1, <3>4, ReplaceKeepsRows, RelationKept
    <3> QED
      BY <3>2, <3>3, <3>4
  <2> QED
    BY <2>3, <2>4, <2>5, <2>6, <2>7, <2>8, <2>9 DEF CarefulNext, CallerStep
<1>3. CarefulInv /\ [CarefulNext]_vars => CarefulInv'
  BY CarefulStep
<1> QED
  BY <1>1, <1>2, <1>3, CarefulInit, PTL DEF CarefulSpec, IsRelation, Abstract!Spec

-----------------------------------------------------------------------------
(* Print                                                                   *)

(* Reading the segment at any of its offsets gives a value.                *)
NoThrow(segment) == \A i \in 1..Len(Stored(segment)) : Stored(segment)[i] # Throws

Readable == \A c \in 1..Len(chunks) : \A k \in 1..Len(chunks[c]) : NoThrow(chunks[c][k])

(* Only a dictionary segment can make a reader throw.                      *)
LEMMA UncompressedReadable ==
  ASSUME NEW segment \in BaseSegments, segment.kind # "dict"
  PROVE  NoThrow(segment)
<1>1. CASE segment \in ValueSegments
  <2>1. Stored(segment) = segment.values /\ segment.values \in Seq(Values)
    BY <1>1, StoredProperties
  <2>2. \A i \in 1..Len(segment.values) : segment.values[i] \in Values
    BY <2>1
  <2>3. Throws \notin Values
    BY ValueAssumption
  <2> QED
    BY <2>1, <2>2, <2>3 DEF NoThrow
<1>2. CASE segment = NullSegment
  <2>1. Stored(segment) = << >>
    BY <1>2, StoredProperties DEF NullSegment
  <2> QED
    BY <2>1 DEF NoThrow
<1> QED
  BY <1>1, <1>2, SegmentKinds

(* Without NaN every segment stays readable, in any use of the table: a    *)
(* compressed one gives back what the one it was made from held.           *)
LEMMA ReadableStep ==
  ASSUME MaxColumns < U16, NaN \notin Values, ContentInv, [Next]_vars, Readable
  PROVE  Readable'
<1>1. Fates /\ chunks' \in Seq(Seq(BaseSegments))
  BY StepFates, TypeStep DEF ContentInv, TypeInv, TypeOK
<1> SUFFICES ASSUME NEW c \in 1..Len(chunks'), NEW k \in 1..Len(chunks'[c])
             PROVE  NoThrow(chunks'[c][k])
  BY DEF Readable, NoThrow
<1> DEFINE new == chunks'[c][k]
           old == chunks[c][k]
<1>2. new \in BaseSegments
  <2>1. chunks'[c] \in Seq(BaseSegments)
    BY <1>1
  <2> QED
    BY <2>1
<1>3. CASE new.kind # "dict"
  BY <1>2, <1>3, UncompressedReadable
<1>4. CASE new.kind = "dict"
  <2>1. c \in 1..Len(chunks) /\ k \in 1..Len(chunks[c])
    BY <1>1, <1>4 DEF Fates, Fresh
  <2>2. NoThrow(old) /\ Fate(c, k)
    BY <1>1, <2>1 DEF Readable, Fates
  <2>3. new = old \/ Compresses(new, old)
    BY <1>4, <2>2 DEF Fate, Grown
  <2> HIDE DEF new, old
  <2>4. Stored(new) = Stored(old)
    BY <2>3 DEF Compresses
  <2>5. NoThrow(new)
    BY <2>2, <2>4 DEF NoThrow
  <2> QED
    BY <2>5 DEF new
<1> QED
  BY <1>3, <1>4

(* At first there is nothing to read.                                      *)
LEMMA ReadableInit == Init => Readable
BY DEF Init, Readable

(* The size and the columns of a chunk, as Print asks for them.            *)
LEMMA ChunkRows ==
  ASSUME CarefulInv, MaxColumns < U16, NEW c \in 1..Len(chunks)
  PROVE  /\ ~SizeCrashes(chunks[c]) /\ chunk_size_of(chunks[c]) = RowsOf(chunks[c])
         /\ RowsOf(chunks[c]) \in Nat /\ RowsOf(chunks[c]) <= chunk_size
         /\ chunk_column_count(chunks[c]) = Len(col_types)
         /\ c < Len(chunks) => RowsOf(chunks[c]) = chunk_size
         /\ col_types = << >> => RowsOf(chunks[c]) = 0
         /\ \A k \in 1..Len(col_types) :
              /\ chunks[c][k] \in BaseSegments /\ chunks[c][k].kind # "null"
              /\ Len(Stored(chunks[c][k])) = RowsOf(chunks[c])
<1> DEFINE chunk == chunks[c]
           m == Len(col_types)
<1>1. /\ chunk \in Seq(BaseSegments) /\ ChunkFits(chunk, col_types) /\ Len(chunk) = m
      /\ m \in Nat /\ m < U16 /\ col_types \in Seq(DataTypes)
      /\ \A k \in 1..m : chunk[k] \in BaseSegments
  BY CarefulState
<1>2. NotOverfull(chunk) /\ (c < Len(chunks) => Full(chunk))
  BY CarefulChunked DEF Chunked
<1>3. (chunk = << >> <=> m = 0) /\ (chunk # << >> => 1 \in 1..m) /\ (m = 0 <=> col_types = << >>)
  BY <1>1, EmptySeq
<1>4. ~SizeCrashes(chunk)
  BY <1>1, <1>3 DEF SizeCrashes, ChunkFits
<1>5. chunk_size_of(chunk) = RowsOf(chunk) /\ RowsOf(chunk) \in Nat /\ RowsOf(chunk) <= chunk_size
  BY <1>1, <1>2, <1>4, ExactSize DEF RowsOf
<1>6. chunk_column_count(chunk) = m
  BY <1>1, ColumnCount
<1> HIDE DEF chunk, m
<1>7. c < Len(chunks) => RowsOf(chunk) = chunk_size
  BY <1>2 DEF Full, RowsOf
<1>8. \A k \in 1..m : chunk[k].kind # "null" /\ Len(Stored(chunk[k])) = RowsOf(chunk)
  BY <1>1, <1>3 DEF ChunkFits, RowsOf, m
<1>9. col_types = << >> => RowsOf(chunk) = 0
  BY <1>3 DEF RowsOf
<1> QED
  BY <1>1, <1>4, <1>5, <1>6, <1>7, <1>8, <1>9 DEF chunk, m

(* The cells Print visits are those of the rectangle of every chunk.       *)
LEMMA VisitsAreCells ==
  ASSUME CarefulInv, MaxColumns < U16
  PROVE  Visits = UNION {{c} \X (1..Len(col_types)) \X (1..RowsOf(chunks[c])) : c \in 1..Len(chunks)}
<1> DEFINE cells(c) == {c} \X (1..chunk_column_count(chunks[c]))
                           \X (1..IF SizeCrashes(chunks[c]) THEN 1 ELSE chunk_size_of(chunks[c]))
           rectangle(c) == {c} \X (1..Len(col_types)) \X (1..RowsOf(chunks[c]))
<1>1. Visits = UNION {cells(c) : c \in 1..Len(chunks)}
  BY CarefulState DEF Visits
<1>2. \A c \in 1..Len(chunks) : cells(c) = rectangle(c)
  BY ChunkRows
<1> HIDE DEF cells, rectangle
<1>3. Visits = UNION {rectangle(c) : c \in 1..Len(chunks)}
  BY <1>1, <1>2
<1> QED
  BY <1>3 DEF rectangle

(* Each cell is read without an error.                                     *)
LEMMA CellsRead ==
  ASSUME CarefulInv, Readable, MaxColumns < U16, NEW v \in Visits
  PROVE  CellOutcome(v) = "ok"
<1>1. PICK c \in 1..Len(chunks) : v \in {c} \X (1..Len(col_types)) \X (1..RowsOf(chunks[c]))
  BY VisitsAreCells
<1>2. v[1] = c /\ v[2] \in 1..Len(col_types) /\ v[3] \in 1..RowsOf(chunks[c])
  BY <1>1
<1> DEFINE k == v[2]
           r == v[3]
           segment == chunks[c][k]
<1>3. /\ ~SizeCrashes(chunks[c]) /\ segment \in BaseSegments /\ segment.kind # "null"
      /\ Len(Stored(segment)) = RowsOf(chunks[c]) /\ RowsOf(chunks[c]) \in Nat
  BY <1>2, ChunkRows
<1>4. Decode(segment) = Stored(segment) /\ SegmentSize(segment) = RowsOf(chunks[c])
  BY <1>3, StoredProperties DEF Stored
<1>5. Stored(segment)[r] # Throws
  <2>1. Len(chunks[c]) = Len(col_types)
    BY CarefulState
  <2>2. NoThrow(segment)
    BY <1>2, <2>1 DEF Readable
  <2> QED
    BY <1>2, <1>3, <2>2 DEF NoThrow
<1>6. column_count = Len(col_types)
  <2>1. Len(chunks) \in 1..Len(chunks) /\ Last(chunks) = chunks[Len(chunks)]
    BY CarefulState
  <2> QED
    BY <2>1, ChunkRows DEF column_count
<1>7. ~(k > column_count) /\ ~(r > SegmentSize(segment))
  <2>1. Len(col_types) \in Nat
    BY CarefulState
  <2> QED
    BY <1>2, <1>3, <1>4, <1>6, <2>1
<1> HIDE DEF k, r, segment
<1>8. chunks[v[1]] = chunks[c] /\ chunks[v[1]][v[2]] = segment /\ v[2] = k /\ v[3] = r
  BY <1>2 DEF k, r, segment
<1> QED
  BY <1>3, <1>4, <1>5, <1>7, <1>8 DEF CellOutcome

(* There is a line for every row.                                          *)
LEMMA LinesCounted ==
  ASSUME CarefulInv, MaxColumns < U16, chunk_size > 0
  PROVE  /\ Cardinality(Lines) = RowsIn(chunks)
         /\ \A line \in Lines : /\ line[1] \in 1..Len(chunks)
                                /\ line[2] \in 1..RowsOf(chunks[line[1]])
<1> DEFINE n == Len(chunks)
           m == Len(col_types)
           size(c) == RowsOf(chunks[c])
           a == size(n)
<1>1. n \in Nat \ {0} /\ n \in 1..n /\ m \in Nat /\ chunk_size \in Nat
  BY CarefulState, TableAssumption
<1>2. \A c \in 1..n : size(c) \in Nat /\ (c < n => size(c) = chunk_size) /\ (m = 0 => size(c) = 0)
  <2>1. m = 0 => col_types = << >>
    BY CarefulState, EmptySeq
  <2> QED
    BY <2>1, ChunkRows
<1>3. Lines = UNION {{c} \X (1..size(c)) : c \in 1..n}
  <2>1. Visits = UNION {{c} \X (1..m) \X (1..size(c)) : c \in 1..n}
    BY VisitsAreCells
  <2> HIDE DEF n, m, size
  <2>2. ASSUME NEW line \in Lines PROVE line \in UNION {{c} \X (1..size(c)) : c \in 1..n}
    <3>1. PICK v \in Visits : line = <<v[1], v[3]>>
      BY DEF Lines
    <3>2. PICK c \in 1..n : v \in {c} \X (1..m) \X (1..size(c))
      BY <2>1
    <3>3. v[1] = c /\ v[3] \in 1..size(c)
      BY <3>2
    <3> QED
      BY <3>1, <3>3
  <2>3. ASSUME NEW c \in 1..n, NEW r \in 1..size(c) PROVE <<c, r>> \in Lines
    <3>1. 1 \in 1..m
      BY <1>1, <1>2, <2>3
    <3>2. <<c, 1, r>> \in Visits
      BY <2>1, <3>1
    <3> DEFINE v == <<c, 1, r>>
    <3>3. v[1] = c /\ v[3] = r
      OBVIOUS
    <3> HIDE DEF v
    <3>4. <<v[1], v[3]>> \in Lines /\ v \in Visits
      BY <3>2 DEF Lines, v
    <3> QED
      BY <3>3, <3>4
  <2> QED
    BY <2>2, <2>3
<1> HIDE DEF size
<1>4. \A line \in Lines : line[1] \in 1..n /\ line[2] \in 1..size(line[1])
  BY <1>3
<1>5. Lines = ((1..n - 1) \X (1..chunk_size)) \cup ({n} \X (1..a))
  <2>1. /\ \A c \in 1..n - 1 : size(c) = chunk_size
        /\ size(n) = a /\ 1..n = (1..n - 1) \cup {n}
    BY <1>1, <1>2
  <2> HIDE DEF n, a
  <2> QED
    BY <1>3, <2>1
<1>6. ASSUME NEW x \in Nat PROVE IsFiniteSet(1..x) /\ Cardinality(1..x) = x
  <2>1. IsFiniteSet(1..x) /\ Cardinality(1..x) = IF 1 > x THEN 0 ELSE x - 1 + 1
    BY FS_Interval, SMT
  <2> QED
    BY <2>1
<1>7. a \in Nat
  BY <1>1, <1>2
<1> HIDE DEF n, a
<1>8. Cardinality(Lines) = chunk_size * (n - 1) + a
  <2> DEFINE B == 1..chunk_size
             C == 1..a
  <2>1. IsFiniteSet(B) /\ Cardinality(B) = chunk_size /\ IsFiniteSet(C) /\ Cardinality(C) = a
    BY <1>1, <1>6, <1>7
  <2>2. Lines = ((1..n - 1) \X B) \cup ({n} \X C)
    BY <1>5
  <2> HIDE DEF B, C
  <2>3. Cardinality(((1..n - 1) \X B) \cup ({n} \X C)) = chunk_size * (n - 1) + a
    BY <1>1, <2>1, CountPairs
  <2> QED
    BY <2>2, <2>3
<1> QED
  BY <1>4, <1>8 DEF n, a, size, RowsIn

(* Under the conditions of CarefulTableIsRelation, Print succeeds and      *)
(* writes the relation: one line for every row, with the values of it.     *)
THEOREM CarefulPrints ==
  ASSUME MaxColumns < U16, chunk_size > 0, MaxChunks * chunk_size < U32, NaN \notin Values
  PROVE  CarefulSpec => []PrintsRelation
<1>1. CarefulInv /\ Readable => PrintsRelation
  <2> SUFFICES ASSUME CarefulInv, Readable PROVE PrintsRelation
    OBVIOUS
  <2>1. print = "ok"
    <3>1. {v \in Visits : CellOutcome(v) # "ok"} = {}
      BY CellsRead
    <3> QED
      BY <3>1 DEF print
  <2>2. Cardinality(Lines) = row_count
    <3>1. row_count = (chunk_size * ((Len(chunks) % U32) - 1) + chunk_size_of(chunks[Len(chunks)])) % U32
      BY DEF row_count, chunk_count, Last
    <3>2. row_count = RowsIn(chunks)
      BY <3>1, CarefulChunked, ChunkedRows
    <3> QED
      BY <3>2, LinesCounted
  <2>3. ASSUME NEW line \in Lines
        PROVE  LineAt(line[1], line[2]) = RowAt(chunk_size * (line[1] - 1) + line[2])
    <3> DEFINE c == line[1]
               r == line[2]
               x == chunk_size * (c - 1) + r
               m == Len(col_types)
    <3>1. c \in 1..Len(chunks) /\ r \in 1..RowsOf(chunks[c])
      BY LinesCounted
    <3>2. /\ RowsOf(chunks[c]) \in Nat /\ RowsOf(chunks[c]) <= chunk_size /\ chunk_size \in Nat \ {0}
          /\ chunk_column_count(chunks[c]) = m
          /\ \A k \in 1..m : chunks[c][k] \in BaseSegments /\ chunks[c][k].kind # "null"
      BY <3>1, ChunkRows, TableAssumption
    <3>3. Len(chunks) \in Nat
      BY CarefulState
    <3> HIDE DEF c, r
    <3>4. c - 1 \in Nat /\ r - 1 \in 0..chunk_size - 1 /\ r \in Nat /\ c \in Nat
      BY <3>1, <3>2, <3>3
    <3>5. (x - 1) \div chunk_size = c - 1 /\ (x - 1) % chunk_size = r - 1
      <4> DEFINE q == c - 1
                 o == r - 1
      <4>1. q \in Nat /\ o \in 0..chunk_size - 1 /\ chunk_size \in Nat \ {0}
        BY <3>2, <3>4
      <4>2. x - 1 = chunk_size * q + o
        <5> DEFINE p == chunk_size * (c - 1)
        <5>1. p \in Nat
          BY <3>4, <4>1, ProductMonotone
        <5> HIDE DEF p
        <5>2. (p + r) - 1 = p + (r - 1)
          BY <3>4, <5>1
        <5> QED
          BY <5>2 DEF p
      <4> HIDE DEF q, o, x
      <4>3. (chunk_size * q + o) \div chunk_size = q /\ (chunk_size * q + o) % chunk_size = o
        BY ONLY <4>1, DivisionUnique
      <4> QED
        BY <4>2, <4>3 DEF q, o
    <3>6. (c - 1) + 1 = c /\ (r - 1) + 1 = r
      BY <3>4
    <3> HIDE DEF x
    <3>7. RowAt(x) = [k \in 1..m |-> Stored(chunks[c][k])[r]]
      BY <3>5, <3>6 DEF RowAt
    <3>8. \A k \in 1..m : Decode(chunks[c][k]) = Stored(chunks[c][k])
      BY <3>2 DEF Stored
    <3>9. LineAt(c, r) = [k \in 1..m |-> Decode(chunks[c][k])[r]]
      BY <3>2 DEF LineAt
    <3>10. LineAt(c, r) = RowAt(x)
      BY <3>7, <3>8, <3>9
    <3> QED
      BY <3>10 DEF c, r, x
  <2> QED
    BY <2>1, <2>2, <2>3 DEF PrintsRelation
<1>2. CarefulInv /\ Readable /\ [CarefulNext]_vars => CarefulInv' /\ Readable'
  <2> SUFFICES ASSUME CarefulInv, Readable, [CarefulNext]_vars PROVE CarefulInv' /\ Readable'
    OBVIOUS
  <2>1. [Next]_vars /\ ContentInv
    BY CarefulIsNext DEF CarefulInv
  <2> QED
    BY <2>1, CarefulStep, ReadableStep
<1>3. Init => CarefulInv /\ Readable
  BY CarefulInit, ReadableInit
<1> QED
  BY <1>1, <1>2, <1>3, PTL DEF CarefulSpec
=============================================================================
