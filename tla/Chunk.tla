-------------------------------- MODULE Chunk --------------------------------
(***************************************************************************)
(* A chunk is a horizontal partition of a table: one segment per column.   *)
(* It is represented by the sequence of its segments.                      *)
(***************************************************************************)
EXTENDS Segments

(* std::vector::size() returned as a uint16_t.                             *)
chunk_column_count(chunk) == Len(chunk) % U16

(* The size of the first segment returned as a uint32_t, 0 if there is     *)
(* none.                                                                   *)
chunk_size_of(chunk) == IF chunk = << >> THEN 0 ELSE SegmentSize(chunk[1]) % U32

(* size() dereferences the first segment.                                  *)
SizeCrashes(chunk) == chunk # << >> /\ chunk[1].kind = "null"

(* column_segments[i]->append(val) succeeds: the segment exists, is a      *)
(* value segment and val converts to its type.                             *)
Accepts(chunk, i, val) ==
  /\ i \in DOMAIN chunk
  /\ chunk[i].kind = "value"
  /\ type_cast[chunk[i].type][val] # Throws

(* The DebugAssert on the number of values.                                *)
ArityRejected(chunk, values) == IS_DEBUG /\ Len(values) # chunk_column_count(chunk)

(* The loop over the values is left at the first one that is not accepted. *)
LoopReaches(chunk, values, i) ==
  \A j \in DOMAIN values : j < i => Accepts(chunk, j, values[j])

LoopCompletes(chunk, values) == \A j \in DOMAIN values : Accepts(chunk, j, values[j])

(* append leaves the vector of segments, or calls through a null pointer.  *)
ChunkAppendCrashes(chunk, values) ==
  /\ ~ArityRejected(chunk, values)
  /\ \E i \in DOMAIN values :
       /\ LoopReaches(chunk, values, i)
       /\ i \notin DOMAIN chunk \/ chunk[i].kind = "null"

(* A mistake: the loop stops one value early.                              *)
ChunkAppend_mutant(chunk, values) ==
  [i \in 1..Len(chunk) |->
     IF i < Len(values) THEN ValueSegmentAppend(chunk[i], values[i]) ELSE chunk[i]]

(* The chunk after append(values): every segment the loop reached and that *)
(* accepted its value is one longer, also when a later one threw.          *)
ChunkAppend(chunk, values) ==
  IF ArityRejected(chunk, values) THEN chunk
  ELSE [i \in 1..Len(chunk) |->
          IF i \in DOMAIN values /\ LoopReaches(chunk, values, i) /\ Accepts(chunk, i, values[i])
          THEN ValueSegmentAppend(chunk[i], values[i])
          ELSE chunk[i]]

ChunkAppendThrows(chunk, values) ==
  ArityRejected(chunk, values) \/ ~LoopCompletes(chunk, values)
=============================================================================
