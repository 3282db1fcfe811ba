-------------------------------- MODULE Table --------------------------------
(***************************************************************************)
(* A table and its operations: a sequence of chunks that share a list of   *)
(* column names and types.  One caller uses the table; compress_chunk      *)
(* runs one std::async task per column, and those tasks interleave with    *)
(* each other and with the caller that collects their results.             *)
(*                                                                         *)
(* Exceptions reach the caller, who may go on using the table: result is   *)
(* the outcome of the last call.  A null dereference ends the process.     *)
(***************************************************************************)
EXTENDS Chunk

CONSTANTS
  chunk_size,   \* the constructor argument, a uint32_t
  Names,        \* the column names a caller uses
  Rows,         \* the argument lists a caller passes to append
  MaxColumns,   \* bound: add_column is not called beyond this many columns
  MaxChunks     \* bound: append is not called when it would need more chunks

ASSUME TableAssumption ==
  /\ chunk_size \in Nat /\ chunk_size < U32
  /\ Rows \subseteq Seq(Variants)
  /\ MaxColumns \in Nat /\ MaxChunks \in Nat \ {0}

VARIABLES
  col_names,    \* sequence of column names
  col_types,    \* sequence of type strings
  chunks,       \* _chunks, the sequence of chunks
  pc,           \* where compress_chunk is: "idle", "collect" or "unwind"
  target,       \* the position of the chunk being compressed
  futures,      \* one task per column: its state and, once done, its segment
  dict_chunk,   \* the new chunk, as far as results have been collected
  result        \* outcome of the last call: "ok", "threw", "crashed"

schema_vars == <<col_names, col_types>>
call_vars == <<pc, target, futures, dict_chunk>>
vars == <<schema_vars, chunks, call_vars, result>>

Last(s) == s[Len(s)]

-----------------------------------------------------------------------------
(* Observers                                                               *)

chunk_count == Len(chunks) % U32

column_count == chunk_column_count(Last(chunks))

(* uint32_t arithmetic, although the result is declared uint64_t.          *)
row_count == (chunk_size * (chunk_count - 1) + chunk_size_of(Last(chunks))) % U32

-----------------------------------------------------------------------------
(* build_chunk: the segments are added one column at a time, so that an    *)
(* unknown type leaves a chunk with the columns before it.                 *)

BuildThrows == \E k \in DOMAIN col_types : make_value_segment(col_types[k]) = Throws

Buildable(k) == \A j \in 1..k : make_value_segment(col_types[j]) # Throws

(* A mistake: the loop over the column types ends one early.               *)
BuiltChunk_mutant == [k \in 1..Len(col_types) - 1 |-> make_value_segment(col_types[k])]

BuiltChunk ==
  LET built == CHOOSE k \in 0..Len(col_types) :
                 Buildable(k) /\ (k < Len(col_types) => ~Buildable(k + 1))
  IN  [k \in 1..built |-> make_value_segment(col_types[k])]

-----------------------------------------------------------------------------
Ready == pc = "idle" /\ result # "crashed"

Crash == result' = "crashed"

(* The constructor calls build_chunk while there are no columns.           *)
Init ==
  /\ col_names = << >> /\ col_types = << >>
  /\ chunks = << << >> >>
  /\ pc = "idle" /\ target = 0 /\ futures = << >> /\ dict_chunk = << >>
  /\ result = "ok"

(* A mistake: the type is recorded only after it has been resolved.        *)
add_column_mutant(name, type) ==
  LET segment == make_value_segment(type) IN
  /\ Ready
  /\ Len(col_names) < MaxColumns
  /\ col_names' = Append(col_names, name)
  /\ IF segment = Throws
     THEN result' = "threw" /\ UNCHANGED <<chunks, col_types>>
     ELSE /\ result' = "ok"
          /\ col_types' = Append(col_types, type)
          /\ chunks' = [chunks EXCEPT ![Len(chunks)] = Append(@, segment)]
  /\ UNCHANGED call_vars

(* add_column: the name and the type are recorded before the type is       *)
(* resolved; the new segment goes to the last chunk only.                  *)
add_column(name, type) ==
  LET segment == make_value_segment(type) IN
  /\ Ready
  /\ Len(col_names) < MaxColumns
  /\ col_names' = Append(col_names, name)
  /\ col_types' = Append(col_types, type)
  /\ IF segment = Throws
     THEN result' = "threw" /\ UNCHANGED chunks
     ELSE /\ result' = "ok"
          /\ chunks' = [chunks EXCEPT ![Len(chunks)] = Append(@, segment)]
  /\ UNCHANGED call_vars

(* A mistake: off by one.                                                  *)
LastChunkFull_mutant == chunk_size_of(Last(chunks)) > chunk_size

LastChunkFull == chunk_size_of(Last(chunks)) >= chunk_size

(* The end of append: chunk is the last chunk, preceded by those in front. *)
AppendTo(front, chunk, values) ==
  IF ChunkAppendCrashes(chunk, values)
  THEN Crash /\ UNCHANGED chunks
  ELSE /\ chunks' = Append(front, ChunkAppend(chunk, values))
       /\ result' = IF ChunkAppendThrows(chunk, values) THEN "threw" ELSE "ok"

append(values) ==
  /\ Ready
  /\ IF SizeCrashes(Last(chunks))
     THEN Crash /\ UNCHANGED chunks
     ELSE IF LastChunkFull
     THEN /\ Len(chunks) < MaxChunks
          /\ IF BuildThrows
             THEN result' = "threw" /\ chunks' = Append(chunks, BuiltChunk)
             ELSE AppendTo(chunks, BuiltChunk, values)
     ELSE AppendTo(SubSeq(chunks, 1, Len(chunks) - 1), Last(chunks), values)
  /\ UNCHANGED <<schema_vars, call_vars>>

-----------------------------------------------------------------------------
(* compress_chunk                                                          *)

Policies == {"async", "deferred"}

(* The call starts one task per column; std::async decides for each one    *)
(* whether it gets a thread or runs inside future.get().                   *)
compress_chunk(chunk_id) ==
  /\ Ready
  /\ IF chunk_id >= Len(chunks)
     THEN result' = "threw" /\ UNCHANGED call_vars
     ELSE /\ pc' = "collect"
          /\ target' = chunk_id + 1
          /\ \E policy \in [1..chunk_column_count(chunks[chunk_id + 1]) -> Policies] :
               futures' = [k \in DOMAIN policy |-> [state |-> policy[k], segment |-> NullSegment]]
          /\ dict_chunk' = << >>
          /\ UNCHANGED result
  /\ UNCHANGED <<schema_vars, chunks>>

Running == pc # "idle" /\ result # "crashed"

(* The future the caller waits for.                                        *)
NextFuture == Len(dict_chunk) + 1

TaskMayRun(k) ==
  \/ futures[k].state = "async"
  \/ futures[k].state = "deferred" /\ pc = "collect" /\ k = NextFuture

(* The dynamic_pointer_cast<ValueSegment<T>> of the old segment succeeds.   *)
CastSucceeds(segment, type) == segment.kind = "value" /\ segment.type = type

(* What compress_segment makes of a task: the states its future can end in. *)
compress_segment(old_segment, type) ==
  IF type \notin DataTypes
  THEN {[state |-> IF IS_DEBUG THEN "threw" ELSE "done", segment |-> NullSegment]}
  ELSE LET widths == WidthChoices(Cardinality(set_dict(old_segment.values))) IN
       {[state |-> "done", segment |-> DictionarySegment(type, old_segment.values, w)] : w \in widths}
       \cup {[state |-> "threw", segment |-> NullSegment] : x \in {{}} \cap {widths}}

run_task(k) ==
  LET old_segment == chunks[target][k] IN
  /\ Running
  /\ k \in DOMAIN futures /\ TaskMayRun(k)
  /\ IF col_types[k] \in DataTypes /\ ~CastSucceeds(old_segment, col_types[k])
     THEN Crash /\ UNCHANGED futures
     ELSE /\ \E outcome \in compress_segment(old_segment, col_types[k]) :
               futures' = [futures EXCEPT ![k] = outcome]
          /\ UNCHANGED result
  /\ UNCHANGED <<schema_vars, chunks, pc, target, dict_chunk>>

(* A mistake: any task that has ended is collected next.                   *)
collect_mutant ==
  /\ Running /\ pc = "collect"
  /\ NextFuture \in DOMAIN futures
  /\ \E k \in DOMAIN futures :
       \/ /\ futures[k].state = "done"
          /\ dict_chunk' = Append(dict_chunk, futures[k].segment)
          /\ UNCHANGED pc
       \/ /\ futures[k].state = "threw"
          /\ pc' = "unwind"
          /\ UNCHANGED dict_chunk
  /\ UNCHANGED <<schema_vars, chunks, target, futures, result>>

(* A mistake: the exception of a task leaves the partial result in place.  *)
collect_keeps_mutant ==
  /\ Running /\ pc = "collect"
  /\ NextFuture \in DOMAIN futures
  /\ \/ /\ futures[NextFuture].state = "done"
        /\ dict_chunk' = Append(dict_chunk, futures[NextFuture].segment)
        /\ UNCHANGED <<pc, chunks>>
     \/ /\ futures[NextFuture].state = "threw"
        /\ pc' = "unwind"
        /\ chunks' = [chunks EXCEPT ![target] = dict_chunk]
        /\ UNCHANGED dict_chunk
  /\ UNCHANGED <<schema_vars, target, futures, result>>

(* A mistake: a task that threw is started again.                          *)
collect_retries_mutant ==
  /\ Running /\ pc = "collect"
  /\ NextFuture \in DOMAIN futures
  /\ \/ /\ futures[NextFuture].state = "done"
        /\ dict_chunk' = Append(dict_chunk, futures[NextFuture].segment)
        /\ UNCHANGED futures
     \/ /\ futures[NextFuture].state = "threw"
        /\ futures' = [futures EXCEPT ![NextFuture].state = "deferred"]
        /\ UNCHANGED dict_chunk
  /\ UNCHANGED <<schema_vars, chunks, pc, target, result>>

(* future.get() in column order: the result is added to the new chunk, or  *)
(* the exception leaves the loop.                                          *)
collect ==
  /\ Running /\ pc = "collect"
  /\ NextFuture \in DOMAIN futures
  /\ \/ /\ futures[NextFuture].state = "done"
        /\ dict_chunk' = Append(dict_chunk, futures[NextFuture].segment)
        /\ UNCHANGED pc
     \/ /\ futures[NextFuture].state = "threw"
        /\ pc' = "unwind"
        /\ UNCHANGED dict_chunk
  /\ UNCHANGED <<schema_vars, chunks, target, futures, result>>

EndCall == pc' = "idle" /\ target' = 0 /\ futures' = << >> /\ dict_chunk' = << >>

(* The destructor of a future from std::async waits for a running thread.  *)
unwind ==
  /\ Running /\ pc = "unwind"
  /\ \A k \in DOMAIN futures : futures[k].state # "async"
  /\ EndCall
  /\ result' = "threw"
  /\ UNCHANGED <<schema_vars, chunks>>

(* A mistake: the result goes to the end of the table.                     *)
replace_chunk_mutant ==
  /\ Running /\ pc = "collect"
  /\ NextFuture \notin DOMAIN futures
  /\ chunks' = [chunks EXCEPT ![Len(chunks)] = dict_chunk]
  /\ EndCall
  /\ result' = "ok"
  /\ UNCHANGED schema_vars

replace_chunk ==
  /\ Running /\ pc = "collect"
  /\ NextFuture \notin DOMAIN futures
  /\ chunks' = [chunks EXCEPT ![target] = dict_chunk]
  /\ EndCall
  /\ result' = "ok"
  /\ UNCHANGED schema_vars

(* The process is gone.                                                    *)
crashed == result = "crashed" /\ UNCHANGED vars

CallerStep == collect \/ unwind \/ replace_chunk

Next ==
  \/ \E name \in Names, type \in DataTypes \cup UnknownTypes : add_column(name, type)
  \/ \E values \in Rows : append(values)
  \/ \E chunk_id \in 0..MaxChunks : compress_chunk(chunk_id)
  \/ \E k \in 1..MaxColumns : run_task(k)
  \/ CallerStep
  \/ crashed

Spec == Init /\ [][Next]_vars

(* The caller's thread and every task that has been given a thread keep     *)
(* running; a deferred task runs on the caller's thread.                    *)
Fairness == WF_vars(CallerStep) /\ \A k \in 1..MaxColumns : WF_vars(run_task(k))

FairSpec == Spec /\ Fairness
=============================================================================
