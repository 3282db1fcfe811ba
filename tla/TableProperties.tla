-------------------------- MODULE TableProperties --------------------------
(***************************************************************************)
(* What a table promises, and the callers it promises it to.               *)
(***************************************************************************)
EXTENDS PrintTable

-----------------------------------------------------------------------------
(* What is stored                                                          *)

(* The values a reader gets from a segment; a null segment holds none.      *)
Stored(segment) == IF segment.kind = "null" THEN << >> ELSE Decode(segment)

(* The pairs of chunk and offset at which there is a row, by Chunk::size.   *)
RowIDs == UNION {{c} \X (0..chunk_size_of(chunks[c]) - 1) : c \in DOMAIN chunks}

HasEntries == \E c \in DOMAIN chunks : \E k \in DOMAIN chunks[c] : Stored(chunks[c][k]) # << >>

Prefix(s, t) == Len(s) <= Len(t) /\ \A i \in 1..Len(s) : s[i] = t[i]

-----------------------------------------------------------------------------
(* Callers                                                                 *)

(* What the header asks of a caller: columns are added while the table has *)
(* no entries, and with types that exist.                                  *)
SchemaFirst ==
  col_names' # col_names => ~HasEntries /\ Last(col_types') \in DataTypes

(* Every value of the row converts to the type of its column.              *)
GoodRow(values) ==
  /\ Len(values) = Len(col_types)
  /\ \A k \in DOMAIN values : type_cast[col_types[k]][values[k]] # Throws

Uncompressed(chunk) == \A k \in DOMAIN chunk : chunk[k].kind = "value"

(* A caller that also appends good rows only, and compresses a chunk once  *)
(* it is full and only once.                                               *)
CarefulNext ==
  \/ \E name \in Names, type \in DataTypes :
       ~HasEntries /\ add_column(name, type)
  \/ \E values \in Rows : col_types # << >> /\ GoodRow(values) /\ append(values)
  \/ \E c \in 1..Len(chunks) :
       /\ chunk_size_of(chunks[c]) = chunk_size /\ Uncompressed(chunks[c])
       /\ compress_chunk(c - 1)
  \/ \E k \in 1..MaxColumns : run_task(k)
  \/ CallerStep

SchemaFirstSpec == Init /\ [][Next /\ SchemaFirst]_vars

CarefulSpec == Init /\ [][CarefulNext]_vars

-----------------------------------------------------------------------------
(* Properties of every caller                                              *)

Tasks == [state : Policies \cup {"done", "threw"}, segment : BaseSegments]

(* Every variable of the table and of a running compress_chunk has its     *)
(* type; the table always has a chunk and a call has a chunk to compress.   *)
TypeOK ==
  /\ col_names \in Seq(Names)
  /\ col_types \in Seq(DataTypes \cup UnknownTypes)
  /\ Len(col_names) = Len(col_types) /\ Len(col_types) <= MaxColumns
  /\ chunks \in Seq(Seq(BaseSegments)) /\ chunks # << >>
  /\ pc \in {"idle", "collect", "unwind"}
  /\ target \in 0..Len(chunks) /\ (pc # "idle" => target > 0)
  /\ futures \in Seq(Tasks)
  /\ dict_chunk \in Seq(BaseSegments)
  /\ result \in {"ok", "threw", "crashed"}

(* Table::row_count, computed from the size of the last chunk alone, is the *)
(* number of rows in all chunks (modulo the uint32_t it is computed in),   *)
(* whatever calls failed, for chunks that hold at least one row.           *)
RowCountExact ==
  ~SizeCrashes(Last(chunks)) => row_count = Cardinality(RowIDs) % U32

(* A stored value never changes and never goes away: a step only extends   *)
(* columns of the last chunk, and compressing a chunk leaves every value   *)
(* readable at its offset, in whatever order the tasks ran.                *)
StoredStays ==
  \A c \in DOMAIN chunks : \A k \in DOMAIN chunks[c] :
    /\ c \in DOMAIN chunks' /\ k \in DOMAIN chunks'[c]
    /\ Prefix(Stored(chunks[c][k]), Stored(chunks'[c][k]))
    /\ c < Len(chunks) => Stored(chunks'[c][k]) = Stored(chunks[c][k])

AppendOnly == [][StoredStays]_vars

(* In a release build Print indexes its widths, one for every column of    *)
(* the last chunk, only within bounds: no earlier chunk is wider.           *)
PrintInBounds == \A v \in Visits : v[2] <= column_count

(* A dictionary segment is immutable: once a column of a chunk is          *)
(* compressed, no append, add_column or later compress_chunk alters it.     *)
CompressedStays ==
  \A c \in DOMAIN chunks : \A k \in DOMAIN chunks[c] :
    chunks[c][k].kind = "dict" => chunks'[c][k] = chunks[c][k]

Immutable == [][CompressedStays]_vars

(* compress_chunk replaces a chunk whole or not at all, also when a task    *)
(* throws after others have finished.                                      *)
WholeChunkReplaced ==
  pc # "idle" => \A c \in DOMAIN chunks :
    \/ chunks'[c] = chunks[c]
    \/ /\ Len(chunks'[c]) = Len(chunks[c])
       /\ ~\E k \in DOMAIN chunks'[c] : chunks'[c][k].kind = "value"

AllOrNothing == [][WholeChunkReplaced]_vars

(* A call of compress_chunk ends: no order of tasks leaves the caller       *)
(* waiting for a future that never becomes ready.                          *)
CompressEnds == pc # "idle" ~> (pc = "idle" \/ result = "crashed")

-----------------------------------------------------------------------------
(* Inductive invariants behind these properties                            *)

(* What TypeOK needs: no chunk has more segments than the schema has       *)
(* columns, and a call of compress_chunk has one future for every segment   *)
(* it looks at and no more results than futures.                           *)
Shape ==
  /\ Len(chunks) <= MaxChunks
  /\ \A c \in DOMAIN chunks : Len(chunks[c]) <= Len(col_types)
  /\ pc # "idle" =>
       /\ Len(futures) = chunk_column_count(chunks[target])
       /\ Len(dict_chunk) <= Len(futures)

TypeInv == TypeOK /\ Shape

(* The null segments are those of columns with an unknown type in a        *)
(* release build, where the last chunk always has all columns.             *)
NullsAligned ==
  /\ ~IS_DEBUG => Len(Last(chunks)) = Len(col_types)
  /\ \A c \in DOMAIN chunks : \A k \in 1..Len(chunks[c]) :
       chunks[c][k].kind = "null" <=> ~IS_DEBUG /\ col_types[k] \notin DataTypes

(* new is a compressed form of old.                                        *)
Compresses(new, old) ==
  /\ old.kind # "dict" /\ new.kind # "value"
  /\ new.kind = "null" <=> old.kind = "null"
  /\ Len(Stored(new)) = Len(Stored(old))
  /\ NaN \notin Values => Stored(new) = Stored(old)

(* A finished task holds the compressed form of its column, and the results *)
(* collected so far are those of the first columns.                        *)
TasksFaithful ==
  pc # "idle" =>
    /\ \A k \in 1..Len(futures) :
         futures[k].state = "done" => Compresses(futures[k].segment, chunks[target][k])
    /\ \A k \in 1..Len(dict_chunk) :
         futures[k].state = "done" /\ dict_chunk[k] = futures[k].segment

ContentInv == TypeInv /\ NullsAligned /\ TasksFaithful

(* Every chunk but the last is full, and the last is not over-full.        *)
ChunksFilled ==
  \A c \in DOMAIN chunks :
    /\ c < Len(chunks) =>
         /\ chunks[c] # << >> /\ chunks[c][1].kind # "null"
         /\ Len(Stored(chunks[c][1])) = chunk_size
    /\ chunks[c] # << >> => Len(Stored(chunks[c][1])) <= chunk_size

-----------------------------------------------------------------------------
(* Properties of a careful caller                                          *)

(* Every column of a chunk has the same number of values.                  *)
Rectangular ==
  \A c \in DOMAIN chunks : \A j, k \in DOMAIN chunks[c] :
    Len(Stored(chunks[c][j])) = Len(Stored(chunks[c][k]))

(* All chunks have the columns of the schema, with its types: what         *)
(* column_type assumes, and column_count, which asks the last chunk only.  *)
SchemaMatches ==
  /\ column_count = Len(col_types)
  /\ \A c \in DOMAIN chunks :
       /\ Len(chunks[c]) = Len(col_types)
       /\ \A k \in DOMAIN chunks[c] :
            chunks[c][k].kind # "null" /\ chunks[c][k].type = col_types[k]

(* No operation throws and none dereferences a null pointer.               *)
NeverFails == result = "ok"

(* The inductive invariant behind them: a chunk has a segment of its type   *)
(* for every column, all of one length, which is the chunk size once one   *)
(* of them is compressed.                                                  *)
ChunkFits(chunk, types) ==
  /\ Len(chunk) = Len(types)
  /\ \A k \in 1..Len(types) :
       /\ chunk[k].kind # "null" /\ chunk[k].type = types[k]
       /\ Len(Stored(chunk[k])) = Len(Stored(chunk[1]))
       /\ chunk[k].kind = "dict" => Len(Stored(chunk[k])) = chunk_size

(* No task of a running compress_chunk has thrown, and what it has made is  *)
(* of the type of its column.                                              *)
TasksFit ==
  pc # "idle" =>
    /\ pc = "collect" /\ Uncompressed(chunks[target])
    /\ Len(Stored(chunks[target][1])) = chunk_size
    /\ \A k \in 1..Len(futures) :
         /\ futures[k].state # "threw"
         /\ futures[k].state = "done" => futures[k].segment.type = col_types[k]

CarefulInv ==
  /\ ContentInv /\ ChunksFilled /\ NeverFails
  /\ \A k \in 1..Len(col_types) : col_types[k] \in DataTypes
  /\ \A c \in 1..Len(chunks) : ChunkFits(chunks[c], col_types)
  /\ TasksFit

-----------------------------------------------------------------------------
(* A careful caller sees a relation: chunks and segments do not show.       *)

(* Row r, counted from 1, is at offset (r - 1) % chunk_size of chunk        *)
(* (r - 1) / chunk_size.                                                   *)
RowAt(r) ==
  LET chunk  == chunks[((r - 1) \div chunk_size) + 1]
      offset == ((r - 1) % chunk_size) + 1
  IN  [k \in 1..Len(col_types) |-> Stored(chunk[k])[offset]]

Abstract == INSTANCE AbstractTable WITH
  columns <- [k \in 1..Len(col_types) |-> [name |-> col_names[k], type |-> col_types[k]]],
  rows <- [r \in 1..row_count |-> RowAt(r)]

(* add_column and append are the operations of AbstractTable, and every    *)
(* step of compress_chunk leaves the relation as it is.                    *)
IsRelation == Abstract!Spec

(* Print, which goes chunk by chunk, writes that relation: it does not     *)
(* throw, and its lines are the rows, each once.                           *)
PrintsRelation ==
  /\ print = "ok"
  /\ Cardinality(Lines) = row_count
  /\ \A line \in Lines :
       LineAt(line[1], line[2]) = RowAt(chunk_size * (line[1] - 1) + line[2])
=============================================================================
