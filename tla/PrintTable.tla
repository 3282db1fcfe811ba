----------------------------- MODULE PrintTable -----------------------------
(***************************************************************************)
(* The Print operator reads a table cell by cell.  It computes the widths  *)
(* of the columns first, from all cells, and then writes the cells; what   *)
(* the first pass can read the second can, so the first decides whether    *)
(* the call succeeds.                                                      *)
(***************************************************************************)
EXTENDS Table

(* A mistake: one row too many.                                            *)
Visits_mutant ==
  UNION {{c} \X (1..chunk_column_count(chunks[c]))
             \X (1..IF SizeCrashes(chunks[c]) THEN 1 ELSE chunk_size_of(chunks[c]) + 1) :
         c \in DOMAIN chunks}

(* The cells column_string_widths visits: chunk, column and row, each      *)
(* counted from 1.  The size of the chunk is asked for every column; when  *)
(* its first segment is null that crashes.                                 *)
Visits ==
  UNION {{c} \X (1..chunk_column_count(chunks[c]))
             \X (1..IF SizeCrashes(chunks[c]) THEN 1 ELSE chunk_size_of(chunks[c])) :
         c \in DOMAIN chunks}

(* v is visited before w: chunk by chunk, column by column, row by row.    *)
Before(v, w) ==
  \/ v[1] < w[1]
  \/ v[1] = w[1] /\ v[2] < w[2]
  \/ v[1] = w[1] /\ v[2] = w[2] /\ v[3] < w[3]

(* What visiting a cell does: operator[] throws out_of_range past the end  *)
(* of the segment and for an id that the dictionary does not have; widths  *)
(* has an element for every column of the last chunk and is not checked.   *)
CellOutcome(v) ==
  LET segment == chunks[v[1]][v[2]] IN
  IF SizeCrashes(chunks[v[1]]) \/ segment.kind = "null" THEN "crashed"
  ELSE IF v[3] > SegmentSize(segment) THEN "threw"
  ELSE IF Decode(segment)[v[3]] = Throws THEN "threw"
  ELSE IF v[2] > column_count THEN "undefined"
  ELSE "ok"

(* How Print::print(table) ends.                                           *)
print ==
  LET failures == {v \in Visits : CellOutcome(v) # "ok"} IN
  IF failures = {} THEN "ok"
  ELSE CellOutcome(CHOOSE v \in failures : \A w \in failures : w = v \/ Before(v, w))

(* The lines it writes, and the values on each.                            *)
Lines == {<<v[1], v[3]>> : v \in Visits}

LineAt(c, r) == [k \in 1..chunk_column_count(chunks[c]) |-> Decode(chunks[c][k])[r]]
=============================================================================
