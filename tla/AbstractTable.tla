--------------------------- MODULE AbstractTable ---------------------------
(***************************************************************************)
(* What a table is to its users: named and typed columns, and a sequence   *)
(* of rows that only grows at its end.  Chunks and compression do not       *)
(* appear.                                                                 *)
(***************************************************************************)
EXTENDS Integers, Sequences

CONSTANTS DataTypes, Names, Rows, type_cast, Throws

VARIABLES
  columns,   \* sequence of names and types
  rows       \* sequence of rows, a row being a sequence of stored values

vars == <<columns, rows>>

Init == columns = << >> /\ rows = << >>

(* "this can only be done if the table does not yet have any entries"      *)
AddColumn(name, type) ==
  /\ rows = << >>
  /\ columns' = Append(columns, [name |-> name, type |-> type])
  /\ UNCHANGED rows

(* "inserts a row at the end of the table"                                 *)
Insert(values) ==
  /\ Len(values) = Len(columns)
  /\ \A k \in DOMAIN values : type_cast[columns[k].type][values[k]] # Throws
  /\ rows' = Append(rows, [k \in 1..Len(columns) |-> type_cast[columns[k].type][values[k]]])
  /\ UNCHANGED columns

Next ==
  \/ \E name \in Names, type \in DataTypes : AddColumn(name, type)
  \/ \E values \in Rows : Insert(values)

Spec == Init /\ [][Next]_vars
=============================================================================
