------------------------------- MODULE Engine -------------------------------
(***************************************************************************)
(* The StorageManager, the operators over its tables and the warnings they *)
(* share, on one thread.  The catalogue maps names to shared tables;       *)
(* TableWrapper passes a table on; Print reads the output of another       *)
(* operator cell by cell, under a PerformanceWarningDisabler, and passes   *)
(* it on.  What a table holds is the subject of the module Table: here it  *)
(* is readable or makes Print throw, and may turn from one to the other.   *)
(***************************************************************************)
EXTENDS Warnings

CONSTANTS
  TableNames,    \* the names a client uses
  Tables,        \* the tables a client has made and points to
  NoTable,       \* the null pointer to a table
  Operators,     \* the operators a client may make
  None           \* no operator

ASSUME EngineAssumption == NoTable \notin Tables /\ None \notin Operators

VARIABLES
  tables,        \* StorageManager::tables
  readable,      \* the tables Print gets through
  operators,     \* the operators made so far
  running,       \* the Print operator whose _on_execute runs, if any
  crashed        \* a null pointer has been dereferenced

engine_vars == <<disabled, scopes, built, shown, tables, readable, operators, running, crashed>>
warning_vars == <<disabled, scopes, built, shown>>

Pointers == Tables \cup {NoTable}

Made == DOMAIN operators

(* The members of an AbstractOperator and its subclasses.                  *)
OperatorStates ==
  [kind : {"TableWrapper", "Print"}, table : Pointers,
   input : Operators \cup {None}, output : Pointers]

EngineInit ==
  /\ Init
  /\ tables = << >> /\ readable = Tables
  /\ operators = << >> /\ running = None /\ crashed = FALSE

(* The client's code runs: no operator does.                               *)
Idle == running = None /\ ~crashed

With(f, x, y) == [z \in DOMAIN f \cup {x} |-> IF z = x THEN y ELSE f[z]]
Without(f, x) == [z \in DOMAIN f \ {x} |-> f[z]]

-----------------------------------------------------------------------------
(* StorageManager.  A call that throws changes nothing and is not a step.  *)

has_table(name) == name \in DOMAIN tables

add_table(name, table) ==
  /\ Idle /\ ~has_table(name)
  /\ tables' = With(tables, name, table)
  /\ UNCHANGED <<warning_vars, readable, operators, running, crashed>>

(* get_table(name) throws for a name that is not there.                    *)
drop_table(name) ==
  /\ Idle /\ has_table(name)
  /\ tables' = Without(tables, name)
  /\ UNCHANGED <<warning_vars, readable, operators, running, crashed>>

reset ==
  /\ Idle
  /\ tables' = << >>
  /\ UNCHANGED <<warning_vars, readable, operators, running, crashed>>

get_table(name) == tables[name]

(* The client changes a table through any pointer it has.                  *)
Change(table) ==
  /\ Idle
  /\ readable' = IF table \in readable THEN readable \ {table} ELSE readable \cup {table}
  /\ UNCHANGED <<warning_vars, tables, operators, running, crashed>>

-----------------------------------------------------------------------------
(* Operators                                                               *)

make(o, state) ==
  /\ Idle /\ o \notin Made
  /\ operators' = With(operators, o, state)
  /\ UNCHANGED <<warning_vars, tables, readable, running, crashed>>

(* TableWrapper(table), of a table the client has or asks the catalogue    *)
(* for, which may hand out a null pointer that was added.                  *)
TableWrapper(o, table) ==
  make(o, [kind |-> "TableWrapper", table |-> table, input |-> None, output |-> NoTable])

(* A mistake: the input may be made later.                                 *)
MakesPrint_mutant(o, in) ==
  make(o, [kind |-> "Print", table |-> NoTable, input |-> in, output |-> NoTable])

(* Print(in, out): the input need not have been executed.                  *)
MakesPrint(o, in) ==
  in \in Made /\ make(o, [kind |-> "Print", table |-> NoTable, input |-> in, output |-> NoTable])

(* AbstractOperator::get_output: null until execute has returned.          *)
get_output(o) == operators[o].output

(* Print::_on_execute reads _input_table_left.                             *)
input_table_left(o) == get_output(operators[o].input)

Returns(o, table) == operators' = [operators EXCEPT ![o].output = table]

(* A mistake: _table is moved out instead of copied.                       *)
execute_wrapper_mutant(o) ==
  /\ Idle /\ o \in Made /\ operators[o].kind = "TableWrapper"
  /\ operators' = [operators EXCEPT ![o].output = operators[o].table, ![o].table = NoTable]
  /\ UNCHANGED <<warning_vars, tables, readable, running, crashed>>

(* execute of a TableWrapper.                                              *)
execute_wrapper(o) ==
  /\ Idle /\ o \in Made /\ operators[o].kind = "TableWrapper"
  /\ Returns(o, operators[o].table)
  /\ UNCHANGED <<warning_vars, tables, readable, running, crashed>>

(* A mistake: the output is cleared before the operator runs.              *)
execute_print_mutant(o) ==
  /\ Idle /\ o \in Made /\ operators[o].kind = "Print"
  /\ disable
  /\ running' = o
  /\ crashed' = (input_table_left(o) = NoTable)
  /\ Returns(o, NoTable)
  /\ UNCHANGED <<tables, readable>>

(* execute of a Print begins: the disabler lives, and column_string_widths *)
(* asks the input's output for its columns.                                *)
execute_print(o) ==
  /\ Idle /\ o \in Made /\ operators[o].kind = "Print"
  /\ disable
  /\ running' = o
  /\ crashed' = (input_table_left(o) = NoTable)
  /\ UNCHANGED <<tables, readable, operators>>

(* Print reads a cell by operator[], a warning site.                       *)
read_cell(site) ==
  /\ running # None /\ ~crashed
  /\ warn(site)
  /\ UNCHANGED <<tables, readable, operators, running, crashed>>

(* The disabler ends with _on_execute, whether that returns the table or   *)
(* throws, which leaves _output as it was.                                 *)
end_print ==
  /\ running # None /\ ~crashed
  /\ enable
  /\ running' = None
  /\ IF input_table_left(running) \in readable
       THEN Returns(running, input_table_left(running))
       ELSE UNCHANGED operators
  /\ UNCHANGED <<tables, readable, crashed>>

-----------------------------------------------------------------------------
(* The client's own disablers and reads.                                   *)
client_warnings ==
  /\ Idle
  /\ disable \/ enable \/ \E site \in Sites : warn(site)
  /\ UNCHANGED <<tables, readable, operators, running, crashed>>

EngineNext ==
  \/ \E name \in TableNames, table \in Pointers : add_table(name, table)
  \/ \E name \in TableNames : drop_table(name)
  \/ reset
  \/ \E table \in Tables : Change(table)
  \/ \E o \in Operators, table \in Tables : TableWrapper(o, table)
  \/ \E o \in Operators, name \in DOMAIN tables : TableWrapper(o, get_table(name))
  \/ \E o, in \in Operators : MakesPrint(o, in)
  \/ \E o \in Operators : execute_wrapper(o) \/ execute_print(o)
  \/ \E site \in Sites : read_cell(site)
  \/ end_print
  \/ client_warnings
  \/ crashed /\ UNCHANGED engine_vars

EngineSpec == EngineInit /\ [][EngineNext]_engine_vars

-----------------------------------------------------------------------------
(* The variables have their types; an operator's input was made before it. *)
EngineTypeOK ==
  /\ Made \subseteq Operators /\ \A o \in Made : operators[o] \in OperatorStates
  /\ DOMAIN tables \subseteq TableNames /\ \A n \in DOMAIN tables : tables[n] \in Pointers
  /\ running \in Made \cup {None} /\ readable \subseteq Tables
  /\ \A o \in Made : operators[o].kind = "Print" => operators[o].input \in Made \ {o}

(* An operator that has an output has the one of its input, and a wrapper  *)
(* the table it was made with: down the whole chain the outputs are the    *)
(* same table, whatever was dropped, reset or added under the same name    *)
(* since, and whichever executions came too early or failed.               *)
OutputIsSource ==
  \A o \in Made : get_output(o) # NoTable =>
    get_output(o) = IF operators[o].kind = "TableWrapper" THEN operators[o].table
                    ELSE input_table_left(o)

(* An output that others may have read never changes or goes away: not by  *)
(* a second execute ("Operators shall not be executed twice") and not by   *)
(* one that throws.                                                        *)
OutputsKept ==
  [][\A o \in Made : get_output(o) # NoTable => operators'[o].output = get_output(o)]_engine_vars

(* Print shows no warning, also within other disablers and after a Print   *)
(* that threw.                                                             *)
PrintIsSilent == [][running # None => shown' = shown]_engine_vars
=============================================================================
