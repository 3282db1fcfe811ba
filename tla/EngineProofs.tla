---------------------------- MODULE EngineProofs ----------------------------
(***************************************************************************)
(* Operators keep their output, for any number of names, tables, operators *)
(* and warning sites.  OutputIsSource is inductive with the type           *)
(* invariant: an output is only written again with what it was, so that    *)
(* no operator further down the chain has to be looked at.  For the        *)
(* warnings the engine is one more client, so that what is proved of them  *)
(* holds here, and with it that Print is silent.                           *)
(***************************************************************************)
EXTENDS Engine, SequenceTheorems, TLAPS

-----------------------------------------------------------------------------
(* Nested disablers work to any depth.                                     *)

(* No disabler lives at the start.                                         *)
LEMMA NestedInit == Init => Nested
<1> SUFFICES ASSUME Init PROVE Nested
  OBVIOUS
<1>1. scopes \in Seq(BOOLEAN) /\ Len(scopes) = 0
  BY DEF Init
<1>2. \A i \in 1..Len(scopes) : FALSE
  BY <1>1
<1> QED
  BY <1>1, <1>2 DEF Init, Nested, WarningsTypeOK, SilentInScope

(* Taking the last element off a sequence of Booleans leaves the others.   *)
LEMMA FrontOfScopes ==
  ASSUME NEW s \in Seq(BOOLEAN), s # << >>
  PROVE  /\ SubSeq(s, 1, Len(s) - 1) \in Seq(BOOLEAN)
         /\ Len(SubSeq(s, 1, Len(s) - 1)) = Len(s) - 1
         /\ \A i \in 1..Len(s) - 1 : SubSeq(s, 1, Len(s) - 1)[i] = s[i]
         /\ Len(s) \in Nat \ {0}
<1>1. Len(s) \in Nat \ {0} /\ \A i \in 1..Len(s) : s[i] \in BOOLEAN
  OBVIOUS
<1>2. Len(s) - 1 \in Nat /\ Len(s) - 1 <= Len(s) /\ \A i \in 1..Len(s) - 1 : i \in 1..Len(s)
  BY <1>1
<1>3. SubSeq(s, 1, Len(s) - 1) = [i \in 1..Len(s) - 1 |-> s[i]]
  BY <1>1, <1>2, SubSeqProperties
<1> DEFINE front == [i \in 1..Len(s) - 1 |-> s[i]]
<1>4. front \in [1..Len(s) - 1 -> BOOLEAN]
  BY <1>1, <1>2
<1> HIDE DEF front
<1>5. front \in Seq(BOOLEAN) /\ Len(front) = Len(s) - 1
  BY <1>2, <1>4
<1> QED
  BY <1>1, <1>3, <1>5 DEF front

(* Nested is inductive.                                                    *)
LEMMA NestedStep == Nested /\ [Next]_vars => Nested'
<1> SUFFICES ASSUME Nested, [Next]_vars PROVE Nested'
  OBVIOUS
<1> USE DEF Nested, WarningsTypeOK, SilentInScope
<1>1. CASE UNCHANGED vars
  BY <1>1 DEF vars
<1>2. CASE disable
  <2>1. /\ scopes' = Append(scopes, disabled) /\ disabled' = TRUE
        /\ shown' = shown /\ built' = built
    BY <1>2 DEF disable
  <2>2. /\ scopes' \in Seq(BOOLEAN) /\ Len(scopes') = Len(scopes) + 1 /\ Len(scopes) \in Nat
        /\ \A i \in 1..Len(scopes) : scopes'[i] = scopes[i]
        /\ scopes'[Len(scopes) + 1] = disabled
    BY <2>1
  <2>3. scopes # << >> <=> Len(scopes) + 1 > 1
    BY <2>2
  <2>4. \A i \in 1..Len(scopes') : i \in 1..Len(scopes) \/ i = Len(scopes) + 1
    BY <2>2
  <2>5. \A i \in 1..Len(scopes') : scopes'[i] <=> i > 1
    BY <2>2, <2>3, <2>4
  <2> QED
    BY <2>1, <2>2, <2>5
<1>3. CASE enable
  <2> DEFINE n == Len(scopes)
  <2>1. /\ n \in Nat \ {0} /\ scopes' = SubSeq(scopes, 1, n - 1)
        /\ disabled' = (IF scopes[n] THEN disabled ELSE FALSE)
        /\ shown' = shown /\ built' = built
    BY <1>3 DEF enable
  <2>2. /\ scopes' \in Seq(BOOLEAN) /\ Len(scopes') = n - 1
        /\ \A i \in 1..n - 1 : scopes'[i] = scopes[i]
    BY <1>3, <2>1, FrontOfScopes DEF enable
  <2>3. scopes[n] <=> n > 1
    BY <2>1
  <2>4. scopes' # << >> <=> n > 1
    <3>1. scopes' # << >> <=> Len(scopes') # 0
      BY <2>2
    <3>2. Len(scopes') # 0 <=> n > 1
      <4> HIDE DEF n, Nested
      <4> QED
        BY <2>1, <2>2
    <3> QED
      BY <3>1, <3>2
  <2>5. disabled /\ (disabled' <=> n > 1) /\ disabled' \in BOOLEAN
    BY <1>3, <2>1, <2>3 DEF enable
  <2>6. \A i \in 1..n - 1 : i \in 1..n
    BY <2>1
  <2>7. \A i \in 1..Len(scopes') : scopes'[i] <=> i > 1
    BY <2>2, <2>6
  <2> QED
    BY <2>1, <2>2, <2>4, <2>5, <2>7
<1>4. ASSUME NEW site \in Sites, warn(site) PROVE Nested'
  BY <1>4 DEF warn
<1> QED
  BY <1>1, <1>2, <1>3, <1>4 DEF Next

(* To any depth of nested disablers, a warning is shown at its first use    *)
(* exactly when no PerformanceWarningDisabler lives.                       *)
THEOREM NestedDisablers == Spec => WarnsOutsideScopes
<1>1. Nested /\ [Next]_vars =>
        [\A site \in Sites : warn(site) => (site \in shown' <=> scopes = << >>)]_vars
  BY DEF Nested, WarningsTypeOK, SilentInScope, warn
<1>2. Spec => []Nested
  BY NestedInit, NestedStep, PTL DEF Spec
<1> QED
  BY <1>1, <1>2, PTL DEF Spec, WarnsOutsideScopes

-----------------------------------------------------------------------------
(* Operators.                                                              *)

(* Only a Print takes more than one step.                                  *)
RunningPrints == running # None => operators[running].kind = "Print"

EngineInv == EngineTypeOK /\ OutputIsSource /\ RunningPrints

(* What a step can do to the operators: nothing; make one without output   *)
(* whose input exists; or give one the output that it would compute now.   *)
Computed(o) ==
  IF operators[o].kind = "TableWrapper" THEN operators[o].table ELSE input_table_left(o)

MakesOne ==
  \E o \in Operators \ Made, state \in OperatorStates :
    /\ state.output = NoTable
    /\ state.kind = "Print" => state.input \in Made
    /\ operators' = With(operators, o, state)

ExecutesOne == \E o \in Made : Returns(o, Computed(o))

OperatorsEffect == UNCHANGED operators \/ MakesOne \/ ExecutesOne

-----------------------------------------------------------------------------
(* At first there are no operators and no tables in the catalogue.         *)
LEMMA InitHolds == EngineInit => EngineInv
BY DEF EngineInit, EngineInv, EngineTypeOK, OutputIsSource, RunningPrints, Made

(* Every action of the engine has one of these effects on the operators.   *)
LEMMA StepOperators ==
  ASSUME EngineTypeOK, RunningPrints, [EngineNext]_engine_vars
  PROVE  OperatorsEffect
<1> USE DEF OperatorsEffect
<1>1. ASSUME NEW name \in TableNames, NEW table \in Pointers, add_table(name, table)
      PROVE  OperatorsEffect
  BY <1>1 DEF add_table
<1>2. ASSUME NEW name \in TableNames, drop_table(name)
      PROVE  OperatorsEffect
  BY <1>2 DEF drop_table
<1>3. CASE reset
  BY <1>3 DEF reset
<1>4. ASSUME NEW table \in Tables, Change(table)
      PROVE  OperatorsEffect
  BY <1>4 DEF Change
<1>5. ASSUME NEW o \in Operators, NEW table \in Pointers, TableWrapper(o, table)
      PROVE  OperatorsEffect
  <2> DEFINE state == [kind |-> "TableWrapper", table |-> table, input |-> None, output |-> NoTable]
  <2>1. state \in OperatorStates /\ state.output = NoTable /\ state.kind # "Print"
    BY DEF OperatorStates, Pointers
  <2>2. o \in Operators \ Made /\ operators' = With(operators, o, state)
    BY <1>5 DEF TableWrapper, make
  <2> QED BY <2>1, <2>2 DEF MakesOne
<1>6. ASSUME NEW o \in Operators, NEW in \in Operators, MakesPrint(o, in)
      PROVE  OperatorsEffect
  <2> DEFINE state == [kind |-> "Print", table |-> NoTable, input |-> in, output |-> NoTable]
  <2>1. state \in OperatorStates /\ state.output = NoTable /\ state.input \in Made
    BY <1>6 DEF OperatorStates, Pointers, MakesPrint
  <2>2. o \in Operators \ Made /\ operators' = With(operators, o, state)
    BY <1>6 DEF MakesPrint, make
  <2> QED BY <2>1, <2>2 DEF MakesOne
<1>7. ASSUME NEW o \in Operators, execute_wrapper(o)
      PROVE  OperatorsEffect
  BY <1>7 DEF execute_wrapper, ExecutesOne, Computed
<1>8. ASSUME NEW o \in Operators, execute_print(o)
      PROVE  OperatorsEffect
  BY <1>8 DEF execute_print
<1>9. ASSUME NEW site \in Sites, read_cell(site)
      PROVE  OperatorsEffect
  BY <1>9 DEF read_cell
<1>10. CASE end_print
  <2>1. running \in Made /\ operators[running].kind = "Print"
    BY <1>10 DEF end_print, EngineTypeOK, RunningPrints
  <2>2. Computed(running) = input_table_left(running)
    BY <2>1 DEF Computed
  <2>3. UNCHANGED operators \/ Returns(running, Computed(running))
    BY <1>10, <2>2 DEF end_print
  <2> QED BY <2>1, <2>3 DEF ExecutesOne
<1>11. CASE client_warnings
  BY <1>11 DEF client_warnings
<1>12. CASE UNCHANGED engine_vars
  BY <1>12 DEF engine_vars
<1>13. ASSUME NEW o \in Operators, NEW name \in DOMAIN tables, TableWrapper(o, get_table(name))
       PROVE  OperatorsEffect
  <2>1. get_table(name) \in Pointers
    BY DEF EngineTypeOK, get_table
  <2> QED BY <1>5, <1>13, <2>1
<1>14. \A table \in Tables : table \in Pointers
  BY DEF Pointers
<1> QED
  BY <1>1, <1>2, <1>3, <1>4, <1>5, <1>6, <1>7, <1>8, <1>9, <1>10, <1>11, <1>12, <1>13, <1>14
     DEF EngineNext

(* An operator is given what it has, if it has an output already.          *)
LEMMA ExecutedAgain ==
  ASSUME EngineTypeOK, OutputIsSource, NEW o \in Made, get_output(o) # NoTable
  PROVE  Computed(o) = get_output(o)
BY DEF OutputIsSource, Computed

(* What an operator computes is a pointer to a table.                      *)
LEMMA ComputedType ==
  ASSUME EngineTypeOK, NEW o \in Made
  PROVE  Computed(o) \in Pointers
<1>1. operators[o] \in OperatorStates
  BY DEF EngineTypeOK
<1>2. CASE operators[o].kind = "TableWrapper"
  BY <1>1, <1>2 DEF Computed, OperatorStates
<1>3. CASE operators[o].kind # "TableWrapper"
  <2>1. operators[o].kind = "Print"
    BY <1>1, <1>3 DEF OperatorStates
  <2>2. operators[o].input \in Made
    BY <2>1 DEF EngineTypeOK
  <2>3. operators[operators[o].input] \in OperatorStates
    BY <2>2 DEF EngineTypeOK
  <2> QED BY <1>3, <2>3 DEF Computed, input_table_left, get_output, OperatorStates
<1> QED BY <1>2, <1>3

(* The members of each operator after a step: an operator keeps its kind,  *)
(* its table and its input, and its output or that of the computation.     *)
LEMMA MembersAfter ==
  ASSUME EngineTypeOK, OperatorsEffect
  PROVE  /\ Made \subseteq Made' /\ Made' \subseteq Operators
         /\ \A o \in Made :
              /\ operators'[o] \in OperatorStates
              /\ operators'[o].kind = operators[o].kind
              /\ operators'[o].table = operators[o].table
              /\ operators'[o].input = operators[o].input
              /\ operators'[o].output \in {get_output(o), Computed(o)}
         /\ \A o \in Made' \ Made :
              /\ operators'[o] \in OperatorStates
              /\ operators'[o].output = NoTable
              /\ operators'[o].kind = "Print" => operators'[o].input \in Made
<1>1. CASE UNCHANGED operators
  BY <1>1 DEF EngineTypeOK, Made, get_output
<1>2. CASE MakesOne
  <2>1. PICK o \in Operators \ Made, state \in OperatorStates :
          /\ state.output = NoTable
          /\ state.kind = "Print" => state.input \in Made
          /\ operators' = With(operators, o, state)
    BY <1>2 DEF MakesOne
  <2>2. Made' = Made \cup {o} /\ operators'[o] = state
        /\ \A p \in Made : operators'[p] = operators[p]
    BY <2>1 DEF With, Made
  <2> QED BY <2>1, <2>2 DEF EngineTypeOK, get_output
<1>3. CASE ExecutesOne
  <2>1. PICK o \in Made : operators' = [operators EXCEPT ![o].output = Computed(o)]
    BY <1>3 DEF ExecutesOne, Returns
  <2>2. Made' = Made /\ \A p \in Made \ {o} : operators'[p] = operators[p]
    BY <2>1 DEF Made
  <2>3. operators'[o] = [operators[o] EXCEPT !.output = Computed(o)]
    BY <2>1 DEF Made
  <2>4. operators[o] \in OperatorStates /\ Computed(o) \in Pointers
    BY ComputedType DEF EngineTypeOK
  <2>5. /\ operators'[o] \in OperatorStates
        /\ operators'[o].kind = operators[o].kind
        /\ operators'[o].table = operators[o].table
        /\ operators'[o].input = operators[o].input
        /\ operators'[o].output = Computed(o)
    BY <2>3, <2>4 DEF OperatorStates
  <2> QED BY <2>2, <2>5 DEF EngineTypeOK, get_output
<1> QED BY <1>1, <1>2, <1>3 DEF OperatorsEffect

(* So an output that is there stays what it is.                            *)
LEMMA OutputStays ==
  ASSUME EngineTypeOK, OutputIsSource, OperatorsEffect, NEW o \in Made, get_output(o) # NoTable
  PROVE  operators'[o].output = get_output(o)
BY MembersAfter, ExecutedAgain

-----------------------------------------------------------------------------
(* The catalogue, the running operator and the tables keep their types.    *)
LEMMA StepRest ==
  ASSUME EngineInv, [EngineNext]_engine_vars, Made \subseteq Made',
         \A o \in Made : operators'[o].kind = operators[o].kind
  PROVE  /\ DOMAIN tables' \subseteq TableNames /\ \A n \in DOMAIN tables' : tables'[n] \in Pointers
         /\ running' \in Made' \cup {None} /\ readable' \subseteq Tables
         /\ RunningPrints'
<1> DEFINE Goal == /\ DOMAIN tables' \subseteq TableNames /\ \A n \in DOMAIN tables' : tables'[n] \in Pointers
                   /\ running' \in Made' \cup {None} /\ readable' \subseteq Tables
                   /\ RunningPrints'
<1>0. /\ DOMAIN tables \subseteq TableNames /\ \A n \in DOMAIN tables : tables[n] \in Pointers
      /\ running \in Made \cup {None} /\ readable \subseteq Tables
      /\ running # None => operators[running].kind = "Print"
  BY DEF EngineInv, EngineTypeOK, RunningPrints
<1>1. ASSUME UNCHANGED <<tables, readable, running>> PROVE Goal
  BY <1>0, <1>1 DEF RunningPrints
<1>2. ASSUME NEW name \in TableNames, NEW table \in Pointers, add_table(name, table)
      PROVE  Goal
  <2>1. /\ DOMAIN tables' \subseteq TableNames
        /\ \A n \in DOMAIN tables' : tables'[n] \in Pointers
    BY <1>0, <1>2 DEF add_table, With
  <2> QED BY <1>0, <1>2, <2>1 DEF add_table, RunningPrints
<1>3. ASSUME NEW name \in TableNames, drop_table(name)
      PROVE  Goal
  <2>1. /\ DOMAIN tables' \subseteq TableNames
        /\ \A n \in DOMAIN tables' : tables'[n] \in Pointers
    BY <1>0, <1>3 DEF drop_table, Without
  <2> QED BY <1>0, <1>3, <2>1 DEF drop_table, RunningPrints
<1>4. CASE reset
  BY <1>0, <1>4 DEF reset, RunningPrints
<1>5. ASSUME NEW table \in Tables, Change(table)
      PROVE  Goal
  BY <1>0, <1>5 DEF Change, RunningPrints
<1>6. ASSUME NEW o \in Operators, execute_print(o)
      PROVE  Goal
  BY <1>0, <1>6 DEF execute_print, RunningPrints
<1>7. CASE end_print
  BY <1>0, <1>7 DEF end_print, RunningPrints
<1>8. CASE \/ \E o \in Operators, table \in Tables : TableWrapper(o, table)
           \/ \E o \in Operators, name \in DOMAIN tables : TableWrapper(o, get_table(name))
           \/ \E o, in \in Operators : MakesPrint(o, in)
           \/ \E o \in Operators : execute_wrapper(o)
           \/ \E site \in Sites : read_cell(site)
           \/ client_warnings
           \/ UNCHANGED engine_vars
  <2>1. UNCHANGED <<tables, readable, running>>
    BY <1>8 DEF TableWrapper, MakesPrint, make, execute_wrapper, read_cell, client_warnings, engine_vars
  <2> QED BY <1>1, <2>1
<1> QED
  BY <1>2, <1>3, <1>4, <1>5, <1>6, <1>7, <1>8 DEF EngineNext

(* The invariant is inductive.                                             *)
LEMMA StepHolds ==
  ASSUME EngineInv, [EngineNext]_engine_vars
  PROVE  EngineInv'
<1>1. EngineTypeOK /\ OutputIsSource /\ RunningPrints
  BY DEF EngineInv
<1>2. OperatorsEffect
  BY <1>1, StepOperators
<1>3. /\ Made \subseteq Made' /\ Made' \subseteq Operators
      /\ \A o \in Made :
           /\ operators'[o] \in OperatorStates
           /\ operators'[o].kind = operators[o].kind
           /\ operators'[o].table = operators[o].table
           /\ operators'[o].input = operators[o].input
           /\ operators'[o].output \in {get_output(o), Computed(o)}
      /\ \A o \in Made' \ Made :
           /\ operators'[o] \in OperatorStates
           /\ operators'[o].output = NoTable
           /\ operators'[o].kind = "Print" => operators'[o].input \in Made
  BY <1>1, <1>2, MembersAfter
<1>4. \A o \in Made : operators[o].kind = "Print" => operators[o].input \in Made \ {o}
  BY <1>1 DEF EngineTypeOK
<1>5. EngineTypeOK'
  <2>1. \A o \in Made' : operators'[o] \in OperatorStates
    BY <1>3
  <2>2. \A o \in Made' : operators'[o].kind = "Print" => operators'[o].input \in Made' \ {o}
    BY <1>3, <1>4
  <2>3. /\ DOMAIN tables' \subseteq TableNames /\ \A n \in DOMAIN tables' : tables'[n] \in Pointers
        /\ running' \in Made' \cup {None} /\ readable' \subseteq Tables
    BY <1>3, StepRest
  <2>4. (Pointers = Pointers') /\ (OperatorStates = OperatorStates')
    BY DEF Pointers, OperatorStates
  <2> QED BY <1>3, <2>1, <2>2, <2>3, <2>4 DEF EngineTypeOK
<1>6. OutputIsSource'
  <2> SUFFICES ASSUME NEW o \in Made', operators'[o].output # NoTable
               PROVE  operators'[o].output =
                        IF operators'[o].kind = "TableWrapper" THEN operators'[o].table
                        ELSE operators'[operators'[o].input].output
    BY DEF OutputIsSource, get_output, input_table_left
  <2>1. o \in Made
    BY <1>3
  <2>2. operators'[o].output = Computed(o)
    BY <1>1, <1>3, <2>1, ExecutedAgain
  <2>3. CASE operators[o].kind = "TableWrapper"
    BY <1>3, <2>1, <2>2, <2>3 DEF Computed
  <2>4. CASE operators[o].kind # "TableWrapper"
    <3>1. operators[o].kind = "Print"
      BY <1>1, <2>1, <2>4 DEF EngineTypeOK, OperatorStates
    <3>2. operators[o].input \in Made
      BY <1>4, <2>1, <3>1
    <3>3. Computed(o) = get_output(operators[o].input)
      BY <2>4 DEF Computed, input_table_left
    <3>4. operators'[operators[o].input].output = get_output(operators[o].input)
      BY <1>1, <1>2, <2>2, <3>2, <3>3, OutputStays
    <3> QED BY <1>3, <2>1, <2>2, <2>4, <3>3, <3>4
  <2> QED BY <2>3, <2>4
<1>7. RunningPrints'
  BY <1>3, StepRest
<1> QED BY <1>5, <1>6, <1>7 DEF EngineInv

(* Along the whole chain of operators an output is the table the chain     *)
(* begins with (AbstractOperator::execute, get_output), whatever happens   *)
(* to the catalogue and to the table, and in whatever order and however    *)
(* often the operators are executed.                                       *)
THEOREM OutputsAreSources == EngineSpec => [](EngineTypeOK /\ OutputIsSource)
<1>1. EngineInit => EngineInv
  BY InitHolds
<1>2. EngineInv /\ [EngineNext]_engine_vars => EngineInv'
  BY StepHolds
<1>3. EngineInv => EngineTypeOK /\ OutputIsSource
  BY DEF EngineInv
<1> QED BY <1>1, <1>2, <1>3, PTL DEF EngineSpec

(* The catalogue, the operators and the running operator keep their types: *)
(* a running operator has been made, and its output is one of the tables   *)
(* of the client.                                                          *)
THEOREM EngineTypes == EngineSpec => []EngineTypeOK
BY OutputsAreSources, PTL

(* An output that others may have read is never replaced or taken away:    *)
(* not by a second execute and not by one that throws.                     *)
THEOREM OutputsAreKept == EngineSpec => OutputsKept
<1>1. EngineInit => EngineInv
  BY InitHolds
<1>2. EngineInv /\ [EngineNext]_engine_vars => EngineInv'
  BY StepHolds
<1>3. EngineInv /\ [EngineNext]_engine_vars =>
        [\A o \in Made : get_output(o) # NoTable => operators'[o].output = get_output(o)]_engine_vars
  BY StepOperators, OutputStays DEF EngineInv
<1> QED BY <1>1, <1>2, <1>3, PTL DEF EngineSpec, OutputsKept

-----------------------------------------------------------------------------
(* Each step of the engine is a step of the warnings, or leaves them.      *)
LEMMA WarningsStep ==
  ASSUME [EngineNext]_engine_vars
  PROVE  [Next]_vars
<1>1. CASE \/ \E name \in TableNames, table \in Pointers : add_table(name, table)
           \/ \E name \in TableNames : drop_table(name)
           \/ reset
           \/ \E table \in Tables : Change(table)
  BY <1>1 DEF add_table, drop_table, reset, Change, warning_vars, vars
<1>2. CASE \/ \E o \in Operators, table \in Tables : TableWrapper(o, table)
           \/ \E o \in Operators, name \in DOMAIN tables : TableWrapper(o, get_table(name))
           \/ \E o, in \in Operators : MakesPrint(o, in)
           \/ \E o \in Operators : execute_wrapper(o)
  BY <1>2 DEF TableWrapper, MakesPrint, make, execute_wrapper, warning_vars, vars
<1>3. CASE \E o \in Operators : execute_print(o)
  BY <1>3 DEF execute_print, Next
<1>4. CASE \E site \in Sites : read_cell(site)
  BY <1>4 DEF read_cell, Next
<1>5. CASE end_print
  BY <1>5 DEF end_print, Next
<1>6. CASE client_warnings
  BY <1>6 DEF client_warnings, Next
<1>7. CASE UNCHANGED engine_vars
  BY <1>7 DEF engine_vars, vars
<1> QED
  BY <1>1, <1>2, <1>3, <1>4, <1>5, <1>6, <1>7 DEF EngineNext

(* Print and the catalogue use PerformanceWarning as any client may, so    *)
(* that in the whole engine a first use shows its warning exactly when no  *)
(* disabler lives.                                                         *)
THEOREM EngineWarns == EngineSpec => WarnsOutsideScopes
<1>1. EngineInit => Init
  BY DEF EngineInit
<1>2. [EngineNext]_engine_vars => [Next]_vars
  BY WarningsStep
<1>3. EngineSpec => Spec
  BY <1>1, <1>2, PTL DEF EngineSpec, Spec
<1> QED BY <1>3, NestedDisablers, PTL

(* While Print runs its disabler lives.                                    *)
PrintDisables == Nested /\ (running # None => scopes # << >>)

(* That holds at first, when nothing runs.                                 *)
LEMMA PrintDisablesInit == EngineInit => PrintDisables
BY NestedInit DEF EngineInit, PrintDisables

(* And every step keeps it: only Print ends its own disabler.              *)
LEMMA PrintDisablesStep ==
  ASSUME PrintDisables, [EngineNext]_engine_vars
  PROVE  PrintDisables'
<1>1. Nested'
  BY WarningsStep, NestedStep DEF PrintDisables
<1>2. ASSUME running' # None PROVE scopes' # << >>
  <2>1. CASE UNCHANGED engine_vars
    BY <1>2, <2>1 DEF engine_vars, PrintDisables
  <2>2. CASE \E o \in Operators : execute_print(o)
    <3>1. scopes \in Seq(BOOLEAN) /\ scopes' = Append(scopes, disabled)
      BY <2>2 DEF execute_print, disable, PrintDisables, Nested, WarningsTypeOK
    <3> QED BY <3>1
  <2>3. CASE \E site \in Sites : read_cell(site)
    BY <1>2, <2>3 DEF read_cell, warn, PrintDisables
  <2>4. CASE end_print
    BY <1>2, <2>4 DEF end_print
  <2>5. CASE client_warnings
    BY <1>2, <2>5 DEF client_warnings, Idle
  <2>6. CASE \/ \E name \in TableNames, table \in Pointers : add_table(name, table)
             \/ \E name \in TableNames : drop_table(name)
             \/ reset
             \/ \E table \in Tables : Change(table)
    BY <1>2, <2>6 DEF add_table, drop_table, reset, Change, Idle
  <2>7. CASE \/ \E o \in Operators, table \in Tables : TableWrapper(o, table)
             \/ \E o \in Operators, name \in DOMAIN tables : TableWrapper(o, get_table(name))
             \/ \E o, in \in Operators : MakesPrint(o, in)
             \/ \E o \in Operators : execute_wrapper(o)
    BY <1>2, <2>7 DEF TableWrapper, MakesPrint, make, execute_wrapper, Idle
  <2> QED BY <2>1, <2>2, <2>3, <2>4, <2>5, <2>6, <2>7 DEF EngineNext
<1> QED BY <1>1, <1>2 DEF PrintDisables

(* A step of any kind shows no warning while Print runs.                   *)
LEMMA SilentStep ==
  ASSUME PrintDisables, [EngineNext]_engine_vars, running # None
  PROVE  shown' = shown
<1>1. disabled
  BY DEF PrintDisables, Nested, SilentInScope
<1>2. CASE disable \/ enable \/ UNCHANGED vars
  BY <1>2 DEF disable, enable, vars
<1>3. ASSUME NEW site \in Sites, warn(site) PROVE shown' = shown
  BY <1>1, <1>3 DEF warn
<1> QED BY <1>2, <1>3, WarningsStep DEF Next

(* Print shows no warning, to any depth of other disablers around it, and  *)
(* also when an earlier Print has thrown.                                  *)
THEOREM PrintSilent == EngineSpec => PrintIsSilent
<1>1. PrintDisables /\ [EngineNext]_engine_vars => PrintDisables'
  BY PrintDisablesStep
<1>2. PrintDisables /\ [EngineNext]_engine_vars =>
        [running # None => shown' = shown]_engine_vars
  BY SilentStep
<1> QED BY PrintDisablesInit, <1>1, <1>2, PTL DEF EngineSpec, PrintIsSilent
=============================================================================
