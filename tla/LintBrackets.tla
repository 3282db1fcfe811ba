---------------------------- MODULE LintBrackets ----------------------------
(***************************************************************************)
(* How cpplint.py finds the bracket that closes or opens another, over the *)
(* elided lines of a file: one pass with a stack, in which "<" is only     *)
(* taken for a bracket until something shows that it is an operator.       *)
(*                                                                         *)
(* A line is the sequence of its characters; "operator" stands as one, and *)
(* so does any other word.                                                 *)
(***************************************************************************)
EXTENDS Integers, Sequences, SequencesExt

Opening == {"(", "[", "{"}
Closing == {")", "]", "}"}
Partner(c) == CASE c = "(" -> ")" [] c = "[" -> "]" [] c = "{" -> "}"
                [] c = ")" -> "(" [] c = "]" -> "[" [] c = "}" -> "{"

(* The last character before position i that is not a blank is "operator". *)
AfterOperator(line, i) ==
  \E k \in 1..(i - 1) : /\ line[k] = "operator"
                        /\ \A j \in (k + 1)..(i - 1) : line[j] = " "

(* A mistake: a "<" that turned out to be an operator stays on the stack.  *)
DropAngles_mutant(stack, angle) == stack

(* while stack and stack[-1] == angle: stack.pop()                         *)
DropAngles(stack, angle) ==
  SubSeq(stack, 1, Max({k \in 1..Len(stack) : stack[k] # angle} \cup {0}))

(* The search: its stack, where it ended, and whether it was given up.     *)
Search(stack) == [stack |-> stack, found |-> 0, failed |-> FALSE, skip |-> FALSE]
Over(a) == a.found # 0 \/ a.failed

(* The stack became what it is now; an empty one ends the search, with     *)
(* success at position "at" or, if that is 0, without.                     *)
Now(a, stack, at) ==
  [a EXCEPT !.stack = stack,
            !.found = IF stack = << >> THEN at ELSE 0,
            !.failed = stack = << >> /\ at = 0]

(* One character of FindEndOfExpressionInLine.                             *)
CloseStep(line, a, i) ==
  LET c == line[i]
      waiting == a.stack # << >> /\ Last(a.stack) = "<"
      rest == DropAngles(a.stack, "<")
  IN CASE Over(a) -> a
       [] ~Over(a) /\ c \in Opening -> [a EXCEPT !.stack = Append(@, c)]
       [] ~Over(a) /\ c = "<" ->
            IF i > 1 /\ line[i - 1] = "<"
              THEN IF waiting THEN Now(a, Front(a.stack), 0) ELSE a
            ELSE IF AfterOperator(line, i) THEN a
            ELSE [a EXCEPT !.stack = Append(@, "<")]
       [] ~Over(a) /\ c \in Closing ->
            IF rest = << >> THEN Now(a, rest, 0)
            ELSE IF Last(rest) = Partner(c) THEN Now(a, Front(rest), i + 1)
            ELSE [a EXCEPT !.failed = TRUE]
       [] ~Over(a) /\ c = ">" ->
            IF \/ i > 1 /\ line[i - 1] = "-"
               \/ i > 1 /\ AfterOperator(line, i - 1)
               \/ ~waiting THEN a
            ELSE Now(a, Front(a.stack), i + 1)
       [] ~Over(a) /\ c = ";" -> Now(a, rest, 0)
       [] OTHER -> a

FindEndOfExpressionInLine(line, startpos, a) ==
  LET after[i \in (startpos - 1)..Len(line)] ==
        IF i = startpos - 1 THEN a ELSE CloseStep(line, after[i - 1], i)
  IN after[Len(line)]

Nowhere == [line |-> 0, pos |-> 0]

(* One line more, the first one from position "pos" on, the others while   *)
(* there is a stack.  r is [n, a]: where the search is and what it knows.  *)
CloseLine(lines, linenum, pos, r, n) ==
  IF n # linenum /\ (Over(r.a) \/ r.a.stack = << >>) THEN r
  ELSE [n |-> n,
        a |-> FindEndOfExpressionInLine(lines[n], IF n = linenum THEN pos ELSE 1, r.a)]

(* The position past the bracket that closes the one at (linenum, pos).    *)
CloseExpression(lines, linenum, pos) ==
  LET first == lines[linenum]
      after[n \in (linenum - 1)..Len(lines)] ==
        IF n = linenum - 1 THEN [n |-> linenum, a |-> Search(<< >>)]
        ELSE CloseLine(lines, linenum, pos, after[n - 1], n)
      scan == after[Len(lines)]
  IN IF \/ first[pos] \notin Opening \cup {"<"}
        \/ first[pos] = "<" /\ pos < Len(first) /\ first[pos + 1] \in {"<", "="}
        \/ scan.a.found = 0
       THEN Nowhere ELSE [line |-> scan.n, pos |-> scan.a.found]

(* One character of FindStartOfExpressionInLine, which goes backwards and  *)
(* steps over the character before an operator's sign.                     *)
OpenStep(line, a, i) ==
  LET c == line[i]
      rest == DropAngles(a.stack, ">")
      waiting == a.stack # << >> /\ Last(a.stack) = ">"
      relation == /\ i > 1 /\ i + 2 <= Len(line)
                  /\ line[i - 1] = " " /\ line[i + 1] = "=" /\ line[i + 2] = " "
  IN CASE Over(a) -> a
       [] ~Over(a) /\ a.skip -> [a EXCEPT !.skip = FALSE]
       [] ~Over(a) /\ ~a.skip /\ c \in Closing -> [a EXCEPT !.stack = Append(@, c)]
       [] ~Over(a) /\ ~a.skip /\ c = ">" ->
            IF i > 1 /\ (line[i - 1] = "-" \/ relation \/ AfterOperator(line, i))
              THEN [a EXCEPT !.skip = TRUE]
              ELSE [a EXCEPT !.stack = Append(@, ">")]
       [] ~Over(a) /\ ~a.skip /\ c = "<" ->
            IF i > 1 /\ line[i - 1] = "<" THEN [a EXCEPT !.skip = TRUE]
            ELSE IF waiting THEN Now(a, Front(a.stack), i)
            ELSE a
       [] ~Over(a) /\ ~a.skip /\ c \in Opening ->
            IF rest = << >> THEN Now(a, rest, 0)
            ELSE IF Last(rest) = Partner(c) THEN Now(a, Front(rest), i)
            ELSE [a EXCEPT !.failed = TRUE]
       [] ~Over(a) /\ ~a.skip /\ c = ";" -> Now(a, rest, 0)
       [] OTHER -> a

FindStartOfExpressionInLine(line, endpos, a) ==
  LET after[i \in 1..(endpos + 1)] ==
        IF i = endpos + 1 THEN a ELSE OpenStep(line, after[i + 1], i)
  IN [after[1] EXCEPT !.skip = FALSE]

(* One line more, backwards.                                               *)
OpenLine(lines, linenum, pos, r, n) ==
  IF n # linenum /\ (Over(r.a) \/ r.a.stack = << >>) THEN r
  ELSE [n |-> n,
        a |-> FindStartOfExpressionInLine(lines[n], IF n = linenum THEN pos ELSE Len(lines[n]), r.a)]

(* The position of the bracket that opens the one at (linenum, pos).       *)
ReverseCloseExpression(lines, linenum, pos) ==
  LET after[n \in 1..(linenum + 1)] ==
        IF n = linenum + 1 THEN [n |-> linenum, a |-> Search(<< >>)]
        ELSE OpenLine(lines, linenum, pos, after[n + 1], n)
      scan == after[1]
  IN IF lines[linenum][pos] \notin Closing \cup {">"} \/ scan.a.found = 0
       THEN Nowhere ELSE [line |-> scan.n, pos |-> scan.a.found]
=============================================================================
