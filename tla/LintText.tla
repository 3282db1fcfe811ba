------------------------------ MODULE LintText ------------------------------
(***************************************************************************)
(* The texts that the cleansing and the search for brackets are tried on.  *)
(* A text grows by a piece or a line at a time, out of the pieces of one   *)
(* of two languages: comments and strings, or brackets and operators.      *)
(***************************************************************************)
EXTENDS LintBrackets, LintCleanse

CONSTANTS
  CommentPieces,   \* the pieces of comments and strings, each a sequence
  BracketPieces,   \* the pieces of expressions, each a sequence of characters
  MaxComments, MaxBrackets   \* bounds: how many pieces and line ends

ASSUME LintTextAssumption ==
  CommentPieces \subseteq Seq(STRING) /\ BracketPieces \subseteq Seq(STRING)

VARIABLES
  language,        \* "comments" or "brackets"
  lines,           \* the lines of the text
  size             \* how many pieces and line ends it is made of

vars == <<language, lines, size>>

Init == language \in {"comments", "brackets"} /\ lines = << << >> >> /\ size = 0

Grow ==
  /\ size < (IF language = "comments" THEN MaxComments ELSE MaxBrackets)
  /\ size' = size + 1
  /\ UNCHANGED language

AddPiece ==
  /\ Grow
  /\ \E p \in (IF language = "comments" THEN CommentPieces ELSE BracketPieces) :
       lines' = [lines EXCEPT ![Len(lines)] = @ \o p]

NewLine == Grow /\ lines' = Append(lines, << >>)

Next == AddPiece \/ NewLine

Spec == Init /\ [][Next]_vars

-----------------------------------------------------------------------------
(* What a compiler sees: one pass over the pieces.  a is [in, code, odd]:  *)
(* where the text is now, the pieces of code met on the line, each string  *)
(* an empty one, and whether the line is set aside.                        *)
Lex(a, piece) ==
  CASE a.in = "code" ->
         (CASE piece = "open" -> [a EXCEPT !.in = "block"]
            [] piece = "line" -> [a EXCEPT !.in = "line"]
            [] piece = "quote" -> [a EXCEPT !.in = "string", !.code = Append(@, "empty")]
            [] piece = "endraw" -> [a EXCEPT !.in = "string", !.code = @ \o << "paren", "empty" >>]
            [] piece = "raw" -> [a EXCEPT !.in = "raw", !.code = Append(@, "empty")]
            [] piece = "close" -> [a EXCEPT !.odd = TRUE]
            [] OTHER -> [a EXCEPT !.code = Append(@, piece)])
    [] a.in = "string" ->
         (CASE piece \in {"quote", "endraw"} -> [a EXCEPT !.in = "code"]
            [] piece = "raw" -> [a EXCEPT !.in = "code", !.odd = TRUE]
            [] OTHER -> a)
    [] a.in = "raw" -> IF piece = "endraw" THEN [a EXCEPT !.in = "code"] ELSE a
    [] a.in = "block" ->
         (CASE piece = "close" -> [a EXCEPT !.in = "code"]
            [] piece \in {"quote", "raw", "endraw"} -> [a EXCEPT !.odd = TRUE]
            [] OTHER -> a)
    [] OTHER -> a

LexPieces(a, line) ==
  LET after[i \in 0..Len(line)] == IF i = 0 THEN a ELSE Lex(after[i - 1], line[i])
  IN after[Len(line)]

(* A line: line comments end with it, and so should strings.  A longer     *)
(* comment is hidden if it does not end where the line does or ends before *)
(* code, or if what looks like one begins a line within a raw string.      *)
LexLine(in, line) ==
  LET a == LexPieces([in |-> in, code |-> IF in = "raw" THEN << "empty" >> ELSE << >>, odd |-> FALSE],
                     line)
  IN [in |-> IF a.in \in {"block", "raw"} THEN a.in ELSE "code",
      code |-> a.code,
      odd |-> a.odd,
      hidden |-> \/ in = "block" /\ a.code # << >>
                 \/ in = "block" /\ a.in # "block" /\ ~EndsComment(line)
                 \/ in = "raw" /\ StartsComment(line)]

Lexed[n \in 0..Len(lines)] ==
  IF n = 0 THEN [in |-> "code", code |-> << >>, odd |-> FALSE, hidden |-> FALSE]
  ELSE LexLine(Lexed[n - 1].in, lines[n])

(* The linter complains about the comments or the strings of the text.     *)
Cleansed == CleanseRawStrings(RemoveMultiLineComments(lines).lines)
Complains == \/ RemoveMultiLineComments(lines).error
             \/ \E n \in 1..Len(lines) : ComplainsAbout(Elided(Cleansed[n]))

(* What is left of a line to be checked is the code that a compiler sees   *)
(* there, with strings that are empty, or the linter has said that it does *)
(* not cope with the comments and strings of this file.  Left aside are    *)
(* quotation marks within block comments, the end of a comment where none  *)
(* is open, and longer comments that are hidden from the linter.           *)
CodeIsWhatIsLeft ==
  language = "comments" /\ (\A n \in 1..Len(lines) : ~Lexed[n].odd /\ ~Lexed[n].hidden) =>
    Complains \/ \A n \in 1..Len(lines) : Elided(Cleansed[n]) = Lexed[n].code

-----------------------------------------------------------------------------
(* The places of the characters of an expression.                         *)
Places == UNION {{n} \X (1..Len(lines[n])) : n \in 1..Len(lines)}
At(p) == lines[p[1]][p[2]]
Precedes(p, q) == p[1] < q[1] \/ (p[1] = q[1] /\ p[2] < q[2])
Between(p, q) == {r \in Places : ~Precedes(r, p) /\ ~Precedes(q, r)}

(* The brackets other than "<" from one place to another are balanced.     *)
Number(S, C) == Cardinality({r \in S : At(r) \in C})
Balanced(p, q) ==
  /\ \A r \in Between(p, q) : Number(Between(p, r), Closing) <= Number(Between(p, r), Opening)
  /\ Number(Between(p, q), Closing) = Number(Between(p, q), Opening)

(* The partner of a bracket: where the brackets from it on first balance,  *)
(* if each of them meets one of its own kind.                              *)
Partners(p) == {q \in Places : Precedes(p, q) /\ At(q) \in Closing /\ Balanced(p, q)}
Partnered(p, q) ==
  /\ q \in Partners(p)
  /\ \A r \in Partners(p) : ~Precedes(r, q)
Matching(p, q) ==
  /\ Partnered(p, q)
  /\ \A r \in Between(p, q) : At(r) \in Opening =>
       \E s \in Between(p, q) : Partnered(r, s) /\ At(s) = Partner(At(r))

Closes(p) == CloseExpression(lines, p[1], p[2])
Opens(p) == ReverseCloseExpression(lines, p[1], p[2])

(* A bracket that is not "<" is closed where the brackets balance, however *)
(* many "<" and ">" that may be operators lie between, and nowhere if they *)
(* never do or if they cross; and from there the search backwards returns. *)
BracketsMatch ==
  language = "brackets" =>
    \A p \in Places : At(p) \in Opening =>
      LET e == Closes(p)
          q == <<e.line, e.pos - 1>>
      IN IF e = Nowhere THEN ~\E r \in Places : Matching(p, r)
         ELSE Matching(p, q) /\ Opens(q) = [line |-> p[1], pos |-> p[2]]

(* Where "<" begins a template argument list, if anything does: not the   *)
(* second sign of a shift, and not the name of an operator.                *)
MayBeginList(p) ==
  /\ At(p) = "<"
  /\ p[2] > 1 => At(<<p[1], p[2] - 1>>) # "<"
  /\ ~AfterOperator(lines[p[1]], p[2])

(* What is taken for a template argument list ends with a ">", and between *)
(* its ends the other brackets are balanced and no statement ends outside  *)
(* of them.                                                                *)
TemplateListsBalance ==
  language = "brackets" =>
    \A p \in Places : MayBeginList(p) =>
      LET e == Closes(p)
          q == <<e.line, e.pos - 1>>
      IN e # Nowhere =>
           /\ At(q) = ">"
           /\ Balanced(p, q)
           /\ \A r \in Between(p, q) : At(r) = ";" => ~Balanced(p, r)
=============================================================================
