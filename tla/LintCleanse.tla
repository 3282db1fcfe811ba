---------------------------- MODULE LintCleanse ----------------------------
(***************************************************************************)
(* What cpplint.py removes from a file before it checks it: comments that  *)
(* span lines, raw strings, strings, and the comments of a line.           *)
(*                                                                         *)
(* A line is a sequence of pieces set apart by blanks: the comment marks   *)
(* "open" and "close" (of a block comment) and "line", the quotation mark  *)
(* "quote", "raw" and "endraw" (the ends of a raw string with an empty     *)
(* delimiter, R followed by a quote and "(", and ")" followed by a quote), *)
(* "empty" (a string with nothing in it), and anything else, code.         *)
(***************************************************************************)
EXTENDS Integers, Sequences, SequencesExt, FiniteSets

Where(line, piece) == {i \in 1..Len(line) : line[i] = piece}
Least(S) == CHOOSE i \in S : \A j \in S : i <= j
CountOf(line, piece) == Cardinality(Where(line, piece))
After(line, i) == SubSeq(line, i + 1, Len(line))
Before(line, i) == SubSeq(line, 1, i - 1)

-----------------------------------------------------------------------------
(* RemoveMultiLineComments: from a line that begins with the mark and has  *)
(* no end of one, to the first line whose last piece is an end.            *)

StartsComment(line) ==
  line # << >> /\ line[1] = "open" /\ Where(line, "close") = {}
EndsComment(line) == line # << >> /\ Last(line) = "close"

Starts(lines, from) == {n \in from..Len(lines) : StartsComment(lines[n])}
Ends(lines, from) == {n \in from..Len(lines) : EndsComment(lines[n])}

(* One round of the loop; r is [lines, next, error].                       *)
RemoveMultiLineComment(r) ==
  LET starts == Starts(r.lines, r.next)
      begin == Least(starts)
      ends == Ends(r.lines, begin)
      end == Least(ends)
  IN IF starts = {} THEN [r EXCEPT !.next = Len(r.lines) + 1]
     ELSE IF ends = {} THEN [r EXCEPT !.next = Len(r.lines) + 1, !.error = TRUE]
     ELSE [r EXCEPT !.lines = [n \in 1..Len(@) |-> IF n \in begin..end THEN << "open", "close" >>
                                                   ELSE @[n]],
                    !.next = end + 1]

RemoveMultiLineComments(lines) ==
  LET after[k \in 0..Len(lines)] ==
        IF k = 0 THEN [lines |-> lines, next |-> 1, error |-> FALSE]
        ELSE RemoveMultiLineComment(after[k - 1])
  IN after[Len(lines)]

-----------------------------------------------------------------------------
(* CleanseRawStrings.  The line up to here may be a line comment: the      *)
(* quotation marks before some mark of one pair up.                        *)
Quotes(line) == {i \in 1..Len(line) : line[i] \in {"quote", "raw", "endraw"}}
InLineComment(prefix) ==
  \E i \in Where(prefix, "line") : Cardinality(Quotes(Before(prefix, i))) % 2 = 0

(* Raw strings that begin on the line, from the left; r is [line, inside]. *)
CleanseRawString(r) ==
  LET begin == Least(Where(r.line, "raw"))
      tail == After(r.line, begin)
      ends == Where(tail, "endraw")
  IN IF r.inside \/ Where(r.line, "raw") = {} \/ InLineComment(Before(r.line, begin)) THEN r
     ELSE IF ends = {} THEN [line |-> Append(Before(r.line, begin), "empty"), inside |-> TRUE]
     ELSE [line |-> Before(r.line, begin) \o << "empty" >> \o After(tail, Least(ends)),
           inside |-> FALSE]

CleanseRawLine(line, inside) ==
  LET ends == Where(line, "endraw")
      resumed == IF ~inside THEN [line |-> line, inside |-> FALSE]
                 ELSE IF ends = {} THEN [line |-> << "empty" >>, inside |-> TRUE]
                 ELSE [line |-> << "empty" >> \o After(line, Least(ends)), inside |-> FALSE]
      after[k \in 0..Len(line)] == IF k = 0 THEN resumed ELSE CleanseRawString(after[k - 1])
  IN after[Len(line)]

CleanseRawStrings(lines) ==
  LET after[n \in 0..Len(lines)] ==
        IF n = 0 THEN [line |-> << >>, inside |-> FALSE]
        ELSE CleanseRawLine(lines[n], after[n - 1].inside)
  IN [n \in 1..Len(lines) |-> after[n].line]

-----------------------------------------------------------------------------
(* _CollapseStrings and CleanseComments, line by line.                     *)

(* The ends of a raw string that is still there contain quotation marks.   *)
Spell(piece) == CASE piece = "raw" -> << "word", "quote", "paren" >>
                  [] piece = "endraw" -> << "paren", "quote" >>
                  [] OTHER -> << piece >>
Spelled(line) ==
  LET upto[i \in 0..Len(line)] == IF i = 0 THEN << >> ELSE upto[i - 1] \o Spell(line[i])
  IN upto[Len(line)]

(* r is [collapsed, rest]; an unpaired mark ends the loop.                 *)
CollapseString(r) ==
  LET quotes == Where(r.rest, "quote")
      first == Least(quotes)
      second == Least(quotes \ {first})
  IN IF Cardinality(quotes) < 2 THEN r
     ELSE [collapsed |-> r.collapsed \o Before(r.rest, first) \o << "empty" >>,
           rest |-> After(r.rest, second)]

CollapseStrings(line) ==
  LET spelled == Spelled(line)
      after[k \in 0..Len(spelled)] ==
        IF k = 0 THEN [collapsed |-> << >>, rest |-> spelled] ELSE CollapseString(after[k - 1])
      r == after[Len(spelled)]
  IN r.collapsed \o r.rest

(* IsCppString: an odd number of marks before here.                        *)
IsCppString(prefix) == CountOf(prefix, "quote") % 2 = 1

(* Block comments that begin and end on the line.                          *)
DropComment(line) ==
  LET pairs == {p \in Where(line, "open") \X Where(line, "close") : p[1] < p[2]}
      begin == Least({p[1] : p \in pairs})
      end == Least({p[2] : p \in {q \in pairs : q[1] = begin}})
  IN IF pairs = {} THEN line ELSE Before(line, begin) \o After(line, end)

CleanseComments(line) ==
  LET marks == Where(line, "line")
      cut == IF marks # {} /\ ~IsCppString(Before(line, Least(marks)))
               THEN Before(line, Least(marks)) ELSE line
      after[k \in 0..Len(line)] == IF k = 0 THEN cut ELSE DropComment(after[k - 1])
  IN after[Len(line)]

(* A mistake: the comments of a line are removed before its strings.       *)
Elided_mutant(line) == CollapseStrings(CleanseComments(line))

(* The member "elided" of CleansedLines.                                   *)
Elided(line) == CleanseComments(CollapseStrings(line))

(* CheckForMultilineCommentsAndStrings.                                    *)
ComplainsAbout(elided) ==
  \/ CountOf(elided, "open") > CountOf(elided, "close")
  \/ CountOf(elided, "quote") % 2 = 1
=============================================================================
