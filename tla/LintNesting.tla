---------------------------- MODULE LintNesting ----------------------------
(***************************************************************************)
(* How cpplint.py follows the blocks of a file from line to line:          *)
(* NestingState with its stack of blocks and its stack of conditionals,    *)
(* and _FunctionState, which counts the lines of a function.               *)
(*                                                                         *)
(* A line is [directive, indent, tokens, comment, macro].  Its tokens are  *)
(* the words and signs the code looks for (Words): "template class" is a   *)
(* class within template arguments, an access specifier has its colon, and *)
(* "function", "TEST" and "MACRO" are names followed by a parenthesis.     *)
(* "comment" is what a comment after the closing brace of a namespace      *)
(* says: "none", "right" or "wrong".                                       *)
(***************************************************************************)
EXTENDS Integers, Sequences, SequencesExt, FiniteSets

CONSTANTS
  Texts,             \* the files: sequences of lines
  Verbosities,       \* the values of --verbose
  LongNamespace,     \* 10: the lines from which an end comment is required
  NormalTrigger,     \* 250: _FunctionState._NORMAL_TRIGGER
  TestTrigger        \* 400: _FunctionState._TEST_TRIGGER

AccessSpecifiers == {"public:", "private:", "protected:"}
Delimiters == {"{", "}", ";", ")"}
Words ==
  AccessSpecifiers \cup Delimiters \cup
    {"namespace", "class", "struct", "template class", "extern", "asm", "function", "TEST",
     "MACRO", "(", ":", "other"}

Lines ==
  [directive : {"none", "if", "else", "endif"}, indent : Nat, tokens : Seq(Words),
   comment : {"none", "right", "wrong"}, macro : BOOLEAN]

ASSUME LintNestingAssumption ==
  /\ Texts \subseteq Seq(Lines)
  /\ Verbosities \subseteq 0..5
  /\ NormalTrigger \in Nat \ {0}
  /\ TestTrigger \in Nat \ {0}

(* What ^ means, as far as it is used: the provers have no rule for it.    *)
ASSUME PowersAssumption == \A k \in 0..5 : 2^k \in Nat

VARIABLES
  text, verbose_level,   \* given, constant
  linenum,               \* the lines processed
  nest,                  \* NestingState: stack, pp_stack, and for the line
                         \* just processed the lowest the stack was
  function_state,        \* [in_a_function, lines_in_function, test]
  reports                \* the errors reported: [line, category, level]

vars == <<text, verbose_level, linenum, nest, function_state, reports>>

Report(n, category, level) == [line |-> n, category |-> category, level |-> level]

-----------------------------------------------------------------------------
(* The blocks.                                                             *)

Block(kind, n, seen) ==
  [kind |-> kind, line |-> n, seen_open_brace |-> seen, open_parentheses |-> 0,
   inline_asm |-> "NO", access |-> "none", indent |-> 0, is_derived |-> FALSE]

ClassInfo(class_or_struct, n, indent) ==
  [Block("class", n, FALSE) EXCEPT
     !.access = IF class_or_struct = "struct" THEN "public:" ELSE "private:",
     !.indent = indent]

Empty == [stack |-> << >>, pp_stack |-> << >>, low |-> 0, found |-> {}]

Top(s) == Last(s.stack)
SeenOpenBrace(s) == s.stack = << >> \/ Top(s).seen_open_brace
Push(s, block) == [s EXCEPT !.stack = Append(@, block)]
Pop(s) == [s EXCEPT !.stack = Front(@), !.low = IF @ < Len(s.stack) THEN @ ELSE Len(s.stack) - 1]
SetTop(s, block) == [s EXCEPT !.stack[Len(s.stack)] = block]
InAsmBlock(s) == s.stack # << >> /\ Top(s).inline_asm # "NO"

(* CheckEnd of the block that a closing brace ends.                        *)
CheckEnd(block, n, line) ==
  LET alone == line.tokens[1] = "}"
  IN CASE block.kind = "class" ->
            IF alone /\ line.indent # block.indent
              THEN {Report(n, "whitespace/indent", 3)} ELSE {}
       [] block.kind = "namespace" ->
            IF \/ n - block.line < LongNamespace /\ ~(alone /\ line.comment # "none")
               \/ alone /\ line.comment = "right" THEN {}
            ELSE {Report(n, "readability/namespace", 5)}
       [] OTHER -> {}

-----------------------------------------------------------------------------
(* UpdatePreprocessor: the first branch of a conditional decides what is   *)
(* open after it; every other one starts from where the #if was.           *)

(* A mistake: every branch overwrites what the first one left.             *)
EnterElse_mutant(info, stack) == [info EXCEPT !.seen_else = TRUE, !.stack_before_else = stack]

EnterElse(info, stack) ==
  IF info.seen_else THEN info
  ELSE [info EXCEPT !.seen_else = TRUE, !.stack_before_else = stack]

UpdatePreprocessor(s, directive) ==
  LET info == Last(s.pp_stack)
  IN CASE directive = "if" ->
            [s EXCEPT !.pp_stack = Append(@, [stack_before_if |-> s.stack,
                                              stack_before_else |-> << >>,
                                              seen_else |-> FALSE])]
       [] directive = "else" /\ s.pp_stack # << >> ->
            [s EXCEPT !.pp_stack = Append(Front(@), EnterElse(info, s.stack)),
                      !.stack = info.stack_before_if,
                      !.low = 0]
       [] directive = "endif" /\ s.pp_stack # << >> ->
            [s EXCEPT !.pp_stack = Front(@),
                      !.stack = IF info.seen_else THEN info.stack_before_else ELSE @,
                      !.low = IF info.seen_else THEN 0 ELSE @]
       [] OTHER -> s

-----------------------------------------------------------------------------
(* Update: the rest of what one line does to the stack.                    *)

Count(tokens, token) == Cardinality({i \in 1..Len(tokens) : tokens[i] = token})
StartsAsm(tokens) == Len(tokens) > 1 /\ tokens[1] = "asm" /\ tokens[2] \in {"(", "{"}

(* Parentheses, and inline assembly in them.                               *)
CountParentheses(s, tokens) ==
  LET change == Count(tokens, "(") - Count(tokens, ")")
      block == [Top(s) EXCEPT !.open_parentheses = @ + change]
      asm == CASE block.inline_asm \in {"NO", "END"} ->
                    IF change # 0 /\ block.open_parentheses = 1 /\ StartsAsm(tokens)
                      THEN "INSIDE" ELSE "NO"
               [] block.inline_asm = "INSIDE" ->
                    IF block.open_parentheses = 0 THEN "END" ELSE "INSIDE"
               [] OTHER -> block.inline_asm
  IN IF s.stack = << >> THEN s ELSE SetTop(s, [block EXCEPT !.inline_asm = asm])

(* The namespaces at the start of the line.  r is [s, rest].               *)
ConsumeNamespace(n, r) ==
  LET tail == Tail(r.rest)
      braces == {i \in 1..Len(tail) : tail[i] = "{"}
      first == CHOOSE i \in braces : \A j \in braces : i <= j
  IN IF r.rest = << >> \/ Head(r.rest) # "namespace" THEN r
     ELSE [s |-> Push(r.s, Block("namespace", n, braces # {})),
           rest |-> IF braces = {} THEN tail ELSE SubSeq(tail, first + 1, Len(tail))]

(* A class declared by what is left of the line.                           *)
ConsumeClass(n, indent, r) ==
  IF /\ r.rest # << >>
     /\ Head(r.rest) \in {"class", "struct"}
     /\ r.s.stack = << >> \/ Top(r.s).open_parentheses = 0
    THEN [s |-> Push(r.s, ClassInfo(Head(r.rest), n, indent)), rest |-> Tail(r.rest)]
    ELSE r

(* CheckBegin of a head, and the access specifiers of a class.             *)
UpdateClass(n, line, r) ==
  LET specifiers == {i \in 1..Len(r.rest) : r.rest[i] \in AccessSpecifiers}
      last == CHOOSE i \in specifiers : \A j \in specifiers : j <= i
      block == Top(r.s)
      derived == ~block.seen_open_brace /\ ":" \in {line.tokens[i] : i \in 1..Len(line.tokens)}
      misplaced == /\ specifiers # {} /\ last = 1 /\ r.rest = line.tokens
                   /\ line.indent # block.indent + 1
  IN IF r.s.stack = << >> \/ block.kind # "class" THEN r
     ELSE [r EXCEPT !.s =
             [SetTop(r.s, [block EXCEPT !.is_derived = @ \/ derived,
                                        !.access = IF specifiers = {} THEN @ ELSE r.rest[last]])
                EXCEPT !.found = @ \cup (IF misplaced THEN {Report(n, "whitespace/indent", 3)}
                                         ELSE {})]]

(* A mistake: a semicolon does not end the head of a class.                *)
ConsumeToken_mutant(n, line, s, token, start) ==
  CASE token = "{" ->
         IF ~SeenOpenBrace(s) THEN SetTop(s, [Top(s) EXCEPT !.seen_open_brace = TRUE])
         ELSE Push(s, Block("block", n, TRUE))
    [] token = "}" -> IF s.stack = << >> THEN s ELSE Pop(s)
    [] OTHER -> s

(* A brace, a semicolon or a closing parenthesis.  "start" is what stands  *)
(* between it and the one before.                                          *)
ConsumeToken(n, line, s, token, start) ==
  CASE token = "{" ->
         IF ~SeenOpenBrace(s) THEN SetTop(s, [Top(s) EXCEPT !.seen_open_brace = TRUE])
         ELSE IF start = << "extern" >> /\ line.indent = 0 /\ line.tokens[1] = "extern"
           THEN Push(s, Block("extern", n, TRUE))
         ELSE Push(s, [Block("block", n, TRUE) EXCEPT
                         !.inline_asm = IF start = << "asm" >> THEN "BLOCK" ELSE "NO"])
    [] token \in {";", ")"} -> IF SeenOpenBrace(s) THEN s ELSE Pop(s)
    [] token = "}" ->
         IF s.stack = << >> THEN s
         ELSE [Pop(s) EXCEPT !.found = @ \cup CheckEnd(Top(s), n, line)]

(* One token more.  a is [s, start].                                       *)
ConsumeNext(n, line, a, token) ==
  IF token \notin Delimiters THEN [s |-> a.s, start |-> Append(a.start, token)]
  ELSE [s |-> ConsumeToken(n, line, a.s, token, a.start), start |-> << >>]

ConsumeTokens(n, line, r) ==
  LET after[i \in 0..Len(r.rest)] ==
        IF i = 0 THEN [s |-> r.s, start |-> << >>]
        ELSE ConsumeNext(n, line, after[i - 1], r.rest[i])
  IN after[Len(r.rest)].s

(* The loop over the namespaces; a line has no more of them than tokens.   *)
ConsumeNamespaces(n, line, s) ==
  LET after[i \in 0..Len(line.tokens)] ==
        IF i = 0 THEN [s |-> s, rest |-> line.tokens] ELSE ConsumeNamespace(n, after[i - 1])
  IN after[Len(line.tokens)]

Update(s, n, line) ==
  LET s1 == UpdatePreprocessor([s EXCEPT !.low = Len(s.stack), !.found = {}], line.directive)
      s2 == CountParentheses(s1, line.tokens)
      r1 == ConsumeNamespaces(n, line, s2)
      r2 == ConsumeClass(n, line.indent, r1)
      r3 == UpdateClass(n, line, r2)
  IN ConsumeTokens(n, line, r3)

-----------------------------------------------------------------------------
(* CheckForNamespaceIndentation.  previous_stack_top is the block below    *)
(* the top if the line pushed one block and never went below where it      *)
(* began.                                                                  *)

IsForwardClassDeclaration(tokens) ==
  /\ Len(tokens) > 1
  /\ tokens[Len(tokens)] = ";"
  /\ tokens[Len(tokens) - 1] = "class"

CheckForNamespaceIndentation(before, after, n) ==
  LET line == text[n]
      depth == Len(after.stack)
      forward == IsForwardClassDeclaration(line.tokens)
      item == /\ depth > 1
              /\ Top(after).kind \in {"class", "namespace"}
              /\ after.stack[depth - 1].kind = "namespace"
              /\ depth = Len(before.stack) + 1
              /\ after.low >= Len(before.stack)
      in_namespace == IF forward THEN depth >= 1 /\ Top(after).kind = "namespace"
                      ELSE depth > 1 /\ Top(after).kind \in {"class", "namespace"}
                             /\ after.stack[depth - 1].kind = "namespace"
  IN IF (item \/ forward) /\ ~line.macro /\ in_namespace /\ line.indent > 0
       THEN {Report(n, "runtime/indentation_namespace", 4)} ELSE {}

-----------------------------------------------------------------------------
(* CheckForFunctionLengths.                                                *)

(* A name and a parenthesis at the start of the line, but not a macro's.   *)
StartingFunction(line) ==
  line.indent = 0 /\ line.tokens # << >> /\ line.tokens[1] \in {"function", "TEST"}

Has(n, tokens) == \E i \in 1..Len(text[n].tokens) : text[n].tokens[i] \in tokens

(* The first line from n on that shows whether this is a definition.       *)
Decides(n) == {k \in n..Len(text) : Has(k, {";", "}", "{"})}
BodyLine(n) == CHOOSE k \in Decides(n) : \A j \in Decides(n) : k <= j

(* A mistake: the level is that of a trigger one power of two lower.       *)
ErrorLevel_mutant(lines, base) ==
  LET powers == {k \in 0..5 : lines \div base >= 2 ^ k}
  IN (CHOOSE k \in powers : \A j \in powers : j <= k) - 1

(* int(log2(lines / base)), at most 5.                                     *)
ErrorLevel(lines, base) ==
  LET powers == {k \in 0..5 : lines \div base >= 2 ^ k}
  IN CHOOSE k \in powers : \A j \in powers : j <= k

BaseTrigger(test) == IF test THEN TestTrigger ELSE NormalTrigger

CheckSize(f, n) ==
  IF f.in_a_function /\ f.lines_in_function > BaseTrigger(f.test) * 2 ^ verbose_level
    THEN {Report(n, "readability/fn_size", ErrorLevel(f.lines_in_function, BaseTrigger(f.test)))}
    ELSE {}

(* [f, found]: the state after a line, and what is reported.               *)
CheckForFunctionLengths(f, n) ==
  LET line == text[n]
  IN CASE StartingFunction(line) ->
            IF Decides(n) = {} THEN [f |-> f, found |-> {Report(n, "readability/fn_size", 5)}]
            ELSE IF Has(BodyLine(n), {";", "}"}) THEN [f |-> f, found |-> {}]
            ELSE [f |-> [in_a_function |-> TRUE, lines_in_function |-> 0,
                         test |-> line.tokens[1] = "TEST"],
                  found |-> {}]
       [] line.indent = 0 /\ line.tokens = << "}" >> ->
            [f |-> [f EXCEPT !.in_a_function = FALSE], found |-> CheckSize(f, n)]
       [] OTHER ->
            [f |-> IF f.in_a_function /\ (line.tokens # << >> \/ line.directive # "none")
                     THEN [f EXCEPT !.lines_in_function = @ + 1] ELSE f,
             found |-> {}]

-----------------------------------------------------------------------------
Init ==
  /\ text \in Texts
  /\ verbose_level \in Verbosities
  /\ linenum = 0
  /\ nest = Empty
  /\ function_state = [in_a_function |-> FALSE, lines_in_function |-> 0, test |-> FALSE]
  /\ reports = {}

(* The first steps of ProcessLine; in an asm block it goes no further.     *)
ProcessLine ==
  /\ linenum < Len(text)
  /\ linenum' = linenum + 1
  /\ nest' = Update(nest, linenum + 1, text[linenum + 1])
  /\ LET functions == CheckForFunctionLengths(function_state, linenum + 1)
         skip == InAsmBlock(nest')
     IN /\ function_state' = IF skip THEN function_state ELSE functions.f
        /\ reports' = reports \cup nest'.found
                        \cup CheckForNamespaceIndentation(nest, nest', linenum + 1)
                        \cup (IF skip THEN {} ELSE functions.found)
  /\ UNCHANGED <<text, verbose_level>>

(* CheckCompletedBlocks.                                                   *)
CheckCompletedBlocks ==
  /\ linenum = Len(text)
  /\ linenum' = linenum + 1
  /\ reports' = reports \cup
       {Report(nest.stack[i].line,
               IF nest.stack[i].kind = "class" THEN "build/class" ELSE "build/namespaces", 5) :
          i \in {k \in 1..Len(nest.stack) : nest.stack[k].kind \in {"class", "namespace"}}}
  /\ UNCHANGED <<text, verbose_level, nest, function_state>>

Next == ProcessLine \/ CheckCompletedBlocks

Spec == Init /\ [][Next]_vars

-----------------------------------------------------------------------------
(* The conditionals of a file.                                             *)
Of(file, n, directive) == {k \in 1..n : file[k].directive = directive}
Depth(file, n) == Cardinality(Of(file, n, "if")) - Cardinality(Of(file, n, "endif"))
Balanced(file, n) ==
  \A k \in 1..n : Depth(file, k) >= 0 /\ (file[k].directive = "else" => Depth(file, k) > 0)
InElse(file, n) ==
  \E d \in Of(file, n, "else") : \A k \in d..n : Depth(file, k) >= Depth(file, d)
Processed == IF linenum > Len(text) THEN Len(text) ELSE linenum

(* What every line of a file leaves, if all branches but the first of each *)
(* conditional are deleted from it.                                        *)
FirstBranches(file) ==
  LET after[n \in 0..Len(file)] ==
        IF n = 0 THEN Empty
        ELSE IF InElse(file, n) THEN after[n - 1] ELSE Update(after[n - 1], n, file[n])
  IN after

(* Only the first branch of a conditional counts: outside the other ones,  *)
(* the open blocks are those of a file from which they have been deleted.  *)
FirstBranchCounts ==
  Balanced(text, Processed) /\ ~InElse(text, Processed) =>
    nest.stack = FirstBranches(text)[Processed].stack

(* The places of the tokens up to a line, and what stands there.           *)
Places(file, n) == UNION {{<<k, i>> : i \in 1..Len(file[k].tokens)} : k \in 1..n}
Before(p, q) == p[1] < q[1] \/ (p[1] = q[1] /\ p[2] < q[2])
Token(file, p) == file[p[1]].tokens[p[2]]
IsHead(file, p) == Token(file, p) \in {"class", "struct", "namespace"}
EndsHead(file, p) == Token(file, p) \in {"{", ";", ")"}
Opens(file, p) == Token(file, p) = "{"
Closes(file, p) == Token(file, p) = "}"
Net(file, places) ==
  Cardinality({p \in places : Opens(file, p)}) - Cardinality({p \in places : Closes(file, p)})

(* Whether the tokens can be C++ without conditionals: no brace too many   *)
(* is closed, every head of a class or a namespace is completed or ended   *)
(* before another head or a "}", and on the line of a namespace the first  *)
(* "{" is not that of another block: "namespace a = b; } void f() {" is    *)
(* C++, and its brace is taken for the namespace's.                        *)
WellFormed(file, n) ==
  LET all == Places(file, n)
  IN /\ \A k \in 1..n : file[k].directive = "none"
     /\ \A q \in all : Net(file, {p \in all : ~Before(q, p)}) >= 0
     /\ \A p, q \in all :
          IsHead(file, p) /\ (IsHead(file, q) \/ Closes(file, q)) /\ Before(p, q) =>
            \E r \in all : Before(p, r) /\ Before(r, q) /\ EndsHead(file, r)
     /\ \A k \in 1..n : \A h, c, b \in 1..Len(file[k].tokens) :
          h < c /\ c < b /\ Token(file, <<k, h>>) = "namespace"
            /\ Closes(file, <<k, c>>) /\ Opens(file, <<k, b>>) =>
              \E o \in h..c : Opens(file, <<k, o>>)

(* In such a file the blocks whose brace was seen are as many as the       *)
(* braces that are open, and only the innermost block can still wait for   *)
(* its brace: a file with balanced braces and complete heads is never told *)
(* that a class or a namespace does not end.                               *)
BlocksMatchBraces ==
  WellFormed(text, Processed) =>
    LET waiting == {i \in 1..Len(nest.stack) : ~nest.stack[i].seen_open_brace}
    IN /\ Len(nest.stack) - Cardinality(waiting) = Net(text, Places(text, Processed))
       /\ waiting \subseteq {Len(nest.stack)}

(* A function reported as too long is too long for the verbosity that was  *)
(* asked for: the level computed from its size never falls below it, or    *)
(* the report would be dropped.                                            *)
LongFunctionsPrinted ==
  \A r \in reports : r.category = "readability/fn_size" => r.level >= verbose_level
=============================================================================
