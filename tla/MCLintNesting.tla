--------------------------- MODULE MCLintNesting ---------------------------
(* Short files over two sets of lines: conditionals around blocks, and the *)
(* heads, brackets, functions and assembly that blocks are made of.        *)
EXTENDS LintNesting

Line(tokens) == [directive |-> "none", indent |-> 0, tokens |-> tokens, comment |-> "none",
                 macro |-> FALSE]
Hash(directive) == [Line(<< >>) EXCEPT !.directive = directive]
Indented(line) == [line EXCEPT !.indent = 2]

ConditionalLines ==
  {Hash("if"), Hash("else"), Hash("endif"), Line(<<"namespace", "{">>),
   Line(<<"class", "{">>), Line(<<"}">>)}
BlockLines ==
  {Line(<<"namespace">>), Line(<<"{">>), Line(<<"}">>), Indented(Line(<<"}", ";">>)),
   Indented(Line(<<"class", ":", "{">>)), Indented(Line(<<"class", ";">>)),
   Line(<<"function", "(", ")", "{">>), Line(<<"function", "(">>),
   Indented(Line(<<"class", ")", ";">>)), Line(<<"struct">>),
   Indented(Line(<<"public:">>)), Line(<< >>),
   [Line(<<"namespace", "{", "namespace", "{">>) EXCEPT !.macro = TRUE],
   [Line(<<"}", "}">>) EXCEPT !.comment = "wrong"],
   [Line(<<"}">>) EXCEPT !.comment = "right"],
   Line(<<"extern", "{">>), Line(<<"namespace", ";", "}", "{">>)}
FunctionLines ==
  {Line(<<"function", "(", ")", "{">>), Line(<<"TEST", "(", ")", "{">>), Line(<<"}">>),
   Indented(Line(<<"other", ";">>)), Indented(Line(<<"asm", "(">>)), Indented(Line(<<")", ";">>)),
   Indented(Line(<<"asm", "{">>))}

MCTexts == [1..6 -> ConditionalLines] \cup [1..4 -> BlockLines] \cup [1..5 -> FunctionLines]
=============================================================================
