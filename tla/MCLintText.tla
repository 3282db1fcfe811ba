---------------------------- MODULE MCLintText ----------------------------
(* The marks of comments and strings; and brackets of two kinds, the signs *)
(* that may be brackets and operators, set apart by blanks (">>" excepted). *)
EXTENDS LintText

MCCommentPieces ==
  {<<p>> : p \in {"open", "close", "line", "quote", "raw", "endraw", "code"}}

MCBracketPieces ==
  {<<"(", " ">>, <<")", " ">>, <<"{", " ">>, <<"}", " ">>, <<"<", " ">>, <<">", " ">>, <<">">>,
   <<">", "=", " ">>, <<"<", "<", " ">>, <<"-", ">", " ">>, <<"operator", " ">>, <<";", " ">>}
=============================================================================
