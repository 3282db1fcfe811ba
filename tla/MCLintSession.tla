--------------------------- MODULE MCLintSession ---------------------------
(***************************************************************************)
(* Two files, a.cc in the directory q and b.h in p above it; q is in p.    *)
(***************************************************************************)
EXTENDS LintSession

MCCategories ==
  {"build/c++11", "build/header_guard", "build/include_alpha", "legal/copyright",
   "readability/braces", "readability/multiline_comment", "readability/nolint",
   "readability/utf8", "runtime/int", "whitespace/empty_loop_body", "whitespace/line_length",
   "whitespace/newline"}
MCLegacy == {"readability/streams"}
Top(t) == CASE t = "build" -> {"build/c++11", "build/header_guard", "build/include_alpha"}
            [] t = "legal" -> {"legal/copyright"}
            [] t = "readability" -> {"readability/braces", "readability/multiline_comment",
                                     "readability/nolint", "readability/utf8"}
            [] t = "runtime" -> {"runtime/int"}
            [] t = "whitespace" -> {"whitespace/empty_loop_body", "whitespace/line_length",
                                    "whitespace/newline"}
Tops == {"build", "legal", "readability", "runtime", "whitespace"}
MCTopLevel == [c \in MCCategories |-> CHOOSE t \in Tops : c \in Top(t)]
MCCovers == [p \in MCCategories \cup Tops \cup {""} |->
               IF p = "" THEN MCCategories ELSE IF p \in Tops THEN Top(p) ELSE {p}]
Minus(p) == [sign |-> "-", prefix |-> p]
Plus(p) == [sign |-> "+", prefix |-> p]
Unsigned(p) == [sign |-> "", prefix |-> p]
MCDefaultFilters == << Minus("build/include_alpha") >>

At(d, b) == [dir |-> d, base |-> b]
MCPath == [f \in {"a", "b"} |-> IF f = "a" THEN << At("q", "a"), At("p", "q") >>
                                ELSE << At("p", "b") >>]
MCExt == [f \in {"a", "b"} |-> IF f = "a" THEN "cc" ELSE "h"]
MCRepositoryName == [f \in {"a", "b"} |-> IF f = "a" THEN <<"p", "q", "a">> ELSE <<"p", "b">>]

NoGuard == [nolint |-> TRUE, ifndef |-> Missing, define |-> Missing, ifndef_line |-> 0,
            endif_line |-> 0, endif |-> Missing, endif_style |-> "//", slashes |-> TRUE]
Guard(path, u) == [path |-> path, underscores |-> u]
Line == [nolint |-> Missing, width |-> 10, unsplittable |-> FALSE, asm |-> FALSE,
         findings |-> << >>, cr |-> FALSE]
Text == [copyright |-> TRUE, globally |-> {}, open_comment |-> 0, guard |-> NoGuard,
         lines |-> << Line >>, at_end |-> << >>]
Nolint(c) == [next |-> FALSE, category |-> c]
NextLine(c) == [next |-> TRUE, category |-> c]
Finding(by, n, c, confidence) ==
  [by |-> by, line |-> n, category |-> c, confidence |-> confidence]
Opt(name, val) == [name |-> name, val |-> val]

(* A file of two lines with what the checks find in them.                  *)
TwoLines(first, second, n1, n2) ==
  [Text EXCEPT !.lines = << [Line EXCEPT !.findings = first, !.nolint = n1],
                            [Line EXCEPT !.findings = second, !.nolint = n2] >>]

Nolints == {Missing, Nolint(All), Nolint("readability/braces"), NextLine(All),
            NextLine("runtime/int"), Nolint("readability/streams"), Nolint("typo")}

(* NOLINT comments: findings on their line, and ahead of it.               *)
NolintTexts ==
  {TwoLines(<< Finding("CheckTrailingSemicolon", 2, "readability/braces", 4),
               Finding("CheckLanguage", 1, "runtime/int", 4) >>,
            << Finding("CheckForNamespaceIndentation", 2, "runtime/int", 4),
               Finding("FlagCxx11Features", 2, "build/c++11", 5) >>, n1, n2) :
     n1 \in Nolints, n2 \in Nolints}

EarlyTexts ==
  {TwoLines(<< Finding("CheckEmptyBlockBody", 2, "whitespace/empty_loop_body", 5) >>,
            << >>, Missing, Nolint(All))}

(* An asm block, a file for the kernel, mixed line ends, no copyright, a   *)
(* comment that does not end, and a finding at the end of the file.        *)
OddTexts ==
  {[TwoLines(<< Finding("Update", 1, "runtime/int", 4),
                Finding("CheckLanguage", 1, "readability/braces", 4),
                Finding("FlagCxx11Features", 1, "build/c++11", 5) >>,
             << >>, Missing, Missing)
      EXCEPT !.lines[1].asm = asm, !.lines[2].cr = cr, !.copyright = c,
             !.globally = IF c THEN {"readability/braces"} ELSE {"legal/copyright"},
             !.open_comment = IF cr THEN 1 ELSE 0,
             !.at_end = << Finding("CheckForBadCharacters", 1, "readability/utf8", 5) >>] :
     asm \in BOOLEAN, cr \in BOOLEAN, c \in BOOLEAN}

(* Long lines.                                                             *)
WideText == [Text EXCEPT !.lines = << [Line EXCEPT !.width = 100],
                                      [Line EXCEPT !.width = 200, !.nolint = Missing],
                                      [Line EXCEPT !.width = 200, !.unsplittable = TRUE] >>]

(* Headers: no guard, the right one, an old one and a wrong one.           *)
Guards == {Guard(<<"p", "b">>, 1), Guard(<<"p", "b">>, 2), Guard(<<"b">>, 1)}
HeaderTexts ==
  {[Text EXCEPT !.lines = << [Line EXCEPT !.nolint = n], Line >>,
                !.guard = [nolint |-> FALSE, ifndef |-> g, define |-> d, ifndef_line |-> 1,
                           endif_line |-> 2, endif |-> e, endif_style |-> style,
                           slashes |-> TRUE]] :
     g \in Guards, d \in {Guard(<<"p", "b">>, 1), Guard(<<"b">>, 1)}, e \in Guards,
     style \in {"//", "/*"}, n \in {Missing, Nolint(All), NextLine(All)}}

NoConfig == [d \in {"p", "q"} |-> Missing]
Env(options, filenames, config, text_of) ==
  [options |-> options, filenames |-> filenames, config |-> config, text |-> text_of]
Texts(a, b) == [f \in {"a", "b"} |-> IF f = "a" THEN a ELSE b]

verbose0 == Opt("verbose", 0)
CommandLines ==
  {<< >>, << verbose0, Opt("counting", "detailed") >>, << Opt("counting", "toplevel") >>,
   << Opt("filter", << Minus("readability"), Plus("readability/nolint") >>), Opt("verbose", 5) >>,
   << Opt("filter", << Unsigned("runtime") >>) >>, << Opt("filter", << >>) >>,
   << Opt("help", 0), Opt("filter", << >>) >>, << Opt("unknown", 0) >>,
   << Opt("counting", "none") >>, << Opt("linelength", NotANumber) >>,
   << Opt("linelength", 120), Opt("root", <<"p">>), Opt("output", "vs7") >>,
   << Opt("extensions", {"h"}) >>, << Opt("filter", << Minus("") >>), Opt("filter", << Plus("") >>) >>}

ConfigTexts ==
  {Missing, Unreadable, << Opt("noparent", 0) >>,
   << Opt("filter", << Minus("runtime") >>), Opt("filter", << Plus("runtime/int") >>) >>,
   << Opt("filter", << Plus("build/include_alpha"), Minus("build") >>), Opt("typo", 0) >>,
   << Opt("exclude_files", {"q", "b"}), Opt("filter", << Unsigned("runtime") >>) >>,
   << Opt("filter", << Plus("runtime"), Minus("readability") >>), Opt("noparent", 0) >>}

sample == TwoLines(<< Finding("CheckLanguage", 1, "runtime/int", 4),
                      Finding("CheckLanguage", 1, "build/include_alpha", 4) >>,
                   << Finding("CheckBraces", 2, "readability/braces", 4),
                      Finding("FlagCxx11Features", 2, "build/c++11", 5) >>, Missing, Missing)
quiet_sample == [sample EXCEPT !.lines[1].nolint = NextLine(All), !.globally = {"build/c++11"}]

Orders == {<<"a", "b">>, <<"b", "a">>, <<"a">>}

MCEnvironments ==
  {Env(o, fs, NoConfig, Texts(t, WideText)) :
     o \in CommandLines, fs \in {<<"a", "b">>, << >>}, t \in OddTexts}
  \cup {Env(<< verbose0 >>, <<"a", "b">>, NoConfig, Texts(t, sample)) : t \in NolintTexts}
  \cup {Env(<< verbose0, o >>, << "b" >>, NoConfig, Texts(Unreadable, t)) :
          t \in HeaderTexts, o \in {Opt("root", <<"p">>), Opt("root", <<"x">>)}}
  \cup {Env(<< verbose0, Opt("counting", "detailed") >>, fs,
            [d \in {"p", "q"} |-> IF d = "p" THEN p ELSE q], Texts(a, b)) :
          fs \in Orders, p \in ConfigTexts, q \in ConfigTexts,
          a \in {sample, quiet_sample, Unreadable}, b \in {sample}}

(* Configurations that set the line length or the root.                    *)
ScopeConfigs == {Missing, << Opt("linelength", 150) >>, << Opt("linelength", 90) >>,
                 << Opt("root", <<"p">>) >>, << Opt("linelength", NotANumber) >>}
MCScopeEnvironments ==
  {Env(<< verbose0, Opt("counting", "detailed") >>, fs,
       [d \in {"p", "q"} |-> IF d = "p" THEN p ELSE q], Texts(WideText, WideText)) :
     fs \in Orders, p \in ScopeConfigs, q \in ScopeConfigs}

MCEarlyEnvironments ==
  {Env(<< verbose0 >>, <<"a">>, NoConfig, Texts(t, sample)) : t \in EarlyTexts \cup NolintTexts}
=============================================================================
