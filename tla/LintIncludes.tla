---------------------------- MODULE LintIncludes ----------------------------
(***************************************************************************)
(* The #include lines of one file: _IncludeState, the checks of            *)
(* CheckIncludeLine, and the two checks made at the end of the file,       *)
(* CheckForIncludeWhatYouUse and CheckHeaderFileIncluded.  The file comes  *)
(* in line by line; its conditionals are balanced, as a file's are that    *)
(* compiles.                                                               *)
(*                                                                         *)
(* A name is [dir, words, ext]: the directories, the words of the base     *)
(* name between its "-" and "_", and the extension.  Canonical[h] is the   *)
(* place of h's canonical path in the alphabet.  That a line mentions what *)
(* a standard header declares is an input.                                 *)
(***************************************************************************)
EXTENDS Integers, Sequences, SequencesExt, FiniteSets

CONSTANTS
  Files,         \* the files that are linted: [name, absolute], both names
  Includes,      \* the #include lines: [header, system]
  CppHeaders,    \* _CPP_HEADERS
  ThirdParty,    \* the headers that _THIRD_PARTY_HEADERS_PATTERN matches
  Canonical,     \* [headers -> Nat \ {0}]
  Required,      \* the standard headers a line of code can make necessary
  Disks,         \* the headers that exist: functions from absolute names to
                 \* the headers they include
  MaxLines       \* bound: the length of the file

ASSUME NamesAssumption ==
  \A f \in Files : f.name \in [dir : Seq(STRING), words : Seq(STRING), ext : STRING]

VARIABLES
  file, disk,    \* given, constant
  lines,         \* the lines read so far
  include_list, section, last_header,   \* _IncludeState
  reports,       \* the errors reported: [line, category, about]
  done

vars == <<file, disk, lines, include_list, section, last_header, reports, done>>

Init ==
  /\ file \in Files
  /\ disk \in Disks
  /\ lines = << >>
  /\ include_list = << << >> >>
  /\ section = 0
  /\ last_header = 0
  /\ reports = {}
  /\ done = FALSE

linenum == Len(lines) + 1

-----------------------------------------------------------------------------
(* Names.                                                                  *)

IsSource(name) == name.ext \in {"c", "cc", "cpp", "cxx"}

DropCommonSuffixes(name) ==
  LET n == Len(name.words)
  IN IF n > 1 /\ \/ name.ext = "cc" /\ Last(name.words) \in {"test", "regtest", "unittest"}
                 \/ name.ext = "h" /\ Last(name.words) \in {"inl", "impl", "internal"}
       THEN SubSeq(name.words, 1, n - 1) ELSE name.words

ClassifyInclude(include) ==
  LET h == include.header
      target == DropCommonSuffixes(file.name)
      base == DropCommonSuffixes(h)
      near == \/ h.dir = file.name.dir
              \/ file.name.dir # << >> /\ h.dir = Append(Front(file.name.dir), "public")
  IN CASE include.system /\ h \in CppHeaders    -> "_CPP_SYS_HEADER"
       [] include.system /\ h \notin CppHeaders -> "_C_SYS_HEADER"
       [] OTHER -> IF target = base /\ near THEN "_LIKELY_MY_HEADER"
                   ELSE IF target[1] = base[1] THEN "_POSSIBLE_MY_HEADER"
                   ELSE "_OTHER_HEADER"

(* A name written out, for the searches for one name within another.       *)
Written(name) ==
  [i \in 1..(2 * Len(name.dir)) |-> IF i % 2 = 1 THEN name.dir[(i + 1) \div 2] ELSE "/"]
    \o name.words \o (IF name.ext = "" THEN << >> ELSE << ".", name.ext >>)
Within(s, t) == \E i \in 0..(Len(t) - Len(s)) : SubSeq(t, i + 1, i + Len(s)) = s

IsTest(words) == Len(words) > 1 /\ Last(words) \in {"test", "unittest", "regtest"}

(* FilesBelongToSameModule: directories called public or internal do not   *)
(* count, except as the first one of a relative path.                      *)
Counted(dirs) == SelectSeq(dirs, LAMBDA d : d \notin {"public", "internal"})
ModuleDir(h) == IF h.dir = << >> THEN << >> ELSE << Head(h.dir) >> \o Counted(Tail(h.dir))
CcWords(cc) == IF IsTest(cc.words) THEN Front(cc.words) ELSE cc.words
HWords(h) == IF Len(h.words) > 1 /\ Last(h.words) = "inl" THEN Front(h.words) ELSE h.words

FilesBelongToSameModule(cc, h) ==
  /\ IsSource(cc)
  /\ h.ext = "h"
  /\ IF h.dir = << >> THEN IsSuffix(HWords(h), CcWords(cc))
     ELSE HWords(h) = CcWords(cc) /\ IsSuffix(ModuleDir(h), Counted(cc.dir))

(* The path it gives to such a header: what the source's name has more of, *)
(* and the header's name.                                                  *)
Fullpath(cc, h) ==
  [h EXCEPT !.dir = SubSeq(Counted(cc.dir), 1, Len(Counted(cc.dir)) - Len(ModuleDir(h))) \o @,
            !.words = SubSeq(CcWords(cc), 1, Len(CcWords(cc)) - Len(HWords(h))) \o @]

-----------------------------------------------------------------------------
(* _IncludeState.                                                          *)

Listed(l) == UNION {{l[i][j] : j \in 1..Len(l[i])} : i \in 1..Len(l)}

(* A mistake: a conditional (say, #ifdef) does not open a list of its own. *)
ResetSection_mutant(directive) ==
  include_list' = IF directive \in {"else", "elif"}
                    THEN [include_list EXCEPT ![Len(include_list)] = << >>]
                    ELSE include_list

(* A mistake: a new branch keeps the headers of the one before.            *)
ResetSection_mutant2(directive) ==
  include_list' = IF directive = "if" THEN Append(include_list, << >>) ELSE include_list

(* The lists of includes after a directive (#ifdef and #ifndef are "if").  *)
ResetSection(directive) ==
  include_list' =
    CASE directive = "if" -> Append(include_list, << >>)
      [] directive \in {"else", "elif"} -> [include_list EXCEPT ![Len(include_list)] = << >>]
      [] OTHER -> include_list

FindHeader(h) == {x \in Listed(include_list) : x.header = h}

(* A mistake: the header of the file is accepted after system headers and  *)
(* does not end their sections.                                            *)
NextSection_mutant(type) ==
  CASE type = "_C_SYS_HEADER" -> IF section <= 2 THEN 2 ELSE section
    [] type = "_CPP_SYS_HEADER" -> IF section <= 3 THEN 3 ELSE section
    [] type \in {"_LIKELY_MY_HEADER", "_POSSIBLE_MY_HEADER"} ->
         IF section <= 1 THEN 1 ELSE section
    [] OTHER -> 4

(* CheckNextIncludeOrder: the section after an include of this type.       *)
NextSection(type) ==
  CASE type = "_C_SYS_HEADER" -> IF section <= 2 THEN 2 ELSE section
    [] type = "_CPP_SYS_HEADER" -> IF section <= 3 THEN 3 ELSE section
    [] type \in {"_LIKELY_MY_HEADER", "_POSSIBLE_MY_HEADER"} ->
         IF section <= 1 THEN 1 ELSE 4
    [] OTHER -> 4

OutOfOrder(type) == \/ type = "_C_SYS_HEADER" /\ section > 2
                    \/ type = "_CPP_SYS_HEADER" /\ section > 3

AfterInclude == lines # << >> /\ Last(lines).kind = "include"

-----------------------------------------------------------------------------
(* The lines of the file.                                                  *)

Reported(category, about) == [line |-> linenum, category |-> category, about |-> about]

(* CheckIncludeLine.                                                       *)
CheckIncludeLine(include) ==
  LET h == include.header
      type == ClassifyInclude(include)
      duplicate == FindHeader(h) # {}
      foreign == h.ext = "cc" /\ h.dir # file.name.dir
      recorded == ~duplicate /\ ~foreign /\ h \notin ThirdParty
      last == IF OutOfOrder(type) \/ NextSection(type) # section THEN 0 ELSE last_header
  IN /\ ~done
     /\ Len(lines) < MaxLines
     /\ lines' = Append(lines, [kind |-> "include", include |-> include])
     /\ reports' = reports
          \cup (IF ~include.system /\ h.dir = << >> /\ h.ext = "h" /\ h \notin ThirdParty
                  THEN {Reported("no directory", h)} ELSE {})
          \cup (IF duplicate THEN {Reported("duplicate", h)} ELSE {})
          \cup (IF ~duplicate /\ foreign THEN {Reported("other package", h)} ELSE {})
          \cup (IF recorded /\ OutOfOrder(type) THEN {Reported("include_order", h)} ELSE {})
          \cup (IF recorded /\ last > Canonical[h] /\ AfterInclude
                  THEN {Reported("include_alpha", h)} ELSE {})
     /\ IF recorded
          THEN /\ include_list' =
                    [include_list EXCEPT ![Len(include_list)] =
                       Append(@, [header |-> h, line |-> linenum])]
               /\ section' = NextSection(type)
               /\ last_header' = Canonical[h]
          ELSE UNCHANGED <<include_list, section, last_header>>
     /\ UNCHANGED <<file, disk, done>>

(* The open conditionals after a prefix of the file.                       *)
Directives(n, ds) == {k \in 1..n : lines[k].kind = "directive" /\ lines[k].directive \in ds}
Depth(n) == Cardinality(Directives(n, {"if"})) - Cardinality(Directives(n, {"endif"}))

(* The part of CheckLanguage that meets a directive.                       *)
Directive(directive) ==
  /\ ~done
  /\ Len(lines) < MaxLines
  /\ directive # "if" => Depth(Len(lines)) > 0
  /\ lines' = Append(lines, [kind |-> "directive", directive |-> directive])
  /\ section' = 0
  /\ last_header' = 0
  /\ ResetSection(directive)
  /\ UNCHANGED <<file, disk, reports, done>>

(* A line that is blank, or uses what some standard headers declare.       *)
Code(uses) ==
  /\ ~done
  /\ Len(lines) < MaxLines
  /\ lines' = Append(lines, [kind |-> "code", uses |-> uses])
  /\ UNCHANGED <<file, disk, include_list, section, last_header, reports, done>>

-----------------------------------------------------------------------------
(* The end of the file.                                                    *)

IncludedHere == {x.header : x \in Listed(include_list)}

(* UpdateIncludeState, for every header of the same module that is found.  *)
FoundHeaders ==
  {Fullpath(file.absolute, h) :
     h \in {x \in IncludedHere : FilesBelongToSameModule(file.absolute, x)}} \cap DOMAIN disk

(* A mistake: what the header of the module includes is not counted.       *)
include_dict_mutant == IncludedHere

include_dict == IncludedHere \cup UNION {disk[h] : h \in FoundHeaders}

Uses(h) == {k \in 1..Len(lines) : lines[k].kind = "code" /\ h \in lines[k].uses}

CheckForIncludeWhatYouUse ==
  IF file.name.ext = "cc" /\ FoundHeaders = {} THEN {}
  ELSE {[line |-> CHOOSE k \in Uses(h) : \A j \in Uses(h) : j <= k,
         category |-> "include_what_you_use", about |-> h] :
          h \in {r \in Required : Uses(r) # {} /\ r \notin include_dict}}

CheckHeaderFileIncluded ==
  LET header == [file.name EXCEPT !.ext = "h"]
      related(h) == Within(Written(header), Written(h)) \/ Within(Written(h), Written(header))
      listed == {x.line : x \in Listed(include_list)}
  IN IF \/ ~IsSource(file.name) \/ IsTest(file.name.words)
        \/ [file.absolute EXCEPT !.ext = "h"] \notin DOMAIN disk
        \/ \E h \in IncludedHere : related(h) THEN {}
     ELSE {[line |-> IF listed = {} THEN 0 ELSE CHOOSE n \in listed : \A m \in listed : n <= m,
            category |-> "own header", about |-> header]}

EndOfFile ==
  /\ ~done
  /\ Depth(Len(lines)) = 0
  /\ done' = TRUE
  /\ reports' = reports \cup CheckForIncludeWhatYouUse \cup CheckHeaderFileIncluded
  /\ UNCHANGED <<file, disk, lines, include_list, section, last_header>>

Next == \/ \E include \in Includes : CheckIncludeLine(include)
        \/ \E directive \in {"if", "elif", "else", "endif"} : Directive(directive)
        \/ \E uses \in {{}} \cup {{h} : h \in Required} : Code(uses)
        \/ EndOfFile

Spec == Init /\ [][Next]_vars

-----------------------------------------------------------------------------
(* The includes of the file that are not refused, whatever came before.    *)
Eligible(n) ==
  /\ lines[n].kind = "include"
  /\ lines[n].include.header \notin ThirdParty
  /\ ~(lines[n].include.header.ext = "cc" /\ lines[n].include.header.dir # file.name.dir)
ReportedAt(n, category) == \E r \in reports : r.line = n /\ r.category = category

(* No directive lies between two lines.                                    *)
Together(m, n) == Directives(n, {"if", "elif", "else", "endif"}) \cap m..n = {}

(* The includes that count for the order: _IncludeState sees them.         *)
IncludeType(n) == ClassifyInclude(lines[n].include)
Taken(n) == Eligible(n) /\ ~ReportedAt(n, "duplicate")
Own(n) ==
  IncludeType(n) \in {"_LIKELY_MY_HEADER", "_POSSIBLE_MY_HEADER"}
Before(n) == {m \in 1..(n - 1) : Taken(m) /\ Together(m, n)}
Late(n) == \/ IncludeType(n) = "_OTHER_HEADER"
           \/ Own(n) /\ \E k \in Before(n) : ~Own(k)

(* A system header is out of order exactly when, since the last directive, *)
(* an include came before it that belongs after it: a C++ header before a  *)
(* C one, any other header, or the file's own header when that itself came *)
(* after something else.                                                   *)
OrderExact ==
  \A n \in 1..Len(lines) :
    Taken(n) =>
      (ReportedAt(n, "include_order") <=>
         \/ IncludeType(n) = "_CPP_SYS_HEADER" /\ \E m \in Before(n) : Late(m)
         \/ IncludeType(n) = "_C_SYS_HEADER"
              /\ \E m \in Before(n) : Late(m) \/ IncludeType(m) = "_CPP_SYS_HEADER")

(* An include outside all conditionals is never forgotten: any later one   *)
(* of the same header is a duplicate, however many #else come between.     *)
NeverForgotten ==
  \A n \in 1..Len(lines) :
    /\ Eligible(n) /\ Depth(n) = 0 => lines[n].include.header \in IncludedHere
    /\ \A m \in 1..(n - 1) :
         /\ Eligible(m) /\ Eligible(n)
         /\ Depth(m) = 0
         /\ lines[n].include.header = lines[m].include.header
         => ReportedAt(n, "duplicate")

(* Where conditionals are not nested, a duplicate is real: the two lines   *)
(* are not in different branches of one conditional.                       *)
DuplicatesReal ==
  LET opening(n) == {k \in Directives(n, {"if"}) : Depth(k) = 1}
      branch(n) == Directives(n, {"if", "elif", "else"})
      apart(m, n) == /\ Depth(m) = 1 /\ Depth(n) = 1
                     /\ opening(m) = opening(n)
                     /\ branch(m) # branch(n)
      unnested == \A k \in 1..Len(lines) : Depth(k) <= 1
  IN unnested =>
       \A n \in 1..Len(lines) :
         ReportedAt(n, "duplicate") =>
           \E m \in 1..(n - 1) : /\ lines[m].kind = "include"
                                 /\ lines[m].include.header = lines[n].include.header
                                 /\ ~apart(m, n)

(* At the end of the file nobody is told to include what an unconditional  *)
(* line of the file includes already, nor, for a standard header, what the *)
(* header of its module includes.                                          *)
EndReportsReal ==
  LET here == {lines[n].include.header : n \in {k \in 1..Len(lines) : Eligible(k) /\ Depth(k) = 0}}
      own == {Fullpath(file.absolute, h) :
                h \in {x \in here : FilesBelongToSameModule(file.absolute, x)}} \cap DOMAIN disk
  IN \A r \in reports :
       /\ r.category \in {"include_what_you_use", "own header"} => r.about \notin here
       /\ r.category = "include_what_you_use" => \A h \in own : r.about \notin disk[h]
=============================================================================
