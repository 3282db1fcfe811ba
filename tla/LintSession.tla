---------------------------- MODULE LintSession ----------------------------
(***************************************************************************)
(* One run of cpplint.py: the command line, the CPPLINT.cfg files above    *)
(* each linted file, the NOLINT comments, the filters, and the counters    *)
(* the exit status is made of.  What the individual checks look for is     *)
(* data here: a line carries its findings, a finding the check it comes    *)
(* from, its category, its confidence and the line it is reported on.      *)
(*                                                                         *)
(* Names are abstracted.  A category is a model value; a filter names a    *)
(* prefix and Covers[prefix] is the set of the categories that start with  *)
(* it.  A path is the sequence of its components, and so is the header     *)
(* guard made from it.  A pattern of exclude_files is the set of the names *)
(* it matches.                                                             *)
(***************************************************************************)
EXTENDS Integers, Sequences, SequencesExt, FiniteSets

CONSTANTS
  Categories,       \* _ERROR_CATEGORIES
  Legacy,           \* _LEGACY_ERROR_CATEGORIES
  TopLevel,         \* [Categories -> the part before the slash]
  Covers,           \* [filter prefixes -> SUBSET Categories]
  DefaultFilters,   \* _DEFAULT_FILTERS
  Path,             \* [files -> Seq([dir, base])]: the file and every
                    \* directory above it, each with the directory it is in
  Ext,              \* [files -> the extension]
  RepositoryName,   \* [files -> Seq(component)]
  Environments,     \* the command lines and the files they are run on
  Missing,          \* what is not there: a CPPLINT.cfg, a guard, a NOLINT
  Unreadable,       \* a file that cannot be opened
  NotANumber        \* a text that int() rejects

Stdin == "-"
All == "*"          \* the key None of _error_suppressions
NoRoot == << >>     \* _root is None or the empty string

EmptyBodies == {"whitespace/empty_loop_body", "whitespace/empty_if_body",
                "whitespace/empty_conditional_body"}

(* What a check of line n reports is on this line or, for checks of a body *)
(* that spans several lines, on an earlier one.  Two checks look ahead.    *)
FoundFrom(n, finding) ==
  /\ finding.category \in Categories \ {"legal/copyright"}
  /\ finding.line \in Nat /\ finding.confidence \in Nat
  /\ \/ finding.by = "CheckTrailingSemicolon"
     \/ finding.by = "CheckEmptyBlockBody" /\ finding.category \in EmptyBodies
     \/ finding.line <= n

IsText(t) ==
  /\ t.globally \subseteq Categories /\ t.open_comment \in Nat
  /\ t.guard.ifndef_line \in Nat /\ t.guard.endif_line \in Nat
  /\ t.lines \in Seq(ToSet(t.lines)) /\ t.at_end \in Seq(ToSet(t.at_end))
  /\ \A n \in 1..Len(t.lines) :
       LET findings == t.lines[n].findings
       IN /\ findings \in Seq(ToSet(findings))
          /\ \A i \in 1..Len(findings) : FoundFrom(n, findings[i])
  /\ \A i \in 1..Len(t.at_end) : FoundFrom(Len(t.lines), t.at_end[i])

(* Options of the command line, or lines of a configuration.               *)
Filters == [sign : {"+", "-", ""}, prefix : DOMAIN Covers]
IsOptions(options) ==
  /\ options \in Seq(ToSet(options))
  /\ \A i \in 1..Len(options) : options[i].name = "filter" => options[i].val \in Seq(Filters)

ASSUME LintSessionAssumption ==
  /\ {"build/header_guard", "legal/copyright", "readability/multiline_comment",
      "readability/nolint", "whitespace/line_length", "whitespace/newline"} \subseteq Categories
  /\ DefaultFilters \in Seq(Filters) /\ Missing # Unreadable
  /\ \A e \in Environments :
       /\ IsOptions(e.options)
       /\ \A d \in DOMAIN e.config : e.config[d] \in {Missing, Unreadable} \/ IsOptions(e.config[d])
       /\ e.filenames \in Seq(DOMAIN e.text)
       /\ \A f \in DOMAIN e.text :
            /\ e.text[f] = Unreadable \/ IsText(e.text[f])
            /\ Path[f] \in Seq(ToSet(Path[f]))
            /\ \A l \in 1..Len(Path[f]) : Path[f][l].dir \in DOMAIN e.config

VARIABLES
  env,                  \* [options, filenames, config, text]: given, constant
  settings,             \* _cpplint_state and the globals that flags set
  error_suppressions,   \* _error_suppressions, as pairs <<category, line>>
  global_suppressions,  \* the keys of _global_error_suppressions
  tally,                \* error_count and errors_by_category
  pc,                   \* where the process is
  queue,                \* the files not yet finished, the current one first
  level,                \* ProcessConfigOverrides: the directory looked at
  cfg_filters,          \* ProcessConfigOverrides: the filter lines found
  todo,                 \* ProcessFileData: the reports still to be made
  printed               \* the errors written, oldest first

vars == <<env, settings, error_suppressions, global_suppressions, tally, pc,
          queue, level, cfg_filters, todo, printed>>

file == Head(queue)
text == env.text[file]

(* _CppLintState() and the globals when the module is loaded.              *)
Loaded == [verbose |-> 1, counting |-> "total", filters |-> DefaultFilters,
           backup |-> DefaultFilters, line_length |-> 80, root |-> NoRoot,
           extensions |-> {"cc", "h", "cpp", "cu", "cuh"}]

Init ==
  /\ env \in Environments
  /\ settings = Loaded
  /\ error_suppressions = {}
  /\ global_suppressions = {}
  /\ tally = [count |-> 0, by_category |-> << >>]
  /\ pc = "main"
  /\ queue = << >>
  /\ level = 1
  /\ cfg_filters = << >>
  /\ todo = << >>
  /\ printed = << >>

-----------------------------------------------------------------------------
(* The command line.                                                       *)

Valid(filters) == \A i \in 1..Len(filters) : filters[i].sign \in {"+", "-"}

(* The options that end the process: --help, a bad value, and --filter= .  *)
Fatal(opt) ==
  \/ opt.name = "help"
  \/ opt.name = "unknown"
  \/ opt.name = "counting" /\ opt.val \notin {"total", "toplevel", "detailed"}
  \/ opt.name = "output" /\ opt.val \notin {"emacs", "vs7", "eclipse"}
  \/ opt.name \in {"linelength", "verbose"} /\ opt.val = NotANumber
  \/ opt.name = "filter" /\ opt.val = << >>

(* The value of the last option of a name: a later one replaces it.        *)
LastGiven(options, name, default) ==
  LET given == {i \in 1..Len(options) : options[i].name = name}
  IN IF given = {} THEN default
     ELSE options[CHOOSE i \in given : \A j \in given : j <= i].val

(* What a command line leaves in the settings.                             *)
Settings(options) ==
  [verbose |-> LastGiven(options, "verbose", Loaded.verbose),
   counting |-> LastGiven(options, "counting", ""),
   filters |-> DefaultFilters \o LastGiven(options, "filter", << >>),
   backup |-> Loaded.backup,
   line_length |-> LastGiven(options, "linelength", Loaded.line_length),
   root |-> LastGiven(options, "root", Loaded.root),
   extensions |-> LastGiven(options, "extensions", Loaded.extensions)]

Exit(status) == pc' = status

(* --filter= lists the categories and exits with 0, unless an option       *)
(* before it ends the process or getopt rejects the command line.          *)
ListsCategories(options) ==
  /\ \A i \in 1..Len(options) : options[i].name # "unknown"
  /\ \E i \in 1..Len(options) :
       /\ options[i].name = "filter"
       /\ options[i].val = << >>
       /\ \A j \in 1..(i - 1) : ~Fatal(options[j])

ParseArguments ==
  /\ pc = "main"
  /\ IF \/ env.filenames = << >>
        \/ \E i \in 1..Len(env.options) : Fatal(env.options[i])
        \/ ~Valid(Settings(env.options).filters)
       THEN /\ Exit(IF ListsCategories(env.options) THEN "exit_0" ELSE "aborted")
            /\ UNCHANGED <<settings, queue>>
       ELSE /\ settings' = Settings(env.options)
            /\ queue' = env.filenames
            /\ pc' = "next"
  /\ UNCHANGED <<env, error_suppressions, global_suppressions, tally, level,
                 cfg_filters, todo, printed>>

-----------------------------------------------------------------------------
(* ProcessFile and ProcessConfigOverrides.                                 *)

(* A mistake: the filters a configuration adds are never taken back.       *)
RestoreFilters_mutant(s) == s

RestoreFilters(s) == [s EXCEPT !.filters = s.backup]

(* ProcessFile begins: the filters are backed up.                          *)
StartFile ==
  /\ pc = "next"
  /\ queue # << >>
  /\ settings' = [settings EXCEPT !.backup = settings.filters]
  /\ level' = 1
  /\ cfg_filters' = << >>
  /\ pc' = "config"
  /\ UNCHANGED <<env, error_suppressions, global_suppressions, tally, queue,
                 todo, printed>>

(* One line of a CPPLINT.cfg.  After a pattern of exclude_files that       *)
(* matches, the rest of the file is not read.                              *)
ConfigLine(base_name, r, option) ==
  IF r.excluded THEN r
  ELSE CASE option.name = "noparent"      -> [r EXCEPT !.keep_looking = FALSE]
         [] option.name = "filter"        -> [r EXCEPT !.filters = Append(@, option.val)]
         [] option.name = "exclude_files" -> [r EXCEPT !.excluded = base_name \in option.val]
         [] option.name = "linelength"    -> IF option.val = NotANumber THEN r
                                             ELSE [r EXCEPT !.line_length = option.val]
         [] option.name = "root"          -> [r EXCEPT !.root = option.val]
         [] OTHER                         -> r

(* What reading the configuration of one directory does.                   *)
ReadConfig(dir, base_name, cfg) ==
  LET before == [keep_looking |-> TRUE, excluded |-> FALSE, filters |-> cfg_filters,
                 line_length |-> settings.line_length, root |-> settings.root]
  IN IF cfg = Missing THEN before
     ELSE IF cfg = Unreadable THEN [before EXCEPT !.keep_looking = FALSE]
     ELSE LET after[i \in 0..Len(cfg)] ==
                IF i = 0 THEN before ELSE ConfigLine(base_name, after[i - 1], cfg[i])
          IN after[Len(cfg)]

(* Leaving a file that is not linted, or has been.                         *)
FinishFile(s) ==
  /\ settings' = RestoreFilters(s)
  /\ queue' = Tail(queue)
  /\ pc' = "next"

(* A mistake: the loop does not climb to the directory above.              *)
NextLevel_mutant(keep_looking) == IF keep_looking THEN level ELSE Len(Path[file]) + 1

(* Where the search goes on: one directory up, or nowhere.                 *)
NextLevel(keep_looking) == IF keep_looking THEN level + 1 ELSE Len(Path[file]) + 1

(* One round of the loop in ProcessConfigOverrides.  The line length and   *)
(* the root are assigned to the globals, the filters only collected.       *)
VisitDirectory ==
  /\ pc = "config"
  /\ level \in 1..Len(Path[file])
  /\ LET here == Path[file][level]
         r == ReadConfig(here.dir, here.base, env.config[here.dir])
         s == [settings EXCEPT !.line_length = r.line_length, !.root = r.root]
     IN /\ cfg_filters' = r.filters
        /\ IF r.excluded
             THEN FinishFile(s) /\ UNCHANGED level
             ELSE /\ settings' = s
                  /\ level' = NextLevel(r.keep_looking)
                  /\ UNCHANGED <<queue, pc>>
  /\ UNCHANGED <<env, error_suppressions, global_suppressions, tally, todo, printed>>

Overrides(lines) == FlattenSeq(Reverse(lines))

(* The end of ProcessConfigOverrides: AddFilters for the collected lines,  *)
(* last first.  A filter without a sign raises, and nothing catches it.    *)
ApplyFilters ==
  /\ pc = "config"
  /\ level > Len(Path[file])
  /\ LET filters == settings.filters \o Overrides(cfg_filters)
     IN IF Valid(filters)
          THEN settings' = [settings EXCEPT !.filters = filters] /\ pc' = "read"
          ELSE Exit("aborted") /\ UNCHANGED settings
  /\ UNCHANGED <<env, error_suppressions, global_suppressions, tally, queue, level,
                 cfg_filters, todo, printed>>

-----------------------------------------------------------------------------
(* ProcessFileData, as the reports it makes in their order.                *)

Parse(n) == [op |-> "parse", line |-> n, category |-> All, confidence |-> 0]
Report(n, category, confidence) ==
  [op |-> "error", line |-> n, category |-> category, confidence |-> confidence]
Suppress(categories) ==
  [op |-> "global", line |-> 0, category |-> categories, confidence |-> 0]

When(condition, events) == IF condition THEN events ELSE << >>

(* CheckForHeaderGuard.  The guard is the path from the root; one more     *)
(* underscore is allowed and frowned upon.                                 *)
GetHeaderGuardCPPVariable(f, root) ==
  LET path == RepositoryName[f]
  IN IF root # NoRoot /\ IsPrefix(root, path) /\ root # path
       THEN SubSeq(path, Len(root) + 1, Len(path)) ELSE path

CheckForHeaderGuard(f, guard, root) ==
  LET cppvar == GetHeaderGuardCPPVariable(f, root)
      wrong == guard.ifndef # [path |-> cppvar, underscores |-> 1]
      deprecated == [path |-> cppvar, underscores |-> 2]
      level5(name) == IF name = deprecated THEN 0 ELSE 5
      readable == guard.endif_style = "//" \/ ~guard.slashes
  IN IF guard.nolint THEN << >>
     ELSE IF guard.ifndef = Missing \/ guard.ifndef # guard.define
       THEN << Report(0, "build/header_guard", 5) >>
     ELSE When(wrong, << Parse(guard.ifndef_line),
                         Report(guard.ifndef_line, "build/header_guard",
                                level5(guard.ifndef)) >>)
          \o << Parse(guard.endif_line) >>
          \o When(~readable \/ guard.endif # [path |-> cppvar, underscores |-> 1],
                  << Report(guard.endif_line, "build/header_guard",
                            IF readable THEN level5(guard.endif) ELSE 5) >>)

(* A mistake: the line a check points at is not searched for NOLINT.       *)
Found_mutant(finding) == << Report(finding.line, finding.category, finding.confidence) >>

(* A finding of one check.  CheckTrailingSemicolon reports on the line of  *)
(* the closing brace and first parses the NOLINT comments it will meet.    *)
Found(finding) ==
  When(finding.by = "CheckTrailingSemicolon",
       << Parse(finding.line - 1), Parse(finding.line) >>)
  \o << Report(finding.line, finding.category, finding.confidence) >>

(* When ProcessLine makes a check.  In an asm block it makes only the first *)
(* ones; FlagCxx11Features is called after it.                             *)
Stage(check) ==
  IF check \in {"Update", "CheckForNamespaceIndentation"} THEN "first"
  ELSE IF check = "FlagCxx11Features" THEN "last" ELSE "middle"

ProcessLine(n, line, line_length) ==
  LET findings(stage) == FlattenSeq([i \in 1..Len(line.findings) |->
                                       When(Stage(line.findings[i].by) = stage,
                                            Found(line.findings[i]))])
  IN << Parse(n) >>
     \o findings("first")
     \o When(~line.asm,
             When(line.width > line_length /\ ~line.unsplittable,
                  << Report(n, "whitespace/line_length", 2) >>)
             \o findings("middle"))
     \o findings("last")

(* The lines ended by CR LF are reported when others are not.              *)
CheckLineEnds(lines) ==
  LET crlf == {n \in 1..Len(lines) : lines[n].cr}
  IN When(crlf # 1..Len(lines),
          FlattenSeq([n \in 1..Len(lines) |->
                        When(n \in crlf, << Report(n, "whitespace/newline", 1) >>)]))

ProcessFileData(f, t, line_length, root) ==
  When(~t.copyright, << Report(0, "legal/copyright", 5) >>)
  \o << Suppress(t.globally) >>
  \o When(t.open_comment # 0, << Report(t.open_comment + 1, "readability/multiline_comment", 5) >>)
  \o When(Ext[f] = "h", CheckForHeaderGuard(f, t.guard, root))
  \o FlattenSeq([n \in 1..Len(t.lines) |-> ProcessLine(n, t.lines[n], line_length)])
  \o FlattenSeq([i \in 1..Len(t.at_end) |-> Found(t.at_end[i])])
  \o CheckLineEnds(t.lines)

(* A mistake: the suppressions of the file before are kept.                *)
ResetNolintSuppressions_mutant(suppressions) == suppressions

ResetNolintSuppressions(suppressions) == {}

(* The file is read; one that cannot be, or whose extension is not linted, *)
(* is left.  ProcessFileData begins by forgetting all suppressions.        *)
ReadFile ==
  /\ pc = "read"
  /\ IF text = Unreadable \/ (file # Stdin /\ Ext[file] \notin settings.extensions)
       THEN FinishFile(settings) /\ UNCHANGED <<error_suppressions, global_suppressions, todo>>
       ELSE /\ error_suppressions' = ResetNolintSuppressions(error_suppressions)
            /\ global_suppressions' = ResetNolintSuppressions(global_suppressions)
            /\ todo' = ProcessFileData(file, text, settings.line_length, settings.root)
            /\ pc' = "lint"
            /\ UNCHANGED <<settings, queue>>
  /\ UNCHANGED <<env, tally, level, cfg_filters, printed>>

-----------------------------------------------------------------------------
(* Error, and what decides whether it prints.                              *)

IsErrorSuppressedByNolint(category, n) ==
  \/ category \in global_suppressions
  \/ <<category, n>> \in error_suppressions
  \/ <<All, n>> \in error_suppressions

(* The last filter that covers the category decides.                       *)
IsFiltered(category) ==
  LET filters == settings.filters
      after[i \in 0..Len(filters)] ==
        IF i = 0 THEN FALSE
        ELSE IF category \in Covers[filters[i].prefix] THEN filters[i].sign = "-"
        ELSE after[i - 1]
  IN after[Len(filters)]

ShouldPrintError(e) ==
  /\ ~IsErrorSuppressedByNolint(e.category, e.line)
  /\ e.confidence >= settings.verbose
  /\ ~IsFiltered(e.category)

Bump(f, key) ==
  [k \in DOMAIN f \cup {key} |->
     (IF k \in DOMAIN f THEN f[k] ELSE 0) + (IF k = key THEN 1 ELSE 0)]

(* A mistake: with --counting=toplevel the detailed category is counted.   *)
IncrementErrorCount_mutant(t, category) ==
  [count |-> t.count + 1,
   by_category |-> IF settings.counting \in {"toplevel", "detailed"}
                     THEN Bump(t.by_category, category) ELSE t.by_category]

IncrementErrorCount(t, category) ==
  [count |-> t.count + 1,
   by_category |->
     CASE settings.counting = "detailed" -> Bump(t.by_category, category)
       [] settings.counting = "toplevel" -> Bump(t.by_category, TopLevel[category])
       [] OTHER -> t.by_category]

Error(e) ==
  IF ShouldPrintError(e)
    THEN /\ tally' = IncrementErrorCount(tally, e.category)
         /\ printed' = Append(printed, [file |-> file, line |-> e.line, category |-> e.category])
    ELSE UNCHANGED <<tally, printed>>

(* ParseNolintSuppressions.  A category it does not know is an error.      *)
ParseNolintSuppressions(n) ==
  LET nolint == IF n \in 1..Len(text.lines) THEN text.lines[n].nolint ELSE Missing
      suppressed_line == IF nolint.next THEN n + 1 ELSE n
  IN IF nolint = Missing THEN UNCHANGED <<error_suppressions, tally, printed>>
     ELSE IF nolint.category \in Categories \cup {All}
       THEN /\ error_suppressions' =
                 error_suppressions \cup {<<nolint.category, suppressed_line>>}
            /\ UNCHANGED <<tally, printed>>
     ELSE IF nolint.category \notin Legacy
       THEN Error(Report(n, "readability/nolint", 5)) /\ UNCHANGED error_suppressions
     ELSE UNCHANGED <<error_suppressions, tally, printed>>

(* The next report of the file.                                            *)
Lint ==
  /\ pc = "lint"
  /\ todo # << >>
  /\ todo' = Tail(todo)
  /\ LET e == Head(todo)
     IN \/ /\ e.op = "parse"
           /\ ParseNolintSuppressions(e.line)
           /\ UNCHANGED global_suppressions
        \/ /\ e.op = "global"
           /\ global_suppressions' = global_suppressions \cup e.category
           /\ UNCHANGED <<error_suppressions, tally, printed>>
        \/ /\ e.op = "error"
           /\ Error(e)
           /\ UNCHANGED <<error_suppressions, global_suppressions>>
  /\ UNCHANGED <<env, settings, pc, queue, level, cfg_filters>>

DoneProcessing ==
  /\ pc = "lint"
  /\ todo = << >>
  /\ FinishFile(settings)
  /\ UNCHANGED <<env, error_suppressions, global_suppressions, tally, level, cfg_filters,
                 todo, printed>>

(* main returns: the status is whether an error was counted.               *)
Return ==
  /\ pc = "next"
  /\ queue = << >>
  /\ Exit(IF tally.count > 0 THEN "exit_1" ELSE "exit_0")
  /\ UNCHANGED <<env, settings, error_suppressions, global_suppressions, tally, queue,
                 level, cfg_filters, todo, printed>>

Next == \/ ParseArguments \/ StartFile \/ VisitDirectory \/ ApplyFilters \/ ReadFile
        \/ Lint \/ DoneProcessing \/ Return

Spec == Init /\ [][Next]_vars /\ WF_vars(Next)

-----------------------------------------------------------------------------
(* What the usage text promises for a file, said without the order of the  *)
(* program: from the command line, the configurations above the file and   *)
(* the file alone.                                                         *)

(* The lines of a configuration that set an option.                        *)
Options(cfg, name) ==
  IF cfg \in {Missing, Unreadable} THEN {} ELSE {i \in 1..Len(cfg) : cfg[i].name = name}

Config(f, l) == env.config[Path[f][l].dir]

(* The directories whose configuration counts, nearest first.              *)
Ends(f, l) == Config(f, l) = Unreadable \/ Options(Config(f, l), "noparent") # {}
Scope(f) == {l \in 1..Len(Path[f]) : \A k \in 1..(l - 1) : ~Ends(f, k)}

Excludes(f, l) ==
  \E i \in Options(Config(f, l), "exclude_files") : Path[f][l].base \in Config(f, l)[i].val
Excluded(f) == \E l \in Scope(f) : Excludes(f, l)

(* The filter lines of a configuration, and of the first n directories,    *)
(* nearest first.                                                          *)
FilterOptions(cfg) ==
  IF cfg \in {Missing, Unreadable} THEN << >>
  ELSE FlattenSeq([i \in 1..Len(cfg) |-> When(cfg[i].name = "filter", << cfg[i].val >>)])

FilterLines(f, n) == FlattenSeq([l \in 1..n |-> FilterOptions(Config(f, l))])

(* Command-line filters first, then those of the configurations, outermost *)
(* first.                                                                  *)
PromisedFilters(f) ==
  LET lines == FilterLines(f, Cardinality(Scope(f)))
      n == Len(lines)
  IN Settings(env.options).filters \o FlattenSeq([i \in 1..n |-> lines[n + 1 - i]])

(* The value of an option in the nearest configuration that gives one.     *)
Values(f, l, name) == {i \in Options(Config(f, l), name) : Config(f, l)[i].val # NotANumber}

Promised(f, name, default) ==
  LET levels == {l \in Scope(f) : Values(f, l, name) # {}}
      nearest == Min(levels)
  IN IF levels = {} THEN default
     ELSE Config(f, nearest)[Max(Values(f, nearest, name))].val

(* A NOLINT comment on one of some lines covers a category on line n.      *)
Quiet(t, among, n, category) ==
  \E k \in 1..Len(t.lines) :
    LET nolint == t.lines[k].nolint
    IN /\ k \in among
       /\ nolint # Missing
       /\ n = (IF nolint.next THEN k + 1 ELSE k)
       /\ nolint.category \in {All, category}

(* Filters let a category through unless one that takes it away is not     *)
(* followed by one that gives it back.                                     *)
Passes(filters, category) ==
  \A i \in 1..Len(filters) :
    category \in Covers[filters[i].prefix] /\ filters[i].sign = "-" =>
      \E j \in (i + 1)..Len(filters) :
        category \in Covers[filters[j].prefix] /\ filters[j].sign = "+"

(* A NOLINT comment that names no category.                                *)
NamesNone(t, n) ==
  /\ n \in 1..Len(t.lines)
  /\ t.lines[n].nolint # Missing
  /\ t.lines[n].nolint.category \notin Categories \cup Legacy \cup {All}

(* The lines searched for NOLINT comments by the first n events.           *)
Parsed(events, n) == {events[j].line : j \in {k \in 1..n : events[k].op = "parse"}}

(* A report reaches the user unless it is too uncertain, filtered out, or  *)
(* suppressed, for the whole file or by a comment already read.  The       *)
(* copyright is asked for before the file can suppress anything.           *)
Shown(t, parsed, filters, report) ==
  /\ report.confidence >= Settings(env.options).verbose
  /\ Passes(filters, report.category)
  /\ ~(report.category \in t.globally /\ report.category # "legal/copyright")
  /\ ~Quiet(t, parsed, report.line, report.category)

(* What the i-th event of a file should print: a finding, or that a NOLINT *)
(* comment names no category.                                              *)
Reported(f, events, filters, i) ==
  LET t == env.text[f]
      e == events[i]
      report == IF e.op = "parse" THEN Report(e.line, "readability/nolint", 5) ELSE e
      made == e.op = "error" \/ (e.op = "parse" /\ NamesNone(t, e.line))
  IN IF made /\ Shown(t, Parsed(events, i - 1), filters, report)
       THEN {[file |-> f, line |-> report.line, category |-> report.category]} ELSE {}

(* The findings of a file that should reach the user.                      *)
Documented(f) ==
  LET t == env.text[f]
      s == Settings(env.options)
      events == ProcessFileData(f, t, Promised(f, "linelength", s.line_length),
                                Promised(f, "root", s.root))
  IN IF Excluded(f) \/ t = Unreadable \/ (f # Stdin /\ Ext[f] \notin s.extensions) THEN {}
     ELSE UNION {Reported(f, events, PromisedFilters(f), i) : i \in 1..Len(events)}

PrintedFor(f) == {printed[i] : i \in {k \in 1..Len(printed) : printed[k].file = f}}

(* The usage text: a configuration has an effect on the files of its       *)
(* directory and below, unless a nested one overrides it.  What is printed *)
(* for a file is decided by its own configurations, not by the files       *)
(* linted before it.                                                       *)
ConfigScope ==
  pc = "next" =>
    \A i \in 1..(Len(env.filenames) - Len(queue)) :
      PrintedFor(env.filenames[i]) = Documented(env.filenames[i])

(* No configuration sets a line length or a root.                          *)
OnlyFilters ==
  \A d \in DOMAIN env.config :
    Options(env.config[d], "linelength") = {} /\ Options(env.config[d], "root") = {}

(* The same where no configuration sets a line length or a root: filters,  *)
(* exclusions and suppressions never leak from one file to the next.       *)
FilesIsolated == OnlyFilters => ConfigScope

(* The usage text: NOLINT suppresses the errors of its line.               *)
NolintObeyed ==
  \A i \in 1..Len(printed) :
    ~Quiet(env.text[printed[i].file], Nat, printed[i].line, printed[i].category)

(* The lines whose NOLINT comments were looked at before a report: all of  *)
(* them, but for the checks that run ahead of ProcessLine.                 *)
(* CheckForHeaderGuard reads the lines of the guard on their own, an       *)
(* unknown category is reported when its comment is read, and              *)
(* CheckEmptyBlockBody reads nothing on the later line it reports on, nor  *)
(* does the removal of comments.                                           *)
Heeded(category, n) ==
  IF category \in {"build/header_guard", "readability/nolint"} THEN {n}
  ELSE IF category \in EmptyBodies \cup {"readability/multiline_comment"} THEN {}
  ELSE Nat

(* The same as far as the checks look: no other check reports on a line,   *)
(* on this one or ahead, before the comments that cover it were read.      *)
NolintObeyedInOrder ==
  \A i \in 1..Len(printed) :
    ~Quiet(env.text[printed[i].file], Heeded(printed[i].category, printed[i].line),
           printed[i].line, printed[i].category)

(* Between two files the filters are those of the command line: what the   *)
(* configurations of a file add is gone, whichever way the file was left.  *)
FiltersKept == pc = "next" => settings.filters = Settings(env.options).filters

(* The counters and the exit status agree with what was printed: the total *)
(* is the number of errors, the categories are those printed and add up to *)
(* it, and the status is 1 exactly when something was printed.             *)
TotalsAgree ==
  LET key(c) == IF settings.counting = "toplevel" THEN TopLevel[c] ELSE c
      count(k) == Cardinality({i \in 1..Len(printed) : key(printed[i].category) = k})
  IN /\ tally.count = Len(printed)
     /\ settings.counting \in {"toplevel", "detailed"} =>
          /\ DOMAIN tally.by_category = {key(printed[i].category) : i \in 1..Len(printed)}
          /\ \A k \in DOMAIN tally.by_category : tally.by_category[k] = count(k)
     /\ pc = "exit_0" => printed = << >>
     /\ pc = "exit_1" => printed # << >>

(* Every run of the linter comes to an end.                                *)
Finishes == <>(pc \in {"exit_0", "exit_1", "aborted"})
=============================================================================
