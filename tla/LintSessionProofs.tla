------------------------- MODULE LintSessionProofs -------------------------
(***************************************************************************)
(* The linter's promises for a whole run, for every command line, every    *)
(* tree of configurations and every list of files: the filters of a file's *)
(* configurations are gone when the file is left, the counters and the     *)
(* exit status are those of the errors printed, a NOLINT comment is obeyed *)
(* as far as the order of the checks allows, the last filter that covers a *)
(* category decides, and what is printed for a file is decided by its own  *)
(* configurations.                                                         *)
(***************************************************************************)
EXTENDS LintSession, FiniteSetTheorems, SequenceTheorems, NaturalsInduction,
        WellFoundedInduction, TLAPS

Fields == {"verbose", "counting", "filters", "backup", "line_length", "root", "extensions"}

Given == Settings(env.options)

(* While a file is processed its configurations may have changed the       *)
(* filters, and the backup holds those of the command line.                *)
FilterInv ==
  /\ DOMAIN settings = Fields
  /\ pc = "next" => settings.filters = Given.filters
  /\ pc \in {"config", "read", "lint"} => settings.backup = Given.filters

(* The settings are a record with these fields from the start.             *)
LEMMA FilterInit == Init => FilterInv
BY DEF Init, FilterInv, Loaded, Fields

(* Every way of leaving a file restores the filters from the backup.       *)
LEMMA FinishRestores ==
  ASSUME NEW s, DOMAIN s = Fields, s.backup = Given.filters, FinishFile(s), UNCHANGED env
  PROVE  FilterInv'
<1>1. settings' = [s EXCEPT !.filters = s.backup] /\ pc' = "next"
  BY DEF FinishFile, RestoreFilters
<1>2. DOMAIN settings' = Fields /\ settings'.filters = s.backup
  BY <1>1 DEF Fields
<1>3. Given' = Given
  BY DEF Given
<1> QED
  BY <1>1, <1>2, <1>3 DEF FilterInv

(* Every step keeps the invariant.                                         *)
LEMMA FilterStep == FilterInv /\ [Next]_vars => FilterInv'
<1> SUFFICES ASSUME FilterInv, [Next]_vars PROVE FilterInv'
  OBVIOUS
<1> USE DEF FilterInv
<1>0. env' = env
  BY DEF Next, vars, ParseArguments, StartFile, VisitDirectory, ApplyFilters, ReadFile,
         Lint, DoneProcessing, Return
<1>1. Given' = Given
  BY <1>0 DEF Given
<1>2. CASE UNCHANGED vars
  BY <1>1, <1>2 DEF vars
<1>3. CASE ParseArguments
  <2>1. CASE pc' = "next" /\ settings' = Given
    <3>1. DOMAIN Given = Fields
      BY DEF Given, Settings, Fields
    <3> QED
      BY <1>1, <2>1, <3>1
  <2>2. CASE pc' \in {"exit_0", "aborted"} /\ UNCHANGED settings
    BY <2>2
  <2> QED
    BY <1>3, <2>1, <2>2 DEF ParseArguments, Exit, Given
<1>4. CASE StartFile
  <2>1. pc = "next" /\ pc' = "config" /\ settings' = [settings EXCEPT !.backup = settings.filters]
    BY <1>4 DEF StartFile
  <2>2. DOMAIN settings' = Fields /\ settings'.backup = settings.filters
    BY <2>1 DEF Fields
  <2> QED
    BY <1>1, <2>1, <2>2
<1>5. CASE VisitDirectory
  <2> DEFINE here == Path[file][level]
             r == ReadConfig(here.dir, here.base, env.config[here.dir])
             s == [settings EXCEPT !.line_length = r.line_length, !.root = r.root]
  <2>1. /\ pc = "config"
        /\ \/ FinishFile(s)
           \/ settings' = s /\ pc' = pc
    BY <1>5 DEF VisitDirectory
  <2>2. DOMAIN s = Fields /\ s.backup = settings.backup
    BY DEF Fields
  <2> HIDE DEF s
  <2> QED
    BY <1>0, <1>1, <2>1, <2>2, FinishRestores
<1>6. CASE ApplyFilters
  <2> DEFINE filters == settings.filters \o Overrides(cfg_filters)
  <2>1. /\ pc = "config"
        /\ \/ settings' = [settings EXCEPT !.filters = filters] /\ pc' = "read"
           \/ settings' = settings /\ pc' = "aborted"
    BY <1>6 DEF ApplyFilters, Exit
  <2> HIDE DEF filters
  <2>2. CASE settings' = [settings EXCEPT !.filters = filters] /\ pc' = "read"
    <3>1. DOMAIN settings' = Fields /\ settings'.backup = settings.backup
      BY <2>2 DEF Fields
    <3> QED
      BY <1>1, <2>1, <2>2, <3>1
  <2> QED
    BY <2>1, <2>2
<1>7. CASE ReadFile
  <2>1. pc = "read" /\ (FinishFile(settings) \/ (settings' = settings /\ pc' = "lint"))
    BY <1>7 DEF ReadFile
  <2> QED
    BY <1>0, <1>1, <2>1, FinishRestores
<1>8. CASE Lint
  BY <1>1, <1>8 DEF Lint
<1>9. CASE DoneProcessing
  <2>1. pc = "lint" /\ FinishFile(settings)
    BY <1>9 DEF DoneProcessing
  <2> QED
    BY <1>0, <2>1, FinishRestores
<1>10. CASE Return
  <2>1. settings' = settings /\ pc' \in {"exit_0", "exit_1"}
    BY <1>10 DEF Return, Exit
  <2> QED
    BY <2>1
<1> QED
  BY <1>2, <1>3, <1>4, <1>5, <1>6, <1>7, <1>8, <1>9, <1>10 DEF Next

(* Whichever way a file is left (excluded, unreadable, of another          *)
(* extension, or linted), ProcessFile's _RestoreFilters gives the next one *)
(* the filters of the command line.                                        *)
THEOREM FiltersRestored == Spec => []FiltersKept
<1>1. FilterInv => FiltersKept
  BY DEF FilterInv, FiltersKept, Given
<1> QED
  BY <1>1, FilterInit, FilterStep, PTL DEF Spec

-----------------------------------------------------------------------------
(* Counters                                                                *)

(* How an error is counted.                                                *)
Key(counting, c) == IF counting = "toplevel" THEN TopLevel[c] ELSE c

(* The counters t are those of the errors p.                               *)
Tallied(p, t, counting) ==
  LET of == [i \in 1..Len(p) |-> Key(counting, p[i].category)]
  IN /\ t.count = Len(p)
     /\ counting \in {"toplevel", "detailed"} =>
          /\ DOMAIN t.by_category = {of[i] : i \in 1..Len(p)}
          /\ \A k \in DOMAIN t.by_category :
               t.by_category[k] = Cardinality({i \in 1..Len(p) : of[i] = k})

(* What a step can do to the counters and to what is printed: nothing, or  *)
(* count and print one error of a file that is being linted.               *)
PrintsOne ==
  \E entry :
    /\ tally' = IncrementErrorCount(tally, entry.category)
    /\ printed' = Append(printed, entry)
    /\ pc = "lint" /\ UNCHANGED <<settings, pc>>

(* The whole sequence of errors agrees with the counters; before the       *)
(* command line is read, when the way of counting is not yet known, there  *)
(* are none.                                                               *)
IsSequence(s) == s \in Seq({s[i] : i \in 1..Len(s)})

TotalsInv ==
  /\ IsSequence(printed)
  /\ Tallied(printed, tally, settings.counting)
  /\ pc = "main" => printed = << >> /\ tally.by_category = << >>
  /\ pc = "exit_0" => printed = << >>
  /\ pc = "exit_1" => printed # << >>

(* This says at least what TotalsAgree does.                               *)
LEMMA TotalsImplied == TotalsInv => TotalsAgree
<1> SUFFICES ASSUME TotalsInv PROVE TotalsAgree
  OBVIOUS
<1> DEFINE n == Len(printed)
           of == [i \in 1..n |-> Key(settings.counting, printed[i].category)]
<1>1. /\ tally.count = n
      /\ settings.counting \in {"toplevel", "detailed"} =>
           /\ DOMAIN tally.by_category = {of[i] : i \in 1..n}
           /\ \A k \in DOMAIN tally.by_category :
                tally.by_category[k] = Cardinality({i \in 1..n : of[i] = k})
  BY DEF TotalsInv, Tallied
<1>2. \A i \in 1..n : of[i] = Key(settings.counting, printed[i].category)
  OBVIOUS
<1>3. \A k : {i \in 1..n : of[i] = k} =
              {i \in 1..n : Key(settings.counting, printed[i].category) = k}
  BY <1>2
<1>4. {of[i] : i \in 1..n} = {Key(settings.counting, printed[i].category) : i \in 1..n}
  BY <1>2
<1> HIDE DEF of
<1>5. /\ tally.count = n
      /\ settings.counting \in {"toplevel", "detailed"} =>
           /\ DOMAIN tally.by_category = {Key(settings.counting, printed[i].category) : i \in 1..n}
           /\ \A k \in DOMAIN tally.by_category :
                tally.by_category[k] =
                  Cardinality({i \in 1..n : Key(settings.counting, printed[i].category) = k})
  BY <1>1, <1>3, <1>4
<1> QED
  BY <1>5 DEF TotalsInv, TotalsAgree, Key

(* Nothing printed and nothing counted agree, whatever is to be counted.   *)
LEMMA NothingTallied ==
  ASSUME NEW t, t.count = 0, t.by_category = << >>, NEW counting
  PROVE  Tallied(<< >>, t, counting) /\ IsSequence(<< >>)
<1>1. Len(<< >>) = 0 /\ 1..0 = {} /\ DOMAIN t.by_category = {}
  OBVIOUS
<1> QED
  BY <1>1 DEF Tallied, IsSequence

(* At first nothing is printed and nothing counted.                        *)
LEMMA TotalsInit == Init => TotalsInv
<1> SUFFICES ASSUME Init PROVE TotalsInv
  OBVIOUS
<1>1. /\ printed = << >> /\ tally.by_category = << >> /\ tally.count = 0 /\ pc = "main"
  BY DEF Init
<1> QED
  BY <1>1, NothingTallied DEF TotalsInv

(* Only Error prints and counts, and it does both or neither.              *)
LEMMA StepPrints ==
  ASSUME [Next]_vars
  PROVE  UNCHANGED <<tally, printed>> \/ PrintsOne
<1>1. ASSUME NEW e, Error(e), pc = "lint", UNCHANGED <<settings, pc>>
      PROVE  UNCHANGED <<tally, printed>> \/ PrintsOne
  <2>1. CASE ShouldPrintError(e)
    <3> DEFINE entry == [file |-> file, line |-> e.line, category |-> e.category]
    <3>1. /\ tally' = IncrementErrorCount(tally, e.category)
          /\ printed' = Append(printed, entry)
      BY <1>1, <2>1 DEF Error
    <3>2. entry.category = e.category
      OBVIOUS
    <3> HIDE DEF entry
    <3>3. tally' = IncrementErrorCount(tally, entry.category)
      BY <3>1, <3>2
    <3> QED
      BY <1>1, <3>1, <3>3 DEF PrintsOne
  <2> QED
    BY <1>1, <2>1 DEF Error
<1>2. CASE Lint
  <2> DEFINE e == Head(todo)
  <2>1. pc = "lint" /\ UNCHANGED <<settings, pc>>
    BY <1>2 DEF Lint
  <2>2. \/ ParseNolintSuppressions(e.line)
        \/ UNCHANGED <<tally, printed>>
        \/ Error(e)
    BY <1>2 DEF Lint
  <2>3. ASSUME ParseNolintSuppressions(e.line)
        PROVE  \/ UNCHANGED <<tally, printed>>
               \/ \E x : Error(x)
    BY <2>3 DEF ParseNolintSuppressions
  <2> HIDE DEF e
  <2> QED
    BY <1>1, <2>1, <2>2, <2>3
<1> QED
  BY <1>2 DEF Next, vars, ParseArguments, StartFile, VisitDirectory, ApplyFilters, ReadFile,
              DoneProcessing, Return

(* The way of counting is settled by the command line.                     *)
LEMMA CountingKept ==
  ASSUME FilterInv, [Next]_vars, pc # "main"
  PROVE  settings'.counting = settings.counting /\ pc' # "main"
<1> USE DEF FilterInv
<1>1. ASSUME NEW s, DOMAIN s = Fields, FinishFile(s)
      PROVE  settings'.counting = s.counting /\ pc' # "main"
  BY <1>1 DEF FinishFile, RestoreFilters, Fields
<1>2. CASE UNCHANGED vars
  BY <1>2 DEF vars
<1>3. CASE StartFile
  BY <1>3 DEF StartFile, Fields
<1>4. CASE VisitDirectory
  <2> DEFINE here == Path[file][level]
             r == ReadConfig(here.dir, here.base, env.config[here.dir])
             s == [settings EXCEPT !.line_length = r.line_length, !.root = r.root]
  <2>1. pc = "config" /\ (FinishFile(s) \/ (settings' = s /\ pc' = pc))
    BY <1>4 DEF VisitDirectory
  <2>2. DOMAIN s = Fields /\ s.counting = settings.counting
    BY DEF Fields
  <2> HIDE DEF s
  <2> QED
    BY <1>1, <2>1, <2>2
<1>5. CASE ApplyFilters
  <2> DEFINE filters == settings.filters \o Overrides(cfg_filters)
  <2>1. \/ settings' = [settings EXCEPT !.filters = filters] /\ pc' = "read"
        \/ settings' = settings /\ pc' = "aborted"
    BY <1>5 DEF ApplyFilters, Exit
  <2> HIDE DEF filters
  <2> QED
    BY <2>1 DEF Fields
<1>6. CASE ReadFile
  <2>1. FinishFile(settings) \/ (settings' = settings /\ pc' = "lint")
    BY <1>6 DEF ReadFile
  <2> QED
    BY <1>1, <2>1
<1>7. CASE Lint
  BY <1>7 DEF Lint
<1>8. CASE DoneProcessing
  BY <1>1, <1>8 DEF DoneProcessing
<1>9. CASE Return
  BY <1>9 DEF Return, Exit
<1> QED
  BY <1>2, <1>3, <1>4, <1>5, <1>6, <1>7, <1>8, <1>9 DEF Next, ParseArguments

(* Appending to a sequence, whatever its elements are.                     *)
LEMMA AppendEntry ==
  ASSUME NEW s, IsSequence(s), NEW x
  PROVE  /\ Len(s) \in Nat /\ Len(Append(s, x)) = Len(s) + 1
         /\ IsSequence(Append(s, x))
         /\ \A i \in 1..Len(s) : Append(s, x)[i] = s[i]
         /\ Append(s, x)[Len(s) + 1] = x
<1>0. PICK t : t = Append(s, x)
  OBVIOUS
<1> DEFINE S == {s[i] : i \in 1..Len(s)} \cup {x}
<1>1. s \in Seq(S)
  <2>1. {s[i] : i \in 1..Len(s)} \subseteq S
    OBVIOUS
  <2> QED
    BY <2>1 DEF IsSequence
<1> HIDE DEF S
<1>2. x \in S
  BY DEF S
<1>3. /\ t \in Seq(S) /\ Len(s) \in Nat /\ Len(t) = Len(s) + 1
      /\ \A i \in 1..Len(s) : t[i] = s[i]
      /\ t[Len(s) + 1] = x
  BY <1>0, <1>1, <1>2
<1>4. t \in [1..Len(t) -> S] /\ Len(t) \in Nat
  BY <1>3, LenProperties
<1> DEFINE T == {t[i] : i \in 1..Len(t)}
<1>5. PICK m : m \in Nat /\ m = Len(t)
  BY <1>4
<1>6. t \in [1..m -> T]
  BY <1>4, <1>5
<1> HIDE DEF T
<1>7. t \in Seq(T)
  BY <1>5, <1>6, SeqDef
<1> QED
  BY <1>0, <1>3, <1>7 DEF T, IsSequence

(* A printed error is counted once in the total and once under its key.    *)
LEMMA CountsOne ==
  ASSUME TotalsInv, PrintsOne
  PROVE  TotalsInv'
<1>1. PICK entry : /\ tally' = IncrementErrorCount(tally, entry.category)
                   /\ printed' = Append(printed, entry)
                   /\ pc = "lint" /\ settings' = settings /\ pc' = pc
  BY DEF PrintsOne
<1> DEFINE n == Len(printed)
           counting == settings.counting
           of == [i \in 1..n |-> Key(counting, printed[i].category)]
           of2 == [i \in 1..n + 1 |-> Key(counting, printed'[i].category)]
           new == Key(counting, entry.category)
           f == tally.by_category
           g == tally'.by_category
<1>2. /\ n \in Nat /\ Len(printed') = n + 1 /\ IsSequence(printed')
      /\ \A i \in 1..n : printed'[i] = printed[i]
      /\ printed'[n + 1] = entry
  <2>1. IsSequence(printed)
    BY DEF TotalsInv
  <2>2. /\ Len(printed) \in Nat /\ Len(Append(printed, entry)) = Len(printed) + 1
        /\ IsSequence(Append(printed, entry))
        /\ \A i \in 1..Len(printed) : Append(printed, entry)[i] = printed[i]
        /\ Append(printed, entry)[Len(printed) + 1] = entry
    BY ONLY <2>1, AppendEntry
  <2> QED
    BY <1>1, <2>2
<1>3. /\ tally'.count = tally.count + 1
      /\ counting \in {"toplevel", "detailed"} => g = Bump(f, new)
  BY <1>1 DEF IncrementErrorCount, Key
<1>4. /\ tally.count = n
      /\ counting \in {"toplevel", "detailed"} =>
           /\ DOMAIN f = {of[i] : i \in 1..n}
           /\ \A k \in DOMAIN f : f[k] = Cardinality({i \in 1..n : of[i] = k})
  BY DEF TotalsInv, Tallied
<1>5. of2[n + 1] = new /\ \A i \in 1..n : of2[i] = of[i]
  BY <1>2
<1>6. ASSUME counting \in {"toplevel", "detailed"}
      PROVE  /\ DOMAIN g = {of2[i] : i \in 1..n + 1}
             /\ \A k \in DOMAIN g : g[k] = Cardinality({i \in 1..n + 1 : of2[i] = k})
  <2>1. /\ DOMAIN g = DOMAIN f \cup {new}
        /\ \A k \in DOMAIN g : g[k] = (IF k \in DOMAIN f THEN f[k] ELSE 0) + (IF k = new THEN 1 ELSE 0)
    BY <1>3, <1>6 DEF Bump
  <2> HIDE DEF of, of2, new, f, g, n, counting
  <2>2. SUFFICES ASSUME NEW k \in DOMAIN g
                 PROVE  g[k] = Cardinality({i \in 1..n + 1 : of2[i] = k})
    <3>1. {of2[i] : i \in 1..n + 1} = {of[i] : i \in 1..n} \cup {new}
      <4>1. \A i \in 1..n + 1 : i \in 1..n \/ i = n + 1
        BY <1>2
      <4>2. n + 1 \in 1..n + 1 /\ \A i \in 1..n : i \in 1..n + 1
        BY <1>2
      <4> QED
        BY <1>5, <4>1, <4>2
    <3> QED
      BY <1>4, <1>6, <2>1, <3>1
  <2> DEFINE old == Cardinality({i \in 1..n : of[i] = k})
             now == Cardinality({i \in 1..n + 1 : of2[i] = k})
  <2>3. /\ of2[n + 1] # k => now = old
        /\ of2[n + 1] = k => now = old + 1
        /\ old \in Nat
    <3> DEFINE A == {i \in 1..n : of[i] = k}
               B == {i \in 1..n + 1 : of2[i] = k}
    <3>1. IsFiniteSet(A) /\ Cardinality(A) \in Nat
      <4>1. IsFiniteSet(1..n)
        BY <1>2, FS_Interval
      <4>2. A \subseteq 1..n
        OBVIOUS
      <4> QED
        BY <4>1, <4>2, FS_Subset, FS_CardinalityType
    <3>2. n + 1 \notin A
      BY <1>2
    <3>3. of2[n + 1] # k => B = A
      BY <1>2, <1>5
    <3>4. of2[n + 1] = k => B = A \cup {n + 1}
      BY <1>2, <1>5
    <3>5. Cardinality(A \cup {n + 1}) = Cardinality(A) + 1
      BY <3>1, <3>2, FS_AddElement
    <3> QED
      BY <3>1, <3>3, <3>4, <3>5
  <2>4. k \notin DOMAIN f => old = 0
    <3>1. k \notin DOMAIN f => {i \in 1..n : of[i] = k} = {}
      BY <1>4, <1>6
    <3> QED
      BY <3>1, FS_EmptySet
  <2>5. k \in DOMAIN f => f[k] = old
    BY <1>4, <1>6
  <2> HIDE DEF old, now
  <2>6. g[k] = now
    BY <1>5, <2>1, <2>3, <2>4, <2>5
  <2> QED
    BY <2>6 DEF now
<1>7. Tallied(printed', tally', counting)
  BY <1>2, <1>3, <1>4, <1>6 DEF Tallied
<1> QED
  BY <1>1, <1>2, <1>7 DEF TotalsInv

(* Every step keeps counters and errors in agreement.                      *)
LEMMA TotalsStep ==
  ASSUME FilterInv, TotalsInv, [Next]_vars
  PROVE  TotalsInv'
<1>1. CASE PrintsOne
  BY <1>1, CountsOne
<1>2. ASSUME UNCHANGED <<tally, printed>>, pc # "main" PROVE TotalsInv'
  <2>1. settings'.counting = settings.counting /\ pc' # "main"
    BY <1>2, CountingKept
  <2>2. CASE pc' \notin {"exit_0", "exit_1"} \/ pc' = pc
    BY <1>2, <2>1, <2>2 DEF TotalsInv
  <2>3. CASE Return
    <3>1. /\ tally.count > 0 => pc' = "exit_1"
          /\ ~(tally.count > 0) => pc' = "exit_0"
      BY <2>3 DEF Return, Exit
    <3>2. tally.count = Len(printed)
      BY DEF TotalsInv, Tallied
    <3>3. Len(printed) \in Nat /\ (printed = << >> <=> Len(printed) = 0)
      <4>1. PICK S : printed \in Seq(S)
        BY DEF TotalsInv, IsSequence
      <4> QED
        BY ONLY <4>1
    <3>4. PICK n \in Nat : n = tally.count /\ (printed = << >> <=> n = 0)
      BY <3>2, <3>3
    <3>5. (n > 0 => pc' = "exit_1") /\ (~(n > 0) => pc' = "exit_0")
      BY ONLY <3>1, <3>4, Zenon
    <3>6. (n > 0 \/ n = 0) /\ ~(0 > 0)
      BY ONLY n \in Nat
    <3>7. (pc' = "exit_0" => n = 0) /\ (pc' = "exit_1" => n # 0)
      BY ONLY <3>5, <3>6, "exit_0" # "exit_1"
    <3>8. (pc' = "exit_0" => printed = << >>) /\ (pc' = "exit_1" => printed # << >>)
      BY ONLY <3>4, <3>7, Zenon
    <3> QED
      BY <1>2, <2>1, <3>8 DEF TotalsInv
  <2>4. Return \/ pc' \notin {"exit_0", "exit_1"} \/ pc' = pc
    BY <1>2 DEF Next, vars, ParseArguments, StartFile, VisitDirectory, ApplyFilters, ReadFile,
                Lint, DoneProcessing, FinishFile, Exit
  <2> QED
    BY <2>2, <2>3, <2>4
<1>3. ASSUME UNCHANGED <<tally, printed>>, pc = "main" PROVE TotalsInv'
  <2>1. printed = << >> /\ tally.by_category = << >>
    BY <1>3 DEF TotalsInv
  <2>2. tally.count = 0
    BY <2>1 DEF TotalsInv, Tallied
  <2>3. pc' # "exit_1"
    BY <1>3 DEF Next, vars, ParseArguments, StartFile, VisitDirectory, ApplyFilters, ReadFile,
                Lint, DoneProcessing, Return, Exit
  <2> QED
    BY <1>3, <2>1, <2>2, <2>3, NothingTallied DEF TotalsInv
<1> QED
  BY <1>1, <1>2, <1>3, StepPrints

(* IncrementErrorCount, PrintErrorCounts and sys.exit tell the truth: the  *)
(* total is the number of errors printed, with --counting every category   *)
(* has its own number, and the exit status says whether there was any.     *)
THEOREM CountersRight == Spec => []TotalsAgree
<1>1. FilterInv /\ TotalsInv /\ [Next]_vars => TotalsInv'
  BY TotalsStep
<1>2. TotalsInv => TotalsAgree
  BY TotalsImplied
<1> QED
  BY <1>1, <1>2, TotalsInit, FilterInit, FilterStep, PTL DEF Spec

-----------------------------------------------------------------------------
(* Loops and concatenations                                                *)

(* Every property of natural numbers that 0 has and that a number passes   *)
(* on to the next one.                                                     *)
LEMMA NaturalSteps ==
  ASSUME NEW N \in Nat, NEW P \in SUBSET (0..N), 0 \in P,
         \A k \in 0..(N - 1) : k \in P => k + 1 \in P
  PROVE  \A k \in 0..N : k \in P
<1> SUFFICES ASSUME NEW k \in 0..N, k \notin P PROVE FALSE
  OBVIOUS
<1> DEFINE Bad == (0..N) \ P
           R == {ss \in Nat \X Nat : ss[1] < ss[2]}
<1>1. R = OpToRel(<, Nat)
  BY Zenon DEF OpToRel
<1>2. IsWellFoundedOn(R, Nat)
  BY <1>1, NatLessThanWellFounded, Zenon
<1>3. \A i, j \in Nat : <<j, i>> \in R <=> j < i
  OBVIOUS
<1>4. Bad \in SUBSET Nat /\ Bad # {}
  OBVIOUS
<1> HIDE DEF R, Bad
<1>5. PICK i \in Bad : \A j \in Bad : <<j, i>> \notin R
  BY <1>2, <1>4, WFMin
<1>6. i \in Nat /\ \A j \in Bad : ~(j < i)
  BY <1>3, <1>4, <1>5
<1>7. i \in 0..N /\ i \notin P
  BY DEF Bad
<1>8. i # 0 /\ i - 1 \in 0..(N - 1) /\ (i - 1) + 1 = i
  BY <1>6, <1>7
<1>9. i - 1 \in P
  BY <1>6, <1>7, <1>8 DEF Bad
<1> QED
  BY <1>7, <1>8, <1>9

(* Two sequences one after the other.                                      *)
LEMMA Concatenated ==
  ASSUME NEW S, NEW a \in Seq(S), NEW b \in Seq(S)
  PROVE  /\ a \o b \in Seq(S) /\ Len(a \o b) = Len(a) + Len(b)
         /\ Len(a) \in Nat /\ Len(b) \in Nat
         /\ \A i \in 1..Len(a) : (a \o b)[i] = a[i]
         /\ \A i \in 1..Len(b) : (a \o b)[Len(a) + i] = b[i]
OBVIOUS

(* What a concatenation has put together after each of its parts.          *)
Rounds(S, seqs, N, after) ==
  /\ after[0] = << >>
  /\ \A i \in 1..N : after[i] = after[i - 1] \o seqs[i]
  /\ \A i \in 0..N : after[i] \in Seq(S)
  /\ FlattenSeq(seqs) = after[N]

(* FlattenSeq appends one sequence after the other.                        *)
LEMMA FlattenLoop ==
  ASSUME NEW S, NEW seqs, NEW N \in Nat, seqs \in [1..N -> Seq(S)]
  PROVE  \E after : Rounds(S, seqs, N, after)
<1> DEFINE Join(s, i) == s \o seqs[i]
           Run(f, k) == /\ f[0] = << >> /\ (\A i \in 1..k : f[i] = Join(f[i - 1], i))
                        /\ \A i \in 0..k : f[i] \in Seq(S)
           Loop(f) == f = [i \in 1..N |-> IF i = 1 THEN seqs[i] ELSE Join(f[i - 1], i)]
           P == {k \in 0..N : \E f : Run(f, k)}
           loop == CHOOSE f : Loop(f)
<1>1. /\ N = 0 => FlattenSeq(seqs) = seqs /\ seqs = << >>
      /\ N # 0 => FlattenSeq(seqs) = loop[N]
  <2>1. seqs \in Seq(Seq(S)) /\ Len(seqs) = N
    OBVIOUS
  <2>2. N = 0 => seqs = << >>
    BY <2>1
  <2>3. FlattenSeq(seqs) = IF Len(seqs) = 0 THEN seqs
                           ELSE (CHOOSE f : f = [i \in 1..Len(seqs) |->
                                   IF i = 1 THEN seqs[i] ELSE f[i - 1] \o seqs[i]])[Len(seqs)]
    BY Zenon DEF FlattenSeq
  <2>4. FlattenSeq(seqs) = IF N = 0 THEN seqs ELSE loop[N]
    BY <2>1, <2>3, Zenon
  <2> HIDE DEF Join
  <2> HIDE DEF loop
  <2> QED
    BY <2>2, <2>4
<1>2. ASSUME NEW i \in 1..N
       PROVE  Join(<< >>, i) = seqs[i] /\ \A s \in Seq(S) : Join(s, i) \in Seq(S)
  <2>1. seqs[i] \in Seq(S)
    OBVIOUS
  <2> QED
    BY <2>1, Concatenated
<1> HIDE DEF Join
<1>3. 0 \in P
  <2>1. Run([i \in 0..0 |-> << >>], 0)
    OBVIOUS
  <2>2. \E f : Run(f, 0)
    BY <2>1, Zenon
  <2>3. 0 \in 0..N
    OBVIOUS
  <2> QED
    BY <2>2, <2>3, Zenon
<1>4. ASSUME NEW k \in 0..(N - 1), k \in P PROVE k + 1 \in P
  <2>1. PICK f : Run(f, k)
    BY <1>4
  <2> DEFINE g == [i \in 0..(k + 1) |-> IF i = k + 1 THEN Join(f[k], k + 1) ELSE f[i]]
  <2>2. k \in Nat /\ k + 1 \in 1..N /\ k + 1 \in 0..N /\ k + 1 - 1 = k
    OBVIOUS
  <2>3. g[0] = << >>
    BY <2>1, <2>2
  <2>4. ASSUME NEW i \in 1..(k + 1) PROVE g[i] = Join(g[i - 1], i)
    <3>1. CASE i = k + 1
      <4>1. g[i] = Join(f[k], k + 1) /\ g[i - 1] = f[k]
        BY <2>2, <3>1
      <4> QED
        BY <3>1, <4>1
    <3>2. CASE i # k + 1
      <4>1. i \in 1..k /\ g[i] = f[i] /\ g[i - 1] = f[i - 1]
        BY <2>2, <3>2
      <4> QED
        BY <2>1, <4>1
    <3> QED
      BY <3>1, <3>2
  <2>5. ASSUME NEW i \in 0..(k + 1) PROVE g[i] \in Seq(S)
    <3>1. Join(f[k], k + 1) \in Seq(S)
      BY <1>2, <2>1, <2>2
    <3> QED
      BY <2>1, <2>2, <3>1
  <2>6. Run(g, k + 1)
    BY <2>3, <2>4, <2>5
  <2>7. \E h : Run(h, k + 1)
    BY <2>6, Zenon
  <2> QED
    BY <2>2, <2>7, Zenon
<1>5. P \in SUBSET (0..N)
  OBVIOUS
<1>6. PICK f : Run(f, N)
  <2> HIDE DEF P
  <2>1. \A k \in 0..N : k \in P
    BY <1>3, <1>4, <1>5, NaturalSteps
  <2>2. N \in P
    BY <2>1
  <2> QED
    BY <2>2, Zenon DEF P
<1>7. Loop([i \in 1..N |-> f[i]])
  <2> DEFINE g == [i \in 1..N |-> f[i]]
  <2>1. \A i \in 1..N : g[i] = IF i = 1 THEN seqs[i] ELSE Join(g[i - 1], i)
    <3> TAKE i \in 1..N
    <3>1. f[i] = Join(f[i - 1], i) /\ seqs[i] \in Seq(S)
      BY <1>6
    <3>2. CASE i = 1
      <4>1. f[0] = << >>
        BY <1>6
      <4>2. Join(<< >>, 1) = seqs[1]
        BY <1>2, <3>2
      <4>3. f[1] = seqs[1]
        BY <3>1, <3>2, <4>1, <4>2
      <4> QED
        BY <3>2, <4>3
    <3>3. CASE i # 1
      <4>1. i - 1 \in 1..N
        BY <3>3
      <4> QED
        BY <3>1, <3>3, <4>1
    <3> QED
      BY <3>2, <3>3
  <2> QED
    BY <2>1
<1>8. Loop(loop)
  BY <1>7, Zenon
<1> HIDE DEF loop, P
<1>9. \A i \in 1..N : loop[i] = IF i = 1 THEN seqs[i] ELSE Join(loop[i - 1], i)
  <2>1. PICK g : g = loop
    OBVIOUS
  <2>2. g = [i \in 1..N |-> IF i = 1 THEN seqs[i] ELSE Join(g[i - 1], i)]
    BY <1>8, <2>1, Zenon
  <2>3. \A i \in 1..N : g[i] = IF i = 1 THEN seqs[i] ELSE Join(g[i - 1], i)
    BY <2>2
  <2> QED
    BY ONLY <2>1, <2>3
<1>10. \A i \in 1..N : loop[i] = f[i]
  <2> DEFINE Q == {k \in 0..N : k = 0 \/ loop[k] = f[k]}
  <2>1. Q \in SUBSET (0..N) /\ 0 \in Q
    OBVIOUS
  <2>2. ASSUME NEW k \in 0..(N - 1), k \in Q PROVE k + 1 \in Q
    <3>1. k + 1 \in 1..N /\ k + 1 \in 0..N /\ k + 1 - 1 = k
      BY ONLY N \in Nat, k \in 0..(N - 1)
    <3>2. f[k + 1] = Join(f[k], k + 1)
      BY <1>6, <3>1
    <3>3. seqs[k + 1] \in Seq(S) /\ f[0] = << >>
      BY <1>6, <3>1
    <3>4. k = 0 => f[k + 1] = seqs[k + 1]
      BY <1>2, <3>1, <3>2, <3>3
    <3> QED
      BY <1>9, <2>2, <3>1, <3>2, <3>4
  <2> HIDE DEF Q
  <2>3. \A k \in 0..N : k \in Q
    BY <2>1, <2>2, NaturalSteps
  <2> QED
    BY <2>3 DEF Q
<1>11. FlattenSeq(seqs) = f[N]
  <2>1. N # 0 => FlattenSeq(seqs) = f[N]
    BY <1>1, <1>10
  <2>2. N = 0 => FlattenSeq(seqs) = << >>
    BY <1>1, Zenon
  <2> QED
    BY <1>6, <2>1, <2>2
<1>12. Rounds(S, seqs, N, f)
  BY <1>6, <1>11, Zenon DEF Join, Rounds
<1> QED
  BY <1>12, Zenon

-----------------------------------------------------------------------------
(* What a file is reported for before its NOLINT comments are read         *)

(* What ProcessFileData does, one after the other.                         *)
Events ==
  [op : {"parse"}, line : Int, category : {All}, confidence : {0}]
    \cup [op : {"error"}, line : Nat, category : Categories, confidence : Nat]
    \cup [op : {"global"}, line : {0}, category : SUBSET Categories, confidence : {0}]

(* Those after the suppressions for the whole file.                        *)
Later == {e \in Events : e.op # "global" /\ e.category # "legal/copyright"}

(* The lines whose comments can hold a report back, as far as it heeds     *)
(* them.                                                                   *)
Needed(t, e) == {k \in 1..Len(t.lines) : k \in Heeded(e.category, e.line) /\ e.line \in {k, k + 1}}

(* When the comments of the lines in A have been read, every report finds  *)
(* those it needs read, by then or by what goes before it.                 *)
Guarded(t, events, A) ==
  \A i \in 1..Len(events) :
    events[i].op = "error" =>
      \A k \in Needed(t, events[i]) :
        k \in A \/ \E j \in 1..(i - 1) : events[j].op = "parse" /\ events[j].line = k

Searched(events) ==
  {k \in Int : \E i \in 1..Len(events) : events[i].op = "parse" /\ events[i].line = k}

(* With the comments of the lines in A read, nothing is reported too early *)
(* and those of the lines in B are read at the end.                        *)
Leads(S, t, events, A, B) ==
  events \in Seq(S) /\ Guarded(t, events, A) /\ B \subseteq A \cup Searched(events)

(* Nothing to do.                                                          *)
LEMMA NothingLeads ==
  ASSUME NEW S, NEW t, NEW A
  PROVE  Leads(S, t, << >>, A, A)
BY DEF Leads, Guarded

(* One report.                                                             *)
LEMMA ReportLeads ==
  ASSUME NEW t, NEW A, NEW n \in Nat, NEW c \in Categories \ {"legal/copyright"}, NEW confidence \in Nat,
         Needed(t, Report(n, c, confidence)) \subseteq A
  PROVE  Leads(Later, t, << Report(n, c, confidence) >>, A, A)
<1> DEFINE e == Report(n, c, confidence)
<1>1. e \in Later
  BY DEF Report, Events, Later
<1> HIDE DEF e
<1>2. PICK s : s = << e >>
  OBVIOUS
<1>3. s \in Seq(Later) /\ Len(s) = 1 /\ s[1] = e
  BY <1>1, <1>2
<1>4. Guarded(t, s, A)
  BY <1>3 DEF Guarded, e
<1> QED
  BY <1>2, <1>3, <1>4 DEF Leads, e

(* One line that is searched.                                              *)
LEMMA ParseLeads ==
  ASSUME NEW t, NEW A, NEW n \in Int
  PROVE  Leads(Later, t, << Parse(n) >>, A, A \cup {n})
<1> DEFINE e == Parse(n)
<1>1. e \in Later /\ e.op = "parse" /\ e.line = n
  BY DEF Parse, Events, Later, All
<1> HIDE DEF e
<1>2. PICK s : s = << e >>
  OBVIOUS
<1>3. s \in Seq(Later) /\ Len(s) = 1 /\ s[1] = e
  BY <1>1, <1>2
<1>4. Guarded(t, s, A) /\ n \in Searched(s)
  BY <1>1, <1>3 DEF Guarded, Searched
<1> QED
  BY <1>2, <1>3, <1>4 DEF Leads, e

(* One thing after the other.                                              *)
LEMMA ThenLeads ==
  ASSUME NEW S, NEW t, NEW A, NEW B, NEW C, NEW a, NEW b, Leads(S, t, a, A, B), Leads(S, t, b, B, C)
  PROVE  Leads(S, t, a \o b, A, C)
<1>1. a \in Seq(S) /\ b \in Seq(S)
  BY DEF Leads
<1>2. PICK c : c = a \o b
  OBVIOUS
<1>3. /\ c \in Seq(S) /\ Len(c) = Len(a) + Len(b)
      /\ Len(a) \in Nat /\ Len(b) \in Nat
      /\ \A i \in 1..Len(a) : c[i] = a[i]
      /\ \A i \in 1..Len(b) : c[Len(a) + i] = b[i]
  BY ONLY <1>1, <1>2, Concatenated
<1>4. Searched(a) \subseteq Searched(c)
  BY <1>3 DEF Searched
<1>5. Searched(b) \subseteq Searched(c)
  <2> SUFFICES ASSUME NEW k \in Searched(b) PROVE k \in Searched(c)
    OBVIOUS
  <2>1. PICK i \in 1..Len(b) : b[i].op = "parse" /\ b[i].line = k
    BY DEF Searched
  <2>2. Len(a) + i \in 1..Len(c) /\ c[Len(a) + i] = b[i]
    BY <1>3
  <2> QED
    BY <2>1, <2>2 DEF Searched
<1>6. ASSUME NEW i \in 1..Len(c), c[i].op = "error", NEW k \in Needed(t, c[i])
      PROVE  k \in A \/ \E j \in 1..(i - 1) : c[j].op = "parse" /\ c[j].line = k
  <2>1. CASE i <= Len(a)
    <3>1. i \in 1..Len(a) /\ c[i] = a[i]
      BY <1>3, <2>1
    <3>2. k \in A \/ \E j \in 1..(i - 1) : a[j].op = "parse" /\ a[j].line = k
      BY <1>6, <3>1 DEF Leads, Guarded
    <3>3. \A j \in 1..(i - 1) : c[j] = a[j]
      BY <1>3, <3>1
    <3> QED
      BY <3>2, <3>3
  <2>2. CASE ~(i <= Len(a))
    <3> DEFINE m == i - Len(a)
    <3>1. m \in 1..Len(b) /\ i = Len(a) + m
      BY <1>3, <2>2
    <3>2. c[i] = b[m]
      BY <1>3, <3>1
    <3>3. k \in B \/ \E j \in 1..(m - 1) : b[j].op = "parse" /\ b[j].line = k
      BY <1>6, <3>1, <3>2 DEF Leads, Guarded
    <3>4. CASE k \in B /\ k \notin A
      <4>1. k \in Searched(a)
        BY <3>4 DEF Leads
      <4>2. PICK j \in 1..Len(a) : a[j].op = "parse" /\ a[j].line = k
        BY <4>1 DEF Searched
      <4>3. j \in 1..(i - 1) /\ c[j] = a[j]
        BY <1>3, <2>2
      <4> QED
        BY <4>2, <4>3
    <3>5. ASSUME NEW j \in 1..(m - 1), b[j].op = "parse" /\ b[j].line = k
          PROVE  \E l \in 1..(i - 1) : c[l].op = "parse" /\ c[l].line = k
      <4>1. j \in 1..Len(b) /\ Len(a) + j \in 1..(i - 1)
        BY <1>3, <3>1
      <4>2. c[Len(a) + j] = b[j]
        BY <1>3, <4>1
      <4> QED
        BY <3>5, <4>1, <4>2
    <3> QED
      BY <3>3, <3>4, <3>5
  <2> QED
    BY <2>1, <2>2
<1>7. Guarded(t, c, A)
  BY <1>6 DEF Guarded
<1> QED
  BY <1>2, <1>3, <1>4, <1>5, <1>7 DEF Leads

(* What is only done under a condition.                                    *)
LEMMA WhenLeads ==
  ASSUME NEW S, NEW t, NEW A, NEW condition, NEW events, condition => Leads(S, t, events, A, A)
  PROVE  Leads(S, t, When(condition, events), A, A)
BY NothingLeads DEF When

(* A loop, whose rounds lead from one set to the next.                     *)
LEMMA LoopLeads ==
  ASSUME NEW S, NEW t, NEW N \in Nat, NEW seqs \in [1..N -> Seq(S)], NEW sets,
         \A n \in 1..N : Leads(S, t, seqs[n], sets[n - 1], sets[n])
  PROVE  Leads(S, t, FlattenSeq(seqs), sets[0], sets[N])
<1>1. PICK after : Rounds(S, seqs, N, after)
  BY FlattenLoop
<1>2. /\ after[0] = << >>
      /\ \A i \in 1..N : after[i] = after[i - 1] \o seqs[i]
      /\ FlattenSeq(seqs) = after[N]
  BY <1>1, Zenon DEF Rounds
<1> DEFINE P == {k \in 0..N : Leads(S, t, after[k], sets[0], sets[k])}
<1>3. P \in SUBSET (0..N) /\ 0 \in P
  BY <1>2, NothingLeads
<1>4. ASSUME NEW k \in 0..(N - 1), k \in P PROVE k + 1 \in P
  <2>1. k + 1 \in 1..N /\ k + 1 \in 0..N /\ k + 1 - 1 = k
    BY ONLY N \in Nat, k \in 0..(N - 1)
  <2>2. Leads(S, t, after[k], sets[0], sets[k]) /\ Leads(S, t, seqs[k + 1], sets[k], sets[k + 1])
    <3>1. Leads(S, t, after[k], sets[0], sets[k])
      <4>1. k \in P
        BY <1>4
      <4>2. \A j \in P : Leads(S, t, after[j], sets[0], sets[j])
        OBVIOUS
      <4> QED
        BY ONLY <4>1, <4>2
    <3>2. Leads(S, t, seqs[k + 1], sets[(k + 1) - 1], sets[k + 1])
      BY <2>1, Zenon
    <3> QED
      BY ONLY <2>1, <3>1, <3>2
  <2>3. Leads(S, t, after[k] \o seqs[k + 1], sets[0], sets[k + 1])
    BY ONLY <2>2, ThenLeads
  <2>4. after[k + 1] = after[k] \o seqs[k + 1]
    <3>1. after[k + 1] = after[(k + 1) - 1] \o seqs[k + 1]
      BY <1>2, <2>1, Zenon
    <3>2. (k + 1) - 1 = k
      BY <2>1
    <3> QED
      BY ONLY <3>1, <3>2, Zenon
  <2> QED
    BY <2>1, <2>3, <2>4
<1> HIDE DEF P
<1>5. \A k \in 0..N : k \in P
  BY <1>3, <1>4, NaturalSteps
<1>6. N \in P
  BY <1>5
<1> QED
  BY <1>2, <1>6 DEF P

(* Two sequences of one element make one of two.                           *)
LEMMA TwoOnes ==
  ASSUME NEW a, NEW b
  PROVE  << a >> \o << b >> = << a, b >>
<1>1. << a >> \in Seq({a, b}) /\ << b >> \in Seq({a, b})
  OBVIOUS
<1>2. PICK s, t : s = << a >> \o << b >> /\ t = << a, b >>
  OBVIOUS
<1>3. s \in Seq({a, b}) /\ Len(s) = 2 /\ s[1] = a /\ s[2] = b
  BY <1>1, <1>2
<1>4. t \in Seq({a, b}) /\ Len(t) = 2 /\ t[1] = a /\ t[2] = b
  BY <1>2
<1>5. s = t
  BY ONLY <1>3, <1>4, SeqEqual
<1> QED
  BY <1>2, <1>5

(* One finding of a check of line n, with the lines up to n searched.      *)
LEMMA FoundLeads ==
  ASSUME NEW t, NEW n \in Nat, NEW x, FoundFrom(n, x), n <= Len(t.lines)
  PROVE  Leads(Later, t, Found(x), 1..n, 1..n)
<1> DEFINE A == 1..n
           report == Report(x.line, x.category, x.confidence)
           parses == << Parse(x.line - 1), Parse(x.line) >>
<1>1. x.category \in Categories \ {"legal/copyright"} /\ x.line \in Nat /\ x.confidence \in Nat
  BY DEF FoundFrom
<1>2. CASE x.by = "CheckTrailingSemicolon"
  <2> DEFINE B == (A \cup {x.line - 1}) \cup {x.line}
  <2>1. Leads(Later, t, parses, A, B)
    <3>1. Leads(Later, t, << Parse(x.line - 1) >> \o << Parse(x.line) >>, A, B)
      <4>1. Leads(Later, t, << Parse(x.line - 1) >>, A, A \cup {x.line - 1})
        BY <1>1, ParseLeads
      <4>2. Leads(Later, t, << Parse(x.line) >>, A \cup {x.line - 1}, B)
        BY <1>1, ParseLeads
      <4> HIDE DEF A, B
      <4> QED
        BY <4>1, <4>2, ThenLeads
    <3>2. << Parse(x.line - 1) >> \o << Parse(x.line) >> = parses
      BY TwoOnes
    <3> QED
      BY ONLY <3>1, <3>2, Zenon
  <2>2. Needed(t, report) \subseteq B
    <3>1. report.line = x.line
      BY DEF Report
    <3> QED
      BY <1>1, <3>1 DEF Needed
  <2>3. Leads(Later, t, << report >>, B, B)
    BY <1>1, <2>2, ReportLeads
  <2>4. Leads(Later, t, << report >>, B, A)
    BY <2>3 DEF Leads
  <2>5. Found(x) = parses \o << report >>
    BY <1>2 DEF Found, When
  <2> HIDE DEF A, B, parses, report
  <2> QED
    BY <2>1, <2>4, <2>5, ThenLeads DEF A
<1>3. CASE x.by # "CheckTrailingSemicolon"
  <2>1. Needed(t, report) \subseteq A
    <3>1. report.line = x.line /\ report.category = x.category
      BY DEF Report
    <3>2. CASE x.category \in EmptyBodies
      <4>1. Heeded(x.category, x.line) = {}
        BY <3>2 DEF Heeded, EmptyBodies
      <4> QED
        BY <3>1, <4>1 DEF Needed
    <3>3. CASE x.line <= n
      BY <1>1, <3>1, <3>3 DEF Needed
    <3> QED
      BY <1>3, <3>2, <3>3 DEF FoundFrom
  <2>2. Leads(Later, t, << report >>, A, A)
    BY <1>1, <2>1, ReportLeads
  <2>3. Found(x) = << >> \o << report >>
    BY <1>3 DEF Found, When
  <2>4. Leads(Later, t, << >>, A, A)
    BY NothingLeads
  <2> HIDE DEF A, report
  <2> QED
    BY <2>2, <2>3, <2>4, ThenLeads DEF A
<1> QED
  BY <1>2, <1>3

(* A loop whose rounds search nothing that is needed later.                *)
LEMMA StayingLoop ==
  ASSUME NEW t, NEW N \in Nat, NEW A, NEW seqs, DOMAIN seqs = 1..N, seqs = [n \in 1..N |-> seqs[n]],
         \A n \in 1..N : Leads(Later, t, seqs[n], A, A)
  PROVE  Leads(Later, t, FlattenSeq(seqs), A, A)
<1> DEFINE sets == [n \in 0..N |-> A]
<1>1. seqs \in [1..N -> Seq(Later)]
  BY DEF Leads
<1>2. \A n \in 1..N : sets[n - 1] = A /\ sets[n] = A
  OBVIOUS
<1>3. sets[0] = A /\ sets[N] = A
  OBVIOUS
<1> HIDE DEF sets
<1>4. \A n \in 1..N : Leads(Later, t, seqs[n], sets[n - 1], sets[n])
  BY <1>2
<1>5. Leads(Later, t, FlattenSeq(seqs), sets[0], sets[N])
  BY <1>1, <1>4, LoopLeads
<1> QED
  BY <1>3, <1>5

(* ProcessLine searches its line first.                                    *)
LEMMA LineLeads ==
  ASSUME NEW t, IsText(t), NEW n \in 1..Len(t.lines), NEW line_length
  PROVE  Leads(Later, t, ProcessLine(n, t.lines[n], line_length), 1..(n - 1), 1..n)
<1> DEFINE A == 1..n
           line == t.lines[n]
           N == Len(line.findings)
           round(stage) == [i \in 1..N |-> When(Stage(line.findings[i].by) = stage,
                                                Found(line.findings[i]))]
           findings(stage) == FlattenSeq(round(stage))
           long == When(line.width > line_length /\ ~line.unsplittable,
                        << Report(n, "whitespace/line_length", 2) >>)
<1>1. N \in Nat /\ n \in Nat /\ n <= Len(t.lines) /\ \A i \in 1..N : FoundFrom(n, line.findings[i])
  BY DEF IsText
<1>2. ASSUME NEW stage PROVE Leads(Later, t, findings(stage), A, A)
  <2>1. PICK s : s = round(stage)
    OBVIOUS
  <2>2. DOMAIN s = 1..N /\ s = [i \in 1..N |-> s[i]]
    BY <2>1
  <2>3. ASSUME NEW i \in 1..N PROVE Leads(Later, t, s[i], A, A)
    <3>1. Leads(Later, t, Found(line.findings[i]), A, A)
      BY <1>1, FoundLeads
    <3>2. s[i] = When(Stage(line.findings[i].by) = stage, Found(line.findings[i]))
      BY <2>1
    <3> HIDE DEF A, N, line
    <3> QED
      BY <3>1, <3>2, WhenLeads
  <2> HIDE DEF A, N, round
  <2>4. Leads(Later, t, FlattenSeq(s), A, A)
    BY <1>1, <2>2, <2>3, StayingLoop
  <2> QED
    BY <2>1, <2>4
<1>3. Leads(Later, t, << Parse(n) >>, 1..(n - 1), A)
  <2>1. A = 1..(n - 1) \cup {n}
    OBVIOUS
  <2> QED
    BY <2>1, ParseLeads
<1>4. Leads(Later, t, long, A, A)
  <2>1. Needed(t, Report(n, "whitespace/line_length", 2)) \subseteq A
    <3>1. (Report(n, "whitespace/line_length", 2)).line = n
      BY DEF Report
    <3> QED
      BY <3>1 DEF Needed
  <2>2. "whitespace/line_length" \in Categories \ {"legal/copyright"}
    BY LintSessionAssumption
  <2>3. Leads(Later, t, << Report(n, "whitespace/line_length", 2) >>, A, A)
    BY <2>1, <2>2, ReportLeads
  <2> HIDE DEF A, line
  <2> QED
    BY <2>3, WhenLeads
<1>5. ProcessLine(n, line, line_length) =
        ((<< Parse(n) >> \o findings("first")) \o When(~line.asm, long \o findings("middle")))
          \o findings("last")
  BY Zenon DEF ProcessLine
<1> HIDE DEF A, N, long, findings, line
<1>6. Leads(Later, t, << Parse(n) >> \o findings("first"), 1..(n - 1), A)
  BY <1>2, <1>3, ThenLeads
<1>7. Leads(Later, t, When(~line.asm, long \o findings("middle")), A, A)
  <2>1. Leads(Later, t, long \o findings("middle"), A, A)
    BY <1>2, <1>4, ThenLeads
  <2> QED
    BY <2>1, WhenLeads
<1>8. Leads(Later, t, (<< Parse(n) >> \o findings("first")) \o When(~line.asm, long \o findings("middle")),
            1..(n - 1), A)
  BY <1>6, <1>7, ThenLeads
<1>9. Leads(Later, t, ((<< Parse(n) >> \o findings("first")) \o When(~line.asm, long \o findings("middle")))
                 \o findings("last"), 1..(n - 1), A)
  BY <1>2, <1>8, ThenLeads
<1> QED
  BY <1>5, <1>9 DEF A, line

(* CheckForHeaderGuard searches the two lines it reports on.               *)
LEMMA GuardLeads ==
  ASSUME NEW t, IsText(t), NEW A, NEW f, NEW root
  PROVE  Leads(Later, t, CheckForHeaderGuard(f, t.guard, root), A, A)
<1> DEFINE guard == t.guard
           c == "build/header_guard"
           cppvar == GetHeaderGuardCPPVariable(f, root)
           wrong == guard.ifndef # [path |-> cppvar, underscores |-> 1]
           deprecated == [path |-> cppvar, underscores |-> 2]
           level5(name) == IF name = deprecated THEN 0 ELSE 5
           readable == guard.endif_style = "//" \/ ~guard.slashes
           bad == ~readable \/ guard.endif # [path |-> cppvar, underscores |-> 1]
           first == Report(guard.ifndef_line, c, level5(guard.ifndef))
           last == Report(guard.endif_line, c, IF readable THEN level5(guard.endif) ELSE 5)
           begin == When(wrong, << Parse(guard.ifndef_line), first >>)
           end == << Parse(guard.endif_line) >> \o When(bad, << last >>)
           none == Report(0, c, 5)
<1>1. CheckForHeaderGuard(f, guard, root) =
        IF guard.nolint THEN << >>
        ELSE IF guard.ifndef = Missing \/ guard.ifndef # guard.define THEN << none >>
        ELSE (begin \o << Parse(guard.endif_line) >>) \o When(bad, << last >>)
  BY Zenon DEF CheckForHeaderGuard
<1>2. c \in Categories \ {"legal/copyright"} /\ guard.ifndef_line \in Nat /\ guard.endif_line \in Nat
  BY LintSessionAssumption DEF IsText
<1>3. \A name : level5(name) \in Nat
  OBVIOUS
<1>4. ASSUME NEW n \in Nat, NEW confidence \in Nat
      PROVE  Leads(Later, t, << Parse(n) >>, A, A \cup {n})
             /\ Leads(Later, t, << Report(n, c, confidence) >>, A \cup {n}, A)
  <2>1. Needed(t, Report(n, c, confidence)) \subseteq {n}
    <3>1. (Report(n, c, confidence)).line = n /\ (Report(n, c, confidence)).category = c
      BY DEF Report
    <3>2. Heeded(c, n) = {n}
      BY DEF Heeded
    <3> QED
      BY <3>1, <3>2 DEF Needed
  <2>2. Leads(Later, t, << Report(n, c, confidence) >>, A \cup {n}, A \cup {n})
    BY <1>2, <2>1, ReportLeads
  <2>3. Leads(Later, t, << Report(n, c, confidence) >>, A \cup {n}, A)
    BY <2>2 DEF Leads
  <2> QED
    BY <2>3, ParseLeads
<1>5. Leads(Later, t, << none >>, A, A)
  <2>1. Needed(t, none) = {}
    <3>1. none.line = 0
      BY DEF Report
    <3> QED
      BY <3>1 DEF Needed
  <2> HIDE DEF none
  <2> QED
    BY <1>2, <2>1, ReportLeads DEF none
<1>6. Leads(Later, t, begin, A, A)
  <2>1. level5(guard.ifndef) \in Nat
    BY <1>3
  <2> DEFINE n == guard.ifndef_line
  <2>2. Leads(Later, t, << Parse(n) >>, A, A \cup {n}) /\ Leads(Later, t, << first >>, A \cup {n}, A)
    BY <1>2, <1>4, <2>1
  <2>3. << Parse(n) >> \o << first >> = << Parse(n), first >>
    BY TwoOnes
  <2> HIDE DEF n, first, wrong
  <2>4. Leads(Later, t, << Parse(n) >> \o << first >>, A, A)
    BY <2>2, ThenLeads
  <2>5. Leads(Later, t, << Parse(n), first >>, A, A)
    BY ONLY <2>3, <2>4, Zenon
  <2> QED
    BY <2>5, WhenLeads DEF n
<1>7. Leads(Later, t, << Parse(guard.endif_line) >>, A, A \cup {guard.endif_line})
  BY <1>2, ParseLeads
<1>8. Leads(Later, t, When(bad, << last >>), A \cup {guard.endif_line}, A)
  <2> DEFINE B == A \cup {guard.endif_line}
             confidence == IF readable THEN level5(guard.endif) ELSE 5
  <2>1. confidence \in Nat
    BY <1>3
  <2> HIDE DEF confidence
  <2>2. Leads(Later, t, << last >>, B, A)
    BY <1>2, <1>4, <2>1 DEF confidence
  <2>3. A \subseteq B
    OBVIOUS
  <2> HIDE DEF last, bad, B
  <2>4. Leads(Later, t, << last >>, B, B \cap A)
    BY <2>2 DEF Leads
  <2>5. CASE bad
    BY <2>2, <2>5 DEF When, B
  <2>6. CASE ~bad
    <3>1. When(bad, << last >>) = << >>
      BY <2>6 DEF When
    <3>2. Leads(Later, t, << >>, B, B)
      BY NothingLeads
    <3>3. Leads(Later, t, << >>, B, A)
      BY <2>3, <3>2 DEF Leads
    <3> QED
      BY <3>1, <3>3 DEF B
  <2> QED
    BY <2>5, <2>6
<1> HIDE DEF begin, bad, last, none, guard
<1>9. Leads(Later, t, begin \o << Parse(guard.endif_line) >>, A, A \cup {guard.endif_line})
  BY <1>6, <1>7, ThenLeads
<1>10. Leads(Later, t, (begin \o << Parse(guard.endif_line) >>) \o When(bad, << last >>), A, A)
  BY <1>8, <1>9, ThenLeads
<1>11. Leads(Later, t, << >>, A, A)
  BY NothingLeads
<1> QED
  BY <1>1, <1>5, <1>10, <1>11 DEF guard

(* CheckForNewlineAtEOF and the line ends: all lines have been searched.   *)
LEMMA LineEndsLead ==
  ASSUME NEW t, IsText(t)
  PROVE  Leads(Later, t, CheckLineEnds(t.lines), 1..Len(t.lines), 1..Len(t.lines))
<1> DEFINE N == Len(t.lines)
           A == 1..N
           crlf == {n \in 1..N : t.lines[n].cr}
           round == [n \in 1..N |-> When(n \in crlf, << Report(n, "whitespace/newline", 1) >>)]
<1>1. CheckLineEnds(t.lines) = When(crlf # 1..N, FlattenSeq(round))
  BY DEF CheckLineEnds
<1>2. N \in Nat /\ "whitespace/newline" \in Categories \ {"legal/copyright"}
  BY LintSessionAssumption DEF IsText
<1> HIDE DEF N, crlf
<1>3. ASSUME NEW n \in 1..N PROVE Leads(Later, t, round[n], A, A)
  <2>1. Needed(t, Report(n, "whitespace/newline", 1)) \subseteq A
    BY DEF Needed, N
  <2>2. Leads(Later, t, << Report(n, "whitespace/newline", 1) >>, A, A)
    BY <1>2, <2>1, ReportLeads
  <2>3. round[n] = When(n \in crlf, << Report(n, "whitespace/newline", 1) >>)
    OBVIOUS
  <2> HIDE DEF A, round
  <2> QED
    BY <2>2, <2>3, WhenLeads
<1>4. DOMAIN round = 1..N /\ round = [n \in 1..N |-> round[n]]
  OBVIOUS
<1> HIDE DEF round, A
<1>5. Leads(Later, t, FlattenSeq(round), A, A)
  BY <1>2, <1>3, <1>4, StayingLoop
<1> QED
  BY <1>1, <1>5, WhenLeads DEF A, N

(* The suppressions for the whole file come before all reports, but for    *)
(* those about the copyright.                                              *)
Opened(t, events) ==
  /\ events \in Seq(Events)
  /\ \E s \in 1..Len(events) :
       /\ events[s] = Suppress(t.globally)
       /\ \A i \in 1..(s - 1) : events[i].op = "error" /\ events[i].category = "legal/copyright"
       /\ \A i \in (s + 1)..Len(events) : events[i] \in Later

(* The beginning of ProcessFileData.                                       *)
LEMMA BeginningOpens ==
  ASSUME NEW t, IsText(t)
  PROVE  LET begin == When(~t.copyright, << Report(0, "legal/copyright", 5) >>) \o << Suppress(t.globally) >>
         IN  Opened(t, begin) /\ Leads(Events, t, begin, {}, {})
<1> DEFINE r == Report(0, "legal/copyright", 5)
           g == Suppress(t.globally)
           begin == When(~t.copyright, << r >>) \o << g >>
<1>1. r \in Events /\ g \in Events /\ g.op = "global" /\ r.op = "error" /\ r.line = 0
      /\ r.category = "legal/copyright"
  BY LintSessionAssumption DEF Events, Report, Suppress, IsText
<1> HIDE DEF r, g
<1>2. Needed(t, r) = {}
  BY <1>1 DEF Needed
<1>3. CASE t.copyright
  <2>1. begin = << >> \o << g >>
    BY <1>3 DEF When
  <2> HIDE DEF begin
  <2>2. begin \in Seq(Events) /\ Len(begin) = 1 /\ begin[1] = g
    BY <1>1, <2>1
  <2>3. Opened(t, begin)
    BY <2>2 DEF Opened, g
  <2>4. Guarded(t, begin, {})
    BY <1>1, <2>2 DEF Guarded
  <2> QED
    BY <2>2, <2>3, <2>4 DEF Leads, begin, r, g
<1>4. CASE ~t.copyright
  <2>1. begin = << r >> \o << g >>
    BY <1>4 DEF When
  <2>2. begin = << r, g >>
    BY <2>1, TwoOnes
  <2> HIDE DEF begin
  <2>3. begin \in Seq(Events) /\ Len(begin) = 2 /\ begin[1] = r /\ begin[2] = g
    BY <1>1, <2>2
  <2>4. Opened(t, begin)
    BY <1>1, <2>3 DEF Opened, g
  <2>5. Guarded(t, begin, {})
    BY <1>1, <1>2, <2>3 DEF Guarded
  <2> QED
    BY <2>3, <2>4, <2>5 DEF Leads, begin, r, g
<1> QED
  BY <1>3, <1>4

(* What comes later changes nothing about it.                              *)
LEMMA OpenedThen ==
  ASSUME NEW t, NEW a, NEW b, NEW A, NEW B,
         Opened(t, a), Leads(Events, t, a, {}, A), Leads(Later, t, b, A, B)
  PROVE  Opened(t, a \o b) /\ Leads(Events, t, a \o b, {}, B)
<1>1. Later \subseteq Events
  BY DEF Later
<1>2. a \in Seq(Events) /\ b \in Seq(Later) /\ b \in Seq(Events)
  BY <1>1 DEF Leads
<1>3. PICK c : c = a \o b
  OBVIOUS
<1>4. /\ c \in Seq(Events) /\ Len(c) = Len(a) + Len(b)
      /\ Len(a) \in Nat /\ Len(b) \in Nat
      /\ \A i \in 1..Len(a) : c[i] = a[i]
      /\ \A i \in 1..Len(b) : c[Len(a) + i] = b[i]
  BY ONLY <1>2, <1>3, Concatenated
<1>5. Opened(t, c)
  <2>1. PICK s \in 1..Len(a) :
          /\ a[s] = Suppress(t.globally)
          /\ \A i \in 1..(s - 1) : a[i].op = "error" /\ a[i].category = "legal/copyright"
          /\ \A i \in (s + 1)..Len(a) : a[i] \in Later
    BY DEF Opened
  <2>2. s \in 1..Len(c) /\ c[s] = Suppress(t.globally)
    BY <1>4, <2>1
  <2>3. \A i \in 1..(s - 1) : c[i].op = "error" /\ c[i].category = "legal/copyright"
    BY <1>4, <2>1
  <2>4. ASSUME NEW i \in (s + 1)..Len(c) PROVE c[i] \in Later
    <3>1. CASE i <= Len(a)
      BY <1>4, <2>1, <3>1
    <3>2. CASE ~(i <= Len(a))
      <4>1. i - Len(a) \in 1..Len(b) /\ Len(a) + (i - Len(a)) = i
        BY <1>4, <3>2
      <4>2. b[i - Len(a)] \in Later
        BY <1>2, <4>1
      <4> QED
        BY <1>4, <4>1, <4>2
    <3> QED
      BY <3>1, <3>2
  <2> QED
    BY <1>4, <2>2, <2>3, <2>4 DEF Opened
<1>6. Leads(Events, t, b, A, B)
  BY <1>2 DEF Leads
<1>7. Leads(Events, t, a \o b, {}, B)
  BY <1>6, ThenLeads
<1> QED
  BY <1>3, <1>5, <1>7

(* In the order of ProcessFileData every report finds the comments read    *)
(* that it heeds.                                                          *)
LEMMA FileLeads ==
  ASSUME NEW t, IsText(t), NEW f, NEW line_length, NEW root
  PROVE  LET events == ProcessFileData(f, t, line_length, root)
         IN  Opened(t, events) /\ Leads(Events, t, events, {}, {})
<1> DEFINE N == Len(t.lines)
           copyright == When(~t.copyright, << Report(0, "legal/copyright", 5) >>)
           suppress == << Suppress(t.globally) >>
           comment == When(t.open_comment # 0,
                           << Report(t.open_comment + 1, "readability/multiline_comment", 5) >>)
           guard == When(Ext[f] = "h", CheckForHeaderGuard(f, t.guard, root))
           round == [n \in 1..N |-> ProcessLine(n, t.lines[n], line_length)]
           late == [i \in 1..Len(t.at_end) |-> Found(t.at_end[i])]
           ends == CheckLineEnds(t.lines)
<1>1. ProcessFileData(f, t, line_length, root) =
        (((((copyright \o suppress) \o comment) \o guard) \o FlattenSeq(round))
           \o FlattenSeq(late)) \o ends
  BY Zenon DEF ProcessFileData
<1>2. N \in Nat /\ Len(t.at_end) \in Nat /\ t.open_comment \in Nat
      /\ \A i \in 1..Len(t.at_end) : FoundFrom(N, t.at_end[i])
  BY DEF IsText
<1>3. "readability/multiline_comment" \in Categories \ {"legal/copyright"}
  BY LintSessionAssumption
<1> DEFINE begin == copyright \o suppress
<1>4. Opened(t, begin) /\ Leads(Events, t, begin, {}, {})
  BY BeginningOpens
<1>6. Leads(Later, t, comment, {}, {})
  <2> DEFINE n == t.open_comment + 1
             c == "readability/multiline_comment"
  <2>1. n \in Nat
    BY <1>2
  <2> HIDE DEF n
  <2>2. Needed(t, Report(n, c, 5)) \subseteq {}
    <3>1. (Report(n, c, 5)).category = c
      BY DEF Report
    <3>2. \A m : Heeded(c, m) = {}
      BY DEF Heeded, EmptyBodies
    <3> QED
      BY <3>1, <3>2 DEF Needed
  <2>3. Leads(Later, t, << Report(n, c, 5) >>, {}, {})
    BY <1>3, <2>1, <2>2, ReportLeads
  <2> QED
    BY <2>3, WhenLeads DEF n
<1>7. Leads(Later, t, guard, {}, {})
  <2>1. Leads(Later, t, CheckForHeaderGuard(f, t.guard, root), {}, {})
    BY GuardLeads
  <2> QED
    BY <2>1, WhenLeads
<1>8. Leads(Later, t, FlattenSeq(round), {}, 1..N)
  <2> DEFINE sets == [n \in 0..N |-> 1..n]
  <2>1. ASSUME NEW n \in 1..N PROVE Leads(Later, t, round[n], sets[n - 1], sets[n])
    <3>1. Leads(Later, t, ProcessLine(n, t.lines[n], line_length), 1..(n - 1), 1..n)
      BY LineLeads
    <3>2. sets[n - 1] = 1..(n - 1) /\ sets[n] = 1..n
      BY <1>2
    <3>3. round[n] = ProcessLine(n, t.lines[n], line_length)
      OBVIOUS
    <3> HIDE DEF round, sets
    <3> QED
      BY ONLY <3>1, <3>2, <3>3, Zenon
  <2>2. round \in [1..N -> Seq(Later)]
    <3>1. \A n \in 1..N : round[n] \in Seq(Later)
      <4> HIDE DEF round, sets
      <4> QED
        BY <2>1 DEF Leads
    <3> QED
      BY <3>1
  <2>3. sets[0] = {} /\ sets[N] = 1..N
    BY <1>2
  <2> HIDE DEF round, sets
  <2>4. Leads(Later, t, FlattenSeq(round), sets[0], sets[N])
    BY <1>2, <2>1, <2>2, LoopLeads
  <2> QED
    BY <2>3, <2>4
<1>9. Leads(Later, t, FlattenSeq(late), 1..N, 1..N)
  <2>1. ASSUME NEW i \in 1..Len(t.at_end) PROVE Leads(Later, t, late[i], 1..N, 1..N)
    <3>1. Leads(Later, t, Found(t.at_end[i]), 1..N, 1..N)
      BY <1>2, FoundLeads
    <3> QED
      BY <3>1
  <2>2. DOMAIN late = 1..Len(t.at_end) /\ late = [i \in 1..Len(t.at_end) |-> late[i]]
    OBVIOUS
  <2> HIDE DEF late, N
  <2> QED
    BY <1>2, <2>1, <2>2, StayingLoop
<1>10. Leads(Later, t, ends, 1..N, 1..N)
  BY LineEndsLead
<1> HIDE DEF begin, comment, guard, round, late, ends, N
<1>11. Opened(t, begin \o comment) /\ Leads(Events, t, begin \o comment, {}, {})
  BY <1>4, <1>6, OpenedThen
<1>12. Opened(t, (begin \o comment) \o guard) /\ Leads(Events, t, (begin \o comment) \o guard, {}, {})
  BY <1>7, <1>11, OpenedThen
<1> DEFINE checked == ((begin \o comment) \o guard) \o FlattenSeq(round)
<1>13. Opened(t, checked) /\ Leads(Events, t, checked, {}, 1..N)
  BY <1>8, <1>12, OpenedThen
<1> HIDE DEF checked
<1>14. Opened(t, checked \o FlattenSeq(late)) /\ Leads(Events, t, checked \o FlattenSeq(late), {}, 1..N)
  BY <1>9, <1>13, OpenedThen
<1> DEFINE events == (checked \o FlattenSeq(late)) \o ends
<1>15. Opened(t, events) /\ Leads(Events, t, events, {}, 1..N)
  BY <1>10, <1>14, OpenedThen
<1>16. Leads(Events, t, events, {}, {})
  BY <1>15 DEF Leads
<1> QED
  BY <1>1, <1>15, <1>16 DEF events, checked, begin

-----------------------------------------------------------------------------
(* NOLINT comments and the errors printed                                  *)

(* The lines whose NOLINT comment, if they have one, is in force.          *)
Obeyed(t, suppressions) ==
  {n \in 1..Len(t.lines) :
     LET nolint == t.lines[n].nolint
     IN nolint # Missing /\ nolint.category \in Categories \cup {All} =>
          <<nolint.category, IF nolint.next THEN n + 1 ELSE n>> \in suppressions}

(* An error that no comment it should heed holds back.                     *)
Fine(t, entry) == ~Quiet(t, Heeded(entry.category, entry.line), entry.line, entry.category)

NolintInv ==
  /\ env \in Environments
  /\ queue \in Seq(DOMAIN env.text)
  /\ pc \in {"config", "read", "lint"} => queue # << >>
  /\ pc = "lint" => /\ IsText(env.text[Head(queue)])
                    /\ todo \in Seq(Events)
                    /\ Guarded(env.text[Head(queue)], todo,
                               Obeyed(env.text[Head(queue)], error_suppressions))
  /\ IsSequence(printed)
  /\ \A i \in 1..Len(printed) : Fine(env.text[printed[i].file], printed[i])

(* What is printed has not been suppressed.                                *)
LEMMA UnsuppressedIsFine ==
  ASSUME NEW t, Len(t.lines) \in Nat, NEW e, e.category \in Categories,
         Needed(t, e) \subseteq Obeyed(t, error_suppressions),
         ~IsErrorSuppressedByNolint(e.category, e.line)
  PROVE  ~Quiet(t, Heeded(e.category, e.line), e.line, e.category)
<1> SUFFICES ASSUME Quiet(t, Heeded(e.category, e.line), e.line, e.category) PROVE FALSE
  OBVIOUS
<1>1. PICK k \in 1..Len(t.lines) :
        /\ k \in Heeded(e.category, e.line)
        /\ t.lines[k].nolint # Missing
        /\ e.line = (IF t.lines[k].nolint.next THEN k + 1 ELSE k)
        /\ t.lines[k].nolint.category \in {All, e.category}
  BY DEF Quiet
<1>2. k \in Obeyed(t, error_suppressions)
  BY <1>1 DEF Needed
<1>3. <<t.lines[k].nolint.category, e.line>> \in error_suppressions
  BY <1>1, <1>2 DEF Obeyed
<1> QED
  BY <1>1, <1>3 DEF IsErrorSuppressedByNolint

(* The reports still to be made, after one step of the linter.             *)
LEMMA GuardedTail ==
  ASSUME NEW t, NEW events \in Seq(Events), events # << >>, NEW A, NEW B,
         Guarded(t, events, A), A \subseteq B,
         Head(events).op = "parse" /\ Head(events).line \in 1..Len(t.lines)
           => Head(events).line \in B
  PROVE  /\ Tail(events) \in Seq(Events) /\ Guarded(t, Tail(events), B)
         /\ Head(events) \in Events
         /\ Head(events).op = "error" => Needed(t, Head(events)) \subseteq A
<1>1. PICK e, rest : e = Head(events) /\ rest = Tail(events)
  OBVIOUS
<1>2. /\ Len(events) \in Nat /\ Len(events) >= 1 /\ events[1] = e /\ e \in Events
      /\ rest \in Seq(Events) /\ Len(rest) = Len(events) - 1
      /\ \A i \in 1..Len(rest) : rest[i] = events[i + 1]
  BY <1>1
<1>3. e.op = "error" => Needed(t, e) \subseteq A
  BY <1>2 DEF Guarded
<1>4. ASSUME NEW i \in 1..Len(rest), rest[i].op = "error", NEW k \in Needed(t, rest[i])
      PROVE  k \in B \/ \E j \in 1..(i - 1) : rest[j].op = "parse" /\ rest[j].line = k
  <2>1. i + 1 \in 1..Len(events) /\ rest[i] = events[i + 1]
    BY <1>2
  <2>2. k \in A \/ \E j \in 1..((i + 1) - 1) : events[j].op = "parse" /\ events[j].line = k
    BY <1>4, <2>1 DEF Guarded
  <2>3. ASSUME NEW j \in 1..((i + 1) - 1), events[j].op = "parse" /\ events[j].line = k
        PROVE  k \in B \/ \E l \in 1..(i - 1) : rest[l].op = "parse" /\ rest[l].line = k
    <3>1. CASE j = 1
      <4>1. k \in 1..Len(t.lines)
        BY DEF Needed
      <4> QED
        BY <1>1, <1>2, <2>3, <3>1, <4>1
    <3>2. CASE j # 1
      <4>1. j - 1 \in 1..(i - 1) /\ rest[j - 1] = events[j]
        BY <1>2, <3>2
      <4> QED
        BY <2>3, <4>1
    <3> QED
      BY <3>1, <3>2
  <2> QED
    BY <2>2, <2>3
<1>5. Guarded(t, rest, B)
  BY <1>4 DEF Guarded
<1> QED
  BY <1>1, <1>2, <1>3, <1>5

(* One error more that is fine.                                            *)
LEMMA OneMoreFine ==
  ASSUME IsSequence(printed), \A i \in 1..Len(printed) : Fine(env.text[printed[i].file], printed[i]),
         NEW entry, Fine(env.text[entry.file], entry), printed' = Append(printed, entry), env' = env
  PROVE  IsSequence(printed') /\ \A i \in 1..Len(printed') : Fine(env'.text[printed'[i].file], printed'[i])
<1>1. /\ Len(printed) \in Nat /\ Len(Append(printed, entry)) = Len(printed) + 1
      /\ IsSequence(Append(printed, entry))
      /\ \A i \in 1..Len(printed) : Append(printed, entry)[i] = printed[i]
      /\ Append(printed, entry)[Len(printed) + 1] = entry
  BY ONLY IsSequence(printed), AppendEntry
<1>2. \A i \in 1..Len(printed') : i \in 1..Len(printed) \/ i = Len(printed) + 1
  BY <1>1
<1> QED
  BY <1>1, <1>2

(* At first nothing is printed.                                            *)
LEMMA NolintInit == Init => NolintInv
<1> SUFFICES ASSUME Init PROVE NolintInv
  OBVIOUS
<1>1. pc = "main" /\ printed = << >> /\ queue = << >> /\ env \in Environments
  BY DEF Init
<1>2. Len(<< >>) = 0 /\ 1..0 = {}
  OBVIOUS
<1> QED
  BY <1>1, <1>2 DEF NolintInv, IsSequence

(* Leaving a file.                                                         *)
LEMMA LeavingKeeps ==
  ASSUME NolintInv, pc \in {"config", "read", "lint"}, NEW s, FinishFile(s), UNCHANGED <<env, printed>>
  PROVE  NolintInv'
<1>1. queue \in Seq(DOMAIN env.text) /\ queue # << >>
  BY DEF NolintInv
<1>2. Tail(queue) \in Seq(DOMAIN env.text)
  BY <1>1
<1>3. queue' = Tail(queue) /\ pc' = "next"
  BY DEF FinishFile
<1> QED
  BY <1>2, <1>3 DEF NolintInv

(* A step of Lint: what is printed is fine, and no report is left too      *)
(* early.                                                                  *)
LEMMA LintKeeps ==
  ASSUME NolintInv, Lint
  PROVE  NolintInv'
<1> DEFINE f == Head(queue)
           t == env.text[f]
           e == Head(todo)
           A == Obeyed(t, error_suppressions)
           B == Obeyed(t, error_suppressions')
<1>1. /\ pc = "lint" /\ todo # << >> /\ todo' = Tail(todo)
      /\ UNCHANGED <<env, pc, queue>>
  BY DEF Lint
<1>2. /\ IsText(t) /\ todo \in Seq(Events) /\ Guarded(t, todo, A) /\ Len(t.lines) \in Nat
  <2>1. IsText(t) /\ todo \in Seq(Events) /\ Guarded(t, todo, A)
    BY ONLY NolintInv, <1>1 DEF NolintInv
  <2> HIDE DEF t
  <2>2. Len(t.lines) \in Nat
    BY ONLY <2>1 DEF IsText
  <2> QED
    BY <2>1, <2>2
<1>3. \/ e.op = "parse" /\ ParseNolintSuppressions(e.line)
      \/ e.op = "global" /\ UNCHANGED <<error_suppressions, printed>>
      \/ e.op = "error" /\ Error(e) /\ UNCHANGED error_suppressions
  BY DEF Lint
<1>4. /\ e \in Events
      /\ e.op = "error" => Needed(t, e) \subseteq A
  <2>1. A \subseteq A \cup {e.line} /\ e.line \in A \cup {e.line}
    OBVIOUS
  <2> HIDE DEF A, B, t
  <2> QED
    BY <1>1, <1>2, <2>1, GuardedTail
<1>5. ASSUME NEW x, Error(x), Fine(t, [file |-> f, line |-> x.line, category |-> x.category])
             \/ ~ShouldPrintError(x)
      PROVE  IsSequence(printed') /\ \A i \in 1..Len(printed') : Fine(env'.text[printed'[i].file], printed'[i])
  <2>1. CASE ShouldPrintError(x)
    <3> DEFINE entry == [file |-> f, line |-> x.line, category |-> x.category]
    <3>1. printed' = Append(printed, entry)
      BY <1>5, <2>1 DEF Error, file
    <3>2. entry.file = f /\ Fine(t, entry)
      BY <1>5, <2>1
    <3> HIDE DEF entry, f
    <3> QED
      BY <1>1, <3>1, <3>2, OneMoreFine DEF NolintInv
  <2>2. CASE ~ShouldPrintError(x)
    <3>1. printed' = printed
      BY <1>5, <2>2 DEF Error
    <3> QED
      BY <1>1, <3>1 DEF NolintInv
  <2> QED
    BY <2>1, <2>2
<1> SUFFICES /\ A \subseteq B
             /\ e.op = "parse" /\ e.line \in 1..Len(t.lines) => e.line \in B
             /\ IsSequence(printed')
             /\ \A i \in 1..Len(printed') : Fine(env'.text[printed'[i].file], printed'[i])
  <2>1. /\ Tail(todo) \in Seq(Events)
        /\ A \subseteq B /\ (e.op = "parse" /\ e.line \in 1..Len(t.lines) => e.line \in B)
             => Guarded(t, Tail(todo), B)
    <3> HIDE DEF A, B, t
    <3> QED
      BY <1>1, <1>2, GuardedTail
  <2> QED
    BY <1>1, <1>2, <2>1 DEF NolintInv
<1>6. CASE e.op = "error" /\ Error(e) /\ UNCHANGED error_suppressions
  <2>1. e.category \in Categories
    BY <1>4, <1>6 DEF Events
  <2>2. Needed(t, e) \subseteq A
    BY <1>4, <1>6
  <2>3. ShouldPrintError(e) => ~IsErrorSuppressedByNolint(e.category, e.line)
    BY DEF ShouldPrintError
  <2>4. ShouldPrintError(e) => ~Quiet(t, Heeded(e.category, e.line), e.line, e.category)
    BY <1>2, <2>1, <2>2, <2>3, UnsuppressedIsFine
  <2>5. ShouldPrintError(e) => Fine(t, [file |-> f, line |-> e.line, category |-> e.category])
    BY <2>4 DEF Fine
  <2>6. IsSequence(printed') /\ \A i \in 1..Len(printed') : Fine(env'.text[printed'[i].file], printed'[i])
    BY <1>5, <1>6, <2>5
  <2> QED
    BY <1>6, <2>6
<1>7. CASE e.op = "global" /\ UNCHANGED <<error_suppressions, printed>>
  BY <1>1, <1>7 DEF NolintInv
<1>8. CASE e.op = "parse" /\ ParseNolintSuppressions(e.line)
  <2> DEFINE n == e.line
             nolint == IF n \in 1..Len(t.lines) THEN t.lines[n].nolint ELSE Missing
             suppressed_line == IF nolint.next THEN n + 1 ELSE n
  <2>1. CASE nolint = Missing
    <3>1. UNCHANGED <<error_suppressions, printed>>
      BY <1>8, <2>1 DEF ParseNolintSuppressions, text, file
    <3>2. n \in 1..Len(t.lines) => n \in A
      BY <2>1 DEF Obeyed
    <3> QED
      BY <1>1, <3>1, <3>2 DEF NolintInv
  <2>2. CASE nolint # Missing /\ nolint.category \in Categories \cup {All}
    <3>1. /\ error_suppressions' = error_suppressions \cup {<<nolint.category, suppressed_line>>}
          /\ UNCHANGED printed
      BY <1>8, <2>2 DEF ParseNolintSuppressions, text, file
    <3>2. n \in 1..Len(t.lines) => n \in B
      BY <3>1 DEF Obeyed
    <3>3. error_suppressions \subseteq error_suppressions'
      BY <3>1
    <3>4. A \subseteq B
      BY <3>3 DEF Obeyed
    <3> QED
      BY <1>1, <3>1, <3>2, <3>4 DEF NolintInv
  <2>3. CASE nolint # Missing /\ nolint.category \notin Categories \cup {All} /\ nolint.category \notin Legacy
    <3> DEFINE x == Report(n, "readability/nolint", 5)
    <3>1. Error(x) /\ UNCHANGED error_suppressions
      BY <1>8, <2>3 DEF ParseNolintSuppressions, text, file
    <3>2. n \in 1..Len(t.lines) => n \in A
      BY <2>3 DEF Obeyed
    <3>3. x.line = n /\ x.category = "readability/nolint"
      BY DEF Report
    <3>4. ~Quiet(t, {n}, n, "readability/nolint")
      <4>1. "readability/nolint" \in Categories
        BY LintSessionAssumption
      <4> QED
        BY <2>3, <4>1 DEF Quiet
    <3>5. Fine(t, [file |-> f, line |-> x.line, category |-> x.category])
      <4>1. Heeded("readability/nolint", n) = {n}
        BY DEF Heeded
      <4> HIDE DEF x, n
      <4> QED
        BY <3>3, <3>4, <4>1 DEF Fine
    <3>6. IsSequence(printed') /\ \A i \in 1..Len(printed') : Fine(env'.text[printed'[i].file], printed'[i])
      BY <1>5, <3>1, <3>5
    <3> QED
      BY <3>1, <3>2, <3>6
  <2>4. CASE nolint # Missing /\ nolint.category \notin Categories \cup {All} /\ nolint.category \in Legacy
    <3>1. UNCHANGED <<error_suppressions, printed>>
      BY <1>8, <2>4 DEF ParseNolintSuppressions, text, file
    <3>2. n \in 1..Len(t.lines) => n \in A
      BY <2>4 DEF Obeyed
    <3> QED
      BY <1>1, <3>1, <3>2 DEF NolintInv
  <2> QED
    BY <2>1, <2>2, <2>3, <2>4
<1> QED
  BY <1>3, <1>6, <1>7, <1>8

(* Every step keeps it.                                                    *)
LEMMA NolintStep == NolintInv /\ [Next]_vars => NolintInv'
<1> SUFFICES ASSUME NolintInv, [Next]_vars PROVE NolintInv'
  OBVIOUS
<1>1. CASE UNCHANGED vars
  BY <1>1 DEF vars, NolintInv
<1>2. CASE ParseArguments
  <2>1. env.filenames \in Seq(DOMAIN env.text)
    BY LintSessionAssumption DEF NolintInv
  <2>2. UNCHANGED <<env, printed>>
    BY <1>2 DEF ParseArguments
  <2>3. CASE pc' \in {"exit_0", "aborted"} /\ UNCHANGED queue
    BY <2>2, <2>3 DEF NolintInv
  <2>4. CASE pc' = "next" /\ queue' = env.filenames
    BY <2>1, <2>2, <2>4 DEF NolintInv
  <2> QED
    BY <1>2, <2>3, <2>4 DEF ParseArguments, Exit
<1>3. CASE StartFile
  BY <1>3 DEF StartFile, NolintInv
<1>4. CASE VisitDirectory
  <2> DEFINE here == Path[file][level]
             r == ReadConfig(here.dir, here.base, env.config[here.dir])
             s == [settings EXCEPT !.line_length = r.line_length, !.root = r.root]
  <2>1. /\ pc = "config" /\ UNCHANGED <<env, printed>>
        /\ FinishFile(s) \/ UNCHANGED <<queue, pc>>
    BY <1>4 DEF VisitDirectory
  <2> HIDE DEF s
  <2>2. CASE FinishFile(s)
    BY <2>1, <2>2, LeavingKeeps
  <2>3. CASE UNCHANGED <<queue, pc>>
    BY <2>1, <2>3 DEF NolintInv
  <2> QED
    BY <2>1, <2>2, <2>3
<1>5. CASE ApplyFilters
  <2>1. pc = "config" /\ pc' \in {"read", "aborted"} /\ UNCHANGED <<env, printed, queue>>
    BY <1>5 DEF ApplyFilters, Exit
  <2> QED
    BY <2>1 DEF NolintInv
<1>6. CASE ReadFile
  <2>1. CASE FinishFile(settings)
    <3>1. pc = "read" /\ UNCHANGED <<env, printed>>
      BY <1>6 DEF ReadFile
    <3> QED
      BY <2>1, <3>1, LeavingKeeps
  <2>2. CASE ~FinishFile(settings)
    <3> DEFINE f == Head(queue)
               t == env.text[f]
               events == ProcessFileData(f, t, settings.line_length, settings.root)
    <3>1. /\ t # Unreadable /\ todo' = events /\ pc = "read" /\ pc' = "lint"
          /\ UNCHANGED <<env, printed, queue>>
      BY <1>6, <2>2 DEF ReadFile, text, file
    <3>2. f \in DOMAIN env.text
      BY <3>1 DEF NolintInv
    <3>3. IsText(t)
      BY <3>1, <3>2, LintSessionAssumption DEF NolintInv
    <3>4. Leads(Events, t, events, {}, {})
      BY <3>3, FileLeads
    <3>5. events \in Seq(Events) /\ Guarded(t, events, Obeyed(t, error_suppressions'))
      <4> HIDE DEF events, t
      <4> QED
        BY <3>4 DEF Leads, Guarded
    <3> HIDE DEF events
    <3> QED
      BY <3>1, <3>3, <3>5 DEF NolintInv
  <2> QED
    BY <2>1, <2>2
<1>7. CASE Lint
  BY <1>7, LintKeeps
<1>8. CASE DoneProcessing
  <2>1. pc = "lint" /\ FinishFile(settings) /\ UNCHANGED <<env, printed>>
    BY <1>8 DEF DoneProcessing
  <2> QED
    BY <2>1, LeavingKeeps
<1>9. CASE Return
  <2>1. pc = "next" /\ pc' \in {"exit_0", "exit_1"} /\ UNCHANGED <<env, printed, queue>>
    BY <1>9 DEF Return, Exit
  <2> QED
    BY <2>1 DEF NolintInv
<1> QED
  BY <1>1, <1>2, <1>3, <1>4, <1>5, <1>6, <1>7, <1>8, <1>9 DEF Next

(* A NOLINT comment, wherever it stands in a file of any length, holds     *)
(* back every error that it covers, as far as the order of the checks in   *)
(* ProcessFileData lets it: the comments a report heeds have been parsed   *)
(* before Error is called.                                                 *)
THEOREM NolintIsObeyed == Spec => []NolintObeyedInOrder
<1>1. NolintInv => NolintObeyedInOrder
  BY DEF NolintInv, NolintObeyedInOrder, Fine
<1> QED
  BY <1>1, NolintInit, NolintStep, PTL DEF Spec

-----------------------------------------------------------------------------
(* Which filter decides                                                    *)

(* The loop of _ShouldPrintError.                                           *)
LEMMA FilterLoop ==
  ASSUME NEW category, Len(settings.filters) \in Nat
  PROVE  \E after :
           /\ after[0] = FALSE
           /\ \A i \in 1..Len(settings.filters) : after[i] = (IF category \in Covers[settings.filters[i].prefix]
                                                 THEN settings.filters[i].sign = "-" ELSE after[i - 1])
           /\ IsFiltered(category) = after[Len(settings.filters)]
<1> DEFINE N == Len(settings.filters)
           base == FALSE
           Step(a, i) == (IF category \in Covers[settings.filters[i].prefix]
                                                 THEN settings.filters[i].sign = "-" ELSE a)
           Run(f, k) == f[0] = base /\ \A i \in 1..k : f[i] = Step(f[i - 1], i)
           Loop(f) == f = [i \in 0..N |-> IF i = 0 THEN base ELSE Step(f[i - 1], i)]
           P == {k \in 0..N : \E f : Run(f, k)}
           loop == CHOOSE f : Loop(f)
<1>1. IsFiltered(category) = loop[N]
  BY DEF IsFiltered
<1>2. N \in Nat
  OBVIOUS
<1> HIDE DEF N, base, Step
<1>3. 0 \in P
  <2>1. Run([i \in 0..0 |-> base], 0)
    OBVIOUS
  <2>2. \E f : Run(f, 0)
    BY <2>1, Zenon
  <2>3. 0 \in 0..N
    BY <1>2
  <2> QED
    BY <2>2, <2>3, Zenon
<1>4. ASSUME NEW k \in 0..(N - 1), k \in P PROVE k + 1 \in P
  <2>1. PICK f : Run(f, k)
    BY <1>4
  <2> DEFINE g == [i \in 0..(k + 1) |-> IF i = k + 1 THEN Step(f[k], k + 1) ELSE f[i]]
  <2>2. k \in Nat /\ k + 1 \in 0..N /\ k + 1 - 1 = k
    BY <1>2
  <2>3. g[0] = base
    BY <2>1, <2>2
  <2>4. ASSUME NEW i \in 1..(k + 1) PROVE g[i] = Step(g[i - 1], i)
    <3>1. CASE i = k + 1
      <4>1. g[i] = Step(f[k], k + 1) /\ g[i - 1] = f[k]
        BY <2>2, <3>1
      <4> QED
        BY <3>1, <4>1
    <3>2. CASE i # k + 1
      <4>1. i \in 1..k /\ g[i] = f[i] /\ g[i - 1] = f[i - 1]
        BY <2>2, <3>2
      <4> QED
        BY <2>1, <4>1
    <3> QED
      BY <3>1, <3>2
  <2>5. Run(g, k + 1)
    BY <2>3, <2>4
  <2>6. \E h : Run(h, k + 1)
    BY <2>5, Zenon
  <2> QED
    BY <2>2, <2>6, Zenon
<1>5. P \in SUBSET (0..N)
  OBVIOUS
<1>6. PICK f : Run(f, N)
  <2> HIDE DEF P
  <2>1. \A k \in 0..N : k \in P
    BY <1>2, <1>3, <1>4, <1>5, NaturalSteps
  <2>2. N \in P
    BY <1>2, <2>1
  <2> QED
    BY <2>2, Zenon DEF P
<1>7. Loop([i \in 0..N |-> f[i]])
  <2> DEFINE g == [i \in 0..N |-> f[i]]
  <2>1. \A i \in 0..N : g[i] = IF i = 0 THEN base ELSE Step(g[i - 1], i)
    <3> TAKE i \in 0..N
    <3>1. CASE i = 0
      BY <1>6, <3>1
    <3>2. CASE i # 0
      <4>1. i \in 1..N /\ g[i] = f[i] /\ g[i - 1] = f[i - 1]
        BY <1>2, <3>2
      <4> QED
        BY <1>6, <3>2, <4>1
    <3> QED
      BY <3>1, <3>2
  <2> QED
    BY <2>1
<1>8. Loop(loop)
  BY <1>7, Zenon
<1>9. loop[0] = base /\ \A i \in 1..N : loop[i] = Step(loop[i - 1], i)
  <2>1. PICK g : g = loop
    OBVIOUS
  <2>2. g = [i \in 0..N |-> IF i = 0 THEN base ELSE Step(g[i - 1], i)]
    BY <1>8, <2>1, Zenon
  <2>3. g[0] = base /\ \A i \in 1..N : g[i] = Step(g[i - 1], i)
    BY <1>2, <2>2
  <2> QED
    BY <2>1, <2>3
<1> HIDE DEF loop
<1> QED
  BY <1>1, <1>9 DEF N, base, Step

(* A filter that takes a category away decides when none that gives it     *)
(* back follows: the last one that covers the category has the last word.  *)
LEMMA FilterDecides ==
  ASSUME NEW category, settings.filters \in Seq(Filters), Valid(settings.filters)
  PROVE  IsFiltered(category) <=> ~Passes(settings.filters, category)
<1> DEFINE filters == settings.filters
           N == Len(filters)
           Covered(i) == category \in Covers[filters[i].prefix]
           Off(k) == \E i \in 1..k : /\ Covered(i) /\ filters[i].sign = "-"
                                     /\ \A j \in (i + 1)..k : ~(Covered(j) /\ filters[j].sign = "+")
<1>1. N \in Nat /\ \A i \in 1..N : filters[i].sign \in {"+", "-"}
  BY DEF Valid
<1>2. PICK after :
        /\ after[0] = FALSE
        /\ \A i \in 1..N : after[i] = (IF Covered(i) THEN filters[i].sign = "-" ELSE after[i - 1])
        /\ IsFiltered(category) = after[N]
  BY <1>1, FilterLoop, Zenon
<1> HIDE DEF N, Covered, filters
<1> DEFINE P == {k \in 0..N : after[k] <=> Off(k)}
<1>3. P \in SUBSET (0..N) /\ 0 \in P
  BY <1>1, <1>2
<1>4. ASSUME NEW k \in 0..(N - 1), k \in P PROVE k + 1 \in P
  <2>1. k + 1 \in 1..N /\ k + 1 \in 0..N /\ k + 1 - 1 = k /\ k \in Nat
    BY <1>1
  <2>2. after[k + 1] = (IF Covered(k + 1) THEN filters[k + 1].sign = "-" ELSE after[k])
    BY <1>2, <2>1
  <2>3. after[k] <=> Off(k)
    BY <1>4
  <2>4. CASE Covered(k + 1) /\ filters[k + 1].sign = "-"
    <3>1. Off(k + 1)
      BY <2>1, <2>4
    <3> QED
      BY <2>1, <2>2, <2>4, <3>1
  <2>5. CASE Covered(k + 1) /\ filters[k + 1].sign = "+"
    <3>1. ~Off(k + 1)
      BY <2>1, <2>5
    <3> QED
      BY <2>1, <2>2, <2>5, <3>1
  <2>6. CASE ~Covered(k + 1)
    <3>1. Off(k + 1) <=> Off(k)
      <4>1. ASSUME Off(k + 1) PROVE Off(k)
        <5>1. PICK i \in 1..(k + 1) : /\ Covered(i) /\ filters[i].sign = "-"
                                     /\ \A j \in (i + 1)..(k + 1) : ~(Covered(j) /\ filters[j].sign = "+")
          BY <4>1
        <5>2. i \in 1..k
          BY <2>1, <2>6, <5>1
        <5> QED
          BY <2>1, <5>1, <5>2
      <4>2. ASSUME Off(k) PROVE Off(k + 1)
        <5>1. PICK i \in 1..k : /\ Covered(i) /\ filters[i].sign = "-"
                                /\ \A j \in (i + 1)..k : ~(Covered(j) /\ filters[j].sign = "+")
          BY <4>2
        <5>2. \A j \in (i + 1)..(k + 1) : j \in (i + 1)..k \/ j = k + 1
          BY <2>1
        <5>3. \A j \in (i + 1)..(k + 1) : ~(Covered(j) /\ filters[j].sign = "+")
          BY <2>6, <5>1, <5>2
        <5> QED
          BY <2>1, <5>1, <5>3
      <4> QED
        BY <4>1, <4>2
    <3> QED
      BY <2>1, <2>2, <2>3, <2>6, <3>1
  <2> QED
    BY <1>1, <2>1, <2>4, <2>5, <2>6
<1> HIDE DEF P
<1>5. \A k \in 0..N : k \in P
  BY <1>1, <1>3, <1>4, NaturalSteps
<1>6. IsFiltered(category) <=> Off(N)
  <2>1. N \in P
    BY <1>1, <1>5
  <2> QED
    BY <1>2, <2>1 DEF P
<1>7. Off(N) <=> ~Passes(filters, category)
  BY DEF Passes, Covered, N
<1> QED
  BY <1>6, <1>7 DEF filters

-----------------------------------------------------------------------------
(* What a climb through the configurations collects                        *)

(* A concatenation with one part more.                                     *)
LEMMA FlattenMore ==
  ASSUME NEW S, NEW N \in Nat, NEW a \in [1..N -> Seq(S)], NEW b \in [1..(N + 1) -> Seq(S)],
         \A i \in 1..N : b[i] = a[i]
  PROVE  FlattenSeq(a) \in Seq(S) /\ FlattenSeq(b) = FlattenSeq(a) \o b[N + 1]
<1>1. PICK f : Rounds(S, a, N, f)
  BY FlattenLoop
<1>2. N + 1 \in Nat
  OBVIOUS
<1>3. PICK g : Rounds(S, b, N + 1, g)
  BY <1>2, FlattenLoop
<1> DEFINE Join(s, x) == s \o x
           P == {k \in 0..N : g[k] = f[k]}
<1>4. /\ f[0] = << >> /\ \A i \in 1..N : f[i] = Join(f[i - 1], a[i])
      /\ g[0] = << >> /\ \A i \in 1..(N + 1) : g[i] = Join(g[i - 1], b[i])
      /\ FlattenSeq(a) = f[N] /\ FlattenSeq(b) = g[N + 1] /\ \A i \in 0..N : f[i] \in Seq(S)
  BY <1>1, <1>3, Zenon DEF Rounds
<1> HIDE DEF Join
<1>5. P \in SUBSET (0..N) /\ 0 \in P
  BY <1>4
<1>6. ASSUME NEW k \in 0..(N - 1), k \in P PROVE k + 1 \in P
  <2>1. k + 1 \in 1..N /\ k + 1 \in 1..(N + 1) /\ k + 1 \in 0..N /\ (k + 1) - 1 = k
    BY ONLY N \in Nat, k \in 0..(N - 1)
  <2>2. f[k + 1] = Join(f[(k + 1) - 1], a[k + 1]) /\ g[k + 1] = Join(g[(k + 1) - 1], b[k + 1])
    BY <1>4, <2>1, Zenon
  <2>3. b[k + 1] = a[k + 1] /\ g[k] = f[k]
    BY <1>6, <2>1
  <2> QED
    BY <2>1, <2>2, <2>3
<1> HIDE DEF P
<1>7. \A k \in 0..N : k \in P
  BY <1>5, <1>6, NaturalSteps
<1>8. g[N] = f[N] /\ f[N] \in Seq(S)
  BY <1>4, <1>7 DEF P
<1>9. N + 1 \in 1..(N + 1) /\ (N + 1) - 1 = N
  OBVIOUS
<1>10. g[N + 1] = Join(g[(N + 1) - 1], b[N + 1])
  BY <1>4, <1>9, Zenon
<1> QED
  BY <1>4, <1>8, <1>9, <1>10 DEF Join

(* A concatenation of sequences is one.                                    *)
LEMMA FlattenType ==
  ASSUME NEW S, NEW N \in Nat, NEW a \in [1..N -> Seq(S)]
  PROVE  FlattenSeq(a) \in Seq(S) /\ (N = 0 => FlattenSeq(a) = << >>)
<1>1. PICK f : Rounds(S, a, N, f)
  BY FlattenLoop
<1>2. (\A i \in 0..N : f[i] \in Seq(S)) /\ f[0] = << >> /\ FlattenSeq(a) = f[N]
  BY <1>1, Zenon DEF Rounds
<1>3. N \in 0..N
  OBVIOUS
<1>4. f[N] \in Seq(S)
  BY <1>2, <1>3, Zenon
<1> QED
  BY <1>2, <1>4

(* A set of positions that is not empty has a last one.                    *)
LEMMA LastPosition ==
  ASSUME NEW N \in Nat, NEW I \in SUBSET (1..N), I # {}
  PROVE  \E i \in I : \A j \in I : j <= i
<1> SUFFICES ASSUME \A i \in I : \E j \in I : i < j PROVE FALSE
  OBVIOUS
<1> DEFINE P == {k \in 0..N : \E j \in I : k < j \/ k = j}
<1>1. P \in SUBSET (0..N) /\ 0 \in P
  <2>1. PICK j \in I : TRUE
    OBVIOUS
  <2>2. 0 < j /\ 0 \in 0..N
    BY <2>1
  <2> QED
    BY <2>2
<1>2. ASSUME NEW k \in 0..(N - 1), k \in P PROVE k + 1 \in P
  <2>1. PICK j \in I : k < j
    BY <1>2
  <2> QED
    BY <2>1
<1> HIDE DEF P
<1>3. \A k \in 0..N : k \in P
  BY <1>1, <1>2, NaturalSteps
<1>4. N \in P
  BY <1>3
<1>5. PICK j \in I : N < j \/ N = j
  BY <1>4 DEF P
<1>6. PICK l \in I : j < l
  OBVIOUS
<1> QED
  BY <1>5, <1>6

(* The filters of a command line.                                          *)
LEMMA GivenFilters ==
  ASSUME env \in Environments
  PROVE  Given.filters \in Seq(Filters)
<1> DEFINE options == env.options
           N == Len(options)
           given == {i \in 1..N : options[i].name = "filter"}
<1>1. /\ N \in Nat /\ \A i \in 1..N : options[i].name = "filter" => options[i].val \in Seq(Filters)
      /\ DefaultFilters \in Seq(Filters)
  BY LintSessionAssumption DEF IsOptions
<1>2. LastGiven(options, "filter", << >>) \in Seq(Filters)
  <2>1. CASE given = {}
    <3>1. LastGiven(options, "filter", << >>) = << >>
      BY <2>1 DEF LastGiven
    <3>2. << >> \in Seq(Filters)
      OBVIOUS
    <3> QED
      BY <3>1, <3>2, Zenon
  <2>2. CASE given # {}
    <3> DEFINE last == CHOOSE i \in given : \A j \in given : j <= i
    <3>1. given \in SUBSET (1..N)
      OBVIOUS
    <3>2. \E i \in given : \A j \in given : j <= i
      <4> HIDE DEF given, N
      <4> QED
        BY <1>1, <2>2, <3>1, LastPosition
    <3>3. last \in given
      <4> HIDE DEF given
      <4> QED
        BY <3>2
    <3>4. LastGiven(options, "filter", << >>) = options[last].val
      BY <2>2 DEF LastGiven
    <3> HIDE DEF last
    <3> QED
      BY <1>1, <3>3, <3>4
  <2> QED
    BY <2>1, <2>2
<1>3. Given.filters = DefaultFilters \o LastGiven(options, "filter", << >>)
  BY DEF Given, Settings
<1> QED
  BY <1>1, <1>2, <1>3

(* What the rounds of ProcessConfigOverrides start from.                   *)
BeforeConfig ==
  [keep_looking |-> TRUE, excluded |-> FALSE, filters |-> cfg_filters,
   line_length |-> settings.line_length, root |-> settings.root]

ConfigFields == {"keep_looking", "excluded", "filters", "line_length", "root"}

(* The loop over the lines of one CPPLINT.cfg.                             *)
LEMMA ConfigLoop ==
  ASSUME NEW dir, NEW base_name, NEW cfg, cfg # Missing, cfg # Unreadable, Len(cfg) \in Nat
  PROVE  \E after :
           /\ after[0] = BeforeConfig
           /\ \A i \in 1..Len(cfg) : after[i] = ConfigLine(base_name, after[i - 1], cfg[i])
           /\ ReadConfig(dir, base_name, cfg) = after[Len(cfg)]
<1> DEFINE N == Len(cfg)
           base == BeforeConfig
           Step(a, i) == ConfigLine(base_name, a, cfg[i])
           Run(f, k) == f[0] = base /\ \A i \in 1..k : f[i] = Step(f[i - 1], i)
           Loop(f) == f = [i \in 0..N |-> IF i = 0 THEN base ELSE Step(f[i - 1], i)]
           P == {k \in 0..N : \E f : Run(f, k)}
           loop == CHOOSE f : Loop(f)
<1>1. ReadConfig(dir, base_name, cfg) = loop[N]
  BY DEF ReadConfig, BeforeConfig
<1>2. N \in Nat
  OBVIOUS
<1> HIDE DEF N, base, Step
<1>3. 0 \in P
  <2>1. Run([i \in 0..0 |-> base], 0)
    OBVIOUS
  <2>2. \E f : Run(f, 0)
    BY <2>1, Zenon
  <2>3. 0 \in 0..N
    BY <1>2
  <2> QED
    BY <2>2, <2>3, Zenon
<1>4. ASSUME NEW k \in 0..(N - 1), k \in P PROVE k + 1 \in P
  <2>1. PICK f : Run(f, k)
    BY <1>4
  <2> DEFINE g == [i \in 0..(k + 1) |-> IF i = k + 1 THEN Step(f[k], k + 1) ELSE f[i]]
  <2>2. k \in Nat /\ k + 1 \in 0..N /\ k + 1 - 1 = k
    BY <1>2
  <2>3. g[0] = base
    BY <2>1, <2>2
  <2>4. ASSUME NEW i \in 1..(k + 1) PROVE g[i] = Step(g[i - 1], i)
    <3>1. CASE i = k + 1
      <4>1. g[i] = Step(f[k], k + 1) /\ g[i - 1] = f[k]
        BY <2>2, <3>1
      <4> QED
        BY <3>1, <4>1
    <3>2. CASE i # k + 1
      <4>1. i \in 1..k /\ g[i] = f[i] /\ g[i - 1] = f[i - 1]
        BY <2>2, <3>2
      <4> QED
        BY <2>1, <4>1
    <3> QED
      BY <3>1, <3>2
  <2>5. Run(g, k + 1)
    BY <2>3, <2>4
  <2>6. \E h : Run(h, k + 1)
    BY <2>5, Zenon
  <2> QED
    BY <2>2, <2>6, Zenon
<1>5. P \in SUBSET (0..N)
  OBVIOUS
<1>6. PICK f : Run(f, N)
  <2> HIDE DEF P
  <2>1. \A k \in 0..N : k \in P
    BY <1>2, <1>3, <1>4, <1>5, NaturalSteps
  <2>2. N \in P
    BY <1>2, <2>1
  <2> QED
    BY <2>2, Zenon DEF P
<1>7. Loop([i \in 0..N |-> f[i]])
  <2> DEFINE g == [i \in 0..N |-> f[i]]
  <2>1. \A i \in 0..N : g[i] = IF i = 0 THEN base ELSE Step(g[i - 1], i)
    <3> TAKE i \in 0..N
    <3>1. CASE i = 0
      BY <1>6, <3>1
    <3>2. CASE i # 0
      <4>1. i \in 1..N /\ g[i] = f[i] /\ g[i - 1] = f[i - 1]
        BY <1>2, <3>2
      <4> QED
        BY <1>6, <3>2, <4>1
    <3> QED
      BY <3>1, <3>2
  <2> QED
    BY <2>1
<1>8. Loop(loop)
  BY <1>7, Zenon
<1>9. loop[0] = base /\ \A i \in 1..N : loop[i] = Step(loop[i - 1], i)
  <2>1. PICK g : g = loop
    OBVIOUS
  <2>2. g = [i \in 0..N |-> IF i = 0 THEN base ELSE Step(g[i - 1], i)]
    BY <1>8, <2>1, Zenon
  <2>3. g[0] = base /\ \A i \in 1..N : g[i] = Step(g[i - 1], i)
    BY <1>2, <2>2
  <2> QED
    BY <2>1, <2>3
<1> HIDE DEF loop
<1> QED
  BY <1>1, <1>9 DEF N, base, Step

(* What is after one line.                                                 *)
LineDoes(base_name, option, a, b) ==
  /\ DOMAIN b = ConfigFields /\ b.line_length = a.line_length /\ b.root = a.root
  /\ b.excluded <=> (option.name = "exclude_files" /\ base_name \in option.val)
  /\ option.name = "noparent" => b.keep_looking = FALSE
  /\ option.name # "noparent" => b.keep_looking = a.keep_looking
  /\ option.name = "filter" => b.filters = Append(a.filters, option.val)
  /\ option.name # "filter" => b.filters = a.filters

(* One line.                                                               *)
LEMMA ConfigLineDoes ==
  ASSUME NEW base_name, NEW option, NEW a, DOMAIN a = ConfigFields, ~a.excluded,
         option.name \notin {"linelength", "root"}, NEW b, b = ConfigLine(base_name, a, option)
  PROVE  LineDoes(base_name, option, a, b)
<1> USE DEF LineDoes
<1>1. CASE option.name = "noparent"
  <2>1. b = [a EXCEPT !.keep_looking = FALSE]
    BY <1>1 DEF ConfigLine
  <2>2. /\ DOMAIN b = ConfigFields /\ b.line_length = a.line_length /\ b.root = a.root
        /\ b.filters = a.filters /\ b.excluded = a.excluded /\ b.keep_looking = FALSE
    BY <2>1 DEF ConfigFields
  <2> QED
    BY <1>1, <2>2
<1>2. CASE option.name = "filter"
  <2>1. b = [a EXCEPT !.filters = Append(@, option.val)]
    BY <1>2 DEF ConfigLine
  <2>2. /\ DOMAIN b = ConfigFields /\ b.line_length = a.line_length /\ b.root = a.root
        /\ b.filters = Append(a.filters, option.val) /\ b.excluded = a.excluded
        /\ b.keep_looking = a.keep_looking
    BY <2>1 DEF ConfigFields
  <2> QED
    BY <1>2, <2>2
<1>3. CASE option.name = "exclude_files"
  <2>1. b = [a EXCEPT !.excluded = base_name \in option.val]
    BY <1>3 DEF ConfigLine
  <2>2. /\ DOMAIN b = ConfigFields /\ b.line_length = a.line_length /\ b.root = a.root
        /\ b.filters = a.filters /\ b.excluded = (base_name \in option.val)
        /\ b.keep_looking = a.keep_looking
    BY <2>1 DEF ConfigFields
  <2> QED
    BY <1>3, <2>2
<1>4. CASE option.name \notin {"noparent", "filter", "exclude_files"}
  <2>1. b = a
    BY <1>4 DEF ConfigLine
  <2> QED
    BY <1>4, <2>1
<1> QED
  BY <1>1, <1>2, <1>3, <1>4

(* What is left of one CPPLINT.cfg that sets no line length and no root.   *)
ReadsAs(r, base_name, cfg) ==
  /\ r.line_length = settings.line_length /\ r.root = settings.root
  /\ r.excluded <=> \E i \in Options(cfg, "exclude_files") : base_name \in cfg[i].val
  /\ ~r.excluded =>
       /\ r.keep_looking <=> ~(cfg = Unreadable \/ Options(cfg, "noparent") # {})
       /\ r.filters = cfg_filters \o FilterOptions(cfg)

(* Appending one by one or all at the end.                                 *)
LEMMA AppendLater ==
  ASSUME NEW S, NEW a \in Seq(S), NEW b \in Seq(S), NEW x \in S
  PROVE  /\ Append(a \o b, x) = a \o (b \o << x >>)
         /\ b \o << >> = b
<1>1. << x >> \in Seq(S) /\ Len(<< x >>) = 1 /\ << x >>[1] = x
  OBVIOUS
<1>2. PICK c : c = b \o << x >>
  OBVIOUS
<1>3. /\ c \in Seq(S) /\ Len(c) = Len(b) + 1 /\ c[Len(b) + 1] = x
      /\ \A i \in 1..Len(b) : c[i] = b[i]
  <2>1. 1 \in 1..Len(<< x >>)
    BY <1>1
  <2> QED
    BY <1>1, <1>2, <2>1, Concatenated
<1>4. PICK d : d = a \o b
  OBVIOUS
<1>5. /\ d \in Seq(S) /\ Len(d) = Len(a) + Len(b) /\ Len(a) \in Nat /\ Len(b) \in Nat
      /\ \A i \in 1..Len(a) : d[i] = a[i]
      /\ \A i \in 1..Len(b) : d[Len(a) + i] = b[i]
  BY <1>4, Concatenated
<1>6. PICK e : e = a \o c
  OBVIOUS
<1>7. /\ e \in Seq(S) /\ Len(e) = Len(a) + Len(c)
      /\ \A i \in 1..Len(a) : e[i] = a[i]
      /\ \A i \in 1..Len(c) : e[Len(a) + i] = c[i]
  <2>1. c \in Seq(S)
    BY <1>3
  <2> QED
    BY ONLY a \in Seq(S), <2>1, <1>6, Concatenated
<1>8. PICK g : g = Append(d, x)
  OBVIOUS
<1>9. /\ g \in Seq(S) /\ Len(g) = Len(d) + 1 /\ g[Len(d) + 1] = x
      /\ \A i \in 1..Len(d) : g[i] = d[i]
  BY <1>5, <1>8
<1>10. ASSUME NEW i \in 1..Len(g) PROVE g[i] = e[i]
  <2>1. CASE i <= Len(a)
    <3>1. i \in 1..Len(a) /\ i \in 1..Len(d)
      BY <1>5, <2>1
    <3> QED
      BY <1>5, <1>7, <1>9, <3>1
  <2>2. CASE ~(i <= Len(a)) /\ i <= Len(d)
    <3>1. i - Len(a) \in 1..Len(b) /\ i - Len(a) \in 1..Len(c) /\ Len(a) + (i - Len(a)) = i /\ i \in 1..Len(d)
      BY <1>3, <1>5, <1>9, <2>2
    <3> QED
      BY <1>3, <1>5, <1>7, <1>9, <3>1
  <2>3. CASE ~(i <= Len(d))
    <3>1. i = Len(d) + 1 /\ Len(a) + (Len(b) + 1) = i /\ Len(b) + 1 \in 1..Len(c)
      <4>1. /\ Len(a) \in Nat /\ Len(b) \in Nat /\ Len(d) = Len(a) + Len(b) /\ Len(g) = Len(d) + 1
            /\ Len(c) = Len(b) + 1
        BY <1>3, <1>5, <1>9
      <4> QED
        BY ONLY <2>3, <4>1, i \in 1..Len(g)
    <3> QED
      BY <1>3, <1>7, <1>9, <3>1
  <2> QED
    BY <2>1, <2>2, <2>3, <1>5, <1>9
<1>11. Len(g) = Len(e)
  BY <1>3, <1>5, <1>7, <1>9
<1>12. g = e
  BY <1>7, <1>9, <1>10, <1>11, SeqEqual
<1>13. b \o << >> = b
  OBVIOUS
<1> QED
  BY <1>2, <1>4, <1>6, <1>8, <1>12, <1>13

(* The filter lines of a configuration are lists of filters.               *)
LEMMA FilterOptionsType ==
  ASSUME NEW cfg, cfg \in {Missing, Unreadable} \/ IsOptions(cfg)
  PROVE  FilterOptions(cfg) \in Seq(Seq(Filters))
<1>1. CASE cfg \in {Missing, Unreadable}
  BY <1>1 DEF FilterOptions
<1>2. CASE cfg \notin {Missing, Unreadable}
  <2> DEFINE N == Len(cfg)
             S == Seq(Filters)
             seqs == [i \in 1..N |-> When(cfg[i].name = "filter", << cfg[i].val >>)]
  <2>1. N \in Nat /\ \A i \in 1..N : cfg[i].name = "filter" => cfg[i].val \in S
    BY <1>2 DEF IsOptions
  <2>2. seqs \in [1..N -> Seq(S)]
    <3>1. ASSUME NEW i \in 1..N PROVE When(cfg[i].name = "filter", << cfg[i].val >>) \in Seq(S)
      <4>1. CASE cfg[i].name = "filter"
        <5>1. cfg[i].val \in S
          BY <2>1, <4>1
        <5> HIDE DEF S
        <5> QED
          BY <4>1, <5>1 DEF When
      <4>2. CASE cfg[i].name # "filter"
        BY <4>2 DEF When
      <4> QED
        BY <4>1, <4>2
    <3> QED
      BY <3>1
  <2>3. FilterOptions(cfg) = FlattenSeq(seqs)
    BY <1>2 DEF FilterOptions
  <2> HIDE DEF seqs, S
  <2>4. FlattenSeq(seqs) \in Seq(S)
    BY <2>1, <2>2, FlattenType
  <2> QED
    BY <2>3, <2>4 DEF S
<1> QED
  BY <1>1, <1>2

(* One CPPLINT.cfg in a closed form: unless one of its patterns excludes   *)
(* the file, all its filter lines count, and it stops the climb if it says *)
(* so anywhere.                                                            *)
LEMMA ConfigMeans ==
  ASSUME NEW dir, NEW base_name, NEW cfg, cfg \in {Missing, Unreadable} \/ IsOptions(cfg),
         Options(cfg, "linelength") = {}, Options(cfg, "root") = {},
         cfg_filters \in Seq(Seq(Filters))
  PROVE  ReadsAs(ReadConfig(dir, base_name, cfg), base_name, cfg)
<1>0. PICK r : r = ReadConfig(dir, base_name, cfg)
  OBVIOUS
<1>1. CASE cfg = Missing
  <2>1. Missing # Unreadable
    BY LintSessionAssumption
  <2>2. Options(cfg, "exclude_files") = {} /\ Options(cfg, "noparent") = {} /\ FilterOptions(cfg) = << >>
    BY <1>1 DEF Options, FilterOptions
  <2>3. r = BeforeConfig
    BY <1>0, <1>1 DEF ReadConfig, BeforeConfig
  <2>4. /\ r.line_length = settings.line_length /\ r.root = settings.root
        /\ r.filters = cfg_filters /\ ~r.excluded /\ r.keep_looking
    BY <2>3 DEF BeforeConfig
  <2>5. cfg_filters \o << >> = cfg_filters
    OBVIOUS
  <2> QED
    BY <1>0, <1>1, <2>1, <2>2, <2>4, <2>5 DEF ReadsAs
<1>2. CASE cfg = Unreadable
  <2>1. Missing # Unreadable
    BY LintSessionAssumption
  <2>2. Options(cfg, "exclude_files") = {} /\ FilterOptions(cfg) = << >>
    BY <1>2 DEF Options, FilterOptions
  <2>3. r = [BeforeConfig EXCEPT !.keep_looking = FALSE]
    BY <1>0, <1>2, <2>1 DEF ReadConfig, BeforeConfig
  <2>4. /\ r.line_length = settings.line_length /\ r.root = settings.root
        /\ r.filters = cfg_filters /\ ~r.excluded /\ ~r.keep_looking
    BY <2>3 DEF BeforeConfig
  <2>5. cfg_filters \o << >> = cfg_filters
    OBVIOUS
  <2> QED
    BY <1>0, <1>2, <2>2, <2>4, <2>5 DEF ReadsAs
<1>3. CASE cfg \notin {Missing, Unreadable}
  <2> DEFINE N == Len(cfg)
             S == Seq(Filters)
             seqs == [i \in 1..N |-> When(cfg[i].name = "filter", << cfg[i].val >>)]
             Join(j) == cfg_filters \o j
             Found2(k) == \E i \in 1..k : cfg[i].name = "exclude_files" /\ base_name \in cfg[i].val
             Last2(k) == \E i \in 1..k : cfg[i].name = "noparent"
  <2>1. /\ N \in Nat /\ \A i \in 1..N : cfg[i].name = "filter" => cfg[i].val \in S
        /\ \A i \in 1..N : cfg[i].name \notin {"linelength", "root"}
    BY <1>3 DEF IsOptions, Options
  <2>2. seqs \in [1..N -> Seq(S)]
    <3>1. ASSUME NEW i \in 1..N PROVE When(cfg[i].name = "filter", << cfg[i].val >>) \in Seq(S)
      <4>1. CASE cfg[i].name = "filter"
        <5>1. cfg[i].val \in S
          BY <2>1, <4>1
        <5> HIDE DEF S
        <5> QED
          BY <4>1, <5>1 DEF When
      <4>2. CASE cfg[i].name # "filter"
        BY <4>2 DEF When
      <4> QED
        BY <4>1, <4>2
    <3> QED
      BY <3>1
  <2> HIDE DEF seqs, S
  <2>3. PICK joined : Rounds(S, seqs, N, joined)
    BY <2>1, <2>2, FlattenLoop
  <2>4. /\ joined[0] = << >> /\ \A i \in 1..N : joined[i] = joined[i - 1] \o seqs[i]
        /\ FlattenSeq(seqs) = joined[N] /\ \A i \in 0..N : joined[i] \in Seq(S)
    BY <2>3, Zenon DEF Rounds
  <2>5. FilterOptions(cfg) = joined[N]
    BY <1>3, <2>4 DEF FilterOptions, seqs
  <2>6. PICK after :
          /\ after[0] = BeforeConfig
          /\ \A i \in 1..N : after[i] = ConfigLine(base_name, after[i - 1], cfg[i])
          /\ r = after[N]
    <3>1. cfg # Missing /\ cfg # Unreadable /\ Len(cfg) \in Nat
      BY <1>3, <2>1
    <3>2. \E after :
            /\ after[0] = BeforeConfig
            /\ \A i \in 1..Len(cfg) : after[i] = ConfigLine(base_name, after[i - 1], cfg[i])
            /\ ReadConfig(dir, base_name, cfg) = after[Len(cfg)]
      BY ONLY <3>1, ConfigLoop
    <3> QED
      BY <1>0, <3>2, Zenon
  <2> DEFINE Reached(k) ==
               /\ DOMAIN after[k] = ConfigFields
               /\ after[k].line_length = settings.line_length /\ after[k].root = settings.root
               /\ after[k].excluded <=> Found2(k)
               /\ ~after[k].excluded => (after[k].keep_looking <=> ~Last2(k))
               /\ ~after[k].excluded => after[k].filters = Join(joined[k])
             P == {k \in 0..N : Reached(k)}
  <2>7. P \in SUBSET (0..N)
    OBVIOUS
  <2>8. 0 \in P
    <3>1. /\ DOMAIN BeforeConfig = ConfigFields
          /\ BeforeConfig.line_length = settings.line_length /\ BeforeConfig.root = settings.root
          /\ ~BeforeConfig.excluded /\ BeforeConfig.keep_looking /\ BeforeConfig.filters = cfg_filters
      BY DEF BeforeConfig, ConfigFields
    <3>2. Join(joined[0]) = cfg_filters
      BY <2>4 DEF S
    <3>3. 0 \in 0..N /\ ~Found2(0) /\ ~Last2(0)
      BY <2>1
    <3> HIDE DEF Join
    <3> QED
      BY <2>6, <3>1, <3>2, <3>3
  <2>9. ASSUME NEW k \in 0..(N - 1), k \in P PROVE k + 1 \in P
    <3>1. k + 1 \in 1..N /\ k + 1 \in 0..N /\ (k + 1) - 1 = k /\ k \in Nat
      BY <2>1
    <3>2. Reached(k)
      BY <2>9
    <3> PICK x, y, option : x = after[k] /\ y = after[k + 1] /\ option = cfg[k + 1]
      OBVIOUS
    <3>3. y = ConfigLine(base_name, x, option)
      BY <2>6, <3>1
    <3>4. option.name \notin {"linelength", "root"} /\ (option.name = "filter" => option.val \in S)
      BY <2>1, <3>1
    <3>5. CASE x.excluded
      <4>1. y = x
        BY <3>3, <3>5 DEF ConfigLine
      <4>2. Found2(k + 1)
        <5>1. Found2(k)
          BY <3>2, <3>5
        <5> QED
          BY <3>1, <5>1
      <4> HIDE DEF Join, Found2, Last2
      <4> QED
        BY <3>1, <3>2, <3>5, <4>1, <4>2
    <3>6. CASE ~x.excluded
      <4>1. /\ DOMAIN x = ConfigFields /\ x.line_length = settings.line_length /\ x.root = settings.root
            /\ ~Found2(k) /\ (x.keep_looking <=> ~Last2(k)) /\ x.filters = Join(joined[k])
        BY <3>2, <3>6
      <4>2. /\ DOMAIN y = ConfigFields /\ y.line_length = x.line_length /\ y.root = x.root
            /\ y.excluded <=> (option.name = "exclude_files" /\ base_name \in option.val)
            /\ option.name = "noparent" => y.keep_looking = FALSE
            /\ option.name # "noparent" => y.keep_looking = x.keep_looking
            /\ option.name = "filter" => y.filters = Append(x.filters, option.val)
            /\ option.name # "filter" => y.filters = x.filters
        <5>1. DOMAIN x = ConfigFields /\ option.name \notin {"linelength", "root"}
          BY <3>4, <4>1
        <5>2. LineDoes(base_name, option, x, y)
          BY ONLY <5>1, <3>3, <3>6, ConfigLineDoes
        <5> QED
          BY <5>2, Zenon DEF LineDoes
      <4>3. Found2(k + 1) <=> (option.name = "exclude_files" /\ base_name \in option.val)
        <5>1. \A i \in 1..(k + 1) : i \in 1..k \/ i = k + 1
          BY <3>1
        <5>2. k + 1 \in 1..(k + 1)
          BY <3>1
        <5> QED
          BY <4>1, <5>1, <5>2
      <4>4. Last2(k + 1) <=> (Last2(k) \/ option.name = "noparent")
        <5>1. \A i \in 1..(k + 1) : i \in 1..k \/ i = k + 1
          BY <3>1
        <5>2. k + 1 \in 1..(k + 1) /\ \A i \in 1..k : i \in 1..(k + 1)
          BY <3>1
        <5> QED
          BY <5>1, <5>2
      <4>5. y.filters = Join(joined[k + 1])
        <5>1. joined[k + 1] = joined[k] \o seqs[k + 1] /\ joined[k] \in Seq(S)
          <6>1. joined[k + 1] = joined[(k + 1) - 1] \o seqs[k + 1]
            BY <2>4, <3>1, Zenon
          <6>2. (k + 1) - 1 = k /\ k \in 0..N
            BY <3>1
          <6>3. joined[k] \in Seq(S)
            BY <2>4, <6>2, Zenon
          <6> QED
            BY <6>1, <6>2, <6>3, Zenon
        <5>2. cfg_filters \in Seq(S)
          BY DEF S
        <5>3. CASE option.name = "filter"
          <6>1. seqs[k + 1] = << option.val >>
            BY <3>1, <5>3 DEF seqs, When
          <6>2. Append(cfg_filters \o joined[k], option.val) = cfg_filters \o (joined[k] \o << option.val >>)
            <7>1. option.val \in S /\ joined[k] \in Seq(S)
              BY <3>4, <5>1, <5>3
            <7>2. PICK c, j, z : c = cfg_filters /\ j = joined[k] /\ z = option.val
              OBVIOUS
            <7>3. c \in Seq(S) /\ j \in Seq(S) /\ z \in S
              BY <5>2, <7>1, <7>2
            <7>4. Append(c \o j, z) = c \o (j \o << z >>)
              BY ONLY <7>3, AppendLater
            <7> QED
              BY <7>2, <7>4, Zenon
          <6>3. y.filters = Append(cfg_filters \o joined[k], option.val)
            BY <4>1, <4>2, <5>3, Zenon
          <6> QED
            BY <5>1, <6>1, <6>2, <6>3, Zenon
        <5>4. CASE option.name # "filter"
          <6>1. seqs[k + 1] = << >>
            BY <3>1, <5>4 DEF seqs, When
          <6>2. joined[k] \o << >> = joined[k]
            BY <5>1
          <6>3. y.filters = Join(joined[k])
            BY <4>1, <4>2, <5>4, Zenon
          <6> QED
            BY <5>1, <6>1, <6>2, <6>3, Zenon
        <5> QED
          BY <5>3, <5>4
      <4> HIDE DEF Join, Found2, Last2
      <4> QED
        BY <3>1, <4>1, <4>2, <4>3, <4>4, <4>5
    <3> QED
      BY <3>5, <3>6
  <2> HIDE DEF P
  <2>10. \A k \in 0..N : k \in P
    BY <2>1, <2>7, <2>8, <2>9, NaturalSteps
  <2>11. Reached(N)
    <3>1. N \in P
      BY <2>1, <2>10
    <3> QED
      BY <3>1 DEF P
  <2>12. Found2(N) <=> \E i \in Options(cfg, "exclude_files") : base_name \in cfg[i].val
    BY <1>3 DEF Options
  <2>13. Last2(N) <=> (cfg = Unreadable \/ Options(cfg, "noparent") # {})
    BY <1>3 DEF Options
  <2> HIDE DEF Found2, Last2
  <2> QED
    BY <1>0, <2>5, <2>6, <2>11, <2>12, <2>13 DEF ReadsAs
<1> QED
  BY <1>1, <1>2, <1>3

(* What the climb for a file has found in its first d directories.         *)
Climbed(f, d, filters) ==
  /\ d \in 0..Len(Path[f])
  /\ filters = FilterLines(f, d)
  /\ \A l \in 1..d : ~Excludes(f, l)
  /\ \A l \in 1..(d - 1) : ~Ends(f, l)

(* The configurations above a file.                                        *)
LEMMA ConfigsAbove ==
  ASSUME env \in Environments, NEW f \in DOMAIN env.text
  PROVE  /\ Len(Path[f]) \in Nat
         /\ \A l \in 1..Len(Path[f]) :
              /\ Path[f][l].dir \in DOMAIN env.config
              /\ Config(f, l) \in {Missing, Unreadable} \/ IsOptions(Config(f, l))
<1>1. /\ Path[f] \in Seq(ToSet(Path[f]))
      /\ \A l \in 1..Len(Path[f]) : Path[f][l].dir \in DOMAIN env.config
      /\ \A d \in DOMAIN env.config : env.config[d] \in {Missing, Unreadable} \/ IsOptions(env.config[d])
  BY LintSessionAssumption
<1> QED
  BY <1>1 DEF Config

(* The filter lines of one directory more.                                 *)
LEMMA FilterLinesGrow ==
  ASSUME env \in Environments, NEW f \in DOMAIN env.text, NEW d \in 0..Len(Path[f])
  PROVE  /\ FilterLines(f, d) \in Seq(Seq(Filters))
         /\ d < Len(Path[f]) =>
              FilterLines(f, d + 1) = FilterLines(f, d) \o FilterOptions(Config(f, d + 1))
<1> DEFINE S == Seq(Filters)
           lines(n) == [l \in 1..n |-> FilterOptions(Config(f, l))]
<1>1. Len(Path[f]) \in Nat /\ \A l \in 1..Len(Path[f]) : FilterOptions(Config(f, l)) \in Seq(S)
  BY ConfigsAbove, FilterOptionsType
<1>2. d \in Nat /\ \A n : FilterLines(f, n) = FlattenSeq(lines(n))
  BY <1>1 DEF FilterLines
<1>3. lines(d) \in [1..d -> Seq(S)]
  BY <1>1
<1>4. d < Len(Path[f]) =>
        /\ d + 1 \in 1..(d + 1) /\ lines(d + 1) \in [1..(d + 1) -> Seq(S)]
        /\ \A i \in 1..d : lines(d + 1)[i] = lines(d)[i]
        /\ lines(d + 1)[d + 1] = FilterOptions(Config(f, d + 1))
  BY <1>1
<1> HIDE DEF lines, S
<1>5. FlattenSeq(lines(d)) \in Seq(S)
  BY <1>2, <1>3, FlattenType
<1>6. d < Len(Path[f]) => FlattenSeq(lines(d + 1)) = FlattenSeq(lines(d)) \o lines(d + 1)[d + 1]
  <2> HAVE d < Len(Path[f])
  <2>1. PICK a, b : a = lines(d) /\ b = lines(d + 1)
    OBVIOUS
  <2>2. /\ a \in [1..d -> Seq(S)] /\ b \in [1..(d + 1) -> Seq(S)]
        /\ \A i \in 1..d : b[i] = a[i]
    BY <1>3, <1>4, <2>1
  <2>3. FlattenSeq(b) = FlattenSeq(a) \o b[d + 1]
    BY ONLY d \in Nat, <1>2, <2>2, FlattenMore
  <2> QED
    BY <2>1, <2>3
<1> QED
  BY <1>2, <1>4, <1>5, <1>6 DEF S

(* One round of the climb.                                                 *)
LEMMA ClimbOne ==
  ASSUME env \in Environments, OnlyFilters, NEW f \in DOMAIN env.text, NEW n \in 1..Len(Path[f]),
         Climbed(f, n - 1, cfg_filters), n - 1 > 0 => ~Ends(f, n - 1),
         NEW r, r = ReadConfig(Path[f][n].dir, Path[f][n].base, env.config[Path[f][n].dir])
  PROVE  /\ r.line_length = settings.line_length /\ r.root = settings.root
         /\ r.excluded => Excluded(f)
         /\ ~r.excluded => Climbed(f, n, r.filters) /\ (r.keep_looking <=> ~Ends(f, n))
<1> DEFINE cfg == Config(f, n)
<1>1. /\ Len(Path[f]) \in Nat /\ Path[f][n].dir \in DOMAIN env.config
      /\ cfg \in {Missing, Unreadable} \/ IsOptions(cfg)
      /\ cfg = env.config[Path[f][n].dir]
  BY ConfigsAbove DEF Config
<1>2. Options(cfg, "linelength") = {} /\ Options(cfg, "root") = {}
  BY <1>1 DEF OnlyFilters
<1>3. n \in Nat /\ n - 1 \in 0..Len(Path[f]) /\ n - 1 < Len(Path[f]) /\ (n - 1) + 1 = n
      /\ n \in 0..Len(Path[f])
  BY <1>1
<1>4. cfg_filters = FilterLines(f, n - 1)
  BY DEF Climbed
<1>5. cfg_filters \in Seq(Seq(Filters))
  BY <1>3, <1>4, FilterLinesGrow
<1>6. FilterLines(f, n) = cfg_filters \o FilterOptions(cfg)
  <2>1. FilterLines(f, (n - 1) + 1) = FilterLines(f, n - 1) \o FilterOptions(Config(f, (n - 1) + 1))
    BY <1>3, FilterLinesGrow
  <2> QED
    BY <1>3, <1>4, <2>1
<1>7. r = ReadConfig(Path[f][n].dir, Path[f][n].base, cfg)
  BY <1>1
<1> HIDE DEF cfg
<1>8. ReadsAs(r, Path[f][n].base, cfg)
  BY <1>1, <1>2, <1>5, <1>7, ConfigMeans
<1>9. /\ r.line_length = settings.line_length /\ r.root = settings.root
      /\ r.excluded <=> \E i \in Options(cfg, "exclude_files") : Path[f][n].base \in cfg[i].val
      /\ ~r.excluded =>
           /\ r.keep_looking <=> ~(cfg = Unreadable \/ Options(cfg, "noparent") # {})
           /\ r.filters = cfg_filters \o FilterOptions(cfg)
  BY ONLY <1>8, Zenon DEF ReadsAs
<1>10. r.excluded <=> Excludes(f, n)
  BY ONLY <1>9 DEF Excludes, cfg
<1>11. ~r.excluded => (r.keep_looking <=> ~Ends(f, n)) /\ r.filters = FilterLines(f, n)
  BY ONLY <1>6, <1>9 DEF Ends, cfg
<1>12. \A l \in 1..(n - 1) : ~Ends(f, l) /\ ~Excludes(f, l)
  <2> TAKE l \in 1..(n - 1)
  <2>1. CASE l = n - 1
    BY <1>3, <2>1 DEF Climbed
  <2>2. CASE l # n - 1
    <3>1. l \in 1..((n - 1) - 1)
      BY <1>3, <2>2
    <3> QED
      BY <3>1 DEF Climbed
  <2> QED
    BY <2>1, <2>2
<1>13. n \in Scope(f)
  BY <1>12 DEF Scope
<1>14. r.excluded => Excluded(f)
  BY <1>10, <1>13 DEF Excluded
<1>15. ~r.excluded => Climbed(f, n, r.filters)
  <2>0. HAVE ~r.excluded
  <2>1. \A l \in 1..n : ~Excludes(f, l)
    <3>1. \A l \in 1..n : l \in 1..(n - 1) \/ l = n
      BY <1>3
    <3> QED
      BY ONLY <1>10, <1>12, <3>1, ~r.excluded
  <2> QED
    BY ONLY <1>3, <1>11, <1>12, <2>1, ~r.excluded DEF Climbed
<1> QED
  BY ONLY <1>9, <1>11, <1>14, <1>15

(* Where the climb ends, the file is not excluded and the filters are the  *)
(* promised ones.                                                          *)
LEMMA ClimbEnds ==
  ASSUME env \in Environments, NEW f \in DOMAIN env.text, NEW d, NEW lines, Climbed(f, d, lines),
         d = Len(Path[f]) \/ (d > 0 /\ Ends(f, d))
  PROVE  /\ ~Excluded(f)
         /\ PromisedFilters(f) = Given.filters \o Overrides(lines)
         /\ PromisedFilters(f) \in Seq(Filters)
<1>1. /\ d \in Nat /\ d \in 0..Len(Path[f]) /\ Len(Path[f]) \in Nat
      /\ \A l \in 1..(d - 1) : ~Ends(f, l)
      /\ \A l \in 1..d : ~Excludes(f, l)
      /\ lines = FilterLines(f, d)
  BY ConfigsAbove DEF Climbed
<1>2. Scope(f) = 1..d
  <2>1. ASSUME NEW l \in 1..d PROVE l \in Scope(f)
    <3>1. l \in 1..Len(Path[f]) /\ \A k \in 1..(l - 1) : k \in 1..(d - 1)
      BY <1>1
    <3> QED
      BY <1>1, <3>1 DEF Scope
  <2>2. ASSUME NEW l \in Scope(f) PROVE l \in 1..d
    <3>1. l \in 1..Len(Path[f]) /\ \A k \in 1..(l - 1) : ~Ends(f, k)
      BY DEF Scope
    <3>2. CASE d = Len(Path[f])
      BY <3>1, <3>2
    <3>3. CASE d > 0 /\ Ends(f, d)
      <4>1. d \notin 1..(l - 1)
        BY <3>1, <3>3
      <4> QED
        BY <1>1, <3>1, <3>3, <4>1
    <3> QED
      BY <3>2, <3>3
  <2> QED
    BY <2>1, <2>2
<1>3. ~Excluded(f)
  BY <1>1, <1>2 DEF Excluded
<1>4. Cardinality(Scope(f)) = d
  <2>1. Cardinality(1..d) = IF 1 > d THEN 0 ELSE d - 1 + 1
    BY <1>1, FS_Interval
  <2> QED
    BY <1>1, <1>2, <2>1
<1> DEFINE n == Len(lines)
<1>5. lines \in Seq(Seq(Filters)) /\ n \in Nat
  BY <1>1, FilterLinesGrow
<1> DEFINE back == [i \in 1..n |-> lines[n + 1 - i]]
<1>6. PromisedFilters(f) = Given.filters \o FlattenSeq(back)
  BY <1>1, <1>4 DEF PromisedFilters, Given
<1>7. Reverse(lines) = back
  <2>1. \A i \in 1..n : (n - i) + 1 = n + 1 - i
    BY <1>5
  <2> QED
    BY <2>1 DEF Reverse
<1>8. back \in [1..n -> Seq(Filters)]
  <2>1. ASSUME NEW i \in 1..n PROVE lines[n + 1 - i] \in Seq(Filters)
    <3>1. n + 1 - i \in 1..n
      BY <1>5
    <3> QED
      BY <1>5, <3>1
  <2> QED
    BY <2>1
<1> HIDE DEF back
<1>9. FlattenSeq(back) \in Seq(Filters)
  BY <1>5, <1>8, FlattenType
<1>10. Given.filters \in Seq(Filters)
  BY GivenFilters
<1> QED
  BY <1>3, <1>6, <1>7, <1>9, <1>10 DEF Overrides

-----------------------------------------------------------------------------
(* What is printed for a file is decided by the file and its own           *)
(* configurations                                                          *)

(* What ProcessFileData does for a file under the given command line.      *)
Script(f) == ProcessFileData(f, env.text[f], Given.line_length, Given.root)

(* A comment on one of the lines parsed covers a category on line n.       *)
Heard(t, parsed, category, n) ==
  \E k \in 1..Len(t.lines) :
    /\ k \in parsed /\ t.lines[k].nolint # Missing
    /\ t.lines[k].nolint.category = category
    /\ n = (IF t.lines[k].nolint.next THEN k + 1 ELSE k)

(* The suppressions after the first m events are those of the comments     *)
(* parsed so far and of this file.                                         *)
Suppressed(t, events, m, lines, globals) ==
  /\ \A c \in Categories \cup {All} : \A n : <<c, n>> \in lines <=> Heard(t, Parsed(events, m), c, n)
  /\ (\E s \in 1..m : events[s].op = "global") => globals = t.globally
  /\ ~(\E s \in 1..m : events[s].op = "global") => globals = {}

(* Without a line length or a root in them, the configurations leave only  *)
(* the filters to promise.                                                 *)
LEMMA DocumentedIs ==
  ASSUME env \in Environments, OnlyFilters, NEW f \in DOMAIN env.text
  PROVE  Documented(f) =
           IF Excluded(f) \/ env.text[f] = Unreadable \/ (f # Stdin /\ Ext[f] \notin Given.extensions) THEN {}
           ELSE UNION {Reported(f, Script(f), PromisedFilters(f), i) : i \in 1..Len(Script(f))}
<1>1. ASSUME NEW name \in {"linelength", "root"}, NEW default
      PROVE  Promised(f, name, default) = default
  <2>1. ASSUME NEW l \in Scope(f) PROVE Options(Config(f, l), name) = {}
    <3>1. l \in 1..Len(Path[f])
      BY DEF Scope
    <3>2. Path[f][l].dir \in DOMAIN env.config
      BY <3>1, ConfigsAbove
    <3> QED
      BY <1>1, <3>2 DEF OnlyFilters, Config
  <2>2. {l \in Scope(f) : Values(f, l, name) # {}} = {}
    BY <2>1 DEF Values
  <2> QED
    BY <2>2 DEF Promised
<1>2. /\ Promised(f, "linelength", Given.line_length) = Given.line_length
      /\ Promised(f, "root", Given.root) = Given.root
  BY <1>1
<1> QED
  BY <1>2, Zenon DEF Documented, Script, Given

(* What an event of each kind should print.                                *)
LEMMA ReportedIs ==
  ASSUME NEW f, NEW events, NEW filters, NEW m \in Nat, NEW e, e = events[m + 1]
  PROVE  LET parsed == Parsed(events, m)
             t == env.text[f]
             report == Report(e.line, "readability/nolint", 5)
             entry(x) == [file |-> f, line |-> x.line, category |-> x.category]
         IN  /\ e.op = "global" => Reported(f, events, filters, m + 1) = {}
             /\ e.op = "error" => Reported(f, events, filters, m + 1) =
                                    IF Shown(t, parsed, filters, e) THEN {entry(e)} ELSE {}
             /\ e.op = "parse" => Reported(f, events, filters, m + 1) =
                                    IF NamesNone(t, e.line) /\ Shown(t, parsed, filters, report)
                                      THEN {entry(report)} ELSE {}
<1>1. (m + 1) - 1 = m
  OBVIOUS
<1> QED
  BY <1>1 DEF Reported

(* One event more.                                                         *)
LEMMA ParsedGrow ==
  ASSUME NEW events, NEW m \in Nat
  PROVE  /\ Parsed(events, 0) = {}
         /\ events[m + 1].op = "parse" => Parsed(events, m + 1) = Parsed(events, m) \cup {events[m + 1].line}
         /\ events[m + 1].op # "parse" => Parsed(events, m + 1) = Parsed(events, m)
<1>1. \A k : k \in 1..(m + 1) <=> k \in 1..m \/ k = m + 1
  OBVIOUS
<1>2. 1..0 = {}
  OBVIOUS
<1> QED
  BY <1>1, <1>2 DEF Parsed

(* Where the suppressions for the whole file come.                         *)
LEMMA GlobalsCome ==
  ASSUME NEW t, NEW events, Opened(t, events), NEW m \in Nat, m + 1 <= Len(events), NEW globals,
         (\E s \in 1..m : events[s].op = "global") => globals = t.globally,
         ~(\E s \in 1..m : events[s].op = "global") => globals = {}
  PROVE  /\ events[m + 1] \in Events
         /\ events[m + 1].op = "global" => events[m + 1].category = t.globally /\ globals = {}
         /\ events[m + 1].op = "parse" => globals = t.globally
         /\ events[m + 1].op = "error" /\ events[m + 1].category # "legal/copyright" => globals = t.globally
         /\ events[m + 1].op = "error" /\ events[m + 1].category = "legal/copyright" => globals = {}
<1>1. PICK s \in 1..Len(events) :
        /\ events[s] = Suppress(t.globally)
        /\ \A i \in 1..(s - 1) : events[i].op = "error" /\ events[i].category = "legal/copyright"
        /\ \A i \in (s + 1)..Len(events) : events[i] \in Later
  BY DEF Opened
<1>2. events \in Seq(Events) /\ Len(events) \in Nat /\ m + 1 \in 1..Len(events)
  BY DEF Opened
<1>3. events[m + 1] \in Events
  BY <1>2
<1>4. events[s].op = "global" /\ events[s].category = t.globally
  BY <1>1 DEF Suppress
<1>5. \A i \in 1..Len(events) : i < s \/ i = s \/ i > s
  BY <1>1, <1>2
<1>6. \A i \in 1..Len(events) : i > s => events[i].op # "global" /\ events[i].category # "legal/copyright"
  BY <1>1, <1>2 DEF Later
<1>7. \A i \in 1..Len(events) : i < s => events[i].op = "error" /\ events[i].category = "legal/copyright"
  BY <1>1, <1>2
<1>8. \A i \in 1..m : i \in 1..Len(events)
  BY <1>2
<1>9. (\E i \in 1..m : events[i].op = "global") <=> s <= m
  <2>1. ASSUME s <= m PROVE \E i \in 1..m : events[i].op = "global"
    BY <1>1, <1>4, <2>1
  <2>2. ASSUME NEW i \in 1..m, events[i].op = "global" PROVE s <= m
    <3>1. i = s
      BY <1>5, <1>6, <1>7, <1>8, <2>2
    <3> QED
      BY <2>2, <3>1
  <2> QED
    BY <2>1, <2>2
<1>10. CASE m + 1 < s
  <2>1. ~(s <= m)
    BY <1>1, <1>10
  <2> QED
    BY <1>2, <1>3, <1>7, <1>9, <1>10, <2>1
<1>11. CASE m + 1 = s
  <2>1. ~(s <= m)
    BY <1>11
  <2> QED
    BY <1>3, <1>4, <1>9, <1>11, <2>1
<1>12. CASE m + 1 > s
  <2>1. s <= m
    BY <1>1, <1>12
  <2> QED
    BY <1>2, <1>3, <1>6, <1>9, <1>12, <2>1
<1> QED
  BY <1>2, <1>5, <1>10, <1>11, <1>12

(* Error prints what should reach the user.                                *)
LEMMA PrintsWhatIsShown ==
  ASSUME env \in Environments, NEW f \in DOMAIN env.text,
         settings.filters = PromisedFilters(f), PromisedFilters(f) \in Seq(Filters), Valid(PromisedFilters(f)),
         settings.verbose = Given.verbose,
         NEW t, NEW parsed, NEW x, x.category \in Categories,
         \A c \in Categories \cup {All} : \A n : <<c, n>> \in error_suppressions <=> Heard(t, parsed, c, n),
         x.category = "legal/copyright" => x.category \notin global_suppressions,
         x.category # "legal/copyright" => global_suppressions = t.globally
  PROVE  ShouldPrintError(x) <=> Shown(t, parsed, PromisedFilters(f), x)
<1>1. IsFiltered(x.category) <=> ~Passes(PromisedFilters(f), x.category)
  BY FilterDecides
<1>2. Quiet(t, parsed, x.line, x.category)
        <=> (Heard(t, parsed, x.category, x.line) \/ Heard(t, parsed, All, x.line))
  BY DEF Quiet, Heard
<1>3. /\ <<x.category, x.line>> \in error_suppressions <=> Heard(t, parsed, x.category, x.line)
      /\ <<All, x.line>> \in error_suppressions <=> Heard(t, parsed, All, x.line)
  OBVIOUS
<1>4. x.category \in global_suppressions <=> (x.category \in t.globally /\ x.category # "legal/copyright")
  OBVIOUS
<1> QED
  BY <1>1, <1>2, <1>3, <1>4 DEF ShouldPrintError, IsErrorSuppressedByNolint, Shown, Given

(* What is promised depends on what the run is given alone.                *)
LEMMA PromisesStay ==
  ASSUME env' = env, NEW f
  PROVE  /\ Given' = Given /\ OnlyFilters' = OnlyFilters
         /\ \A l : Ends(f, l)' = Ends(f, l) /\ Excludes(f, l)' = Excludes(f, l)
         /\ Excluded(f)' = Excluded(f)
         /\ \A n : FilterLines(f, n)' = FilterLines(f, n)
         /\ PromisedFilters(f)' = PromisedFilters(f)
         /\ Script(f)' = Script(f)
         /\ \A events, filters, i : Reported(f, events, filters, i)' = Reported(f, events, filters, i)
         /\ Documented(f)' = Documented(f)
<1>1. \A l : Config(f, l)' = Config(f, l)
  BY DEF Config
<1>2. Given' = Given
  BY DEF Given
<1>3. OnlyFilters' = OnlyFilters
  BY DEF OnlyFilters
<1>4. \A l : Ends(f, l)' = Ends(f, l)
  BY <1>1 DEF Ends
<1>5. \A l : Excludes(f, l)' = Excludes(f, l)
  BY <1>1 DEF Excludes
<1>6. Scope(f)' = Scope(f)
  BY <1>4 DEF Scope
<1>7. Excluded(f)' = Excluded(f)
  BY <1>5, <1>6 DEF Excluded
<1>8. \A n : FilterLines(f, n)' = FilterLines(f, n)
  BY <1>1 DEF FilterLines
<1>9. PromisedFilters(f)' = PromisedFilters(f)
  <2>1. \A n : FilterLines(f, n)' = FilterLines(f, n)
    BY <1>8
  <2> QED
    BY <1>2, <1>6, <2>1 DEF PromisedFilters, Given
<1>10. Script(f)' = Script(f)
  BY <1>2 DEF Script
<1>11. \A t, parsed, filters, report : Shown(t, parsed, filters, report)' = Shown(t, parsed, filters, report)
  BY DEF Shown
<1>12. \A events, filters, i : Reported(f, events, filters, i)' = Reported(f, events, filters, i)
  BY <1>11 DEF Reported
<1>13. \A name, default : Promised(f, name, default)' = Promised(f, name, default)
  <2> TAKE name, default
  <2>1. \A l : Values(f, l, name)' = Values(f, l, name)
    BY <1>1 DEF Values
  <2>2. {l \in Scope(f) : Values(f, l, name) # {}}' = {l \in Scope(f) : Values(f, l, name) # {}}
    BY <1>6, <2>1
  <2>3. PICK L : L = {l \in Scope(f) : Values(f, l, name) # {}}
    OBVIOUS
  <2>4. {l \in Scope(f) : Values(f, l, name) # {}}' = L
    BY <2>2, <2>3
  <2>5. Promised(f, name, default) =
          IF L = {} THEN default ELSE Config(f, Min(L))[Max(Values(f, Min(L), name))].val
    BY <2>3, Zenon DEF Promised
  <2>6. Promised(f, name, default)' =
          IF L = {} THEN default ELSE (Config(f, Min(L))[Max(Values(f, Min(L), name))].val)'
    BY <2>4, Zenon DEF Promised
  <2>7. Config(f, Min(L))' = Config(f, Min(L)) /\ Values(f, Min(L), name)' = Values(f, Min(L), name)
    BY <1>1, <2>1, Zenon
  <2> QED
    BY <2>5, <2>6, <2>7
<1>14. Documented(f)' = Documented(f)
  <2> DEFINE events == ProcessFileData(f, env.text[f], Promised(f, "linelength", Given.line_length),
                                       Promised(f, "root", Given.root))
             nothing == Excluded(f) \/ env.text[f] = Unreadable \/ (f # Stdin /\ Ext[f] \notin Given.extensions)
             all == {Reported(f, events, PromisedFilters(f), i) : i \in 1..Len(events)}
  <2>1. Documented(f) = (IF nothing THEN {} ELSE UNION all) /\ Documented(f)' = (IF nothing THEN {} ELSE UNION all)'
    BY Zenon DEF Documented, Given
  <2>2. nothing' = nothing
    BY <1>2, <1>7
  <2>3. events' = events
    BY <1>2, <1>13
  <2> HIDE DEF events
  <2>4. all' = all
    BY <1>9, <1>12, <2>3
  <2> HIDE DEF nothing, all
  <2> QED
    BY <2>1, <2>2, <2>4
<1> QED
  BY <1>2, <1>3, <1>4, <1>5, <1>7, <1>8, <1>9, <1>10, <1>12, <1>14

(* The files that have been linted when n are left.                        *)
Finished(n) == {env.filenames[i] : i \in 1..(Len(env.filenames) - n)}

(* The files left are the last ones of the command line.                   *)
LastFiles == /\ Len(queue) <= Len(env.filenames)
             /\ \A i \in 1..Len(queue) : queue[i] = env.filenames[Len(env.filenames) - Len(queue) + i]

Set == {"verbose", "line_length", "root", "extensions"}
AsGiven(s) == \A name \in Set : s[name] = Given[name]

(* The climb for a file has visited d directories when it is at level n.   *)
ClimbAt(f, d, n) ==
  IF n <= Len(Path[f]) THEN d = n - 1 /\ (d > 0 => ~Ends(f, d))
  ELSE d = Len(Path[f]) \/ (d > 0 /\ Ends(f, d))

Linted(f) == /\ ~Excluded(f)
             /\ settings.filters = PromisedFilters(f)
             /\ PromisedFilters(f) \in Seq(Filters) /\ Valid(PromisedFilters(f))

(* What is printed is all of the finished files and some of one.           *)
PrintedIs(finished, f, some) ==
  \A g : PrintedFor(g) = (IF g \in finished THEN Documented(g) ELSE {}) \cup (IF g = f THEN some ELSE {})

(* The first m events of a file have been carried out.                     *)
Carried(f, events, m) ==
  /\ f = Head(queue) /\ f \in DOMAIN env.text
  /\ events = Script(f) /\ Opened(env.text[f], events) /\ m \in Nat /\ m <= Len(events)
  /\ env.text[f] # Unreadable /\ (f = Stdin \/ Ext[f] \in Given.extensions)
  /\ Linted(f)
  /\ Len(todo) = Len(events) - m /\ \A i \in 1..Len(todo) : todo[i] = events[m + i]
  /\ Suppressed(env.text[f], events, m, error_suppressions, global_suppressions)
  /\ PrintedIs(Finished(Len(queue)), f,
               UNION {Reported(f, events, PromisedFilters(f), i) : i \in 1..m})

IsolatedInv ==
  OnlyFilters =>
    /\ pc = "main" => printed = << >>
    /\ pc \in {"next", "config", "read", "lint"} =>
         /\ AsGiven(settings) /\ LastFiles
         /\ pc # "lint" => PrintedIs(Finished(Len(queue)), Missing, {})
         /\ pc = "config" => /\ settings.filters = Given.filters /\ level \in Nat
                             /\ \E d \in Nat : Climbed(Head(queue), d, cfg_filters)
                                               /\ ClimbAt(Head(queue), d, level)
         /\ pc = "read" => Linted(Head(queue))
         /\ pc = "lint" => \E f, events, m : Carried(f, events, m)

(* One more file is finished.                                              *)
LEMMA FinishOne ==
  ASSUME env \in Environments, queue \in Seq(DOMAIN env.text), queue # << >>, LastFiles,
         queue' = Tail(queue), env' = env
  PROVE  /\ LastFiles'
         /\ Head(queue) \in DOMAIN env.text
         /\ Finished(Len(queue))' = Finished(Len(queue)) \cup {Head(queue)}
<1> DEFINE N == Len(env.filenames)
           L == Len(queue)
<1>1. env.filenames \in Seq(DOMAIN env.text) /\ N \in Nat
  BY LintSessionAssumption
<1>2. /\ L \in Nat /\ L >= 1 /\ Len(Tail(queue)) = L - 1 /\ Head(queue) = queue[1]
      /\ \A i \in 1..(L - 1) : Tail(queue)[i] = queue[i + 1]
  OBVIOUS
<1>3. L <= N /\ \A i \in 1..L : queue[i] = env.filenames[N - L + i]
  BY DEF LastFiles
<1>4. PICK q : q = Tail(queue)
  OBVIOUS
<1>5. PICK names : names = env.filenames
  OBVIOUS
<1>6. \A i \in 1..Len(q) : q[i] = names[N - Len(q) + i]
  <2> TAKE i \in 1..Len(q)
  <2>1. i \in 1..(L - 1) /\ i + 1 \in 1..L /\ N - Len(q) + i = N - L + (i + 1)
    <3>1. L \in Nat /\ L >= 1 /\ Len(q) = L - 1 /\ N \in Nat
      BY <1>1, <1>2, <1>4
    <3> HIDE DEF L, N
    <3> QED
      BY ONLY <3>1, i \in 1..Len(q)
  <2> QED
    BY <1>2, <1>3, <1>4, <1>5, <2>1
<1>7. LastFiles'
  <2>1. Len(q) <= N
    BY <1>1, <1>2, <1>3, <1>4
  <2> QED
    BY <1>4, <1>5, <1>6, <2>1 DEF LastFiles
<1>8. Head(queue) = names[N - L + 1]
  BY <1>2, <1>3, <1>5
<1>9. N - Len(q) = N - L + 1 /\ N - L \in Nat
  BY <1>1, <1>2, <1>3, <1>4
<1>10. Finished(Len(queue))' = {names[i] : i \in 1..(N - Len(q))}
  BY <1>4, <1>5 DEF Finished
<1>11. Finished(Len(queue)) = {names[i] : i \in 1..(N - L)}
  BY <1>5 DEF Finished
<1>12. \A i : i \in 1..(N - L + 1) <=> i \in 1..(N - L) \/ i = N - L + 1
  BY <1>9
<1> HIDE DEF N, L
<1> QED
  BY <1>2, <1>7, <1>8, <1>9, <1>10, <1>11, <1>12

(* What is printed stays right when nothing is printed.                    *)
LEMMA PrintedStays ==
  ASSUME env' = env, printed' = printed, NEW finished, NEW f, NEW some, PrintedIs(finished, f, some)
  PROVE  PrintedIs(finished, f, some)'
<1>1. \A g : PrintedFor(g)' = PrintedFor(g)
  BY DEF PrintedFor
<1>2. \A g : Documented(g)' = Documented(g)
  BY PromisesStay
<1> QED
  BY <1>1, <1>2 DEF PrintedIs

(* A file is left when all that should be is printed for it.               *)
LEMMA LeavingIsolates ==
  ASSUME NolintInv, OnlyFilters, LastFiles, queue # << >>,
         PrintedIs(Finished(Len(queue)), Head(queue), Documented(Head(queue))),
         NEW s, DOMAIN s = Fields, AsGiven(s), FinishFile(s), UNCHANGED <<env, printed>>
  PROVE  IsolatedInv'
<1>1. env \in Environments /\ queue \in Seq(DOMAIN env.text)
  BY DEF NolintInv
<1>2. queue' = Tail(queue) /\ pc' = "next" /\ settings' = [s EXCEPT !.filters = s.backup]
  BY DEF FinishFile, RestoreFilters
<1>3. AsGiven(settings)'
  <2>1. \A name \in Set : settings'[name] = s[name]
    BY <1>2 DEF Fields, Set
  <2>2. Given' = Given
    BY PromisesStay
  <2> QED
    BY <2>1, <2>2 DEF AsGiven
<1>4. LastFiles' /\ Finished(Len(queue))' = Finished(Len(queue)) \cup {Head(queue)}
  BY <1>1, <1>2, FinishOne
<1>5. PICK finished, f : finished = Finished(Len(queue)) /\ f = Head(queue)
  OBVIOUS
<1>6. \A g : PrintedFor(g)' = PrintedFor(g) /\ Documented(g)' = Documented(g)
  BY PromisesStay DEF PrintedFor
<1>7. \A g : PrintedFor(g) = (IF g \in finished THEN Documented(g) ELSE {})
                               \cup (IF g = f THEN Documented(f) ELSE {})
  BY <1>5, Zenon DEF PrintedIs
<1>8. \A g : PrintedFor(g)' = IF g \in finished \cup {f} THEN Documented(g)' ELSE {}
  BY <1>6, <1>7
<1>9. PrintedIs(Finished(Len(queue)), Missing, {})'
  <2>1. \A g : PrintedFor(g)' = (IF g \in finished \cup {f} THEN Documented(g)' ELSE {})
                                  \cup (IF g = Missing THEN {} ELSE {})
    BY <1>8
  <2> QED
    BY <1>4, <1>5, <2>1 DEF PrintedIs
<1> QED
  BY <1>2, <1>3, <1>4, <1>9 DEF IsolatedInv

(* One line more that is parsed.                                           *)
LEMMA HeardGrow ==
  ASSUME NEW t, NEW parsed, NEW n, NEW c, NEW l
  PROVE  Heard(t, parsed \cup {n}, c, l) <=>
           \/ Heard(t, parsed, c, l)
           \/ /\ n \in 1..Len(t.lines) /\ t.lines[n].nolint # Missing
              /\ t.lines[n].nolint.category = c
              /\ l = (IF t.lines[n].nolint.next THEN n + 1 ELSE n)
BY DEF Heard

(* One error more that is printed.                                         *)
LEMMA PrintedGrow ==
  ASSUME IsSequence(printed), NEW entry, printed' = Append(printed, entry)
  PROVE  \A g : PrintedFor(g)' = PrintedFor(g) \cup (IF g = entry.file THEN {entry} ELSE {})
<1>1. PICK old, new : old = printed /\ new = Append(printed, entry)
  OBVIOUS
<1>2. /\ Len(old) \in Nat /\ Len(new) = Len(old) + 1
      /\ \A i \in 1..Len(old) : new[i] = old[i]
      /\ new[Len(old) + 1] = entry
  BY ONLY IsSequence(printed), <1>1, AppendEntry
<1> TAKE g
<1>3. PrintedFor(g)' = {new[i] : i \in {k \in 1..Len(new) : new[k].file = g}}
  BY <1>1 DEF PrintedFor
<1>4. PrintedFor(g) = {old[i] : i \in {k \in 1..Len(old) : old[k].file = g}}
  BY <1>1 DEF PrintedFor
<1>5. \A i : i \in 1..Len(new) <=> i \in 1..Len(old) \/ i = Len(old) + 1
  BY <1>2
<1>6. {new[i] : i \in {k \in 1..Len(new) : new[k].file = g}}
        = {old[i] : i \in {k \in 1..Len(old) : old[k].file = g}} \cup (IF g = entry.file THEN {entry} ELSE {})
  BY ONLY <1>2, <1>5
<1> QED
  BY <1>3, <1>4, <1>6

(* The climb depends on the configurations alone.                          *)
LEMMA ClimbStays ==
  ASSUME env' = env, NEW f, NEW d, NEW filters, NEW n
  PROVE  Climbed(f, d, filters)' = Climbed(f, d, filters) /\ ClimbAt(f, d, n)' = ClimbAt(f, d, n)
<1>1. /\ \A l : Ends(f, l)' = Ends(f, l) /\ Excludes(f, l)' = Excludes(f, l)
      /\ FilterLines(f, d)' = FilterLines(f, d)
  BY PromisesStay
<1> QED
  BY <1>1 DEF Climbed, ClimbAt

(* A step of Lint carries out one event.                                   *)
LEMMA LintCarries ==
  ASSUME NolintInv, OnlyFilters, AsGiven(settings), NEW f, NEW events, NEW m, Carried(f, events, m), Lint,
         Suppressed(env.text[f], events, m + 1, error_suppressions', global_suppressions'),
         \A g : PrintedFor(g)' = PrintedFor(g)
                  \cup (IF g = f THEN Reported(f, events, PromisedFilters(f), m + 1) ELSE {})
  PROVE  Carried(f, events, m + 1)'
<1>1. UNCHANGED <<env, settings, pc, queue>> /\ todo # << >> /\ todo' = Tail(todo) /\ pc = "lint"
  BY DEF Lint
<1>2. todo \in Seq(Events)
  BY <1>1 DEF NolintInv
<1>3. /\ f = Head(queue) /\ f \in DOMAIN env.text
      /\ events = Script(f) /\ Opened(env.text[f], events) /\ m \in Nat /\ m <= Len(events)
      /\ env.text[f] # Unreadable /\ (f = Stdin \/ Ext[f] \in Given.extensions)
      /\ Linted(f)
      /\ Len(todo) = Len(events) - m /\ \A i \in 1..Len(todo) : todo[i] = events[m + i]
      /\ PrintedIs(Finished(Len(queue)), f,
               UNION {Reported(f, events, PromisedFilters(f), i) : i \in 1..m})
  BY DEF Carried
<1>4. Len(events) \in Nat
  BY <1>3 DEF Opened
<1>5. PICK rest : rest = Tail(todo)
  OBVIOUS
<1>6. /\ m + 1 \in Nat /\ m + 1 <= Len(events) /\ Len(rest) = Len(events) - (m + 1)
      /\ \A i \in 1..Len(rest) : rest[i] = events[(m + 1) + i]
  <2>1. Len(todo) \in Nat /\ Len(todo) >= 1 /\ Len(rest) = Len(todo) - 1
        /\ \A i \in 1..Len(rest) : rest[i] = todo[i + 1]
    BY <1>1, <1>2, <1>5
  <2>2. \A i \in 1..Len(rest) : i + 1 \in 1..Len(todo) /\ m + (i + 1) = (m + 1) + i
    <3>1. m \in Nat
      BY <1>3
    <3> QED
      BY ONLY <2>1, <3>1
  <2>3. \A i \in 1..Len(rest) : rest[i] = events[(m + 1) + i]
    BY <1>3, <2>1, <2>2
  <2> QED
    BY <1>3, <1>4, <2>1, <2>3
<1>7. PICK filters, finished, some :
        /\ filters = PromisedFilters(f) /\ finished = Finished(Len(queue))
        /\ some = UNION {Reported(f, events, filters, i) : i \in 1..m}
  OBVIOUS
<1>8. /\ PromisedFilters(f)' = filters /\ Given' = Given /\ Excluded(f)' = Excluded(f)
      /\ Script(f)' = Script(f)
      /\ \A i : Reported(f, events, filters, i)' = Reported(f, events, filters, i)
      /\ \A g : Documented(g)' = Documented(g)
  BY <1>1, <1>7, PromisesStay
<1>9. Linted(f)'
  BY <1>1, <1>3, <1>7, <1>8 DEF Linted
<1>10. Finished(Len(queue))' = finished
  BY <1>1, <1>7 DEF Finished
<1>11. UNION {Reported(f, events, filters, i) : i \in 1..(m + 1)} = some \cup Reported(f, events, filters, m + 1)
  <2>1. \A i : i \in 1..(m + 1) <=> i \in 1..m \/ i = m + 1
    BY <1>3
  <2> QED
    BY <1>7, <2>1
<1>12. \A g : PrintedFor(g)' = (IF g \in finished THEN Documented(g)' ELSE {})
                               \cup (IF g = f THEN some \cup Reported(f, events, filters, m + 1) ELSE {})
  <2>1. \A g : PrintedFor(g) = (IF g \in finished THEN Documented(g) ELSE {}) \cup (IF g = f THEN some ELSE {})
    BY <1>3, <1>7 DEF PrintedIs
  <2>2. \A g : PrintedFor(g)' = PrintedFor(g) \cup (IF g = f THEN Reported(f, events, filters, m + 1) ELSE {})
    BY <1>7
  <2> QED
    BY <1>8, <2>1, <2>2
<1>13. UNION {Reported(f, events, PromisedFilters(f), i) : i \in 1..(m + 1)}'
         = some \cup Reported(f, events, filters, m + 1)
  BY <1>8, <1>11
<1>14. PrintedIs(Finished(Len(queue)), f,
               UNION {Reported(f, events, PromisedFilters(f), i) : i \in 1..(m + 1)})'
  BY <1>10, <1>12, <1>13 DEF PrintedIs
<1>15. Suppressed(env.text[f], events, m + 1, error_suppressions, global_suppressions)'
  BY <1>1
<1> QED
  BY <1>1, <1>3, <1>5, <1>6, <1>8, <1>9, <1>14, <1>15 DEF Carried

(* Every event is printed as it should be.                                 *)
LEMMA LintIsolates ==
  ASSUME NolintInv, OnlyFilters, AsGiven(settings), NEW f, NEW events, NEW m, Carried(f, events, m), Lint
  PROVE  Carried(f, events, m + 1)'
<1>0. PICK t, filters, parsed : t = env.text[f] /\ filters = PromisedFilters(f) /\ parsed = Parsed(events, m)
  OBVIOUS
<1> DEFINE entry(x) == [file |-> f, line |-> x.line, category |-> x.category]
           New(some) == \A g : PrintedFor(g)' = PrintedFor(g) \cup (IF g = f THEN some ELSE {})
<1>1. /\ UNCHANGED <<env, settings, pc, queue>> /\ todo # << >> /\ pc = "lint"
      /\ env \in Environments /\ todo \in Seq(Events) /\ IsSequence(printed)
  BY DEF Lint, NolintInv
<1>2. /\ f = Head(queue) /\ f \in DOMAIN env.text /\ Opened(t, events) /\ m \in Nat
      /\ Len(todo) = Len(events) - m /\ \A i \in 1..Len(todo) : todo[i] = events[m + i]
      /\ settings.filters = filters /\ filters \in Seq(Filters) /\ Valid(filters)
      /\ Suppressed(t, events, m, error_suppressions, global_suppressions)
      /\ settings.verbose = Given.verbose
  BY <1>0 DEF Carried, Linted, AsGiven, Set
<1>3. Len(events) \in Nat
  BY ONLY <1>2 DEF Opened
<1>4. PICK e : e = Head(todo)
  OBVIOUS
<1>5. m + 1 <= Len(events) /\ e = events[m + 1]
  <2>1. Len(todo) \in Nat /\ Len(todo) >= 1 /\ e = todo[1]
    BY <1>1, <1>4
  <2>2. e = events[m + 1]
    BY <1>2, <2>1
  <2> QED
    BY <1>2, <1>3, <2>1, <2>2
<1>6. /\ \A c \in Categories \cup {All} : \A n : <<c, n>> \in error_suppressions <=> Heard(t, parsed, c, n)
      /\ (\E s \in 1..m : events[s].op = "global") => global_suppressions = t.globally
      /\ ~(\E s \in 1..m : events[s].op = "global") => global_suppressions = {}
  BY <1>0, <1>2 DEF Suppressed
<1>7. /\ e \in Events
      /\ e.op = "global" => e.category = t.globally /\ global_suppressions = {}
      /\ e.op = "parse" => global_suppressions = t.globally
      /\ e.op = "error" /\ e.category # "legal/copyright" => global_suppressions = t.globally
      /\ e.op = "error" /\ e.category = "legal/copyright" => global_suppressions = {}
  <2>1. PICK globals : globals = global_suppressions
    OBVIOUS
  <2>2. /\ (\E s \in 1..m : events[s].op = "global") => globals = t.globally
        /\ ~(\E s \in 1..m : events[s].op = "global") => globals = {}
    BY <1>6, <2>1
  <2>3. /\ events[m + 1] \in Events
        /\ events[m + 1].op = "global" => events[m + 1].category = t.globally /\ globals = {}
        /\ events[m + 1].op = "parse" => globals = t.globally
        /\ events[m + 1].op = "error" /\ events[m + 1].category # "legal/copyright" => globals = t.globally
        /\ events[m + 1].op = "error" /\ events[m + 1].category = "legal/copyright" => globals = {}
    <3>1. Opened(t, events) /\ m \in Nat /\ m + 1 <= Len(events)
      BY <1>2, <1>5
    <3> QED
      BY ONLY <2>2, <3>1, GlobalsCome
  <2> QED
    BY ONLY <1>5, <2>1, <2>3
<1>8. /\ e.op = "parse" => Parsed(events, m + 1) = parsed \cup {e.line}
      /\ e.op # "parse" => Parsed(events, m + 1) = parsed
  <2>1. m \in Nat
    BY <1>2
  <2> QED
    BY ONLY <1>0, <1>5, <2>1, ParsedGrow
<1>9. (\E s \in 1..(m + 1) : events[s].op = "global") <=> (\E s \in 1..m : events[s].op = "global") \/ e.op = "global"
  <2>1. \A s : s \in 1..(m + 1) <=> s \in 1..m \/ s = m + 1
    BY <1>2
  <2> QED
    BY <1>5, <2>1
<1>10. /\ e.op = "global" => Reported(f, events, filters, m + 1) = {}
       /\ e.op = "error" => Reported(f, events, filters, m + 1) =
                              IF Shown(t, parsed, filters, e) THEN {entry(e)} ELSE {}
       /\ e.op = "parse" => Reported(f, events, filters, m + 1) =
                              IF NamesNone(t, e.line)
                                 /\ Shown(t, parsed, filters, Report(e.line, "readability/nolint", 5))
                                THEN {entry(Report(e.line, "readability/nolint", 5))} ELSE {}
  <2>1. m \in Nat
    BY <1>2
  <2> QED
    BY <1>0, <1>5, <2>1, ReportedIs
<1>11. ASSUME NEW x, x.category \in Categories, Error(x),
              x.category = "legal/copyright" => x.category \notin global_suppressions,
              x.category # "legal/copyright" => global_suppressions = t.globally
       PROVE  New(IF Shown(t, parsed, filters, x) THEN {entry(x)} ELSE {})
  <2>1. ShouldPrintError(x) <=> Shown(t, parsed, filters, x)
    <3>1. /\ env \in Environments /\ f \in DOMAIN env.text
          /\ settings.filters = PromisedFilters(f) /\ PromisedFilters(f) \in Seq(Filters)
          /\ Valid(PromisedFilters(f)) /\ settings.verbose = Given.verbose
      BY <1>0, <1>1, <1>2
    <3>2. ShouldPrintError(x) <=> Shown(t, parsed, PromisedFilters(f), x)
      BY ONLY <1>6, <1>11, <3>1, PrintsWhatIsShown
    <3> QED
      BY ONLY <1>0, <3>2
  <2>2. CASE ShouldPrintError(x)
    <3>1. PICK y : y = entry(x)
      OBVIOUS
    <3>2. printed' = Append(printed, y) /\ y.file = f
      BY <1>2, <1>11, <2>2, <3>1 DEF Error, file
    <3>3. \A g : PrintedFor(g)' = PrintedFor(g) \cup (IF g = y.file THEN {y} ELSE {})
      BY ONLY <1>1, <3>2, PrintedGrow
    <3> QED
      BY <2>1, <2>2, <3>1, <3>2, <3>3
  <2>3. CASE ~ShouldPrintError(x)
    <3>1. printed' = printed
      BY <1>11, <2>3 DEF Error
    <3>2. \A g : PrintedFor(g)' = PrintedFor(g)
      BY <3>1 DEF PrintedFor
    <3> QED
      BY <2>1, <2>3, <3>2
  <2> QED
    BY <2>2, <2>3
<1>12. ASSUME printed' = printed PROVE New({})
  BY <1>12 DEF PrintedFor
<1> SUFFICES /\ Suppressed(t, events, m + 1, error_suppressions', global_suppressions')
             /\ New(Reported(f, events, filters, m + 1))
  <2>1. Suppressed(env.text[f], events, m + 1, error_suppressions', global_suppressions')
    BY <1>0
  <2>2. \A g : PrintedFor(g)' = PrintedFor(g)
                 \cup (IF g = f THEN Reported(f, events, PromisedFilters(f), m + 1) ELSE {})
    BY <1>0
  <2> QED
    BY ONLY NolintInv, OnlyFilters, AsGiven(settings), Carried(f, events, m), Lint, <2>1, <2>2, LintCarries
<1>13. CASE e.op = "error"
  <2>1. Error(e) /\ UNCHANGED <<error_suppressions, global_suppressions>>
    BY <1>4, <1>13 DEF Lint
  <2>2. e.category \in Categories
    BY <1>7, <1>13 DEF Events
  <2>3. Suppressed(t, events, m + 1, error_suppressions', global_suppressions')
    BY <1>6, <1>8, <1>9, <1>13, <2>1 DEF Suppressed
  <2>4. New(IF Shown(t, parsed, filters, e) THEN {entry(e)} ELSE {})
    <3> HIDE DEF New, entry
    <3> QED
      BY <1>7, <1>11, <1>13, <2>1, <2>2
  <2> QED
    BY <1>10, <1>13, <2>3, <2>4
<1>14. CASE e.op = "global"
  <2>1. global_suppressions' = global_suppressions \cup e.category /\ UNCHANGED <<error_suppressions, printed>>
    BY <1>4, <1>14 DEF Lint
  <2>2. global_suppressions' = t.globally
    BY <1>7, <1>14, <2>1
  <2>3. Suppressed(t, events, m + 1, error_suppressions', global_suppressions')
    BY <1>6, <1>8, <1>9, <1>14, <2>1, <2>2 DEF Suppressed
  <2> QED
    BY <1>10, <1>12, <1>14, <2>1, <2>3
<1>15. CASE e.op = "parse"
  <2>0. PICK n, nolint, x : /\ n = e.line /\ x = Report(n, "readability/nolint", 5)
                            /\ nolint = IF n \in 1..Len(t.lines) THEN t.lines[n].nolint ELSE Missing
    OBVIOUS
  <2>1. PICK line : line = IF nolint.next THEN n + 1 ELSE n
    OBVIOUS
  <2> DEFINE names == nolint # Missing /\ nolint.category \in Categories \cup {All}
             unknown == nolint # Missing /\ nolint.category \notin Categories \cup Legacy \cup {All}
  <2>2. UNCHANGED global_suppressions /\ ParseNolintSuppressions(n)
    BY <1>4, <1>15, <2>0 DEF Lint
  <2>3. text = t
    BY <1>0, <1>2 DEF text, file
  <2>4. /\ names => /\ error_suppressions' = error_suppressions \cup {<<nolint.category, line>>}
                    /\ UNCHANGED printed
        /\ ~names => UNCHANGED error_suppressions
        /\ ~names /\ ~unknown => UNCHANGED printed
        /\ unknown => Error(x)
    BY ONLY <2>0, <2>1, <2>2, <2>3 DEF ParseNolintSuppressions
  <2>5. NamesNone(t, n) <=> unknown
    BY ONLY <2>0 DEF NamesNone
  <2>6. \A c, l : Heard(t, parsed \cup {n}, c, l) <=>
                    \/ Heard(t, parsed, c, l)
                    \/ /\ n \in 1..Len(t.lines) /\ t.lines[n].nolint # Missing
                       /\ t.lines[n].nolint.category = c
                       /\ l = (IF t.lines[n].nolint.next THEN n + 1 ELSE n)
    BY ONLY <2>0 DEF Heard
  <2>7. \A c, l : Heard(t, parsed \cup {n}, c, l) <=>
                    Heard(t, parsed, c, l) \/ (nolint # Missing /\ nolint.category = c /\ l = line)
    BY ONLY <2>0, <2>1, <2>6
  <2>8. \A c \in Categories \cup {All} : \A l :
          <<c, l>> \in error_suppressions' <=> Heard(t, parsed \cup {n}, c, l)
    <3>1. \A c, l : <<c, l>> \in error_suppressions' <=>
                      <<c, l>> \in error_suppressions \/ (names /\ c = nolint.category /\ l = line)
      BY ONLY <2>4
    <3> SUFFICES ASSUME NEW c \in Categories \cup {All}, NEW l
                 PROVE  <<c, l>> \in error_suppressions' <=> Heard(t, parsed \cup {n}, c, l)
      BY Zenon
    <3>2. <<c, l>> \in error_suppressions <=> Heard(t, parsed, c, l)
      BY ONLY <1>6, c \in Categories \cup {All}
    <3>3. /\ <<c, l>> \in error_suppressions' <=>
               <<c, l>> \in error_suppressions \/ (names /\ c = nolint.category /\ l = line)
          /\ Heard(t, parsed \cup {n}, c, l) <=>
               Heard(t, parsed, c, l) \/ (nolint # Missing /\ nolint.category = c /\ l = line)
      BY ONLY <2>7, <3>1, Zenon
    <3> QED
      BY ONLY <3>2, <3>3, c \in Categories \cup {All}
  <2>9. Suppressed(t, events, m + 1, error_suppressions', global_suppressions')
    <3>1. Parsed(events, m + 1) = parsed \cup {n}
      BY ONLY <1>8, <1>15, <2>0
    <3>2. (\E s \in 1..(m + 1) : events[s].op = "global") <=> (\E s \in 1..m : events[s].op = "global")
      BY ONLY <1>9, <1>15
    <3> QED
      BY ONLY <1>6, <2>2, <2>8, <3>1, <3>2 DEF Suppressed
  <2>10. x.category \in Categories /\ x.category # "legal/copyright" /\ global_suppressions = t.globally
    BY ONLY <1>7, <1>15, <2>0, LintSessionAssumption DEF Report
  <2>11. Reported(f, events, filters, m + 1) =
           IF NamesNone(t, n) /\ Shown(t, parsed, filters, x) THEN {entry(x)} ELSE {}
    BY ONLY <1>10, <1>15, <2>0
  <2>12. CASE NamesNone(t, n)
    <3>1. Error(x)
      BY ONLY <2>4, <2>5, <2>12
    <3>2. New(IF Shown(t, parsed, filters, x) THEN {entry(x)} ELSE {})
      <4> HIDE DEF New, entry
      <4> QED
        BY <1>11, <2>10, <3>1
    <3> QED
      BY <2>9, <2>11, <2>12, <3>2
  <2>13. CASE ~NamesNone(t, n)
    <3>1. printed' = printed
      BY ONLY <2>4, <2>5, <2>13
    <3>2. New({})
      BY <1>12, <3>1
    <3> QED
      BY <2>9, <2>11, <2>13, <3>2
  <2> QED
    BY <2>12, <2>13
<1>16. e.op \in {"error", "global", "parse"}
  BY <1>7 DEF Events
<1> QED
  BY <1>13, <1>14, <1>15, <1>16

(* The command line is read.                                               *)
LEMMA ParseIsolates ==
  ASSUME NolintInv, OnlyFilters, IsolatedInv, ParseArguments
  PROVE  IsolatedInv'
<1>1. /\ env \in Environments /\ printed = << >> /\ UNCHANGED <<env, printed>>
      /\ \/ pc' \in {"exit_0", "aborted"}
         \/ pc' = "next" /\ settings' = Given /\ queue' = env.filenames
  BY DEF ParseArguments, Exit, NolintInv, IsolatedInv, Given
<1>2. CASE pc' \in {"exit_0", "aborted"}
  BY <1>2 DEF IsolatedInv
<1>3. CASE pc' = "next" /\ settings' = Given /\ queue' = env.filenames
  <2>1. Given' = Given
    BY <1>1, PromisesStay
  <2>2. AsGiven(settings)'
    BY <1>3, <2>1 DEF AsGiven
  <2>3. PICK N, names : names = env.filenames /\ N = Len(names)
    OBVIOUS
  <2>4. N \in Nat
    BY <1>1, <2>3, LintSessionAssumption
  <2>5. N - N = 0 /\ \A i \in 1..N : N - N + i = i
    BY ONLY <2>4
  <2>6. LastFiles'
    BY <1>1, <1>3, <2>3, <2>4, <2>5 DEF LastFiles
  <2>7. Finished(Len(queue))' = {}
    BY <1>1, <1>3, <2>3, <2>5 DEF Finished
  <2>8. \A g : PrintedFor(g)' = {}
    <3>1. printed' = << >> /\ Len(<< >>) = 0 /\ 1..0 = {}
      BY <1>1
    <3> QED
      BY <3>1 DEF PrintedFor
  <2>9. PrintedIs(Finished(Len(queue)), Missing, {})'
    BY <2>7, <2>8 DEF PrintedIs
  <2> QED
    BY <1>3, <2>2, <2>6, <2>9 DEF IsolatedInv
<1> QED
  BY <1>1, <1>2, <1>3

(* What does not change between files.                                     *)
LEMMA FilesStay ==
  ASSUME UNCHANGED <<env, queue, printed>>, LastFiles, PrintedIs(Finished(Len(queue)), Missing, {})
  PROVE  LastFiles' /\ PrintedIs(Finished(Len(queue)), Missing, {})'
<1>1. LastFiles' /\ Finished(Len(queue))' = Finished(Len(queue))
  BY DEF LastFiles, Finished
<1>2. PICK finished, f, some : finished = Finished(Len(queue)) /\ f = Missing /\ some = {}
  OBVIOUS
<1>3. PrintedIs(finished, f, some)'
  BY <1>2, PrintedStays
<1> QED
  BY <1>1, <1>2, <1>3 DEF PrintedIs

(* A file is begun.                                                        *)
LEMMA StartIsolates ==
  ASSUME NolintInv, FilterInv, OnlyFilters, IsolatedInv, StartFile
  PROVE  IsolatedInv'
<1>1. /\ pc = "next" /\ pc' = "config" /\ level' = 1 /\ cfg_filters' = << >>
      /\ settings' = [settings EXCEPT !.backup = settings.filters]
      /\ queue # << >> /\ UNCHANGED <<env, queue, printed>>
  BY DEF StartFile
<1>2. /\ AsGiven(settings) /\ LastFiles /\ PrintedIs(Finished(Len(queue)), Missing, {})
      /\ DOMAIN settings = Fields /\ settings.filters = Given.filters
  BY <1>1 DEF IsolatedInv, FilterInv
<1>3. Given' = Given
  BY <1>1, PromisesStay
<1>4. /\ settings'.filters = Given.filters
      /\ \A name \in Set : settings'[name] = settings[name]
  BY <1>1, <1>2 DEF Fields, Set
<1>5. AsGiven(settings)'
  BY <1>2, <1>3, <1>4 DEF AsGiven
<1>6. PICK f : f = Head(queue)
  OBVIOUS
<1>7. env \in Environments /\ f \in DOMAIN env.text
  BY <1>1, <1>6 DEF NolintInv
<1>8. PICK lines, d, n : lines = << >> /\ d = 0 /\ n = 1
  OBVIOUS
<1>9. Climbed(f, d, lines) /\ ClimbAt(f, d, n)
  <2>1. Len(Path[f]) \in Nat
    BY <1>7, ConfigsAbove
  <2>2. FilterLines(f, 0) = << >>
    <3>1. [l \in 1..0 |-> FilterOptions(Config(f, l))] \in [1..0 -> Seq(Seq(Filters))]
      OBVIOUS
    <3>2. FlattenSeq([l \in 1..0 |-> FilterOptions(Config(f, l))]) = << >>
      BY <3>1, FlattenType
    <3> QED
      BY <3>2 DEF FilterLines
  <2> QED
    BY <1>8, <2>1, <2>2 DEF Climbed, ClimbAt
<1>10. Climbed(f, d, lines)' /\ ClimbAt(f, d, n)'
  BY <1>1, <1>9, ClimbStays
<1>11. \E k \in Nat : Climbed(Head(queue), k, cfg_filters)' /\ ClimbAt(Head(queue), k, level)'
  <2>1. Head(queue)' = f /\ cfg_filters' = lines /\ level' = n /\ d \in Nat
    BY <1>1, <1>6, <1>8
  <2>2. Climbed(Head(queue), d, cfg_filters)' /\ ClimbAt(Head(queue), d, level)'
    BY <1>10, <2>1 DEF Climbed, ClimbAt
  <2> QED
    BY <2>1, <2>2
<1>12. LastFiles' /\ PrintedIs(Finished(Len(queue)), Missing, {})'
  BY <1>1, <1>2, FilesStay
<1> QED
  BY <1>1, <1>3, <1>4, <1>5, <1>11, <1>12 DEF IsolatedInv

(* One round of the loop in ProcessConfigOverrides.                        *)
LEMMA VisitIsolates ==
  ASSUME NolintInv, FilterInv, OnlyFilters, IsolatedInv, VisitDirectory
  PROVE  IsolatedInv'
<1>1. /\ pc = "config" /\ level \in 1..Len(Path[file]) /\ UNCHANGED <<env, printed>>
  BY DEF VisitDirectory
<1>2. PICK f, n : f = Head(queue) /\ n = level
  OBVIOUS
<1>3. PICK r : r = ReadConfig(Path[f][n].dir, Path[f][n].base, env.config[Path[f][n].dir])
  OBVIOUS
<1>4. PICK s : s = [settings EXCEPT !.line_length = r.line_length, !.root = r.root]
  OBVIOUS
<1>5. /\ cfg_filters' = r.filters
      /\ r.excluded => FinishFile(s)
      /\ ~r.excluded => /\ settings' = s /\ UNCHANGED <<queue, pc>>
                        /\ level' = NextLevel(r.keep_looking)
  BY <1>2, <1>3, <1>4, Zenon DEF VisitDirectory, file
<1>6. /\ queue # << >> /\ env \in Environments /\ f \in DOMAIN env.text
      /\ DOMAIN settings = Fields
      /\ AsGiven(settings) /\ LastFiles /\ PrintedIs(Finished(Len(queue)), Missing, {})
      /\ settings.filters = Given.filters
      /\ \E d \in Nat : Climbed(f, d, cfg_filters) /\ ClimbAt(f, d, level)
  BY <1>1, <1>2 DEF NolintInv, FilterInv, IsolatedInv
<1>7. n \in 1..Len(Path[f]) /\ Len(Path[f]) \in Nat
  BY <1>1, <1>2, <1>6, ConfigsAbove DEF file
<1>8. Climbed(f, n - 1, cfg_filters) /\ (n - 1 > 0 => ~Ends(f, n - 1))
  <2>1. PICK d \in Nat : Climbed(f, d, cfg_filters) /\ ClimbAt(f, d, n)
    BY <1>2, <1>6
  <2>2. d = n - 1 /\ (d > 0 => ~Ends(f, d))
    BY <1>7, <2>1 DEF ClimbAt
  <2> QED
    BY <2>1, <2>2
<1>9. /\ r.line_length = settings.line_length /\ r.root = settings.root
      /\ r.excluded => Excluded(f)
      /\ ~r.excluded => Climbed(f, n, r.filters) /\ (r.keep_looking <=> ~Ends(f, n))
  BY ONLY OnlyFilters, <1>3, <1>6, <1>7, <1>8, ClimbOne
<1>10. /\ DOMAIN s = Fields /\ s.filters = settings.filters
       /\ \A name \in Set : s[name] = settings[name]
  BY <1>4, <1>6, <1>9 DEF Fields, Set
<1>11. AsGiven(s)
  BY <1>6, <1>10 DEF AsGiven
<1>12. CASE r.excluded
  <2>1. Documented(f) = {}
    BY <1>6, <1>9, <1>12, DocumentedIs
  <2>2. PrintedIs(Finished(Len(queue)), Head(queue), Documented(Head(queue)))
    BY <1>2, <1>6, <2>1 DEF PrintedIs
  <2> QED
    BY <1>1, <1>5, <1>6, <1>10, <1>11, <1>12, <2>2, LeavingIsolates
<1>13. CASE ~r.excluded
  <2>1. PICK lines, k : lines = r.filters /\ k = IF r.keep_looking THEN n + 1 ELSE Len(Path[f]) + 1
    OBVIOUS
  <2>2. level' = k /\ cfg_filters' = lines /\ Head(queue)' = f /\ settings' = s /\ pc' = pc
    BY <1>2, <1>5, <1>13, <2>1 DEF NextLevel, file
  <2>3. Climbed(f, n, lines)
    BY <1>9, <1>13, <2>1
  <2>4. n \in Nat /\ k \in Nat /\ k - 1 = (IF r.keep_looking THEN n ELSE Len(Path[f])) /\ n > 0
        /\ n <= Len(Path[f])
    BY <1>7, <2>1
  <2>5. ClimbAt(f, n, k)
    <3>1. r.keep_looking <=> ~Ends(f, n)
      BY <1>9, <1>13
    <3>2. CASE r.keep_looking
      <4>1. k = n + 1
        BY <2>1, <3>2
      <4>2. CASE k <= Len(Path[f])
        BY <2>4, <3>1, <3>2, <4>1, <4>2 DEF ClimbAt
      <4>3. CASE ~(k <= Len(Path[f]))
        <5>1. n = Len(Path[f])
          BY <1>7, <4>1, <4>3
        <5> QED
          BY <4>3, <5>1 DEF ClimbAt
      <4> QED
        BY <4>2, <4>3
    <3>3. CASE ~r.keep_looking
      <4>1. ~(k <= Len(Path[f]))
        BY <1>7, <2>1, <3>3
      <4> QED
        BY <2>4, <3>1, <3>3, <4>1 DEF ClimbAt
    <3> QED
      BY <3>2, <3>3
  <2>6. Climbed(f, n, lines)' /\ ClimbAt(f, n, k)'
    BY <1>1, <2>3, <2>5, ClimbStays
  <2>7. \E d \in Nat : Climbed(Head(queue), d, cfg_filters)' /\ ClimbAt(Head(queue), d, level)'
    <3>1. Climbed(Head(queue), n, cfg_filters)' /\ ClimbAt(Head(queue), n, level)'
      BY <2>2, <2>6 DEF Climbed, ClimbAt
    <3> QED
      BY <2>4, <3>1
  <2>8. Given' = Given
    BY <1>1, PromisesStay
  <2>9. AsGiven(settings)' /\ settings'.filters = Given'.filters
    BY <1>6, <1>10, <1>11, <2>2, <2>8 DEF AsGiven
  <2>10. LastFiles' /\ PrintedIs(Finished(Len(queue)), Missing, {})'
    BY <1>1, <1>5, <1>6, <1>13, FilesStay
  <2> QED
    BY <1>1, <2>2, <2>4, <2>7, <2>9, <2>10 DEF IsolatedInv
<1> QED
  BY <1>12, <1>13

(* The climb is over and its filters are added.                            *)
LEMMA ApplyIsolates ==
  ASSUME NolintInv, FilterInv, OnlyFilters, IsolatedInv, ApplyFilters
  PROVE  IsolatedInv'
<1>1. PICK f, lines, filters : /\ f = Head(queue) /\ lines = cfg_filters
                               /\ filters = settings.filters \o Overrides(lines)
  OBVIOUS
<1>2. /\ pc = "config" /\ level > Len(Path[f]) /\ UNCHANGED <<env, queue, printed>>
      /\ Valid(filters) => settings' = [settings EXCEPT !.filters = filters] /\ pc' = "read"
      /\ ~Valid(filters) => pc' = "aborted"
  BY <1>1 DEF ApplyFilters, Exit, file
<1>3. /\ env \in Environments /\ f \in DOMAIN env.text
      /\ DOMAIN settings = Fields
      /\ AsGiven(settings) /\ LastFiles /\ PrintedIs(Finished(Len(queue)), Missing, {})
      /\ settings.filters = Given.filters /\ level \in Nat
      /\ \E d \in Nat : Climbed(f, d, lines) /\ ClimbAt(f, d, level)
  BY <1>1, <1>2 DEF NolintInv, FilterInv, IsolatedInv
<1>4. CASE ~Valid(filters)
  BY <1>2, <1>4 DEF IsolatedInv
<1>5. CASE Valid(filters)
  <2>1. PICK d \in Nat : Climbed(f, d, lines) /\ ClimbAt(f, d, level)
    BY <1>3
  <2>2. d = Len(Path[f]) \/ (d > 0 /\ Ends(f, d))
    <3>1. Len(Path[f]) \in Nat
      BY <1>3, ConfigsAbove
    <3>2. ~(level <= Len(Path[f]))
      BY <1>2, <1>3, <3>1
    <3> QED
      BY <2>1, <3>2 DEF ClimbAt
  <2>3. ~Excluded(f) /\ PromisedFilters(f) = Given.filters \o Overrides(lines) /\ PromisedFilters(f) \in Seq(Filters)
    BY ONLY <1>3, <2>1, <2>2, ClimbEnds
  <2>4. PromisedFilters(f) = filters
    BY <1>1, <1>3, <2>3
  <2>5. PromisedFilters(f)' = filters /\ Excluded(f)' = Excluded(f) /\ Given' = Given
    BY <1>2, <2>4, PromisesStay
  <2>6. settings'.filters = filters /\ \A name \in Set : settings'[name] = settings[name]
    BY <1>2, <1>3, <1>5 DEF Fields, Set
  <2>7. AsGiven(settings)'
    BY <1>3, <2>5, <2>6 DEF AsGiven
  <2>8. Head(queue)' = f /\ filters \in Seq(Filters)
    BY <1>1, <1>2, <2>3, <2>4
  <2>9. Linted(f)'
    BY <1>5, <2>3, <2>5, <2>6, <2>8 DEF Linted
  <2>10. Linted(Head(queue))'
    BY <2>8, <2>9 DEF Linted
  <2>11. LastFiles' /\ PrintedIs(Finished(Len(queue)), Missing, {})'
    BY <1>2, <1>3, FilesStay
  <2> QED
    BY <1>2, <1>5, <2>7, <2>10, <2>11 DEF IsolatedInv
<1> QED
  BY <1>4, <1>5

(* The file is read, or left.                                              *)
LEMMA ReadIsolates ==
  ASSUME NolintInv, FilterInv, OnlyFilters, IsolatedInv, ReadFile
  PROVE  IsolatedInv'
<1>1. PICK f, t, events : /\ f = Head(queue) /\ t = env.text[f]
                          /\ events = ProcessFileData(f, t, settings.line_length, settings.root)
  OBVIOUS
<1> DEFINE left == t = Unreadable \/ (f # Stdin /\ Ext[f] \notin settings.extensions)
<1>2. /\ pc = "read" /\ UNCHANGED <<env, printed>>
      /\ left => FinishFile(settings)
      /\ ~left => /\ error_suppressions' = {} /\ global_suppressions' = {}
                  /\ todo' = events /\ pc' = "lint" /\ UNCHANGED <<settings, queue>>
  BY <1>1 DEF ReadFile, text, file, ResetNolintSuppressions
<1>3. /\ queue # << >> /\ env \in Environments /\ f \in DOMAIN env.text
      /\ DOMAIN settings = Fields
      /\ AsGiven(settings) /\ LastFiles /\ PrintedIs(Finished(Len(queue)), Missing, {})
      /\ Linted(f)
  BY <1>1, <1>2 DEF NolintInv, FilterInv, IsolatedInv
<1>4. /\ settings.line_length = Given.line_length /\ settings.root = Given.root
      /\ settings.extensions = Given.extensions
  BY <1>3 DEF AsGiven, Set
<1>5. \A g : PrintedFor(g) = IF g \in Finished(Len(queue)) THEN Documented(g) ELSE {}
  BY <1>3 DEF PrintedIs
<1>6. CASE left
  <2>1. Documented(f) = {}
    BY <1>1, <1>3, <1>4, <1>6, DocumentedIs
  <2>2. PrintedIs(Finished(Len(queue)), Head(queue), Documented(Head(queue)))
    BY <1>1, <1>5, <2>1 DEF PrintedIs
  <2> QED
    BY <1>2, <1>3, <1>6, <2>2, LeavingIsolates
<1>7. CASE ~left
  <2>1. t # Unreadable /\ (f = Stdin \/ Ext[f] \in Given.extensions) /\ events = Script(f)
    BY <1>1, <1>4, <1>7 DEF Script
  <2>2. Opened(t, events)
    <3>1. IsText(t)
      BY <1>1, <1>3, <2>1, LintSessionAssumption
    <3> QED
      BY <1>1, <3>1, FileLeads
  <2>3. Len(events) \in Nat
    BY <2>2 DEF Opened
  <2>4. PICK m : m = 0
    OBVIOUS
  <2>5. /\ m \in Nat /\ m <= Len(events) /\ Len(events) = Len(events) - m
        /\ \A i \in 1..Len(events) : events[i] = events[m + i]
        /\ 1..m = {}
    BY ONLY <2>3, <2>4
  <2>6. Parsed(events, m) = {}
    BY <2>4, ParsedGrow
  <2>7. Suppressed(t, events, m, {}, {})
    <3>1. \A c, n : ~Heard(t, Parsed(events, m), c, n)
      BY <2>6 DEF Heard
    <3> QED
      BY <2>5, <3>1 DEF Suppressed
  <2>8. /\ env' = env /\ Head(queue)' = f /\ todo' = events /\ settings' = settings
        /\ error_suppressions' = {} /\ global_suppressions' = {}
        /\ Finished(Len(queue))' = Finished(Len(queue)) /\ env'.text[f] = t
    BY <1>1, <1>2, <1>7 DEF Finished
  <2>9. /\ Given' = Given /\ PromisedFilters(f)' = PromisedFilters(f) /\ Excluded(f)' = Excluded(f)
        /\ Script(f)' = Script(f) /\ \A g : Documented(g)' = Documented(g)
    BY <2>8, PromisesStay
  <2>10. Linted(f)'
    BY <1>3, <2>8, <2>9 DEF Linted
  <2>11. \A g : PrintedFor(g)' = PrintedFor(g)
    BY <1>2 DEF PrintedFor
  <2>12. UNION {Reported(f, events, PromisedFilters(f), i) : i \in 1..m}' = {}
    BY <2>5
  <2>13. PrintedIs(Finished(Len(queue)), f, UNION {Reported(f, events, PromisedFilters(f), i) : i \in 1..m})'
    BY <1>5, <2>8, <2>9, <2>11, <2>12 DEF PrintedIs
  <2>14. Suppressed(env.text[f], events, m, error_suppressions, global_suppressions)'
    BY <2>7, <2>8
  <2>15. Carried(f, events, m)'
    BY <1>3, <2>1, <2>2, <2>5, <2>8, <2>9, <2>10, <2>13, <2>14 DEF Carried
  <2>16. AsGiven(settings)' /\ LastFiles'
    BY <1>2, <1>3, <1>7, <2>9 DEF AsGiven, LastFiles
  <2> QED
    BY <1>2, <1>7, <2>15, <2>16 DEF IsolatedInv
<1> QED
  BY <1>6, <1>7

(* The file has been linted.                                               *)
LEMMA DoneIsolates ==
  ASSUME NolintInv, FilterInv, OnlyFilters, IsolatedInv, DoneProcessing
  PROVE  IsolatedInv'
<1>1. pc = "lint" /\ todo = << >> /\ FinishFile(settings) /\ UNCHANGED <<env, printed>>
  BY DEF DoneProcessing
<1>2. /\ queue # << >> /\ env \in Environments /\ AsGiven(settings) /\ LastFiles
      /\ DOMAIN settings = Fields
  BY <1>1 DEF NolintInv, FilterInv, IsolatedInv
<1>3. PICK f, events, m : Carried(f, events, m)
  BY <1>1 DEF IsolatedInv
<1>4. /\ f = Head(queue) /\ f \in DOMAIN env.text /\ ~Excluded(f) /\ env.text[f] # Unreadable
      /\ (f = Stdin \/ Ext[f] \in Given.extensions) /\ events = Script(f)
      /\ Opened(env.text[f], events) /\ m \in Nat /\ Len(todo) = Len(events) - m
      /\ PrintedIs(Finished(Len(queue)), f, UNION {Reported(f, events, PromisedFilters(f), i) : i \in 1..m})
  BY <1>3 DEF Carried, Linted
<1>5. m = Len(events)
  <2>1. Len(events) \in Nat
    BY <1>4 DEF Opened
  <2> QED
    BY <1>1, <1>4, <2>1
<1>6. Documented(f) = UNION {Reported(f, events, PromisedFilters(f), i) : i \in 1..m}
  BY <1>2, <1>4, <1>5, DocumentedIs
<1>7. PrintedIs(Finished(Len(queue)), Head(queue), Documented(Head(queue)))
  BY <1>4, <1>6
<1> QED
  BY <1>1, <1>2, <1>7, LeavingIsolates

(* Nothing happens.                                                        *)
LEMMA NothingIsolates ==
  ASSUME OnlyFilters, IsolatedInv, UNCHANGED vars
  PROVE  IsolatedInv'
<1>1. UNCHANGED <<env, settings, error_suppressions, global_suppressions, pc, queue, level,
                  cfg_filters, todo, printed>>
  BY DEF vars
<1>2. Given' = Given /\ (LastFiles /\ PrintedIs(Finished(Len(queue)), Missing, {})
                           => LastFiles' /\ PrintedIs(Finished(Len(queue)), Missing, {})')
  BY <1>1, PromisesStay, FilesStay
<1>3. AsGiven(settings) => AsGiven(settings)'
  BY <1>1, <1>2 DEF AsGiven
<1>4. LastFiles => LastFiles'
  BY <1>1 DEF LastFiles
<1>5. \A f : Linted(f) => Linted(f)'
  <2> SUFFICES ASSUME NEW f, Linted(f) PROVE Linted(f)'
    OBVIOUS
  <2>1. PromisedFilters(f)' = PromisedFilters(f) /\ Excluded(f)' = Excluded(f)
    <3>1. env' = env
      BY <1>1
    <3> QED
      BY ONLY <3>1, PromisesStay
  <2> QED
    BY <1>1, <2>1 DEF Linted
<1>6. ASSUME pc = "config", NEW d \in Nat, Climbed(Head(queue), d, cfg_filters), ClimbAt(Head(queue), d, level)
      PROVE  Climbed(Head(queue), d, cfg_filters)' /\ ClimbAt(Head(queue), d, level)'
  <2>1. PICK f, lines, n : f = Head(queue) /\ lines = cfg_filters /\ n = level
    OBVIOUS
  <2>2. Climbed(f, d, lines)' /\ ClimbAt(f, d, n)'
    BY <1>1, <1>6, <2>1, ClimbStays
  <2> QED
    BY <1>1, <2>1, <2>2 DEF Climbed, ClimbAt
<1>7. ASSUME NEW f, NEW events, NEW m, Carried(f, events, m)
      PROVE  Carried(f, events, m)'
  <2>1. PICK some, finished : /\ some = UNION {Reported(f, events, PromisedFilters(f), i) : i \in 1..m}
                              /\ finished = Finished(Len(queue))
    OBVIOUS
  <2>2. PrintedIs(finished, f, some)
    BY <1>7, <2>1 DEF Carried
  <2>3. PrintedIs(finished, f, some)'
    BY <1>1, <2>2, PrintedStays
  <2>4. Finished(Len(queue))' = finished
    BY <1>1, <2>1 DEF Finished
  <2>5. PICK filters : filters = PromisedFilters(f)
    OBVIOUS
  <2>6. /\ PromisedFilters(f)' = filters /\ Script(f)' = Script(f)
        /\ \A i : Reported(f, events, filters, i)' = Reported(f, events, filters, i)
    <3>1. env' = env
      BY <1>1
    <3> QED
      BY ONLY <2>5, <3>1, PromisesStay
  <2>7. UNION {Reported(f, events, PromisedFilters(f), i) : i \in 1..m}' = some
    BY <2>1, <2>5, <2>6
  <2>8. PrintedIs(Finished(Len(queue)), f, UNION {Reported(f, events, PromisedFilters(f), i) : i \in 1..m})'
    BY <2>3, <2>4, <2>7 DEF PrintedIs
  <2>9. Linted(f)'
    BY <1>5, <1>7 DEF Carried
  <2>10. Suppressed(env.text[f], events, m, error_suppressions, global_suppressions)'
    BY <1>1, <1>7 DEF Carried
  <2> QED
    BY <1>1, <1>2, <1>7, <2>6, <2>8, <2>9, <2>10 DEF Carried
<1>8. CASE pc \notin {"main", "next", "config", "read", "lint"}
  BY <1>1, <1>8 DEF IsolatedInv
<1>9. CASE pc = "main"
  BY <1>1, <1>9 DEF IsolatedInv
<1>10. CASE pc = "next"
  BY <1>1, <1>2, <1>3, <1>10 DEF IsolatedInv
<1>11. CASE pc = "config"
  <2>1. /\ AsGiven(settings)' /\ LastFiles' /\ PrintedIs(Finished(Len(queue)), Missing, {})'
        /\ settings'.filters = Given'.filters /\ level' \in Nat
    BY <1>1, <1>2, <1>3, <1>11 DEF IsolatedInv
  <2>2. \E d \in Nat : Climbed(Head(queue), d, cfg_filters)' /\ ClimbAt(Head(queue), d, level)'
    BY <1>6, <1>11 DEF IsolatedInv
  <2> QED
    BY <1>1, <1>11, <2>1, <2>2 DEF IsolatedInv
<1>12. CASE pc = "read"
  <2>1. Linted(Head(queue))'
    <3>1. PICK f : f = Head(queue)
      OBVIOUS
    <3>2. Linted(f)'
      BY <1>5, <1>12, <3>1 DEF IsolatedInv
    <3> QED
      BY <1>1, <3>1, <3>2 DEF Linted
  <2> QED
    BY <1>1, <1>2, <1>3, <1>12, <2>1 DEF IsolatedInv
<1>13. CASE pc = "lint"
  <2>1. \E f, events, m : Carried(f, events, m)'
    BY <1>7, <1>13 DEF IsolatedInv
  <2> QED
    BY <1>1, <1>3, <1>4, <1>13, <2>1 DEF IsolatedInv
<1> QED
  BY <1>8, <1>9, <1>10, <1>11, <1>12, <1>13

(* Every step keeps it.                                                    *)
LEMMA IsolatedStep == NolintInv /\ FilterInv /\ IsolatedInv /\ [Next]_vars => IsolatedInv'
<1> SUFFICES ASSUME NolintInv, FilterInv, IsolatedInv, [Next]_vars PROVE IsolatedInv'
  OBVIOUS
<1>1. env' = env
  BY DEF Next, vars, ParseArguments, StartFile, VisitDirectory, ApplyFilters, ReadFile,
         Lint, DoneProcessing, Return
<1>2. OnlyFilters' = OnlyFilters
  BY ONLY <1>1, PromisesStay
<1>3. CASE ~OnlyFilters
  BY <1>2, <1>3 DEF IsolatedInv
<1>4. CASE OnlyFilters
  <2>1. CASE UNCHANGED vars
    BY <1>4, <2>1, NothingIsolates
  <2>2. CASE ParseArguments
    BY <1>4, <2>2, ParseIsolates
  <2>3. CASE StartFile
    BY <1>4, <2>3, StartIsolates
  <2>4. CASE VisitDirectory
    BY <1>4, <2>4, VisitIsolates
  <2>5. CASE ApplyFilters
    BY <1>4, <2>5, ApplyIsolates
  <2>6. CASE ReadFile
    BY <1>4, <2>6, ReadIsolates
  <2>7. CASE Lint
    <3>1. /\ pc = "lint" /\ UNCHANGED <<env, settings, pc, queue>>
      BY <2>7 DEF Lint
    <3>2. /\ AsGiven(settings) /\ LastFiles /\ \E f, events, m : Carried(f, events, m)
      BY <1>4, <3>1 DEF IsolatedInv
    <3>3. PICK f, events, m : Carried(f, events, m)
      BY <3>2
    <3>4. Carried(f, events, m + 1)'
      BY ONLY NolintInv, <1>4, <2>7, <3>2, <3>3, LintIsolates
    <3>5. \E g, script, k : Carried(g, script, k)'
      BY <3>4
    <3>6. Given' = Given
      BY ONLY <1>1, PromisesStay
    <3>7. AsGiven(settings)' /\ LastFiles'
      BY <3>1, <3>2, <3>6 DEF AsGiven, LastFiles
    <3> QED
      BY <3>1, <3>5, <3>7 DEF IsolatedInv
  <2>8. CASE DoneProcessing
    BY <1>4, <2>8, DoneIsolates
  <2>9. CASE Return
    <3>1. pc' \in {"exit_0", "exit_1"}
      BY <2>9 DEF Return, Exit
    <3> QED
      BY <3>1 DEF IsolatedInv
  <2> QED
    BY <2>1, <2>2, <2>3, <2>4, <2>5, <2>6, <2>7, <2>8, <2>9 DEF Next
<1> QED
  BY <1>3, <1>4

(* What is printed for a file is decided by the file, the command line and *)
(* the configurations above it, whatever the files linted before it: where *)
(* they set no line length and no root, nothing of their filters, their    *)
(* exclusions and their NOLINT comments is left when the next one begins.  *)
THEOREM FilesAreIsolated == Spec => []FilesIsolated
<1>1. Init => IsolatedInv
  BY DEF Init, IsolatedInv
<1>2. IsolatedInv => FilesIsolated
  <2> SUFFICES ASSUME IsolatedInv, OnlyFilters, pc = "next",
                      NEW i \in 1..(Len(env.filenames) - Len(queue))
               PROVE  PrintedFor(env.filenames[i]) = Documented(env.filenames[i])
    BY DEF FilesIsolated, ConfigScope
  <2>1. PrintedIs(Finished(Len(queue)), Missing, {})
    BY DEF IsolatedInv
  <2>2. env.filenames[i] \in Finished(Len(queue))
    BY DEF Finished
  <2> QED
    BY <2>1, <2>2 DEF PrintedIs
<1> QED
  BY <1>1, <1>2, FilterInit, FilterStep, NolintInit, NolintStep, IsolatedStep, PTL DEF Spec
=============================================================================
