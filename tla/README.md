# A TLA+ model of the OpossumDB column store and its linter

The repository holds a small in-memory column store in C++17 (`src/src/lib`),
with tables partitioned into chunks, chunks into segments, and a dictionary
compression that runs one task per column, and the linter that guards its style,
`src/cpplint.py` (Python 2). This directory holds TLA+ modules that model both,
TLC configurations that check them on small instances, and TLAPS proofs of the
properties that matter most.

## 1. The system

| Part | State | Operations | Modelled in |
|---|---|---|---|
| `Table` (`storage/table.*`) | `chunk_size`, `_chunks`, `col_names`, `col_types` | constructor, `add_column`, `append`, `build_chunk`, `compress_chunk`, `row_count`, `column_count`, `chunk_count`, names and types | `Table`, `TableProperties` |
| `Chunk` (`storage/chunk.*`) | `column_segments` | `add_segment`, `append`, `size`, `column_count`, `get_segment` | `Chunk` |
| `ValueSegment<T>` | a growing vector | `append`, `size`, `values`, `operator[]` | `Segments` |
| `DictionarySegment<T>` | sorted dictionary, attribute vector | constructor, `operator[]`, `value_by_value_id`, `lower_bound`, `upper_bound`, `size` | `Segments` (closed form), `Dictionary` (loops) |
| `FixedSizeAttributeVector<T>` | a vector of ids of 1, 2 or 4 bytes | `set`, `get`, `size`, `width` | `Segments`, `Dictionary` |
| `type_cast`, `AllTypeVariant`, `make_shared_by_data_type` | none | conversion, type resolution | `TypeCast`, `Segments` |
| `StorageManager` | map of names to shared tables | `add_table`, `drop_table`, `get_table`, `has_table`, `reset` | `Engine` |
| operators (`AbstractOperator`, `TableWrapper`) | inputs, output | construction, `execute`, `get_output` | `Engine` |
| `Print` | none | reads a table cell by cell and passes it on | `PrintTable`, `Engine` |
| `load_table` | none | reads a file, calls `add_column` and `append` | no |
| `PerformanceWarning` | a process-wide flag, one static per warning | disable, enable, warn | `Warnings`, `Engine` |
| `TableScan`, `GetTable`, `ReferenceSegment` | | declarations without code | no |
| `cpplint.py`: command line, `CPPLINT.cfg`, `ProcessFile`, `main` | `_cpplint_state`, `_root`, `_line_length`, `_valid_extensions` | parse arguments, read configurations, lint a file, exit | `LintSession` |
| `cpplint.py`: suppressions, filters, counts | `_error_suppressions`, `_global_error_suppressions`, `filters`, counters | `Error`, `ParseNolintSuppressions`, backup and restore of filters | `LintSession` |
| `cpplint.py`: includes | `_IncludeState` | one check per line, two at the end of a file | `LintIncludes` |
| `cpplint.py`: nesting | `NestingState`, `_FunctionState` | `Update` for each line, checks at the end of blocks | `LintNesting` |
| `cpplint.py`: comments, strings, brackets | none (passes over the lines) | cleansing, `CloseExpression`, `ReverseCloseExpression` | `LintCleanse`, `LintBrackets`, `LintText` |
| `cpplint.py`: style checks of a line | none | regular expressions | no: inputs of `LintSession` |

How they interact: `Table` owns its chunks by value; a chunk shares its segments
by `shared_ptr`. `append` goes `Table` → `Chunk` → every segment → `type_cast`,
and any of these may throw in the middle. `compress_chunk` hands each segment of
a chunk to a `std::async` task, which reads the segment while no one writes it,
collects the futures in column order and replaces the chunk. The storage manager
and the operators share whole tables; `Print` silences the warnings of the whole
process while it runs. The linter is a program of its own: `main` runs
`ProcessFile` for one file after the other over shared globals; for each file it
climbs through the configuration files above it, cleanses the text, and hands
each line to the nesting state, the include state and the checks, all of which
report through `Error`, where suppressions, filters and verbosity decide.

What is hard about it:

* *Failure in the middle.* `Chunk::append` stores column by column and does not
  undo; `build_chunk` pushes the chunk before it resolves types; `add_column`
  records a column before it resolves its type.
* *Tasks.* `std::async` with its default policy may run a task on a thread or
  inside `get()`. One that throws leaves the collecting loop while others run.
* *Build dependence.* `DebugAssert` disappears in release builds: unknown types
  become null pointers and rows of the wrong length are not refused.
* *Widths.* `uint8_t`/`uint16_t`/`uint32_t` ids, `uint16_t` column counts and
  `uint32_t` row arithmetic.
* *Floating point.* NaN breaks the order that the set and the searches rely on,
  and conversions lose digits.
* *Shared pointers.* A table outlives its name; operators run too early, twice,
  or end in an exception while a disabler lives.
* *Globals of the linter.* Filters, suppressions, the line length and the root
  are process-wide, and several ways lead out of a file.
* *One pass over text.* The linter decides line by line what a block, a comment
  or a bracket is, keeps stacks for it, and reports on lines it has not reached.

What makes the parts correct: a table counts its rows, keeps every stored value,
keeps its columns aligned, and looks like a relation to its users; compression
changes nothing a reader can see, happens whole or not at all, and ends; ids can
be compared in place of values; an operator's output is its input's table for
good. The linter reports for a file what its own text and configurations
deserve, counts what it prints, follows blocks, includes, comments and brackets
as a compiler would, or says that it cannot, and always ends.

## 2. The modules

| Module | What it is |
|---|---|
| `Segments` | value and dictionary segments, attribute vectors, bounds: operators over records |
| `Chunk` | a chunk as a sequence of segments; `append` with its early exits |
| `Table` | the state machine: one caller, and the tasks of a running `compress_chunk` |
| `PrintTable` | which cells the Print operator reads of a table, how the call ends, the lines it writes |
| `TableProperties` | callers, invariants, action properties, the refinement mapping, the inductive invariants |
| `AbstractTable` | what a table promises: typed columns and a sequence of rows |
| `TypeCast` | `type_cast<T>` over a small set of numbers and texts |
| `Dictionary` | the constructor of `DictionarySegment<T>` as a state machine, one step per loop iteration |
| `Warnings` | performance warnings: the flag, nested disablers, the once-only statics |
| `Engine` | the storage manager, the operators and `Warnings`, composed |
| `LintSession` | one run of `cpplint.py`, from the command line to the exit status |
| `LintIncludes` | the `#include` lines of one file |
| `LintNesting` | blocks, conditionals and function lengths, line by line |
| `LintCleanse`, `LintBrackets` | operators: removal of comments and strings; the search for matching brackets |
| `LintText` | all short texts, and what a compiler would make of them, to try these operators on |
| `MCTable`, `MCDictionary`, `MCEngine`, `MCLint...` | instances for TLC |
| `SegmentsProofs` | what dictionary segments are, for columns of any length |
| `DictionaryProofs` | the loops of the constructor compute the closed form, and what follows for them |
| `TableProofs` | the table and any caller: types; stored values, row counts, Print's widths; and a careful caller: chunks fit the schema, nothing fails, the table is a relation |
| `EngineProofs` | warnings, and the engine around them |
| `LintSessionProofs`, `LintIncludesProofs` | filters, counters, NOLINT comments and configurations of a session; the include checks |
| `LintNestingProofs` | blocks and braces; conditionals and the stack of blocks; levels of long functions |
| `LintTextProofs` | the search for the end of a template argument list, and for the partner of a bracket, forwards and backwards; what the removal of comments and strings leaves |

Names follow the source. `chunk_size_of` and `chunk_column_count` are
`Chunk::size` and `Chunk::column_count`. Operators named `..._mutant` are
plausible mistakes; nothing uses them, and each stands before the definition
whose place it would take, to show that a property notices it.

**Data.** A stored value is its position in the total order of its type, an
integer, or `NaN`, which is outside the order. That keeps what the code
distinguishes: equality, order, and what a conversion makes of a value. `Throws`
is the outcome of a call that throws. Ids and offsets count from 0 as in the
code; TLA+ sequences from 1.

**Table.** `col_names`, `col_types` and `chunks` are the members. `pc`, `target`,
`futures` and `dict_chunk` are the locals of a running `compress_chunk`, and
`result` is what the last call did: returned, threw, or crashed the process. An
action is a whole call, except that `compress_chunk` is split where the code
gives up control: `compress_chunk` (up to the last `std::async`), `run_task(k)`
(a task, atomic because a segment is not written while it is compressed),
`collect` (one `future.get()`), `unwind` (an exception leaves the function after
all threads have ended; deferred tasks never run) and `replace_chunk`. After a
call that threw, the caller may go on with the table: that is what exceptions
are for, and where partial failures show.

**Undefined behaviour.** Calling through a null pointer, and indexing
`column_segments` past its end in a release build, is a crash (`result =
"crashed"`), after which nothing happens. The conversion of `log2(0)` to `int`
is any of the branches that make a vector. The conversion of NaN to an integral
type is the smallest value, which x86-64 gives.

**Type cast.** A variant of another type is written as text and read back:
floats keep six digits (`Exact`, `Step`), fractions are cut off for integral
types, numbers out of range and texts that are no numbers throw. Texts are
positions in a short list.

**Dictionary.** The table and the proofs use the closed form
`Segments!DictionarySegment`. Run `dictionary` checks that the loops of the
constructor (`emplace` into a set, vector, width from `(int)log2(n) + 1`, and
`insert` at every position) compute it.

**Print.** It changes nothing, so it is an operator on the state of the table: the
cells it visits, in which order, and the first of them whose reading fails. Its
widths have one element for every column of the *last* chunk and are indexed,
unchecked, with the columns of every chunk. In a release build no chunk is wider
than the last (`PrintInBounds`). In a debug build one can be: a column of an
unknown type makes `build_chunk` throw after it has added a chunk with only the
columns before it, which is then the last. For a careful caller it prints the relation.

**Warnings.** One thread, whose disablers are destroyed in reverse order as C++
scopes do it. A site first reached in the scope of a disabler has used up its
static object and stays silent for the rest of the execution, although the
comment on the class says that warnings are enabled again after the scope; the
property speaks of first uses only.

**Engine.** It extends `Warnings` and adds the catalogue, the operators and what
`Print` does to both, on one thread. What a table holds is left to `Table`: here
it is readable or makes `Print` throw, and the client may turn it from one into
the other at any time. Calls of the storage manager that throw change nothing and
are no steps. `Print` is three kinds of steps: it begins (disabler, first
dereference of the input's output, which may be null: a crash), reads cells, and
ends by returning the table or by an exception, with the disabler gone in either
case. Operators are made and executed in any order and any number of times,
though a comment asks for one execution; null pointers can be stored as tables.

**LintSession.** `env` is what a run is given: the options of the command line in
their order, the files, their texts and the configuration files above them. A
line of a text carries its findings, each with the check it comes from, because
the order of the checks within `ProcessLine`, and which of them look ahead,
decides what a NOLINT comment can hold back. `ParseArguments` is one step
(nothing is observable in between), one step visits one directory or makes one
report. The header guard and the line length are computed from `_root` and
`_line_length`, since these are what leaks. `Documented(f)` says what the usage
text promises for a file, from its own text and configurations alone; the
properties compare it with what was printed.

**LintIncludes.** The file is not given in advance: every step adds an include, a
directive, a line of code, or ends the file. Header names are directories, words
and an extension; which headers exist on disk and what they include is an input.

**LintNesting.** A line is a list of the tokens the regular expressions look for.
The thresholds 10, 250 and 400 are constants.

**LintCleanse, LintBrackets, LintText.** The first two are pure: lines in, lines
or positions out, with recursive functions where the code loops. `LintText` grows texts piece
by piece; `Lexed` is the reference for comments and strings (one pass with a
state, as in a compiler) and `Matching` the one for brackets (counts of brackets
between two places). A line that `Lexed` calls odd has a quotation mark within a block
comment, or an end of a comment where none is open; one that it calls hidden belongs to
a comment that the linter does not see end where it ends, or looks like one within a raw string.

## 3. The runs

Passing:

| Run | Instance | Shows |
|---|---|---|
| `table_debug` | 2 columns, 2 chunks of 2 rows, 1 unknown type, 4 kinds of rows; any caller; weak fairness | `TypeOK`, `RowCountExact`, `AppendOnly`, `Immutable`, `AllOrNothing`, `CompressEnds` with `DebugAssert` on |
| `table_release` | the same with `DebugAssert` off | `RowCountExact`, `PrintInBounds`, `AppendOnly` |
| `careful_caller` | 2 columns, 3 chunks, only documented use | `Rectangular`, `SchemaMatches`, `NeverFails`, `PrintsRelation`, `IsRelation` |
| `dictionary` | up to 5 float values and NaN, ids of 1, 2 and 3 bits | `MatchesClosedForm`; without NaN also `Lossless`, `DictionaryTight`, `ScanByIds`, `InvalidIdUnused` |
| `engine` | 2 names, 2 tables, 3 operators, 2 warning sites, 3 nested disablers | `EngineTypeOK`, `OutputIsSource`, `OutputsKept`, `PrintIsSilent`, `WarnsOutsideScopes` |
| `lint_session` | 2 files in nested directories, 13 command lines, 49 pairs of configurations, texts with every kind of suppression | `FilesIsolated`, `NolintObeyedInOrder`, `TotalsAgree`, `FiltersKept`, `Finishes` |
| `lint_includes` | all files of up to 5 lines over 7 includes, 4 directives, code | `OrderExact`, `NeverForgotten`, `DuplicatesReal`, `EndReportsReal` |
| `lint_nesting` | all files of 6 lines with conditionals, of 4 with blocks of every kind, of 5 with functions | `FirstBranchCounts`, `BlocksMatchBraces`, `LongFunctionsPrinted` |
| `lint_text` | all texts of 6 pieces of comments and strings, all of 5 pieces of brackets and operators, on any number of lines | `CodeIsWhatIsLeft`, `BracketsMatch`, `TemplateListsBalance` |

Violations, each a disagreement between the code and what it says of itself
(details under "findings" in `PROJECT.json`):

| Run | What TLC finds |
|---|---|
| `partial_row` | a row that fails at its second value leaves the first column longer |
| `config_scope` | `linelength` or `root` of one directory's `CPPLINT.cfg` decides what is reported for files elsewhere |
| `nolint_ahead` | an empty loop body is reported on a later line whose NOLINT has not been read |

`FilesIsolated` and `NolintObeyedInOrder` are the parts of the last two that do
hold: everything but those two options is kept apart, and a report heeds every
NOLINT comment but those `Heeded` names: `CheckForHeaderGuard` parses the two lines
of the guard only, so a NOLINTNEXTLINE before them comes too late
(`cpplint.py:1821`); `CheckEmptyBlockBody` parses nothing on the later line it
reports on, nor does the removal of comments; and an unknown category is reported
as soon as its own comment is read.

Noted while modelling and not given a run: `row_count` is computed in `uint32_t`
and wraps at 2^32 although it is declared `uint64_t` (`table.cpp:81`); the comment on `upper_bound`
(`dictionary_segment.hpp:113`) has the comparison the wrong way round;
`FixedSizeAttributeVector::set` inserts where its comment says it sets, which is
the same for the constructor, its only caller; and `add_column` does not refuse a
table with entries, as `table.hpp:68` has it, but adds the column to the last
chunk only; a table made with `chunk_size` 0 counts at most one row; a last chunk
that was compressed refuses all further rows; NaN cannot be read back from a
dictionary segment; the variant `lower_bound` of an `int` segment cuts 1.5 down to 1.

In the linter: the usage text (line 91) gives the filter `FOO` the meaning of
`-FOO`, but `AddFilters` raises an error for it; the filter lines *within* one `CPPLINT.cfg`
are applied last line first; a NOLINT of unknown category is reported twice when
its line is parsed ahead; the `#else` of an outer conditional empties the list of
the last inner one, so that nested conditionals can report a duplicate include
that is none (`DuplicatesReal` speaks of unnested ones); quotation marks within a
comment confuse the cleansing; `RemoveMultiLineComments` looks for the end of a longer comment
at the ends of lines only, so that in

    /*
    */ // x
    f();
    /* */

it removes all four lines with the call of `f`, without a word, and it takes a line
of a raw string that begins with `/*` for the start of a comment
(`CodeIsWhatIsLeft` leaves both aside); only files
with the extension `h` are asked for a header guard.

**Bounds.** `MaxColumns`, `MaxChunks` and `MaxRows` bound what callers do.
Two columns let a row fail at its second value, a schema be shifted by one, and
one task throw while the other runs or is deferred;
two chunks have a full one and a last one; a chunk of two rows can be empty, half
full and full. `U8`, `U16` and `U32` are small numbers so that
the limits of the id widths are inside the model. In `MCDictionary` the id widths
have one, two and three bits: every width, each boundary and the "Not enough
memory" branch are reached. One column name is enough because no operation of
the model looks at names. In `MCEngine` three operators make a chain of a wrapper
and two Prints, two tables and two names let a name change hands while an operator
holds on; tables and operators are interchangeable, which is the only symmetry used.
Two files are enough for a leak from one to the next, in either order, and
nested directories for an override. `MaxLines`, `MaxComments` and `MaxBrackets`
bound the texts: five lines hold a conditional with two branches and an include
before, within and after; six lines two nested conditionals that are closed.

`careful_caller`, `dictionary` and the linter's runs switch the deadlock check
off, since a careful caller at its bounds, a finished constructor and a finished
linter really stop. In the other runs `compress_chunk` with an invalid id, or the
crashed process, always leaves a step.

**Fairness.** `Fairness` is weak fairness of the caller's own steps and of every
task: a thread that can run eventually does, which the operating system
guarantees to `std::async` threads, and a deferred task runs on the thread that
called `get()`. No fairness is assumed of the calls a user may make. The linter is
one process that waits for nobody, so `LintSession` assumes weak fairness of its
next step; `Finishes` then depends on its loops only.

**Careful callers.** `SchemaFirst` is the rule of `table.hpp`: columns first,
with types that exist. `CarefulNext` adds: rows that fit the schema, and a chunk
is compressed when it is full and only once. `IsRelation` then says that
`Table` implements `AbstractTable` under the mapping that reads row `r` at offset
`(r - 1) % chunk_size` of chunk `(r - 1) \div chunk_size`: every step of
`compress_chunk` is a stuttering step.

## 4. The proofs

`tlapm` checks every proof; none relies on an unproved fact. Besides the
assumptions on the constants that TLC evaluates in every run, a theorem assumes
what it says in its `ASSUME`.

| Theorem | Assumes | Says |
|---|---|---|
| `TypeCorrect` | | `Spec => []TypeOK` |
| `ContentsAppendOnly` | fewer than 2^16 columns, no NaN | `Spec => AppendOnly` |
| `CompressedImmutable` | fewer than 2^16 columns | `Spec => Immutable` |
| `CompressAllOrNothing` | fewer than 2^16 columns | `Spec => AllOrNothing` |
| `PrintWidthsInBounds` | release build, fewer than 2^16 columns | `Spec => []PrintInBounds` |
| `RowCountCorrect` | `chunk_size > 0`, fewer than 2^16 columns and 2^32 chunks | `Spec => []RowCountExact` |
| `ChunksRectangular` | `chunk_size > 0`, fewer than 2^16 columns | `CarefulSpec => []Rectangular` |
| `ChunksMatchSchema` | the same | `CarefulSpec => []SchemaMatches` |
| `CarefulNeverFails` | the same | `CarefulSpec => []NeverFails` |
| `CarefulTableIsRelation` | also room for fewer than 2^32 rows, no NaN | `CarefulSpec => IsRelation`: `Table` implements `AbstractTable` |
| `CarefulPrints` | the same | `CarefulSpec => []PrintsRelation` |
| `IdsAreRanks` | a column without NaN | ids are ranks, fit their width, and miss `INVALID_VALUE_ID` |
| `RoundTrip` | a column without NaN | `Decode(DictionarySegment(type, values, w)) = values` |
| `ScanByIdsCorrect` | a column without NaN | comparing ids with a bound decides the comparison of values |
| `LoopsMatch` | | `Dictionary`'s `Spec => []MatchesClosedForm`, NaN included |
| `LossIsNone`, `DictionaryIsTight`, `ScansByIds`, `InvalidIsUnused` | | `Spec => []Lossless` and so on, which speak of columns without NaN |
| `NestedDisablers` | | `Spec => WarnsOutsideScopes`, for any depth and number of sites |
| `OutputsAreSources`, `EngineTypes` | | `EngineSpec => [](EngineTypeOK /\ OutputIsSource)` |
| `OutputsAreKept` | | `EngineSpec => OutputsKept` |
| `PrintSilent` | | `EngineSpec => PrintIsSilent` |
| `EngineWarns` | | `EngineSpec => WarnsOutsideScopes`, since the engine implements `Warnings` |
| `FiltersRestored` | | `LintSession`'s `Spec => []FiltersKept` |
| `CountersRight` | | `Spec => []TotalsAgree` |
| `NolintIsObeyed` | | `Spec => []NolintObeyedInOrder` |
| `FilesAreIsolated` | | `Spec => []FilesIsolated` |
| `NothingForgotten` | | `LintIncludes`' `Spec => []NeverForgotten` |
| `DuplicatesAreReal` | | `Spec => []DuplicatesReal` |
| `MissingAreMissing` | | `Spec => []EndReportsReal` |
| `OrderIsExact` | | `Spec => []OrderExact` |
| `LongFunctionsArePrinted` | | `LintNesting`'s `Spec => []LongFunctionsPrinted` |
| `OnlyFirstBranchesCount` | | `Spec => []FirstBranchCounts` |
| `BlocksAreBraces` | | `Spec => []BlocksMatchBraces` |
| `TemplateListsAreBalanced` | | `LintText`'s `Spec => []TemplateListsBalance` |
| `BracketsDoMatch` | | `Spec => []BracketsMatch` |
| `CodeIsLeft` | | `Spec => []CodeIsWhatIsLeft` |

Those about the table hold for every number of rows, columns, chunks and distinct
values, for both builds unless they say so, and for every order of the tasks;
those about the linter for every command line, file tree and text of the model, of
any length.

*Segments.* The dictionary is defined by rank: entry `i` is the element with
`i - 1` smaller ones. Ranks of a finite set of integers are a strictly monotone
bijection onto `0..n-1` (`RankMonotone`, `RankBijective`), which needs cardinality
arithmetic and no induction over the sequence. `std::find` then returns the rank
(`FindIndexIsRank`), the chosen width holds every rank (`ChosenWidthSuffices`),
and the round trip and the bounds follow.

*Table.* `TypeOK` is not inductive: a finished `compress_chunk` writes
`dict_chunk` into the table, and the tasks index `col_types`. `Shape` adds that no
chunk has more segments than the schema has types, that there is one future per
segment of the target, and no more results than futures. `ContentInv` adds
`NullsAligned` (which segments are null pointers, needed because a release build
compresses a null segment to a null segment) and `TasksFaithful` (a finished task
holds the compressed form of its column, and the results collected so far are
those of the first columns). From it `StepEffect` lists the six things a step can
do to the chunks, and `StepFates` says what becomes of each column: it stays, it
grows at its end in the last chunk, or it is compressed. The three action
properties are read off this, and `PrintWidthsInBounds` from `NullsAligned`, which
says that in a release build the last chunk has all columns. For `RowCountCorrect`, `ChunksFilled` adds that all
chunks but the last have exactly `chunk_size` rows by their first column and the
last has at most as many; it fails for `chunk_size` 0. The number of rows is then the cardinality of a product and a remainder.

*Careful caller.* `CarefulInv` adds to `ContentInv` and `ChunksFilled` that every
chunk has exactly the segments of the schema, none null, each of its column's type
and all equally long, and that a dictionary segment is a full one (`ChunkFits`).
The last clause is what lets `append` go on: the chunk it writes to is not full,
so nothing in it is compressed. `TasksFit` carries the same through
`compress_chunk`: no task has thrown, and a finished one has made a segment of its
column's type. `Rectangular`, `SchemaMatches` and `NeverFails` are not inductive by
themselves: whether an append throws depends on the types of the segments, whether
these stay right on the tasks. For the refinement, `RowsIn` says that the rows of
the mapping are the rows of the chunks laid end to end, `RowPosition` that quotient
and remainder by `chunk_size` invert this; an append is then one row more at the
end, a new chunk and every step of `compress_chunk` change no `Stored` value (by
`RoundTrip`, hence without NaN), and `row_count` is exact below 2^32. Print reads
only cells that are there (`ChunkFits`), so it does not fail.

*Dictionary.* `LoopInv` says what each loop has computed after `i` values: the
set holds the first `i` values by the rule of an ordered set with NaN
(`Collected`), the vector their ids (`Ids`), and between the loops dictionary and
width are the closed form's (`Chosen`). `emplace`ing one value more is the only
place where NaN needs cases. The width formula `(int)log2(n) + 1 <= bits` equals
the closed form's comparison with `2^bits` because powers of two are monotone;
the provers have no rule for `^`, so `PowerAssumption` gives `2^0` and the doubling
law, which TLC evaluates, and monotony follows by a least counterexample, which
needs only that a non-empty set of naturals has a least element. The other four
theorems are the ones of `SegmentsProofs`, carried over to the finished segment;
for these the ids cast to their width must be what they were, and the cast of
`INVALID_VALUE_ID` the largest id of the width (`CastDown`, since the smaller
powers divide `U32`).

*Warnings.* The flag alone is not enough: a disabler restores what it saw when it
was made. `Nested` adds that the outermost living disabler saw warnings on and
every other one saw them off.

*Engine.* `OperatorsEffect` lists what a step can do to the operators: nothing,
make one without an output, or give one the output it would compute now.
`OutputIsSource` makes that last case harmless: an operator that has an output
computes the same again (`ExecutedAgain`), so the operators after it in the chain
are not disturbed. `RunningPrints` is needed because a Print takes several steps.
For the warnings, every step of the engine is a step of `Warnings`
(`WarningsStep`), which carries `NestedDisablers` over; `PrintDisables` adds that a
disabler lives while a Print runs.

*Session.* `FilterInv` adds to `FiltersKept` that while a file is processed the
backup holds the filters of the command line: every way out of `ProcessFile`
restores from there. `TotalsInv` adds that `printed` is a sequence whose counts the
tally holds, and that nothing is printed before `main`: the counting style, which
decides the keys, is fixed by then. For the NOLINT comments, `Leads(S, t, events, A, B)`
says of a piece of `ProcessFileData` what a triple of before and after says of a
program: when the comments of the lines `A` have been read, every report in it finds
those it heeds read, and afterwards those of `B` are. Pieces one after the other
compose (`ThenLeads`), a loop over the lines keeps the lines before the current one
read (`LoopLeads`), and each check has its triple (`FoundLeads`, `LineLeads`,
`GuardLeads`), up to the whole file (`FileLeads`). The invariant `NolintInv` then holds
one fact about the reports still to be made, with the lines whose comments are in
force (`Obeyed`) for `A`; a step of `Lint` takes the first event off it
(`GuardedTail`). `FilterDecides` shows that the loop of `_ShouldPrintError`, which
assigns a flag once per filter, comes to what the usage text says of an ordered list
of filters (`Passes`).

`FilesIsolated` compares a whole run with a closed form for each file, so
`IsolatedInv` has one clause for each part of the way there. Between two files, what
is printed is what is documented for the files finished, the first ones of the
command line. During the climb, the filter lines collected are those of the
directories visited, no one of which excludes the file or ends the climb
(`Climbed`, `ClimbAt`); `ConfigMeans` says what the loop over the lines of one
configuration leaves, so one round of the climb is one directory more (`ClimbOne`),
and where it ends the filters are the promised ones (`ClimbEnds`). While the file is
linted, the reports still to be made are the rest of its documented ones, the
suppressions are those of the comments parsed so far and of the file, and what is
printed for it is what the reports made should print (`Carried`); `LintIsolates`
takes this through each kind of report, with `FilterDecides` for the filters. What is
documented depends on `env` alone (`PromisesStay`). `OnlyFilters` is needed in one
place: the line length and the root a file is linted with are then those of the
command line; `config_scope` shows that without it the property fails.

*Includes.* The four properties look back over the lines read; each needs to know
what the lists and the section stand for. `Kept`: an unconditional include is in a
list which, inside a conditional, is not the last one, the only one `#else`
empties. `Traced`: every entry stands for an include; unless its list is the last,
a conditional has been opened since, and in the last list no branch has been begun
since. `DepthsNatural`, that no `#endif` comes without its `#if`, turns this into
the branches of one conditional. `SectionOK` says which history of includes since
the last directive each of the sections 0 to 4 stands for; `OrderExact` is then one
case for each type of include. `EndSilent` says that the reports at the end come at
the end, when `Kept` holds; `CheckHeaderFileIncluded` searches for the header's name
within the names included, so an included header is found because a name occurs
within itself (`WithinItself`).

*Nesting.* `LongFunctionsPrinted` needs only types besides itself (`LevelInv`), since
no other check reports in the category; the point is `LevelReached`, that
`base * 2^verbosity < lines` gives a level of at least the verbosity
(`PowersAssumption` lets the provers take `2^k` for a number). For
`FirstBranchCounts`, `UpdateAlike` says that what a line does to the stack of blocks
depends on that stack alone, not on the conditionals or on what was found before:
each loop of `Update` is a run of its body, and the runs of two states with the same
stack stay in step (`TokenLoop`, `NamespaceLoop`). `BranchInv` relates the state to
the file without its later branches: there is one entry of `pp_stack` for every open
conditional, marked exactly when its `#else` was read (`Conditionals`); the
stack is the one of the first branches outside the later ones, and inside them it
is what the outermost conditional with an `#else` has kept (`KeptStack`); and a
state that skips the later branches never sees an `#else` (`NoElse`). The property by
itself is not inductive: it says nothing inside a later branch, where the code goes
on pushing and popping, and `#endif` puts the kept stack back.

`BlocksMatchBraces` speaks of the ends of lines, but the code gets there by a pass over
the namespaces of the line, a class, and a pass over the tokens that are left. `Matched`
relates the state to the tokens read so far, anywhere in a line: the blocks are as many
as the open braces, all but the innermost one have seen theirs, and if that one waits,
then the last head of a class or a namespace still does (`Waits`). The converse does not
hold: the code takes a class only at the start of what is left of a line, so a
head further on waits and no block stands for it. `WellFormedSays` turns what
`WellFormed` says of the whole file into what is needed at one token: no closing brace
finds the stack empty, and neither a closing brace nor another head comes while a head
waits. `TokenKeeps` then goes through the kinds of tokens. A namespace skips everything
up to the first brace of its line, so `NamespaceKeeps` needs that nothing is closed on
the way (`NothingClosed`), the last condition of `WellFormed`.

*Brackets.* `TemplateListsBalance` compares the end that the search finds with counts of
brackets between two places. While the search that began at a `<` goes on (`Alive`),
that `<` is at the bottom of its stack, and the brackets of the other kinds on the stack
(`Brackets`) are as many as were opened and not closed since. So the stack can only
become empty by a `>` that finds none of them (`EndsWell`), and a `;` that the search
survives lies between brackets, since it drops every `<` above them (`DroppedAngles`).
`StepHolds` goes through the kinds of characters, `LineHolds` and `ListsEnd` through
lines and texts; the text itself only has to consist of lines (`Texts`).

For `BracketsMatch` counts are not enough: the stack holds brackets, and two of
different kinds may cross. The `Height` of a position is the number of brackets opened and
not closed up to it, of all kinds but `<`. Two brackets are a `Pair` if the closing one is one
lower than the opening one and nothing between them is lower than the opening one; a bracket has
at most one partner on either side (`OnePartner`, `OnePair`), of whatever kind.
While the search that began at `p` goes on (`Seeks`), the brackets on its stack are, from the
bottom, just those since `p` that wait for their partner (`Pending`, `Stacked`, `Ranked`),
every other one has met a partner of its own kind (`Sorted`), and nothing was lower
than `p`. So the search ends at the partner of `p`, with everything between
well paired (`Solves`), or it gives up (`Fails`), and then two brackets of different kinds
are a pair (`Crossed`), or the text ends first. The way back (`Returns`) is not the
mirror image, since the two searches treat `<` and `>` differently; but every opening
bracket it meets between `q` and `p` is the partner of the one on top of its stack
(`TopOpens`), because the way there was solved, and so it can neither give up nor stop
before `p`. What either search takes for an operator around a `<` or `>` never
contains a bracket of another kind (`NoBracketBefore`). `BalancedIs` turns heights back into the counts
of `Matching`.

*Comments and strings.* The code takes four passes over a text, each of which undoes what it
finds; the reference takes one, and knows at every piece where it is. So the proof carries the
state of the reference (`ScanLine`, which stops where `CleanseComments` cuts the line, and
is otherwise that of `LexPieces`) through the passes: each round of a pass leaves the state at
the end of the line as it was, and there is nothing for the pass to do when its rounds are over. For a
raw string, what comes before it is outside of strings or within a line comment, since the
quotation marks before a mark pair up (`InString`); once no raw string begins on the line
any more (`Settled`), the line as it is now stands for the one that was read (`Stands`, `RawLine`).
`_CollapseStrings` keeps the state and the code, each string emptied, and leaves one quotation
mark at most (`CollapsedIs`). `CleanseComments` drops block comments in pairs (`Tidy`,
`DropRound`); when none is left, what is there is the code, or the linter complains
(`CodeOrComplaint`). That is `LineIsCode`. For a text, `RemovedIs` says which lines
`RemoveMultiLineComments` replaces: those `Within` a comment from the start of a line to an
end of a line. `NextLineIsCode` then relates the reference's state at the end of a line
to what the linter knows there, which is a comment that goes on, a raw string, or code
(`StandsIn`), and `TextIsCode` takes that through the lines. The bounds of the loops are part
of it: that as many rounds as a line has pieces are enough is shown by a length that falls
or a position that grows with each round.

*What the proofs changed in the model.* `EndReportsReal` had claimed for both checks
at the end that they look into the file's own header; `CheckHeaderFileIncluded`
does not, and the property now says so. The options of `LintSession` are the last
given of each kind (`LastGiven`) and a written name is a function of its parts
(`Written`), in place of folds that the provers cannot unfold; so are the loops of `LintBrackets`,
`LintNesting`, `FirstBranches`, `ReadConfig` and `IsFiltered` recursive functions.
`ProcessLine` and `CheckLineEnds` pass over the findings once for each stage, in
place of `SelectSeq`. The cases of `ConfigLine` overlapped, and no longer do.
`NolintObeyedInOrder` had exempted whole categories; it names the lines each report
heeds (`Heeded`), which is more, and the inputs say where a check may report
(`FoundFrom`). `Promised` takes the nearest directory that gives a value, in place of
a search from the inside out. The types of includes have the
names of the source's constants. `WellFormed` had accepted
`namespace a = b; } void f() {`, where the code takes the brace of `f` for that of the
namespace and never sees the other one: the proof of `BlocksMatchBraces` stopped there,
and with this line among its inputs the run finds the property violated. `WellFormed`
now leaves such lines out, and the run has them. The search for brackets had gone on to
the next line with an empty stack, which the code does not (`while stack`); `CloseLine`
and `OpenLine` now stop. `CodeIsWhatIsLeft` had left aside a longer comment that ends before code on
its last line, which is not enough: where it ends before another comment, or begins within a raw
string, lines further on are lost, as above. The shortest texts of this kind are longer
than those of `lint_text`, so TLC had not seen them, and the proof did not go through; the
property now names what is hidden (`LexLine`), as exactly as the proof needs it.
The passes of `LintCleanse` and the reference are recursive functions in place of folds.

*Only model-checked.* `CompressEnds` and `Finishes`, which are liveness under fairness
and out of the prover's reach. Every other property of the passing runs is a theorem.

## 5. What is not modelled, and the plan

Not modelled: estimates of memory usage, the layout of printed tables, file I/O
(`load_table` is a caller of `add_column` and `append` and keeps no state),
compile-time machinery, functions that are declared and not defined
(`emplace_chunk`, `add_column_definition`, `create_new_chunk`, `TableScan`,
`GetTable`, `ReferenceSegment`), and the build scripts. Callers that change a chunk
through `get_chunk` do not exist in the repository; 2^16 columns are excluded by
the assumptions of the theorems. Two threads that use one table at once are outside the
contract (`table.hpp` says `append` is not thread-safe).

Of the linter: the checks that match a regular expression against a line and keep
no state (spacing, casts, names, unsafe functions and the like), whose findings are inputs of
`LintSession`; single quotes, escapes and raw strings with a delimiter of their
own; the place of the `DISALLOW` macros, `last_line` of a class and
`InTemplateArgumentList`; the formats of the output.

Nothing that the prover can reach is left of the plan: every invariant and every action
property of the passing runs is proved.
