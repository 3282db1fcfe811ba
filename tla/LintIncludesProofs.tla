------------------------- MODULE LintIncludesProofs -------------------------
(***************************************************************************)
(* What the include checks report, for files of any length, any nesting of *)
(* conditionals and any headers: the theorems behind NeverForgotten,       *)
(* DuplicatesReal, EndReportsReal and OrderExact.                          *)
(***************************************************************************)
EXTENDS LintIncludes, FiniteSetTheorems, SequenceTheorems, TLAPS

LineTypes ==
  [kind : {"include"}, include : Includes]
    \cup [kind : {"directive"}, directive : {"if", "elif", "else", "endif"}]
    \cup [kind : {"code"}, uses : SUBSET Required]

Entries == [header : {x.header : x \in Includes}, line : Nat]

IncludesTypeOK ==
  /\ file \in Files
  /\ lines \in Seq(LineTypes)
  /\ include_list \in Seq(Seq(Entries))
  /\ include_list # << >>
  /\ done \in BOOLEAN

-----------------------------------------------------------------------------
(* Lines already read                                                      *)

(* The step reads the line x.                                              *)
Reads(x) == x \in LineTypes /\ lines' = Append(lines, x)

(* The elements of a sequence after one more.                              *)
LEMMA LinesRead ==
  ASSUME lines \in Seq(LineTypes), NEW x, Reads(x)
  PROVE  /\ lines' \in Seq(LineTypes)
         /\ Len(lines) \in Nat /\ Len(lines') = Len(lines) + 1
         /\ lines'[Len(lines) + 1] = x
         /\ \A k \in 1..Len(lines) : lines'[k] = lines[k]
BY DEF Reads

(* The directives of a prefix of the file are a finite set.                *)
LEMMA DirectivesFinite ==
  ASSUME NEW n \in Nat, NEW ds
  PROVE  /\ IsFiniteSet(Directives(n, ds))
         /\ Cardinality(Directives(n, ds)) \in Nat
         /\ Directives(n, ds) \subseteq 1..n
<1>1. Directives(n, ds) \subseteq 1..n
  BY DEF Directives
<1>2. IsFiniteSet(1..n)
  BY FS_Interval
<1> QED
  BY <1>1, <1>2, FS_Subset, FS_CardinalityType

(* The depth is an integer.                                                *)
LEMMA DepthType ==
  ASSUME NEW n \in Nat
  PROVE  Depth(n) \in Int
<1> DEFINE a == Cardinality(Directives(n, {"if"}))
           b == Cardinality(Directives(n, {"endif"}))
<1>1. a \in Nat /\ b \in Nat
  BY DirectivesFinite
<1>2. Depth(n) = a - b
  BY DEF Depth
<1> HIDE DEF a, b
<1> QED
  BY <1>1, <1>2

(* Reading a line changes nothing about the lines before it.               *)
LEMMA PrefixKept ==
  ASSUME lines \in Seq(LineTypes), NEW x, Reads(x), NEW n \in 0..Len(lines)
  PROVE  /\ \A ds : (Directives(n, ds))' = Directives(n, ds)
         /\ (Depth(n))' = Depth(n)
<1>1. Len(lines) \in Nat /\ \A k \in 1..n : lines'[k] = lines[k]
  BY LinesRead
<1>2. \A ds : (Directives(n, ds))' = Directives(n, ds)
  BY <1>1 DEF Directives
<1> QED
  BY <1>2 DEF Depth

(* The directives and the depth after the line that was read.              *)
LEMMA LineAdded ==
  ASSUME lines \in Seq(LineTypes), NEW x, Reads(x), NEW n, n = Len(lines)
  PROVE  /\ \A ds : (Directives(n + 1, ds))' =
                       Directives(n, ds) \cup
                         (IF x.kind = "directive" /\ x.directive \in ds THEN {n + 1} ELSE {})
         /\ (Depth(n + 1))' =
              IF x.kind = "directive" /\ x.directive = "if" THEN Depth(n) + 1
              ELSE IF x.kind = "directive" /\ x.directive = "endif" THEN Depth(n) - 1
              ELSE Depth(n)
<1>1. n \in Nat
  OBVIOUS
<1>2. /\ lines'[n + 1] = x
      /\ \A k \in 1..n : lines'[k] = lines[k]
  BY <1>1, LinesRead
<1>3. ASSUME NEW ds
      PROVE  (Directives(n + 1, ds))' =
               Directives(n, ds) \cup
                 (IF x.kind = "directive" /\ x.directive \in ds THEN {n + 1} ELSE {})
  <2>1. (Directives(n + 1, ds))' =
          {k \in 1..n + 1 : lines'[k].kind = "directive" /\ lines'[k].directive \in ds}
    BY DEF Directives
  <2>2. \A k : k \in 1..n + 1 <=> k \in 1..n \/ k = n + 1
    BY <1>1
  <2> QED
    BY <1>2, <2>1, <2>2 DEF Directives
<1>4. ASSUME NEW ds
      PROVE  (Cardinality(Directives(n + 1, ds)))' =
               IF x.kind = "directive" /\ x.directive \in ds
                 THEN Cardinality(Directives(n, ds)) + 1 ELSE Cardinality(Directives(n, ds))
  <2>0. n + 1 \notin 1..n
    BY <1>1
  <2>1. n + 1 \notin Directives(n, ds) /\ IsFiniteSet(Directives(n, ds))
    BY <1>1, <2>0, DirectivesFinite
  <2>2. Cardinality(Directives(n, ds) \cup {n + 1}) = Cardinality(Directives(n, ds)) + 1
    BY <2>1, FS_AddElement
  <2>3. CASE x.kind = "directive" /\ x.directive \in ds
    <3>1. (Directives(n + 1, ds))' = Directives(n, ds) \cup {n + 1}
      BY <1>3, <2>3
    <3>2. (Cardinality(Directives(n + 1, ds)))' = Cardinality(Directives(n, ds)) + 1
      BY <2>2, <3>1, Zenon
    <3> QED
      BY <2>3, <3>2
  <2>4. CASE ~(x.kind = "directive" /\ x.directive \in ds)
    <3>1. (Directives(n + 1, ds))' = Directives(n, ds)
      <4>1. (IF x.kind = "directive" /\ x.directive \in ds THEN {n + 1} ELSE {}) = {}
        BY <2>4, Zenon
      <4>2. Directives(n, ds) \cup {} = Directives(n, ds)
        OBVIOUS
      <4> QED
        BY <1>3, <4>1, <4>2, Zenon
    <3> QED
      BY <2>4, <3>1
  <2> QED
    BY <2>3, <2>4
<1> DEFINE a == Cardinality(Directives(n, {"if"}))
           b == Cardinality(Directives(n, {"endif"}))
           a2 == (Cardinality(Directives(n + 1, {"if"})))'
           b2 == (Cardinality(Directives(n + 1, {"endif"})))'
<1>5. a \in Nat /\ b \in Nat /\ Depth(n) = a - b /\ (Depth(n + 1))' = a2 - b2
  BY <1>1, DirectivesFinite DEF Depth
<1>6. /\ a2 = IF x.kind = "directive" /\ x.directive = "if" THEN a + 1 ELSE a
      /\ b2 = IF x.kind = "directive" /\ x.directive = "endif" THEN b + 1 ELSE b
  BY <1>4
<1> HIDE DEF a, b, a2, b2
<1>7. (Depth(n + 1))' =
        IF x.kind = "directive" /\ x.directive = "if" THEN Depth(n) + 1
        ELSE IF x.kind = "directive" /\ x.directive = "endif" THEN Depth(n) - 1
        ELSE Depth(n)
  BY <1>5, <1>6
<1> QED
  BY <1>3, <1>7

(* The open conditionals now.                                              *)
Now == Depth(Len(lines))

(* The depth now is that of the last line.                                 *)
LEMMA NowIsLast ==
  ASSUME lines \in Seq(LineTypes), NEW x, Reads(x), NEW n, n = Len(lines)
  PROVE  Now' = (Depth(n + 1))' /\ Now = Depth(n) /\ Depth(n) \in Int /\ n \in Nat
<1>1. n \in Nat /\ (Len(lines))' = n + 1
  BY LinesRead
<1>2. Now' = (Depth(n + 1))'
  BY <1>1 DEF Now, Depth, Directives
<1> QED
  BY <1>1, <1>2, DepthType DEF Now

-----------------------------------------------------------------------------
(* Lists of includes                                                       *)

(* A header is in the i-th list.                                           *)
Has(l, h, i) == \E j \in 1..Len(l[i]) : l[i][j].header = h

(* FindHeader looks into every list.                                       *)
LEMMA FindsListed ==
  ASSUME include_list \in Seq(Seq(Entries)), NEW h
  PROVE  /\ FindHeader(h) # {} <=> \E i \in 1..Len(include_list) : Has(include_list, h, i)
         /\ h \in IncludedHere <=> \E i \in 1..Len(include_list) : Has(include_list, h, i)
<1>1. \A e : e \in Listed(include_list) <=>
              \E i \in 1..Len(include_list) : \E j \in 1..Len(include_list[i]) : e = include_list[i][j]
  BY DEF Listed
<1>2. FindHeader(h) # {} <=> \E e \in Listed(include_list) : e.header = h
  BY DEF FindHeader
<1>3. h \in IncludedHere <=> \E e \in Listed(include_list) : e.header = h
  BY DEF IncludedHere
<1>4. (\E e \in Listed(include_list) : e.header = h)
        <=> \E i \in 1..Len(include_list) : Has(include_list, h, i)
  BY <1>1 DEF Has
<1> QED
  BY <1>2, <1>3, <1>4

(* An include is added to the last list.                                   *)
WithEntry(l, e) == [l EXCEPT ![Len(l)] = Append(@, e)]

(* All lists keep what they have.                                          *)
LEMMA RecordInclude ==
  ASSUME NEW l \in Seq(Seq(Entries)), l # << >>, NEW e \in Entries,
         NEW l2, l2 = WithEntry(l, e)
  PROVE  /\ Len(l) \in Nat \ {0} /\ l2 \in Seq(Seq(Entries)) /\ Len(l2) = Len(l)
         /\ \A i \in 1..Len(l) : i # Len(l) => l2[i] = l[i]
         /\ l2[Len(l)] = Append(l[Len(l)], e)
         /\ \A i \in 1..Len(l) : \A h : Has(l, h, i) => Has(l2, h, i)
         /\ Has(l2, e.header, Len(l))
<1>1. Len(l) \in Nat \ {0} /\ Len(l) \in 1..Len(l)
  OBVIOUS
<1> DEFINE last == l[Len(l)]
<1>2. last \in Seq(Entries)
  BY <1>1
<1>3. /\ Append(last, e) \in Seq(Entries) /\ Len(Append(last, e)) = Len(last) + 1
      /\ \A j \in 1..Len(last) : Append(last, e)[j] = last[j]
      /\ Append(last, e)[Len(last) + 1] = e
      /\ Len(last) \in Nat
  BY <1>2
<1>4. /\ l2 \in Seq(Seq(Entries)) /\ Len(l2) = Len(l)
      /\ \A i \in 1..Len(l) : i # Len(l) => l2[i] = l[i]
      /\ l2[Len(l)] = Append(last, e)
  BY <1>1, <1>3, ExceptSeq DEF WithEntry
<1> HIDE DEF last
<1>5. ASSUME NEW i \in 1..Len(l), NEW h, Has(l, h, i) PROVE Has(l2, h, i)
  <2>1. PICK j \in 1..Len(l[i]) : l[i][j].header = h
    BY <1>5 DEF Has
  <2>2. CASE i # Len(l)
    BY <1>4, <2>1, <2>2 DEF Has
  <2>3. CASE i = Len(l)
    <3>1. l[i] = last /\ l2[i] = Append(last, e)
      BY <1>4, <2>3 DEF last
    <3>2. j \in 1..Len(last) /\ last[j].header = h
      BY <2>1, <3>1
    <3>3. j \in 1..Len(Append(last, e)) /\ Append(last, e)[j].header = h
      BY <1>3, <3>2
    <3> QED
      BY <3>1, <3>3 DEF Has
  <2> QED
    BY <2>2, <2>3
<1>6. Has(l2, e.header, Len(l))
  <2>1. Len(last) + 1 \in 1..Len(Append(last, e)) /\ Append(last, e)[Len(last) + 1].header = e.header
    BY <1>3
  <2> QED
    BY <1>4, <2>1 DEF Has
<1> QED
  BY <1>1, <1>4, <1>5, <1>6 DEF last

(* A conditional opens a list of its own.                                  *)
LEMMA OpenList ==
  ASSUME NEW l \in Seq(Seq(Entries)), NEW l2, l2 = Append(l, << >>)
  PROVE  /\ Len(l) \in Nat /\ l2 \in Seq(Seq(Entries)) /\ Len(l2) = Len(l) + 1
         /\ \A i \in 1..Len(l) : l2[i] = l[i]
         /\ l2[Len(l) + 1] = << >>
<1>1. << >> \in Seq(Entries)
  OBVIOUS
<1> QED
  BY <1>1

(* A new branch empties the last list.                                     *)
LEMMA EmptyList ==
  ASSUME NEW l \in Seq(Seq(Entries)), l # << >>, NEW l2, l2 = [l EXCEPT ![Len(l)] = << >>]
  PROVE  /\ Len(l) \in Nat \ {0} /\ l2 \in Seq(Seq(Entries)) /\ Len(l2) = Len(l)
         /\ \A i \in 1..Len(l) : i # Len(l) => l2[i] = l[i]
         /\ l2[Len(l)] = << >>
<1>1. << >> \in Seq(Entries) /\ Len(l) \in Nat \ {0} /\ Len(l) \in 1..Len(l)
  OBVIOUS
<1> QED
  BY <1>1, ExceptSeq

-----------------------------------------------------------------------------
(* What a line does                                                        *)

Accepted(h) == h \notin ThirdParty /\ ~(h.ext = "cc" /\ h.dir # file.name.dir)

Seen(h) == \E i \in 1..Len(include_list) : Has(include_list, h, i)

(* Until the end of the file, reports are about lines already read.        *)
ReportsBounded == ~done => \A r \in reports : r.line \in 1..Len(lines)

EndCategories == {"include_what_you_use", "own header"}

(* CheckIncludeLine, with its reports told apart.                          *)
LEMMA IncludeEffect ==
  ASSUME IncludesTypeOK, ReportsBounded, NEW include \in Includes, CheckIncludeLine(include),
         NEW n, n = Len(lines), NEW h, h = include.header
  PROVE  /\ Reads([kind |-> "include", include |-> include])
         /\ ~done /\ done' = done /\ file' = file /\ disk' = disk
         /\ reports \subseteq reports'
         /\ \A r \in reports' : r \in reports \/ (r.line = n + 1 /\ r.category \notin EndCategories)
         /\ (ReportedAt(n + 1, "duplicate"))' <=> Seen(h)
         /\ (ReportedAt(n + 1, "include_order"))' <=>
              Accepted(h) /\ ~Seen(h) /\ OutOfOrder(ClassifyInclude(include))
         /\ Accepted(h) /\ ~Seen(h) =>
              /\ include_list' = WithEntry(include_list, [header |-> h, line |-> n + 1])
              /\ section' = NextSection(ClassifyInclude(include))
         /\ ~(Accepted(h) /\ ~Seen(h)) => UNCHANGED <<include_list, section>>
<1> DEFINE type == ClassifyInclude(include)
           duplicate == FindHeader(h) # {}
           foreign == h.ext = "cc" /\ h.dir # file.name.dir
           recorded == ~duplicate /\ ~foreign /\ h \notin ThirdParty
           last == IF OutOfOrder(type) \/ NextSection(type) # section THEN 0 ELSE last_header
           R1 == IF ~include.system /\ h.dir = << >> /\ h.ext = "h" /\ h \notin ThirdParty
                   THEN {Reported("no directory", h)} ELSE {}
           R2 == IF duplicate THEN {Reported("duplicate", h)} ELSE {}
           R3 == IF ~duplicate /\ foreign THEN {Reported("other package", h)} ELSE {}
           R4 == IF recorded /\ OutOfOrder(type) THEN {Reported("include_order", h)} ELSE {}
           R5 == IF recorded /\ last > Canonical[h] /\ AfterInclude
                   THEN {Reported("include_alpha", h)} ELSE {}
<1>1. /\ ~done /\ done' = done /\ file' = file /\ disk' = disk
      /\ lines' = Append(lines, [kind |-> "include", include |-> include])
      /\ reports' = reports \cup R1 \cup R2 \cup R3 \cup R4 \cup R5
      /\ recorded => /\ include_list' = WithEntry(include_list, [header |-> h, line |-> linenum])
                     /\ section' = NextSection(type)
      /\ ~recorded => UNCHANGED <<include_list, section>>
  BY DEF CheckIncludeLine, WithEntry
<1>2. duplicate <=> Seen(h)
  BY FindsListed DEF IncludesTypeOK, Seen
<1>3. recorded <=> Accepted(h) /\ ~Seen(h)
  BY <1>2 DEF Accepted
<1>4. linenum = n + 1 /\ n \in Nat
  BY DEF linenum, IncludesTypeOK
<1>5. /\ \A r \in R1 : r.line = n + 1 /\ r.category = "no directory"
      /\ \A r \in R2 : r.line = n + 1 /\ r.category = "duplicate"
      /\ \A r \in R3 : r.line = n + 1 /\ r.category = "other package"
      /\ \A r \in R4 : r.line = n + 1 /\ r.category = "include_order"
      /\ \A r \in R5 : r.line = n + 1 /\ r.category = "include_alpha"
  <2>1. \A c, about : /\ Reported(c, about).line = n + 1
                      /\ Reported(c, about).category = c
    BY <1>4 DEF Reported
  <2>2. /\ \A r \in R1 : r = Reported("no directory", h)
        /\ \A r \in R2 : r = Reported("duplicate", h)
        /\ \A r \in R3 : r = Reported("other package", h)
        /\ \A r \in R4 : r = Reported("include_order", h)
        /\ \A r \in R5 : r = Reported("include_alpha", h)
    <3> HIDE DEF type, duplicate, foreign, recorded, last
    <3>1. \A r \in R1 : r = Reported("no directory", h)
      BY Zenon
    <3>2. \A r \in R2 : r = Reported("duplicate", h)
      BY Zenon
    <3>3. \A r \in R3 : r = Reported("other package", h)
      BY Zenon
    <3>4. \A r \in R4 : r = Reported("include_order", h)
      BY Zenon
    <3>5. \A r \in R5 : r = Reported("include_alpha", h)
      BY Zenon
    <3> QED
      BY <3>1, <3>2, <3>3, <3>4, <3>5
  <2> HIDE DEF R1, R2, R3, R4, R5
  <2>3. \A r, c : r = Reported(c, h) => r.line = n + 1 /\ r.category = c
    BY <2>1
  <2>4. \A r \in R1 : r.line = n + 1 /\ r.category = "no directory"
    BY <2>2, <2>3
  <2>5. \A r \in R2 : r.line = n + 1 /\ r.category = "duplicate"
    BY <2>2, <2>3
  <2>6. \A r \in R3 : r.line = n + 1 /\ r.category = "other package"
    BY <2>2, <2>3
  <2>7. \A r \in R4 : r.line = n + 1 /\ r.category = "include_order"
    BY <2>2, <2>3
  <2>8. \A r \in R5 : r.line = n + 1 /\ r.category = "include_alpha"
    BY <2>2, <2>3
  <2> QED
    BY <2>4, <2>5, <2>6, <2>7, <2>8
<1>6. (R2 # {} <=> duplicate) /\ (R4 # {} <=> recorded /\ OutOfOrder(type))
  OBVIOUS
<1>7. Reads([kind |-> "include", include |-> include])
  BY <1>1 DEF Reads, LineTypes
<1>8. \A r \in reports : r.line # n + 1
  <2>1. \A r \in reports : r.line \in 1..n
    BY <1>1 DEF ReportsBounded
  <2>2. n + 1 \notin 1..n
    BY <1>4
  <2> QED
    BY <2>1, <2>2
<1> HIDE DEF R1, R2, R3, R4, R5
<1>9. \A r \in reports' : r \in reports \/ (r.line = n + 1 /\ r.category \notin EndCategories)
  BY <1>1, <1>5 DEF EndCategories
<1>10. (ReportedAt(n + 1, "duplicate"))' <=> R2 # {}
  <2>1. (ReportedAt(n + 1, "duplicate"))' <=> \E r \in reports' : r.line = n + 1 /\ r.category = "duplicate"
    BY DEF ReportedAt
  <2> QED
    BY <1>1, <1>5, <1>8, <2>1
<1>11. (ReportedAt(n + 1, "include_order"))' <=> R4 # {}
  <2>1. (ReportedAt(n + 1, "include_order"))' <=>
          \E r \in reports' : r.line = n + 1 /\ r.category = "include_order"
    BY DEF ReportedAt
  <2> QED
    BY <1>1, <1>5, <1>8, <2>1
<1> HIDE DEF type, duplicate, foreign, recorded, last
<1>12. reports \subseteq reports'
  BY <1>1
<1>13. /\ (ReportedAt(n + 1, "duplicate"))' <=> Seen(h)
       /\ (ReportedAt(n + 1, "include_order"))' <=> Accepted(h) /\ ~Seen(h) /\ OutOfOrder(type)
  BY <1>2, <1>3, <1>6, <1>10, <1>11
<1>14. /\ Accepted(h) /\ ~Seen(h) =>
            /\ include_list' = WithEntry(include_list, [header |-> h, line |-> n + 1])
            /\ section' = NextSection(type)
       /\ ~(Accepted(h) /\ ~Seen(h)) => UNCHANGED <<include_list, section>>
  BY <1>1, <1>3, <1>4
<1> QED
  BY <1>1, <1>7, <1>9, <1>12, <1>13, <1>14 DEF type

(* The lists after a directive.                                            *)
ListsAfter(directive) ==
  /\ directive = "if" => include_list' = Append(include_list, << >>)
  /\ directive \in {"elif", "else"} => include_list' = [include_list EXCEPT ![Len(include_list)] = << >>]
  /\ directive = "endif" => include_list' = include_list

(* A directive reports nothing.                                            *)
LEMMA DirectiveEffect ==
  ASSUME NEW directive \in {"if", "elif", "else", "endif"}, Directive(directive)
  PROVE  /\ Reads([kind |-> "directive", directive |-> directive])
         /\ ~done /\ done' = done /\ file' = file /\ disk' = disk /\ reports' = reports
         /\ section' = 0 /\ ListsAfter(directive)
         /\ directive # "if" => Now > 0
<1>1. /\ lines' = Append(lines, [kind |-> "directive", directive |-> directive])
      /\ ~done /\ done' = done /\ file' = file /\ disk' = disk /\ reports' = reports
      /\ section' = 0 /\ ResetSection(directive)
      /\ directive # "if" => Now > 0
  BY DEF Directive, Now
<1>2. Reads([kind |-> "directive", directive |-> directive])
  BY <1>1 DEF Reads, LineTypes
<1>3. ListsAfter(directive)
  BY <1>1 DEF ResetSection, ListsAfter
<1> QED
  BY <1>1, <1>2, <1>3

(* A line of code reports nothing and leaves the lists alone.              *)
LEMMA CodeEffect ==
  ASSUME NEW uses \in {{}} \cup {{h} : h \in Required}, Code(uses)
  PROVE  /\ Reads([kind |-> "code", uses |-> uses])
         /\ ~done /\ done' = done /\ file' = file /\ disk' = disk /\ reports' = reports
         /\ UNCHANGED <<include_list, section>>
<1>1. uses \in SUBSET Required
  OBVIOUS
<1> QED
  BY <1>1 DEF Code, Reads, LineTypes

(* Every step is one of these, the end of the file or no step.             *)
LEMMA StepKinds ==
  ASSUME [Next]_vars
  PROVE  \/ \E include \in Includes : CheckIncludeLine(include)
         \/ \E directive \in {"if", "elif", "else", "endif"} : Directive(directive)
         \/ \E uses \in {{}} \cup {{h} : h \in Required} : Code(uses)
         \/ EndOfFile
         \/ UNCHANGED vars
BY DEF Next

(* The types, and that reports are about lines read, are inductive.        *)
BaseInv == IncludesTypeOK /\ ReportsBounded

(* They hold at first.                                                     *)
LEMMA BaseInit == Init => BaseInv
<1> SUFFICES ASSUME Init PROVE BaseInv
  OBVIOUS
<1>1. lines \in Seq(LineTypes) /\ include_list \in Seq(Seq(Entries)) /\ include_list # << >>
  <2>1. << >> \in Seq(Entries)
    OBVIOUS
  <2> QED
    BY <2>1 DEF Init
<1> QED
  BY <1>1 DEF Init, BaseInv, IncludesTypeOK, ReportsBounded

(* And they are kept.                                                      *)
LEMMA BaseStep ==
  ASSUME BaseInv, [Next]_vars
  PROVE  BaseInv'
<1> USE DEF BaseInv
<1>1. ASSUME NEW x, Reads(x), file' = file, done' = done, reports' = reports,
             include_list' \in Seq(Seq(Entries)), include_list' # << >>, ~done
      PROVE  BaseInv'
  <2>1. /\ lines' \in Seq(LineTypes) /\ Len(lines) \in Nat /\ Len(lines') = Len(lines) + 1
    BY <1>1, LinesRead DEF IncludesTypeOK
  <2>2. \A k \in 1..Len(lines) : k \in 1..Len(lines')
    BY <2>1
  <2> QED
    BY <1>1, <2>1, <2>2 DEF IncludesTypeOK, ReportsBounded
<1>2. ASSUME NEW include \in Includes, CheckIncludeLine(include) PROVE BaseInv'
  <2>1. PICK n, h : n = Len(lines) /\ h = include.header
    OBVIOUS
  <2>2. /\ Reads([kind |-> "include", include |-> include])
        /\ ~done /\ done' = done /\ file' = file
        /\ \A r \in reports' : r \in reports \/ r.line = n + 1
        /\ Accepted(h) /\ ~Seen(h) =>
             include_list' = WithEntry(include_list, [header |-> h, line |-> n + 1])
        /\ ~(Accepted(h) /\ ~Seen(h)) => UNCHANGED include_list
    BY <1>2, <2>1, IncludeEffect
  <2>3. /\ lines' \in Seq(LineTypes) /\ n \in Nat /\ Len(lines') = n + 1
    BY <2>1, <2>2, LinesRead DEF IncludesTypeOK
  <2>4. \A r \in reports' : r.line \in 1..Len(lines')
    BY <2>1, <2>2, <2>3 DEF ReportsBounded
  <2>5. include_list' \in Seq(Seq(Entries)) /\ include_list' # << >>
    <3>1. CASE Accepted(h) /\ ~Seen(h)
      <4>1. [header |-> h, line |-> n + 1] \in Entries
        BY <2>1, <2>3 DEF Entries
      <4>2. /\ Len(include_list) \in Nat \ {0} /\ include_list' \in Seq(Seq(Entries))
            /\ Len(include_list') = Len(include_list)
        BY <2>2, <3>1, <4>1, RecordInclude DEF IncludesTypeOK
      <4> QED
        BY <4>2
    <3>2. CASE ~(Accepted(h) /\ ~Seen(h))
      BY <2>2, <3>2 DEF IncludesTypeOK
    <3> QED
      BY <3>1, <3>2
  <2> QED
    BY <2>2, <2>3, <2>4, <2>5 DEF IncludesTypeOK, ReportsBounded
<1>3. ASSUME NEW directive \in {"if", "elif", "else", "endif"}, Directive(directive) PROVE BaseInv'
  <2>1. /\ Reads([kind |-> "directive", directive |-> directive])
        /\ ~done /\ done' = done /\ file' = file /\ reports' = reports /\ ListsAfter(directive)
    BY <1>3, DirectiveEffect
  <2>2. include_list' \in Seq(Seq(Entries)) /\ include_list' # << >>
    <3>1. CASE directive = "if"
      <4>1. include_list' \in Seq(Seq(Entries)) /\ Len(include_list') = Len(include_list) + 1
            /\ Len(include_list) \in Nat
        BY <2>1, <3>1, OpenList DEF ListsAfter, IncludesTypeOK
      <4> QED
        BY <4>1
    <3>2. CASE directive \in {"elif", "else"}
      <4>1. include_list' \in Seq(Seq(Entries)) /\ Len(include_list') = Len(include_list)
            /\ Len(include_list) \in Nat \ {0}
        BY <2>1, <3>2, EmptyList DEF ListsAfter, IncludesTypeOK
      <4> QED
        BY <4>1
    <3>3. CASE directive = "endif"
      BY <2>1, <3>3 DEF ListsAfter, IncludesTypeOK
    <3> QED
      BY <3>1, <3>2, <3>3
  <2> QED
    BY <1>1, <2>1, <2>2
<1>4. ASSUME NEW uses \in {{}} \cup {{h} : h \in Required}, Code(uses) PROVE BaseInv'
  <2>1. /\ Reads([kind |-> "code", uses |-> uses])
        /\ ~done /\ done' = done /\ file' = file /\ reports' = reports /\ include_list' = include_list
    BY <1>4, CodeEffect
  <2> QED
    BY <1>1, <2>1 DEF IncludesTypeOK
<1>5. CASE EndOfFile
  BY <1>5 DEF EndOfFile, IncludesTypeOK, ReportsBounded
<1>6. CASE UNCHANGED vars
  BY <1>6 DEF vars, IncludesTypeOK, ReportsBounded
<1> QED
  BY <1>2, <1>3, <1>4, <1>5, <1>6, StepKinds

-----------------------------------------------------------------------------
(* Nothing unconditional is forgotten                                      *)

(* Every unconditional include is in a list, and inside a conditional it   *)
(* is not in the last one, which the next #else would empty.               *)
Safe(h) ==
  \E i \in 1..Len(include_list) :
    Has(include_list, h, i) /\ (Now > 0 => i < Len(include_list))

Kept ==
  \A n \in 1..Len(lines) : \A h :
    Eligible(n) /\ Depth(n) = 0 /\ h = lines[n].include.header => Safe(h)

LaterReported ==
  \A n \in 1..Len(lines) : \A m \in 1..(n - 1) :
    /\ Eligible(m) /\ Eligible(n)
    /\ Depth(m) = 0
    /\ lines[n].include.header = lines[m].include.header
    => ReportedAt(n, "duplicate")

(* What makes a line eligible does not change.                             *)
LEMMA EligibleKept ==
  ASSUME lines \in Seq(LineTypes), NEW x, Reads(x), file' = file, NEW n \in 1..Len(lines)
  PROVE  (Eligible(n))' <=> Eligible(n)
<1>1. lines'[n] = lines[n]
  BY LinesRead
<1> QED
  BY <1>1 DEF Eligible

(* A line that is not an include is not eligible; an include is when its   *)
(* header is accepted.                                                     *)
LEMMA EligibleNew ==
  ASSUME lines \in Seq(LineTypes), NEW x, Reads(x), file' = file, NEW n, n = Len(lines)
  PROVE  /\ x.kind # "include" => ~(Eligible(n + 1))'
         /\ x.kind = "include" => ((Eligible(n + 1))' <=> Accepted(x.include.header))
<1>1. lines'[n + 1] = x
  BY LinesRead
<1> QED
  BY <1>1 DEF Eligible, Accepted

(* Reading a line keeps Kept when the lists keep what they must.           *)
LEMMA KeptAfterLine ==
  ASSUME IncludesTypeOK, Kept, NEW x, Reads(x), file' = file, NEW n, n = Len(lines),
         \A h : Safe(h) => Safe(h)',
         (Eligible(n + 1))' /\ (Depth(n + 1))' = 0 => Safe(x.include.header)'
  PROVE  Kept'
<1>1. lines \in Seq(LineTypes)
  BY DEF IncludesTypeOK
<1>2. /\ n \in Nat /\ Len(lines') = n + 1 /\ lines'[n + 1] = x
      /\ \A k \in 1..n : lines'[k] = lines[k]
  BY <1>1, LinesRead
<1>3. SUFFICES ASSUME NEW k \in 1..n + 1, NEW h, (Eligible(k))', (Depth(k))' = 0,
                      h = lines'[k].include.header
               PROVE  Safe(h)'
  BY <1>2 DEF Kept
<1>4. CASE k \in 1..n
  <2>1. k \in 0..Len(lines)
    BY <1>2, <1>4
  <2>2. Eligible(k) /\ Depth(k) = 0
    BY <1>1, <1>3, <1>4, <2>1, EligibleKept, PrefixKept
  <2>3. h = lines[k].include.header
    BY <1>2, <1>3, <1>4
  <2>4. Safe(h)
    BY <1>4, <2>2, <2>3 DEF Kept
  <2> QED
    BY <2>4
<1>5. CASE k = n + 1
  <2>1. h = x.include.header
    BY <1>2, <1>3, <1>5
  <2> QED
    BY <1>3, <1>5, <2>1
<1> QED
  BY <1>2, <1>4, <1>5

(* The lists keep what they must: a new branch empties only a list that    *)
(* holds no unconditional include.                                         *)
LEMMA KeptStep ==
  ASSUME BaseInv, Kept, [Next]_vars
  PROVE  Kept'
<1> USE DEF BaseInv
<1>0. PICK n : n = Len(lines)
  OBVIOUS
<1>1. lines \in Seq(LineTypes) /\ include_list \in Seq(Seq(Entries)) /\ include_list # << >>
  BY DEF IncludesTypeOK
<1>2. ASSUME NEW include \in Includes, CheckIncludeLine(include) PROVE Kept'
  <2>1. PICK h : h = include.header
    OBVIOUS
  <2>2. PICK x : x = [kind |-> "include", include |-> include]
    OBVIOUS
  <2>3. /\ Reads(x) /\ file' = file
        /\ Accepted(h) /\ ~Seen(h) =>
             include_list' = WithEntry(include_list, [header |-> h, line |-> n + 1])
        /\ ~(Accepted(h) /\ ~Seen(h)) => UNCHANGED include_list
    BY <1>0, <1>2, <2>1, <2>2, IncludeEffect
  <2>4. x.kind = "include" /\ x.include.header = h
    BY <2>1, <2>2
  <2>5. /\ n \in Nat /\ Now' = (Depth(n + 1))' /\ (Depth(n + 1))' = Now
    <3>1. (Depth(n + 1))' = Depth(n)
      BY <1>0, <1>1, <2>3, <2>4, LineAdded
    <3> QED
      BY <1>0, <1>1, <2>3, <3>1, NowIsLast
  <2>6. /\ Len(include_list') = Len(include_list) /\ Len(include_list) \in Nat \ {0}
        /\ \A g : \A i \in 1..Len(include_list) : Has(include_list, g, i) => Has(include_list', g, i)
        /\ Accepted(h) => \E i \in 1..Len(include_list) : Has(include_list', h, i)
    <3>1. CASE Accepted(h) /\ ~Seen(h)
      <4>1. PICK e : e = [header |-> h, line |-> n + 1]
        OBVIOUS
      <4>2. e \in Entries /\ e.header = h
        BY <2>1, <2>5, <4>1 DEF Entries
      <4>3. include_list' = WithEntry(include_list, e)
        BY <2>3, <3>1, <4>1
      <4>4. /\ Len(include_list) \in Nat \ {0} /\ Len(include_list') = Len(include_list)
            /\ \A i \in 1..Len(include_list) : \A g : Has(include_list, g, i) => Has(include_list', g, i)
            /\ Has(include_list', e.header, Len(include_list))
        BY ONLY <1>1, <4>2, <4>3, RecordInclude
      <4> QED
        BY <4>2, <4>4
    <3>2. CASE ~(Accepted(h) /\ ~Seen(h))
      BY <1>1, <2>3, <3>2 DEF Seen
    <3> QED
      BY <3>1, <3>2
  <2>7. \A g : Safe(g) => Safe(g)'
    BY <2>5, <2>6 DEF Safe
  <2>8. (Eligible(n + 1))' /\ (Depth(n + 1))' = 0 => Safe(h)'
    <3> SUFFICES ASSUME (Eligible(n + 1))', (Depth(n + 1))' = 0 PROVE Safe(h)'
      OBVIOUS
    <3>1. Accepted(h)
      BY <1>0, <1>1, <2>3, <2>4, EligibleNew
    <3>2. ~(Now' > 0)
      BY <2>5
    <3> QED
      BY <2>6, <3>1, <3>2 DEF Safe
  <2> QED
    BY <1>0, <2>3, <2>4, <2>7, <2>8, KeptAfterLine
<1>3. ASSUME NEW directive \in {"if", "elif", "else", "endif"}, Directive(directive) PROVE Kept'
  <2>1. PICK x : x = [kind |-> "directive", directive |-> directive]
    OBVIOUS
  <2>2. /\ Reads(x) /\ file' = file /\ ListsAfter(directive)
        /\ directive # "if" => Now > 0
    BY <1>3, <2>1, DirectiveEffect
  <2>3. x.kind = "directive" /\ x.directive = directive /\ ~(Eligible(n + 1))'
    BY <1>0, <1>1, <2>1, <2>2, EligibleNew
  <2>4. /\ Now \in Int /\ Now' \in Int
        /\ directive \in {"elif", "else"} => Now' = Now
    <3>1. /\ Now' = (Depth(n + 1))' /\ Now = Depth(n) /\ Depth(n) \in Int
      BY <1>0, <1>1, <2>2, NowIsLast
    <3>2. (Depth(n + 1))' =
            IF x.kind = "directive" /\ x.directive = "if" THEN Depth(n) + 1
            ELSE IF x.kind = "directive" /\ x.directive = "endif" THEN Depth(n) - 1
            ELSE Depth(n)
      BY <1>0, <1>1, <2>2, LineAdded
    <3> QED
      BY <2>3, <3>1, <3>2
  <2>5. \A g : Safe(g) => Safe(g)'
    <3>1. CASE directive = "if"
      <4>1. /\ Len(include_list) \in Nat /\ Len(include_list') = Len(include_list) + 1
            /\ \A i \in 1..Len(include_list) : include_list'[i] = include_list[i]
        BY <1>1, <2>2, <3>1, OpenList DEF ListsAfter
      <4>2. \A i \in 1..Len(include_list) : i \in 1..Len(include_list') /\ i < Len(include_list')
        BY <4>1
      <4>3. \A g : \A i \in 1..Len(include_list) : Has(include_list, g, i) => Has(include_list', g, i)
        BY <4>1 DEF Has
      <4> QED
        BY <4>2, <4>3 DEF Safe
    <3>2. CASE directive \in {"elif", "else"}
      <4>1. /\ Len(include_list) \in Nat \ {0} /\ Len(include_list') = Len(include_list)
            /\ \A i \in 1..Len(include_list) : i # Len(include_list) => include_list'[i] = include_list[i]
        BY <1>1, <2>2, <3>2, EmptyList DEF ListsAfter
      <4>2. \A g : \A i \in 1..Len(include_list) :
              i < Len(include_list) /\ Has(include_list, g, i) => Has(include_list', g, i)
        BY <4>1 DEF Has
      <4>3. Now > 0 /\ Now' = Now
        BY <2>2, <2>4, <3>2
      <4> QED
        BY <4>1, <4>2, <4>3 DEF Safe
    <3>3. CASE directive = "endif"
      <4>1. include_list' = include_list /\ Now > 0
        BY <2>2, <3>3 DEF ListsAfter
      <4> QED
        BY <4>1 DEF Safe
    <3> QED
      BY <3>1, <3>2, <3>3
  <2> QED
    BY <1>0, <2>2, <2>3, <2>5, KeptAfterLine
<1>4. ASSUME NEW uses \in {{}} \cup {{h} : h \in Required}, Code(uses) PROVE Kept'
  <2>1. PICK x : x = [kind |-> "code", uses |-> uses]
    OBVIOUS
  <2>2. Reads(x) /\ file' = file /\ include_list' = include_list
    BY <1>4, <2>1, CodeEffect
  <2>3. x.kind = "code" /\ ~(Eligible(n + 1))'
    BY <1>0, <1>1, <2>1, <2>2, EligibleNew
  <2>4. Now' = Now
    BY <1>0, <1>1, <2>2, <2>3, NowIsLast, LineAdded
  <2>5. \A g : Safe(g) => Safe(g)'
    BY <2>2, <2>4 DEF Safe
  <2> QED
    BY <1>0, <2>2, <2>3, <2>5, KeptAfterLine
<1>5. ASSUME UNCHANGED <<lines, include_list, file>> PROVE Kept'
  BY <1>5 DEF Kept, Safe, Now, Eligible, Depth, Directives
<1>6. CASE EndOfFile
  BY <1>5, <1>6 DEF EndOfFile
<1>7. CASE UNCHANGED vars
  BY <1>5, <1>7 DEF vars
<1> QED
  BY <1>2, <1>3, <1>4, <1>6, <1>7, StepKinds

(* An unconditional include is in a list, so that FindHeader finds it when *)
(* the same header comes again.                                            *)
LEMMA LaterReportedStep ==
  ASSUME BaseInv, Kept, LaterReported, [Next]_vars
  PROVE  LaterReported'
<1> USE DEF BaseInv
<1>0. PICK n : n = Len(lines)
  OBVIOUS
<1>1. lines \in Seq(LineTypes) /\ include_list \in Seq(Seq(Entries)) /\ include_list # << >>
  BY DEF IncludesTypeOK
<1>2. ASSUME NEW x, Reads(x), file' = file, reports \subseteq reports',
             \A m \in 1..n : (Eligible(n + 1))' /\ Eligible(m) /\ Depth(m) = 0
                               /\ x.include.header = lines[m].include.header
                             => (ReportedAt(n + 1, "duplicate"))'
      PROVE  LaterReported'
  <2>1. /\ n \in Nat /\ Len(lines') = n + 1 /\ lines'[n + 1] = x
        /\ \A k \in 1..n : lines'[k] = lines[k]
    BY <1>0, <1>1, <1>2, LinesRead
  <2>2. SUFFICES ASSUME NEW k \in 1..n + 1, NEW m \in 1..(k - 1),
                        (Eligible(m))', (Eligible(k))', (Depth(m))' = 0,
                        lines'[k].include.header = lines'[m].include.header
                 PROVE  (ReportedAt(k, "duplicate"))'
    BY <2>1 DEF LaterReported
  <2>3. m \in 1..n /\ m \in 0..Len(lines)
    BY <1>0, <2>1
  <2>4. Eligible(m) /\ Depth(m) = 0 /\ lines'[m] = lines[m]
    BY <1>0, <1>1, <1>2, <2>1, <2>2, <2>3, EligibleKept, PrefixKept
  <2>5. CASE k \in 1..n
    <3>1. Eligible(k) /\ lines'[k] = lines[k]
      BY <1>0, <1>1, <1>2, <2>1, <2>2, <2>5, EligibleKept
    <3>2. ReportedAt(k, "duplicate")
      BY <1>0, <2>2, <2>4, <2>5, <3>1 DEF LaterReported
    <3> QED
      BY <1>2, <3>2 DEF ReportedAt
  <2>6. CASE k = n + 1
    BY <1>2, <2>1, <2>2, <2>3, <2>4, <2>6
  <2> QED
    BY <2>1, <2>5, <2>6
<1>3. ASSUME NEW include \in Includes, CheckIncludeLine(include) PROVE LaterReported'
  <2>1. PICK h : h = include.header
    OBVIOUS
  <2>2. PICK x : x = [kind |-> "include", include |-> include]
    OBVIOUS
  <2>3. /\ Reads(x) /\ file' = file /\ reports \subseteq reports'
        /\ (ReportedAt(n + 1, "duplicate"))' <=> Seen(h)
    BY <1>0, <1>3, <2>1, <2>2, IncludeEffect
  <2>4. ASSUME NEW m \in 1..n, Eligible(m), Depth(m) = 0,
               x.include.header = lines[m].include.header
        PROVE  (ReportedAt(n + 1, "duplicate"))'
    <3>1. Safe(h)
      BY <1>0, <2>1, <2>2, <2>4 DEF Kept
    <3>2. Seen(h)
      BY <3>1 DEF Safe, Seen
    <3> QED
      BY <2>3, <3>2
  <2> QED
    BY <1>2, <2>3, <2>4
<1>4. ASSUME NEW directive \in {"if", "elif", "else", "endif"}, Directive(directive)
      PROVE  LaterReported'
  <2>1. PICK x : x = [kind |-> "directive", directive |-> directive]
    OBVIOUS
  <2>2. Reads(x) /\ file' = file /\ reports' = reports
    BY <1>4, <2>1, DirectiveEffect
  <2>3. ~(Eligible(n + 1))'
    BY <1>0, <1>1, <2>1, <2>2, EligibleNew
  <2> QED
    BY <1>2, <2>2, <2>3
<1>5. ASSUME NEW uses \in {{}} \cup {{h} : h \in Required}, Code(uses) PROVE LaterReported'
  <2>1. PICK x : x = [kind |-> "code", uses |-> uses]
    OBVIOUS
  <2>2. Reads(x) /\ file' = file /\ reports' = reports
    BY <1>5, <2>1, CodeEffect
  <2>3. ~(Eligible(n + 1))'
    BY <1>0, <1>1, <2>1, <2>2, EligibleNew
  <2> QED
    BY <1>2, <2>2, <2>3
<1>6. ASSUME UNCHANGED <<lines, file>>, reports \subseteq reports' PROVE LaterReported'
  <2>1. ASSUME NEW k, ReportedAt(k, "duplicate") PROVE (ReportedAt(k, "duplicate"))'
    BY <1>6, <2>1 DEF ReportedAt
  <2>2. \A k : /\ (Eligible(k))' <=> Eligible(k)
               /\ (Depth(k))' = Depth(k)
    BY <1>6 DEF Eligible, Depth, Directives
  <2> QED
    BY <1>6, <2>1, <2>2 DEF LaterReported
<1>7. CASE EndOfFile
  BY <1>6, <1>7 DEF EndOfFile
<1>8. CASE UNCHANGED vars
  BY <1>6, <1>8 DEF vars
<1> QED
  BY <1>3, <1>4, <1>5, <1>7, <1>8, StepKinds

(* At first no line has been read.                                         *)
LEMMA NothingRead == Init => Kept /\ LaterReported
<1> SUFFICES ASSUME Init PROVE Kept /\ LaterReported
  OBVIOUS
<1>1. Len(lines) = 0
  BY DEF Init
<1>2. \A n \in 1..Len(lines) : FALSE
  BY <1>1
<1> QED
  BY <1>2 DEF Kept, LaterReported

(* Every unconditional include is in one of the lists.                     *)
LEMMA UnconditionalListed ==
  ASSUME BaseInv, Kept, NEW n \in 1..Len(lines), Eligible(n), Depth(n) = 0
  PROVE  lines[n].include.header \in IncludedHere
<1>1. PICK h : h = lines[n].include.header
  OBVIOUS
<1>2. Safe(h)
  BY <1>1 DEF Kept
<1>3. \E i \in 1..Len(include_list) : Has(include_list, h, i)
  BY <1>2 DEF Safe
<1> QED
  BY <1>1, <1>3, FindsListed DEF BaseInv, IncludesTypeOK

(* However many conditionals and branches a file has and however they are  *)
(* nested, ResetSection never drops an unconditional include: it stays in  *)
(* include_list, and FindHeader reports every later one of its header.     *)
THEOREM NothingForgotten == Spec => []NeverForgotten
<1>2. BaseInv /\ Kept /\ LaterReported => NeverForgotten
  BY UnconditionalListed DEF LaterReported, NeverForgotten
<1>3. BaseInv /\ [Next]_vars => BaseInv'
  BY BaseStep
<1>4. BaseInv /\ Kept /\ [Next]_vars => Kept'
  BY KeptStep
<1>5. BaseInv /\ Kept /\ LaterReported /\ [Next]_vars => LaterReported'
  BY LaterReportedStep
<1> QED
  BY <1>2, <1>3, <1>4, <1>5, BaseInit, NothingRead, PTL DEF Spec

-----------------------------------------------------------------------------
(* Duplicates are real                                                     *)

Ifs(n) == Directives(n, {"if"})
Branches(n) == Directives(n, {"if", "elif", "else"})

(* An entry of the i-th list when n lines have been read: it stands for an *)
(* include; a conditional was opened since, unless the list is the last    *)
(* one, and then no branch of any was begun.                               *)
EntryOK(e, i, n) ==
  /\ e.line \in 1..n
  /\ lines[e.line].kind = "include" /\ lines[e.line].include.header = e.header
  /\ i < Len(include_list) => Ifs(e.line) # Ifs(n)
  /\ i = Len(include_list) => Branches(e.line) = Branches(n)

Traced ==
  \A n, e : \A i \in 1..Len(include_list) : \A j \in 1..Len(include_list[i]) :
    n = Len(lines) /\ e = include_list[i][j] => EntryOK(e, i, n)

(* An earlier include of the header, in the same branch unless another     *)
(* conditional was opened in between.                                      *)
Reason(k) ==
  \E m \in 1..(k - 1) :
    /\ lines[m].kind = "include" /\ lines[m].include.header = lines[k].include.header
    /\ Ifs(m) = Ifs(k) => Branches(m) = Branches(k)

DuplicatesReasoned ==
  \A k \in 1..Len(lines) : ReportedAt(k, "duplicate") => Reason(k)

(* #endif only ends what an #if has begun.                                 *)
DepthsNatural ==
  \A k \in 0..Len(lines) : Depth(k) >= 0 /\ (k \in Ifs(k) => Depth(k) >= 1)

(* The sets of conditionals and branches before a line do not change, and  *)
(* only directives add to them.                                            *)
LEMMA BranchesKept ==
  ASSUME lines \in Seq(LineTypes), NEW x, Reads(x), NEW n, n = Len(lines)
  PROVE  /\ \A k \in 0..n : (Ifs(k))' = Ifs(k) /\ (Branches(k))' = Branches(k)
         /\ (Ifs(n + 1))' = IF x.kind = "directive" /\ x.directive = "if"
                              THEN Ifs(n) \cup {n + 1} ELSE Ifs(n)
         /\ ~(x.kind = "directive" /\ x.directive \in {"if", "elif", "else"}) =>
              (Branches(n + 1))' = Branches(n)
         /\ \A k \in 0..n : n + 1 \notin Ifs(k)
<1>1. n \in Nat
  OBVIOUS
<1>2. ASSUME NEW k \in 0..n
      PROVE (Ifs(k))' = Ifs(k) /\ (Branches(k))' = Branches(k) /\ n + 1 \notin Ifs(k)
  <2>1. \A ds : (Directives(k, ds))' = Directives(k, ds)
    BY PrefixKept
  <2>2. n + 1 \notin 1..k
    BY <1>1
  <2>3. Directives(k, {"if"}) \subseteq 1..k
    BY DEF Directives
  <2> QED
    BY <2>1, <2>2, <2>3 DEF Ifs, Branches
<1>3. \A ds : (Directives(n + 1, ds))' =
                Directives(n, ds) \cup
                  (IF x.kind = "directive" /\ x.directive \in ds THEN {n + 1} ELSE {})
  BY LineAdded
<1>4. ASSUME NEW ds, ~(x.kind = "directive" /\ x.directive \in ds)
      PROVE  (Directives(n + 1, ds))' = Directives(n, ds)
  <2>1. (IF x.kind = "directive" /\ x.directive \in ds THEN {n + 1} ELSE {}) = {}
    BY <1>4, Zenon
  <2>2. Directives(n, ds) \cup {} = Directives(n, ds)
    OBVIOUS
  <2> QED
    BY <1>3, <2>1, <2>2, Zenon
<1>5. (Ifs(n + 1))' = IF x.kind = "directive" /\ x.directive = "if"
                        THEN Ifs(n) \cup {n + 1} ELSE Ifs(n)
  <2>1. ASSUME x.kind = "directive", x.directive = "if" PROVE (Ifs(n + 1))' = Ifs(n) \cup {n + 1}
    <3>1. x.directive \in {"if"}
      BY <2>1
    <3>2. (Directives(n + 1, {"if"}))' = Directives(n, {"if"}) \cup {n + 1}
      BY <1>3, <2>1, <3>1
    <3> QED
      BY <3>2 DEF Ifs
  <2>2. ASSUME ~(x.kind = "directive" /\ x.directive = "if") PROVE (Ifs(n + 1))' = Ifs(n)
    <3>1. ~(x.kind = "directive" /\ x.directive \in {"if"})
      BY <2>2
    <3> QED
      BY <1>4, <3>1 DEF Ifs
  <2> QED
    BY <2>1, <2>2
<1>6. ~(x.kind = "directive" /\ x.directive \in {"if", "elif", "else"}) =>
        (Branches(n + 1))' = Branches(n)
  BY <1>4 DEF Branches
<1> QED
  BY <1>2, <1>5, <1>6

(* Depths stay natural numbers, because only an open conditional can end.  *)
LEMMA DepthsStep ==
  ASSUME BaseInv, DepthsNatural, [Next]_vars
  PROVE  DepthsNatural'
<1>0. PICK n : n = Len(lines)
  OBVIOUS
<1>1. lines \in Seq(LineTypes) /\ n \in Nat
  BY <1>0 DEF BaseInv, IncludesTypeOK
<1>2. ASSUME NEW x, Reads(x),
             x.kind = "directive" /\ x.directive = "endif" => Depth(n) > 0
      PROVE  DepthsNatural'
  <2>1. Len(lines') = n + 1
    BY <1>0, <1>1, <1>2, LinesRead
  <2>2. ASSUME NEW k \in 0..n
        PROVE  (Depth(k))' >= 0 /\ (k \in (Ifs(k))' => (Depth(k))' >= 1)
    <3>1. (Depth(k))' = Depth(k) /\ (Ifs(k))' = Ifs(k)
      BY <1>0, <1>1, <1>2, PrefixKept, BranchesKept
    <3> QED
      BY <1>0, <3>1 DEF DepthsNatural
  <2>3. (Depth(n + 1))' >= 0 /\ (n + 1 \in (Ifs(n + 1))' => (Depth(n + 1))' >= 1)
    <3>1. Depth(n) \in Int /\ Depth(n) >= 0
      <4>1. n \in 0..Len(lines)
        BY <1>0, <1>1
      <4> QED
        BY <1>1, <4>1, DepthType DEF DepthsNatural
    <3>2. (Depth(n + 1))' =
            IF x.kind = "directive" /\ x.directive = "if" THEN Depth(n) + 1
            ELSE IF x.kind = "directive" /\ x.directive = "endif" THEN Depth(n) - 1
            ELSE Depth(n)
      BY <1>0, <1>1, <1>2, LineAdded
    <3>3. n + 1 \in (Ifs(n + 1))' => x.kind = "directive" /\ x.directive = "if"
      <4>1. n \in 0..n
        BY <1>1
      <4> QED
        BY <1>0, <1>1, <1>2, <4>1, BranchesKept
    <3> QED
      BY <1>2, <3>1, <3>2, <3>3
  <2>4. \A k \in 0..n + 1 : k \in 0..n \/ k = n + 1
    BY <1>1
  <2>5. \A k \in 0..n + 1 : (Depth(k))' >= 0 /\ (k \in (Ifs(k))' => (Depth(k))' >= 1)
    BY <2>2, <2>3, <2>4
  <2> QED
    BY <2>1, <2>5 DEF DepthsNatural
<1>3. ASSUME NEW include \in Includes, CheckIncludeLine(include) PROVE DepthsNatural'
  <2>1. PICK x : x = [kind |-> "include", include |-> include]
    OBVIOUS
  <2>2. Reads(x)
    BY <1>0, <1>3, <2>1, IncludeEffect DEF BaseInv
  <2>3. x.kind # "directive"
    BY <2>1
  <2> QED
    BY <1>2, <2>2, <2>3
<1>4. ASSUME NEW directive \in {"if", "elif", "else", "endif"}, Directive(directive)
      PROVE  DepthsNatural'
  <2>1. PICK x : x = [kind |-> "directive", directive |-> directive]
    OBVIOUS
  <2>2. Reads(x) /\ (directive # "if" => Now > 0)
    BY <1>4, <2>1, DirectiveEffect
  <2>3. x.directive = "endif" => Depth(n) > 0
    BY <1>0, <2>1, <2>2 DEF Now
  <2> QED
    BY <1>2, <2>2, <2>3
<1>5. ASSUME NEW uses \in {{}} \cup {{h} : h \in Required}, Code(uses) PROVE DepthsNatural'
  <2>1. PICK x : x = [kind |-> "code", uses |-> uses]
    OBVIOUS
  <2>2. Reads(x) /\ x.kind # "directive"
    BY <1>5, <2>1, CodeEffect
  <2> QED
    BY <1>2, <2>2
<1>6. ASSUME UNCHANGED lines PROVE DepthsNatural'
  BY <1>6 DEF DepthsNatural, Ifs, Depth, Directives
<1> QED
  BY <1>3, <1>4, <1>5, <1>6, StepKinds DEF EndOfFile, vars

(* An entry stays accounted for when a line is read, if it was there       *)
(* before and its list is the last one after the step only if it was the   *)
(* last one before and no branch begins, and a conditional is opened when  *)
(* its list stops being the last.                                          *)
LEMMA EntryKept ==
  ASSUME IncludesTypeOK, NEW x, Reads(x), NEW n, n = Len(lines),
         NEW e, NEW i \in Nat, EntryOK(e, i, n),
         NEW p \in Nat, p = Len(include_list), NEW q \in Nat, q = Len(include_list'),
         i <= p,
         i = q => i = p /\ ~(x.kind = "directive" /\ x.directive \in {"if", "elif", "else"}),
         i = p /\ i < q => x.kind = "directive" /\ x.directive = "if"
  PROVE  (EntryOK(e, i, n + 1))'
<1>1. lines \in Seq(LineTypes)
  BY DEF IncludesTypeOK
<1>2. n \in Nat /\ \A k \in 1..n : lines'[k] = lines[k]
  BY <1>1, LinesRead
<1>3. /\ e.line \in 1..n /\ lines[e.line].kind = "include"
      /\ lines[e.line].include.header = e.header
      /\ i < Len(include_list) => Ifs(e.line) # Ifs(n)
      /\ i = Len(include_list) => Branches(e.line) = Branches(n)
  BY DEF EntryOK
<1>4. PICK m : m = e.line
  OBVIOUS
<1>5. m \in 0..n /\ m \in 1..n + 1 /\ n \in 0..n /\ lines'[m] = lines[m]
  BY <1>2, <1>3, <1>4
<1>6. (Ifs(m))' = Ifs(m) /\ (Branches(m))' = Branches(m) /\ n + 1 \notin Ifs(m) /\ n + 1 \notin Ifs(n)
  BY <1>1, <1>5, BranchesKept
<1>7. (Ifs(n + 1))' = IF x.kind = "directive" /\ x.directive = "if"
                        THEN Ifs(n) \cup {n + 1} ELSE Ifs(n)
  BY <1>1, BranchesKept
<1>8. i < Len(include_list') => (Ifs(m))' # (Ifs(n + 1))'
  <2> SUFFICES ASSUME i < Len(include_list') PROVE (Ifs(m))' # (Ifs(n + 1))'
    OBVIOUS
  <2>1. CASE x.kind = "directive" /\ x.directive = "if"
    <3>1. n + 1 \in (Ifs(n + 1))'
      BY <1>7, <2>1
    <3> QED
      BY <1>6, <3>1
  <2>2. CASE ~(x.kind = "directive" /\ x.directive = "if")
    <3>1. i < Len(include_list)
      BY <2>2
    <3>2. (Ifs(n + 1))' = Ifs(n)
      BY <1>7, <2>2
    <3> QED
      BY <1>3, <1>4, <1>6, <3>1, <3>2
  <2> QED
    BY <2>1, <2>2
<1>9. i = Len(include_list') => (Branches(m))' = (Branches(n + 1))'
  <2> SUFFICES ASSUME i = Len(include_list') PROVE (Branches(m))' = (Branches(n + 1))'
    OBVIOUS
  <2>1. (Branches(n + 1))' = Branches(n)
    BY <1>1, BranchesKept
  <2> QED
    BY <1>3, <1>4, <1>6, <2>1
<1>10. /\ m \in 1..n + 1 /\ lines'[m].kind = "include" /\ lines'[m].include.header = e.header
  BY <1>3, <1>4, <1>5
<1> QED
  BY <1>4, <1>8, <1>9, <1>10 DEF EntryOK

(* Every entry of every list stays accounted for.                          *)
LEMMA TracedStep ==
  ASSUME BaseInv, Traced, [Next]_vars
  PROVE  Traced'
<1> USE DEF BaseInv
<1>0. PICK n : n = Len(lines)
  OBVIOUS
<1>a. PICK l, l2 : l = include_list /\ l2 = include_list'
  OBVIOUS
<1>1. /\ lines \in Seq(LineTypes) /\ n \in Nat
      /\ l \in Seq(Seq(Entries)) /\ l # << >> /\ Len(l) \in Nat
  BY <1>0, <1>a DEF IncludesTypeOK
<1>2. ASSUME NEW i \in 1..Len(l), NEW j \in 1..Len(l[i]), NEW e, e = l[i][j]
      PROVE  EntryOK(e, i, n)
  BY <1>0, <1>a, <1>2 DEF Traced
<1>b. ASSUME NEW x, Reads(x), NEW i \in 1..Len(l), NEW e, EntryOK(e, i, n), Len(l2) \in Nat,
             i = Len(l2) =>
               i = Len(l) /\ ~(x.kind = "directive" /\ x.directive \in {"if", "elif", "else"}),
             i = Len(l) /\ i < Len(l2) => x.kind = "directive" /\ x.directive = "if"
      PROVE  (EntryOK(e, i, n + 1))'
  <2>1. PICK p, q : p = Len(l) /\ q = Len(l2)
    OBVIOUS
  <2>2. p \in Nat /\ q \in Nat /\ i \in Nat /\ i <= p /\ p = Len(include_list) /\ q = Len(include_list')
    BY <1>a, <1>1, <1>b, <2>1
  <2>3. /\ i = q => i = p /\ ~(x.kind = "directive" /\ x.directive \in {"if", "elif", "else"})
        /\ i = p /\ i < q => x.kind = "directive" /\ x.directive = "if"
    BY <1>b, <2>1
  <2> QED
    BY <1>0, <1>b, <2>2, <2>3, EntryKept
<1>3. ASSUME NEW x, Reads(x),
             \A i \in 1..Len(l2) : \A j \in 1..Len(l2[i]) : \A e : e = l2[i][j] => (EntryOK(e, i, n + 1))'
      PROVE  Traced'
  <2>1. Len(lines') = n + 1
    BY <1>0, <1>1, <1>3, LinesRead
  <2> QED
    BY <1>a, <1>3, <2>1 DEF Traced
<1>4. ASSUME NEW include \in Includes, CheckIncludeLine(include) PROVE Traced'
  <2>1. PICK h : h = include.header
    OBVIOUS
  <2>2. PICK x : x = [kind |-> "include", include |-> include]
    OBVIOUS
  <2>3. PICK new : new = [header |-> h, line |-> n + 1]
    OBVIOUS
  <2>4. /\ Reads(x)
        /\ Accepted(h) /\ ~Seen(h) => l2 = WithEntry(l, new)
        /\ ~(Accepted(h) /\ ~Seen(h)) => l2 = l
    BY <1>0, <1>a, <1>4, <2>1, <2>2, <2>3, IncludeEffect
  <2>5. x.kind # "directive" /\ x.kind = "include" /\ x.include.header = h
    BY <2>1, <2>2
  <2>6. new \in Entries /\ new.header = h /\ new.line = n + 1
    BY <1>1, <2>1, <2>3 DEF Entries
  <2>7. CASE l2 = l
    <3>1. ASSUME NEW i \in 1..Len(l), NEW j \in 1..Len(l[i]), NEW e, e = l[i][j]
          PROVE  (EntryOK(e, i, n + 1))'
      <4>1. EntryOK(e, i, n)
        BY <1>2, <3>1
      <4> QED
        BY <1>1, <1>b, <2>4, <2>5, <2>7, <4>1
    <3> QED
      BY <1>3, <2>4, <2>7, <3>1
  <2>8. CASE l2 = WithEntry(l, new)
    <3>1. /\ Len(l) \in Nat \ {0} /\ Len(l2) = Len(l)
          /\ \A i \in 1..Len(l) : i # Len(l) => l2[i] = l[i]
          /\ l2[Len(l)] = Append(l[Len(l)], new)
      <4>1. l \in Seq(Seq(Entries)) /\ l # << >> /\ new \in Entries
        BY <1>1, <2>6
      <4> QED
        <5>1. Len(l) \in Nat \ {0} /\ Len(l2) = Len(l)
          BY ONLY <4>1, <2>8, RecordInclude
        <5>2. \A i \in 1..Len(l) : i # Len(l) => l2[i] = l[i]
          BY ONLY <4>1, <2>8, RecordInclude
        <5>3. l2[Len(l)] = Append(l[Len(l)], new)
          BY ONLY <4>1, <2>8, RecordInclude
        <5> QED
          BY <5>1, <5>2, <5>3
    <3>2. ASSUME NEW i \in 1..Len(l), NEW j \in 1..Len(l[i]), NEW e, e = l[i][j]
          PROVE  (EntryOK(e, i, n + 1))'
      <4>1. EntryOK(e, i, n)
        BY <1>2, <3>2
      <4> QED
        BY <1>1, <1>b, <2>4, <2>5, <3>1, <4>1
    <3>3. (EntryOK(new, Len(l), n + 1))'
      <4>1. n + 1 \in 1..n + 1 /\ lines'[n + 1] = x
        BY <1>0, <1>1, <2>4, LinesRead
      <4>2. Len(include_list') = Len(l) /\ ~(Len(l) < Len(l))
        BY <1>a, <3>1
      <4> QED
        BY <2>5, <2>6, <4>1, <4>2 DEF EntryOK
    <3>4. ASSUME NEW i \in 1..Len(l2), NEW j \in 1..Len(l2[i]), NEW e, e = l2[i][j]
          PROVE  (EntryOK(e, i, n + 1))'
      <4>1. CASE i # Len(l)
        BY <3>1, <3>2, <3>4, <4>1
      <4>2. CASE i = Len(l)
        <5>1. PICK last : last = l[Len(l)]
          OBVIOUS
        <5>2. last \in Seq(Entries)
          BY <1>1, <3>1, <5>1
        <5>3. l2[i] = Append(last, new) /\ Len(l2[i]) = Len(last) + 1 /\ Len(last) \in Nat
              /\ l2[i][Len(last) + 1] = new /\ \A k \in 1..Len(last) : l2[i][k] = last[k]
          BY <2>6, <3>1, <4>2, <5>1, <5>2
        <5>4. CASE j \in 1..Len(last)
          BY <3>1, <3>2, <3>4, <4>2, <5>1, <5>3, <5>4
        <5>5. CASE j = Len(last) + 1
          BY <3>3, <3>4, <4>2, <5>3, <5>5
        <5> QED
          BY <5>3, <5>4, <5>5
      <4> QED
        BY <4>1, <4>2
    <3> QED
      BY <1>3, <2>4, <3>4
  <2> QED
    BY <2>4, <2>7, <2>8
<1>5. ASSUME NEW directive \in {"if", "elif", "else", "endif"}, Directive(directive) PROVE Traced'
  <2>1. PICK x : x = [kind |-> "directive", directive |-> directive]
    OBVIOUS
  <2>2. Reads(x) /\ ListsAfter(directive)
    BY <1>5, <2>1, DirectiveEffect
  <2>3. x.kind = "directive" /\ x.directive = directive
    BY <2>1
  <2>4. CASE directive = "if"
    <3>1. /\ Len(l2) = Len(l) + 1 /\ \A i \in 1..Len(l) : l2[i] = l[i]
          /\ l2[Len(l) + 1] = << >>
      BY <1>a, <1>1, <2>2, <2>4, OpenList DEF ListsAfter
    <3>2. ASSUME NEW i \in 1..Len(l2), NEW j \in 1..Len(l2[i]), NEW e, e = l2[i][j]
          PROVE  (EntryOK(e, i, n + 1))'
      <4>1. i \in 1..Len(l)
        <5>1. CASE i = Len(l) + 1
          <6>1. Len(l2[i]) = 0
            BY <3>1, <5>1
          <6> QED
            BY <3>2, <6>1
        <5> QED
          BY <1>1, <3>1, <5>1
      <4>2. EntryOK(e, i, n)
        BY <1>2, <3>1, <3>2, <4>1
      <4>3. i # Len(include_list')
        BY <1>a, <1>1, <3>1, <4>1
      <4> QED
        BY <1>1, <1>b, <2>2, <2>3, <2>4, <3>1, <4>1, <4>2, <4>3
    <3> QED
      BY <1>3, <2>2, <3>2
  <2>5. CASE directive \in {"elif", "else"}
    <3>1. /\ Len(l) \in Nat \ {0} /\ Len(l2) = Len(l)
          /\ \A i \in 1..Len(l) : i # Len(l) => l2[i] = l[i]
          /\ l2[Len(l)] = << >>
      BY <1>a, <1>1, <2>2, <2>5, EmptyList DEF ListsAfter
    <3>2. ASSUME NEW i \in 1..Len(l2), NEW j \in 1..Len(l2[i]), NEW e, e = l2[i][j]
          PROVE  (EntryOK(e, i, n + 1))'
      <4>1. i # Len(l)
        <5>1. CASE i = Len(l)
          <6>1. Len(l2[i]) = 0
            BY <3>1, <5>1
          <6> QED
            BY <3>2, <6>1
        <5> QED
          BY <5>1
      <4>2. EntryOK(e, i, n)
        BY <1>2, <3>1, <3>2, <4>1
      <4> QED
        BY <1>1, <1>b, <2>2, <2>3, <3>1, <4>1, <4>2
    <3> QED
      BY <1>3, <2>2, <3>2
  <2>6. CASE directive = "endif"
    <3>1. l2 = l
      BY <1>a, <2>2, <2>6 DEF ListsAfter
    <3>2. ~(x.directive \in {"if", "elif", "else"})
      BY <2>3, <2>6
    <3>3. ASSUME NEW i \in 1..Len(l), NEW j \in 1..Len(l[i]), NEW e, e = l[i][j]
          PROVE  (EntryOK(e, i, n + 1))'
      <4>1. EntryOK(e, i, n)
        BY <1>2, <3>3
      <4> QED
        BY <1>1, <1>b, <2>2, <3>1, <3>2, <4>1
    <3> QED
      BY <1>3, <2>2, <3>1, <3>3
  <2> QED
    BY <2>4, <2>5, <2>6
<1>6. ASSUME NEW uses \in {{}} \cup {{h} : h \in Required}, Code(uses) PROVE Traced'
  <2>1. PICK x : x = [kind |-> "code", uses |-> uses]
    OBVIOUS
  <2>2. Reads(x) /\ l2 = l
    BY <1>a, <1>6, <2>1, CodeEffect
  <2>3. x.kind # "directive"
    BY <2>1
  <2>4. ASSUME NEW i \in 1..Len(l), NEW j \in 1..Len(l[i]), NEW e, e = l[i][j]
        PROVE  (EntryOK(e, i, n + 1))'
    <3>1. EntryOK(e, i, n)
      BY <1>2, <2>4
    <3> QED
      BY <1>1, <1>b, <2>2, <2>3, <3>1
  <2> QED
    BY <1>3, <2>2, <2>4
<1>7. ASSUME UNCHANGED <<lines, include_list>> PROVE Traced'
  <2>1. \A k : (Ifs(k))' = Ifs(k) /\ (Branches(k))' = Branches(k)
    BY <1>7 DEF Ifs, Branches, Directives
  <2>2. ASSUME NEW e, NEW i, NEW k, EntryOK(e, i, k) PROVE (EntryOK(e, i, k))'
    BY <1>7, <2>1, <2>2, Zenon DEF EntryOK
  <2> QED
    BY <1>7, <2>2, Zenon DEF Traced
<1> QED
  BY <1>4, <1>5, <1>6, <1>7, StepKinds DEF EndOfFile, vars

(* CheckHeaderFileIncluded reports that the file's own header is missing   *)
(* only when no include is related to it.                                  *)
LEMMA OwnHeaderReport ==
  ASSUME NEW r \in CheckHeaderFileIncluded, NEW header, header = [file.name EXCEPT !.ext = "h"]
  PROVE  /\ r.category = "own header" /\ r.about = header
         /\ \A h \in IncludedHere : ~Within(Written(header), Written(h))
<1> DEFINE related(h) == Within(Written(header), Written(h)) \/ Within(Written(h), Written(header))
           listed == {x.line : x \in Listed(include_list)}
           silent == \/ ~IsSource(file.name) \/ IsTest(file.name.words)
                     \/ [file.absolute EXCEPT !.ext = "h"] \notin DOMAIN disk
                     \/ \E h \in IncludedHere : related(h)
           place == IF listed = {} THEN 0 ELSE CHOOSE n \in listed : \A m \in listed : n <= m
<1>1. CheckHeaderFileIncluded =
        IF silent THEN {} ELSE {[line |-> place, category |-> "own header", about |-> header]}
  BY DEF CheckHeaderFileIncluded
<1>2. ~silent => \A h \in IncludedHere : ~Within(Written(header), Written(h))
  OBVIOUS
<1> HIDE DEF silent, place
<1>3. ~silent
  BY <1>1
<1>4. r = [line |-> place, category |-> "own header", about |-> header]
  BY <1>1, <1>3
<1> QED
  BY <1>2, <1>3, <1>4

(* The end of the file adds reports of its own two kinds only.             *)
LEMMA EndEffect ==
  ASSUME EndOfFile
  PROVE  /\ UNCHANGED <<file, disk, lines, include_list, section>>
         /\ ~done /\ done' = TRUE /\ reports \subseteq reports'
         /\ \A r \in reports' : r \in reports \/ r.category \in EndCategories
<1>1. \A r \in CheckForIncludeWhatYouUse : r.category = "include_what_you_use"
  BY DEF CheckForIncludeWhatYouUse
<1>2. \A r \in CheckHeaderFileIncluded : r.category = "own header"
  BY OwnHeaderReport
<1>3. /\ UNCHANGED <<file, disk, lines, include_list, section>>
      /\ ~done /\ done' = TRUE
      /\ reports' = reports \cup CheckForIncludeWhatYouUse \cup CheckHeaderFileIncluded
  BY DEF EndOfFile
<1> QED
  BY <1>1, <1>2, <1>3 DEF EndCategories

(* The reason of a report stays one when a line is read.                   *)
LEMMA ReasonKept ==
  ASSUME lines \in Seq(LineTypes), NEW x, Reads(x), NEW n, n = Len(lines),
         NEW k \in 1..n, Reason(k)
  PROVE  (Reason(k))'
<1>1. n \in Nat /\ \A m \in 1..n : lines'[m] = lines[m]
  BY LinesRead
<1>2. PICK m \in 1..(k - 1) :
        /\ lines[m].kind = "include" /\ lines[m].include.header = lines[k].include.header
        /\ Ifs(m) = Ifs(k) => Branches(m) = Branches(k)
  BY DEF Reason
<1>3. m \in 1..n /\ m \in 0..n /\ k \in 0..n
  BY <1>1
<1>4. (Ifs(m))' = Ifs(m) /\ (Branches(m))' = Branches(m)
      /\ (Ifs(k))' = Ifs(k) /\ (Branches(k))' = Branches(k)
  BY <1>3, BranchesKept
<1>5. lines'[m] = lines[m] /\ lines'[k] = lines[k]
  BY <1>1, <1>3
<1> QED
  BY <1>2, <1>4, <1>5 DEF Reason

(* The entry that FindHeader finds is the reason of a duplicate: a list    *)
(* before the last means a conditional opened since.                       *)
LEMMA DuplicatesReasonedStep ==
  ASSUME BaseInv, Traced, DuplicatesReasoned, [Next]_vars
  PROVE  DuplicatesReasoned'
<1> USE DEF BaseInv
<1>0. PICK n : n = Len(lines)
  OBVIOUS
<1>1. /\ lines \in Seq(LineTypes) /\ n \in Nat
      /\ include_list \in Seq(Seq(Entries)) /\ include_list # << >>
  BY <1>0 DEF IncludesTypeOK
<1>2. ASSUME NEW x, Reads(x),
             \A r \in reports' : r \in reports \/ r.line = n + 1,
             (ReportedAt(n + 1, "duplicate"))' => (Reason(n + 1))'
      PROVE  DuplicatesReasoned'
  <2>1. Len(lines') = n + 1
    BY <1>0, <1>1, <1>2, LinesRead
  <2>2. ASSUME NEW k \in 1..n, (ReportedAt(k, "duplicate"))' PROVE (Reason(k))'
    <3>1. PICK r \in reports' : r.line = k /\ r.category = "duplicate"
      BY <2>2 DEF ReportedAt
    <3>2. k # n + 1
      BY <1>1
    <3>3. ReportedAt(k, "duplicate")
      BY <1>2, <3>1, <3>2 DEF ReportedAt
    <3>4. Reason(k)
      BY <1>0, <3>3 DEF DuplicatesReasoned
    <3> QED
      BY <1>0, <1>1, <1>2, <3>4, ReasonKept
  <2>3. \A k \in 1..n + 1 : k \in 1..n \/ k = n + 1
    BY <1>1
  <2>4. \A k \in 1..n + 1 : (ReportedAt(k, "duplicate"))' => (Reason(k))'
    BY <1>2, <2>2, <2>3
  <2> QED
    BY <2>1, <2>4 DEF DuplicatesReasoned
<1>3. ASSUME ~done, reports' = reports PROVE ~(ReportedAt(n + 1, "duplicate"))'
  <2>1. \A r \in reports : r.line # n + 1 \/ r.category # "duplicate"
    BY <1>0, <1>1, <1>3 DEF ReportsBounded
  <2> QED
    BY <1>3, <2>1 DEF ReportedAt
<1>4. ASSUME NEW include \in Includes, CheckIncludeLine(include) PROVE DuplicatesReasoned'
  <2>1. PICK h : h = include.header
    OBVIOUS
  <2>2. PICK x : x = [kind |-> "include", include |-> include]
    OBVIOUS
  <2>3. /\ Reads(x) /\ \A r \in reports' : r \in reports \/ r.line = n + 1
        /\ (ReportedAt(n + 1, "duplicate"))' <=> Seen(h)
    BY <1>0, <1>4, <2>1, <2>2, IncludeEffect
  <2>4. x.kind = "include" /\ x.kind # "directive" /\ x.include.header = h
    BY <2>1, <2>2
  <2>5. ASSUME Seen(h) PROVE (Reason(n + 1))'
    <3>1. PICK i \in 1..Len(include_list) : Has(include_list, h, i)
      BY <2>5 DEF Seen
    <3>2. PICK j \in 1..Len(include_list[i]) : include_list[i][j].header = h
      BY <3>1 DEF Has
    <3>3. PICK e : e = include_list[i][j]
      OBVIOUS
    <3>4. EntryOK(e, i, n)
      BY <1>0, <3>3 DEF Traced
    <3>5. PICK m : m = e.line
      OBVIOUS
    <3>6. /\ m \in 1..n /\ lines[m].kind = "include" /\ lines[m].include.header = h
          /\ i < Len(include_list) => Ifs(m) # Ifs(n)
          /\ i = Len(include_list) => Branches(m) = Branches(n)
      BY <3>2, <3>3, <3>4, <3>5 DEF EntryOK
    <3>7. i < Len(include_list) \/ i = Len(include_list)
      BY <1>1
    <3>8. m \in 1..(n + 1 - 1) /\ m \in 0..n
      BY <1>1, <3>6
    <3>9. lines'[m] = lines[m] /\ lines'[n + 1] = x
      BY <1>0, <1>1, <2>3, <3>6, LinesRead
    <3>10. (Ifs(m))' = Ifs(m) /\ (Branches(m))' = Branches(m)
      BY <1>0, <1>1, <2>3, <3>8, BranchesKept
    <3>11. (Ifs(n + 1))' = Ifs(n) /\ (Branches(n + 1))' = Branches(n)
      BY <1>0, <1>1, <2>3, <2>4, BranchesKept
    <3>12. (Ifs(m))' = (Ifs(n + 1))' => (Branches(m))' = (Branches(n + 1))'
      BY <3>6, <3>7, <3>10, <3>11
    <3> QED
      <4>1. lines'[m].kind = "include" /\ lines'[m].include.header = lines'[n + 1].include.header
        BY <2>4, <3>6, <3>9
      <4> QED
        <5>1. PICK k : k = n + 1
          OBVIOUS
        <5>2. m \in 1..(k - 1) /\ ((Ifs(m))' = (Ifs(k))' => (Branches(m))' = (Branches(k))')
          <6>1. (Ifs(k))' = (Ifs(n + 1))'
            BY <5>1 DEF Ifs, Directives
          <6>2. (Branches(k))' = (Branches(n + 1))'
            BY <5>1 DEF Branches, Directives
          <6> QED
            BY <1>1, <3>8, <3>12, <5>1, <6>1, <6>2
        <5>3. (Reason(k))'
          BY <4>1, <5>1, <5>2 DEF Reason
        <5> QED
          BY <5>1, <5>3
  <2> QED
    BY <1>2, <2>3, <2>5
<1>5. ASSUME NEW directive \in {"if", "elif", "else", "endif"}, Directive(directive)
      PROVE  DuplicatesReasoned'
  <2>1. PICK x : x = [kind |-> "directive", directive |-> directive]
    OBVIOUS
  <2>2. Reads(x) /\ ~done /\ reports' = reports
    BY <1>5, <2>1, DirectiveEffect
  <2> QED
    BY <1>2, <1>3, <2>2
<1>6. ASSUME NEW uses \in {{}} \cup {{h} : h \in Required}, Code(uses) PROVE DuplicatesReasoned'
  <2>1. PICK x : x = [kind |-> "code", uses |-> uses]
    OBVIOUS
  <2>2. Reads(x) /\ ~done /\ reports' = reports
    BY <1>6, <2>1, CodeEffect
  <2> QED
    BY <1>2, <1>3, <2>2
<1>7. ASSUME UNCHANGED lines, \A r \in reports' : r \in reports \/ r.category \in EndCategories
      PROVE  DuplicatesReasoned'
  <2>1. ASSUME NEW k, (ReportedAt(k, "duplicate"))' PROVE ReportedAt(k, "duplicate")
    BY <1>7, <2>1 DEF ReportedAt, EndCategories
  <2>2. \A k : (Ifs(k))' = Ifs(k) /\ (Branches(k))' = Branches(k)
    BY <1>7 DEF Ifs, Branches, Directives
  <2>3. ASSUME NEW k, Reason(k) PROVE (Reason(k))'
    BY <1>7, <2>2, <2>3, Zenon DEF Reason
  <2> QED
    BY <1>7, <2>1, <2>3 DEF DuplicatesReasoned
<1>8. CASE EndOfFile
  BY <1>7, <1>8, EndEffect
<1>9. CASE UNCHANGED vars
  BY <1>7, <1>9 DEF vars
<1> QED
  BY <1>4, <1>5, <1>6, <1>8, <1>9, StepKinds

(* At first no line has been read and no list has an entry.                *)
LEMMA NoDuplicateYet == Init => DepthsNatural /\ Traced /\ DuplicatesReasoned
<1> SUFFICES ASSUME Init PROVE DepthsNatural /\ Traced /\ DuplicatesReasoned
  OBVIOUS
<1>1. Len(lines) = 0 /\ Len(include_list) = 1 /\ Len(include_list[1]) = 0
  BY DEF Init
<1>2. DuplicatesReasoned
  BY <1>1 DEF DuplicatesReasoned
<1>3. \A i \in 1..Len(include_list) : \A j \in 1..Len(include_list[i]) : FALSE
  BY <1>1
<1>4. Traced
  BY <1>3 DEF Traced
<1>5. DepthsNatural
  <2>1. \A ds : Directives(0, ds) = {}
    BY DEF Directives
  <2>2. Depth(0) = 0
    BY <2>1, FS_EmptySet DEF Depth
  <2>3. \A k \in 0..Len(lines) : k = 0
    BY <1>1
  <2> QED
    BY <2>1, <2>2, <2>3 DEF DepthsNatural, Ifs
<1> QED
  BY <1>2, <1>4, <1>5

(* Where conditionals are not nested, CheckIncludeLine never calls an      *)
(* include a duplicate of one in another branch of the same conditional:   *)
(* include_list keeps no header of a branch that has ended while the       *)
(* conditional is still open.                                              *)
THEOREM DuplicatesAreReal == Spec => []DuplicatesReal
<1>1. DepthsNatural /\ DuplicatesReasoned => DuplicatesReal
  <2> SUFFICES ASSUME DepthsNatural, DuplicatesReasoned,
                      \A k \in 1..Len(lines) : Depth(k) <= 1,
                      NEW n \in 1..Len(lines), ReportedAt(n, "duplicate")
               PROVE  \E m \in 1..(n - 1) :
                        /\ lines[m].kind = "include"
                        /\ lines[m].include.header = lines[n].include.header
                        /\ ~(/\ Depth(m) = 1 /\ Depth(n) = 1
                             /\ {k \in Directives(m, {"if"}) : Depth(k) = 1}
                                  = {k \in Directives(n, {"if"}) : Depth(k) = 1}
                             /\ Directives(m, {"if", "elif", "else"})
                                  # Directives(n, {"if", "elif", "else"}))
    BY DEF DuplicatesReal
  <2>1. PICK m \in 1..(n - 1) :
          /\ lines[m].kind = "include" /\ lines[m].include.header = lines[n].include.header
          /\ Ifs(m) = Ifs(n) => Branches(m) = Branches(n)
    BY DEF DuplicatesReasoned, Reason
  <2>2. \A q \in {m, n} : {k \in Directives(q, {"if"}) : Depth(k) = 1} = Ifs(q)
    <3> SUFFICES ASSUME NEW q \in {m, n}, NEW k \in Directives(q, {"if"}) PROVE Depth(k) = 1
      BY DEF Ifs
    <3>1. q \in 1..Len(lines) /\ k \in 1..q /\ lines[k].kind = "directive" /\ lines[k].directive \in {"if"}
      BY DEF Directives
    <3>2. k \in 1..k /\ k \in 1..Len(lines) /\ k \in 0..Len(lines) /\ k \in Nat
      BY <3>1
    <3>3. k \in Ifs(k)
      BY <3>1, <3>2 DEF Ifs, Directives
    <3>4. Depth(k) \in Int /\ Depth(k) >= 1 /\ Depth(k) <= 1
      BY <3>2, <3>3, DepthType DEF DepthsNatural
    <3> QED
      BY <3>4
  <2>3. {k \in Directives(m, {"if"}) : Depth(k) = 1} = {k \in Directives(n, {"if"}) : Depth(k) = 1}
          => Directives(m, {"if", "elif", "else"}) = Directives(n, {"if", "elif", "else"})
    BY <2>1, <2>2 DEF Branches
  <2> QED
    BY <2>1, <2>3
<1>2. BaseInv /\ [Next]_vars => BaseInv'
  BY BaseStep
<1>3. BaseInv /\ DepthsNatural /\ [Next]_vars => DepthsNatural'
  BY DepthsStep
<1>4. BaseInv /\ Traced /\ [Next]_vars => Traced'
  BY TracedStep
<1>5. BaseInv /\ Traced /\ DuplicatesReasoned /\ [Next]_vars => DuplicatesReasoned'
  BY DuplicatesReasonedStep
<1> QED
  BY <1>1, <1>2, <1>3, <1>4, <1>5, BaseInit, NoDuplicateYet, PTL DEF Spec

-----------------------------------------------------------------------------
(* What is reported at the end of the file                                 *)

(* The headers of the unconditional lines, and the ones of the module      *)
(* found for a set of headers.                                             *)
Here ==
  {lines[n].include.header : n \in {k \in 1..Len(lines) : Eligible(k) /\ Depth(k) = 0}}
OwnFound(hs) ==
  {Fullpath(file.absolute, h) :
     h \in {x \in hs : FilesBelongToSameModule(file.absolute, x)}} \cap DOMAIN disk

(* One report.                                                             *)
ReportReal(r, here) ==
  /\ r.category \in EndCategories => r.about \notin here
  /\ r.category = "include_what_you_use" => \A h \in OwnFound(here) : r.about \notin disk[h]

(* Before the end of the file, nothing is said about missing includes.     *)
EndSilent == ~done => \A r \in reports : r.category \notin EndCategories

(* A name is a sequence, which occurs within itself.                       *)
LEMMA WithinItself ==
  ASSUME NEW name \in [dir : Seq(STRING), words : Seq(STRING), ext : STRING \cup {"h"}]
  PROVE  Within(Written(name), Written(name))
<1> DEFINE L == Len(name.dir)
           dirs == [i \in 1..(2 * L) |-> IF i % 2 = 1 THEN name.dir[(i + 1) \div 2] ELSE "/"]
           ext == IF name.ext = "" THEN << >> ELSE << ".", name.ext >>
           T == STRING \cup {"/", ".", "h"}
<1>1. dirs \in Seq(T)
  <2>1. L \in Nat /\ name.dir \in Seq(STRING)
    OBVIOUS
  <2>2. ASSUME NEW i \in 1..(2 * L) PROVE dirs[i] \in T
    <3>1. (i + 1) \div 2 \in 1..L
      BY <2>1
    <3>2. name.dir[(i + 1) \div 2] \in T /\ "/" \in T
      BY <2>1, <3>1
    <3>3. dirs[i] = name.dir[(i + 1) \div 2] \/ dirs[i] = "/"
      BY Zenon
    <3> QED
      BY <3>2, <3>3
  <2>3. 2 * L \in Nat
    BY <2>1
  <2>4. dirs \in [1..(2 * L) -> T]
    BY <2>2
  <2> QED
    BY <2>3, <2>4, SeqDef
<1>2. ext \in Seq(T)
  <2>1. "." \in T /\ name.ext \in T
    OBVIOUS
  <2>2. << >> \in Seq(T) /\ << ".", name.ext >> \in Seq(T)
    BY <2>1
  <2> QED
    BY <2>2, Zenon
<1>2a. name.words \in Seq(T)
  <2>1. name.words \in Seq(STRING) /\ STRING \subseteq T
    OBVIOUS
  <2> QED
    BY <2>1, SeqMonotonic
<1>3. Written(name) = dirs \o name.words \o ext
  BY DEF Written
<1> HIDE DEF dirs, ext, T
<1>4. Written(name) \in Seq(T)
  BY <1>1, <1>2, <1>2a, <1>3
<1>5. PICK s : s = Written(name)
  OBVIOUS
<1>6. s \in Seq(T) /\ Len(s) \in Nat /\ SubSeq(s, 1, Len(s)) = s
  BY <1>4, <1>5, SubSeqFull
<1>7. 0 \in 0..(Len(s) - Len(s)) /\ 0 + 1 = 1 /\ 0 + Len(s) = Len(s)
  BY <1>6
<1>8. SubSeq(s, 0 + 1, 0 + Len(s)) = s
  BY <1>6, <1>7
<1>9. Within(s, s)
  BY <1>7, <1>8 DEF Within
<1> QED
  BY <1>5, <1>9

(* Both checks look at the lists, where every unconditional include is.    *)
LEMMA EndReported ==
  ASSUME BaseInv, Kept, NEW here, here = Here,
         NEW r \in CheckForIncludeWhatYouUse \cup CheckHeaderFileIncluded
  PROVE  ReportReal(r, here)
<1>1. here \subseteq IncludedHere
  BY UnconditionalListed DEF Here
<1>2. ASSUME r \in CheckForIncludeWhatYouUse PROVE ReportReal(r, here)
  <2>1. r.category = "include_what_you_use" /\ r.about \notin include_dict
    BY <1>2 DEF CheckForIncludeWhatYouUse
  <2>2. OwnFound(here) \subseteq FoundHeaders
    BY <1>1 DEF OwnFound, FoundHeaders
  <2>3. r.about \notin IncludedHere /\ \A h \in FoundHeaders : r.about \notin disk[h]
    BY <2>1 DEF include_dict
  <2> QED
    BY <1>1, <2>2, <2>3 DEF ReportReal
<1>3. ASSUME r \in CheckHeaderFileIncluded PROVE ReportReal(r, here)
  <2>1. PICK header : header = [file.name EXCEPT !.ext = "h"]
    OBVIOUS
  <2>2. /\ r.category = "own header" /\ r.about = header
        /\ \A h \in IncludedHere : ~Within(Written(header), Written(h))
    BY <1>3, <2>1, OwnHeaderReport
  <2>3. header \in [dir : Seq(STRING), words : Seq(STRING), ext : STRING \cup {"h"}]
    <3>1. file.name \in [dir : Seq(STRING), words : Seq(STRING), ext : STRING]
      BY NamesAssumption DEF BaseInv, IncludesTypeOK
    <3> QED
      BY <2>1, <3>1
  <2>4. header \notin IncludedHere
    BY <2>2, <2>3, WithinItself
  <2> QED
    BY <1>1, <2>2, <2>4 DEF ReportReal
<1> QED
  BY <1>2, <1>3

(* Nothing is said about missing includes while lines are read.            *)
LEMMA EndSilentStep ==
  ASSUME BaseInv, EndSilent, [Next]_vars
  PROVE  EndSilent' /\ (UNCHANGED vars \/ EndOfFile \/ ~done')
<1>1. ASSUME NEW include \in Includes, CheckIncludeLine(include)
      PROVE  EndSilent' /\ ~done'
  <2>1. PICK n, h : n = Len(lines) /\ h = include.header
    OBVIOUS
  <2>2. /\ ~done /\ done' = done
        /\ \A r \in reports' : r \in reports \/ r.category \notin EndCategories
    BY <1>1, <2>1, IncludeEffect DEF BaseInv
  <2> QED
    BY <2>2 DEF EndSilent
<1>2. ASSUME NEW directive \in {"if", "elif", "else", "endif"}, Directive(directive)
      PROVE  EndSilent' /\ ~done'
  BY <1>2, DirectiveEffect DEF EndSilent
<1>3. ASSUME NEW uses \in {{}} \cup {{h} : h \in Required}, Code(uses) PROVE EndSilent' /\ ~done'
  BY <1>3, CodeEffect DEF EndSilent
<1>4. CASE EndOfFile
  BY <1>4, EndEffect DEF EndSilent
<1>5. CASE UNCHANGED vars
  BY <1>5 DEF vars, EndSilent
<1> QED
  BY <1>1, <1>2, <1>3, <1>4, <1>5, StepKinds

(* At the end of the file neither check asks for a header that an          *)
(* unconditional line includes, nor CheckForIncludeWhatYouUse for one that *)
(* the header of the file's module includes.                               *)
THEOREM MissingAreMissing == Spec => []EndReportsReal
<1>1. EndReportsReal <=> \A here : here = Here => \A r \in reports : ReportReal(r, here)
  BY DEF EndReportsReal, Here, ReportReal, OwnFound, EndCategories
<1>2. (EndReportsReal <=> \A here : here = Here => \A r \in reports : ReportReal(r, here))'
  BY <1>1, PTL
<1>3. EndSilent /\ ~done => EndReportsReal
  BY <1>1 DEF EndSilent, ReportReal, EndCategories
<1>4. (EndSilent /\ ~done => EndReportsReal)'
  BY <1>3, PTL
<1>5. ASSUME UNCHANGED <<file, disk, lines>>
      PROVE  Here' = Here /\ \A r, here : ReportReal(r, here) <=> (ReportReal(r, here))'
  <2>1. \A k : ((Eligible(k))' <=> Eligible(k)) /\ (Depth(k))' = Depth(k)
    BY <1>5 DEF Eligible, Depth, Directives
  <2>2. Here' = Here
    BY <1>5, <2>1 DEF Here
  <2>3. \A here : (OwnFound(here))' = OwnFound(here)
    BY <1>5 DEF OwnFound
  <2> QED
    BY <1>5, <2>2, <2>3 DEF ReportReal
<1>6. BaseInv /\ Kept /\ EndReportsReal /\ EndOfFile => EndReportsReal'
  <2> SUFFICES ASSUME BaseInv, Kept, EndReportsReal, EndOfFile,
                      NEW here, here = Here, NEW r \in reports'
               PROVE  ReportReal(r, here)
    BY <1>2, <1>5, EndEffect
  <2>1. reports' = reports \cup CheckForIncludeWhatYouUse \cup CheckHeaderFileIncluded
    BY DEF EndOfFile
  <2> QED
    BY <1>1, <2>1, EndReported
<1>7. EndReportsReal /\ UNCHANGED vars => EndReportsReal'
  BY <1>1, <1>2, <1>5 DEF vars
<1>8. BaseInv /\ [Next]_vars => BaseInv'
  BY BaseStep
<1>9. BaseInv /\ Kept /\ [Next]_vars => Kept'
  BY KeptStep
<1>10. BaseInv /\ EndSilent /\ [Next]_vars => EndSilent' /\ (UNCHANGED vars \/ EndOfFile \/ ~done')
  BY EndSilentStep
<1>11. BaseInv /\ Kept /\ EndSilent /\ EndReportsReal /\ [Next]_vars => EndReportsReal'
  BY <1>4, <1>6, <1>7, <1>10
<1>12. Init => EndSilent /\ EndReportsReal
  BY <1>3 DEF Init, EndSilent
<1> QED
  BY <1>8, <1>9, <1>10, <1>11, <1>12, BaseInit, NothingRead, PTL DEF Spec

-----------------------------------------------------------------------------
(* The order of includes                                                   *)

OwnTypes == {"_LIKELY_MY_HEADER", "_POSSIBLE_MY_HEADER"}
IncludeTypes == {"_C_SYS_HEADER", "_CPP_SYS_HEADER", "_OTHER_HEADER"} \cup OwnTypes

(* The includes since the last directive, when n lines have been read.     *)
Current(n) == {m \in 1..n : Taken(m) /\ Together(m, n)}

(* What OrderExact says of one line.                                       *)
OrderedAt(n) ==
  Taken(n) =>
    (ReportedAt(n, "include_order") <=>
       \/ IncludeType(n) = "_CPP_SYS_HEADER" /\ \E m \in Before(n) : Late(m)
       \/ IncludeType(n) = "_C_SYS_HEADER"
            /\ \E m \in Before(n) : Late(m) \/ IncludeType(m) = "_CPP_SYS_HEADER")

(* What section stands for: it has passed a section exactly when an        *)
(* include since the last directive did.                                   *)
SectionOK(n) ==
  /\ section \in 0..4
  /\ section = 4 <=> \E m \in Current(n) : Late(m)
  /\ section >= 3 <=> \E m \in Current(n) : Late(m) \/ IncludeType(m) = "_CPP_SYS_HEADER"
  /\ section >= 2 <=> \E m \in Current(n) : ~Own(m)

OrderInv ==
  /\ \A n : n = Len(lines) => SectionOK(n)
  /\ \A k \in 1..Len(lines) : OrderedAt(k)

(* The types there are.                                                    *)
LEMMA TypesOfIncludes ==
  ASSUME NEW include
  PROVE  ClassifyInclude(include) \in IncludeTypes
BY DEF ClassifyInclude, IncludeTypes, OwnTypes

(* The type depends on the file's name only.                               *)
LEMMA TypesKept ==
  ASSUME file' = file, NEW include
  PROVE  (ClassifyInclude(include))' = ClassifyInclude(include)
BY DEF ClassifyInclude

(* CheckNextIncludeOrder, section by section.                              *)
LEMMA SectionsPassed ==
  ASSUME section \in 0..4, NEW type \in IncludeTypes, NEW s, s = NextSection(type)
  PROVE  /\ s \in 0..4
         /\ s = 4 <=> section = 4 \/ type = "_OTHER_HEADER" \/ (type \in OwnTypes /\ section >= 2)
         /\ s >= 3 <=> \/ section >= 3 \/ type = "_CPP_SYS_HEADER" \/ type = "_OTHER_HEADER"
                       \/ type \in OwnTypes /\ section >= 2
         /\ s >= 2 <=> section >= 2 \/ type \notin OwnTypes
<1> USE DEF OwnTypes
<1>1. CASE type = "_C_SYS_HEADER"
  BY <1>1 DEF NextSection
<1>2. CASE type = "_CPP_SYS_HEADER"
  BY <1>2 DEF NextSection
<1>3. CASE type \in OwnTypes
  BY <1>3 DEF NextSection
<1>4. CASE type = "_OTHER_HEADER"
  BY <1>4 DEF NextSection
<1> QED
  BY <1>1, <1>2, <1>3, <1>4 DEF IncludeTypes

(* Reading a line changes nothing about the types, the order and the       *)
(* reports of the lines before it.                                         *)
LEMMA OrderKept ==
  ASSUME lines \in Seq(LineTypes), NEW x, Reads(x), file' = file, NEW n, n = Len(lines),
         reports \subseteq reports', \A r \in reports' : r \in reports \/ r.line = n + 1
  PROVE  \A k \in 1..n : /\ (IncludeType(k))' = IncludeType(k)
                         /\ (Taken(k))' <=> Taken(k)
                         /\ (Own(k))' <=> Own(k)
                         /\ (Late(k))' <=> Late(k)
                         /\ (OrderedAt(k))' <=> OrderedAt(k)
<1>1. n \in Nat /\ \A k \in 1..n : lines'[k] = lines[k]
  BY LinesRead
<1>2. ASSUME NEW k \in 1..n, NEW c PROVE (ReportedAt(k, c))' <=> ReportedAt(k, c)
  <2>1. k # n + 1
    BY <1>1
  <2> QED
    BY <2>1 DEF ReportedAt
<1>3. ASSUME NEW k \in 1..n PROVE (IncludeType(k))' = IncludeType(k)
  <2>1. PICK include : include = lines[k].include
    OBVIOUS
  <2>2. lines'[k].include = include
    BY <1>1, <2>1
  <2> QED
    BY <2>1, <2>2, TypesKept DEF IncludeType
<1>4. ASSUME NEW k \in 1..n PROVE (Taken(k))' <=> Taken(k)
  BY <1>2, EligibleKept DEF Taken
<1>5. ASSUME NEW k \in 1..n PROVE (Own(k))' <=> Own(k)
  BY <1>3 DEF Own
<1>6. ASSUME NEW k \in 1..n PROVE (Before(k))' = Before(k) /\ Before(k) \subseteq 1..n
  <2>1. \A ds : (Directives(k, ds))' = Directives(k, ds)
    BY <1>1, PrefixKept
  <2>2. \A m : (Together(m, k))' <=> Together(m, k)
    BY <2>1 DEF Together
  <2>3. \A m \in 1..(k - 1) : m \in 1..n
    BY <1>1
  <2> QED
    BY <1>4, <2>2, <2>3 DEF Before
<1>7. ASSUME NEW k \in 1..n PROVE (Late(k))' <=> Late(k)
  BY <1>3, <1>5, <1>6 DEF Late
<1>8. ASSUME NEW k \in 1..n PROVE (OrderedAt(k))' <=> OrderedAt(k)
  BY <1>2, <1>3, <1>4, <1>6, <1>7 DEF OrderedAt
<1> QED
  BY <1>3, <1>4, <1>5, <1>7, <1>8

(* The includes since the last directive after one more line.              *)
LEMMA CurrentAfter ==
  ASSUME lines \in Seq(LineTypes), NEW x, Reads(x), file' = file, NEW n, n = Len(lines),
         reports \subseteq reports', \A r \in reports' : r \in reports \/ r.line = n + 1
  PROVE  /\ x.kind # "directive" =>
              /\ (Before(n + 1))' = Current(n)
              /\ (Taken(n + 1))' => (Current(n + 1))' = Current(n) \cup {n + 1}
              /\ ~(Taken(n + 1))' => (Current(n + 1))' = Current(n)
         /\ x.kind = "directive" => (Current(n + 1))' = {}
<1> DEFINE all == {"if", "elif", "else", "endif"}
<1>1. n \in Nat
  BY LinesRead
<1>2. \A m \in 1..n : (Taken(m))' <=> Taken(m)
  BY OrderKept
<1>3. PICK D : D = Directives(n, all)
  OBVIOUS
<1>4. D \subseteq 1..n
  BY <1>3 DEF Directives
<1>5. ASSUME x.kind # "directive"
      PROVE  /\ (Before(n + 1))' = Current(n)
             /\ (Taken(n + 1))' => (Current(n + 1))' = Current(n) \cup {n + 1}
             /\ ~(Taken(n + 1))' => (Current(n + 1))' = Current(n)
  <2>1. (Directives(n + 1, all))' = D
    <3>1. (IF x.kind = "directive" /\ x.directive \in all THEN {n + 1} ELSE {}) = {}
      BY <1>5, Zenon
    <3>2. D \cup {} = D
      OBVIOUS
    <3>3. \A ds : (Directives(n + 1, ds))' =
                    Directives(n, ds) \cup
                      (IF x.kind = "directive" /\ x.directive \in ds THEN {n + 1} ELSE {})
      BY LineAdded
    <3> QED
      BY <1>3, <3>1, <3>2, <3>3, Zenon
  <2>2. \A m \in 1..n : (Together(m, n + 1))' <=> Together(m, n)
    <3>1. \A m \in 1..n : (Together(m, n + 1))' <=> D \cap m..(n + 1) = {}
      BY <2>1, Zenon DEF Together
    <3>2. \A m \in 1..n : Together(m, n) <=> D \cap m..n = {}
      BY <1>3 DEF Together
    <3>3. \A m \in 1..n : D \cap m..(n + 1) = D \cap m..n
      BY <1>1, <1>4
    <3> QED
      BY <3>1, <3>2, <3>3
  <2>3. (Together(n + 1, n + 1))'
    <3>1. D \cap (n + 1)..(n + 1) = {}
      BY <1>1, <1>4
    <3> QED
      BY <2>1, <3>1 DEF Together
  <2>4. (n + 1) - 1 = n /\ \A m : m \in 1..n + 1 <=> m \in 1..n \/ m = n + 1
    BY <1>1
  <2>5. (Before(n + 1))' = Current(n)
    BY <1>2, <2>2, <2>4 DEF Before, Current
  <2>6. \A m : m \in (Current(n + 1))' <=> m \in Current(n) \/ (m = n + 1 /\ (Taken(n + 1))')
    <3>1. \A m : m \in (Current(n + 1))' <=>
                 m \in 1..n + 1 /\ (Taken(m))' /\ (Together(m, n + 1))'
      BY DEF Current
    <3>2. n + 1 \notin 1..n
      BY <1>1
    <3> QED
      BY <1>2, <2>2, <2>3, <2>4, <3>1, <3>2 DEF Current
  <2> QED
    BY <2>5, <2>6
<1>6. ASSUME x.kind = "directive" PROVE (Current(n + 1))' = {}
  <2>1. x.directive \in all
    BY <1>6 DEF Reads, LineTypes
  <2>2. (Directives(n + 1, all))' = D \cup {n + 1}
    BY <1>3, <1>6, <2>1, LineAdded
  <2>3. \A m \in 1..n + 1 : n + 1 \in m..(n + 1)
    BY <1>1
  <2>4. \A m \in 1..n + 1 : ~(Together(m, n + 1))'
    BY <2>2, <2>3 DEF Together
  <2> QED
    BY <2>4 DEF Current
<1> QED
  BY <1>5, <1>6

(* section goes on standing for the includes since the last directive, and *)
(* the new line is reported exactly when it must be.                       *)
LEMMA OrderStep ==
  ASSUME BaseInv, OrderInv, [Next]_vars
  PROVE  OrderInv'
<1> USE DEF BaseInv
<1>0. PICK n : n = Len(lines)
  OBVIOUS
<1>1. lines \in Seq(LineTypes) /\ n \in Nat
  BY <1>0 DEF IncludesTypeOK
<1>2. /\ section \in 0..4
      /\ section = 4 <=> \E m \in Current(n) : Late(m)
      /\ section >= 3 <=> \E m \in Current(n) : Late(m) \/ IncludeType(m) = "_CPP_SYS_HEADER"
      /\ section >= 2 <=> \E m \in Current(n) : ~Own(m)
  BY <1>0 DEF OrderInv, SectionOK
<1>3. Current(n) \subseteq 1..n
  BY DEF Current
<1>4. ASSUME NEW x, Reads(x), file' = file,
             reports \subseteq reports', \A r \in reports' : r \in reports \/ r.line = n + 1,
             (SectionOK(n + 1))', (OrderedAt(n + 1))'
      PROVE  OrderInv'
  <2>1. Len(lines') = n + 1
    BY <1>0, <1>1, <1>4, LinesRead
  <2>2. \A k \in 1..n : (OrderedAt(k))'
    BY <1>0, <1>1, <1>4, OrderKept DEF OrderInv
  <2>3. \A k \in 1..n + 1 : k \in 1..n \/ k = n + 1
    BY <1>1
  <2>4. \A k \in 1..n + 1 : (OrderedAt(k))'
    BY <1>4, <2>2, <2>3
  <2> QED
    BY <1>4, <2>1, <2>4 DEF OrderInv
<1>5. ASSUME NEW x, Reads(x), file' = file, x.kind # "directive",
             reports \subseteq reports', \A r \in reports' : r \in reports \/ r.line = n + 1,
             ~(Taken(n + 1))', section' = section
      PROVE  OrderInv'
  <2>1. (Current(n + 1))' = Current(n)
    BY <1>0, <1>1, <1>5, CurrentAfter
  <2>2. \A m \in 1..n : /\ (IncludeType(m))' = IncludeType(m)
                        /\ (Own(m))' <=> Own(m)
                        /\ (Late(m))' <=> Late(m)
    BY <1>0, <1>1, <1>5, OrderKept
  <2>3. (SectionOK(n + 1))'
    BY <1>2, <1>3, <1>5, <2>1, <2>2 DEF SectionOK
  <2>4. (OrderedAt(n + 1))'
    BY <1>5 DEF OrderedAt
  <2> QED
    BY <1>4, <1>5, <2>3, <2>4
<1>6. ASSUME NEW include \in Includes, CheckIncludeLine(include) PROVE OrderInv'
  <2>1. PICK h : h = include.header
    OBVIOUS
  <2>2. PICK x : x = [kind |-> "include", include |-> include]
    OBVIOUS
  <2>3. PICK type : type = ClassifyInclude(include)
    OBVIOUS
  <2>4. /\ Reads(x) /\ file' = file /\ reports \subseteq reports'
        /\ \A r \in reports' : r \in reports \/ r.line = n + 1
        /\ (ReportedAt(n + 1, "duplicate"))' <=> Seen(h)
        /\ (ReportedAt(n + 1, "include_order"))' <=> Accepted(h) /\ ~Seen(h) /\ OutOfOrder(type)
        /\ Accepted(h) /\ ~Seen(h) => section' = NextSection(type)
        /\ ~(Accepted(h) /\ ~Seen(h)) => section' = section
    BY <1>0, <1>6, <2>1, <2>2, <2>3, IncludeEffect
  <2>5. x.kind = "include" /\ x.kind # "directive" /\ x.include = include
    BY <2>2
  <2>6. (Eligible(n + 1))' <=> Accepted(h)
    BY <1>0, <1>1, <2>1, <2>4, <2>5, EligibleNew
  <2>7. (Taken(n + 1))' <=> Accepted(h) /\ ~Seen(h)
    BY <2>4, <2>6 DEF Taken
  <2>8. CASE ~(Accepted(h) /\ ~Seen(h))
    BY <1>5, <2>4, <2>5, <2>7, <2>8
  <2>9. CASE Accepted(h) /\ ~Seen(h)
    <3>1. type \in IncludeTypes
      BY <2>3, TypesOfIncludes
    <3>2. (IncludeType(n + 1))' = type
      <4>1. lines'[n + 1].include = include
        BY <1>0, <1>1, <2>4, <2>5, LinesRead
      <4> QED
        BY <2>3, <2>4, <4>1, TypesKept DEF IncludeType
    <3>3. (Before(n + 1))' = Current(n) /\ (Current(n + 1))' = Current(n) \cup {n + 1}
      BY <1>0, <1>1, <2>4, <2>5, <2>7, <2>9, CurrentAfter
    <3>4. \A m \in 1..n : /\ (IncludeType(m))' = IncludeType(m)
                          /\ (Own(m))' <=> Own(m)
                          /\ (Late(m))' <=> Late(m)
      BY <1>0, <1>1, <2>4, OrderKept
    <3>5. (Own(n + 1))' <=> type \in OwnTypes
      BY <3>2 DEF Own, OwnTypes
    <3>6. (Late(n + 1))' <=> type = "_OTHER_HEADER" \/ (type \in OwnTypes /\ section >= 2)
      <4>1. (Late(n + 1))' <=> \/ type = "_OTHER_HEADER"
                               \/ (Own(n + 1))' /\ \E k \in Current(n) : ~(Own(k))'
        BY <3>2, <3>3, Zenon DEF Late
      <4>2. (\E k \in Current(n) : ~(Own(k))') <=> section >= 2
        BY <1>2, <1>3, <3>4
      <4> QED
        BY <3>5, <4>1, <4>2
    <3>7. PICK s : s = section'
      OBVIOUS
    <3>8. /\ s \in 0..4
          /\ s = 4 <=> section = 4 \/ type = "_OTHER_HEADER" \/ (type \in OwnTypes /\ section >= 2)
          /\ s >= 3 <=> \/ section >= 3 \/ type = "_CPP_SYS_HEADER" \/ type = "_OTHER_HEADER"
                        \/ type \in OwnTypes /\ section >= 2
          /\ s >= 2 <=> section >= 2 \/ type \notin OwnTypes
      BY <1>2, <2>4, <2>9, <3>1, <3>7, SectionsPassed
    <3>9. (SectionOK(n + 1))'
      <4>1. s = 4 <=> \E m \in (Current(n + 1))' : (Late(m))'
        BY <1>2, <1>3, <3>3, <3>4, <3>6, <3>8
      <4>2. s >= 3 <=> \E m \in (Current(n + 1))' :
                         (Late(m))' \/ (IncludeType(m))' = "_CPP_SYS_HEADER"
        BY <1>2, <1>3, <3>2, <3>3, <3>4, <3>6, <3>8
      <4>3. s >= 2 <=> \E m \in (Current(n + 1))' : ~(Own(m))'
        BY <1>2, <1>3, <3>3, <3>4, <3>5, <3>8
      <4> QED
        BY <3>7, <3>8, <4>1, <4>2, <4>3 DEF SectionOK
    <3>10. (OrderedAt(n + 1))'
      <4>1. (\E m \in Current(n) : (Late(m))') <=> section > 3
        BY <1>2, <1>3, <3>4
      <4>2. (\E m \in Current(n) : (Late(m))' \/ (IncludeType(m))' = "_CPP_SYS_HEADER")
              <=> section > 2
        BY <1>2, <1>3, <3>4
      <4>3. (ReportedAt(n + 1, "include_order"))' <=>
               \/ type = "_C_SYS_HEADER" /\ section > 2
               \/ type = "_CPP_SYS_HEADER" /\ section > 3
        BY <2>4, <2>9 DEF OutOfOrder
      <4> QED
        BY <3>2, <3>3, <4>1, <4>2, <4>3, Zenon DEF OrderedAt
    <3> QED
      BY <1>4, <2>4, <3>9, <3>10
  <2> QED
    BY <2>8, <2>9
<1>7. ASSUME NEW directive \in {"if", "elif", "else", "endif"}, Directive(directive)
      PROVE  OrderInv'
  <2>1. PICK x : x = [kind |-> "directive", directive |-> directive]
    OBVIOUS
  <2>2. Reads(x) /\ file' = file /\ reports' = reports /\ section' = 0
    BY <1>7, <2>1, DirectiveEffect
  <2>3. x.kind = "directive" /\ x.kind # "include"
    BY <2>1
  <2>4. (Current(n + 1))' = {}
    BY <1>0, <1>1, <2>2, <2>3, CurrentAfter
  <2>5. (SectionOK(n + 1))'
    BY <2>2, <2>4 DEF SectionOK
  <2>6. ~(Eligible(n + 1))'
    BY <1>0, <1>1, <2>2, <2>3, EligibleNew
  <2>7. (OrderedAt(n + 1))'
    BY <2>6 DEF OrderedAt, Taken
  <2> QED
    BY <1>4, <2>2, <2>5, <2>7
<1>8. ASSUME NEW uses \in {{}} \cup {{h} : h \in Required}, Code(uses) PROVE OrderInv'
  <2>1. PICK x : x = [kind |-> "code", uses |-> uses]
    OBVIOUS
  <2>2. Reads(x) /\ file' = file /\ reports' = reports /\ section' = section
    BY <1>8, <2>1, CodeEffect
  <2>3. x.kind # "directive" /\ x.kind # "include"
    BY <2>1
  <2>4. ~(Eligible(n + 1))'
    BY <1>0, <1>1, <2>2, <2>3, EligibleNew
  <2> QED
    BY <1>5, <2>2, <2>3, <2>4 DEF Taken
<1>9. ASSUME UNCHANGED <<file, lines, section>>, reports \subseteq reports',
             \A r \in reports' : r \in reports \/ r.category \in EndCategories
      PROVE  OrderInv'
  <2>1. \A k, c : c \notin EndCategories => ((ReportedAt(k, c))' <=> ReportedAt(k, c))
    BY <1>9 DEF ReportedAt
  <2>2. "duplicate" \notin EndCategories /\ "include_order" \notin EndCategories
    BY DEF EndCategories
  <2>3. \A k : (Eligible(k))' <=> Eligible(k)
    BY <1>9 DEF Eligible
  <2>4. \A k : (Taken(k))' <=> Taken(k)
    BY <2>1, <2>2, <2>3 DEF Taken
  <2>5. \A k : (IncludeType(k))' = IncludeType(k)
    BY <1>9, TypesKept DEF IncludeType
  <2>6. \A k : (Own(k))' <=> Own(k)
    BY <2>5 DEF Own
  <2>7. \A m, k : (Together(m, k))' <=> Together(m, k)
    BY <1>9 DEF Together, Directives
  <2>8. \A k : (Before(k))' = Before(k) /\ (Current(k))' = Current(k)
    BY <2>4, <2>7 DEF Before, Current
  <2>9. \A k : (Late(k))' <=> Late(k)
    BY <2>5, <2>6, <2>8 DEF Late
  <2>10. \A k : (OrderedAt(k))' <=> OrderedAt(k)
    BY <2>1, <2>2, <2>4, <2>5, <2>8, <2>9 DEF OrderedAt
  <2>11. \A k : (SectionOK(k))' <=> SectionOK(k)
    BY <1>9, <2>5, <2>6, <2>8, <2>9 DEF SectionOK
  <2> QED
    BY <1>9, <2>10, <2>11 DEF OrderInv
<1>10. CASE EndOfFile
  BY <1>9, <1>10, EndEffect
<1>11. CASE UNCHANGED vars
  BY <1>9, <1>11 DEF vars
<1> QED
  BY <1>6, <1>7, <1>8, <1>10, <1>11, StepKinds

(* _IncludeState reports a system header as out of order exactly when an   *)
(* include since the last directive belongs after it, for files of any     *)
(* length: its one counter, section, loses nothing that matters.           *)
THEOREM OrderIsExact == Spec => []OrderExact
<1>1. OrderInv => OrderExact
  BY DEF OrderInv, OrderedAt, OrderExact
<1>2. Init => OrderInv
  <2> SUFFICES ASSUME Init PROVE OrderInv
    OBVIOUS
  <2>1. Len(lines) = 0 /\ section = 0
    BY DEF Init
  <2>2. Current(0) = {} /\ \A k \in 1..Len(lines) : FALSE
    BY <2>1 DEF Current
  <2>3. SectionOK(0)
    BY <2>1, <2>2 DEF SectionOK
  <2> QED
    BY <2>1, <2>2, <2>3 DEF OrderInv
<1>3. BaseInv /\ [Next]_vars => BaseInv'
  BY BaseStep
<1>4. BaseInv /\ OrderInv /\ [Next]_vars => OrderInv'
  BY OrderStep
<1> QED
  BY <1>1, <1>2, <1>3, <1>4, BaseInit, PTL DEF Spec
=============================================================================
