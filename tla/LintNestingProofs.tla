------------------------- MODULE LintNestingProofs -------------------------
(***************************************************************************)
(* What LintNesting promises, for files of any length, any number of       *)
(* blocks and conditionals, and all thresholds.                            *)
(***************************************************************************)
EXTENDS LintNesting, FiniteSetTheorems, SequenceTheorems, WellFoundedInduction, TLAPS

-----------------------------------------------------------------------------
(* Function lengths                                                        *)

(* A set of exponents that is not empty has a greatest one.                *)
LEMMA GreatestExponent ==
  ASSUME NEW S \in SUBSET (0..5), NEW v \in S
  PROVE  LET greatest == CHOOSE k \in S : \A j \in S : j <= k
         IN  greatest \in S /\ v <= greatest
<1>1. \E k \in S : \A j \in S : j <= k
  OBVIOUS
<1> QED
  BY <1>1

(* A function of more than base * 2^v lines is at least on level v: the    *)
(* integer quotient does not lose it.                                      *)
LEMMA LevelReached ==
  ASSUME NEW lines \in Nat, NEW base \in Nat \ {0}, NEW v \in 0..5, lines > base * 2^v
  PROVE  ErrorLevel(lines, base) >= v
<1> DEFINE power == 2^v
           powers == {k \in 0..5 : lines \div base >= 2^k}
<1>1. power \in Nat
  BY PowersAssumption
<1> HIDE DEF power
<1>2. lines \div base >= power
  BY <1>1, SMT DEF power
<1>3. v \in powers
  BY <1>2 DEF power
<1>4. powers \in SUBSET (0..5)
  OBVIOUS
<1> HIDE DEF powers
<1>5. (CHOOSE k \in powers : \A j \in powers : j <= k) \in powers
      /\ v <= (CHOOSE k \in powers : \A j \in powers : j <= k)
  BY <1>3, <1>4, GreatestExponent
<1>6. ErrorLevel(lines, base) = CHOOSE k \in powers : \A j \in powers : j <= k
  BY DEF ErrorLevel, powers
<1> QED
  BY <1>4, <1>5, <1>6

-----------------------------------------------------------------------------
(* What a line does to the stack depends on nothing but the stack          *)

(* Every property of natural numbers that 0 has and that a number passes   *)
(* on to the next one.                                                     *)
LEMMA NaturalSteps ==
  ASSUME NEW N \in Nat, NEW P \in SUBSET (0..N), 0 \in P,
         \A k \in 0..(N - 1) : k \in P => k + 1 \in P
  PROVE  \A k \in 0..N : k \in P
<1> SUFFICES ASSUME NEW k \in 0..N, k \notin P PROVE FALSE
  OBVIOUS
<1> DEFINE Bad == (0..N) \ P
           R == {ss \in Nat \X Nat : ss[1] < ss[2]}
<1>1. R = OpToRel(<, Nat)
  BY Zenon DEF OpToRel
<1>2. IsWellFoundedOn(R, Nat)
  BY <1>1, NatLessThanWellFounded, Zenon
<1>3. \A i, j \in Nat : <<j, i>> \in R <=> j < i
  OBVIOUS
<1>4. Bad \in SUBSET Nat /\ Bad # {}
  OBVIOUS
<1> HIDE DEF R, Bad
<1>5. PICK i \in Bad : \A j \in Bad : <<j, i>> \notin R
  BY <1>2, <1>4, WFMin
<1>6. i \in Nat /\ \A j \in Bad : ~(j < i)
  BY <1>3, <1>4, <1>5
<1>7. i \in 0..N /\ i \notin P
  BY DEF Bad
<1>8. i # 0 /\ i - 1 \in 0..(N - 1) /\ (i - 1) + 1 = i
  BY <1>6, <1>7
<1>9. i - 1 \in P
  BY <1>6, <1>7, <1>8 DEF Bad
<1> QED
  BY <1>7, <1>8, <1>9

IsNest(s) == DOMAIN s = {"stack", "pp_stack", "low", "found"}

Harmless(found) == \A r \in found : r.category # "readability/fn_size"

(* Two states with the same stack, whose stacks of conditionals are p and  *)
(* q and whose reports are not about the lengths of functions.             *)
Alike(s, t, p, q) ==
  /\ IsNest(s) /\ IsNest(t) /\ s.stack = t.stack
  /\ s.pp_stack = p /\ t.pp_stack = q
  /\ Harmless(s.found) /\ Harmless(t.found)

(* What the changes do to one state.                                       *)
LEMMA ChangesOfNest ==
  ASSUME NEW s, IsNest(s), NEW b
  PROVE  /\ IsNest(Push(s, b)) /\ (Push(s, b)).stack = Append(s.stack, b)
         /\ (Push(s, b)).pp_stack = s.pp_stack /\ (Push(s, b)).found = s.found
         /\ IsNest(Pop(s)) /\ (Pop(s)).stack = Front(s.stack)
         /\ (Pop(s)).pp_stack = s.pp_stack /\ (Pop(s)).found = s.found
         /\ IsNest(SetTop(s, b)) /\ (SetTop(s, b)).stack = [s.stack EXCEPT ![Len(s.stack)] = b]
         /\ (SetTop(s, b)).pp_stack = s.pp_stack /\ (SetTop(s, b)).found = s.found
<1>1. /\ IsNest(Push(s, b)) /\ (Push(s, b)).stack = Append(s.stack, b)
      /\ (Push(s, b)).pp_stack = s.pp_stack /\ (Push(s, b)).found = s.found
  BY DEF IsNest, Push
<1>2. /\ IsNest(Pop(s)) /\ (Pop(s)).stack = Front(s.stack)
      /\ (Pop(s)).pp_stack = s.pp_stack /\ (Pop(s)).found = s.found
  BY DEF IsNest, Pop
<1>3. /\ IsNest(SetTop(s, b)) /\ (SetTop(s, b)).stack = [s.stack EXCEPT ![Len(s.stack)] = b]
      /\ (SetTop(s, b)).pp_stack = s.pp_stack /\ (SetTop(s, b)).found = s.found
  BY DEF IsNest, SetTop
<1> QED
  BY <1>1, <1>2, <1>3

(* The four changes of the stack keep states alike.                        *)
LEMMA ChangesAlike ==
  ASSUME NEW s, NEW t, NEW p, NEW q, Alike(s, t, p, q), NEW b
  PROVE  /\ Alike(Push(s, b), Push(t, b), p, q)
         /\ Alike(Pop(s), Pop(t), p, q)
         /\ Alike(SetTop(s, b), SetTop(t, b), p, q)
         /\ Top(s) = Top(t) /\ SeenOpenBrace(s) = SeenOpenBrace(t)
<1>0. IsNest(s) /\ IsNest(t) /\ s.stack = t.stack
  BY DEF Alike
<1>1. Alike(Push(s, b), Push(t, b), p, q)
  <2>1. /\ IsNest(Push(s, b)) /\ (Push(s, b)).stack = Append(s.stack, b)
        /\ (Push(s, b)).pp_stack = s.pp_stack /\ (Push(s, b)).found = s.found
    BY <1>0 DEF IsNest, Push
  <2>2. /\ IsNest(Push(t, b)) /\ (Push(t, b)).stack = Append(t.stack, b)
        /\ (Push(t, b)).pp_stack = t.pp_stack /\ (Push(t, b)).found = t.found
    BY <1>0, ChangesOfNest
  <2> QED
    BY <1>0, <2>1, <2>2 DEF Alike
<1>2. Alike(Pop(s), Pop(t), p, q)
  <2>1. /\ IsNest(Pop(s)) /\ (Pop(s)).stack = Front(s.stack)
        /\ (Pop(s)).pp_stack = s.pp_stack /\ (Pop(s)).found = s.found
    BY <1>0, ChangesOfNest
  <2>2. /\ IsNest(Pop(t)) /\ (Pop(t)).stack = Front(t.stack)
        /\ (Pop(t)).pp_stack = t.pp_stack /\ (Pop(t)).found = t.found
    BY <1>0, ChangesOfNest
  <2> QED
    BY <1>0, <2>1, <2>2 DEF Alike
<1>3. Alike(SetTop(s, b), SetTop(t, b), p, q)
  <2>1. /\ IsNest(SetTop(s, b)) /\ (SetTop(s, b)).stack = [s.stack EXCEPT ![Len(s.stack)] = b]
        /\ (SetTop(s, b)).pp_stack = s.pp_stack /\ (SetTop(s, b)).found = s.found
    BY <1>0, ChangesOfNest
  <2>2. /\ IsNest(SetTop(t, b)) /\ (SetTop(t, b)).stack = [t.stack EXCEPT ![Len(t.stack)] = b]
        /\ (SetTop(t, b)).pp_stack = t.pp_stack /\ (SetTop(t, b)).found = t.found
    BY <1>0, ChangesOfNest
  <2> QED
    BY <1>0, <2>1, <2>2 DEF Alike
<1>4. Top(s) = Top(t)
  BY <1>0 DEF Top
<1>5. SeenOpenBrace(s) = SeenOpenBrace(t)
  BY <1>0, <1>4 DEF SeenOpenBrace
<1> QED
  BY <1>1, <1>2, <1>3, <1>4, <1>5

(* So does the report of harmless errors.                                  *)
LEMMA ReportsAlike ==
  ASSUME NEW s, NEW t, NEW p, NEW q, Alike(s, t, p, q), NEW e, Harmless(e)
  PROVE  Alike([s EXCEPT !.found = @ \cup e], [t EXCEPT !.found = @ \cup e], p, q)
BY DEF Alike, IsNest, Harmless

(* And the parentheses of a line.                                          *)
LEMMA ParenthesesAlike ==
  ASSUME NEW s, NEW t, NEW p, NEW q, Alike(s, t, p, q), NEW tokens
  PROVE  Alike(CountParentheses(s, tokens), CountParentheses(t, tokens), p, q)
<1>1. Top(s) = Top(t) /\ s.stack = t.stack
  BY ChangesAlike DEF Alike
<1>2. CASE s.stack = << >>
  BY <1>1, <1>2 DEF CountParentheses
<1>3. CASE s.stack # << >>
  <2>1. PICK b : CountParentheses(s, tokens) = SetTop(s, b) /\ CountParentheses(t, tokens) = SetTop(t, b)
    BY <1>1, <1>3, Zenon DEF CountParentheses
  <2> QED
    BY <2>1, ChangesAlike
<1> QED
  BY <1>2, <1>3

(* The same with what is left of the line.                                 *)
AlikeRest(a, b, p, q) ==
  /\ DOMAIN a = {"s", "rest"} /\ DOMAIN b = {"s", "rest"}
  /\ a.rest = b.rest /\ a.rest \in Seq(Words) /\ Alike(a.s, b.s, p, q)

(* A set of numbers that is not empty has a least one.                     *)
LEMMA LeastOne ==
  ASSUME NEW S \in SUBSET Nat, S # {}
  PROVE  LET least == CHOOSE i \in S : \A j \in S : i <= j
         IN  least \in S /\ \A j \in S : least <= j
<1> DEFINE R == {ss \in Nat \X Nat : ss[1] < ss[2]}
<1>1. R = OpToRel(<, Nat)
  BY Zenon DEF OpToRel
<1>2. IsWellFoundedOn(R, Nat)
  BY <1>1, NatLessThanWellFounded, Zenon
<1>3. \A i, j \in Nat : <<j, i>> \in R <=> j < i
  OBVIOUS
<1> HIDE DEF R
<1>4. PICK i \in S : \A j \in S : <<j, i>> \notin R
  BY <1>2, WFMin
<1>5. ASSUME NEW j \in S PROVE i <= j
  <2>1. i \in Nat /\ j \in Nat /\ ~(j < i)
    BY <1>3, <1>4
  <2> QED
    BY <2>1
<1> QED
  BY <1>4, <1>5

(* A namespace.                                                            *)
LEMMA NamespaceAlike ==
  ASSUME NEW a, NEW b, NEW p, NEW q, AlikeRest(a, b, p, q), NEW n
  PROVE  AlikeRest(ConsumeNamespace(n, a), ConsumeNamespace(n, b), p, q)
<1>1. a.rest = b.rest /\ Alike(a.s, b.s, p, q)
  BY DEF AlikeRest
<1>2. CASE a.rest = << >> \/ Head(a.rest) # "namespace"
  <2>1. ConsumeNamespace(n, a) = a /\ ConsumeNamespace(n, b) = b
    BY <1>1, <1>2 DEF ConsumeNamespace
  <2> QED
    BY <2>1
<1>3. CASE ~(a.rest = << >> \/ Head(a.rest) # "namespace")
  <2> DEFINE tail == Tail(a.rest)
             braces == {i \in 1..Len(tail) : tail[i] = "{"}
             first == CHOOSE i \in braces : \A j \in braces : i <= j
             rest == IF braces = {} THEN tail ELSE SubSeq(tail, first + 1, Len(tail))
  <2>0. PICK block, left : /\ ConsumeNamespace(n, a) = [s |-> Push(a.s, block), rest |-> left]
                           /\ ConsumeNamespace(n, b) = [s |-> Push(b.s, block), rest |-> left]
    BY <1>1, <1>3, Zenon DEF ConsumeNamespace
  <2>1. left = rest
    <3>1. ConsumeNamespace(n, a) = [s |-> Push(a.s, Block("namespace", n, braces # {})), rest |-> rest]
      BY <1>3 DEF ConsumeNamespace
    <3> HIDE DEF rest, braces
    <3> QED
      BY <2>0, <3>1
  <2>2. Alike(Push(a.s, block), Push(b.s, block), p, q)
    BY <1>1, ChangesAlike
  <2>3. rest \in Seq(Words)
    <3>1. a.rest \in Seq(Words) /\ a.rest # << >>
      BY <1>3 DEF AlikeRest
    <3>2. tail \in Seq(Words) /\ Len(tail) \in Nat
      BY <3>1
    <3>3. CASE braces = {}
      BY <3>2, <3>3
    <3>4. CASE braces # {}
      <4> HIDE DEF tail
      <4>1. braces \in SUBSET Nat
        <5>1. 1..Len(tail) \in SUBSET Nat
          BY <3>2
        <5> QED
          BY <5>1
      <4>2. first \in braces
        <5> HIDE DEF braces
        <5> QED
          BY <3>4, <4>1, LeastOne
      <4>3. first \in 1..Len(tail)
        <5> HIDE DEF first
        <5> QED
          BY <4>2
      <4> HIDE DEF first
      <4>4. first + 1 \in Int /\ Len(tail) \in Int /\ \A i \in (first + 1)..Len(tail) : tail[i] \in Words
        BY <3>2, <4>3
      <4>5. SubSeq(tail, first + 1, Len(tail)) \in Seq(Words)
        BY <4>4, SubSeqProperties
      <4> QED
        BY <3>4, <4>5
    <3> QED
      BY <3>3, <3>4
  <2> HIDE DEF rest
  <2> QED
    BY <2>0, <2>1, <2>2, <2>3 DEF AlikeRest
<1> QED
  BY <1>2, <1>3

(* The head of a class.                                                    *)
LEMMA ClassAlike ==
  ASSUME NEW a, NEW b, NEW p, NEW q, AlikeRest(a, b, p, q), NEW n, NEW indent
  PROVE  AlikeRest(ConsumeClass(n, indent, a), ConsumeClass(n, indent, b), p, q)
<1>1. a.rest = b.rest /\ Alike(a.s, b.s, p, q) /\ Top(a.s) = Top(b.s) /\ a.s.stack = b.s.stack
  BY ChangesAlike DEF AlikeRest, Alike
<1> DEFINE head == /\ a.rest # << >>
                   /\ Head(a.rest) \in {"class", "struct"}
                   /\ a.s.stack = << >> \/ Top(a.s).open_parentheses = 0
<1>2. CASE ~head
  <2>1. ConsumeClass(n, indent, a) = a /\ ConsumeClass(n, indent, b) = b
    BY <1>1, <1>2 DEF ConsumeClass
  <2> QED
    BY <2>1
<1>3. CASE head
  <2>1. PICK block : /\ ConsumeClass(n, indent, a) = [s |-> Push(a.s, block), rest |-> Tail(a.rest)]
                     /\ ConsumeClass(n, indent, b) = [s |-> Push(b.s, block), rest |-> Tail(a.rest)]
    BY <1>1, <1>3, Zenon DEF ConsumeClass
  <2>2. Alike(Push(a.s, block), Push(b.s, block), p, q)
    BY <1>1, ChangesAlike
  <2>3. Tail(a.rest) \in Seq(Words)
    BY <1>3 DEF AlikeRest
  <2> QED
    BY <2>1, <2>2, <2>3 DEF AlikeRest
<1> QED
  BY <1>2, <1>3

(* What a line says of the class it is in.                                 *)
LEMMA UpdateClassAlike ==
  ASSUME NEW a, NEW b, NEW p, NEW q, AlikeRest(a, b, p, q), NEW n, NEW line
  PROVE  AlikeRest(UpdateClass(n, line, a), UpdateClass(n, line, b), p, q)
<1>1. a.rest = b.rest /\ Alike(a.s, b.s, p, q) /\ Top(a.s) = Top(b.s) /\ a.s.stack = b.s.stack
  BY ChangesAlike DEF AlikeRest, Alike
<1>2. CASE a.s.stack = << >> \/ Top(a.s).kind # "class"
  <2>1. UpdateClass(n, line, a) = a /\ UpdateClass(n, line, b) = b
    BY <1>1, <1>2 DEF UpdateClass
  <2> QED
    BY <2>1
<1>3. CASE ~(a.s.stack = << >> \/ Top(a.s).kind # "class")
  <2> DEFINE specifiers(r) == {i \in 1..Len(r.rest) : r.rest[i] \in AccessSpecifiers}
             last(r) == CHOOSE i \in specifiers(r) : \A j \in specifiers(r) : j <= i
             misplaced == /\ specifiers(a) # {} /\ last(a) = 1 /\ a.rest = line.tokens
                          /\ line.indent # Top(a.s).indent + 1
             derived == ~Top(a.s).seen_open_brace /\ ":" \in {line.tokens[i] : i \in 1..Len(line.tokens)}
             block == [Top(a.s) EXCEPT !.is_derived = @ \/ derived,
                                       !.access = IF specifiers(a) = {} THEN @ ELSE a.rest[last(a)]]
  <2>0. specifiers(a) = specifiers(b) /\ last(a) = last(b)
    BY <1>1
  <2> DEFINE e == IF misplaced THEN {Report(n, "whitespace/indent", 3)} ELSE {}
  <2>1. /\ UpdateClass(n, line, a) = [a EXCEPT !.s = [SetTop(a.s, block) EXCEPT !.found = @ \cup e]]
        /\ UpdateClass(n, line, b) = [b EXCEPT !.s = [SetTop(b.s, block) EXCEPT !.found = @ \cup e]]
    <3>1. UpdateClass(n, line, a) = [a EXCEPT !.s = [SetTop(a.s, block) EXCEPT !.found = @ \cup e]]
      BY <1>3 DEF UpdateClass
    <3>2. UpdateClass(n, line, b) = [b EXCEPT !.s = [SetTop(b.s, block) EXCEPT !.found = @ \cup e]]
      <4> DEFINE misplaced2 == /\ specifiers(b) # {} /\ last(b) = 1 /\ b.rest = line.tokens
                               /\ line.indent # Top(b.s).indent + 1
                 derived2 == ~Top(b.s).seen_open_brace /\ ":" \in {line.tokens[i] : i \in 1..Len(line.tokens)}
                 block2 == [Top(b.s) EXCEPT !.is_derived = @ \/ derived2,
                                            !.access = IF specifiers(b) = {} THEN @ ELSE b.rest[last(b)]]
                 e2 == IF misplaced2 THEN {Report(n, "whitespace/indent", 3)} ELSE {}
      <4>1. UpdateClass(n, line, b) = [b EXCEPT !.s = [SetTop(b.s, block2) EXCEPT !.found = @ \cup e2]]
        BY <1>1, <1>3 DEF UpdateClass
      <4>2. block2 = block
        BY <1>1, <2>0
      <4>3. e2 = e
        BY <1>1, <2>0
      <4> HIDE DEF block, block2, e, e2
      <4> QED
        BY <4>1, <4>2, <4>3
    <3> QED
      BY <3>1, <3>2
  <2> HIDE DEF misplaced, block
  <2> DEFINE s == [SetTop(a.s, block) EXCEPT !.found = @ \cup e]
             t == [SetTop(b.s, block) EXCEPT !.found = @ \cup e]
  <2>2. Harmless(e)
    BY DEF Harmless, Report
  <2>3. Alike(SetTop(a.s, block), SetTop(b.s, block), p, q)
    BY <1>1, ChangesAlike
  <2> HIDE DEF e
  <2>4. Alike(s, t, p, q)
    BY <2>2, <2>3, ReportsAlike
  <2>5. UpdateClass(n, line, a) = [a EXCEPT !.s = s] /\ UpdateClass(n, line, b) = [b EXCEPT !.s = t]
    BY <2>1 DEF e
  <2> HIDE DEF s, t
  <2> QED
    BY <1>1, <2>4, <2>5 DEF AlikeRest
<1> QED
  BY <1>2, <1>3

(* A brace, a semicolon or a closing parenthesis.                          *)
LEMMA TokenAlike ==
  ASSUME NEW s, NEW t, NEW p, NEW q, Alike(s, t, p, q), NEW n, NEW line,
         NEW token \in Delimiters, NEW start
  PROVE  Alike(ConsumeToken(n, line, s, token, start), ConsumeToken(n, line, t, token, start), p, q)
<1>1. Top(s) = Top(t) /\ SeenOpenBrace(s) = SeenOpenBrace(t) /\ s.stack = t.stack
  BY ChangesAlike DEF Alike
<1>2. CASE token = "{"
  <2>1. CASE ~SeenOpenBrace(s)
    <3>1. PICK b : /\ ConsumeToken(n, line, s, token, start) = SetTop(s, b)
                   /\ ConsumeToken(n, line, t, token, start) = SetTop(t, b)
      BY <1>1, <1>2, <2>1, Zenon DEF ConsumeToken
    <3> QED
      BY <3>1, ChangesAlike
  <2>2. CASE SeenOpenBrace(s)
    <3> DEFINE extern == start = << "extern" >> /\ line.indent = 0 /\ line.tokens[1] = "extern"
    <3>1. CASE extern
      <4>1. PICK b : /\ ConsumeToken(n, line, s, token, start) = Push(s, b)
                     /\ ConsumeToken(n, line, t, token, start) = Push(t, b)
        BY <1>1, <1>2, <2>2, <3>1, Zenon DEF ConsumeToken
      <4> QED
        BY <4>1, ChangesAlike
    <3>2. CASE ~extern
      <4>1. PICK b : /\ ConsumeToken(n, line, s, token, start) = Push(s, b)
                     /\ ConsumeToken(n, line, t, token, start) = Push(t, b)
        BY <1>1, <1>2, <2>2, <3>2, Zenon DEF ConsumeToken
      <4> QED
        BY <4>1, ChangesAlike
    <3> QED
      BY <3>1, <3>2
  <2> QED
    BY <2>1, <2>2
<1>3. CASE token \in {";", ")"}
  <2>1. \/ /\ ConsumeToken(n, line, s, token, start) = s
           /\ ConsumeToken(n, line, t, token, start) = t
        \/ /\ ConsumeToken(n, line, s, token, start) = Pop(s)
           /\ ConsumeToken(n, line, t, token, start) = Pop(t)
    BY <1>1, <1>3 DEF ConsumeToken
  <2> QED
    BY <2>1, ChangesAlike
<1>4. CASE token = "}"
  <2>1. CASE s.stack = << >>
    BY <1>1, <1>4, <2>1 DEF ConsumeToken
  <2>2. CASE s.stack # << >>
    <3> DEFINE e == CheckEnd(Top(s), n, line)
    <3>1. Harmless(e)
      <4>1. \A bad \in e : bad \in {Report(n, "whitespace/indent", 3), Report(n, "readability/namespace", 5)}
        BY DEF CheckEnd
      <4>2. \A bad \in e : bad.category \in {"whitespace/indent", "readability/namespace"}
        BY <4>1 DEF Report
      <4> QED
        BY <4>2 DEF Harmless
    <3>2. /\ ConsumeToken(n, line, s, token, start) = [Pop(s) EXCEPT !.found = @ \cup e]
          /\ ConsumeToken(n, line, t, token, start) = [Pop(t) EXCEPT !.found = @ \cup e]
      BY <1>1, <1>4, <2>2 DEF ConsumeToken
    <3>3. Alike(Pop(s), Pop(t), p, q)
      BY ChangesAlike
    <3> HIDE DEF e
    <3> QED
      BY <3>1, <3>2, <3>3, ReportsAlike
  <2> QED
    BY <2>1, <2>2
<1> QED
  BY <1>2, <1>3, <1>4 DEF Delimiters

(* The loop over the tokens, as what it computes step by step.             *)
LEMMA TokenLoop ==
  ASSUME NEW n, NEW line, NEW r, Len(r.rest) \in Nat
  PROVE  \E after :
           /\ after[0] = [s |-> r.s, start |-> << >>]
           /\ \A i \in 1..Len(r.rest) : after[i] = ConsumeNext(n, line, after[i - 1], r.rest[i])
           /\ ConsumeTokens(n, line, r) = after[Len(r.rest)].s
<1> DEFINE N == Len(r.rest)
           base == [s |-> r.s, start |-> << >>]
           Step(a, i) == ConsumeNext(n, line, a, r.rest[i])
           Run(f, k) == f[0] = base /\ \A i \in 1..k : f[i] = Step(f[i - 1], i)
           Loop(f) == f = [i \in 0..N |-> IF i = 0 THEN base ELSE Step(f[i - 1], i)]
           P == {k \in 0..N : \E f : Run(f, k)}
           loop == CHOOSE f : Loop(f)
<1>1. ConsumeTokens(n, line, r) = loop[N].s
  BY DEF ConsumeTokens
<1>2. N \in Nat
  OBVIOUS
<1> HIDE DEF N, base, Step
<1>3. 0 \in P
  <2>1. Run([i \in 0..0 |-> base], 0)
    OBVIOUS
  <2>2. \E f : Run(f, 0)
    BY <2>1, Zenon
  <2>3. 0 \in 0..N
    BY <1>2
  <2> QED
    BY <2>2, <2>3, Zenon
<1>4. ASSUME NEW k \in 0..(N - 1), k \in P PROVE k + 1 \in P
  <2>1. PICK f : Run(f, k)
    BY <1>4
  <2> DEFINE g == [i \in 0..(k + 1) |-> IF i = k + 1 THEN Step(f[k], k + 1) ELSE f[i]]
  <2>2. k \in Nat /\ k + 1 \in 0..N /\ k + 1 - 1 = k
    BY <1>2
  <2>3. g[0] = base
    BY <2>1, <2>2
  <2>4. ASSUME NEW i \in 1..(k + 1) PROVE g[i] = Step(g[i - 1], i)
    <3>1. CASE i = k + 1
      <4>1. g[i] = Step(f[k], k + 1) /\ g[i - 1] = f[k]
        BY <2>2, <3>1
      <4> QED
        BY <3>1, <4>1
    <3>2. CASE i # k + 1
      <4>1. i \in 1..k /\ g[i] = f[i] /\ g[i - 1] = f[i - 1]
        BY <2>2, <3>2
      <4> QED
        BY <2>1, <4>1
    <3> QED
      BY <3>1, <3>2
  <2>5. Run(g, k + 1)
    BY <2>3, <2>4
  <2>6. \E h : Run(h, k + 1)
    BY <2>5, Zenon
  <2> QED
    BY <2>2, <2>6, Zenon
<1>5. P \in SUBSET (0..N)
  OBVIOUS
<1>6. PICK f : Run(f, N)
  <2> HIDE DEF P
  <2>1. \A k \in 0..N : k \in P
    BY <1>3, <1>4, <1>2, <1>5, NaturalSteps
  <2>2. N \in P
    BY <1>2, <2>1
  <2> QED
    BY <2>2, Zenon DEF P
<1>7. Loop([i \in 0..N |-> f[i]])
  <2> DEFINE g == [i \in 0..N |-> f[i]]
  <2>1. \A i \in 0..N : g[i] = IF i = 0 THEN base ELSE Step(g[i - 1], i)
    <3> TAKE i \in 0..N
    <3>1. CASE i = 0
      BY <1>6, <3>1
    <3>2. CASE i # 0
      <4>1. i \in 1..N /\ g[i] = f[i] /\ g[i - 1] = f[i - 1]
        BY <1>2, <3>2
      <4> QED
        BY <1>6, <3>2, <4>1
    <3> QED
      BY <3>1, <3>2
  <2> QED
    BY <2>1
<1>8. Loop(loop)
  BY <1>7, Zenon
<1>9. loop[0] = base /\ \A i \in 1..N : loop[i] = Step(loop[i - 1], i)
  <2>1. PICK g : g = loop
    OBVIOUS
  <2>2. g = [i \in 0..N |-> IF i = 0 THEN base ELSE Step(g[i - 1], i)]
    BY <1>8, <2>1, Zenon
  <2>3. g[0] = base /\ \A i \in 1..N : g[i] = Step(g[i - 1], i)
    BY <1>2, <2>2
  <2> QED
    BY <2>1, <2>3
<1> HIDE DEF loop
<1> QED
  BY <1>1, <1>9 DEF N, base, Step

(* The loop over the namespaces, as what it computes step by step.         *)
LEMMA NamespaceLoop ==
  ASSUME NEW n, NEW line, NEW s, Len(line.tokens) \in Nat
  PROVE  \E after :
           /\ after[0] = [s |-> s, rest |-> line.tokens]
           /\ \A i \in 1..Len(line.tokens) : after[i] = ConsumeNamespace(n, after[i - 1])
           /\ ConsumeNamespaces(n, line, s) = after[Len(line.tokens)]
<1> DEFINE N == Len(line.tokens)
           base == [s |-> s, rest |-> line.tokens]
           Step(a) == ConsumeNamespace(n, a)
           Run(f, k) == f[0] = base /\ \A i \in 1..k : f[i] = Step(f[i - 1])
           Loop(f) == f = [i \in 0..N |-> IF i = 0 THEN base ELSE Step(f[i - 1])]
           P == {k \in 0..N : \E f : Run(f, k)}
           loop == CHOOSE f : Loop(f)
<1>1. ConsumeNamespaces(n, line, s) = loop[N]
  BY DEF ConsumeNamespaces
<1>2. N \in Nat
  OBVIOUS
<1> HIDE DEF N, base, Step
<1>3. 0 \in P
  <2>1. Run([i \in 0..0 |-> base], 0)
    OBVIOUS
  <2>2. \E f : Run(f, 0)
    BY <2>1, Zenon
  <2>3. 0 \in 0..N
    BY <1>2
  <2> QED
    BY <2>2, <2>3, Zenon
<1>4. ASSUME NEW k \in 0..(N - 1), k \in P PROVE k + 1 \in P
  <2>1. PICK f : Run(f, k)
    BY <1>4
  <2> DEFINE g == [i \in 0..(k + 1) |-> IF i = k + 1 THEN Step(f[k]) ELSE f[i]]
  <2>2. k \in Nat /\ k + 1 \in 0..N /\ k + 1 - 1 = k
    BY <1>2
  <2>3. g[0] = base
    BY <2>1, <2>2
  <2>4. ASSUME NEW i \in 1..(k + 1) PROVE g[i] = Step(g[i - 1])
    <3>1. CASE i = k + 1
      <4>1. g[i] = Step(f[k]) /\ g[i - 1] = f[k]
        BY <2>2, <3>1
      <4> QED
        BY <3>1, <4>1
    <3>2. CASE i # k + 1
      <4>1. i \in 1..k /\ g[i] = f[i] /\ g[i - 1] = f[i - 1]
        BY <2>2, <3>2
      <4> QED
        BY <2>1, <4>1
    <3> QED
      BY <3>1, <3>2
  <2>5. Run(g, k + 1)
    BY <2>3, <2>4
  <2>6. \E h : Run(h, k + 1)
    BY <2>5, Zenon
  <2> QED
    BY <2>2, <2>6, Zenon
<1>5. P \in SUBSET (0..N)
  OBVIOUS
<1>6. PICK f : Run(f, N)
  <2> HIDE DEF P
  <2>1. \A k \in 0..N : k \in P
    BY <1>3, <1>4, <1>2, <1>5, NaturalSteps
  <2>2. N \in P
    BY <1>2, <2>1
  <2> QED
    BY <2>2, Zenon DEF P
<1>7. Loop([i \in 0..N |-> f[i]])
  <2> DEFINE g == [i \in 0..N |-> f[i]]
  <2>1. \A i \in 0..N : g[i] = IF i = 0 THEN base ELSE Step(g[i - 1])
    <3> TAKE i \in 0..N
    <3>1. CASE i = 0
      BY <1>6, <3>1
    <3>2. CASE i # 0
      <4>1. i \in 1..N /\ g[i] = f[i] /\ g[i - 1] = f[i - 1]
        BY <1>2, <3>2
      <4> QED
        BY <1>6, <3>2, <4>1
    <3> QED
      BY <3>1, <3>2
  <2> QED
    BY <2>1
<1>8. Loop(loop)
  BY <1>7, Zenon
<1>9. loop[0] = base /\ \A i \in 1..N : loop[i] = Step(loop[i - 1])
  <2>1. PICK g : g = loop
    OBVIOUS
  <2>2. g = [i \in 0..N |-> IF i = 0 THEN base ELSE Step(g[i - 1])]
    BY <1>8, <2>1, Zenon
  <2>3. g[0] = base /\ \A i \in 1..N : g[i] = Step(g[i - 1])
    BY <1>2, <2>2
  <2> QED
    BY <2>1, <2>3
<1> HIDE DEF loop
<1> QED
  BY <1>1, <1>9 DEF N, base, Step

(* The loop over the tokens keeps states alike.                            *)
LEMMA TokensAlike ==
  ASSUME NEW a, NEW b, NEW p, NEW q, AlikeRest(a, b, p, q), NEW n, NEW line
  PROVE  Alike(ConsumeTokens(n, line, a), ConsumeTokens(n, line, b), p, q)
<1> DEFINE N == Len(a.rest)
<1>1. a.rest = b.rest /\ N \in Nat /\ Len(a.rest) \in Nat /\ Len(b.rest) \in Nat /\ Alike(a.s, b.s, p, q)
  BY DEF AlikeRest
<1> HIDE DEF N
<1>2. PICK f : /\ f[0] = [s |-> a.s, start |-> << >>]
               /\ \A i \in 1..Len(a.rest) : f[i] = ConsumeNext(n, line, f[i - 1], a.rest[i])
               /\ ConsumeTokens(n, line, a) = f[Len(a.rest)].s
  BY <1>1, TokenLoop
<1>3. PICK g : /\ g[0] = [s |-> b.s, start |-> << >>]
               /\ \A i \in 1..Len(b.rest) : g[i] = ConsumeNext(n, line, g[i - 1], b.rest[i])
               /\ ConsumeTokens(n, line, b) = g[Len(b.rest)].s
  BY <1>1, TokenLoop
<1>4. N = Len(a.rest) /\ N = Len(b.rest)
  BY <1>1 DEF N
<1> DEFINE P == {k \in 0..N : Alike(f[k].s, g[k].s, p, q) /\ f[k].start = g[k].start}
<1>5. 0 \in P
  BY <1>1, <1>2, <1>3
<1>6. ASSUME NEW k \in 0..(N - 1), k \in P PROVE k + 1 \in P
  <2>1. k + 1 \in 1..N /\ k + 1 \in 0..N /\ k + 1 - 1 = k
    BY <1>1
  <2> DEFINE token == a.rest[k + 1]
  <2>2. f[k + 1] = ConsumeNext(n, line, f[k], token) /\ g[k + 1] = ConsumeNext(n, line, g[k], token)
    BY <1>1, <1>2, <1>3, <1>4, <2>1
  <2> HIDE DEF token
  <2>3. Alike(f[k].s, g[k].s, p, q) /\ f[k].start = g[k].start
    BY <1>6
  <2>4. Alike(f[k + 1].s, g[k + 1].s, p, q) /\ f[k + 1].start = g[k + 1].start
    <3>1. CASE token \notin Delimiters
      <4>1. /\ f[k + 1] = [s |-> f[k].s, start |-> Append(f[k].start, token)]
            /\ g[k + 1] = [s |-> g[k].s, start |-> Append(g[k].start, token)]
        BY <2>2, <3>1 DEF ConsumeNext
      <4> QED
        BY <2>3, <4>1
    <3>2. CASE token \in Delimiters
      <4>1. /\ f[k + 1] = [s |-> ConsumeToken(n, line, f[k].s, token, f[k].start), start |-> << >>]
            /\ g[k + 1] = [s |-> ConsumeToken(n, line, g[k].s, token, f[k].start), start |-> << >>]
        BY <2>2, <2>3, <3>2 DEF ConsumeNext
      <4>2. Alike(ConsumeToken(n, line, f[k].s, token, f[k].start),
                  ConsumeToken(n, line, g[k].s, token, f[k].start), p, q)
        BY <2>3, <3>2, TokenAlike
      <4> QED
        BY <4>1, <4>2
    <3> QED
      BY <3>1, <3>2
  <2> QED
    BY <2>1, <2>4
<1>7. P \in SUBSET (0..N)
  OBVIOUS
<1>8. N \in P
  <2> HIDE DEF P
  <2>1. \A k \in 0..N : k \in P
    BY <1>1, <1>5, <1>6, <1>7, NaturalSteps
  <2> QED
    BY <1>1, <2>1
<1> QED
  BY <1>2, <1>3, <1>4, <1>8

(* So does the loop over the namespaces.                                   *)
LEMMA NamespacesAlike ==
  ASSUME NEW s, NEW t, NEW p, NEW q, Alike(s, t, p, q), NEW n, NEW line, line.tokens \in Seq(Words)
  PROVE  AlikeRest(ConsumeNamespaces(n, line, s), ConsumeNamespaces(n, line, t), p, q)
<1> DEFINE N == Len(line.tokens)
<1>1. N \in Nat
  OBVIOUS
<1>2. PICK f : /\ f[0] = [s |-> s, rest |-> line.tokens]
               /\ \A i \in 1..N : f[i] = ConsumeNamespace(n, f[i - 1])
               /\ ConsumeNamespaces(n, line, s) = f[N]
  BY <1>1, NamespaceLoop
<1>3. PICK g : /\ g[0] = [s |-> t, rest |-> line.tokens]
               /\ \A i \in 1..N : g[i] = ConsumeNamespace(n, g[i - 1])
               /\ ConsumeNamespaces(n, line, t) = g[N]
  BY <1>1, NamespaceLoop
<1> HIDE DEF N
<1> DEFINE P == {k \in 0..N : AlikeRest(f[k], g[k], p, q)}
<1>4. 0 \in P
  BY <1>1, <1>2, <1>3 DEF AlikeRest
<1>5. ASSUME NEW k \in 0..(N - 1), k \in P PROVE k + 1 \in P
  <2>1. k + 1 \in 1..N /\ k + 1 \in 0..N /\ k + 1 - 1 = k
    BY <1>1
  <2>2. f[k + 1] = ConsumeNamespace(n, f[k]) /\ g[k + 1] = ConsumeNamespace(n, g[k])
    BY <1>2, <1>3, <2>1
  <2>3. AlikeRest(f[k], g[k], p, q)
    BY <1>5
  <2>4. AlikeRest(f[k + 1], g[k + 1], p, q)
    BY <2>2, <2>3, NamespaceAlike
  <2> QED
    BY <2>1, <2>4
<1>6. P \in SUBSET (0..N)
  OBVIOUS
<1>7. N \in P
  <2> HIDE DEF P
  <2>1. \A k \in 0..N : k \in P
    BY <1>1, <1>4, <1>5, <1>6, NaturalSteps
  <2> QED
    BY <1>1, <2>1
<1> QED
  BY <1>2, <1>3, <1>7

(* What a line begins with: the reports of the line before are forgotten.  *)
Fresh(s) == [s EXCEPT !.low = Len(s.stack), !.found = {}]

(* What a line does is decided by the stack that its directive leaves; the *)
(* conditionals are what the directive leaves, and no report is about the  *)
(* length of a function.                                                   *)
LEMMA UpdateAlike ==
  ASSUME NEW n, NEW line, line.tokens \in Seq(Words), NEW s, NEW t, NEW p, NEW q,
         Alike(UpdatePreprocessor(Fresh(s), line.directive),
               UpdatePreprocessor(Fresh(t), line.directive), p, q)
  PROVE  Alike(Update(s, n, line), Update(t, n, line), p, q)
<1> DEFINE r0(x) == UpdatePreprocessor(Fresh(x), line.directive)
           r1(x) == ConsumeNamespaces(n, line, CountParentheses(r0(x), line.tokens))
           r2(x) == ConsumeClass(n, line.indent, r1(x))
           r3(x) == UpdateClass(n, line, r2(x))
<1>1. Update(s, n, line) = ConsumeTokens(n, line, r3(s)) /\ Update(t, n, line) = ConsumeTokens(n, line, r3(t))
  BY Zenon DEF Update, Fresh
<1> HIDE DEF r0
<1>2. Alike(CountParentheses(r0(s), line.tokens), CountParentheses(r0(t), line.tokens), p, q)
  BY ParenthesesAlike DEF r0
<1>3. AlikeRest(r1(s), r1(t), p, q)
  BY <1>2, NamespacesAlike
<1> HIDE DEF r1
<1>4. AlikeRest(r2(s), r2(t), p, q)
  BY <1>3, ClassAlike
<1> HIDE DEF r2
<1>5. AlikeRest(r3(s), r3(t), p, q)
  BY <1>4, UpdateClassAlike
<1> HIDE DEF r3
<1> QED
  BY <1>1, <1>5, TokensAlike


(* A directive touches the stack, the conditionals and the mark of how low *)
(* the stack was.                                                          *)
LEMMA DirectiveKeepsNest ==
  ASSUME NEW s, IsNest(s), NEW directive
  PROVE  /\ IsNest(UpdatePreprocessor(Fresh(s), directive))
         /\ Harmless((UpdatePreprocessor(Fresh(s), directive)).found)
<1>1. IsNest(Fresh(s)) /\ Fresh(s).found = {}
  BY DEF IsNest, Fresh
<1> DEFINE t == Fresh(s)
<1> HIDE DEF t
<1>2. IsNest(t) /\ t.found = {}
  BY <1>1 DEF t
<1>3. IsNest(UpdatePreprocessor(t, directive)) /\ (UpdatePreprocessor(t, directive)).found = {}
  <2>1. CASE directive = "if"
    BY <1>2, <2>1 DEF IsNest, UpdatePreprocessor
  <2>2. CASE directive = "else" /\ t.pp_stack # << >>
    BY <1>2, <2>2 DEF IsNest, UpdatePreprocessor
  <2>3. CASE directive = "endif" /\ t.pp_stack # << >>
    BY <1>2, <2>3 DEF IsNest, UpdatePreprocessor
  <2>4. CASE /\ directive # "if" /\ ~(directive = "else" /\ t.pp_stack # << >>)
             /\ ~(directive = "endif" /\ t.pp_stack # << >>)
    BY <1>2, <2>4 DEF UpdatePreprocessor
  <2> QED
    BY <2>1, <2>2, <2>3, <2>4
<1> QED
  BY <1>3 DEF t, Harmless

(* A line leaves a nest, and says nothing about the length of a function.  *)
LEMMA UpdateOfNest ==
  ASSUME NEW n, NEW line, line.tokens \in Seq(Words), NEW s, IsNest(s)
  PROVE  /\ IsNest(Update(s, n, line)) /\ Harmless((Update(s, n, line)).found)
         /\ (Update(s, n, line)).pp_stack = (UpdatePreprocessor(Fresh(s), line.directive)).pp_stack
<1> DEFINE t == UpdatePreprocessor(Fresh(s), line.directive)
<1>1. Alike(t, t, t.pp_stack, t.pp_stack)
  <2>1. IsNest(t) /\ Harmless(t.found)
    BY DirectiveKeepsNest
  <2> HIDE DEF t
  <2> QED
    BY <2>1 DEF Alike
<1>2. Alike(Update(s, n, line), Update(s, n, line), t.pp_stack, t.pp_stack)
  BY <1>1, UpdateAlike
<1> QED
  BY <1>2 DEF Alike

-----------------------------------------------------------------------------
(* Reports about long functions                                            *)

FunctionStates == [in_a_function : BOOLEAN, lines_in_function : Nat, test : BOOLEAN]

LongEnough(found, level) ==
  \A r \in found : r.category = "readability/fn_size" => r.level >= level

(* CheckForFunctionLengths only reports what is at least on the level that *)
(* was asked for: a function without a body is on the highest one.         *)
LEMMA FunctionLengthsReported ==
  ASSUME NEW f \in FunctionStates, NEW n, verbose_level \in 0..5
  PROVE  LET result == CheckForFunctionLengths(f, n)
         IN  result.f \in FunctionStates /\ LongEnough(result.found, verbose_level)
<1> DEFINE line == text[n]
           result == CheckForFunctionLengths(f, n)
<1>0. StartingFunction(line) => line.tokens # << "}" >>
  <2>1. SUFFICES ASSUME line.tokens = << "}" >> PROVE ~StartingFunction(line)
    OBVIOUS
  <2>2. \A token : << token >>[1] = token
    OBVIOUS
  <2>3. line.tokens[1] = "}"
    BY <2>1, <2>2, Zenon
  <2> HIDE DEF line
  <2> QED
    BY <2>3 DEF StartingFunction
<1>1. CASE StartingFunction(line) /\ Decides(n) = {}
  <2>1. result = [f |-> f, found |-> {Report(n, "readability/fn_size", 5)}]
    BY <1>0, <1>1 DEF CheckForFunctionLengths
  <2> QED
    BY <2>1 DEF LongEnough, Report
<1>2. CASE StartingFunction(line) /\ Decides(n) # {} /\ Has(BodyLine(n), {";", "}"})
  <2>1. result = [f |-> f, found |-> {}]
    BY <1>0, <1>2 DEF CheckForFunctionLengths
  <2> QED
    BY <2>1 DEF LongEnough
<1>3. CASE StartingFunction(line) /\ Decides(n) # {} /\ ~Has(BodyLine(n), {";", "}"})
  <2>1. result = [f |-> [in_a_function |-> TRUE, lines_in_function |-> 0,
                         test |-> line.tokens[1] = "TEST"],
                  found |-> {}]
    BY <1>0, <1>3 DEF CheckForFunctionLengths
  <2> QED
    BY <2>1 DEF LongEnough, FunctionStates
<1>4. CASE ~StartingFunction(line) /\ line.indent = 0 /\ line.tokens = << "}" >>
  <2>1. result = [f |-> [f EXCEPT !.in_a_function = FALSE], found |-> CheckSize(f, n)]
    BY <1>4 DEF CheckForFunctionLengths
  <2>2. [f EXCEPT !.in_a_function = FALSE] \in FunctionStates
    BY DEF FunctionStates
  <2>3. LongEnough(CheckSize(f, n), verbose_level)
    <3> DEFINE base == BaseTrigger(f.test)
    <3>1. CASE f.in_a_function /\ f.lines_in_function > base * 2 ^ verbose_level
      <4>1. CheckSize(f, n) = {Report(n, "readability/fn_size", ErrorLevel(f.lines_in_function, base))}
        BY <3>1 DEF CheckSize
      <4>2. base \in Nat \ {0}
        BY LintNestingAssumption DEF BaseTrigger
      <4> HIDE DEF base
      <4>3. f.lines_in_function \in Nat
        BY DEF FunctionStates
      <4>4. PICK v : v = verbose_level
        OBVIOUS
      <4>5. v \in 0..5 /\ f.lines_in_function > base * 2 ^ v
        BY <3>1, <4>4
      <4>6. ErrorLevel(f.lines_in_function, base) >= verbose_level
        BY <4>2, <4>3, <4>4, <4>5, LevelReached
      <4> QED
        BY <4>1, <4>6 DEF LongEnough, Report
    <3>2. CASE ~(f.in_a_function /\ f.lines_in_function > base * 2 ^ verbose_level)
      <4>1. CheckSize(f, n) = {}
        BY <3>2 DEF CheckSize
      <4> QED
        BY <4>1 DEF LongEnough
    <3> QED
      BY <3>1, <3>2
  <2> QED
    BY <2>1, <2>2, <2>3
<1>5. CASE ~StartingFunction(line) /\ ~(line.indent = 0 /\ line.tokens = << "}" >>)
  <2>1. /\ result.f = IF f.in_a_function /\ (line.tokens # << >> \/ line.directive # "none")
                        THEN [f EXCEPT !.lines_in_function = @ + 1] ELSE f
        /\ result.found = {}
    BY <1>5 DEF CheckForFunctionLengths
  <2>2. [f EXCEPT !.lines_in_function = @ + 1] \in FunctionStates
    BY DEF FunctionStates
  <2> QED
    BY <2>1, <2>2 DEF LongEnough
<1> QED
  BY <1>1, <1>2, <1>3, <1>4, <1>5

LevelInv ==
  /\ text \in Seq(Lines) /\ linenum \in Nat
  /\ verbose_level \in 0..5
  /\ IsNest(nest)
  /\ function_state \in FunctionStates
  /\ LongEnough(reports, verbose_level)

(* The state that the loop over the lines keeps.                           *)
LEMMA LevelInductive ==
  ASSUME LevelInv, [Next]_vars
  PROVE  LevelInv'
<1> USE DEF LevelInv
<1>1. CASE ProcessLine
  <2>1. linenum + 1 \in 1..Len(text)
    BY <1>1 DEF ProcessLine
  <2>2. text[linenum + 1].tokens \in Seq(Words)
    <3>1. text[linenum + 1] \in Lines
      BY <2>1
    <3>2. \A line \in Lines : line.tokens \in Seq(Words)
      BY DEF Lines
    <3> QED
      BY <3>1, <3>2
  <2>3. IsNest(nest') /\ Harmless(nest'.found)
    <3>1. nest' = Update(nest, linenum + 1, text[linenum + 1])
      BY <1>1 DEF ProcessLine
    <3>2. /\ IsNest(Update(nest, linenum + 1, text[linenum + 1]))
          /\ Harmless(Update(nest, linenum + 1, text[linenum + 1]).found)
      BY <2>2, UpdateOfNest
    <3> QED
      BY <3>1, <3>2
  <2> DEFINE functions == CheckForFunctionLengths(function_state, linenum + 1)
             indentation == CheckForNamespaceIndentation(nest, nest', linenum + 1)
             skip == InAsmBlock(nest')
  <2>4. functions.f \in FunctionStates /\ LongEnough(functions.found, verbose_level)
    BY FunctionLengthsReported
  <2>5. LongEnough(indentation, verbose_level)
    <3>1. indentation \subseteq {Report(linenum + 1, "runtime/indentation_namespace", 4)}
      BY DEF CheckForNamespaceIndentation
    <3>2. \A r \in indentation : r.category = "runtime/indentation_namespace"
      BY <3>1 DEF Report
    <3> HIDE DEF indentation
    <3> QED
      BY <3>2 DEF LongEnough
  <2>6. LongEnough(nest'.found, verbose_level)
    BY <2>3 DEF LongEnough, Harmless
  <2>7. /\ linenum' = linenum + 1 /\ UNCHANGED <<text, verbose_level>>
        /\ function_state' = IF skip THEN function_state ELSE functions.f
        /\ reports' = reports \cup nest'.found \cup indentation
                        \cup (IF skip THEN {} ELSE functions.found)
    BY <1>1 DEF ProcessLine
  <2> HIDE DEF functions, indentation, skip
  <2>8. LongEnough(reports', verbose_level)
    BY <2>4, <2>5, <2>6, <2>7 DEF LongEnough
  <2> QED
    BY <2>3, <2>4, <2>7, <2>8 DEF LongEnough
<1>2. CASE CheckCompletedBlocks
  <2> DEFINE category(i) == IF nest.stack[i].kind = "class" THEN "build/class" ELSE "build/namespaces"
             open == {k \in 1..Len(nest.stack) : nest.stack[k].kind \in {"class", "namespace"}}
             unclosed == {Report(nest.stack[i].line, category(i), 5) : i \in open}
  <2>1. reports' = reports \cup unclosed /\ linenum' = linenum + 1
        /\ UNCHANGED <<text, verbose_level, nest, function_state>>
    BY <1>2 DEF CheckCompletedBlocks
  <2>2. \A r \in unclosed : r.category \in {"build/class", "build/namespaces"}
    BY DEF Report
  <2> HIDE DEF unclosed
  <2>3. LongEnough(reports', verbose_level)
    BY <2>1, <2>2 DEF LongEnough
  <2> QED
    BY <2>1, <2>3 DEF LongEnough
<1>3. CASE UNCHANGED vars
  BY <1>3 DEF vars, LongEnough
<1> QED
  BY <1>1, <1>2, <1>3 DEF Next

(* A function reported as too long is too long for the verbosity asked     *)
(* for, whatever the triggers and the size of the function: int(log2(...)) *)
(* rounds down, but never below the level that the size had to pass.       *)
THEOREM LongFunctionsArePrinted == Spec => []LongFunctionsPrinted
<1>1. Init => LevelInv
  BY LintNestingAssumption DEF Init, LevelInv, IsNest, Empty, FunctionStates, LongEnough
<1>2. LevelInv /\ [Next]_vars => LevelInv'
  BY LevelInductive
<1>3. LevelInv => LongFunctionsPrinted
  BY DEF LevelInv, LongEnough, LongFunctionsPrinted
<1> QED
  BY <1>1, <1>2, <1>3, PTL DEF Spec


-----------------------------------------------------------------------------
(* Sequences                                                               *)

IsSeq(x) == \E S : x \in Seq(S)

(* One element more.                                                       *)
LEMMA Pushed ==
  ASSUME NEW x, IsSeq(x), NEW e
  PROVE  /\ IsSeq(Append(x, e)) /\ Len(x) \in Nat /\ Len(Append(x, e)) = Len(x) + 1
         /\ \A i \in 1..Len(x) : Append(x, e)[i] = x[i]
         /\ Append(x, e)[Len(x) + 1] = e
<1>1. PICK S : x \in Seq(S)
  BY DEF IsSeq
<1>2. x \in Seq(S \cup {e}) /\ e \in S \cup {e}
  BY <1>1
<1>3. Append(x, e) \in Seq(S \cup {e})
  BY <1>2
<1> QED
  BY <1>2, <1>3 DEF IsSeq

(* One element less.                                                       *)
LEMMA Popped ==
  ASSUME NEW x, IsSeq(x), x # << >>
  PROVE  /\ IsSeq(Front(x)) /\ Len(x) \in Nat \ {0} /\ Len(Front(x)) = Len(x) - 1
         /\ \A i \in 1..(Len(x) - 1) : Front(x)[i] = x[i]
         /\ Last(x) = x[Len(x)]
<1>1. PICK S : x \in Seq(S)
  BY DEF IsSeq
<1>2. Len(x) \in Nat \ {0}
  BY <1>1
<1>3. /\ SubSeq(x, 1, Len(x) - 1) \in Seq(S)
      /\ Len(SubSeq(x, 1, Len(x) - 1)) = Len(x) - 1
      /\ \A i \in 1..(Len(x) - 1) : SubSeq(x, 1, Len(x) - 1)[i] = x[i]
  <2> DEFINE m == Len(x) - 1
  <2>1. m \in Nat /\ 1 \in Int /\ \A i \in 1..m : x[i] \in S
    BY <1>1, <1>2
  <2> HIDE DEF m
  <2>2. /\ SubSeq(x, 1, m) \in Seq(S)
        /\ Len(SubSeq(x, 1, m)) = IF 1 <= m THEN m - 1 + 1 ELSE 0
        /\ \A i \in 1..(m - 1 + 1) : SubSeq(x, 1, m)[i] = x[1 + i - 1]
    BY <2>1, SubSeqProperties
  <2>3. Len(SubSeq(x, 1, m)) = m /\ m - 1 + 1 = m /\ \A i \in 1..m : 1 + i - 1 = i
    BY <2>1, <2>2
  <2>4. \A i \in 1..m : SubSeq(x, 1, m)[i] = x[i]
    BY <2>2, <2>3
  <2> QED
    BY <2>2, <2>3, <2>4 DEF m
<1> QED
  BY <1>2, <1>3 DEF IsSeq, Front, Last

-----------------------------------------------------------------------------
(* Conditionals                                                            *)

(* The directives of one kind up to a line.                                *)
LEMMA OfStep ==
  ASSUME NEW file, NEW n \in Nat, NEW directive
  PROVE  /\ Cardinality(Of(file, n, directive)) \in Nat
         /\ Of(file, 0, directive) = {}
         /\ Of(file, n + 1, directive) = IF file[n + 1].directive = directive
                                           THEN Of(file, n, directive) \cup {n + 1}
                                           ELSE Of(file, n, directive)
         /\ Cardinality(Of(file, n + 1, directive)) =
              Cardinality(Of(file, n, directive)) + (IF file[n + 1].directive = directive THEN 1 ELSE 0)
<1>1. IsFiniteSet(Of(file, n, directive)) /\ Cardinality(Of(file, n, directive)) \in Nat
  <2>1. IsFiniteSet(1..n)
    BY FS_Interval
  <2>2. Of(file, n, directive) \subseteq 1..n
    BY DEF Of
  <2>3. IsFiniteSet(Of(file, n, directive))
    BY <2>1, <2>2, FS_Subset
  <2> QED
    BY <2>3, FS_CardinalityType
<1>2. Of(file, n + 1, directive) = IF file[n + 1].directive = directive
                                     THEN Of(file, n, directive) \cup {n + 1}
                                     ELSE Of(file, n, directive)
  BY DEF Of
<1>3. n + 1 \notin Of(file, n, directive)
  BY DEF Of
<1>4. Of(file, 0, directive) = {}
  BY DEF Of
<1>5. Cardinality(Of(file, n, directive) \cup {n + 1}) = Cardinality(Of(file, n, directive)) + 1
  BY <1>1, <1>3, FS_AddElement
<1> QED
  BY <1>1, <1>2, <1>4, <1>5

(* How deep a line is in conditionals follows from the line before.        *)
LEMMA DepthStep ==
  ASSUME NEW file, NEW n \in Nat
  PROVE  /\ Depth(file, n) \in Int /\ Depth(file, 0) = 0
         /\ Depth(file, n + 1) = CASE file[n + 1].directive = "if" -> Depth(file, n) + 1
                                   [] file[n + 1].directive = "endif" -> Depth(file, n) - 1
                                   [] OTHER -> Depth(file, n)
<1> DEFINE ifs == Cardinality(Of(file, n, "if"))
           endifs == Cardinality(Of(file, n, "endif"))
<1>1. ifs \in Nat /\ endifs \in Nat
  BY OfStep
<1>2. Depth(file, n) = ifs - endifs
  BY DEF Depth
<1>3. Depth(file, n + 1) = (ifs + (IF file[n + 1].directive = "if" THEN 1 ELSE 0))
                             - (endifs + (IF file[n + 1].directive = "endif" THEN 1 ELSE 0))
  <2>1. Cardinality(Of(file, n + 1, "if")) = ifs + (IF file[n + 1].directive = "if" THEN 1 ELSE 0)
    BY OfStep
  <2>2. Cardinality(Of(file, n + 1, "endif")) = endifs + (IF file[n + 1].directive = "endif" THEN 1 ELSE 0)
    BY OfStep
  <2> QED
    BY <2>1, <2>2 DEF Depth
<1>4. Depth(file, 0) = 0
  <2>1. Of(file, 0, "if") = {} /\ Of(file, 0, "endif") = {}
    BY OfStep
  <2>2. Cardinality({}) = 0
    BY FS_EmptySet
  <2> QED
    BY <2>1, <2>2 DEF Depth
<1> HIDE DEF ifs, endifs
<1> QED
  BY <1>1, <1>2, <1>3, <1>4

(* An #else of depth j that no #endif has ended.                           *)
SeenElse(file, n, j) ==
  \E d \in Of(file, n, "else") : Depth(file, d) = j /\ \A k \in d..n : Depth(file, k) >= j

(* Such an #else of the line before remains one unless its #endif comes.   *)
LEMMA SeenElseStep ==
  ASSUME NEW file, NEW n \in Nat, NEW j \in Int
  PROVE  /\ SeenElse(file, n, j) => j <= Depth(file, n)
         /\ j <= Depth(file, n + 1) =>
              (SeenElse(file, n + 1, j) <=> \/ SeenElse(file, n, j)
                                            \/ file[n + 1].directive = "else" /\ Depth(file, n + 1) = j)
<1>1. ASSUME SeenElse(file, n, j) PROVE j <= Depth(file, n)
  <2>1. PICK d \in Of(file, n, "else") : \A k \in d..n : Depth(file, k) >= j
    BY <1>1 DEF SeenElse
  <2>2. n \in d..n
    BY DEF Of
  <2> QED
    BY <2>1, <2>2, DepthStep
<1>2. ASSUME j <= Depth(file, n + 1), SeenElse(file, n + 1, j)
      PROVE  SeenElse(file, n, j) \/ (file[n + 1].directive = "else" /\ Depth(file, n + 1) = j)
  <2>1. PICK d \in Of(file, n + 1, "else") : Depth(file, d) = j /\ \A k \in d..(n + 1) : Depth(file, k) >= j
    BY <1>2 DEF SeenElse
  <2>2. CASE d = n + 1
    BY <2>1, <2>2 DEF Of
  <2>3. CASE d # n + 1
    <3>1. d \in Of(file, n, "else")
      BY <2>3 DEF Of
    <3>2. \A k \in d..n : k \in d..(n + 1)
      BY <3>1 DEF Of
    <3>3. \A k \in d..n : Depth(file, k) >= j
      BY <2>1, <3>2
    <3>4. Depth(file, d) = j
      BY <2>1
    <3>5. SeenElse(file, n, j)
      BY <3>1, <3>3, <3>4 DEF SeenElse
    <3> QED
      BY <3>5
  <2> QED
    BY <2>2, <2>3
<1>3. ASSUME j <= Depth(file, n + 1), SeenElse(file, n, j) PROVE SeenElse(file, n + 1, j)
  <2>1. PICK d \in Of(file, n, "else") : Depth(file, d) = j /\ \A k \in d..n : Depth(file, k) >= j
    BY <1>3 DEF SeenElse
  <2>2. d \in Of(file, n + 1, "else")
    BY DEF Of
  <2>3. \A k \in d..(n + 1) : Depth(file, k) >= j
    <3>1. Depth(file, n + 1) >= j
      BY <1>3, DepthStep
    <3>2. \A k \in d..(n + 1) : k \in d..n \/ k = n + 1
      BY DEF Of
    <3> QED
      BY <2>1, <3>1, <3>2
  <2> QED
    BY <2>1, <2>2, <2>3 DEF SeenElse
<1>4. ASSUME file[n + 1].directive = "else", Depth(file, n + 1) = j PROVE SeenElse(file, n + 1, j)
  <2>1. n + 1 \in Of(file, n + 1, "else")
    BY <1>4 DEF Of
  <2>2. \A k \in (n + 1)..(n + 1) : Depth(file, k) >= j
    BY <1>4
  <2> QED
    BY <1>4, <2>1, <2>2 DEF SeenElse
<1> QED
  BY <1>1, <1>2, <1>3, <1>4

(* A line is in a branch that is not the first if some #else is open.      *)
LEMMA InElseIsSeen ==
  ASSUME NEW file, NEW n \in Nat, Balanced(file, n)
  PROVE  InElse(file, n) <=> \E j \in 1..Depth(file, n) : SeenElse(file, n, j)
<1>1. ASSUME InElse(file, n) PROVE \E j \in 1..Depth(file, n) : SeenElse(file, n, j)
  <2>1. PICK d \in Of(file, n, "else") : \A k \in d..n : Depth(file, k) >= Depth(file, d)
    BY <1>1 DEF InElse
  <2>2. d \in 1..n /\ file[d].directive = "else"
    BY DEF Of
  <2>3. Depth(file, d) > 0 /\ Depth(file, d) \in Int
    BY <2>2, DepthStep DEF Balanced
  <2>4. SeenElse(file, n, Depth(file, d))
    BY <2>1 DEF SeenElse
  <2>5. Depth(file, d) <= Depth(file, n) /\ Depth(file, n) \in Int
    BY <2>3, <2>4, SeenElseStep, DepthStep
  <2> QED
    BY <2>3, <2>4, <2>5
<1>2. ASSUME NEW j \in 1..Depth(file, n), SeenElse(file, n, j) PROVE InElse(file, n)
  BY <1>2 DEF SeenElse, InElse
<1> QED
  BY <1>1, <1>2


IsConditional(e) ==
  DOMAIN e = {"stack_before_if", "stack_before_else", "seen_else"} /\ e.seen_else \in BOOLEAN

(* What a directive does to the stack and to the conditionals.             *)
LEMMA Directives ==
  ASSUME NEW s, IsNest(s), NEW directive
  PROVE  LET t == UpdatePreprocessor(Fresh(s), directive)
             info == Last(s.pp_stack)
         IN  /\ directive = "if" =>
                  /\ t.stack = s.stack
                  /\ \E e : IsConditional(e) /\ ~e.seen_else /\ t.pp_stack = Append(s.pp_stack, e)
             /\ directive = "else" /\ s.pp_stack # << >> =>
                  t.pp_stack = Append(Front(s.pp_stack), EnterElse(info, s.stack))
             /\ directive = "endif" /\ s.pp_stack # << >> =>
                  /\ t.pp_stack = Front(s.pp_stack)
                  /\ t.stack = IF info.seen_else THEN info.stack_before_else ELSE s.stack
             /\ directive = "endif" /\ s.pp_stack = << >> => t.stack = s.stack /\ t.pp_stack = s.pp_stack
             /\ directive = "none" => t.stack = s.stack /\ t.pp_stack = s.pp_stack
<1>1. /\ IsNest(Fresh(s)) /\ Fresh(s).stack = s.stack /\ Fresh(s).pp_stack = s.pp_stack
  BY DEF IsNest, Fresh
<1> DEFINE f == Fresh(s)
<1> HIDE DEF f
<1>2. IsNest(f) /\ f.stack = s.stack /\ f.pp_stack = s.pp_stack
  BY <1>1 DEF f
<1> DEFINE t == UpdatePreprocessor(f, directive)
           info == Last(s.pp_stack)
<1>3. directive = "if" => t.stack = s.stack /\ \E e : IsConditional(e) /\ ~e.seen_else /\ t.pp_stack = Append(s.pp_stack, e)
  <2>1. SUFFICES ASSUME directive = "if" PROVE t.stack = s.stack /\ \E e : IsConditional(e) /\ ~e.seen_else /\ t.pp_stack = Append(s.pp_stack, e)
    OBVIOUS
  <2> DEFINE e == [stack_before_if |-> f.stack, stack_before_else |-> << >>, seen_else |-> FALSE]
  <2>2. t.stack = s.stack /\ t.pp_stack = Append(s.pp_stack, e)
    BY <1>2, <2>1 DEF UpdatePreprocessor, IsNest
  <2>3. IsConditional(e) /\ ~e.seen_else
    BY DEF IsConditional
  <2> HIDE DEF e, t
  <2> QED
    BY <2>2, <2>3
<1>4. directive = "else" /\ s.pp_stack # << >> => t.pp_stack = Append(Front(s.pp_stack), EnterElse(info, s.stack))
  BY <1>2 DEF UpdatePreprocessor, IsNest
<1>5. directive = "endif" /\ s.pp_stack # << >> =>
        /\ t.pp_stack = Front(s.pp_stack)
        /\ t.stack = IF info.seen_else THEN info.stack_before_else ELSE s.stack
  BY <1>2 DEF UpdatePreprocessor, IsNest
<1>6. directive = "endif" /\ s.pp_stack = << >> => t.stack = s.stack /\ t.pp_stack = s.pp_stack
  BY <1>2 DEF UpdatePreprocessor, IsNest
<1>7. directive = "none" => t.stack = s.stack /\ t.pp_stack = s.pp_stack
  BY <1>2 DEF UpdatePreprocessor, IsNest
<1> HIDE DEF t
<1> QED
  BY <1>3, <1>4, <1>5, <1>6, <1>7 DEF f, t

(* The conditionals that are open: as many as the file is deep, and marked *)
(* as far as their #else has been seen.                                    *)
Conditionals(pp, file, n) ==
  /\ IsSeq(pp) /\ Len(pp) = Depth(file, n)
  /\ \A j \in 1..Len(pp) : IsConditional(pp[j]) /\ (pp[j].seen_else <=> SeenElse(file, n, j))

(* Where the stack of the first branches is: it is the stack itself, or    *)
(* what the outermost conditional kept whose #else was seen.               *)
KeptStack(s, ideal, file, n) ==
  /\ ~InElse(file, n) => s.stack = ideal
  /\ \A m \in 1..Len(s.pp_stack) :
       s.pp_stack[m].seen_else /\ (\A j \in 1..(m - 1) : ~s.pp_stack[j].seen_else)
         => s.pp_stack[m].stack_before_else = ideal

(* The conditionals after one line more.                                   *)
LEMMA ConditionalsStep ==
  ASSUME NEW file \in Seq(Lines), NEW n \in 0..(Len(file) - 1), NEW s, IsNest(s),
         Balanced(file, n + 1), Conditionals(s.pp_stack, file, n)
  PROVE  LET pp == (UpdatePreprocessor(Fresh(s), file[n + 1].directive)).pp_stack
         IN  /\ Conditionals(pp, file, n + 1)
             /\ \A j \in 1..Len(pp) : j <= Len(s.pp_stack) =>
                  \/ pp[j] = s.pp_stack[j]
                  \/ /\ j = Len(pp) /\ file[n + 1].directive = "else"
                     /\ pp[j] = EnterElse(s.pp_stack[j], s.stack)
<1> DEFINE directive == file[n + 1].directive
           old == s.pp_stack
           pp == (UpdatePreprocessor(Fresh(s), directive)).pp_stack
           D == Depth(file, n)
           D1 == Depth(file, n + 1)
<1>1. n \in Nat /\ n + 1 \in 1..(n + 1) /\ directive \in {"none", "if", "else", "endif"}
  <2>1. n \in Nat /\ n + 1 \in 1..Len(file)
    OBVIOUS
  <2>2. file[n + 1] \in Lines
    BY <2>1
  <2>3. \A line \in Lines : line.directive \in {"none", "if", "else", "endif"}
    BY DEF Lines
  <2> QED
    BY <2>1, <2>2, <2>3
<1>2. D1 >= 0 /\ (directive = "else" => D1 > 0)
  BY <1>1 DEF Balanced
<1>3. /\ D \in Int
      /\ D1 = CASE directive = "if" -> D + 1 [] directive = "endif" -> D - 1 [] OTHER -> D
  BY <1>1, DepthStep
<1>4. \A j \in Int : /\ SeenElse(file, n, j) => j <= D
                     /\ j <= D1 => (SeenElse(file, n + 1, j) <=> \/ SeenElse(file, n, j)
                                                                 \/ directive = "else" /\ D1 = j)
  BY <1>1, SeenElseStep
<1>5. /\ IsSeq(old) /\ Len(old) = D
      /\ \A j \in 1..D : IsConditional(old[j]) /\ (old[j].seen_else <=> SeenElse(file, n, j))
  BY DEF Conditionals
<1>6. /\ directive = "if" => \E e : IsConditional(e) /\ ~e.seen_else /\ pp = Append(old, e)
      /\ directive = "else" /\ old # << >> => pp = Append(Front(old), EnterElse(Last(old), s.stack))
      /\ directive = "endif" /\ old # << >> => pp = Front(old)
      /\ directive = "none" => pp = old
  BY Directives
<1>7. D > 0 => old # << >>
  BY <1>5
<1> HIDE DEF directive, D, D1, pp, old
<1> SUFFICES /\ IsSeq(pp) /\ Len(pp) = D1
             /\ \A j \in 1..D1 : IsConditional(pp[j]) /\ (pp[j].seen_else <=> SeenElse(file, n + 1, j))
             /\ \A j \in 1..D1 : j <= D =>
                  \/ pp[j] = old[j]
                  \/ j = D1 /\ directive = "else" /\ pp[j] = EnterElse(old[j], s.stack)
  BY <1>5 DEF Conditionals, directive, D, D1, pp, old
<1>8. CASE directive = "if"
  <2>1. PICK e : IsConditional(e) /\ ~e.seen_else /\ pp = Append(old, e)
    BY <1>6, <1>8
  <2>2. D1 = D + 1
    BY <1>3, <1>8
  <2>3. IsSeq(pp) /\ Len(pp) = D1 /\ pp[D1] = e /\ \A j \in 1..D : pp[j] = old[j]
    BY <1>5, <2>1, <2>2, Pushed
  <2>4. ~SeenElse(file, n + 1, D1)
    BY <1>3, <1>4, <1>8, <2>2
  <2>5. \A j \in 1..D : SeenElse(file, n + 1, j) <=> SeenElse(file, n, j)
    BY <1>3, <1>4, <1>8, <2>2
  <2>6. \A j \in 1..D1 : j \in 1..D \/ j = D1
    BY <1>3, <2>2
  <2> QED
    BY <1>5, <2>1, <2>3, <2>4, <2>5, <2>6
<1>9. CASE directive = "else"
  <2>1. D1 = D /\ D > 0
    BY <1>2, <1>3, <1>9
  <2> DEFINE e == EnterElse(Last(old), s.stack)
  <2>2. pp = Append(Front(old), e)
    BY <1>6, <1>7, <1>9, <2>1
  <2>3. /\ IsSeq(Front(old)) /\ Len(Front(old)) = D - 1 /\ Last(old) = old[D]
        /\ \A j \in 1..(D - 1) : Front(old)[j] = old[j]
    BY <1>5, <1>7, <2>1, Popped
  <2>4. IsConditional(e) /\ e.seen_else
    <3>1. D \in 1..D
      BY <1>3, <2>1
    <3>2. IsConditional(Last(old))
      BY <1>5, <2>3, <3>1
    <3>3. CASE Last(old).seen_else
      BY <3>2, <3>3 DEF EnterElse
    <3>4. CASE ~Last(old).seen_else
      <4>1. e = [Last(old) EXCEPT !.seen_else = TRUE, !.stack_before_else = s.stack]
        BY <3>4 DEF EnterElse
      <4> QED
        BY <3>2, <4>1 DEF IsConditional
    <3> QED
      BY <3>3, <3>4
  <2> HIDE DEF e
  <2>5. IsSeq(pp) /\ Len(pp) = D /\ pp[D] = e /\ \A j \in 1..(D - 1) : pp[j] = old[j]
    <3>1. IsSeq(pp) /\ Len(pp) = (D - 1) + 1 /\ pp[(D - 1) + 1] = e /\ \A j \in 1..(D - 1) : pp[j] = Front(old)[j]
      BY <2>2, <2>3, Pushed
    <3>2. (D - 1) + 1 = D
      BY <1>3
    <3> QED
      BY <2>3, <3>1, <3>2
  <2>6. SeenElse(file, n + 1, D)
    BY <1>3, <1>4, <1>9, <2>1
  <2>7. \A j \in 1..(D - 1) : SeenElse(file, n + 1, j) <=> SeenElse(file, n, j)
    BY <1>3, <1>4, <2>1
  <2>8. \A j \in 1..D : j \in 1..(D - 1) \/ j = D
    BY <1>3
  <2>9. e = EnterElse(old[D], s.stack)
    BY <2>3 DEF e
  <2> QED
    BY <1>3, <1>5, <1>9, <2>1, <2>4, <2>5, <2>6, <2>7, <2>8, <2>9
<1>10. CASE directive = "endif"
  <2>1. D1 = D - 1 /\ D > 0
    BY <1>2, <1>3, <1>10
  <2>2. pp = Front(old)
    BY <1>6, <1>7, <1>10, <2>1
  <2>3. IsSeq(pp) /\ Len(pp) = D1 /\ \A j \in 1..D1 : pp[j] = old[j]
    BY <1>5, <1>7, <2>1, <2>2, Popped
  <2>4. \A j \in 1..D1 : j \in 1..D /\ (SeenElse(file, n + 1, j) <=> SeenElse(file, n, j))
    BY <1>3, <1>4, <1>10, <2>1
  <2> QED
    BY <1>5, <2>3, <2>4
<1>11. CASE directive = "none"
  <2>1. D1 = D /\ pp = old
    BY <1>3, <1>6, <1>11
  <2>2. \A j \in 1..D1 : SeenElse(file, n + 1, j) <=> SeenElse(file, n, j)
    BY <1>3, <1>4, <1>11, <2>1
  <2> QED
    BY <1>5, <2>1, <2>2
<1> QED
  BY <1>1, <1>8, <1>9, <1>10, <1>11


(* A directive leaves the stack of the first branches where it is kept.    *)
LEMMA KeptStep ==
  ASSUME NEW file \in Seq(Lines), NEW n \in 0..(Len(file) - 1), NEW s, IsNest(s),
         Balanced(file, n), Balanced(file, n + 1),
         Conditionals(s.pp_stack, file, n), NEW ideal, KeptStack(s, ideal, file, n)
  PROVE  KeptStack(UpdatePreprocessor(Fresh(s), file[n + 1].directive), ideal, file, n + 1)
<1> DEFINE directive == file[n + 1].directive
           t == UpdatePreprocessor(Fresh(s), directive)
           old == s.pp_stack
           pp == t.pp_stack
           D == Depth(file, n)
           D1 == Depth(file, n + 1)
<1>1. n \in Nat /\ n + 1 \in Nat /\ n + 1 \in 1..(n + 1) /\ directive \in {"none", "if", "else", "endif"}
  <2>1. n \in Nat /\ n + 1 \in 1..Len(file)
    OBVIOUS
  <2>2. file[n + 1] \in Lines
    BY <2>1
  <2>3. \A line \in Lines : line.directive \in {"none", "if", "else", "endif"}
    BY DEF Lines
  <2> QED
    BY <2>1, <2>2, <2>3
<1>2. D1 >= 0 /\ (directive = "else" => D1 > 0)
  BY <1>1 DEF Balanced
<1>3. /\ D \in Int
      /\ D1 = CASE directive = "if" -> D + 1 [] directive = "endif" -> D - 1 [] OTHER -> D
  BY <1>1, DepthStep
<1>4. /\ IsSeq(old) /\ Len(old) = D
      /\ \A j \in 1..D : IsConditional(old[j]) /\ (old[j].seen_else <=> SeenElse(file, n, j))
  BY DEF Conditionals
<1>5. /\ IsSeq(pp) /\ Len(pp) = D1
      /\ \A j \in 1..D1 : IsConditional(pp[j]) /\ (pp[j].seen_else <=> SeenElse(file, n + 1, j))
      /\ \A j \in 1..D1 : j <= D =>
           pp[j] = old[j] \/ (j = D1 /\ directive = "else" /\ pp[j] = EnterElse(old[j], s.stack))
  BY <1>4, ConditionalsStep DEF Conditionals
<1>6. /\ InElse(file, n) <=> \E j \in 1..D : SeenElse(file, n, j)
      /\ InElse(file, n + 1) <=> \E j \in 1..D1 : SeenElse(file, n + 1, j)
  BY <1>1, InElseIsSeen
<1>7. \A j \in 1..D : j <= D1 /\ SeenElse(file, n, j) => SeenElse(file, n + 1, j)
  BY <1>1, SeenElseStep
<1>8. /\ directive = "if" => t.stack = s.stack
      /\ directive = "endif" /\ old # << >> =>
           t.stack = IF Last(old).seen_else THEN Last(old).stack_before_else ELSE s.stack
      /\ directive = "none" => t.stack = s.stack
  BY Directives
<1>9. /\ ~InElse(file, n) => s.stack = ideal
      /\ \A m \in 1..D : old[m].seen_else /\ (\A j \in 1..(m - 1) : ~old[j].seen_else)
                           => old[m].stack_before_else = ideal
  BY <1>4 DEF KeptStack
<1>10. directive = "if" => D1 = D + 1 /\ ~SeenElse(file, n + 1, D1)
  BY <1>1, <1>3, SeenElseStep
<1>11. D > 0 => old # << >>
  BY <1>4
<1> HIDE DEF directive, t, old, pp, D, D1
<1>12. ASSUME ~InElse(file, n + 1) PROVE t.stack = ideal
  <2>1. \A j \in 1..D1 : ~SeenElse(file, n + 1, j)
    BY <1>6, <1>12
  <2>2. CASE directive = "else"
    <3>1. D1 = D /\ D > 0 /\ D1 \in 1..D1
      BY <1>2, <1>3, <2>2
    <3>2. SeenElse(file, n + 1, D1)
      <4>1. file[n + 1].directive = "else" /\ Depth(file, n + 1) = D1
        BY <2>2 DEF directive, D1
      <4>2. D1 \in Int /\ D1 <= Depth(file, n + 1)
        BY <1>3, <3>1 DEF D1
      <4> QED
        BY <1>1, <4>1, <4>2, SeenElseStep
    <3> QED
      BY <2>1, <3>1, <3>2
  <2>3. CASE directive = "endif"
    <3>1. D1 = D - 1 /\ D > 0 /\ old # << >>
      BY <1>2, <1>3, <1>11, <2>3
    <3>2. Last(old) = old[D] /\ D \in 1..D
      BY <1>3, <1>4, <3>1, Popped
    <3>3. \A j \in 1..(D - 1) : ~old[j].seen_else
      BY <1>3, <1>4, <1>7, <2>1, <3>1
    <3>4. CASE old[D].seen_else
      BY <1>8, <1>9, <2>3, <3>1, <3>2, <3>3, <3>4
    <3>5. CASE ~old[D].seen_else
      <4>1. \A j \in 1..D : j \in 1..(D - 1) \/ j = D
        BY <1>3
      <4>2. ~InElse(file, n)
        BY <1>4, <1>6, <3>3, <3>5, <4>1
      <4> QED
        BY <1>8, <1>9, <2>3, <3>1, <3>2, <3>5, <4>2
    <3> QED
      BY <3>4, <3>5
  <2>4. CASE directive \in {"if", "none"}
    <3>1. D1 >= D
      BY <1>3, <2>4
    <3>2. \A j \in 1..D : j \in 1..D1 /\ j <= D1
      BY <1>3, <2>4
    <3>3. ~InElse(file, n)
      BY <1>6, <1>7, <2>1, <3>2
    <3> QED
      BY <1>8, <1>9, <2>4, <3>3
  <2> QED
    BY <1>1, <2>2, <2>3, <2>4 DEF directive
<1>13. ASSUME NEW m \in 1..D1, pp[m].seen_else, \A j \in 1..(m - 1) : ~pp[j].seen_else
       PROVE  pp[m].stack_before_else = ideal
  <2>1. m <= D
    <3>1. m # D + 1 \/ directive # "if"
      BY <1>5, <1>10, <1>13
    <3> QED
      BY <1>3, <3>1
  <2>2. m \in 1..D
    BY <1>3, <2>1
  <2>3. \A j \in 1..(m - 1) : pp[j] = old[j] /\ ~old[j].seen_else
    <3> TAKE j \in 1..(m - 1)
    <3>1. j \in 1..D1 /\ j <= D /\ j # D1
      BY <1>3, <2>2
    <3> QED
      BY <1>5, <1>13, <3>1
  <2>4. CASE pp[m] = old[m]
    BY <1>9, <1>13, <2>2, <2>3, <2>4
  <2>5. CASE m = D1 /\ directive = "else" /\ pp[m] = EnterElse(old[m], s.stack)
    <3>1. CASE old[m].seen_else
      <4>1. pp[m] = old[m]
        BY <2>5, <3>1 DEF EnterElse
      <4> QED
        BY <2>4, <4>1
    <3>2. CASE ~old[m].seen_else
      <4>1. pp[m] = [old[m] EXCEPT !.seen_else = TRUE, !.stack_before_else = s.stack]
        BY <2>5, <3>2 DEF EnterElse
      <4>2. IsConditional(old[m])
        BY <1>4, <2>2
      <4>3. pp[m].stack_before_else = s.stack
        BY <4>1, <4>2 DEF IsConditional
      <4>4. D1 = D
        BY <1>3, <2>5
      <4>5. \A j \in 1..D : j \in 1..(m - 1) \/ j = m
        BY <1>3, <2>5, <4>4
      <4>6. ~InElse(file, n)
        BY <1>4, <1>6, <2>3, <3>2, <4>5
      <4> QED
        BY <1>9, <4>3, <4>6
    <3> QED
      BY <3>1, <3>2
  <2> QED
    BY <1>5, <2>1, <2>4, <2>5
<1> QED
  BY <1>5, <1>12, <1>13 DEF KeptStack, directive, t, pp

-----------------------------------------------------------------------------
(* The first branches of a file                                            *)

(* They are what the lines leave one after the other.                      *)
LEMMA FirstBranchesLoop ==
  ASSUME NEW file, Len(file) \in Nat
  PROVE  /\ FirstBranches(file)[0] = Empty
         /\ \A i \in 1..Len(file) :
              FirstBranches(file)[i] = IF InElse(file, i) THEN FirstBranches(file)[i - 1]
                                       ELSE Update(FirstBranches(file)[i - 1], i, file[i])
<1> DEFINE N == Len(file)
           base == Empty
           Step(a, i) == IF InElse(file, i) THEN a ELSE Update(a, i, file[i])
           Run(f, k) == f[0] = base /\ \A i \in 1..k : f[i] = Step(f[i - 1], i)
           Loop(f) == f = [i \in 0..N |-> IF i = 0 THEN base ELSE Step(f[i - 1], i)]
           P == {k \in 0..N : \E f : Run(f, k)}
           loop == CHOOSE f : Loop(f)
<1>1. FirstBranches(file) = loop
  <2> DEFINE Literal(f) == f = [i \in 0..Len(file) |->
                                  IF i = 0 THEN Empty
                                  ELSE IF InElse(file, i) THEN f[i - 1]
                                  ELSE Update(f[i - 1], i, file[i])]
  <2>1. \A f : Literal(f) <=> Loop(f)
    <3> TAKE f
    <3>1. [i \in 0..Len(file) |-> IF i = 0 THEN Empty
                                  ELSE IF InElse(file, i) THEN f[i - 1]
                                  ELSE Update(f[i - 1], i, file[i])]
          = [i \in 0..N |-> IF i = 0 THEN base ELSE Step(f[i - 1], i)]
      OBVIOUS
    <3> QED
      BY <3>1
  <2>2. (CHOOSE f : Literal(f)) = CHOOSE f : Loop(f)
    <3> HIDE DEF Literal, Loop
    <3> QED
      BY <2>1, Zenon
  <2> QED
    BY <2>2, Zenon DEF FirstBranches
<1>2. N \in Nat
  OBVIOUS
<1> HIDE DEF N, base, Step
<1>3. 0 \in P
  <2>1. Run([i \in 0..0 |-> base], 0)
    OBVIOUS
  <2>2. \E f : Run(f, 0)
    BY <2>1, Zenon
  <2>3. 0 \in 0..N
    BY <1>2
  <2> QED
    BY <2>2, <2>3, Zenon
<1>4. ASSUME NEW k \in 0..(N - 1), k \in P PROVE k + 1 \in P
  <2>1. PICK f : Run(f, k)
    BY <1>4
  <2> DEFINE g == [i \in 0..(k + 1) |-> IF i = k + 1 THEN Step(f[k], k + 1) ELSE f[i]]
  <2>2. k \in Nat /\ k + 1 \in 0..N /\ k + 1 - 1 = k
    BY <1>2
  <2>3. g[0] = base
    BY <2>1, <2>2
  <2>4. ASSUME NEW i \in 1..(k + 1) PROVE g[i] = Step(g[i - 1], i)
    <3>1. CASE i = k + 1
      <4>1. g[i] = Step(f[k], k + 1) /\ g[i - 1] = f[k]
        BY <2>2, <3>1
      <4> QED
        BY <3>1, <4>1
    <3>2. CASE i # k + 1
      <4>1. i \in 1..k /\ g[i] = f[i] /\ g[i - 1] = f[i - 1]
        BY <2>2, <3>2
      <4> QED
        BY <2>1, <4>1
    <3> QED
      BY <3>1, <3>2
  <2>5. Run(g, k + 1)
    BY <2>3, <2>4
  <2>6. \E h : Run(h, k + 1)
    BY <2>5, Zenon
  <2> QED
    BY <2>2, <2>6, Zenon
<1>5. P \in SUBSET (0..N)
  OBVIOUS
<1>6. PICK f : Run(f, N)
  <2> HIDE DEF P
  <2>1. \A k \in 0..N : k \in P
    BY <1>3, <1>4, <1>2, <1>5, NaturalSteps
  <2>2. N \in P
    BY <1>2, <2>1
  <2> QED
    BY <2>2, Zenon DEF P
<1>7. Loop([i \in 0..N |-> f[i]])
  <2> DEFINE g == [i \in 0..N |-> f[i]]
  <2>1. \A i \in 0..N : g[i] = IF i = 0 THEN base ELSE Step(g[i - 1], i)
    <3> TAKE i \in 0..N
    <3>1. CASE i = 0
      BY <1>6, <3>1
    <3>2. CASE i # 0
      <4>1. i \in 1..N /\ g[i] = f[i] /\ g[i - 1] = f[i - 1]
        BY <1>2, <3>2
      <4> QED
        BY <1>6, <3>2, <4>1
    <3> QED
      BY <3>1, <3>2
  <2> QED
    BY <2>1
<1>8. Loop(loop)
  BY <1>7, Zenon
<1>9. loop[0] = base /\ \A i \in 1..N : loop[i] = Step(loop[i - 1], i)
  <2>1. PICK g : g = loop
    OBVIOUS
  <2>2. g = [i \in 0..N |-> IF i = 0 THEN base ELSE Step(g[i - 1], i)]
    BY <1>8, <2>1, Zenon
  <2>3. g[0] = base /\ \A i \in 1..N : g[i] = Step(g[i - 1], i)
    BY <1>2, <2>2
  <2> QED
    BY <2>1, <2>3
<1> HIDE DEF loop
<1> QED
  BY <1>1, <1>9 DEF N, base, Step


(* A state that has never seen an #else.                                   *)
NoElse(t) == IsSeq(t.pp_stack) /\ \A j \in 1..Len(t.pp_stack) : ~t.pp_stack[j].seen_else

(* It keeps its stack through every directive but #else.                   *)
LEMMA NoElseStep ==
  ASSUME NEW t, IsNest(t), NoElse(t), NEW directive \in {"none", "if", "endif"}
  PROVE  LET t1 == UpdatePreprocessor(Fresh(t), directive)
         IN  t1.stack = t.stack /\ NoElse(t1)
<1> DEFINE t1 == UpdatePreprocessor(Fresh(t), directive)
           old == t.pp_stack
           pp == t1.pp_stack
<1>1. /\ directive = "if" =>
           /\ t1.stack = t.stack
           /\ \E e : IsConditional(e) /\ ~e.seen_else /\ pp = Append(old, e)
      /\ directive = "endif" /\ old # << >> =>
           /\ pp = Front(old)
           /\ t1.stack = IF Last(old).seen_else THEN Last(old).stack_before_else ELSE t.stack
      /\ directive = "endif" /\ old = << >> => t1.stack = t.stack /\ pp = old
      /\ directive = "none" => t1.stack = t.stack /\ pp = old
  BY Directives
<1>2. IsSeq(old) /\ \A j \in 1..Len(old) : ~old[j].seen_else
  BY DEF NoElse
<1>3. SUFFICES t1.stack = t.stack /\ IsSeq(pp) /\ \A j \in 1..Len(pp) : ~pp[j].seen_else
  BY DEF NoElse
<1> HIDE DEF t1, old, pp
<1>4. CASE directive = "if"
  <2>1. PICK e : ~e.seen_else /\ pp = Append(old, e)
    BY <1>1, <1>4
  <2>2. /\ IsSeq(pp) /\ Len(old) \in Nat /\ Len(pp) = Len(old) + 1 /\ pp[Len(old) + 1] = e
        /\ \A j \in 1..Len(old) : pp[j] = old[j]
    BY <1>2, <2>1, Pushed
  <2>3. \A j \in 1..Len(pp) : j \in 1..Len(old) \/ j = Len(old) + 1
    BY <2>2
  <2> QED
    BY <1>1, <1>2, <1>4, <2>1, <2>2, <2>3
<1>5. CASE directive = "endif" /\ old # << >>
  <2>1. /\ IsSeq(pp) /\ Len(old) \in Nat \ {0} /\ Len(pp) = Len(old) - 1 /\ Last(old) = old[Len(old)]
        /\ \A j \in 1..(Len(old) - 1) : pp[j] = old[j]
    BY <1>1, <1>2, <1>5, Popped
  <2>2. \A j \in 1..Len(pp) : j \in 1..Len(old) /\ pp[j] = old[j]
    BY <2>1
  <2>3. ~Last(old).seen_else
    BY <1>2, <2>1
  <2> QED
    BY <1>1, <1>2, <1>5, <2>1, <2>2, <2>3
<1>6. CASE directive = "none" \/ (directive = "endif" /\ old = << >>)
  BY <1>1, <1>2, <1>6
<1> QED
  BY <1>4, <1>5, <1>6

(* s is what the lines of a file leave, t what its first branches leave.   *)
Branches(s, t, file, n) ==
  /\ IsNest(s) /\ IsNest(t) /\ NoElse(t)
  /\ Balanced(file, n) => Conditionals(s.pp_stack, file, n) /\ KeptStack(s, t.stack, file, n)

(* One line more.                                                          *)
LEMMA BranchesStep ==
  ASSUME NEW file \in Seq(Lines), NEW n \in 0..(Len(file) - 1), NEW s, NEW t, Branches(s, t, file, n)
  PROVE  Branches(Update(s, n + 1, file[n + 1]),
                  IF InElse(file, n + 1) THEN t ELSE Update(t, n + 1, file[n + 1]), file, n + 1)
<1> DEFINE line == file[n + 1]
           s1 == UpdatePreprocessor(Fresh(s), line.directive)
           t1 == UpdatePreprocessor(Fresh(t), line.directive)
           s2 == Update(s, n + 1, line)
           t2 == Update(t, n + 1, line)
           next == IF InElse(file, n + 1) THEN t ELSE t2
<1>1. /\ line.tokens \in Seq(Words) /\ line.directive \in {"none", "if", "else", "endif"}
      /\ n \in Nat /\ n + 1 \in 1..(n + 1)
  <2>1. n \in Nat /\ n + 1 \in 1..Len(file) /\ n + 1 \in 1..(n + 1)
    OBVIOUS
  <2>2. file[n + 1] \in Lines
    BY <2>1
  <2>3. \A l \in Lines : l.tokens \in Seq(Words) /\ l.directive \in {"none", "if", "else", "endif"}
    BY DEF Lines
  <2> QED
    BY <2>1, <2>2, <2>3
<1> HIDE DEF line
<1>2. IsNest(s) /\ IsNest(t) /\ NoElse(t)
  BY DEF Branches
<1>3. IsNest(s2) /\ s2.pp_stack = s1.pp_stack
  BY <1>1, <1>2, UpdateOfNest
<1>4. IsNest(t2) /\ t2.pp_stack = t1.pp_stack
  BY <1>1, <1>2, UpdateOfNest
<1>5. ~InElse(file, n + 1) => line.directive # "else"
  <2>1. SUFFICES ASSUME line.directive = "else" PROVE InElse(file, n + 1)
    OBVIOUS
  <2>2. n + 1 \in Of(file, n + 1, "else")
    BY <1>1, <2>1 DEF Of, line
  <2>3. \A k \in (n + 1)..(n + 1) : Depth(file, k) >= Depth(file, n + 1)
    BY <1>1, DepthStep
  <2> QED
    BY <2>2, <2>3 DEF InElse
<1>6. ~InElse(file, n + 1) => t1.stack = t.stack /\ NoElse(t1)
  BY <1>1, <1>2, <1>5, NoElseStep
<1>7. IsNest(next) /\ NoElse(next)
  BY <1>2, <1>4, <1>6 DEF NoElse
<1>8. ASSUME Balanced(file, n + 1)
      PROVE  Conditionals(s2.pp_stack, file, n + 1) /\ KeptStack(s2, next.stack, file, n + 1)
  <2>1. Balanced(file, n)
    BY <1>1, <1>8 DEF Balanced
  <2>2. Conditionals(s.pp_stack, file, n) /\ KeptStack(s, t.stack, file, n)
    BY <2>1 DEF Branches
  <2>3. Conditionals(s1.pp_stack, file, n + 1)
    BY <1>2, <1>8, <2>2, ConditionalsStep DEF line
  <2>4. KeptStack(s1, t.stack, file, n + 1)
    BY <1>2, <1>8, <2>1, <2>2, KeptStep DEF line
  <2>5. CASE InElse(file, n + 1)
    BY <1>3, <2>3, <2>4, <2>5 DEF KeptStack
  <2>6. CASE ~InElse(file, n + 1)
    <3>1. s1.stack = t1.stack
      BY <1>6, <2>4, <2>6 DEF KeptStack
    <3>2. Alike(s1, t1, s1.pp_stack, t1.pp_stack)
      <4>1. IsNest(s1) /\ Harmless(s1.found) /\ IsNest(t1) /\ Harmless(t1.found)
        BY <1>2, DirectiveKeepsNest
      <4> HIDE DEF s1, t1
      <4> QED
        BY <3>1, <4>1 DEF Alike
    <3>3. Alike(s2, t2, s1.pp_stack, t1.pp_stack)
      BY <1>1, <3>2, UpdateAlike
    <3>4. s2.stack = t2.stack
      BY <3>3 DEF Alike
    <3>5. \A m \in 1..Len(s1.pp_stack) : ~s1.pp_stack[m].seen_else
      <4>1. InElse(file, n + 1) <=> \E j \in 1..Depth(file, n + 1) : SeenElse(file, n + 1, j)
        BY <1>1, <1>8, InElseIsSeen
      <4> QED
        BY <2>3, <2>6, <4>1 DEF Conditionals
    <3> HIDE DEF s1, s2, t2
    <3> QED
      BY <1>3, <2>3, <2>6, <3>4, <3>5 DEF KeptStack
  <2> QED
    BY <2>5, <2>6
<1> QED
  BY <1>3, <1>7, <1>8 DEF Branches, line

BranchInv ==
  /\ text \in Seq(Lines) /\ linenum \in 0..(Len(text) + 1)
  /\ Branches(nest, FirstBranches(text)[Processed], text, Processed)

(* No line has been processed, and no first branch either.                 *)
LEMMA BranchInitial == Init => BranchInv
<1> SUFFICES ASSUME Init PROVE BranchInv
  OBVIOUS
<1>1. text \in Seq(Lines) /\ linenum = 0 /\ nest = Empty
  BY LintNestingAssumption DEF Init
<1>2. Len(text) \in Nat /\ Processed = 0
  BY <1>1 DEF Processed
<1>3. FirstBranches(text)[0] = Empty
  BY <1>2, FirstBranchesLoop
<1>4. IsNest(Empty) /\ Empty.stack = << >> /\ Empty.pp_stack = << >>
  BY DEF IsNest, Empty
<1>5. IsSeq(Empty.pp_stack) /\ Len(Empty.pp_stack) = 0
  BY <1>4 DEF IsSeq
<1>6. NoElse(Empty)
  BY <1>5 DEF NoElse
<1>7. Conditionals(Empty.pp_stack, text, 0)
  BY <1>5, DepthStep DEF Conditionals
<1>8. KeptStack(Empty, Empty.stack, text, 0)
  BY <1>5 DEF KeptStack
<1> QED
  BY <1>1, <1>2, <1>3, <1>4, <1>6, <1>7, <1>8 DEF BranchInv, Branches

(* Every line keeps the invariant.                                         *)
LEMMA BranchInductive ==
  ASSUME BranchInv, [Next]_vars
  PROVE  BranchInv'
<1>0. /\ text \in Seq(Lines) /\ linenum \in 0..(Len(text) + 1)
      /\ Branches(nest, FirstBranches(text)[Processed], text, Processed)
  BY DEF BranchInv
<1>1. CASE ProcessLine
  <2>1. linenum < Len(text) /\ linenum' = linenum + 1 /\ text' = text
        /\ nest' = Update(nest, linenum + 1, text[linenum + 1])
    BY <1>1 DEF ProcessLine
  <2>2. PICK file, n : file = text /\ n = linenum
    OBVIOUS
  <2>3. file \in Seq(Lines) /\ Len(file) \in Nat /\ n \in 0..(Len(file) - 1) /\ n + 1 \in 1..Len(file) /\ n + 1 - 1 = n
    BY <1>0, <2>1, <2>2
  <2>4. Processed = n /\ Processed' = n + 1
    BY <2>1, <2>2, <2>3 DEF Processed
  <2>5. Branches(nest, FirstBranches(file)[n], file, n)
    BY <1>0, <2>2, <2>4
  <2>6. FirstBranches(file)[n + 1] = IF InElse(file, n + 1) THEN FirstBranches(file)[n]
                                      ELSE Update(FirstBranches(file)[n], n + 1, file[n + 1])
    BY <2>3, FirstBranchesLoop
  <2>7. Branches(Update(nest, n + 1, file[n + 1]), FirstBranches(file)[n + 1], file, n + 1)
    BY <2>3, <2>5, <2>6, BranchesStep
  <2>8. text' = file /\ nest' = Update(nest, n + 1, file[n + 1]) /\ linenum' = n + 1
    BY <2>1, <2>2
  <2>9. linenum' \in 0..(Len(text') + 1)
    BY <2>3, <2>8
  <2>10. Branches(nest', FirstBranches(text')[Processed'], text', Processed')
    BY <2>4, <2>7, <2>8
  <2> QED
    BY <2>3, <2>8, <2>9, <2>10 DEF BranchInv
<1>2. CASE CheckCompletedBlocks
  <2>1. linenum = Len(text) /\ linenum' = linenum + 1 /\ text' = text /\ nest' = nest
    BY <1>2 DEF CheckCompletedBlocks
  <2>2. Len(text) \in Nat
    BY <1>0
  <2>3. Processed' = Processed
    BY <2>1, <2>2 DEF Processed
  <2>4. linenum' \in 0..(Len(text') + 1)
    BY <2>1, <2>2
  <2>5. Branches(nest', FirstBranches(text')[Processed'], text', Processed')
    BY <1>0, <2>1, <2>3
  <2> QED
    BY <1>0, <2>1, <2>4, <2>5 DEF BranchInv
<1>3. CASE UNCHANGED vars
  <2>1. linenum' = linenum /\ text' = text /\ nest' = nest
    BY <1>3 DEF vars
  <2>2. Processed' = Processed
    BY <2>1 DEF Processed
  <2> QED
    BY <1>0, <2>1, <2>2 DEF BranchInv
<1> QED
  BY <1>1, <1>2, <1>3 DEF Next

(* Only the first branch of a conditional counts: outside the other ones   *)
(* the stack of NestingState is that of a file without them, however the   *)
(* conditionals are nested and whatever their branches open and close.     *)
THEOREM OnlyFirstBranchesCount == Spec => []FirstBranchCounts
<1>1. Init => BranchInv
  BY BranchInitial
<1>2. BranchInv /\ [Next]_vars => BranchInv'
  BY BranchInductive
<1>3. BranchInv => FirstBranchCounts
  BY DEF BranchInv, Branches, KeptStack, FirstBranchCounts
<1> QED
  BY <1>1, <1>2, <1>3, PTL DEF Spec

-----------------------------------------------------------------------------
(* Blocks and braces                                                       *)

(* The fields of a block.                                                  *)
IsBlock(b) ==
  DOMAIN b = {"kind", "line", "seen_open_brace", "open_parentheses", "inline_asm", "access",
              "indent", "is_derived"}

(* As many blocks as open braces, and the innermost one more if it waits   *)
(* for its brace.                                                          *)
Blocks(stack, open, waiting) ==
  /\ IsSeq(stack) /\ \A i \in 1..Len(stack) : IsBlock(stack[i])
  /\ \A i \in 1..(Len(stack) - 1) : stack[i].seen_open_brace
  /\ waiting => stack # << >> /\ ~stack[Len(stack)].seen_open_brace /\ Len(stack) = open + 1
  /\ ~waiting => (stack = << >> \/ stack[Len(stack)].seen_open_brace) /\ Len(stack) = open

(* Whether the innermost block waits.                                      *)
LEMMA BlocksWait ==
  ASSUME NEW s, NEW open, NEW waiting, Blocks(s.stack, open, waiting)
  PROVE  /\ SeenOpenBrace(s) <=> ~waiting
         /\ s.stack # << >> => Top(s) = s.stack[Len(s.stack)]
BY Popped DEF Blocks, SeenOpenBrace, Top

(* A block is pushed.                                                      *)
LEMMA BlocksPush ==
  ASSUME NEW stack, NEW open \in Int, Blocks(stack, open, FALSE), NEW b, IsBlock(b)
  PROVE  /\ b.seen_open_brace => Blocks(Append(stack, b), open + 1, FALSE)
         /\ ~b.seen_open_brace => Blocks(Append(stack, b), open, TRUE)
<1>1. /\ IsSeq(stack) /\ \A i \in 1..(Len(stack) - 1) : stack[i].seen_open_brace
      /\ stack = << >> \/ stack[Len(stack)].seen_open_brace
      /\ Len(stack) = open
  BY DEF Blocks
<1>2. PICK more : more = Append(stack, b)
  OBVIOUS
<1>3. /\ IsSeq(more) /\ Len(stack) \in Nat /\ Len(more) = Len(stack) + 1
      /\ \A i \in 1..Len(stack) : more[i] = stack[i]
      /\ more[Len(stack) + 1] = b
  BY ONLY <1>1, <1>2, Pushed
<1>4. \A i \in 1..(Len(more) - 1) : more[i].seen_open_brace
  <2> TAKE i \in 1..(Len(more) - 1)
  <2>1. i \in 1..Len(stack) /\ more[i] = stack[i] /\ (i \in 1..(Len(stack) - 1) \/ i = Len(stack))
    BY <1>3
  <2>2. stack # << >>
    BY <1>3, <2>1
  <2> QED
    BY <1>1, <2>1, <2>2
<1>5. more # << >> /\ more[Len(more)] = b
  BY <1>3
<1>6. \A i \in 1..Len(more) : IsBlock(more[i])
  <2>1. \A i \in 1..Len(stack) : IsBlock(stack[i])
    BY DEF Blocks
  <2>2. \A i \in 1..Len(more) : i \in 1..Len(stack) \/ i = Len(stack) + 1
    BY <1>3
  <2> QED
    BY <1>3, <2>1, <2>2
<1> QED
  BY <1>1, <1>2, <1>3, <1>4, <1>5, <1>6 DEF Blocks

(* A block is popped.                                                      *)
LEMMA BlocksPop ==
  ASSUME NEW stack, NEW open \in Int, NEW waiting \in BOOLEAN, Blocks(stack, open, waiting), stack # << >>
  PROVE  /\ Len(stack) \in Nat \ {0}
         /\ Blocks(Front(stack), IF waiting THEN open ELSE open - 1, FALSE)
<1>1. /\ IsSeq(stack) /\ \A i \in 1..(Len(stack) - 1) : stack[i].seen_open_brace
      /\ Len(stack) = IF waiting THEN open + 1 ELSE open
  BY DEF Blocks
<1>2. PICK less : less = Front(stack)
  OBVIOUS
<1>3. /\ IsSeq(less) /\ Len(stack) \in Nat \ {0} /\ Len(less) = Len(stack) - 1
      /\ \A i \in 1..(Len(stack) - 1) : less[i] = stack[i]
  BY ONLY <1>1, <1>2, stack # << >>, Popped
<1>4. \A i \in 1..Len(less) : less[i].seen_open_brace
  BY <1>1, <1>3
<1>5. \A i \in 1..(Len(less) - 1) : i \in 1..Len(less)
  BY <1>3
<1>6. less = << >> \/ less[Len(less)].seen_open_brace
  <2>1. CASE Len(less) = 0
    <3>1. less = << >>
      BY <1>3, <2>1 DEF IsSeq
    <3> QED
      BY <3>1
  <2>2. CASE Len(less) # 0
    <3>1. Len(less) \in 1..Len(less)
      BY <1>3, <2>2
    <3> QED
      BY <1>4, <3>1
  <2> QED
    BY <2>1, <2>2
<1>7. \A i \in 1..Len(less) : IsBlock(less[i])
  <2>1. \A i \in 1..Len(stack) : IsBlock(stack[i])
    BY DEF Blocks
  <2>2. \A i \in 1..Len(less) : i \in 1..Len(stack) /\ less[i] = stack[i]
    BY <1>3
  <2> QED
    BY <2>1, <2>2
<1> QED
  BY <1>1, <1>2, <1>3, <1>4, <1>5, <1>6, <1>7 DEF Blocks

(* The innermost block is changed: it stays as it was, or its brace is     *)
(* seen.                                                                   *)
LEMMA BlocksSetTop ==
  ASSUME NEW stack, NEW open \in Int, NEW waiting \in BOOLEAN, Blocks(stack, open, waiting), stack # << >>, NEW b, IsBlock(b)
  PROVE  LET changed == [stack EXCEPT ![Len(stack)] = b]
         IN  /\ (b.seen_open_brace <=> stack[Len(stack)].seen_open_brace) => Blocks(changed, open, waiting)
             /\ waiting /\ b.seen_open_brace => Blocks(changed, open + 1, FALSE)
<1> DEFINE changed == [stack EXCEPT ![Len(stack)] = b]
<1>1. /\ \A i \in 1..(Len(stack) - 1) : stack[i].seen_open_brace
      /\ waiting => ~stack[Len(stack)].seen_open_brace /\ Len(stack) = open + 1
      /\ ~waiting => stack[Len(stack)].seen_open_brace /\ Len(stack) = open
  BY DEF Blocks
<1>2. PICK S : stack \in Seq(S)
  BY DEF Blocks, IsSeq
<1>3. Len(stack) \in Nat /\ Len(stack) >= 1
  BY <1>2
<1>4. /\ changed \in Seq(S \cup {b}) /\ Len(changed) = Len(stack)
      /\ changed[Len(stack)] = b
      /\ \A i \in 1..(Len(stack) - 1) : changed[i] = stack[i]
  BY <1>2, <1>3
<1> HIDE DEF changed
<1>5. IsSeq(changed) /\ changed # << >>
  BY <1>3, <1>4 DEF IsSeq
<1>6. \A i \in 1..(Len(changed) - 1) : changed[i].seen_open_brace
  BY <1>1, <1>4
<1>7. \A i \in 1..Len(changed) : IsBlock(changed[i])
  <2>1. \A i \in 1..Len(stack) : IsBlock(stack[i])
    BY DEF Blocks
  <2>2. \A i \in 1..Len(changed) : i \in 1..Len(stack) /\ (i \in 1..(Len(stack) - 1) \/ i = Len(stack))
    BY <1>3, <1>4
  <2> QED
    BY <1>4, <2>1, <2>2
<1>8. (b.seen_open_brace <=> stack[Len(stack)].seen_open_brace) => Blocks(changed, open, waiting)
  BY <1>1, <1>4, <1>5, <1>6, <1>7 DEF Blocks
<1>9. waiting /\ b.seen_open_brace => Blocks(changed, open + 1, FALSE)
  BY <1>1, <1>4, <1>5, <1>6, <1>7 DEF Blocks
<1> QED
  BY <1>8, <1>9 DEF changed

(* The places of the first n lines and of the first i tokens of the next.  *)
Done(file, n, i) == Places(file, n) \cup {<<n + 1, j>> : j \in 1..i}

(* A head has been read, and nothing since that completes or ends it.      *)
Waits(file, done) ==
  \E p \in done : IsHead(file, p) /\ \A r \in done : Before(p, r) => ~EndsHead(file, r)

(* One token more.                                                         *)
LEMMA DoneMore ==
  ASSUME NEW file, NEW n \in Nat, NEW i \in Nat
  PROVE  /\ Done(file, n, 0) = Places(file, n)
         /\ Done(file, n, i + 1) = Done(file, n, i) \cup {<<n + 1, i + 1>>}
         /\ <<n + 1, i + 1>> \notin Done(file, n, i)
         /\ \A p \in Done(file, n, i) : Before(p, <<n + 1, i + 1>>) /\ ~Before(<<n + 1, i + 1>>, p)
<1>1. \A p : p \in Places(file, n) <=> \E k \in 1..n : \E j \in 1..Len(file[k].tokens) : p = <<k, j>>
  BY DEF Places
<1>3. Done(file, n, 0) = Places(file, n)
  <2>1. 1..0 = {}
    OBVIOUS
  <2> QED
    BY <2>1 DEF Done
<1>4. \A j : j \in 1..(i + 1) <=> j \in 1..i \/ j = i + 1
  OBVIOUS
<1>5. Done(file, n, i + 1) = Done(file, n, i) \cup {<<n + 1, i + 1>>}
  BY <1>4 DEF Done
<1>6. ASSUME NEW p \in Done(file, n, i)
      PROVE  Before(p, <<n + 1, i + 1>>) /\ ~Before(<<n + 1, i + 1>>, p) /\ p # <<n + 1, i + 1>>
  <2>1. CASE p \in Places(file, n)
    <3>1. PICK k \in 1..n : \E j \in 1..Len(file[k].tokens) : p = <<k, j>>
      BY <1>1, <2>1
    <3>2. PICK j \in 1..Len(file[k].tokens) : p = <<k, j>>
      BY <3>1
    <3>3. p[1] = k /\ k \in Nat /\ k < n + 1 /\ k # n + 1
      BY <3>2
    <3> QED
      BY <3>2, <3>3 DEF Before
  <2>2. CASE p \notin Places(file, n)
    <3>1. PICK j \in 1..i : p = <<n + 1, j>>
      BY <2>2 DEF Done
    <3> QED
      BY <3>1 DEF Before
  <2> QED
    BY <2>1, <2>2
<1> QED
  BY <1>3, <1>5, <1>6

(* A line's last token.                                                    *)
LEMMA DoneLine ==
  ASSUME NEW file, NEW n \in Nat, NEW i \in Nat, i = Len(file[n + 1].tokens)
  PROVE  Done(file, n, i) = Places(file, n + 1)
<1>1. \A p : p \in Places(file, n) <=> \E k \in 1..n : \E j \in 1..Len(file[k].tokens) : p = <<k, j>>
  BY DEF Places
<1>2. \A p : p \in Places(file, n + 1) <=>
               \E k \in 1..(n + 1) : \E j \in 1..Len(file[k].tokens) : p = <<k, j>>
  BY DEF Places
<1>3. \A k : k \in 1..(n + 1) <=> k \in 1..n \/ k = n + 1
  OBVIOUS
<1>4. \A p : p \in Places(file, n + 1) <=>
               p \in Places(file, n) \/ \E j \in 1..Len(file[n + 1].tokens) : p = <<n + 1, j>>
  BY <1>1, <1>2, <1>3
<1>5. \A p : p \in Done(file, n, i) <=> p \in Places(file, n) \/ \E j \in 1..i : p = <<n + 1, j>>
  BY DEF Done
<1> QED
  BY <1>4, <1>5

(* A set with one element more, or none.                                   *)
LEMMA OneMore ==
  ASSUME NEW S, IsFiniteSet(S), NEW q, q \notin S
  PROVE  /\ Cardinality(S) \in Nat /\ IsFiniteSet(S \cup {q})
         /\ Cardinality(S \cup {q}) = Cardinality(S) + 1
BY FS_AddElement, FS_CardinalityType

(* The braces that are open then.                                          *)
LEMMA NetMore ==
  ASSUME NEW file, NEW done, IsFiniteSet(done), NEW q, q \notin done
  PROVE  /\ IsFiniteSet(done \cup {q}) /\ Net(file, done) \in Int
         /\ Opens(file, q) /\ ~Closes(file, q) => Net(file, done \cup {q}) = Net(file, done) + 1
         /\ ~Opens(file, q) /\ Closes(file, q) => Net(file, done \cup {q}) = Net(file, done) - 1
         /\ ~Opens(file, q) /\ ~Closes(file, q) => Net(file, done \cup {q}) = Net(file, done)
<1> DEFINE more == done \cup {q}
           opening(x) == {p \in x : Opens(file, p)}
           closing(x) == {p \in x : Closes(file, p)}
<1>1. Net(file, done) = Cardinality(opening(done)) - Cardinality(closing(done))
  BY DEF Net
<1>2. Net(file, more) = Cardinality(opening(more)) - Cardinality(closing(more))
  BY DEF Net
<1>3. /\ opening(more) = IF Opens(file, q) THEN opening(done) \cup {q} ELSE opening(done)
      /\ closing(more) = IF Closes(file, q) THEN closing(done) \cup {q} ELSE closing(done)
  OBVIOUS
<1>4. opening(done) \subseteq done /\ closing(done) \subseteq done
  OBVIOUS
<1>5. IsFiniteSet(opening(done)) /\ IsFiniteSet(closing(done))
  BY <1>4, FS_Subset
<1>6. q \notin opening(done) /\ q \notin closing(done)
  OBVIOUS
<1>7. IsFiniteSet(more)
  BY OneMore
<1> HIDE DEF more, opening, closing
<1>8. /\ Cardinality(opening(done)) \in Nat
      /\ Cardinality(opening(done) \cup {q}) = Cardinality(opening(done)) + 1
  BY <1>5, <1>6, OneMore
<1>9. /\ Cardinality(closing(done)) \in Nat
      /\ Cardinality(closing(done) \cup {q}) = Cardinality(closing(done)) + 1
  BY <1>5, <1>6, OneMore
<1> QED
  BY <1>1, <1>2, <1>3, <1>7, <1>8, <1>9 DEF more

(* What a token does to a head that waits.                                 *)
LEMMA WaitsMore ==
  ASSUME NEW file, NEW done, NEW q, \A p \in done : ~Before(q, p), ~Before(q, q)
  PROVE  /\ Waits(file, done) /\ ~EndsHead(file, q) => Waits(file, done \cup {q})
         /\ IsHead(file, q) => Waits(file, done \cup {q})
BY DEF Waits

(* No token of a place is before itself.                                   *)
LEMMA NotBeforeItself ==
  ASSUME NEW k \in Nat, NEW i \in Nat
  PROVE  ~Before(<<k, i>>, <<k, i>>)
BY DEF Before

(* In a well-formed file no brace too many is closed at any token, and     *)
(* neither another head nor a "}" finds a head that waits.                 *)
LEMMA WellFormedSays ==
  ASSUME NEW file, NEW n \in Nat, WellFormed(file, n + 1), NEW i \in Nat,
         Len(file[n + 1].tokens) \in Nat, i + 1 <= Len(file[n + 1].tokens)
  PROVE  /\ Net(file, Done(file, n, i + 1)) >= 0
         /\ Waits(file, Done(file, n, i)) => ~IsHead(file, <<n + 1, i + 1>>) /\ ~Closes(file, <<n + 1, i + 1>>)
<1> DEFINE all == Places(file, n + 1)
           L == Len(file[n + 1].tokens)
           q == <<n + 1, i + 1>>
           rest == {<<n + 1, j>> : j \in (i + 2)..L}
<1>1. all = Done(file, n, i + 1) \cup rest
  <2>1. all = Done(file, n, L)
    <3>1. PICK m : m = L
      OBVIOUS
    <3>2. m \in Nat /\ m = Len(file[n + 1].tokens)
      BY <3>1
    <3>3. Done(file, n, m) = Places(file, n + 1)
      BY ONLY <3>2, n \in Nat, DoneLine
    <3> QED
      BY <3>1, <3>3
  <2>2. \A j : j \in 1..L <=> j \in 1..(i + 1) \/ j \in (i + 2)..L
    OBVIOUS
  <2> QED
    BY <2>1, <2>2 DEF Done
<1>2. Done(file, n, i + 1) = Done(file, n, i) \cup {q}
  BY DoneMore
<1>3. \A p \in Done(file, n, i) : Before(p, q) /\ ~Before(q, p)
  BY DoneMore
<1>4. ~Before(q, q)
  BY NotBeforeItself
<1>5. \A p \in rest : Before(q, p) /\ ~Before(p, q)
  BY DEF Before
<1>6. q \in all
  BY <1>1, <1>2
<1> HIDE DEF all, q, rest
<1>7. {p \in all : ~Before(q, p)} = Done(file, n, i + 1)
  BY <1>1, <1>2, <1>3, <1>4, <1>5
<1>8. /\ \A x \in all : Net(file, {p \in all : ~Before(x, p)}) >= 0
      /\ \A x, y \in all :
           IsHead(file, x) /\ (IsHead(file, y) \/ Closes(file, y)) /\ Before(x, y) =>
             \E r \in all : Before(x, r) /\ Before(r, y) /\ EndsHead(file, r)
  BY Zenon DEF WellFormed, all
<1>9. Net(file, Done(file, n, i + 1)) >= 0
  BY <1>6, <1>7, <1>8
<1>10. ASSUME Waits(file, Done(file, n, i)), IsHead(file, q) \/ Closes(file, q) PROVE FALSE
  <2>1. PICK p \in Done(file, n, i) :
          IsHead(file, p) /\ \A r \in Done(file, n, i) : Before(p, r) => ~EndsHead(file, r)
    BY <1>10 DEF Waits
  <2>2. p \in all /\ Before(p, q)
    BY <1>1, <1>2, <1>3
  <2>3. PICK r \in all : Before(p, r) /\ Before(r, q) /\ EndsHead(file, r)
    BY <1>6, <1>8, <1>10, <2>1, <2>2
  <2>4. r \in Done(file, n, i)
    BY <1>1, <1>2, <1>4, <1>5, <2>3
  <2> QED
    BY <2>1, <2>3, <2>4
<1> QED
  BY <1>9, <1>10 DEF q

(* What is well-formed with a line is well-formed before it.               *)
LEMMA WellFormedBefore ==
  ASSUME NEW file, NEW n \in Nat, WellFormed(file, n + 1)
  PROVE  WellFormed(file, n) /\ file[n + 1].directive = "none"
<1> DEFINE all == Places(file, n + 1)
           some == Places(file, n)
<1>1. \A p : p \in some <=> \E k \in 1..n : \E j \in 1..Len(file[k].tokens) : p = <<k, j>>
  BY DEF Places
<1>2. \A p : p \in all <=> \E k \in 1..(n + 1) : \E j \in 1..Len(file[k].tokens) : p = <<k, j>>
  BY DEF Places
<1>3. \A k : k \in 1..(n + 1) <=> k \in 1..n \/ k = n + 1
  OBVIOUS
<1>4. some \subseteq all
  BY <1>1, <1>2, <1>3
<1>5. ASSUME NEW p \in all, NEW q \in some, ~Before(q, p) PROVE p \in some
  <2>1. PICK k \in 1..(n + 1) : \E j \in 1..Len(file[k].tokens) : p = <<k, j>>
    BY <1>2
  <2>2. PICK j \in 1..Len(file[k].tokens) : p = <<k, j>>
    BY <2>1
  <2>3. PICK l \in 1..n : \E m \in 1..Len(file[l].tokens) : q = <<l, m>>
    BY <1>1
  <2>4. k \in 1..n
    BY <1>5, <2>2, <2>3 DEF Before
  <2> QED
    BY <1>1, <2>2, <2>4
<1>6. ASSUME NEW p \in all, NEW q \in some, Before(p, q) PROVE ~Before(q, p)
  <2>1. PICK k \in 1..(n + 1) : \E j \in 1..Len(file[k].tokens) : p = <<k, j>>
    BY <1>2
  <2>2. PICK j \in 1..Len(file[k].tokens) : p = <<k, j>>
    BY <2>1
  <2>3. PICK l \in 1..n : \E m \in 1..Len(file[l].tokens) : q = <<l, m>>
    BY <1>1
  <2>4. PICK m \in 1..Len(file[l].tokens) : q = <<l, m>>
    BY <2>3
  <2> QED
    BY <1>6, <2>2, <2>4 DEF Before
<1> HIDE DEF all, some
<1>7. /\ \A k \in 1..(n + 1) : file[k].directive = "none"
      /\ \A q \in all : Net(file, {p \in all : ~Before(q, p)}) >= 0
      /\ \A p, q \in all :
           IsHead(file, p) /\ (IsHead(file, q) \/ Closes(file, q)) /\ Before(p, q) =>
             \E r \in all : Before(p, r) /\ Before(r, q) /\ EndsHead(file, r)
      /\ \A k \in 1..(n + 1) : \A h, c, b \in 1..Len(file[k].tokens) :
           h < c /\ c < b /\ Token(file, <<k, h>>) = "namespace"
             /\ Closes(file, <<k, c>>) /\ Opens(file, <<k, b>>) => \E o \in h..c : Opens(file, <<k, o>>)
  BY Zenon DEF WellFormed, all
<1>8. \A k \in 1..n : file[k].directive = "none"
  BY <1>3, <1>7
<1>9. \A q \in some : Net(file, {p \in some : ~Before(q, p)}) >= 0
  <2> TAKE q \in some
  <2>1. {p \in some : ~Before(q, p)} = {p \in all : ~Before(q, p)}
    BY <1>4, <1>5
  <2> QED
    BY <1>4, <1>7, <2>1
<1>10. \A p, q \in some :
         IsHead(file, p) /\ (IsHead(file, q) \/ Closes(file, q)) /\ Before(p, q) =>
           \E r \in some : Before(p, r) /\ Before(r, q) /\ EndsHead(file, r)
  BY <1>4, <1>5, <1>6, <1>7
<1>11. \A k \in 1..n : \A h, c, b \in 1..Len(file[k].tokens) :
         h < c /\ c < b /\ Token(file, <<k, h>>) = "namespace"
           /\ Closes(file, <<k, c>>) /\ Opens(file, <<k, b>>) => \E o \in h..c : Opens(file, <<k, o>>)
  BY <1>3, <1>7
<1>12. WellFormed(file, n)
  BY <1>8, <1>9, <1>10, <1>11, Zenon DEF WellFormed, some
<1> QED
  BY <1>3, <1>7, <1>12

(* The tokens up to one and the state they leave: the blocks match the     *)
(* braces, and a block that waits has a head that waits.                   *)
Matched(s, file, done) ==
  /\ IsNest(s) /\ IsFiniteSet(done)
  /\ \E waiting \in BOOLEAN :
       Blocks(s.stack, Net(file, done), waiting) /\ (waiting => Waits(file, done))

(* A well-formed file to its line n + 1.                                   *)
Readable(file, n) ==
  n \in Nat /\ WellFormed(file, n + 1) /\ file[n + 1].tokens \in Seq(Words)

(* What the words are.                                                     *)
LEMMA WordKinds ==
  ASSUME NEW file, NEW p
  PROVE  /\ Opens(file, p) => EndsHead(file, p) /\ ~Closes(file, p)
         /\ EndsHead(file, p) => ~Closes(file, p)
         /\ IsHead(file, p) => ~EndsHead(file, p) /\ ~Opens(file, p) /\ ~Closes(file, p)
         /\ Token(file, p) \in Delimiters <=> EndsHead(file, p) \/ Closes(file, p)
<1>1. Opens(file, p) => EndsHead(file, p) /\ ~Closes(file, p)
  BY Zenon DEF Opens, Closes, EndsHead
<1>2. EndsHead(file, p) => ~Closes(file, p)
  BY Zenon DEF Closes, EndsHead
<1>3. IsHead(file, p) => ~EndsHead(file, p) /\ ~Opens(file, p) /\ ~Closes(file, p)
  BY Zenon DEF IsHead, EndsHead, Opens, Closes
<1>4. Token(file, p) \in Delimiters <=> EndsHead(file, p) \/ Closes(file, p)
  BY Zenon DEF Delimiters, Closes, EndsHead
<1> QED
  BY <1>1, <1>2, <1>3, <1>4

Pushes(s, t) == \E b : IsBlock(b) /\ b.seen_open_brace /\ t = Push(s, b)
Pops(s, t) == \E e : t = [Pop(s) EXCEPT !.found = @ \cup e]

(* The brace of a head that waits is seen.                                 *)
LEMMA BraceOfHead ==
  ASSUME NEW file, NEW p, Opens(file, p), NEW s, ~SeenOpenBrace(s), NEW n, NEW line, NEW start
  PROVE  ConsumeToken(n, line, s, Token(file, p), start) = SetTop(s, [Top(s) EXCEPT !.seen_open_brace = TRUE])
BY Zenon DEF Opens, ConsumeToken

(* Another brace opens a block of its own.                                 *)
LEMMA BraceOfBlock ==
  ASSUME NEW file, NEW p, Opens(file, p), NEW s, SeenOpenBrace(s), NEW n, NEW line, NEW start
  PROVE  Pushes(s, ConsumeToken(n, line, s, Token(file, p), start))
<1> DEFINE t == ConsumeToken(n, line, s, Token(file, p), start)
           extern == start = << "extern" >> /\ line.indent = 0 /\ line.tokens[1] = "extern"
           asm == [Block("block", n, TRUE) EXCEPT !.inline_asm = IF start = << "asm" >> THEN "BLOCK" ELSE "NO"]
<1>1. t = IF extern THEN Push(s, Block("extern", n, TRUE)) ELSE Push(s, asm)
  BY Zenon DEF Opens, ConsumeToken
<1>2. IsBlock(Block("extern", n, TRUE)) /\ Block("extern", n, TRUE).seen_open_brace
  BY DEF IsBlock, Block
<1>3. IsBlock(asm) /\ asm.seen_open_brace
  BY DEF IsBlock, Block
<1> HIDE DEF extern, asm
<1> QED
  BY <1>1, <1>2, <1>3, Zenon DEF Pushes

(* A head that waits ends without a brace: its block is dropped.           *)
LEMMA EndOfHead ==
  ASSUME NEW file, NEW p, EndsHead(file, p), ~Opens(file, p), NEW s, NEW n, NEW line, NEW start
  PROVE  /\ SeenOpenBrace(s) => ConsumeToken(n, line, s, Token(file, p), start) = s
         /\ ~SeenOpenBrace(s) => ConsumeToken(n, line, s, Token(file, p), start) = Pop(s)
BY Zenon DEF EndsHead, Opens, ConsumeToken

(* A closing brace ends the innermost block, whatever is reported of it.   *)
LEMMA BraceOfEnd ==
  ASSUME NEW file, NEW p, Closes(file, p), NEW s, s.stack # << >>, NEW n, NEW line, NEW start
  PROVE  Pops(s, ConsumeToken(n, line, s, Token(file, p), start))
BY Zenon DEF Closes, ConsumeToken, Pops

(* The innermost block of a nest.                                          *)
LEMMA TopIsBlock ==
  ASSUME NEW s, NEW open, NEW waiting, Blocks(s.stack, open, waiting), s.stack # << >>
  PROVE  IsBlock(Top(s)) /\ Top(s) = s.stack[Len(s.stack)]
<1>1. Top(s) = s.stack[Len(s.stack)]
  BY BlocksWait
<1>2. IsSeq(s.stack)
  BY DEF Blocks
<1>3. Len(s.stack) \in 1..Len(s.stack)
  <2>1. Len(s.stack) \in Nat \ {0}
    BY <1>2, Popped
  <2> QED
    BY <2>1
<1> QED
  BY <1>1, <1>3 DEF Blocks

(* An opening brace.                                                       *)
LEMMA OpenBrace ==
  ASSUME NEW file, NEW p, Opens(file, p), NEW s, IsNest(s), NEW open \in Int, NEW waiting \in BOOLEAN,
         Blocks(s.stack, open, waiting), NEW n, NEW line, NEW start
  PROVE  LET t == ConsumeToken(n, line, s, Token(file, p), start)
         IN  IsNest(t) /\ Blocks(t.stack, open + 1, FALSE)
<1> DEFINE t == ConsumeToken(n, line, s, Token(file, p), start)
<1>1. SeenOpenBrace(s) <=> ~waiting
  BY BlocksWait
<1>2. CASE waiting
  <2>1. PICK b : b = [Top(s) EXCEPT !.seen_open_brace = TRUE]
    OBVIOUS
  <2>2. t = SetTop(s, b)
    BY <1>1, <1>2, <2>1, BraceOfHead, Zenon
  <2> HIDE DEF t
  <2>3. s.stack # << >>
    BY <1>2 DEF Blocks
  <2>4. IsBlock(Top(s))
    BY <2>3, TopIsBlock
  <2>5. IsBlock(b) /\ b.seen_open_brace
    BY <2>1, <2>4 DEF IsBlock
  <2>6. IsNest(t) /\ t.stack = [s.stack EXCEPT ![Len(s.stack)] = b]
    BY <2>2, ChangesOfNest
  <2>7. PICK stack : stack = s.stack
    OBVIOUS
  <2>8. Blocks(stack, open, waiting) /\ stack # << >>
    BY <2>3, <2>7
  <2>9. Blocks([stack EXCEPT ![Len(stack)] = b], open + 1, FALSE)
    BY ONLY <1>2, <2>5, <2>8, open \in Int, waiting \in BOOLEAN, BlocksSetTop
  <2> QED
    BY <2>6, <2>7, <2>9 DEF t
<1>3. CASE ~waiting
  <2>0. Pushes(s, t)
    BY <1>1, <1>3, BraceOfBlock, Zenon
  <2> HIDE DEF t
  <2>1. PICK b : IsBlock(b) /\ b.seen_open_brace /\ t = Push(s, b)
    BY <2>0 DEF Pushes
  <2>2. IsNest(t) /\ t.stack = Append(s.stack, b)
    <3>1. IsNest(Push(s, b)) /\ (Push(s, b)).stack = Append(s.stack, b)
      BY DEF IsNest, Push
    <3> QED
      BY <2>1, <3>1
  <2>3. PICK stack : stack = s.stack
    OBVIOUS
  <2>4. Blocks(stack, open, FALSE)
    BY <1>3, <2>3
  <2>5. Blocks(Append(stack, b), open + 1, FALSE)
    BY ONLY <2>1, <2>4, open \in Int, BlocksPush
  <2> QED
    BY <2>2, <2>3, <2>5 DEF t
<1> QED
  BY <1>2, <1>3

(* A semicolon or a closing parenthesis.                                   *)
LEMMA HeadEnds ==
  ASSUME NEW file, NEW p, EndsHead(file, p), ~Opens(file, p), NEW s, IsNest(s), NEW open \in Int,
         NEW waiting \in BOOLEAN, Blocks(s.stack, open, waiting), NEW n, NEW line, NEW start
  PROVE  LET t == ConsumeToken(n, line, s, Token(file, p), start)
         IN  IsNest(t) /\ Blocks(t.stack, open, FALSE)
<1> DEFINE t == ConsumeToken(n, line, s, Token(file, p), start)
<1>1. SeenOpenBrace(s) <=> ~waiting
  BY BlocksWait
<1>2. (SeenOpenBrace(s) => t = s) /\ (~SeenOpenBrace(s) => t = Pop(s))
  BY EndOfHead, Zenon
<1> HIDE DEF t
<1>3. CASE waiting
  <2>1. IsNest(t) /\ t.stack = Front(s.stack)
    BY <1>1, <1>2, <1>3, ChangesOfNest
  <2>2. PICK stack : stack = s.stack
    OBVIOUS
  <2>3. Blocks(stack, open, waiting) /\ stack # << >>
    BY <1>3, <2>2 DEF Blocks
  <2>4. Blocks(Front(stack), IF waiting THEN open ELSE open - 1, FALSE)
    BY ONLY <2>3, open \in Int, waiting \in BOOLEAN, BlocksPop
  <2> QED
    BY <1>3, <2>1, <2>2, <2>4 DEF t
<1>4. CASE ~waiting
  <2>1. t = s
    BY <1>1, <1>2, <1>4
  <2> QED
    BY <1>4, <2>1 DEF t
<1> QED
  BY <1>3, <1>4

(* A closing brace, when no head waits and a brace is open.                *)
LEMMA CloseBrace ==
  ASSUME NEW file, NEW p, Closes(file, p), NEW s, IsNest(s), NEW open \in Int, open >= 1,
         Blocks(s.stack, open, FALSE), NEW n, NEW line, NEW start
  PROVE  LET t == ConsumeToken(n, line, s, Token(file, p), start)
         IN  IsNest(t) /\ Blocks(t.stack, open - 1, FALSE)
<1> DEFINE t == ConsumeToken(n, line, s, Token(file, p), start)
<1>1. PICK stack : stack = s.stack
  OBVIOUS
<1>2. Blocks(stack, open, FALSE) /\ stack # << >>
  <2>1. Blocks(stack, open, FALSE)
    BY <1>1
  <2>2. stack # << >>
    BY <2>1 DEF Blocks
  <2> QED
    BY <2>1, <2>2
<1>3. Blocks(Front(stack), IF FALSE THEN open ELSE open - 1, FALSE)
  BY ONLY <1>2, open \in Int, BlocksPop
<1>4. Pops(s, t)
  BY <1>1, <1>2, BraceOfEnd, Zenon
<1> HIDE DEF t
<1>5. PICK found : t = [Pop(s) EXCEPT !.found = @ \cup found]
  BY <1>4 DEF Pops
<1>6. IsNest(Pop(s)) /\ (Pop(s)).stack = Front(stack)
  BY <1>1, ChangesOfNest
<1>7. IsNest(t) /\ t.stack = Front(stack)
  BY <1>5, <1>6 DEF IsNest
<1> QED
  BY <1>3, <1>7 DEF t

(* What a token adds to the tokens before.                                 *)
LEMMA TokenAdds ==
  ASSUME NEW file, NEW n \in Nat, NEW i \in Nat, IsFiniteSet(Done(file, n, i)), NEW q, q = <<n + 1, i + 1>>
  PROVE  /\ IsFiniteSet(Done(file, n, i + 1)) /\ Net(file, Done(file, n, i)) \in Int
         /\ Opens(file, q) => Net(file, Done(file, n, i + 1)) = Net(file, Done(file, n, i)) + 1
         /\ Closes(file, q) => Net(file, Done(file, n, i + 1)) = Net(file, Done(file, n, i)) - 1
         /\ ~Opens(file, q) /\ ~Closes(file, q) => Net(file, Done(file, n, i + 1)) = Net(file, Done(file, n, i))
         /\ Waits(file, Done(file, n, i)) /\ ~EndsHead(file, q) => Waits(file, Done(file, n, i + 1))
         /\ IsHead(file, q) => Waits(file, Done(file, n, i + 1))
<1> DEFINE done == Done(file, n, i)
           more == Done(file, n, i + 1)
<1>1. /\ more = done \cup {q} /\ q \notin done
      /\ \A p \in done : Before(p, q) /\ ~Before(q, p)
  BY DoneMore
<1>2. ~Before(q, q)
  <2>1. PICK k : k = n + 1
    OBVIOUS
  <2>2. PICK j : j = i + 1
    OBVIOUS
  <2>3. k \in Nat /\ j \in Nat
    BY <2>1, <2>2
  <2>4. ~Before(<<k, j>>, <<k, j>>)
    BY ONLY <2>3, NotBeforeItself
  <2> QED
    BY <2>1, <2>2, <2>4
<1>3. Opens(file, q) => ~Closes(file, q)
  BY WordKinds
<1>4. IsFiniteSet(done)
  OBVIOUS
<1> HIDE DEF done, more
<1>5. /\ IsFiniteSet(more) /\ Net(file, done) \in Int
      /\ Opens(file, q) => Net(file, more) = Net(file, done) + 1
      /\ Closes(file, q) => Net(file, more) = Net(file, done) - 1
      /\ ~Opens(file, q) /\ ~Closes(file, q) => Net(file, more) = Net(file, done)
  <2>1. q \notin done
    BY <1>1
  <2>2. /\ IsFiniteSet(done \cup {q}) /\ Net(file, done) \in Int
        /\ Opens(file, q) /\ ~Closes(file, q) => Net(file, done \cup {q}) = Net(file, done) + 1
        /\ ~Opens(file, q) /\ Closes(file, q) => Net(file, done \cup {q}) = Net(file, done) - 1
        /\ ~Opens(file, q) /\ ~Closes(file, q) => Net(file, done \cup {q}) = Net(file, done)
    BY ONLY <1>4, <2>1, NetMore
  <2> QED
    BY <1>1, <1>3, <2>2
<1>6. /\ Waits(file, done) /\ ~EndsHead(file, q) => Waits(file, more)
      /\ IsHead(file, q) => Waits(file, more)
  <2>1. \A p \in done : ~Before(q, p)
    BY <1>1
  <2>2. /\ Waits(file, done) /\ ~EndsHead(file, q) => Waits(file, done \cup {q})
        /\ IsHead(file, q) => Waits(file, done \cup {q})
    BY ONLY <1>2, <2>1, WaitsMore
  <2> QED
    BY <1>1, <2>2
<1> QED
  BY <1>5, <1>6 DEF done, more

(* One token of a well-formed line keeps the blocks and the braces matched. *)
LEMMA TokenKeeps ==
  ASSUME NEW file, NEW n, Readable(file, n), NEW i \in Nat, i + 1 <= Len(file[n + 1].tokens),
         NEW a, Matched(a.s, file, Done(file, n, i)), NEW m, NEW line, NEW q, q = <<n + 1, i + 1>>
  PROVE  Matched((ConsumeNext(m, line, a, Token(file, q))).s, file, Done(file, n, i + 1))
<1> DEFINE done == Done(file, n, i)
           more == Done(file, n, i + 1)
           token == Token(file, q)
           next == ConsumeNext(m, line, a, token)
<1>1. n \in Nat /\ WellFormed(file, n + 1) /\ Len(file[n + 1].tokens) \in Nat
  BY DEF Readable
<1>2. /\ Net(file, more) >= 0
      /\ Waits(file, done) => ~IsHead(file, q) /\ ~Closes(file, q)
  BY <1>1, WellFormedSays
<1>3. IsNest(a.s) /\ IsFiniteSet(done)
  BY DEF Matched
<1>4. PICK waiting \in BOOLEAN :
        Blocks(a.s.stack, Net(file, done), waiting) /\ (waiting => Waits(file, done))
  BY DEF Matched
<1>5. /\ IsFiniteSet(more) /\ Net(file, done) \in Int
      /\ Opens(file, q) => Net(file, more) = Net(file, done) + 1
      /\ Closes(file, q) => Net(file, more) = Net(file, done) - 1
      /\ ~Opens(file, q) /\ ~Closes(file, q) => Net(file, more) = Net(file, done)
      /\ Waits(file, done) /\ ~EndsHead(file, q) => Waits(file, more)
  BY <1>1, <1>3, TokenAdds
<1>6. /\ token \in Delimiters <=> EndsHead(file, q) \/ Closes(file, q)
      /\ Opens(file, q) => EndsHead(file, q) /\ ~Closes(file, q)
      /\ EndsHead(file, q) => ~Closes(file, q)
  BY WordKinds
<1>7. PICK open : open = Net(file, done)
  OBVIOUS
<1>8. PICK s : s = a.s
  OBVIOUS
<1>9. open \in Int /\ IsNest(s) /\ Blocks(s.stack, open, waiting)
  BY <1>3, <1>4, <1>5, <1>7, <1>8
<1>10. CASE token \notin Delimiters
  <2>1. next.s = s
    BY <1>8, <1>10 DEF ConsumeNext
  <2>2. Net(file, more) = open /\ (waiting => Waits(file, more))
    BY <1>4, <1>5, <1>6, <1>7, <1>10
  <2> HIDE DEF next, more, done
  <2>3. Matched(s, file, more)
    BY <1>5, <1>9, <2>2 DEF Matched
  <2> QED
    BY <2>1, <2>3 DEF next, more
<1>11. CASE token \in Delimiters
  <2>1. next.s = ConsumeToken(m, line, s, token, a.start)
    BY <1>8, <1>11 DEF ConsumeNext
  <2> DEFINE t == ConsumeToken(m, line, s, token, a.start)
  <2>2. IsNest(t) /\ Blocks(t.stack, Net(file, more), FALSE)
    <3>1. CASE Opens(file, q)
      <4>1. IsNest(t) /\ Blocks(t.stack, open + 1, FALSE)
        BY ONLY <1>9, <3>1, OpenBrace
      <4> QED
        BY <1>5, <1>7, <3>1, <4>1
    <3>2. CASE EndsHead(file, q) /\ ~Opens(file, q)
      <4>1. IsNest(t) /\ Blocks(t.stack, open, FALSE)
        BY ONLY <1>9, <3>2, HeadEnds
      <4> QED
        BY <1>5, <1>6, <1>7, <3>2, <4>1
    <3>3. CASE Closes(file, q)
      <4>1. Blocks(s.stack, open, FALSE)
        BY <1>2, <1>4, <1>9, <3>3
      <4>2. open >= 1
        BY <1>2, <1>5, <1>7, <1>9, <3>3
      <4>3. IsNest(t) /\ Blocks(t.stack, open - 1, FALSE)
        BY ONLY <1>9, <3>3, <4>1, <4>2, CloseBrace
      <4> QED
        BY <1>5, <1>7, <3>3, <4>3
    <3> QED
      BY <1>6, <1>11, <3>1, <3>2, <3>3
  <2> HIDE DEF next, more, done, t
  <2>3. Matched(t, file, more)
    BY <1>5, <2>2 DEF Matched
  <2> QED
    BY <2>1, <2>3 DEF next, more, t
<1> QED
  BY <1>10, <1>11

(* Tokens that are no braces.                                              *)
LEMMA NetAlong ==
  ASSUME NEW file, NEW n \in Nat, NEW i \in Nat, NEW m \in Nat, IsFiniteSet(Done(file, n, i)),
         \A k \in 1..m : ~Opens(file, <<n + 1, i + k>>) /\ ~Closes(file, <<n + 1, i + k>>)
  PROVE  IsFiniteSet(Done(file, n, i + m)) /\ Net(file, Done(file, n, i + m)) = Net(file, Done(file, n, i))
<1> DEFINE P == {k \in 0..m : /\ IsFiniteSet(Done(file, n, i + k))
                              /\ Net(file, Done(file, n, i + k)) = Net(file, Done(file, n, i))}
<1>1. 0 \in P
  OBVIOUS
<1>2. ASSUME NEW k \in 0..(m - 1), k \in P PROVE k + 1 \in P
  <2>1. k + 1 \in 1..m /\ k + 1 \in 0..m /\ i + k \in Nat
    OBVIOUS
  <2>2. PICK j : j = i + k
    OBVIOUS
  <2>3. j \in Nat /\ IsFiniteSet(Done(file, n, j))
    BY <1>2, <2>1, <2>2
  <2>4. j + 1 = i + (k + 1)
    BY <2>1, <2>2
  <2>5. PICK q : q = <<n + 1, j + 1>>
    OBVIOUS
  <2>6. ~Opens(file, q) /\ ~Closes(file, q)
    BY <2>1, <2>4, <2>5
  <2>7. /\ IsFiniteSet(Done(file, n, j + 1))
        /\ ~Opens(file, q) /\ ~Closes(file, q) => Net(file, Done(file, n, j + 1)) = Net(file, Done(file, n, j))
    BY ONLY <2>3, <2>5, n \in Nat, TokenAdds
  <2>8. Net(file, Done(file, n, j)) = Net(file, Done(file, n, i))
    BY <1>2, <2>2
  <2> QED
    BY <2>1, <2>4, <2>6, <2>7, <2>8
<1>3. P \in SUBSET (0..m)
  OBVIOUS
<1>4. m \in P
  <2> HIDE DEF P
  <2>1. \A k \in 0..m : k \in P
    BY <1>1, <1>2, <1>3, NaturalSteps
  <2>2. m \in 0..m
    OBVIOUS
  <2> QED
    BY <2>1, <2>2
<1> QED
  BY <1>4

(* A head is read: no other one waits, and its block does now.             *)
LEMMA HeadKeeps ==
  ASSUME NEW file, NEW n, Readable(file, n), NEW i \in Nat, i + 1 <= Len(file[n + 1].tokens),
         NEW s, Matched(s, file, Done(file, n, i)), NEW q, q = <<n + 1, i + 1>>, IsHead(file, q), NEW b, IsBlock(b)
  PROVE  /\ ~b.seen_open_brace => Matched(Push(s, b), file, Done(file, n, i + 1))
         /\ b.seen_open_brace => IsNest(Push(s, b)) /\ Blocks((Push(s, b)).stack, Net(file, Done(file, n, i + 1)) + 1, FALSE)
         /\ IsFiniteSet(Done(file, n, i + 1))
<1> DEFINE done == Done(file, n, i)
           more == Done(file, n, i + 1)
<1>1. n \in Nat /\ WellFormed(file, n + 1) /\ Len(file[n + 1].tokens) \in Nat
  BY DEF Readable
<1>2. ~Waits(file, done)
  BY <1>1, WellFormedSays
<1>3. IsNest(s) /\ IsFiniteSet(done)
  BY DEF Matched
<1>4. Blocks(s.stack, Net(file, done), FALSE)
  <2>1. PICK waiting \in BOOLEAN :
          Blocks(s.stack, Net(file, done), waiting) /\ (waiting => Waits(file, done))
    BY DEF Matched
  <2>2. waiting = FALSE
    BY <1>2, <2>1
  <2> QED
    BY <2>1, <2>2
<1>5. /\ IsFiniteSet(more) /\ Net(file, done) \in Int
      /\ ~Opens(file, q) /\ ~Closes(file, q) => Net(file, more) = Net(file, done)
      /\ IsHead(file, q) => Waits(file, more)
  BY <1>1, <1>3, TokenAdds
<1>6. ~Opens(file, q) /\ ~Closes(file, q)
  BY WordKinds
<1>7. Net(file, more) = Net(file, done) /\ Waits(file, more)
  BY <1>5, <1>6
<1>8. PICK stack, open : stack = s.stack /\ open = Net(file, done)
  OBVIOUS
<1>9. Blocks(stack, open, FALSE) /\ open \in Int
  BY <1>4, <1>5, <1>8
<1>10. /\ b.seen_open_brace => Blocks(Append(stack, b), open + 1, FALSE)
       /\ ~b.seen_open_brace => Blocks(Append(stack, b), open, TRUE)
  BY ONLY <1>9, IsBlock(b), BlocksPush
<1>11. IsNest(Push(s, b)) /\ (Push(s, b)).stack = Append(stack, b)
  BY <1>3, <1>8 DEF IsNest, Push
<1> HIDE DEF done, more
<1>12. ~b.seen_open_brace => Matched(Push(s, b), file, more)
  BY <1>5, <1>7, <1>8, <1>10, <1>11 DEF Matched
<1> QED
  BY <1>5, <1>7, <1>8, <1>10, <1>11, <1>12 DEF more

(* The open braces are a number.                                           *)
LEMMA NetIsInt ==
  ASSUME NEW file, NEW done, IsFiniteSet(done)
  PROVE  Net(file, done) \in Int
<1> DEFINE opening == {p \in done : Opens(file, p)}
           closing == {p \in done : Closes(file, p)}
<1>1. opening \subseteq done /\ closing \subseteq done
  OBVIOUS
<1>2. Net(file, done) = Cardinality(opening) - Cardinality(closing)
  BY DEF Net
<1> HIDE DEF opening, closing
<1>3. Cardinality(opening) \in Nat /\ Cardinality(closing) \in Nat
  BY <1>1, FS_Subset, FS_CardinalityType
<1> QED
  BY <1>2, <1>3

(* The innermost block changes, but not whether its brace was seen.        *)
LEMMA TopKeeps ==
  ASSUME NEW s, NEW file, NEW done, Matched(s, file, done), s.stack # << >>, NEW b, IsBlock(b),
         b.seen_open_brace = Top(s).seen_open_brace
  PROVE  Matched(SetTop(s, b), file, done)
<1>1. IsNest(s) /\ IsFiniteSet(done)
  BY DEF Matched
<1>2. PICK waiting \in BOOLEAN :
        Blocks(s.stack, Net(file, done), waiting) /\ (waiting => Waits(file, done))
  BY DEF Matched
<1>3. PICK stack, open : stack = s.stack /\ open = Net(file, done)
  OBVIOUS
<1>4. open \in Int
  BY <1>1, <1>3, NetIsInt
<1>5. Top(s) = stack[Len(stack)]
  BY <1>2, <1>3, TopIsBlock
<1>6. Blocks(stack, open, waiting) /\ stack # << >> /\ (b.seen_open_brace <=> stack[Len(stack)].seen_open_brace)
  BY <1>2, <1>3, <1>5
<1>7. Blocks([stack EXCEPT ![Len(stack)] = b], open, waiting)
  BY ONLY <1>4, <1>6, IsBlock(b), waiting \in BOOLEAN, BlocksSetTop
<1>8. IsNest(SetTop(s, b)) /\ (SetTop(s, b)).stack = [stack EXCEPT ![Len(stack)] = b]
  BY <1>1, <1>3 DEF IsNest, SetTop
<1> QED
  BY <1>1, <1>2, <1>3, <1>7, <1>8 DEF Matched

(* More is reported.                                                       *)
LEMMA ReportKeeps ==
  ASSUME NEW s, NEW file, NEW done, Matched(s, file, done), NEW e
  PROVE  Matched([s EXCEPT !.found = @ \cup e], file, done)
<1> DEFINE t == [s EXCEPT !.found = @ \cup e]
<1>1. IsNest(t) /\ t.stack = s.stack
  BY DEF Matched, IsNest
<1> HIDE DEF t
<1>2. Matched(t, file, done)
  BY <1>1 DEF Matched
<1> QED
  BY <1>2 DEF t

(* The parentheses of a line.                                              *)
LEMMA ParenthesesKeep ==
  ASSUME NEW s, NEW file, NEW done, Matched(s, file, done), NEW tokens
  PROVE  Matched(CountParentheses(s, tokens), file, done)
<1>1. CASE s.stack = << >>
  BY <1>1 DEF CountParentheses
<1>2. CASE s.stack # << >>
  <2>1. PICK change, asm :
          CountParentheses(s, tokens) =
            SetTop(s, [[Top(s) EXCEPT !.open_parentheses = @ + change] EXCEPT !.inline_asm = asm])
    BY <1>2, Zenon DEF CountParentheses
  <2>2. PICK b : b = [[Top(s) EXCEPT !.open_parentheses = @ + change] EXCEPT !.inline_asm = asm]
    OBVIOUS
  <2>3. IsBlock(Top(s))
    BY <1>2, TopIsBlock DEF Matched
  <2>4. IsBlock(b) /\ b.seen_open_brace = Top(s).seen_open_brace
    BY <2>2, <2>3 DEF IsBlock
  <2>5. Matched(SetTop(s, b), file, done)
    BY <1>2, <2>4, TopKeeps
  <2> QED
    BY <2>1, <2>2, <2>5
<1> QED
  BY <1>1, <1>2

(* r is what is left of a line after its first i tokens.                   *)
Reading(r, file, n, i) ==
  /\ r.rest \in Seq(Words) /\ Len(r.rest) = Len(file[n + 1].tokens) - i
  /\ \A k \in 1..Len(r.rest) : r.rest[k] = Token(file, <<n + 1, i + k>>)

Reached(r, file, n) ==
  /\ DOMAIN r = {"s", "rest"}
  /\ \E i \in Nat : Reading(r, file, n, i) /\ Matched(r.s, file, Done(file, n, i))

(* One token less of the line.                                             *)
LEMMA ReadOne ==
  ASSUME NEW r, NEW file, NEW n, NEW i \in Nat, Reading(r, file, n, i), Readable(file, n), r.rest # << >>, NEW t,
         t.rest = Tail(r.rest)
  PROVE  Reading(t, file, n, i + 1)
<1>1. PICK rest : rest = r.rest
  OBVIOUS
<1>2. PICK L : L = Len(file[n + 1].tokens)
  OBVIOUS
<1>3. L \in Nat
  BY <1>2 DEF Readable
<1>4. /\ rest \in Seq(Words) /\ rest # << >> /\ Len(rest) = L - i
      /\ \A k \in 1..Len(rest) : rest[k] = Token(file, <<n + 1, i + k>>)
  BY <1>1, <1>2 DEF Reading
<1>5. Len(rest) \in Nat /\ Len(rest) >= 1 /\ Head(rest) = rest[1]
  BY <1>4
<1>6. /\ Tail(rest) \in Seq(Words) /\ Len(Tail(rest)) = Len(rest) - 1
      /\ \A k \in 1..(Len(rest) - 1) : Tail(rest)[k] = rest[k + 1]
  BY <1>4
<1>7. ASSUME NEW k \in 1..(Len(rest) - 1) PROVE Tail(rest)[k] = Token(file, <<n + 1, (i + 1) + k>>)
  <2>1. k + 1 \in 1..Len(rest) /\ i + (k + 1) = (i + 1) + k
    BY <1>5
  <2>2. rest[k + 1] = Token(file, <<n + 1, i + (k + 1)>>)
    BY <1>4, <2>1
  <2> QED
    BY <1>6, <2>1, <2>2
<1>8. Reading(t, file, n, i + 1)
  <2>1. t.rest = Tail(rest) /\ Len(Tail(rest)) = L - (i + 1)
    BY <1>1, <1>3, <1>4, <1>6
  <2> QED
    BY <1>2, <1>4, <1>6, <1>7, <2>1 DEF Reading
<1> QED
  BY <1>8

(* It is the first one that is left.                                       *)
LEMMA ReadFirst ==
  ASSUME NEW r, NEW file, NEW n, NEW i \in Nat, Reading(r, file, n, i), Readable(file, n), r.rest # << >>
  PROVE  /\ i + 1 <= Len(file[n + 1].tokens)
         /\ Head(r.rest) = Token(file, <<n + 1, i + 1>>)
<1>1. PICK rest : rest = r.rest
  OBVIOUS
<1>2. PICK L : L = Len(file[n + 1].tokens)
  OBVIOUS
<1>3. L \in Nat
  BY <1>2 DEF Readable
<1>4. /\ rest \in Seq(Words) /\ rest # << >> /\ Len(rest) = L - i
      /\ \A k \in 1..Len(rest) : rest[k] = Token(file, <<n + 1, i + k>>)
  BY <1>1, <1>2 DEF Reading
<1>5. Len(rest) \in Nat /\ Len(rest) >= 1 /\ Head(rest) = rest[1]
  BY <1>4
<1>6. Head(rest) = Token(file, <<n + 1, i + 1>>)
  <2>1. 1 \in 1..Len(rest)
    BY <1>5
  <2> QED
    BY <1>4, <1>5, <2>1
<1> QED
  BY <1>1, <1>2, <1>3, <1>4, <1>5, <1>6

(* More of them less.                                                      *)
LEMMA ReadMore ==
  ASSUME NEW r, NEW file, NEW n, NEW i \in Nat, Reading(r, file, n, i), NEW first \in 1..Len(r.rest), NEW t,
         t.rest = SubSeq(r.rest, first + 1, Len(r.rest)), Readable(file, n)
  PROVE  Reading(t, file, n, i + first)
<1>1. PICK rest, m : rest = r.rest /\ m = Len(rest)
  OBVIOUS
<1>2. PICK L : L = Len(file[n + 1].tokens)
  OBVIOUS
<1>3. L \in Nat
  BY <1>2 DEF Readable
<1>4. /\ rest \in Seq(Words) /\ m = L - i /\ m \in Nat
      /\ \A k \in 1..m : rest[k] = Token(file, <<n + 1, i + k>>)
  BY <1>1, <1>2 DEF Reading
<1>5. first \in 1..m /\ first + 1 \in Int /\ \A k \in (first + 1)..m : rest[k] \in Words
  <2>1. first \in 1..m /\ Len(rest) = m
    BY <1>1
  <2>2. \A k \in 1..Len(rest) : rest[k] \in Words
    BY <1>4
  <2>3. \A k \in (first + 1)..m : k \in 1..m
    BY <1>4, <2>1
  <2> QED
    BY <2>1, <2>2, <2>3
<1>6. /\ SubSeq(rest, first + 1, m) \in Seq(Words)
      /\ Len(SubSeq(rest, first + 1, m)) = IF first + 1 <= m THEN m - (first + 1) + 1 ELSE 0
      /\ \A k \in 1..(m - (first + 1) + 1) : SubSeq(rest, first + 1, m)[k] = rest[(first + 1) + k - 1]
  BY <1>4, <1>5, SubSeqProperties
<1>7. PICK less : less = SubSeq(rest, first + 1, m)
  OBVIOUS
<1>8. less \in Seq(Words) /\ Len(less) = m - first
  BY <1>4, <1>5, <1>6, <1>7
<1>9. ASSUME NEW k \in 1..(m - first) PROVE less[k] = Token(file, <<n + 1, (i + first) + k>>)
  <2>1. /\ k \in 1..(m - (first + 1) + 1) /\ (first + 1) + k - 1 = first + k
        /\ first + k \in 1..m /\ i + (first + k) = (i + first) + k
    BY <1>4, <1>5
  <2> QED
    BY <1>4, <1>6, <1>7, <2>1
<1>10. t.rest = less /\ m - first = L - (i + first)
  BY <1>1, <1>3, <1>4, <1>5, <1>7
<1> QED
  BY <1>2, <1>8, <1>9, <1>10 DEF Reading

(* The braces of what follows a namespace.                                 *)
Braces(tokens) == {i \in 1..Len(tokens) : tokens[i] = "{"}

(* A namespace: it waits for its brace, or the first brace of the line is  *)
(* its own.                                                                *)
LEMMA NamespaceSays ==
  ASSUME NEW r, r.rest \in Seq(Words), NEW m, ConsumeNamespace(m, r) # r
  PROVE  LET tail == Tail(r.rest)
             next == ConsumeNamespace(m, r)
         IN  /\ r.rest # << >> /\ Head(r.rest) = "namespace" /\ tail \in Seq(Words) /\ Len(tail) \in Nat
             /\ Braces(tail) = {} => next = [s |-> Push(r.s, Block("namespace", m, FALSE)), rest |-> tail]
             /\ Braces(tail) # {} => \E first \in Braces(tail) :
                  /\ \A k \in Braces(tail) : first <= k
                  /\ next = [s |-> Push(r.s, Block("namespace", m, TRUE)),
                             rest |-> SubSeq(tail, first + 1, Len(tail))]
<1> DEFINE tail == Tail(r.rest)
           next == ConsumeNamespace(m, r)
           braces == Braces(tail)
           first == CHOOSE i \in braces : \A j \in braces : i <= j
<1>1. ~(r.rest = << >> \/ Head(r.rest) # "namespace")
  BY Zenon DEF ConsumeNamespace
<1>2. next = [s |-> Push(r.s, Block("namespace", m, braces # {})),
              rest |-> IF braces = {} THEN tail ELSE SubSeq(tail, first + 1, Len(tail))]
  BY <1>1, Zenon DEF ConsumeNamespace, Braces
<1>3. tail \in Seq(Words) /\ Len(tail) \in Nat
  BY <1>1
<1>4. braces \in SUBSET Nat
  <2> HIDE DEF tail
  <2>1. braces \subseteq 1..Len(tail)
    BY Zenon DEF Braces
  <2>2. 1..Len(tail) \subseteq Nat
    BY <1>3
  <2> HIDE DEF braces
  <2> QED
    BY <2>1, <2>2
<1> HIDE DEF next, braces, tail
<1>5. CASE braces = {}
  <2>1. next = [s |-> Push(r.s, Block("namespace", m, FALSE)), rest |-> tail]
    <3>1. (braces # {}) = FALSE
      BY <1>5
    <3>2. next = [s |-> Push(r.s, Block("namespace", m, FALSE)),
                  rest |-> IF braces = {} THEN tail ELSE SubSeq(tail, first + 1, Len(tail))]
      BY <1>2, <3>1, Zenon
    <3> QED
      BY <1>5, <3>2, Zenon
  <2> QED
    BY <1>1, <1>3, <1>5, <2>1, Zenon DEF next, braces, tail
<1>6. CASE braces # {}
  <2>1. first \in braces /\ \A k \in braces : first <= k
    BY <1>4, <1>6, LeastOne
  <2>2. next = [s |-> Push(r.s, Block("namespace", m, TRUE)), rest |-> SubSeq(tail, first + 1, Len(tail))]
    <3>1. (braces # {}) = TRUE
      BY <1>6
    <3>2. next = [s |-> Push(r.s, Block("namespace", m, TRUE)),
                  rest |-> IF braces = {} THEN tail ELSE SubSeq(tail, first + 1, Len(tail))]
      BY <1>2, <3>1, Zenon
    <3> QED
      BY <1>6, <3>2, Zenon
  <2> HIDE DEF first
  <2>3. \E f \in braces : /\ \A k \in braces : f <= k
                          /\ next = [s |-> Push(r.s, Block("namespace", m, TRUE)),
                                     rest |-> SubSeq(tail, f + 1, Len(tail))]
    BY <2>1, <2>2, Zenon
  <2> QED
    BY <1>1, <1>3, <1>6, <2>3, Zenon DEF next, braces, tail
<1> QED
  BY <1>5, <1>6

(* The braces of what is left, as places.                                  *)
LEMMA BracesAt ==
  ASSUME NEW t, NEW file, NEW n, NEW i, Reading(t, file, n, i), NEW x
  PROVE  x \in Braces(t.rest) <=> x \in 1..Len(t.rest) /\ Opens(file, <<n + 1, i + x>>)
<1>1. x \in Braces(t.rest) <=> x \in 1..Len(t.rest) /\ t.rest[x] = "{"
  BY Zenon DEF Braces
<1>2. x \in 1..Len(t.rest) => t.rest[x] = Token(file, <<n + 1, i + x>>)
  BY DEF Reading
<1> QED
  BY <1>1, <1>2, Zenon DEF Opens

(* On the line of a namespace nothing is closed before its first brace.    *)
LEMMA NothingClosed ==
  ASSUME NEW file, NEW n, Readable(file, n), NEW h \in Nat, NEW c \in Nat, NEW b \in Nat,
         1 <= h, h < c, c < b, b <= Len(file[n + 1].tokens),
         Token(file, <<n + 1, h>>) = "namespace", Opens(file, <<n + 1, b>>),
         \A o \in h..c : ~Opens(file, <<n + 1, o>>)
  PROVE  ~Closes(file, <<n + 1, c>>)
<1>1. WellFormed(file, n + 1) /\ n \in Nat /\ Len(file[n + 1].tokens) \in Nat
  BY DEF Readable
<1>2. PICK k, L : k = n + 1 /\ L = Len(file[k].tokens)
  OBVIOUS
<1>3. k \in 1..k /\ h \in 1..L /\ c \in 1..L /\ b \in 1..L
  BY <1>1, <1>2
<1>4. WellFormed(file, k)
  BY <1>1, <1>2
<1>5. \A hh, cc, bb \in 1..L :
        hh < cc /\ cc < bb /\ Token(file, <<k, hh>>) = "namespace"
          /\ Closes(file, <<k, cc>>) /\ Opens(file, <<k, bb>>) =>
            \E o \in hh..cc : Opens(file, <<k, o>>)
  BY <1>2, <1>3, <1>4, Zenon DEF WellFormed
<1> QED
  BY <1>2, <1>3, <1>5

(* The namespaces of a line.                                               *)
LEMMA NamespaceKeeps ==
  ASSUME NEW file, NEW n, Readable(file, n), NEW r, Reached(r, file, n), NEW m
  PROVE  Reached(ConsumeNamespace(m, r), file, n)
<1> DEFINE next == ConsumeNamespace(m, r)
           tail == Tail(r.rest)
<1>1. CASE next = r
  BY <1>1
<1>2. CASE next # r
  <2>1. PICK i \in Nat : Reading(r, file, n, i) /\ Matched(r.s, file, Done(file, n, i))
    BY DEF Reached
  <2>2. r.rest \in Seq(Words)
    BY <2>1 DEF Reading
  <2>3. /\ r.rest # << >> /\ Head(r.rest) = "namespace" /\ tail \in Seq(Words) /\ Len(tail) \in Nat
        /\ Braces(tail) = {} => next = [s |-> Push(r.s, Block("namespace", m, FALSE)), rest |-> tail]
        /\ Braces(tail) # {} => \E first \in Braces(tail) :
             /\ \A k \in Braces(tail) : first <= k
             /\ next = [s |-> Push(r.s, Block("namespace", m, TRUE)),
                        rest |-> SubSeq(tail, first + 1, Len(tail))]
    BY <1>2, <2>2, NamespaceSays
  <2>4. PICK t : t = [s |-> r.s, rest |-> tail]
    OBVIOUS
  <2>5. /\ Reading(t, file, n, i + 1) /\ i + 1 <= Len(file[n + 1].tokens)
        /\ Head(r.rest) = Token(file, <<n + 1, i + 1>>)
    <3>1. t.rest = Tail(r.rest) /\ r.rest # << >> /\ Reading(r, file, n, i)
      BY <2>1, <2>3, <2>4
    <3>2. QED
      <4>1. Reading(t, file, n, i + 1)
        BY ONLY <3>1, i \in Nat, Readable(file, n), ReadOne
      <4>2. i + 1 <= Len(file[n + 1].tokens) /\ Head(r.rest) = Token(file, <<n + 1, i + 1>>)
        BY ONLY <3>1, i \in Nat, Readable(file, n), ReadFirst
      <4> QED
        BY <4>1, <4>2
  <2>6. PICK q : q = <<n + 1, i + 1>>
    OBVIOUS
  <2>7. Token(file, q) = "namespace" /\ IsHead(file, q)
    BY <2>3, <2>5, <2>6 DEF IsHead
  <2>8. PICK waits, seen : waits = Block("namespace", m, FALSE) /\ seen = Block("namespace", m, TRUE)
    OBVIOUS
  <2>9. IsBlock(waits) /\ IsBlock(seen) /\ ~waits.seen_open_brace /\ seen.seen_open_brace
    BY <2>8 DEF IsBlock, Block
  <2>10. PICK s : s = r.s
    OBVIOUS
  <2>11. Matched(s, file, Done(file, n, i)) /\ i + 1 <= Len(file[n + 1].tokens)
    BY <2>1, <2>5, <2>10
  <2>12. Matched(Push(s, waits), file, Done(file, n, i + 1))
    BY ONLY <2>6, <2>7, <2>9, <2>11, i \in Nat, Readable(file, n), HeadKeeps
  <2>13. /\ IsNest(Push(s, seen)) /\ Blocks((Push(s, seen)).stack, Net(file, Done(file, n, i + 1)) + 1, FALSE)
         /\ IsFiniteSet(Done(file, n, i + 1))
    BY ONLY <2>6, <2>7, <2>9, <2>11, i \in Nat, Readable(file, n), HeadKeeps
  <2>14. CASE Braces(tail) = {}
    <3>1. next = [s |-> Push(s, waits), rest |-> tail]
      BY <2>3, <2>8, <2>10, <2>14
    <3>2. DOMAIN next = {"s", "rest"} /\ next.s = Push(s, waits) /\ next.rest = t.rest
      BY <2>4, <3>1
    <3>3. Reading(next, file, n, i + 1)
      BY <2>5, <3>2 DEF Reading
    <3>4. i + 1 \in Nat
      OBVIOUS
    <3> HIDE DEF next
    <3>5. Reached(next, file, n)
      BY <2>12, <3>2, <3>3, <3>4 DEF Reached
    <3> QED
      BY <3>5 DEF next
  <2>15. CASE Braces(tail) # {}
    <3>1. PICK first \in Braces(tail) :
            /\ \A k \in Braces(tail) : first <= k
            /\ next = [s |-> Push(s, seen), rest |-> SubSeq(tail, first + 1, Len(tail))]
      BY <2>3, <2>8, <2>10, <2>15
    <3> HIDE DEF next, tail
    <3>2. DOMAIN next = {"s", "rest"} /\ next.s = Push(s, seen)
          /\ next.rest = SubSeq(t.rest, first + 1, Len(t.rest)) /\ tail = t.rest
      <4>1. tail = t.rest
        BY <2>4
      <4>2. PICK left : left = SubSeq(tail, first + 1, Len(tail))
        OBVIOUS
      <4>3. next = [s |-> Push(s, seen), rest |-> left]
        BY <3>1, <4>2
      <4>4. DOMAIN next = {"s", "rest"} /\ next.s = Push(s, seen) /\ next.rest = left
        BY <4>3
      <4> QED
        BY <4>1, <4>2, <4>4
    <3>3. PICK a : a = i + 1
      OBVIOUS
    <3>4. a \in Nat /\ Reading(t, file, n, a)
      BY <2>5, <3>3
    <3>5. \A x : x \in Braces(t.rest) <=> x \in 1..Len(t.rest) /\ Opens(file, <<n + 1, a + x>>)
      BY <3>4, BracesAt
    <3>6. Len(t.rest) \in Nat /\ Len(t.rest) = Len(file[n + 1].tokens) - a
      BY <3>4 DEF Reading
    <3>7. /\ first \in 1..Len(t.rest) /\ Opens(file, <<n + 1, a + first>>)
          /\ \A x \in 1..(first - 1) : ~Opens(file, <<n + 1, a + x>>)
      <4>1. first \in 1..Len(t.rest) /\ Opens(file, <<n + 1, a + first>>)
        BY <3>2, <3>5
      <4>2. ASSUME NEW x \in 1..(first - 1), Opens(file, <<n + 1, a + x>>) PROVE FALSE
        <5>1. x \in 1..Len(t.rest) /\ x < first
          BY <3>6, <4>1
        <5>2. x \in Braces(tail)
          BY <3>2, <3>5, <4>2, <5>1
        <5> QED
          BY <3>1, <3>6, <4>1, <5>1, <5>2
      <4> QED
        BY <4>1, <4>2
    <3>8. first \in Nat \ {0} /\ Len(file[n + 1].tokens) \in Nat /\ a + first <= Len(file[n + 1].tokens)
      BY <3>4, <3>6, <3>7 DEF Readable
    <3>9. ASSUME NEW x \in 1..(first - 1) PROVE ~Closes(file, <<n + 1, a + x>>)
      <4>1. PICK c, b : c = a + x /\ b = a + first
        OBVIOUS
      <4>2. /\ a \in Nat /\ c \in Nat /\ b \in Nat /\ 1 <= a /\ a < c /\ c < b
            /\ b <= Len(file[n + 1].tokens) /\ Opens(file, <<n + 1, b>>)
        BY <3>3, <3>4, <3>7, <3>8, <4>1
      <4>3. \A o \in a..c : ~Opens(file, <<n + 1, o>>)
        <5> TAKE o \in a..c
        <5>1. CASE o = a
          BY <2>6, <2>7, <3>3, <5>1, WordKinds
        <5>2. CASE o # a
          <6>1. o - a \in 1..(first - 1) /\ a + (o - a) = o
            BY <3>4, <3>8, <4>1, <5>2
          <6>2. ~Opens(file, <<n + 1, a + (o - a)>>)
            BY <3>7, <6>1
          <6> QED
            BY <6>1, <6>2
        <5> QED
          BY <5>1, <5>2
      <4>4. Token(file, <<n + 1, a>>) = "namespace"
        BY <2>6, <2>7, <3>3
      <4>5. ~Closes(file, <<n + 1, c>>)
        BY ONLY <4>2, <4>3, <4>4, Readable(file, n), NothingClosed
      <4> QED
        BY <4>1, <4>5
    <3>10. PICK l : l = first - 1
      OBVIOUS
    <3>11. /\ l \in Nat /\ IsFiniteSet(Done(file, n, a)) /\ n \in Nat
           /\ \A k \in 1..l : ~Opens(file, <<n + 1, a + k>>) /\ ~Closes(file, <<n + 1, a + k>>)
      <4>1. l \in Nat /\ 1..l = 1..(first - 1)
        BY <3>8, <3>10
      <4>2. IsFiniteSet(Done(file, n, a))
        BY <2>13, <3>3
      <4>3. n \in Nat
        BY DEF Readable
      <4>4. \A k \in 1..(first - 1) : ~Opens(file, <<n + 1, a + k>>) /\ ~Closes(file, <<n + 1, a + k>>)
        BY <3>7, <3>9
      <4> QED
        BY <4>1, <4>2, <4>3, <4>4
    <3>12. IsFiniteSet(Done(file, n, a + l)) /\ Net(file, Done(file, n, a + l)) = Net(file, Done(file, n, a))
      BY ONLY <3>4, <3>11, NetAlong
    <3>13. PICK j, p : j = a + l /\ p = <<n + 1, j + 1>>
      OBVIOUS
    <3>14. j \in Nat /\ j + 1 = a + first /\ Opens(file, p) /\ IsFiniteSet(Done(file, n, j))
      BY <3>4, <3>7, <3>8, <3>10, <3>11, <3>12, <3>13
    <3>15. /\ IsFiniteSet(Done(file, n, j + 1))
           /\ Opens(file, p) => Net(file, Done(file, n, j + 1)) = Net(file, Done(file, n, j)) + 1
      BY ONLY <3>11, <3>13, <3>14, TokenAdds
    <3>16. Net(file, Done(file, n, j + 1)) = Net(file, Done(file, n, i + 1)) + 1
      BY <3>3, <3>12, <3>13, <3>14, <3>15
    <3>17. Matched(Push(s, seen), file, Done(file, n, j + 1))
      BY <2>13, <3>15, <3>16 DEF Matched
    <3>18. Reading(next, file, n, a + first)
      BY ONLY <3>2, <3>4, <3>7, Readable(file, n), ReadMore
    <3>19. j + 1 \in Nat
      BY <3>14
    <3>20. Reached(next, file, n)
      BY <3>2, <3>14, <3>17, <3>18, <3>19 DEF Reached
    <3> QED
      BY <3>20 DEF next
  <2> QED
    BY <2>14, <2>15
<1> QED
  BY <1>1, <1>2

(* All of them.                                                            *)
LEMMA NamespacesKeep ==
  ASSUME NEW file, NEW n, Readable(file, n), NEW line, line = file[n + 1], NEW s,
         Matched(s, file, Done(file, n, 0)), NEW m
  PROVE  Reached(ConsumeNamespaces(m, line, s), file, n)
<1> DEFINE N == Len(line.tokens)
<1>1. N \in Nat /\ line.tokens \in Seq(Words)
  BY DEF Readable
<1>2. PICK f : /\ f[0] = [s |-> s, rest |-> line.tokens]
               /\ \A i \in 1..N : f[i] = ConsumeNamespace(m, f[i - 1])
               /\ ConsumeNamespaces(m, line, s) = f[N]
  BY <1>1, NamespaceLoop
<1> DEFINE P == {k \in 0..N : Reached(f[k], file, n)}
<1>3. 0 \in P
  <2>1. PICK r : r = f[0]
    OBVIOUS
  <2>2. DOMAIN r = {"s", "rest"} /\ r.s = s /\ r.rest = line.tokens
    BY <1>2, <2>1
  <2>3. Reading(r, file, n, 0)
    <3>1. \A k \in 1..Len(r.rest) : r.rest[k] = Token(file, <<n + 1, 0 + k>>)
      <4> TAKE k \in 1..Len(r.rest)
      <4>1. 0 + k = k
        BY <1>1, <2>2
      <4> QED
        BY <2>2, <4>1 DEF Token
    <3>2. Len(r.rest) = Len(file[n + 1].tokens) - 0
      BY <1>1, <2>2
    <3> QED
      BY <1>1, <2>2, <3>1, <3>2 DEF Reading
  <2>4. Reached(r, file, n)
    BY <2>2, <2>3 DEF Reached
  <2> QED
    BY <1>1, <2>1, <2>4
<1> HIDE DEF N
<1>4. ASSUME NEW k \in 0..(N - 1), k \in P PROVE k + 1 \in P
  <2>1. k + 1 \in 1..N /\ k + 1 \in 0..N /\ k + 1 - 1 = k
    BY <1>1
  <2>2. f[k + 1] = ConsumeNamespace(m, f[k])
    BY <1>2, <2>1
  <2>3. Reached(f[k], file, n)
    BY <1>4
  <2>4. Reached(f[k + 1], file, n)
    BY <2>2, <2>3, NamespaceKeeps
  <2> QED
    BY <2>1, <2>4
<1>5. P \in SUBSET (0..N)
  OBVIOUS
<1>6. N \in P
  <2> HIDE DEF P
  <2>1. \A k \in 0..N : k \in P
    BY <1>1, <1>3, <1>4, <1>5, NaturalSteps
  <2> QED
    BY <1>1, <2>1
<1> QED
  BY <1>2, <1>6

(* The head of a class.                                                    *)
LEMMA ClassKeeps ==
  ASSUME NEW file, NEW n, Readable(file, n), NEW r, Reached(r, file, n), NEW m, NEW indent
  PROVE  Reached(ConsumeClass(m, indent, r), file, n)
<1> DEFINE next == ConsumeClass(m, indent, r)
           tail == Tail(r.rest)
<1>1. CASE next = r
  BY <1>1
<1>2. CASE next # r
  <2>1. PICK i \in Nat : Reading(r, file, n, i) /\ Matched(r.s, file, Done(file, n, i))
    BY DEF Reached
  <2>2. /\ r.rest # << >> /\ Head(r.rest) \in {"class", "struct"}
        /\ next = [s |-> Push(r.s, ClassInfo(Head(r.rest), m, indent)), rest |-> tail]
    BY <1>2 DEF ConsumeClass
  <2>3. PICK s, b : s = r.s /\ b = ClassInfo(Head(r.rest), m, indent)
    OBVIOUS
  <2>4. IsBlock(b) /\ ~b.seen_open_brace
    BY <2>3 DEF IsBlock, ClassInfo, Block
  <2>5. DOMAIN next = {"s", "rest"} /\ next.s = Push(s, b) /\ next.rest = Tail(r.rest)
    BY <2>2, <2>3
  <2> HIDE DEF next
  <2>6. Reading(next, file, n, i + 1)
    BY <2>1, <2>2, <2>5, ReadOne
  <2>7. i + 1 <= Len(file[n + 1].tokens) /\ Head(r.rest) = Token(file, <<n + 1, i + 1>>)
    BY <2>1, <2>2, ReadFirst
  <2>8. PICK q : q = <<n + 1, i + 1>>
    OBVIOUS
  <2>9. IsHead(file, q)
    BY <2>2, <2>7, <2>8 DEF IsHead
  <2>10. Matched(s, file, Done(file, n, i))
    BY <2>1, <2>3
  <2>11. Matched(Push(s, b), file, Done(file, n, i + 1))
    BY ONLY <2>4, <2>7, <2>8, <2>9, <2>10, i \in Nat, Readable(file, n), HeadKeeps
  <2>12. i + 1 \in Nat
    OBVIOUS
  <2>13. Reached(next, file, n)
    BY <2>5, <2>6, <2>11, <2>12 DEF Reached
  <2> QED
    BY <2>13 DEF next
<1> QED
  BY <1>1, <1>2

(* What a line says of the class it is in.                                 *)
LEMMA UpdateClassKeeps ==
  ASSUME NEW file, NEW n, NEW r, Reached(r, file, n), NEW m, NEW line
  PROVE  Reached(UpdateClass(m, line, r), file, n)
<1> DEFINE next == UpdateClass(m, line, r)
<1>1. CASE r.s.stack = << >> \/ Top(r.s).kind # "class"
  <2>1. next = r
    BY <1>1, Zenon DEF UpdateClass
  <2> QED
    BY <2>1
<1>2. CASE ~(r.s.stack = << >> \/ Top(r.s).kind # "class")
  <2>1. PICK derived, access, e :
          next = [r EXCEPT !.s = [SetTop(r.s, [Top(r.s) EXCEPT !.is_derived = derived, !.access = access])
                                    EXCEPT !.found = @ \cup e]]
    BY <1>2, Zenon DEF UpdateClass
  <2> HIDE DEF next
  <2>2. PICK i \in Nat : Reading(r, file, n, i) /\ Matched(r.s, file, Done(file, n, i))
    BY DEF Reached
  <2>3. PICK done : done = Done(file, n, i)
    OBVIOUS
  <2>4. PICK s, b : s = r.s /\ b = [Top(r.s) EXCEPT !.is_derived = derived, !.access = access]
    OBVIOUS
  <2>5. Matched(s, file, done) /\ s.stack # << >>
    BY <1>2, <2>2, <2>3, <2>4
  <2>6. IsBlock(Top(s))
    BY <2>5, TopIsBlock DEF Matched
  <2>7. IsBlock(b) /\ b.seen_open_brace = Top(s).seen_open_brace
    BY <2>4, <2>6 DEF IsBlock
  <2>8. Matched(SetTop(s, b), file, done)
    BY <2>5, <2>7, TopKeeps
  <2>9. PICK t : t = [SetTop(s, b) EXCEPT !.found = @ \cup e]
    OBVIOUS
  <2>10. Matched(t, file, done)
    BY <2>8, <2>9, ReportKeeps
  <2>11. next = [r EXCEPT !.s = t]
    BY <2>1, <2>4, <2>9
  <2>12. DOMAIN next = {"s", "rest"} /\ next.s = t /\ next.rest = r.rest
    BY <2>11 DEF Reached
  <2>13. Reading(next, file, n, i)
    BY <2>2, <2>12 DEF Reading
  <2>14. Reached(next, file, n)
    BY <2>3, <2>10, <2>12, <2>13 DEF Reached
  <2> QED
    BY <2>14 DEF next
<1> QED
  BY <1>1, <1>2

(* The rest of the line, token by token.                                   *)
LEMMA TokensKeep ==
  ASSUME NEW file, NEW n, Readable(file, n), NEW r, Reached(r, file, n), NEW m, NEW line
  PROVE  Matched(ConsumeTokens(m, line, r), file, Places(file, n + 1))
<1> DEFINE N == Len(r.rest)
<1>1. PICK i \in Nat : Reading(r, file, n, i) /\ Matched(r.s, file, Done(file, n, i))
  BY DEF Reached
<1>2. PICK L : L = Len(file[n + 1].tokens)
  OBVIOUS
<1>3. N \in Nat /\ L \in Nat /\ N = L - i /\ n \in Nat
  BY <1>1, <1>2 DEF Reading, Readable
<1>4. \A k \in 1..N : r.rest[k] = Token(file, <<n + 1, i + k>>)
  BY <1>1 DEF Reading
<1>5. PICK f : /\ f[0] = [s |-> r.s, start |-> << >>]
               /\ \A k \in 1..N : f[k] = ConsumeNext(m, line, f[k - 1], r.rest[k])
               /\ ConsumeTokens(m, line, r) = f[N].s
  BY <1>3, TokenLoop
<1> HIDE DEF N
<1> DEFINE P == {k \in 0..N : Matched(f[k].s, file, Done(file, n, i + k))}
<1>6. 0 \in P
  <2>1. f[0].s = r.s /\ i + 0 = i /\ 0 \in 0..N
    BY <1>3, <1>5
  <2> QED
    BY <1>1, <2>1
<1>7. ASSUME NEW k \in 0..(N - 1), k \in P PROVE k + 1 \in P
  <2>1. k + 1 \in 1..N /\ k + 1 \in 0..N /\ k + 1 - 1 = k /\ k \in Nat
    BY <1>3
  <2>2. PICK j, q : j = i + k /\ q = <<n + 1, j + 1>>
    OBVIOUS
  <2>3. j \in Nat /\ j + 1 = i + (k + 1) /\ j + 1 <= Len(file[n + 1].tokens)
    BY <1>2, <1>3, <2>1, <2>2
  <2>4. PICK a : a = f[k]
    OBVIOUS
  <2>5. Matched(a.s, file, Done(file, n, j))
    BY <1>7, <2>2, <2>4
  <2>6. Matched((ConsumeNext(m, line, a, Token(file, q))).s, file, Done(file, n, j + 1))
    BY ONLY <2>2, <2>3, <2>5, Readable(file, n), TokenKeeps
  <2>7. f[k + 1] = ConsumeNext(m, line, a, Token(file, q))
    BY <1>4, <1>5, <2>1, <2>2, <2>3, <2>4
  <2>8. Matched(f[k + 1].s, file, Done(file, n, i + (k + 1)))
    BY <2>3, <2>6, <2>7
  <2> QED
    BY <2>1, <2>8
<1>8. P \in SUBSET (0..N)
  OBVIOUS
<1>9. N \in P
  <2> HIDE DEF P
  <2>1. \A k \in 0..N : k \in P
    BY <1>3, <1>6, <1>7, <1>8, NaturalSteps
  <2> QED
    BY <1>3, <2>1
<1>10. PICK last : last = i + N
  OBVIOUS
<1>11. last \in Nat /\ last = Len(file[n + 1].tokens)
  BY <1>2, <1>3, <1>10
<1>12. Done(file, n, last) = Places(file, n + 1)
  BY ONLY <1>3, <1>11, DoneLine
<1> QED
  BY <1>5, <1>9, <1>10, <1>12

(* A line of a well-formed file.                                           *)
LEMMA LineKeeps ==
  ASSUME NEW file, NEW n, Readable(file, n), NEW line, line = file[n + 1], line.directive = "none",
         NEW s, Matched(s, file, Places(file, n)), NEW m
  PROVE  Matched(Update(s, m, line), file, Places(file, n + 1))
<1> DEFINE r0 == UpdatePreprocessor(Fresh(s), line.directive)
           r1 == ConsumeNamespaces(m, line, CountParentheses(r0, line.tokens))
           r2 == ConsumeClass(m, line.indent, r1)
           r3 == UpdateClass(m, line, r2)
<1>1. Update(s, m, line) = ConsumeTokens(m, line, r3)
  BY Zenon DEF Update, Fresh
<1>2. Matched(Fresh(s), file, Places(file, n))
  <2>1. IsNest(Fresh(s)) /\ Fresh(s).stack = s.stack
    BY DEF Matched, IsNest, Fresh
  <2> QED
    BY <2>1 DEF Matched
<1>3. r0 = Fresh(s)
  BY DEF UpdatePreprocessor
<1>4. Done(file, n, 0) = Places(file, n)
  <2>1. 1..0 = {}
    OBVIOUS
  <2> QED
    BY <2>1 DEF Done
<1> HIDE DEF r0
<1>5. Matched(CountParentheses(r0, line.tokens), file, Done(file, n, 0))
  BY <1>2, <1>3, <1>4, ParenthesesKeep
<1>6. Reached(r1, file, n)
  BY <1>5, NamespacesKeep
<1> HIDE DEF r1
<1>7. Reached(r2, file, n)
  BY <1>6, ClassKeeps
<1> HIDE DEF r2
<1>8. Reached(r3, file, n)
  BY <1>7, UpdateClassKeeps
<1> HIDE DEF r3
<1> QED
  BY <1>1, <1>8, TokensKeep

NestingInv ==
  /\ text \in Seq(Lines) /\ linenum \in 0..(Len(text) + 1)
  /\ WellFormed(text, Processed) => Matched(nest, text, Places(text, Processed))

(* No line has been processed.                                             *)
LEMMA NestingInitial == Init => NestingInv
<1> SUFFICES ASSUME Init PROVE NestingInv
  OBVIOUS
<1>1. text \in Seq(Lines) /\ linenum = 0 /\ nest = Empty
  BY LintNestingAssumption DEF Init
<1>2. Len(text) \in Nat /\ Processed = 0
  BY <1>1 DEF Processed
<1>3. IsNest(Empty) /\ Empty.stack = << >>
  BY DEF IsNest, Empty
<1>4. Places(text, 0) = {}
  <2>1. 1..0 = {}
    OBVIOUS
  <2> QED
    BY <2>1 DEF Places
<1>5. IsFiniteSet({}) /\ Net(text, {}) = 0
  <2>1. {p \in {} : Opens(text, p)} = {} /\ {p \in {} : Closes(text, p)} = {}
    OBVIOUS
  <2>2. Net(text, {}) = Cardinality({}) - Cardinality({})
    BY <2>1 DEF Net
  <2> QED
    BY <2>2, FS_EmptySet
<1>6. Blocks(<< >>, 0, FALSE)
  BY DEF Blocks, IsSeq
<1>7. Matched(Empty, text, {})
  BY <1>3, <1>5, <1>6 DEF Matched
<1>8. Matched(nest, text, Places(text, Processed))
  BY <1>1, <1>2, <1>4, <1>7
<1>9. linenum \in 0..(Len(text) + 1)
  BY <1>1, <1>2
<1> QED
  BY <1>1, <1>8, <1>9 DEF NestingInv

(* Every line keeps the invariant.                                         *)
LEMMA NestingInductive ==
  ASSUME NestingInv, [Next]_vars
  PROVE  NestingInv'
<1>0. /\ text \in Seq(Lines) /\ linenum \in 0..(Len(text) + 1)
      /\ WellFormed(text, Processed) => Matched(nest, text, Places(text, Processed))
  BY DEF NestingInv
<1>1. CASE ProcessLine
  <2>1. linenum < Len(text) /\ linenum' = linenum + 1 /\ text' = text
        /\ nest' = Update(nest, linenum + 1, text[linenum + 1])
    BY <1>1 DEF ProcessLine
  <2>2. PICK file, n, s : file = text /\ n = linenum /\ s = nest
    OBVIOUS
  <2>3. file \in Seq(Lines) /\ Len(file) \in Nat /\ n \in Nat /\ n + 1 \in 1..Len(file)
    BY <1>0, <2>1, <2>2
  <2>4. Processed = n /\ Processed' = n + 1
    BY <2>1, <2>2, <2>3 DEF Processed
  <2>5. linenum' \in 0..(Len(text') + 1)
    BY <2>1, <2>2, <2>3
  <2>6. ASSUME WellFormed(file, n + 1)
        PROVE  Matched(Update(s, n + 1, file[n + 1]), file, Places(file, n + 1))
    <3>1. WellFormed(file, n) /\ file[n + 1].directive = "none"
      BY <2>3, <2>6, WellFormedBefore
    <3>2. Matched(s, file, Places(file, n))
      BY <1>0, <2>2, <2>4, <3>1
    <3>3. file[n + 1].tokens \in Seq(Words)
      <4>1. file[n + 1] \in Lines
        BY <2>3
      <4> QED
        BY <4>1 DEF Lines
    <3>4. Readable(file, n)
      BY <2>3, <2>6, <3>3 DEF Readable
    <3> QED
      BY <3>1, <3>2, <3>4, LineKeeps
  <2>7. nest' = Update(s, n + 1, file[n + 1]) /\ text' = file
    BY <2>1, <2>2
  <2>8. WellFormed(text', Processed') => Matched(nest', text', Places(text', Processed'))
    BY <2>4, <2>6, <2>7
  <2> QED
    BY <1>0, <2>1, <2>5, <2>8 DEF NestingInv
<1>2. CASE CheckCompletedBlocks
  <2>1. linenum = Len(text) /\ linenum' = linenum + 1 /\ text' = text /\ nest' = nest
    BY <1>2 DEF CheckCompletedBlocks
  <2>2. Len(text) \in Nat
    BY <1>0
  <2>3. Processed' = Processed
    BY <2>1, <2>2 DEF Processed
  <2>4. linenum' \in 0..(Len(text') + 1)
    BY <2>1, <2>2
  <2>5. WellFormed(text', Processed') => Matched(nest', text', Places(text', Processed'))
    BY <1>0, <2>1, <2>3
  <2> QED
    BY <1>0, <2>1, <2>4, <2>5 DEF NestingInv
<1>3. CASE UNCHANGED vars
  <2>1. linenum' = linenum /\ text' = text /\ nest' = nest
    BY <1>3 DEF vars
  <2>2. Processed' = Processed
    BY <2>1 DEF Processed
  <2>3. WellFormed(text', Processed') => Matched(nest', text', Places(text', Processed'))
    BY <1>0, <2>1, <2>2
  <2> QED
    BY <1>0, <2>1, <2>3 DEF NestingInv
<1> QED
  BY <1>1, <1>2, <1>3 DEF Next

(* What a matched nest shows: the blocks whose brace was seen are as many  *)
(* as the open braces, and only the innermost one can wait.                *)
LEMMA MatchedSays ==
  ASSUME NEW stack, NEW open \in Int, NEW w \in BOOLEAN, Blocks(stack, open, w)
  PROVE  LET waiting == {i \in 1..Len(stack) : ~stack[i].seen_open_brace}
         IN  Len(stack) - Cardinality(waiting) = open /\ waiting \subseteq {Len(stack)}
<1> DEFINE waiting == {i \in 1..Len(stack) : ~stack[i].seen_open_brace}
<1>1. /\ \A i \in 1..(Len(stack) - 1) : stack[i].seen_open_brace
      /\ w => stack # << >> /\ ~stack[Len(stack)].seen_open_brace /\ Len(stack) = open + 1
      /\ ~w => (stack = << >> \/ stack[Len(stack)].seen_open_brace) /\ Len(stack) = open
  BY DEF Blocks
<1>2. Len(stack) \in Nat /\ (stack # << >> => Len(stack) \in 1..Len(stack))
  <2>1. IsSeq(stack)
    BY DEF Blocks
  <2>2. PICK S : stack \in Seq(S)
    BY <2>1 DEF IsSeq
  <2>3. Len(stack) \in Nat
    BY <2>2
  <2>4. stack # << >> => Len(stack) \in Nat \ {0}
    BY <2>1, Popped
  <2> QED
    BY <2>3, <2>4
<1>3. \A i \in 1..Len(stack) : i \in 1..(Len(stack) - 1) \/ i = Len(stack)
  BY <1>2
<1>4. CASE w
  <2>1. waiting = {Len(stack)}
    BY <1>1, <1>2, <1>3, <1>4
  <2>2. Cardinality({Len(stack)}) = 1
    BY FS_Singleton
  <2> HIDE DEF waiting
  <2>3. Len(stack) - Cardinality(waiting) = open /\ waiting \subseteq {Len(stack)}
    BY <1>1, <1>2, <1>4, <2>1, <2>2
  <2> QED
    BY <2>3 DEF waiting
<1>5. CASE ~w
  <2>1. waiting = {}
    <3>1. ASSUME NEW i \in 1..Len(stack) PROVE stack[i].seen_open_brace
      <4>1. stack # << >>
        <5>1. Len(<< >>) = 0
          OBVIOUS
        <5> QED
          BY <1>2, <5>1
      <4> QED
        BY <1>1, <1>3, <1>5, <4>1
    <3> QED
      BY <3>1
  <2>2. Cardinality({}) = 0
    BY FS_EmptySet
  <2> HIDE DEF waiting
  <2>3. Len(stack) - Cardinality(waiting) = open /\ waiting \subseteq {Len(stack)}
    BY <1>1, <1>2, <1>5, <2>1, <2>2
  <2> QED
    BY <2>3 DEF waiting
<1> QED
  BY <1>4, <1>5

(* The blocks of NestingState are those of the braces: in a well-formed    *)
(* file of any length the blocks whose brace was seen are as many as the   *)
(* open braces, and only the innermost one can wait for its brace.         *)
THEOREM BlocksAreBraces == Spec => []BlocksMatchBraces
<1>1. Init => NestingInv
  BY NestingInitial
<1>2. NestingInv /\ [Next]_vars => NestingInv'
  BY NestingInductive
<1>3. NestingInv => BlocksMatchBraces
  <2> SUFFICES ASSUME NestingInv, WellFormed(text, Processed)
               PROVE  LET waiting == {i \in 1..Len(nest.stack) : ~nest.stack[i].seen_open_brace}
                      IN /\ Len(nest.stack) - Cardinality(waiting) = Net(text, Places(text, Processed))
                         /\ waiting \subseteq {Len(nest.stack)}
    BY Zenon DEF BlocksMatchBraces
  <2>1. Matched(nest, text, Places(text, Processed))
    BY DEF NestingInv
  <2>2. PICK stack, file, done : stack = nest.stack /\ file = text /\ done = Places(text, Processed)
    OBVIOUS
  <2>3. PICK open : open = Net(file, done)
    OBVIOUS
  <2>4. PICK w \in BOOLEAN : Blocks(stack, open, w)
    BY <2>1, <2>2, <2>3 DEF Matched
  <2>5. open \in Int
    BY <2>1, <2>2, <2>3, NetIsInt DEF Matched
  <2>6. LET waiting == {i \in 1..Len(stack) : ~stack[i].seen_open_brace}
        IN  Len(stack) - Cardinality(waiting) = open /\ waiting \subseteq {Len(stack)}
    BY ONLY <2>4, <2>5, MatchedSays
  <2> QED
    BY <2>2, <2>3, <2>6
<1> QED
  BY <1>1, <1>2, <1>3, PTL DEF Spec
=============================================================================
