--------------------------- MODULE LintTextProofs ---------------------------
(***************************************************************************)
(* What LintText promises of the search for brackets and of the cleansing  *)
(* of comments and strings, for texts of any length.                       *)
(***************************************************************************)
EXTENDS LintText, FiniteSetTheorems, SequenceTheorems, WellFoundedInduction, TLAPS

-----------------------------------------------------------------------------
(* Numbers and sequences                                                   *)

(* Every property of natural numbers that 0 has and that a number passes   *)
(* on to the next one.                                                     *)
LEMMA NaturalSteps ==
  ASSUME NEW N \in Nat, NEW P \in SUBSET (0..N), 0 \in P,
         \A k \in 0..(N - 1) : k \in P => k + 1 \in P
  PROVE  \A k \in 0..N : k \in P
<1> SUFFICES ASSUME NEW k \in 0..N, k \notin P PROVE FALSE
  OBVIOUS
<1> DEFINE Bad == (0..N) \ P
           R == {ss \in Nat \X Nat : ss[1] < ss[2]}
<1>1. R = OpToRel(<, Nat)
  BY Zenon DEF OpToRel
<1>2. IsWellFoundedOn(R, Nat)
  BY <1>1, NatLessThanWellFounded, Zenon
<1>3. \A i, j \in Nat : <<j, i>> \in R <=> j < i
  OBVIOUS
<1>4. Bad \in SUBSET Nat /\ Bad # {}
  OBVIOUS
<1> HIDE DEF R, Bad
<1>5. PICK i \in Bad : \A j \in Bad : <<j, i>> \notin R
  BY <1>2, <1>4, WFMin
<1>6. i \in Nat /\ \A j \in Bad : ~(j < i)
  BY <1>3, <1>4, <1>5
<1>7. i \in 0..N /\ i \notin P
  BY DEF Bad
<1>8. i # 0 /\ i - 1 \in 0..(N - 1) /\ (i - 1) + 1 = i
  BY <1>6, <1>7
<1>9. i - 1 \in P
  BY <1>6, <1>7, <1>8 DEF Bad
<1> QED
  BY <1>7, <1>8, <1>9

(* A set of numbers that is not empty has a least one.                     *)
LEMMA LeastOne ==
  ASSUME NEW S \in SUBSET Nat, S # {}
  PROVE  LET least == CHOOSE i \in S : \A j \in S : i <= j
         IN  least \in S /\ \A j \in S : least <= j
<1> DEFINE R == {ss \in Nat \X Nat : ss[1] < ss[2]}
<1>1. R = OpToRel(<, Nat)
  BY Zenon DEF OpToRel
<1>2. IsWellFoundedOn(R, Nat)
  BY <1>1, NatLessThanWellFounded, Zenon
<1>3. \A i, j \in Nat : <<j, i>> \in R <=> j < i
  OBVIOUS
<1> HIDE DEF R
<1>4. PICK i \in S : \A j \in S : <<j, i>> \notin R
  BY <1>2, WFMin
<1>5. ASSUME NEW j \in S PROVE i <= j
  <2>1. i \in Nat /\ j \in Nat /\ ~(j < i)
    BY <1>3, <1>4
  <2> QED
    BY <2>1
<1> QED
  BY <1>4, <1>5

IsSeq(x) == \E S : x \in Seq(S)

(* One element more.                                                       *)
LEMMA Pushed ==
  ASSUME NEW x, IsSeq(x), NEW e
  PROVE  /\ IsSeq(Append(x, e)) /\ Len(x) \in Nat /\ Len(Append(x, e)) = Len(x) + 1
         /\ \A i \in 1..Len(x) : Append(x, e)[i] = x[i]
         /\ Append(x, e)[Len(x) + 1] = e
<1>1. PICK S : x \in Seq(S)
  BY DEF IsSeq
<1>2. x \in Seq(S \cup {e}) /\ e \in S \cup {e}
  BY <1>1
<1>3. Append(x, e) \in Seq(S \cup {e})
  BY <1>2
<1> QED
  BY <1>2, <1>3 DEF IsSeq

(* One element less.                                                       *)
LEMMA Popped ==
  ASSUME NEW x, IsSeq(x), x # << >>
  PROVE  /\ IsSeq(Front(x)) /\ Len(x) \in Nat \ {0} /\ Len(Front(x)) = Len(x) - 1
         /\ \A i \in 1..(Len(x) - 1) : Front(x)[i] = x[i]
         /\ Last(x) = x[Len(x)]
<1>1. PICK S : x \in Seq(S)
  BY DEF IsSeq
<1>2. Len(x) \in Nat \ {0}
  BY <1>1
<1>3. /\ SubSeq(x, 1, Len(x) - 1) \in Seq(S)
      /\ Len(SubSeq(x, 1, Len(x) - 1)) = Len(x) - 1
      /\ \A i \in 1..(Len(x) - 1) : SubSeq(x, 1, Len(x) - 1)[i] = x[i]
  <2> DEFINE m == Len(x) - 1
  <2>1. m \in Nat /\ 1 \in Int /\ \A i \in 1..m : x[i] \in S
    BY <1>1, <1>2
  <2> HIDE DEF m
  <2>2. /\ SubSeq(x, 1, m) \in Seq(S)
        /\ Len(SubSeq(x, 1, m)) = IF 1 <= m THEN m - 1 + 1 ELSE 0
        /\ \A i \in 1..(m - 1 + 1) : SubSeq(x, 1, m)[i] = x[1 + i - 1]
    BY <2>1, SubSeqProperties
  <2>3. Len(SubSeq(x, 1, m)) = m /\ m - 1 + 1 = m /\ \A i \in 1..m : 1 + i - 1 = i
    BY <2>1, <2>2
  <2>4. \A i \in 1..m : SubSeq(x, 1, m)[i] = x[i]
    BY <2>2, <2>3
  <2> QED
    BY <2>2, <2>3, <2>4 DEF m
<1> QED
  BY <1>2, <1>3 DEF IsSeq, Front, Last


(* A set of numbers up to some number that is not empty has a greatest one. *)
LEMMA GreatestOne ==
  ASSUME NEW N \in Nat, NEW S \in SUBSET (0..N), S # {}
  PROVE  Max(S) \in S /\ \A j \in S : j <= Max(S)
<1> DEFINE T == {k \in 0..N : N - k \in S}
<1>1. T \in SUBSET Nat
  OBVIOUS
<1>2. PICK j \in S : TRUE
  OBVIOUS
<1>3. N - j \in 0..N /\ N - (N - j) = j
  OBVIOUS
<1>4. T # {}
  BY <1>2, <1>3
<1>5. PICK i \in T : \A k \in T : i <= k
  <2> HIDE DEF T
  <2> QED
    BY <1>1, <1>4, LeastOne
<1>6. N - i \in S
  OBVIOUS
<1>7. ASSUME NEW k \in S PROVE N - i >= k
  <2>1. N - k \in T
    OBVIOUS
  <2>2. i <= N - k
    BY <1>5, <2>1
  <2>3. i \in Int /\ k \in Int /\ N \in Int
    OBVIOUS
  <2> QED
    BY ONLY <2>2, <2>3
<1>8. Max(S) \in S /\ \A k \in S : Max(S) >= k
  BY <1>6, <1>7 DEF Max
<1> QED
  BY <1>8

(* The brackets on a stack that are not the angle.                         *)
Others(stack, angle) == {k \in 1..Len(stack) : stack[k] # angle}
Brackets(stack, angle) == Cardinality(Others(stack, angle))

(* They are finitely many.                                                 *)
LEMMA BracketsAreSome ==
  ASSUME NEW angle, NEW stack, IsSeq(stack)
  PROVE  /\ Len(stack) \in Nat /\ IsFiniteSet(Others(stack, angle)) /\ Brackets(stack, angle) \in Nat
         /\ Brackets(stack, angle) = 0 <=> Others(stack, angle) = {}
<1>1. Len(stack) \in Nat
  BY DEF IsSeq
<1>2. IsFiniteSet(1..Len(stack))
  BY <1>1, FS_Interval
<1>3. Others(stack, angle) \subseteq 1..Len(stack)
  BY DEF Others
<1>4. IsFiniteSet(Others(stack, angle))
  BY <1>2, <1>3, FS_Subset
<1> QED
  BY <1>1, <1>4, FS_CardinalityType, FS_EmptySet DEF Brackets

(* One more.                                                               *)
LEMMA PushedBracket ==
  ASSUME NEW angle, NEW stack, IsSeq(stack), NEW c
  PROVE  /\ IsSeq(Append(stack, c)) /\ Append(stack, c) # << >>
         /\ stack # << >> => Append(stack, c)[1] = stack[1]
         /\ stack = << >> => Append(stack, c)[1] = c
         /\ c = angle => Brackets(Append(stack, c), angle) = Brackets(stack, angle)
         /\ c # angle => Brackets(Append(stack, c), angle) = Brackets(stack, angle) + 1
<1>1. PICK more : more = Append(stack, c)
  OBVIOUS
<1>2. /\ IsSeq(more) /\ Len(stack) \in Nat /\ Len(more) = Len(stack) + 1
      /\ \A i \in 1..Len(stack) : more[i] = stack[i]
      /\ more[Len(stack) + 1] = c
  BY <1>1, Pushed
<1>3. more # << >> /\ (stack # << >> => more[1] = stack[1]) /\ (stack = << >> => more[1] = c)
  <2>1. PICK S : stack \in Seq(S)
    BY DEF IsSeq
  <2>2. stack # << >> => 1 \in 1..Len(stack)
    BY <2>1
  <2>3. stack = << >> => Len(stack) = 0
    OBVIOUS
  <2>4. more # << >>
    BY <1>2
  <2> QED
    BY <1>2, <2>2, <2>3, <2>4
<1>4. IsFiniteSet(Others(stack, angle)) /\ Brackets(stack, angle) \in Nat
  BY BracketsAreSome
<1>5. \A i : i \in 1..Len(more) <=> i \in 1..Len(stack) \/ i = Len(stack) + 1
  BY <1>2
<1>6. c = angle => Others(more, angle) = Others(stack, angle)
  BY <1>2, <1>5 DEF Others
<1>7. c # angle => Others(more, angle) = Others(stack, angle) \cup {Len(stack) + 1} /\ Len(stack) + 1 \notin Others(stack, angle)
  BY <1>2, <1>5 DEF Others
<1>8. c # angle => Brackets(more, angle) = Brackets(stack, angle) + 1
  BY <1>4, <1>7, FS_AddElement DEF Brackets
<1> QED
  BY <1>1, <1>2, <1>3, <1>6, <1>8 DEF Brackets

(* One less.                                                               *)
LEMMA PoppedBracket ==
  ASSUME NEW angle, NEW stack, IsSeq(stack), stack # << >>
  PROVE  /\ IsSeq(Front(stack))
         /\ Front(stack) = << >> <=> Len(stack) = 1
         /\ Front(stack) # << >> => Front(stack)[1] = stack[1]
         /\ Last(stack) = angle => Brackets(Front(stack), angle) = Brackets(stack, angle)
         /\ Last(stack) # angle => Brackets(Front(stack), angle) = Brackets(stack, angle) - 1
<1>1. PICK less : less = Front(stack)
  OBVIOUS
<1>2. /\ IsSeq(less) /\ Len(stack) \in Nat \ {0} /\ Len(less) = Len(stack) - 1
      /\ \A i \in 1..(Len(stack) - 1) : less[i] = stack[i]
      /\ Last(stack) = stack[Len(stack)]
  BY <1>1, Popped
<1>3. (less = << >> <=> Len(stack) = 1) /\ (less # << >> => less[1] = stack[1])
  <2>1. PICK S : less \in Seq(S)
    BY <1>2 DEF IsSeq
  <2>2. less = << >> <=> Len(less) = 0
    BY <2>1
  <2>3. less # << >> => 1 \in 1..(Len(stack) - 1)
    BY <1>2, <2>2
  <2> QED
    BY <1>2, <2>2, <2>3
<1>4. IsFiniteSet(Others(less, angle)) /\ Brackets(less, angle) \in Nat
  BY <1>2, BracketsAreSome
<1>5. \A i : i \in 1..Len(stack) <=> i \in 1..Len(less) \/ i = Len(stack)
  BY <1>2
<1>6. Last(stack) = angle => Others(stack, angle) = Others(less, angle)
  BY <1>2, <1>5 DEF Others
<1>7. Last(stack) # angle => Others(stack, angle) = Others(less, angle) \cup {Len(stack)} /\ Len(stack) \notin Others(less, angle)
  BY <1>2, <1>5 DEF Others
<1>8. Last(stack) # angle => Brackets(stack, angle) = Brackets(less, angle) + 1
  BY <1>4, <1>7, FS_AddElement DEF Brackets
<1> QED
  BY <1>1, <1>2, <1>3, <1>4, <1>6, <1>8 DEF Brackets

(* All that is not a bracket is dropped from the top of the stack.         *)
LEMMA DroppedAngles ==
  ASSUME NEW angle, NEW stack, IsSeq(stack), NEW rest, rest = DropAngles(stack, angle)
  PROVE  /\ IsSeq(rest) /\ Brackets(rest, angle) = Brackets(stack, angle)
         /\ rest = << >> <=> Brackets(stack, angle) = 0
         /\ rest # << >> => rest[1] = stack[1] /\ Last(rest) # angle
         /\ Len(rest) <= Len(stack) /\ \A i \in 1..Len(rest) : rest[i] = stack[i]
<1>1. PICK others : others = Others(stack, angle)
  OBVIOUS
<1>2. PICK last : last = Max(others \cup {0})
  OBVIOUS
<1>3. rest = SubSeq(stack, 1, last)
  <2>1. others = {k \in 1..Len(stack) : stack[k] # angle}
    BY <1>1 DEF Others
  <2> QED
    BY ONLY <1>2, <2>1, rest = DropAngles(stack, angle), Zenon DEF DropAngles
<1>4. Len(stack) \in Nat /\ Brackets(stack, angle) \in Nat /\ (Brackets(stack, angle) = 0 <=> others = {})
  BY <1>1, BracketsAreSome
<1>5. others \in SUBSET (1..Len(stack))
  BY <1>1 DEF Others
<1>6. last \in others \cup {0} /\ \A j \in others \cup {0} : j <= last
  <2>1. PICK S : S = others \cup {0}
    OBVIOUS
  <2>2. S \in SUBSET (0..Len(stack)) /\ S # {}
    BY <1>4, <1>5, <2>1
  <2> QED
    BY <1>2, <1>4, <2>1, <2>2, GreatestOne
<1>7. last \in 0..Len(stack) /\ last \in Nat
  BY <1>4, <1>5, <1>6
<1>8. rest \in Seq(Range(stack)) /\ Len(rest) = last /\ \A i \in 1..last : rest[i] = stack[i]
  <2>1. 1 \in Int /\ last \in Int /\ \A i \in 1..last : stack[i] \in Range(stack)
    <3>1. PICK S : stack \in Seq(S)
      BY DEF IsSeq
    <3>2. DOMAIN stack = 1..Len(stack)
      BY <3>1
    <3> QED
      BY <1>7, <3>2 DEF Range
  <2>2. /\ SubSeq(stack, 1, last) \in Seq(Range(stack))
        /\ Len(SubSeq(stack, 1, last)) = IF 1 <= last THEN last - 1 + 1 ELSE 0
        /\ \A i \in 1..(last - 1 + 1) : SubSeq(stack, 1, last)[i] = stack[1 + i - 1]
    <3>1. PICK S : S = Range(stack)
      OBVIOUS
    <3> QED
      BY ONLY <2>1, <3>1, SubSeqProperties
  <2>3. Len(rest) = last
    BY <1>3, <1>7, <2>2
  <2>4. ASSUME NEW i \in 1..last PROVE rest[i] = stack[i]
    <3>1. i \in 1..(last - 1 + 1) /\ 1 + i - 1 = i
      BY <1>7
    <3> QED
      BY <1>3, <2>2, <3>1
  <2> QED
    BY <1>3, <2>2, <2>3, <2>4
<1>9. IsSeq(rest)
  BY <1>8 DEF IsSeq
<1>10. rest = << >> <=> last = 0
  BY <1>8
<1>11. last = 0 <=> others = {}
  BY <1>4, <1>5, <1>6
<1>12. ASSUME last # 0 PROVE rest[1] = stack[1] /\ Last(rest) # angle
  <2>1. 1 \in 1..last /\ last \in 1..last /\ last \in others
    BY <1>6, <1>7, <1>12
  <2>2. Last(rest) = rest[last]
    BY <1>8, <1>9, <1>10, <1>12, Popped
  <2> QED
    BY <1>1, <1>8, <2>1, <2>2 DEF Others
<1>13. Brackets(rest, angle) = Brackets(stack, angle)
  <2>1. \A i : i \in Others(stack, angle) => i \in 1..last /\ stack[i] # angle
    BY <1>1, <1>5, <1>6, <1>7 DEF Others
  <2>2. \A i \in 1..last : i \in 1..Len(stack)
    BY <1>4, <1>7
  <2>3. Others(rest, angle) = Others(stack, angle)
    BY <1>8, <2>1, <2>2 DEF Others
  <2> QED
    BY <2>3 DEF Brackets
<1>14. Len(rest) <= Len(stack) /\ \A i \in 1..Len(rest) : rest[i] = stack[i]
  BY <1>4, <1>7, <1>8
<1> QED
  BY <1>4, <1>9, <1>10, <1>11, <1>12, <1>13, <1>14

-----------------------------------------------------------------------------
(* One character                                                           *)

(* The kinds of characters, by name.                                       *)
Left == "<"
Right == ">"
IsOpening(c) == c \in Opening
IsClosing(c) == c \in Closing
IsStop(c) == c = ";"

(* A character is of one kind at most.                                     *)
LEMMA OneKind ==
  ASSUME NEW c
  PROVE  /\ IsOpening(c) => ~IsClosing(c) /\ c # Left /\ c # Right /\ ~IsStop(c)
         /\ IsClosing(c) => c # Left /\ c # Right /\ ~IsStop(c)
         /\ c = Left => c # Right /\ ~IsStop(c)
         /\ c = Right => ~IsStop(c)
BY Zenon DEF IsOpening, IsClosing, Left, Right, IsStop, Opening, Closing

(* A state of the search.                                                  *)
IsSearch(a) ==
  /\ a = [stack |-> a.stack, found |-> a.found, failed |-> a.failed, skip |-> a.skip]
  /\ a.failed \in BOOLEAN
Waiting(a, angle) == a.stack # << >> /\ Last(a.stack) = angle

(* What the search makes of a character, by its kind.                      *)
BecomesByKind(a, i, c, rest, b) ==
  /\ IsOpening(c) => b = [a EXCEPT !.stack = Append(@, c)]
  /\ c = Left => \/ b = a
                 \/ b = [a EXCEPT !.stack = Append(@, c)]
                 \/ Waiting(a, Left) /\ b = Now(a, Front(a.stack), 0)
  /\ IsClosing(c) => \/ rest = << >> /\ b = Now(a, rest, 0)
                     \/ rest # << >> /\ Last(rest) = Partner(c) /\ b = Now(a, Front(rest), i + 1)
                     \/ rest # << >> /\ Last(rest) # Partner(c) /\ b = [a EXCEPT !.failed = TRUE]
  /\ c = Right => \/ b = a
                  \/ Waiting(a, Left) /\ b = Now(a, Front(a.stack), i + 1)
  /\ IsStop(c) => b = Now(a, rest, 0)
  /\ ~IsOpening(c) /\ c # Left /\ ~IsClosing(c) /\ c # Right /\ ~IsStop(c) => b = a

(* It is what one step does.                                               *)
LEMMA StepByKind ==
  ASSUME NEW line, NEW a, NEW i, ~Over(a)
  PROVE  BecomesByKind(a, i, line[i], DropAngles(a.stack, Left), CloseStep(line, a, i))
<1> DEFINE b == CloseStep(line, a, i)
           c == line[i]
           rest == DropAngles(a.stack, Left)
<1>1. ASSUME IsOpening(c) PROVE b = [a EXCEPT !.stack = Append(@, c)]
  BY <1>1, OneKind, Zenon DEF CloseStep, IsOpening, IsClosing, Left, Right, IsStop
<1>2. ASSUME IsStop(c) PROVE b = Now(a, rest, 0)
  BY <1>2, OneKind, Zenon DEF CloseStep, IsOpening, IsClosing, Left, Right, IsStop
<1>3. ASSUME c = Right
      PROVE  \/ b = a
             \/ Waiting(a, Left) /\ b = Now(a, Front(a.stack), i + 1)
  BY <1>3, OneKind, Zenon DEF CloseStep, IsOpening, IsClosing, Left, Right, IsStop, Waiting
<1>4. ASSUME IsClosing(c)
      PROVE  \/ rest = << >> /\ b = Now(a, rest, 0)
             \/ rest # << >> /\ Last(rest) = Partner(c) /\ b = Now(a, Front(rest), i + 1)
             \/ rest # << >> /\ Last(rest) # Partner(c) /\ b = [a EXCEPT !.failed = TRUE]
  BY <1>4, OneKind, Zenon DEF CloseStep, IsOpening, IsClosing, Left, Right, IsStop, Waiting
<1>5. ASSUME c = Left
      PROVE  \/ b = a
             \/ b = [a EXCEPT !.stack = Append(@, c)]
             \/ Waiting(a, Left) /\ b = Now(a, Front(a.stack), 0)
  BY <1>5, OneKind, Zenon DEF CloseStep, IsOpening, IsClosing, Left, Right, IsStop, Waiting
<1>6. ASSUME ~IsOpening(c), c # Left, ~IsClosing(c), c # Right, ~IsStop(c) PROVE b = a
  BY <1>6, Zenon DEF CloseStep, IsOpening, IsClosing, Left, Right, IsStop
<1> HIDE DEF b, c, rest
<1>7. BecomesByKind(a, i, c, rest, b)
  BY <1>1, <1>2, <1>3, <1>4, <1>5, <1>6, Zenon DEF BecomesByKind
<1> QED
  BY <1>7, Zenon DEF b, c, rest

-----------------------------------------------------------------------------
(* Places                                                                  *)

IsText == lines \in Seq(Seq(STRING))

(* What a place is.                                                        *)
LEMMA APlace ==
  ASSUME IsText, NEW q
  PROVE  q \in Places <=> \E n \in 1..Len(lines) : \E i \in 1..Len(lines[n]) : q = <<n, i>>
BY DEF Places

(* A place is a pair of numbers.                                           *)
LEMMA PlaceParts ==
  ASSUME IsText, NEW q \in Places
  PROVE  /\ q = <<q[1], q[2]>> /\ q[1] \in Nat /\ q[2] \in Nat /\ q[2] > 0
         /\ q[1] \in 1..Len(lines) /\ q[2] \in 1..Len(lines[q[1]]) /\ Len(lines[q[1]]) \in Nat
<1>1. PICK n \in 1..Len(lines) : \E i \in 1..Len(lines[n]) : q = <<n, i>>
  BY APlace
<1>2. PICK i \in 1..Len(lines[n]) : q = <<n, i>>
  BY <1>1
<1>3. lines[n] \in Seq(STRING)
  BY DEF IsText
<1>4. Len(lines[n]) \in Nat /\ n \in Nat /\ i \in Nat /\ i > 0
  BY <1>3 DEF IsText
<1> QED
  BY <1>2, <1>4

(* A search that has come to the place where it began.                     *)
LEMMA FirstPlace ==
  ASSUME IsText, NEW p \in Places
  PROVE  Between(p, p) = {p}
<1>1. p = <<p[1], p[2]>> /\ p[1] \in Nat /\ p[2] \in Nat
  BY PlaceParts
<1>2. ASSUME NEW r \in Places PROVE ~Precedes(r, p) /\ ~Precedes(p, r) <=> r = p
  <2>1. r = <<r[1], r[2]>> /\ r[1] \in Nat /\ r[2] \in Nat
    BY PlaceParts
  <2>2. ~Precedes(r, p) /\ ~Precedes(p, r) <=> r[1] = p[1] /\ r[2] = p[2]
    BY <1>1, <2>1 DEF Precedes
  <2> QED
    BY <1>1, <2>1, <2>2
<1> QED
  BY <1>2 DEF Between

(* One place further.                                                      *)
LEMMA NextPlace ==
  ASSUME IsText, NEW p \in Places, NEW n, NEW i, <<n, i>> \in Places, Precedes(p, <<n, i>>)
  PROVE  /\ Between(p, <<n, i>>) = Between(p, <<n, i - 1>>) \cup {<<n, i>>}
         /\ <<n, i>> \notin Between(p, <<n, i - 1>>)
<1>1. p = <<p[1], p[2]>> /\ p[1] \in Nat /\ p[2] \in Nat
  BY PlaceParts
<1>2. PICK q : q = <<n, i>>
  OBVIOUS
<1>3. q \in Places /\ q[1] = n /\ q[2] = i /\ n \in Nat /\ i \in Nat
  BY <1>2, PlaceParts
<1>4. PICK before : before = <<n, i - 1>>
  OBVIOUS
<1>5. before[1] = n /\ before[2] = i - 1
  BY <1>4
<1>6. Precedes(p, q)
  BY <1>2
<1>7. ASSUME NEW r \in Places
      PROVE  /\ ~Precedes(q, r) <=> ~Precedes(before, r) \/ r = q
             /\ r = q => Precedes(before, r)
             /\ r = q => ~Precedes(r, p)
  <2>1. r = <<r[1], r[2]>> /\ r[1] \in Nat /\ r[2] \in Nat
    BY PlaceParts
  <2>2. r = q <=> r[1] = n /\ r[2] = i
    BY <1>2, <1>3, <2>1
  <2> QED
    BY <1>1, <1>3, <1>5, <1>6, <2>1, <2>2 DEF Precedes
<1> QED
  BY <1>2, <1>3, <1>4, <1>7 DEF Between

(* The end of one line and the beginning of the next one.                  *)
LEMMA NextLine ==
  ASSUME IsText, NEW p, NEW n \in 1..Len(lines)
  PROVE  Between(p, <<n, Len(lines[n])>>) = Between(p, <<n + 1, 0>>)
<1>1. PICK end : end = <<n, Len(lines[n])>>
  OBVIOUS
<1>2. PICK next : next = <<n + 1, 0>>
  OBVIOUS
<1>3. end[1] = n /\ end[2] = Len(lines[n]) /\ next[1] = n + 1 /\ next[2] = 0 /\ n \in Nat
  BY <1>1, <1>2
<1>4. ASSUME NEW r \in Places PROVE Precedes(end, r) <=> Precedes(next, r)
  <2>1. r[1] \in Nat /\ r[2] \in Nat /\ r[2] > 0
    BY PlaceParts
  <2>2. r[1] = n => r[2] <= Len(lines[n])
    BY PlaceParts
  <2>3. Len(lines[n]) \in Nat
    <3>1. lines[n] \in Seq(STRING)
      BY DEF IsText
    <3> QED
      BY <3>1
  <2> QED
    BY <1>3, <2>1, <2>2, <2>3 DEF Precedes
<1> QED
  BY <1>1, <1>2, <1>4 DEF Between

-----------------------------------------------------------------------------
(* Counting brackets                                                       *)

(* One place more.                                                         *)
LEMMA OnePlaceMore ==
  ASSUME NEW S, IsFiniteSet(S), NEW q, q \notin S, NEW C
  PROVE  /\ IsFiniteSet(S \cup {q})
         /\ Number(S, C) \in Nat
         /\ At(q) \in C => Number(S \cup {q}, C) = Number(S, C) + 1
         /\ At(q) \notin C => Number(S \cup {q}, C) = Number(S, C)
<1> DEFINE T == {r \in S : At(r) \in C}
           U == {r \in S \cup {q} : At(r) \in C}
<1>1. Number(S, C) = Cardinality(T) /\ Number(S \cup {q}, C) = Cardinality(U)
  BY DEF Number
<1>2. IsFiniteSet(T) /\ IsFiniteSet(S \cup {q})
  BY FS_Subset, FS_AddElement
<1>3. q \notin T /\ (At(q) \in C => U = T \cup {q}) /\ (At(q) \notin C => U = T)
  BY Zenon
<1> HIDE DEF T, U
<1> QED
  BY <1>1, <1>2, <1>3, FS_AddElement, FS_CardinalityType

-----------------------------------------------------------------------------
(* The invariant of the search for the end of a template argument list     *)

(* No more brackets are closed up to s than were opened.                   *)
Deep(p, s) == Number(Between(p, s), Closing) <= Number(Between(p, s), Opening)

(* No statement ends outside of the brackets up to q.                      *)
NoStop(p, q) == \A s \in Between(p, q) : IsStop(At(s)) => ~Balanced(p, s)

(* The search goes on: the stack begins with the "<" of p, and its other   *)
(* brackets are those that were opened up to q and not closed.             *)
Alive(a, p, q) ==
  /\ IsSearch(a) /\ a.found = 0 /\ a.failed = FALSE
  /\ IsSeq(a.stack) /\ a.stack # << >> /\ a.stack[1] = Left
  /\ IsFiniteSet(Between(p, q))
  /\ Number(Between(p, q), Opening) \in Nat /\ Number(Between(p, q), Closing) \in Nat
  /\ Number(Between(p, q), Opening) = Number(Between(p, q), Closing) + Brackets(a.stack, Left)
  /\ \A s \in Between(p, q) : Deep(p, s)
  /\ NoStop(p, q)

(* It was given up.                                                        *)
Lost(a) == a.found = 0 /\ a.failed = TRUE

(* A template argument list ends at q.                                     *)
EndsAt(p, q) == At(q) = Right /\ Balanced(p, q) /\ NoStop(p, q)

(* It has ended on line n.                                                 *)
Ended(a, p, n) == a.found # 0 /\ EndsAt(p, <<n, a.found - 1>>)

Holds(a, p, n, i) == Alive(a, p, <<n, i>>) \/ Lost(a) \/ Ended(a, p, n)

(* What Now does.                                                          *)
LEMMA NowDoes ==
  ASSUME NEW a, IsSearch(a), NEW stack, NEW at, NEW b, b = Now(a, stack, at)
  PROVE  /\ IsSearch(b) /\ b.stack = stack
         /\ b.found = IF stack = << >> THEN at ELSE 0
         /\ b.failed = (stack = << >> /\ at = 0)
BY Zenon DEF Now, IsSearch

(* The numbers of brackets up to the next place.                           *)
LEMMA NextNumbers ==
  ASSUME IsText, NEW p \in Places, NEW n, NEW i, <<n, i>> \in Places, Precedes(p, <<n, i>>),
         NEW a, Alive(a, p, <<n, i - 1>>), NEW c, c = At(<<n, i>>)
  PROVE  LET open == Number(Between(p, <<n, i>>), Opening)
             closed == Number(Between(p, <<n, i>>), Closing)
         IN /\ IsFiniteSet(Between(p, <<n, i>>)) /\ open \in Nat /\ closed \in Nat
            /\ Brackets(a.stack, Left) \in Nat
            /\ IsOpening(c) => open = closed + Brackets(a.stack, Left) + 1
            /\ IsClosing(c) => open + 1 = closed + Brackets(a.stack, Left)
            /\ ~IsOpening(c) /\ ~IsClosing(c) => open = closed + Brackets(a.stack, Left)
            /\ \A s \in Between(p, <<n, i>>) : s = <<n, i>> \/ s \in Between(p, <<n, i - 1>>)
<1>1. PICK q : q = <<n, i>>
  OBVIOUS
<1>2. PICK D : D = Between(p, <<n, i - 1>>)
  OBVIOUS
<1>3. Between(p, q) = D \cup {q} /\ q \notin D
  BY <1>1, <1>2, NextPlace
<1>4. /\ IsFiniteSet(D) /\ IsSeq(a.stack)
      /\ Number(D, Opening) \in Nat /\ Number(D, Closing) \in Nat
      /\ Number(D, Opening) = Number(D, Closing) + Brackets(a.stack, Left)
  BY <1>2 DEF Alive
<1>5. Brackets(a.stack, Left) \in Nat
  BY <1>4, BracketsAreSome
<1>6. /\ IsFiniteSet(D \cup {q})
      /\ IsOpening(c) => Number(D \cup {q}, Opening) = Number(D, Opening) + 1
      /\ ~IsOpening(c) => Number(D \cup {q}, Opening) = Number(D, Opening)
  <2>1. PICK C : C = Opening
    OBVIOUS
  <2>2. At(q) \in C <=> IsOpening(c)
    BY <1>1, <2>1 DEF IsOpening
  <2>3. q \notin D /\ IsFiniteSet(D)
    BY <1>3, <1>4
  <2> QED
    BY ONLY <2>1, <2>2, <2>3, OnePlaceMore
<1>7. /\ IsClosing(c) => Number(D \cup {q}, Closing) = Number(D, Closing) + 1
      /\ ~IsClosing(c) => Number(D \cup {q}, Closing) = Number(D, Closing)
  <2>1. PICK C : C = Closing
    OBVIOUS
  <2>2. At(q) \in C <=> IsClosing(c)
    BY <1>1, <2>1 DEF IsClosing
  <2>3. q \notin D /\ IsFiniteSet(D)
    BY <1>3, <1>4
  <2> QED
    BY ONLY <2>1, <2>2, <2>3, OnePlaceMore
<1>8. IsOpening(c) => ~IsClosing(c)
  BY OneKind
<1>9. PICK open : open = Number(D \cup {q}, Opening)
  OBVIOUS
<1>10. PICK closed : closed = Number(D \cup {q}, Closing)
  OBVIOUS
<1>11. /\ open \in Nat /\ closed \in Nat
       /\ IsOpening(c) => open = closed + Brackets(a.stack, Left) + 1
       /\ IsClosing(c) => open + 1 = closed + Brackets(a.stack, Left)
       /\ ~IsOpening(c) /\ ~IsClosing(c) => open = closed + Brackets(a.stack, Left)
  BY ONLY <1>4, <1>5, <1>6, <1>7, <1>8, <1>9, <1>10
<1> QED
  BY ONLY <1>1, <1>2, <1>3, <1>5, <1>6, <1>9, <1>10, <1>11

(* The search goes on over one place more.                                 *)
LEMMA GoesOn ==
  ASSUME IsText, NEW p \in Places, NEW n, NEW i, <<n, i>> \in Places, Precedes(p, <<n, i>>),
         NEW a, Alive(a, p, <<n, i - 1>>), NEW c, c = At(<<n, i>>),
         NEW b, IsSearch(b), b.found = 0, b.failed = FALSE,
         IsSeq(b.stack), b.stack # << >>, b.stack[1] = Left,
         IsOpening(c) => Brackets(b.stack, Left) = Brackets(a.stack, Left) + 1,
         IsClosing(c) => Brackets(b.stack, Left) = Brackets(a.stack, Left) - 1,
         ~IsOpening(c) /\ ~IsClosing(c) => Brackets(b.stack, Left) = Brackets(a.stack, Left),
         IsStop(c) => Brackets(b.stack, Left) # 0
  PROVE  Alive(b, p, <<n, i>>)
<1>1. PICK q : q = <<n, i>>
  OBVIOUS
<1>2. PICK before : before = <<n, i - 1>>
  OBVIOUS
<1>3. PICK open : open = Number(Between(p, q), Opening)
  OBVIOUS
<1>4. PICK closed : closed = Number(Between(p, q), Closing)
  OBVIOUS
<1>5. /\ IsFiniteSet(Between(p, q)) /\ open \in Nat /\ closed \in Nat
      /\ Brackets(a.stack, Left) \in Nat
      /\ IsOpening(c) => open = closed + Brackets(a.stack, Left) + 1
      /\ IsClosing(c) => open + 1 = closed + Brackets(a.stack, Left)
      /\ ~IsOpening(c) /\ ~IsClosing(c) => open = closed + Brackets(a.stack, Left)
      /\ \A s \in Between(p, q) : s = q \/ s \in Between(p, before)
  BY <1>1, <1>2, <1>3, <1>4, NextNumbers
<1>6. Brackets(b.stack, Left) \in Nat
  BY BracketsAreSome
<1>7. IsOpening(c) => ~IsClosing(c)
  BY OneKind
<1>8. open = closed + Brackets(b.stack, Left)
  BY ONLY <1>5, <1>6, <1>7,
          IsOpening(c) => Brackets(b.stack, Left) = Brackets(a.stack, Left) + 1,
          IsClosing(c) => Brackets(b.stack, Left) = Brackets(a.stack, Left) - 1,
          ~IsOpening(c) /\ ~IsClosing(c) => Brackets(b.stack, Left) = Brackets(a.stack, Left)
<1>9. \A s \in Between(p, before) : Deep(p, s)
  BY <1>2 DEF Alive
<1>10. Deep(p, q)
  <2>1. closed <= open
    BY ONLY <1>5, <1>6, <1>8
  <2> QED
    BY ONLY <1>3, <1>4, <2>1 DEF Deep
<1>11. \A s \in Between(p, q) : Deep(p, s)
  BY <1>5, <1>9, <1>10
<1>12. IsStop(At(q)) => ~Balanced(p, q)
  <2>1. IsStop(c) => closed # open
    BY <1>5, <1>6, <1>8
  <2> QED
    BY <1>1, <1>3, <1>4, <2>1 DEF Balanced
<1>13. NoStop(p, q)
  <2>1. \A s \in Between(p, before) : IsStop(At(s)) => ~Balanced(p, s)
    BY <1>2 DEF Alive, NoStop
  <2> QED
    BY ONLY <1>5, <1>12, <2>1 DEF NoStop
<1>14. Alive(b, p, q)
  BY ONLY <1>3, <1>4, <1>5, <1>8, <1>11, <1>13,
          IsSearch(b), b.found = 0, b.failed = FALSE,
          IsSeq(b.stack), b.stack # << >>, b.stack[1] = Left DEF Alive
<1> QED
  BY <1>1, <1>14

(* A ">" when all the other brackets are closed ends the list.             *)
LEMMA EndsWell ==
  ASSUME IsText, NEW p \in Places, NEW n, NEW i, <<n, i>> \in Places, Precedes(p, <<n, i>>),
         NEW a, Alive(a, p, <<n, i - 1>>), At(<<n, i>>) = Right, Brackets(a.stack, Left) = 0
  PROVE  EndsAt(p, <<n, i>>)
<1>1. PICK q : q = <<n, i>>
  OBVIOUS
<1>2. PICK before : before = <<n, i - 1>>
  OBVIOUS
<1>3. PICK c : c = At(<<n, i>>)
  OBVIOUS
<1>4. PICK open : open = Number(Between(p, q), Opening)
  OBVIOUS
<1>5. PICK closed : closed = Number(Between(p, q), Closing)
  OBVIOUS
<1>6. ~IsOpening(c) /\ ~IsClosing(c) /\ ~IsStop(c)
  BY <1>3, OneKind
<1>7. /\ open \in Nat /\ closed \in Nat
      /\ ~IsOpening(c) /\ ~IsClosing(c) => open = closed + Brackets(a.stack, Left)
      /\ \A s \in Between(p, q) : s = q \/ s \in Between(p, before)
  BY <1>1, <1>2, <1>3, <1>4, <1>5, NextNumbers
<1>8. open = closed
  BY <1>6, <1>7
<1>9. Deep(p, q)
  BY <1>4, <1>5, <1>7, <1>8 DEF Deep
<1>10. \A s \in Between(p, q) : Deep(p, s)
  BY <1>2, <1>7, <1>9 DEF Alive
<1>11. Balanced(p, q)
  BY <1>4, <1>5, <1>8, <1>10 DEF Balanced, Deep
<1>12. NoStop(p, q)
  BY <1>1, <1>2, <1>3, <1>6, <1>7 DEF Alive, NoStop
<1> QED
  BY <1>1, <1>11, <1>12 DEF EndsAt

(* One character more, and the search goes on as it should, is given up or *)
(* ends at the end of a list.                                              *)
LEMMA StepHolds ==
  ASSUME IsText, NEW p \in Places, NEW n, NEW i, <<n, i>> \in Places, Precedes(p, <<n, i>>),
         NEW a, Holds(a, p, n, i - 1)
  PROVE  Holds(CloseStep(lines[n], a, i), p, n, i)
<1>1. PICK b : b = CloseStep(lines[n], a, i)
  OBVIOUS
<1>2. PICK c : c = At(<<n, i>>)
  OBVIOUS
<1>3. c = lines[n][i] /\ n \in Nat /\ i \in Nat /\ i > 0
  <2>1. PICK q : q = <<n, i>>
    OBVIOUS
  <2>2. q[1] = n /\ q[2] = i /\ At(q) = lines[q[1]][q[2]]
    BY <2>1 DEF At
  <2> QED
    BY <1>2, <2>1, <2>2, PlaceParts
<1>4. CASE Over(a)
  <2>1. b = a
    BY <1>1, <1>4, Zenon DEF CloseStep
  <2>2. ~Alive(a, p, <<n, i - 1>>)
    BY <1>4 DEF Alive, Over
  <2> QED
    BY <1>1, <2>1, <2>2 DEF Holds
<1>5. CASE ~Over(a)
  <2>1. Alive(a, p, <<n, i - 1>>)
    BY <1>5 DEF Holds, Lost, Ended, Over
  <2>2. PICK stack : stack = a.stack
    OBVIOUS
  <2>3. PICK rest : rest = DropAngles(stack, Left)
    OBVIOUS
  <2>4. PICK popped : popped = Front(stack)
    OBVIOUS
  <2>5. /\ IsSearch(a) /\ a.found = 0 /\ a.failed = FALSE
        /\ IsSeq(stack) /\ stack # << >> /\ stack[1] = Left
    BY <2>1, <2>2 DEF Alive
  <2>6. Brackets(stack, Left) \in Nat
    BY <2>5, BracketsAreSome
  <2>7. ASSUME NEW d, d = [a EXCEPT !.stack = Append(@, c)]
        PROVE  IsSearch(d) /\ d.found = 0 /\ d.failed = FALSE /\ d.stack = Append(stack, c)
    BY <2>2, <2>5, <2>7, Zenon DEF IsSearch
  <2>8. /\ IsSeq(Append(stack, c)) /\ Append(stack, c) # << >>
        /\ Append(stack, c)[1] = stack[1]
        /\ c = Left => Brackets(Append(stack, c), Left) = Brackets(stack, Left)
        /\ c # Left => Brackets(Append(stack, c), Left) = Brackets(stack, Left) + 1
    BY <2>5, PushedBracket
  <2>9. /\ IsSeq(rest) /\ Brackets(rest, Left) = Brackets(stack, Left)
        /\ rest = << >> <=> Brackets(stack, Left) = 0
        /\ rest # << >> => rest[1] = stack[1] /\ Last(rest) # Left
    BY <2>3, <2>5, DroppedAngles
  <2>10. /\ IsSeq(popped)
         /\ popped = << >> <=> Len(stack) = 1
         /\ popped # << >> => popped[1] = stack[1]
         /\ Last(stack) = Left => Brackets(popped, Left) = Brackets(stack, Left)
    BY <2>4, <2>5, PoppedBracket
  <2>11. ASSUME b = a, ~IsOpening(c), ~IsClosing(c), ~IsStop(c)
         PROVE  Alive(b, p, <<n, i>>)
    BY <1>2, <2>1, <2>2, <2>5, <2>11, GoesOn
  <2>12. BecomesByKind(a, i, c, rest, b)
    <3>1. PICK line : line = lines[n]
      OBVIOUS
    <3>2. b = CloseStep(line, a, i) /\ c = line[i] /\ rest = DropAngles(a.stack, Left)
      BY <1>1, <1>3, <2>2, <2>3, <3>1
    <3> QED
      BY ONLY <1>5, <3>2, StepByKind
  <2>13. CASE IsOpening(c)
    <3>1. b = [a EXCEPT !.stack = Append(@, c)]
      BY <2>13, <2>12 DEF BecomesByKind
    <3>2. IsSearch(b) /\ b.found = 0 /\ b.failed = FALSE /\ b.stack = Append(stack, c)
      BY <2>7, <3>1, Zenon
    <3>3. ~IsClosing(c) /\ c # Left /\ ~IsStop(c)
      BY <2>13, OneKind
    <3>4. Alive(b, p, <<n, i>>)
      BY <1>2, <2>1, <2>2, <2>5, <2>8, <2>13, <3>2, <3>3, GoesOn
    <3> QED
      BY <1>1, <3>4 DEF Holds
  <2>14. CASE c = Left
    <3>1. \/ b = a
          \/ b = [a EXCEPT !.stack = Append(@, c)]
          \/ Waiting(a, Left) /\ b = Now(a, Front(a.stack), 0)
      BY <2>14, <2>12 DEF BecomesByKind
    <3>2. ~IsOpening(c) /\ ~IsClosing(c) /\ ~IsStop(c)
      BY <2>14, OneKind
    <3>3. CASE b = a
      BY <1>1, <2>11, <3>2, <3>3 DEF Holds
    <3>4. CASE b = [a EXCEPT !.stack = Append(@, c)]
      <4>1. IsSearch(b) /\ b.found = 0 /\ b.failed = FALSE /\ b.stack = Append(stack, c)
        BY <2>7, <3>4, Zenon
      <4>2. Alive(b, p, <<n, i>>)
        BY <1>2, <2>1, <2>2, <2>5, <2>8, <2>14, <3>2, <4>1, GoesOn
      <4> QED
        BY <1>1, <4>2 DEF Holds
    <3>5. CASE Waiting(a, Left) /\ b = Now(a, Front(a.stack), 0)
      <4>1. b = Now(a, popped, 0) /\ Last(stack) = Left
        BY <2>2, <2>4, <3>5 DEF Waiting
      <4>2. /\ IsSearch(b) /\ b.stack = popped
            /\ b.found = IF popped = << >> THEN 0 ELSE 0
            /\ b.failed = (popped = << >> /\ 0 = 0)
        BY <2>5, <4>1, NowDoes
      <4>3. CASE popped = << >>
        <5>1. Lost(b)
          BY <4>2, <4>3 DEF Lost
        <5> QED
          BY <1>1, <5>1 DEF Holds
      <4>4. CASE popped # << >>
        <5>1. IsSearch(b) /\ b.found = 0 /\ b.failed = FALSE /\ b.stack = popped
          BY <4>2, <4>4
        <5>2. Alive(b, p, <<n, i>>)
          BY <1>2, <2>1, <2>2, <2>5, <2>10, <3>2, <4>1, <4>4, <5>1, GoesOn
        <5> QED
          BY <1>1, <5>2 DEF Holds
      <4> QED
        BY <4>3, <4>4
    <3> QED
      BY <3>1, <3>3, <3>4, <3>5
  <2>15. CASE IsClosing(c)
    <3>1. \/ rest = << >> /\ b = Now(a, rest, 0)
          \/ rest # << >> /\ b = Now(a, Front(rest), i + 1)
          \/ b = [a EXCEPT !.failed = TRUE]
      BY <2>15, <2>12 DEF BecomesByKind
    <3>2. ~IsOpening(c) /\ ~IsStop(c)
      BY <2>15, OneKind
    <3>3. CASE rest = << >> /\ b = Now(a, rest, 0)
      <4>1. b.found = (IF rest = << >> THEN 0 ELSE 0) /\ b.failed = (rest = << >> /\ 0 = 0)
        BY <2>5, <3>3, NowDoes
      <4>2. Lost(b)
        BY <3>3, <4>1 DEF Lost
      <4> QED
        BY <1>1, <4>2 DEF Holds
    <3>4. CASE rest # << >> /\ b = Now(a, Front(rest), i + 1)
      <4>1. PICK left : left = Front(rest)
        OBVIOUS
      <4>2. /\ IsSeq(left)
            /\ left = << >> <=> Len(rest) = 1
            /\ left # << >> => left[1] = rest[1]
            /\ Brackets(left, Left) = Brackets(rest, Left) - 1
        BY <2>9, <3>4, <4>1, PoppedBracket
      <4>3. left # << >>
        <5>1. Last(rest) = rest[Len(rest)]
          BY <2>9, <3>4, Popped
        <5>2. Len(rest) # 1
          BY <2>5, <2>9, <3>4, <5>1
        <5> QED
          BY <4>2, <5>2
      <4>4. /\ IsSearch(b) /\ b.stack = left
            /\ b.found = IF left = << >> THEN i + 1 ELSE 0
            /\ b.failed = (left = << >> /\ i + 1 = 0)
        BY <2>5, <3>4, <4>1, NowDoes
      <4>5. IsSearch(b) /\ b.found = 0 /\ b.failed = FALSE /\ b.stack = left
        BY <4>3, <4>4
      <4>6. left[1] = Left /\ Brackets(left, Left) = Brackets(stack, Left) - 1
        BY <2>5, <2>9, <3>4, <4>2, <4>3
      <4>7. Alive(b, p, <<n, i>>)
        BY <1>2, <2>1, <2>2, <2>15, <3>2, <4>2, <4>3, <4>5, <4>6, GoesOn
      <4> QED
        BY <1>1, <4>7 DEF Holds
    <3>5. CASE b = [a EXCEPT !.failed = TRUE]
      <4>1. b.found = 0 /\ b.failed = TRUE
        BY <2>5, <3>5, Zenon DEF IsSearch
      <4> QED
        BY <1>1, <4>1 DEF Holds, Lost
    <3> QED
      BY <3>1, <3>3, <3>4, <3>5
  <2>16. CASE c = Right
    <3>1. \/ b = a
          \/ Waiting(a, Left) /\ b = Now(a, Front(a.stack), i + 1)
      BY <2>16, <2>12 DEF BecomesByKind
    <3>2. ~IsOpening(c) /\ ~IsClosing(c) /\ ~IsStop(c)
      BY <2>16, OneKind
    <3>3. CASE b = a
      BY <1>1, <2>11, <3>2, <3>3 DEF Holds
    <3>4. CASE Waiting(a, Left) /\ b = Now(a, Front(a.stack), i + 1)
      <4>1. b = Now(a, popped, i + 1) /\ Last(stack) = Left
        BY <2>2, <2>4, <3>4 DEF Waiting
      <4>2. /\ IsSearch(b) /\ b.stack = popped
            /\ b.found = IF popped = << >> THEN i + 1 ELSE 0
            /\ b.failed = (popped = << >> /\ i + 1 = 0)
        BY <2>5, <4>1, NowDoes
      <4>3. CASE popped = << >>
        <5>1. b.found # 0 /\ b.found - 1 = i
          BY <1>3, <4>2, <4>3
        <5>2. Brackets(popped, Left) = 0
          <6>1. Others(popped, Left) = {}
            <7>1. Len(popped) = 0
              BY <4>3
            <7> QED
              BY <7>1 DEF Others
          <6> QED
            BY <2>10, <6>1, BracketsAreSome
        <5>3. Brackets(a.stack, Left) = 0
          BY <2>2, <2>10, <4>1, <5>2
        <5>4. EndsAt(p, <<n, i>>)
          BY <1>2, <2>1, <2>16, <5>3, EndsWell
        <5> QED
          BY <1>1, <5>1, <5>4 DEF Holds, Ended
      <4>4. CASE popped # << >>
        <5>1. IsSearch(b) /\ b.found = 0 /\ b.failed = FALSE /\ b.stack = popped
          BY <4>2, <4>4
        <5>2. Alive(b, p, <<n, i>>)
          BY <1>2, <2>1, <2>2, <2>5, <2>10, <3>2, <4>1, <4>4, <5>1, GoesOn
        <5> QED
          BY <1>1, <5>2 DEF Holds
      <4> QED
        BY <4>3, <4>4
    <3> QED
      BY <3>1, <3>3, <3>4
  <2>17. CASE IsStop(c)
    <3>1. b = Now(a, rest, 0)
      BY <2>17, <2>12 DEF BecomesByKind
    <3>2. ~IsOpening(c) /\ ~IsClosing(c)
      BY <2>17, OneKind
    <3>3. /\ IsSearch(b) /\ b.stack = rest
          /\ b.found = IF rest = << >> THEN 0 ELSE 0
          /\ b.failed = (rest = << >> /\ 0 = 0)
      BY <2>5, <3>1, NowDoes
    <3>4. CASE rest = << >>
      <4>1. Lost(b)
        BY <3>3, <3>4 DEF Lost
      <4> QED
        BY <1>1, <4>1 DEF Holds
    <3>5. CASE rest # << >>
      <4>1. IsSearch(b) /\ b.found = 0 /\ b.failed = FALSE /\ b.stack = rest
        BY <3>3, <3>5
      <4>2. rest[1] = Left /\ Brackets(rest, Left) = Brackets(stack, Left) /\ Brackets(rest, Left) # 0
        BY <2>5, <2>9, <3>5
      <4>3. Alive(b, p, <<n, i>>)
        BY <1>2, <2>1, <2>2, <2>9, <3>2, <3>5, <4>1, <4>2, GoesOn
      <4> QED
        BY <1>1, <4>3 DEF Holds
    <3> QED
      BY <3>4, <3>5
  <2>18. CASE ~IsOpening(c) /\ c # Left /\ ~IsClosing(c) /\ c # Right /\ ~IsStop(c)
    <3>1. b = a
      BY <2>18, <2>12 DEF BecomesByKind
    <3> QED
      BY <1>1, <2>11, <2>18, <3>1 DEF Holds
  <2> QED
    BY <2>13, <2>14, <2>15, <2>16, <2>17, <2>18
<1> QED
  BY <1>4, <1>5

-----------------------------------------------------------------------------
(* Lines                                                                   *)

(* The loop over the characters of a line, as what it computes.            *)
LineRun(line, startpos, a, after) ==
  /\ after[startpos - 1] = a
  /\ \A i \in startpos..Len(line) : after[i] = CloseStep(line, after[i - 1], i)
  /\ FindEndOfExpressionInLine(line, startpos, a) = after[Len(line)]

(* There are such values.                                                  *)
LEMMA LineLoop ==
  ASSUME NEW line, Len(line) \in Nat, NEW startpos \in 1..(Len(line) + 1), NEW a
  PROVE  \E after : LineRun(line, startpos, a, after)
<1> DEFINE lo == startpos - 1
           hi == Len(line)
           base == a
           Step(b, i) == CloseStep(line, b, i)
           Run(f, k) == f[lo] = base /\ \A i \in (lo + 1)..(lo + k) : f[i] = Step(f[i - 1], i)
           Loop(f) == f = [i \in lo..hi |-> IF i = lo THEN base ELSE Step(f[i - 1], i)]
           P == {k \in 0..(hi - lo) : \E f : Run(f, k)}
           loop == CHOOSE f : Loop(f)
<1>1. FindEndOfExpressionInLine(line, startpos, a) = loop[hi]
  BY DEF FindEndOfExpressionInLine
<1>2. lo \in Nat /\ hi \in Nat /\ hi - lo \in Nat
  OBVIOUS
<1> HIDE DEF lo, hi, base, Step
<1>3. 0 \in P
  <2> DEFINE g == [i \in lo..lo |-> base]
  <2>1. g[lo] = base /\ (lo + 1)..(lo + 0) = {}
    BY <1>2
  <2>2. Run(g, 0)
    BY <2>1
  <2>3. \E f : Run(f, 0)
    BY <2>2, Zenon
  <2>4. 0 \in 0..(hi - lo)
    BY <1>2
  <2> QED
    BY <2>3, <2>4, Zenon
<1>4. ASSUME NEW k \in 0..(hi - lo - 1), k \in P PROVE k + 1 \in P
  <2>1. PICK f : Run(f, k)
    BY <1>4
  <2> DEFINE next == lo + (k + 1)
             g == [i \in lo..next |-> IF i = next THEN Step(f[next - 1], next) ELSE f[i]]
  <2>2. k \in Nat /\ k + 1 \in 0..(hi - lo) /\ next \in Nat /\ next > lo
    BY <1>2
  <2>3. g[lo] = base
    BY <1>2, <2>1, <2>2
  <2>4. ASSUME NEW i \in (lo + 1)..next PROVE g[i] = Step(g[i - 1], i)
    <3>1. CASE i = next
      <4>1. g[i] = Step(f[next - 1], next) /\ g[i - 1] = f[next - 1]
        BY <1>2, <2>2, <3>1
      <4> QED
        BY <3>1, <4>1
    <3>2. CASE i # next
      <4>1. i \in (lo + 1)..(lo + k) /\ g[i] = f[i] /\ g[i - 1] = f[i - 1]
        BY <1>2, <2>2, <3>2
      <4> QED
        BY <2>1, <4>1
    <3> QED
      BY <3>1, <3>2
  <2>5. Run(g, k + 1)
    BY <2>3, <2>4
  <2>6. \E h : Run(h, k + 1)
    BY <2>5, Zenon
  <2> QED
    BY <2>2, <2>6, Zenon
<1>5. P \in SUBSET (0..(hi - lo))
  OBVIOUS
<1>6. PICK f : Run(f, hi - lo)
  <2>1. PICK N : N = hi - lo
    OBVIOUS
  <2>2. N \in Nat /\ 0..(N - 1) = 0..(hi - lo - 1)
    BY <1>2, <2>1
  <2>3. \A k \in 0..N : k \in P
    <3> HIDE DEF P
    <3> QED
      BY <1>3, <1>4, <1>5, <2>1, <2>2, NaturalSteps
  <2>4. N \in P
    BY <2>2, <2>3
  <2> QED
    BY <2>1, <2>4, Zenon
<1>7. f[lo] = base /\ \A i \in (lo + 1)..hi : f[i] = Step(f[i - 1], i)
  <2>1. lo + (hi - lo) = hi
    BY <1>2
  <2> QED
    BY <1>6, <2>1
<1>8. Loop([i \in lo..hi |-> f[i]])
  <2> DEFINE g == [i \in lo..hi |-> f[i]]
  <2>1. \A i \in lo..hi : g[i] = IF i = lo THEN base ELSE Step(g[i - 1], i)
    <3> TAKE i \in lo..hi
    <3>1. CASE i = lo
      BY <1>7, <3>1
    <3>2. CASE i # lo
      <4>1. i \in (lo + 1)..hi /\ g[i] = f[i] /\ g[i - 1] = f[i - 1]
        BY <1>2, <3>2
      <4> QED
        BY <1>7, <3>2, <4>1
    <3> QED
      BY <3>1, <3>2
  <2> QED
    BY <2>1
<1>9. Loop(loop)
  BY <1>8, Zenon
<1>10. loop[lo] = base /\ \A i \in (lo + 1)..hi : loop[i] = Step(loop[i - 1], i)
  <2>1. PICK g : g = loop
    OBVIOUS
  <2>2. g = [i \in lo..hi |-> IF i = lo THEN base ELSE Step(g[i - 1], i)]
    BY <1>9, <2>1, Zenon
  <2>3. g[lo] = base /\ \A i \in (lo + 1)..hi : g[i] = Step(g[i - 1], i)
    BY <1>2, <2>2
  <2> QED
    BY <2>1, <2>3
<1> HIDE DEF loop
<1>11. startpos = lo + 1
  BY DEF lo
<1>12. LineRun(line, startpos, a, loop)
  BY <1>1, <1>10, <1>11 DEF LineRun, lo, hi, base, Step
<1> QED
  BY <1>12, Zenon

(* The loop over the lines.                                                *)
LinesRun(linenum, pos, after) ==
  /\ after[linenum - 1] = [n |-> linenum, a |-> Search(<< >>)]
  /\ \A n \in linenum..Len(lines) : after[n] = CloseLine(lines, linenum, pos, after[n - 1], n)
  /\ \/ CloseExpression(lines, linenum, pos) = Nowhere
     \/ /\ after[Len(lines)].a.found # 0
        /\ CloseExpression(lines, linenum, pos)
             = [line |-> after[Len(lines)].n, pos |-> after[Len(lines)].a.found]
  /\ IsOpening(lines[linenum][pos]) /\ CloseExpression(lines, linenum, pos) = Nowhere
       => after[Len(lines)].a.found = 0

(* There are such values.                                                  *)
LEMMA LinesLoop ==
  ASSUME Len(lines) \in Nat, NEW linenum \in 1..Len(lines), NEW pos
  PROVE  \E after : LinesRun(linenum, pos, after)
<1> DEFINE lo == linenum - 1
           hi == Len(lines)
           base == [n |-> linenum, a |-> Search(<< >>)]
           Step(b, i) == CloseLine(lines, linenum, pos, b, i)
           Run(f, k) == f[lo] = base /\ \A i \in (lo + 1)..(lo + k) : f[i] = Step(f[i - 1], i)
           Loop(f) == f = [i \in lo..hi |-> IF i = lo THEN base ELSE Step(f[i - 1], i)]
           P == {k \in 0..(hi - lo) : \E f : Run(f, k)}
           loop == CHOOSE f : Loop(f)
<1>1. \/ CloseExpression(lines, linenum, pos) = Nowhere
      \/ /\ loop[hi].a.found # 0
         /\ CloseExpression(lines, linenum, pos) = [line |-> loop[hi].n, pos |-> loop[hi].a.found]
  BY Zenon DEF CloseExpression
<1>2. IsOpening(lines[linenum][pos]) /\ CloseExpression(lines, linenum, pos) = Nowhere => loop[hi].a.found = 0
  <2> DEFINE first == lines[linenum]
  <2> SUFFICES ASSUME IsOpening(first[pos]), loop[hi].a.found # 0 PROVE CloseExpression(lines, linenum, pos) # Nowhere
    BY Zenon
  <2>1. ~(first[pos] \notin Opening \cup {"<"}) /\ first[pos] # "<"
    BY OneKind, Zenon DEF IsOpening, Left
  <2>2. CloseExpression(lines, linenum, pos) = [line |-> loop[hi].n, pos |-> loop[hi].a.found]
    BY <2>1, Zenon DEF CloseExpression
  <2>3. [line |-> loop[hi].n, pos |-> loop[hi].a.found].pos # Nowhere.pos
    BY DEF Nowhere
  <2> QED
    BY <2>2, <2>3, Zenon
<1>3. lo \in Nat /\ hi \in Nat /\ hi - lo \in Nat
  OBVIOUS
<1> HIDE DEF lo, hi, base, Step
<1>4. 0 \in P
  <2> DEFINE g == [i \in lo..lo |-> base]
  <2>1. g[lo] = base /\ (lo + 1)..(lo + 0) = {}
    BY <1>3
  <2>2. Run(g, 0)
    BY <2>1
  <2>3. \E f : Run(f, 0)
    BY <2>2, Zenon
  <2>4. 0 \in 0..(hi - lo)
    BY <1>3
  <2> QED
    BY <2>3, <2>4, Zenon
<1>5. ASSUME NEW k \in 0..(hi - lo - 1), k \in P PROVE k + 1 \in P
  <2>1. PICK f : Run(f, k)
    BY <1>5
  <2> DEFINE next == lo + (k + 1)
             g == [i \in lo..next |-> IF i = next THEN Step(f[next - 1], next) ELSE f[i]]
  <2>2. k \in Nat /\ k + 1 \in 0..(hi - lo) /\ next \in Nat /\ next > lo
    BY <1>3
  <2>3. g[lo] = base
    BY <1>3, <2>1, <2>2
  <2>4. ASSUME NEW i \in (lo + 1)..next PROVE g[i] = Step(g[i - 1], i)
    <3>1. CASE i = next
      <4>1. g[i] = Step(f[next - 1], next) /\ g[i - 1] = f[next - 1]
        BY <1>3, <2>2, <3>1
      <4> QED
        BY <3>1, <4>1
    <3>2. CASE i # next
      <4>1. i \in (lo + 1)..(lo + k) /\ g[i] = f[i] /\ g[i - 1] = f[i - 1]
        BY <1>3, <2>2, <3>2
      <4> QED
        BY <2>1, <4>1
    <3> QED
      BY <3>1, <3>2
  <2>5. Run(g, k + 1)
    BY <2>3, <2>4
  <2>6. \E h : Run(h, k + 1)
    BY <2>5, Zenon
  <2> QED
    BY <2>2, <2>6, Zenon
<1>6. P \in SUBSET (0..(hi - lo))
  OBVIOUS
<1>7. PICK f : Run(f, hi - lo)
  <2>1. PICK N : N = hi - lo
    OBVIOUS
  <2>2. N \in Nat /\ 0..(N - 1) = 0..(hi - lo - 1)
    BY <1>3, <2>1
  <2>3. \A k \in 0..N : k \in P
    <3> HIDE DEF P
    <3> QED
      BY <1>4, <1>5, <1>6, <2>1, <2>2, NaturalSteps
  <2>4. N \in P
    BY <2>2, <2>3
  <2> QED
    BY <2>1, <2>4, Zenon
<1>8. f[lo] = base /\ \A i \in (lo + 1)..hi : f[i] = Step(f[i - 1], i)
  <2>1. lo + (hi - lo) = hi
    BY <1>3
  <2> QED
    BY <1>7, <2>1
<1>9. Loop([i \in lo..hi |-> f[i]])
  <2> DEFINE g == [i \in lo..hi |-> f[i]]
  <2>1. \A i \in lo..hi : g[i] = IF i = lo THEN base ELSE Step(g[i - 1], i)
    <3> TAKE i \in lo..hi
    <3>1. CASE i = lo
      BY <1>8, <3>1
    <3>2. CASE i # lo
      <4>1. i \in (lo + 1)..hi /\ g[i] = f[i] /\ g[i - 1] = f[i - 1]
        BY <1>3, <3>2
      <4> QED
        BY <1>8, <3>2, <4>1
    <3> QED
      BY <3>1, <3>2
  <2> QED
    BY <2>1
<1>10. Loop(loop)
  BY <1>9, Zenon
<1>11. loop[lo] = base /\ \A i \in (lo + 1)..hi : loop[i] = Step(loop[i - 1], i)
  <2>1. PICK g : g = loop
    OBVIOUS
  <2>2. g = [i \in lo..hi |-> IF i = lo THEN base ELSE Step(g[i - 1], i)]
    BY <1>10, <2>1, Zenon
  <2>3. g[lo] = base /\ \A i \in (lo + 1)..hi : g[i] = Step(g[i - 1], i)
    BY <1>3, <2>2
  <2> QED
    BY <2>1, <2>3
<1> HIDE DEF loop
<1>12. linenum = lo + 1
  BY DEF lo
<1>13. LinesRun(linenum, pos, loop)
  BY <1>1, <1>2, <1>11, <1>12 DEF LinesRun, lo, hi, base, Step
<1> QED
  BY <1>13, Zenon

(* A line after the one on which the search begins.                        *)
LEMMA LineHolds ==
  ASSUME IsText, NEW p \in Places, NEW n \in 1..Len(lines), p[1] < n,
         NEW a, Holds(a, p, n, 0)
  PROVE  Holds(FindEndOfExpressionInLine(lines[n], 1, a), p, n, Len(lines[n]))
<1>1. PICK line : line = lines[n]
  OBVIOUS
<1>2. Len(line) \in Nat
  <2>1. line \in Seq(STRING)
    BY <1>1 DEF IsText
  <2> QED
    BY <2>1
<1>3. PICK after : LineRun(line, 1, a, after)
  <2>1. 1 \in 1..(Len(line) + 1)
    BY <1>2
  <2> QED
    BY <1>2, <2>1, LineLoop
<1> DEFINE P == {k \in 0..Len(line) : Holds(after[k], p, n, k)}
<1>4. 0 \in P
  <2>1. after[0] = a
    BY <1>3 DEF LineRun
  <2> QED
    BY <1>2, <2>1
<1>5. ASSUME NEW k \in 0..(Len(line) - 1), k \in P PROVE k + 1 \in P
  <2>1. PICK i : i = k + 1
    OBVIOUS
  <2>2. i \in 1..Len(line) /\ i - 1 = k /\ i \in 0..Len(line)
    BY <1>2, <2>1
  <2>3. after[i] = CloseStep(line, after[k], i)
    BY <1>3, <2>2 DEF LineRun
  <2>4. Holds(after[k], p, n, i - 1)
    BY <1>5, <2>2
  <2>5. <<n, i>> \in Places
    BY <1>1, <2>2, APlace
  <2>6. Precedes(p, <<n, i>>)
    BY DEF Precedes
  <2>7. Holds(after[i], p, n, i)
    BY <1>1, <2>3, <2>4, <2>5, <2>6, StepHolds
  <2> QED
    BY <2>1, <2>2, <2>7
<1>6. Len(line) \in P
  <2>1. P \in SUBSET (0..Len(line))
    OBVIOUS
  <2>2. \A k \in 0..Len(line) : k \in P
    <3> HIDE DEF P
    <3> QED
      BY <1>2, <1>4, <1>5, <2>1, NaturalSteps
  <2> QED
    BY <1>2, <2>2
<1> QED
  BY <1>1, <1>3, <1>6 DEF LineRun

(* The first character of the search.                                      *)
LEMMA Begins ==
  ASSUME IsText, NEW p \in Places, MayBeginList(p)
  PROVE  Holds(CloseStep(lines[p[1]], Search(<< >>), p[2]), p, p[1], p[2])
<1>1. PICK line : line = lines[p[1]]
  OBVIOUS
<1>2. PICK i : i = p[2]
  OBVIOUS
<1>3. PICK b : b = CloseStep(line, Search(<< >>), i)
  OBVIOUS
<1>4. p = <<p[1], i>> /\ i \in Nat /\ i > 0 /\ p[1] \in Nat
  BY <1>2, PlaceParts
<1>5. line[i] = Left /\ ~(i > 1 /\ line[i - 1] = "<") /\ ~AfterOperator(line, i)
  <2>1. At(p) = line[i]
    BY <1>1, <1>2 DEF At
  <2>2. PICK q : q = <<p[1], i - 1>>
    OBVIOUS
  <2>3. At(q) = line[i - 1]
    BY <1>1, <2>2 DEF At
  <2>4. i > 1 => At(q) # "<"
    BY <1>2, <2>2, Zenon DEF MayBeginList
  <2>5. At(p) = "<" /\ ~AfterOperator(line, i)
    BY <1>1, <1>2, Zenon DEF MayBeginList
  <2> QED
    BY <2>1, <2>3, <2>4, <2>5, Zenon DEF Left
<1>6. b = [Search(<< >>) EXCEPT !.stack = Append(@, "<")]
  <2>1. ~Over(Search(<< >>))
    BY DEF Over, Search
  <2>2. line[i] \notin Opening /\ line[i] = "<" /\ line[i] \notin Closing /\ line[i] # ">" /\ line[i] # ";"
    BY <1>5, Zenon DEF Left, Opening, Closing
  <2>3. PICK a : a = Search(<< >>)
    OBVIOUS
  <2>4. CloseStep(line, a, i) = [a EXCEPT !.stack = Append(@, "<")]
    BY ONLY <1>5, <2>1, <2>2, <2>3, Zenon DEF CloseStep
  <2> QED
    BY <1>3, <2>3, <2>4
<1>7. PICK angle : angle = "<"
  OBVIOUS
<1>8. angle = Left
  BY <1>7, Zenon DEF Left
<1>9. /\ IsSearch(b) /\ b.found = 0 /\ b.failed = FALSE
      /\ b.stack = Append(<< >>, angle)
  <2>1. b = [stack |-> Append(<< >>, angle), found |-> 0, failed |-> FALSE, skip |-> FALSE]
    BY <1>6, <1>7, Zenon DEF Search
  <2> QED
    BY <2>1 DEF IsSearch
<1>10. /\ IsSeq(b.stack) /\ b.stack # << >> /\ b.stack[1] = angle /\ Brackets(b.stack, Left) = 0
  <2>1. PICK empty : empty = << >>
    OBVIOUS
  <2>2. IsSeq(empty) /\ Len(empty) = 0
    <3>1. empty \in Seq({})
      BY ONLY <2>1
    <3> QED
      BY ONLY <2>1, <3>1 DEF IsSeq
  <2>3. Brackets(empty, Left) = 0
    <3>1. Others(empty, Left) = {}
      BY <2>2 DEF Others
    <3> QED
      BY <2>2, <3>1, BracketsAreSome
  <2>4. /\ IsSeq(Append(empty, angle)) /\ Append(empty, angle) # << >>
        /\ empty = << >> => Append(empty, angle)[1] = angle
        /\ angle = Left => Brackets(Append(empty, angle), Left) = Brackets(empty, Left)
    BY <2>2, PushedBracket
  <2> QED
    BY <1>8, <1>9, <2>1, <2>3, <2>4
<1>11. Between(p, p) = {p}
  BY FirstPlace
<1>12. At(p) = Left
  BY <1>1, <1>2, <1>5 DEF At
<1>13. ~IsOpening(At(p)) /\ ~IsClosing(At(p)) /\ ~IsStop(At(p))
  BY <1>12, OneKind
<1>14. Number(Between(p, p), Opening) = 0 /\ Number(Between(p, p), Closing) = 0
  <2>1. {r \in {p} : At(r) \in Opening} = {} /\ {r \in {p} : At(r) \in Closing} = {}
    BY <1>13, Zenon DEF IsOpening, IsClosing
  <2> QED
    BY <1>11, <2>1, FS_EmptySet DEF Number
<1>15. IsFiniteSet(Between(p, p))
  BY <1>11, FS_Singleton
<1>16. \A s \in Between(p, p) : Deep(p, s)
  BY <1>11, <1>14 DEF Deep
<1>17. NoStop(p, p)
  BY <1>11, <1>13 DEF NoStop
<1>18. Alive(b, p, p)
  BY <1>8, <1>9, <1>10, <1>14, <1>15, <1>16, <1>17 DEF Alive
<1> QED
  BY <1>1, <1>2, <1>3, <1>4, <1>18 DEF Holds

(* The line on which it begins.                                            *)
LEMMA FirstLineHolds ==
  ASSUME IsText, NEW p \in Places, MayBeginList(p)
  PROVE  Holds(FindEndOfExpressionInLine(lines[p[1]], p[2], Search(<< >>)), p, p[1], Len(lines[p[1]]))
<1>1. PICK line : line = lines[p[1]]
  OBVIOUS
<1>2. PICK from : from = p[2]
  OBVIOUS
<1>3. PICK n : n = p[1]
  OBVIOUS
<1>4. /\ Len(line) \in Nat /\ from \in Nat /\ from > 0 /\ from \in 1..Len(line)
      /\ n \in 1..Len(lines) /\ n \in Nat
  BY <1>1, <1>2, <1>3, PlaceParts
<1>5. PICK after : LineRun(line, from, Search(<< >>), after)
  <2>1. from \in 1..(Len(line) + 1)
    BY <1>4
  <2> QED
    BY <1>4, <2>1, LineLoop
<1>6. /\ after[from - 1] = Search(<< >>)
      /\ \A i \in from..Len(line) : after[i] = CloseStep(line, after[i - 1], i)
  BY <1>5 DEF LineRun
<1> DEFINE N == Len(line) - from
           P == {k \in 0..N : Holds(after[from + k], p, n, from + k)}
<1>7. N \in Nat
  BY <1>4
<1>8. 0 \in P
  <2>1. after[from] = CloseStep(line, Search(<< >>), from)
    BY <1>4, <1>6
  <2>2. Holds(after[from], p, n, from)
    BY <1>1, <1>2, <1>3, <2>1, Begins
  <2>3. from + 0 = from
    BY <1>4
  <2> QED
    BY <1>7, <2>2, <2>3
<1>9. ASSUME NEW k \in 0..(N - 1), k \in P PROVE k + 1 \in P
  <2>1. PICK i : i = from + (k + 1)
    OBVIOUS
  <2>2. i \in 1..Len(line) /\ i \in from..Len(line) /\ i - 1 = from + k /\ i > from /\ k + 1 \in 0..N
    BY <1>4, <2>1
  <2>3. after[i] = CloseStep(line, after[i - 1], i)
    BY <1>6, <2>2
  <2>4. Holds(after[i - 1], p, n, i - 1)
    BY <1>9, <2>2
  <2>5. <<n, i>> \in Places
    BY <1>1, <1>3, <1>4, <2>2, APlace
  <2>6. Precedes(p, <<n, i>>)
    BY <1>2, <1>3, <2>2 DEF Precedes
  <2>7. Holds(after[i], p, n, i)
    BY <1>1, <1>3, <2>3, <2>4, <2>5, <2>6, StepHolds
  <2> QED
    BY <2>1, <2>2, <2>7
<1>10. N \in P
  <2>1. P \in SUBSET (0..N)
    OBVIOUS
  <2> HIDE DEF N
  <2>2. \A k \in 0..N : k \in P
    <3> HIDE DEF P
    <3> QED
      BY <1>7, <1>8, <1>9, <2>1, NaturalSteps
  <2> QED
    BY <1>7, <2>2
<1>11. from + N = Len(line)
  BY <1>4
<1>12. Holds(after[Len(line)], p, n, Len(line))
  BY <1>10, <1>11
<1> QED
  BY <1>1, <1>2, <1>3, <1>5, <1>12 DEF LineRun

-----------------------------------------------------------------------------
(* The whole search                                                        *)

(* After line n, the search goes on, is given up or has ended.             *)
LinesHold(r, p, n) ==
  \/ Alive(r.a, p, <<n, Len(lines[n])>>)
  \/ Lost(r.a)
  \/ Ended(r.a, p, r.n)

(* The line on which it begins.                                            *)
LEMMA FirstLineLeaves ==
  ASSUME IsText, NEW p \in Places, MayBeginList(p)
  PROVE  LinesHold(CloseLine(lines, p[1], p[2], [n |-> p[1], a |-> Search(<< >>)], p[1]), p, p[1])
<1>1. PICK n : n = p[1]
  OBVIOUS
<1>2. PICK from : from = p[2]
  OBVIOUS
<1>3. PICK end : end = FindEndOfExpressionInLine(lines[n], from, Search(<< >>))
  OBVIOUS
<1>4. Holds(end, p, n, Len(lines[n]))
  BY <1>1, <1>2, <1>3, FirstLineHolds
<1>5. CloseLine(lines, n, from, [n |-> n, a |-> Search(<< >>)], n) = [n |-> n, a |-> end]
  BY <1>3 DEF CloseLine
<1>6. LinesHold([n |-> n, a |-> end], p, n)
  BY <1>4 DEF LinesHold, Holds
<1> QED
  BY <1>1, <1>2, <1>5, <1>6

(* One line more.                                                          *)
LEMMA LineMoreHolds ==
  ASSUME IsText, NEW p \in Places, NEW n \in 1..Len(lines), p[1] < n,
         NEW r, LinesHold(r, p, n - 1)
  PROVE  LinesHold(CloseLine(lines, p[1], p[2], r, n), p, n)
<1>1. PICK next : next = CloseLine(lines, p[1], p[2], r, n)
  OBVIOUS
<1>2. p[1] \in Nat /\ p[1] > 0 /\ n \in Nat /\ n - 1 \in 1..Len(lines) /\ n # p[1]
  <2>1. p[1] \in Nat /\ p[1] \in 1..Len(lines)
    BY PlaceParts
  <2> QED
    BY <2>1
<1>3. CASE Over(r.a) \/ r.a.stack = << >>
  <2>1. next = r
    BY <1>1, <1>2, <1>3 DEF CloseLine
  <2>2. ~Alive(r.a, p, <<n - 1, Len(lines[n - 1])>>)
    BY <1>3 DEF Alive, Over
  <2>3. Lost(r.a) \/ Ended(r.a, p, r.n)
    BY <2>2 DEF LinesHold
  <2> QED
    BY <1>1, <2>1, <2>3 DEF LinesHold
<1>4. CASE ~(Over(r.a) \/ r.a.stack = << >>)
  <2>1. Alive(r.a, p, <<n - 1, Len(lines[n - 1])>>)
    BY <1>4 DEF LinesHold, Lost, Ended, Over
  <2>2. Between(p, <<n - 1, Len(lines[n - 1])>>) = Between(p, <<n, 0>>)
    <3>1. PICK m : m = n - 1
      OBVIOUS
    <3>2. m \in 1..Len(lines) /\ m + 1 = n
      BY <1>2, <3>1
    <3>3. Between(p, <<m, Len(lines[m])>>) = Between(p, <<m + 1, 0>>)
      BY <3>2, NextLine
    <3> QED
      BY <3>1, <3>2, <3>3
  <2>3. Alive(r.a, p, <<n, 0>>)
    <3>1. PICK before : before = <<n - 1, Len(lines[n - 1])>>
      OBVIOUS
    <3>2. PICK start : start = <<n, 0>>
      OBVIOUS
    <3>3. Alive(r.a, p, before) /\ Between(p, before) = Between(p, start)
      BY <2>1, <2>2, <3>1, <3>2
    <3>4. Alive(r.a, p, start)
      BY ONLY <3>3 DEF Alive, NoStop
    <3> QED
      BY <3>2, <3>4
  <2>4. PICK end : end = FindEndOfExpressionInLine(lines[n], 1, r.a)
    OBVIOUS
  <2>5. Holds(r.a, p, n, 0)
    BY <2>3 DEF Holds
  <2>6. Holds(end, p, n, Len(lines[n]))
    BY <2>4, <2>5, LineHolds
  <2>7. next = [n |-> n, a |-> end]
    BY <1>1, <1>2, <1>4, <2>4 DEF CloseLine
  <2>8. LinesHold([n |-> n, a |-> end], p, n)
    BY <2>6 DEF LinesHold, Holds
  <2> QED
    BY <1>1, <2>7, <2>8
<1> QED
  BY <1>3, <1>4

(* What is taken for the end of a template argument list is one.           *)
LEMMA ListsEnd ==
  ASSUME IsText, NEW p \in Places, MayBeginList(p), NEW e, e = Closes(p), e # Nowhere
  PROVE  EndsAt(p, <<e.line, e.pos - 1>>)
<1>1. PICK m : m = p[1]
  OBVIOUS
<1>2. PICK from : from = p[2]
  OBVIOUS
<1>3. PICK N : N = Len(lines)
  OBVIOUS
<1>4. N \in Nat /\ m \in Nat /\ m > 0 /\ m \in 1..N
  <2>1. p[1] \in Nat /\ p[1] \in 1..Len(lines)
    BY PlaceParts
  <2> QED
    BY <1>1, <1>3, <2>1 DEF IsText
<1>5. PICK after : LinesRun(m, from, after)
  BY <1>3, <1>4, LinesLoop
<1>6. /\ after[m - 1] = [n |-> m, a |-> Search(<< >>)]
      /\ \A n \in m..N : after[n] = CloseLine(lines, m, from, after[n - 1], n)
  BY <1>3, <1>5, Zenon DEF LinesRun
<1>7. /\ after[N].a.found # 0
      /\ e = [line |-> after[N].n, pos |-> after[N].a.found]
  BY <1>1, <1>2, <1>3, <1>5, Zenon DEF LinesRun, Closes
<1> DEFINE K == N - m
           P == {k \in 0..K : LinesHold(after[m + k], p, m + k)}
<1>8. K \in Nat
  BY <1>4
<1>9. 0 \in P
  <2>1. after[m] = CloseLine(lines, m, from, [n |-> m, a |-> Search(<< >>)], m)
    BY <1>4, <1>6
  <2>2. LinesHold(after[m], p, m)
    BY <1>1, <1>2, <2>1, FirstLineLeaves
  <2>3. m + 0 = m
    BY <1>4
  <2> QED
    BY <1>8, <2>2, <2>3
<1>10. ASSUME NEW k \in 0..(K - 1), k \in P PROVE k + 1 \in P
  <2>1. PICK n : n = m + (k + 1)
    OBVIOUS
  <2>2. n \in 1..N /\ n \in m..N /\ n - 1 = m + k /\ n > m /\ k + 1 \in 0..K
    BY <1>4, <2>1
  <2>3. after[n] = CloseLine(lines, m, from, after[n - 1], n)
    BY <1>6, <2>2
  <2>4. LinesHold(after[n - 1], p, n - 1)
    BY <1>10, <2>2
  <2>5. n \in 1..Len(lines) /\ p[1] < n
    BY <1>1, <1>3, <1>4, <2>2
  <2>6. LinesHold(CloseLine(lines, p[1], p[2], after[n - 1], n), p, n)
    BY <2>4, <2>5, LineMoreHolds
  <2>7. LinesHold(after[n], p, n)
    BY <1>1, <1>2, <2>3, <2>6
  <2> QED
    BY <2>1, <2>2, <2>7
<1>11. K \in P
  <2>1. P \in SUBSET (0..K)
    OBVIOUS
  <2> HIDE DEF K
  <2>2. \A k \in 0..K : k \in P
    <3> HIDE DEF P
    <3> QED
      BY <1>8, <1>9, <1>10, <2>1, NaturalSteps
  <2> QED
    BY <1>8, <2>2
<1>12. m + K = N
  BY <1>4
<1>13. LinesHold(after[N], p, N)
  BY <1>11, <1>12
<1>14. Ended(after[N].a, p, after[N].n)
  BY <1>7, <1>13 DEF LinesHold, Alive, Lost
<1>15. e.line = after[N].n /\ e.pos = after[N].a.found
  BY <1>7
<1> QED
  BY <1>14, <1>15 DEF Ended

-----------------------------------------------------------------------------
(* The texts                                                               *)

(* Every text is a sequence of lines.                                      *)
LEMMA Texts == Spec => []IsText
<1> DEFINE Inv == lines \in Seq(Seq(STRING)) /\ Len(lines) > 0
<1>1. Init => Inv
  <2> SUFFICES ASSUME Init PROVE Inv
    OBVIOUS
  <2>1. << >> \in Seq(STRING)
    OBVIOUS
  <2> QED
    BY <2>1 DEF Init
<1>2. Inv /\ [Next]_vars => Inv'
  <2> SUFFICES ASSUME Inv, [Next]_vars PROVE Inv'
    OBVIOUS
  <2>1. CASE AddPiece
    <3>1. PICK q \in CommentPieces \cup BracketPieces :
            lines' = [lines EXCEPT ![Len(lines)] = @ \o q]
      BY <2>1 DEF AddPiece
    <3>2. q \in Seq(STRING)
      BY LintTextAssumption
    <3>3. Len(lines) \in 1..Len(lines)
      OBVIOUS
    <3>4. PICK last : last = lines[Len(lines)] \o q
      OBVIOUS
    <3>5. last \in Seq(STRING)
      <4>1. lines[Len(lines)] \in Seq(STRING)
        BY <3>3
      <4> QED
        BY <3>2, <3>4, <4>1
    <3>6. lines' = [lines EXCEPT ![Len(lines)] = last]
      BY <3>1, <3>4
    <3> QED
      BY <3>3, <3>5, <3>6
  <2>2. CASE NewLine
    <3>1. << >> \in Seq(STRING)
      OBVIOUS
    <3>2. lines' = Append(lines, << >>)
      BY <2>2 DEF NewLine
    <3>3. PICK empty \in Seq(STRING) : empty = << >>
      BY <3>1
    <3> QED
      BY <3>2, <3>3
  <2>3. CASE UNCHANGED vars
    BY <2>3 DEF vars
  <2> QED
    BY <2>1, <2>2, <2>3 DEF Next
<1>3. Inv => IsText
  BY DEF IsText
<1> QED
  BY <1>1, <1>2, <1>3, PTL DEF Spec

(* What the linter takes for a template argument list ends with a ">",     *)
(* and between its ends the other brackets are balanced and no statement   *)
(* ends outside of them: FindEndOfExpressionInLine drops the "<" that were *)
(* operators after all, and gives up where a statement ends.               *)
THEOREM TemplateListsAreBalanced == Spec => []TemplateListsBalance
<1>1. IsText => TemplateListsBalance
  <2> SUFFICES ASSUME IsText, NEW p \in Places, MayBeginList(p), NEW e, e = Closes(p), e # Nowhere
               PROVE  LET q == <<e.line, e.pos - 1>>
                      IN /\ At(q) = ">"
                         /\ Balanced(p, q)
                         /\ \A r \in Between(p, q) : At(r) = ";" => ~Balanced(p, r)
    BY Zenon DEF TemplateListsBalance
  <2>1. EndsAt(p, <<e.line, e.pos - 1>>)
    BY ListsEnd
  <2> QED
    BY <2>1, Zenon DEF EndsAt, NoStop, Right, IsStop
<1> QED
  BY <1>1, Texts, PTL

-----------------------------------------------------------------------------
(* What the brackets on a stack are, from the bottom up                    *)

(* The brackets below the i-th entry, and the set of pairs of a bracket    *)
(* and how many are below it.                                              *)
Below(stack, i, angle) == {k \in 1..(i - 1) : stack[k] # angle}
Ranked(stack, angle, S) ==
  \A i \in 1..Len(stack) : stack[i] # angle => <<stack[i], Cardinality(Below(stack, i, angle))>> \in S

(* What is on the top of a stack does not matter to what is below.         *)
LEMMA PrefixRanked ==
  ASSUME NEW angle, NEW S, NEW s, IsSeq(s), NEW t, IsSeq(t), Len(t) <= Len(s),
         \A i \in 1..Len(t) : t[i] = s[i], Ranked(s, angle, S)
  PROVE  Ranked(t, angle, S)
<1>1. Len(s) \in Nat /\ Len(t) \in Nat
  BY DEF IsSeq
<1>2. ASSUME NEW i \in 1..Len(t), t[i] # angle PROVE <<t[i], Cardinality(Below(t, i, angle))>> \in S
  <2>1. i \in 1..Len(s) /\ \A k \in 1..(i - 1) : k \in 1..Len(t)
    BY <1>1
  <2>2. Below(t, i, angle) = Below(s, i, angle)
    BY <2>1 DEF Below
  <2>3. t[i] = s[i]
    OBVIOUS
  <2> QED
    BY <1>2, <2>1, <2>2, <2>3 DEF Ranked
<1> QED
  BY <1>2 DEF Ranked

(* A bracket is put above all that are there.                              *)
LEMMA PushRanked ==
  ASSUME NEW angle, NEW S, NEW stack, IsSeq(stack), Ranked(stack, angle, S),
         NEW c, c # angle => <<c, Brackets(stack, angle)>> \in S
  PROVE  Ranked(Append(stack, c), angle, S)
<1>1. PICK more : more = Append(stack, c)
  OBVIOUS
<1>2. /\ IsSeq(more) /\ Len(stack) \in Nat /\ Len(more) = Len(stack) + 1
      /\ \A i \in 1..Len(stack) : more[i] = stack[i]
      /\ more[Len(stack) + 1] = c
  BY <1>1, Pushed
<1>3. ASSUME NEW i \in 1..Len(more), more[i] # angle
      PROVE  <<more[i], Cardinality(Below(more, i, angle))>> \in S
  <2>1. CASE i \in 1..Len(stack)
    <3>1. \A k \in 1..(i - 1) : k \in 1..Len(stack)
      BY <1>2, <2>1
    <3>2. Below(more, i, angle) = Below(stack, i, angle)
      BY <1>2, <3>1 DEF Below
    <3> QED
      BY <1>2, <1>3, <2>1, <3>2 DEF Ranked
  <2>2. CASE i = Len(stack) + 1
    <3>1. i - 1 = Len(stack)
      BY <1>2, <2>2
    <3>2. Below(more, i, angle) = Others(stack, angle)
      BY <1>2, <3>1 DEF Below, Others
    <3> QED
      BY <1>2, <1>3, <2>2, <3>2 DEF Brackets
  <2> QED
    BY <1>2, <2>1, <2>2
<1> QED
  BY <1>1, <1>3 DEF Ranked

(* Below each bracket are fewer than all, and below the last one are all   *)
(* the others.                                                             *)
LEMMA BelowLess ==
  ASSUME NEW angle, NEW stack, IsSeq(stack), NEW i \in 1..Len(stack), stack[i] # angle
  PROVE  /\ Cardinality(Below(stack, i, angle)) \in 0..(Brackets(stack, angle) - 1)
         /\ i = Len(stack) => Cardinality(Below(stack, i, angle)) = Brackets(stack, angle) - 1
<1>1. Len(stack) \in Nat /\ IsFiniteSet(Others(stack, angle)) /\ Brackets(stack, angle) \in Nat
  BY BracketsAreSome
<1> DEFINE B == Below(stack, i, angle)
           O == Others(stack, angle)
<1>2. /\ B \in SUBSET O /\ i \notin B /\ B \cup {i} \in SUBSET O
      /\ i = Len(stack) => B \cup {i} = O
  BY <1>1 DEF Below, Others
<1>3. Brackets(stack, angle) = Cardinality(O)
  BY DEF Brackets
<1> HIDE DEF B, O
<1>4. IsFiniteSet(B) /\ IsFiniteSet(B \cup {i}) /\ Cardinality(B \cup {i}) <= Cardinality(O)
  BY <1>1, <1>2, FS_Subset DEF O
<1>5. Cardinality(B \cup {i}) = Cardinality(B) + 1
  BY <1>2, <1>4, FS_AddElement
<1>6. Cardinality(B) \in Nat /\ Cardinality(O) \in Nat
  BY <1>1, <1>3, <1>4, FS_CardinalityType
<1>7. Cardinality(B) \in 0..(Brackets(stack, angle) - 1)
  BY <1>3, <1>4, <1>5, <1>6
<1>8. ASSUME i = Len(stack) PROVE Cardinality(B) = Brackets(stack, angle) - 1
  <2>1. Cardinality(B \cup {i}) = Cardinality(O)
    BY <1>2, <1>8
  <2> QED
    BY <1>3, <1>5, <1>6, <2>1
<1> QED
  BY <1>7, <1>8 DEF B

(* The last one.                                                           *)
LEMMA LastRanked ==
  ASSUME NEW angle, NEW S, NEW stack, IsSeq(stack), stack # << >>, Last(stack) # angle,
         Ranked(stack, angle, S)
  PROVE  <<Last(stack), Brackets(stack, angle) - 1>> \in S
<1>1. Len(stack) \in Nat \ {0} /\ Last(stack) = stack[Len(stack)]
  BY Popped
<1>2. PICK i : i = Len(stack)
  OBVIOUS
<1>3. i \in 1..Len(stack) /\ stack[i] # angle
  BY <1>1, <1>2
<1>4. Cardinality(Below(stack, i, angle)) = Brackets(stack, angle) - 1
  BY <1>2, <1>3, BelowLess
<1> QED
  BY <1>1, <1>2, <1>3, <1>4 DEF Ranked

(* The pairs of a stack in another set.                                    *)
LEMMA RankedIn ==
  ASSUME NEW angle, NEW S, NEW T, NEW stack, IsSeq(stack), Ranked(stack, angle, S),
         \A e \in S : e[2] \in 0..(Brackets(stack, angle) - 1) => e \in T
  PROVE  Ranked(stack, angle, T)
<1>1. ASSUME NEW i \in 1..Len(stack), stack[i] # angle
      PROVE  <<stack[i], Cardinality(Below(stack, i, angle))>> \in T
  <2>1. PICK e : e = <<stack[i], Cardinality(Below(stack, i, angle))>>
    OBVIOUS
  <2>2. e \in S
    BY <1>1, <2>1 DEF Ranked
  <2>3. Cardinality(Below(stack, i, angle)) \in 0..(Brackets(stack, angle) - 1)
    BY <1>1, BelowLess
  <2>4. e[2] \in 0..(Brackets(stack, angle) - 1)
    BY <2>1, <2>3
  <2> QED
    BY <2>1, <2>2, <2>4
<1> QED
  BY <1>1 DEF Ranked

-----------------------------------------------------------------------------
(* Heights                                                                 *)

(* A position is a place, or before or after the characters of a line.     *)
(* Its height is how many more brackets were opened than closed up to it.  *)
Positions == Nat \X Nat
Upto(x) == {y \in Places : ~Precedes(x, y)}
Height(x) == Number(Upto(x), Opening) - Number(Upto(x), Closing)

(* A text has finitely many places.                                        *)
LEMMA PlacesAreSome ==
  ASSUME IsText
  PROVE  IsFiniteSet(Places)
<1> DEFINE N == 1..Len(lines)
           line == [n \in N |-> {n} \X (1..Len(lines[n]))]
           rows == {{n} \X (1..Len(lines[n])) : n \in N}
<1>1. IsFiniteSet(N)
  BY FS_Interval DEF IsText
<1>2. line \in Surjection(N, rows)
  BY DEF Surjection
<1>3. IsFiniteSet(rows)
  <2> HIDE DEF N, line, rows
  <2> QED
    BY <1>1, <1>2, FS_Surjection
<1>4. ASSUME NEW T \in rows PROVE IsFiniteSet(T)
  <2>1. PICK n \in N : T = {n} \X (1..Len(lines[n]))
    OBVIOUS
  <2>2. lines[n] \in Seq(STRING)
    BY DEF IsText
  <2>3. Len(lines[n]) \in Int
    BY <2>2
  <2>4. PICK row : row = 1..Len(lines[n])
    OBVIOUS
  <2>5. IsFiniteSet(row)
    <3>1. PICK k \in Int : k = Len(lines[n])
      BY <2>3
    <3>2. IsFiniteSet(1..k)
      BY FS_Interval
    <3> QED
      BY <2>4, <3>1, <3>2
  <2>6. IsFiniteSet({n})
    BY FS_Singleton
  <2>7. IsFiniteSet({n} \X row)
    BY <2>5, <2>6, FS_Product
  <2> QED
    BY <2>1, <2>4, <2>7
<1>5. IsFiniteSet(UNION rows)
  <2> HIDE DEF rows
  <2> QED
    BY <1>3, <1>4, FS_UNION
<1> QED
  BY <1>5 DEF Places

(* Some of them have finitely many brackets.                               *)
LEMMA NumberOfSome ==
  ASSUME IsText, NEW S \in SUBSET Places, NEW C
  PROVE  IsFiniteSet(S) /\ Number(S, C) \in Nat
<1>1. IsFiniteSet(S)
  BY PlacesAreSome, FS_Subset
<1>2. IsFiniteSet({r \in S : At(r) \in C})
  BY <1>1, FS_Subset
<1> QED
  BY <1>1, <1>2, FS_CardinalityType DEF Number

(* A height is a number.                                                   *)
LEMMA HeightType ==
  ASSUME IsText, NEW x
  PROVE  /\ Height(x) \in Int
         /\ Number(Upto(x), Opening) \in Nat /\ Number(Upto(x), Closing) \in Nat
<1>1. Upto(x) \in SUBSET Places
  BY DEF Upto
<1>2. PICK S : S = Upto(x)
  OBVIOUS
<1>3. Number(S, Opening) \in Nat
  BY <1>1, <1>2, NumberOfSome
<1>4. Number(S, Closing) \in Nat
  BY <1>1, <1>2, NumberOfSome
<1> QED
  BY <1>2, <1>3, <1>4 DEF Height

(* One place further up or down, or level.                                 *)
LEMMA HeightNext ==
  ASSUME IsText, NEW n, NEW i, <<n, i>> \in Places, NEW c, c = At(<<n, i>>)
  PROVE  /\ IsOpening(c) => Height(<<n, i>>) = Height(<<n, i - 1>>) + 1
         /\ IsClosing(c) => Height(<<n, i>>) = Height(<<n, i - 1>>) - 1
         /\ ~IsOpening(c) /\ ~IsClosing(c) => Height(<<n, i>>) = Height(<<n, i - 1>>)
<1>1. PICK q : q = <<n, i>>
  OBVIOUS
<1>2. PICK before : before = <<n, i - 1>>
  OBVIOUS
<1>3. n \in Nat /\ i \in Nat /\ q[1] = n /\ q[2] = i /\ before[1] = n /\ before[2] = i - 1
  BY <1>1, <1>2, PlaceParts
<1>4. ASSUME NEW y \in Places
      PROVE  /\ ~Precedes(q, y) <=> ~Precedes(before, y) \/ y = q
             /\ y = q => Precedes(before, y)
  <2>1. y = <<y[1], y[2]>> /\ y[1] \in Nat /\ y[2] \in Nat
    BY PlaceParts
  <2>2. y = q <=> y[1] = n /\ y[2] = i
    BY <1>1, <1>3, <2>1
  <2> QED
    BY <1>3, <2>1, <2>2 DEF Precedes
<1>5. PICK D : D = Upto(before)
  OBVIOUS
<1>6. Upto(q) = D \cup {q} /\ q \notin D /\ D \in SUBSET Places
  BY <1>1, <1>4, <1>5 DEF Upto
<1>7. IsFiniteSet(D)
  BY <1>6, NumberOfSome
<1>8. /\ IsOpening(c) => Number(Upto(q), Opening) = Number(D, Opening) + 1
      /\ ~IsOpening(c) => Number(Upto(q), Opening) = Number(D, Opening)
  <2>1. PICK C : C = Opening
    OBVIOUS
  <2>2. At(q) \in C <=> IsOpening(c)
    BY <1>1, <2>1 DEF IsOpening
  <2> QED
    BY ONLY <1>6, <1>7, <2>1, <2>2, OnePlaceMore
<1>9. /\ IsClosing(c) => Number(Upto(q), Closing) = Number(D, Closing) + 1
      /\ ~IsClosing(c) => Number(Upto(q), Closing) = Number(D, Closing)
  <2>1. PICK C : C = Closing
    OBVIOUS
  <2>2. At(q) \in C <=> IsClosing(c)
    BY <1>1, <2>1 DEF IsClosing
  <2> QED
    BY ONLY <1>6, <1>7, <2>1, <2>2, OnePlaceMore
<1>10. IsOpening(c) => ~IsClosing(c)
  BY OneKind
<1>11. Number(D, Opening) \in Nat /\ Number(D, Closing) \in Nat
  BY <1>5, HeightType
<1>12. /\ Height(q) = Number(Upto(q), Opening) - Number(Upto(q), Closing)
       /\ Height(before) = Number(D, Opening) - Number(D, Closing)
  BY <1>5 DEF Height
<1> QED
  BY ONLY <1>1, <1>2, <1>8, <1>9, <1>10, <1>11, <1>12

(* All positions from the end of a line to before the next one are level.  *)
LEMMA HeightEnd ==
  ASSUME IsText, NEW n \in 1..Len(lines), NEW x \in Positions,
         \/ x[1] = n /\ x[2] >= Len(lines[n])
         \/ x = <<n + 1, 0>>
  PROVE  Height(x) = Height(<<n, Len(lines[n])>>)
<1>1. PICK end : end = <<n, Len(lines[n])>>
  OBVIOUS
<1>2. PICK len : len = Len(lines[n])
  OBVIOUS
<1>3. n \in Nat /\ len \in Nat /\ end[1] = n /\ end[2] = len
  <2>1. lines[n] \in Seq(STRING)
    BY DEF IsText
  <2> QED
    BY <1>1, <1>2, <2>1
<1>4. x[1] \in Nat /\ x[2] \in Nat
  BY DEF Positions
<1>5. \/ x[1] = n /\ x[2] >= len
      \/ x[1] = n + 1 /\ x[2] = 0
  BY <1>2
<1>6. ASSUME NEW y \in Places PROVE Precedes(end, y) <=> Precedes(x, y)
  <2>1. y[1] \in Nat /\ y[2] \in Nat /\ y[2] > 0
    BY PlaceParts
  <2>2. y[1] = n => y[2] <= len
    BY <1>2, PlaceParts
  <2>3. CASE x[1] = n /\ x[2] >= len
    BY ONLY <1>3, <1>4, <2>1, <2>2, <2>3 DEF Precedes
  <2>4. CASE x[1] = n + 1 /\ x[2] = 0
    BY ONLY <1>3, <1>4, <2>1, <2>2, <2>4 DEF Precedes
  <2> QED
    BY <1>5, <2>3, <2>4
<1>7. Upto(end) = Upto(x)
  BY <1>6 DEF Upto
<1> QED
  BY <1>1, <1>7 DEF Height

(* From an opening bracket on, the brackets balance as the heights say.    *)
LEMMA CountsAreHeights ==
  ASSUME IsText, NEW p \in Places, IsOpening(At(p)), NEW r \in Places, ~Precedes(r, p)
  PROVE  LET open == Number(Between(p, r), Opening)
             closed == Number(Between(p, r), Closing)
         IN open \in Nat /\ closed \in Nat /\ open - closed = Height(r) - Height(p) + 1
<1>1. p = <<p[1], p[2]>> /\ p[1] \in Nat /\ p[2] \in Nat
  BY PlaceParts
<1>2. r[1] \in Nat /\ r[2] \in Nat
  BY PlaceParts
<1>3. PICK before : before = Upto(p) \ {p}
  OBVIOUS
<1>4. PICK between : between = Between(p, r)
  OBVIOUS
<1>5. before \in SUBSET Places /\ between \in SUBSET Places
  BY <1>3, <1>4 DEF Upto, Between
<1>6. ASSUME NEW y \in Places
      PROVE  /\ y \in before => y \notin between
             /\ y \in Upto(r) <=> y \in before \/ y \in between
  <2>1. y = <<y[1], y[2]>> /\ y[1] \in Nat /\ y[2] \in Nat
    BY PlaceParts
  <2>2. y = p <=> y[1] = p[1] /\ y[2] = p[2]
    BY <1>1, <2>1
  <2>3. y \in before <=> ~Precedes(p, y) /\ y # p
    BY <1>3 DEF Upto
  <2>4. y \in between <=> ~Precedes(y, p) /\ ~Precedes(r, y)
    BY <1>4 DEF Between
  <2>5. y \in Upto(r) <=> ~Precedes(r, y)
    BY DEF Upto
  <2>6. y \in before <=> Precedes(y, p)
    BY <1>1, <2>1, <2>2, <2>3 DEF Precedes
  <2>7. Precedes(y, p) => ~Precedes(r, y)
    BY <1>1, <1>2, <2>1 DEF Precedes
  <2> QED
    BY <2>4, <2>5, <2>6, <2>7
<1>7. Upto(r) = before \cup between /\ before \cap between = {}
  <2>1. Upto(r) \in SUBSET Places
    BY DEF Upto
  <2> QED
    BY <1>5, <1>6, <2>1
<1>8. Upto(p) = before \cup {p} /\ p \notin before
  <2>1. p \in Upto(p)
    BY <1>1 DEF Upto, Precedes
  <2> QED
    BY <1>3, <2>1
<1>9. ASSUME NEW C
      PROVE  /\ Number(Upto(r), C) = Number(before, C) + Number(between, C)
             /\ Number(before, C) \in Nat /\ Number(between, C) \in Nat
             /\ Number(Upto(p), C) = Number(before, C) + (IF At(p) \in C THEN 1 ELSE 0)
  <2> DEFINE X == {y \in before : At(y) \in C}
             Y == {y \in between : At(y) \in C}
             Z == {y \in Upto(r) : At(y) \in C}
  <2>1. Z = X \cup Y /\ X \cap Y = {}
    BY <1>7
  <2>2. IsFiniteSet(before) /\ Number(before, C) \in Nat
    BY <1>5, NumberOfSome
  <2>3. IsFiniteSet(between) /\ Number(between, C) \in Nat
    BY <1>5, NumberOfSome
  <2>4. IsFiniteSet(X) /\ IsFiniteSet(Y)
    BY <2>2, <2>3, FS_Subset
  <2>5. Number(Upto(r), C) = Cardinality(Z) /\ Number(before, C) = Cardinality(X) /\ Number(between, C) = Cardinality(Y)
    BY DEF Number
  <2> HIDE DEF X, Y, Z
  <2>6. Cardinality(X \cup Y) = Cardinality(X) + Cardinality(Y) - Cardinality(X \cap Y)
    BY <2>4, FS_Union
  <2>7. Cardinality(X \cap Y) = 0
    BY <2>1, FS_EmptySet
  <2>8. /\ At(p) \in C => Number(before \cup {p}, C) = Number(before, C) + 1
        /\ At(p) \notin C => Number(before \cup {p}, C) = Number(before, C)
    BY <1>8, <2>2, OnePlaceMore
  <2>9. Number(Upto(r), C) = Number(before, C) + Number(between, C)
    BY <2>1, <2>2, <2>3, <2>5, <2>6, <2>7
  <2> QED
    BY <1>8, <2>2, <2>3, <2>8, <2>9
<1>10. /\ Number(Upto(r), Opening) = Number(before, Opening) + Number(between, Opening)
       /\ Number(before, Opening) \in Nat /\ Number(between, Opening) \in Nat
       /\ Number(Upto(p), Opening) = Number(before, Opening) + 1
  <2>1. At(p) \in Opening
    BY DEF IsOpening
  <2>2. PICK C : C = Opening
    OBVIOUS
  <2> QED
    BY <1>9, <2>1, <2>2
<1>11. /\ Number(Upto(r), Closing) = Number(before, Closing) + Number(between, Closing)
       /\ Number(before, Closing) \in Nat /\ Number(between, Closing) \in Nat
       /\ Number(Upto(p), Closing) = Number(before, Closing)
  <2>1. At(p) \notin Closing
    BY OneKind DEF IsClosing
  <2>2. PICK C : C = Closing
    OBVIOUS
  <2> QED
    BY <1>9, <2>1, <2>2
<1>12. /\ Height(r) = Number(Upto(r), Opening) - Number(Upto(r), Closing)
       /\ Height(p) = Number(Upto(p), Opening) - Number(Upto(p), Closing)
  BY DEF Height
<1> QED
  BY ONLY <1>4, <1>10, <1>11, <1>12

-----------------------------------------------------------------------------
(* Pairs of brackets                                                       *)

(* A closing bracket meets the opening one that it stands under.           *)
Pair(r, q) ==
  /\ r \in Places /\ q \in Places /\ IsOpening(At(r)) /\ IsClosing(At(q)) /\ Precedes(r, q)
  /\ Height(q) = Height(r) - 1
  /\ \A x \in Positions : ~Precedes(x, r) /\ Precedes(x, q) => Height(x) >= Height(r)
Met(r, q) == Pair(r, q) /\ At(q) = Partner(At(r))

(* The partner of the partner of a bracket.                                *)
LEMMA PartnerTwice ==
  ASSUME NEW c
  PROVE  /\ IsClosing(c) => Partner(Partner(c)) = c
         /\ IsOpening(c) => Partner(Partner(c)) = c
<1>1. CASE c = "("
  BY <1>1, Zenon DEF IsClosing, IsOpening, Closing, Opening, Partner
<1>2. CASE c = "["
  BY <1>2, Zenon DEF IsClosing, IsOpening, Closing, Opening, Partner
<1>3. CASE c = "{"
  BY <1>3, Zenon DEF IsClosing, IsOpening, Closing, Opening, Partner
<1>4. CASE c = ")"
  BY <1>4, Zenon DEF IsClosing, IsOpening, Closing, Opening, Partner
<1>5. CASE c = "]"
  BY <1>5, Zenon DEF IsClosing, IsOpening, Closing, Opening, Partner
<1>6. CASE c = "}"
  BY <1>6, Zenon DEF IsClosing, IsOpening, Closing, Opening, Partner
<1> QED
  BY <1>1, <1>2, <1>3, <1>4, <1>5, <1>6, Zenon DEF IsClosing, IsOpening, Closing, Opening

(* A place is a position.                                                  *)
LEMMA PlacesAreThere ==
  ASSUME IsText
  PROVE  \A q \in Places : q \in Positions
<1> SUFFICES ASSUME NEW q \in Places PROVE q \in Positions
  OBVIOUS
<1>1. q = <<q[1], q[2]>> /\ q[1] \in Nat /\ q[2] \in Nat
  BY PlaceParts
<1> QED
  BY <1>1 DEF Positions

(* The order of positions.                                                 *)
LEMMA InOrder ==
  ASSUME NEW x \in Positions, NEW y \in Positions
  PROVE  /\ x = <<x[1], x[2]>> /\ x[1] \in Nat /\ x[2] \in Nat
         /\ ~Precedes(x, x)
         /\ Precedes(x, y) => ~Precedes(y, x) /\ x # y
         /\ Precedes(x, y) \/ Precedes(y, x) \/ x = y
<1>1. x = <<x[1], x[2]>> /\ x[1] \in Nat /\ x[2] \in Nat
  BY DEF Positions
<1>2. y = <<y[1], y[2]>> /\ y[1] \in Nat /\ y[2] \in Nat
  BY DEF Positions
<1>3. x = y <=> x[1] = y[1] /\ x[2] = y[2]
  BY <1>1, <1>2
<1> QED
  BY <1>1, <1>2, <1>3 DEF Precedes

(* What comes before something that comes before something.                *)
LEMMA InOrderOn ==
  ASSUME NEW x \in Positions, NEW y \in Positions, NEW z \in Positions
  PROVE  /\ Precedes(x, y) /\ ~Precedes(z, y) => Precedes(x, z)
         /\ ~Precedes(y, x) /\ Precedes(y, z) => Precedes(x, z)
         /\ ~Precedes(y, x) /\ ~Precedes(z, y) => ~Precedes(z, x)
<1>1. x[1] \in Nat /\ x[2] \in Nat /\ y[1] \in Nat /\ y[2] \in Nat /\ z[1] \in Nat /\ z[2] \in Nat
  BY InOrder
<1> QED
  BY <1>1 DEF Precedes

(* Between two places brackets balance where the heights say so.           *)
LEMMA BalancedIs ==
  ASSUME IsText, NEW p \in Places, IsOpening(At(p)), NEW q \in Places, ~Precedes(q, p)
  PROVE  Balanced(p, q) <=> /\ \A r \in Between(p, q) : Height(r) >= Height(p) - 1
                            /\ Height(q) = Height(p) - 1
<1>1. ASSUME NEW r \in Places, ~Precedes(r, p)
      PROVE  /\ Number(Between(p, r), Closing) <= Number(Between(p, r), Opening) <=> Height(r) >= Height(p) - 1
             /\ Number(Between(p, r), Closing) = Number(Between(p, r), Opening) <=> Height(r) = Height(p) - 1
  <2>1. PICK open : open = Number(Between(p, r), Opening)
    OBVIOUS
  <2>2. PICK closed : closed = Number(Between(p, r), Closing)
    OBVIOUS
  <2>3. open \in Nat /\ closed \in Nat /\ open - closed = Height(r) - Height(p) + 1
    BY <1>1, <2>1, <2>2, CountsAreHeights
  <2>4. Height(r) \in Int /\ Height(p) \in Int
    BY HeightType
  <2> QED
    BY <2>1, <2>2, <2>3, <2>4
<1>2. \A r \in Between(p, q) : r \in Places /\ ~Precedes(r, p)
  BY DEF Between
<1>3. (\A r \in Between(p, q) : Number(Between(p, r), Closing) <= Number(Between(p, r), Opening))
        <=> (\A r \in Between(p, q) : Height(r) >= Height(p) - 1)
  BY ONLY <1>1, <1>2
<1>4. Number(Between(p, q), Closing) = Number(Between(p, q), Opening) <=> Height(q) = Height(p) - 1
  BY <1>1
<1> QED
  BY <1>3, <1>4 DEF Balanced

(* The brackets of a pair are partners.                                    *)
LEMMA PairIsPartnered ==
  ASSUME IsText, NEW r, NEW q, Pair(r, q)
  PROVE  Partnered(r, q)
<1>1. /\ r \in Places /\ q \in Places /\ IsOpening(At(r)) /\ IsClosing(At(q)) /\ Precedes(r, q)
      /\ Height(q) = Height(r) - 1
      /\ \A x \in Positions : ~Precedes(x, r) /\ Precedes(x, q) => Height(x) >= Height(r)
  BY DEF Pair
<1>2. Height(r) \in Int /\ Height(q) \in Int
  BY HeightType
<1>3. r \in Positions /\ q \in Positions /\ ~Precedes(q, r)
  BY <1>1, PlacesAreThere, InOrder
<1>4. ASSUME NEW s \in Between(r, q) PROVE Height(s) >= Height(r) - 1
  <2>1. s \in Places /\ ~Precedes(s, r) /\ ~Precedes(q, s)
    BY DEF Between
  <2>2. s \in Positions
    BY <2>1, PlacesAreThere
  <2>3. Precedes(s, q) \/ s = q
    BY <1>3, <2>1, <2>2, InOrder
  <2>4. Height(s) \in Int
    BY HeightType
  <2> QED
    BY <1>1, <1>2, <2>1, <2>2, <2>3, <2>4
<1>5. Balanced(r, q)
  BY <1>1, <1>3, <1>4, BalancedIs
<1>6. q \in Partners(r)
  BY <1>1, <1>5 DEF Partners, IsClosing
<1>7. ASSUME NEW s \in Partners(r), Precedes(s, q) PROVE FALSE
  <2>1. s \in Places /\ Precedes(r, s) /\ Balanced(r, s)
    BY DEF Partners
  <2>2. s \in Positions
    BY <2>1, PlacesAreThere
  <2>3. ~Precedes(s, r)
    BY <1>3, <2>1, <2>2, InOrder
  <2>4. Height(s) = Height(r) - 1
    BY <1>1, <2>1, <2>3, BalancedIs
  <2>5. Height(s) >= Height(r)
    BY <1>1, <1>7, <2>2, <2>3
  <2> QED
    BY <1>2, <2>4, <2>5
<1> QED
  BY <1>6, <1>7 DEF Partnered

(* A bracket has one partner.                                              *)
LEMMA OnePartner ==
  ASSUME IsText, NEW r, NEW q, Partnered(r, q), NEW s, Partnered(r, s)
  PROVE  q = s
<1>1. q \in Partners(r) /\ s \in Partners(r) /\ ~Precedes(q, s) /\ ~Precedes(s, q)
  BY DEF Partnered
<1>2. q \in Positions /\ s \in Positions
  BY <1>1, PlacesAreThere DEF Partners
<1> QED
  BY <1>1, <1>2, InOrder

(* It is the partner of one bracket.                                       *)
LEMMA OnePair ==
  ASSUME IsText, NEW r, NEW s, NEW q, Pair(r, q), Pair(s, q)
  PROVE  r = s
<1>1. ASSUME NEW x, NEW y, Pair(x, q), Pair(y, q), Precedes(x, y) PROVE FALSE
  <2>1. /\ x \in Places /\ y \in Places /\ q \in Places /\ IsOpening(At(y))
        /\ Precedes(y, q) /\ Height(q) = Height(x) - 1 /\ Height(q) = Height(y) - 1
        /\ \A z \in Positions : ~Precedes(z, x) /\ Precedes(z, q) => Height(z) >= Height(x)
    BY <1>1 DEF Pair
  <2>2. PICK n : n = y[1]
    OBVIOUS
  <2>3. PICK i : i = y[2]
    OBVIOUS
  <2>4. y = <<n, i>> /\ n \in Nat /\ i \in Nat /\ i > 0
    BY <2>1, <2>2, <2>3, PlaceParts
  <2>5. PICK before : before = <<n, i - 1>>
    OBVIOUS
  <2>6. before \in Positions /\ before[1] = n /\ before[2] = i - 1
    BY <2>4, <2>5 DEF Positions
  <2>7. x \in Positions /\ y \in Positions /\ q \in Positions
    BY <2>1, PlacesAreThere
  <2>8. x[1] \in Nat /\ x[2] \in Nat /\ q[1] \in Nat /\ q[2] \in Nat
    BY <2>7, InOrder
  <2>9. ~Precedes(before, x)
    BY <1>1, <2>2, <2>3, <2>4, <2>6, <2>8 DEF Precedes
  <2>10. Precedes(before, q)
    BY <2>1, <2>2, <2>3, <2>4, <2>6, <2>8 DEF Precedes
  <2>11. Height(before) >= Height(x)
    BY <2>1, <2>6, <2>9, <2>10
  <2>12. Height(y) = Height(before) + 1
    BY <2>1, <2>4, <2>5, HeightNext
  <2>13. Height(x) \in Int /\ Height(y) \in Int /\ Height(before) \in Int
    BY HeightType
  <2> QED
    BY <2>1, <2>11, <2>12, <2>13
<1>2. r \in Positions /\ s \in Positions
  BY PlacesAreThere DEF Pair
<1> QED
  BY <1>1, <1>2, InOrder

-----------------------------------------------------------------------------
(* Brackets that wait for their partners                                   *)

(* The next position, over which nothing but the last one changes.         *)
Follows(cur, next) ==
  /\ cur \in Positions /\ next \in Positions
  /\ \A x \in Positions : ~Precedes(cur, x) => ~Precedes(next, x)
  /\ \A x \in Positions : ~Precedes(next, x) => ~Precedes(cur, x) \/ Height(x) = Height(next)

(* From one place to the next one.                                         *)
LEMMA NextFollows ==
  ASSUME IsText, NEW n, NEW i, <<n, i>> \in Places, NEW q, q = <<n, i>>, NEW before, before = <<n, i - 1>>
  PROVE  /\ Follows(before, q) /\ Precedes(before, q)
         /\ \A x \in Positions : ~Precedes(q, x) => ~Precedes(before, x) \/ x = q
         /\ \A x \in Positions : Precedes(x, q) <=> ~Precedes(before, x)
<1>1. n \in Nat /\ i \in Nat /\ i > 0 /\ q[1] = n /\ q[2] = i
  BY PlaceParts
<1>2. before[1] = n /\ before[2] = i - 1
  OBVIOUS
<1>3. q \in Positions /\ before \in Positions
  BY <1>1 DEF Positions
<1>4. ASSUME NEW x \in Positions
      PROVE  /\ ~Precedes(before, x) => ~Precedes(q, x)
             /\ ~Precedes(q, x) => ~Precedes(before, x) \/ x = q
             /\ Precedes(x, q) <=> ~Precedes(before, x)
  <2>1. x = <<x[1], x[2]>> /\ x[1] \in Nat /\ x[2] \in Nat
    BY InOrder
  <2>2. x[1] = n /\ x[2] = i => x = q
    BY <2>1
  <2> QED
    BY ONLY <1>1, <1>2, <2>1, <2>2 DEF Precedes
<1>5. Precedes(before, q)
  BY ONLY <1>1, <1>2 DEF Precedes
<1> QED
  BY <1>3, <1>4, <1>5 DEF Follows

(* From the end of a line to the beginning of the next one.                *)
LEMMA LineFollows ==
  ASSUME IsText, NEW n \in 1..Len(lines), NEW end, end = <<n, Len(lines[n])>>, NEW next, next = <<n + 1, 0>>
  PROVE  /\ Follows(end, next) /\ Height(next) = Height(end)
         /\ \A y \in Places : ~Precedes(next, y) => ~Precedes(end, y)
<1>1. PICK len : len = Len(lines[n])
  OBVIOUS
<1>2. n \in Nat /\ len \in Nat /\ end[1] = n /\ end[2] = len /\ next[1] = n + 1 /\ next[2] = 0
  <2>1. lines[n] \in Seq(STRING)
    BY DEF IsText
  <2> QED
    BY <1>1, <2>1
<1>3. end \in Positions /\ next \in Positions
  BY <1>1, <1>2 DEF Positions
<1>4. Height(next) = Height(end)
  BY <1>3, HeightEnd
<1>5. ASSUME NEW x \in Positions
      PROVE  /\ ~Precedes(end, x) => ~Precedes(next, x)
             /\ ~Precedes(next, x) => ~Precedes(end, x) \/ Height(x) = Height(next)
  <2>1. x = <<x[1], x[2]>> /\ x[1] \in Nat /\ x[2] \in Nat
    BY InOrder
  <2>2. ~Precedes(end, x) => ~Precedes(next, x)
    BY ONLY <1>2, <2>1 DEF Precedes
  <2>3. ASSUME ~Precedes(next, x), Precedes(end, x) PROVE Height(x) = Height(next)
    <3>1. \/ x[1] = n /\ x[2] >= len
          \/ x[1] = n + 1 /\ x[2] = 0
      BY ONLY <1>2, <2>1, <2>3 DEF Precedes
    <3>2. \/ x[1] = n /\ x[2] >= Len(lines[n])
          \/ x = <<n + 1, 0>>
      BY ONLY <1>1, <2>1, <3>1
    <3>3. Height(x) = Height(<<n, Len(lines[n])>>)
      BY <3>2, HeightEnd
    <3> QED
      BY <1>4, <3>3
  <2> QED
    BY <2>2, <2>3
<1>6. ASSUME NEW y \in Places, ~Precedes(next, y) PROVE ~Precedes(end, y)
  <2>1. y[1] \in Nat /\ y[2] \in Nat /\ y[2] > 0
    BY PlaceParts
  <2>2. y[1] = n => y[2] <= len
    BY <1>1, PlaceParts
  <2> QED
    BY ONLY <1>2, <1>6, <2>1, <2>2 DEF Precedes
<1> QED
  BY <1>3, <1>4, <1>5, <1>6 DEF Follows

(* An opening bracket that has not met a closing one up to cur.            *)
Pending(r, cur) ==
  /\ r \in Places /\ IsOpening(At(r)) /\ ~Precedes(cur, r)
  /\ \A x \in Positions : ~Precedes(x, r) /\ ~Precedes(cur, x) => Height(x) >= Height(r)

(* The ones from p on, and how far above p each of them is.                *)
Stacked(p, cur) ==
  {<<At(r), Height(r) - Height(p)>> : r \in {r \in Places : ~Precedes(r, p) /\ Pending(r, cur)}}

(* An element of it.                                                       *)
LEMMA StackedIs ==
  ASSUME NEW p, NEW cur, NEW e
  PROVE  e \in Stacked(p, cur) <=> \E r \in Places : /\ ~Precedes(r, p) /\ Pending(r, cur)
                                                     /\ e = <<At(r), Height(r) - Height(p)>>
BY Zenon DEF Stacked

(* It still waits where it is not closed, and meets its partner else.      *)
LEMMA PendingOn ==
  ASSUME IsText, NEW cur, NEW next, Follows(cur, next), NEW r, Pending(r, cur)
  PROVE  /\ Height(r) <= Height(next) => Pending(r, next)
         /\ Height(r) <= Height(cur)
<1>1. /\ r \in Places /\ r \in Positions /\ ~Precedes(cur, r) /\ IsOpening(At(r))
      /\ cur \in Positions /\ next \in Positions
  BY PlacesAreThere DEF Pending, Follows
<1>2. Height(r) \in Int /\ Height(cur) \in Int /\ Height(next) \in Int
  BY HeightType
<1>3. Height(cur) >= Height(r)
  <2>1. ~Precedes(cur, cur)
    BY <1>1, InOrder
  <2> QED
    BY <1>1, <2>1 DEF Pending
<1>4. ASSUME Height(r) <= Height(next) PROVE Pending(r, next)
  <2>1. ~Precedes(next, r)
    BY <1>1 DEF Follows
  <2>2. ASSUME NEW x \in Positions, ~Precedes(x, r), ~Precedes(next, x) PROVE Height(x) >= Height(r)
    <3>1. ~Precedes(cur, x) \/ Height(x) = Height(next)
      BY <2>2 DEF Follows
    <3>2. ~Precedes(cur, x) => Height(x) >= Height(r)
      BY <2>2 DEF Pending
    <3>3. Height(x) \in Int
      BY HeightType
    <3> QED
      BY <1>2, <1>4, <3>1, <3>2, <3>3
  <2> QED
    BY <1>1, <2>1, <2>2 DEF Pending
<1> QED
  BY <1>2, <1>3, <1>4

(* What is waiting stays on the stack.                                     *)
LEMMA StackedOn ==
  ASSUME IsText, NEW p \in Places, NEW cur, NEW next, Follows(cur, next), NEW e \in Stacked(p, cur)
  PROVE  /\ e[2] \in Int /\ e[2] <= Height(cur) - Height(p)
         /\ e[2] <= Height(next) - Height(p) => e \in Stacked(p, next)
<1>1. PICK r \in Places : ~Precedes(r, p) /\ Pending(r, cur) /\ e = <<At(r), Height(r) - Height(p)>>
  BY StackedIs
<1>2. Height(r) \in Int /\ Height(p) \in Int /\ Height(cur) \in Int /\ Height(next) \in Int
  BY HeightType
<1>3. e[2] = Height(r) - Height(p)
  BY <1>1
<1>4. (Height(r) <= Height(next) => Pending(r, next)) /\ Height(r) <= Height(cur)
  BY <1>1, PendingOn
<1>5. e[2] <= Height(next) - Height(p) => Pending(r, next)
  BY <1>2, <1>3, <1>4
<1>6. e[2] <= Height(next) - Height(p) => e \in Stacked(p, next)
  BY <1>1, <1>5, StackedIs
<1> QED
  BY <1>2, <1>3, <1>4, <1>6

(* The brackets from p to cur wait or have met their partners.             *)
Sorted(p, cur) ==
  \A r \in Places : IsOpening(At(r)) /\ ~Precedes(r, p) /\ ~Precedes(cur, r) =>
    Pending(r, cur) \/ \E s \in Places : ~Precedes(cur, s) /\ Met(r, s)

(* A place where no bracket is closed.                                     *)
LEMMA NoneClosed ==
  ASSUME IsText, NEW p \in Places, NEW n, NEW i, NEW q, q = <<n, i>>, q \in Places, Precedes(p, q),
         NEW before, before = <<n, i - 1>>, Sorted(p, before), ~IsClosing(At(q))
  PROVE  /\ Stacked(p, before) \subseteq Stacked(p, q) /\ Sorted(p, q)
         /\ IsOpening(At(q)) => <<At(q), Height(q) - Height(p)>> \in Stacked(p, q)
<1>1. /\ Follows(before, q) /\ Precedes(before, q)
      /\ \A x \in Positions : ~Precedes(q, x) => ~Precedes(before, x) \/ x = q
      /\ \A x \in Positions : Precedes(x, q) <=> ~Precedes(before, x)
  BY NextFollows
<1>2. Height(q) \in Int /\ Height(before) \in Int /\ Height(p) \in Int
  BY HeightType
<1>3. Height(before) <= Height(q)
  <2>1. /\ IsOpening(At(q)) => Height(q) = Height(before) + 1
        /\ ~IsOpening(At(q)) => Height(q) = Height(before)
    BY HeightNext
  <2> QED
    BY <1>2, <2>1
<1>4. q \in Positions /\ p \in Positions
  BY PlacesAreThere
<1>5. ASSUME NEW e \in Stacked(p, before) PROVE e \in Stacked(p, q)
  <2>1. /\ e[2] \in Int /\ e[2] <= Height(before) - Height(p)
        /\ e[2] <= Height(q) - Height(p) => e \in Stacked(p, q)
    BY <1>1, StackedOn
  <2> QED
    BY <1>2, <1>3, <2>1
<1>6. ASSUME IsOpening(At(q)) PROVE Pending(q, q)
  <2>1. ASSUME NEW x \in Positions, ~Precedes(x, q), ~Precedes(q, x) PROVE Height(x) >= Height(q)
    <3>1. x = q
      BY <1>4, <2>1, InOrder
    <3> QED
      BY <1>2, <3>1
  <2>2. ~Precedes(q, q)
    BY <1>4, InOrder
  <2> QED
    BY <1>6, <2>1, <2>2 DEF Pending
<1>7. IsOpening(At(q)) => <<At(q), Height(q) - Height(p)>> \in Stacked(p, q)
  <2>1. ~Precedes(q, p)
    BY <1>4, InOrder
  <2> QED
    BY <1>6, <2>1, StackedIs
<1>8. ASSUME NEW r \in Places, IsOpening(At(r)), ~Precedes(r, p), ~Precedes(q, r)
      PROVE  Pending(r, q) \/ \E s \in Places : ~Precedes(q, s) /\ Met(r, s)
  <2>1. r \in Positions
    BY PlacesAreThere
  <2>2. CASE r = q
    BY <1>6, <1>8, <2>2
  <2>3. CASE r # q
    <3>1. ~Precedes(before, r)
      BY <1>1, <1>8, <2>1, <2>3
    <3>2. CASE Pending(r, before)
      <4>1. (Height(r) <= Height(q) => Pending(r, q)) /\ Height(r) <= Height(before)
        BY <1>1, <3>2, PendingOn
      <4>2. Height(r) \in Int
        BY HeightType
      <4> QED
        BY <1>2, <1>3, <4>1, <4>2
    <3>3. CASE \E s \in Places : ~Precedes(before, s) /\ Met(r, s)
      <4>1. PICK s \in Places : ~Precedes(before, s) /\ Met(r, s)
        BY <3>3
      <4>2. ~Precedes(q, s)
        BY <1>1, <4>1, PlacesAreThere DEF Follows
      <4> QED
        BY <4>1, <4>2
    <3> QED
      BY <1>8, <3>1, <3>2, <3>3 DEF Sorted
  <2> QED
    BY <2>2, <2>3
<1> QED
  BY <1>5, <1>7, <1>8 DEF Sorted

(* A place where the bracket that is highest on the stack is closed.       *)
LEMMA TopCloses ==
  ASSUME IsText, NEW n, NEW i, NEW q, q = <<n, i>>, q \in Places,
         NEW before, before = <<n, i - 1>>, IsClosing(At(q)),
         NEW r, Pending(r, before), Height(r) = Height(before)
  PROVE  Pair(r, q)
<1>1. /\ Follows(before, q) /\ Precedes(before, q)
      /\ \A x \in Positions : Precedes(x, q) <=> ~Precedes(before, x)
  BY NextFollows
<1>2. Height(q) = Height(before) - 1
  BY HeightNext
<1>3. r \in Places /\ r \in Positions /\ IsOpening(At(r)) /\ ~Precedes(before, r)
  BY PlacesAreThere DEF Pending
<1>4. Precedes(r, q)
  BY <1>1, <1>3
<1>5. \A x \in Positions : ~Precedes(x, r) /\ Precedes(x, q) => Height(x) >= Height(r)
  BY <1>1 DEF Pending
<1> QED
  BY <1>2, <1>3, <1>4, <1>5 DEF Pair

(* The others wait on.                                                     *)
LEMMA OneClosed ==
  ASSUME IsText, NEW p \in Places, NEW n, NEW i, NEW q, q = <<n, i>>, q \in Places, Precedes(p, q),
         NEW before, before = <<n, i - 1>>, Sorted(p, before), IsClosing(At(q)),
         NEW top, Met(top, q)
  PROVE  Sorted(p, q)
<1>1. /\ Follows(before, q) /\ Precedes(before, q)
      /\ \A x \in Positions : ~Precedes(q, x) => ~Precedes(before, x) \/ x = q
      /\ \A x \in Positions : Precedes(x, q) <=> ~Precedes(before, x)
  BY NextFollows
<1>2. Height(q) \in Int /\ Height(before) \in Int
  BY HeightType
<1>3. Height(q) = Height(before) - 1 /\ ~IsOpening(At(q))
  BY HeightNext, OneKind
<1>4. ASSUME NEW r \in Places, IsOpening(At(r)), ~Precedes(r, p), ~Precedes(q, r)
      PROVE  Pending(r, q) \/ \E s \in Places : ~Precedes(q, s) /\ Met(r, s)
  <2>1. r \in Positions /\ r # q
    BY <1>3, <1>4, PlacesAreThere
  <2>2. ~Precedes(before, r)
    BY <1>1, <1>4, <2>1
  <2>3. CASE Pending(r, before)
    <3>1. (Height(r) <= Height(q) => Pending(r, q)) /\ Height(r) <= Height(before)
      BY <1>1, <2>3, PendingOn
    <3>2. Height(r) \in Int
      BY HeightType
    <3>3. CASE Height(r) <= Height(q)
      BY <3>1, <3>3
    <3>4. CASE Height(r) > Height(q)
      <4>1. Height(r) = Height(before)
        BY <1>2, <1>3, <3>1, <3>2, <3>4
      <4>2. Pair(r, q)
        BY <2>3, <4>1, TopCloses
      <4>3. r = top
        BY <4>2, OnePair DEF Met
      <4>4. ~Precedes(q, q)
        BY PlacesAreThere, InOrder
      <4> QED
        BY <4>3, <4>4
    <3> QED
      BY <1>2, <3>2, <3>3, <3>4
  <2>4. CASE \E s \in Places : ~Precedes(before, s) /\ Met(r, s)
    <3>1. PICK s \in Places : ~Precedes(before, s) /\ Met(r, s)
      BY <2>4
    <3>2. ~Precedes(q, s)
      BY <1>1, <3>1, PlacesAreThere DEF Follows
    <3> QED
      BY <3>1, <3>2
  <2> QED
    BY <1>4, <2>2, <2>3, <2>4 DEF Sorted
<1> QED
  BY <1>4 DEF Sorted

-----------------------------------------------------------------------------
(* The invariant of the search for the partner of an opening bracket       *)

(* All brackets from p to q have met their partners.                       *)
Solved(p, q) ==
  \A r \in Places : IsOpening(At(r)) /\ ~Precedes(r, p) /\ ~Precedes(q, r) =>
    \E s \in Places : ~Precedes(q, s) /\ Met(r, s)

(* Two brackets cross before p is closed.                                  *)
Crossed(p, r, q) ==
  /\ Pair(r, q) /\ ~Precedes(r, p) /\ At(q) # Partner(At(r))
  /\ \A x \in Positions : ~Precedes(x, p) /\ Precedes(x, q) => Height(x) >= Height(p)

(* The search goes on: the brackets on the stack are the ones that wait.   *)
Seeks(a, p, cur) ==
  /\ IsSearch(a) /\ a.found = 0 /\ a.failed = FALSE
  /\ IsSeq(a.stack) /\ a.stack # << >> /\ a.stack[1] # Left
  /\ Height(cur) = Height(p) + Brackets(a.stack, Left) - 1
  /\ Ranked(a.stack, Left, Stacked(p, cur))
  /\ Sorted(p, cur) /\ Pending(p, cur)

(* It was given up, or has found the partner of p on line n.               *)
Fails(a, p) == a.found = 0 /\ a.failed = TRUE /\ \E r, q \in Places : Crossed(p, r, q)
Solves(p, q) == Met(p, q) /\ Solved(p, q)
Succeeds(a, p, n) == a.found # 0 /\ Solves(p, <<n, a.found - 1>>)

Goes(a, p, n, i) == Seeks(a, p, <<n, i>>) \/ Fails(a, p) \/ Succeeds(a, p, n)

(* A stack on a bracket has one.                                           *)
LEMMA OnABracket ==
  ASSUME NEW angle, NEW stack, IsSeq(stack), stack # << >>, stack[1] # angle
  PROVE  Brackets(stack, angle) \in Nat \ {0}
<1>1. PICK S : stack \in Seq(S)
  BY DEF IsSeq
<1>2. 1 \in 1..Len(stack)
  BY <1>1
<1>3. 1 \in Others(stack, angle)
  BY <1>2 DEF Others
<1> QED
  BY <1>3, BracketsAreSome

(* The search goes on over one place more.                                 *)
LEMMA SeeksOn ==
  ASSUME IsText, NEW p \in Places, NEW n, NEW i, NEW q, q = <<n, i>>, q \in Places,
         NEW before, before = <<n, i - 1>>, NEW a, Seeks(a, p, before), NEW c, c = At(q),
         NEW b, IsSearch(b), b.found = 0, b.failed = FALSE,
         IsSeq(b.stack), b.stack # << >>, b.stack[1] # Left,
         IsOpening(c) => Brackets(b.stack, Left) = Brackets(a.stack, Left) + 1,
         IsClosing(c) => Brackets(b.stack, Left) = Brackets(a.stack, Left) - 1,
         ~IsOpening(c) /\ ~IsClosing(c) => Brackets(b.stack, Left) = Brackets(a.stack, Left),
         Ranked(b.stack, Left, Stacked(p, q)), Sorted(p, q)
  PROVE  Seeks(b, p, q)
<1>1. /\ IsOpening(c) => Height(q) = Height(before) + 1
      /\ IsClosing(c) => Height(q) = Height(before) - 1
      /\ ~IsOpening(c) /\ ~IsClosing(c) => Height(q) = Height(before)
  BY HeightNext
<1>2. Height(q) \in Int /\ Height(before) \in Int /\ Height(p) \in Int
  BY HeightType
<1>3. Height(before) = Height(p) + Brackets(a.stack, Left) - 1 /\ Pending(p, before) /\ IsSeq(a.stack)
  BY DEF Seeks
<1>4. Brackets(a.stack, Left) \in Nat /\ Brackets(b.stack, Left) \in Nat \ {0}
  BY <1>3, BracketsAreSome, OnABracket
<1>5. IsOpening(c) => ~IsClosing(c)
  BY OneKind
<1>6. Height(q) = Height(p) + Brackets(b.stack, Left) - 1
  BY ONLY <1>1, <1>2, <1>3, <1>4, <1>5,
          IsOpening(c) => Brackets(b.stack, Left) = Brackets(a.stack, Left) + 1,
          IsClosing(c) => Brackets(b.stack, Left) = Brackets(a.stack, Left) - 1,
          ~IsOpening(c) /\ ~IsClosing(c) => Brackets(b.stack, Left) = Brackets(a.stack, Left)
<1>7. Height(p) <= Height(q)
  BY ONLY <1>2, <1>4, <1>6
<1>8. Follows(before, q)
  BY NextFollows
<1>9. Pending(p, q)
  BY <1>3, <1>7, <1>8, PendingOn
<1> QED
  BY <1>6, <1>9 DEF Seeks

(* One character more, and the search goes on as it should, is given up or *)
(* ends with the partner of p.                                             *)
LEMMA StepGoes ==
  ASSUME IsText, NEW p \in Places, NEW n, NEW i, <<n, i>> \in Places, Precedes(p, <<n, i>>),
         NEW a, Goes(a, p, n, i - 1)
  PROVE  Goes(CloseStep(lines[n], a, i), p, n, i)
<1>1. PICK b : b = CloseStep(lines[n], a, i)
  OBVIOUS
<1>2. PICK q : q = <<n, i>>
  OBVIOUS
<1>3. PICK before : before = <<n, i - 1>>
  OBVIOUS
<1>4. PICK c : c = At(q)
  OBVIOUS
<1>5. c = lines[n][i] /\ n \in Nat /\ i \in Nat /\ i > 0 /\ q \in Places
  <2>1. q[1] = n /\ q[2] = i /\ At(q) = lines[q[1]][q[2]]
    BY <1>2 DEF At
  <2> QED
    BY <1>2, <1>4, <2>1, PlaceParts
<1>6. CASE Over(a)
  <2>1. b = a
    BY <1>1, <1>6, Zenon DEF CloseStep
  <2>2. ~Seeks(a, p, <<n, i - 1>>)
    BY <1>6 DEF Seeks, Over
  <2> QED
    BY <1>1, <2>1, <2>2 DEF Goes
<1>7. CASE ~Over(a)
  <2>1. Seeks(a, p, before)
    BY <1>3, <1>7 DEF Goes, Fails, Succeeds, Over
  <2>2. PICK stack : stack = a.stack
    OBVIOUS
  <2>3. PICK rest : rest = DropAngles(stack, Left)
    OBVIOUS
  <2>4. PICK popped : popped = Front(stack)
    OBVIOUS
  <2>5. PICK S : S = Stacked(p, before)
    OBVIOUS
  <2>6. PICK T : T = Stacked(p, q)
    OBVIOUS
  <2>7. /\ IsSearch(a) /\ a.found = 0 /\ a.failed = FALSE
        /\ IsSeq(stack) /\ stack # << >> /\ stack[1] # Left
        /\ Height(before) = Height(p) + Brackets(stack, Left) - 1
        /\ Ranked(stack, Left, S)
        /\ Sorted(p, before) /\ Pending(p, before)
    BY <2>1, <2>2, <2>5 DEF Seeks
  <2>8. Brackets(stack, Left) \in Nat \ {0}
    BY <2>7, OnABracket
  <2>9. ASSUME NEW d, d = [a EXCEPT !.stack = Append(@, c)]
        PROVE  IsSearch(d) /\ d.found = 0 /\ d.failed = FALSE /\ d.stack = Append(stack, c)
    BY <2>2, <2>7, <2>9, Zenon DEF IsSearch
  <2>10. /\ IsSeq(Append(stack, c)) /\ Append(stack, c) # << >>
         /\ Append(stack, c)[1] = stack[1]
         /\ c = Left => Brackets(Append(stack, c), Left) = Brackets(stack, Left)
         /\ c # Left => Brackets(Append(stack, c), Left) = Brackets(stack, Left) + 1
    BY <2>7, PushedBracket
  <2>11. /\ IsSeq(rest) /\ Brackets(rest, Left) = Brackets(stack, Left)
         /\ rest # << >> /\ rest[1] = stack[1] /\ Last(rest) # Left
         /\ Len(rest) <= Len(stack) /\ \A j \in 1..Len(rest) : rest[j] = stack[j]
    BY <2>3, <2>7, <2>8, DroppedAngles
  <2>12. Waiting(a, Left) =>
           /\ IsSeq(popped) /\ popped # << >> /\ popped[1] = stack[1]
           /\ Brackets(popped, Left) = Brackets(stack, Left)
           /\ Len(popped) <= Len(stack) /\ \A j \in 1..Len(popped) : popped[j] = stack[j]
    <3> SUFFICES ASSUME Waiting(a, Left)
                 PROVE  /\ IsSeq(popped) /\ popped # << >> /\ popped[1] = stack[1]
                        /\ Brackets(popped, Left) = Brackets(stack, Left)
                        /\ Len(popped) <= Len(stack) /\ \A j \in 1..Len(popped) : popped[j] = stack[j]
      OBVIOUS
    <3>1. Last(stack) = Left
      BY <2>2 DEF Waiting
    <3>2. /\ IsSeq(popped)
          /\ popped = << >> <=> Len(stack) = 1
          /\ popped # << >> => popped[1] = stack[1]
          /\ Brackets(popped, Left) = Brackets(stack, Left)
      BY <2>4, <2>7, <3>1, PoppedBracket
    <3>3. /\ Len(stack) \in Nat \ {0} /\ Len(popped) = Len(stack) - 1
          /\ \A j \in 1..(Len(stack) - 1) : popped[j] = stack[j]
          /\ Last(stack) = stack[Len(stack)]
      BY <2>4, <2>7, Popped
    <3>4. popped # << >>
      BY <2>7, <3>1, <3>2, <3>3
    <3> QED
      BY <3>2, <3>3, <3>4
  <2>13. BecomesByKind(a, i, c, rest, b)
    <3>1. PICK line : line = lines[n]
      OBVIOUS
    <3>2. b = CloseStep(line, a, i) /\ c = line[i] /\ rest = DropAngles(a.stack, Left)
      BY <1>1, <1>5, <2>2, <2>3, <3>1
    <3> QED
      BY ONLY <1>7, <3>2, StepByKind
  <2>14. ~IsClosing(c) => /\ S \subseteq T /\ Sorted(p, q)
                          /\ IsOpening(c) => <<c, Height(q) - Height(p)>> \in T
    <3> SUFFICES ASSUME ~IsClosing(At(q))
                 PROVE  /\ S \subseteq T /\ Sorted(p, q)
                        /\ IsOpening(At(q)) => <<At(q), Height(q) - Height(p)>> \in T
      BY <1>4
    <3>1. Precedes(p, q) /\ Sorted(p, before)
      BY <1>2, <2>7
    <3>2. /\ Stacked(p, before) \subseteq Stacked(p, q) /\ Sorted(p, q)
          /\ IsOpening(At(q)) => <<At(q), Height(q) - Height(p)>> \in Stacked(p, q)
      BY <1>2, <1>3, <1>5, <3>1, NoneClosed
    <3> QED
      BY <2>5, <2>6, <3>2
  <2>15. ASSUME NEW t, IsSeq(t), Len(t) <= Len(stack), \A j \in 1..Len(t) : t[j] = stack[j]
         PROVE  Ranked(t, Left, S)
    BY <2>7, <2>15, PrefixRanked
  <2>16. ASSUME ~IsOpening(c), ~IsClosing(c), NEW t, IsSeq(t), t # << >>, t[1] # Left,
                Brackets(t, Left) = Brackets(stack, Left), Ranked(t, Left, S),
                IsSearch(b), b.found = 0, b.failed = FALSE, b.stack = t
         PROVE  Goes(b, p, n, i)
    <3>1. Ranked(t, Left, T)
      BY <2>14, <2>16 DEF Ranked
    <3>2. Sorted(p, q)
      BY <2>14, <2>16
    <3>3. Seeks(b, p, q)
      BY <1>2, <1>3, <1>4, <1>5, <2>1, <2>2, <2>6, <2>16, <3>1, <3>2, SeeksOn
    <3> QED
      BY <1>2, <3>3 DEF Goes
  <2>17. ASSUME b = a, ~IsOpening(c), ~IsClosing(c)
         PROVE  Goes(b, p, n, i)
    BY <2>2, <2>7, <2>16, <2>17
  <2>18. ASSUME Waiting(a, Left), NEW at, b = Now(a, popped, at), ~IsOpening(c), ~IsClosing(c)
         PROVE  Goes(b, p, n, i)
    <3>1. /\ IsSearch(b) /\ b.stack = popped
          /\ b.found = IF popped = << >> THEN at ELSE 0
          /\ b.failed = (popped = << >> /\ at = 0)
      BY <2>7, <2>18, NowDoes
    <3>2. IsSearch(b) /\ b.found = 0 /\ b.failed = FALSE /\ b.stack = popped
      BY <2>12, <2>18, <3>1
    <3> QED
      BY <2>7, <2>12, <2>15, <2>16, <2>18, <3>2
  <2>19. ASSUME b = [a EXCEPT !.stack = Append(@, c)], ~IsClosing(c), IsOpening(c) \/ c = Left
         PROVE  Goes(b, p, n, i)
    <3>1. IsSearch(b) /\ b.found = 0 /\ b.failed = FALSE /\ b.stack = Append(stack, c)
      BY <2>9, <2>19, Zenon
    <3>2. IsOpening(c) => c # Left
      BY OneKind
    <3>3. IsOpening(c) => Height(q) - Height(p) = Brackets(stack, Left)
      <4>1. IsOpening(c) => Height(q) = Height(before) + 1
        BY <1>2, <1>3, <1>4, <1>5, HeightNext
      <4>2. Height(q) \in Int /\ Height(before) \in Int /\ Height(p) \in Int
        BY HeightType
      <4> QED
        BY <2>7, <2>8, <4>1, <4>2
    <3>4. c # Left => <<c, Brackets(stack, Left)>> \in T
      BY <2>14, <2>19, <3>3
    <3>5. Ranked(stack, Left, T)
      BY <2>7, <2>14, <2>19 DEF Ranked
    <3>6. Ranked(Append(stack, c), Left, T)
      BY <2>7, <3>4, <3>5, PushRanked
    <3>7. Sorted(p, q)
      BY <2>14, <2>19
    <3>8. Seeks(b, p, q)
      BY <1>2, <1>3, <1>4, <1>5, <2>1, <2>2, <2>6, <2>7, <2>10, <2>19, <3>1, <3>2, <3>6, <3>7, SeeksOn
    <3> QED
      BY <1>2, <3>8 DEF Goes
  <2>20. CASE IsOpening(c)
    <3>1. b = [a EXCEPT !.stack = Append(@, c)]
      BY <2>20, <2>13 DEF BecomesByKind
    <3> QED
      BY <1>1, <2>19, <2>20, <3>1, OneKind
  <2>21. CASE c = Left
    <3>1. \/ b = a
          \/ b = [a EXCEPT !.stack = Append(@, c)]
          \/ Waiting(a, Left) /\ b = Now(a, Front(a.stack), 0)
      BY <2>21, <2>13 DEF BecomesByKind
    <3>2. ~IsOpening(c) /\ ~IsClosing(c)
      BY <2>21, OneKind
    <3> QED
      BY <1>1, <2>2, <2>4, <2>17, <2>18, <2>19, <2>21, <3>1, <3>2
  <2>22. CASE c = Right
    <3>1. \/ b = a
          \/ Waiting(a, Left) /\ b = Now(a, Front(a.stack), i + 1)
      BY <2>22, <2>13 DEF BecomesByKind
    <3>2. ~IsOpening(c) /\ ~IsClosing(c)
      BY <2>22, OneKind
    <3> QED
      BY <1>1, <2>2, <2>4, <2>17, <2>18, <3>1, <3>2
  <2>23. CASE IsStop(c)
    <3>1. b = Now(a, rest, 0)
      BY <2>23, <2>13 DEF BecomesByKind
    <3>2. ~IsOpening(c) /\ ~IsClosing(c)
      BY <2>23, OneKind
    <3>3. /\ IsSearch(b) /\ b.stack = rest
          /\ b.found = IF rest = << >> THEN 0 ELSE 0
          /\ b.failed = (rest = << >> /\ 0 = 0)
      BY <2>7, <3>1, NowDoes
    <3>4. IsSearch(b) /\ b.found = 0 /\ b.failed = FALSE /\ b.stack = rest
      BY <2>11, <3>3
    <3> QED
      BY <1>1, <2>7, <2>11, <2>15, <2>16, <3>2, <3>4
  <2>24. CASE ~IsOpening(c) /\ c # Left /\ ~IsClosing(c) /\ c # Right /\ ~IsStop(c)
    <3>1. b = a
      BY <2>24, <2>13 DEF BecomesByKind
    <3> QED
      BY <1>1, <2>17, <2>24, <3>1
  <2>25. CASE IsClosing(c)
    <3>1. \/ Last(rest) = Partner(c) /\ b = Now(a, Front(rest), i + 1)
          \/ Last(rest) # Partner(c) /\ b = [a EXCEPT !.failed = TRUE]
      BY <2>11, <2>13, <2>25 DEF BecomesByKind
    <3>2. ~IsOpening(c)
      BY <2>25, OneKind
    <3>3. Ranked(rest, Left, S)
      BY <2>11, <2>15
    <3>4. PICK e : e = <<Last(rest), Brackets(stack, Left) - 1>>
      OBVIOUS
    <3>5. e \in S
      BY <2>11, <3>3, <3>4, LastRanked
    <3>6. PICK r \in Places : ~Precedes(r, p) /\ Pending(r, before) /\ e = <<At(r), Height(r) - Height(p)>>
      BY <2>5, <3>5, StackedIs
    <3>7. At(r) = Last(rest) /\ Height(r) - Height(p) = Brackets(stack, Left) - 1
      BY <3>4, <3>6
    <3>8. /\ Height(r) \in Int /\ Height(p) \in Int /\ Height(before) \in Int /\ Height(q) \in Int
          /\ Height(q) = Height(before) - 1
      BY <1>2, <1>3, <1>4, <1>5, <2>25, HeightType, HeightNext
    <3>9. Height(r) = Height(before)
      BY <2>7, <2>8, <3>7, <3>8
    <3>10. Pair(r, q)
      BY <1>2, <1>3, <1>4, <1>5, <2>25, <3>6, <3>9, TopCloses
    <3>11. IsOpening(At(r))
      BY <3>6 DEF Pending
    <3>12. CASE Last(rest) # Partner(c) /\ b = [a EXCEPT !.failed = TRUE]
      <4>1. b.found = 0 /\ b.failed = TRUE
        BY <2>7, <3>12, Zenon DEF IsSearch
      <4>2. At(q) # Partner(At(r))
        BY <1>4, <3>7, <3>11, <3>12, PartnerTwice
      <4>3. \A x \in Positions : Precedes(x, q) => ~Precedes(before, x)
        BY <1>2, <1>3, <1>5, NextFollows
      <4>4. \A x \in Positions : ~Precedes(x, p) /\ Precedes(x, q) => Height(x) >= Height(p)
        BY <2>7, <4>3 DEF Pending
      <4>5. Crossed(p, r, q)
        BY <3>6, <3>10, <4>2, <4>4 DEF Crossed
      <4> QED
        BY <1>1, <1>5, <4>1, <4>5 DEF Goes, Fails
    <3>13. CASE Last(rest) = Partner(c) /\ b = Now(a, Front(rest), i + 1)
      <4>1. PICK left : left = Front(rest)
        OBVIOUS
      <4>2. At(q) = Partner(At(r))
        BY <1>4, <2>25, <3>7, <3>13, PartnerTwice
      <4>3. Met(r, q)
        BY <3>10, <4>2 DEF Met
      <4>4. Sorted(p, q)
        BY <1>2, <1>3, <1>4, <1>5, <2>7, <2>25, <4>3, OneClosed
      <4>5. /\ IsSeq(left)
            /\ left # << >> => left[1] = rest[1]
            /\ Brackets(left, Left) = Brackets(stack, Left) - 1
        BY <2>11, <4>1, PoppedBracket
      <4>6. /\ IsSearch(b) /\ b.stack = left
            /\ b.found = IF left = << >> THEN i + 1 ELSE 0
            /\ b.failed = (left = << >> /\ i + 1 = 0)
        BY <2>7, <3>13, <4>1, NowDoes
      <4>7. CASE left # << >>
        <5>1. IsSearch(b) /\ b.found = 0 /\ b.failed = FALSE /\ b.stack = left
          BY <4>6, <4>7
        <5>2. Ranked(left, Left, S)
          <6>1. Len(left) <= Len(rest) /\ \A j \in 1..Len(left) : left[j] = rest[j]
            <7>1. Len(rest) \in Nat \ {0} /\ Len(left) = Len(rest) - 1 /\ \A j \in 1..(Len(rest) - 1) : left[j] = rest[j]
              BY <2>11, <4>1, Popped
            <7> QED
              BY <7>1
          <6> QED
            BY <2>11, <3>3, <4>5, <6>1, PrefixRanked
        <5>3. ASSUME NEW f \in S, f[2] \in 0..(Brackets(left, Left) - 1) PROVE f \in T
          <6>1. Follows(before, q)
            BY <1>2, <1>3, <1>5, NextFollows
          <6>2. f[2] \in Int /\ (f[2] <= Height(q) - Height(p) => f \in T)
            BY <2>5, <2>6, <6>1, StackedOn
          <6>3. f[2] <= Height(q) - Height(p)
            <7>1. PICK k : k = f[2]
              OBVIOUS
            <7>2. k \in Int /\ k <= Brackets(stack, Left) - 2
              BY <2>8, <4>5, <5>3, <7>1
            <7>3. Height(q) - Height(p) = Brackets(stack, Left) - 2
              <8>1. Height(before) = Height(p) + Brackets(stack, Left) - 1
                BY <2>7
              <8>2. Brackets(stack, Left) \in Int
                BY <2>8
              <8> QED
                BY ONLY <3>8, <8>1, <8>2
            <7> QED
              BY <7>1, <7>2, <7>3
          <6> QED
            BY <6>2, <6>3
        <5>4. Ranked(left, Left, T)
          BY <4>5, <5>2, <5>3, RankedIn
        <5>5. left[1] # Left
          BY <2>7, <2>11, <4>5, <4>7
        <5>6. Seeks(b, p, q)
          BY <1>2, <1>3, <1>4, <1>5, <2>1, <2>2, <2>6, <2>25, <3>2, <4>4, <4>5, <4>7, <5>1, <5>4, <5>5, SeeksOn
        <5> QED
          BY <1>1, <1>2, <5>6 DEF Goes
      <4>8. CASE left = << >>
        <5>1. b.found # 0 /\ b.found - 1 = i
          BY <1>5, <4>6, <4>8
        <5>2. Brackets(left, Left) = 0
          <6>1. Others(left, Left) = {}
            <7>1. Len(left) = 0
              BY <4>8
            <7> QED
              BY <7>1 DEF Others
          <6> QED
            BY <4>5, <6>1, BracketsAreSome
        <5>3. Height(p) = Height(before)
          BY <2>7, <2>8, <3>8, <4>5, <5>2
        <5>4. Pair(p, q)
          BY <1>2, <1>3, <1>4, <1>5, <2>7, <2>25, <5>3, TopCloses
        <5>5. Met(p, q)
          BY <3>10, <4>3, <5>4, OnePair
        <5>6. Solved(p, q)
          <6>1. ASSUME NEW s \in Places, IsOpening(At(s)), ~Precedes(s, p), ~Precedes(q, s), Pending(s, q)
                PROVE  FALSE
            <7>1. s \in Positions /\ q \in Positions /\ s # q
              BY <1>4, <1>5, <3>2, <6>1, PlacesAreThere
            <7>2. Precedes(s, q)
              BY <6>1, <7>1, InOrder
            <7>3. Height(s) >= Height(p)
              BY <5>4, <6>1, <7>1, <7>2 DEF Pair
            <7>4. ~Precedes(q, q)
              BY <7>1, InOrder
            <7>5. Height(q) >= Height(s)
              BY <6>1, <7>1, <7>2, <7>4, InOrder DEF Pending
            <7>6. Height(s) \in Int
              BY HeightType
            <7> QED
              BY <3>8, <5>3, <7>3, <7>5, <7>6
          <6> QED
            BY <4>4, <6>1 DEF Sorted, Solved
        <5>7. Solves(p, q)
          BY <5>5, <5>6 DEF Solves
        <5> QED
          BY <1>1, <1>2, <5>1, <5>7 DEF Goes, Succeeds
      <4> QED
        BY <4>7, <4>8
    <3> QED
      BY <3>1, <3>12, <3>13
  <2> QED
    BY <2>20, <2>21, <2>22, <2>23, <2>24, <2>25
<1> QED
  BY <1>6, <1>7

-----------------------------------------------------------------------------
(* The whole search for the partner                                        *)

(* A line after the one on which the search begins.                        *)
LEMMA LineGoes ==
  ASSUME IsText, NEW p \in Places, NEW n \in 1..Len(lines), p[1] < n,
         NEW a, Goes(a, p, n, 0)
  PROVE  Goes(FindEndOfExpressionInLine(lines[n], 1, a), p, n, Len(lines[n]))
<1>1. PICK line : line = lines[n]
  OBVIOUS
<1>2. Len(line) \in Nat
  <2>1. line \in Seq(STRING)
    BY <1>1 DEF IsText
  <2> QED
    BY <2>1
<1>3. PICK after : LineRun(line, 1, a, after)
  <2>1. 1 \in 1..(Len(line) + 1)
    BY <1>2
  <2> QED
    BY <1>2, <2>1, LineLoop
<1> DEFINE P == {k \in 0..Len(line) : Goes(after[k], p, n, k)}
<1>4. 0 \in P
  <2>1. after[0] = a
    BY <1>3 DEF LineRun
  <2> QED
    BY <1>2, <2>1
<1>5. ASSUME NEW k \in 0..(Len(line) - 1), k \in P PROVE k + 1 \in P
  <2>1. PICK i : i = k + 1
    OBVIOUS
  <2>2. i \in 1..Len(line) /\ i - 1 = k /\ i \in 0..Len(line)
    BY <1>2, <2>1
  <2>3. after[i] = CloseStep(line, after[k], i)
    BY <1>3, <2>2 DEF LineRun
  <2>4. Goes(after[k], p, n, i - 1)
    BY <1>5, <2>2
  <2>5. <<n, i>> \in Places
    BY <1>1, <2>2, APlace
  <2>6. Precedes(p, <<n, i>>)
    BY DEF Precedes
  <2>7. Goes(after[i], p, n, i)
    BY <1>1, <2>3, <2>4, <2>5, <2>6, StepGoes
  <2> QED
    BY <2>1, <2>2, <2>7
<1>6. Len(line) \in P
  <2>1. P \in SUBSET (0..Len(line))
    OBVIOUS
  <2>2. \A k \in 0..Len(line) : k \in P
    <3> HIDE DEF P
    <3> QED
      BY <1>2, <1>4, <1>5, <2>1, NaturalSteps
  <2> QED
    BY <1>2, <2>2
<1> QED
  BY <1>1, <1>3, <1>6 DEF LineRun

(* A stack of one bracket.                                                 *)
LEMMA OneBracket ==
  ASSUME NEW angle, NEW c, c # angle, NEW stack, stack = Append(<< >>, c),
         NEW S, <<c, 0>> \in S
  PROVE  /\ IsSeq(stack) /\ stack # << >> /\ stack[1] = c
         /\ Brackets(stack, angle) = 1 /\ Ranked(stack, angle, S)
<1>1. PICK empty : empty = << >>
  OBVIOUS
<1>2. IsSeq(empty) /\ Len(empty) = 0
  <2>1. empty \in Seq({})
    BY ONLY <1>1
  <2> QED
    BY ONLY <1>1, <2>1 DEF IsSeq
<1>3. Brackets(empty, angle) = 0
  <2>1. Others(empty, angle) = {}
    BY <1>2 DEF Others
  <2> QED
    BY <1>2, <2>1, BracketsAreSome
<1>4. Ranked(empty, angle, S)
  BY <1>2 DEF Ranked
<1>5. /\ IsSeq(Append(empty, c)) /\ Append(empty, c) # << >>
      /\ empty = << >> => Append(empty, c)[1] = c
      /\ c # angle => Brackets(Append(empty, c), angle) = Brackets(empty, angle) + 1
  BY <1>2, PushedBracket
<1>6. Ranked(Append(empty, c), angle, S)
  BY <1>2, <1>3, <1>4, PushRanked
<1> QED
  BY <1>1, <1>3, <1>5, <1>6

(* The first character of the search.                                      *)
LEMMA SeeksFirst ==
  ASSUME IsText, NEW p \in Places, IsOpening(At(p))
  PROVE  Goes(CloseStep(lines[p[1]], Search(<< >>), p[2]), p, p[1], p[2])
<1>1. PICK line : line = lines[p[1]]
  OBVIOUS
<1>2. PICK i : i = p[2]
  OBVIOUS
<1>3. PICK b : b = CloseStep(line, Search(<< >>), i)
  OBVIOUS
<1>4. p = <<p[1], i>>
  BY <1>2, PlaceParts
<1>5. PICK c : c = At(p)
  OBVIOUS
<1>6. c = line[i] /\ IsOpening(c)
  BY <1>1, <1>2, <1>5 DEF At
<1>7. b = [Search(<< >>) EXCEPT !.stack = Append(@, c)]
  <2>1. PICK a : a = Search(<< >>)
    OBVIOUS
  <2>2. ~Over(a)
    BY <2>1 DEF Over, Search
  <2>3. BecomesByKind(a, i, line[i], DropAngles(a.stack, Left), CloseStep(line, a, i))
    BY <2>2, StepByKind
  <2> QED
    BY <1>3, <1>6, <2>1, <2>3 DEF BecomesByKind
<1>8. IsSearch(b) /\ b.found = 0 /\ b.failed = FALSE /\ b.stack = Append(<< >>, c)
  <2>1. b = [stack |-> Append(<< >>, c), found |-> 0, failed |-> FALSE, skip |-> FALSE]
    BY <1>7, Zenon DEF Search
  <2> QED
    BY <2>1 DEF IsSearch
<1>9. Height(p) \in Int /\ p \in Positions
  BY HeightType, PlacesAreThere
<1>10. ~Precedes(p, p) /\ \A x \in Positions : ~Precedes(x, p) /\ ~Precedes(p, x) => x = p
  BY <1>9, InOrder
<1>11. Pending(p, p)
  BY <1>9, <1>10 DEF Pending
<1>12. Sorted(p, p)
  BY <1>10, <1>11, PlacesAreThere DEF Sorted
<1>13. <<c, 0>> \in Stacked(p, p)
  <2>1. Height(p) - Height(p) = 0
    BY <1>9
  <2> QED
    BY <1>5, <1>10, <1>11, <2>1, StackedIs
<1>14. c # Left
  BY <1>6, OneKind
<1>15. /\ IsSeq(b.stack) /\ b.stack # << >> /\ b.stack[1] = c
       /\ Brackets(b.stack, Left) = 1 /\ Ranked(b.stack, Left, Stacked(p, p))
  BY <1>8, <1>13, <1>14, OneBracket
<1>16. Height(p) = Height(p) + Brackets(b.stack, Left) - 1
  BY <1>9, <1>15
<1>17. Seeks(b, p, p)
  BY <1>8, <1>11, <1>12, <1>14, <1>15, <1>16 DEF Seeks
<1> QED
  BY <1>1, <1>2, <1>3, <1>4, <1>17 DEF Goes

(* The line on which it begins.                                            *)
LEMMA FirstLineGoes ==
  ASSUME IsText, NEW p \in Places, IsOpening(At(p))
  PROVE  Goes(FindEndOfExpressionInLine(lines[p[1]], p[2], Search(<< >>)), p, p[1], Len(lines[p[1]]))
<1>1. PICK line : line = lines[p[1]]
  OBVIOUS
<1>2. PICK from : from = p[2]
  OBVIOUS
<1>3. PICK n : n = p[1]
  OBVIOUS
<1>4. /\ Len(line) \in Nat /\ from \in Nat /\ from > 0 /\ from \in 1..Len(line)
      /\ n \in 1..Len(lines) /\ n \in Nat
  BY <1>1, <1>2, <1>3, PlaceParts
<1>5. PICK after : LineRun(line, from, Search(<< >>), after)
  <2>1. from \in 1..(Len(line) + 1)
    BY <1>4
  <2> QED
    BY <1>4, <2>1, LineLoop
<1>6. /\ after[from - 1] = Search(<< >>)
      /\ \A i \in from..Len(line) : after[i] = CloseStep(line, after[i - 1], i)
  BY <1>5 DEF LineRun
<1> DEFINE N == Len(line) - from
           P == {k \in 0..N : Goes(after[from + k], p, n, from + k)}
<1>7. N \in Nat
  BY <1>4
<1>8. 0 \in P
  <2>1. after[from] = CloseStep(line, Search(<< >>), from)
    BY <1>4, <1>6
  <2>2. Goes(after[from], p, n, from)
    BY <1>1, <1>2, <1>3, <2>1, SeeksFirst
  <2>3. from + 0 = from
    BY <1>4
  <2> QED
    BY <1>7, <2>2, <2>3
<1>9. ASSUME NEW k \in 0..(N - 1), k \in P PROVE k + 1 \in P
  <2>1. PICK i : i = from + (k + 1)
    OBVIOUS
  <2>2. i \in 1..Len(line) /\ i \in from..Len(line) /\ i - 1 = from + k /\ i > from /\ k + 1 \in 0..N
    BY <1>4, <2>1
  <2>3. after[i] = CloseStep(line, after[i - 1], i)
    BY <1>6, <2>2
  <2>4. Goes(after[i - 1], p, n, i - 1)
    BY <1>9, <2>2
  <2>5. <<n, i>> \in Places
    BY <1>1, <1>3, <1>4, <2>2, APlace
  <2>6. Precedes(p, <<n, i>>)
    BY <1>2, <1>3, <2>2 DEF Precedes
  <2>7. Goes(after[i], p, n, i)
    BY <1>1, <1>3, <2>3, <2>4, <2>5, <2>6, StepGoes
  <2> QED
    BY <2>1, <2>2, <2>7
<1>10. N \in P
  <2>1. P \in SUBSET (0..N)
    OBVIOUS
  <2> HIDE DEF N
  <2>2. \A k \in 0..N : k \in P
    <3> HIDE DEF P
    <3> QED
      BY <1>7, <1>8, <1>9, <2>1, NaturalSteps
  <2> QED
    BY <1>7, <2>2
<1>11. from + N = Len(line)
  BY <1>4
<1>12. Goes(after[Len(line)], p, n, Len(line))
  BY <1>10, <1>11
<1> QED
  BY <1>1, <1>2, <1>3, <1>5, <1>12 DEF LineRun

(* After line n, the search goes on, is given up or has succeeded.         *)
LinesGo(r, p, n) ==
  \/ Seeks(r.a, p, <<n, Len(lines[n])>>)
  \/ Fails(r.a, p)
  \/ Succeeds(r.a, p, r.n)

(* The line on which it begins.                                            *)
LEMMA FirstLineGoesOn ==
  ASSUME IsText, NEW p \in Places, IsOpening(At(p))
  PROVE  LinesGo(CloseLine(lines, p[1], p[2], [n |-> p[1], a |-> Search(<< >>)], p[1]), p, p[1])
<1>1. PICK n : n = p[1]
  OBVIOUS
<1>2. PICK from : from = p[2]
  OBVIOUS
<1>3. PICK end : end = FindEndOfExpressionInLine(lines[n], from, Search(<< >>))
  OBVIOUS
<1>4. Goes(end, p, n, Len(lines[n]))
  BY <1>1, <1>2, <1>3, FirstLineGoes
<1>5. CloseLine(lines, n, from, [n |-> n, a |-> Search(<< >>)], n) = [n |-> n, a |-> end]
  BY <1>3 DEF CloseLine
<1>6. LinesGo([n |-> n, a |-> end], p, n)
  BY <1>4 DEF LinesGo, Goes
<1> QED
  BY <1>1, <1>2, <1>5, <1>6

(* To the next line.                                                       *)
LEMMA SeeksNextLine ==
  ASSUME IsText, NEW p \in Places, NEW n \in 1..Len(lines), NEW end, end = <<n, Len(lines[n])>>,
         NEW next, next = <<n + 1, 0>>, NEW a, Seeks(a, p, end)
  PROVE  Seeks(a, p, next)
<1>1. /\ Follows(end, next) /\ Height(next) = Height(end)
      /\ \A y \in Places : ~Precedes(next, y) => ~Precedes(end, y)
  BY LineFollows
<1>2. Height(end) \in Int /\ Height(p) \in Int
  BY HeightType
<1>3. ASSUME NEW r, Pending(r, end) PROVE Pending(r, next)
  <2>1. (Height(r) <= Height(next) => Pending(r, next)) /\ Height(r) <= Height(end)
    BY <1>1, <1>3, PendingOn
  <2> QED
    BY <1>1, <2>1
<1>4. Stacked(p, end) \subseteq Stacked(p, next)
  <2>1. ASSUME NEW e \in Stacked(p, end) PROVE e \in Stacked(p, next)
    BY <1>3, StackedIs
  <2> QED
    BY <2>1
<1>5. Sorted(p, next)
  <2>1. ASSUME NEW r \in Places, IsOpening(At(r)), ~Precedes(r, p), ~Precedes(next, r)
        PROVE  Pending(r, next) \/ \E s \in Places : ~Precedes(next, s) /\ Met(r, s)
    <3>1. Pending(r, end) \/ \E s \in Places : ~Precedes(end, s) /\ Met(r, s)
      BY <1>1, <2>1 DEF Seeks, Sorted
    <3>2. \A s \in Places : ~Precedes(end, s) => ~Precedes(next, s)
      BY <1>1, PlacesAreThere DEF Follows
    <3> QED
      BY <1>3, <3>1, <3>2
  <2> QED
    BY <2>1 DEF Sorted
<1>6. /\ IsSearch(a) /\ a.found = 0 /\ a.failed = FALSE
      /\ IsSeq(a.stack) /\ a.stack # << >> /\ a.stack[1] # Left
      /\ Height(end) = Height(p) + Brackets(a.stack, Left) - 1
      /\ Ranked(a.stack, Left, Stacked(p, end))
      /\ Pending(p, end)
  BY DEF Seeks
<1>7. Ranked(a.stack, Left, Stacked(p, next))
  BY <1>4, <1>6 DEF Ranked
<1>8. Pending(p, next) /\ Height(next) = Height(p) + Brackets(a.stack, Left) - 1
  BY <1>1, <1>3, <1>6
<1> QED
  BY <1>5, <1>6, <1>7, <1>8 DEF Seeks

(* One line more.                                                          *)
LEMMA LineMoreGoes ==
  ASSUME IsText, NEW p \in Places, NEW n \in 1..Len(lines), p[1] < n,
         NEW r, LinesGo(r, p, n - 1)
  PROVE  LinesGo(CloseLine(lines, p[1], p[2], r, n), p, n)
<1>1. PICK next : next = CloseLine(lines, p[1], p[2], r, n)
  OBVIOUS
<1>2. p[1] \in Nat /\ p[1] > 0 /\ n \in Nat /\ n - 1 \in 1..Len(lines) /\ n # p[1]
  <2>1. p[1] \in Nat /\ p[1] \in 1..Len(lines)
    BY PlaceParts
  <2> QED
    BY <2>1
<1>3. CASE Over(r.a) \/ r.a.stack = << >>
  <2>1. next = r
    BY <1>1, <1>2, <1>3 DEF CloseLine
  <2>2. ~Seeks(r.a, p, <<n - 1, Len(lines[n - 1])>>)
    BY <1>3 DEF Seeks, Over
  <2>3. Fails(r.a, p) \/ Succeeds(r.a, p, r.n)
    BY <2>2 DEF LinesGo
  <2> QED
    BY <1>1, <2>1, <2>3 DEF LinesGo
<1>4. CASE ~(Over(r.a) \/ r.a.stack = << >>)
  <2>1. Seeks(r.a, p, <<n - 1, Len(lines[n - 1])>>)
    BY <1>4 DEF LinesGo, Fails, Succeeds, Over
  <2>2. PICK m : m = n - 1
    OBVIOUS
  <2>3. m \in 1..Len(lines) /\ m + 1 = n
    BY <1>2, <2>2
  <2>4. Seeks(r.a, p, <<m + 1, 0>>)
    BY <2>1, <2>2, <2>3, SeeksNextLine
  <2>5. PICK end : end = FindEndOfExpressionInLine(lines[n], 1, r.a)
    OBVIOUS
  <2>6. Goes(r.a, p, n, 0)
    BY <2>3, <2>4 DEF Goes
  <2>7. Goes(end, p, n, Len(lines[n]))
    BY <2>5, <2>6, LineGoes
  <2>8. next = [n |-> n, a |-> end]
    BY <1>1, <1>2, <1>4, <2>5 DEF CloseLine
  <2>9. LinesGo([n |-> n, a |-> end], p, n)
    BY <2>7 DEF LinesGo, Goes
  <2> QED
    BY <1>1, <2>8, <2>9
<1> QED
  BY <1>3, <1>4

(* The search succeeds with the partner of p, or else p has none.          *)
LEMMA SearchGoes ==
  ASSUME IsText, NEW p \in Places, IsOpening(At(p)), NEW e, e = Closes(p)
  PROVE  /\ e # Nowhere => Solves(p, <<e.line, e.pos - 1>>)
         /\ e = Nowhere => \/ \E r, q \in Places : Crossed(p, r, q)
                           \/ \A x \in Places : ~Precedes(x, p) => Height(x) >= Height(p)
<1>1. PICK m : m = p[1]
  OBVIOUS
<1>2. PICK from : from = p[2]
  OBVIOUS
<1>3. PICK N : N = Len(lines)
  OBVIOUS
<1>4. N \in Nat /\ m \in Nat /\ m > 0 /\ m \in 1..N
  <2>1. p[1] \in Nat /\ p[1] \in 1..Len(lines)
    BY PlaceParts
  <2> QED
    BY <1>1, <1>3, <2>1 DEF IsText
<1>5. PICK after : LinesRun(m, from, after)
  BY <1>3, <1>4, LinesLoop
<1>6. /\ after[m - 1] = [n |-> m, a |-> Search(<< >>)]
      /\ \A n \in m..N : after[n] = CloseLine(lines, m, from, after[n - 1], n)
  BY <1>3, <1>5, Zenon DEF LinesRun
<1>7. e # Nowhere => /\ after[N].a.found # 0
                     /\ e = [line |-> after[N].n, pos |-> after[N].a.found]
  BY <1>1, <1>2, <1>3, <1>5, Zenon DEF LinesRun, Closes
<1>8. e = Nowhere => after[N].a.found = 0
  <2>1. IsOpening(lines[m][from])
    BY <1>1, <1>2 DEF At
  <2> QED
    BY <1>1, <1>2, <1>3, <1>5, <2>1, Zenon DEF LinesRun, Closes
<1> DEFINE K == N - m
           P == {k \in 0..K : LinesGo(after[m + k], p, m + k)}
<1>9. K \in Nat
  BY <1>4
<1>10. 0 \in P
  <2>1. after[m] = CloseLine(lines, m, from, [n |-> m, a |-> Search(<< >>)], m)
    BY <1>4, <1>6
  <2>2. LinesGo(after[m], p, m)
    BY <1>1, <1>2, <2>1, FirstLineGoesOn
  <2>3. m + 0 = m
    BY <1>4
  <2> QED
    BY <1>9, <2>2, <2>3
<1>11. ASSUME NEW k \in 0..(K - 1), k \in P PROVE k + 1 \in P
  <2>1. PICK n : n = m + (k + 1)
    OBVIOUS
  <2>2. n \in 1..N /\ n \in m..N /\ n - 1 = m + k /\ n > m /\ k + 1 \in 0..K
    BY <1>4, <2>1
  <2>3. after[n] = CloseLine(lines, m, from, after[n - 1], n)
    BY <1>6, <2>2
  <2>4. LinesGo(after[n - 1], p, n - 1)
    BY <1>11, <2>2
  <2>5. n \in 1..Len(lines) /\ p[1] < n
    BY <1>1, <1>3, <1>4, <2>2
  <2>6. LinesGo(CloseLine(lines, p[1], p[2], after[n - 1], n), p, n)
    BY <2>4, <2>5, LineMoreGoes
  <2>7. LinesGo(after[n], p, n)
    BY <1>1, <1>2, <2>3, <2>6
  <2> QED
    BY <2>1, <2>2, <2>7
<1>12. K \in P
  <2>1. P \in SUBSET (0..K)
    OBVIOUS
  <2> HIDE DEF K
  <2>2. \A k \in 0..K : k \in P
    <3> HIDE DEF P
    <3> QED
      BY <1>9, <1>10, <1>11, <2>1, NaturalSteps
  <2> QED
    BY <1>9, <2>2
<1>13. m + K = N
  BY <1>4
<1>14. LinesGo(after[N], p, N)
  BY <1>12, <1>13
<1>15. ASSUME e # Nowhere PROVE Solves(p, <<e.line, e.pos - 1>>)
  <2>1. Succeeds(after[N].a, p, after[N].n)
    BY <1>7, <1>14, <1>15 DEF LinesGo, Seeks, Fails
  <2>2. e.line = after[N].n /\ e.pos = after[N].a.found
    BY <1>7, <1>15
  <2> QED
    BY <2>1, <2>2 DEF Succeeds
<1>16. ASSUME e = Nowhere
       PROVE  \/ \E r, q \in Places : Crossed(p, r, q)
              \/ \A x \in Places : ~Precedes(x, p) => Height(x) >= Height(p)
  <2>1. PICK end : end = <<N, Len(lines[N])>>
    OBVIOUS
  <2>2. Seeks(after[N].a, p, end) \/ Fails(after[N].a, p)
    BY <1>8, <1>14, <1>16, <2>1 DEF LinesGo, Succeeds
  <2>3. ASSUME NEW x \in Places PROVE ~Precedes(end, x)
    <3>1. x[1] \in Nat /\ x[2] \in Nat /\ x[1] <= N /\ x[2] <= Len(lines[x[1]]) /\ Len(lines[x[1]]) \in Nat
      BY <1>3, PlaceParts
    <3>2. end[1] = N /\ end[2] = Len(lines[N])
      BY <2>1
    <3> QED
      BY <1>4, <3>1, <3>2 DEF Precedes
  <2>4. ASSUME Seeks(after[N].a, p, end), NEW x \in Places, ~Precedes(x, p) PROVE Height(x) >= Height(p)
    <3>1. x \in Positions /\ Pending(p, end)
      BY <2>4, PlacesAreThere DEF Seeks
    <3> QED
      BY <2>3, <2>4, <3>1 DEF Pending
  <2> QED
    BY <2>2, <2>4 DEF Fails
<1> QED
  BY <1>15, <1>16

-----------------------------------------------------------------------------
(* What the search has found                                               *)

(* It is what the brackets match.                                          *)
LEMMA SolvedIsMatching ==
  ASSUME IsText, NEW p, NEW q, Solves(p, q)
  PROVE  Matching(p, q)
<1>1. Met(p, q) /\ Solved(p, q)
  BY DEF Solves
<1>2. Partnered(p, q)
  BY <1>1, PairIsPartnered DEF Met
<1>3. ASSUME NEW r \in Between(p, q), At(r) \in Opening
      PROVE  \E s \in Between(p, q) : Partnered(r, s) /\ At(s) = Partner(At(r))
  <2>1. r \in Places /\ ~Precedes(r, p) /\ ~Precedes(q, r) /\ IsOpening(At(r))
    BY <1>3 DEF Between, IsOpening
  <2>2. PICK s \in Places : ~Precedes(q, s) /\ Met(r, s)
    BY <1>1, <2>1 DEF Solved
  <2>3. Precedes(r, s) /\ Partnered(r, s) /\ At(s) = Partner(At(r))
    BY <2>2, PairIsPartnered DEF Met, Pair
  <2>4. p \in Positions /\ r \in Positions /\ s \in Positions
    BY <1>1, <2>1, PlacesAreThere DEF Met, Pair
  <2>5. ~Precedes(s, p)
    BY <2>1, <2>3, <2>4, InOrder, InOrderOn
  <2>6. s \in Between(p, q)
    BY <2>2, <2>5 DEF Between
  <2> QED
    BY <2>3, <2>6
<1> QED
  BY <1>2, <1>3 DEF Matching

(* Brackets that cross, or that are never closed, do not match.            *)
LEMMA CrossedIsNotMatching ==
  ASSUME IsText, NEW p \in Places, IsOpening(At(p)), NEW q, Matching(p, q)
  PROVE  /\ \A r, s \in Places : ~Crossed(p, r, s)
         /\ \E x \in Places : ~Precedes(x, p) /\ ~(Height(x) >= Height(p))
<1>1. q \in Places /\ Precedes(p, q) /\ Balanced(p, q)
  BY DEF Matching, Partnered, Partners
<1>2. p \in Positions /\ q \in Positions
  BY <1>1, PlacesAreThere
<1>3. ~Precedes(q, p)
  BY <1>1, <1>2, InOrder
<1>4. Height(q) = Height(p) - 1 /\ Height(p) \in Int
  BY <1>1, <1>3, BalancedIs, HeightType
<1>5. ASSUME NEW r \in Places, NEW s \in Places, Crossed(p, r, s) PROVE FALSE
  <2>1. /\ Pair(r, s) /\ ~Precedes(r, p) /\ At(s) # Partner(At(r))
        /\ \A x \in Positions : ~Precedes(x, p) /\ Precedes(x, s) => Height(x) >= Height(p)
    BY <1>5 DEF Crossed
  <2>2. ~Precedes(q, s)
    BY <1>2, <1>3, <1>4, <2>1
  <2>3. Precedes(r, s) /\ IsOpening(At(r))
    BY <2>1 DEF Pair
  <2>4. r \in Positions /\ s \in Positions
    BY PlacesAreThere
  <2>5. ~Precedes(q, r)
    <3>1. Precedes(r, q)
      BY <1>2, <2>2, <2>3, <2>4, InOrderOn
    <3> QED
      BY <1>2, <2>4, <3>1, InOrder
  <2>6. r \in Between(p, q) /\ At(r) \in Opening
    BY <2>1, <2>3, <2>5 DEF Between, IsOpening
  <2>7. PICK t \in Between(p, q) : Partnered(r, t) /\ At(t) = Partner(At(r))
    BY <2>6 DEF Matching
  <2>8. t = s
    BY <2>1, <2>7, PairIsPartnered, OnePartner
  <2> QED
    BY <2>1, <2>7, <2>8
<1> QED
  BY <1>1, <1>3, <1>4, <1>5
-----------------------------------------------------------------------------
(* The loops of the search backwards                                       *)

(* The loop over the characters of a line, as what it computes.            *)
LineRunBack(line, endpos, a, after) ==
  /\ after[endpos + 1] = a
  /\ \A i \in 1..endpos : after[i] = OpenStep(line, after[i + 1], i)
  /\ FindStartOfExpressionInLine(line, endpos, a) = [after[1] EXCEPT !.skip = FALSE]

(* There are such values.                                                  *)
LEMMA LineLoopBack ==
  ASSUME NEW line, NEW endpos \in Nat, NEW a
  PROVE  \E after : LineRunBack(line, endpos, a, after)
<1> DEFINE hi == endpos + 1
           base == a
           Step(b, i) == OpenStep(line, b, i)
           Run(f, k) == f[hi] = base /\ \A i \in (hi - k)..(hi - 1) : f[i] = Step(f[i + 1], i)
           Loop(f) == f = [i \in 1..hi |-> IF i = hi THEN base ELSE Step(f[i + 1], i)]
           P == {k \in 0..(hi - 1) : \E f : Run(f, k)}
           loop == CHOOSE f : Loop(f)
<1>1. FindStartOfExpressionInLine(line, endpos, a) = [loop[1] EXCEPT !.skip = FALSE]
  BY DEF FindStartOfExpressionInLine
<1>2. hi \in Nat /\ hi - 1 \in Nat
  OBVIOUS
<1> HIDE DEF hi, base, Step
<1>3. 0 \in P
  <2> DEFINE g == [i \in hi..hi |-> base]
  <2>1. g[hi] = base /\ (hi - 0)..(hi - 1) = {}
    BY <1>2
  <2>2. Run(g, 0)
    BY <2>1
  <2>3. \E f : Run(f, 0)
    BY <2>2, Zenon
  <2>4. 0 \in 0..(hi - 1)
    BY <1>2
  <2> QED
    BY <2>3, <2>4, Zenon
<1>4. ASSUME NEW k \in 0..(hi - 1 - 1), k \in P PROVE k + 1 \in P
  <2>1. PICK f : Run(f, k)
    BY <1>4
  <2> DEFINE next == hi - (k + 1)
             g == [i \in next..hi |-> IF i = next THEN Step(f[next + 1], next) ELSE f[i]]
  <2>2. k \in Nat /\ k + 1 \in 0..(hi - 1) /\ next \in Int /\ next < hi
    BY <1>2
  <2>3. g[hi] = base
    BY <1>2, <2>1, <2>2
  <2>4. ASSUME NEW i \in next..(hi - 1) PROVE g[i] = Step(g[i + 1], i)
    <3>1. CASE i = next
      <4>1. g[i] = Step(f[next + 1], next) /\ g[i + 1] = f[next + 1]
        BY <1>2, <2>2, <3>1
      <4> QED
        BY <3>1, <4>1
    <3>2. CASE i # next
      <4>1. i \in (hi - k)..(hi - 1) /\ g[i] = f[i] /\ g[i + 1] = f[i + 1]
        BY <1>2, <2>2, <3>2
      <4> QED
        BY <2>1, <4>1
    <3> QED
      BY <3>1, <3>2
  <2>5. Run(g, k + 1)
    BY <2>3, <2>4
  <2>6. \E h : Run(h, k + 1)
    BY <2>5, Zenon
  <2> QED
    BY <2>2, <2>6, Zenon
<1>5. P \in SUBSET (0..(hi - 1))
  OBVIOUS
<1>6. PICK f : Run(f, hi - 1)
  <2>1. PICK N : N = hi - 1
    OBVIOUS
  <2>2. N \in Nat /\ 0..(N - 1) = 0..(hi - 1 - 1)
    BY <1>2, <2>1
  <2>3. \A k \in 0..N : k \in P
    <3> HIDE DEF P
    <3> QED
      BY <1>3, <1>4, <1>5, <2>1, <2>2, NaturalSteps
  <2>4. N \in P
    BY <2>2, <2>3
  <2> QED
    BY <2>1, <2>4, Zenon
<1>7. f[hi] = base /\ \A i \in 1..(hi - 1) : f[i] = Step(f[i + 1], i)
  <2>1. hi - (hi - 1) = 1
    BY <1>2
  <2> QED
    BY <1>6, <2>1
<1>8. Loop([i \in 1..hi |-> f[i]])
  <2> DEFINE g == [i \in 1..hi |-> f[i]]
  <2>1. \A i \in 1..hi : g[i] = IF i = hi THEN base ELSE Step(g[i + 1], i)
    <3> TAKE i \in 1..hi
    <3>1. CASE i = hi
      BY <1>7, <3>1
    <3>2. CASE i # hi
      <4>1. i \in 1..(hi - 1) /\ g[i] = f[i] /\ g[i + 1] = f[i + 1]
        BY <1>2, <3>2
      <4> QED
        BY <1>7, <3>2, <4>1
    <3> QED
      BY <3>1, <3>2
  <2> QED
    BY <2>1
<1>9. Loop(loop)
  BY <1>8, Zenon
<1>10. loop[hi] = base /\ \A i \in 1..(hi - 1) : loop[i] = Step(loop[i + 1], i)
  <2>1. PICK g : g = loop
    OBVIOUS
  <2>2. g = [i \in 1..hi |-> IF i = hi THEN base ELSE Step(g[i + 1], i)]
    BY <1>9, <2>1, Zenon
  <2>3. g[hi] = base /\ \A i \in 1..(hi - 1) : g[i] = Step(g[i + 1], i)
    BY <1>2, <2>2
  <2> QED
    BY <2>1, <2>3
<1> HIDE DEF loop
<1>11. endpos = hi - 1
  BY DEF hi
<1>12. LineRunBack(line, endpos, a, loop)
  BY <1>1, <1>10, <1>11 DEF LineRunBack, hi, base, Step
<1> QED
  BY <1>12, Zenon

(* The loop over the lines.                                                *)
LinesRunBack(linenum, pos, after) ==
  /\ after[linenum + 1] = [n |-> linenum, a |-> Search(<< >>)]
  /\ \A n \in 1..linenum : after[n] = OpenLine(lines, linenum, pos, after[n + 1], n)
  /\ IsClosing(lines[linenum][pos]) /\ after[1].a.found # 0
       => ReverseCloseExpression(lines, linenum, pos) = [line |-> after[1].n, pos |-> after[1].a.found]

(* There are such values.                                                  *)
LEMMA LinesLoopBack ==
  ASSUME NEW linenum \in Nat, NEW pos
  PROVE  \E after : LinesRunBack(linenum, pos, after)
<1> DEFINE hi == linenum + 1
           base == [n |-> linenum, a |-> Search(<< >>)]
           Step(b, i) == OpenLine(lines, linenum, pos, b, i)
           Run(f, k) == f[hi] = base /\ \A i \in (hi - k)..(hi - 1) : f[i] = Step(f[i + 1], i)
           Loop(f) == f = [i \in 1..hi |-> IF i = hi THEN base ELSE Step(f[i + 1], i)]
           P == {k \in 0..(hi - 1) : \E f : Run(f, k)}
           loop == CHOOSE f : Loop(f)
<1>1. IsClosing(lines[linenum][pos]) /\ loop[1].a.found # 0
        => ReverseCloseExpression(lines, linenum, pos) = [line |-> loop[1].n, pos |-> loop[1].a.found]
  BY Zenon DEF ReverseCloseExpression, IsClosing
<1>2. hi \in Nat /\ hi - 1 \in Nat
  OBVIOUS
<1> HIDE DEF hi, base, Step
<1>3. 0 \in P
  <2> DEFINE g == [i \in hi..hi |-> base]
  <2>1. g[hi] = base /\ (hi - 0)..(hi - 1) = {}
    BY <1>2
  <2>2. Run(g, 0)
    BY <2>1
  <2>3. \E f : Run(f, 0)
    BY <2>2, Zenon
  <2>4. 0 \in 0..(hi - 1)
    BY <1>2
  <2> QED
    BY <2>3, <2>4, Zenon
<1>4. ASSUME NEW k \in 0..(hi - 1 - 1), k \in P PROVE k + 1 \in P
  <2>1. PICK f : Run(f, k)
    BY <1>4
  <2> DEFINE next == hi - (k + 1)
             g == [i \in next..hi |-> IF i = next THEN Step(f[next + 1], next) ELSE f[i]]
  <2>2. k \in Nat /\ k + 1 \in 0..(hi - 1) /\ next \in Int /\ next < hi
    BY <1>2
  <2>3. g[hi] = base
    BY <1>2, <2>1, <2>2
  <2>4. ASSUME NEW i \in next..(hi - 1) PROVE g[i] = Step(g[i + 1], i)
    <3>1. CASE i = next
      <4>1. g[i] = Step(f[next + 1], next) /\ g[i + 1] = f[next + 1]
        BY <1>2, <2>2, <3>1
      <4> QED
        BY <3>1, <4>1
    <3>2. CASE i # next
      <4>1. i \in (hi - k)..(hi - 1) /\ g[i] = f[i] /\ g[i + 1] = f[i + 1]
        BY <1>2, <2>2, <3>2
      <4> QED
        BY <2>1, <4>1
    <3> QED
      BY <3>1, <3>2
  <2>5. Run(g, k + 1)
    BY <2>3, <2>4
  <2>6. \E h : Run(h, k + 1)
    BY <2>5, Zenon
  <2> QED
    BY <2>2, <2>6, Zenon
<1>5. P \in SUBSET (0..(hi - 1))
  OBVIOUS
<1>6. PICK f : Run(f, hi - 1)
  <2>1. PICK N : N = hi - 1
    OBVIOUS
  <2>2. N \in Nat /\ 0..(N - 1) = 0..(hi - 1 - 1)
    BY <1>2, <2>1
  <2>3. \A k \in 0..N : k \in P
    <3> HIDE DEF P
    <3> QED
      BY <1>3, <1>4, <1>5, <2>1, <2>2, NaturalSteps
  <2>4. N \in P
    BY <2>2, <2>3
  <2> QED
    BY <2>1, <2>4, Zenon
<1>7. f[hi] = base /\ \A i \in 1..(hi - 1) : f[i] = Step(f[i + 1], i)
  <2>1. hi - (hi - 1) = 1
    BY <1>2
  <2> QED
    BY <1>6, <2>1
<1>8. Loop([i \in 1..hi |-> f[i]])
  <2> DEFINE g == [i \in 1..hi |-> f[i]]
  <2>1. \A i \in 1..hi : g[i] = IF i = hi THEN base ELSE Step(g[i + 1], i)
    <3> TAKE i \in 1..hi
    <3>1. CASE i = hi
      BY <1>7, <3>1
    <3>2. CASE i # hi
      <4>1. i \in 1..(hi - 1) /\ g[i] = f[i] /\ g[i + 1] = f[i + 1]
        BY <1>2, <3>2
      <4> QED
        BY <1>7, <3>2, <4>1
    <3> QED
      BY <3>1, <3>2
  <2> QED
    BY <2>1
<1>9. Loop(loop)
  BY <1>8, Zenon
<1>10. loop[hi] = base /\ \A i \in 1..(hi - 1) : loop[i] = Step(loop[i + 1], i)
  <2>1. PICK g : g = loop
    OBVIOUS
  <2>2. g = [i \in 1..hi |-> IF i = hi THEN base ELSE Step(g[i + 1], i)]
    BY <1>9, <2>1, Zenon
  <2>3. g[hi] = base /\ \A i \in 1..(hi - 1) : g[i] = Step(g[i + 1], i)
    BY <1>2, <2>2
  <2> QED
    BY <2>1, <2>3
<1> HIDE DEF loop
<1>11. linenum = hi - 1
  BY DEF hi
<1>12. LinesRunBack(linenum, pos, loop)
  BY <1>1, <1>10, <1>11 DEF LinesRunBack, hi, base, Step
<1> QED
  BY <1>12, Zenon

-----------------------------------------------------------------------------
(* One character of the search backwards                                   *)

Skips(a) == a.skip
Word == "operator"
Blank == " "
Minus == "-"
IsBracket(c) == IsOpening(c) \/ IsClosing(c)

(* What stands before a sign is skipped, and it is no bracket.             *)
SkipsOne(a, b, line, i) ==
  b = [a EXCEPT !.skip = TRUE] /\ ~IsBracket(line[i - 1])

(* What the search backwards makes of a character, by its kind.            *)
BecomesBack(a, line, i, c, rest, b) ==
  /\ IsClosing(c) => b = [a EXCEPT !.stack = Append(@, c)]
  /\ c = Right => \/ SkipsOne(a, b, line, i)
                  \/ b = [a EXCEPT !.stack = Append(@, c)]
  /\ c = Left => \/ SkipsOne(a, b, line, i)
                 \/ b = a
                 \/ Waiting(a, Right) /\ b = Now(a, Front(a.stack), i)
  /\ IsOpening(c) => \/ rest = << >> /\ b = Now(a, rest, 0)
                     \/ rest # << >> /\ Last(rest) = Partner(c) /\ b = Now(a, Front(rest), i)
                     \/ rest # << >> /\ Last(rest) # Partner(c) /\ b = [a EXCEPT !.failed = TRUE]
  /\ IsStop(c) => b = Now(a, rest, 0)
  /\ ~IsBracket(c) /\ c # Left /\ c # Right /\ ~IsStop(c) => b = a

(* The word before a sign.                                                 *)
LEMMA NoBracketBefore ==
  ASSUME NEW line, NEW i \in Int, AfterOperator(line, i)
  PROVE  ~IsBracket(line[i - 1])
<1>1. PICK k \in 1..(i - 1) : line[k] = Word /\ \A j \in (k + 1)..(i - 1) : line[j] = Blank
  BY Zenon DEF AfterOperator, Word, Blank
<1>2. ~IsBracket(Word) /\ ~IsBracket(Blank)
  BY Zenon DEF IsBracket, IsOpening, IsClosing, Opening, Closing, Word, Blank
<1>3. k = i - 1 \/ i - 1 \in (k + 1)..(i - 1)
  OBVIOUS
<1> QED
  BY <1>1, <1>2, <1>3

(* What one step does.                                                     *)
LEMMA StepBackByKind ==
  ASSUME NEW line, NEW a, NEW i \in Int, ~Over(a), ~Skips(a)
  PROVE  BecomesBack(a, line, i, line[i], DropAngles(a.stack, Right), OpenStep(line, a, i))
<1> DEFINE b == OpenStep(line, a, i)
           c == line[i]
           rest == DropAngles(a.stack, Right)
<1>1. ASSUME IsClosing(c) PROVE b = [a EXCEPT !.stack = Append(@, c)]
  BY <1>1, OneKind, Zenon DEF OpenStep, IsOpening, IsClosing, Left, Right, IsStop, Skips
<1>2. ASSUME IsStop(c) PROVE b = Now(a, rest, 0)
  BY <1>2, OneKind, Zenon DEF OpenStep, IsOpening, IsClosing, Left, Right, IsStop, Skips
<1>3. ASSUME c = Right
      PROVE  SkipsOne(a, b, line, i) \/ b = [a EXCEPT !.stack = Append(@, c)]
  <2>1. \/ b = [a EXCEPT !.skip = TRUE] /\ (line[i - 1] = Minus \/ line[i - 1] = Blank \/ AfterOperator(line, i))
        \/ b = [a EXCEPT !.stack = Append(@, c)]
    BY <1>3, OneKind, Zenon DEF OpenStep, IsOpening, IsClosing, Left, Right, IsStop, Skips, Minus, Blank
  <2>2. line[i - 1] = Minus \/ line[i - 1] = Blank => ~IsBracket(line[i - 1])
    BY Zenon DEF IsBracket, IsOpening, IsClosing, Opening, Closing, Minus, Blank
  <2> HIDE DEF b, c
  <2> QED
    BY <2>1, <2>2, NoBracketBefore, Zenon DEF SkipsOne
<1>4. ASSUME IsOpening(c)
      PROVE  \/ rest = << >> /\ b = Now(a, rest, 0)
             \/ rest # << >> /\ Last(rest) = Partner(c) /\ b = Now(a, Front(rest), i)
             \/ rest # << >> /\ Last(rest) # Partner(c) /\ b = [a EXCEPT !.failed = TRUE]
  BY <1>4, OneKind, Zenon DEF OpenStep, IsOpening, IsClosing, Left, Right, IsStop, Skips
<1>5. ASSUME c = Left
      PROVE  \/ SkipsOne(a, b, line, i)
             \/ b = a
             \/ Waiting(a, Right) /\ b = Now(a, Front(a.stack), i)
  <2>1. \/ b = [a EXCEPT !.skip = TRUE] /\ line[i - 1] = Left
        \/ b = a
        \/ Waiting(a, Right) /\ b = Now(a, Front(a.stack), i)
    BY <1>5, OneKind, Zenon DEF OpenStep, IsOpening, IsClosing, Left, Right, IsStop, Skips, Waiting
  <2>2. line[i - 1] = Left => ~IsBracket(line[i - 1])
    BY OneKind, Zenon DEF IsBracket
  <2> HIDE DEF b, c
  <2> QED
    BY <2>1, <2>2, Zenon DEF SkipsOne
<1>6. ASSUME ~IsBracket(c), c # Left, c # Right, ~IsStop(c) PROVE b = a
  BY <1>6, Zenon DEF OpenStep, IsOpening, IsClosing, Left, Right, IsStop, IsBracket, Skips
<1> HIDE DEF b, c, rest
<1>7. BecomesBack(a, line, i, c, rest, b)
  BY <1>1, <1>2, <1>3, <1>4, <1>5, <1>6, Zenon DEF BecomesBack
<1> QED
  BY <1>7, Zenon DEF b, c, rest

-----------------------------------------------------------------------------
(* The invariant of the search backwards                                   *)

(* A closing bracket that has not met an opening one down to cur.          *)
Wanting(s, cur) ==
  /\ s \in Places /\ IsClosing(At(s)) /\ Precedes(cur, s)
  /\ \A x \in Positions : ~Precedes(x, cur) /\ Precedes(x, s) => Height(x) >= Height(s) + 1

(* The ones up to q, and how far above q each of them is.                  *)
StackedBack(q, cur) ==
  {<<At(s), Height(s) - Height(q)>> : s \in {s \in Places : ~Precedes(q, s) /\ Wanting(s, cur)}}

(* An element of it.                                                       *)
LEMMA StackedBackIs ==
  ASSUME NEW q, NEW cur, NEW e
  PROVE  e \in StackedBack(q, cur) <=> \E s \in Places : /\ ~Precedes(q, s) /\ Wanting(s, cur)
                                                         /\ e = <<At(s), Height(s) - Height(q)>>
BY Zenon DEF StackedBack

(* The position before, over which nothing but the last one changes.       *)
Leads(prev, cur) ==
  /\ cur \in Positions /\ prev \in Positions /\ Precedes(prev, cur)
  /\ \A x \in Positions : ~Precedes(x, prev) => ~Precedes(x, cur) \/ Height(x) = Height(prev)

(* From one place to the one before.                                       *)
LEMMA PlaceLeads ==
  ASSUME IsText, NEW n, NEW i, NEW cur, cur = <<n, i>>, cur \in Places, NEW prev, prev = <<n, i - 1>>
  PROVE  /\ Leads(prev, cur)
         /\ \A x \in Positions : Precedes(x, cur) => ~Precedes(prev, x)
<1>1. /\ Follows(prev, cur) /\ Precedes(prev, cur)
      /\ \A x \in Positions : Precedes(x, cur) <=> ~Precedes(prev, x)
  BY NextFollows
<1>2. prev \in Positions /\ cur \in Positions
  BY <1>1 DEF Follows
<1>3. ASSUME NEW x \in Positions, ~Precedes(x, prev), Precedes(x, cur) PROVE x = prev
  BY <1>1, <1>2, <1>3, InOrder
<1> QED
  BY <1>1, <1>2, <1>3 DEF Leads

(* From the beginning of a line to the end of the one before.              *)
LEMMA LineLeads ==
  ASSUME IsText, NEW n \in 1..Len(lines), NEW prev, prev = <<n, Len(lines[n])>>, NEW cur, cur = <<n + 1, 0>>
  PROVE  Leads(prev, cur) /\ Height(cur) = Height(prev)
<1>1. /\ Follows(prev, cur) /\ Height(cur) = Height(prev)
  BY LineFollows
<1>2. PICK len : len = Len(lines[n])
  OBVIOUS
<1>3. n \in Nat /\ len \in Nat /\ prev[1] = n /\ prev[2] = len /\ cur[1] = n + 1 /\ cur[2] = 0
  <2>1. lines[n] \in Seq(STRING)
    BY DEF IsText
  <2> QED
    BY <1>2, <2>1
<1>4. prev \in Positions /\ cur \in Positions
  BY <1>1 DEF Follows
<1>5. Precedes(prev, cur)
  BY ONLY <1>3 DEF Precedes
<1>6. ASSUME NEW x \in Positions, ~Precedes(x, prev), Precedes(x, cur) PROVE Height(x) = Height(prev)
  <2>1. x[1] \in Nat /\ x[2] \in Nat
    BY InOrder
  <2>2. x[1] = n /\ x[2] >= len
    BY ONLY <1>3, <1>6, <2>1 DEF Precedes
  <2>3. \/ x[1] = n /\ x[2] >= Len(lines[n])
        \/ x = <<n + 1, 0>>
    BY ONLY <1>2, <2>2
  <2> QED
    BY <2>3, HeightEnd
<1> QED
  BY <1>1, <1>4, <1>5, <1>6 DEF Leads

(* It still wants where it is not opened.                                  *)
LEMMA WantingOn ==
  ASSUME IsText, NEW prev, NEW cur, Leads(prev, cur), NEW s, Wanting(s, cur)
  PROVE  /\ Height(s) + 1 <= Height(prev) => Wanting(s, prev)
         /\ Height(s) + 1 <= Height(cur)
<1>1. /\ s \in Places /\ s \in Positions /\ Precedes(cur, s) /\ IsClosing(At(s))
      /\ cur \in Positions /\ prev \in Positions /\ Precedes(prev, cur)
  BY PlacesAreThere DEF Wanting, Leads
<1>2. Height(s) \in Int /\ Height(cur) \in Int /\ Height(prev) \in Int
  BY HeightType
<1>3. Height(cur) >= Height(s) + 1
  <2>1. ~Precedes(cur, cur)
    BY <1>1, InOrder
  <2> QED
    BY <1>1, <2>1 DEF Wanting
<1>4. ASSUME Height(s) + 1 <= Height(prev) PROVE Wanting(s, prev)
  <2>1. Precedes(prev, s)
    BY <1>1, InOrder, InOrderOn
  <2>2. ASSUME NEW x \in Positions, ~Precedes(x, prev), Precedes(x, s) PROVE Height(x) >= Height(s) + 1
    <3>1. ~Precedes(x, cur) \/ Height(x) = Height(prev)
      BY <2>2 DEF Leads
    <3>2. ~Precedes(x, cur) => Height(x) >= Height(s) + 1
      BY <2>2 DEF Wanting
    <3>3. Height(x) \in Int
      BY HeightType
    <3> QED
      BY <1>2, <1>4, <3>1, <3>2, <3>3
  <2> QED
    BY <1>1, <2>1, <2>2 DEF Wanting
<1> QED
  BY <1>2, <1>3, <1>4

(* What is wanting stays on the stack.                                     *)
LEMMA StackedBackOn ==
  ASSUME IsText, NEW q \in Places, NEW prev, NEW cur, Leads(prev, cur), NEW e \in StackedBack(q, cur)
  PROVE  /\ e[2] \in Int /\ e[2] + 1 <= Height(cur) - Height(q)
         /\ e[2] + 1 <= Height(prev) - Height(q) => e \in StackedBack(q, prev)
<1>1. PICK s \in Places : ~Precedes(q, s) /\ Wanting(s, cur) /\ e = <<At(s), Height(s) - Height(q)>>
  BY StackedBackIs
<1>2. Height(s) \in Int /\ Height(q) \in Int /\ Height(cur) \in Int /\ Height(prev) \in Int
  BY HeightType
<1>3. e[2] = Height(s) - Height(q)
  BY <1>1
<1>4. (Height(s) + 1 <= Height(prev) => Wanting(s, prev)) /\ Height(s) + 1 <= Height(cur)
  BY <1>1, WantingOn
<1>5. e[2] + 1 <= Height(prev) - Height(q) => Wanting(s, prev)
  BY <1>2, <1>3, <1>4
<1>6. e[2] + 1 <= Height(prev) - Height(q) => e \in StackedBack(q, prev)
  BY <1>1, <1>5, StackedBackIs
<1> QED
  BY <1>2, <1>3, <1>4, <1>6

(* A place where no bracket is opened.                                     *)
LEMMA NoneOpened ==
  ASSUME IsText, NEW q \in Places, NEW n, NEW i, NEW cur, cur = <<n, i>>, cur \in Places, ~Precedes(q, cur),
         NEW prev, prev = <<n, i - 1>>, ~IsOpening(At(cur))
  PROVE  /\ StackedBack(q, cur) \subseteq StackedBack(q, prev)
         /\ IsClosing(At(cur)) => <<At(cur), Height(cur) - Height(q)>> \in StackedBack(q, prev)
<1>1. /\ Leads(prev, cur)
      /\ \A x \in Positions : Precedes(x, cur) => ~Precedes(prev, x)
  BY PlaceLeads
<1>2. Height(cur) \in Int /\ Height(prev) \in Int /\ Height(q) \in Int
  BY HeightType
<1>3. /\ IsClosing(At(cur)) => Height(cur) = Height(prev) - 1
      /\ ~IsClosing(At(cur)) => Height(cur) = Height(prev)
  BY HeightNext
<1>4. ASSUME NEW e \in StackedBack(q, cur) PROVE e \in StackedBack(q, prev)
  <2>1. /\ e[2] \in Int /\ e[2] + 1 <= Height(cur) - Height(q)
        /\ e[2] + 1 <= Height(prev) - Height(q) => e \in StackedBack(q, prev)
    BY <1>1, StackedBackOn
  <2> QED
    BY <1>2, <1>3, <2>1
<1>5. ASSUME IsClosing(At(cur)) PROVE Wanting(cur, prev)
  <2>1. ASSUME NEW x \in Positions, ~Precedes(x, prev), Precedes(x, cur) PROVE Height(x) >= Height(cur) + 1
    <3>1. ~Precedes(prev, x) /\ prev \in Positions
      BY <1>1, <2>1 DEF Leads
    <3>2. x = prev
      BY <2>1, <3>1, InOrder
    <3> QED
      BY <1>2, <1>3, <1>5, <3>2
  <2>2. Precedes(prev, cur)
    BY <1>1 DEF Leads
  <2> QED
    BY <1>5, <2>1, <2>2 DEF Wanting
<1>6. IsClosing(At(cur)) => <<At(cur), Height(cur) - Height(q)>> \in StackedBack(q, prev)
  BY <1>5, StackedBackIs
<1> QED
  BY <1>4, <1>6

(* A place where the bracket that is highest on the stack is opened.       *)
LEMMA TopOpens ==
  ASSUME IsText, NEW cur \in Places, IsOpening(At(cur)), NEW s, Wanting(s, cur), Height(s) = Height(cur) - 1
  PROVE  Pair(cur, s)
<1>1. Height(s) \in Int /\ Height(cur) \in Int
  BY HeightType
<1>2. Height(s) + 1 = Height(cur)
  BY <1>1
<1> QED
  BY <1>2 DEF Pair, Wanting

(* The search goes on, between p and q whose brackets are solved.          *)
Returns(a, p, q, cur) ==
  /\ IsSearch(a) /\ a.found = 0 /\ a.failed = FALSE
  /\ IsSeq(a.stack) /\ a.stack # << >> /\ a.stack[1] # Right
  /\ cur \in Positions /\ ~Precedes(cur, p) /\ Precedes(cur, q)
  /\ Height(cur) = Height(q) + Brackets(a.stack, Right)
  /\ Ranked(a.stack, Right, StackedBack(q, cur))

(* It has come back to p.                                                  *)
IsBack(a, p, n) == IsSearch(a) /\ a.found = p[2] /\ n = p[1]

(* Before character i of line n; what is skipped there is no bracket.      *)
GoesBack(a, p, q, n, i) ==
  \/ Returns(a, p, q, <<n, i>>) /\ (Skips(a) => ~IsBracket(lines[n][i]))
  \/ IsBack(a, p, n)

(* The search goes on over one place more.                                 *)
LEMMA ReturnsOn ==
  ASSUME IsText, NEW p \in Places, NEW q \in Places, NEW n, NEW i, NEW cur, cur = <<n, i>>, cur \in Places,
         cur # p, NEW prev, prev = <<n, i - 1>>, NEW a, Returns(a, p, q, cur), NEW c, c = At(cur),
         NEW b, IsSearch(b), b.found = 0, b.failed = FALSE,
         IsSeq(b.stack), b.stack # << >>, b.stack[1] # Right,
         IsClosing(c) => Brackets(b.stack, Right) = Brackets(a.stack, Right) + 1,
         IsOpening(c) => Brackets(b.stack, Right) = Brackets(a.stack, Right) - 1,
         ~IsBracket(c) => Brackets(b.stack, Right) = Brackets(a.stack, Right),
         Ranked(b.stack, Right, StackedBack(q, prev))
  PROVE  Returns(b, p, q, prev)
<1>1. /\ IsOpening(c) => Height(cur) = Height(prev) + 1
      /\ IsClosing(c) => Height(cur) = Height(prev) - 1
      /\ ~IsOpening(c) /\ ~IsClosing(c) => Height(cur) = Height(prev)
  BY HeightNext
<1>2. Height(q) \in Int /\ Height(prev) \in Int /\ Height(cur) \in Int
  BY HeightType
<1>3. /\ Height(cur) = Height(q) + Brackets(a.stack, Right) /\ IsSeq(a.stack)
      /\ ~Precedes(cur, p) /\ Precedes(cur, q)
  BY DEF Returns
<1>4. Brackets(a.stack, Right) \in Nat /\ Brackets(b.stack, Right) \in Nat
  BY <1>3, BracketsAreSome
<1>5. IsBracket(c) <=> IsOpening(c) \/ IsClosing(c)
  BY DEF IsBracket
<1>6. IsOpening(c) => ~IsClosing(c)
  BY OneKind
<1>7. Height(prev) = Height(q) + Brackets(b.stack, Right)
  BY ONLY <1>1, <1>2, <1>3, <1>4, <1>5, <1>6,
          IsClosing(c) => Brackets(b.stack, Right) = Brackets(a.stack, Right) + 1,
          IsOpening(c) => Brackets(b.stack, Right) = Brackets(a.stack, Right) - 1,
          ~IsBracket(c) => Brackets(b.stack, Right) = Brackets(a.stack, Right)
<1>8. /\ Leads(prev, cur)
      /\ \A x \in Positions : Precedes(x, cur) => ~Precedes(prev, x)
  BY PlaceLeads
<1>9. prev \in Positions /\ cur \in Positions /\ p \in Positions /\ q \in Positions /\ Precedes(prev, cur)
  BY <1>8, PlacesAreThere DEF Leads
<1>10. Precedes(prev, q)
  BY <1>3, <1>9, InOrder, InOrderOn
<1>11. ~Precedes(prev, p)
  BY <1>3, <1>8, <1>9, InOrder
<1> QED
  BY <1>7, <1>9, <1>10, <1>11 DEF Returns

(* One character more, and the search goes on as it should or is back.     *)
LEMMA StepGoesBack ==
  ASSUME IsText, NEW p \in Places, NEW q \in Places, Solves(p, q),
         NEW n, NEW i, <<n, i>> \in Places, NEW a, GoesBack(a, p, q, n, i)
  PROVE  GoesBack(OpenStep(lines[n], a, i), p, q, n, i - 1)
<1>1. PICK b : b = OpenStep(lines[n], a, i)
  OBVIOUS
<1>2. PICK cur : cur = <<n, i>>
  OBVIOUS
<1>3. PICK prev : prev = <<n, i - 1>>
  OBVIOUS
<1>4. PICK c : c = At(cur)
  OBVIOUS
<1>5. c = lines[n][i] /\ n \in Nat /\ i \in Nat /\ i > 0 /\ cur \in Places
  <2>1. cur[1] = n /\ cur[2] = i /\ At(cur) = lines[cur[1]][cur[2]]
    BY <1>2 DEF At
  <2> QED
    BY <1>2, <1>4, <2>1, PlaceParts
<1>6. p[2] # 0 /\ p[2] \in Nat
  BY PlaceParts
<1>7. CASE Over(a)
  <2>1. b = a
    BY <1>1, <1>7, Zenon DEF OpenStep
  <2>2. ~Returns(a, p, q, <<n, i>>)
    BY <1>7 DEF Returns, Over
  <2> QED
    BY <1>1, <2>1, <2>2 DEF GoesBack
<1>8. CASE ~Over(a)
  <2>1. Returns(a, p, q, cur) /\ (Skips(a) => ~IsBracket(c))
    <3>1. ~IsBack(a, p, n)
      BY <1>6, <1>8 DEF IsBack, Over
    <3> QED
      BY <1>2, <1>5, <3>1 DEF GoesBack
  <2>2. PICK stack : stack = a.stack
    OBVIOUS
  <2>3. PICK rest : rest = DropAngles(stack, Right)
    OBVIOUS
  <2>4. PICK popped : popped = Front(stack)
    OBVIOUS
  <2>5. PICK S : S = StackedBack(q, cur)
    OBVIOUS
  <2>6. PICK T : T = StackedBack(q, prev)
    OBVIOUS
  <2>7. /\ IsSearch(a) /\ a.found = 0 /\ a.failed = FALSE
        /\ IsSeq(stack) /\ stack # << >> /\ stack[1] # Right
        /\ cur \in Positions /\ ~Precedes(cur, p) /\ Precedes(cur, q)
        /\ Height(cur) = Height(q) + Brackets(stack, Right)
        /\ Ranked(stack, Right, S)
    BY <2>1, <2>2, <2>5 DEF Returns
  <2>8. Brackets(stack, Right) \in Nat \ {0}
    BY <2>7, OnABracket
  <2>9. IsOpening(At(p)) /\ p \in Positions /\ q \in Positions
    BY PlacesAreThere DEF Solves, Met, Pair
  <2>10. ~IsOpening(c) => cur # p
    BY <1>4, <2>9
  <2>11. /\ IsSeq(rest) /\ Brackets(rest, Right) = Brackets(stack, Right)
         /\ rest # << >> /\ rest[1] = stack[1] /\ Last(rest) # Right
         /\ Len(rest) <= Len(stack) /\ \A j \in 1..Len(rest) : rest[j] = stack[j]
    BY <2>3, <2>7, <2>8, DroppedAngles
  <2>12. Waiting(a, Right) =>
           /\ IsSeq(popped) /\ popped # << >> /\ popped[1] = stack[1]
           /\ Brackets(popped, Right) = Brackets(stack, Right)
           /\ Len(popped) <= Len(stack) /\ \A j \in 1..Len(popped) : popped[j] = stack[j]
    <3> SUFFICES ASSUME Waiting(a, Right)
                 PROVE  /\ IsSeq(popped) /\ popped # << >> /\ popped[1] = stack[1]
                        /\ Brackets(popped, Right) = Brackets(stack, Right)
                        /\ Len(popped) <= Len(stack) /\ \A j \in 1..Len(popped) : popped[j] = stack[j]
      OBVIOUS
    <3>1. Last(stack) = Right
      BY <2>2 DEF Waiting
    <3>2. /\ IsSeq(popped)
          /\ popped = << >> <=> Len(stack) = 1
          /\ popped # << >> => popped[1] = stack[1]
          /\ Brackets(popped, Right) = Brackets(stack, Right)
      BY <2>4, <2>7, <3>1, PoppedBracket
    <3>3. /\ Len(stack) \in Nat \ {0} /\ Len(popped) = Len(stack) - 1
          /\ \A j \in 1..(Len(stack) - 1) : popped[j] = stack[j]
          /\ Last(stack) = stack[Len(stack)]
      BY <2>4, <2>7, Popped
    <3>4. popped # << >>
      BY <2>7, <3>1, <3>2, <3>3
    <3> QED
      BY <3>2, <3>3, <3>4
  <2>13. ~IsOpening(c) => S \subseteq T /\ (IsClosing(c) => <<c, Height(cur) - Height(q)>> \in T)
    <3> SUFFICES ASSUME ~IsOpening(At(cur))
                 PROVE  S \subseteq T /\ (IsClosing(At(cur)) => <<At(cur), Height(cur) - Height(q)>> \in T)
      BY <1>4
    <3>1. ~Precedes(q, cur)
      BY <2>7, <2>9, InOrder
    <3>2. /\ StackedBack(q, cur) \subseteq StackedBack(q, prev)
          /\ IsClosing(At(cur)) => <<At(cur), Height(cur) - Height(q)>> \in StackedBack(q, prev)
      BY <1>2, <1>3, <1>5, <3>1, NoneOpened
    <3> QED
      BY <2>5, <2>6, <3>2
  <2>14. ASSUME NEW t, IsSeq(t), Len(t) <= Len(stack), \A j \in 1..Len(t) : t[j] = stack[j]
         PROVE  Ranked(t, Right, S)
    BY <2>7, <2>14, PrefixRanked
  <2>15. ASSUME ~IsBracket(c), NEW t, IsSeq(t), t # << >>, t[1] # Right,
                Brackets(t, Right) = Brackets(stack, Right), Ranked(t, Right, S),
                IsSearch(b), b.found = 0, b.failed = FALSE, b.stack = t,
                Skips(b) => ~IsBracket(lines[n][i - 1])
         PROVE  GoesBack(b, p, q, n, i - 1)
    <3>1. ~IsOpening(c) /\ ~IsClosing(c)
      BY <2>15 DEF IsBracket
    <3>2. Ranked(t, Right, T)
      BY <2>13, <2>15, <3>1 DEF Ranked
    <3>3. Returns(b, p, q, prev)
      BY <1>2, <1>3, <1>4, <1>5, <2>1, <2>2, <2>6, <2>10, <2>15, <3>1, <3>2, ReturnsOn
    <3> QED
      BY <1>3, <2>15, <3>3 DEF GoesBack
  <2>16. CASE Skips(a)
    <3>1. b = [a EXCEPT !.skip = FALSE]
      BY <1>1, <1>8, <2>16, Zenon DEF OpenStep, Skips
    <3>2. IsSearch(b) /\ b.found = 0 /\ b.failed = FALSE /\ b.stack = stack /\ ~Skips(b)
      BY <2>2, <2>7, <3>1, Zenon DEF IsSearch, Skips
    <3> QED
      BY <1>1, <2>1, <2>7, <2>15, <2>16, <3>2
  <2>17. CASE ~Skips(a)
    <3>1. BecomesBack(a, lines[n], i, c, rest, b)
      <4>1. PICK line : line = lines[n]
        OBVIOUS
      <4>2. b = OpenStep(line, a, i) /\ c = line[i] /\ rest = DropAngles(a.stack, Right) /\ i \in Int
        BY <1>1, <1>5, <2>2, <2>3, <4>1
      <4>3. BecomesBack(a, line, i, c, rest, b)
        BY ONLY <1>8, <2>17, <4>2, StepBackByKind
      <4> QED
        BY <4>1, <4>3
    <3>2. ASSUME NEW t, NEW at, b = Now(a, t, at) PROVE ~Skips(b)
      BY <2>7, <2>17, <3>2, Zenon DEF IsSearch, Skips, Now
    <3>3. ASSUME b = a, ~IsBracket(c) PROVE GoesBack(b, p, q, n, i - 1)
      BY <2>2, <2>7, <2>15, <2>17, <3>3
    <3>4. ASSUME SkipsOne(a, b, lines[n], i), ~IsBracket(c) PROVE GoesBack(b, p, q, n, i - 1)
      <4>1. b = [a EXCEPT !.skip = TRUE] /\ ~IsBracket(lines[n][i - 1])
        BY <3>4 DEF SkipsOne
      <4>2. IsSearch(b) /\ b.found = 0 /\ b.failed = FALSE /\ b.stack = stack
        BY <2>2, <2>7, <4>1, Zenon DEF IsSearch
      <4> QED
        BY <2>7, <2>15, <3>4, <4>1, <4>2
    <3>5. ASSUME NEW t, NEW at, b = Now(a, t, at), ~IsBracket(c), IsSeq(t), t # << >>, t[1] # Right,
                 Brackets(t, Right) = Brackets(stack, Right), Ranked(t, Right, S)
          PROVE  GoesBack(b, p, q, n, i - 1)
      <4>1. /\ IsSearch(b) /\ b.stack = t
            /\ b.found = IF t = << >> THEN at ELSE 0
            /\ b.failed = (t = << >> /\ at = 0)
        BY <2>7, <3>5, NowDoes
      <4>2. IsSearch(b) /\ b.found = 0 /\ b.failed = FALSE /\ b.stack = t
        BY <3>5, <4>1
      <4> QED
        BY <2>15, <3>2, <3>5, <4>2
    <3>6. ASSUME b = [a EXCEPT !.stack = Append(@, c)], ~IsOpening(c), IsClosing(c) \/ c = Right
          PROVE  GoesBack(b, p, q, n, i - 1)
      <4>1. IsSearch(b) /\ b.found = 0 /\ b.failed = FALSE /\ b.stack = Append(stack, c) /\ ~Skips(b)
        BY <2>2, <2>7, <2>17, <3>6, Zenon DEF IsSearch, Skips
      <4>2. /\ IsClosing(c) => c # Right
            /\ IsBracket(c) => IsClosing(c)
        BY <3>6, OneKind DEF IsBracket
      <4>3. Height(cur) - Height(q) = Brackets(stack, Right)
        <5>1. Height(cur) \in Int /\ Height(q) \in Int
          BY HeightType
        <5> QED
          BY <2>7, <2>8, <5>1
      <4>4. c # Right => <<c, Brackets(stack, Right)>> \in T
        BY <2>13, <3>6, <4>3
      <4>5. Ranked(stack, Right, T)
        BY <2>7, <2>13, <3>6 DEF Ranked
      <4>6. Ranked(Append(stack, c), Right, T)
        BY <2>7, <4>4, <4>5, PushRanked
      <4>7. /\ IsSeq(Append(stack, c)) /\ Append(stack, c) # << >>
            /\ Append(stack, c)[1] = stack[1]
            /\ c = Right => Brackets(Append(stack, c), Right) = Brackets(stack, Right)
            /\ c # Right => Brackets(Append(stack, c), Right) = Brackets(stack, Right) + 1
        BY <2>7, PushedBracket
      <4>8. ~IsBracket(c) => c = Right
        BY <3>6 DEF IsBracket
      <4>9. Returns(b, p, q, prev)
        <5>1. /\ IsSeq(b.stack) /\ b.stack # << >> /\ b.stack[1] # Right
              /\ Ranked(b.stack, Right, StackedBack(q, prev))
          BY <2>6, <2>7, <4>1, <4>6, <4>7
        <5>2. /\ IsClosing(c) => Brackets(b.stack, Right) = Brackets(a.stack, Right) + 1
              /\ ~IsBracket(c) => Brackets(b.stack, Right) = Brackets(a.stack, Right)
          BY <2>2, <4>1, <4>2, <4>7, <4>8
        <5>3. cur # p /\ ~IsOpening(c)
          BY <2>10, <3>6
        <5> QED
          BY ONLY IsText, <1>2, <1>3, <1>4, <1>5, <2>1, <4>1, <5>1, <5>2, <5>3, ReturnsOn
      <4> QED
        BY <1>3, <4>1, <4>9 DEF GoesBack
    <3>7. CASE IsClosing(c)
      <4>1. b = [a EXCEPT !.stack = Append(@, c)]
        BY <3>7, <3>1 DEF BecomesBack
      <4> QED
        BY <1>1, <3>6, <3>7, <4>1, OneKind
    <3>8. CASE c = Right
      <4>1. \/ SkipsOne(a, b, lines[n], i)
            \/ b = [a EXCEPT !.stack = Append(@, c)]
        BY <3>8, <3>1 DEF BecomesBack
      <4>2. ~IsOpening(c) /\ ~IsBracket(c)
        BY <3>8, OneKind DEF IsBracket
      <4> QED
        BY <1>1, <3>4, <3>6, <3>8, <4>1, <4>2
    <3>9. CASE c = Left
      <4>1. \/ SkipsOne(a, b, lines[n], i)
            \/ b = a
            \/ Waiting(a, Right) /\ b = Now(a, popped, i)
        BY <2>2, <2>4, <3>9, <3>1 DEF BecomesBack
      <4>2. ~IsBracket(c)
        BY <3>9, OneKind DEF IsBracket
      <4>3. ASSUME Waiting(a, Right), b = Now(a, popped, i) PROVE GoesBack(b, p, q, n, i - 1)
        BY <2>7, <2>12, <2>14, <3>5, <4>2, <4>3
      <4> QED
        BY <1>1, <3>3, <3>4, <4>1, <4>2, <4>3
    <3>10. CASE IsStop(c)
      <4>1. b = Now(a, rest, 0)
        BY <3>10, <3>1 DEF BecomesBack
      <4>2. ~IsBracket(c)
        BY <3>10, OneKind DEF IsBracket
      <4> QED
        BY <1>1, <2>7, <2>11, <2>14, <3>5, <4>1, <4>2
    <3>11. CASE ~IsBracket(c) /\ c # Left /\ c # Right /\ ~IsStop(c)
      <4>1. b = a
        BY <3>11, <3>1 DEF BecomesBack
      <4> QED
        BY <1>1, <3>3, <3>11, <4>1
    <3>12. CASE IsOpening(c)
      <4>1. Ranked(rest, Right, S)
        BY <2>11, <2>14
      <4>2. PICK e : e = <<Last(rest), Brackets(stack, Right) - 1>>
        OBVIOUS
      <4>3. e \in S
        BY <2>11, <4>1, <4>2, LastRanked
      <4>4. PICK s \in Places : ~Precedes(q, s) /\ Wanting(s, cur) /\ e = <<At(s), Height(s) - Height(q)>>
        BY <2>5, <4>3, StackedBackIs
      <4>5. At(s) = Last(rest) /\ Height(s) - Height(q) = Brackets(stack, Right) - 1
        BY <4>2, <4>4
      <4>6. /\ Height(s) \in Int /\ Height(p) \in Int /\ Height(cur) \in Int /\ Height(q) \in Int
            /\ Height(prev) \in Int /\ Height(cur) = Height(prev) + 1
        BY <1>2, <1>3, <1>4, <1>5, <3>12, HeightType, HeightNext
      <4>7. Brackets(stack, Right) \in Int /\ Height(cur) = Height(q) + Brackets(stack, Right)
        BY <2>7, <2>8
      <4>8. Height(s) = Height(cur) - 1
        BY ONLY <4>5, <4>6, <4>7
      <4>9. Pair(cur, s)
        BY <1>4, <1>5, <3>12, <4>4, <4>8, TopOpens
      <4>10. At(s) = Partner(c)
        <5>1. ~Precedes(q, cur)
          BY <2>7, <2>9, InOrder
        <5>2. PICK t \in Places : Met(cur, t)
          BY <1>4, <1>5, <2>7, <3>12, <5>1 DEF Solves, Solved
        <5>3. t = s
          BY <4>9, <5>2, PairIsPartnered, OnePartner DEF Met
        <5> QED
          BY <1>4, <5>2, <5>3 DEF Met
      <4>11. b = Now(a, Front(rest), i)
        BY <2>11, <3>1, <3>12, <4>5, <4>10 DEF BecomesBack
      <4>12. PICK left : left = Front(rest)
        OBVIOUS
      <4>13. /\ IsSeq(left)
             /\ left # << >> => left[1] = rest[1]
             /\ Brackets(left, Right) = Brackets(stack, Right) - 1
        BY <2>11, <4>12, PoppedBracket
      <4>14. /\ IsSearch(b) /\ b.stack = left
             /\ b.found = IF left = << >> THEN i ELSE 0
             /\ b.failed = (left = << >> /\ i = 0)
        BY <2>7, <4>11, <4>12, NowDoes
      <4>15. ~Skips(b)
        BY <3>2, <4>11
      <4>16. /\ Pair(p, q) /\ Height(q) = Height(p) - 1
             /\ \A x \in Positions : ~Precedes(x, p) /\ Precedes(x, q) => Height(x) >= Height(p)
        BY DEF Solves, Met, Pair
      <4>17. /\ Leads(prev, cur) /\ \A x \in Positions : Precedes(x, cur) => ~Precedes(prev, x)
        BY <1>2, <1>3, <1>5, PlaceLeads
      <4>18. CASE left # << >>
        <5>1. IsSearch(b) /\ b.found = 0 /\ b.failed = FALSE /\ b.stack = left
          BY <4>14, <4>18
        <5>2. Ranked(left, Right, S)
          <6>1. Len(left) <= Len(rest) /\ \A j \in 1..Len(left) : left[j] = rest[j]
            <7>1. Len(rest) \in Nat \ {0} /\ Len(left) = Len(rest) - 1 /\ \A j \in 1..(Len(rest) - 1) : left[j] = rest[j]
              BY <2>11, <4>12, Popped
            <7> QED
              BY <7>1
          <6> QED
            BY <2>11, <4>1, <4>13, <6>1, PrefixRanked
        <5>3. ASSUME NEW f \in S, f[2] \in 0..(Brackets(left, Right) - 1) PROVE f \in T
          <6>1. f[2] \in Int /\ (f[2] + 1 <= Height(prev) - Height(q) => f \in T)
            BY <2>5, <2>6, <4>17, StackedBackOn
          <6>2. PICK k : k = f[2]
            OBVIOUS
          <6>3. k \in Int /\ k <= Brackets(stack, Right) - 2
            BY <2>8, <4>13, <5>3, <6>2
          <6>4. Height(prev) - Height(q) = Brackets(stack, Right) - 1
            BY ONLY <4>6, <4>7
          <6>5. k + 1 <= Height(prev) - Height(q)
            BY <2>8, <6>3, <6>4
          <6> QED
            BY <6>1, <6>2, <6>5
        <5>4. Ranked(left, Right, T)
          BY <4>13, <5>2, <5>3, RankedIn
        <5>5. left[1] # Right
          BY <2>7, <2>11, <4>13, <4>18
        <5>6. cur # p
          <6>1. Brackets(left, Right) \in Nat \ {0}
            BY <4>13, <4>18, <5>5, OnABracket
          <6>2. Height(q) = Height(p) - 1 /\ Brackets(left, Right) = Brackets(stack, Right) - 1
            BY <4>13, <4>16
          <6>3. Height(cur) # Height(p)
            BY ONLY <4>6, <4>7, <6>1, <6>2
          <6> QED
            BY <6>3
        <5>7. ~IsClosing(c) /\ IsBracket(c)
          BY <3>12, OneKind DEF IsBracket
        <5>8. Returns(b, p, q, prev)
          BY <1>2, <1>3, <1>4, <1>5, <2>1, <2>2, <2>6, <4>13, <4>18, <5>1, <5>4, <5>5, <5>6, <5>7, ReturnsOn
        <5> QED
          BY <1>1, <1>3, <4>15, <5>8 DEF GoesBack
      <4>19. CASE left = << >>
        <5>1. b.found = i
          BY <4>14, <4>19
        <5>2. Brackets(left, Right) = 0
          <6>1. Others(left, Right) = {}
            <7>1. Len(left) = 0
              BY <4>19
            <7> QED
              BY <7>1 DEF Others
          <6> QED
            BY <4>13, <6>1, BracketsAreSome
        <5>3. Height(cur) = Height(p)
          <6>1. Height(q) = Height(p) - 1 /\ Brackets(left, Right) = Brackets(stack, Right) - 1
            BY <4>13, <4>16
          <6> QED
            BY ONLY <4>6, <4>7, <5>2, <6>1
        <5>4. cur = p
          <6>1. SUFFICES ASSUME cur # p PROVE FALSE
            OBVIOUS
          <6>2. prev \in Positions /\ Precedes(prev, cur)
            BY <4>17 DEF Leads
          <6>3. Precedes(p, cur)
            BY <2>7, <2>9, <6>1, InOrder
          <6>4. ~Precedes(prev, p)
            BY <2>9, <4>17, <6>3
          <6>5. Precedes(prev, q)
            BY <2>7, <2>9, <6>2, InOrder, InOrderOn
          <6>6. Height(prev) >= Height(p)
            BY <4>16, <6>2, <6>4, <6>5
          <6> QED
            BY <4>6, <5>3, <6>6
        <5>5. p[1] = n /\ p[2] = i
          BY <1>2, <5>4
        <5> QED
          BY <1>1, <4>14, <5>1, <5>5 DEF GoesBack, IsBack
      <4> QED
        BY <4>18, <4>19
    <3>13. IsBracket(c) => IsOpening(c) \/ IsClosing(c)
      BY DEF IsBracket
    <3> QED
      BY <3>7, <3>8, <3>9, <3>10, <3>11, <3>12, <3>13
  <2> QED
    BY <2>16, <2>17
<1> QED
  BY <1>7, <1>8

(* The first character of the search backwards.                            *)
LEMMA ReturnsFirst ==
  ASSUME IsText, NEW p \in Places, NEW q \in Places, Solves(p, q)
  PROVE  GoesBack(OpenStep(lines[q[1]], Search(<< >>), q[2]), p, q, q[1], q[2] - 1)
<1>1. PICK line : line = lines[q[1]]
  OBVIOUS
<1>2. PICK n : n = q[1]
  OBVIOUS
<1>3. PICK i : i = q[2]
  OBVIOUS
<1>4. PICK b : b = OpenStep(line, Search(<< >>), i)
  OBVIOUS
<1>5. PICK prev : prev = <<n, i - 1>>
  OBVIOUS
<1>6. q = <<n, i>> /\ n \in Nat /\ i \in Nat
  BY <1>2, <1>3, PlaceParts
<1>7. PICK c : c = At(q)
  OBVIOUS
<1>8. Pair(p, q)
  BY DEF Solves, Met
<1>9. c = line[i] /\ IsClosing(c) /\ Precedes(p, q)
  BY <1>1, <1>3, <1>7, <1>8 DEF At, Pair
<1>10. b = [Search(<< >>) EXCEPT !.stack = Append(@, c)]
  <2>1. PICK a : a = Search(<< >>)
    OBVIOUS
  <2>2. ~Over(a) /\ ~Skips(a)
    BY <2>1, Zenon DEF Over, Search, Skips
  <2>3. BecomesBack(a, line, i, line[i], DropAngles(a.stack, Right), OpenStep(line, a, i))
    BY <1>6, <2>2, StepBackByKind
  <2> QED
    BY <1>4, <1>9, <2>1, <2>3 DEF BecomesBack
<1>11. b = [stack |-> Append(<< >>, c), found |-> 0, failed |-> FALSE, skip |-> FALSE]
  BY <1>10, Zenon DEF Search
<1>12. IsSearch(b) /\ b.found = 0 /\ b.failed = FALSE /\ b.stack = Append(<< >>, c)
  BY <1>11 DEF IsSearch
<1>13. ~Skips(b)
  BY <1>11, Zenon DEF Skips
<1>14. /\ Leads(prev, q)
       /\ \A x \in Positions : Precedes(x, q) => ~Precedes(prev, x)
  BY <1>5, <1>6, PlaceLeads
<1>15. p \in Positions /\ q \in Positions /\ prev \in Positions /\ Precedes(prev, q) /\ ~Precedes(prev, p)
  BY <1>9, <1>14, PlacesAreThere DEF Leads
<1>16. Height(q) = Height(prev) - 1 /\ Height(q) \in Int /\ Height(prev) \in Int
  BY <1>5, <1>6, <1>7, <1>9, HeightNext, HeightType
<1>17. <<c, 0>> \in StackedBack(q, prev)
  <2>1. ~IsOpening(At(q)) /\ IsClosing(At(q))
    BY <1>7, <1>9, OneKind
  <2>2. ~Precedes(q, q)
    BY <1>15, InOrder
  <2>3. <<At(q), Height(q) - Height(q)>> \in StackedBack(q, prev)
    BY <1>5, <1>6, <2>1, <2>2, NoneOpened
  <2>4. Height(q) - Height(q) = 0
    BY <1>16
  <2> QED
    BY <1>7, <2>3, <2>4
<1>18. c # Right
  BY <1>9, OneKind
<1>19. /\ IsSeq(b.stack) /\ b.stack # << >> /\ b.stack[1] = c
       /\ Brackets(b.stack, Right) = 1 /\ Ranked(b.stack, Right, StackedBack(q, prev))
  BY <1>12, <1>17, <1>18, OneBracket
<1>20. Height(prev) = Height(q) + Brackets(b.stack, Right)
  BY <1>16, <1>19
<1>21. Returns(b, p, q, prev)
  BY <1>12, <1>15, <1>18, <1>19, <1>20 DEF Returns
<1> QED
  BY <1>1, <1>2, <1>3, <1>4, <1>5, <1>13, <1>21 DEF GoesBack

(* Down a line from its character k on.                                    *)
LEMMA LineGoesBack ==
  ASSUME IsText, NEW p \in Places, NEW q \in Places, Solves(p, q), NEW n \in 1..Len(lines),
         NEW line, line = lines[n], NEW endpos \in 0..Len(line), NEW a, NEW after, LineRunBack(line, endpos, a, after),
         NEW from \in 1..(endpos + 1), GoesBack(after[from], p, q, n, from - 1)
  PROVE  LET b == FindStartOfExpressionInLine(line, endpos, a)
         IN (Returns(b, p, q, <<n, 0>>) \/ IsBack(b, p, n)) /\ ~Skips(b)
<1>1. Len(line) \in Nat /\ endpos \in Nat /\ from \in Nat /\ from > 0
  <2>1. line \in Seq(STRING)
    BY DEF IsText
  <2> QED
    BY <2>1
<1>2. /\ \A i \in 1..endpos : after[i] = OpenStep(line, after[i + 1], i)
      /\ FindStartOfExpressionInLine(line, endpos, a) = [after[1] EXCEPT !.skip = FALSE]
  BY DEF LineRunBack
<1> DEFINE N == from - 1
           P == {k \in 0..N : GoesBack(after[from - k], p, q, n, from - k - 1)}
<1>3. N \in Nat
  BY <1>1
<1>4. 0 \in P
  <2>1. from - 0 = from
    BY <1>1
  <2> QED
    BY <1>3, <2>1
<1>5. ASSUME NEW k \in 0..(N - 1), k \in P PROVE k + 1 \in P
  <2>1. PICK i : i = from - (k + 1)
    OBVIOUS
  <2>2. i \in 1..endpos /\ i \in 1..Len(line) /\ from - k = i + 1 /\ from - k - 1 = i /\ k + 1 \in 0..N
    BY <1>1, <2>1
  <2>3. after[i] = OpenStep(line, after[i + 1], i)
    BY <1>2, <2>2
  <2>4. GoesBack(after[i + 1], p, q, n, i)
    BY <1>5, <2>2
  <2>5. <<n, i>> \in Places
    BY <2>2, APlace
  <2>6. GoesBack(after[i], p, q, n, i - 1)
    BY <2>3, <2>4, <2>5, StepGoesBack
  <2> QED
    BY <2>1, <2>2, <2>6
<1>6. N \in P
  <2>1. P \in SUBSET (0..N)
    OBVIOUS
  <2> HIDE DEF N
  <2>2. \A k \in 0..N : k \in P
    <3> HIDE DEF P
    <3> QED
      BY <1>3, <1>4, <1>5, <2>1, NaturalSteps
  <2> QED
    BY <1>3, <2>2
<1>7. from - N = 1 /\ from - N - 1 = 0
  BY <1>1
<1>8. GoesBack(after[1], p, q, n, 0)
  BY <1>6, <1>7
<1>9. PICK b : b = [after[1] EXCEPT !.skip = FALSE]
  OBVIOUS
<1>10. ASSUME NEW d, d = after[1], IsSearch(d)
       PROVE  IsSearch(b) /\ b.found = d.found /\ b.failed = d.failed /\ b.stack = d.stack /\ ~Skips(b)
  BY <1>9, <1>10, Zenon DEF IsSearch, Skips
<1>11. CASE Returns(after[1], p, q, <<n, 0>>)
  <2>1. PICK d : d = after[1]
    OBVIOUS
  <2>2. IsSearch(d)
    BY <1>11, <2>1 DEF Returns
  <2>3. IsSearch(b) /\ b.found = d.found /\ b.failed = d.failed /\ b.stack = d.stack /\ ~Skips(b)
    BY <1>10, <2>1, <2>2
  <2>4. Returns(b, p, q, <<n, 0>>)
    BY <1>11, <2>1, <2>3 DEF Returns
  <2> QED
    BY <1>2, <1>9, <2>3, <2>4
<1>12. CASE IsBack(after[1], p, n)
  <2>1. PICK d : d = after[1]
    OBVIOUS
  <2>2. IsSearch(d) /\ d.found = p[2] /\ n = p[1]
    BY <1>12, <2>1 DEF IsBack
  <2>3. IsSearch(b) /\ b.found = d.found
    BY <1>10, <2>1, <2>2
  <2> QED
    BY <1>2, <1>9, <1>10, <2>1, <2>2, <2>3 DEF IsBack
<1> QED
  BY <1>8, <1>11, <1>12 DEF GoesBack

-----------------------------------------------------------------------------
(* The whole search backwards                                              *)

(* Before line n, the search goes on or is back.                           *)
LinesGoBack(r, p, q, n) ==
  \/ Returns(r.a, p, q, <<n, 0>>) /\ ~Skips(r.a)
  \/ IsBack(r.a, p, r.n)

(* The line on which it begins.                                            *)
LEMMA FirstLineGoesBack ==
  ASSUME IsText, NEW p \in Places, NEW q \in Places, Solves(p, q)
  PROVE  LinesGoBack(OpenLine(lines, q[1], q[2], [n |-> q[1], a |-> Search(<< >>)], q[1]), p, q, q[1])
<1>1. PICK n : n = q[1]
  OBVIOUS
<1>2. PICK from : from = q[2]
  OBVIOUS
<1>3. PICK line : line = lines[n]
  OBVIOUS
<1>4. n \in 1..Len(lines) /\ from \in 1..Len(line) /\ Len(line) \in Nat
  BY <1>1, <1>2, <1>3, PlaceParts
<1>5. from \in Nat /\ from \in 0..Len(line) /\ from \in 1..(from + 1)
  BY <1>4
<1>6. PICK after : LineRunBack(line, from, Search(<< >>), after)
  BY <1>5, LineLoopBack
<1>7. after[from] = OpenStep(line, Search(<< >>), from)
  <2>1. from \in 1..from
    BY <1>4, <1>5
  <2> QED
    BY <1>6, <2>1 DEF LineRunBack
<1>8. GoesBack(after[from], p, q, n, from - 1)
  BY <1>1, <1>2, <1>3, <1>7, ReturnsFirst
<1>9. PICK b : b = FindStartOfExpressionInLine(line, from, Search(<< >>))
  OBVIOUS
<1>10. (Returns(b, p, q, <<n, 0>>) \/ IsBack(b, p, n)) /\ ~Skips(b)
  BY <1>3, <1>4, <1>5, <1>6, <1>8, <1>9, LineGoesBack
<1>11. OpenLine(lines, n, from, [n |-> n, a |-> Search(<< >>)], n) = [n |-> n, a |-> b]
  BY <1>3, <1>9 DEF OpenLine
<1>12. LinesGoBack([n |-> n, a |-> b], p, q, n)
  BY <1>10 DEF LinesGoBack
<1> QED
  BY <1>1, <1>2, <1>11, <1>12

(* To the line before.                                                     *)
LEMMA ReturnsLine ==
  ASSUME IsText, NEW p \in Places, NEW q \in Places, NEW n \in 1..Len(lines),
         NEW prev, prev = <<n, Len(lines[n])>>, NEW cur, cur = <<n + 1, 0>>,
         NEW a, Returns(a, p, q, cur)
  PROVE  Returns(a, p, q, prev)
<1>1. Leads(prev, cur) /\ Height(cur) = Height(prev)
  BY LineLeads
<1>2. /\ IsSearch(a) /\ a.found = 0 /\ a.failed = FALSE
      /\ IsSeq(a.stack) /\ a.stack # << >> /\ a.stack[1] # Right
      /\ cur \in Positions /\ ~Precedes(cur, p) /\ Precedes(cur, q)
      /\ Height(cur) = Height(q) + Brackets(a.stack, Right)
      /\ Ranked(a.stack, Right, StackedBack(q, cur))
  BY DEF Returns
<1>3. p \in Positions /\ q \in Positions /\ prev \in Positions /\ Precedes(prev, cur)
  BY <1>1, PlacesAreThere DEF Leads
<1>4. Precedes(prev, q)
  BY <1>2, <1>3, InOrder, InOrderOn
<1>5. ~Precedes(prev, p)
  <2>1. p[1] \in Nat /\ p[2] \in Nat /\ p[2] > 0
    BY PlaceParts
  <2>2. PICK len : len = Len(lines[n])
    OBVIOUS
  <2>3. n \in Nat /\ len \in Nat /\ prev[1] = n /\ prev[2] = len /\ cur[1] = n + 1 /\ cur[2] = 0
    <3>1. lines[n] \in Seq(STRING)
      BY DEF IsText
    <3> QED
      BY <2>2, <3>1
  <2>4. p[1] = n => p[2] <= len
    BY <2>2, PlaceParts
  <2>5. ~Precedes(cur, p)
    BY <1>2
  <2> QED
    BY ONLY <2>1, <2>3, <2>4, <2>5 DEF Precedes
<1>6. StackedBack(q, cur) \subseteq StackedBack(q, prev)
  <2>1. Height(cur) \in Int /\ Height(q) \in Int
    BY HeightType
  <2>2. ASSUME NEW e \in StackedBack(q, cur) PROVE e \in StackedBack(q, prev)
    <3>1. /\ e[2] \in Int /\ e[2] + 1 <= Height(cur) - Height(q)
          /\ e[2] + 1 <= Height(prev) - Height(q) => e \in StackedBack(q, prev)
      BY <1>1, StackedBackOn
    <3> QED
      BY <1>1, <3>1
  <2> QED
    BY <2>2
<1>7. Ranked(a.stack, Right, StackedBack(q, prev))
  BY <1>2, <1>6 DEF Ranked
<1>8. Height(prev) = Height(q) + Brackets(a.stack, Right)
  BY <1>1, <1>2
<1> QED
  BY <1>2, <1>3, <1>4, <1>5, <1>7, <1>8 DEF Returns

(* One line more.                                                          *)
LEMMA LineMoreGoesBack ==
  ASSUME IsText, NEW p \in Places, NEW q \in Places, Solves(p, q), NEW n \in 1..Len(lines), n < q[1],
         NEW r, LinesGoBack(r, p, q, n + 1)
  PROVE  LinesGoBack(OpenLine(lines, q[1], q[2], r, n), p, q, n)
<1>1. PICK next : next = OpenLine(lines, q[1], q[2], r, n)
  OBVIOUS
<1>2. PICK line : line = lines[n]
  OBVIOUS
<1>3. n # q[1] /\ Len(line) \in Nat
  <2>1. q[1] \in Nat
    BY PlaceParts
  <2>2. line \in Seq(STRING)
    BY <1>2 DEF IsText
  <2> QED
    BY <2>1, <2>2
<1>4. CASE Over(r.a) \/ r.a.stack = << >>
  <2>1. next = r
    BY <1>1, <1>3, <1>4 DEF OpenLine
  <2>2. ~Returns(r.a, p, q, <<n + 1, 0>>)
    BY <1>4 DEF Returns, Over
  <2> QED
    BY <1>1, <2>1, <2>2 DEF LinesGoBack
<1>5. CASE ~(Over(r.a) \/ r.a.stack = << >>)
  <2>1. PICK a : a = r.a
    OBVIOUS
  <2>2. Returns(a, p, q, <<n + 1, 0>>) /\ ~Skips(a)
    <3>1. p[2] # 0
      BY PlaceParts
    <3> QED
      BY <1>5, <2>1, <3>1 DEF LinesGoBack, IsBack, Over
  <2>3. Returns(a, p, q, <<n, Len(line)>>)
    BY <1>2, <2>2, ReturnsLine
  <2>4. PICK after : LineRunBack(line, Len(line), a, after)
    BY <1>3, LineLoopBack
  <2>5. PICK len : len = Len(line)
    OBVIOUS
  <2>6. after[len + 1] = a /\ len \in 0..Len(line) /\ len + 1 \in 1..(len + 1) /\ (len + 1) - 1 = len
    BY <1>3, <2>4, <2>5 DEF LineRunBack
  <2>7. GoesBack(after[len + 1], p, q, n, (len + 1) - 1)
    BY <2>2, <2>3, <2>5, <2>6 DEF GoesBack
  <2>8. PICK b : b = FindStartOfExpressionInLine(line, len, a)
    OBVIOUS
  <2>9. (Returns(b, p, q, <<n, 0>>) \/ IsBack(b, p, n)) /\ ~Skips(b)
    BY <1>2, <2>4, <2>5, <2>6, <2>7, <2>8, LineGoesBack
  <2>10. next = [n |-> n, a |-> b]
    BY <1>1, <1>2, <1>3, <1>5, <2>1, <2>5, <2>8 DEF OpenLine
  <2>11. LinesGoBack([n |-> n, a |-> b], p, q, n)
    BY <2>9 DEF LinesGoBack
  <2> QED
    BY <1>1, <2>10, <2>11
<1> QED
  BY <1>4, <1>5

(* From the partner of p the search backwards returns to p.                *)
LEMMA SearchGoesBack ==
  ASSUME IsText, NEW p \in Places, NEW q \in Places, Solves(p, q)
  PROVE  Opens(q) = [line |-> p[1], pos |-> p[2]]
<1>1. PICK m : m = q[1]
  OBVIOUS
<1>2. PICK from : from = q[2]
  OBVIOUS
<1>3. m \in Nat /\ m > 0 /\ m \in 1..Len(lines) /\ Len(lines) \in Nat
  <2>1. q[1] \in Nat /\ q[1] \in 1..Len(lines)
    BY PlaceParts
  <2> QED
    BY <1>1, <2>1 DEF IsText
<1>4. PICK after : LinesRunBack(m, from, after)
  BY <1>3, LinesLoopBack
<1>5. /\ after[m + 1] = [n |-> m, a |-> Search(<< >>)]
      /\ \A n \in 1..m : after[n] = OpenLine(lines, m, from, after[n + 1], n)
  BY <1>4 DEF LinesRunBack
<1> DEFINE K == m - 1
           P == {k \in 0..K : LinesGoBack(after[m - k], p, q, m - k)}
<1>6. K \in Nat
  BY <1>3
<1>7. 0 \in P
  <2>1. after[m] = OpenLine(lines, m, from, [n |-> m, a |-> Search(<< >>)], m)
    BY <1>3, <1>5
  <2>2. LinesGoBack(after[m], p, q, m)
    BY <1>1, <1>2, <2>1, FirstLineGoesBack
  <2>3. m - 0 = m
    BY <1>3
  <2> QED
    BY <1>6, <2>2, <2>3
<1>8. ASSUME NEW k \in 0..(K - 1), k \in P PROVE k + 1 \in P
  <2>1. PICK n : n = m - (k + 1)
    OBVIOUS
  <2>2. n \in 1..m /\ n \in 1..Len(lines) /\ n + 1 = m - k /\ n < m /\ k + 1 \in 0..K
    BY <1>3, <2>1
  <2>3. after[n] = OpenLine(lines, m, from, after[n + 1], n)
    BY <1>5, <2>2
  <2>4. LinesGoBack(after[n + 1], p, q, n + 1)
    BY <1>8, <2>2
  <2>5. n < q[1]
    BY <1>1, <2>2
  <2>6. LinesGoBack(OpenLine(lines, q[1], q[2], after[n + 1], n), p, q, n)
    BY <2>2, <2>4, <2>5, LineMoreGoesBack
  <2>7. LinesGoBack(after[n], p, q, n)
    BY <1>1, <1>2, <2>3, <2>6
  <2> QED
    BY <2>1, <2>2, <2>7
<1>9. K \in P
  <2>1. P \in SUBSET (0..K)
    OBVIOUS
  <2> HIDE DEF K
  <2>2. \A k \in 0..K : k \in P
    <3> HIDE DEF P
    <3> QED
      BY <1>6, <1>7, <1>8, <2>1, NaturalSteps
  <2> QED
    BY <1>6, <2>2
<1>10. m - K = 1
  BY <1>3
<1>11. LinesGoBack(after[1], p, q, 1)
  BY <1>9, <1>10
<1>12. ~Returns(after[1].a, p, q, <<1, 0>>)
  <2>1. PICK start : start = <<1, 0>>
    OBVIOUS
  <2>2. start[1] = 1 /\ start[2] = 0
    BY <2>1
  <2>3. p[1] \in Nat /\ p[2] \in Nat /\ p[2] > 0 /\ p[1] > 0
    <3>1. p[1] \in 1..Len(lines) /\ p[1] \in Nat /\ p[2] \in Nat /\ p[2] > 0
      BY PlaceParts
    <3> QED
      BY <3>1
  <2>4. Precedes(start, p)
    BY <2>2, <2>3 DEF Precedes
  <2> QED
    BY <2>1, <2>4 DEF Returns
<1>13. after[1].a.found = p[2] /\ after[1].n = p[1] /\ p[2] # 0
  BY <1>11, <1>12, PlaceParts DEF LinesGoBack, IsBack
<1>14. IsClosing(lines[m][from])
  BY <1>1, <1>2 DEF Solves, Met, Pair, At
<1>15. ReverseCloseExpression(lines, m, from) = [line |-> after[1].n, pos |-> after[1].a.found]
  BY <1>4, <1>13, <1>14 DEF LinesRunBack
<1> QED
  BY <1>1, <1>2, <1>13, <1>15 DEF Opens

(* A bracket that is not "<" is closed where the brackets balance, however *)
(* many "<" and ">" that may be operators lie between, and nowhere if they *)
(* never do or if they cross, and from there the search backwards returns: *)
(* what CloseExpression and ReverseCloseExpression leave of angles on the  *)
(* stack is gone when the bracket below meets its partner.                 *)
THEOREM BracketsDoMatch == Spec => []BracketsMatch
<1>1. IsText => BracketsMatch
  <2> SUFFICES ASSUME IsText, NEW p \in Places, At(p) \in Opening, NEW e, e = Closes(p), NEW q, q = <<e.line, e.pos - 1>>
               PROVE  IF e = Nowhere THEN ~\E r \in Places : Matching(p, r)
                      ELSE Matching(p, q) /\ Opens(q) = [line |-> p[1], pos |-> p[2]]
    BY Zenon DEF BracketsMatch
  <2>1. IsOpening(At(p))
    BY DEF IsOpening
  <2>2. CASE e # Nowhere
    <3>1. Solves(p, q)
      BY <2>1, <2>2, SearchGoes
    <3>2. q \in Places
      BY <3>1 DEF Solves, Met, Pair
    <3> QED
      BY <2>2, <3>1, <3>2, SolvedIsMatching, SearchGoesBack
  <2>3. CASE e = Nowhere
    <3>1. \/ \E r, s \in Places : Crossed(p, r, s)
          \/ \A x \in Places : ~Precedes(x, p) => Height(x) >= Height(p)
      BY <2>1, <2>3, SearchGoes
    <3>2. ASSUME NEW r \in Places, Matching(p, r) PROVE FALSE
      BY <2>1, <3>1, <3>2, CrossedIsNotMatching
    <3> QED
      BY <2>3, <3>2
  <2> QED
    BY <2>2, <2>3
<1> QED
  BY <1>1, Texts, PTL
-----------------------------------------------------------------------------
(* The pieces of a text                                                    *)

(* Any string may be a piece; those that the cleansing knows, and the      *)
(* states of a text, are named for the provers.                            *)
Marks == {"open", "close", "line", "quote", "raw", "endraw", "empty", "word", "paren"}
States == {"code", "string", "block", "cut"}
Piece == STRING \cup Marks \cup States

(* The names that the cleansing knows.                                     *)
LEMMA Pieces ==
  /\ "open" \in Piece /\ "close" \in Piece /\ "line" \in Piece /\ "quote" \in Piece
  /\ "raw" \in Piece /\ "endraw" \in Piece /\ "empty" \in Piece /\ "word" \in Piece
  /\ "paren" \in Piece /\ "code" \in Piece /\ "string" \in Piece /\ "block" \in Piece
  /\ "cut" \in Piece
BY DEF Piece, Marks, States

(* Short lines.                                                            *)
LEMMA ShortLines ==
  ASSUME NEW p \in Piece, NEW q \in Piece
  PROVE  /\ << >> \in Seq(Piece) /\ << p >> \in Seq(Piece) /\ << p, q >> \in Seq(Piece)
         /\ Len(<< >>) = 0 /\ Len(<< p >>) = 1 /\ Len(<< p, q >>) = 2
         /\ << p >>[1] = p /\ << p, q >>[1] = p /\ << p, q >>[2] = q
OBVIOUS
-----------------------------------------------------------------------------
(* Loops and sequences                                                     *)

(* f[i] is what a loop has computed after i rounds.                        *)
Looped(f, N, S, base, step) ==
  f \in [0..N -> S] /\ f[0] = base /\ \A i \in 1..N : f[i] = step[<<f[i - 1], i>>]

(* A loop of N rounds computes something, if its body keeps to a set.      *)
LEMMA Loops ==
  ASSUME NEW N \in Nat, NEW S, NEW base \in S, NEW step \in [S \X (1..N) -> S]
  PROVE  \E f : Looped(f, N, S, base, step)
<1> DEFINE Run(f, k) == f[0] = base /\ \A i \in 1..k : f[i] = step[<<f[i - 1], i>>]
           P == {k \in 0..N : \E f \in [0..k -> S] : Run(f, k)}
<1>1. 0 \in P
  <2> DEFINE g == [i \in 0..0 |-> base]
  <2>1. g \in [0..0 -> S] /\ Run(g, 0)
    OBVIOUS
  <2> HIDE DEF g
  <2> QED
    BY <2>1
<1>2. ASSUME NEW k \in 0..(N - 1), k \in P PROVE k + 1 \in P
  <2>1. PICK f \in [0..k -> S] : Run(f, k)
    BY <1>2
  <2> DEFINE g == [i \in 0..(k + 1) |-> IF i = k + 1 THEN step[<<f[k], k + 1>>] ELSE f[i]]
  <2>2. k \in Nat /\ k + 1 \in 0..N /\ k + 1 \in 1..N
    OBVIOUS
  <2>3. g \in [0..(k + 1) -> S]
    BY <2>2
  <2>4. g[0] = base
    BY <2>1, <2>2
  <2>5. ASSUME NEW i \in 1..(k + 1) PROVE g[i] = step[<<g[i - 1], i>>]
    <3>1. g[i - 1] = f[i - 1]
      BY <2>2
    <3>2. CASE i = k + 1
      BY <2>2, <3>1, <3>2
    <3>3. CASE i # k + 1
      <4>1. i \in 1..k /\ g[i] = f[i]
        BY <2>2, <3>3
      <4> QED
        BY <2>1, <3>1, <4>1
    <3> QED
      BY <3>2, <3>3
  <2> HIDE DEF g
  <2>6. Run(g, k + 1)
    BY <2>4, <2>5
  <2> QED
    BY <2>2, <2>3, <2>6
<1>3. P \in SUBSET (0..N)
  OBVIOUS
<1> HIDE DEF P
<1>4. N \in P
  BY <1>1, <1>2, <1>3, NaturalSteps
<1>5. PICK f \in [0..N -> S] : Run(f, N)
  BY <1>4 DEF P
<1> QED
  BY <1>5 DEF Looped

(* A line is what comes before a piece, the piece, and what comes after.   *)
LEMMA Parts ==
  ASSUME NEW l \in Seq(Piece), NEW i \in 1..Len(l)
  PROVE  /\ Before(l, i) \in Seq(Piece) /\ After(l, i) \in Seq(Piece) /\ l[i] \in Piece
         /\ Len(Before(l, i)) = i - 1 /\ Len(After(l, i)) = Len(l) - i
         /\ \A j \in 1..(i - 1) : Before(l, i)[j] = l[j]
         /\ \A j \in 1..(Len(l) - i) : After(l, i)[j] = l[i + j]
         /\ l = (Before(l, i) \o << l[i] >>) \o After(l, i)
<1> DEFINE b == SubSeq(l, 1, i - 1)
           c == SubSeq(l, i + 1, Len(l))
<1>1. i \in Nat /\ Len(l) \in Nat /\ 1 <= i /\ i <= Len(l) /\ l[i] \in Piece
  OBVIOUS
<1>2. /\ b \in Seq(Piece) /\ Len(b) = i - 1
      /\ \A j \in 1..(i - 1) : b[j] = l[j]
  <2>1. \A j \in 1..(i - 1) : l[j] \in Piece
    BY <1>1
  <2>2. PICK m : m = i - 1
    OBVIOUS
  <2>3. m \in Int /\ 1 \in Int /\ m >= 0
    BY <1>1, <2>2
  <2>4. /\ SubSeq(l, 1, m) \in Seq(Piece)
        /\ Len(SubSeq(l, 1, m)) = IF 1 <= m THEN m - 1 + 1 ELSE 0
        /\ \A j \in 1..(m - 1 + 1) : SubSeq(l, 1, m)[j] = l[1 + j - 1]
    BY <2>1, <2>2, <2>3, SubSeqProperties
  <2>5. Len(SubSeq(l, 1, m)) = m /\ m - 1 + 1 = m /\ \A j \in 1..m : 1 + j - 1 = j
    BY <2>3, <2>4
  <2> QED
    BY <2>2, <2>4, <2>5
<1>3. /\ c \in Seq(Piece) /\ Len(c) = Len(l) - i
      /\ \A j \in 1..(Len(l) - i) : c[j] = l[i + j]
  <2>1. PICK m, n : m = i + 1 /\ n = Len(l)
    OBVIOUS
  <2>2. m \in Int /\ n \in Int /\ m <= n + 1
    BY <1>1, <2>1
  <2>3. \A j \in m..n : l[j] \in Piece
    BY <1>1, <2>1
  <2>4. /\ SubSeq(l, m, n) \in Seq(Piece)
        /\ Len(SubSeq(l, m, n)) = IF m <= n THEN n - m + 1 ELSE 0
        /\ \A j \in 1..(n - m + 1) : SubSeq(l, m, n)[j] = l[m + j - 1]
    BY <2>2, <2>3, SubSeqProperties
  <2>5. Len(SubSeq(l, m, n)) = n - i /\ n - m + 1 = n - i /\ \A j \in 1..(n - i) : m + j - 1 = i + j
    BY <1>1, <2>1, <2>2, <2>4
  <2> QED
    BY <2>1, <2>4, <2>5
<1> HIDE DEF b, c
<1>4. l = (b \o << l[i] >>) \o c
  <2> DEFINE d == b \o << l[i] >>
  <2>1. << l[i] >> \in Seq(Piece) /\ Len(<< l[i] >>) = 1 /\ << l[i] >>[1] = l[i]
    BY <1>1
  <2>2. d \in Seq(Piece) /\ Len(d) = i /\ (\A j \in 1..(i - 1) : d[j] = l[j]) /\ d[i] = l[i]
    BY <1>1, <1>2, <2>1
  <2> HIDE DEF d
  <2>3. /\ d \o c \in Seq(Piece) /\ Len(d \o c) = Len(d) + Len(c)
        /\ \A j \in 1..(Len(d) + Len(c)) : (d \o c)[j] = IF j <= Len(d) THEN d[j] ELSE c[j - Len(d)]
    BY <1>3, <2>2, ConcatProperties
  <2>5. Len(d \o c) = Len(l) /\ Len(d) + Len(c) = Len(l)
    BY <1>1, <1>3, <2>2, <2>3
  <2>4. ASSUME NEW j \in 1..Len(l) PROVE (d \o c)[j] = l[j]
    <3>1. CASE j <= i
      <4>1. (d \o c)[j] = d[j]
        BY <1>1, <2>2, <2>3, <2>5, <3>1
      <4> QED
        BY <1>1, <2>2, <3>1, <4>1
    <3>2. CASE j > i
      <4>1. (d \o c)[j] = c[j - i] /\ j - i \in 1..(Len(l) - i) /\ i + (j - i) = j
        BY <1>1, <2>2, <2>3, <2>5, <3>2
      <4> QED
        BY <1>3, <4>1
    <3>3. j <= i \/ j > i
      BY <1>1
    <3> QED
      BY <3>1, <3>2, <3>3
  <2> QED
    BY <2>3, <2>4, <2>5, SeqEqual DEF d
<1> QED
  BY <1>1, <1>2, <1>3, <1>4 DEF Before, After, b, c
-----------------------------------------------------------------------------
(* What a compiler sees, piece by piece                                    *)

(* The states of a text on a line.                                         *)
Scanning == [in : Piece, code : Seq(Piece), odd : BOOLEAN]

(* As Lex, but for the mark of a line comment within a block comment: that *)
(* is where CleanseComments cuts the line.                                 *)
Scan(a, piece) ==
  IF a.in = "block" /\ piece = "line" THEN [a EXCEPT !.in = "cut"] ELSE Lex(a, piece)

(* A line, piece by piece.                                                 *)
ScanLine(a, line) ==
  LET after[i \in 0..Len(line)] == IF i = 0 THEN a ELSE Scan(after[i - 1], line[i])
  IN after[Len(line)]

(* A piece leads from such a state to such a state.                        *)
LEMMA ScanType ==
  ASSUME NEW a \in Scanning, NEW piece \in Piece
  PROVE  Lex(a, piece) \in Scanning /\ Scan(a, piece) \in Scanning
<1>1. /\ Append(a.code, "empty") \in Seq(Piece) /\ Append(a.code, piece) \in Seq(Piece)
      /\ a.code \o << "paren", "empty" >> \in Seq(Piece)
  <2>1. a.code \in Seq(Piece)
    BY DEF Scanning
  <2>2. << "paren", "empty" >> \in Seq(Piece) /\ "empty" \in Piece
    BY Pieces, ShortLines
  <2> QED
    BY <2>1, <2>2, ConcatProperties
<1>2. Lex(a, piece) \in Scanning
  <2>1. /\ \A in \in Piece : [a EXCEPT !.in = in] \in Scanning
        /\ [a EXCEPT !.odd = TRUE] \in Scanning
        /\ [a EXCEPT !.in = "code", !.odd = TRUE] \in Scanning
        /\ \A in \in Piece, code \in Seq(Piece) : [a EXCEPT !.in = in, !.code = code] \in Scanning
        /\ \A code \in Seq(Piece) : [a EXCEPT !.code = code] \in Scanning
    BY Pieces DEF Scanning
  <2>2. CASE a.in = "code"
    BY <1>1, <2>1, <2>2, Pieces DEF Lex
  <2>3. CASE a.in = "string"
    BY <2>1, <2>3, Pieces DEF Lex
  <2>4. CASE a.in = "raw"
    BY <2>1, <2>4, Pieces DEF Lex
  <2>5. CASE a.in = "block"
    BY <2>1, <2>5, Pieces DEF Lex
  <2>6. CASE a.in \notin {"code", "string", "raw", "block"}
    BY <2>6 DEF Lex
  <2> QED
    BY <2>2, <2>3, <2>4, <2>5, <2>6
<1>3. [a EXCEPT !.in = "cut"] \in Scanning
  BY Pieces DEF Scanning
<1> QED
  BY <1>2, <1>3 DEF Scan

(* f[i] is the state after the first i pieces.                             *)
Scans(f, a, line) ==
  f[0] = a /\ \A i \in 1..Len(line) : f[i] = Scan(f[i - 1], line[i])
Lexes(f, a, line) ==
  f[0] = a /\ \A i \in 1..Len(line) : f[i] = Lex(f[i - 1], line[i])

(* The loops over the pieces of a line, as what they compute.              *)
LEMMA ScanLoop ==
  ASSUME NEW a \in Scanning, NEW line \in Seq(Piece)
  PROVE  \E f \in [0..Len(line) -> Scanning] : Scans(f, a, line) /\ ScanLine(a, line) = f[Len(line)]
<1> DEFINE N == Len(line)
           step == [x \in Scanning \X (1..N) |-> Scan(x[1], line[x[2]])]
           Loop(f) == f = [i \in 0..N |-> IF i = 0 THEN a ELSE Scan(f[i - 1], line[i])]
           loop == CHOOSE f : Loop(f)
<1>1. N \in Nat /\ \A i \in 1..N : line[i] \in Piece
  OBVIOUS
<1>2. step \in [Scanning \X (1..N) -> Scanning]
  BY <1>1, ScanType
<1>3. \A b \in Scanning, i \in 1..N : step[<<b, i>>] = Scan(b, line[i])
  BY <1>1
<1> HIDE DEF step
<1>4. PICK g : Looped(g, N, Scanning, a, step)
  <2> HIDE DEF N
  <2> QED
    BY <1>1, <1>2, Loops
<1>15. g \in [0..N -> Scanning] /\ g[0] = a /\ \A i \in 1..N : g[i] = step[<<g[i - 1], i>>]
  BY <1>4 DEF Looped
<1>5. \A i \in 0..N : g[i] = IF i = 0 THEN a ELSE Scan(g[i - 1], line[i])
  <2> TAKE i \in 0..N
  <2>1. CASE i = 0
    BY <1>15, <2>1
  <2>2. CASE i # 0
    <3>1. i \in 1..N /\ i - 1 \in 0..N
      BY <1>1, <2>2
    <3>2. g[i - 1] \in Scanning
      BY <1>15, <3>1
    <3> QED
      BY <1>3, <1>15, <2>2, <3>1, <3>2
  <2> QED
    BY <2>1, <2>2
<1>6. Loop(g)
  BY <1>5, <1>15
<1>7. Loop(loop)
  BY <1>6, Zenon
<1>8. ScanLine(a, line) = loop[N]
  BY DEF ScanLine
<1> HIDE DEF loop
<1>9. PICK f : f = loop
  OBVIOUS
<1>10. f = [i \in 0..N |-> IF i = 0 THEN a ELSE Scan(f[i - 1], line[i])]
  BY <1>7, <1>9, Zenon
<1>11. f[0] = a /\ \A i \in 1..N : f[i] = Scan(f[i - 1], line[i])
  BY <1>1, <1>10
<1>12. \A i \in 0..N : f[i] \in Scanning
  <2> DEFINE P == {i \in 0..N : f[i] \in Scanning}
  <2>1. 0 \in P
    BY <1>1, <1>11
  <2>2. ASSUME NEW k \in 0..(N - 1), k \in P PROVE k + 1 \in P
    <3>1. k + 1 \in 1..N /\ k + 1 \in 0..N /\ (k + 1) - 1 = k
      BY <1>1
    <3> QED
      BY <1>1, <1>11, <2>2, <3>1, ScanType
  <2>3. P \in SUBSET (0..N)
    OBVIOUS
  <2> HIDE DEF P
  <2>4. \A k \in 0..N : k \in P
    BY <1>1, <2>1, <2>2, <2>3, NaturalSteps
  <2> QED
    BY <2>4 DEF P
<1>13. f \in [0..N -> Scanning]
  BY <1>10, <1>12
<1>14. Scans(f, a, line) /\ ScanLine(a, line) = f[N]
  BY <1>8, <1>9, <1>11 DEF Scans
<1> QED
  BY <1>13, <1>14
(* The other one.                                                          *)
LEMMA LexLoop ==
  ASSUME NEW a \in Scanning, NEW line \in Seq(Piece)
  PROVE  \E f \in [0..Len(line) -> Scanning] : Lexes(f, a, line) /\ LexPieces(a, line) = f[Len(line)]
<1> DEFINE N == Len(line)
           step == [x \in Scanning \X (1..N) |-> Lex(x[1], line[x[2]])]
           Loop(f) == f = [i \in 0..N |-> IF i = 0 THEN a ELSE Lex(f[i - 1], line[i])]
           loop == CHOOSE f : Loop(f)
<1>1. N \in Nat /\ \A i \in 1..N : line[i] \in Piece
  OBVIOUS
<1>2. step \in [Scanning \X (1..N) -> Scanning]
  BY <1>1, ScanType
<1>3. \A b \in Scanning, i \in 1..N : step[<<b, i>>] = Lex(b, line[i])
  BY <1>1
<1> HIDE DEF step
<1>4. PICK g : Looped(g, N, Scanning, a, step)
  <2> HIDE DEF N
  <2> QED
    BY <1>1, <1>2, Loops
<1>15. g \in [0..N -> Scanning] /\ g[0] = a /\ \A i \in 1..N : g[i] = step[<<g[i - 1], i>>]
  BY <1>4 DEF Looped
<1>5. \A i \in 0..N : g[i] = IF i = 0 THEN a ELSE Lex(g[i - 1], line[i])
  <2> TAKE i \in 0..N
  <2>1. CASE i = 0
    BY <1>15, <2>1
  <2>2. CASE i # 0
    <3>1. i \in 1..N /\ i - 1 \in 0..N
      BY <1>1, <2>2
    <3>2. g[i - 1] \in Scanning
      BY <1>15, <3>1
    <3> QED
      BY <1>3, <1>15, <2>2, <3>1, <3>2
  <2> QED
    BY <2>1, <2>2
<1>6. Loop(g)
  BY <1>5, <1>15
<1>7. Loop(loop)
  BY <1>6, Zenon
<1>8. LexPieces(a, line) = loop[N]
  BY DEF LexPieces
<1> HIDE DEF loop
<1>9. PICK f : f = loop
  OBVIOUS
<1>10. f = [i \in 0..N |-> IF i = 0 THEN a ELSE Lex(f[i - 1], line[i])]
  BY <1>7, <1>9, Zenon
<1>11. f[0] = a /\ \A i \in 1..N : f[i] = Lex(f[i - 1], line[i])
  BY <1>1, <1>10
<1>12. \A i \in 0..N : f[i] \in Scanning
  <2> DEFINE P == {i \in 0..N : f[i] \in Scanning}
  <2>1. 0 \in P
    BY <1>1, <1>11
  <2>2. ASSUME NEW k \in 0..(N - 1), k \in P PROVE k + 1 \in P
    <3>1. k + 1 \in 1..N /\ k + 1 \in 0..N /\ (k + 1) - 1 = k
      BY <1>1
    <3> QED
      BY <1>1, <1>11, <2>2, <3>1, ScanType
  <2>3. P \in SUBSET (0..N)
    OBVIOUS
  <2> HIDE DEF P
  <2>4. \A k \in 0..N : k \in P
    BY <1>1, <2>1, <2>2, <2>3, NaturalSteps
  <2> QED
    BY <2>4 DEF P
<1>13. f \in [0..N -> Scanning]
  BY <1>10, <1>12
<1>14. Lexes(f, a, line) /\ LexPieces(a, line) = f[N]
  BY <1>8, <1>9, <1>11 DEF Lexes
<1> QED
  BY <1>13, <1>14
(* What the loop over a line computes, it computes however it is written.  *)
LEMMA ScanIs ==
  ASSUME NEW a \in Scanning, NEW line \in Seq(Piece), NEW g, Scans(g, a, line)
  PROVE  ScanLine(a, line) = g[Len(line)]
<1>1. PICK f \in [0..Len(line) -> Scanning] : Scans(f, a, line) /\ ScanLine(a, line) = f[Len(line)]
  BY ScanLoop
<1>2. PICK N : N = Len(line)
  OBVIOUS
<1>3. N \in Nat
  BY <1>2
<1> DEFINE P == {i \in 0..N : f[i] = g[i]}
<1>4. 0 \in P
  BY <1>1, <1>3 DEF Scans
<1>5. ASSUME NEW k \in 0..(N - 1), k \in P PROVE k + 1 \in P
  <2>1. k + 1 \in 1..N /\ k + 1 \in 0..N /\ (k + 1) - 1 = k
    BY <1>3
  <2>2. f[k + 1] = Scan(f[k], line[k + 1]) /\ g[k + 1] = Scan(g[k], line[k + 1])
    BY <1>1, <1>2, <2>1 DEF Scans
  <2> QED
    BY <1>5, <2>1, <2>2
<1>6. P \in SUBSET (0..N)
  OBVIOUS
<1> HIDE DEF P
<1>7. \A k \in 0..N : k \in P
  BY <1>3, <1>4, <1>5, <1>6, NaturalSteps
<1>8. f[N] = g[N]
  BY <1>3, <1>7 DEF P
<1> QED
  BY <1>1, <1>2, <1>8

(* It stays among its states.                                              *)
LEMMA ScanLineType ==
  ASSUME NEW a \in Scanning, NEW line \in Seq(Piece)
  PROVE  ScanLine(a, line) \in Scanning
<1>1. Len(line) \in 0..Len(line)
  OBVIOUS
<1> QED
  BY <1>1, ScanLoop

(* A line of no pieces, and of one.                                        *)
LEMMA ScanShort ==
  ASSUME NEW a \in Scanning, NEW piece \in Piece
  PROVE  ScanLine(a, << >>) = a /\ ScanLine(a, << piece >>) = Scan(a, piece)
<1>1. << >> \in Seq(Piece) /\ << piece >> \in Seq(Piece)
  OBVIOUS
<1>2. Len(<< >>) = 0 /\ Len(<< piece >>) = 1 /\ << piece >>[1] = piece
  OBVIOUS
<1>3. ScanLine(a, << >>) = a
  <2> DEFINE g == [i \in 0..0 |-> a]
  <2>1. g[0] = a /\ 1..0 = {}
    OBVIOUS
  <2> HIDE DEF g
  <2>2. Scans(g, a, << >>)
    BY <1>2, <2>1 DEF Scans
  <2> QED
    BY <1>1, <1>2, <2>1, <2>2, ScanIs
<1>4. ScanLine(a, << piece >>) = Scan(a, piece)
  <2> DEFINE g == [i \in 0..1 |-> IF i = 0 THEN a ELSE Scan(a, piece)]
  <2>1. g[0] = a /\ g[1] = Scan(a, piece) /\ \A i \in 1..1 : i = 1 /\ i - 1 = 0
    OBVIOUS
  <2> HIDE DEF g
  <2>2. Scans(g, a, << piece >>)
    BY <1>2, <2>1 DEF Scans
  <2> QED
    BY <1>1, <1>2, <2>1, <2>2, ScanIs
<1> QED
  BY <1>3, <1>4

(* A line after another.                                                   *)
LEMMA ScanBoth ==
  ASSUME NEW a \in Scanning, NEW u \in Seq(Piece), NEW v \in Seq(Piece)
  PROVE  ScanLine(a, u \o v) = ScanLine(ScanLine(a, u), v)
<1>1. PICK f \in [0..Len(u) -> Scanning] : Scans(f, a, u) /\ ScanLine(a, u) = f[Len(u)]
  BY ScanLoop
<1>2. PICK b : b = ScanLine(a, u)
  OBVIOUS
<1>3. b \in Scanning
  BY <1>2, ScanLineType
<1>4. PICK g \in [0..Len(v) -> Scanning] : Scans(g, b, v) /\ ScanLine(b, v) = g[Len(v)]
  BY <1>3, ScanLoop
<1>5. PICK M, N : M = Len(u) /\ N = Len(v)
  OBVIOUS
<1>6. /\ u \o v \in Seq(Piece) /\ Len(u \o v) = M + N
      /\ \A i \in 1..(M + N) : (u \o v)[i] = IF i <= M THEN u[i] ELSE v[i - M]
  BY <1>5, ConcatProperties
<1>7. M \in Nat /\ N \in Nat
  BY <1>5
<1> DEFINE h == [i \in 0..(M + N) |-> IF i <= M THEN f[i] ELSE g[i - M]]
<1>8. h[0] = a
  BY <1>1, <1>7 DEF Scans
<1>9. ASSUME NEW i \in 1..(M + N) PROVE h[i] = Scan(h[i - 1], (u \o v)[i])
  <2>1. CASE i <= M
    <3>1. h[i] = f[i] /\ h[i - 1] = f[i - 1] /\ i \in 1..M /\ (u \o v)[i] = u[i]
      BY <1>6, <1>7, <2>1
    <3> QED
      BY <1>1, <1>5, <3>1 DEF Scans
  <2>2. CASE i > M
    <3>1. i - M \in 1..N /\ (i - M) - 1 = (i - 1) - M /\ h[i] = g[i - M] /\ (u \o v)[i] = v[i - M]
      BY <1>6, <1>7, <2>2
    <3>2. g[i - M] = Scan(g[(i - M) - 1], v[i - M])
      BY <1>4, <1>5, <3>1 DEF Scans
    <3>3. h[i - 1] = g[(i - 1) - M]
      <4>1. CASE i - 1 = M
        <5>1. h[i - 1] = f[M] /\ (i - 1) - M = 0
          BY <1>7, <2>2, <4>1
        <5> QED
          BY <1>1, <1>2, <1>4, <1>5, <5>1 DEF Scans
      <4>2. CASE i - 1 # M
        BY <1>7, <2>2, <4>2
      <4> QED
        BY <4>1, <4>2
    <3> QED
      BY <3>1, <3>2, <3>3
  <2>3. i <= M \/ i > M
    BY <1>7
  <2> QED
    BY <2>1, <2>2, <2>3
<1>10. h[M + N] = g[N]
  <2>1. CASE N = 0
    <3>1. h[M + N] = f[M] /\ g[N] = b
      BY <1>4, <1>7, <2>1 DEF Scans
    <3> QED
      BY <1>1, <1>2, <1>5, <3>1
  <2>2. CASE N # 0
    <3>1. M + N \in 0..(M + N) /\ ~(M + N <= M) /\ (M + N) - M = N
      BY <1>7, <2>2
    <3> QED
      BY <3>1
  <2> QED
    BY <2>1, <2>2
<1> HIDE DEF h
<1>11. Scans(h, a, u \o v)
  BY <1>6, <1>8, <1>9 DEF Scans
<1>12. ScanLine(a, u \o v) = h[M + N]
  BY <1>6, <1>11, ScanIs
<1> QED
  BY <1>2, <1>4, <1>5, <1>10, <1>12

(* A line of pieces that all leave a state as it is.                       *)
LEMMA ScanStays ==
  ASSUME NEW a \in Scanning, NEW line \in Seq(Piece), \A i \in 1..Len(line) : Scan(a, line[i]) = a
  PROVE  ScanLine(a, line) = a
<1> DEFINE g == [i \in 0..Len(line) |-> a]
<1>1. Len(line) \in Nat
  OBVIOUS
<1>2. g[0] = a /\ g[Len(line)] = a /\ \A i \in 1..Len(line) : g[i] = a /\ g[i - 1] = a
  BY <1>1
<1> HIDE DEF g
<1>3. Scans(g, a, line)
  BY <1>2 DEF Scans
<1> QED
  BY <1>2, <1>3, ScanIs
-----------------------------------------------------------------------------
(* The pieces one by one                                                   *)

(* Code, at the start of a line.                                           *)
Start == [in |-> "code", code |-> << >>, odd |-> FALSE]
(* What follows on the line is comment.                                    *)
Over1(a) == a.in \in {"line", "cut"}

(* The parts of that state.                                                *)
LEMMA StartIs == Start \in Scanning /\ Start.in = "code" /\ Start.code = << >> /\ Start.odd = FALSE
BY Pieces DEF Start, Scanning

(* Two states with the same parts.                                         *)
LEMMA SameState ==
  ASSUME NEW a \in Scanning, NEW b \in Scanning, a.in = b.in, a.code = b.code, a.odd = b.odd
  PROVE  a = b
BY DEF Scanning

(* The parts of a state.                                                   *)
Is(b, in, code, odd) == b \in Scanning /\ b.in = in /\ b.code = code /\ b.odd = odd

(* What a piece does in code.                                              *)
LEMMA ScanCode ==
  ASSUME NEW a \in Scanning, a.in = "code", NEW p \in Piece
  PROVE  /\ p = "open" => Is(Scan(a, p), "block", a.code, a.odd)
         /\ p = "line" => Is(Scan(a, p), "line", a.code, a.odd)
         /\ p = "quote" => Is(Scan(a, p), "string", Append(a.code, "empty"), a.odd)
         /\ p = "endraw" => Is(Scan(a, p), "string", a.code \o << "paren", "empty" >>, a.odd)
         /\ p = "raw" => Is(Scan(a, p), "raw", Append(a.code, "empty"), a.odd)
         /\ p = "close" => Is(Scan(a, p), "code", a.code, TRUE)
         /\ p \notin {"open", "line", "quote", "endraw", "raw", "close"} =>
              Is(Scan(a, p), "code", Append(a.code, p), a.odd)
<1>1. Scan(a, p) \in Scanning /\ Scan(a, p) = Lex(a, p)
  BY ScanType DEF Scan
<1>2. CASE p \notin {"open", "line", "quote", "endraw", "raw", "close"}
  <2>1. Lex(a, p) = [a EXCEPT !.code = Append(@, p)]
    BY <1>2 DEF Lex
  <2> QED
    BY <1>1, <1>2, <2>1 DEF Is, Scanning
<1>3. CASE p = "quote"
  <2>1. Lex(a, p) = [a EXCEPT !.in = "string", !.code = Append(@, "empty")]
    BY <1>3 DEF Lex
  <2> QED
    BY <1>1, <1>3, <2>1 DEF Is, Scanning
<1>4. CASE p = "endraw"
  <2>1. Lex(a, p) = [a EXCEPT !.in = "string", !.code = @ \o << "paren", "empty" >>]
    BY <1>4 DEF Lex
  <2> QED
    BY <1>1, <1>4, <2>1 DEF Is, Scanning
<1>5. CASE p = "raw"
  <2>1. Lex(a, p) = [a EXCEPT !.in = "raw", !.code = Append(@, "empty")]
    BY <1>5 DEF Lex
  <2> QED
    BY <1>1, <1>5, <2>1 DEF Is, Scanning
<1>6. CASE p \in {"open", "line", "close"}
  <2>1. /\ p = "open" => Lex(a, p) = [a EXCEPT !.in = "block"]
        /\ p = "line" => Lex(a, p) = [a EXCEPT !.in = "line"]
        /\ p = "close" => Lex(a, p) = [a EXCEPT !.odd = TRUE]
    BY <1>6 DEF Lex
  <2> QED
    BY <1>1, <1>6, <2>1 DEF Is, Scanning
<1> QED
  BY <1>2, <1>3, <1>4, <1>5, <1>6

(* In a string.                                                            *)
LEMMA ScanString ==
  ASSUME NEW a \in Scanning, a.in = "string", NEW p \in Piece
  PROVE  /\ p \in {"quote", "endraw"} => Is(Scan(a, p), "code", a.code, a.odd)
         /\ p = "raw" => Is(Scan(a, p), "code", a.code, TRUE)
         /\ p \notin {"quote", "endraw", "raw"} => Scan(a, p) = a
<1>1. Scan(a, p) \in Scanning /\ Scan(a, p) = Lex(a, p)
  BY ScanType DEF Scan
<1>2. /\ p \in {"quote", "endraw"} => Lex(a, p) = [a EXCEPT !.in = "code"]
      /\ p = "raw" => Lex(a, p) = [a EXCEPT !.in = "code", !.odd = TRUE]
      /\ p \notin {"quote", "endraw", "raw"} => Lex(a, p) = a
  BY DEF Lex
<1> QED
  BY <1>1, <1>2 DEF Is, Scanning

(* In a raw string.                                                        *)
LEMMA ScanRaw ==
  ASSUME NEW a \in Scanning, a.in = "raw", NEW p \in Piece
  PROVE  /\ p = "endraw" => Is(Scan(a, p), "code", a.code, a.odd)
         /\ p # "endraw" => Scan(a, p) = a
<1>1. Scan(a, p) \in Scanning /\ Scan(a, p) = Lex(a, p)
  BY ScanType DEF Scan
<1>2. /\ p = "endraw" => Lex(a, p) = [a EXCEPT !.in = "code"]
      /\ p # "endraw" => Lex(a, p) = a
  BY DEF Lex
<1> QED
  BY <1>1, <1>2 DEF Is, Scanning

(* In a block comment.                                                     *)
LEMMA ScanBlock ==
  ASSUME NEW a \in Scanning, a.in = "block", NEW p \in Piece
  PROVE  /\ p = "close" => Is(Scan(a, p), "code", a.code, a.odd)
         /\ p \in {"quote", "raw", "endraw"} => Is(Scan(a, p), "block", a.code, TRUE)
         /\ p = "line" => Is(Scan(a, p), "cut", a.code, a.odd)
         /\ p \notin {"close", "quote", "raw", "endraw", "line"} => Scan(a, p) = a
<1>1. Scan(a, p) \in Scanning
  BY ScanType
<1>2. /\ p = "close" => Scan(a, p) = [a EXCEPT !.in = "code"]
      /\ p \in {"quote", "raw", "endraw"} => Scan(a, p) = [a EXCEPT !.odd = TRUE]
      /\ p = "line" => Scan(a, p) = [a EXCEPT !.in = "cut"]
      /\ p \notin {"close", "quote", "raw", "endraw", "line"} => Scan(a, p) = a
  BY DEF Scan, Lex
<1> QED
  BY <1>1, <1>2 DEF Is, Scanning

(* In a line comment, or past the mark of one in a block comment.          *)
LEMMA ScanOver ==
  ASSUME NEW a \in Scanning, Over1(a), NEW p \in Piece
  PROVE  Scan(a, p) = a
BY DEF Scan, Lex, Over1

(* The states there are.                                                   *)
Known(a) == a.in \in {"code", "string", "raw", "block", "line", "cut"}
(* There are no others.                                                    *)
LEMMA ScanKnown ==
  ASSUME NEW a \in Scanning, Known(a), NEW p \in Piece
  PROVE  Known(Scan(a, p))
<1>1. ASSUME NEW in \in {"code", "string", "raw", "block", "line", "cut"}, NEW code, NEW odd,
             Is(Scan(a, p), in, code, odd)
      PROVE  Known(Scan(a, p))
  BY <1>1 DEF Is, Known
<1>2. CASE a.in = "code"
  <2>1. \E in \in {"code", "string", "raw", "block", "line", "cut"} : \E code, odd : Is(Scan(a, p), in, code, odd)
    BY <1>2, ScanCode, Zenon
  <2> QED
    BY <1>1, <2>1
<1>3. CASE a.in = "string"
  <2>1. Scan(a, p) = a \/ \E code, odd : Is(Scan(a, p), "code", code, odd)
    BY <1>3, ScanString, Zenon
  <2> QED
    BY <1>1, <2>1
<1>4. CASE a.in = "raw"
  <2>1. Scan(a, p) = a \/ \E code, odd : Is(Scan(a, p), "code", code, odd)
    BY <1>4, ScanRaw, Zenon
  <2> QED
    BY <1>1, <2>1
<1>5. CASE a.in = "block"
  <2>1. \/ Scan(a, p) = a
        \/ \E in \in {"code", "string", "raw", "block", "line", "cut"} : \E code, odd : Is(Scan(a, p), in, code, odd)
    BY <1>5, ScanBlock, Zenon
  <2> QED
    BY <1>1, <2>1
<1>6. CASE Over1(a)
  BY <1>6, ScanOver
<1> QED
  BY <1>2, <1>3, <1>4, <1>5, <1>6 DEF Known, Over1

(* What is set aside stays so.                                             *)
LEMMA OddStays ==
  ASSUME NEW a \in Scanning, a.odd, NEW p \in Piece
  PROVE  Scan(a, p).odd /\ Lex(a, p).odd
<1>1. Lex(a, p).odd
  <2>1. CASE a.in = "code"
    BY <2>1 DEF Lex, Scanning
  <2>2. CASE a.in = "string"
    BY <2>2 DEF Lex, Scanning
  <2>3. CASE a.in = "raw"
    BY <2>3 DEF Lex, Scanning
  <2>4. CASE a.in = "block"
    BY <2>4 DEF Lex, Scanning
  <2>5. CASE a.in \notin {"code", "string", "raw", "block"}
    BY <2>5 DEF Lex, Scanning
  <2> QED
    BY <2>1, <2>2, <2>3, <2>4, <2>5
<1>2. [a EXCEPT !.in = "cut"].odd
  BY DEF Scanning
<1> QED
  BY <1>1, <1>2 DEF Scan
-----------------------------------------------------------------------------
(* Lines                                                                   *)

(* What every piece of a line keeps, the line keeps.                       *)
LEMMA ScanKeeps ==
  ASSUME NEW a \in Scanning, NEW line \in Seq(Piece), NEW Good, Good \subseteq Scanning, a \in Good,
         \A b \in Good : \A i \in 1..Len(line) : Scan(b, line[i]) \in Good
  PROVE  ScanLine(a, line) \in Good
<1>1. PICK f \in [0..Len(line) -> Scanning] : Scans(f, a, line) /\ ScanLine(a, line) = f[Len(line)]
  BY ScanLoop
<1>2. PICK N : N = Len(line)
  OBVIOUS
<1>3. N \in Nat
  BY <1>2
<1> DEFINE P == {i \in 0..N : f[i] \in Good}
<1>4. 0 \in P
  BY <1>1, <1>3 DEF Scans
<1>5. ASSUME NEW k \in 0..(N - 1), k \in P PROVE k + 1 \in P
  <2>1. k + 1 \in 1..N /\ k + 1 \in 0..N /\ (k + 1) - 1 = k
    BY <1>3
  <2>2. f[k + 1] = Scan(f[k], line[k + 1])
    BY <1>1, <1>2, <2>1 DEF Scans
  <2>3. f[k] \in Good
    BY <1>5
  <2>4. Scan(f[k], line[k + 1]) \in Good
    BY <1>2, <2>1, <2>3
  <2> QED
    BY <2>1, <2>2, <2>4
<1>6. P \in SUBSET (0..N)
  OBVIOUS
<1> HIDE DEF P
<1>7. \A k \in 0..N : k \in P
  BY <1>3, <1>4, <1>5, <1>6, NaturalSteps
<1>8. f[N] \in Good
  BY <1>3, <1>7 DEF P
<1> QED
  BY <1>1, <1>2, <1>8

(* What is set aside, over or known stays so to the end of the line.       *)
LEMMA LineKeeps ==
  ASSUME NEW a \in Scanning, NEW line \in Seq(Piece)
  PROVE  /\ ScanLine(a, line) \in Scanning
         /\ a.odd => ScanLine(a, line).odd
         /\ Over1(a) => ScanLine(a, line) = a
         /\ Known(a) => Known(ScanLine(a, line))
<1>0. \A i \in 1..Len(line) : line[i] \in Piece
  OBVIOUS
<1>1. ASSUME a.odd PROVE ScanLine(a, line).odd
  <2> DEFINE Good == {b \in Scanning : b.odd}
  <2>1. a \in Good /\ Good \subseteq Scanning
    BY <1>1
  <2>2. ASSUME NEW b \in Good, NEW i \in 1..Len(line) PROVE Scan(b, line[i]) \in Good
    BY <1>0, ScanType, OddStays
  <2>3. ScanLine(a, line) \in Good
    <3> HIDE DEF Good
    <3> QED
      BY <2>1, <2>2, ScanKeeps
  <2> QED
    BY <2>3
<1>2. ASSUME Over1(a) PROVE ScanLine(a, line) = a
  <2>1. \A i \in 1..Len(line) : Scan(a, line[i]) = a
    BY <1>0, <1>2, ScanOver
  <2> QED
    BY <2>1, ScanStays
<1>3. ASSUME Known(a) PROVE Known(ScanLine(a, line))
  <2> DEFINE Good == {b \in Scanning : Known(b)}
  <2>1. a \in Good /\ Good \subseteq Scanning
    BY <1>3
  <2>2. ASSUME NEW b \in Good, NEW i \in 1..Len(line) PROVE Scan(b, line[i]) \in Good
    BY <1>0, ScanType, ScanKnown
  <2>3. ScanLine(a, line) \in Good
    <3> HIDE DEF Good
    <3> QED
      BY <2>1, <2>2, ScanKeeps
  <2> QED
    BY <2>3
<1> QED
  BY <1>1, <1>2, <1>3, ScanLineType

(* A line up to a piece, the piece, and the rest.                          *)
LEMMA ScanParts ==
  ASSUME NEW a \in Scanning, NEW line \in Seq(Piece), NEW i \in 1..Len(line)
  PROVE  /\ ScanLine(a, Before(line, i)) \in Scanning
         /\ Scan(ScanLine(a, Before(line, i)), line[i]) \in Scanning
         /\ ScanLine(a, line) = ScanLine(Scan(ScanLine(a, Before(line, i)), line[i]), After(line, i))
         /\ ~ScanLine(a, line).odd => /\ ~ScanLine(a, Before(line, i)).odd
                                      /\ ~Scan(ScanLine(a, Before(line, i)), line[i]).odd
<1>1. PICK b, c, p : b = Before(line, i) /\ c = After(line, i) /\ p = line[i]
  OBVIOUS
<1>13. /\ b \in Seq(Piece) /\ c \in Seq(Piece) /\ p \in Piece
       /\ line = (b \o << p >>) \o c
  BY <1>1, Parts
<1>2. /\ b \in Seq(Piece) /\ c \in Seq(Piece) /\ p \in Piece /\ << p >> \in Seq(Piece)
      /\ line = (b \o << p >>) \o c
  BY <1>13, ShortLines
<1>3. b \o << p >> \in Seq(Piece)
  BY <1>2, ConcatProperties
<1>4. PICK s : s = ScanLine(a, b)
  OBVIOUS
<1>5. s \in Scanning
  BY <1>2, <1>4, LineKeeps
<1>6. PICK t : t = Scan(s, p)
  OBVIOUS
<1>7. t \in Scanning /\ (s.odd => t.odd)
  BY <1>2, <1>5, <1>6, ScanType, OddStays
<1>8. ScanLine(a, line) = ScanLine(ScanLine(a, b \o << p >>), c)
  BY <1>2, <1>3, ScanBoth
<1>9. ScanLine(a, b \o << p >>) = ScanLine(s, << p >>)
  BY <1>2, <1>4, ScanBoth
<1>10. ScanLine(s, << p >>) = t
  BY <1>2, <1>5, <1>6, ScanShort
<1>11. ScanLine(a, line) = ScanLine(t, c)
  BY <1>8, <1>9, <1>10
<1>12. t.odd => ScanLine(t, c).odd
  BY <1>2, <1>7, LineKeeps
<1> QED
  BY <1>1, <1>4, <1>5, <1>6, <1>7, <1>11, <1>12

(* The states on the way.                                                  *)
LEMMA ScanWay ==
  ASSUME NEW a \in Scanning, NEW line \in Seq(Piece), NEW f, Scans(f, a, line), NEW i \in 1..Len(line)
  PROVE  f[i - 1] = ScanLine(a, Before(line, i))
<1>1. PICK b : b = Before(line, i)
  OBVIOUS
<1>2. b \in Seq(Piece) /\ Len(b) = i - 1 /\ \A j \in 1..(i - 1) : b[j] = line[j]
  BY <1>1, Parts
<1>3. \A j \in 1..(i - 1) : j \in 1..Len(line)
  OBVIOUS
<1>4. Scans(f, a, b)
  BY <1>2, <1>3 DEF Scans
<1> QED
  BY <1>1, <1>2, <1>4, ScanIs

(* Up to where a line is cut, the cleansing and a compiler agree.          *)
LEMMA ScanOrCut ==
  ASSUME NEW a \in Scanning, a.in # "cut", NEW line \in Seq(Piece), NEW b, b = ScanLine(a, line)
  PROVE  (b = LexPieces(a, line) \/ b.in = "cut") /\ (b.odd => LexPieces(a, line).odd)
<1>1. PICK f \in [0..Len(line) -> Scanning] : Scans(f, a, line) /\ ScanLine(a, line) = f[Len(line)]
  BY ScanLoop
<1>2. PICK g \in [0..Len(line) -> Scanning] : Lexes(g, a, line) /\ LexPieces(a, line) = g[Len(line)]
  BY LexLoop
<1>3. PICK N : N = Len(line)
  OBVIOUS
<1>4. N \in Nat
  BY <1>3
<1> DEFINE P == {i \in 0..N : (f[i] = g[i] \/ f[i].in = "cut") /\ (f[i].odd => g[i].odd)}
<1>5. 0 \in P
  BY <1>1, <1>2, <1>4 DEF Scans, Lexes
<1>6. ASSUME NEW k \in 0..(N - 1), k \in P PROVE k + 1 \in P
  <2>1. k + 1 \in 1..N /\ k + 1 \in 0..N /\ (k + 1) - 1 = k /\ k \in 0..N
    BY <1>4
  <2>2. PICK p : p = line[k + 1]
    OBVIOUS
  <2>3. p \in Piece /\ f[k] \in Scanning /\ g[k] \in Scanning
    BY <1>3, <2>1, <2>2
  <2>4. f[k + 1] = Scan(f[k], p) /\ g[k + 1] = Lex(g[k], p)
    BY <1>1, <1>2, <1>3, <2>1, <2>2 DEF Scans, Lexes
  <2>5. (f[k] = g[k] \/ f[k].in = "cut") /\ (f[k].odd => g[k].odd)
    BY <1>6
  <2>6. CASE f[k].in = "cut"
    <3>1. Scan(f[k], p) = f[k]
      BY <2>3, <2>6, ScanOver DEF Over1
    <3>2. g[k].odd => Lex(g[k], p).odd
      BY <2>3, OddStays
    <3> QED
      BY <2>1, <2>4, <2>5, <2>6, <3>1, <3>2
  <2>7. CASE f[k].in # "cut"
    <3>1. f[k] = g[k]
      BY <2>5, <2>7
    <3>2. CASE f[k].in = "block" /\ p = "line"
      <4>1. Scan(f[k], p) = [f[k] EXCEPT !.in = "cut"]
        BY <3>2 DEF Scan
      <4>2. Scan(f[k], p).in = "cut" /\ Scan(f[k], p).odd = f[k].odd
        BY <2>3, <4>1 DEF Scanning
      <4>3. g[k].odd => Lex(g[k], p).odd
        BY <2>3, OddStays
      <4> QED
        BY <2>1, <2>4, <2>5, <4>2, <4>3
    <3>3. CASE ~(f[k].in = "block" /\ p = "line")
      <4>1. Scan(f[k], p) = Lex(g[k], p)
        BY <3>1, <3>3 DEF Scan
      <4> QED
        BY <2>1, <2>4, <4>1
    <3> QED
      BY <3>2, <3>3
  <2> QED
    BY <2>6, <2>7
<1>7. P \in SUBSET (0..N)
  OBVIOUS
<1> HIDE DEF P
<1>8. \A k \in 0..N : k \in P
  BY <1>4, <1>5, <1>6, <1>7, NaturalSteps
<1>9. N \in P
  BY <1>4, <1>8
<1> QED
  BY <1>1, <1>2, <1>3, <1>9 DEF P
-----------------------------------------------------------------------------
(* Raw strings                                                             *)

(* The first of the pieces of a kind.                                      *)
LEMMA FirstPiece ==
  ASSUME NEW line \in Seq(Piece), NEW piece, Where(line, piece) # {}, NEW i, i = Least(Where(line, piece))
  PROVE  /\ i \in 1..Len(line) /\ line[i] = piece
         /\ \A j \in 1..Len(line) : line[j] = piece => i <= j
         /\ \A j \in 1..Len(Before(line, i)) : Before(line, i)[j] # piece
<1>1. Where(line, piece) \in SUBSET Nat
  BY DEF Where
<1>2. i \in Where(line, piece) /\ \A j \in Where(line, piece) : i <= j
  BY <1>1, LeastOne DEF Least
<1>3. i \in 1..Len(line) /\ line[i] = piece /\ \A j \in 1..Len(line) : line[j] = piece => i <= j
  BY <1>2 DEF Where
<1>4. ASSUME NEW j \in 1..Len(Before(line, i)) PROVE Before(line, i)[j] # piece
  <2>1. Len(Before(line, i)) = i - 1 /\ \A k \in 1..(i - 1) : Before(line, i)[k] = line[k]
    BY <1>3, Parts
  <2>2. j \in 1..(i - 1) /\ j \in 1..Len(line) /\ ~(i <= j)
    BY <1>3, <2>1
  <2> QED
    BY <1>3, <2>1, <2>2
<1> QED
  BY <1>3, <1>4

(* Numbers of quotation marks.                                             *)
Odd(n) == n % 2 = 1

(* One more, and one less to pair up.                                      *)
LEMMA OddNext ==
  ASSUME NEW n \in Nat
  PROVE  (Odd(n + 1) <=> ~Odd(n)) /\ ~Odd(0) /\ (~Odd(n) <=> n % 2 = 0)
BY DEF Odd

(* What begins or ends a string where no raw string began.                 *)
QuoteMarks == {"quote", "raw", "endraw"}

(* Where no raw string began, a text is in a string after an odd number of *)
(* quotation marks.                                                        *)
LEMMA InString ==
  ASSUME NEW u \in Seq(Piece), \A i \in 1..Len(u) : u[i] # "raw",
         NEW s, s = ScanLine(Start, u), ~s.odd, ~Over1(s)
  PROVE  s.in \in {"code", "block", "string"} /\ (s.in = "string" <=> Odd(Cardinality(Quotes(u))))
<1>1. PICK f \in [0..Len(u) -> Scanning] : Scans(f, Start, u) /\ s = f[Len(u)]
  BY StartIs, ScanLoop
<1>2. PICK N : N = Len(u)
  OBVIOUS
<1>3. N \in Nat
  BY <1>2
<1> DEFINE Q(k) == {i \in 1..k : u[i] \in QuoteMarks}
           Good(k) == /\ f[k].in \in {"code", "block", "string"}
                      /\ IsFiniteSet(Q(k)) /\ Cardinality(Q(k)) \in Nat
                      /\ f[k].in = "string" <=> Odd(Cardinality(Q(k)))
           P == {k \in 0..N : f[k].odd \/ Over1(f[k]) \/ Good(k)}
<1>4. 0 \in P
  <2>1. Q(0) = {}
    OBVIOUS
  <2>2. IsFiniteSet(Q(0)) /\ Cardinality(Q(0)) = 0
    BY <2>1, FS_EmptySet
  <2>3. f[0].in = "code"
    BY <1>1, StartIs DEF Scans
  <2>4. ~Odd(0)
    BY OddNext
  <2> HIDE DEF Q
  <2> QED
    BY <1>3, <2>2, <2>3, <2>4
<1>5. ASSUME NEW k \in 0..(N - 1), k \in P PROVE k + 1 \in P
  <2>1. k + 1 \in 1..N /\ k + 1 \in 0..N /\ (k + 1) - 1 = k /\ k \in 0..N /\ k \in Nat
    BY <1>3
  <2>2. PICK a, b, p : a = f[k] /\ b = f[k + 1] /\ p = u[k + 1]
    OBVIOUS
  <2>3. a \in Scanning /\ b \in Scanning /\ p \in Piece /\ b = Scan(a, p) /\ p # "raw"
    BY <1>1, <1>2, <2>1, <2>2 DEF Scans
  <2>4. CASE a.odd
    BY <2>1, <2>2, <2>3, <2>4, OddStays
  <2>5. CASE Over1(a)
    BY <2>1, <2>2, <2>3, <2>5, ScanOver
  <2>6. CASE Good(k) /\ ~a.odd
    <3>1. Q(k + 1) = IF p \in QuoteMarks THEN Q(k) \cup {k + 1} ELSE Q(k)
      BY <2>1, <2>2
    <3>2. k + 1 \notin Q(k)
      BY <2>1
    <3> HIDE DEF Q
    <3>3. PICK c, d : c = Cardinality(Q(k)) /\ d = Cardinality(Q(k + 1))
      OBVIOUS
    <3>4. /\ IsFiniteSet(Q(k + 1)) /\ c \in Nat /\ d \in Nat
          /\ d = IF p \in QuoteMarks THEN c + 1 ELSE c
      <4>1. IsFiniteSet(Q(k)) /\ c \in Nat
        BY <2>6, <3>3
      <4>2. /\ IsFiniteSet(Q(k) \cup {k + 1})
            /\ Cardinality(Q(k) \cup {k + 1}) = Cardinality(Q(k)) + 1
        BY <3>2, <4>1, FS_AddElement
      <4>3. CASE p \in QuoteMarks
        BY <3>1, <3>3, <4>1, <4>2, <4>3
      <4>4. CASE p \notin QuoteMarks
        BY <3>1, <3>3, <4>1, <4>4
      <4> QED
        BY <4>3, <4>4
    <3>5. Odd(d) <=> IF p \in QuoteMarks THEN ~Odd(c) ELSE Odd(c)
      BY <3>4, OddNext
    <3>6. a.in \in {"code", "block", "string"} /\ (a.in = "string" <=> Odd(c))
      BY <2>2, <2>6, <3>3
    <3>7. \/ b.odd \/ Over1(b)
          \/ b.in \in {"code", "block", "string"} /\ (b.in = "string" <=> Odd(d))
      <4>1. CASE a.in = "code"
        <5>1. ~Odd(c)
          BY <3>6, <4>1
        <5>2. CASE p = "open"
          <6>1. Is(b, "block", a.code, a.odd)
            BY <2>3, <4>1, <5>2, ScanCode
          <6> QED
            BY <3>5, <5>1, <5>2, <6>1 DEF Is, QuoteMarks
        <5>3. CASE p = "line"
          <6>1. Is(b, "line", a.code, a.odd)
            BY <2>3, <4>1, <5>3, ScanCode
          <6> QED
            BY <6>1 DEF Is, Over1
        <5>4. CASE p \in {"quote", "endraw"}
          <6>1. \E code : Is(b, "string", code, a.odd)
            BY <2>3, <4>1, <5>4, ScanCode
          <6> QED
            BY <3>5, <5>1, <5>4, <6>1 DEF Is, QuoteMarks
        <5>5. CASE p = "close"
          <6>1. Is(b, "code", a.code, TRUE)
            BY <2>3, <4>1, <5>5, ScanCode
          <6> QED
            BY <6>1 DEF Is
        <5>6. CASE p \notin {"open", "line", "quote", "endraw", "close"}
          <6>1. Is(b, "code", Append(a.code, p), a.odd)
            BY <2>3, <4>1, <5>6, ScanCode
          <6> QED
            BY <2>3, <3>5, <5>1, <5>6, <6>1 DEF Is, QuoteMarks
        <5> QED
          BY <5>2, <5>3, <5>4, <5>5, <5>6
      <4>2. CASE a.in = "string"
        <5>1. Odd(c)
          BY <3>6, <4>2
        <5>2. CASE p \in {"quote", "endraw"}
          <6>1. Is(b, "code", a.code, a.odd)
            BY <2>3, <4>2, <5>2, ScanString
          <6> QED
            BY <3>5, <5>1, <5>2, <6>1 DEF Is, QuoteMarks
        <5>3. CASE p \notin {"quote", "endraw"}
          <6>1. b = a
            BY <2>3, <4>2, <5>3, ScanString
          <6> QED
            BY <2>3, <3>5, <3>6, <5>3, <6>1 DEF QuoteMarks
        <5> QED
          BY <5>2, <5>3
      <4>3. CASE a.in = "block"
        <5>1. ~Odd(c)
          BY <3>6, <4>3
        <5>2. CASE p = "close"
          <6>1. Is(b, "code", a.code, a.odd)
            BY <2>3, <4>3, <5>2, ScanBlock
          <6> QED
            BY <3>5, <5>1, <5>2, <6>1 DEF Is, QuoteMarks
        <5>3. CASE p \in {"quote", "endraw"}
          <6>1. Is(b, "block", a.code, TRUE)
            BY <2>3, <4>3, <5>3, ScanBlock
          <6> QED
            BY <6>1 DEF Is
        <5>4. CASE p = "line"
          <6>1. Is(b, "cut", a.code, a.odd)
            BY <2>3, <4>3, <5>4, ScanBlock
          <6> QED
            BY <6>1 DEF Is, Over1
        <5>5. CASE p \notin {"close", "quote", "endraw", "line"}
          <6>1. b = a
            BY <2>3, <4>3, <5>5, ScanBlock
          <6> QED
            BY <2>3, <3>5, <3>6, <5>5, <6>1 DEF QuoteMarks
        <5> QED
          BY <5>2, <5>3, <5>4, <5>5
      <4> QED
        BY <3>6, <4>1, <4>2, <4>3
    <3> QED
      BY <2>1, <2>2, <3>3, <3>4, <3>7
  <2> QED
    BY <1>5, <2>2, <2>4, <2>5, <2>6
<1>6. P \in SUBSET (0..N)
  OBVIOUS
<1>7. \A k \in 0..N : k \in P
  <2> HIDE DEF P
  <2> QED
    BY <1>3, <1>4, <1>5, <1>6, NaturalSteps
<1>8. Good(N)
  BY <1>1, <1>2, <1>3, <1>7
<1>9. Quotes(u) = Q(N)
  BY <1>2 DEF Quotes, QuoteMarks
<1> QED
  BY <1>1, <1>2, <1>8, <1>9
(* Only the mark of a line comment ends what the cleansing sees of a line. *)
LEMMA GoesOver ==
  ASSUME NEW a \in Scanning, a.in \in {"code", "block", "string"}, NEW p \in Piece
  PROVE  Over1(Scan(a, p)) <=> p = "line" /\ a.in # "string"
<1>1. PICK b : b = Scan(a, p)
  OBVIOUS
<1>2. ASSUME NEW in, NEW code, NEW odd, Is(b, in, code, odd)
      PROVE  Over1(b) <=> in \in {"line", "cut"}
  BY <1>2 DEF Is, Over1
<1>3. CASE a.in = "code"
  <2>1. CASE p = "line"
    <3>1. Is(b, "line", a.code, a.odd)
      BY <1>1, <1>3, <2>1, ScanCode
    <3> QED
      BY <1>1, <1>2, <1>3, <2>1, <3>1
  <2>2. CASE p # "line"
    <3>1. \E in \in {"code", "block", "string", "raw"} : \E code, odd : Is(b, in, code, odd)
      BY <1>1, <1>3, <2>2, ScanCode, Zenon
    <3> QED
      BY <1>1, <1>2, <2>2, <3>1
  <2> QED
    BY <2>1, <2>2
<1>4. CASE a.in = "string"
  <2>1. b = a \/ \E code, odd : Is(b, "code", code, odd)
    BY <1>1, <1>4, ScanString, Zenon
  <2> QED
    BY <1>1, <1>2, <1>4, <2>1 DEF Over1
<1>5. CASE a.in = "block"
  <2>1. CASE p = "line"
    <3>1. Is(b, "cut", a.code, a.odd)
      BY <1>1, <1>5, <2>1, ScanBlock
    <3> QED
      BY <1>1, <1>2, <1>5, <2>1, <3>1
  <2>2. CASE p # "line"
    <3>1. b = a \/ \E in \in {"code", "block"} : \E code, odd : Is(b, in, code, odd)
      BY <1>1, <1>5, <2>2, ScanBlock, Zenon
    <3> QED
      BY <1>1, <1>2, <1>5, <2>2, <3>1 DEF Over1
  <2> QED
    BY <2>1, <2>2
<1> QED
  BY <1>3, <1>4, <1>5

(* A line has finitely many quotation marks.                               *)
LEMMA QuotesAreSome ==
  ASSUME NEW u \in Seq(Piece)
  PROVE  IsFiniteSet(Quotes(u)) /\ Cardinality(Quotes(u)) \in Nat
<1>1. IsFiniteSet(1..Len(u))
  BY FS_Interval
<1>2. Quotes(u) \subseteq 1..Len(u)
  BY DEF Quotes
<1>3. IsFiniteSet(Quotes(u))
  BY <1>1, <1>2, FS_Subset
<1> QED
  BY <1>3, FS_CardinalityType

(* CleanseRawStrings knows where a line comment has begun.                 *)
LEMMA LineCommentIs ==
  ASSUME NEW u \in Seq(Piece), \A i \in 1..Len(u) : u[i] # "raw",
         NEW s, s = ScanLine(Start, u), ~s.odd
  PROVE  InLineComment(u) <=> Over1(s)
<1>1. ASSUME NEW i \in 1..Len(u), NEW v, v = Before(u, i), NEW t, t = ScanLine(Start, v)
      PROVE  /\ v \in Seq(Piece) /\ t \in Scanning /\ ~t.odd /\ u[i] \in Piece
             /\ s = ScanLine(Scan(t, u[i]), After(u, i)) /\ Scan(t, u[i]) \in Scanning
             /\ After(u, i) \in Seq(Piece)
             /\ Over1(Scan(t, u[i])) => Over1(s)
             /\ ~Over1(t) => /\ t.in \in {"code", "block", "string"}
                             /\ t.in = "string" <=> ~(Cardinality(Quotes(v)) % 2 = 0)
  <2>1. /\ v \in Seq(Piece) /\ After(u, i) \in Seq(Piece) /\ u[i] \in Piece
        /\ Len(v) = i - 1 /\ \A j \in 1..(i - 1) : v[j] = u[j]
    BY <1>1, Parts
  <2>2. /\ t \in Scanning /\ Scan(t, u[i]) \in Scanning /\ ~t.odd
        /\ s = ScanLine(Scan(t, u[i]), After(u, i))
    BY <1>1, StartIs, ScanParts
  <2>3. Over1(Scan(t, u[i])) => Over1(s)
    BY <2>1, <2>2, LineKeeps
  <2>4. ASSUME ~Over1(t)
        PROVE  t.in \in {"code", "block", "string"} /\ (t.in = "string" <=> ~(Cardinality(Quotes(v)) % 2 = 0))
    <3>1. \A j \in 1..Len(v) : v[j] # "raw"
      BY <2>1
    <3>2. t.in \in {"code", "block", "string"} /\ (t.in = "string" <=> Odd(Cardinality(Quotes(v))))
      BY <1>1, <2>1, <2>2, <2>4, <3>1, InString
    <3>3. Odd(Cardinality(Quotes(v))) <=> ~(Cardinality(Quotes(v)) % 2 = 0)
      BY <2>1, QuotesAreSome, OddNext
    <3> QED
      BY <3>2, <3>3
  <2> QED
    BY <2>1, <2>2, <2>3, <2>4
<1>2. ASSUME InLineComment(u) PROVE Over1(s)
  <2>1. PICK i \in 1..Len(u) : u[i] = "line" /\ Cardinality(Quotes(Before(u, i))) % 2 = 0
    BY <1>2 DEF InLineComment, Where
  <2>2. PICK v, t : v = Before(u, i) /\ t = ScanLine(Start, v)
    OBVIOUS
  <2>3. /\ t \in Scanning /\ u[i] \in Piece /\ (Over1(Scan(t, u[i])) => Over1(s))
        /\ ~Over1(t) => t.in \in {"code", "block", "string"} /\ t.in # "string"
    BY <1>1, <2>1, <2>2
  <2>4. CASE Over1(t)
    BY <2>3, <2>4, ScanOver
  <2>5. CASE ~Over1(t)
    BY <2>1, <2>3, <2>5, GoesOver
  <2> QED
    BY <2>4, <2>5
<1>3. ASSUME Over1(s) PROVE InLineComment(u)
  <2>1. PICK f \in [0..Len(u) -> Scanning] : Scans(f, Start, u) /\ s = f[Len(u)]
    BY StartIs, ScanLoop
  <2>2. PICK N : N = Len(u)
    OBVIOUS
  <2>3. N \in Nat
    BY <2>2
  <2> DEFINE T == {k \in 0..N : Over1(f[k])}
  <2>4. T \in SUBSET Nat /\ N \in T
    BY <1>3, <2>1, <2>2, <2>3
  <2>5. PICK k \in T : \A j \in T : k <= j
    <3> HIDE DEF T
    <3> QED
      BY <2>4, LeastOne
  <2>6. k \in 0..N /\ Over1(f[k])
    OBVIOUS
  <2>7. k # 0
    <3>1. f[0] = Start
      BY <2>1 DEF Scans
    <3> QED
      BY <2>6, <3>1, StartIs DEF Over1
  <2>8. k \in 1..N /\ k - 1 \in 0..N /\ ~(k <= k - 1)
    BY <2>3, <2>6, <2>7
  <2>9. ~Over1(f[k - 1])
    BY <2>5, <2>8
  <2>10. PICK v, t, p : v = Before(u, k) /\ t = ScanLine(Start, v) /\ p = u[k]
    OBVIOUS
  <2>11. f[k - 1] = t
    BY <2>1, <2>2, <2>8, <2>10, StartIs, ScanWay
  <2>12. /\ t \in Scanning /\ p \in Piece /\ t.in \in {"code", "block", "string"}
         /\ t.in = "string" <=> ~(Cardinality(Quotes(v)) % 2 = 0)
    BY <1>1, <2>2, <2>8, <2>9, <2>10, <2>11
  <2>13. f[k] = Scan(t, p)
    BY <2>1, <2>2, <2>8, <2>10, <2>11 DEF Scans
  <2>14. p = "line" /\ t.in # "string"
    BY <2>6, <2>12, <2>13, GoesOver
  <2> QED
    BY <2>2, <2>8, <2>10, <2>12, <2>14 DEF InLineComment, Where
<1> QED
  BY <1>2, <1>3

(* Where the first raw string of a line begins, unless it is in a comment. *)
LEMMA RawStarts ==
  ASSUME NEW l \in Seq(Piece), Where(l, "raw") # {}, NEW i, i = Least(Where(l, "raw")),
         ~ScanLine(Start, l).odd, NEW s, s = ScanLine(Start, Before(l, i))
  PROVE  /\ i \in 1..Len(l) /\ l[i] = "raw" /\ s \in Scanning /\ ~s.odd
         /\ InLineComment(Before(l, i)) => Over1(s)
         /\ ~InLineComment(Before(l, i)) => s.in = "code"
<1>1. /\ i \in 1..Len(l) /\ l[i] = "raw"
      /\ \A j \in 1..Len(Before(l, i)) : Before(l, i)[j] # "raw"
  BY FirstPiece
<1>2. PICK u : u = Before(l, i)
  OBVIOUS
<1>3. u \in Seq(Piece)
  BY <1>1, <1>2, Parts
<1>4. s \in Scanning /\ ~s.odd /\ ~Scan(s, "raw").odd
  BY <1>1, StartIs, ScanParts
<1>5. InLineComment(u) <=> Over1(s)
  BY <1>1, <1>2, <1>3, <1>4, LineCommentIs
<1>6. ASSUME ~Over1(s) PROVE s.in = "code"
  <2>1. s.in \in {"code", "block", "string"}
    BY <1>1, <1>2, <1>3, <1>4, <1>6, InString
  <2>2. ASSUME s.in = "block" PROVE FALSE
    <3>1. Is(Scan(s, "raw"), "block", s.code, TRUE)
      BY <1>4, <2>2, Pieces, ScanBlock
    <3> QED
      BY <1>4, <3>1 DEF Is
  <2>3. ASSUME s.in = "string" PROVE FALSE
    <3>1. Is(Scan(s, "raw"), "code", s.code, TRUE)
      BY <1>4, <2>3, Pieces, ScanString
    <3> QED
      BY <1>4, <3>1 DEF Is
  <2> QED
    BY <2>1, <2>2, <2>3
<1> QED
  BY <1>1, <1>2, <1>4, <1>5, <1>6
(* The pieces of a raw string, up to its end.                              *)
LEMMA InRaw ==
  ASSUME NEW t \in Scanning, t.in = "raw", NEW v \in Seq(Piece), \A j \in 1..Len(v) : v[j] # "endraw"
  PROVE  ScanLine(t, v) = t
<1>1. \A j \in 1..Len(v) : v[j] \in Piece
  OBVIOUS
<1>2. \A j \in 1..Len(v) : Scan(t, v[j]) = t
  BY <1>1, ScanRaw
<1> QED
  BY <1>2, ScanStays

(* Where a raw string ends on the line, a compiler is as if it had been an *)
(* empty string.                                                           *)
LEMMA RawEnds ==
  ASSUME NEW t \in Scanning, t.in = "raw", NEW tail \in Seq(Piece), NEW ends, ends = Where(tail, "endraw"),
         NEW m, m = Least(ends), NEW e \in Scanning, Is(e, "code", t.code, t.odd)
  PROVE  /\ ends = {} => ScanLine(t, tail) = t
         /\ ends # {} => /\ m \in 1..Len(tail) /\ After(tail, m) \in Seq(Piece)
                         /\ Len(After(tail, m)) = Len(tail) - m
                         /\ ScanLine(t, tail) = ScanLine(e, After(tail, m))
<1>1. CASE ends = {}
  <2>1. \A j \in 1..Len(tail) : tail[j] # "endraw"
    BY <1>1 DEF Where
  <2> QED
    BY <1>1, <2>1, InRaw
<1>2. CASE ends # {}
  <2>1. /\ m \in 1..Len(tail) /\ tail[m] = "endraw"
        /\ \A j \in 1..Len(Before(tail, m)) : Before(tail, m)[j] # "endraw"
    BY <1>2, FirstPiece
  <2>2. PICK v, c : v = Before(tail, m) /\ c = After(tail, m)
    OBVIOUS
  <2>3. v \in Seq(Piece) /\ c \in Seq(Piece) /\ Len(c) = Len(tail) - m
    BY <2>1, <2>2, Parts
  <2>4. ScanLine(t, v) = t
    BY <2>1, <2>2, <2>3, InRaw
  <2>5. ScanLine(t, tail) = ScanLine(Scan(t, "endraw"), c)
    BY <2>1, <2>2, <2>4, ScanParts
  <2>6. Is(Scan(t, "endraw"), "code", t.code, t.odd)
    BY Pieces, ScanRaw
  <2>7. Scan(t, "endraw") = e
    BY <2>6, SameState DEF Is
  <2> QED
    BY <1>2, <2>1, <2>2, <2>3, <2>5, <2>7
<1> QED
  BY <1>1, <1>2

(* One piece more.                                                         *)
LEMMA OneMore ==
  ASSUME NEW u \in Seq(Piece), NEW p \in Piece, NEW a \in Scanning
  PROVE  /\ Append(u, p) = u \o << p >> /\ Append(u, p) \in Seq(Piece) /\ Len(Append(u, p)) = Len(u) + 1
         /\ ScanLine(a, Append(u, p)) = Scan(ScanLine(a, u), p)
<1>1. PICK w, x : w = << p >> /\ x = u \o << p >>
  OBVIOUS
<1>2. w \in Seq(Piece) /\ Len(w) = 1 /\ w[1] = p
  BY <1>1, ShortLines
<1>3. /\ x \in Seq(Piece) /\ Len(x) = Len(u) + 1
      /\ \A i \in 1..(Len(u) + 1) : x[i] = IF i <= Len(u) THEN u[i] ELSE w[i - Len(u)]
  BY <1>1, <1>2, ConcatProperties
<1>4. Append(u, p) \in Seq(Piece) /\ Len(Append(u, p)) = Len(u) + 1
  OBVIOUS
<1>5. ASSUME NEW i \in 1..(Len(u) + 1) PROVE Append(u, p)[i] = x[i]
  <2>1. CASE i <= Len(u)
    <3>1. Append(u, p)[i] = u[i]
      BY <2>1
    <3> QED
      BY <1>3, <2>1, <3>1
  <2>2. CASE i = Len(u) + 1
    <3>1. Append(u, p)[i] = p /\ i - Len(u) = 1 /\ ~(i <= Len(u))
      BY <2>2
    <3> QED
      BY <1>2, <1>3, <3>1
  <2>3. i <= Len(u) \/ i = Len(u) + 1
    OBVIOUS
  <2> QED
    BY <2>1, <2>2, <2>3
<1>6. Append(u, p) = x
  BY <1>3, <1>4, <1>5, SeqEqual
<1>7. ScanLine(a, x) = ScanLine(ScanLine(a, u), w)
  BY <1>1, <1>2, ScanBoth
<1>8. ScanLine(a, u) \in Scanning
  BY LineKeeps
<1>9. ScanLine(ScanLine(a, u), w) = Scan(ScanLine(a, u), p)
  BY <1>1, <1>8, ScanShort
<1> QED
  BY <1>1, <1>4, <1>6, <1>7, <1>9

(* No raw string begins on the line any more, but after the mark of a line *)
(* comment.                                                                *)
Settled(l) == Where(l, "raw") # {} => Over1(ScanLine(Start, Before(l, Least(Where(l, "raw")))))

(* What is left of a line stands for what a compiler saw on it.            *)
Stands(r, a) ==
  /\ r \in [line : Seq(Piece), inside : BOOLEAN]
  /\ ~r.inside => ScanLine(Start, r.line) = a
  /\ r.inside => /\ a.in = "raw" /\ Where(r.line, "raw") = {}
                 /\ Is(ScanLine(Start, r.line), "code", a.code, a.odd)

(* One round of CleanseRawStrings.                                         *)
LEMMA RawRound ==
  ASSUME NEW a \in Scanning, ~a.odd, NEW r, Stands(r, a), NEW q, q = CleanseRawString(r)
  PROVE  /\ Stands(q, a)
         /\ Settled(r.line) => q = r
         /\ ~Settled(r.line) => Settled(q.line) \/ Len(q.line) < Len(r.line)
<1>1. CASE r.inside
  <2>1. q = r
    BY <1>1 DEF CleanseRawString
  <2>2. Settled(r.line)
    BY <1>1 DEF Stands, Settled
  <2> QED
    BY <2>1, <2>2
<1>2. CASE ~r.inside /\ Where(r.line, "raw") = {}
  <2>1. q = r
    BY <1>2 DEF CleanseRawString
  <2>2. Settled(r.line)
    BY <1>2 DEF Settled
  <2> QED
    BY <2>1, <2>2
<1>3. CASE ~r.inside /\ Where(r.line, "raw") # {}
  <2>1. PICK l : l = r.line
    OBVIOUS
  <2>2. l \in Seq(Piece) /\ ScanLine(Start, l) = a
    BY <1>3, <2>1 DEF Stands
  <2>3. PICK i, u, s : i = Least(Where(l, "raw")) /\ u = Before(l, i) /\ s = ScanLine(Start, u)
    OBVIOUS
  <2>4. /\ i \in 1..Len(l) /\ l[i] = "raw" /\ s \in Scanning /\ ~s.odd
        /\ InLineComment(u) => Over1(s)
        /\ ~InLineComment(u) => s.in = "code"
    BY <1>3, <2>1, <2>2, <2>3, RawStarts
  <2>5. Settled(l) <=> InLineComment(u)
    <3>1. s.in = "code" => ~Over1(s)
      BY DEF Over1
    <3> QED
      BY <1>3, <2>1, <2>3, <2>4, <3>1 DEF Settled
  <2>6. CASE InLineComment(u)
    <3>1. q = r
      BY <2>1, <2>3, <2>6 DEF CleanseRawString
    <3> QED
      BY <2>1, <2>5, <2>6, <3>1
  <2>7. CASE ~InLineComment(u)
    <3>1. PICK tail, ends, m : tail = After(l, i) /\ ends = Where(tail, "endraw") /\ m = Least(ends)
      OBVIOUS
    <3>2. u \in Seq(Piece) /\ tail \in Seq(Piece) /\ Len(u) = i - 1 /\ Len(tail) = Len(l) - i
      BY <2>2, <2>3, <2>4, <3>1, Parts
    <3>3. q = IF ends = {} THEN [line |-> Append(u, "empty"), inside |-> TRUE]
              ELSE [line |-> (u \o << "empty" >>) \o After(tail, m), inside |-> FALSE]
      BY <1>3, <2>1, <2>3, <2>7, <3>1 DEF CleanseRawString
    <3>4. PICK t, e, w : t = Scan(s, "raw") /\ e = Scan(s, "empty") /\ w = Append(u, "empty")
      OBVIOUS
    <3>5. Is(t, "raw", Append(s.code, "empty"), s.odd) /\ Is(e, "code", Append(s.code, "empty"), s.odd)
      BY <2>4, <2>7, <3>4, Pieces, ScanCode
    <3>6. /\ t \in Scanning /\ t.in = "raw" /\ e \in Scanning /\ Is(e, "code", t.code, t.odd)
      BY <3>5 DEF Is
    <3>7. a = ScanLine(t, tail)
      BY <2>2, <2>3, <2>4, <3>1, <3>4, StartIs, ScanParts
    <3>8. /\ w = u \o << "empty" >> /\ w \in Seq(Piece) /\ Len(w) = i
          /\ ScanLine(Start, w) = e
      <4>1. Len(w) = Len(u) + 1 /\ Len(u) + 1 = i
        BY <2>4, <3>2, <3>4, Pieces, StartIs, OneMore
      <4> QED
        BY <2>3, <3>2, <3>4, <4>1, Pieces, StartIs, OneMore
    <3>9. /\ ends = {} => ScanLine(t, tail) = t
          /\ ends # {} => /\ m \in 1..Len(tail) /\ After(tail, m) \in Seq(Piece)
                          /\ Len(After(tail, m)) = Len(tail) - m
                          /\ ScanLine(t, tail) = ScanLine(e, After(tail, m))
      BY <3>1, <3>2, <3>6, RawEnds
    <3>10. CASE ends = {}
      <4>1. q = [line |-> w, inside |-> TRUE]
        BY <3>3, <3>4, <3>10
      <4>2. a = t
        BY <3>7, <3>9, <3>10
      <4>3. Where(w, "raw") = {}
        <5>1. \A j \in 1..Len(u) : u[j] # "raw"
          BY <1>3, <2>1, <2>2, <2>3, FirstPiece
        <5>2. \A j \in 1..Len(w) : w[j] = IF j <= Len(u) THEN u[j] ELSE "empty"
          BY <3>2, <3>4, Pieces
        <5>3. \A j \in 1..Len(w) : w[j] # "raw"
          <6> TAKE j \in 1..Len(w)
          <6>1. CASE j <= Len(u)
            <7>1. j \in 1..Len(u)
              BY <3>2, <6>1
            <7> QED
              BY <5>1, <5>2, <6>1, <7>1
          <6>2. CASE ~(j <= Len(u))
            BY <5>2, <6>2
          <6> QED
            BY <6>1, <6>2
        <5> QED
          BY <5>3 DEF Where
      <4>4. Stands(q, a) /\ Settled(q.line)
        BY <3>6, <3>8, <4>1, <4>2, <4>3 DEF Stands, Settled
      <4> QED
        BY <2>1, <2>5, <2>7, <4>4
    <3>11. CASE ends # {}
      <4>1. PICK c : c = After(tail, m)
        OBVIOUS
      <4>2. q = [line |-> w \o c, inside |-> FALSE]
        BY <3>3, <3>8, <3>11, <4>1
      <4>3. c \in Seq(Piece) /\ Len(c) = Len(tail) - m /\ m \in 1..Len(tail) /\ a = ScanLine(e, c)
        BY <3>7, <3>9, <3>11, <4>1
      <4>4. w \o c \in Seq(Piece) /\ Len(w \o c) = Len(w) + Len(c)
        BY <3>8, <4>3, ConcatProperties
      <4>5. ScanLine(Start, w \o c) = a
        BY <3>8, <4>3, StartIs, ScanBoth
      <4>6. Len(w \o c) < Len(l)
        <5>1. Len(l) \in Nat /\ i \in Nat /\ m \in Nat /\ m > 0 /\ Len(w) = i /\ Len(c) = (Len(l) - i) - m
          BY <2>2, <2>4, <3>2, <3>8, <4>3
        <5> QED
          BY <4>4, <5>1
      <4>7. Stands(q, a)
        BY <4>2, <4>4, <4>5 DEF Stands
      <4> QED
        BY <2>1, <2>5, <2>7, <4>2, <4>6, <4>7
    <3> QED
      BY <3>10, <3>11
  <2> QED
    BY <2>6, <2>7
<1> QED
  BY <1>1, <1>2, <1>3
(* What a line begins in: code, or a raw string that began further up.     *)
Begin(inside) == [in |-> IF inside THEN "raw" ELSE "code",
                  code |-> IF inside THEN << "empty" >> ELSE << >>, odd |-> FALSE]

(* Where a raw string began further up, what comes first is its end.       *)
Resumed(line, inside) ==
  LET ends == Where(line, "endraw")
  IN IF ~inside THEN [line |-> line, inside |-> FALSE]
     ELSE IF ends = {} THEN [line |-> << "empty" >>, inside |-> TRUE]
     ELSE [line |-> << "empty" >> \o After(line, Least(ends)), inside |-> FALSE]

(* Both are states in which a line is not set aside.                       *)
LEMMA BeginIs ==
  ASSUME NEW inside \in BOOLEAN
  PROVE  Begin(inside) \in Scanning /\ ~Begin(inside).odd /\ Known(Begin(inside))
<1>1. << "empty" >> \in Seq(Piece) /\ << >> \in Seq(Piece)
  BY Pieces, ShortLines
<1> QED
  BY <1>1, Pieces DEF Begin, Scanning, Known

(* It stands for the line.                                                 *)
LEMMA ResumedStands ==
  ASSUME NEW line \in Seq(Piece), NEW inside \in BOOLEAN, NEW a, a = ScanLine(Begin(inside), line)
  PROVE  /\ Stands(Resumed(line, inside), a)
         /\ Settled(Resumed(line, inside).line) \/ Len(Resumed(line, inside).line) <= Len(line)
<1>1. CASE ~inside
  <2>1. Resumed(line, inside) = [line |-> line, inside |-> FALSE] /\ Begin(inside) = Start
    BY <1>1 DEF Resumed, Begin, Start
  <2> QED
    BY <2>1 DEF Stands
<1>2. CASE inside
  <2>1. PICK ends, m, t, w : /\ ends = Where(line, "endraw") /\ m = Least(ends)
                             /\ t = Begin(inside) /\ w = << "empty" >>
    OBVIOUS
  <2>2. w \in Seq(Piece) /\ Len(w) = 1 /\ w[1] = "empty" /\ Append(<< >>, "empty") = w
    BY <2>1, Pieces, ShortLines
  <2>3. t \in Scanning /\ t.in = "raw" /\ t.code = w /\ t.odd = FALSE
    BY <1>2, <2>1, BeginIs DEF Begin
  <2>4. PICK e : e = Scan(Start, "empty")
    OBVIOUS
  <2>5. Is(e, "code", Append(<< >>, "empty"), FALSE)
    BY <2>4, StartIs, Pieces, ScanCode
  <2>6. e \in Scanning /\ Is(e, "code", t.code, t.odd)
    BY <2>2, <2>3, <2>5 DEF Is
  <2>7. ScanLine(Start, w) = e
    BY <2>1, <2>4, StartIs, Pieces, ScanShort
  <2>8. /\ ends = {} => ScanLine(t, line) = t
        /\ ends # {} => /\ m \in 1..Len(line) /\ After(line, m) \in Seq(Piece)
                        /\ Len(After(line, m)) = Len(line) - m
                        /\ ScanLine(t, line) = ScanLine(e, After(line, m))
    <3>1. t \in Scanning /\ t.in = "raw"
      BY <2>3
    <3>2. e \in Scanning /\ Is(e, "code", t.code, t.odd)
      BY <2>6
    <3>3. ends = Where(line, "endraw") /\ m = Least(ends)
      BY <2>1
    <3> QED
      BY ONLY <3>1, <3>2, <3>3, line \in Seq(Piece), RawEnds
  <2>9. CASE ends = {}
    <3>1. Resumed(line, inside) = [line |-> w, inside |-> TRUE]
      BY <1>2, <2>1, <2>9 DEF Resumed
    <3>2. a = t
      BY <2>1, <2>8, <2>9
    <3>3. Where(w, "raw") = {}
      BY <2>2 DEF Where
    <3>4. Stands(Resumed(line, inside), a) /\ Settled(Resumed(line, inside).line)
      BY <2>2, <2>3, <2>6, <2>7, <3>1, <3>2, <3>3 DEF Stands, Settled
    <3> QED
      BY <3>4
  <2>10. CASE ends # {}
    <3>1. PICK c : c = After(line, m)
      OBVIOUS
    <3>2. c \in Seq(Piece) /\ Len(c) = Len(line) - m /\ m \in 1..Len(line) /\ a = ScanLine(e, c)
      BY <2>1, <2>8, <2>10, <3>1
    <3>3. Resumed(line, inside) = [line |-> w \o c, inside |-> FALSE]
      BY <1>2, <2>1, <2>10, <3>1 DEF Resumed
    <3>4. w \o c \in Seq(Piece) /\ Len(w \o c) = 1 + Len(c)
      BY <2>2, <3>2, ConcatProperties
    <3>5. ScanLine(Start, w \o c) = a
      BY <2>2, <2>7, <3>2, StartIs, ScanBoth
    <3>6. Len(w \o c) <= Len(line)
      <4>1. Len(line) \in Nat /\ m \in Nat /\ m >= 1
        BY <3>2
      <4> QED
        BY <3>2, <3>4, <4>1
    <3> QED
      BY <3>3, <3>4, <3>5, <3>6 DEF Stands
  <2> QED
    BY <2>9, <2>10
<1> QED
  BY <1>1, <1>2

(* What CleanseRawStrings knows at the end of a line.                      *)
Cleansing == [line : Seq(Piece), inside : BOOLEAN]

(* A round leaves a line and whether it ends in a raw string.              *)
LEMMA RawRoundType ==
  ASSUME NEW r \in Cleansing
  PROVE  CleanseRawString(r) \in Cleansing
<1>1. PICK l, i, q : l = r.line /\ i = Least(Where(l, "raw")) /\ q = CleanseRawString(r)
  OBVIOUS
<1>2. l \in Seq(Piece)
  BY <1>1 DEF Cleansing
<1>3. CASE r.inside \/ Where(l, "raw") = {} \/ InLineComment(Before(l, i))
  BY <1>1, <1>3 DEF CleanseRawString
<1>4. CASE ~(r.inside \/ Where(l, "raw") = {} \/ InLineComment(Before(l, i)))
  <2>1. i \in 1..Len(l)
    BY <1>1, <1>2, <1>4, FirstPiece
  <2>2. PICK u, tail, ends, m : /\ u = Before(l, i) /\ tail = After(l, i)
                                /\ ends = Where(tail, "endraw") /\ m = Least(ends)
    OBVIOUS
  <2>3. u \in Seq(Piece) /\ tail \in Seq(Piece)
    BY <1>2, <2>1, <2>2, Parts
  <2>4. CASE ends = {}
    <3>1. q = [line |-> Append(u, "empty"), inside |-> TRUE]
      BY <1>1, <1>4, <2>2, <2>4 DEF CleanseRawString
    <3>2. Append(u, "empty") \in Seq(Piece)
      BY <2>3, Pieces
    <3> QED
      BY <1>1, <3>1, <3>2 DEF Cleansing
  <2>5. CASE ends # {}
    <3>1. PICK v, w : v = After(tail, m) /\ w = << "empty" >>
      OBVIOUS
    <3>2. q = [line |-> (u \o w) \o v, inside |-> FALSE]
      BY <1>1, <1>4, <2>2, <2>5, <3>1 DEF CleanseRawString
    <3>3. m \in 1..Len(tail)
      BY <2>2, <2>3, <2>5, FirstPiece
    <3>4. v \in Seq(Piece) /\ w \in Seq(Piece)
      BY <2>3, <3>1, <3>3, Parts, Pieces, ShortLines
    <3>5. u \o w \in Seq(Piece)
      BY <2>3, <3>4, ConcatProperties
    <3>6. (u \o w) \o v \in Seq(Piece)
      BY <3>4, <3>5, ConcatProperties
    <3> QED
      BY <1>1, <3>2, <3>6 DEF Cleansing
  <2> QED
    BY <2>4, <2>5
<1> QED
  BY <1>3, <1>4

(* What CleanseRawStrings makes of a line.                                 *)
LEMMA RawLine ==
  ASSUME NEW line \in Seq(Piece), NEW inside \in BOOLEAN, NEW a, a = ScanLine(Begin(inside), line)
  PROVE  /\ CleanseRawLine(line, inside) \in Cleansing
         /\ ~a.odd => Stands(CleanseRawLine(line, inside), a) /\ Settled(CleanseRawLine(line, inside).line)
<1> DEFINE N == Len(line)
           base == Resumed(line, inside)
           S == {r \in Cleansing : a.odd \/ Stands(r, a)}
           step == [x \in S \X (1..N) |-> CleanseRawString(x[1])]
           Loop(f) == f = [k \in 0..N |-> IF k = 0 THEN base ELSE CleanseRawString(f[k - 1])]
           loop == CHOOSE f : Loop(f)
<1>1. N \in Nat
  OBVIOUS
<1>2. a \in Scanning
  BY BeginIs, LineKeeps
<1>3. base \in S
  BY ResumedStands DEF Stands, Cleansing
<1>4. ASSUME NEW r \in S
      PROVE  /\ CleanseRawString(r) \in S
             /\ ~a.odd /\ Settled(r.line) => CleanseRawString(r) = r
             /\ \/ a.odd \/ Settled(r.line)
                \/ Settled(CleanseRawString(r).line)
                \/ Len(CleanseRawString(r).line) < Len(r.line)
  <2>1. CleanseRawString(r) \in Cleansing
    BY RawRoundType
  <2>2. ASSUME ~a.odd
        PROVE  /\ Stands(CleanseRawString(r), a)
               /\ Settled(r.line) => CleanseRawString(r) = r
               /\ \/ Settled(r.line)
                  \/ Settled(CleanseRawString(r).line)
                  \/ Len(CleanseRawString(r).line) < Len(r.line)
    <3>1. Stands(r, a)
      BY <2>2
    <3> QED
      BY <1>2, <2>2, <3>1, RawRound
  <2> QED
    BY <2>1, <2>2
<1>5. step \in [S \X (1..N) -> S]
  <2> HIDE DEF S
  <2> QED
    BY <1>4
<1>6. \A r \in S, i \in 1..N : step[<<r, i>>] = CleanseRawString(r)
  <2> HIDE DEF S
  <2> QED
    BY <1>1
<1>7. CleanseRawLine(line, inside) = loop[N]
  BY DEF CleanseRawLine, Resumed
<1> HIDE DEF S, step, base
<1>8. PICK g : Looped(g, N, S, base, step)
  <2> HIDE DEF N
  <2> QED
    BY <1>1, <1>3, <1>5, Loops
<1>9. g \in [0..N -> S] /\ g[0] = base /\ \A i \in 1..N : g[i] = step[<<g[i - 1], i>>]
  BY <1>8 DEF Looped
<1>10. \A i \in 0..N : g[i] = IF i = 0 THEN base ELSE CleanseRawString(g[i - 1])
  <2> TAKE i \in 0..N
  <2>1. CASE i = 0
    BY <1>9, <2>1
  <2>2. CASE i # 0
    <3>1. i \in 1..N /\ i - 1 \in 0..N
      BY <1>1, <2>2
    <3>2. g[i - 1] \in S
      BY <1>9, <3>1
    <3> QED
      BY <1>6, <1>9, <2>2, <3>1, <3>2
  <2> QED
    BY <2>1, <2>2
<1>11. Loop(g)
  BY <1>9, <1>10
<1>12. Loop(loop)
  BY <1>11, Zenon
<1> HIDE DEF loop
<1>13. PICK f : f = loop
  OBVIOUS
<1>14. f = [k \in 0..N |-> IF k = 0 THEN base ELSE CleanseRawString(f[k - 1])]
  BY <1>12, <1>13, Zenon
<1>15. f[0] = base /\ \A i \in 1..N : f[i] = CleanseRawString(f[i - 1])
  BY <1>1, <1>14
<1> DEFINE P == {k \in 0..N : f[k] \in S /\ (a.odd \/ Settled(f[k].line) \/ Len(f[k].line) + k <= N)}
<1>16. 0 \in P
  <2>1. Settled(base.line) \/ Len(base.line) <= N
    BY ResumedStands DEF base
  <2>2. Len(base.line) \in Nat
    BY <1>3 DEF S, Cleansing
  <2> QED
    BY <1>1, <1>3, <1>15, <2>1, <2>2
<1>17. ASSUME NEW k \in 0..(N - 1), k \in P PROVE k + 1 \in P
  <2>1. k + 1 \in 1..N /\ k + 1 \in 0..N /\ (k + 1) - 1 = k /\ k \in Nat
    BY <1>1
  <2>2. PICK r, q : r = f[k] /\ q = f[k + 1]
    OBVIOUS
  <2>3. q = CleanseRawString(r) /\ r \in S /\ (a.odd \/ Settled(r.line) \/ Len(r.line) + k <= N)
    BY <1>15, <1>17, <2>1, <2>2
  <2>4. /\ q \in S
        /\ ~a.odd /\ Settled(r.line) => q = r
        /\ a.odd \/ Settled(r.line) \/ Settled(q.line) \/ Len(q.line) < Len(r.line)
    BY <1>4, <2>3
  <2>5. Len(r.line) \in Nat /\ Len(q.line) \in Nat
    BY <2>3, <2>4 DEF S, Cleansing
  <2>6. a.odd \/ Settled(q.line) \/ Len(q.line) + (k + 1) <= N
    <3>1. CASE a.odd \/ Settled(r.line)
      BY <2>4, <3>1
    <3>2. CASE ~a.odd /\ ~Settled(r.line) /\ ~Settled(q.line)
      <4>1. PICK x, y : x = Len(r.line) /\ y = Len(q.line)
        OBVIOUS
      <4>2. x + k <= N /\ y < x /\ x \in Nat /\ y \in Nat
        BY <2>3, <2>4, <2>5, <3>2, <4>1
      <4>3. y + (k + 1) <= N
        BY ONLY <4>2, <2>1, <1>1
      <4> QED
        BY <4>1, <4>3
    <3> QED
      BY <3>1, <3>2
  <2> QED
    BY <2>1, <2>2, <2>4, <2>6
<1>18. P \in SUBSET (0..N)
  OBVIOUS
<1> HIDE DEF P
<1>19. \A k \in 0..N : k \in P
  BY <1>1, <1>16, <1>17, <1>18, NaturalSteps
<1>20. f[N] \in S /\ (a.odd \/ Settled(f[N].line) \/ Len(f[N].line) + N <= N)
  BY <1>1, <1>19 DEF P
<1>21. f[N] \in Cleansing /\ (a.odd \/ Stands(f[N], a))
  BY <1>20 DEF S
<1>22. a.odd \/ Settled(f[N].line)
  <2>1. CASE Len(f[N].line) + N <= N
    <3>1. f[N].line \in Seq(Piece)
      BY <1>21 DEF Cleansing
    <3>2. Len(f[N].line) = 0
      BY <1>1, <2>1, <3>1
    <3>3. Where(f[N].line, "raw") = {}
      BY <3>2 DEF Where
    <3> QED
      BY <3>3 DEF Settled
  <2> QED
    BY <1>20, <2>1
<1> QED
  BY <1>7, <1>13, <1>21, <1>22
-----------------------------------------------------------------------------
(* Strings                                                                 *)

(* Raw strings are collapsed.                                              *)
NoRaw(v) == \A j \in 1..Len(v) : v[j] # "raw" /\ v[j] # "endraw"

(* A line of which neither part has the end of a raw string has none.      *)
LEMMA NoRawBoth ==
  ASSUME NEW u \in Seq(Piece), NoRaw(u), NEW v \in Seq(Piece), NoRaw(v)
  PROVE  NoRaw(u \o v)
<1>1. /\ u \o v \in Seq(Piece) /\ Len(u \o v) = Len(u) + Len(v)
      /\ \A j \in 1..(Len(u) + Len(v)) : (u \o v)[j] = IF j <= Len(u) THEN u[j] ELSE v[j - Len(u)]
  BY ConcatProperties
<1>2. ASSUME NEW j \in 1..Len(u \o v) PROVE (u \o v)[j] # "raw" /\ (u \o v)[j] # "endraw"
  <2>1. CASE j <= Len(u)
    <3>1. j \in 1..Len(u) /\ (u \o v)[j] = u[j]
      BY <1>1, <2>1
    <3> QED
      BY <3>1 DEF NoRaw
  <2>2. CASE ~(j <= Len(u))
    <3>1. j - Len(u) \in 1..Len(v) /\ (u \o v)[j] = v[j - Len(u)]
      BY <1>1, <2>2
    <3> QED
      BY <3>1 DEF NoRaw
  <2> QED
    BY <2>1, <2>2
<1> QED
  BY <1>2 DEF NoRaw

(* How a piece is spelled.                                                 *)
LEMMA SpellType ==
  ASSUME NEW p \in Piece
  PROVE  Spell(p) \in Seq(Piece) /\ NoRaw(Spell(p))
<1>1. CASE p = "raw"
  <2>1. Spell(p) = << "word", "quote", "paren" >>
    BY <1>1 DEF Spell
  <2>2. << "word", "quote", "paren" >> \in Seq(Piece)
    BY Pieces
  <2>3. NoRaw(<< "word", "quote", "paren" >>)
    BY DEF NoRaw
  <2> QED
    BY <2>1, <2>2, <2>3
<1>2. CASE p = "endraw"
  <2>1. Spell(p) = << "paren", "quote" >>
    BY <1>2 DEF Spell
  <2>2. << "paren", "quote" >> \in Seq(Piece)
    BY Pieces
  <2>3. NoRaw(<< "paren", "quote" >>)
    BY DEF NoRaw
  <2> QED
    BY <2>1, <2>2, <2>3
<1>3. CASE p # "raw" /\ p # "endraw"
  <2>1. Spell(p) = << p >>
    BY <1>3 DEF Spell
  <2>2. << p >> \in Seq(Piece)
    OBVIOUS
  <2>3. NoRaw(<< p >>)
    BY <1>3 DEF NoRaw
  <2> QED
    BY <2>1, <2>2, <2>3
<1> QED
  BY <1>1, <1>2, <1>3

(* A line of two pieces.                                                   *)
LEMMA AppendShort ==
  ASSUME NEW p \in Piece, NEW q \in Piece
  PROVE  Append(<< p >>, q) = << p, q >>
<1>1. PICK u, v : u = Append(<< p >>, q) /\ v = << p, q >>
  OBVIOUS
<1>2. u \in Seq(Piece) /\ Len(u) = 2 /\ u[1] = p /\ u[2] = q
  BY <1>1
<1>3. v \in Seq(Piece) /\ Len(v) = 2 /\ v[1] = p /\ v[2] = q
  BY <1>1
<1>4. \A i \in 1..2 : u[i] = v[i]
  BY <1>2, <1>3
<1>5. u = v
  BY <1>2, <1>3, <1>4, SeqEqual
<1> QED
  BY <1>1, <1>5

(* It means the same, where no raw string begins or ends.                  *)
LEMMA SpellMeans ==
  ASSUME NEW a \in Scanning, Known(a), a.in # "raw", NEW p \in Piece, p = "raw" => Over1(a),
         NEW b, b = Scan(a, p), ~b.odd
  PROVE  b \in Scanning /\ Known(b) /\ b.in # "raw" /\ ScanLine(a, Spell(p)) = b
<1>1. b \in Scanning /\ Known(b)
  BY ScanType, ScanKnown
<1>2. CASE Over1(a)
  <2>1. ScanLine(a, Spell(p)) = a
    BY <1>2, SpellType, LineKeeps
  <2>2. b = a
    BY <1>2, ScanOver
  <2> QED
    BY <1>1, <2>1, <2>2
<1>3. CASE p # "raw" /\ p # "endraw"
  <2>1. Spell(p) = << p >>
    BY <1>3 DEF Spell
  <2>2. ScanLine(a, << p >>) = b
    BY ScanShort
  <2>3. b.in # "raw"
    <3>1. CASE a.in = "code"
      <4>1. \E in \in {"block", "line", "string", "code"} : \E code, odd : Is(b, in, code, odd)
        BY <1>3, <3>1, ScanCode, Zenon
      <4> QED
        BY <4>1 DEF Is
    <3>2. CASE a.in = "string"
      <4>1. b = a \/ \E code, odd : Is(b, "code", code, odd)
        BY <3>2, ScanString, Zenon
      <4> QED
        BY <4>1 DEF Is
    <3>3. CASE a.in = "block"
      <4>1. b = a \/ \E in \in {"code", "block", "cut"} : \E code, odd : Is(b, in, code, odd)
        BY <3>3, ScanBlock, Zenon
      <4> QED
        BY <4>1 DEF Is
    <3>4. CASE Over1(a)
      BY <3>4, ScanOver
    <3> QED
      BY <3>1, <3>2, <3>3, <3>4 DEF Known, Over1
  <2> QED
    BY <1>1, <2>1, <2>2, <2>3
<1>4. CASE p = "endraw" /\ ~Over1(a)
  <2>1. Spell(p) = << "paren", "quote" >>
    BY <1>4 DEF Spell
  <2>2. PICK u, c : u = << "paren" >> /\ c = Scan(a, "paren")
    OBVIOUS
  <2>3. u \in Seq(Piece) /\ Append(u, "quote") = << "paren", "quote" >>
    <3>1. << "paren" >> \in Seq(Piece)
      BY Pieces
    <3>2. Append(<< "paren" >>, "quote") = << "paren", "quote" >>
      BY Pieces, AppendShort
    <3> QED
      BY <2>2, <3>1, <3>2
  <2>4. ScanLine(a, u) = c
    BY <2>2, Pieces, ScanShort
  <2>5. ScanLine(a, Spell(p)) = Scan(c, "quote")
    <3>1. "quote" \in Piece
      BY Pieces
    <3>2. ScanLine(a, Append(u, "quote")) = Scan(ScanLine(a, u), "quote")
      BY ONLY <2>3, <3>1, a \in Scanning, OneMore
    <3> QED
      BY <2>1, <2>3, <2>4, <3>2
  <2>6. CASE a.in = "code"
    <3>1. Is(c, "code", Append(a.code, "paren"), a.odd)
      BY <2>2, <2>6, Pieces, ScanCode
    <3>2. c \in Scanning /\ c.in = "code" /\ c.code = Append(a.code, "paren") /\ c.odd = a.odd
      BY <3>1 DEF Is
    <3>3. Is(Scan(c, "quote"), "string", Append(c.code, "empty"), c.odd)
      BY <3>2, Pieces, ScanCode
    <3>4. Is(b, "string", a.code \o << "paren", "empty" >>, a.odd)
      BY <1>4, <2>6, ScanCode
    <3>5. Append(Append(a.code, "paren"), "empty") = a.code \o << "paren", "empty" >>
      <4>1. a.code \in Seq(Piece)
        BY DEF Scanning
      <4> QED
        BY <4>1, Pieces
    <3>6. Scan(c, "quote") = b
      BY <3>2, <3>3, <3>4, <3>5, SameState DEF Is
    <3> QED
      BY <1>1, <2>5, <3>4, <3>6 DEF Is
  <2>7. CASE a.in = "string"
    <3>1. c = a
      BY <2>2, <2>7, Pieces, ScanString
    <3>2. Is(Scan(a, "quote"), "code", a.code, a.odd) /\ Is(b, "code", a.code, a.odd)
      BY <1>4, <2>7, Pieces, ScanString
    <3>3. Scan(a, "quote") = b
      BY <3>2, SameState DEF Is
    <3> QED
      BY <1>1, <2>5, <3>1, <3>2, <3>3 DEF Is
  <2>8. CASE a.in = "block"
    <3>1. Is(b, "block", a.code, TRUE)
      BY <1>4, <2>8, ScanBlock
    <3> QED
      BY <3>1 DEF Is
  <2> QED
    BY <1>4, <2>6, <2>7, <2>8 DEF Known, Over1
<1> QED
  BY <1>2, <1>3, <1>4

(* Past the first raw string of a settled line, all is over.               *)
LEMMA SettledIsOver ==
  ASSUME NEW l \in Seq(Piece), Settled(l), NEW f \in [0..Len(l) -> Scanning], Scans(f, Start, l),
         NEW j \in 1..Len(l), l[j] = "raw"
  PROVE  Over1(f[j - 1])
<1>1. Where(l, "raw") # {}
  BY DEF Where
<1>2. PICK i : i = Least(Where(l, "raw"))
  OBVIOUS
<1>3. i \in 1..Len(l) /\ i <= j
  BY <1>1, <1>2, FirstPiece
<1>4. Over1(f[i - 1])
  <2>1. Over1(ScanLine(Start, Before(l, i)))
    BY <1>1, <1>2 DEF Settled
  <2>2. f[i - 1] = ScanLine(Start, Before(l, i))
    BY <1>3, StartIs, ScanWay
  <2> QED
    BY <2>1, <2>2
<1>5. PICK N : N = Len(l)
  OBVIOUS
<1>6. N \in Nat /\ i \in 1..N /\ j \in 1..N
  BY <1>3, <1>5
<1> DEFINE P == {k \in 0..N : k >= i - 1 => Over1(f[k])}
<1>7. 0 \in P
  BY <1>4, <1>6
<1>8. ASSUME NEW k \in 0..(N - 1), k \in P PROVE k + 1 \in P
  <2>1. k + 1 \in 1..N /\ k + 1 \in 0..N /\ (k + 1) - 1 = k /\ k \in 0..N
    BY <1>6
  <2>2. CASE k >= i - 1
    <3>1. f[k + 1] = Scan(f[k], l[k + 1]) /\ f[k] \in Scanning /\ l[k + 1] \in Piece
      BY <1>5, <2>1 DEF Scans
    <3>2. Over1(f[k])
      BY <1>8, <2>2
    <3> QED
      BY <2>1, <3>1, <3>2, ScanOver
  <2>3. CASE ~(k >= i - 1)
    <3>1. k + 1 = i - 1 \/ ~(k + 1 >= i - 1)
      BY <1>6, <2>1, <2>3
    <3> QED
      BY <1>4, <2>1, <3>1
  <2> QED
    BY <2>2, <2>3
<1>9. P \in SUBSET (0..N)
  OBVIOUS
<1>10. \A k \in 0..N : k \in P
  <2> HIDE DEF P
  <2> QED
    BY <1>6, <1>7, <1>8, <1>9, NaturalSteps
<1>11. j - 1 \in 0..N /\ j - 1 >= i - 1
  BY <1>3, <1>6
<1> QED
  BY <1>10, <1>11
(* With the raw strings that are still there, in a line comment, spelled   *)
(* out, a line means the same.                                             *)
LEMMA SpelledIs ==
  ASSUME NEW l \in Seq(Piece), Settled(l), NEW a, a = ScanLine(Start, l), ~a.odd
  PROVE  /\ Spelled(l) \in Seq(Piece) /\ NoRaw(Spelled(l)) /\ ScanLine(Start, Spelled(l)) = a
         /\ a \in Scanning /\ Known(a) /\ a.in # "raw"
<1> DEFINE N == Len(l)
           S == Seq(Piece)
           step == [x \in S \X (1..N) |-> x[1] \o Spell(l[x[2]])]
           Loop(f) == f = [i \in 0..N |-> IF i = 0 THEN << >> ELSE f[i - 1] \o Spell(l[i])]
           loop == CHOOSE f : Loop(f)
<1>1. N \in Nat /\ << >> \in S /\ \A i \in 1..N : l[i] \in Piece
  OBVIOUS
<1>2. \A i \in 1..N : Spell(l[i]) \in S
  BY <1>1, SpellType
<1>3. \A u \in S, i \in 1..N : u \o Spell(l[i]) \in S
  BY <1>2, ConcatProperties
<1>4. step \in [S \X (1..N) -> S]
  BY <1>3
<1>5. \A u \in S, i \in 1..N : step[<<u, i>>] = u \o Spell(l[i])
  BY <1>1
<1>6. Spelled(l) = loop[N]
  BY DEF Spelled
<1> HIDE DEF S, step
<1>7. PICK g : Looped(g, N, S, << >>, step)
  <2> HIDE DEF N
  <2> QED
    BY <1>1, <1>4, Loops
<1>8. g \in [0..N -> S] /\ g[0] = << >> /\ \A i \in 1..N : g[i] = step[<<g[i - 1], i>>]
  BY <1>7 DEF Looped
<1>9. \A i \in 0..N : g[i] = IF i = 0 THEN << >> ELSE g[i - 1] \o Spell(l[i])
  <2> TAKE i \in 0..N
  <2>1. CASE i = 0
    BY <1>8, <2>1
  <2>2. CASE i # 0
    <3>1. i \in 1..N /\ i - 1 \in 0..N
      BY <1>1, <2>2
    <3>2. g[i - 1] \in S
      BY <1>8, <3>1
    <3> QED
      BY <1>5, <1>8, <2>2, <3>1, <3>2
  <2> QED
    BY <2>1, <2>2
<1>10. Loop(g)
  BY <1>8, <1>9
<1>11. Loop(loop)
  BY <1>10, Zenon
<1> HIDE DEF loop
<1>12. PICK up : up = loop
  OBVIOUS
<1>13. up = [i \in 0..N |-> IF i = 0 THEN << >> ELSE up[i - 1] \o Spell(l[i])]
  BY <1>11, <1>12, Zenon
<1>14. up[0] = << >> /\ \A i \in 1..N : up[i] = up[i - 1] \o Spell(l[i])
  BY <1>1, <1>13
<1>15. PICK f \in [0..N -> Scanning] : Scans(f, Start, l) /\ a = f[N]
  BY StartIs, ScanLoop
<1> DEFINE Good(k) == /\ up[k] \in Seq(Piece) /\ NoRaw(up[k])
                      /\ f[k].odd \/ (Known(f[k]) /\ f[k].in # "raw" /\ ScanLine(Start, up[k]) = f[k])
           P == {k \in 0..N : Good(k)}
<1>16. 0 \in P
  <2>1. NoRaw(<< >>) /\ << >> \in Seq(Piece)
    BY DEF NoRaw
  <2>2. ScanLine(Start, << >>) = Start
    BY StartIs, Pieces, ScanShort
  <2>3. f[0] = Start
    BY <1>15 DEF Scans
  <2>4. Known(Start) /\ Start.in # "raw"
    BY StartIs DEF Known
  <2> QED
    BY <1>1, <1>14, <2>1, <2>2, <2>3, <2>4
<1>17. ASSUME NEW k \in 0..(N - 1), k \in P PROVE k + 1 \in P
  <2>1. k + 1 \in 1..N /\ k + 1 \in 0..N /\ (k + 1) - 1 = k /\ k \in 0..N
    BY <1>1
  <2>2. PICK s, t, p, u, v : s = f[k] /\ t = f[k + 1] /\ p = l[k + 1] /\ u = up[k] /\ v = up[k + 1]
    OBVIOUS
  <2>3. s \in Scanning /\ t = Scan(s, p) /\ p \in Piece /\ v = u \o Spell(p)
    BY <1>1, <1>14, <1>15, <2>1, <2>2 DEF Scans
  <2>4. u \in Seq(Piece) /\ NoRaw(u) /\ (s.odd \/ (Known(s) /\ s.in # "raw" /\ ScanLine(Start, u) = s))
    BY <1>17, <2>2
  <2>5. Spell(p) \in Seq(Piece) /\ NoRaw(Spell(p))
    BY <2>3, SpellType
  <2>6. v \in Seq(Piece) /\ NoRaw(v)
    BY <2>3, <2>4, <2>5, NoRawBoth, ConcatProperties
  <2>7. p = "raw" => Over1(s)
    BY <1>15, <2>1, <2>2, SettledIsOver
  <2>8. ASSUME ~t.odd PROVE Known(t) /\ t.in # "raw" /\ ScanLine(Start, v) = t
    <3>1. ~s.odd
      BY <2>3, <2>8, OddStays
    <3>2. Known(s) /\ s.in # "raw" /\ ScanLine(Start, u) = s
      BY <2>4, <3>1
    <3>3. Known(t) /\ t.in # "raw" /\ ScanLine(s, Spell(p)) = t
      BY <2>3, <2>7, <2>8, <3>2, SpellMeans
    <3>4. ScanLine(Start, u \o Spell(p)) = ScanLine(ScanLine(Start, u), Spell(p))
      BY <2>4, <2>5, StartIs, ScanBoth
    <3> QED
      BY <2>3, <3>2, <3>3, <3>4
  <2> QED
    BY <2>1, <2>2, <2>6, <2>8
<1>18. P \in SUBSET (0..N)
  OBVIOUS
<1>19. \A k \in 0..N : k \in P
  <2> HIDE DEF P
  <2> QED
    BY <1>1, <1>16, <1>17, <1>18, NaturalSteps
<1>20. Good(N)
  BY <1>1, <1>19
<1>21. a \in Scanning
  BY StartIs, LineKeeps
<1> QED
  BY <1>6, <1>12, <1>15, <1>20, <1>21

(* A string, from one quotation mark to the next, is to a compiler what an *)
(* empty one is.                                                           *)
LEMMA StringIs ==
  ASSUME NEW rest \in Seq(Piece), NoRaw(rest), NEW c \in Scanning,
         NEW first \in 1..Len(rest), NEW second \in 1..Len(rest), first < second,
         rest[first] = "quote", rest[second] = "quote",
         \A j \in 1..Len(rest) : first < j /\ j < second => rest[j] # "quote",
         NEW b, b = ScanLine(c, Before(rest, first)), b.in = "code"
  PROVE  ScanLine(c, rest) = ScanLine(Scan(b, "empty"), After(rest, second))
<1>1. PICK N : N = Len(rest)
  OBVIOUS
<1>2. N \in Nat /\ first \in 1..N /\ second \in 1..N /\ first \in Nat /\ second \in Nat /\ first < second
  BY <1>1
<1>3. PICK f \in [0..N -> Scanning] : Scans(f, c, rest)
  BY <1>1, ScanLoop
<1>4. f[first - 1] = b /\ b \in Scanning
  <2>1. f[first - 1] = b
    BY <1>3, ScanWay
  <2>2. first - 1 \in 0..N
    BY <1>2
  <2> QED
    BY <1>3, <2>1, <2>2
<1>5. PICK s, e : s = Scan(b, "quote") /\ e = Scan(b, "empty")
  OBVIOUS
<1>6. Is(s, "string", Append(b.code, "empty"), b.odd) /\ Is(e, "code", Append(b.code, "empty"), b.odd)
  BY <1>4, <1>5, Pieces, ScanCode
<1>7. f[first] = s
  <2>1. f[first] = Scan(f[first - 1], rest[first])
    BY <1>3 DEF Scans
  <2> QED
    BY <1>4, <1>5, <2>1
<1> DEFINE P == {k \in 0..N : first <= k /\ k < second => f[k] = s}
<1>8. 0 \in P
  BY <1>2
<1>9. ASSUME NEW k \in 0..(N - 1), k \in P PROVE k + 1 \in P
  <2>1. k + 1 \in 1..N /\ k + 1 \in 0..N /\ (k + 1) - 1 = k /\ k \in 0..N /\ k \in Nat
    BY <1>2
  <2>2. CASE k + 1 = first
    BY <1>7, <2>1, <2>2
  <2>3. CASE first <= k /\ k + 1 < second
    <3>1. f[k] = s
      BY <1>2, <1>9, <2>1, <2>3
    <3>2. PICK p : p = rest[k + 1]
      OBVIOUS
    <3>3. k + 1 \in 1..Len(rest) /\ first < k + 1
      BY <1>1, <1>2, <2>1, <2>3
    <3>4. p \in Piece /\ p \notin {"quote", "endraw", "raw"}
      BY <2>3, <3>2, <3>3 DEF NoRaw
    <3>5. f[k + 1] = Scan(f[k], p)
      BY <1>3, <2>1, <3>2, <3>3 DEF Scans
    <3>6. Scan(s, p) = s
      BY <1>6, <3>4, ScanString DEF Is
    <3> QED
      BY <2>1, <3>1, <3>5, <3>6
  <2>4. CASE ~(k + 1 = first) /\ ~(first <= k /\ k + 1 < second)
    <3>1. ~(first <= k + 1 /\ k + 1 < second)
      BY <1>2, <2>1, <2>4
    <3> QED
      BY <2>1, <3>1
  <2> QED
    BY <2>2, <2>3, <2>4
<1>10. P \in SUBSET (0..N)
  OBVIOUS
<1>11. \A k \in 0..N : k \in P
  <2> HIDE DEF P
  <2> QED
    BY <1>2, <1>8, <1>9, <1>10, NaturalSteps
<1>12. second - 1 \in 0..N /\ first <= second - 1 /\ second - 1 < second
  BY <1>2
<1>13. f[second - 1] = s
  BY <1>11, <1>12
<1>14. f[second - 1] = ScanLine(c, Before(rest, second))
  BY <1>3, ScanWay
<1>15. ScanLine(c, rest) = ScanLine(Scan(ScanLine(c, Before(rest, second)), rest[second]), After(rest, second))
  BY ScanParts
<1>16. ScanLine(c, rest) = ScanLine(Scan(s, "quote"), After(rest, second))
  BY <1>13, <1>14, <1>15
<1>17. Is(Scan(s, "quote"), "code", s.code, s.odd)
  BY <1>6, Pieces, ScanString DEF Is
<1>18. Scan(s, "quote") = e
  BY <1>6, <1>17, SameState DEF Is
<1> QED
  BY <1>5, <1>16, <1>18
(* The piece p is nowhere on the line, or once at most.                    *)
Without(l, p) == \A j \in 1..Len(l) : l[j] # p
OneOf(l, p) == \A i, j \in Where(l, p) : i = j

(* Lines without a piece, and their parts.                                 *)
LEMMA WithoutBoth ==
  ASSUME NEW u \in Seq(Piece), NEW v \in Seq(Piece), NEW p
  PROVE  /\ Without(u, p) /\ Without(v, p) => Without(u \o v, p)
         /\ Without(u, p) <=> Where(u, p) = {}
<1>1. /\ u \o v \in Seq(Piece) /\ Len(u \o v) = Len(u) + Len(v)
      /\ \A j \in 1..(Len(u) + Len(v)) : (u \o v)[j] = IF j <= Len(u) THEN u[j] ELSE v[j - Len(u)]
  BY ConcatProperties
<1>2. ASSUME Without(u, p), Without(v, p), NEW j \in 1..Len(u \o v) PROVE (u \o v)[j] # p
  <2>1. CASE j <= Len(u)
    <3>1. j \in 1..Len(u) /\ (u \o v)[j] = u[j]
      BY <1>1, <2>1
    <3> QED
      BY <1>2, <3>1 DEF Without
  <2>2. CASE ~(j <= Len(u))
    <3>1. j - Len(u) \in 1..Len(v) /\ (u \o v)[j] = v[j - Len(u)]
      BY <1>1, <2>2
    <3> QED
      BY <1>2, <3>1 DEF Without
  <2> QED
    BY <2>1, <2>2
<1>3. Without(u, p) <=> Where(u, p) = {}
  BY DEF Without, Where
<1> QED
  BY <1>2, <1>3 DEF Without

(* What a line is without, its parts are without.                          *)
LEMMA WithoutParts ==
  ASSUME NEW l \in Seq(Piece), NEW i \in 1..Len(l), NEW p, Without(l, p)
  PROVE  Without(Before(l, i), p) /\ Without(After(l, i), p)
<1>1. /\ Len(Before(l, i)) = i - 1 /\ Len(After(l, i)) = Len(l) - i
      /\ \A j \in 1..(i - 1) : Before(l, i)[j] = l[j]
      /\ \A j \in 1..(Len(l) - i) : After(l, i)[j] = l[i + j]
  BY Parts
<1>2. \A j \in 1..(i - 1) : j \in 1..Len(l)
  OBVIOUS
<1>3. \A j \in 1..(Len(l) - i) : i + j \in 1..Len(l)
  OBVIOUS
<1>4. Without(Before(l, i), p)
  BY <1>1, <1>2 DEF Without
<1>5. Without(After(l, i), p)
  BY <1>1, <1>3 DEF Without
<1> QED
  BY <1>4, <1>5

(* Fewer than two.                                                         *)
LEMMA FewerThanTwo ==
  ASSUME NEW l \in Seq(Piece), NEW p
  PROVE  Cardinality(Where(l, p)) < 2 <=> OneOf(l, p)
<1>1. PICK S : S = Where(l, p)
  OBVIOUS
<1>2. IsFiniteSet(S)
  <2>1. IsFiniteSet(1..Len(l))
    BY FS_Interval
  <2>2. S \subseteq 1..Len(l)
    BY <1>1 DEF Where
  <2> QED
    BY <2>1, <2>2, FS_Subset
<1>3. Cardinality(S) \in Nat
  BY <1>2, FS_CardinalityType
<1>4. ASSUME \A i, j \in S : i = j PROVE Cardinality(S) < 2
  <2>1. CASE S = {}
    BY <2>1, FS_EmptySet
  <2>2. CASE S # {}
    <3>1. PICK x : x \in S
      BY <2>2
    <3>2. S = {x}
      BY <1>4, <3>1
    <3>3. Cardinality({x}) = 1
      BY FS_Singleton
    <3> QED
      BY <3>2, <3>3
  <2> QED
    BY <2>1, <2>2
<1>5. ASSUME Cardinality(S) < 2, NEW i \in S, NEW j \in S, i # j PROVE FALSE
  <2>1. PICK T : T = S \ {i}
    OBVIOUS
  <2>2. IsFiniteSet(T) /\ Cardinality(T) = Cardinality(S) - 1 /\ j \in T
    BY <1>2, <1>5, <2>1, FS_RemoveElement
  <2>3. IsFiniteSet(T \ {j}) /\ Cardinality(T \ {j}) = Cardinality(T) - 1
    BY <2>2, FS_RemoveElement
  <2>4. Cardinality(T \ {j}) \in Nat
    BY <2>3, FS_CardinalityType
  <2> QED
    BY <1>3, <1>5, <2>2, <2>3, <2>4
<1> QED
  BY <1>1, <1>4, <1>5 DEF OneOf

(* What is collapsed and what is left of a line stand for what a compiler  *)
(* saw on it.                                                              *)
Fits(r, a) ==
  /\ r \in [collapsed : Seq(Piece), rest : Seq(Piece)]
  /\ NoRaw(r.collapsed) /\ NoRaw(r.rest) /\ Without(r.collapsed, "quote")
  /\ ScanLine(Start, r.collapsed \o r.rest) = a

(* One round of _CollapseStrings.                                          *)
LEMMA CollapseRound ==
  ASSUME NEW a \in Scanning, ~a.odd, NEW r, Fits(r, a), NEW q, q = CollapseString(r)
  PROVE  /\ Fits(q, a)
         /\ OneOf(r.rest, "quote") => q = r
         /\ ~OneOf(r.rest, "quote") => Len(q.rest) < Len(r.rest)
<1>1. PICK col, rest, quotes : col = r.collapsed /\ rest = r.rest /\ quotes = Where(rest, "quote")
  OBVIOUS
<1>2. /\ col \in Seq(Piece) /\ rest \in Seq(Piece) /\ NoRaw(col) /\ NoRaw(rest) /\ Without(col, "quote")
      /\ ScanLine(Start, col \o rest) = a
  BY <1>1 DEF Fits
<1>3. Cardinality(quotes) < 2 <=> OneOf(rest, "quote")
  BY <1>1, <1>2, FewerThanTwo
<1>4. CASE OneOf(rest, "quote")
  <2>1. q = r
    BY <1>1, <1>3, <1>4 DEF CollapseString
  <2> QED
    BY <1>1, <1>4, <2>1
<1>5. CASE ~OneOf(rest, "quote")
  <2>1. PICK first, second : first = Least(quotes) /\ second = Least(quotes \ {first})
    OBVIOUS
  <2>2. quotes \in SUBSET Nat /\ quotes # {} /\ quotes \ {first} # {}
    BY <1>1, <1>5 DEF OneOf, Where
  <2>3. first \in quotes /\ \A j \in quotes : first <= j
    BY <2>1, <2>2, LeastOne DEF Least
  <2>4. quotes \ {first} \in SUBSET Nat
    BY <2>2
  <2>5. second \in quotes \ {first} /\ \A j \in quotes \ {first} : second <= j
    BY <2>1, <2>2, <2>4, LeastOne DEF Least
  <2>6. /\ first \in 1..Len(rest) /\ second \in 1..Len(rest)
        /\ rest[first] = "quote" /\ rest[second] = "quote"
    BY <1>1, <2>3, <2>5 DEF Where
  <2>7. first < second
    BY <2>3, <2>5, <2>6
  <2>8. \A j \in 1..Len(rest) : first < j /\ j < second => rest[j] # "quote"
    <3> SUFFICES ASSUME NEW j \in 1..Len(rest), first < j, j < second, rest[j] = "quote" PROVE FALSE
      OBVIOUS
    <3>1. j \in quotes /\ j # first
      BY <1>1, <2>6 DEF Where
    <3>2. second <= j
      BY <2>5, <3>1
    <3> QED
      BY <2>6, <3>2
  <2>9. PICK u, tail, x : u = Before(rest, first) /\ tail = After(rest, second) /\ x = col \o u
    OBVIOUS
  <2>10. q = [collapsed |-> x \o << "empty" >>, rest |-> tail]
    BY <1>1, <1>3, <1>5, <2>1, <2>9 DEF CollapseString
  <2>11. u \in Seq(Piece) /\ tail \in Seq(Piece) /\ Len(tail) = Len(rest) - second
    BY <1>2, <2>6, <2>9, Parts
  <2>12. x \in Seq(Piece)
    BY <1>2, <2>9, <2>11, ConcatProperties
  <2>13. NoRaw(u) /\ NoRaw(tail)
    <3>1. Without(rest, "raw") /\ Without(rest, "endraw")
      BY <1>2 DEF NoRaw, Without
    <3>2. Without(u, "raw") /\ Without(tail, "raw") /\ Without(u, "endraw") /\ Without(tail, "endraw")
      BY <1>2, <2>6, <2>9, <3>1, WithoutParts
    <3> QED
      BY <3>2 DEF NoRaw, Without
  <2>14. NoRaw(x)
    BY <1>2, <2>9, <2>11, <2>13, NoRawBoth
  <2>15. Without(x, "quote")
    <3>1. Without(u, "quote")
      BY <1>1, <1>2, <2>1, <2>2, <2>9, FirstPiece DEF Without
    <3> QED
      BY <1>2, <2>9, <2>11, <3>1, WithoutBoth
  <2>16. PICK y : y = x \o << "empty" >>
    OBVIOUS
  <2>17. y = Append(x, "empty") /\ y \in Seq(Piece) /\ NoRaw(y) /\ Without(y, "quote")
    <3>1. << "empty" >> \in Seq(Piece)
      BY Pieces
    <3>2. NoRaw(<< "empty" >>) /\ Without(<< "empty" >>, "quote")
      BY DEF NoRaw, Without
    <3>3. y \in Seq(Piece)
      BY <2>12, <2>16, <3>1, ConcatProperties
    <3>4. NoRaw(y)
      BY <2>12, <2>14, <2>16, <3>1, <3>2, NoRawBoth
    <3>5. Without(y, "quote")
      BY <2>12, <2>15, <2>16, <3>1, <3>2, WithoutBoth
    <3>6. "empty" \in Piece
      BY Pieces
    <3>7. Append(x, "empty") = x \o << "empty" >>
      BY ONLY <2>12, <3>6, StartIs, OneMore
    <3> QED
      BY <2>16, <3>3, <3>4, <3>5, <3>7
  <2>18. PICK c, b : c = ScanLine(Start, col) /\ b = ScanLine(c, u)
    OBVIOUS
  <2>19. /\ c \in Scanning /\ ScanLine(c, rest) = a /\ b = ScanLine(Start, x)
         /\ b \in Scanning
    <3>1. c \in Scanning
      BY <1>2, <2>18, StartIs, LineKeeps
    <3>2. ScanLine(c, rest) = a
      BY <1>2, <2>18, StartIs, ScanBoth
    <3>3. b = ScanLine(Start, x)
      BY <1>2, <2>9, <2>11, <2>18, StartIs, ScanBoth
    <3>4. b \in Scanning
      BY <2>11, <2>18, <3>1, LineKeeps
    <3> QED
      BY <3>1, <3>2, <3>3, <3>4
  <2>20. PICK s : s = Scan(b, "quote")
    OBVIOUS
  <2>21. /\ ~b.odd /\ ~s.odd /\ a = ScanLine(s, After(rest, first)) /\ After(rest, first) \in Seq(Piece)
    <3>1. /\ ScanLine(c, rest) = ScanLine(Scan(ScanLine(c, Before(rest, first)), rest[first]), After(rest, first))
          /\ ~ScanLine(c, rest).odd => /\ ~ScanLine(c, Before(rest, first)).odd
                                       /\ ~Scan(ScanLine(c, Before(rest, first)), rest[first]).odd
      BY <1>2, <2>6, <2>19, ScanParts
    <3>2. After(rest, first) \in Seq(Piece)
      BY <1>2, <2>6, Parts
    <3> QED
      BY <2>6, <2>9, <2>18, <2>19, <2>20, <3>1, <3>2
  <2>22. PICK e : e = Scan(b, "empty")
    OBVIOUS
  <2>23. a = ScanLine(e, tail)
    <3>1. CASE Over1(b)
      <4>1. s = b /\ e = b
        BY <2>19, <2>20, <2>22, <3>1, Pieces, ScanOver
      <4>2. ScanLine(b, After(rest, first)) = b /\ ScanLine(b, tail) = b
        BY <2>11, <2>19, <2>21, <3>1, LineKeeps
      <4> QED
        BY <2>21, <4>1, <4>2
    <3>2. CASE ~Over1(b)
      <4>1. Quotes(x) = {}
        BY <2>14, <2>15 DEF Quotes, NoRaw, Without
      <4>2. ~Odd(Cardinality(Quotes(x)))
        BY <4>1, FS_EmptySet, OddNext
      <4>3. b.in \in {"code", "block"}
        <5>1. \A i \in 1..Len(x) : x[i] # "raw"
          BY <2>14 DEF NoRaw
        <5> QED
          BY <2>12, <2>19, <2>21, <3>2, <4>2, <5>1, InString
      <4>4. ASSUME b.in = "block" PROVE FALSE
        <5>1. Is(s, "block", b.code, TRUE)
          BY <2>19, <2>20, <4>4, Pieces, ScanBlock
        <5> QED
          BY <2>21, <5>1 DEF Is
      <4>5. b.in = "code"
        BY <4>3, <4>4
      <4>6. ScanLine(c, rest) = ScanLine(Scan(b, "empty"), After(rest, second))
        BY <1>2, <2>6, <2>7, <2>8, <2>9, <2>18, <2>19, <4>5, StringIs
      <4> QED
        BY <2>9, <2>19, <2>22, <4>6
    <3> QED
      BY <3>1, <3>2
  <2>24. ScanLine(Start, y) = e
    <3>1. "empty" \in Piece
      BY Pieces
    <3>2. ScanLine(Start, Append(x, "empty")) = Scan(ScanLine(Start, x), "empty")
      BY ONLY <2>12, <3>1, StartIs, OneMore
    <3> QED
      BY <2>17, <2>19, <2>22, <3>2
  <2>25. ScanLine(Start, y \o tail) = a
    BY <2>11, <2>17, <2>23, <2>24, StartIs, ScanBoth
  <2>26. Fits(q, a)
    BY <2>10, <2>11, <2>13, <2>16, <2>17, <2>25 DEF Fits
  <2>27. Len(q.rest) < Len(rest)
    BY <1>2, <2>6, <2>10, <2>11
  <2> QED
    BY <1>1, <1>5, <2>26, <2>27
<1> QED
  BY <1>1, <1>4, <1>5
(* What _CollapseStrings makes of a line.                                  *)
LEMMA CollapsedIs ==
  ASSUME NEW l \in Seq(Piece), Settled(l), NEW a, a = ScanLine(Start, l), ~a.odd,
         NEW w, w = CollapseStrings(l)
  PROVE  /\ w \in Seq(Piece) /\ NoRaw(w) /\ OneOf(w, "quote") /\ ScanLine(Start, w) = a
         /\ a \in Scanning /\ Known(a) /\ a.in # "raw"
<1>1. PICK v : v = Spelled(l)
  OBVIOUS
<1>2. /\ v \in Seq(Piece) /\ NoRaw(v) /\ ScanLine(Start, v) = a
      /\ a \in Scanning /\ Known(a) /\ a.in # "raw"
  BY <1>1, SpelledIs
<1> DEFINE N == Len(v)
           base == [collapsed |-> << >>, rest |-> v]
           S == {r \in [collapsed : Seq(Piece), rest : Seq(Piece)] : Fits(r, a)}
           step == [x \in S \X (1..N) |-> CollapseString(x[1])]
           Loop(f) == f = [k \in 0..N |-> IF k = 0 THEN base ELSE CollapseString(f[k - 1])]
           loop == CHOOSE f : Loop(f)
<1>3. N \in Nat
  BY <1>2
<1>4. base \in S /\ Len(base.rest) = N
  <2>1. << >> \in Seq(Piece) /\ << >> \o v = v
    BY <1>2
  <2>2. NoRaw(<< >>) /\ Without(<< >>, "quote")
    BY DEF NoRaw, Without
  <2> QED
    BY <1>2, <2>1, <2>2 DEF Fits
<1>5. ASSUME NEW r \in S
      PROVE  /\ CollapseString(r) \in S
             /\ \/ OneOf(CollapseString(r).rest, "quote")
                \/ Len(CollapseString(r).rest) < Len(r.rest)
  <2>1. Fits(r, a)
    OBVIOUS
  <2>2. /\ Fits(CollapseString(r), a)
        /\ OneOf(r.rest, "quote") => CollapseString(r) = r
        /\ ~OneOf(r.rest, "quote") => Len(CollapseString(r).rest) < Len(r.rest)
    BY <1>2, <2>1, CollapseRound
  <2> QED
    BY <2>2 DEF Fits
<1>6. ASSUME NEW r \in S PROVE OneOf(r.rest, "quote") => CollapseString(r) = r
  BY <1>2, CollapseRound
<1>7. step \in [S \X (1..N) -> S]
  <2> HIDE DEF S
  <2> QED
    BY <1>5
<1>8. \A r \in S, i \in 1..N : step[<<r, i>>] = CollapseString(r)
  <2> HIDE DEF S
  <2> QED
    BY <1>3
<1>9. PICK z : z = loop[N]
  OBVIOUS
<1>10. w = z.collapsed \o z.rest
  BY <1>1, <1>9 DEF CollapseStrings
<1> HIDE DEF S, step, base
<1>11. PICK g : Looped(g, N, S, base, step)
  <2> HIDE DEF N
  <2> QED
    BY <1>3, <1>4, <1>7, Loops
<1>12. g \in [0..N -> S] /\ g[0] = base /\ \A i \in 1..N : g[i] = step[<<g[i - 1], i>>]
  BY <1>11 DEF Looped
<1>13. \A i \in 0..N : g[i] = IF i = 0 THEN base ELSE CollapseString(g[i - 1])
  <2> TAKE i \in 0..N
  <2>1. CASE i = 0
    BY <1>12, <2>1
  <2>2. CASE i # 0
    <3>1. i \in 1..N /\ i - 1 \in 0..N
      BY <1>3, <2>2
    <3>2. g[i - 1] \in S
      BY <1>12, <3>1
    <3> QED
      BY <1>8, <1>12, <2>2, <3>1, <3>2
  <2> QED
    BY <2>1, <2>2
<1>14. Loop(g)
  BY <1>12, <1>13
<1>15. Loop(loop)
  BY <1>14, Zenon
<1> HIDE DEF loop
<1>16. PICK f : f = loop
  OBVIOUS
<1>17. f = [k \in 0..N |-> IF k = 0 THEN base ELSE CollapseString(f[k - 1])]
  BY <1>15, <1>16, Zenon
<1>18. f[0] = base /\ \A i \in 1..N : f[i] = CollapseString(f[i - 1])
  BY <1>3, <1>17
<1> DEFINE P == {k \in 0..N : f[k] \in S /\ (OneOf(f[k].rest, "quote") \/ Len(f[k].rest) + k <= N)}
<1>19. 0 \in P
  BY <1>3, <1>4, <1>18
<1>20. ASSUME NEW k \in 0..(N - 1), k \in P PROVE k + 1 \in P
  <2>1. k + 1 \in 1..N /\ k + 1 \in 0..N /\ (k + 1) - 1 = k /\ k \in Nat
    BY <1>3
  <2>2. PICK r, q : r = f[k] /\ q = f[k + 1]
    OBVIOUS
  <2>3. q = CollapseString(r) /\ r \in S /\ (OneOf(r.rest, "quote") \/ Len(r.rest) + k <= N)
    BY <1>18, <1>20, <2>1, <2>2
  <2>4. /\ q \in S
        /\ OneOf(r.rest, "quote") => q = r
        /\ OneOf(q.rest, "quote") \/ Len(q.rest) < Len(r.rest)
    BY <1>5, <1>6, <2>3
  <2>5. Len(r.rest) \in Nat /\ Len(q.rest) \in Nat
    BY <2>3, <2>4 DEF S
  <2>6. OneOf(q.rest, "quote") \/ Len(q.rest) + (k + 1) <= N
    <3>1. CASE OneOf(r.rest, "quote")
      BY <2>4, <3>1
    <3>2. CASE ~OneOf(r.rest, "quote") /\ ~OneOf(q.rest, "quote")
      <4>1. PICK x, y : x = Len(r.rest) /\ y = Len(q.rest)
        OBVIOUS
      <4>2. x + k <= N /\ y < x /\ x \in Nat /\ y \in Nat
        BY <2>3, <2>4, <2>5, <3>2, <4>1
      <4>3. y + (k + 1) <= N
        BY ONLY <4>2, <2>1, <1>3
      <4> QED
        BY <4>1, <4>3
    <3> QED
      BY <3>1, <3>2
  <2> QED
    BY <2>1, <2>2, <2>4, <2>6
<1>21. P \in SUBSET (0..N)
  OBVIOUS
<1> HIDE DEF P
<1>22. \A k \in 0..N : k \in P
  BY <1>3, <1>19, <1>20, <1>21, NaturalSteps
<1>23. z \in S /\ (OneOf(z.rest, "quote") \/ Len(z.rest) + N <= N)
  BY <1>3, <1>9, <1>16, <1>22 DEF P
<1>24. PICK col, rest : col = z.collapsed /\ rest = z.rest
  OBVIOUS
<1>25. /\ col \in Seq(Piece) /\ rest \in Seq(Piece) /\ NoRaw(col) /\ NoRaw(rest) /\ Without(col, "quote")
       /\ ScanLine(Start, col \o rest) = a
  BY <1>23, <1>24 DEF S, Fits
<1>26. OneOf(rest, "quote")
  <2>1. CASE Len(rest) + N <= N
    <3>1. Len(rest) = 0
      BY <1>3, <1>25, <2>1
    <3> QED
      BY <3>1 DEF OneOf, Where
  <2> QED
    BY <1>23, <1>24, <2>1
<1>27. w \in Seq(Piece) /\ NoRaw(w)
  BY <1>10, <1>24, <1>25, NoRawBoth, ConcatProperties
<1>28. OneOf(w, "quote")
  <2>1. /\ Len(w) = Len(col) + Len(rest)
        /\ \A j \in 1..(Len(col) + Len(rest)) : w[j] = IF j <= Len(col) THEN col[j] ELSE rest[j - Len(col)]
    <3>1. w = col \o rest /\ col \in Seq(Piece) /\ rest \in Seq(Piece)
      BY <1>10, <1>24, <1>25
    <3> QED
      BY ONLY <3>1, ConcatProperties
  <2>2. ASSUME NEW j \in Where(w, "quote")
        PROVE  j \in Int /\ j - Len(col) \in Where(rest, "quote")
    <3>1. j \in 1..Len(w) /\ w[j] = "quote"
      BY DEF Where
    <3>2. ~(j <= Len(col))
      <4> SUFFICES ASSUME j <= Len(col) PROVE FALSE
        OBVIOUS
      <4>1. j \in 1..Len(col) /\ w[j] = col[j]
        BY <1>25, <2>1, <3>1
      <4> QED
        BY <1>25, <3>1, <4>1 DEF Without
    <3>3. j - Len(col) \in 1..Len(rest) /\ rest[j - Len(col)] = "quote"
      BY <1>25, <2>1, <3>1, <3>2
    <3> QED
      BY <3>1, <3>3 DEF Where
  <2>3. ASSUME NEW i \in Where(w, "quote"), NEW j \in Where(w, "quote") PROVE i = j
    <3>1. i - Len(col) = j - Len(col)
      BY <1>26, <2>2 DEF OneOf
    <3>2. Len(col) \in Int
      BY <1>25
    <3> QED
      BY <2>2, <3>1, <3>2
  <2> QED
    BY <2>3 DEF OneOf
<1> QED
  BY <1>2, <1>10, <1>24, <1>25, <1>27, <1>28
-----------------------------------------------------------------------------
(* The comments of a line                                                  *)

(* A line whose strings are collapsed and that is cut where a line comment *)
(* begins; s is what a compiler sees of it.                                *)
Tidy(l, s) ==
  /\ l \in Seq(Piece) /\ NoRaw(l) /\ OneOf(l, "quote")
  /\ s \in Scanning /\ ScanLine(Start, l) = s /\ ~s.odd /\ ~Over1(s)

(* A line that nothing is set aside on and that is not over.               *)
LEMMA Clear ==
  ASSUME NEW l, NEW s, Tidy(l, s), NEW i \in 1..Len(l), NEW u, u = Before(l, i),
         NEW b, b = ScanLine(Start, u), NEW c, c = Scan(b, l[i])
  PROVE  /\ u \in Seq(Piece) /\ NoRaw(u) /\ Tidy(u, b) /\ After(l, i) \in Seq(Piece)
         /\ l[i] \in Piece /\ b \in Scanning /\ b.in \in {"code", "block", "string"}
         /\ b.in = "string" <=> Odd(Cardinality(Quotes(u)))
         /\ c \in Scanning /\ ~c.odd /\ ~Over1(c) /\ s = ScanLine(c, After(l, i))
<1>1. l \in Seq(Piece) /\ NoRaw(l) /\ OneOf(l, "quote") /\ ScanLine(Start, l) = s /\ ~s.odd /\ ~Over1(s)
  BY DEF Tidy
<1>2. /\ u \in Seq(Piece) /\ After(l, i) \in Seq(Piece) /\ l[i] \in Piece
      /\ Len(u) = i - 1 /\ \A j \in 1..(i - 1) : u[j] = l[j]
  BY <1>1, Parts
<1>3. \A j \in 1..(i - 1) : j \in 1..Len(l)
  BY <1>1
<1>4. NoRaw(u)
  BY <1>1, <1>2, <1>3 DEF NoRaw
<1>5. OneOf(u, "quote")
  <2>1. Where(u, "quote") \subseteq Where(l, "quote")
    BY <1>2, <1>3 DEF Where
  <2> QED
    BY <1>1, <2>1 DEF OneOf
<1>6. b \in Scanning /\ c \in Scanning /\ ~b.odd /\ ~c.odd /\ s = ScanLine(c, After(l, i))
  BY <1>1, StartIs, ScanParts
<1>7. ~Over1(c)
  BY <1>1, <1>2, <1>6, LineKeeps
<1>8. ~Over1(b)
  BY <1>2, <1>6, <1>7, ScanOver
<1>9. b.in \in {"code", "block", "string"} /\ (b.in = "string" <=> Odd(Cardinality(Quotes(u))))
  <2>1. \A j \in 1..Len(u) : u[j] # "raw"
    BY <1>4 DEF NoRaw
  <2> QED
    BY <1>2, <1>6, <1>8, <2>1, InString
<1>10. Tidy(u, b)
  BY <1>2, <1>4, <1>5, <1>6, <1>8 DEF Tidy
<1> QED
  BY <1>2, <1>4, <1>6, <1>7, <1>9, <1>10

(* Where no block comment begins.                                          *)
LEMMA NoBlock ==
  ASSUME NEW l, NEW s, Tidy(l, s), Without(l, "open")
  PROVE  s.in \in {"code", "string"} /\ (s.in = "string" <=> Odd(Cardinality(Quotes(l))))
<1>1. l \in Seq(Piece) /\ NoRaw(l) /\ ScanLine(Start, l) = s /\ s \in Scanning /\ ~s.odd /\ ~Over1(s)
  BY DEF Tidy
<1>2. s.in \in {"code", "block", "string"} /\ (s.in = "string" <=> Odd(Cardinality(Quotes(l))))
  <2>1. \A j \in 1..Len(l) : l[j] # "raw"
    BY <1>1 DEF NoRaw
  <2> QED
    BY <1>1, <2>1, InString
<1> DEFINE Good == {b \in Scanning : Known(b) /\ b.in \notin {"block", "raw"}}
<1>3. Start \in Good /\ Good \subseteq Scanning
  BY StartIs DEF Known
<1>4. ASSUME NEW a \in Good, NEW i \in 1..Len(l) PROVE Scan(a, l[i]) \in Good
  <2>1. PICK p, b : p = l[i] /\ b = Scan(a, p)
    OBVIOUS
  <2>2. p \in Piece /\ p \notin {"raw", "endraw", "open"}
    BY <1>1, <2>1 DEF NoRaw, Without
  <2>3. a \in Scanning /\ Known(a) /\ a.in \notin {"block", "raw"}
    OBVIOUS
  <2>4. b \in Scanning /\ Known(b)
    BY <2>1, <2>2, <2>3, ScanType, ScanKnown
  <2>5. CASE a.in = "code"
    <3>1. \E in \in {"line", "string", "code"} : \E code, odd : Is(b, in, code, odd)
      BY <2>1, <2>2, <2>3, <2>5, ScanCode, Zenon
    <3>2. b.in \notin {"block", "raw"}
      BY <3>1 DEF Is
    <3> QED
      BY <2>1, <2>4, <3>2
  <2>6. CASE a.in = "string"
    <3>1. b = a \/ \E code, odd : Is(b, "code", code, odd)
      BY <2>1, <2>2, <2>3, <2>6, ScanString, Zenon
    <3>2. b.in \notin {"block", "raw"}
      BY <2>3, <3>1 DEF Is
    <3> QED
      BY <2>1, <2>4, <3>2
  <2>7. CASE Over1(a)
    <3>1. b = a
      BY <2>1, <2>2, <2>3, <2>7, ScanOver
    <3> QED
      BY <2>1, <3>1
  <2> QED
    BY <2>3, <2>5, <2>6, <2>7 DEF Known, Over1
<1>5. s \in Good
  <2> HIDE DEF Good
  <2> QED
    BY <1>1, <1>3, <1>4, StartIs, ScanKeeps
<1> QED
  BY <1>2, <1>5

(* The pieces from i to j leave the state s as it is.                      *)
PassesOn(f, N, i, j, s) ==
  /\ i \in 0..N /\ j \in 0..N /\ i <= j /\ f[i] = s
  /\ \A k \in 1..N : i < k /\ k <= j /\ f[k - 1] = s => f[k] = s

(* A state that each piece of a part of a line passes on.                  *)
LEMMA PassedOn ==
  ASSUME NEW N \in Nat, NEW f, NEW i, NEW j, NEW s, PassesOn(f, N, i, j, s)
  PROVE  f[j] = s
<1>0. /\ i \in 0..N /\ j \in 0..N /\ i <= j /\ f[i] = s
      /\ \A k \in 1..N : i < k /\ k <= j /\ f[k - 1] = s => f[k] = s
  BY DEF PassesOn
<1> DEFINE P == {k \in 0..N : i <= k /\ k <= j => f[k] = s}
<1>1. 0 \in P
  BY <1>0
<1>2. ASSUME NEW k \in 0..(N - 1), k \in P PROVE k + 1 \in P
  <2>1. k + 1 \in 1..N /\ k + 1 \in 0..N /\ (k + 1) - 1 = k /\ k \in 0..N /\ k \in Nat
    OBVIOUS
  <2>2. CASE k + 1 = i
    BY <1>0, <2>1, <2>2
  <2>3. CASE i <= k /\ k + 1 <= j
    <3>1. f[k] = s /\ i < k + 1
      BY <1>0, <1>2, <2>1, <2>3
    <3>2. f[(k + 1) - 1] = s
      BY <2>1, <3>1
    <3>3. f[k + 1] = s
      BY <1>0, <2>1, <2>3, <3>1, <3>2
    <3> QED
      BY <2>1, <3>3
  <2>4. CASE ~(k + 1 = i) /\ ~(i <= k /\ k + 1 <= j)
    <3>1. ~(i <= k + 1 /\ k + 1 <= j)
      BY <1>0, <2>1, <2>4
    <3> QED
      BY <2>1, <3>1
  <2> QED
    BY <2>2, <2>3, <2>4
<1>3. P \in SUBSET (0..N)
  OBVIOUS
<1>4. \A k \in 0..N : k \in P
  <2> HIDE DEF P
  <2> QED
    BY <1>1, <1>2, <1>3, NaturalSteps
<1> QED
  BY <1>0, <1>4
(* No comment begins and ends on the line.                                 *)
NoPairs(l) == \A i \in Where(l, "open"), j \in Where(l, "close") : ~(i < j)

(* A line without a part of it that leaves things as they were.            *)
LEMMA DropPart ==
  ASSUME NEW l, NEW s, Tidy(l, s), NEW begin \in 1..Len(l), NEW end \in 1..Len(l), begin < end,
         NEW b, b = ScanLine(Start, Before(l, begin)), b = Scan(ScanLine(Start, Before(l, end)), l[end]),
         NEW q, q = Before(l, begin) \o After(l, end)
  PROVE  Tidy(q, s) /\ Len(q) < Len(l)
<1>1. l \in Seq(Piece) /\ NoRaw(l) /\ OneOf(l, "quote") /\ s \in Scanning /\ ~s.odd /\ ~Over1(s)
  BY DEF Tidy
<1>2. PICK u, v, N : u = Before(l, begin) /\ v = After(l, end) /\ N = Len(l)
  OBVIOUS
<1>3. /\ u \in Seq(Piece) /\ Len(u) = begin - 1 /\ \A j \in 1..(begin - 1) : u[j] = l[j]
  BY <1>1, <1>2, Parts
<1>4. /\ v \in Seq(Piece) /\ Len(v) = N - end /\ \A j \in 1..(N - end) : v[j] = l[end + j]
  BY <1>1, <1>2, Parts
<1>5. N \in Nat /\ begin \in 1..N /\ end \in 1..N /\ begin \in Nat /\ end \in Nat /\ begin < end
  BY <1>1, <1>2
<1>6. q = u \o v /\ u \in Seq(Piece) /\ v \in Seq(Piece)
  BY <1>2, <1>3, <1>4
<1>7. /\ q \in Seq(Piece) /\ Len(q) = Len(u) + Len(v)
      /\ \A j \in 1..(Len(u) + Len(v)) : q[j] = IF j <= Len(u) THEN u[j] ELSE v[j - Len(u)]
  BY ONLY <1>6, ConcatProperties
<1> DEFINE m(j) == IF j < begin THEN j ELSE j + (end - begin) + 1
<1>8. ASSUME NEW j \in 1..Len(q) PROVE m(j) \in 1..N /\ q[j] = l[m(j)]
  <2>1. j \in 1..((begin - 1) + (N - end)) /\ j \in Nat
    BY <1>3, <1>4, <1>7
  <2>2. CASE j < begin
    <3>1. j <= Len(u) /\ j \in 1..(begin - 1) /\ m(j) = j /\ j \in 1..N
      BY <1>3, <1>5, <2>1, <2>2
    <3>2. q[j] = u[j]
      BY <1>7, <3>1
    <3> QED
      BY <1>3, <3>1, <3>2
  <2>3. CASE ~(j < begin)
    <3>1. ~(j <= Len(u)) /\ j - Len(u) \in 1..(N - end) /\ m(j) = end + (j - Len(u)) /\ m(j) \in 1..N
      BY <1>3, <1>5, <2>1, <2>3
    <3>2. q[j] = v[j - Len(u)]
      BY <1>7, <3>1
    <3> QED
      BY <1>4, <3>1, <3>2
  <2> QED
    BY <2>2, <2>3
<1>9. NoRaw(q)
  BY <1>1, <1>2, <1>8 DEF NoRaw
<1>10. OneOf(q, "quote")
  <2>1. ASSUME NEW i \in Where(q, "quote"), NEW j \in Where(q, "quote") PROVE i = j
    <3>1. i \in 1..Len(q) /\ j \in 1..Len(q) /\ q[i] = "quote" /\ q[j] = "quote"
      BY DEF Where
    <3>2. m(i) \in 1..N /\ l[m(i)] = "quote" /\ m(j) \in 1..N /\ l[m(j)] = "quote"
      BY <1>8, <3>1
    <3>3. m(i) = m(j)
      <4>1. m(i) \in Where(l, "quote") /\ m(j) \in Where(l, "quote")
        BY <1>2, <3>2 DEF Where
      <4> QED
        BY <1>1, <4>1 DEF OneOf
    <3>4. i \in Int /\ j \in Int
      BY <3>1
    <3> QED
      BY <1>5, <3>3, <3>4
  <2> QED
    BY <2>1 DEF OneOf
<1>11. ScanLine(Start, q) = s
  <2>1. ScanLine(Start, l) = s
    BY DEF Tidy
  <2>2. s = ScanLine(b, v)
    BY <1>1, <1>2, <2>1, StartIs, ScanParts
  <2>3. ScanLine(Start, q) = ScanLine(ScanLine(Start, u), v)
    BY ONLY <1>6, StartIs, ScanBoth
  <2> QED
    BY <1>2, <2>2, <2>3
<1>12. Len(q) < Len(l)
  <2>1. Len(q) = (begin - 1) + (N - end)
    BY <1>3, <1>4, <1>7
  <2> QED
    BY <1>2, <1>5, <2>1
<1> QED
  BY <1>1, <1>7, <1>9, <1>10, <1>11, <1>12 DEF Tidy

(* What a block comment that begins and ends on a line passes on.          *)
LEMMA CommentPasses ==
  ASSUME NEW l, NEW s, Tidy(l, s), NEW begin \in 1..Len(l), NEW end \in 1..Len(l), begin < end,
         l[begin] = "open", l[end] = "close",
         \A j \in 1..Len(l) : l[j] = "open" => begin <= j,
         \A j \in 1..Len(l) : begin < j /\ j < end => l[j] # "close",
         NEW b, b = ScanLine(Start, Before(l, begin))
  PROVE  b = Scan(ScanLine(Start, Before(l, end)), l[end])
<1>1. l \in Seq(Piece) /\ NoRaw(l) /\ OneOf(l, "quote")
  BY DEF Tidy
<1>2. PICK N : N = Len(l)
  OBVIOUS
<1>3. /\ N \in Nat /\ begin \in 1..N /\ end \in 1..N /\ begin \in Nat /\ end \in Nat
      /\ begin - 1 \in 0..N /\ end - 1 \in 0..N /\ begin \in 0..N /\ end \in 0..N
  BY <1>1, <1>2
<1>4. PICK f \in [0..N -> Scanning] : Scans(f, Start, l)
  BY <1>1, <1>2, StartIs, ScanLoop
<1>5. ASSUME NEW k \in 1..N
      PROVE  /\ f[k - 1] = ScanLine(Start, Before(l, k)) /\ f[k] = Scan(f[k - 1], l[k])
             /\ f[k - 1] \in Scanning /\ f[k] \in Scanning /\ ~f[k].odd /\ ~Over1(f[k]) /\ l[k] \in Piece
             /\ l[k] # "raw" /\ l[k] # "endraw"
  <2>1. f[k - 1] = ScanLine(Start, Before(l, k))
    BY <1>1, <1>2, <1>4, StartIs, ScanWay
  <2>2. f[k] = Scan(f[k - 1], l[k])
    BY <1>2, <1>4 DEF Scans
  <2>3. f[k] \in Scanning /\ ~f[k].odd /\ ~Over1(f[k]) /\ f[k - 1] \in Scanning /\ l[k] \in Piece
    BY <1>2, <2>1, <2>2, Clear
  <2> QED
    BY <1>1, <1>2, <2>1, <2>2, <2>3 DEF NoRaw
<1>6. PICK u : u = Before(l, begin)
  OBVIOUS
<1>7. /\ Tidy(u, b) /\ u \in Seq(Piece) /\ NoRaw(u)
  BY <1>6, Clear
<1>8. b.in \in {"code", "string"} /\ (b.in = "string" <=> Odd(Cardinality(Quotes(u))))
  <2>1. Len(u) = begin - 1 /\ \A j \in 1..(begin - 1) : u[j] = l[j]
    BY <1>1, <1>6, Parts
  <2>2. \A j \in 1..(begin - 1) : j \in 1..Len(l) /\ ~(begin <= j)
    BY <1>2, <1>3
  <2>3. Without(u, "open")
    BY <2>1, <2>2 DEF Without
  <2> QED
    BY <1>7, <2>3, NoBlock
<1>9. f[begin - 1] = b /\ b \in Scanning
  BY <1>3, <1>5
<1>10. CASE b.in = "code"
  <2>1. PICK c : c = f[begin]
    OBVIOUS
  <2>2. Is(c, "block", b.code, b.odd)
    BY <1>3, <1>5, <1>9, <1>10, <2>1, ScanCode
  <2>3. c \in Scanning /\ c.in = "block"
    BY <2>2 DEF Is
  <2>4. ASSUME NEW k \in 1..N, begin < k, k <= end - 1, f[k - 1] = c PROVE f[k] = c
    <3>1. PICK p, d : p = l[k] /\ d = f[k]
      OBVIOUS
    <3>2. p \in Piece /\ p \notin {"raw", "endraw"} /\ d = Scan(c, p) /\ ~d.odd /\ ~Over1(d)
      BY <1>5, <2>4, <3>1
    <3>3. p # "close"
      <4>1. k < end
        BY <1>3, <2>4
      <4> QED
        BY <1>2, <2>4, <3>1, <4>1
    <3>4. CASE p = "quote"
      <4>1. Is(d, "block", c.code, TRUE)
        BY <2>3, <3>2, <3>4, ScanBlock
      <4> QED
        BY <3>2, <4>1 DEF Is
    <3>5. CASE p = "line"
      <4>1. Is(d, "cut", c.code, c.odd)
        BY <2>3, <3>2, <3>5, ScanBlock
      <4> QED
        BY <3>2, <4>1 DEF Is, Over1
    <3>6. CASE p # "quote" /\ p # "line"
      BY <2>3, <3>1, <3>2, <3>3, <3>6, ScanBlock
    <3> QED
      BY <3>4, <3>5, <3>6
  <2>5. f[end - 1] = c
    <3>1. begin <= end - 1
      BY <1>3
    <3>2. \A k \in 1..N : begin < k /\ k <= end - 1 /\ f[k - 1] = c => f[k] = c
      BY <2>4
    <3> QED
      <4>1. PICK j : j = end - 1
        OBVIOUS
      <4>2. N \in Nat /\ begin \in 0..N /\ j \in 0..N /\ begin <= j /\ f[begin] = c
        BY <1>3, <2>1, <3>1, <4>1
      <4>3. \A k \in 1..N : begin < k /\ k <= j /\ f[k - 1] = c => f[k] = c
        BY <3>2, <4>1
      <4>4. PassesOn(f, N, begin, j, c)
        BY ONLY <4>2, <4>3 DEF PassesOn
      <4>5. f[j] = c
        BY <1>3, <4>4, PassedOn
      <4> QED
        BY <4>1, <4>5
  <2>6. f[end] = Scan(c, "close")
    BY <1>3, <1>5, <2>5
  <2>7. Is(f[end], "code", c.code, c.odd)
    BY <2>3, <2>6, Pieces, ScanBlock
  <2>8. f[end] = b
    BY <1>9, <1>10, <2>2, <2>7, SameState DEF Is
  <2> QED
    BY <1>3, <1>5, <2>8
<1>11. CASE b.in = "string"
  <2>1. Quotes(u) # {}
    BY <1>8, <1>11, FS_EmptySet, OddNext
  <2>2. PICK i : i \in Quotes(u)
    BY <2>1
  <2>3. i \in 1..Len(u) /\ u[i] = "quote"
    BY <1>7, <2>2 DEF Quotes, NoRaw
  <2>4. i \in 1..(begin - 1) /\ l[i] = "quote"
    BY <1>1, <1>6, <2>3, Parts
  <2>5. ASSUME NEW k \in 1..N, begin - 1 < k, k <= end, f[k - 1] = b PROVE f[k] = b
    <3>1. PICK p : p = l[k]
      OBVIOUS
    <3>2. p # "quote"
      <4> SUFFICES ASSUME p = "quote" PROVE FALSE
        OBVIOUS
      <4>1. k \in Where(l, "quote") /\ i \in Where(l, "quote")
        BY <1>2, <1>3, <2>4, <3>1 DEF Where
      <4>2. k = i
        BY <1>1, <4>1 DEF OneOf
      <4> QED
        BY <1>3, <2>4, <2>5, <4>2
    <3>3. p \in Piece /\ p \notin {"raw", "endraw"} /\ f[k] = Scan(b, p)
      BY <1>5, <2>5, <3>1
    <3> QED
      BY <1>9, <1>11, <3>2, <3>3, ScanString
  <2>6. f[end] = b
    <3>1. begin - 1 <= end
      BY <1>3
    <3>2. \A k \in 1..N : begin - 1 < k /\ k <= end /\ f[k - 1] = b => f[k] = b
      BY <2>5
    <3> QED
      <4>1. PICK j : j = begin - 1
        OBVIOUS
      <4>2. N \in Nat /\ j \in 0..N /\ end \in 0..N /\ j <= end /\ f[j] = b
        BY <1>3, <1>9, <3>1, <4>1
      <4>3. \A k \in 1..N : j < k /\ k <= end /\ f[k - 1] = b => f[k] = b
        BY <3>2, <4>1
      <4>4. PassesOn(f, N, j, end, b)
        BY ONLY <4>2, <4>3 DEF PassesOn
      <4> QED
        BY <1>3, <4>4, PassedOn
  <2> QED
    BY <1>3, <1>5, <2>6
<1> QED
  BY <1>8, <1>10, <1>11

(* One block comment less.                                                 *)
LEMMA DropRound ==
  ASSUME NEW l, NEW s, Tidy(l, s), NEW q, q = DropComment(l)
  PROVE  /\ Tidy(q, s)
         /\ NoPairs(l) => q = l
         /\ ~NoPairs(l) => Len(q) < Len(l)
<1>1. l \in Seq(Piece)
  BY DEF Tidy
<1>2. PICK pairs : pairs = {p \in Where(l, "open") \X Where(l, "close") : p[1] < p[2]}
  OBVIOUS
<1>3. pairs = {} <=> NoPairs(l)
  <2>1. ASSUME pairs # {} PROVE ~NoPairs(l)
    <3>1. PICK p \in pairs : TRUE
      BY <2>1
    <3>2. p[1] \in Where(l, "open") /\ p[2] \in Where(l, "close") /\ p[1] < p[2]
      BY <1>2, <3>1
    <3> QED
      BY <3>2 DEF NoPairs
  <2>2. ASSUME ~NoPairs(l) PROVE pairs # {}
    <3>1. PICK i \in Where(l, "open"), j \in Where(l, "close") : i < j
      BY <2>2 DEF NoPairs
    <3>2. <<i, j>> \in pairs
      BY <1>2, <3>1
    <3> QED
      BY <3>2
  <2> QED
    BY <2>1, <2>2
<1>4. CASE NoPairs(l)
  <2>1. q = l
    BY <1>2, <1>3, <1>4 DEF DropComment
  <2> QED
    BY <1>4, <2>1
<1>5. CASE ~NoPairs(l)
  <2>1. PICK B : B = {p[1] : p \in pairs}
    OBVIOUS
  <2>2. PICK begin : begin = Least(B)
    OBVIOUS
  <2>3. PICK E : E = {p[2] : p \in {r \in pairs : r[1] = begin}}
    OBVIOUS
  <2>4. PICK end : end = Least(E)
    OBVIOUS
  <2>5. q = Before(l, begin) \o After(l, end)
    BY <1>2, <1>3, <1>5, <2>1, <2>2, <2>3, <2>4 DEF DropComment
  <2>6. B \in SUBSET Nat /\ B # {}
    BY <1>2, <1>3, <1>5, <2>1 DEF Where
  <2>7. begin \in B /\ \A j \in B : begin <= j
    BY <2>2, <2>6, LeastOne DEF Least
  <2>8. E \in SUBSET Nat /\ E # {}
    BY <1>2, <2>1, <2>3, <2>7 DEF Where
  <2>9. end \in E /\ \A j \in E : end <= j
    BY <2>4, <2>8, LeastOne DEF Least
  <2>10. PICK p \in pairs : p[1] = begin /\ p[2] = end
    BY <2>3, <2>9
  <2>11. /\ begin \in 1..Len(l) /\ end \in 1..Len(l) /\ begin < end
         /\ l[begin] = "open" /\ l[end] = "close"
    BY <1>2, <2>10 DEF Where
  <2>12. ASSUME NEW j \in 1..Len(l), l[j] = "open" PROVE begin <= j
    <3> SUFFICES ASSUME ~(begin <= j) PROVE FALSE
      OBVIOUS
    <3>1. j < end
      BY <2>11
    <3>2. <<j, end>> \in pairs
      BY <1>2, <2>11, <2>12, <3>1 DEF Where
    <3>3. j \in B
      BY <2>1, <3>2
    <3> QED
      BY <2>7, <3>3
  <2>13. ASSUME NEW j \in 1..Len(l), begin < j, j < end PROVE l[j] # "close"
    <3> SUFFICES ASSUME l[j] = "close" PROVE FALSE
      OBVIOUS
    <3>1. <<begin, j>> \in pairs
      BY <1>2, <2>11, <2>13 DEF Where
    <3>2. j \in E
      BY <2>3, <3>1
    <3>3. end <= j
      BY <2>9, <3>2
    <3> QED
      BY <2>11, <2>13, <3>3
  <2>14. PICK b : b = ScanLine(Start, Before(l, begin))
    OBVIOUS
  <2>15. b = Scan(ScanLine(Start, Before(l, end)), l[end])
    BY <2>11, <2>12, <2>13, <2>14, CommentPasses
  <2>16. Tidy(q, s) /\ Len(q) < Len(l)
    BY <2>5, <2>11, <2>14, <2>15, DropPart
  <2> QED
    BY <1>5, <2>16
<1> QED
  BY <1>4, <1>5
(* Where CleanseComments cuts a line.                                      *)
LEMMA CutIs ==
  ASSUME NEW w \in Seq(Piece), NoRaw(w), OneOf(w, "quote"), NEW a \in Scanning, a = ScanLine(Start, w), ~a.odd,
         NEW cut, cut = IF Where(w, "line") # {} /\ ~IsCppString(Before(w, Least(Where(w, "line"))))
                          THEN Before(w, Least(Where(w, "line"))) ELSE w
  PROVE  /\ Len(cut) <= Len(w)
         /\ \E s : Tidy(cut, s) /\ s.code = a.code /\ (s.in = "code" => a.in \in {"code", "line"})
<1>1. \A j \in 1..Len(w) : w[j] # "raw"
  BY DEF NoRaw
<1>2. CASE ~Over1(a)
  <2>1. Tidy(w, a)
    BY <1>2 DEF Tidy
  <2>2. a.in = "code" => a.in \in {"code", "line"}
    OBVIOUS
  <2>3. cut = w \/ Over1(a)
    <3> SUFFICES ASSUME Where(w, "line") # {}, ~IsCppString(Before(w, Least(Where(w, "line")))) PROVE FALSE
      BY <1>2
    <3>1. PICK i, u, b : i = Least(Where(w, "line")) /\ u = Before(w, i) /\ b = ScanLine(Start, u)
      OBVIOUS
    <3>2. i \in 1..Len(w) /\ w[i] = "line"
      BY <3>1, FirstPiece
    <3>3. /\ NoRaw(u) /\ b \in Scanning /\ b.in \in {"code", "block", "string"} /\ ~Over1(Scan(b, "line"))
          /\ b.in = "string" <=> Odd(Cardinality(Quotes(u)))
      BY <2>1, <3>1, <3>2, Clear
    <3>4. b.in = "string"
      BY <3>3, Pieces, GoesOver
    <3>5. Quotes(u) = Where(u, "quote")
      BY <3>3 DEF Quotes, Where, NoRaw
    <3> QED
      BY <3>1, <3>3, <3>4, <3>5 DEF IsCppString, CountOf, Odd
  <2>4. cut = w
    BY <1>2, <2>3
  <2>5. Len(w) \in Nat
    OBVIOUS
  <2> QED
    BY <2>1, <2>2, <2>4, <2>5
<1>3. CASE Over1(a)
  <2>1. Where(w, "line") # {}
    <3>1. InLineComment(w)
      BY <1>1, <1>3, LineCommentIs
    <3> QED
      BY <3>1 DEF InLineComment
  <2>2. PICK i, u, b : i = Least(Where(w, "line")) /\ u = Before(w, i) /\ b = ScanLine(Start, u)
    OBVIOUS
  <2>3. i \in 1..Len(w) /\ w[i] = "line" /\ \A j \in 1..Len(u) : u[j] # "line"
    BY <2>1, <2>2, FirstPiece
  <2>4. /\ u \in Seq(Piece) /\ Len(u) = i - 1 /\ (\A j \in 1..(i - 1) : u[j] = w[j])
        /\ After(w, i) \in Seq(Piece) /\ Len(After(w, i)) = Len(w) - i
        /\ \A j \in 1..(Len(w) - i) : After(w, i)[j] = w[i + j]
    BY <2>2, <2>3, Parts
  <2>5. \A j \in 1..(i - 1) : j \in 1..Len(w)
    BY <2>3
  <2>6. NoRaw(u)
    BY <2>4, <2>5 DEF NoRaw
  <2>7. OneOf(u, "quote")
    <3>1. Where(u, "quote") \subseteq Where(w, "quote")
      BY <2>4, <2>5 DEF Where
    <3> QED
      BY <3>1 DEF OneOf
  <2>8. PICK c : c = Scan(b, "line")
    OBVIOUS
  <2>9. b \in Scanning /\ c \in Scanning /\ ~b.odd /\ a = ScanLine(c, After(w, i))
    BY <2>2, <2>3, <2>8, StartIs, ScanParts
  <2>10. ~Over1(b)
    <3>1. Where(u, "line") = {}
      BY <2>3 DEF Where
    <3>2. ~InLineComment(u)
      BY <3>1 DEF InLineComment
    <3>3. \A j \in 1..Len(u) : u[j] # "raw"
      BY <2>6 DEF NoRaw
    <3> QED
      BY <2>2, <2>4, <2>9, <3>2, <3>3, LineCommentIs
  <2>11. Tidy(u, b)
    BY <2>2, <2>4, <2>6, <2>7, <2>9, <2>10 DEF Tidy
  <2>12. b.in \in {"code", "block", "string"} /\ (b.in = "string" <=> Odd(Cardinality(Quotes(u))))
    <3>1. \A j \in 1..Len(u) : u[j] # "raw"
      BY <2>6 DEF NoRaw
    <3> QED
      BY <2>2, <2>4, <2>9, <2>10, <3>1, InString
  <2>13. b.in # "string"
    <3> SUFFICES ASSUME b.in = "string" PROVE FALSE
      OBVIOUS
    <3>1. Quotes(u) # {}
      BY <2>12, FS_EmptySet, OddNext
    <3>2. PICK k : k \in 1..Len(u) /\ u[k] = "quote"
      BY <2>6, <3>1 DEF Quotes, NoRaw
    <3>3. k \in 1..(i - 1) /\ k \in Where(w, "quote")
      BY <2>4, <2>5, <3>2 DEF Where
    <3>4. c = b
      BY <2>8, <2>9, Pieces, ScanString
    <3>5. ASSUME NEW j \in 1..Len(After(w, i)) PROVE Scan(b, After(w, i)[j]) = b
      <4>1. j \in 1..(Len(w) - i) /\ i + j \in 1..Len(w) /\ i + j # k
        BY <2>3, <2>4, <3>3
      <4>2. PICK p : p = After(w, i)[j]
        OBVIOUS
      <4>3. p = w[i + j] /\ p \in Piece
        BY <2>4, <4>1, <4>2
      <4>4. p # "quote"
        <5> SUFFICES ASSUME p = "quote" PROVE FALSE
          OBVIOUS
        <5>1. i + j \in Where(w, "quote")
          BY <4>1, <4>3 DEF Where
        <5> QED
          BY <3>3, <4>1, <5>1 DEF OneOf
      <4>5. p # "raw" /\ p # "endraw"
        BY <4>1, <4>3 DEF NoRaw
      <4> QED
        BY <2>9, <4>2, <4>3, <4>4, <4>5, ScanString
    <3>6. ScanLine(b, After(w, i)) = b
      BY <2>4, <2>9, <3>5, ScanStays
    <3> QED
      BY <1>3, <2>9, <2>10, <3>4, <3>6
  <2>14. ~IsCppString(u)
    <3>1. Quotes(u) = Where(u, "quote")
      BY <2>6 DEF Quotes, Where, NoRaw
    <3> QED
      BY <2>12, <2>13, <3>1 DEF IsCppString, CountOf, Odd
  <2>15. cut = u
    BY <2>1, <2>2, <2>14
  <2>16. c.code = b.code /\ (b.in = "code" => c.in = "line") /\ Over1(c)
    <3>1. CASE b.in = "code"
      <4>1. Is(c, "line", b.code, b.odd)
        BY <2>8, <2>9, <3>1, Pieces, ScanCode
      <4> QED
        BY <4>1 DEF Is, Over1
    <3>2. CASE b.in = "block"
      <4>1. Is(c, "cut", b.code, b.odd)
        BY <2>8, <2>9, <3>2, Pieces, ScanBlock
      <4> QED
        BY <3>2, <4>1 DEF Is, Over1
    <3> QED
      BY <2>12, <2>13, <3>1, <3>2
  <2>17. a = c
    BY <2>4, <2>9, <2>16, LineKeeps
  <2>18. Len(u) <= Len(w)
    BY <2>3, <2>4
  <2>19. b.code = a.code /\ (b.in = "code" => a.in \in {"code", "line"})
    BY <2>16, <2>17
  <2> QED
    BY <2>11, <2>15, <2>18, <2>19
<1> QED
  BY <1>2, <1>3

(* Where every piece is code.                                              *)
LEMMA PlainIs ==
  ASSUME NEW l \in Seq(Piece), \A i \in 1..Len(l) : l[i] \notin {"open", "line", "quote", "endraw", "raw", "close"},
         NEW s, s = ScanLine(Start, l)
  PROVE  s.in = "code" /\ s.code = l
<1>1. PICK N : N = Len(l)
  OBVIOUS
<1>2. N \in Nat
  BY <1>1
<1>3. PICK f \in [0..N -> Scanning] : Scans(f, Start, l) /\ s = f[N]
  BY <1>1, StartIs, ScanLoop
<1> DEFINE P == {k \in 0..N : f[k].in = "code" /\ Len(f[k].code) = k /\ \A j \in 1..k : f[k].code[j] = l[j]}
<1>4. 0 \in P
  <2>1. f[0] = Start
    BY <1>3 DEF Scans
  <2> QED
    BY <1>2, <2>1, StartIs
<1>5. ASSUME NEW k \in 0..(N - 1), k \in P PROVE k + 1 \in P
  <2>1. k + 1 \in 1..N /\ k + 1 \in 0..N /\ (k + 1) - 1 = k /\ k \in 0..N /\ k \in Nat
    BY <1>2
  <2>2. PICK b, c, p : b = f[k] /\ c = f[k + 1] /\ p = l[k + 1]
    OBVIOUS
  <2>3. b \in Scanning /\ p \in Piece /\ c = Scan(b, p) /\ p \notin {"open", "line", "quote", "endraw", "raw", "close"}
    BY <1>1, <1>3, <2>1, <2>2 DEF Scans
  <2>4. b.in = "code" /\ Len(b.code) = k /\ \A j \in 1..k : b.code[j] = l[j]
    BY <1>5, <2>2
  <2>5. Is(c, "code", Append(b.code, p), b.odd)
    BY <2>3, <2>4, ScanCode
  <2>6. c.in = "code" /\ c.code = Append(b.code, p) /\ b.code \in Seq(Piece)
    BY <2>3, <2>5 DEF Is, Scanning
  <2>7. /\ Len(c.code) = k + 1
        /\ \A j \in 1..(k + 1) : c.code[j] = IF j <= k THEN b.code[j] ELSE p
    BY <2>3, <2>4, <2>6
  <2>8. ASSUME NEW j \in 1..(k + 1) PROVE c.code[j] = l[j]
    <3>1. CASE j <= k
      <4>1. j \in 1..k
        BY <2>1, <3>1
      <4> QED
        BY <2>4, <2>7, <3>1, <4>1
    <3>2. CASE ~(j <= k)
      <4>1. j = k + 1
        BY <2>1, <3>2
      <4> QED
        BY <2>2, <2>7, <3>2, <4>1
    <3> QED
      BY <3>1, <3>2
  <2> QED
    BY <2>1, <2>2, <2>6, <2>7, <2>8
<1>6. P \in SUBSET (0..N)
  OBVIOUS
<1>7. \A k \in 0..N : k \in P
  <2> HIDE DEF P
  <2> QED
    BY <1>2, <1>4, <1>5, <1>6, NaturalSteps
<1>8. s.in = "code" /\ Len(s.code) = N /\ \A j \in 1..N : s.code[j] = l[j]
  BY <1>2, <1>3, <1>7
<1>9. s.code \in Seq(Piece)
  <2>1. N \in 0..N
    BY <1>2
  <2> QED
    BY <1>3, <2>1 DEF Scanning
<1>10. s.code = l
  BY <1>1, <1>8, <1>9, SeqEqual
<1> QED
  BY <1>8, <1>10

(* Where no comment is left that ends, nothing but code is left, or there  *)
(* is a complaint.                                                         *)
LEMMA CodeOrComplaint ==
  ASSUME NEW l, NEW s, Tidy(l, s), NoPairs(l), ~ComplainsAbout(l)
  PROVE  s.in = "code" /\ l = s.code
<1>1. l \in Seq(Piece) /\ NoRaw(l) /\ OneOf(l, "quote") /\ ScanLine(Start, l) = s
  BY DEF Tidy
<1>2. /\ IsFiniteSet(1..Len(l))
      /\ \A p : Where(l, p) \subseteq 1..Len(l)
  BY FS_Interval DEF Where
<1>3. \A p : IsFiniteSet(Where(l, p))
  BY <1>2, FS_Subset
<1>4. Where(l, "quote") = {}
  <2>1. Cardinality(Where(l, "quote")) < 2 /\ Cardinality(Where(l, "quote")) \in Nat
    BY <1>1, <1>3, FewerThanTwo, FS_CardinalityType
  <2>2. ~(Cardinality(Where(l, "quote")) % 2 = 1)
    BY DEF ComplainsAbout, CountOf
  <2>3. Cardinality(Where(l, "quote")) = 0
    BY <2>1, <2>2
  <2> QED
    BY <1>3, <2>3, FS_EmptySet
<1>5. Without(l, "quote")
  BY <1>4 DEF Where, Without
<1>6. ASSUME NEW u, NEW b, Tidy(u, b), Without(u, "quote"), Without(u, "open") PROVE b.in = "code"
  <2>1. Quotes(u) = {}
    BY <1>6 DEF Tidy, NoRaw, Quotes, Without
  <2>2. ~Odd(Cardinality(Quotes(u)))
    BY <2>1, FS_EmptySet, OddNext
  <2> QED
    BY <1>6, <2>2, NoBlock
<1>7. Where(l, "close") = {}
  <2> SUFFICES ASSUME NEW j \in Where(l, "close") PROVE FALSE
    OBVIOUS
  <2>1. j \in 1..Len(l) /\ l[j] = "close"
    BY DEF Where
  <2>2. PICK u, b, c : u = Before(l, j) /\ b = ScanLine(Start, u) /\ c = Scan(b, "close")
    OBVIOUS
  <2>3. Tidy(u, b) /\ b \in Scanning /\ ~c.odd
    BY <2>1, <2>2, Clear
  <2>4. Without(u, "quote")
    BY <1>1, <1>5, <2>1, <2>2, WithoutParts
  <2>5. Without(u, "open")
    <3>1. Len(u) = j - 1 /\ \A i \in 1..(j - 1) : u[i] = l[i]
      BY <1>1, <2>1, <2>2, Parts
    <3>2. ASSUME NEW i \in 1..(j - 1), l[i] = "open" PROVE FALSE
      <4>1. i \in Where(l, "open") /\ i < j
        BY <2>1, <3>2 DEF Where
      <4> QED
        BY <4>1 DEF NoPairs
    <3> QED
      BY <3>1, <3>2 DEF Without
  <2>6. b.in = "code"
    BY <1>6, <2>3, <2>4, <2>5
  <2>7. Is(c, "code", b.code, TRUE)
    BY <2>2, <2>3, <2>6, Pieces, ScanCode
  <2> QED
    BY <2>3, <2>7 DEF Is
<1>8. Where(l, "open") = {}
  <2>1. Cardinality(Where(l, "open")) \in Nat /\ Cardinality(Where(l, "close")) = 0
    BY <1>3, <1>7, FS_CardinalityType, FS_EmptySet
  <2>2. ~(Cardinality(Where(l, "open")) > Cardinality(Where(l, "close")))
    BY DEF ComplainsAbout, CountOf
  <2>3. Cardinality(Where(l, "open")) = 0
    BY <2>1, <2>2
  <2> QED
    BY <1>3, <2>3, FS_EmptySet
<1>9. Without(l, "open") /\ Without(l, "close")
  BY <1>7, <1>8 DEF Where, Without
<1>10. Without(l, "line")
  <2> SUFFICES ASSUME NEW j \in 1..Len(l), l[j] = "line" PROVE FALSE
    BY DEF Without
  <2>1. PICK u, b, c : u = Before(l, j) /\ b = ScanLine(Start, u) /\ c = Scan(b, "line")
    OBVIOUS
  <2>2. Tidy(u, b) /\ b \in Scanning /\ ~Over1(c)
    BY <2>1, Clear
  <2>3. Without(u, "quote") /\ Without(u, "open")
    BY <1>1, <1>5, <1>9, <2>1, WithoutParts
  <2>4. b.in = "code"
    BY <1>6, <2>2, <2>3
  <2>5. Is(c, "line", b.code, b.odd)
    BY <2>1, <2>2, <2>4, Pieces, ScanCode
  <2> QED
    BY <2>2, <2>5 DEF Is, Over1
<1>11. \A i \in 1..Len(l) : l[i] \notin {"open", "line", "quote", "endraw", "raw", "close"}
  BY <1>1, <1>5, <1>9, <1>10 DEF Without, NoRaw
<1> QED
  BY <1>1, <1>11, PlainIs
(* What CleanseComments makes of a line whose strings are collapsed.       *)
LEMMA CommentsAreOut ==
  ASSUME NEW w \in Seq(Piece), NoRaw(w), OneOf(w, "quote"), NEW a \in Scanning, a = ScanLine(Start, w), ~a.odd,
         NEW z, z = CleanseComments(w), ~ComplainsAbout(z)
  PROVE  z = a.code /\ a.in \in {"code", "line"}
<1> DEFINE cut == IF Where(w, "line") # {} /\ ~IsCppString(Before(w, Least(Where(w, "line"))))
                    THEN Before(w, Least(Where(w, "line"))) ELSE w
           N == Len(w)
<1>1. N \in Nat /\ Len(cut) <= N
  BY CutIs
<1>2. PICK s : Tidy(cut, s) /\ s.code = a.code /\ (s.in = "code" => a.in \in {"code", "line"})
  BY CutIs
<1> DEFINE S == {l \in Seq(Piece) : Tidy(l, s)}
           step == [x \in S \X (1..N) |-> DropComment(x[1])]
           Loop(f) == f = [k \in 0..N |-> IF k = 0 THEN cut ELSE DropComment(f[k - 1])]
           loop == CHOOSE f : Loop(f)
<1>3. cut \in S
  BY <1>2 DEF Tidy
<1>4. ASSUME NEW l \in S
      PROVE  /\ DropComment(l) \in S /\ (NoPairs(l) => DropComment(l) = l)
             /\ NoPairs(l) \/ Len(DropComment(l)) < Len(l)
  <2>1. Tidy(l, s)
    OBVIOUS
  <2>2. /\ Tidy(DropComment(l), s)
        /\ NoPairs(l) => DropComment(l) = l
        /\ ~NoPairs(l) => Len(DropComment(l)) < Len(l)
    BY <2>1, DropRound
  <2> QED
    BY <2>2 DEF Tidy
<1>5. z = loop[N]
  BY DEF CleanseComments
<1> HIDE DEF S, cut
<1>6. step \in [S \X (1..N) -> S]
  BY <1>4
<1>7. \A l \in S, i \in 1..N : step[<<l, i>>] = DropComment(l)
  BY <1>1
<1> HIDE DEF step
<1>8. PICK g : Looped(g, N, S, cut, step)
  <2> HIDE DEF N
  <2> QED
    BY <1>1, <1>3, <1>6, Loops
<1>9. g \in [0..N -> S] /\ g[0] = cut /\ \A i \in 1..N : g[i] = step[<<g[i - 1], i>>]
  BY <1>8 DEF Looped
<1>10. \A i \in 0..N : g[i] = IF i = 0 THEN cut ELSE DropComment(g[i - 1])
  <2> TAKE i \in 0..N
  <2>1. CASE i = 0
    BY <1>9, <2>1
  <2>2. CASE i # 0
    <3>1. i \in 1..N /\ i - 1 \in 0..N
      BY <1>1, <2>2
    <3>2. g[i - 1] \in S
      BY <1>9, <3>1
    <3> QED
      BY <1>7, <1>9, <2>2, <3>1, <3>2
  <2> QED
    BY <2>1, <2>2
<1>11. Loop(g)
  BY <1>9, <1>10
<1>12. Loop(loop)
  BY <1>11, Zenon
<1> HIDE DEF loop
<1>13. PICK f : f = loop
  OBVIOUS
<1>14. f = [k \in 0..N |-> IF k = 0 THEN cut ELSE DropComment(f[k - 1])]
  BY <1>12, <1>13, Zenon
<1>15. f[0] = cut /\ \A i \in 1..N : f[i] = DropComment(f[i - 1])
  BY <1>1, <1>14
<1> DEFINE P == {k \in 0..N : f[k] \in S /\ (NoPairs(f[k]) \/ Len(f[k]) + k <= N)}
<1>16. 0 \in P
  <2>1. Len(cut) + 0 <= N
    <3>1. Len(cut) \in Nat
      BY <1>3 DEF S
    <3> QED
      BY <1>1, <3>1
  <2> QED
    BY <1>1, <1>3, <1>15, <2>1
<1>17. ASSUME NEW k \in 0..(N - 1), k \in P PROVE k + 1 \in P
  <2>1. k + 1 \in 1..N /\ k + 1 \in 0..N /\ (k + 1) - 1 = k /\ k \in Nat
    BY <1>1
  <2>2. PICK l, q : l = f[k] /\ q = f[k + 1]
    OBVIOUS
  <2>3. q = DropComment(l) /\ l \in S /\ (NoPairs(l) \/ Len(l) + k <= N)
    BY <1>15, <1>17, <2>1, <2>2
  <2>4. /\ q \in S
        /\ NoPairs(l) => q = l
        /\ NoPairs(l) \/ Len(q) < Len(l)
    BY <1>4, <2>3
  <2>5. Len(l) \in Nat /\ Len(q) \in Nat
    BY <2>3, <2>4 DEF S
  <2>6. NoPairs(q) \/ Len(q) + (k + 1) <= N
    <3>1. CASE NoPairs(l)
      BY <2>4, <3>1
    <3>2. CASE ~NoPairs(l)
      <4>1. PICK x, y : x = Len(l) /\ y = Len(q)
        OBVIOUS
      <4>2. x + k <= N /\ y < x /\ x \in Nat /\ y \in Nat
        BY <2>3, <2>4, <2>5, <3>2, <4>1
      <4>3. y + (k + 1) <= N
        BY ONLY <4>2, <2>1, <1>1
      <4> QED
        BY <4>1, <4>3
    <3> QED
      BY <3>1, <3>2
  <2> QED
    BY <2>1, <2>2, <2>4, <2>6
<1>18. P \in SUBSET (0..N)
  OBVIOUS
<1> HIDE DEF P
<1>19. \A k \in 0..N : k \in P
  BY <1>1, <1>16, <1>17, <1>18, NaturalSteps
<1>20. z \in S /\ (NoPairs(z) \/ Len(z) + N <= N)
  BY <1>1, <1>5, <1>13, <1>19 DEF P
<1>21. Tidy(z, s) /\ z \in Seq(Piece)
  BY <1>20 DEF S
<1>22. NoPairs(z)
  <2>1. CASE Len(z) + N <= N
    <3>1. Len(z) = 0
      BY <1>1, <1>21, <2>1
    <3> QED
      BY <3>1 DEF NoPairs, Where
  <2> QED
    BY <1>20, <2>1
<1>23. s.in = "code" /\ z = s.code
  BY <1>21, <1>22, CodeOrComplaint
<1> QED
  BY <1>2, <1>23

(* A line that begins in code or in a raw string, and that the linter does *)
(* not complain about, holds the code that a compiler sees there.          *)
LEMMA LineIsCode ==
  ASSUME NEW line \in Seq(Piece), NEW inside \in BOOLEAN,
         NEW a, a = LexPieces(Begin(inside), line), ~a.odd,
         NEW c, c = CleanseRawLine(line, inside), ~ComplainsAbout(Elided(c.line))
  PROVE  /\ Elided(c.line) = a.code
         /\ a.in \in {"code", "line", "raw"}
         /\ c.inside \in BOOLEAN /\ (c.inside <=> a.in = "raw")
<1>1. PICK b : b = ScanLine(Begin(inside), line)
  OBVIOUS
<1>2. b \in Scanning /\ ~b.odd /\ (b = a \/ b.in = "cut")
  <2>1. Begin(inside) \in Scanning /\ Begin(inside).in # "cut"
    BY BeginIs DEF Begin
  <2>2. (b = LexPieces(Begin(inside), line) \/ b.in = "cut") /\ (b.odd => LexPieces(Begin(inside), line).odd)
    BY <1>1, <2>1, ScanOrCut
  <2> QED
    BY <1>1, <2>1, <2>2, LineKeeps
<1>3. Stands(c, b) /\ Settled(c.line)
  BY <1>1, <1>2, RawLine
<1>4. PICK l, d, w : l = c.line /\ d = ScanLine(Start, l) /\ w = CollapseStrings(l)
  OBVIOUS
<1>5. /\ l \in Seq(Piece) /\ c.inside \in BOOLEAN
      /\ ~c.inside => d = b
      /\ c.inside => b.in = "raw" /\ Is(d, "code", b.code, b.odd)
  BY <1>3, <1>4 DEF Stands
<1>6. ~d.odd
  BY <1>2, <1>5 DEF Is
<1>7. /\ w \in Seq(Piece) /\ NoRaw(w) /\ OneOf(w, "quote") /\ ScanLine(Start, w) = d
      /\ d \in Scanning /\ Known(d) /\ d.in # "raw"
  BY <1>3, <1>4, <1>5, <1>6, CollapsedIs
<1>8. Elided(l) = CleanseComments(w)
  BY <1>4 DEF Elided
<1>9. CleanseComments(w) = d.code /\ d.in \in {"code", "line"}
  BY <1>4, <1>6, <1>7, <1>8, CommentsAreOut
<1>10. CASE c.inside
  <2>1. b.in = "raw" /\ d.code = b.code
    BY <1>5, <1>10 DEF Is
  <2>2. b = a
    BY <1>2, <2>1
  <2> QED
    BY <1>4, <1>8, <1>9, <1>10, <2>1, <2>2
<1>11. CASE ~c.inside
  <2>1. d = b
    BY <1>5, <1>11
  <2>2. b = a
    BY <1>2, <1>9, <2>1
  <2> QED
    BY <1>4, <1>5, <1>8, <1>9, <1>11, <2>1, <2>2
<1> QED
  BY <1>5, <1>10, <1>11
-----------------------------------------------------------------------------
(* Comments that span lines                                                *)

(* Line n of a text is within a comment that began at the start of a line, *)
(* and so is its end.                                                      *)
Within(text, n) ==
  \E b \in 1..n : StartsComment(text[b]) /\ \A k \in b..(n - 1) : ~EndsComment(text[k])
CommentGoesOn(text, n) ==
  \E b \in 1..n : StartsComment(text[b]) /\ \A k \in b..n : ~EndsComment(text[k])

(* From a line to the next.                                                *)
LEMMA WithinIs ==
  ASSUME NEW text, NEW n \in Nat, n >= 1
  PROVE  /\ Within(text, n) <=> CommentGoesOn(text, n - 1) \/ StartsComment(text[n])
         /\ CommentGoesOn(text, n) <=> Within(text, n) /\ ~EndsComment(text[n])
         /\ ~CommentGoesOn(text, 0)
<1>1. ASSUME Within(text, n) PROVE CommentGoesOn(text, n - 1) \/ StartsComment(text[n])
  <2>1. PICK b \in 1..n : StartsComment(text[b]) /\ \A k \in b..(n - 1) : ~EndsComment(text[k])
    BY <1>1 DEF Within
  <2>2. CASE b = n
    BY <2>1, <2>2
  <2>3. CASE b # n
    <3>1. b \in 1..(n - 1)
      BY <2>3
    <3> QED
      BY <2>1, <3>1 DEF CommentGoesOn
  <2> QED
    BY <2>2, <2>3
<1>2. ASSUME CommentGoesOn(text, n - 1) PROVE Within(text, n)
  <2>1. PICK b \in 1..(n - 1) : StartsComment(text[b]) /\ \A k \in b..(n - 1) : ~EndsComment(text[k])
    BY <1>2 DEF CommentGoesOn
  <2>2. b \in 1..n
    OBVIOUS
  <2> QED
    BY <2>1, <2>2 DEF Within
<1>3. ASSUME StartsComment(text[n]) PROVE Within(text, n)
  <2>1. n \in 1..n /\ n..(n - 1) = {}
    OBVIOUS
  <2> QED
    BY <1>3, <2>1 DEF Within
<1>4. ASSUME CommentGoesOn(text, n) PROVE Within(text, n) /\ ~EndsComment(text[n])
  <2>1. PICK b \in 1..n : StartsComment(text[b]) /\ \A k \in b..n : ~EndsComment(text[k])
    BY <1>4 DEF CommentGoesOn
  <2>2. n \in b..n /\ \A k \in b..(n - 1) : k \in b..n
    OBVIOUS
  <2> QED
    BY <2>1, <2>2 DEF Within
<1>5. ASSUME Within(text, n), ~EndsComment(text[n]) PROVE CommentGoesOn(text, n)
  <2>1. PICK b \in 1..n : StartsComment(text[b]) /\ \A k \in b..(n - 1) : ~EndsComment(text[k])
    BY <1>5 DEF Within
  <2>2. \A k \in b..n : k \in b..(n - 1) \/ k = n
    OBVIOUS
  <2>3. \A k \in b..n : ~EndsComment(text[k])
    BY <1>5, <2>1, <2>2
  <2> QED
    BY <2>1, <2>3 DEF CommentGoesOn
<1>6. ~CommentGoesOn(text, 0)
  BY DEF CommentGoesOn
<1> QED
  BY <1>1, <1>2, <1>3, <1>4, <1>5, <1>6

(* Where no comment goes on, none is until one begins.                     *)
LEMMA NotYet ==
  ASSUME NEW text, NEW x \in Nat, x >= 1, NEW y \in Nat, x <= y, ~CommentGoesOn(text, x - 1),
         \A n \in x..(y - 1) : ~StartsComment(text[n])
  PROVE  /\ \A n \in x..(y - 1) : ~Within(text, n)
         /\ ~CommentGoesOn(text, y - 1)
<1>1. ASSUME NEW z \in x..y PROVE ~CommentGoesOn(text, z - 1)
  <2> SUFFICES ASSUME CommentGoesOn(text, z - 1) PROVE FALSE
    OBVIOUS
  <2>1. PICK b \in 1..(z - 1) : StartsComment(text[b]) /\ \A k \in b..(z - 1) : ~EndsComment(text[k])
    BY DEF CommentGoesOn
  <2>2. b \notin x..(y - 1)
    BY <2>1
  <2>3. b \in 1..(x - 1)
    BY <2>2
  <2>4. \A k \in b..(x - 1) : k \in b..(z - 1)
    BY <2>3
  <2> QED
    BY <2>1, <2>3, <2>4 DEF CommentGoesOn
<1>2. ASSUME NEW n \in x..(y - 1) PROVE ~Within(text, n)
  <2>1. n \in x..y /\ n \in Nat /\ n >= 1
    OBVIOUS
  <2> QED
    BY <1>1, <2>1, WithinIs
<1>3. y \in x..y
  OBVIOUS
<1> QED
  BY <1>1, <1>2, <1>3

(* How far RemoveMultiLineComments has come.                               *)
Progress == [lines : Seq(Seq(Piece)), next : Nat, error : BOOLEAN]

IsAt(q, ls, next, error) == q \in Progress /\ q.lines = ls /\ q.next = next /\ q.error = error

(* A function on the first numbers is a sequence.                          *)
LEMMA NumberedIsSeq ==
  ASSUME NEW S, NEW n \in Nat, NEW f \in [1..n -> S]
  PROVE  f \in Seq(S) /\ Len(f) = n
OBVIOUS

(* The parts of a state that changes.                                      *)
LEMMA ProgressIs ==
  ASSUME NEW r \in Progress, NEW y \in Nat
  PROVE  /\ IsAt([r EXCEPT !.next = y], r.lines, y, r.error)
         /\ IsAt([r EXCEPT !.next = y, !.error = TRUE], r.lines, y, TRUE)
         /\ \A new \in Seq(Seq(Piece)) : IsAt([r EXCEPT !.lines = new, !.next = y], new, y, r.error)
BY DEF Progress, IsAt

(* What RemoveMultiLineComments leaves of a line.                          *)
Removed == << "open", "close" >>

(* RemoveMultiLineComments has come as far as line r.next.                 *)
AsFarAs(text, r) ==
  /\ r \in Progress
  /\ Len(r.lines) = Len(text) /\ r.next \in 1..(Len(text) + 1)
  /\ r.error => r.next = Len(text) + 1
  /\ ~r.error =>
       /\ ~CommentGoesOn(text, r.next - 1)
       /\ \A n \in 1..Len(text) :
            r.lines[n] = IF n < r.next /\ Within(text, n) THEN Removed ELSE text[n]

(* One round of RemoveMultiLineComments.                                   *)
LEMMA RemoveRound ==
  ASSUME NEW text \in Seq(Seq(Piece)), NEW r, AsFarAs(text, r), NEW q, q = RemoveMultiLineComment(r)
  PROVE  /\ AsFarAs(text, q)
         /\ q.next = Len(text) + 1 \/ q.next > r.next
<1>1. PICK L, x, ls : L = Len(text) /\ x = r.next /\ ls = r.lines
  OBVIOUS
<1>2. /\ L \in Nat /\ x \in 1..(L + 1) /\ x \in Nat /\ x >= 1 /\ ls \in Seq(Seq(Piece)) /\ Len(ls) = L
      /\ r \in Progress
      /\ r.error => x = L + 1
      /\ ~r.error => ~CommentGoesOn(text, x - 1)
      /\ ~r.error => \A n \in 1..L : ls[n] = IF n < x /\ Within(text, n) THEN Removed ELSE text[n]
  BY <1>1 DEF AsFarAs, Progress
<1>3. PICK starts, begin : starts = Starts(ls, x) /\ begin = Least(starts)
  OBVIOUS
<1>4. starts = {n \in x..L : StartsComment(ls[n])}
  BY <1>2, <1>3 DEF Starts
<1>5. ASSUME ~r.error, NEW n \in x..L PROVE ls[n] = text[n] /\ n \in 1..L
  <2>1. n \in 1..L /\ ~(n < x)
    BY <1>2
  <2> QED
    BY <1>2, <1>5, <2>1
<1>6. CASE r.error
  <2>1. starts = {}
    BY <1>2, <1>4, <1>6
  <2>2. q = [r EXCEPT !.next = L + 1]
    BY <1>1, <1>2, <1>3, <2>1 DEF RemoveMultiLineComment
  <2>3. q = r
    BY <1>1, <1>2, <1>6, <2>2 DEF Progress
  <2> QED
    BY <1>1, <1>2, <1>6, <2>3
<1>7. CASE ~r.error /\ starts = {}
  <2>1. q = [r EXCEPT !.next = L + 1]
    BY <1>1, <1>2, <1>3, <1>7 DEF RemoveMultiLineComment
  <2>2. q.lines = ls /\ q.next = L + 1 /\ q.error = FALSE /\ q \in Progress
    <3>1. L + 1 \in Nat /\ r \in Progress /\ r.error = FALSE
      BY <1>2, <1>7 DEF Progress
    <3>2. PICK y : y = L + 1
      OBVIOUS
    <3>3. IsAt([r EXCEPT !.next = y], r.lines, y, r.error)
      BY <3>1, <3>2, ProgressIs
    <3> QED
      BY <1>1, <2>1, <3>1, <3>2, <3>3 DEF IsAt
  <2>3. PICK y : y = L + 1
    OBVIOUS
  <2>4. y \in Nat /\ x <= y /\ \A n \in x..(y - 1) : n \in x..L
    BY <1>2, <2>3
  <2>5. \A n \in x..(y - 1) : ~StartsComment(text[n])
    BY <1>4, <1>5, <1>7, <2>4
  <2>6. (\A n \in x..(y - 1) : ~Within(text, n)) /\ ~CommentGoesOn(text, y - 1)
    <3>1. ~CommentGoesOn(text, x - 1)
      BY <1>2, <1>7
    <3> QED
      BY <1>2, <2>4, <2>5, <3>1, NotYet
  <2>7. ASSUME NEW n \in 1..L PROVE ls[n] = IF n < y /\ Within(text, n) THEN Removed ELSE text[n]
    <3>1. CASE n < x
      <4>1. n < y
        BY <1>2, <2>3
      <4> QED
        BY <1>2, <1>7, <3>1, <4>1
    <3>2. CASE ~(n < x)
      <4>1. n \in x..(y - 1) /\ n \in x..L
        BY <1>2, <2>3, <3>2
      <4> QED
        BY <1>5, <1>7, <2>6, <4>1
    <3> QED
      BY <3>1, <3>2
  <2>8. y \in 1..(L + 1)
    BY <1>2, <2>3
  <2>9. AsFarAs(text, q)
    BY <1>1, <1>2, <2>2, <2>3, <2>6, <2>7, <2>8 DEF AsFarAs
  <2> QED
    BY <1>1, <2>2, <2>9
<1>8. CASE ~r.error /\ starts # {}
  <2>1. starts \in SUBSET Nat
    BY <1>2, <1>4
  <2>2. begin \in starts /\ \A n \in starts : begin <= n
    BY <1>3, <1>8, <2>1, LeastOne DEF Least
  <2>3. begin \in x..L /\ begin \in 1..L /\ begin \in Nat /\ StartsComment(text[begin])
    BY <1>2, <1>4, <1>5, <1>8, <2>2
  <2>4. \A n \in x..(begin - 1) : ~StartsComment(text[n])
    <3> SUFFICES ASSUME NEW n \in x..(begin - 1), StartsComment(text[n]) PROVE FALSE
      OBVIOUS
    <3>1. n \in x..L /\ ~(begin <= n)
      <4>1. x \in Nat /\ begin \in x..L /\ begin \in Nat /\ L \in Nat
        BY <1>2, <2>3
      <4> QED
        BY ONLY <4>1, n \in x..(begin - 1)
    <3>2. n \in starts
      BY <1>4, <1>5, <1>8, <3>1
    <3> QED
      BY <2>2, <3>1, <3>2
  <2>5. (\A n \in x..(begin - 1) : ~Within(text, n)) /\ ~CommentGoesOn(text, begin - 1)
    <3>1. ~CommentGoesOn(text, x - 1) /\ x <= begin
      BY <1>2, <1>8, <2>3
    <3> QED
      BY <1>2, <2>3, <2>4, <3>1, NotYet
  <2>6. PICK ends, end : ends = Ends(ls, begin) /\ end = Least(ends)
    OBVIOUS
  <2>7. ends = {n \in begin..L : EndsComment(ls[n])}
    BY <1>2, <2>6 DEF Ends
  <2>8. CASE ends = {}
    <3>1. q = [r EXCEPT !.next = L + 1, !.error = TRUE]
      BY <1>1, <1>2, <1>3, <1>8, <2>6, <2>8 DEF RemoveMultiLineComment
    <3>2. q.lines = ls /\ q.next = L + 1 /\ q.error = TRUE /\ q \in Progress
      <4>1. L + 1 \in Nat /\ r \in Progress
        BY <1>2
      <4>2. PICK y : y = L + 1
        OBVIOUS
      <4>3. IsAt([r EXCEPT !.next = y, !.error = TRUE], r.lines, y, TRUE)
        BY <4>1, <4>2, ProgressIs
      <4> QED
        BY <1>1, <3>1, <4>2, <4>3 DEF IsAt
    <3>3. L + 1 \in 1..(L + 1)
      BY <1>2
    <3>4. AsFarAs(text, q)
      BY <1>1, <1>2, <3>2, <3>3 DEF AsFarAs
    <3> QED
      BY <1>1, <3>2, <3>4
  <2>9. CASE ends # {}
    <3>1. ends \in SUBSET Nat
      BY <2>3, <2>7
    <3>2. end \in ends /\ \A n \in ends : end <= n
      BY <2>6, <2>9, <3>1, LeastOne DEF Least
    <3>3. end \in begin..L /\ end \in Nat /\ end \in x..L /\ end \in 1..L
      BY <1>2, <2>3, <2>7, <3>2
    <3>4. EndsComment(text[end])
      BY <1>5, <1>8, <2>7, <3>2, <3>3
    <3>5. \A n \in begin..(end - 1) : ~EndsComment(text[n])
      <4> SUFFICES ASSUME NEW n \in begin..(end - 1), EndsComment(text[n]) PROVE FALSE
        OBVIOUS
      <4>1. n \in begin..L /\ n \in x..L /\ ~(end <= n)
        <5>1. x \in Nat /\ begin \in x..L /\ begin \in Nat /\ L \in Nat /\ end \in Nat /\ end \in begin..L
          BY <1>2, <2>3, <3>3
        <5> QED
          BY ONLY <5>1, n \in begin..(end - 1)
      <4>2. n \in ends
        BY <1>5, <1>8, <2>7, <4>1
      <4> QED
        BY <3>2, <4>1, <4>2
    <3>6. PICK new : new = [n \in 1..L |-> IF n \in begin..end THEN << "open", "close" >> ELSE ls[n]]
      OBVIOUS
    <3>7. q = [r EXCEPT !.lines = new, !.next = end + 1]
      BY <1>1, <1>2, <1>3, <1>8, <2>6, <2>9, <3>6 DEF RemoveMultiLineComment
    <3>8. \A n \in 1..L : new[n] = IF n \in begin..end THEN Removed ELSE ls[n]
      BY <3>6 DEF Removed
    <3>9. new \in Seq(Seq(Piece)) /\ Len(new) = L
      <4>1. \A n \in 1..L : ls[n] \in Seq(Piece)
        BY <1>2
      <4>2. << "open", "close" >> \in Seq(Piece)
        BY Pieces, ShortLines
      <4>3. new \in [1..L -> Seq(Piece)]
        BY <3>6, <4>1, <4>2
      <4>4. L \in Nat
        BY <1>2
      <4> QED
        BY ONLY <4>3, <4>4, NumberedIsSeq
    <3>10. /\ q.lines = new /\ q.next = end + 1 /\ q.error = FALSE
           /\ q \in Progress
      <4>1. end + 1 \in Nat /\ r \in Progress /\ r.error = FALSE
        BY <1>2, <1>8, <3>3 DEF Progress
      <4>2. PICK y : y = end + 1
        OBVIOUS
      <4>3. IsAt([r EXCEPT !.lines = new, !.next = y], new, y, r.error)
        BY <3>9, <4>1, <4>2, ProgressIs
      <4> QED
        BY <3>7, <4>1, <4>2, <4>3 DEF IsAt
    <3>11. PICK y : y = end + 1
      OBVIOUS
    <3>12. y \in 1..(L + 1) /\ y - 1 = end /\ end >= 1
      BY <1>2, <3>3, <3>11
    <3>13. ~CommentGoesOn(text, y - 1)
      BY <3>3, <3>4, <3>12, WithinIs
    <3>14. ASSUME NEW n \in 1..L PROVE new[n] = IF n < y /\ Within(text, n) THEN Removed ELSE text[n]
      <4>1. CASE n < x
        <5>1. n < y /\ n \notin begin..end
          BY <1>2, <2>3, <3>3, <3>11, <4>1
        <5> QED
          BY <1>2, <1>8, <3>8, <4>1, <5>1
      <4>2. CASE n \in x..(begin - 1)
        <5>1. n \notin begin..end /\ n \in x..L
          BY <1>2, <2>3, <3>3, <4>2
        <5> QED
          BY <1>5, <1>8, <2>5, <3>8, <4>2, <5>1
      <4>3. CASE n \in begin..end
        <5>1. n < y /\ begin \in 1..n
          BY <2>3, <3>3, <3>11, <4>3
        <5>2. \A k \in begin..(n - 1) : k \in begin..(end - 1)
          BY <2>3, <3>3, <4>3
        <5>3. Within(text, n)
          BY <2>3, <3>5, <5>1, <5>2 DEF Within
        <5> QED
          BY <3>8, <4>3, <5>1, <5>3
      <4>4. CASE n > end
        <5>1. ~(n < y) /\ n \notin begin..end /\ n \in x..L
          BY <1>2, <2>3, <3>3, <3>11, <4>4
        <5> QED
          BY <1>5, <1>8, <3>8, <5>1
      <4>5. n < x \/ n \in x..(begin - 1) \/ n \in begin..end \/ n > end
        BY <1>2, <2>3, <3>3
      <4> QED
        BY <4>1, <4>2, <4>3, <4>4, <4>5
    <3>15. AsFarAs(text, q)
      BY <1>1, <3>9, <3>10, <3>11, <3>12, <3>13, <3>14 DEF AsFarAs
    <3>16. q.next > r.next
      BY <1>1, <1>2, <3>3, <3>10
    <3> QED
      BY <3>15, <3>16
  <2> QED
    BY <2>8, <2>9
<1> QED
  BY <1>6, <1>7, <1>8
(* What RemoveMultiLineComments makes of a text, if every comment ends.    *)
LEMMA RemovedIs ==
  ASSUME NEW text \in Seq(Seq(Piece)), NEW r, r = RemoveMultiLineComments(text)
  PROVE  /\ r.lines \in Seq(Seq(Piece)) /\ Len(r.lines) = Len(text)
         /\ ~r.error => \A n \in 1..Len(text) : r.lines[n] = IF Within(text, n) THEN Removed ELSE text[n]
<1> DEFINE N == Len(text)
           base == [lines |-> text, next |-> 1, error |-> FALSE]
           S == {q \in Progress : AsFarAs(text, q)}
           step == [x \in S \X (1..N) |-> RemoveMultiLineComment(x[1])]
           Loop(f) == f = [k \in 0..N |-> IF k = 0 THEN base ELSE RemoveMultiLineComment(f[k - 1])]
           loop == CHOOSE f : Loop(f)
<1>1. N \in Nat /\ Len(text) = N
  OBVIOUS
<1>2. base \in S /\ base.next = 1
  <2>1. base \in Progress
    BY DEF Progress
  <2>2. /\ base.lines = text /\ base.next = 1 /\ base.error = FALSE
        /\ 1 \in 1..(N + 1) /\ \A n \in 1..N : ~(n < 1)
    BY <1>1
  <2>3. ~CommentGoesOn(text, 1 - 1)
    BY DEF CommentGoesOn
  <2> HIDE DEF base
  <2>4. AsFarAs(text, base)
    BY <1>1, <2>1, <2>2, <2>3 DEF AsFarAs
  <2> QED
    BY <2>1, <2>2, <2>4
<1>3. ASSUME NEW q \in S
      PROVE  /\ RemoveMultiLineComment(q) \in S
             /\ RemoveMultiLineComment(q).next = N + 1 \/ RemoveMultiLineComment(q).next > q.next
  <2>1. AsFarAs(text, q)
    OBVIOUS
  <2>2. /\ AsFarAs(text, RemoveMultiLineComment(q))
        /\ RemoveMultiLineComment(q).next = N + 1 \/ RemoveMultiLineComment(q).next > q.next
    BY <2>1, RemoveRound
  <2> QED
    BY <2>2 DEF AsFarAs
<1>4. r = loop[N]
  BY DEF RemoveMultiLineComments
<1>5. \A q \in S : q.next \in 1..(N + 1)
  BY DEF AsFarAs
<1> HIDE DEF S, base
<1>6. step \in [S \X (1..N) -> S]
  BY <1>3
<1>7. \A q \in S, i \in 1..N : step[<<q, i>>] = RemoveMultiLineComment(q)
  BY <1>1
<1> HIDE DEF step
<1>8. PICK g : Looped(g, N, S, base, step)
  <2> HIDE DEF N
  <2> QED
    BY <1>1, <1>2, <1>6, Loops
<1>9. g \in [0..N -> S] /\ g[0] = base /\ \A i \in 1..N : g[i] = step[<<g[i - 1], i>>]
  BY <1>8 DEF Looped
<1>10. \A i \in 0..N : g[i] = IF i = 0 THEN base ELSE RemoveMultiLineComment(g[i - 1])
  <2> TAKE i \in 0..N
  <2>1. CASE i = 0
    BY <1>9, <2>1
  <2>2. CASE i # 0
    <3>1. i \in 1..N /\ i - 1 \in 0..N
      BY <1>1, <2>2
    <3>2. g[i - 1] \in S
      BY <1>9, <3>1
    <3> QED
      BY <1>7, <1>9, <2>2, <3>1, <3>2
  <2> QED
    BY <2>1, <2>2
<1>11. Loop(g)
  BY <1>9, <1>10
<1>12. Loop(loop)
  BY <1>11, Zenon
<1> HIDE DEF loop
<1>13. PICK f : f = loop
  OBVIOUS
<1>14. f = [k \in 0..N |-> IF k = 0 THEN base ELSE RemoveMultiLineComment(f[k - 1])]
  BY <1>12, <1>13, Zenon
<1>15. f[0] = base /\ \A i \in 1..N : f[i] = RemoveMultiLineComment(f[i - 1])
  <2> HIDE DEF N
  <2>1. 0 \in 0..N /\ \A i \in 1..N : i \in 0..N /\ i # 0
    BY <1>1
  <2> QED
    BY <1>14, <2>1
<1> DEFINE P == {k \in 0..N : f[k] \in S /\ (f[k].next = N + 1 \/ f[k].next > k)}
<1>16. 0 \in P
  BY <1>1, <1>2, <1>15
<1>17. ASSUME NEW k \in 0..(N - 1), k \in P PROVE k + 1 \in P
  <2>1. k + 1 \in 1..N /\ k + 1 \in 0..N /\ (k + 1) - 1 = k /\ k \in Nat
    BY <1>1
  <2>2. PICK q, z, x, y : q = f[k] /\ z = f[k + 1] /\ x = q.next /\ y = z.next
    OBVIOUS
  <2>3. z = RemoveMultiLineComment(q) /\ q \in S /\ (x = N + 1 \/ x > k)
    BY <1>15, <1>17, <2>1, <2>2
  <2>4. z \in S /\ (y = N + 1 \/ y > x)
    BY <1>3, <2>2, <2>3
  <2>5. x \in 1..(N + 1) /\ y \in 1..(N + 1)
    BY <1>5, <2>2, <2>3, <2>4
  <2>6. y = N + 1 \/ y > k + 1
    BY ONLY <1>1, <2>1, <2>3, <2>4, <2>5
  <2> QED
    BY <2>1, <2>2, <2>4, <2>6
<1>18. P \in SUBSET (0..N)
  OBVIOUS
<1> HIDE DEF P
<1>19. \A k \in 0..N : k \in P
  BY <1>1, <1>16, <1>17, <1>18, NaturalSteps
<1>20. r \in S /\ (r.next = N + 1 \/ r.next > N)
  BY <1>1, <1>4, <1>13, <1>19 DEF P
<1>21. AsFarAs(text, r)
  BY <1>20 DEF S
<1>22. r.next = N + 1
  <2>1. r.next \in 1..(N + 1)
    BY <1>5, <1>20
  <2> QED
    BY <1>1, <1>20, <2>1
<1>23. /\ r.lines \in Seq(Seq(Piece)) /\ Len(r.lines) = N
       /\ ~r.error => \A n \in 1..N : r.lines[n] = IF n < r.next /\ Within(text, n) THEN Removed ELSE text[n]
  BY <1>21 DEF AsFarAs, Progress
<1>24. \A n \in 1..N : n < r.next
  BY <1>1, <1>22
<1> QED
  BY <1>1, <1>23, <1>24

(* f[n] is what CleanseRawStrings makes of line n.                         *)
Cleanses(f, text) ==
  /\ f[0].inside = FALSE
  /\ \A n \in 1..Len(text) : f[n] = CleanseRawLine(text[n], f[n - 1].inside)
  /\ \A n \in 0..Len(text) : f[n] \in Cleansing

(* What CleanseRawStrings makes of a text.                                 *)
LEMMA RawStringsAre ==
  ASSUME NEW text \in Seq(Seq(Piece)), NEW c, c = CleanseRawStrings(text)
  PROVE  \E f : Cleanses(f, text) /\ \A n \in 1..Len(text) : c[n] = f[n].line
<1> DEFINE N == Len(text)
           base == [line |-> << >>, inside |-> FALSE]
           S == Cleansing
           step == [x \in S \X (1..N) |-> CleanseRawLine(text[x[2]], x[1].inside)]
           Loop(f) == f = [n \in 0..N |-> IF n = 0 THEN base ELSE CleanseRawLine(text[n], f[n - 1].inside)]
           loop == CHOOSE f : Loop(f)
<1>1. N \in Nat /\ \A n \in 1..N : text[n] \in Seq(Piece)
  OBVIOUS
<1>2. base \in S /\ base.inside = FALSE
  BY DEF Cleansing
<1>3. ASSUME NEW r \in S, NEW n \in 1..N PROVE CleanseRawLine(text[n], r.inside) \in S
  <2>1. text[n] \in Seq(Piece) /\ r.inside \in BOOLEAN
    BY <1>1 DEF Cleansing
  <2> QED
    BY <2>1, RawLine
<1>4. \A n \in 1..N : c[n] = loop[n].line
  BY DEF CleanseRawStrings
<1> HIDE DEF S, base
<1>5. step \in [S \X (1..N) -> S]
  BY <1>3
<1>6. \A r \in S, i \in 1..N : step[<<r, i>>] = CleanseRawLine(text[i], r.inside)
  BY <1>1
<1> HIDE DEF step
<1>7. PICK g : Looped(g, N, S, base, step)
  <2> HIDE DEF N
  <2> QED
    BY <1>1, <1>2, <1>5, Loops
<1>8. g \in [0..N -> S] /\ g[0] = base /\ \A i \in 1..N : g[i] = step[<<g[i - 1], i>>]
  BY <1>7 DEF Looped
<1>9. \A i \in 0..N : g[i] = IF i = 0 THEN base ELSE CleanseRawLine(text[i], g[i - 1].inside)
  <2> TAKE i \in 0..N
  <2>1. CASE i = 0
    BY <1>8, <2>1
  <2>2. CASE i # 0
    <3>1. i \in 1..N /\ i - 1 \in 0..N
      BY <1>1, <2>2
    <3>2. g[i - 1] \in S
      BY <1>8, <3>1
    <3> QED
      BY <1>6, <1>8, <2>2, <3>1, <3>2
  <2> QED
    BY <2>1, <2>2
<1>10. Loop(g)
  BY <1>8, <1>9
<1>11. Loop(loop)
  BY <1>10, Zenon
<1> HIDE DEF loop
<1>12. PICK f : f = loop
  OBVIOUS
<1>13. f = [n \in 0..N |-> IF n = 0 THEN base ELSE CleanseRawLine(text[n], f[n - 1].inside)]
  BY <1>11, <1>12, Zenon
<1>14. f[0] = base /\ \A i \in 1..N : f[i] = CleanseRawLine(text[i], f[i - 1].inside)
  <2> HIDE DEF N
  <2>1. 0 \in 0..N /\ \A i \in 1..N : i \in 0..N /\ i # 0
    BY <1>1
  <2> QED
    BY <1>13, <2>1
<1> DEFINE P == {k \in 0..N : f[k] \in S}
<1>15. 0 \in P
  BY <1>1, <1>2, <1>14
<1>16. ASSUME NEW k \in 0..(N - 1), k \in P PROVE k + 1 \in P
  <2>1. k + 1 \in 1..N /\ k + 1 \in 0..N /\ (k + 1) - 1 = k
    BY <1>1
  <2> QED
    BY <1>3, <1>14, <1>16, <2>1
<1>17. P \in SUBSET (0..N)
  OBVIOUS
<1>18. \A k \in 0..N : k \in P
  <2> HIDE DEF P
  <2> QED
    BY <1>1, <1>15, <1>16, <1>17, NaturalSteps
<1>19. Cleanses(f, text)
  BY <1>2, <1>14, <1>18 DEF Cleanses, S
<1> QED
  BY <1>4, <1>12, <1>19
(* What a compiler sees of the pieces of a line.                           *)
LEMMA LexKeeps ==
  ASSUME NEW a \in Scanning, NEW line \in Seq(Piece), NEW Good, Good \subseteq Scanning, a \in Good,
         \A b \in Good : \A i \in 1..Len(line) : Lex(b, line[i]) \in Good
  PROVE  LexPieces(a, line) \in Good
<1>1. PICK f \in [0..Len(line) -> Scanning] : Lexes(f, a, line) /\ LexPieces(a, line) = f[Len(line)]
  BY LexLoop
<1>2. PICK N : N = Len(line)
  OBVIOUS
<1>3. N \in Nat
  BY <1>2
<1> DEFINE P == {i \in 0..N : f[i] \in Good}
<1>4. 0 \in P
  BY <1>1, <1>3 DEF Lexes
<1>5. ASSUME NEW k \in 0..(N - 1), k \in P PROVE k + 1 \in P
  <2>1. k + 1 \in 1..N /\ k + 1 \in 0..N /\ (k + 1) - 1 = k
    BY <1>3
  <2>2. f[k + 1] = Lex(f[k], line[k + 1])
    BY <1>1, <1>2, <2>1 DEF Lexes
  <2>3. f[k] \in Good
    BY <1>5
  <2>4. Lex(f[k], line[k + 1]) \in Good
    BY <1>2, <2>1, <2>3
  <2> QED
    BY <2>1, <2>2, <2>4
<1>6. P \in SUBSET (0..N)
  OBVIOUS
<1> HIDE DEF P
<1>7. \A k \in 0..N : k \in P
  BY <1>3, <1>4, <1>5, <1>6, NaturalSteps
<1>8. f[N] \in Good
  BY <1>3, <1>7 DEF P
<1> QED
  BY <1>1, <1>2, <1>8

(* What a line begins in.                                                  *)
Enter(in) == [in |-> in, code |-> IF in = "raw" THEN << "empty" >> ELSE << >>, odd |-> FALSE]

(* Code and raw strings are those that the cleansing of a line begins in.  *)
LEMMA EnterIs ==
  /\ Enter("code") = Begin(FALSE) /\ Enter("raw") = Begin(TRUE)
  /\ Enter("block") \in Scanning /\ Enter("block").in = "block" /\ Enter("block").code = << >>
  /\ \A in \in Piece : Enter(in) \in Scanning
<1>1. << "empty" >> \in Seq(Piece) /\ << >> \in Seq(Piece)
  BY Pieces, ShortLines
<1>2. Enter("code") = Begin(FALSE) /\ Enter("raw") = Begin(TRUE)
  BY DEF Enter, Begin
<1>3. \A in \in Piece : Enter(in) \in Scanning
  BY <1>1 DEF Enter, Scanning
<1>4. Enter("block").in = "block" /\ Enter("block").code = << >>
  BY DEF Enter
<1> QED
  BY <1>2, <1>3, <1>4, Pieces

(* What Lexed holds of a line.                                             *)
Lined == [in : Piece, code : Seq(Piece), odd : BOOLEAN, hidden : BOOLEAN]

(* What becomes of a line.                                                 *)
LEMMA LexLineIs ==
  ASSUME NEW in \in Piece, NEW line \in Seq(Piece), NEW a, a = LexPieces(Enter(in), line),
         NEW q, q = LexLine(in, line)
  PROVE  /\ a \in Scanning /\ q \in Lined
         /\ q.in = (IF a.in \in {"block", "raw"} THEN a.in ELSE "code") /\ q.code = a.code /\ q.odd = a.odd
         /\ in = "block" /\ ~q.hidden => a.code = << >> /\ (a.in = "block" \/ EndsComment(line))
         /\ in = "raw" /\ ~q.hidden => ~StartsComment(line)
<1>1. a \in Scanning
  <2>1. PICK f \in [0..Len(line) -> Scanning] : LexPieces(Enter(in), line) = f[Len(line)]
    BY EnterIs, LexLoop
  <2>2. Len(line) \in 0..Len(line)
    OBVIOUS
  <2> QED
    BY <2>1, <2>2
<1>2. PICK hidden : hidden = (\/ in = "block" /\ a.code # << >>
                              \/ in = "block" /\ a.in # "block" /\ ~EndsComment(line)
                              \/ in = "raw" /\ StartsComment(line))
  OBVIOUS
<1>3. hidden \in BOOLEAN
  BY <1>2
<1>4. q = [in |-> IF a.in \in {"block", "raw"} THEN a.in ELSE "code", code |-> a.code, odd |-> a.odd,
           hidden |-> hidden]
  BY <1>2 DEF LexLine, Enter
<1>5. /\ q.in = (IF a.in \in {"block", "raw"} THEN a.in ELSE "code") /\ q.code = a.code /\ q.odd = a.odd
      /\ q.hidden = hidden
  BY <1>4
<1>6. q \in Lined
  BY <1>1, <1>3, <1>4, Pieces DEF Lined, Scanning
<1>7. in = "block" /\ ~q.hidden => a.code = << >> /\ (a.in = "block" \/ EndsComment(line))
  BY <1>2, <1>5
<1>8. in = "raw" /\ ~q.hidden => ~StartsComment(line)
  BY <1>2, <1>5
<1> QED
  BY <1>1, <1>5, <1>6, <1>7, <1>8

(* A line of a longer comment on which no code is.                         *)
LEMMA NoCodeThere ==
  ASSUME NEW line \in Seq(Piece), NEW a, a = LexPieces(Enter("block"), line), a.code = << >>
  PROVE  a.in \in {"block", "code", "line"}
<1> DEFINE Good == {b \in Scanning : b.code # << >> \/ b.in \in {"block", "code", "line"}}
<1>1. Enter("block") \in Good /\ Good \subseteq Scanning
  BY EnterIs
<1>2. ASSUME NEW b \in Good, NEW i \in 1..Len(line) PROVE Lex(b, line[i]) \in Good
  <2>1. PICK p, c : p = line[i] /\ c = Lex(b, p)
    OBVIOUS
  <2>2. p \in Piece /\ b \in Scanning /\ c \in Scanning /\ b.code \in Seq(Piece)
    BY <2>1, ScanType DEF Scanning
  <2>3. /\ \A x \in Piece : Append(b.code, x) # << >>
        /\ b.code \o << "paren", "empty" >> # << >>
    <3>1. \A x \in Piece : Append(b.code, x) # << >>
      BY <2>2
    <3>2. << "paren", "empty" >> \in Seq(Piece) /\ Len(<< "paren", "empty" >>) = 2
      BY Pieces, ShortLines
    <3>3. Len(b.code \o << "paren", "empty" >>) = Len(b.code) + 2
      BY <2>2, <3>2, ConcatProperties
    <3>4. b.code \o << "paren", "empty" >> # << >>
      BY <2>2, <3>3
    <3> QED
      BY <3>1, <3>4
  <2>4. CASE b.in = "code"
    <3>1. \/ c.code # << >>
          \/ c.in \in {"block", "line", "code"}
      BY <2>1, <2>2, <2>3, <2>4, Pieces DEF Lex, Scanning
    <3> QED
      BY <2>1, <2>2, <3>1
  <2>5. CASE b.in = "block"
    <3>1. c.in \in {"block", "code"}
      BY <2>1, <2>2, <2>5 DEF Lex, Scanning
    <3> QED
      BY <2>1, <2>2, <3>1
  <2>6. CASE b.in = "line"
    <3>1. c = b
      BY <2>1, <2>6 DEF Lex
    <3> QED
      BY <2>1, <3>1
  <2>7. CASE b.code # << >> /\ b.in \notin {"code", "block", "line"}
    <3>1. c.code = b.code
      BY <2>1, <2>2, <2>7 DEF Lex, Scanning
    <3> QED
      BY <2>1, <2>2, <2>7, <3>1
  <2> QED
    BY <2>4, <2>5, <2>6, <2>7
<1>3. a \in Good
  <2> HIDE DEF Good
  <2> QED
    BY <1>1, <1>2, EnterIs, LexKeeps
<1> QED
  BY <1>3

(* A line whose last piece is the end of a comment is not within one then. *)
LEMMA EndedThere ==
  ASSUME NEW in \in Piece, NEW line \in Seq(Piece), NEW a, a = LexPieces(Enter(in), line), EndsComment(line)
  PROVE  a.in # "block"
<1>1. PICK f \in [0..Len(line) -> Scanning] : Lexes(f, Enter(in), line) /\ a = f[Len(line)]
  BY EnterIs, LexLoop
<1>2. PICK N : N = Len(line)
  OBVIOUS
<1>3. N \in Nat /\ N >= 1 /\ line[N] = "close"
  BY <1>2 DEF EndsComment, Last
<1>4. N \in 1..Len(line) /\ N - 1 \in 0..Len(line)
  BY <1>2, <1>3
<1>5. PICK b : b = f[N - 1]
  OBVIOUS
<1>6. a = Lex(b, "close") /\ b \in Scanning
  BY <1>1, <1>2, <1>3, <1>4, <1>5 DEF Lexes
<1> QED
  BY <1>6 DEF Lex, Scanning

(* A line that begins with a comment that does not end there.              *)
LEMMA BegunThere ==
  ASSUME NEW line \in Seq(Piece), NEW a, a = LexPieces(Enter("code"), line), ~a.odd, StartsComment(line)
  PROVE  a.in = "block" /\ a.code = << >> /\ ~EndsComment(line)
<1>1. PICK f \in [0..Len(line) -> Scanning] : Lexes(f, Enter("code"), line) /\ a = f[Len(line)]
  BY EnterIs, Pieces, LexLoop
<1>2. PICK N : N = Len(line)
  OBVIOUS
<1>3. N \in Nat /\ N >= 1 /\ line[1] = "open" /\ \A i \in 1..N : line[i] # "close"
  BY <1>2 DEF StartsComment, Where
<1>4. ~EndsComment(line)
  BY <1>2, <1>3 DEF EndsComment, Last
<1> DEFINE P == {k \in 0..N : k >= 1 => f[k].odd \/ (f[k].in = "block" /\ f[k].code = << >>)}
<1>5. 0 \in P
  BY <1>3
<1>6. ASSUME NEW k \in 0..(N - 1), k \in P PROVE k + 1 \in P
  <2>1. k + 1 \in 1..N /\ k + 1 \in 0..N /\ (k + 1) - 1 = k /\ k \in 0..N /\ k \in Nat
    BY <1>3
  <2>2. PICK b, c, p : b = f[k] /\ c = f[k + 1] /\ p = line[k + 1]
    OBVIOUS
  <2>3. c = Lex(b, p) /\ b \in Scanning /\ p \in Piece /\ p # "close"
    BY <1>1, <1>2, <1>3, <2>1, <2>2 DEF Lexes
  <2>4. CASE k = 0
    <3>1. b = Enter("code") /\ p = "open"
      BY <1>1, <1>3, <2>2, <2>4 DEF Lexes
    <3>2. c = [b EXCEPT !.in = "block"]
      BY <2>3, <3>1 DEF Lex, Enter
    <3>3. c.in = "block" /\ c.code = << >>
      BY <3>1, <3>2 DEF Enter
    <3> QED
      BY <2>1, <2>2, <3>3
  <2>5. CASE k # 0 /\ b.odd
    <3>1. c.odd
      BY <2>3, <2>5, OddStays
    <3> QED
      BY <2>1, <2>2, <3>1
  <2>6. CASE k # 0 /\ ~b.odd
    <3>1. b.in = "block" /\ b.code = << >>
      BY <1>6, <2>1, <2>2, <2>6
    <3>2. c = b \/ c = [b EXCEPT !.odd = TRUE]
      BY <2>3, <3>1 DEF Lex
    <3>3. c.odd \/ (c.in = "block" /\ c.code = << >>)
      BY <2>3, <3>1, <3>2 DEF Scanning
    <3> QED
      BY <2>1, <2>2, <3>3
  <2> QED
    BY <2>4, <2>5, <2>6
<1>7. P \in SUBSET (0..N)
  OBVIOUS
<1>8. \A k \in 0..N : k \in P
  <2> HIDE DEF P
  <2> QED
    BY <1>3, <1>5, <1>6, <1>7, NaturalSteps
<1>9. N \in P
  BY <1>3, <1>8
<1> QED
  BY <1>1, <1>2, <1>3, <1>4, <1>9
(* What becomes of a text, line by line.                                   *)
LEMMA LexedIs ==
  ASSUME lines \in Seq(Seq(Piece))
  PROVE  \E f : /\ \A n \in 0..Len(lines) : Lexed[n] = f[n] /\ f[n] \in Lined
                /\ f[0].in = "code"
                /\ \A n \in 1..Len(lines) : f[n] = LexLine(f[n - 1].in, lines[n])
<1> DEFINE N == Len(lines)
           base == [in |-> "code", code |-> << >>, odd |-> FALSE, hidden |-> FALSE]
           S == Lined
           step == [x \in S \X (1..N) |-> LexLine(x[1].in, lines[x[2]])]
           Loop(f) == f = [n \in 0..N |-> IF n = 0 THEN base ELSE LexLine(f[n - 1].in, lines[n])]
           loop == CHOOSE f : Loop(f)
<1>1. N \in Nat /\ \A n \in 1..N : lines[n] \in Seq(Piece)
  OBVIOUS
<1>2. base \in S /\ base.in = "code"
  BY Pieces, ShortLines DEF Lined
<1>3. ASSUME NEW r \in S, NEW n \in 1..N PROVE LexLine(r.in, lines[n]) \in S
  <2>1. PICK in, line, a, q : in = r.in /\ line = lines[n] /\ a = LexPieces(Enter(in), line) /\ q = LexLine(in, line)
    OBVIOUS
  <2>2. in \in Piece /\ line \in Seq(Piece)
    BY <1>1, <2>1 DEF Lined
  <2>3. a = LexPieces(Enter(in), line) /\ q = LexLine(in, line)
    BY <2>1
  <2>4. q \in Lined
    BY <2>2, <2>3, LexLineIs
  <2> QED
    BY <2>1, <2>4
<1>4. Lexed = loop
  BY DEF Lexed
<1> HIDE DEF S, base
<1>5. step \in [S \X (1..N) -> S]
  BY <1>3
<1>6. \A r \in S, i \in 1..N : step[<<r, i>>] = LexLine(r.in, lines[i])
  BY <1>1
<1> HIDE DEF step
<1>7. PICK g : Looped(g, N, S, base, step)
  <2> HIDE DEF N
  <2> QED
    BY <1>1, <1>2, <1>5, Loops
<1>8. g \in [0..N -> S] /\ g[0] = base /\ \A i \in 1..N : g[i] = step[<<g[i - 1], i>>]
  BY <1>7 DEF Looped
<1>9. \A i \in 0..N : g[i] = IF i = 0 THEN base ELSE LexLine(g[i - 1].in, lines[i])
  <2> TAKE i \in 0..N
  <2>1. CASE i = 0
    BY <1>8, <2>1
  <2>2. CASE i # 0
    <3>1. i \in 1..N /\ i - 1 \in 0..N
      BY <1>1, <2>2
    <3>2. g[i - 1] \in S
      BY <1>8, <3>1
    <3> QED
      BY <1>6, <1>8, <2>2, <3>1, <3>2
  <2> QED
    BY <2>1, <2>2
<1>10. Loop(g)
  BY <1>8, <1>9
<1>11. Loop(loop)
  BY <1>10, Zenon
<1> HIDE DEF loop
<1>12. PICK f : f = loop
  OBVIOUS
<1>13. f = [n \in 0..N |-> IF n = 0 THEN base ELSE LexLine(f[n - 1].in, lines[n])]
  BY <1>11, <1>12, Zenon
<1>14. f[0] = base /\ \A i \in 1..N : f[i] = LexLine(f[i - 1].in, lines[i])
  <2> HIDE DEF N
  <2>1. 0 \in 0..N /\ \A i \in 1..N : i \in 0..N /\ i # 0
    BY <1>1
  <2> QED
    BY <1>13, <2>1
<1> DEFINE P == {k \in 0..N : f[k] \in S}
<1>15. 0 \in P
  BY <1>1, <1>2, <1>14
<1>16. ASSUME NEW k \in 0..(N - 1), k \in P PROVE k + 1 \in P
  <2>1. k + 1 \in 1..N /\ k + 1 \in 0..N /\ (k + 1) - 1 = k
    BY <1>1
  <2> QED
    BY <1>3, <1>14, <1>16, <2>1
<1>17. P \in SUBSET (0..N)
  OBVIOUS
<1>18. \A k \in 0..N : k \in P
  <2> HIDE DEF P
  <2> QED
    BY <1>1, <1>15, <1>16, <1>17, NaturalSteps
<1>19. \A n \in 0..N : Lexed[n] = f[n] /\ f[n] \in Lined
  BY <1>4, <1>12, <1>18 DEF S
<1>20. f[0].in = "code" /\ \A n \in 1..N : f[n] = LexLine(f[n - 1].in, lines[n])
  BY <1>2, <1>14
<1> QED
  BY <1>19, <1>20

(* A line that RemoveMultiLineComments leaves holds nothing.               *)
LEMMA NothingIsLeft ==
  ASSUME NEW a, a = LexPieces(Begin(FALSE), Removed)
  PROVE  Removed \in Seq(Piece) /\ a.in = "code" /\ a.code = << >> /\ ~a.odd
<1>1. Removed \in Seq(Piece) /\ Len(Removed) = 2 /\ Removed[1] = "open" /\ Removed[2] = "close"
  BY Pieces, ShortLines DEF Removed
<1>2. PICK f \in [0..Len(Removed) -> Scanning] : Lexes(f, Begin(FALSE), Removed) /\ a = f[Len(Removed)]
  BY <1>1, BeginIs, LexLoop
<1>3. f[0] = Begin(FALSE) /\ f[1] = Lex(f[0], "open") /\ f[2] = Lex(f[1], "close") /\ a = f[2]
  <2>1. 1 \in 1..Len(Removed) /\ 2 \in 1..Len(Removed) /\ 1 - 1 = 0 /\ 2 - 1 = 1
    BY <1>1
  <2> QED
    BY <1>1, <1>2, <2>1 DEF Lexes
<1>4. f[0].in = "code" /\ f[0].code = << >> /\ f[0].odd = FALSE
  BY <1>3 DEF Begin
<1>5. f[1] = [f[0] EXCEPT !.in = "block"]
  BY <1>3, <1>4 DEF Lex
<1>6. f[0] \in Scanning
  BY <1>1, <1>2
<1>7. f[1].in = "block" /\ f[1].code = << >> /\ f[1].odd = FALSE /\ f[1] \in Scanning
  BY <1>1, <1>2, <1>4, <1>5, <1>6 DEF Scanning
<1>8. f[2] = [f[1] EXCEPT !.in = "code"]
  BY <1>3, <1>7 DEF Lex
<1> QED
  BY <1>1, <1>3, <1>7, <1>8 DEF Scanning
(* Where a text is at the end of a line, by what the linter knows there.   *)
StandsIn(within, inside) == IF within THEN "block" ELSE IF inside THEN "raw" ELSE "code"

(* From a line of a text to the next: what is left of it is its code.      *)
LEMMA NextLineIsCode ==
  ASSUME NEW line \in Seq(Piece), NEW goes \in BOOLEAN, NEW inside \in BOOLEAN, goes => ~inside,
         NEW q, q = LexLine(StandsIn(goes, inside), line), ~q.odd, ~q.hidden,
         NEW within \in BOOLEAN, within <=> goes \/ StartsComment(line),
         NEW left, left = (IF within THEN Removed ELSE line),
         NEW c, c = CleanseRawLine(left, inside), ~ComplainsAbout(Elided(c.line))
  PROVE  /\ Elided(c.line) = q.code
         /\ q.in = StandsIn(within /\ ~EndsComment(line), c.inside)
         /\ within /\ ~EndsComment(line) => ~c.inside
<1>1. PICK in : in = StandsIn(goes, inside)
  OBVIOUS
<1>2. PICK a : a = LexPieces(Enter(in), line)
  OBVIOUS
<1>3. in \in Piece /\ q = LexLine(in, line)
  BY <1>1, Pieces DEF StandsIn
<1>4. /\ a \in Scanning
      /\ q.in = (IF a.in \in {"block", "raw"} THEN a.in ELSE "code") /\ q.code = a.code /\ q.odd = a.odd
      /\ in = "block" /\ ~q.hidden => a.code = << >> /\ (a.in = "block" \/ EndsComment(line))
      /\ in = "raw" /\ ~q.hidden => ~StartsComment(line)
  BY <1>2, <1>3, LexLineIs
<1>5. ~a.odd
  BY <1>4
<1>6. CASE within /\ ~inside
  <2>1. PICK r : r = LexPieces(Begin(FALSE), Removed)
    OBVIOUS
  <2>2. Removed \in Seq(Piece) /\ r.in = "code" /\ r.code = << >> /\ ~r.odd
    BY <2>1, NothingIsLeft
  <2>3. c = CleanseRawLine(Removed, FALSE)
    BY <1>6
  <2>4. Elided(c.line) = r.code /\ c.inside \in BOOLEAN /\ (c.inside <=> r.in = "raw")
    BY <2>1, <2>2, <2>3, LineIsCode
  <2>5. Elided(c.line) = << >> /\ ~c.inside
    BY <2>2, <2>4
  <2>6. a.code = << >> /\ (a.in = "block" <=> ~EndsComment(line)) /\ a.in # "raw"
    <3>1. CASE goes
      <4>1. in = "block"
        BY <1>1, <3>1 DEF StandsIn
      <4>2. a.code = << >> /\ (a.in = "block" \/ EndsComment(line))
        BY <1>4, <4>1
      <4>3. a = LexPieces(Enter("block"), line)
        BY <1>2, <4>1
      <4>4. a.in \in {"block", "code", "line"}
        BY <4>2, <4>3, NoCodeThere
      <4>5. EndsComment(line) => a.in # "block"
        BY <1>2, <1>3, EndedThere
      <4> QED
        BY <4>2, <4>4, <4>5
    <3>2. CASE ~goes
      <4>1. in = "code" /\ StartsComment(line)
        BY <1>1, <1>6, <3>2 DEF StandsIn
      <4>2. a = LexPieces(Enter("code"), line)
        BY <1>2, <4>1
      <4>3. a.in = "block" /\ a.code = << >> /\ ~EndsComment(line)
        BY <1>5, <4>1, <4>2, BegunThere
      <4> QED
        BY <4>3
    <3> QED
      BY <3>1, <3>2
  <2>7. q.in = StandsIn(within /\ ~EndsComment(line), c.inside)
    BY <1>4, <1>6, <2>5, <2>6 DEF StandsIn
  <2> QED
    BY <1>4, <2>5, <2>6, <2>7
<1>7. CASE ~within
  <2>1. ~goes /\ ~StartsComment(line) /\ left = line
    BY <1>7
  <2>2. Enter(in) = Begin(inside)
    BY <1>1, <2>1, EnterIs DEF StandsIn
  <2>3. a = LexPieces(Begin(inside), line) /\ c = CleanseRawLine(line, inside)
    BY <1>2, <2>1, <2>2
  <2>4. /\ Elided(c.line) = a.code /\ a.in \in {"code", "line", "raw"}
        /\ c.inside \in BOOLEAN /\ (c.inside <=> a.in = "raw")
    BY <1>5, <2>3, LineIsCode
  <2>5. q.in = StandsIn(within /\ ~EndsComment(line), c.inside)
    BY <1>4, <1>7, <2>4 DEF StandsIn
  <2> QED
    BY <1>4, <1>7, <2>4, <2>5
<1>8. CASE within /\ inside
  <2>1. ~goes /\ StartsComment(line)
    BY <1>8
  <2>2. in = "raw"
    BY <1>1, <1>8, <2>1 DEF StandsIn
  <2> QED
    BY <1>4, <2>1, <2>2
<1> QED
  BY <1>6, <1>7, <1>8

(* What is left of a text is its code.                                     *)
LEMMA TextIsCode ==
  ASSUME lines \in Seq(Seq(Piece)),
         \A n \in 1..Len(lines) : ~Lexed[n].odd /\ ~Lexed[n].hidden,
         ~Complains
  PROVE  \A n \in 1..Len(lines) : Elided(Cleansed[n]) = Lexed[n].code
<1>1. PICK N, text : N = Len(lines) /\ text = lines
  OBVIOUS
<1>2. N \in Nat /\ N = Len(text) /\ text \in Seq(Seq(Piece)) /\ \A n \in 1..N : text[n] \in Seq(Piece)
  BY <1>1
<1>3. PICK f : /\ \A n \in 0..N : Lexed[n] = f[n] /\ f[n] \in Lined
               /\ f[0].in = "code"
               /\ \A n \in 1..N : f[n] = LexLine(f[n - 1].in, text[n])
  BY <1>1, LexedIs
<1>4. PICK r : r = RemoveMultiLineComments(text)
  OBVIOUS
<1>5. ~r.error /\ \A n \in 1..N : ~ComplainsAbout(Elided(Cleansed[n]))
  BY <1>1, <1>4 DEF Complains
<1>6. /\ r.lines \in Seq(Seq(Piece)) /\ Len(r.lines) = N
      /\ \A n \in 1..N : r.lines[n] = IF Within(text, n) THEN Removed ELSE text[n]
  BY <1>2, <1>4, <1>5, RemovedIs
<1>7. PICK left, c : left = r.lines /\ c = CleanseRawStrings(left)
  OBVIOUS
<1>8. Cleansed = c
  BY <1>1, <1>4, <1>7 DEF Cleansed
<1>9. PICK g : Cleanses(g, left) /\ \A n \in 1..N : c[n] = g[n].line
  BY <1>6, <1>7, RawStringsAre
<1>10. /\ g[0].inside = FALSE
       /\ \A n \in 1..N : g[n] = CleanseRawLine(left[n], g[n - 1].inside)
       /\ \A n \in 0..N : g[n].inside \in BOOLEAN
  BY <1>6, <1>7, <1>9 DEF Cleanses, Cleansing
<1> DEFINE Agrees(n) == /\ f[n].in = StandsIn(CommentGoesOn(text, n), g[n].inside)
                        /\ CommentGoesOn(text, n) => ~g[n].inside
<1>11. ASSUME NEW n \in 1..N, Agrees(n - 1)
       PROVE  Agrees(n) /\ Elided(c[n]) = f[n].code
  <2>1. n \in Nat /\ n >= 1 /\ n - 1 \in 0..N /\ n \in 0..N
    BY <1>2
  <2>2. PICK line, q, d, here : line = text[n] /\ q = f[n] /\ d = g[n] /\ here = left[n]
    OBVIOUS
  <2>3. PICK goes \in BOOLEAN, inside \in BOOLEAN, within \in BOOLEAN :
           goes = CommentGoesOn(text, n - 1) /\ inside = g[n - 1].inside /\ within = Within(text, n)
    <3>1. /\ CommentGoesOn(text, n - 1) \in BOOLEAN /\ Within(text, n) \in BOOLEAN
          /\ g[n - 1].inside \in BOOLEAN
      BY <1>10, <2>1 DEF CommentGoesOn, Within
    <3> QED
      BY <3>1
  <2>4. /\ line \in Seq(Piece) /\ (goes => ~inside)
        /\ f[n - 1].in = StandsIn(goes, inside)
    <3>1. line \in Seq(Piece)
      BY <1>2, <2>2
    <3>2. /\ CommentGoesOn(text, n - 1) => ~g[n - 1].inside
          /\ f[n - 1].in = StandsIn(CommentGoesOn(text, n - 1), g[n - 1].inside)
      BY <1>11, Zenon
    <3>3. goes = CommentGoesOn(text, n - 1) /\ inside = g[n - 1].inside
      BY <2>3
    <3>4. (goes => ~inside) /\ f[n - 1].in = StandsIn(goes, inside)
      BY <3>2, <3>3, Zenon
    <3> QED
      BY <3>1, <3>4
  <2>5. q = LexLine(StandsIn(goes, inside), line) /\ ~q.odd /\ ~q.hidden
    <3>1. ~Lexed[n].odd /\ ~Lexed[n].hidden /\ Lexed[n] = f[n]
      BY <1>1, <1>3, <2>1
    <3> QED
      BY <1>3, <2>2, <2>4, <3>1
  <2>6. /\ within <=> goes \/ StartsComment(line)
        /\ CommentGoesOn(text, n) <=> within /\ ~EndsComment(line)
    BY <2>1, <2>2, <2>3, WithinIs
  <2>7. here = (IF within THEN Removed ELSE line)
    BY <1>6, <1>7, <2>2, <2>3
  <2>8. d = CleanseRawLine(here, inside) /\ c[n] = d.line
    BY <1>9, <1>10, <2>2, <2>3
  <2>9. ~ComplainsAbout(Elided(d.line))
    BY <1>5, <1>8, <2>8
  <2>10. /\ Elided(d.line) = q.code
         /\ q.in = StandsIn(within /\ ~EndsComment(line), d.inside)
         /\ within /\ ~EndsComment(line) => ~d.inside
    BY <2>4, <2>5, <2>6, <2>7, <2>8, <2>9, NextLineIsCode
  <2>11. CommentGoesOn(text, n) = (within /\ ~EndsComment(line))
    BY <2>6 DEF CommentGoesOn
  <2> QED
    BY <2>2, <2>8, <2>10, <2>11
<1> DEFINE P == {n \in 0..N : Agrees(n)}
<1>12. 0 \in P
  <2>1. ~CommentGoesOn(text, 0)
    BY DEF CommentGoesOn
  <2>2. f[0].in = StandsIn(CommentGoesOn(text, 0), g[0].inside)
    BY <1>3, <1>10, <2>1 DEF StandsIn
  <2> QED
    BY <1>2, <2>1, <2>2
<1>13. ASSUME NEW k \in 0..(N - 1), k \in P PROVE k + 1 \in P
  <2>1. k + 1 \in 1..N /\ k + 1 \in 0..N /\ (k + 1) - 1 = k
    BY <1>2
  <2>2. Agrees((k + 1) - 1)
    BY <1>13, <2>1
  <2> HIDE DEF Agrees
  <2>3. Agrees(k + 1)
    BY <1>11, <2>1, <2>2
  <2> QED
    BY <2>1, <2>3
<1>14. P \in SUBSET (0..N)
  OBVIOUS
<1>15. \A n \in 0..N : n \in P
  <2> HIDE DEF P
  <2> QED
    BY <1>2, <1>12, <1>13, <1>14, NaturalSteps
<1>16. ASSUME NEW n \in 1..N PROVE Elided(Cleansed[n]) = Lexed[n].code
  <2>1. n - 1 \in 0..N /\ n \in 0..N
    BY <1>2
  <2>2. Agrees(n - 1)
    BY <1>15, <2>1
  <2> HIDE DEF Agrees
  <2>3. Elided(c[n]) = f[n].code
    BY <1>11, <2>2
  <2> QED
    BY <1>3, <1>8, <2>1, <2>3
<1> QED
  BY <1>1, <1>16
(* What is left of a line to be checked is the code that a compiler sees   *)
(* there, with strings that are empty, or the linter has complained: for a *)
(* text of any length, out of any pieces.                                  *)
THEOREM CodeIsLeft == Spec => []CodeIsWhatIsLeft
<1>1. IsText => CodeIsWhatIsLeft
  <2> SUFFICES ASSUME IsText, \A n \in 1..Len(lines) : ~Lexed[n].odd /\ ~Lexed[n].hidden, ~Complains
               PROVE  \A n \in 1..Len(lines) : Elided(Cleansed[n]) = Lexed[n].code
    BY DEF CodeIsWhatIsLeft
  <2>1. lines \in Seq(Seq(Piece))
    <3>1. \A n \in 1..Len(lines) : lines[n] \in Seq(STRING)
      BY DEF IsText
    <3>2. Seq(STRING) \subseteq Seq(Piece)
      <4>1. STRING \subseteq Piece
        BY DEF Piece
      <4>2. ASSUME NEW s \in Seq(STRING) PROVE s \in Seq(Piece)
        <5>1. s \in [1..Len(s) -> STRING] /\ Len(s) \in Nat
          OBVIOUS
        <5>2. s \in [1..Len(s) -> Piece]
          BY <4>1, <5>1, Zenon
        <5> QED
          BY <5>1, <5>2
      <4> QED
        BY <4>2
    <3>3. PICK N \in Nat : N = Len(lines) /\ lines \in [1..N -> Seq(STRING)]
      BY DEF IsText
    <3>4. lines \in [1..N -> Seq(Piece)]
      BY <3>2, <3>3, Zenon
    <3> QED
      BY <3>4
  <2> QED
    BY <2>1, TextIsCode
<1> QED
  BY <1>1, Texts, PTL
=============================================================================
