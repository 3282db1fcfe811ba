------------------------------ MODULE TypeCast ------------------------------
(***************************************************************************)
(* type_cast<T>(AllTypeVariant), the conversion every append and every     *)
(* search with an AllTypeVariant goes through.  A variant that already     *)
(* holds a T is returned as it is; any other one is written as text and    *)
(* the text is read as a T.                                                *)
(*                                                                         *)
(* A number is represented by how many times it holds the smallest         *)
(* fraction in the model (One of which make 1), a string by its position    *)
(* in the lexicographic order of the texts in the model.                   *)
(***************************************************************************)
EXTENDS Segments

CONSTANTS
  One,         \* the number 1
  IntLimit,    \* IntLimit[T]: an integral type T has the range -IntLimit..IntLimit-1
  Exact,       \* floating-point numbers up to this magnitude are written exactly
  Step,        \* larger ones are rounded to a multiple of this when written
  Texts,       \* the texts in lexicographic order, each with the number it reads as
  NoNumber     \* what a text that is not a number reads as

ASSUME NumberAssumption ==
  /\ One \in Nat \ {0} /\ Exact \in Nat /\ Step \in Nat \ {0}
  /\ \A p \in DOMAIN Texts : Texts[p].canonical \in BOOLEAN

Integral == DOMAIN IntLimit

(* A variant holds a value of one of the types: which() and get<T>().      *)
Variant(type, value) == [which |-> type, value |-> value]

(* An ostream writes a floating-point number with six significant digits.  *)
(* Ties are rounded away from zero here.                                   *)
Rounded(n) ==
  LET nearest(m) == ((2 * m + Step) \div (2 * Step)) * Step IN
  IF n = NaN \/ (-Exact <= n /\ n <= Exact) THEN n
  ELSE IF n < 0 THEN -nearest(-n) ELSE nearest(n)

(* The number that the text of v reads as.                                 *)
NumberOf(v) ==
  IF v.which = "string" THEN Texts[v.value].reads
  ELSE IF v.which \in Integral THEN v.value ELSE Rounded(v.value)

(* The text a number is written as.                                        *)
TextOf(n) == CHOOSE p \in DOMAIN Texts : Texts[p] = [reads |-> n, canonical |-> TRUE]

Truncated(n) == IF n < 0 THEN -((-n) \div One) * One ELSE (n \div One) * One

(* lexical_cast<T>, and numeric_cast<T> of the double when the text is not  *)
(* an integer in range: a fraction is cut off, a number out of range       *)
(* throws.  NaN passes the range check; its conversion is undefined and     *)
(* yields the smallest T on x86-64.                                        *)
IntegralCast(T, n) ==
  LET smallest == -IntLimit[T] * One
      largest  == (IntLimit[T] - 1) * One
  IN  IF n = NaN THEN smallest
      ELSE IF smallest <= Truncated(n) /\ Truncated(n) <= largest THEN Truncated(n)
      ELSE Throws

TypeCast(T, v) ==
  IF v.which = T THEN v.value
  ELSE IF T = "string" THEN TextOf(NumberOf(v))
  ELSE IF NumberOf(v) = NoNumber THEN Throws
  ELSE IF T \in Integral THEN IntegralCast(T, NumberOf(v))
  ELSE NumberOf(v)
=============================================================================
