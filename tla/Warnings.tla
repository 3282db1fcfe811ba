------------------------------ MODULE Warnings ------------------------------
(***************************************************************************)
(* PerformanceWarning in a debug build: a process-wide flag, disablers     *)
(* that clear and restore it, and one static object per warning site whose *)
(* construction shows the warning.  ValueSegment<T>::operator[] is a site  *)
(* for every T; Print holds a disabler while it runs, and its callers may  *)
(* hold others around it.                                                  *)
(***************************************************************************)
EXTENDS Integers, Sequences

CONSTANTS
  Sites,      \* the places with a PerformanceWarning
  MaxScopes   \* bound: how deep disablers are nested

ASSUME WarningsAssumption == MaxScopes \in Nat

VARIABLES
  disabled,   \* PerformanceWarningClass::disabled()
  scopes,     \* _previously_disabled of every living disabler, innermost last
  built,      \* the sites whose static object has been constructed
  shown       \* the sites whose warning has been shown

vars == <<disabled, scopes, built, shown>>

Init == disabled = FALSE /\ scopes = << >> /\ built = {} /\ shown = {}

(* A mistake: the constructor only saves the flag.                         *)
disable_mutant ==
  /\ Len(scopes) < MaxScopes
  /\ scopes' = Append(scopes, disabled)
  /\ UNCHANGED <<disabled, built, shown>>

(* The constructor of a disabler.                                          *)
disable ==
  /\ Len(scopes) < MaxScopes
  /\ scopes' = Append(scopes, disabled)
  /\ disabled' = TRUE
  /\ UNCHANGED <<built, shown>>

(* A mistake: the destructor does not ask what the flag was before.        *)
enable_mutant ==
  /\ scopes # << >>
  /\ disabled' = FALSE
  /\ scopes' = SubSeq(scopes, 1, Len(scopes) - 1)
  /\ UNCHANGED <<built, shown>>

(* The destructor of the innermost disabler, at the end of its block or    *)
(* when an exception leaves it.                                            *)
enable ==
  /\ scopes # << >>
  /\ disabled' = IF scopes[Len(scopes)] THEN disabled ELSE FALSE
  /\ scopes' = SubSeq(scopes, 1, Len(scopes) - 1)
  /\ UNCHANGED <<built, shown>>

(* PerformanceWarning(text): only the first time at a site runs the        *)
(* constructor of its static object.                                       *)
warn(site) ==
  /\ site \notin built
  /\ built' = built \cup {site}
  /\ shown' = IF disabled THEN shown ELSE shown \cup {site}
  /\ UNCHANGED <<disabled, scopes>>

Next == disable \/ enable \/ \E site \in Sites : warn(site)

Spec == Init /\ [][Next]_vars

-----------------------------------------------------------------------------
(* The flag and the saved values have their types.                         *)
WarningsTypeOK ==
  /\ disabled \in BOOLEAN /\ scopes \in Seq(BOOLEAN)
  /\ shown \subseteq built

(* However disablers are nested, the flag is set exactly while one lives.  *)
SilentInScope == disabled <=> scopes # << >>

(* "this does not cause a warning ... warnings are enabled again": a site  *)
(* reached for the first time shows its warning exactly when no disabler   *)
(* lives.  An inner one that ends does not turn warnings on early, and the *)
(* outermost one does turn them on again.                                  *)
WarnsOutsideScopes ==
  [][\A site \in Sites : warn(site) => (site \in shown' <=> scopes = << >>)]_vars

(* What SilentInScope needs: the outermost disabler found warnings on, and *)
(* every other one found them off.                                         *)
Nested ==
  /\ WarningsTypeOK
  /\ SilentInScope
  /\ \A i \in 1..Len(scopes) : scopes[i] <=> i > 1
=============================================================================
