------------------------------ MODULE MCEngine ------------------------------
(* Tables and operators are told apart by what is done with them only.     *)
EXTENDS Engine, TLC

Interchangeable == Permutations(Tables) \cup Permutations(Operators)
=============================================================================
