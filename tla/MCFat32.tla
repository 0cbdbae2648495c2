------------------------------ MODULE MCFat32 ------------------------------
(* TLC instances of Fat32.                                                   *)
EXTENDS Fat32, TLC

Symmetry == Permutations(Names) \union Permutations(Data)
=============================================================================
