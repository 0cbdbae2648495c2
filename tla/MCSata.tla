------------------------------- MODULE MCSata -------------------------------
(* Instances of Sata for TLC: two command slots, so that one can be lost    *)
(* and the port can run out of them.                                        *)
EXTENDS Sata, TLC

Symmetry == Permutations(Data)
=============================================================================
