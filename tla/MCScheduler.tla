---------------------------- MODULE MCScheduler ----------------------------
(* Instances of Scheduler for TLC: a table of three slots, tasks that share *)
(* a function or an argument, sleeps longer and shorter than a frame.       *)
EXTENDS Scheduler, TLC

Symmetry == Permutations(Fns) \union Permutations(Args)
=============================================================================
