---------------------------- MODULE MCMergetrain ---------------------------
(* Instances of Mergetrain for TLC.                                        *)
EXTENDS Mergetrain, TLC

Symmetry == Permutations(Proc \ Daemon) \union Permutations(Daemon)
=============================================================================
