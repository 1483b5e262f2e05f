------------------------------ MODULE MCServer ------------------------------
(* Instances of Server for TLC; requests of a kind are interchangeable.       *)
EXTENDS Server, TLC

Symmetry == Permutations(Push) \cup Permutations(Delete) \cup Permutations(Watch)
=============================================================================
