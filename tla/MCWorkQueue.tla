----------------------------- MODULE MCWorkQueue -----------------------------
(* Instances of WorkQueue for TLC.  Transactions and subscribers are           *)
(* interchangeable in the safety runs, where the cfg gives them as model       *)
(* values; the liveness runs use no symmetry.                                  *)
EXTENDS WorkQueueInv, TLC

Symmetry == Permutations(Tx) \cup Permutations(Sub)
=============================================================================
