---------------------------- MODULE MCDbSession ----------------------------
(* Instances of DbSession for TLC. *)
EXTENDS DbSession, TLC

Symmetry == Permutations(Threads) \cup Permutations(Pages) \cup Permutations(Dbs)
=============================================================================
