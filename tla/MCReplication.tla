---------------- MODULE MCReplication ----------------
(* Instances of Replication for TLC. *)
EXTENDS Replication, TLC

Symmetry == Permutations(Files) \cup Permutations(Provenances) \cup Permutations(Followers)
================================
