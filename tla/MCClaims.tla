------------------------------ MODULE MCClaims ------------------------------
(* Instances of LobbyClaims for TLC. *)
EXTENDS LobbyClaims, TLC

Symmetry == Permutations(Conns) \cup Permutations(Remotes) \cup Permutations(Pids)

=============================================================================
