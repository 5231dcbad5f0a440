------------------------------ MODULE MCPeers ------------------------------
(* Instances of Peers for TLC, with the symmetry of module MCLobby.         *)
EXTENDS Peers, TLC

Symmetry == Permutations(Conns) \cup Permutations(Remotes) \cup Permutations(Pids)

=============================================================================
