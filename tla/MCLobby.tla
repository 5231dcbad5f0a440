------------------------------- MODULE MCLobby -------------------------------
(***************************************************************************)
(* Instances of Lobby for TLC.  Connection identities, addresses and       *)
(* accounts are interchangeable, so the safety runs identify states that   *)
(* differ only in their names; the liveness runs do not.                   *)
(***************************************************************************)
EXTENDS LobbyProps, TLC

Symmetry == Permutations(Conns) \cup Permutations(Remotes) \cup Permutations(Pids)

=============================================================================
