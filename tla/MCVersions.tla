----------------------------- MODULE MCVersions -----------------------------
(* Instances of Versions for TLC, with the symmetry of module MCLobby. *)
EXTENDS Versions, TLC

Symmetry == Permutations(Conns) \cup Permutations(Remotes) \cup Permutations(Pids)

\* No step reads out, and the properties that mention it are about steps: two
\* states that differ in out alone need not be told apart.
WithoutOut == <<connections, heap, by_id, owner_pid_to_id, next_gathering_id, timers, txn,
                career, told>>

=============================================================================
