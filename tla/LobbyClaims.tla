----------------------------- MODULE LobbyClaims -----------------------------
(***************************************************************************)
(* What comments and docs of the repository say of the matchmaking server  *)
(* and its code does not do.  Each property is refuted by a run of its     *)
(* own; PROJECT.json quotes the line it states.  The guests of             *)
(* RejoinedKept are real accounts (not user_pid 0); DeadLobbyGoes speaks   *)
(* of any host, as the account makes no difference there.                  *)
(***************************************************************************)
EXTENDS LobbyProps

\* The guests of gathering g, in the state that reg is the registry of.
Guests(reg, g) == {pid \in PidsOf(reg[g]) : pid # reg[g].owner_pid /\ pid # NoPid}

\* The disconnect hooks remove a guest when its connection dies: a guest that
\* re-joined over a new connection, which its entry names, stays.
RejoinedKept ==
  [][connections' # connections =>
       \A g \in LiveBefore \cap LiveAfter : \A q \in by_id[g].participants :
         q.pid \in Guests(by_id, g)
           /\ (\E p \in Ports, r \in Remotes : connections'[p][r] = q.conn)
         => q.pid \in PidsOf(by_id'[g])]_vars

\* QuickMatch does not hand out, for ever, a lobby whose host's connection is
\* gone from the connection tables.
DeadOffered(g) ==
  /\ g \in DOMAIN by_id
  /\ \A p \in Ports, r \in Remotes : connections[p][r] # by_id[g].host_conn
  /\ \E pid \in UserPids : g \in QuickMatchCandidates(pid)

DeadLobbyGoes == \A g \in Gids : DeadOffered(g) ~> ~DeadOffered(g)

=============================================================================
