------------------------------ MODULE Versions ------------------------------
(***************************************************************************)
(* The stats versions that consoles hold.  A console that is sent a stats  *)
(* notification discards it unless its txn id is greater than the version  *)
(* it has (protocols/notification.py), so the server has to hand out       *)
(* rising ids.  Every step of module Lobby, with a history of the ids it   *)
(* pushed.                                                                 *)
(***************************************************************************)
EXTENDS LobbyProps

VARIABLE
  told \* told[g][pid]: the txn id last pushed to pid about gathering g

versionsVars == <<vars, told>>

VersionsInit == Init /\ told = [g \in Gids |-> [pid \in UserPids |-> 0]]

\* The stats pushes of a step for an account, about a gathering.
StatsFor(g, pid) == {m \in out' : m.kind = "stats" /\ m.gid = g /\ m.pid = pid}

Versioned ==
  told' = [g \in Gids |-> [pid \in UserPids |->
    IF StatsFor(g, pid) = {} THEN told[g][pid]
                             ELSE (CHOOSE m \in StatsFor(g, pid) : TRUE).txn]]

VersionsNext == Next /\ Versioned

VersionsSpec == VersionsInit /\ [][VersionsNext]_versionsVars

-----------------------------------------------------------------------------
\* A player whose report is in the batch accepts the notification: it carries a
\* higher id than anything the player was told about that lobby, whatever
\* writes and pushes failed, batches were cancelled or timers fired before.
ReportersAdvance ==
  [][\A m \in out' : m.kind = "stats" /\ m.pid \in Reporters(m.gid) =>
       m.txn > told[m.gid][m.pid]]_versionsVars

=============================================================================
