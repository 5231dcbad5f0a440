----------------------------- MODULE Gatherings -----------------------------
(***************************************************************************)
(* The gathering registry (state/gatherings.py): operators that map a      *)
(* registry value to the value a method of GatheringRegistry leaves.       *)
(*                                                                         *)
(* The registry is two dictionaries, modelled as functions whose domains   *)
(* grow and shrink: by_id (gathering id -> Gathering) and owner_pid_to_id. *)
(* The participant list is a set of records: nothing but the wire layout   *)
(* depends on its order, and UniquePids (module Lobby) shows that its      *)
(* length is the cardinality of the set.                                   *)
(*                                                                         *)
(* Name_Variant is a faulty form of the definition that follows it; no     *)
(* specification uses it.                                                  *)
(***************************************************************************)
EXTENDS Naturals, FiniteSets

CONSTANTS
  MAX_PARTICIPANTS_PER_GATHERING, \* 4 in the code
  MaxGatherings                   \* bound: gatherings created in a run

ASSUME GatheringsAssumption ==
  /\ MAX_PARTICIPANTS_PER_GATHERING \in Nat \ {0}
  /\ MaxGatherings \in Nat

FirstGid == 10000
Gids == FirstGid .. (FirstGid + MaxGatherings - 1)

Participant(pid, remote, conn) == [pid |-> pid, remote |-> remote, conn |-> conn]

PidsOf(g) == {p.pid : p \in g.participants}

\* The Gathering that create() builds: the host is its first participant.
\* slots is the public-slot count in the settings block of raw_params.
NewGathering(pid, remote, conn, slots) ==
  [owner_pid |-> pid, owner_remote |-> remote, host_conn |-> conn,
   slots |-> slots, participants |-> {Participant(pid, remote, conn)},
   closed |-> FALSE, expected |-> {}, received |-> {}, handle |-> FALSE]

\* Participants that count against the public slots.  No handler ever adds to
\* invited_pids (invitations are not wired), so nobody counts as invited.
PublicJoiners(g) == {p \in g.participants : p.pid # g.owner_pid}

public_remaining(g) ==
  IF Cardinality(PublicJoiners(g)) < g.slots
    THEN g.slots - Cardinality(PublicJoiners(g)) ELSE 0

is_full_Early(g) == Cardinality(g.participants) >= MAX_PARTICIPANTS_PER_GATHERING - 1

is_full(g) == Cardinality(g.participants) >= MAX_PARTICIPANTS_PER_GATHERING

add_participant_Again(g, pid, remote, conn) ==
  [g EXCEPT !.participants = @ \cup {Participant(pid, remote, conn)}]

\* A re-join refreshes conn and keeps the old remote.
add_participant(g, pid, remote, conn) ==
  IF pid \in PidsOf(g)
    THEN [g EXCEPT !.participants =
            {IF p.pid = pid THEN [p EXCEPT !.conn = conn] ELSE p : p \in @}]
    ELSE [g EXCEPT !.participants = @ \cup {Participant(pid, remote, conn)}]

remove_participant(g, pid) ==
  [g EXCEPT !.participants = {p \in @ : p.pid # pid}]

set_closed(g, value) == [g EXCEPT !.closed = value]

\* by_id without the ids in V, and the owner index without their entries.  An
\* entry is dropped only while it still names the gathering that goes.
Without(reg, V) == [g \in DOMAIN reg \ V |-> reg[g]]

Unindexed(index, reg, V) ==
  [pid \in {q \in DOMAIN index :
              ~\E g \in V : reg[g].owner_pid = q /\ index[q] = g} |-> index[pid]]

Put(f, k, v) == [x \in DOMAIN f \cup {k} |-> IF x = k THEN v ELSE f[x]]

Superseded_None(index, reg, pid) == {}

\* The gatherings create() pops before it makes a new one for pid.
Superseded(index, reg, pid) ==
  {g \in DOMAIN reg : pid \in DOMAIN index /\ index[pid] = g}

OwnedFrom_None(reg, R) == {}

\* The victims of destroy_by_owner_remote, for a set R of closed remotes.
OwnedFrom(reg, R) == {g \in DOMAIN reg : reg[g].owner_remote \in R}

remove_participant_by_remote_Unwired(g, R) == g

\* A gathering skips the remote of its own owner.
remove_participant_by_remote(g, R) ==
  [g EXCEPT !.participants =
     {p \in @ : p.remote \notin R \ {g.owner_remote}}]

\* find_gatherings_containing_pid, and its first element: dictionaries keep
\* insertion order, and ids are handed out in ascending order.
Containing(reg, pid) == {g \in DOMAIN reg : pid \in PidsOf(reg[g])}

First(S) == CHOOSE g \in S : \A h \in S : g <= h

=============================================================================
