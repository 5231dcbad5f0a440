----------------------------- MODULE Directory -----------------------------
(***************************************************************************)
(* What the gathering registry promises its users, without connections,    *)
(* timers or stats: a directory of lobbies, each with a host account and a *)
(* bounded set of members.                                                 *)
(***************************************************************************)
EXTENDS Naturals, FiniteSets

CONSTANTS
  Accounts, \* the players
  Capacity, \* members a lobby may have
  FirstId   \* the first lobby id

VARIABLES
  lobbies,  \* lobby id -> [owner, members], for the lobbies that exist
  nextId    \* the id the next lobby gets

Init ==
  /\ lobbies = [g \in {} |-> {}]
  /\ nextId = FirstId

OwnedBy(a) == {g \in DOMAIN lobbies : lobbies[g].owner = a}

\* A new lobby replaces the one the host had; its id is fresh.
Open(a) ==
  /\ nextId' = nextId + 1
  /\ lobbies' = [g \in (DOMAIN lobbies \ OwnedBy(a)) \cup {nextId} |->
                   IF g = nextId THEN [owner |-> a, members |-> {a}] ELSE lobbies[g]]

\* One player enters one lobby that has room.
Admit(g, a) ==
  /\ Cardinality(lobbies[g].members) < Capacity
  /\ lobbies' = [lobbies EXCEPT ![g].members = @ \cup {a}]
  /\ UNCHANGED nextId

\* Players leave and lobbies end, any number at a time (a reaper round).
Depart ==
  /\ DOMAIN lobbies' \subseteq DOMAIN lobbies
  /\ \A g \in DOMAIN lobbies' :
       \E left \in SUBSET lobbies[g].members :
         lobbies'[g] = [lobbies[g] EXCEPT !.members = @ \ left]
  /\ UNCHANGED nextId

Next ==
  \/ \E a \in Accounts : Open(a) \/ (\E g \in DOMAIN lobbies : Admit(g, a))
  \/ Depart

Spec == Init /\ [][Next]_<<lobbies, nextId>>

=============================================================================
