----------------------------- MODULE StoreProps -----------------------------
(***************************************************************************)
(* What the persistence layer promises, as properties of module Store.     *)
(***************************************************************************)
EXTENDS Store, Boards

Totals(n) == db.totals[db.accounts[n]]

\* "served == persisted" (game.py): the totals a console holds as its baseline
\* are those on disk for as long as it holds them, through the failures of
\* other calls and through crashes.
ServedIsPersisted ==
  \A n \in Names : baseline[n] # Nothing => HasAccount(n) /\ baseline[n] = Totals(n)

\* Two psn_ids never get one pid, and the counter is ahead of every pid in
\* use: no crash or failure in the middle of a registration leads to a state
\* from which later registrations hit the primary key.
PidsDistinct ==
  \A m, n \in Names :
    /\ HasAccount(m) /\ db.accounts[m] = db.accounts[n] => m = n
    /\ HasAccount(m) => db.accounts[m] < db.next_pid

\* The career row and the boards of an account stay in step: the instant cash
\* board is the career cash of an earlier upload, so it is never ahead of it.
BoardsBehindCareer ==
  \A pid \in Pids : db.totals[pid][InstantCash] <= db.totals[pid][Career]

\* No handler ever runs on a half-made schema: the server is up only with every
\* statement of every migration in effect and every file recorded, whatever was
\* killed or has failed before.
SchemaComplete ==
  server = "up" => \A f \in Files : f \in applied /\ effect[f] = ScriptLength

\* Through restarts, kills and errors, no boot runs a statement that has taken
\* effect, until some boot has ended inside a migration: killed, or because a
\* statement or the INSERT that records the file raised.
StatementsOnce ==
  Considers(at) /\ at \notin applied /\ stmt < ScriptLength => effect[at] = stmt \/ torn

\* The board of a category, as leaderboard_query ranks it.
Board(row) == ranked_for_category([pid \in Pids |-> db.totals[pid][row]])

\* Whatever is stored, pages of the global board tile it and number it, and
\* the Personal view shows its player, for every page size.
BoardsPaged ==
  \A row \in Rows, count \in 1 .. MaxAccounts :
    /\ PagesTile(Board(row), count)
    /\ \A k \in 1 .. Len(Board(row)) : SelfShown(Board(row), k, count)

\* Nobody's stored cash goes down, on any board: a mode that was not played
\* keeps its row, a repeated upload changes nothing, a failed one is no loss
\* of what was there.
NoBackslide ==
  [][\A pid \in Pids, row \in Rows : db.totals[pid][row] <= db'.totals[pid][row]]_vars

\* The database implements the service of module StatsService: whole uploads
\* and whole registrations or nothing, across failing statements and crashes.
S == INSTANCE StatsService WITH
       accounts <- db.accounts, nextPid <- db.next_pid, totals <- db.totals,
       reported <- sent

ImplementsService == S!Spec

\* A server that is down and is started again comes back up once errors stop,
\* unless a boot ended inside a migration, killed or raising: what is recorded
\* is not run again.
BackUpUnlessTorn == (server = "down" /\ ~torn) ~> (server = "up" \/ torn)

=============================================================================
