# Verification of the Ghostbusters PS3 server

TLA+ models of the matchmaking server in `src/ghostbusters_server`, TLC
configurations that check them on small instances, and TLAPS proofs of the
main safety properties for all values of the constants. `PROJECT.json` lists
the components, the runs, the theorems and, for every definition, the lines of
code it stands for.

## 1. The system

One asyncio thread serves two UDP ports (auth 30560, secure 30561). A packet is
handled from its arrival to its last reply without an `await`; so is a timer
callback and a round of the idle reaper. Handlers therefore never interleave.
What does interleave is everything between packets: two ports, many consoles,
reconnects, re-joins, silent hosts, the 90 s idle timeout and the 30 s stats
timeout, in any order.

| Component | Files | State | Operations | Must be correct |
|---|---|---|---|---|
| PRUDP connection tables | `prudp/server.py`, `prudp/connection.py` | `connections` per port; fields of each `Connection` (state, `user_pid`, `station_urls`, `last_seen`, packet and fragment buffers) | SYN, CONNECT, DATA, PING, DISCONNECT, `reap_idle` | every way an entry goes away runs the close hooks; reliable DATA is delivered once and in order |
| Gathering registry | `state/gatherings.py`, `state/registry.py` | `_by_id`, `_owner_pid_to_id`, the id sequence | create, add/remove participant, lock, destroy, the two close hooks | both dictionaries agree; one lobby per owner; no account twice in a lobby |
| Matchmaking handlers | `protocols/game.py`, `matchmaking.py`, `secure_connection.py` | none of their own | RegisterEx, Create, Join, Leave, Destroy, Close/OpenParticipation, Search, QuickMatch | capacity; QuickMatch offers what Join accepts; close hooks |
| Stats batch | `protocols/game.py`, `notification.py` | `m12_expected_pids`, `m12_received_pids`, `m12_timeout_handle` of a gathering; `_STATS_TXN_ID` | ReportStats, EndGame, `_on_m12_timeout` | a batch ends; timers and handles agree; pushed totals are current |
| Participant notifications | `protocols/notification.py` | none | push join, leave, replay, stats | each client's roster follows the registry |
| Career and leaderboard store | `db/career.py`, `_persist_match` | SQLite rows, one shared connection | upserts in one transaction, reads | all rows of an upload or none |
| Leaderboards, search filter | `db/career.py`, `protocols/game.py` | none (pure) | rank, page, around-self; parse and match | pages contain what they claim |
| NAT probe coordination | `protocols/nat.py` | none | forward probe requests between two clients | only live peers are named |
| Login, accounts, tickets | `authentication.py`, `account_management.py`, `db/accounts.py`, `crypto/` | accounts table | login, ticket request, create account | one pid per name; a ticket opens one account |
| RMC dispatcher, codecs | `rmc/`, `prudp/codec.py`, `prudp/payload.py` | call-id counter | encode, decode, dispatch | a failing handler answers an error and changes nothing else |
| Migrations | `db/connection.py` | `_migrations` table | apply pending files | each migration once, also across crashes |
| DNS shim | `dns_shim.py` | pending transaction ids | answer or forward a query | answers go to who asked |

Interactions: DATA reaches `RMCDispatcher.on_payload`, which calls the handler
with the `Connection`. Handlers call the registry and push notifications
through the same port's server. The registry keeps `Connection` objects and
remotes, never table entries, so it can hold what the table has dropped. Each
`PRUDPServer` calls the registry back on close (`on_close`), for DISCONNECT and
reaping alike, with nothing but the remote.

The DNS shim is a process of its own. There one task per query waits for an
upstream answer, so tasks, datagrams and timers do interleave, over one table of
pending transaction ids.

What is hard: a reconnect that replaces an entry while a lobby still points at
the old object; one remote that is present on both ports; the same account
joining twice; counts that are checked by one handler and changed by the next;
a batch whose roster changes while it waits; a timer that outlives what it was
armed for; a database call that raises half-way; a process killed inside a
transaction or a migration; a datagram lost or repeated between fragments; a
transaction id used twice. `PROJECT.json` lists these as
hazards, each at its line with the properties that cover it.

## 2. Modules

| Module | Models | How |
|---|---|---|
| `Prudp` | the connection tables of both ports | `connections[port][remote]` is an object identity, `heap` holds the objects, because the registry keeps objects after their entry is gone. One action per packet type, `ReapIdle`, and `Elapse` for the clock |
| `Gatherings` | `GatheringRegistry` | operators from a registry value to the value a method leaves; `by_id` and `owner_pid_to_id` are functions with growing and shrinking domains |
| `Lobby` | all handlers over these two, the stats batch, notifications, close hooks | composes `Prudp` and `Gatherings`; one action per handler, `Reap`, `OnM12Timeout`; `out` holds the requests pushed by the last step |
| `Directory` | what the registry promises | the abstract specification: a lobby directory without connections, timers or stats |
| `LobbyProps` | the properties of `Lobby` | and the refinement mapping to `Directory` |
| `Versions` | the stats versions that consoles hold | every step of `Lobby` with a history of the txn ids pushed |
| `LobbyClaims` | what comments of the repository say and the code does not do | |
| `Peers` | the rosters of the consoles and the NAT probes | composes the roster handlers of `Lobby` with what each console makes of the events pushed to it |
| `Session` | one console and one server over UDP | handshake, reliable DATA, acknowledgements, fragments, dispatch; the network loses and repeats datagrams |
| `Migrations` | the boot of the server | statement by statement; any statement, and the INSERT that records a file, may raise, and the process may be killed between any two |
| `Store` | accounts, career and board rows, and the consoles that compute them | extends `Migrations`; one action per SQL statement, `Commit`, `Fail`, `Crash` |
| `StatsService` | what the database layer promises | the abstract specification: whole registrations and uploads |
| `Boards` | ranking and paging | pure operators |
| `StoreProps` | the properties of `Store` and `Boards` | and the refinement mapping to `StatsService` |
| `DnsShim` | the DNS shim | one action per stretch of a task between awaits, per datagram and per timer |
| `MCLobby`, `MCVersions`, `MCClaims`, `MCPeers`, `MCSession`, `MCStore`, `MCDns` | TLC instances | symmetry sets, small data |
| `LobbyTypes`, `LobbyRosters`, `LobbyBatch`, `LobbyDirectory`, `StoreProofs`, `DnsProofs`, `SessionProofs`, `PeersProofs` | proofs | section 6 |

How state corresponds to code:

| TLA+ | Code |
|---|---|
| `connections[p][r]`, `heap[c]` | `PRUDPServer.connections`, the `Connection` fields `state`, `user_pid`, `station_urls` (empty or not), and `idle` for "`last_seen` is older than 90 s" |
| `by_id`, `owner_pid_to_id`, `next_gathering_id` | `_by_id`, `_owner_pid_to_id`, `_gathering_id_seq` |
| `expected`, `received`, `handle` of a gathering | `m12_expected_pids`, `m12_received_pids`, `m12_timeout_handle is not None` |
| `timers` | `call_later` callbacks in the event loop, with the port of the dispatcher they captured |
| `txn`, `career` | `_STATS_TXN_ID`; the number of the upload whose totals the career row holds |
| `out` | the notifications and probes that the step sent |
| `told` (`Versions`) | history: the txn id last pushed to an account about a lobby |
| `remote`, `roster` (`Peers`) | `Connection.remote`; the participant tree of a console, fed by `OnParticipantProcessed` |
| `entry`, `up`, `down` (`Session`) | the `Connection` of the console's address; datagrams under way |
| `ran`, `repeated` (`Session`) | histories: bodies handed to RMC handlers; whether anything was sent or delivered twice |
| `db`, `draft`, `tx`, `job` (`Store`) | the SQLite file, the view of the connection inside a transaction, whose transaction it is, the handler that runs with its statements to come |
| `baseline`, `sent` (`Store`) | what a console read with m 9, and the m 12 upload that may (still) arrive |
| `server`, `at`, `stmt`, `effect`, `applied` (`Migrations`) | the process; the loop of `apply_migrations`; what each script has done to the file; `_migrations` |
| `pending`, `future`, `reply` (`DnsShim`) | `_UpstreamProtocol._pending`; the future a task awaits; what the client was sent |

Abstractions: a packet that no guard accepts, and a call whose handler refuses
it, changes no state beyond `touch()` and is `DataOnly` (or a stutter). Names,
URLs and stats vectors are left out; a career row is the number of the upload
it came from. The participant list is a set, which `UniquePids` justifies.
`NoPid` is `user_pid` 0, which an ESTABLISHED connection has whose mutual-auth
handler raised, and every connection of the auth port. Clients are
unconstrained, except in `Session`, `Store` and `Peers`, where what a console
does with an answer is the point: there it is written down and marked external.

In `Peers` a connection object stands for its station URLs, because
RegisterEx puts the RVCID of the connection into them; pushes arrive. What a
console makes of them is what `notification.py` says: a join event (900002) inserts
its subject only if it is absent, and only a leave event (900000) erases it. A
console starts each connection with an empty roster. Rosters are kept per lobby and
survive a console's absence from it, which is the harder case: a stale entry is
never replaced. In
`Session` the network keeps the order of datagrams, and the console sends one
packet at a time, starts over with a SYN when repeating does not help, and has
nothing from an old connection under way by then. In `Store` a row is its
cash; an upload that was sent may arrive any number of times until the console
reads again. SQLite is taken at its word: a transaction is durable as a whole at
COMMIT, a killed process leaves what was committed. `executescript` in
autocommit mode commits each statement. A statement of a boot that raises, whatever
the reason, ends `main()` as a kill does; `MaxCrashes` bounds both. A definition
`Name_Variant` is a faulty form of `Name`; no specification uses it.

## 3. Runs

| Run | Properties | Shows |
|---|---|---|
| `membership` | `LobbyCapacity`, `UniquePids`, `NoOrphans`, `QuickMatchJoinable` | three connections over two addresses and two accounts around one lobby, cap 2, 0 to 2 public slots |
| `registry` | `ImplementsDirectory`, `TypeOK`, `OwnerIndexExact`, `NoOrphans` | two gatherings and both ports: the registry implements the directory |
| `batch` | `ReportsNotDropped`, `TimersMatchHandles`, `ReportersAdvance` | two uploads per account, any database call may raise: whoever has reported is sent a version that its console accepts |
| `live` | `SilentOwnerReaped`, `BatchResolves`, `BatchTimed`, `PushedTotalsCurrent` | under fairness, working database; what is pushed pairs each version with the cash of its upload |
| `peers` | `RostersComplete`, `AddressesOwned`, `NoSilentLeave`, `ProbesHaveListener` | joins, re-joins, leaves and reconnects leave no member out of the roster of another; an address in a roster may be out of date but is never somebody else's; only a close is silent; probes reach somebody |
| `session` | `BodiesAsSent`, `ExactlyOnceUnlessRepeated`, `SessionCompletes` | handlers never see a spliced body; without repetition everything runs once and in order; a console gets through any three faults |
| `store` | `ServedIsPersisted`, `PidsDistinct`, `BoardsBehindCareer`, `BoardsPaged`, `SchemaComplete`, `StatementsOnce`, `NoBackslide`, `ImplementsService`, `BackUpUnlessTorn` | failing statements and kills anywhere, in a boot too, repeated uploads: whole uploads, no lost totals, pages that tile, a server that starts again and serves from a complete schema only |
| `dns` | `SlotsLive`, `NewestHasSlot`, `LoneQueryKeepsSlot`, `EveryQueryReplied` | ids used again, late and repeated answers, timeouts racing them |
| `claim_*` | one each | a statement of the repository that the code does not keep (section 5) |

Bounds, and why they are enough:

- `Conns` (2 or 3) bounds the SYNs the server handles in a run, not the
  packets. Three objects over two addresses give a reconnect from the same
  address and a second console at once.
- `MaxGatherings` (1 or 2) bounds creates. Supersession and fresh ids need two;
  capacity, rosters and a batch need one. The runs with reports have one lobby; what
  an account in two does to their batches (its report counts for the lower id, an
  EndGame without a known id cancels the lower one's batch) is left to the theorems
  of `LobbyBatch`, which hold for any number.
- `MaxTxn` (0 to 2) bounds ReportStats calls per account. Two give a repeated
  upload and a second batch.
- `batch` and `live` use one account next to `NoPid`, which sits in a lobby, reports
  and is pushed to like an account. The VIEW of `batch` leaves `out` out: no step
  reads `out`, its invariant does not mention it, and TLC checks action properties on
  every step it generates.
- `MAX_PARTICIPANTS_PER_GATHERING` is 2 instead of 4, with `SlotChoices`
  below, at and above the cap, so that either limit is the one that refuses. In
  `peers` it is 3, so that a guest learns of another guest.
- `FragmentsOf` is 1, 3, 1: a request that splits, between two that do not, so
  that what is left of one could get into the next. `MaxFaults` 3 and `MaxTries`
  1 allow a fault in the handshake, in a fragment and in its repetition, and a
  console that gives up; five signatures are one more than the SYNs this needs.
- `Names` 2, `MaxCrashes` 2, `MaxCash` 3: two registrations and their uploads
  collide, a crash hits the recovery from a crash, and a baseline of 1 grows
  twice. Two scripts of two statements make every place a crash can hit differ.
  `InstantModes` is one mode next to the campaign, so a match of either leaves
  the other's row unplayed. `AROUNDSELF_LEAD` 1 and `TRAIL` 0 let the window
  start at the top and below it, with boards of up to two.
- `MaxQueries` 3 over two ids: one id used twice and a bystander, or one id
  three times. The two ids differ above their low byte only.
- The safety runs of `Lobby` and `Peers` treat connections, addresses and accounts as
  interchangeable; the liveness runs do not use symmetry.

`dns` and `session` do not check for deadlock: the queries of a run are bounded,
and a session ends.

The theorems of section 6 hold without any of these bounds on `Conns`, `Remotes`,
`Pids`, `Ports`, the cap, `Names`, `InstantModes`, `Txids` and `Hosts`, and for
every value of the numeric bounds.

## 4. Fairness

`Fairness` assumes only what the event loop does on its own: the clock advances
(`SilentFor`: a connection that stays silent becomes idle), the reaper task
wakes every 15 s (`Reap`), and a callback whose delay is over is called
(`OnM12Timeout`). Weak fairness suffices, as each stays enabled until it
happens or its reason goes away. Nothing is assumed about clients, so
`SilentOwnerReaped` allows a lobby to exist for ever only while its owner is
heard from again and again.

`BatchResolves` and `PushedTotalsCurrent` are checked with `DbFaults = FALSE`. With a
database that may raise, a batch may keep its reports without a timer (section 5),
and an upload that was not saved moves the txn id but not the stored cash.

`DnsShim` assumes of each task that its timer, once due, and its continuation,
once ready, are run (`Expire`, `Resume`); nothing about upstream. `Store` assumes
that whoever runs the server starts it again and that a boot goes on; the number
of crashes is bounded. `Session` assumes that both ends keep running; the network
owes nothing but that its faults end (`MaxFaults`).

## 5. Findings

Each is the counterexample of a run whose property states a line of the
repository; `PROJECT.json` quotes the line.

- `claim_rejoin`: a re-join refreshes `conn` but not `remote`; the death of the
  old connection removes the player.
- `claim_dead_lobby`: a SYN replaces a connection without the close hooks, so
  the lobby of the connection before stays, and QuickMatch keeps offering it.
- `claim_acked`: a fragment repeated after its acknowledgement was lost is
  appended again, the body does not decode, and a request whose packets were all
  acknowledged (a match-end ReportStats) is dropped in silence.
- `claim_baseline`: an m 9 read that raises is served as zeros; the console
  uploads its next match on top of them and the stored career goes down.

Other divergences, met while modelling and checked then, without a run here:

- JoinGathering never looks at `closed`, so a guest with an old browse list joins
  a locked lobby (`game.py:722`, against `game.py:848-849`).
- Lock, re-open, join, lock keeps the first snapshot, so the all-reported push
  does not wait for the late joiner (`game.py:1056`, against `game.py:957`).
- The close hooks compare remotes only, so a close on the auth port destroys the
  lobby of a host that is alive on the secure port (`server.py:70`, against its
  comment at 69).
- A player that did not report in a batch that is pushed gets its previous txn id
  again (`notification.py:266`, against 252). `ReportersAdvance` bounds this to such
  players.
- A guest that joins again over a new connection is announced by an insert only, so
  other guests keep the URL of its old connection (`game.py:775`, against
  ARCHITECTURE.md:365-367), at which a probe request finds nobody. `AddressesOwned`
  bounds this: it is no stranger's URL.
- A career read that raises while a batch is pushed leaves the batch with its
  timer cancelled and its reports in place (`game.py:1098`, against 960-961).
- A boot that ends inside a migration, because it is killed or because a statement
  or the INSERT that records the file raises (database locked, disk full), leaves
  statements applied and the script unrecorded; the next start raises on them, and
  so does every later one (`db/connection.py:27`, against ARCHITECTURE.md:418-419).
  `StatementsOnce` and `BackUpUnlessTorn` show that nothing else does this,
  `SchemaComplete` that the server never serves from such a schema.
- When the write of an upload fails, the m 12 reply still animates the player's
  cash to the unsaved total (`game.py:938`, against 197-198).
- Upstream answers are matched by transaction id only, so of two queries with one
  id in flight, one is answered with the other's answer and the other with
  SERVFAIL (`dns_shim.py:74`). `LoneQueryKeepsSlot` bounds the damage.
- An around-self page of no more rows than the lead of 3 does not contain the
  requester (`game.py:501`); `BoardsPaged` excludes that case.

## 6. Proofs

All theorems hold for every value of the constants that satisfies the named
assumptions of the modules, none of which says more than the code's own types.
For `Lobby` these are `PrudpAssumption`, `GatheringsAssumption` and
`LobbyAssumption`: `SecurePort` is
a port, `NoConn` and `NoPid` are no connection and no account, the cap is
positive, the other bounds are numbers. None of them assumes that a set of
constants is finite.

`LobbyTypes` proves `TypeCorrect`. `TypeOK` is inductive as it stands:
`TypeInductive` has one step per action, and each step one lemma on the types
of what the handler computes.

`LobbyRosters` proves `RosterCorrect`, that `RosterInv` always holds, and from it
`CapacityCorrect`, `UniquePidsCorrect`, `OwnerIndexCorrect` and `NoOrphansCorrect`.

    RosterInv == TypeOK /\ FiniteRosters /\ FreshIds /\ UniquePids
                 /\ LobbyCapacity /\ OwnerIndexExact /\ NoOrphans

They need one another. A join adds at most one to a cardinality
only if the roster is finite (`FiniteRosters`), and a re-join keeps the size only
because it maps the entries of one account to one entry (`UniquePids`). A create
overwrites index and table exactly only if its id is in neither (`FreshIds`).
`NoOrphans` rests on the effect of the close hooks on table and connections
together. `RosterSteps` sorts the disjuncts of `Next` first:
each is `KeepsRosters` (the handlers of the batch, the transport steps and
RegisterEx), one of the four registry calls, or a close. So the invariants are
argued for six kinds of step, not for every handler.

`LobbyBatch` proves `BatchCorrect` and from it `TimersCorrect`,
`BatchTimedCorrect` and, under `DbFaults = FALSE`, `PushedTotalsCorrect`.

    BatchInv == TypeOK /\ FreshIds /\ TimersMatchHandles /\ BatchTimed
                /\ TotalsInStep /\ PushesInStep

`FreshIds` keeps a leftover callback of a gathering that is gone from matching
a new gathering; `TotalsInStep` (unless the database raises, txn id and stored
upload agree) is what makes the pushed total that of the upload whose id goes with
it, and `PushesInStep` says so of the pushes of the last step.
`ReportsCorrect` is the action property `ReportsNotDropped`; with `BatchInv` as the
invariant, its proof goes through the actions once more and shows for each that
`received` grows, or that the batch was pushed or cancelled.

`ReportersAdvanceHolds` is about `Versions` and holds with every database fault.

    VersionsInv == told is well-typed
                   /\ nobody was told more than its present txn id
                   /\ a reporter that waits in a batch was told less than that

A report raises the id of its sender before it counts, and a push brings
`told` up to the id but empties the batch (`Numbers`, a lemma per kind of step), so
the strict inequality is there whenever a waiting reporter is pushed to.

`LobbyDirectory` proves `QuickMatchCorrect` and the refinement
`DirectoryImplemented`. A lobby with a free public slot has room under the cap
because only the owner sits outside the public slots and has one seat
(`UniquePids`). In the refinement a create is an `Open` (the superseded lobbies
are those the owner has, by `OwnerIndexExact`), a join is an `Admit` (the
accounts in a roster are no more than its entries), a leave, a destroy and any
close are a `Depart`, and everything else is a stutter.

`DnsProofs` proves that `IInv` always holds, and with it `SlotsLive`,
`NewestHasSlot` and `LoneQueryKeepsSlot`, for any number of queries.

    IInv == DnsTypeOK /\ History /\ SlotsLive /\ NewestHasSlot /\ LoneQueryKeepsSlot

`History` relates the queries received to futures, answers and replies. `SlotsLive`
needs it to know that a timed-out query leaves no slot of its own behind: `Resume`
empties the slot of its id, whoever is in it. `LoneQueryKeepsSlot` then needs
`SlotsLive`: only a query with the same id can empty or take the slot.

`StoreProofs` proves two invariants. `SInv` holds with every fault:

    SInv == StoreTypeOK /\ PidsDistinct /\ JobOK /\ ConsoleOK

`JobOK` says how far the running transaction has got: `draft` is `db` with exactly
the statements done that `todo` no longer lists, and no transaction is open
without a job. So COMMIT publishes a whole upload or registration, a
ROLLBACK or a crash nothing, which gives `PidsDistinctHolds` and the refinement
`ImplementsServiceHolds`: a commit is a `Create` or a `Save`, `Play` and `UserStats`
are a `Report`, and every other step is a stutter. `RowsOK` adds that what consoles hold and have sent
is in step with the stored rows; it assumes `ReadFaults = FALSE`, and
`claim_baseline` shows that it must. From it follow `ServedIsPersistedHolds`,
`BoardsBehindCareerHolds` and the action property `NoBackslideHolds`.

`SessionProofs` proves `BodiesAsSentHolds` for any requests, any number of fragments,
retries and faults.

    SessionInv == TypeOK /\ UpOK /\ DownOK /\ EntryOK /\ BodiesAsSent

The server compares no packet ids, so the argument is about the console: it has
one DATA packet under way, and what else the network holds repeats that one or the
one before it (`UpOK`), in this order. An acknowledgement says how far the server
has got (`DownOK`), so the buffer ends with one of the two packets and each packet
has taken it one fragment further at most (`Paced` in `EntryOK`). A buffer that
starts with the first fragment, ends with the last and has the declared size then
has every fragment once (`Assembled`): this is where the size check of the codec is
needed. The order of the datagrams, which the network of the model keeps, is
needed too.

`ExactlyOnceUnlessRepeatedHolds` needs a sharper invariant for as long as nothing was
sent or delivered twice:

    OnceInv == ~repeated => Unanswered /\ Progress

`Unanswered`: at most the one packet the console waits for is under way, and the
server has not taken it. `Progress`: the server has run the requests before the
console's and holds the fragments before the console's, plus the present one if the
acknowledgement is what is missing. That a lost packet leads to a repetition is
what ends the argument there; `claim_acked` shows what comes after.

The boot in `StoreProofs` has an invariant of its own, `BootInv`: recorded files are
complete, a boot has gone past recorded files only, what it ran of the present
file is on disk, and unless a boot ended inside a file, killed or raising, nothing
else of it is. Handlers and transactions leave it alone, so `SchemaCompleteHolds` and `StatementsOnceHolds`
need no assumption about faults. `StatementsOnce` is the safety half of
`BackUpUnlessTorn`: no statement of a boot meets its own effect.

`BoardIsRanking` says of every column of totals that `ranked_for_category` lists each
account with cash once, best first. The place of an account is the number of those
before it (`Ahead`); `Before` is a strict order, so places grow with it and no two
accounts share one, and an injection of finitely many accounts into as many places
leaves none empty (`EveryPlaceTaken`). `GlobalPagesTile` and `PersonalViewShowsPlayer`
are arithmetic on slices of any sequence without repetitions; `BoardsPagedHolds`
puts the three together.

`PeersProofs` is about any number of ports, addresses, connections, accounts and
lobbies; the run has one port.

    PeersInv == RosterInv /\ PeersTypeOK /\ Placement /\ RostersComplete
                /\ EntriesOwned /\ ProbesHaveListener

Every step of `PeersNext` but a request for probes is a step of `Lobby`
(`PeersLobbySteps`), so `RosterInv` comes from `LobbyRosters`. `Placement` says that an
entry of a table holds an object that was made for its address, that no object is
in two places, and that gatherings refer to made objects only: a SYN takes an
unused object, so an address of a roster never becomes that of another connection
(`EntriesKept`). `RostersComplete` goes by step. An entry stays while both
consoles keep their connections and no event erases it (`Remembered`). After a
join event its subject is listed, by the event or because it was (`Told`,
`StillListed`). After a join the caller's connection is on the port of the call only,
so whoever the rosters are compared on hears of it (`JoinRosters`). `EntriesOwned` is
`AddressesOwned` with the fact that every URL was made: the URL in a join event is
that of its subject's seat, which `UniquePids` makes unambiguous, and a connection
never changes its account (`OwnedStep`).
`ProbesHaveListenerHolds` combines `Placement` with `NoOrphans`: the address a host
is probed at has an entry as long as its lobby lives. `NoSilentLeaveHolds` goes
through the steps that take members from a lobby that stays: a close, which took the
member's address (`CloseIsAClose`), or a leave, whose event reaches everybody on the
caller's port (`LeaveErases`).

Only model-checked: the liveness properties `SilentOwnerReaped`,
`BatchResolves`, `EveryQueryReplied`, `SessionCompletes` and `BackUpUnlessTorn`,
because the prover handles neither fairness nor ENABLED. Every other property of a
passing run is a theorem. The statements that the claim runs refute do not
hold, so there is nothing to prove. No project module uses a RECURSIVE operator.

## 7. Not modelled

- The search filter: a pure conjunction of equalities over a parsed blob; any
  reference definition would be the code once more.
- Kerberos tickets and ciphers, compression, packet and blob layouts: arithmetic
  on bytes. In `Lobby` a CONNECT authenticates as any account or fails; in `Session`
  a body decodes when it has its size.
- Reordered datagrams in `Session`. The server compares no packet ids, so what it
  does with reordered fragments is what it does with spliced ones: the size
  check decides. A console with several packets in flight would need a model of
  its window, which the repository does not describe.
- The 16-bit packet id under the unbounded `outgoing_reliable_seq`, and the
  display columns of boards and stats replies.
- The error paths inside m 12 that a malformed upload takes (a NaN in `vec1`, a
  `vec0` that is too short).
- Logging, configuration, start-up messages, and shutdown (the state in memory is
  lost and the clients log in again).
- `stats`, `gatherings` and the other tables of `0001_init.sql` that no code uses,
  and `forward_update_participant_info`, which nothing calls.

Worth adding next: pushes that get lost in `Peers`, and the bound on how far a
roster may lag behind then.
