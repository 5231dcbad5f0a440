------------------------------- MODULE Store -------------------------------
(***************************************************************************)
(* Accounts, career totals and leaderboard rows: the database code (db/),  *)
(* the handlers that use it (login, m 9 UserStats, m 12 ReportStats), and  *)
(* the consoles, which do all the arithmetic: a console reads its baseline *)
(* with m 9, folds a match into it and uploads the result with m 12.       *)
(*                                                                         *)
(* The server is one thread, so one handler runs at a time; but each of    *)
(* its SQL statements may raise, and the process may be killed between any *)
(* two of them.  SQLite is external: a statement inside a transaction      *)
(* changes the connection's view (draft), COMMIT makes it the database.    *)
(***************************************************************************)
EXTENDS Migrations

CONSTANTS
  Names,        \* psn_ids of the consoles
  NoName,
  InstantModes, \* the categories 302..307, one per instant mode
  MaxAccounts,  \* bound: accounts created
  MaxCash,      \* bound: career cash
  ReadFaults    \* TRUE when a SELECT of m 9 may raise

\* The rows of an account, by category: the career row, which m 9 serves as
\* 101, the two cash boards and the instant-mode boards.
Career == 101
CampaignCash == 201
InstantCash == 301
Rows == {Career, CampaignCash, InstantCash} \cup InstantModes

\* The SQL statements of a transaction: the two of a registration, and one
\* upsert per row.
UpdateCounter == 1
InsertAccount == 2
Statements == {UpdateCounter, InsertAccount} \cup Rows

ASSUME StoreAssumption ==
  /\ NoName \notin Names
  /\ InstantModes \subseteq 302 .. 307
  /\ MaxAccounts \in Nat /\ MaxCash \in Nat
  /\ ReadFaults \in BOOLEAN

FirstPid == 10000
NoAccount == 0
Pids == FirstPid .. (FirstPid + MaxAccounts - 1)

\* The rows that a report of a match in mode m carries: an instant upload has
\* the blocks of all instant modes, played or not.
Carried(m) ==
  {Career} \cup (IF m = CampaignCash THEN {CampaignCash} ELSE {InstantCash} \cup InstantModes)

Modes == {CampaignCash} \cup InstantModes
Uploads == UNION {[Carried(m) -> 0 .. MaxCash] : m \in Modes}
Nothing == [row \in {} |-> 0]

VARIABLES
  db,       \* what is on disk
  draft,    \* what the connection with the open transaction sees
  tx,       \* who has a transaction open: "none", "login", "shared"
  job,      \* the handler that runs, with the statements it has yet to run
  baseline, \* console -> the totals it last read, Nothing once they are used
  sent      \* console -> the upload that may (still) reach the server

vars == <<server, at, stmt, effect, applied, torn, crashes,
          db, draft, tx, job, baseline, sent>>

storeVars == <<db, draft, tx, job, baseline, sent>>

Zero == [row \in Rows |-> 0]

Database == [accounts : [Names -> Pids \cup {NoAccount}],
             next_pid : FirstPid .. (FirstPid + MaxAccounts),
             totals : [Pids -> [Rows -> 0 .. MaxCash]]]

Idle == [kind |-> "idle", name |-> NoName, pid |-> FirstPid, up |-> Nothing, todo |-> {}]

Job == [kind : {"create", "persist"}, name : Names, pid : Pids,
        up : Uploads \cup {Nothing}, todo : SUBSET Statements]

StoreTypeOK ==
  /\ BootTypeOK
  /\ db \in Database /\ draft \in Database
  /\ tx \in {"none", "login", "shared"}
  /\ job \in Job \cup {Idle}
  /\ baseline \in [Names -> [Rows -> 0 .. MaxCash] \cup {Nothing}]
  /\ sent \in [Names -> Uploads \cup {Nothing}]

Init ==
  /\ BootInit
  /\ db = [accounts |-> [n \in Names |-> NoAccount], next_pid |-> FirstPid,
           totals |-> [pid \in Pids |-> Zero]]
  /\ draft = db
  /\ tx = "none"
  /\ job = Idle
  /\ baseline = [n \in Names |-> Nothing]
  /\ sent = [n \in Names |-> Nothing]

HasAccount(n) == db.accounts[n] # NoAccount

\* The event loop is free to run a handler.
Ready == server = "up" /\ job = Idle

-----------------------------------------------------------------------------
\* The statements of a transaction.

\* BEGIN, with its first job: raises while another transaction is open.
Begin(who, j) ==
  /\ Ready
  /\ tx = "none"
  /\ tx' = who
  /\ draft' = db
  /\ job' = j
  /\ UNCHANGED <<db, baseline, sent, bootVars>>

NextPid_Same(d) == d

NextPid(d) == [d EXCEPT !.next_pid = @ + 1]

Stored_Added(old, new) == old + new

\* ON CONFLICT DO UPDATE: REPLACE, the server does no arithmetic.
Stored(old, new) == new

\* The effect of statement s of job j on the connection's view d.
Write(s, d, j) ==
  CASE s = UpdateCounter -> NextPid(d)
    [] s = InsertAccount -> [d EXCEPT !.accounts[j.name] = j.pid]
    [] s = Career -> [d EXCEPT !.totals[j.pid][s] = j.up[s]]
    [] OTHER -> [d EXCEPT !.totals[j.pid][s] = Stored(@, j.up[s])]

\* The counter moves before the account is inserted, the career row is
\* written before the boards.
First(s) ==
  /\ s = InsertAccount => UpdateCounter \notin job.todo
  /\ s \notin {UpdateCounter, InsertAccount, Career} => Career \notin job.todo

Statement(s) ==
  /\ server = "up"
  /\ s \in job.todo /\ First(s)
  /\ draft' = Write(s, draft, job)
  /\ job' = [job EXCEPT !.todo = @ \ {s}]
  /\ UNCHANGED <<db, tx, baseline, sent, bootVars>>

Commit ==
  /\ server = "up" /\ job # Idle
  /\ job.todo = {}
  /\ db' = draft
  /\ tx' = "none"
  /\ job' = Idle
  /\ UNCHANGED <<draft, baseline, sent, bootVars>>

Rollback_Skipped ==
  /\ tx' = IF tx = "login" THEN "none" ELSE tx
  /\ UNCHANGED <<db, draft>>

Rollback_Commits ==
  /\ tx' = "none"
  /\ db' = IF tx = "shared" THEN draft ELSE db
  /\ draft' = db'

\* ROLLBACK ends the transaction; it raises only if SQLite has ended it
\* already.  Login, too, closes its connection in any case.
Rollback ==
  /\ tx' = "none"
  /\ draft' = db
  /\ UNCHANGED db

\* A statement, or COMMIT, raises.  m 12 logs that and replies all the same.
Fail ==
  /\ server = "up" /\ job # Idle
  /\ Rollback
  /\ job' = Idle
  /\ UNCHANGED <<baseline, sent, bootVars>>

\* The operating system closes the connections of a killed process.
Crash ==
  /\ Die
  /\ tx' = "none"
  /\ draft' = db
  /\ job' = Idle
  /\ UNCHANGED <<db, baseline, sent>>

-----------------------------------------------------------------------------
\* The handlers.

\* find_or_create_account, for a psn_id that it does not find.  The pid is
\* read inside the transaction; for a known psn_id, Login changes nothing here.
Login(n) ==
  /\ ~HasAccount(n)
  /\ db.next_pid \in Pids
  /\ Begin("login", [kind |-> "create", name |-> n, pid |-> db.next_pid,
                     up |-> Nothing, todo |-> {UpdateCounter, InsertAccount}])

\* _persist_match, for an upload that arrives (again: UDP repeats packets and
\* the server does not compare packet ids).
ReportStats(n) ==
  /\ HasAccount(n)
  /\ sent[n] # Nothing
  /\ Begin("shared", [kind |-> "persist", name |-> n, pid |-> db.accounts[n],
                      up |-> sent[n], todo |-> DOMAIN sent[n]])

SharedView == IF tx = "shared" THEN draft ELSE db

Served_CareerOnly(n, failed) ==
  [row \in Rows |-> IF row \in failed \/ row # Career THEN 0
                    ELSE SharedView.totals[SharedView.accounts[n]][row]]

\* A SELECT that raises is served as a player without a row: zeros.
Served(n, failed) ==
  [row \in Rows |-> IF row \in failed THEN 0
                    ELSE SharedView.totals[SharedView.accounts[n]][row]]

\* m 9 for all categories, as at the start of a match.  The console reads when
\* no upload of its own is under way.
UserStats(n, failed) ==
  /\ Ready
  /\ HasAccount(n)
  /\ failed # {} => ReadFaults
  /\ baseline' = [baseline EXCEPT ![n] = Served(n, failed)]
  /\ sent' = [sent EXCEPT ![n] = Nothing]
  /\ UNCHANGED <<db, draft, tx, job, bootVars>>

Best(a, b) == IF a > b THEN a ELSE b

\* The console plays a match in mode m for some cash: totals are sums, the
\* board of the mode keeps the best match, the other boards are carried.
Play(n, m, cash) ==
  /\ baseline[n] # Nothing
  /\ baseline[n][Career] + cash <= MaxCash
  /\ sent' = [sent EXCEPT ![n] = [row \in Carried(m) |->
       CASE row \in {Career, InstantCash} -> baseline[n][Career] + cash
         [] row = m -> Best(baseline[n][row], cash)
         [] OTHER -> baseline[n][row]]]
  /\ baseline' = [baseline EXCEPT ![n] = Nothing]
  /\ UNCHANGED <<db, draft, tx, job, bootVars>>

Next ==
  \/ Boot /\ UNCHANGED storeVars
  \/ Crash
  \/ \E s \in Statements : Statement(s)
  \/ Commit
  \/ Fail
  \/ \E n \in Names :
       \/ Login(n)
       \/ ReportStats(n)
       \/ \E failed \in SUBSET Rows : UserStats(n, failed)
       \/ \E m \in Modes, cash \in 1 .. MaxCash : Play(n, m, cash)

Spec == Init /\ [][Next]_vars

\* Whoever runs the server starts it again, and it runs.
FairSpec == Spec /\ WF_vars(Boot /\ UNCHANGED storeVars)

=============================================================================
