---------------------------- MODULE StoreProofs ----------------------------
(***************************************************************************)
(* Proofs about the persistence layer: the server is up only on a complete *)
(* schema; Store implements StatsService for any set of consoles, any      *)
(* instant modes and any number of crashes; while no SELECT of m 9 raises, *)
(* nobody's stored cash goes down; and the pages of a board tile it.       *)
(***************************************************************************)
EXTENDS StoreProps, FiniteSetTheorems, TLAPS

\* A registration in progress: what its transaction has done so far.
CreateOK ==
  /\ ~HasAccount(job.name)
  /\ job.pid = db.next_pid
  /\ job.todo \subseteq {UpdateCounter, InsertAccount}
  /\ draft = [accounts |-> IF InsertAccount \in job.todo THEN db.accounts
                           ELSE [db.accounts EXCEPT ![job.name] = job.pid],
              next_pid |-> IF UpdateCounter \in job.todo THEN db.next_pid
                           ELSE db.next_pid + 1,
              totals |-> db.totals]

\* The totals of an account once the rows in done have their upload's value.
Merged(old, up, done) == [row \in Rows |-> IF row \in done THEN up[row] ELSE old[row]]

\* An upload in progress.
PersistOK ==
  /\ HasAccount(job.name)
  /\ job.pid = db.accounts[job.name]
  /\ job.up = sent[job.name] /\ job.up \in Uploads
  /\ job.todo \subseteq DOMAIN job.up
  /\ draft = [accounts |-> db.accounts, next_pid |-> db.next_pid,
              totals |-> [db.totals EXCEPT ![job.pid] =
                            Merged(db.totals[job.pid], job.up, DOMAIN job.up \ job.todo)]]

\* A transaction is open exactly while its handler runs.
JobOK ==
  /\ tx = "none" <=> job = Idle
  /\ job = Idle => draft = db
  /\ server # "up" => job = Idle
  /\ job.kind = "create" => CreateOK
  /\ job.kind = "persist" => PersistOK

\* A console has a baseline or an upload under way, not both, and needs an
\* account for either.
ConsoleOK ==
  \A n \in Names :
    /\ baseline[n] # Nothing \/ sent[n] # Nothing => HasAccount(n)
    /\ baseline[n] = Nothing \/ sent[n] = Nothing

SInv == StoreTypeOK /\ PidsDistinct /\ JobOK /\ ConsoleOK

-----------------------------------------------------------------------------
\* Facts about the data.

LEMMA PidsAreNats == Pids \subseteq Nat \ {NoAccount} /\ FirstPid \in Nat
BY StoreAssumption DEF Pids, FirstPid, NoAccount

LEMMA RowsAreNats == Rows \subseteq Nat \ {UpdateCounter, InsertAccount} /\ Career \in Rows
BY StoreAssumption
DEF Rows, Career, CampaignCash, InstantCash, UpdateCounter, InsertAccount

\* What an upload looks like.
LEMMA UploadFacts ==
  ASSUME NEW up \in Uploads
  PROVE  /\ up # Nothing
         /\ DOMAIN up \subseteq Rows /\ Career \in DOMAIN up
         /\ \A row \in DOMAIN up : up[row] \in 0 .. MaxCash
<1>1. PICK m \in Modes : up \in [Carried(m) -> 0 .. MaxCash]
  BY DEF Uploads
<1>2. Carried(m) \subseteq Rows /\ Career \in Carried(m)
  BY DEF Carried, Rows
<1>3. DOMAIN Nothing = {}
  BY DEF Nothing
<1> QED
  BY <1>1, <1>2, <1>3

LEMMA IdleFacts ==
  /\ Idle.kind = "idle"
  /\ \A j \in Job : j # Idle
BY DEF Idle, Job

LEMMA BaselineFacts ==
  \A b \in [Rows -> 0 .. MaxCash] : b # Nothing
<1>1. DOMAIN Nothing = {}
  BY DEF Nothing
<1> QED
  BY <1>1, RowsAreNats

-----------------------------------------------------------------------------
\* The boot sequence keeps its type and touches no transaction.

LEMMA BootType ==
  ASSUME BootTypeOK, Boot \/ Die
  PROVE  BootTypeOK'
<1> USE MigrationsAssumption DEF BootTypeOK
<1>6. CASE Ends
  BY <1>6 DEF Ends
<1>1. CASE Start
  BY <1>1 DEF Start
<1>2. CASE SkipApplied
  BY <1>2 DEF SkipApplied, Considers, Files
<1>3. CASE RunStatement /\ ~Ends
  <2>1. at \in Files /\ effect[at] \in Nat /\ stmt \in Nat /\ stmt < ScriptLength
    BY <1>3 DEF RunStatement, Considers
  <2>2. effect[at] = stmt => effect[at] + 1 \in 0 .. ScriptLength /\ stmt + 1 \in 0 .. ScriptLength
    BY <2>1
  <2> QED
    BY <1>3, <2>1, <2>2 DEF RunStatement
<1>4. CASE RecordMigration /\ ~Ends
  <2>1. /\ at \in Files /\ applied' = applied \cup {at} /\ at' = at + 1 /\ stmt' = 0
        /\ UNCHANGED <<server, effect, torn, crashes>>
    BY <1>4 DEF RecordMigration, Considers, Recorded
  <2>2. applied' \subseteq Files /\ at' \in 1 .. (MigrationCount + 1)
    BY <2>1 DEF Files
  <2>3. stmt' \in 0 .. ScriptLength
    BY <2>1
  <2> QED
    BY <2>1, <2>2, <2>3, Zenon
<1>5. CASE Serve /\ ~Ends
  BY <1>5 DEF Serve
<1> QED
  BY <1>1, <1>2, <1>3, <1>4, <1>5, <1>6 DEF Boot, Die

LEMMA InitSInv == Init => SInv
<1> SUFFICES ASSUME Init PROVE SInv
  OBVIOUS
<1>1. BootTypeOK
  <2>1. /\ 0 \in 0 .. ScriptLength /\ 0 \in 0 .. MaxCrashes
        /\ 1 \in 1 .. (MigrationCount + 1)
    BY MigrationsAssumption
  <2> QED
    BY <2>1 DEF Init, BootInit, BootTypeOK
<1>2. db \in Database
  <2>1. FirstPid \in FirstPid .. (FirstPid + MaxAccounts)
    BY StoreAssumption DEF FirstPid
  <2>2. Zero \in [Rows -> 0 .. MaxCash]
    BY StoreAssumption DEF Zero
  <2> QED
    BY <2>1, <2>2 DEF Init, Database
<1>3. StoreTypeOK
  BY <1>1, <1>2, StoreAssumption DEF Init, StoreTypeOK
<1>4. PidsDistinct
  BY DEF Init, PidsDistinct, HasAccount
<1>5. JobOK
  BY DEF Init, JobOK, Idle
<1>6. ConsoleOK
  BY DEF Init, ConsoleOK
<1> QED
  BY <1>3, <1>4, <1>5, <1>6 DEF SInv
-----------------------------------------------------------------------------
\* What a step keeps, shared by the proofs of the actions.

LEMMA MergedType ==
  ASSUME NEW old \in [Rows -> 0 .. MaxCash], NEW up \in Uploads, NEW done \in SUBSET DOMAIN up
  PROVE  Merged(old, up, done) \in [Rows -> 0 .. MaxCash]
<1>1. \A row \in Rows : (IF row \in done THEN up[row] ELSE old[row]) \in 0 .. MaxCash
  BY UploadFacts
<1> QED
  BY <1>1 DEF Merged

\* A step that leaves accounts alone keeps what is said about them.
LEMMA SameAccounts ==
  ASSUME PidsDistinct, db'.accounts = db.accounts, db'.next_pid = db.next_pid
  PROVE  PidsDistinct' /\ \A n : HasAccount(n)' = HasAccount(n)
BY DEF PidsDistinct, HasAccount

\* A handler that runs was started by Login or ReportStats.
LEMMA JobFacts ==
  ASSUME SInv, job # Idle
  PROVE  /\ job \in Job /\ server = "up" /\ tx # "none"
         /\ job.name \in Names /\ job.pid \in Pids
         /\ \/ job.kind = "create" /\ CreateOK
            \/ job.kind = "persist" /\ PersistOK
BY DEF SInv, StoreTypeOK, JobOK, Job

-----------------------------------------------------------------------------
\* One lemma per action.

LEMMA BootSInv ==
  ASSUME SInv, Boot, UNCHANGED storeVars
  PROVE  SInv'
<1>1. server # "up"
  BY DEF Boot, Start, SkipApplied, RunStatement, RecordMigration, Serve, Considers, Ends
<1>2. StoreTypeOK'
  BY BootType DEF SInv, StoreTypeOK, storeVars
<1>3. PidsDistinct' /\ ConsoleOK'
  BY DEF SInv, PidsDistinct, ConsoleOK, HasAccount, storeVars
<1>4. JobOK'
  BY <1>1, IdleFacts DEF SInv, JobOK, storeVars
<1> QED
  BY <1>2, <1>3, <1>4 DEF SInv

LEMMA CrashSInv ==
  ASSUME SInv, Crash
  PROVE  SInv'
<1>1. StoreTypeOK'
  BY BootType DEF SInv, StoreTypeOK, Crash
<1>2. PidsDistinct' /\ ConsoleOK'
  BY DEF SInv, PidsDistinct, ConsoleOK, HasAccount, Crash
<1>3. JobOK'
  BY IdleFacts DEF JobOK, Crash
<1> QED
  BY <1>1, <1>2, <1>3 DEF SInv

LEMMA FailSInv ==
  ASSUME SInv, Fail
  PROVE  SInv'
<1>1. /\ job # Idle /\ job' = Idle /\ draft' = db /\ db' = db /\ tx' = "none"
      /\ UNCHANGED <<baseline, sent, bootVars>>
  BY DEF Fail, Rollback
<1>2. StoreTypeOK'
  BY <1>1 DEF SInv, StoreTypeOK, bootVars, BootTypeOK
<1>3. PidsDistinct' /\ ConsoleOK'
  BY <1>1 DEF SInv, PidsDistinct, ConsoleOK, HasAccount
<1>4. JobOK'
  BY <1>1, IdleFacts DEF JobOK
<1> QED
  BY <1>2, <1>3, <1>4 DEF SInv

\* What COMMIT makes of the accounts and of the totals.
LEMMA CommitEffect ==
  ASSUME SInv, Commit
  PROVE  \/ /\ job.kind = "create" /\ CreateOK
            /\ db'.accounts = [db.accounts EXCEPT ![job.name] = db.next_pid]
            /\ db'.next_pid = db.next_pid + 1 /\ db'.totals = db.totals
         \/ /\ job.kind = "persist" /\ PersistOK
            /\ db'.accounts = db.accounts /\ db'.next_pid = db.next_pid
            /\ db'.totals = [db.totals EXCEPT ![job.pid] =
                               Merged(db.totals[job.pid], job.up, DOMAIN job.up)]
<1>1. job # Idle /\ job.todo = {} /\ db' = draft
  BY DEF Commit
<1>2. CASE job.kind = "create" /\ CreateOK
  BY <1>1, <1>2 DEF CreateOK
<1>3. CASE job.kind = "persist" /\ PersistOK
  <2>1. DOMAIN job.up \ job.todo = DOMAIN job.up
    BY <1>1
  <2> QED
    BY <1>1, <1>3, <2>1 DEF PersistOK
<1> QED
  BY <1>1, <1>2, <1>3, JobFacts

LEMMA CommitSInv ==
  ASSUME SInv, Commit
  PROVE  SInv'
<1>1. /\ job # Idle /\ db' = draft /\ tx' = "none" /\ job' = Idle /\ draft' = draft
      /\ UNCHANGED <<baseline, sent, bootVars>>
  BY DEF Commit
<1>2. StoreTypeOK'
  BY <1>1 DEF SInv, StoreTypeOK, bootVars, BootTypeOK
<1>3. JobOK'
  BY <1>1, IdleFacts DEF JobOK
<1>4. PidsDistinct' /\ \A n \in Names : HasAccount(n) => HasAccount(n)'
  <2>1. CASE job.kind = "create" /\ CreateOK
             /\ db'.accounts = [db.accounts EXCEPT ![job.name] = db.next_pid]
             /\ db'.next_pid = db.next_pid + 1 /\ db'.totals = db.totals
    <3>1. /\ db.accounts \in [Names -> Pids \cup {NoAccount}] /\ job.name \in Names
          /\ db.next_pid \in Pids /\ db.next_pid \in Nat \ {NoAccount}
          /\ \A n \in Names : db.accounts[n] \in Nat
      <4>1. db.accounts \in [Names -> Pids \cup {NoAccount}]
        BY DEF SInv, StoreTypeOK, Database
      <4>2. job.name \in Names /\ db.next_pid \in Pids
        BY <2>1, <1>1, JobFacts DEF CreateOK
      <4>3. \A p \in Pids : p \in Nat \ {NoAccount}
        BY PidsAreNats
      <4>4. NoAccount \in Nat
        BY DEF NoAccount
      <4> QED
        BY <4>1, <4>2, <4>3, <4>4
    <3>2. /\ db'.accounts[job.name] = db.next_pid
          /\ \A n \in Names \ {job.name} : db'.accounts[n] = db.accounts[n]
      BY <2>1, <3>1
    <3> QED
      BY <2>1, <3>1, <3>2 DEF PidsDistinct, HasAccount, SInv
  <2>2. CASE db'.accounts = db.accounts /\ db'.next_pid = db.next_pid
    BY <2>2, SameAccounts DEF SInv
  <2> QED
    BY <2>1, <2>2, CommitEffect
<1>5. ConsoleOK'
  BY <1>1, <1>4 DEF SInv, ConsoleOK
<1> QED
  BY <1>2, <1>3, <1>4, <1>5 DEF SInv

LEMMA WriteCases ==
  ASSUME NEW d, NEW j
  PROVE  /\ Write(UpdateCounter, d, j) = NextPid(d)
         /\ Write(InsertAccount, d, j) = [d EXCEPT !.accounts[j.name] = j.pid]
         /\ \A s \in Rows : Write(s, d, j) = [d EXCEPT !.totals[j.pid][s] = j.up[s]]
<1>1. UpdateCounter # InsertAccount /\ Career # UpdateCounter /\ Career # InsertAccount
  BY DEF UpdateCounter, InsertAccount, Career
<1>2. \A s \in Rows : s # UpdateCounter /\ s # InsertAccount
  BY RowsAreNats
<1> QED
  BY <1>1, <1>2 DEF Write, Stored

LEMMA StatementSInv ==
  ASSUME SInv, NEW s \in Statements, Statement(s)
  PROVE  SInv'
<1> DEFINE j == [job EXCEPT !.todo = @ \ {s}]
<1>1. /\ s \in job.todo /\ draft' = Write(s, draft, job) /\ job' = j
      /\ UNCHANGED <<db, tx, baseline, sent, bootVars>>
  BY DEF Statement
<1>2. job # Idle
  BY <1>1 DEF Idle
<1>3. /\ j \in Job /\ j.kind = job.kind /\ j.name = job.name /\ j.pid = job.pid
      /\ j.up = job.up /\ j.todo = job.todo \ {s}
  BY <1>2, JobFacts DEF Job
<1>4. tx # "none" /\ server = "up" /\ server' = server /\ j # Idle
  BY <1>1, <1>2, <1>3, JobFacts, IdleFacts DEF bootVars
<1>5. job.name \in Names /\ job.pid \in Pids
  BY <1>2, JobFacts
<1>6. db \in Database /\ draft \in Database
  BY DEF SInv, StoreTypeOK
<1> HIDE DEF j
<1>7. ASSUME job.kind = "create", CreateOK
      PROVE  CreateOK' /\ draft' \in Database
  <2>1. /\ s \in {UpdateCounter, InsertAccount} /\ UpdateCounter # InsertAccount
        /\ job.todo \subseteq {UpdateCounter, InsertAccount}
    BY <1>1, <1>7 DEF CreateOK, UpdateCounter, InsertAccount
  <2>2. ~HasAccount(j.name) /\ j.pid = db.next_pid /\ j.todo \subseteq {UpdateCounter, InsertAccount}
    BY <1>3, <1>7 DEF CreateOK
  <2>3. draft' = [accounts |-> IF InsertAccount \in j.todo THEN db.accounts
                               ELSE [db.accounts EXCEPT ![j.name] = j.pid],
                  next_pid |-> IF UpdateCounter \in j.todo THEN db.next_pid
                               ELSE db.next_pid + 1,
                  totals |-> db.totals]
    <3>1. CASE s = UpdateCounter
      <4>1. draft' = [draft EXCEPT !.next_pid = @ + 1]
        BY <1>1, <3>1, WriteCases DEF NextPid
      <4> QED
        BY <1>1, <1>3, <1>7, <2>1, <3>1, <4>1 DEF CreateOK
    <3>2. CASE s = InsertAccount
      <4>1. draft' = [draft EXCEPT !.accounts[job.name] = job.pid]
        BY <1>1, <3>2, WriteCases
      <4> QED
        BY <1>1, <1>3, <1>7, <2>1, <3>2, <4>1 DEF CreateOK
    <3> QED
      BY <2>1, <3>1, <3>2
  <2>4. CreateOK'
    BY <1>1, <2>2, <2>3 DEF CreateOK, HasAccount
  <2>5. db.next_pid + 1 \in FirstPid .. (FirstPid + MaxAccounts)
    BY <1>5, <1>7, StoreAssumption DEF CreateOK, Pids, FirstPid
  <2>6. [db.accounts EXCEPT ![j.name] = j.pid] \in [Names -> Pids \cup {NoAccount}]
    BY <1>3, <1>5, <1>6 DEF Database
  <2> QED
    BY <1>6, <2>3, <2>4, <2>5, <2>6 DEF Database
<1>8. ASSUME job.kind = "persist", PersistOK
      PROVE  PersistOK' /\ draft' \in Database
  <2>1. job.todo \subseteq DOMAIN job.up /\ DOMAIN job.up \subseteq Rows /\ s \in Rows
        /\ job.up[s] \in 0 .. MaxCash
    BY <1>1, <1>8, UploadFacts DEF PersistOK
  <2>2. draft' = [draft EXCEPT !.totals[job.pid][s] = job.up[s]]
    <3>1. s # UpdateCounter /\ s # InsertAccount
      BY <2>1, RowsAreNats
    <3> QED
      BY <1>1, <3>1 DEF Write, Stored
  <2> DEFINE M(todo) == Merged(db.totals[job.pid], job.up, DOMAIN job.up \ todo)
  <2>3. [M(job.todo) EXCEPT ![s] = job.up[s]] = M(j.todo)
    <3>1. [M(job.todo) EXCEPT ![s] = job.up[s]] = M(job.todo \ {s})
      <4>1. s \in DOMAIN job.up /\ s \in Rows /\ s \in job.todo
        BY <1>1, <2>1
      <4> QED
        BY <4>1 DEF Merged
    <3> QED
      BY <1>3, <3>1
  <2>4. draft.totals = [db.totals EXCEPT ![job.pid] = M(job.todo)]
        /\ draft.accounts = db.accounts /\ draft.next_pid = db.next_pid
        /\ DOMAIN db.totals = Pids
    BY <1>6, <1>8 DEF PersistOK, Database
  <2>5. draft = [accounts |-> db.accounts, next_pid |-> db.next_pid,
                 totals |-> [db.totals EXCEPT ![job.pid] = M(job.todo)]]
    BY <1>8 DEF PersistOK
  <2>6. PersistOK' = (/\ HasAccount(j.name) /\ j.pid = db.accounts[j.name]
                      /\ j.up = sent[j.name] /\ j.up \in Uploads
                      /\ j.todo \subseteq DOMAIN j.up
                      /\ draft' = [accounts |-> db.accounts, next_pid |-> db.next_pid,
                                   totals |-> [db.totals EXCEPT ![job.pid] = M(j.todo)]])
    BY <1>1, <1>3 DEF PersistOK, HasAccount
  <2> HIDE DEF M
  <2>7. [draft.totals EXCEPT ![job.pid][s] = job.up[s]] = [db.totals EXCEPT ![job.pid] = M(j.todo)]
    BY <1>5, <2>3, <2>4
  <2>8. draft' = [accounts |-> db.accounts, next_pid |-> db.next_pid,
                  totals |-> [db.totals EXCEPT ![job.pid] = M(j.todo)]]
    BY <2>2, <2>5, <2>7
  <2>9. PersistOK'
    BY <1>1, <1>3, <1>8, <2>1, <2>6, <2>8 DEF PersistOK
  <2> QED
    BY <1>6, <2>1, <2>2, <2>9 DEF Database
<1>9. JobOK' /\ draft' \in Database
  <2>1. (job.kind = "create" /\ CreateOK) \/ (job.kind = "persist" /\ PersistOK)
    BY <1>2, JobFacts
  <2> QED
    BY <1>1, <1>3, <1>4, <1>7, <1>8, <2>1 DEF JobOK
<1>10. StoreTypeOK'
  BY <1>1, <1>3, <1>9 DEF SInv, StoreTypeOK, bootVars, BootTypeOK
<1>11. PidsDistinct' /\ ConsoleOK'
  BY <1>1 DEF SInv, PidsDistinct, ConsoleOK, HasAccount
<1> QED
  BY <1>9, <1>10, <1>11 DEF SInv

LEMMA LoginSInv ==
  ASSUME SInv, NEW n \in Names, Login(n)
  PROVE  SInv'
<1> DEFINE j == [kind |-> "create", name |-> n, pid |-> db.next_pid,
                 up |-> Nothing, todo |-> {UpdateCounter, InsertAccount}]
<1>1. /\ ~HasAccount(n) /\ db.next_pid \in Pids /\ server = "up"
      /\ tx' = "login" /\ draft' = db /\ job' = j
      /\ UNCHANGED <<db, baseline, sent, bootVars>>
  BY DEF Login, Begin, Ready
<1>2. j \in Job
  BY <1>1 DEF Job, Statements
<1>3. StoreTypeOK'
  BY <1>1, <1>2 DEF SInv, StoreTypeOK, bootVars, BootTypeOK
<1>4. CreateOK'
  <2>1. draft' = [accounts |-> db.accounts, next_pid |-> db.next_pid, totals |-> db.totals]
    BY <1>1 DEF SInv, StoreTypeOK, Database
  <2> QED
    BY <1>1, <2>1 DEF CreateOK, HasAccount
<1>5. JobOK'
  BY <1>1, <1>2, <1>4, IdleFacts DEF JobOK, bootVars
<1>6. PidsDistinct' /\ ConsoleOK'
  BY <1>1 DEF SInv, PidsDistinct, ConsoleOK, HasAccount
<1> QED
  BY <1>3, <1>5, <1>6 DEF SInv

LEMMA ReportStatsSInv ==
  ASSUME SInv, NEW n \in Names, ReportStats(n)
  PROVE  SInv'
<1> DEFINE j == [kind |-> "persist", name |-> n, pid |-> db.accounts[n],
                 up |-> sent[n], todo |-> DOMAIN sent[n]]
<1>1. /\ HasAccount(n) /\ sent[n] # Nothing /\ server = "up"
      /\ tx' = "shared" /\ draft' = db /\ job' = j
      /\ UNCHANGED <<db, baseline, sent, bootVars>>
  BY DEF ReportStats, Begin, Ready
<1>2. /\ sent[n] \in Uploads /\ db.accounts[n] \in Pids /\ db \in Database
  BY <1>1 DEF SInv, StoreTypeOK, Database, HasAccount
<1>3. j \in Job
  BY <1>2, UploadFacts DEF Job, Statements
<1>4. StoreTypeOK'
  BY <1>1, <1>3 DEF SInv, StoreTypeOK, bootVars, BootTypeOK
<1>5. PersistOK'
  <2>1. Merged(db.totals[db.accounts[n]], sent[n], {}) = db.totals[db.accounts[n]]
    BY <1>2 DEF Merged, Database
  <2>2. DOMAIN sent[n] \ DOMAIN sent[n] = {}
    OBVIOUS
  <2>3. draft' = [accounts |-> db.accounts, next_pid |-> db.next_pid,
                  totals |-> [db.totals EXCEPT ![db.accounts[n]] =
                    Merged(db.totals[db.accounts[n]], sent[n], DOMAIN sent[n] \ DOMAIN sent[n])]]
    BY <1>1, <1>2, <2>1, <2>2 DEF Database
  <2> QED
    BY <1>1, <1>2, <2>3 DEF PersistOK, HasAccount
<1>6. JobOK'
  BY <1>1, <1>3, <1>5, IdleFacts DEF JobOK, bootVars
<1>7. PidsDistinct' /\ ConsoleOK'
  BY <1>1 DEF SInv, PidsDistinct, ConsoleOK, HasAccount
<1> QED
  BY <1>4, <1>6, <1>7 DEF SInv

\* While no handler runs nobody has a transaction open: the connection that
\* the handlers share shows what is on disk.
LEMMA ServedFacts ==
  ASSUME SInv, Ready, NEW n \in Names, HasAccount(n), NEW failed
  PROVE  /\ SharedView = db
         /\ Served(n, failed) \in [Rows -> 0 .. MaxCash]
         /\ \A row \in Rows : Served(n, failed)[row] =
              IF row \in failed THEN 0 ELSE db.totals[db.accounts[n]][row]
<1>1. SharedView = db
  BY DEF SInv, JobOK, Ready, SharedView
<1>2. db.totals[db.accounts[n]] \in [Rows -> 0 .. MaxCash]
  BY DEF SInv, StoreTypeOK, Database, HasAccount
<1>3. 0 \in 0 .. MaxCash
  BY StoreAssumption
<1> QED
  BY <1>1, <1>2, <1>3 DEF Served

LEMMA UserStatsSInv ==
  ASSUME SInv, NEW n \in Names, NEW failed \in SUBSET Rows, UserStats(n, failed)
  PROVE  SInv'
<1>1. /\ Ready /\ HasAccount(n)
      /\ baseline' = [baseline EXCEPT ![n] = Served(n, failed)]
      /\ sent' = [sent EXCEPT ![n] = Nothing]
      /\ UNCHANGED <<db, draft, tx, job, bootVars>>
  BY DEF UserStats
<1>2. job = Idle
  BY <1>1 DEF Ready
<1>3. Served(n, failed) \in [Rows -> 0 .. MaxCash]
  BY <1>1, ServedFacts
<1>4. StoreTypeOK'
  BY <1>1, <1>3 DEF SInv, StoreTypeOK, bootVars, BootTypeOK
<1>5. JobOK'
  BY <1>1, <1>2, IdleFacts DEF SInv, JobOK, bootVars
<1>6. PidsDistinct'
  BY <1>1 DEF SInv, PidsDistinct, HasAccount
<1>7. ConsoleOK'
  BY <1>1 DEF SInv, StoreTypeOK, ConsoleOK, HasAccount
<1> QED
  BY <1>4, <1>5, <1>6, <1>7 DEF SInv

\* What a console reports after a match.
LEMMA PlayFacts ==
  ASSUME SInv, NEW n \in Names, NEW m \in Modes, NEW cash \in 1 .. MaxCash, Play(n, m, cash)
  PROVE  /\ baseline[n] \in [Rows -> 0 .. MaxCash] /\ sent[n] = Nothing
         /\ sent'[n] \in [Carried(m) -> 0 .. MaxCash] /\ sent'[n] \in Uploads
         /\ \A row \in Carried(m) : baseline[n][row] <= sent'[n][row] \/ row = InstantCash
         /\ InstantCash \in Carried(m) =>
              sent'[n][InstantCash] = baseline[n][Career] + cash
         /\ sent'[n][Career] = baseline[n][Career] + cash
<1>1. baseline[n] \in [Rows -> 0 .. MaxCash] /\ sent[n] = Nothing
  BY DEF Play, SInv, StoreTypeOK, ConsoleOK
<1>2. Carried(m) \subseteq Rows /\ Career \in Carried(m)
  BY DEF Carried, Rows
<1> DEFINE up == [row \in Carried(m) |->
                    CASE row \in {Career, InstantCash} -> baseline[n][Career] + cash
                      [] row = m -> Best(baseline[n][row], cash)
                      [] OTHER -> baseline[n][row]]
<1>3. sent'[n] = up /\ baseline[n][Career] + cash <= MaxCash
  BY DEF Play, SInv, StoreTypeOK
<1>4. m \notin {Career, InstantCash}
  BY StoreAssumption DEF Modes, Career, InstantCash, CampaignCash
<1>5. baseline[n][Career] + cash \in 0 .. MaxCash
  BY <1>1, <1>2, <1>3, StoreAssumption
<1>6. ASSUME NEW row \in Carried(m)
      PROVE  /\ up[row] \in 0 .. MaxCash
             /\ baseline[n][row] <= up[row] \/ row = InstantCash
  <2>1. baseline[n][row] \in 0 .. MaxCash /\ baseline[n][Career] \in 0 .. MaxCash
    BY <1>1, <1>2
  <2>2. CASE row \in {Career, InstantCash}
    <3>1. up[row] = baseline[n][Career] + cash
      BY <1>4, <2>2
    <3>2. baseline[n][Career] <= baseline[n][Career] + cash
      BY <2>1, StoreAssumption
    <3> HIDE DEF up
    <3> QED
      BY <1>5, <2>2, <3>1, <3>2
  <2>3. CASE row = m
    BY <1>4, <2>1, <2>3, StoreAssumption DEF Best
  <2>4. CASE row \notin {Career, InstantCash} /\ row # m
    BY <2>1, <2>4, StoreAssumption
  <2> QED
    BY <2>2, <2>3, <2>4
<1>7. up \in [Carried(m) -> 0 .. MaxCash]
  BY <1>6
<1>8. up \in Uploads
  BY <1>7 DEF Uploads
<1>9. /\ up[Career] = baseline[n][Career] + cash
      /\ InstantCash \in Carried(m) => up[InstantCash] = baseline[n][Career] + cash
  BY <1>2, <1>4
<1> HIDE DEF up
<1> QED
  BY <1>1, <1>3, <1>6, <1>7, <1>8, <1>9

LEMMA PlaySInv ==
  ASSUME SInv, NEW n \in Names, NEW m \in Modes, NEW cash \in 1 .. MaxCash, Play(n, m, cash)
  PROVE  SInv'
<1>1. /\ baseline[n] # Nothing /\ baseline' = [baseline EXCEPT ![n] = Nothing]
      /\ \A k \in Names \ {n} : sent'[k] = sent[k]
      /\ UNCHANGED <<db, draft, tx, job, bootVars>>
  BY DEF Play, SInv, StoreTypeOK
<1>2. sent'[n] \in Uploads /\ sent[n] = Nothing
  BY PlayFacts
<1>3. sent' \in [Names -> Uploads \cup {Nothing}]
  BY <1>2 DEF Play, SInv, StoreTypeOK
<1>4. StoreTypeOK'
  BY <1>1, <1>3 DEF SInv, StoreTypeOK, bootVars, BootTypeOK
<1>5. PidsDistinct' /\ ConsoleOK'
  <2>1. baseline'[n] = Nothing /\ \A k \in Names \ {n} : baseline'[k] = baseline[k]
    BY <1>1 DEF SInv, StoreTypeOK
  <2> QED
    BY <1>1, <2>1 DEF SInv, PidsDistinct, ConsoleOK, HasAccount
<1>6. JobOK'
  <2>1. job.kind = "persist" /\ PersistOK => job.name # n
    BY <1>2, UploadFacts DEF PersistOK
  <2>2. job.kind = "persist" => PersistOK'
    <3> SUFFICES ASSUME job.kind = "persist" PROVE PersistOK'
      OBVIOUS
    <3>1. PersistOK /\ job.name \in Names
      BY JobFacts, IdleFacts DEF SInv, JobOK
    <3>2. sent'[job.name] = sent[job.name]
      BY <1>1, <2>1, <3>1
    <3> QED
      BY <1>1, <3>1, <3>2 DEF PersistOK, HasAccount
  <2>3. job.kind = "create" => CreateOK'
    BY <1>1 DEF SInv, JobOK, CreateOK, HasAccount
  <2> QED
    BY <1>1, <2>2, <2>3 DEF SInv, JobOK, bootVars
<1> QED
  BY <1>4, <1>5, <1>6 DEF SInv

LEMMA NextSInv == SInv /\ [Next]_vars => SInv'
<1> SUFFICES ASSUME SInv, [Next]_vars PROVE SInv'
  OBVIOUS
<1>1. CASE Boot /\ UNCHANGED storeVars
  BY <1>1, BootSInv
<1>2. CASE Crash
  BY <1>2, CrashSInv
<1>3. ASSUME NEW s \in Statements, Statement(s) PROVE SInv'
  BY <1>3, StatementSInv
<1>4. CASE Commit
  BY <1>4, CommitSInv
<1>5. CASE Fail
  BY <1>5, FailSInv
<1>6. ASSUME NEW n \in Names, Login(n) PROVE SInv'
  BY <1>6, LoginSInv
<1>7. ASSUME NEW n \in Names, ReportStats(n) PROVE SInv'
  BY <1>7, ReportStatsSInv
<1>8. ASSUME NEW n \in Names, NEW failed \in SUBSET Rows, UserStats(n, failed) PROVE SInv'
  BY <1>8, UserStatsSInv
<1>9. ASSUME NEW n \in Names, NEW m \in Modes, NEW cash \in 1 .. MaxCash, Play(n, m, cash)
      PROVE  SInv'
  BY <1>9, PlaySInv
<1>10. CASE UNCHANGED vars
  BY <1>10 DEF vars, SInv, StoreTypeOK, BootTypeOK, PidsDistinct, JobOK, CreateOK,
              PersistOK, ConsoleOK, HasAccount
<1> QED
  BY <1>1, <1>2, <1>3, <1>4, <1>5, <1>6, <1>7, <1>8, <1>9, <1>10 DEF Next

\* The inductive invariant of the persistence layer.
THEOREM Inductive == Spec => []SInv
<1>1. Init => SInv
  BY InitSInv
<1>2. SInv /\ [Next]_vars => SInv'
  BY NextSInv
<1> QED
  BY <1>1, <1>2, PTL DEF Spec

\* No two psn_ids share a pid, and the counter is ahead of every pid, whatever
\* fails or crashes in the middle of a registration.
THEOREM PidsDistinctHolds == Spec => []PidsDistinct
<1>1. SInv => PidsDistinct
  BY DEF SInv
<1> QED
  BY Inductive, <1>1, PTL

-----------------------------------------------------------------------------
\* Migrations.

\* How far the boot sequence is: recorded files are complete; a boot has gone
\* past recorded files only, and what it ran of the present one is what is on
\* disk; and unless a boot ended inside a file, nothing else of it is.
BootInv ==
  /\ \A f \in applied : effect[f] = ScriptLength
  /\ server = "booting" => \A f \in Files : f < at => f \in applied
  /\ server = "booting" => (at \in applied \/ at \notin Files => stmt = 0)
  /\ server = "booting" /\ stmt > 0 => effect[at] = stmt
  /\ server = "up" => Files \subseteq applied
  /\ ~torn => \A f \in Files \ applied :
       effect[f] = IF server = "booting" /\ at = f THEN stmt ELSE 0

\* main() ends at any point: torn remembers it if it was inside a file.
LEMMA EndsBoot ==
  ASSUME BootTypeOK, BootInv, Ends
  PROVE  BootInv'
<1>1. /\ server' = "down" /\ UNCHANGED <<at, stmt, effect, applied>>
      /\ torn' = (torn \/ (server = "booting" /\ stmt > 0))
  BY DEF Ends
<1>2. ASSUME ~torn', NEW f \in Files \ applied
      PROVE  effect[f] = 0
  <2>1. ~torn /\ ~(server = "booting" /\ stmt > 0)
    BY <1>1, <1>2, Zenon
  <2>2. stmt \in Nat
    BY MigrationsAssumption DEF BootTypeOK
  <2> QED
    BY <1>2, <2>1, <2>2 DEF BootInv
<1> QED
  BY <1>1, <1>2 DEF BootInv

\* A statement of the present file is only run if the one before it was.
LEMMA StatementBoot ==
  ASSUME BootTypeOK, BootInv, RunStatement
  PROVE  BootInv'
<1>0. /\ server = "booting" /\ at \in Files /\ at \notin applied /\ stmt \in Nat
      /\ effect[at] \in Nat /\ UNCHANGED <<at, applied>>
  BY MigrationsAssumption DEF RunStatement, Considers, BootTypeOK
<1>1. CASE server' = "down" /\ UNCHANGED <<stmt, effect, torn>> /\ effect[at] > stmt
  <2>1. torn
    BY <1>0, <1>1 DEF BootInv
  <2> QED
    BY <1>0, <1>1, <2>1 DEF BootInv
<1>2. CASE /\ effect[at] = stmt /\ effect' = [effect EXCEPT ![at] = @ + 1]
           /\ stmt' = stmt + 1 /\ server' = server /\ torn' = torn
  <2>1. /\ effect'[at] = stmt + 1
        /\ \A f \in Files : f # at => effect'[f] = effect[f]
    BY <1>0, <1>2 DEF BootTypeOK
  <2>2. applied \subseteq Files
    BY DEF BootTypeOK
  <2> QED
    BY <1>0, <1>2, <2>1, <2>2 DEF BootInv
<1> QED
  BY <1>1, <1>2, EndsBoot DEF RunStatement

\* Every step of the boot sequence, and a kill at any point, keeps it.
LEMMA BootStep ==
  ASSUME BootTypeOK, BootInv, Boot \/ Die \/ UNCHANGED bootVars
  PROVE  BootInv'
<1>0. at \in Nat /\ stmt \in Nat /\ ScriptLength \in Nat /\ MigrationCount \in Nat
        /\ Files = 1 .. MigrationCount /\ applied \subseteq Files
  BY MigrationsAssumption DEF BootTypeOK, Files
<1>1. CASE Start
  <2>1. \A f \in Files : ~(f < 1)
    BY <1>0
  <2> QED
    BY <1>1, <2>1 DEF BootInv, Start
<1>2. CASE SkipApplied
  <2>1. \A f \in Files : f < at + 1 => f < at \/ f = at
    BY <1>0
  <2>2. server = "booting" /\ at \in applied /\ at' = at + 1 /\ stmt = 0
          /\ UNCHANGED <<server, stmt, effect, applied, torn>>
    BY <1>2 DEF BootInv, SkipApplied, Considers
  <2> QED
    BY <1>0, <2>1, <2>2 DEF BootInv
<1>3. CASE RecordMigration /\ ~Ends
  <2>1. \A f \in Files : f < at + 1 => f < at \/ f = at
    BY <1>0
  <2>2. /\ server = "booting" /\ at \in Files /\ at \notin applied /\ stmt = ScriptLength
        /\ applied' = applied \cup {at} /\ at' = at + 1 /\ stmt' = 0
        /\ UNCHANGED <<server, effect, torn>>
    BY <1>3 DEF RecordMigration, Considers, Recorded
  <2>3. effect[at] = ScriptLength
    BY <2>2, MigrationsAssumption DEF BootInv
  <2> QED
    BY <1>0, <2>1, <2>2, <2>3 DEF BootInv
<1>4. CASE Serve /\ ~Ends
  <2>1. \A f \in Files : f < MigrationCount + 1
    BY <1>0
  <2>2. at \notin Files
    BY <1>0, <1>4 DEF Serve
  <2> QED
    BY <1>4, <2>1, <2>2 DEF BootInv, Serve
<1>5. CASE Ends
  BY <1>5, EndsBoot
<1>6. CASE UNCHANGED bootVars
  BY <1>6 DEF BootInv, bootVars
<1> QED
  BY <1>1, <1>2, <1>3, <1>4, <1>5, <1>6, StatementBoot DEF Boot, Die

\* The handlers and the transactions never touch it.
THEOREM BootInductive == Spec => []BootInv
<1>1. Init => BootInv
  BY DEF Init, BootInit, BootInv
<1>2. SInv /\ BootInv /\ [Next]_vars => BootInv'
  <2> SUFFICES ASSUME SInv, BootInv, [Next]_vars PROVE BootInv'
    OBVIOUS
  <2>1. Boot \/ Die \/ UNCHANGED bootVars
    BY DEF Next, vars, bootVars, Crash, Statement, Commit, Fail, Login, ReportStats, Begin,
           UserStats, Play
  <2> QED
    BY <2>1, BootStep DEF SInv, StoreTypeOK
<1> QED
  BY <1>1, <1>2, Inductive, PTL DEF Spec

\* The server is up only on a complete schema, whatever was killed before.
THEOREM SchemaCompleteHolds == Spec => []SchemaComplete
<1>1. BootInv => SchemaComplete
  BY DEF BootInv, SchemaComplete
<1> QED
  BY <1>1, BootInductive, PTL

\* No boot runs again a statement that has taken effect, unless an earlier boot
\* ended inside a migration, killed or raising; that is the safety half of
\* BackUpUnlessTorn.
THEOREM StatementsOnceHolds == Spec => []StatementsOnce
<1>1. BootInv => StatementsOnce
  BY DEF BootInv, StatementsOnce, Considers
<1> QED
  BY <1>1, BootInductive, PTL

-----------------------------------------------------------------------------
\* The refinement: COMMIT is the Save or the Create of the service, Play and
\* UserStats report and withdraw, and every other step is a stutter.

LEMMA InitService == Init => S!Init
BY DEF Init, S!Init, Zero

SVars == <<db.accounts, db.next_pid, sent, db.totals>>

LEMMA CommitService ==
  ASSUME SInv, Commit
  PROVE  S!Next
<1>1. job.name \in Names /\ sent' = sent /\ job # Idle
  BY JobFacts DEF Commit
<1>2. CASE /\ job.kind = "create" /\ CreateOK
           /\ db'.accounts = [db.accounts EXCEPT ![job.name] = db.next_pid]
           /\ db'.next_pid = db.next_pid + 1 /\ db'.totals = db.totals
  <2>1. S!Create(job.name)
    BY <1>1, <1>2 DEF S!Create, CreateOK, HasAccount
  <2> QED
    BY <1>1, <2>1 DEF S!Next
<1>3. CASE /\ job.kind = "persist" /\ PersistOK
           /\ db'.accounts = db.accounts /\ db'.next_pid = db.next_pid
           /\ db'.totals = [db.totals EXCEPT ![job.pid] =
                              Merged(db.totals[job.pid], job.up, DOMAIN job.up)]
  <2>1. S!Save(job.name)
    BY <1>1, <1>3 DEF S!Save, PersistOK, HasAccount, Merged
  <2> QED
    BY <1>1, <2>1 DEF S!Next
<1> QED
  BY <1>2, <1>3, CommitEffect

LEMMA StepService ==
  ASSUME SInv, [Next]_vars
  PROVE  S!Next \/ UNCHANGED SVars
<1>1. CASE Boot /\ UNCHANGED storeVars
  BY <1>1 DEF storeVars, SVars
<1>2. CASE Crash
  BY <1>2 DEF Crash, SVars
<1>3. ASSUME NEW s \in Statements, Statement(s) PROVE UNCHANGED SVars
  BY <1>3 DEF Statement, SVars
<1>4. CASE Commit
  BY <1>4, CommitService
<1>5. CASE Fail
  BY <1>5 DEF Fail, Rollback, SVars
<1>6. ASSUME NEW n \in Names, Login(n) \/ ReportStats(n) PROVE UNCHANGED SVars
  BY <1>6 DEF Login, ReportStats, Begin, SVars
<1>7. ASSUME NEW n \in Names, NEW failed \in SUBSET Rows, UserStats(n, failed) PROVE S!Next
  <2>1. S!Report(n, Nothing)
    BY <1>7 DEF UserStats, S!Report
  <2> QED
    BY <2>1 DEF S!Next
<1>8. ASSUME NEW n \in Names, NEW m \in Modes, NEW cash \in 1 .. MaxCash, Play(n, m, cash)
      PROVE  S!Next
  <2>1. sent'[n] \in Uploads
    BY <1>8, PlayFacts
  <2>2. sent' = [sent EXCEPT ![n] = sent'[n]]
    BY <1>8 DEF Play, SInv, StoreTypeOK
  <2>3. S!Report(n, sent'[n])
    BY <1>8, <2>2 DEF Play, S!Report
  <2> QED
    BY <2>1, <2>3 DEF S!Next
<1>9. CASE UNCHANGED vars
  BY <1>9 DEF vars, SVars
<1> QED
  BY <1>1, <1>2, <1>3, <1>4, <1>5, <1>6, <1>7, <1>8, <1>9 DEF Next

\* The database with its transactions, failures and crashes implements the
\* service: whole registrations and whole uploads or nothing.
THEOREM ImplementsServiceHolds == Spec => ImplementsService
<1>1. Init => S!Init
  BY InitService
<1>2. SInv /\ [Next]_vars => [S!Next]_SVars
  BY StepService
<1>3. Spec => []SInv
  BY Inductive
<1> QED
  BY <1>1, <1>2, <1>3, PTL DEF Spec, ImplementsService, S!Spec, SVars

-----------------------------------------------------------------------------
\* While every SELECT succeeds, a console works with what is stored.

\* What the rows of an account, a baseline and an upload have to do with each
\* other.  A baseline is what is stored; an upload is not below it anywhere,
\* and its instant cash board is its career cash.
RowsOK ==
  /\ ServedIsPersisted
  /\ BoardsBehindCareer
  /\ \A n \in Names : sent[n] # Nothing =>
       /\ \A row \in DOMAIN sent[n] : Totals(n)[row] <= sent[n][row]
       /\ InstantCash \in DOMAIN sent[n] => sent[n][InstantCash] = sent[n][Career]

LEMMA InitRows == Init => RowsOK
<1> SUFFICES ASSUME Init PROVE RowsOK
  OBVIOUS
<1>1. \A pid \in Pids : db.totals[pid][InstantCash] = 0 /\ db.totals[pid][Career] = 0
  BY DEF Init, Zero, Rows
<1>2. BoardsBehindCareer
  BY <1>1 DEF BoardsBehindCareer
<1> QED
  BY <1>2 DEF RowsOK, ServedIsPersisted, Init

\* Nobody's account, rows, baseline or upload changes.
LEMMA SameRows ==
  ASSUME RowsOK, db' = db, UNCHANGED <<baseline, sent>>
  PROVE  RowsOK'
BY DEF RowsOK, ServedIsPersisted, BoardsBehindCareer, Totals, HasAccount

LEMMA TotalsType ==
  ASSUME SInv, NEW pid \in Pids, NEW row \in Rows
  PROVE  db.totals[pid][row] \in Nat
<1>1. db.totals \in [Pids -> [Rows -> 0 .. MaxCash]]
  BY DEF SInv, StoreTypeOK, Database
<1> QED
  BY <1>1, StoreAssumption

LEMMA CommitRows ==
  ASSUME SInv, RowsOK, Commit
  PROVE  /\ RowsOK'
         /\ \A pid \in Pids, row \in Rows : db.totals[pid][row] <= db'.totals[pid][row]
<1>1. job # Idle /\ job.name \in Names /\ job.pid \in Pids /\ UNCHANGED <<baseline, sent>>
  BY JobFacts DEF Commit
<1>2. /\ db.accounts \in [Names -> Pids \cup {NoAccount}]
      /\ db.totals \in [Pids -> [Rows -> 0 .. MaxCash]]
  BY DEF SInv, StoreTypeOK, Database
<1>3. CASE /\ job.kind = "create" /\ CreateOK
           /\ db'.accounts = [db.accounts EXCEPT ![job.name] = db.next_pid]
           /\ db'.totals = db.totals
  <2>1. baseline[job.name] = Nothing /\ sent[job.name] = Nothing
    BY <1>1, <1>3 DEF CreateOK, SInv, ConsoleOK
  <2>2. \A n \in Names \ {job.name} : db'.accounts[n] = db.accounts[n]
    BY <1>1, <1>2, <1>3
  <2>3. RowsOK'
    BY <1>1, <1>3, <2>1, <2>2
    DEF RowsOK, ServedIsPersisted, BoardsBehindCareer, Totals, HasAccount
  <2> QED
    BY <1>3, <2>3, TotalsType
<1>4. CASE /\ job.kind = "persist" /\ PersistOK /\ db'.accounts = db.accounts
           /\ db'.totals = [db.totals EXCEPT ![job.pid] =
                              Merged(db.totals[job.pid], job.up, DOMAIN job.up)]
  <2> DEFINE old == db.totals[job.pid]
             new == db'.totals[job.pid]
             up == job.up
  <2>1. /\ job.pid = db.accounts[job.name] /\ HasAccount(job.name)
        /\ up = sent[job.name] /\ up \in Uploads /\ up # Nothing
    BY <1>4, UploadFacts DEF PersistOK
  <2>2. /\ DOMAIN up \subseteq Rows /\ Career \in DOMAIN up
        /\ \A row \in DOMAIN up : up[row] \in Nat
    BY <2>1, UploadFacts, StoreAssumption
  <2>3. /\ \A row \in DOMAIN up : new[row] = up[row]
        /\ \A row \in Rows \ DOMAIN up : new[row] = old[row]
        /\ \A pid \in Pids \ {job.pid} : db'.totals[pid] = db.totals[pid]
    BY <1>1, <1>2, <1>4, <2>2 DEF Merged
  <2>4. /\ \A row \in DOMAIN up : old[row] <= up[row]
        /\ InstantCash \in DOMAIN up => up[InstantCash] = up[Career]
    BY <1>1, <2>1 DEF RowsOK, Totals
  <2>5. old[InstantCash] <= old[Career] /\ InstantCash \in Rows /\ Career \in Rows
    BY <1>1 DEF RowsOK, BoardsBehindCareer, Rows
  <2>6. \A row \in Rows : old[row] \in Nat
    BY <1>1, TotalsType
  <2>7. \A n \in Names \ {job.name} : HasAccount(n) => db.accounts[n] \in Pids \ {job.pid}
    BY <1>1, <1>2, <2>1 DEF SInv, PidsDistinct, HasAccount
  <2> HIDE DEF old, new, up
  <2>8. \A pid \in Pids, row \in Rows : db.totals[pid][row] <= db'.totals[pid][row]
    <3> SUFFICES ASSUME NEW pid \in Pids, NEW row \in Rows
                 PROVE  db.totals[pid][row] <= db'.totals[pid][row]
      OBVIOUS
    <3>1. CASE pid = job.pid
      <4>1. old[row] <= new[row]
        BY <2>3, <2>4, <2>6
      <4> QED
        BY <3>1, <4>1 DEF old, new
    <3>2. CASE pid # job.pid
      BY <2>3, <3>2, TotalsType
    <3> QED
      BY <3>1, <3>2
  <2>9. BoardsBehindCareer'
    <3> SUFFICES ASSUME NEW pid \in Pids
                 PROVE  db'.totals[pid][InstantCash] <= db'.totals[pid][Career]
      BY DEF BoardsBehindCareer
    <3>1. CASE pid = job.pid
      <4>1. new[Career] = up[Career] /\ up[Career] \in Nat /\ old[Career] <= up[Career]
        BY <2>2, <2>3, <2>4
      <4>2. CASE InstantCash \in DOMAIN up
        <5>1. new[InstantCash] = up[Career]
          BY <2>3, <2>4, <4>2
        <5>2. new[InstantCash] <= new[Career]
          BY <4>1, <5>1
        <5> QED
          BY <3>1, <5>2 DEF new
      <4>3. CASE InstantCash \notin DOMAIN up
        <5>1. new[InstantCash] = old[InstantCash]
          BY <2>3, <2>5, <4>3
        <5>2. new[InstantCash] <= new[Career]
          BY <2>5, <2>6, <4>1, <5>1
        <5> QED
          BY <3>1, <5>2 DEF new
      <4> QED
        BY <4>2, <4>3
    <3>2. CASE pid # job.pid
      BY <2>3, <3>2 DEF RowsOK, BoardsBehindCareer
    <3> QED
      BY <3>1, <3>2
  <2>10. baseline[job.name] = Nothing
    BY <1>1, <2>1 DEF SInv, ConsoleOK, up
  <2>11. ServedIsPersisted'
    BY <1>1, <1>4, <2>3, <2>7, <2>10 DEF RowsOK, ServedIsPersisted, Totals, HasAccount
  <2>12. ASSUME NEW n \in Names, sent[n] # Nothing
         PROVE  /\ \A row \in DOMAIN sent[n] : db'.totals[db'.accounts[n]][row] <= sent[n][row]
                /\ InstantCash \in DOMAIN sent[n] => sent[n][InstantCash] = sent[n][Career]
    <3>1. CASE n = job.name
      <4>1. \A row \in DOMAIN up : new[row] <= up[row]
        BY <2>2, <2>3
      <4> QED
        BY <1>4, <2>1, <2>4, <3>1, <4>1 DEF up, new
    <3>2. CASE n # job.name
      <4>1. HasAccount(n)
        BY <2>12 DEF SInv, ConsoleOK
      <4> QED
        BY <1>4, <2>3, <2>7, <2>12, <3>2, <4>1 DEF RowsOK, Totals
    <3> QED
      BY <3>1, <3>2
  <2> QED
    BY <1>1, <2>8, <2>9, <2>11, <2>12 DEF RowsOK, Totals
<1> QED
  BY <1>3, <1>4, CommitEffect

LEMMA UserStatsRows ==
  ASSUME ReadFaults = FALSE, SInv, RowsOK,
         NEW n \in Names, NEW failed \in SUBSET Rows, UserStats(n, failed)
  PROVE  RowsOK'
<1>1. /\ HasAccount(n) /\ failed = {} /\ Ready /\ db' = db
      /\ baseline'[n] = Served(n, failed) /\ sent'[n] = Nothing
      /\ \A k \in Names \ {n} : baseline'[k] = baseline[k] /\ sent'[k] = sent[k]
  BY DEF UserStats, SInv, StoreTypeOK
<1>2. Served(n, failed) = Totals(n)
  <2>1. Totals(n) \in [Rows -> 0 .. MaxCash]
    BY <1>1 DEF SInv, StoreTypeOK, Database, HasAccount, Totals
  <2> QED
    BY <1>1, <2>1, ServedFacts DEF Totals
<1>3. ServedIsPersisted'
  BY <1>1, <1>2 DEF RowsOK, ServedIsPersisted, Totals, HasAccount
<1> QED
  BY <1>1, <1>3 DEF RowsOK, BoardsBehindCareer, Totals

LEMMA PlayRows ==
  ASSUME SInv, RowsOK,
         NEW n \in Names, NEW m \in Modes, NEW cash \in 1 .. MaxCash, Play(n, m, cash)
  PROVE  RowsOK'
<1>1. /\ baseline[n] # Nothing /\ baseline'[n] = Nothing /\ db' = db
      /\ \A k \in Names \ {n} : baseline'[k] = baseline[k] /\ sent'[k] = sent[k]
  BY DEF Play, SInv, StoreTypeOK
<1>2. baseline[n] = Totals(n) /\ baseline[n] \in [Rows -> 0 .. MaxCash]
  BY <1>1, PlayFacts DEF RowsOK, ServedIsPersisted
<1>3. DOMAIN sent'[n] = Carried(m) /\ InstantCash \in Rows /\ Career \in Rows
  BY PlayFacts DEF Rows
<1>4. Totals(n)[InstantCash] <= Totals(n)[Career]
  BY <1>1 DEF RowsOK, ServedIsPersisted, BoardsBehindCareer, Totals, HasAccount,
      SInv, StoreTypeOK, Database
<1>5. ASSUME NEW row \in Carried(m)
      PROVE  Totals(n)[row] <= sent'[n][row]
  <2>1. CASE row # InstantCash
    BY <1>2, <2>1, PlayFacts
  <2>2. CASE row = InstantCash
    <3>1. Totals(n)[InstantCash] \in Nat /\ Totals(n)[Career] \in Nat /\ cash \in Nat
      BY <1>2, <1>3, StoreAssumption
    <3>2. sent'[n][InstantCash] = Totals(n)[Career] + cash
      BY <1>2, <2>2, PlayFacts
    <3> QED
      BY <1>4, <2>2, <3>1, <3>2
  <2> QED
    BY <2>1, <2>2
<1>6. InstantCash \in Carried(m) => sent'[n][InstantCash] = sent'[n][Career]
  BY PlayFacts
<1>7. ServedIsPersisted' /\ BoardsBehindCareer'
  BY <1>1 DEF RowsOK, ServedIsPersisted, BoardsBehindCareer, Totals, HasAccount
<1>8. ASSUME NEW k \in Names, sent'[k] # Nothing
      PROVE  /\ \A row \in DOMAIN sent'[k] : Totals(k)[row] <= sent'[k][row]
             /\ InstantCash \in DOMAIN sent'[k] => sent'[k][InstantCash] = sent'[k][Career]
  <2>1. CASE k = n
    BY <1>3, <1>5, <1>6, <2>1
  <2>2. CASE k # n
    BY <1>1, <1>8, <2>2 DEF RowsOK
  <2> QED
    BY <2>1, <2>2
<1> QED
  BY <1>1, <1>7, <1>8 DEF RowsOK, Totals

NoLoss == \A pid \in Pids, row \in Rows : db.totals[pid][row] <= db'.totals[pid][row]

LEMMA NextRows ==
  ASSUME ReadFaults = FALSE, SInv, RowsOK, [Next]_vars
  PROVE  RowsOK' /\ NoLoss
<1>1. db' = db => NoLoss
  BY TotalsType DEF NoLoss
<1>2. CASE Boot /\ UNCHANGED storeVars
  BY <1>1, <1>2, SameRows DEF storeVars
<1>3. CASE Crash
  BY <1>1, <1>3, SameRows DEF Crash
<1>4. ASSUME NEW s \in Statements, Statement(s) PROVE RowsOK' /\ NoLoss
  BY <1>1, <1>4, SameRows DEF Statement
<1>5. CASE Commit
  BY <1>5, CommitRows DEF NoLoss
<1>6. CASE Fail
  BY <1>1, <1>6, SameRows DEF Fail, Rollback
<1>7. ASSUME NEW n \in Names, Login(n) \/ ReportStats(n) PROVE RowsOK' /\ NoLoss
  BY <1>1, <1>7, SameRows DEF Login, ReportStats, Begin
<1>8. ASSUME NEW n \in Names, NEW failed \in SUBSET Rows, UserStats(n, failed)
      PROVE  RowsOK' /\ NoLoss
  BY <1>1, <1>8, UserStatsRows DEF UserStats
<1>9. ASSUME NEW n \in Names, NEW m \in Modes, NEW cash \in 1 .. MaxCash, Play(n, m, cash)
      PROVE  RowsOK' /\ NoLoss
  BY <1>1, <1>9, PlayRows DEF Play
<1>10. CASE UNCHANGED vars
  BY <1>1, <1>10, SameRows DEF vars
<1> QED
  BY <1>2, <1>3, <1>4, <1>5, <1>6, <1>7, <1>8, <1>9, <1>10 DEF Next

\* The second invariant, which needs the first and that no SELECT raises.
THEOREM RowsInductive ==
  ASSUME ReadFaults = FALSE
  PROVE  Spec => []RowsOK
<1>1. Init => RowsOK
  BY InitRows
<1>2. SInv /\ RowsOK /\ [Next]_vars => RowsOK'
  BY NextRows
<1> QED
  BY <1>1, <1>2, Inductive, PTL DEF Spec

\* The totals a console holds are those on disk.
THEOREM ServedIsPersistedHolds ==
  ASSUME ReadFaults = FALSE
  PROVE  Spec => []ServedIsPersisted
<1>1. RowsOK => ServedIsPersisted
  BY DEF RowsOK
<1> QED
  BY <1>1, RowsInductive, PTL

\* The instant cash board never gets ahead of the career row.
THEOREM BoardsBehindCareerHolds ==
  ASSUME ReadFaults = FALSE
  PROVE  Spec => []BoardsBehindCareer
<1>1. RowsOK => BoardsBehindCareer
  BY DEF RowsOK
<1> QED
  BY <1>1, RowsInductive, PTL

\* Nobody's stored cash goes down on any board.
THEOREM NoBackslideHolds ==
  ASSUME ReadFaults = FALSE
  PROVE  Spec => NoBackslide
<1>1. SInv /\ RowsOK /\ [Next]_vars => [NoLoss]_vars
  BY NextRows
<1> QED
  BY <1>1, Inductive, RowsInductive, PTL DEF Spec, NoBackslide, NoLoss

-----------------------------------------------------------------------------
\* The boards.  An account's rank is the number of accounts ahead of it; ranks
\* are distinct and below the size of the board, so every place is taken once.

\* What the stored rows of one category are: cash of finitely many accounts.
Column(cash) ==
  /\ DOMAIN cash \subseteq Nat /\ IsFiniteSet(DOMAIN cash)
  /\ \A p \in DOMAIN cash : cash[p] \in Nat

Rank(cash, p) == Cardinality(Ahead(cash, p))

LEMMA BeforeIsOrder ==
  ASSUME NEW cash, Column(cash),
         NEW p \in OnBoard(cash), NEW q \in OnBoard(cash)
  PROVE  /\ ~Before(cash, p, p)
         /\ p = q \/ Before(cash, p, q) \/ Before(cash, q, p)
         /\ \A r \in OnBoard(cash) :
              Before(cash, p, q) /\ Before(cash, q, r) => Before(cash, p, r)
BY DEF Column, OnBoard, Before

LEMMA RankBounds ==
  ASSUME NEW cash, Column(cash), NEW p \in OnBoard(cash)
  PROVE  /\ IsFiniteSet(OnBoard(cash)) /\ IsFiniteSet(Ahead(cash, p))
         /\ Cardinality(OnBoard(cash)) \in Nat
         /\ Rank(cash, p) \in Nat /\ Rank(cash, p) < Cardinality(OnBoard(cash))
<1>1. OnBoard(cash) \in SUBSET DOMAIN cash /\ Ahead(cash, p) \in SUBSET OnBoard(cash)
  BY DEF OnBoard, Ahead
<1>2. IsFiniteSet(OnBoard(cash))
  BY <1>1, FS_Subset DEF Column
<1>3. p \notin Ahead(cash, p)
  BY BeforeIsOrder DEF Ahead
<1>4. IsFiniteSet(Ahead(cash, p)) /\ Cardinality(Ahead(cash, p)) <= Cardinality(OnBoard(cash))
      /\ Cardinality(Ahead(cash, p)) # Cardinality(OnBoard(cash))
  BY <1>1, <1>2, <1>3, FS_Subset
<1>5. Cardinality(Ahead(cash, p)) \in Nat /\ Cardinality(OnBoard(cash)) \in Nat
  BY <1>2, <1>4, FS_CardinalityType
<1> QED
  BY <1>2, <1>4, <1>5 DEF Rank

LEMMA RankGrows ==
  ASSUME NEW cash, Column(cash),
         NEW p \in OnBoard(cash), NEW q \in OnBoard(cash), Before(cash, p, q)
  PROVE  Rank(cash, p) < Rank(cash, q)
<1>1. Ahead(cash, p) \in SUBSET Ahead(cash, q)
  BY BeforeIsOrder DEF Ahead
<1>2. p \in Ahead(cash, q) /\ p \notin Ahead(cash, p)
  BY BeforeIsOrder DEF Ahead
<1>3. Rank(cash, p) <= Rank(cash, q) /\ Rank(cash, p) # Rank(cash, q)
  BY <1>1, <1>2, RankBounds, FS_Subset DEF Rank
<1> QED
  BY <1>3, RankBounds

\* The ranks of a board are the places 0 to n - 1.
LEMMA EveryPlaceTaken ==
  ASSUME NEW cash, Column(cash), OnBoard(cash) # {},
         NEW k \in 1 .. Cardinality(OnBoard(cash))
  PROVE  \E p \in OnBoard(cash) : Rank(cash, p) = k - 1
<1> DEFINE n == Cardinality(OnBoard(cash))
           place == [p \in OnBoard(cash) |-> Rank(cash, p) + 1]
<1>1. IsFiniteSet(OnBoard(cash)) /\ n \in Nat
  BY RankBounds
<1>2. place \in [OnBoard(cash) -> 1 .. n]
  BY RankBounds
<1>3. ASSUME NEW p \in OnBoard(cash), NEW q \in OnBoard(cash), place[p] = place[q]
      PROVE  p = q
  <2>1. Rank(cash, p) = Rank(cash, q)
    BY <1>3, RankBounds
  <2>2. ~Before(cash, p, q) /\ ~Before(cash, q, p)
    BY <2>1, RankGrows, RankBounds
  <2> QED
    BY <2>2, BeforeIsOrder
<1>4. place \in Injection(OnBoard(cash), 1 .. n)
  BY <1>2, <1>3 DEF Injection, IsInjective
<1>5. IsFiniteSet(1 .. n) /\ Cardinality(1 .. n) = n
  BY <1>1, FS_Interval
<1>6. place \in Surjection(OnBoard(cash), 1 .. n)
  BY <1>4, <1>5, FS_Injection
<1>7. PICK p \in OnBoard(cash) : place[p] = k
  BY <1>6 DEF Surjection
<1>8. Rank(cash, p) + 1 = k /\ Rank(cash, p) \in Nat
  BY <1>7, RankBounds
<1> QED
  BY <1>8

\* A sequence in which nothing occurs twice.
Distinct(s) == \A i, j \in 1 .. Len(s) : s[i] = s[j] => i = j

\* The board of a category lists each of its accounts once, the richest first
\* (ranked_for_category), whatever is stored.
THEOREM BoardIsRanking ==
  ASSUME NEW cash, Column(cash)
  PROVE  LET board == ranked_for_category(cash)
         IN  /\ board \in Seq(OnBoard(cash)) /\ Distinct(board)
             /\ \A p \in OnBoard(cash) : \E k \in 1 .. Len(board) : board[k] = p
             /\ \A i, j \in 1 .. Len(board) : i < j => cash[board[i]] >= cash[board[j]]
<1> DEFINE n == Cardinality(OnBoard(cash))
           board == ranked_for_category(cash)
<1>1. n \in Nat
  <2>1. IsFiniteSet(OnBoard(cash))
    BY FS_Subset DEF Column, OnBoard
  <2> QED
    BY <2>1, FS_CardinalityType
<1>2. \A k \in 1 .. n : board[k] \in OnBoard(cash) /\ Rank(cash, board[k]) = k - 1
  <2> TAKE k \in 1 .. n
  <2>1. OnBoard(cash) # {}
    <3>1. Cardinality({}) = 0
      BY FS_EmptySet
    <3> QED
      BY <1>1, <3>1
  <2>2. \E p \in OnBoard(cash) : Cardinality(Ahead(cash, p)) = k - 1
    BY <2>1, EveryPlaceTaken DEF Rank
  <2>3. board[k] = CHOOSE p \in OnBoard(cash) : Cardinality(Ahead(cash, p)) = k - 1
    BY DEF ranked_for_category
  <2> QED
    BY <2>2, <2>3 DEF Rank
<1>3. board = [k \in 1 .. n |-> board[k]]
  BY DEF ranked_for_category
<1>4. board \in Seq(OnBoard(cash)) /\ Len(board) = n
  BY <1>1, <1>2, <1>3
<1> HIDE DEF board, n
<1>5. Distinct(board)
  BY <1>1, <1>2, <1>4 DEF Distinct
<1>6. ASSUME NEW p \in OnBoard(cash)
      PROVE  \E k \in 1 .. Len(board) : board[k] = p
  <2>1. Rank(cash, p) \in Nat /\ Rank(cash, p) < n
    BY RankBounds DEF n
  <2>2. PICK k \in 1 .. n : Rank(cash, p) = k - 1
    <3>1. Rank(cash, p) + 1 \in 1 .. n /\ Rank(cash, p) = (Rank(cash, p) + 1) - 1
      BY <1>1, <2>1 DEF n
    <3> QED
      BY <3>1
  <2>3. board[k] \in OnBoard(cash) /\ Rank(cash, board[k]) = Rank(cash, p)
    BY <1>2, <2>2
  <2>4. ~Before(cash, p, board[k]) /\ ~Before(cash, board[k], p)
    BY <2>1, <2>3, RankGrows
  <2> QED
    BY <1>4, <2>3, <2>4, BeforeIsOrder
<1>7. ASSUME NEW i \in 1 .. n, NEW j \in 1 .. n, i < j
      PROVE  cash[board[i]] >= cash[board[j]]
  <2>1. ~Before(cash, board[j], board[i])
    BY <1>1, <1>2, <1>7, RankGrows
  <2>2. cash[board[i]] \in Nat /\ cash[board[j]] \in Nat
    BY <1>2 DEF Column, OnBoard
  <2> QED
    BY <2>1, <2>2 DEF Before
<1> QED
  BY <1>4, <1>5, <1>6, <1>7 DEF board

-----------------------------------------------------------------------------
\* Paging, over any board.

LEMMA SliceFacts ==
  ASSUME NEW T, NEW s \in Seq(T), NEW from \in Nat, NEW to \in Nat, from <= to
  PROVE  /\ Slice(s, from, to) \in Seq(T)
         /\ \A j \in Nat \ {0} : from + j <= to /\ from + j <= Len(s) =>
              j \in 1 .. Len(Slice(s, from, to)) /\ Slice(s, from, to)[j] = s[from + j]
<1> DEFINE m == IF from < Len(s) THEN Least(to, Len(s)) - from ELSE 0
<1>1. m \in Nat /\ (m # 0 => from + m <= Len(s))
  BY DEF Least
<1>2. \A j \in Nat : from + j <= to /\ from + j <= Len(s) => j <= m
  BY DEF Least
<1>3. Slice(s, from, to) = [j \in 1 .. m |-> s[from + j]]
  BY DEF Slice
<1> HIDE DEF m
<1>4. \A j \in 1 .. m : s[from + j] \in T
  BY <1>1
<1>5. Slice(s, from, to) \in Seq(T) /\ Len(Slice(s, from, to)) = m
  BY <1>1, <1>3, <1>4
<1> QED
  BY <1>1, <1>2, <1>3, <1>5

\* What leaderboard_query numbers.
LEMMA NumberedFacts ==
  ASSUME NEW T, NEW page \in Seq(T), NEW start \in Nat, NEW j \in 1 .. Len(page)
  PROVE  /\ j \in 1 .. Len(Numbered(page, start))
         /\ Numbered(page, start)[j] = [position |-> start + j, pid |-> page[j]]
BY DEF Numbered

\* Pages of the global board tile it, whatever the board and the page size.
THEOREM GlobalPagesTile ==
  ASSUME NEW T, NEW ranked \in Seq(T), NEW count \in Nat \ {0}
  PROVE  PagesTile(ranked, count)
<1> SUFFICES ASSUME NEW k \in 1 .. Len(ranked)
             PROVE  LET offset == ((k - 1) \div count) * count
                        shown  == Numbered(GlobalPage(ranked, offset, count), offset)
                    IN \E j \in 1 .. Len(shown) :
                         shown[j] = [position |-> k, pid |-> ranked[k]]
  BY DEF PagesTile
<1> DEFINE page == (k - 1) \div count
           offset == page * count
           shown == Numbered(GlobalPage(ranked, offset, count), offset)
<1>1. page \in Nat /\ page * count <= k - 1 /\ k - 1 < page * count + count
  <2>1. k - 1 \in Nat
    OBVIOUS
  <2>2. k - 1 = count * ((k - 1) \div count) + ((k - 1) % count)
        /\ (k - 1) % count \in 0 .. (count - 1) /\ (k - 1) \div count \in Nat
    BY <2>1
  <2>3. count * ((k - 1) \div count) = ((k - 1) \div count) * count
    BY <2>2
  <2> QED
    BY <2>2, <2>3
<1>2. offset \in Nat /\ offset <= k - 1 /\ k - 1 < offset + count
  <2>1. page * count \in Nat
    BY <1>1
  <2> QED
    BY <1>1, <2>1
<1> HIDE DEF page, offset
<1> DEFINE j == k - offset
<1>3. j \in Nat \ {0} /\ offset + j = k /\ offset + j <= offset + count
      /\ offset + j <= Len(ranked) /\ offset + count \in Nat /\ offset <= offset + count
  BY <1>2
<1> HIDE DEF j
<1>4. /\ GlobalPage(ranked, offset, count) \in Seq(T)
      /\ j \in 1 .. Len(GlobalPage(ranked, offset, count))
      /\ GlobalPage(ranked, offset, count)[j] = ranked[k]
  <2>1. \A to \in Nat : offset <= to =>
          /\ Slice(ranked, offset, to) \in Seq(T)
          /\ \A i \in Nat \ {0} : offset + i <= to /\ offset + i <= Len(ranked) =>
               i \in 1 .. Len(Slice(ranked, offset, to))
               /\ Slice(ranked, offset, to)[i] = ranked[offset + i]
    BY <1>2, SliceFacts
  <2> QED
    BY <1>3, <2>1 DEF GlobalPage
<1>5. j \in 1 .. Len(shown) /\ shown[j] = [position |-> k, pid |-> ranked[k]]
  BY <1>2, <1>3, <1>4, NumberedFacts
<1> QED
  BY <1>5 DEF offset, page

\* The Personal view shows its player under its rank, whatever the board, the
\* window and the page size, unless the page ends within the rows above.
THEOREM PersonalViewShowsPlayer ==
  ASSUME NEW T, NEW ranked \in Seq(T), Distinct(ranked),
         NEW k \in 1 .. Len(ranked), NEW count \in Nat
  PROVE  SelfShown(ranked, k, count)
<1> SUFFICES ASSUME count > AROUNDSELF_LEAD
             PROVE  LET start == SelfStart(ranked, ranked[k])
                        shown == Numbered(SelfPage(ranked, ranked[k], count), start)
                    IN \E j \in 1 .. Len(shown) :
                         shown[j] = [position |-> k, pid |-> ranked[k]]
  BY DEF SelfShown
<1> DEFINE idx == IndexOf(ranked, ranked[k])
           start == WindowStart(idx)
           window == Slice(ranked, start, WindowEnd(idx))
           page == SelfPage(ranked, ranked[k], count)
<1>1. idx = k - 1
  BY DEF IndexOf, Distinct
<1>2. /\ start \in Nat /\ start <= k - 1 /\ k - start <= AROUNDSELF_LEAD + 1
      /\ WindowEnd(idx) \in Nat /\ start <= WindowEnd(idx) /\ k <= WindowEnd(idx)
  BY <1>1, BoardsAssumption DEF WindowStart, WindowEnd
<1>3. page = Slice(window, 0, count) /\ SelfStart(ranked, ranked[k]) = start
  BY DEF SelfPage, SelfStart
<1> HIDE DEF idx, start, window, page
<1> DEFINE j == k - start
<1>4. j \in Nat \ {0} /\ start + j = k /\ start + j <= Len(ranked) /\ 0 + j <= count
  BY <1>2, BoardsAssumption
<1> HIDE DEF j
<1>5. window \in Seq(T) /\ j \in 1 .. Len(window) /\ window[j] = ranked[k]
  BY <1>2, <1>4, SliceFacts DEF window
<1>6. page \in Seq(T) /\ j \in 1 .. Len(page) /\ page[j] = ranked[k]
  <2>1. 0 + j <= Len(window) /\ 0 \in Nat /\ 0 <= count /\ 0 + j = j
    BY <1>4, <1>5
  <2> QED
    BY <1>3, <1>4, <1>5, <2>1, SliceFacts
<1>7. /\ j \in 1 .. Len(Numbered(page, start))
      /\ Numbered(page, start)[j] = [position |-> k, pid |-> ranked[k]]
  BY <1>2, <1>4, <1>6, NumberedFacts
<1> QED
  BY <1>3, <1>7 DEF page

\* Both views page correctly over every database the persistence layer ever
\* has on disk (leaderboard_query over ranked_for_category).
THEOREM BoardsPagedHolds == Spec => []BoardsPaged
<1>1. SInv => BoardsPaged
  <2> SUFFICES ASSUME SInv, NEW row \in Rows, NEW count \in 1 .. MaxAccounts
               PROVE  /\ PagesTile(Board(row), count)
                      /\ \A k \in 1 .. Len(Board(row)) : SelfShown(Board(row), k, count)
    BY DEF BoardsPaged
  <2> DEFINE cash == [pid \in Pids |-> db.totals[pid][row]]
  <2>1. \A pid \in Pids : cash[pid] \in Nat
    <3>1. db.totals \in [Pids -> [Rows -> 0 .. MaxCash]]
      BY DEF SInv, StoreTypeOK, Database
    <3> QED
      BY <3>1, StoreAssumption
  <2>2. DOMAIN cash \subseteq Nat /\ IsFiniteSet(DOMAIN cash)
    <3>1. FirstPid \in Int /\ FirstPid + MaxAccounts - 1 \in Int
      BY StoreAssumption, PidsAreNats
    <3> QED
      BY <3>1, PidsAreNats, FS_Interval DEF Pids
  <2>3. Column(cash)
    BY <2>1, <2>2 DEF Column
  <2>4. Board(row) \in Seq(OnBoard(cash)) /\ Distinct(Board(row))
    BY <2>3, BoardIsRanking DEF Board
  <2>5. count \in Nat \ {0}
    BY StoreAssumption
  <2> QED
    BY <2>4, <2>5, GlobalPagesTile, PersonalViewShowsPlayer
<1> QED
  BY <1>1, Inductive, PTL

=============================================================================
