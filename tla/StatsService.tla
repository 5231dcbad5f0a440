---------------------------- MODULE StatsService ----------------------------
(***************************************************************************)
(* What the database layer promises: accounts with ids of their own that   *)
(* never change, and for every account the rows of its latest uploads,     *)
(* each upload stored as a whole or not at all.  No connections, no        *)
(* transactions, no process that can crash.                                *)
(***************************************************************************)
EXTENDS Naturals

CONSTANTS
  Names,    \* psn_ids
  Pids,     \* the account ids
  FirstPid, \* the first one handed out
  NoAccount,
  Rows,     \* the categories of rows an account has
  Uploads,  \* what a player may report: functions from rows to cash
  Nothing   \* no report

VARIABLES
  accounts, \* name -> pid, NoAccount for a name without one
  nextPid,  \* the pid the next account gets
  reported, \* name -> its latest report, if it still stands
  totals    \* pid -> row -> cash stored; 0 for a row that is not there

Init ==
  /\ accounts = [n \in Names |-> NoAccount]
  /\ nextPid = FirstPid
  /\ reported = [n \in Names |-> Nothing]
  /\ totals = [pid \in Pids |-> [row \in Rows |-> 0]]

Create(n) ==
  /\ accounts[n] = NoAccount
  /\ accounts' = [accounts EXCEPT ![n] = nextPid]
  /\ nextPid' = nextPid + 1
  /\ UNCHANGED <<reported, totals>>

Report(n, up) ==
  /\ reported' = [reported EXCEPT ![n] = up]
  /\ UNCHANGED <<accounts, nextPid, totals>>

\* REPLACE: the rows that the report names take its values, all at once.
Save(n) ==
  /\ accounts[n] # NoAccount
  /\ totals' = [totals EXCEPT ![accounts[n]] = [row \in Rows |->
                  IF row \in DOMAIN reported[n]
                    THEN reported[n][row] ELSE totals[accounts[n]][row]]]
  /\ UNCHANGED <<accounts, nextPid, reported>>

Next ==
  \E n \in Names :
    \/ Create(n)
    \/ \E up \in Uploads \cup {Nothing} : Report(n, up)
    \/ Save(n)

Spec == Init /\ [][Next]_<<accounts, nextPid, reported, totals>>

=============================================================================
