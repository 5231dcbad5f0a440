----------------------------- MODULE Migrations -----------------------------
(***************************************************************************)
(* The server process and the migration runner that it executes before it  *)
(* serves anybody (db/connection.py, server.py).                           *)
(*                                                                         *)
(* SQLite runs in autocommit mode here: every statement of a migration     *)
(* script is durable by itself, and so is the row that records the script. *)
(* The statements counted here are those that raise when they are run      *)
(* again: CREATE TABLE and CREATE INDEX without an IF NOT EXISTS, INSERT   *)
(* of a fixed key.  The PRAGMAs of a script may be repeated and are left   *)
(* out.  Any statement may also raise afresh (database locked, disk full,  *)
(* I/O error): nothing catches that, so main() ends as if it were killed.  *)
(***************************************************************************)
EXTENDS Naturals

CONSTANTS
  MigrationCount, \* the *.sql files of MIGRATIONS_DIR, numbered as sorted
  ScriptLength,   \* statements in a file
  MaxCrashes      \* bound: kills of the process, and boots that raise afresh

ASSUME MigrationsAssumption ==
  /\ MigrationCount \in Nat
  /\ ScriptLength \in Nat \ {0}
  /\ MaxCrashes \in Nat

Files == 1 .. MigrationCount

VARIABLES
  server,   \* the process: "down", "booting" or "up"
  at, stmt, \* the file being considered, the statements run of it in this boot
  effect,   \* on disk: the statements of each file that have taken effect
  applied,  \* on disk: the rows of _migrations
  torn,     \* history: a boot ended inside a migration, killed or raising
  crashes   \* the kills and fresh errors so far

bootVars == <<server, at, stmt, effect, applied, torn, crashes>>

BootTypeOK ==
  /\ server \in {"down", "booting", "up"}
  /\ at \in 1 .. (MigrationCount + 1)
  /\ stmt \in 0 .. ScriptLength
  /\ effect \in [Files -> 0 .. ScriptLength]
  /\ applied \subseteq Files
  /\ torn \in BOOLEAN
  /\ crashes \in 0 .. MaxCrashes

BootInit ==
  /\ server = "down"
  /\ at = 1
  /\ stmt = 0
  /\ effect = [f \in Files |-> 0]
  /\ applied = {}
  /\ torn = FALSE
  /\ crashes = 0

-----------------------------------------------------------------------------
Start ==
  /\ server = "down"
  /\ server' = "booting"
  /\ at' = 1
  /\ stmt' = 0
  /\ UNCHANGED <<effect, applied, torn, crashes>>

\* main() ends, killed or by an exception with a fresh cause; what is on disk
\* stays.
Ends ==
  /\ crashes < MaxCrashes
  /\ crashes' = crashes + 1
  /\ torn' = (torn \/ (server = "booting" /\ stmt > 0))
  /\ server' = "down"
  /\ UNCHANGED <<at, stmt, effect, applied>>

Considers(f) == server = "booting" /\ at = f /\ f \in Files

SkipApplied ==
  /\ Considers(at)
  /\ at \in applied
  /\ at' = at + 1
  /\ UNCHANGED <<server, stmt, effect, applied, torn, crashes>>

\* executescript: the next statement of the file.
RunStatement ==
  /\ Considers(at)
  /\ at \notin applied /\ stmt < ScriptLength
  /\ \/ /\ effect[at] = stmt
        /\ effect' = [effect EXCEPT ![at] = @ + 1]
        /\ stmt' = stmt + 1
        /\ UNCHANGED <<server, torn, crashes>>
     \/ /\ effect[at] > stmt  \* "table ... already exists": main() ends
        /\ server' = "down"
        /\ UNCHANGED <<stmt, effect, torn, crashes>>
     \/ Ends                  \* the statement raises and has no effect
  /\ UNCHANGED <<at, applied>>

Recorded_Never(rows, f) == rows

Recorded(rows, f) == rows \cup {f}

RecordMigration_Early ==
  /\ Considers(at)
  /\ at \notin applied
  /\ applied' = Recorded(applied, at)
  /\ at' = at + 1
  /\ stmt' = 0
  /\ UNCHANGED <<server, effect, torn, crashes>>

\* The INSERT INTO _migrations, which may raise like any statement.
RecordMigration ==
  /\ Considers(at)
  /\ at \notin applied /\ stmt = ScriptLength
  /\ \/ /\ applied' = Recorded(applied, at)
        /\ at' = at + 1
        /\ stmt' = 0
        /\ UNCHANGED <<server, effect, torn, crashes>>
     \/ Ends

\* Every file is recorded and the listeners are bound, or binding raises.
Serve ==
  /\ server = "booting"
  /\ at = MigrationCount + 1
  /\ \/ /\ server' = "up"
        /\ UNCHANGED <<at, stmt, effect, applied, torn, crashes>>
     \/ Ends

Boot == Start \/ SkipApplied \/ RunStatement \/ RecordMigration \/ Serve

\* The process is killed.
Die == server # "down" /\ Ends

=============================================================================
