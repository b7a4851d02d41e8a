-------------------------- MODULE SqliteFile ---------------------------
(* How the suites with a database file open it, and in which mode their      *)
(* statements run.  A commit goes to the database file, or in WAL mode to    *)
(* the log beside it until a checkpoint.  The journal mode is kept in the    *)
(* file; PRAGMA synchronous belongs to a connection and is gone with it.     *)
(*                                                                           *)
(* rusqlite, Diesel and diesel-async hold one connection and set both once;  *)
(* SQLx gives both to its pool as options of every connection; SeaORM runs   *)
(* the PRAGMAs once on its pool.  The read-only suite seeds with a writer in *)
(* mode DELETE, closes it, and reads through an immutable connection, which  *)
(* looks at the database file alone and cannot open one in WAL mode.         *)
EXTENDS Suites, Integers

CONSTANTS
    FileSuites,  \* the suites considered
    Commits,     \* transactions of a suite that seeds, or seeds and writes
    MaxReplaced, \* bound: connections a pool replaces
    MaxRuns      \* bound: processes started after the first

ASSUME FileSuitesAssumption == FileSuites \subseteq SqliteSuites
ASSUME FileBounds ==
    Commits \in Nat \ {0} /\ MaxReplaced \in Nat /\ MaxRuns \in Nat

VARIABLES
    suite,
    pc,          \* "open", "pragmas", "waiting" for its turn, "working",
                 \* "closed", "reading", "done", "failed", "killed"
    journal,     \* the journal mode in the header of the file
    in_file,     \* commits of this process that are in the file,
    in_wal,      \* ... and in the log only
    synchronous, \* of the connection
    seen,        \* commits an immutable connection sees
    replaced, runs \* how much of the bounds is used

vars == <<suite, pc, journal, in_file, in_wal, synchronous, seen, replaced, runs>>

-----------------------------------------------------------------------

\* One connection from a pool, which may close it when it has been idle or
\* alive for long and open another.
Pooled == suite \in {SqlxSqlite, SeaOrmSqlite}

\* What a new connection starts with: SQLite's default, or the options of
\* SqliteConnectOptions.
Options_Off == IF suite = SqlxSqlite THEN "OFF" ELSE "FULL"

Options_WithoutSynchronous == "FULL"

Options == IF suite = SqlxSqlite THEN "NORMAL" ELSE "FULL"

JournalPragma == IF suite.read_only THEN "DELETE" ELSE "WAL"

\* The last connection to the file checkpoints the log when it closes.
Close ==
    /\ in_file' = in_file + in_wal
    /\ in_wal' = 0

-----------------------------------------------------------------------

\* new(), or for the read-only suite the start of setup().
Open ==
    /\ pc = "open"
    /\ pc' = "pragmas"
    /\ synchronous' = Options
    /\ UNCHANGED <<suite, journal, in_file, in_wal, seen, replaced, runs>>

Pragmas_LeavesReader ==
    /\ pc = "pragmas"
    /\ journal' = IF suite.read_only THEN journal ELSE JournalPragma
    /\ synchronous' = IF suite.read_only \/ suite = SqlxSqlite THEN synchronous
                      ELSE "NORMAL"
    /\ pc' = IF suite.read_only THEN "working" ELSE "waiting"
    /\ UNCHANGED <<suite, in_file, in_wal, seen, replaced, runs>>

\* SQLx's connection has its options already.
Pragmas ==
    /\ pc = "pragmas"
    /\ journal' = JournalPragma
    /\ synchronous' = IF suite.read_only \/ suite = SqlxSqlite THEN synchronous
                      ELSE "NORMAL"
    /\ pc' = IF suite.read_only THEN "working" ELSE "waiting"
    /\ UNCHANGED <<suite, in_file, in_wal, seen, replaced, runs>>

\* main() has built all suites; the turn of this one comes after others ran.
TurnComes ==
    /\ pc = "waiting"
    /\ pc' = "working"
    /\ UNCHANGED <<suite, journal, in_file, in_wal, synchronous, seen, replaced,
                   runs>>

Commit ==
    /\ pc = "working"
    /\ in_file + in_wal < Commits
    /\ IF journal = "WAL"
       THEN in_wal' = in_wal + 1 /\ UNCHANGED in_file
       ELSE in_file' = in_file + 1 /\ UNCHANGED in_wal
    /\ UNCHANGED <<suite, pc, journal, synchronous, seen, replaced, runs>>

\* The read-only suite closes its writer; the others stay open.
WorkDone ==
    /\ pc = "working"
    /\ in_file + in_wal = Commits
    /\ IF suite.read_only
       THEN Close /\ pc' = "closed"
       ELSE pc' = "done" /\ UNCHANGED <<in_file, in_wal>>
    /\ UNCHANGED <<suite, journal, synchronous, seen, replaced, runs>>

Reopen ==
    /\ pc = "closed"
    /\ IF journal = "WAL"
       THEN pc' = "failed" /\ UNCHANGED seen
       ELSE pc' = "reading" /\ seen' = in_file
    /\ UNCHANGED <<suite, journal, in_file, in_wal, synchronous, replaced, runs>>

-----------------------------------------------------------------------
(* From outside.                                                             *)

\* SQLite moves the log into the file when it has grown.
Checkpoint ==
    /\ in_wal > 0
    /\ pc \in {"working", "done"}
    /\ Close
    /\ UNCHANGED <<suite, pc, journal, synchronous, seen, replaced, runs>>

PoolReplaces ==
    /\ Pooled
    /\ pc \in {"waiting", "working"}
    /\ replaced < MaxReplaced
    /\ replaced' = replaced + 1
    /\ Close
    /\ synchronous' = Options
    /\ UNCHANGED <<suite, pc, journal, seen, runs>>

Kill ==
    /\ pc \notin {"done", "failed", "killed"}
    /\ pc' = "killed"
    /\ UNCHANGED <<suite, journal, in_file, in_wal, synchronous, seen, replaced,
                   runs>>

\* Another process removes the file and the log, or one of them, or neither.
\* What is left of the earlier commits is dropped by ddl(), but the journal
\* mode stays with the file.
Rerun ==
    /\ pc \in {"done", "reading", "failed", "killed"}
    /\ runs < MaxRuns
    /\ runs' = runs + 1
    /\ suite' = suite
    /\ pc' = "open"
    /\ \E removed \in BOOLEAN : journal' = IF removed THEN "DELETE" ELSE journal
    /\ in_file' = 0
    /\ in_wal' = 0
    /\ synchronous' = "none"
    /\ seen' = 0
    /\ UNCHANGED replaced

\* The file is new, or one that was there before: main() removes files of these
\* names from the system's directory for temporary ones, but goes on if it
\* cannot, so either mode may be found, whoever set it.
Init ==
    /\ suite \in FileSuites
    /\ pc = "open"
    /\ journal \in {"DELETE", "WAL"}
    /\ in_file = 0
    /\ in_wal = 0
    /\ synchronous = "none"
    /\ seen = 0
    /\ replaced = 0
    /\ runs = 0

Next ==
    \/ Open \/ Pragmas \/ TurnComes \/ Commit \/ WorkDone \/ Reopen
    \/ Checkpoint \/ PoolReplaces \/ Kill \/ Rerun

Spec == Init /\ [][Next]_vars

-----------------------------------------------------------------------
(* Correctness.                                                              *)

\* The types of the variables.
TypeOK ==
    /\ suite \in FileSuites
    /\ pc \in {"open", "pragmas", "waiting", "working", "closed", "reading",
               "done", "failed", "killed"}
    /\ journal \in {"DELETE", "WAL"}
    /\ in_file \in 0..Commits /\ in_wal \in 0..Commits
    /\ in_file + in_wal <= Commits
    /\ synchronous \in {"none", "FULL", "NORMAL"}
    /\ seen \in 0..Commits
    /\ replaced \in 0..MaxReplaced
    /\ runs \in 0..MaxRuns

\* The immutable connection opens, and sees every commit of the writer: what
\* it does not look at, the log and the locks, has nothing for it.  Also when
\* the file is one an earlier, killed process left, or was found in WAL mode,
\* in which an immutable connection could not open it.
ReaderSeesSeed ==
    /\ pc # "failed"
    /\ pc = "reading" => seen = Commits /\ in_wal = 0

\* "Writable on-disk SQLite suites run WAL + synchronous=NORMAL" (README
\* 68-69): whenever such a suite works, on whichever connection.
RunsWalNormal ==
    pc = "working" /\ ~suite.read_only =>
        journal = "WAL" /\ synchronous = "NORMAL"

=======================================================================
