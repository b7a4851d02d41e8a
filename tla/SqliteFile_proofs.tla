----------------------- MODULE SqliteFile_proofs ----------------------
(* Proofs about SqliteFile, for every number of commits, processes and       *)
(* replaced connections, and every set of suites.                            *)
EXTENDS SqliteFile, TLAPS

-----------------------------------------------------------------------
(* The inductive invariant.                                                  *)

\* Until a suite works, this process has committed nothing.
NothingYet == pc \in {"open", "pragmas", "waiting"} => in_file = 0 /\ in_wal = 0

\* The read-only suite never has a commit in the log: its writer works in mode
\* DELETE, whatever mode the file was left in.
ReaderInv ==
    /\ suite.read_only =>
          /\ in_wal = 0
          /\ pc \in {"working", "closed", "reading"} => journal = "DELETE"
    /\ pc \in {"closed", "reading"} => suite.read_only
    /\ pc = "waiting" => ~suite.read_only
    /\ pc = "closed" => in_file = Commits
    /\ ReaderSeesSeed

IInv == TypeOK /\ NothingYet /\ ReaderInv

LEMMA SuiteFacts ==
    /\ SqlxSqlite.read_only = FALSE
    /\ \A s \in FileSuites : s.read_only \in BOOLEAN
<1>1. SqlxSqlite.read_only = FALSE
  BY DEF SqlxSqlite
<1>2. \A s \in SqliteSuites : s.read_only \in BOOLEAN
  <2>1. /\ RusqliteSqlite.read_only = FALSE
        /\ RusqliteSqliteReadonly.read_only = TRUE
        /\ SqlxSqlite.read_only = FALSE /\ DieselSqlite.read_only = FALSE
        /\ DieselAsyncSqlite.read_only = FALSE /\ SeaOrmSqlite.read_only = FALSE
    BY DEF RusqliteSqlite, RusqliteSqliteReadonly, SqlxSqlite,
           DieselSqlite, DieselAsyncSqlite, SeaOrmSqlite
  <2> QED
    BY <2>1, Zenon DEF SqliteSuites
<1> QED
  BY <1>1, <1>2, FileSuitesAssumption

\* The suites of the pool have no immutable reader.
LEMMA PooledWrites ==
    ASSUME Pooled
    PROVE  ~suite.read_only
<1>1. SqlxSqlite.read_only = FALSE /\ SeaOrmSqlite.read_only = FALSE
  BY DEF SqlxSqlite, SeaOrmSqlite
<1> QED
  BY <1>1 DEF Pooled

LEMMA NextIInv ==
    ASSUME IInv, [Next]_vars
    PROVE  IInv'
<1>1. Commits \in Nat \ {0} /\ MaxReplaced \in Nat /\ MaxRuns \in Nat
  BY FileBounds
<1>2. CASE Open
  BY <1>1, <1>2 DEF IInv, TypeOK, NothingYet, ReaderInv, ReaderSeesSeed, Open,
                    Options
<1>3. CASE Pragmas
  <2>1. CASE suite.read_only
    BY <1>1, <1>3, <2>1 DEF IInv, TypeOK, NothingYet, ReaderInv, ReaderSeesSeed,
                            Pragmas, JournalPragma
  <2>2. CASE ~suite.read_only
    BY <1>1, <1>3, <2>2 DEF IInv, TypeOK, NothingYet, ReaderInv, ReaderSeesSeed,
                            Pragmas, JournalPragma
  <2> QED
    BY <2>1, <2>2
<1>4. CASE TurnComes
  BY <1>1, <1>4 DEF IInv, TypeOK, NothingYet, ReaderInv, ReaderSeesSeed,
                    TurnComes
<1>5. CASE Commit
  BY <1>1, <1>5 DEF IInv, TypeOK, NothingYet, ReaderInv, ReaderSeesSeed, Commit
<1>6. CASE WorkDone
  <2>1. CASE suite.read_only
    BY <1>1, <1>6, <2>1 DEF IInv, TypeOK, NothingYet, ReaderInv, ReaderSeesSeed,
                            WorkDone, Close
  <2>2. CASE ~suite.read_only
    BY <1>1, <1>6, <2>2 DEF IInv, TypeOK, NothingYet, ReaderInv, ReaderSeesSeed,
                            WorkDone, Close
  <2> QED
    BY <2>1, <2>2
<1>7. CASE Reopen
  BY <1>1, <1>7 DEF IInv, TypeOK, NothingYet, ReaderInv, ReaderSeesSeed, Reopen
<1>8. CASE Checkpoint
  BY <1>1, <1>8 DEF IInv, TypeOK, NothingYet, ReaderInv, ReaderSeesSeed,
                    Checkpoint, Close
<1>9. CASE PoolReplaces
  BY <1>1, <1>9, PooledWrites
     DEF IInv, TypeOK, NothingYet, ReaderInv, ReaderSeesSeed, PoolReplaces,
         Close, Options
<1>10. CASE Kill
  BY <1>1, <1>10 DEF IInv, TypeOK, NothingYet, ReaderInv, ReaderSeesSeed, Kill
<1>11. CASE Rerun
  BY <1>1, <1>11 DEF IInv, TypeOK, NothingYet, ReaderInv, ReaderSeesSeed, Rerun
<1>12. CASE UNCHANGED vars
  BY <1>12 DEF IInv, TypeOK, NothingYet, ReaderInv, ReaderSeesSeed, vars
<1> QED
  BY <1>2, <1>3, <1>4, <1>5, <1>6, <1>7, <1>8, <1>9, <1>10, <1>11, <1>12 DEF Next

LEMMA Inductive == Spec => []IInv
<1>1. Init => IInv
  BY FileBounds DEF Init, IInv, TypeOK, NothingYet, ReaderInv, ReaderSeesSeed
<1>2. IInv /\ [Next]_vars => IInv'
  BY NextIInv
<1> QED
  BY <1>1, <1>2, PTL DEF Spec

-----------------------------------------------------------------------
(* The theorems.                                                             *)

\* The variables keep their types; commits and log entries stay in bounds.
THEOREM TypeCorrect == Spec => []TypeOK
<1>1. IInv => TypeOK
  BY DEF IInv
<1> QED
  BY <1>1, Inductive, PTL

\* The immutable connection of the read-only suite opens the file and sees the
\* whole seed, also on a file that an earlier, killed process left and on one
\* found in WAL mode.
THEOREM ReaderMissesNothing == Spec => []ReaderSeesSeed
<1>1. IInv => ReaderSeesSeed
  BY DEF IInv, ReaderInv
<1> QED
  BY <1>1, Inductive, PTL

\* Once its PRAGMAs have run, the connection of a suite that writes has both.
Prepared ==
    /\ pc = "pragmas" /\ suite = SqlxSqlite => synchronous = "NORMAL"
    /\ pc \in {"waiting", "working"} /\ ~suite.read_only =>
          journal = "WAL" /\ synchronous = "NORMAL"

LEMMA NextPrepared ==
    ASSUME SeaOrmSqlite \notin FileSuites, IInv, Prepared, [Next]_vars
    PROVE  Prepared'
<1>1. suite \in FileSuites /\ suite # SeaOrmSqlite
  BY DEF IInv, TypeOK
<1>2. CASE Open \/ Pragmas
  BY <1>1, <1>2, SuiteFacts DEF Prepared, Open, Pragmas, Options, JournalPragma
<1>3. CASE TurnComes \/ Commit \/ WorkDone \/ Reopen \/ Checkpoint
  BY <1>3 DEF Prepared, TurnComes, Commit, WorkDone, Reopen, Checkpoint
<1>4. CASE PoolReplaces
  BY <1>1, <1>4 DEF Prepared, PoolReplaces, Pooled, Options
<1>5. CASE Kill \/ Rerun
  BY <1>5 DEF Prepared, Kill, Rerun
<1>6. CASE UNCHANGED vars
  BY <1>6 DEF Prepared, vars
<1> QED
  BY <1>2, <1>3, <1>4, <1>5, <1>6 DEF Next

\* Every writable suite but SeaORM's works in WAL mode with synchronous =
\* NORMAL all the time: the PRAGMAs of a single connection last as long as it,
\* and SQLx's pool gives them to each new connection.
THEOREM PragmasLast ==
    ASSUME SeaOrmSqlite \notin FileSuites
    PROVE  Spec => []RunsWalNormal
<1>1. Init => Prepared
  BY DEF Init, Prepared
<1>2. IInv /\ Prepared /\ [Next]_vars => Prepared'
  BY NextPrepared
<1>3. Prepared => RunsWalNormal
  BY DEF Prepared, RunsWalNormal
<1> QED
  BY <1>1, <1>2, <1>3, Inductive, PTL DEF Spec

=======================================================================
