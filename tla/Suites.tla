---------------------------- MODULE Suites ----------------------------
(* The suites of src/src/suites: every implementation of the Suite trait.    *)
(*                                                                           *)
(* All suites send the same statements; a record keeps what tells their      *)
(* behaviour on the database apart:                                          *)
(*   dialect    which ddl() and seed_sql() its setup() executes, and hence   *)
(*              which id allocation and DDL atomicity it sees                *)
(*   storage    "file": a database file of the suite's own, removed by       *)
(*              main() before the suite is built; "reopened": such a file,   *)
(*              closed after seeding and opened again, immutable; "memory":  *)
(*              such a file, copied after seeding into a database in memory  *)
(*              that the operations run on;                                  *)
(*              "server": the one PostgreSQL database, shared by all         *)
(*   read_only  what read_only() answers; the writing methods then bail!     *)
(*   bulk       insert_bulk() is one INSERT ("statement") or BEGIN, one      *)
(*              INSERT per row, COMMIT ("rows")                              *)

RusqliteSqlite ==
    [name |-> "rusqlite", dialect |-> "Sqlite", storage |-> "file",
     read_only |-> FALSE, bulk |-> "rows"]

RusqliteSqliteReadonly ==
    [name |-> "rusqlite_ro", dialect |-> "Sqlite", storage |-> "reopened",
     read_only |-> TRUE, bulk |-> "statement"]

SqlxSqlite ==
    [name |-> "sqlx", dialect |-> "Sqlite", storage |-> "file",
     read_only |-> FALSE, bulk |-> "statement"]

DieselSqlite ==
    [name |-> "diesel", dialect |-> "Sqlite", storage |-> "file",
     read_only |-> FALSE, bulk |-> "statement"]

DieselAsyncSqlite ==
    [name |-> "diesel_async", dialect |-> "Sqlite", storage |-> "file",
     read_only |-> FALSE, bulk |-> "rows"]

SeaOrmSqlite ==
    [name |-> "seaorm", dialect |-> "Sqlite", storage |-> "file",
     read_only |-> FALSE, bulk |-> "statement"]

RusqliteSqliteMemory ==
    [name |-> "rusqlite_mem", dialect |-> "Sqlite", storage |-> "memory",
     read_only |-> FALSE, bulk |-> "rows"]

DieselSqliteMemory ==
    [name |-> "diesel_mem", dialect |-> "Sqlite", storage |-> "memory",
     read_only |-> FALSE, bulk |-> "statement"]

TokioPostgres ==
    [name |-> "tokio_postgres_pg", dialect |-> "Postgres", storage |-> "server",
     read_only |-> FALSE, bulk |-> "statement"]

SqlxPostgres ==
    [name |-> "sqlx_pg", dialect |-> "Postgres", storage |-> "server",
     read_only |-> FALSE, bulk |-> "statement"]

DieselPostgres ==
    [name |-> "diesel_pg", dialect |-> "Postgres", storage |-> "server",
     read_only |-> FALSE, bulk |-> "statement"]

DieselAsyncPostgres ==
    [name |-> "diesel_async_pg", dialect |-> "Postgres", storage |-> "server",
     read_only |-> FALSE, bulk |-> "statement"]

SeaOrmPostgres ==
    [name |-> "seaorm_pg", dialect |-> "Postgres", storage |-> "server",
     read_only |-> FALSE, bulk |-> "statement"]

\* The SQLite suites whose operations run on the database they seeded.
SqliteSuites ==
    {RusqliteSqlite, RusqliteSqliteReadonly, SqlxSqlite, DieselSqlite,
     DieselAsyncSqlite, SeaOrmSqlite}

MemorySuites == {RusqliteSqliteMemory, DieselSqliteMemory}

\* In the order in which main() builds and runs them.
SqliteInOrder ==
    <<RusqliteSqlite, RusqliteSqliteReadonly, RusqliteSqliteMemory, SqlxSqlite,
      DieselSqlite, DieselSqliteMemory, DieselAsyncSqlite, SeaOrmSqlite>>

PostgresSuites ==
    <<TokioPostgres, SqlxPostgres, DieselPostgres, DieselAsyncPostgres,
      SeaOrmPostgres>>

=======================================================================
