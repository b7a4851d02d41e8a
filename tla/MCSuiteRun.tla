-------------------------- MODULE MCSuiteRun --------------------------
(* Small instances of SuiteRun for TLC.  Five seeded users and two to six    *)
(* victims in chunks of three make a seeding statement straddle the boundary *)
(* between the two; seven posts end in a partial chunk.                      *)
EXTENDS SuiteRun

\* Six warmup calls are capped at five for insert_bulk; six victims fill the
\* ids below SeqStart = 16 to the last one; iters = 0 is BENCH_ITERS=0.
SmallConfigs ==
    {[warmup |-> 1, iters |-> 2, bulk_iters |-> 1, read_iters |-> 1],
     [warmup |-> 0, iters |-> 2, bulk_iters |-> 2, read_iters |-> 0],
     [warmup |-> 6, iters |-> 0, bulk_iters |-> 0, read_iters |-> 0]}

AllSuites ==
    SqliteSuites \cup {PostgresSuites[n] : n \in DOMAIN PostgresSuites}

\* One suite of each kind.
EachKind ==
    {RusqliteSqlite, RusqliteSqliteReadonly, SqlxSqlite, TokioPostgres,
     DieselAsyncPostgres}

\* The instances satisfy what the theorems of SuiteRun_proofs assume.
ASSUME WithinLimits == SafeSizes

=======================================================================
