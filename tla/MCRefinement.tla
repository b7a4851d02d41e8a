------------------------- MODULE MCRefinement -------------------------
(* Small instances of SuiteRefinement for TLC. *)
EXTENDS SuiteRefinement

SmallConfigs ==
    {[warmup |-> 1, iters |-> 2, bulk_iters |-> 1, read_iters |-> 1],
     [warmup |-> 0, iters |-> 2, bulk_iters |-> 2, read_iters |-> 0],
     [warmup |-> 6, iters |-> 0, bulk_iters |-> 0, read_iters |-> 0]}

EachKind ==
    {RusqliteSqlite, RusqliteSqliteReadonly, SqlxSqlite, TokioPostgres,
     DieselAsyncPostgres}

\* Above all ids the instances give out: 16 victims and sequence values, six
\* inserts and six bulk inserts of two rows after them.
SmallIds == 1..40

=======================================================================
