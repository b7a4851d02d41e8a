------------------------- MODULE MCCollision --------------------------
(* SuiteRun with more victims than fit between DELETE_BASE and the value the *)
(* sequences are set to: SafeSizes does not hold.  The constants are scaled  *)
(* like those of mod.rs, SeqStart = 2 * DELETE_BASE.                         *)
EXTENDS SuiteRun

\* Six victims are one too many; two leave room.
LongConfigs ==
    {[warmup |-> 1, iters |-> 5, bulk_iters |-> 1, read_iters |-> 1],
     [warmup |-> 1, iters |-> 1, bulk_iters |-> 1, read_iters |-> 1]}

OnServer == {TokioPostgres, SqlxPostgres}

=======================================================================
