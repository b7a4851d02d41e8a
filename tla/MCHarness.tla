--------------------------- MODULE MCHarness ---------------------------
(* Small instances of Harness for TLC.  Up to five samples of four different *)
(* times give every shape of a sorted sequence a percentile can cut.         *)
EXTENDS Harness

SmallDefault == [warmup |-> 1, iters |-> 3, bulk_iters |-> 2, read_iters |-> 4]

\* Its warmup is above the five that bulk inserts are capped at.
SmallQuick == [warmup |-> 6, iters |-> 1, bulk_iters |-> 1, read_iters |-> 2]

\* -1 and 16 are no u32 here.
SmallIters == {-1, 0, 1, 2, 5, 16}

SmallQuickValues == {"", "0", "1"}

SmallDurations == {1, 2, 4, 9}

\* The instance satisfies what DeletesMatchVictims assumes.
ASSUME WithinLimits == SafeCounts

=======================================================================
