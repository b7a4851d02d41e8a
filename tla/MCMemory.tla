--------------------------- MODULE MCMemory ---------------------------
(* Small instances of MemorySuite for TLC, sized like those of MCSuiteRun. *)
EXTENDS MemorySuite

SmallConfigs ==
    {[warmup |-> 1, iters |-> 2, bulk_iters |-> 1, read_iters |-> 1],
     [warmup |-> 0, iters |-> 2, bulk_iters |-> 2, read_iters |-> 0],
     [warmup |-> 6, iters |-> 0, bulk_iters |-> 0, read_iters |-> 0]}

SmallIds == 1..40

\* The instances satisfy what the theorems of MemorySuite_proofs assume.
ASSUME WithinLimits == Disk!SafeSizes

=======================================================================
