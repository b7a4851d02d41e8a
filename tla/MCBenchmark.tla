-------------------------- MODULE MCBenchmark --------------------------
(* Instances of Benchmark for TLC, with the thirteen suites of the program   *)
(* and the numbers of mod.rs and BenchConfig::default().                     *)
EXTENDS Benchmark

WithIters(n) ==
    [warmup |-> 30, iters |-> n, bulk_iters |-> 40, read_iters |-> 200]

\* The default; BENCH_ITERS=0; the most iterations whose victims leave the
\* sequences of PostgreSQL room, and one more.
EnvConfigs == {WithIters(400), WithIters(0), WithIters(99970), WithIters(99971)}

=======================================================================
