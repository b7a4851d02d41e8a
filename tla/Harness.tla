---------------------------- MODULE Harness ----------------------------
(* harness.rs: the BenchConfig a process reads from its environment, one     *)
(* run_op() with the calls it makes and the time each takes, and the         *)
(* statistics of the samples.                                                *)
(*                                                                           *)
(* A time is a natural number.  The code computes with f64; here a           *)
(* percentile is an exact number of hundredths; the mean is left out.        *)
EXTENDS Integers, Sequences, FiniteSets, Functions

CONSTANTS
    DefaultConfig, QuickConfig, \* BenchConfig::default(), the one of BENCH_QUICK
    U32,                        \* number of values of a u32
    ItersValues,                \* what BENCH_ITERS may be; a number below 0
                                \* stands for no value at all as well
    QuickValues,                \* what BENCH_QUICK may be, no value included
    Durations                   \* what a timed call may take

ASSUME ConfigsAssumption ==
    /\ U32 \in Nat
    /\ {DefaultConfig, QuickConfig} \subseteq
           [warmup : 0..(U32 - 1), iters : 0..(U32 - 1),
            bulk_iters : 0..(U32 - 1), read_iters : 0..(U32 - 1)]

ASSUME DurationsAssumption == Durations \subseteq Nat

VARIABLES
    cfg,      \* the BenchConfig
    of,       \* which entry of run_suite()'s vec![] run_op() is called for
    pc,       \* "warmup", "timed", "returned" or "failed"
    i,        \* the loop variable of the current loop
    indices,  \* arguments f was called with, in order
    samples   \* of the timed calls, in the order they were taken

vars == <<cfg, of, pc, i, indices, samples>>

-----------------------------------------------------------------------
(* from_env().                                                               *)

WithIters_Signed(value) ==
    IF value < U32 THEN [DefaultConfig EXCEPT !.iters = value]
    ELSE DefaultConfig

\* v.parse() into a u32, or an Err, which is ignored.
WithIters(value) ==
    IF value \in 0..(U32 - 1) THEN [DefaultConfig EXCEPT !.iters = value]
    ELSE DefaultConfig

\* BENCH_QUICK=1 replaces what BENCH_ITERS set.
from_env(iters, quick) ==
    IF quick = "1" THEN QuickConfig ELSE WithIters(iters)

\* The arguments run_suite() gives run_op(), by the count they depend on; the
\* deletes are an entry of their own for what is said of them below.
Entries == {"single", "bulk", "read", "delete"}

Warmup == IF of = "bulk" /\ cfg.warmup > 5 THEN 5 ELSE cfg.warmup

Iters ==
    CASE of = "bulk" -> cfg.bulk_iters
      [] of = "read" -> cfg.read_iters
      [] OTHER       -> cfg.iters

\* u32 addition in the release build; the operands are below 2^32.
Wrap32(x) == IF x >= U32 THEN x - U32 ELSE x

\* What main() gives setup(): the victims seeded are numbered from 0.
DeleteRows == Wrap32(cfg.warmup + cfg.iters)

-----------------------------------------------------------------------
(* run_op().                                                                 *)

WarmupCall ==
    /\ pc = "warmup"
    /\ i < Warmup
    /\ i' = i + 1
    /\ indices' = Append(indices, i)
    /\ UNCHANGED <<cfg, of, pc, samples>>

StartTiming ==
    /\ pc = "warmup"
    /\ i = Warmup
    /\ pc' = "timed"
    /\ i' = 0
    /\ UNCHANGED <<cfg, of, indices, samples>>

TimedCall_IndexRestarts ==
    /\ pc = "timed"
    /\ i < Iters
    /\ i' = i + 1
    /\ indices' = Append(indices, i)
    /\ \E elapsed \in Durations : samples' = Append(samples, elapsed)
    /\ UNCHANGED <<cfg, of, pc>>

TimedCall ==
    /\ pc = "timed"
    /\ i < Iters
    /\ i' = i + 1
    /\ indices' = Append(indices, Wrap32(Warmup + i))
    /\ \E elapsed \in Durations : samples' = Append(samples, elapsed)
    /\ UNCHANGED <<cfg, of, pc>>

\* f returns an Err, which run_op() passes on with `?`.
CallFails ==
    /\ \/ pc = "warmup" /\ i < Warmup /\ indices' = Append(indices, i)
       \/ /\ pc = "timed" /\ i < Iters
          /\ indices' = Append(indices, Wrap32(Warmup + i))
    /\ pc' = "failed"
    /\ UNCHANGED <<cfg, of, i, samples>>

\* Ok(OpStats): a function of the samples, below.
Return ==
    /\ pc = "timed"
    /\ i = Iters
    /\ pc' = "returned"
    /\ UNCHANGED <<cfg, of, i, indices, samples>>

Init ==
    /\ \E iters \in ItersValues, quick \in QuickValues :
          cfg = from_env(iters, quick)
    /\ of \in Entries
    /\ pc = "warmup"
    /\ i = 0
    /\ indices = <<>>
    /\ samples = <<>>

Next == WarmupCall \/ StartTiming \/ TimedCall \/ CallFails \/ Return

Spec == Init /\ [][Next]_vars

-----------------------------------------------------------------------
(* The statistics.                                                           *)

\* How many samples satisfy the predicate.
CountOf(s, Test(_)) == Cardinality({n \in DOMAIN s : Test(s[n])})

\* sort_by(): at place p is the value with less than p samples below it and
\* at least p samples not above it.
Sorted(s) ==
    [p \in DOMAIN s |->
        CHOOSE v \in Range(s) :
            /\ CountOf(s, LAMBDA x : x < v) < p
            /\ CountOf(s, LAMBDA x : x <= v) >= p]

\* In hundredths; `rank` too, and counted from 0.
percentile_RoundsDown(sorted, pct) ==
    IF sorted = <<>> THEN 0
    ELSE 100 * sorted[((pct * (Len(sorted) - 1)) \div 100) + 1]

percentile_FromWrongEnd(sorted, pct) ==
    IF sorted = <<>> THEN 0
    ELSE LET rank == pct * (Len(sorted) - 1)
             lo == rank \div 100
             hi == (rank + 99) \div 100
         IN  100 * sorted[hi + 1]
                 - (sorted[hi + 1] - sorted[lo + 1]) * (rank - 100 * lo)

percentile(sorted, pct) ==
    IF sorted = <<>> THEN 0
    ELSE LET rank == pct * (Len(sorted) - 1)
             lo == rank \div 100
             hi == (rank + 99) \div 100
         IN  IF lo = hi
             THEN 100 * sorted[lo + 1]
             ELSE 100 * sorted[lo + 1]
                      + (sorted[hi + 1] - sorted[lo + 1]) * (rank - 100 * lo)

Median == percentile(Sorted(samples), 50)
P95 == percentile(Sorted(samples), 95)

-----------------------------------------------------------------------
(* Correctness.                                                              *)

\* The types of the variables.
TypeOK ==
    /\ DOMAIN cfg = {"warmup", "iters", "bulk_iters", "read_iters"}
    /\ \A field \in DOMAIN cfg : cfg[field] \in 0..(U32 - 1)
    /\ of \in Entries
    /\ pc \in {"warmup", "timed", "returned", "failed"}
    /\ i \in 0..(cfg.warmup + Iters)
    /\ indices \in Seq(0..(U32 - 1))
    /\ samples \in Seq(Durations)

\* The environment asks for no more calls than a u32 can count.
SafeCounts ==
    \A iters \in ItersValues, quick \in QuickValues :
        LET c == from_env(iters, quick) IN c.warmup + c.iters < U32

\* "The iteration index is passed through so operations can target distinct
\* rows" (harness.rs 64-66): no call of delete_one() gets the index of a call
\* before it, and none an index past the rows that main() had seeded for it,
\* also when BENCH_ITERS and BENCH_QUICK are both set; when run_op() returns,
\* no seeded victim is left.
VictimsMatchCalls ==
    of = "delete" =>
        /\ \A m, n \in DOMAIN indices : indices[m] = indices[n] => m = n
        /\ \A n \in DOMAIN indices : indices[n] < DeleteRows
        /\ pc = "returned" =>
               Range(indices) = 0..(DeleteRows - 1)

\* The least value that at least n samples do not exceed, and the greatest
\* that at least n samples reach.
AtLeastBelow(n) ==
    CHOOSE v \in Range(samples) :
        /\ CountOf(samples, LAMBDA x : x <= v) >= n
        /\ CountOf(samples, LAMBDA x : x < v) < n

AtLeastAbove(n) ==
    CHOOSE v \in Range(samples) :
        /\ CountOf(samples, LAMBDA x : x >= v) >= n
        /\ CountOf(samples, LAMBDA x : x > v) < n

\* The median is half way between the least value that half of the samples do
\* not exceed and the greatest that half of them reach, for odd and even
\* numbers of samples, and warmup calls do not enter into it.
MedianIsMiddle ==
    pc = "returned" /\ Iters > 0 =>
        LET half == (Iters + 1) \div 2
        IN  /\ Len(samples) = Iters
            /\ 2 * Median = 100 * (AtLeastBelow(half) + AtLeastAbove(half))

\* p95 is where the tail begins: more than 95 % of all samples but one are not
\* above it, more than 5 % not below it, and it is neither below the median
\* nor above the slowest call.  Between the two calls next to it it lies as
\* far up as 95 % of the way from the fastest call to the slowest lies between
\* their places: of calls evenly spread in time it cuts off the last 5 %.
TailBeginsAtP95 ==
    pc = "returned" /\ Iters > 0 =>
        /\ 100 * CountOf(samples, LAMBDA x : 100 * x <= P95) > 95 * (Iters - 1)
        /\ 100 * CountOf(samples, LAMBDA x : 100 * x >= P95) > 5 * (Iters - 1)
        /\ Median <= P95
        /\ \E x \in Range(samples) : P95 <= 100 * x
        /\ LET way == 95 * (Iters - 1)
               below == AtLeastBelow(way \div 100 + 1)
               above == AtLeastBelow((way + 99) \div 100 + 1)
           IN  P95 = 100 * below + (above - below) * (way % 100)

=======================================================================
