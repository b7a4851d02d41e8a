------------------------ MODULE Harness_proofs ------------------------
(* Proofs about run_op() in Harness, for every BenchConfig, every value of   *)
(* BENCH_ITERS and BENCH_QUICK and all durations: the calls and their        *)
(* indices first, then the statistics of the samples.  Only what is said of  *)
(* the deletes assumes that no sum of counts exceeds a u32 (SafeCounts).     *)
EXTENDS Harness, SequenceTheorems, FiniteSetTheorems, WellFoundedInduction,
        TLAPS

-----------------------------------------------------------------------
(* The inductive invariant.                                                  *)

ConfigType ==
    /\ cfg \in [warmup : 0..(U32 - 1), iters : 0..(U32 - 1),
                bulk_iters : 0..(U32 - 1), read_iters : 0..(U32 - 1)]
    /\ of \in Entries

\* The calls made, one after another, were given the indices 0, 1, ..., which
\* start again at 0 after the last u32.
InOrder ==
    /\ indices \in Seq(0..(U32 - 1))
    /\ \A n \in 1..Len(indices) : indices[n] = Wrap32(n - 1)

\* How many calls there were.
Progress ==
    /\ pc \in {"warmup", "timed", "returned", "failed"}
    /\ i \in Nat
    /\ pc = "warmup" => i <= Warmup /\ Len(indices) = i
    /\ pc = "timed" => i <= Iters /\ Len(indices) = Warmup + i
    /\ pc = "returned" => Len(indices) = Warmup + Iters
    /\ pc = "failed" => Len(indices) <= Warmup + Iters

\* One sample for each timed call that came back.
Measured ==
    /\ samples \in Seq(Durations)
    /\ pc = "warmup" => samples = <<>>
    /\ pc = "timed" => Len(samples) = i
    /\ pc = "returned" => Len(samples) = Iters
    /\ i <= Warmup + Iters

IInv == ConfigType /\ InOrder /\ Progress /\ Measured

\* The numbers of calls are u32s.
LEMMA Counts ==
    ASSUME ConfigType
    PROVE  /\ Warmup \in Nat /\ Iters \in Nat
           /\ U32 \in Nat /\ Warmup < U32 /\ Iters < U32
<1>1. /\ U32 \in Nat
      /\ \A x \in 0..(U32 - 1) : x \in Nat /\ x < U32
  BY ConfigsAssumption
<1>2. Warmup \in 0..(U32 - 1)
  BY <1>1 DEF ConfigType, Warmup
<1>3. Iters \in 0..(U32 - 1)
  BY DEF ConfigType, Iters
<1> QED
  BY <1>1, <1>2, <1>3

\* from_env() gives a BenchConfig, whatever the environment holds.
LEMMA InitIInv ==
    ASSUME Init
    PROVE  IInv
<1>1. cfg \in [warmup : 0..(U32 - 1), iters : 0..(U32 - 1),
              bulk_iters : 0..(U32 - 1), read_iters : 0..(U32 - 1)]
  <2>1. PICK iters \in ItersValues, quick \in QuickValues :
            cfg = from_env(iters, quick)
    BY DEF Init
  <2>2. cfg \in {DefaultConfig, QuickConfig} \/
            (iters \in 0..(U32 - 1)
                 /\ cfg = [DefaultConfig EXCEPT !.iters = iters])
    BY <2>1 DEF from_env, WithIters
  <2> QED
    BY <2>2, ConfigsAssumption
<1>2. ConfigType
  BY <1>1 DEF Init, ConfigType
<1>3. InOrder /\ Progress
  BY <1>2, Counts DEF Init, InOrder, Progress
<1>4. Measured
  BY <1>2, Counts DEF Init, Measured
<1> QED
  BY <1>2, <1>3, <1>4 DEF IInv

\* A call with the number of calls so far as its index keeps the order.
LEMMA CallsInOrder ==
    ASSUME InOrder, indices' = Append(indices, Wrap32(Len(indices))),
           U32 \in Nat, Len(indices) < U32 + U32
    PROVE  InOrder' /\ Len(indices') = Len(indices) + 1
<1>1. Len(indices) \in Nat
  BY DEF InOrder
<1>2. Wrap32(Len(indices)) \in 0..(U32 - 1)
  BY <1>1 DEF Wrap32
<1>3. /\ indices' \in Seq(0..(U32 - 1)) /\ Len(indices') = Len(indices) + 1
      /\ \A n \in 1..Len(indices) : indices'[n] = indices[n]
      /\ indices'[Len(indices) + 1] = Wrap32(Len(indices))
  BY <1>1, <1>2, AppendProperties DEF InOrder
<1>4. \A n \in 1..Len(indices') : indices'[n] = Wrap32(n - 1)
  <2> TAKE n \in 1..Len(indices')
  <2>1. CASE n \in 1..Len(indices)
    BY <1>3, <2>1 DEF InOrder
  <2>2. CASE n \notin 1..Len(indices)
    <3>1. n = Len(indices) + 1 /\ n - 1 = Len(indices)
      BY <1>1, <1>3, <2>2
    <3> QED
      BY <1>3, <3>1
  <2> QED
    BY <2>1, <2>2
<1> QED
  BY <1>3, <1>4 DEF InOrder

\* A timed call adds one sample.
LEMMA SampleTaken ==
    ASSUME samples \in Seq(Durations), NEW elapsed \in Durations,
           samples' = Append(samples, elapsed)
    PROVE  samples' \in Seq(Durations) /\ Len(samples') = Len(samples) + 1
  BY AppendProperties

\* IInv is inductive: the timed loop goes on where the warmup stopped.
LEMMA NextIInv ==
    ASSUME IInv, [Next]_vars
    PROVE  IInv'
<1>1. /\ Warmup \in Nat /\ Iters \in Nat /\ i \in Nat /\ Len(indices) \in Nat
      /\ U32 \in Nat /\ Warmup < U32 /\ Iters < U32
  BY Counts DEF IInv, Progress, InOrder
<1>2. ConfigType' /\ Warmup' = Warmup /\ Iters' = Iters
  BY DEF IInv, ConfigType, Next, WarmupCall, StartTiming, TimedCall, CallFails,
         Return, vars, Warmup, Iters
<1>3. CASE WarmupCall
  <2>1. /\ indices' = Append(indices, Wrap32(Len(indices)))
        /\ Len(indices) < U32 + U32
    BY <1>1, <1>3 DEF WarmupCall, IInv, Progress, Wrap32
  <2>2. InOrder' /\ Progress'
    BY <1>1, <1>2, <1>3, <2>1, CallsInOrder DEF WarmupCall, IInv, Progress
  <2>3. Measured'
    BY <1>1, <1>2, <1>3 DEF WarmupCall, IInv, Measured
  <2> QED
    BY <1>2, <2>2, <2>3 DEF IInv
<1>4. CASE TimedCall
  <2>1. /\ indices' = Append(indices, Wrap32(Len(indices)))
        /\ Len(indices) < U32 + U32
    BY <1>1, <1>4 DEF TimedCall, IInv, Progress
  <2>2. InOrder' /\ Progress'
    BY <1>1, <1>2, <1>4, <2>1, CallsInOrder DEF TimedCall, IInv, Progress
  <2>3. samples' \in Seq(Durations) /\ Len(samples') = Len(samples) + 1
    BY <1>4, SampleTaken DEF TimedCall, IInv, Measured
  <2>4. Measured'
    BY <1>1, <1>2, <1>4, <2>3 DEF TimedCall, IInv, Measured
  <2> QED
    BY <1>2, <2>2, <2>4 DEF IInv
<1>5. CASE CallFails
  <2>1. /\ indices' = Append(indices, Wrap32(Len(indices)))
        /\ Len(indices) < Warmup + Iters
    BY <1>1, <1>5 DEF CallFails, IInv, Progress, Wrap32
  <2>2. InOrder' /\ Progress'
    BY <1>1, <1>2, <1>5, <2>1, CallsInOrder DEF CallFails, IInv, Progress
  <2>3. Measured'
    BY <1>1, <1>2, <1>5 DEF CallFails, IInv, Measured
  <2> QED
    BY <1>2, <2>2, <2>3 DEF IInv
<1>6. CASE StartTiming \/ Return \/ UNCHANGED vars
  <2>1. indices' = indices /\ samples' = samples
    BY <1>6 DEF StartTiming, Return, vars
  <2>2. InOrder'
    BY <2>1 DEF IInv, InOrder
  <2>3. Progress'
    BY <1>1, <1>2, <1>6, <2>1 DEF StartTiming, Return, vars, IInv, Progress
  <2>4. Measured'
    BY <1>1, <1>2, <1>6, <2>1 DEF StartTiming, Return, vars, IInv, Measured
  <2> QED
    BY <1>2, <2>2, <2>3, <2>4 DEF IInv
<1> QED
  BY <1>3, <1>4, <1>5, <1>6 DEF Next

\* IInv holds in every state.
LEMMA Inductive == Spec => []IInv
<1> QED
  BY InitIInv, NextIInv, PTL DEF Spec

\* The configuration, the counters and the records of run_op() keep their
\* types, whatever the environment sets.
THEOREM TypeCorrect == Spec => []TypeOK
<1>1. IInv => TypeOK
  <2> SUFFICES ASSUME IInv PROVE TypeOK
    OBVIOUS
  <2>1. /\ cfg \in [warmup : 0..(U32 - 1), iters : 0..(U32 - 1),
                    bulk_iters : 0..(U32 - 1), read_iters : 0..(U32 - 1)]
        /\ of \in Entries
    BY DEF IInv, ConfigType
  <2>2. i \in Nat /\ pc \in {"warmup", "timed", "returned", "failed"}
    BY DEF IInv, Progress
  <2>3. i <= cfg.warmup + Iters
    <3>1. Warmup \in Nat /\ Iters \in Nat /\ i <= Warmup + Iters
      BY Counts DEF IInv, Measured
    <3>2. Warmup <= cfg.warmup /\ cfg.warmup \in Nat
      BY <2>1, <3>1 DEF Warmup
    <3> QED
      BY <2>2, <3>1, <3>2
  <2>4. indices \in Seq(0..(U32 - 1)) /\ samples \in Seq(Durations)
    BY DEF IInv, InOrder, Measured
  <2>5. cfg.warmup \in Nat /\ Iters \in Nat
    BY <2>1, Counts DEF IInv
  <2>6. /\ DOMAIN cfg = {"warmup", "iters", "bulk_iters", "read_iters"}
        /\ \A field \in DOMAIN cfg : cfg[field] \in 0..(U32 - 1)
    BY <2>1
  <2>7. i \in 0..(cfg.warmup + Iters)
    BY <2>2, <2>3, <2>5
  <2> QED
    BY <2>1, <2>2, <2>4, <2>7, <2>6 DEF TypeOK
<1> QED
  BY <1>1, Inductive, PTL

\* No more calls are asked for than a u32 can count.
FewCalls == cfg.warmup + cfg.iters < U32

\* What SafeCounts says of the environment holds of the BenchConfig read from
\* it, which no call changes.
LEMMA CallsAreFew ==
    ASSUME SafeCounts
    PROVE  Spec => []FewCalls
<1>1. ASSUME Init PROVE FewCalls
  <2>1. PICK iters \in ItersValues, quick \in QuickValues :
            cfg = from_env(iters, quick)
    BY <1>1 DEF Init
  <2> QED
    BY <2>1 DEF SafeCounts, FewCalls
<1>2. FewCalls /\ [Next]_vars => FewCalls'
  BY DEF FewCalls, Next, WarmupCall, StartTiming, TimedCall, CallFails, Return,
         vars
<1> QED
  BY <1>1, <1>2, PTL DEF Spec

\* As long as the environment asks for no more calls than a u32 can count, the
\* calls of delete_one() aim at different seeded victims, and leave none when
\* run_op() returns: main() and run_op() count warmup and timed calls alike.
THEOREM DeletesMatchVictims ==
    ASSUME SafeCounts
    PROVE  Spec => []VictimsMatchCalls
<1>1. IInv /\ FewCalls => VictimsMatchCalls
  <2> SUFFICES ASSUME IInv, FewCalls, of = "delete"
               PROVE  VictimsMatchCalls
    BY DEF VictimsMatchCalls
  <2>1. Warmup = cfg.warmup /\ Iters = cfg.iters
    BY DEF Warmup, Iters
  <2>2. /\ Warmup \in Nat /\ Iters \in Nat /\ U32 \in Nat
        /\ Warmup + Iters < U32 /\ DeleteRows = Warmup + Iters
    BY <2>1, Counts DEF IInv, FewCalls, DeleteRows, Wrap32
  <2>3. Len(indices) \in Nat /\ Len(indices) <= Warmup + Iters
    <3>1. /\ Progress /\ pc \in {"warmup", "timed", "returned", "failed"}
          /\ Len(indices) \in Nat
      BY DEF IInv, Progress, InOrder
    <3> QED
      BY <2>2, <3>1 DEF Progress
  <2>4. /\ Warmup \in Nat /\ Iters \in Nat /\ Len(indices) \in Nat
        /\ DOMAIN indices = 1..Len(indices)
        /\ \A n \in DOMAIN indices : indices[n] = n - 1
    <3>1. InOrder
      BY DEF IInv
    <3>2. DOMAIN indices = 1..Len(indices)
      BY <3>1 DEF InOrder
    <3>3. \A n \in 1..Len(indices) : Wrap32(n - 1) = n - 1
      BY <2>2, <2>3 DEF Wrap32
    <3>4. \A n \in DOMAIN indices : indices[n] = n - 1
      BY <3>1, <3>2, <3>3 DEF InOrder
    <3> QED
      BY <2>2, <2>3, <3>2, <3>4
  <2>5. Len(indices) <= DeleteRows
    BY <2>2, <2>3
  <2>6. pc = "returned" => Range(indices) = 0..(DeleteRows - 1)
    <3> SUFFICES ASSUME pc = "returned" PROVE Range(indices) = 0..(DeleteRows - 1)
      OBVIOUS
    <3>1. Len(indices) = DeleteRows
      BY <2>2 DEF IInv, Progress
    <3>2. \A x \in 0..(DeleteRows - 1) :
              x + 1 \in DOMAIN indices /\ indices[x + 1] = x
      BY <2>4, <2>2, <3>1
    <3>3. \A n \in DOMAIN indices : indices[n] \in 0..(DeleteRows - 1)
      BY <2>4, <3>1
    <3>4. Range(indices) = {indices[n] : n \in DOMAIN indices}
      BY Zenon DEF Range
    <3>5. \A x : x \in 0..(DeleteRows - 1)
                     => \E n \in DOMAIN indices : x = indices[n]
      BY <3>2
    <3> HIDE DEF DeleteRows
    <3> QED
      BY <3>3, <3>4, <3>5
  <2> QED
    BY <2>4, <2>5, <2>6, <2>2 DEF VictimsMatchCalls
<1> QED
  BY <1>1, Inductive, CallsAreFew, PTL

-----------------------------------------------------------------------
(* Order statistics of a sequence of natural numbers.                        *)

\* Every set of natural numbers that is not empty has a least element.
LEMMA NatMin ==
    ASSUME NEW T, T \subseteq Nat, T # {}
    PROVE  \E x \in T : \A y \in T : x <= y
<1> DEFINE R == OpToRel(<, Nat)
<1>1. \E x \in T : \A y \in T : ~ (<<y, x>> \in R)
  BY NatLessThanWellFounded, WFMin
<1>2. \A x, y \in Nat : y < x => <<y, x>> \in R
  BY Zenon DEF OpToRel
<1> HIDE DEF R
<1>3. PICK x \in T : \A y \in T : ~ (<<y, x>> \in R)
  BY <1>1
<1>4. \A y \in T : ~ (y < x)
  BY <1>2, <1>3
<1> QED
  BY <1>4

\* Induction over a set: one that holds 0 and with n also n + 1 is all of Nat.
LEMMA Induction ==
    ASSUME NEW S, 0 \in S, \A n \in Nat : n \in S => n + 1 \in S
    PROVE  Nat \subseteq S
<1> SUFFICES ASSUME Nat \ S # {} PROVE FALSE
  OBVIOUS
<1>1. PICK x \in Nat \ S : \A y \in Nat \ S : x <= y
  BY NatMin, Zenon
<1>2. x # 0 /\ x - 1 \in Nat
  BY <1>1
<1>3. x - 1 \in S
  BY <1>1, <1>2
<1> QED
  BY <1>1, <1>2, <1>3

\* Finitely many numbers have an upper bound.
LEMMA Bounded ==
    ASSUME NEW s \in Seq(Nat)
    PROVE  \E b \in Nat : \A m \in DOMAIN s : s[m] <= b
<1> DEFINE S == {k \in Nat : k <= Len(s) =>
                     \E b \in Nat : \A m \in 1..k : s[m] <= b}
<1>1. Len(s) \in Nat /\ DOMAIN s = 1..Len(s) /\ \A m \in 1..Len(s) : s[m] \in Nat
  OBVIOUS
<1>2. 0 \in S
  OBVIOUS
<1>3. \A k \in Nat : k \in S => k + 1 \in S
  <2> TAKE k \in Nat
  <2> HAVE k \in S
  <2> SUFFICES ASSUME k + 1 <= Len(s)
               PROVE  \E b \in Nat : \A m \in 1..(k + 1) : s[m] <= b
    OBVIOUS
  <2>1. PICK b \in Nat : \A m \in 1..k : s[m] <= b
    BY <1>1
  <2>2. s[k + 1] \in Nat
    BY <1>1
  <2>3. CASE s[k + 1] <= b
    <3>1. \A m \in 1..(k + 1) : s[m] <= b
      BY <2>1, <2>3
    <3> QED
      BY <3>1
  <2>4. CASE ~(s[k + 1] <= b)
    <3>1. \A m \in 1..(k + 1) : m \in 1..k \/ m = k + 1
      OBVIOUS
    <3>2. \A m \in 1..k : s[m] \in Nat /\ s[m] <= b
      BY <1>1, <2>1
    <3>3. \A m \in 1..(k + 1) : s[m] <= s[k + 1]
      BY <2>2, <2>4, <3>1, <3>2
    <3> QED
      BY <2>2, <3>3
  <2> QED
    BY <2>3, <2>4
<1> HIDE DEF S
<1>4. Len(s) \in S
  BY <1>1, <1>2, <1>3, Induction, Zenon
<1> QED
  BY <1>1, <1>4 DEF S

\* The places of the samples below a value, and of those not above it.
Below(s, v) == {m \in DOMAIN s : s[m] < v}
NotAbove(s, v) == {m \in DOMAIN s : s[m] <= v}

\* A value is at place p of the sorted samples.
Ranked(s, p, v) ==
    Cardinality(Below(s, v)) < p /\ Cardinality(NotAbove(s, v)) >= p

\* There are as many places as samples.
LEMMA PlacesFinite ==
    ASSUME NEW s \in Seq(Nat)
    PROVE  /\ IsFiniteSet(DOMAIN s)
           /\ Cardinality(DOMAIN s) = Len(s)
           /\ Len(s) \in Nat
<1>1. Len(s) \in Nat /\ Len(s) \in Int /\ DOMAIN s = 1..Len(s)
  OBVIOUS
<1>2. 1 \in Int /\ Len(s) - 1 + 1 = Len(s) /\ (1 > Len(s) => Len(s) = 0)
  BY <1>1
<1>3. /\ IsFiniteSet(1..Len(s))
      /\ Cardinality(1..Len(s)) = IF 1 > Len(s) THEN 0 ELSE Len(s) - 1 + 1
  BY <1>1, <1>2, FS_Interval, Zenon
<1>4. Cardinality(1..Len(s)) = Len(s)
  BY <1>2, <1>3
<1> QED
  BY <1>1, <1>3, <1>4, Zenon

\* A part of the places is not more than what it is a part of.
LEMMA PartOfPlaces ==
    ASSUME NEW s \in Seq(Nat), NEW P, NEW Q, P \subseteq Q, Q \subseteq DOMAIN s
    PROVE  /\ Cardinality(P) \in Nat /\ Cardinality(Q) \in Nat
           /\ Cardinality(P) <= Cardinality(Q)
<1>1. IsFiniteSet(Q) /\ IsFiniteSet(P)
  BY PlacesFinite, FS_Subset
<1> QED
  BY <1>1, FS_Subset, FS_CardinalityType

\* The places of a part and of its complement are all places.
LEMMA Complement ==
    ASSUME NEW s \in Seq(Nat), NEW P, P \subseteq DOMAIN s
    PROVE  /\ Cardinality(P) \in Nat
           /\ Cardinality((DOMAIN s) \ P) = Len(s) - Cardinality(P)
<1>1. IsFiniteSet(P) /\ IsFiniteSet((DOMAIN s) \ P)
  BY PlacesFinite, FS_Subset
<1>2. Cardinality(P) \in Nat /\ Cardinality((DOMAIN s) \ P) \in Nat
  BY <1>1, FS_CardinalityType
<1>3. P \cup ((DOMAIN s) \ P) = DOMAIN s /\ P \cap ((DOMAIN s) \ P) = {}
  OBVIOUS
<1>4. Cardinality(P \cup ((DOMAIN s) \ P)) =
          Cardinality(P) + Cardinality((DOMAIN s) \ P)
              - Cardinality(P \cap ((DOMAIN s) \ P))
  BY <1>1, FS_Union
<1>5. Cardinality({}) = 0
  BY FS_EmptySet
<1>6. /\ Cardinality(P \cup ((DOMAIN s) \ P)) = Len(s)
      /\ Cardinality(P \cap ((DOMAIN s) \ P)) = 0
      /\ Len(s) \in Nat
  BY <1>3, <1>5, PlacesFinite, Zenon
<1> QED
  BY <1>2, <1>4, <1>6

\* The numbers of samples below and not above a value are numbers.
LEMMA RankedInType ==
    ASSUME NEW s \in Seq(Nat), NEW v
    PROVE  /\ Cardinality(Below(s, v)) \in Nat
           /\ Cardinality(NotAbove(s, v)) \in Nat
<1>1. Below(s, v) \subseteq DOMAIN s /\ NotAbove(s, v) \subseteq DOMAIN s
  BY DEF Below, NotAbove
<1> QED
  BY <1>1, Complement

\* There is a value at every place: the least number that enough samples do
\* not exceed.
LEMMA ValueAt ==
    ASSUME NEW s \in Seq(Nat), NEW p \in 1..Len(s)
    PROVE  \E v \in Range(s) : Ranked(s, p, v)
<1> DEFINE T == {v \in Nat : Cardinality(NotAbove(s, v)) >= p}
<1>1. /\ Len(s) \in Nat /\ DOMAIN s = 1..Len(s) /\ p \in Nat \ {0}
      /\ \A m \in DOMAIN s : s[m] \in Nat
  OBVIOUS
<1>2. T # {}
  <2>1. PICK b \in Nat : \A m \in DOMAIN s : s[m] <= b
    BY Bounded
  <2>2. NotAbove(s, b) = DOMAIN s
    BY <2>1 DEF NotAbove
  <2>3. Cardinality(NotAbove(s, b)) = Len(s)
    BY <2>2, PlacesFinite
  <2> QED
    BY <2>3
<1>3. T \subseteq Nat
  OBVIOUS
<1>4. PICK v \in T : \A w \in T : v <= w
  <2> HIDE DEF T
  <2> QED
    BY <1>2, <1>3, NatMin, Zenon
<1>5. v \in Nat /\ Cardinality(NotAbove(s, v)) >= p
  BY <1>4
<1>6. Cardinality({}) = 0
  BY FS_EmptySet
<1>7. Cardinality(Below(s, v)) < p
  <2>1. CASE v = 0
    <3>1. Below(s, v) = {}
      BY <1>1, <2>1 DEF Below
    <3>2. Cardinality(Below(s, v)) = 0
      BY <1>6, <3>1, Zenon
    <3> QED
      BY <1>1, <3>2
  <2>2. CASE v # 0
    <3>1. v - 1 \in Nat /\ v - 1 \notin T
      BY <1>4, <1>5, <2>2
    <3>2. ~(Cardinality(NotAbove(s, v - 1)) >= p)
      BY <3>1
    <3>3. Below(s, v) = NotAbove(s, v - 1)
      BY <1>1, <1>5, <3>1 DEF Below, NotAbove
    <3>4. Cardinality(Below(s, v)) = Cardinality(NotAbove(s, v - 1))
      BY <3>3, Zenon
    <3> QED
      BY <1>1, <3>2, <3>4, RankedInType
  <2> QED
    BY <2>1, <2>2
<1>8. v \in Range(s)
  <2> SUFFICES ASSUME v \notin Range(s) PROVE FALSE
    OBVIOUS
  <2>1. \A m \in DOMAIN s : s[m] # v
    BY DEF Range
  <2>2. Below(s, v) = NotAbove(s, v)
    BY <1>1, <1>5, <2>1 DEF Below, NotAbove
  <2>3. Cardinality(Below(s, v)) = Cardinality(NotAbove(s, v))
    BY <2>2, Zenon
  <2> QED
    BY <1>1, <1>5, <1>7, <2>3, RankedInType
<1> QED
  BY <1>5, <1>7, <1>8 DEF Ranked

\* The values at the places grow with the places.
LEMMA PlacesGrow ==
    ASSUME NEW s \in Seq(Nat), NEW p \in Nat, NEW q \in Nat, p <= q,
           NEW v \in Nat, NEW w \in Nat, Ranked(s, p, v), Ranked(s, q, w)
    PROVE  v <= w
<1> SUFFICES ASSUME w < v PROVE FALSE
  OBVIOUS
<1>1. \A m \in DOMAIN s : s[m] \in Nat
  OBVIOUS
<1>2. NotAbove(s, w) \subseteq Below(s, v) /\ Below(s, v) \subseteq DOMAIN s
  BY <1>1 DEF NotAbove, Below
<1>3. /\ Cardinality(NotAbove(s, w)) \in Nat /\ Cardinality(Below(s, v)) \in Nat
      /\ Cardinality(NotAbove(s, w)) <= Cardinality(Below(s, v))
  BY <1>2, PartOfPlaces
<1> QED
  BY <1>3 DEF Ranked

\* There is but one value at a place.
LEMMA OneValueAt ==
    ASSUME NEW s \in Seq(Nat), NEW p \in Nat, NEW v \in Range(s),
           NEW w \in Range(s), Ranked(s, p, v), Ranked(s, p, w)
    PROVE  v = w
<1>1. v \in Nat /\ w \in Nat
  BY DEF Range
<1>2. v <= w /\ w <= v
  BY <1>1, PlacesGrow
<1> QED
  BY <1>1, <1>2

\* sort_by() gives a sequence of the same length, with the value that belongs
\* there at every place.
LEMMA SortedType ==
    ASSUME NEW s \in Seq(Nat)
    PROVE  /\ Sorted(s) \in Seq(Nat)
           /\ Len(Sorted(s)) = Len(s)
           /\ \A p \in 1..Len(s) :
                  Sorted(s)[p] \in Range(s) /\ Ranked(s, p, Sorted(s)[p])
<1>1. /\ Len(s) \in Nat /\ DOMAIN s = 1..Len(s)
      /\ \A m \in DOMAIN s : s[m] \in Nat
  OBVIOUS
<1> DEFINE value(p) == CHOOSE v \in Range(s) : Ranked(s, p, v)
<1>2. Sorted(s) = [p \in DOMAIN s |-> value(p)]
  BY Zenon DEF Sorted, CountOf, Ranked, Below, NotAbove
<1>3. \A p \in 1..Len(s) : value(p) \in Range(s) /\ Ranked(s, p, value(p))
  BY ValueAt
<1> HIDE DEF value
<1>4. Sorted(s) = [p \in 1..Len(s) |-> value(p)]
  BY <1>1, <1>2, Zenon
<1>5. \A p \in 1..Len(s) : Sorted(s)[p] = value(p)
  BY <1>4
<1>6. \A p \in 1..Len(s) : value(p) \in Nat
  BY <1>1, <1>3 DEF Range
<1>7. Sorted(s) \in [1..Len(s) -> Nat]
  BY <1>4, <1>6
<1> QED
  BY <1>1, <1>3, <1>5, <1>7

\* Sorted samples do not fall.
LEMMA SortedGrows ==
    ASSUME NEW s \in Seq(Nat), NEW p \in 1..Len(s), NEW q \in 1..Len(s), p <= q
    PROVE  /\ Sorted(s)[p] \in Nat /\ Sorted(s)[q] \in Nat
           /\ Sorted(s)[p] <= Sorted(s)[q]
<1>1. /\ Sorted(s)[p] \in Range(s) /\ Ranked(s, p, Sorted(s)[p])
      /\ Sorted(s)[q] \in Range(s) /\ Ranked(s, q, Sorted(s)[q])
  BY SortedType
<1>2. Sorted(s)[p] \in Nat /\ Sorted(s)[q] \in Nat /\ p \in Nat /\ q \in Nat
  BY <1>1 DEF Range
<1> QED
  BY <1>1, <1>2, PlacesGrow

-----------------------------------------------------------------------
(* percentile().                                                             *)

\* The percentiles run_op() takes.
Percents == {50, 95}

\* The places on both sides of a percentile of n + 1 samples, from 0, and how
\* far it is from the lower one, in hundredths.
Lo(pct, n) == (pct * n) \div 100
Hi(pct, n) == (pct * n + 99) \div 100
Part(pct, n) == pct * n - 100 * Lo(pct, n)

\* Both places are places of samples, next to each other or the same.
LEMMA Places ==
    ASSUME NEW n \in Nat, NEW pct \in Percents
    PROVE  /\ Lo(pct, n) \in Nat /\ Hi(pct, n) \in Nat
           /\ Lo(pct, n) <= Hi(pct, n) /\ Hi(pct, n) <= n
           /\ Part(pct, n) \in 0..100
<1>1. CASE pct = 50
  BY <1>1 DEF Lo, Hi, Part
<1>2. CASE pct = 95
  BY <1>2 DEF Lo, Hi, Part
<1> QED
  BY <1>1, <1>2 DEF Percents

\* A point between two values, in hundredths.
Point(a, b, part) == 100 * a + (b - a) * part

\* It is between them.
LEMMA Between ==
    ASSUME NEW a \in Nat, NEW b \in Nat, a <= b, NEW part \in 0..100
    PROVE  /\ Point(a, b, part) \in Nat
           /\ 100 * a <= Point(a, b, part)
           /\ Point(a, b, part) <= 100 * b
<1>1. b - a \in Nat /\ 100 - part \in Nat /\ part \in Nat
  OBVIOUS
<1>2. (b - a) * part \in Nat /\ (b - a) * (100 - part) \in Nat
  BY <1>1
<1>3. (b - a) * (100 - part) = 100 * b - 100 * a - (b - a) * part
  BY <1>1
<1> QED
  BY <1>2, <1>3 DEF Point

\* The percentile of samples that do not fall lies between the values at
\* these places, as far from the lower as the rank is.
LEMMA PercentileOfSorted ==
    ASSUME NEW s \in Seq(Nat), NEW n \in Nat, Len(s) = n + 1,
           \A p, q \in 1..Len(s) : p <= q => s[p] <= s[q],
           NEW pct \in Percents
    PROVE  /\ s[Lo(pct, n) + 1] \in Nat /\ s[Hi(pct, n) + 1] \in Nat
           /\ s[Lo(pct, n) + 1] <= s[Hi(pct, n) + 1]
           /\ percentile(s, pct) =
                  Point(s[Lo(pct, n) + 1], s[Hi(pct, n) + 1], Part(pct, n))
<1> DEFINE lo == Lo(pct, n)
           hi == Hi(pct, n)
           part == Part(pct, n)
<1>1. lo \in Nat /\ hi \in Nat /\ lo <= hi /\ hi <= n /\ part \in 0..100
  BY Places
<1>2. lo + 1 \in 1..Len(s) /\ hi + 1 \in 1..Len(s) /\ lo + 1 <= hi + 1
  BY <1>1
<1>3. s[lo + 1] \in Nat /\ s[hi + 1] \in Nat /\ s[lo + 1] <= s[hi + 1]
  <2> HIDE DEF lo, hi
  <2> QED
    BY <1>2
<1>4. percentile(s, pct) =
          IF lo = hi THEN 100 * s[lo + 1] ELSE Point(s[lo + 1], s[hi + 1], part)
  <2>1. s # <<>> /\ Len(s) - 1 = n
    OBVIOUS
  <2> QED
    BY <2>1 DEF percentile, Lo, Hi, Part, Point, Percents
<1> HIDE DEF lo, hi, part
<1>5. percentile(s, pct) = Point(s[lo + 1], s[hi + 1], part)
  <2>1. CASE lo = hi
    <3>1. s[hi + 1] - s[lo + 1] = 0 /\ part \in Int
      BY <1>1, <1>3, <2>1
    <3>2. (s[hi + 1] - s[lo + 1]) * part = 0
      BY <3>1
    <3> QED
      BY <1>3, <1>4, <2>1, <3>2 DEF Point
  <2>2. CASE lo # hi
    BY <1>4, <2>2
  <2> QED
    BY <2>1, <2>2
<1> QED
  BY <1>3, <1>5 DEF lo, hi, part

\* Samples are natural numbers, as durations are.
LEMMA SamplesAreNumbers ==
    ASSUME Measured
    PROVE  samples \in Seq(Nat)
<1>1. samples \in Seq(Durations) /\ Len(samples) \in Nat
  BY DEF Measured
<1>2. samples \in [1..Len(samples) -> Durations]
  BY <1>1
<1>3. samples \in [1..Len(samples) -> Nat]
  BY <1>2, DurationsAssumption
<1> QED
  BY <1>1, <1>3

\* Both ways to count to a value find the one at a place of the sorted samples.
LEMMA CountedFromBelow ==
    ASSUME samples \in Seq(Nat), NEW p \in 1..Len(samples)
    PROVE  AtLeastBelow(p) = Sorted(samples)[p]
<1> DEFINE Fits(v) == /\ CountOf(samples, LAMBDA x : x <= v) >= p
                      /\ CountOf(samples, LAMBDA x : x < v) < p
<1>1. \A v : Fits(v) <=> Ranked(samples, p, v)
  BY DEF CountOf, Ranked, Below, NotAbove
<1>2. AtLeastBelow(p) = CHOOSE v \in Range(samples) : Fits(v)
  BY Zenon DEF AtLeastBelow
<1> HIDE DEF Fits
<1>3. /\ Sorted(samples)[p] \in Range(samples)
      /\ Ranked(samples, p, Sorted(samples)[p])
  BY SortedType
<1>4. AtLeastBelow(p) \in Range(samples) /\ Ranked(samples, p, AtLeastBelow(p))
  BY <1>1, <1>2, <1>3, Zenon
<1>5. p \in Nat
  OBVIOUS
<1> QED
  BY <1>3, <1>4, <1>5, OneValueAt, Zenon

\* From above, the n-th of N samples is the one at place N + 1 - n.
LEMMA CountedFromAbove ==
    ASSUME samples \in Seq(Nat), NEW p \in 1..Len(samples)
    PROVE  AtLeastAbove(p) = Sorted(samples)[Len(samples) + 1 - p]
<1> DEFINE Fits(v) == /\ CountOf(samples, LAMBDA x : x >= v) >= p
                      /\ CountOf(samples, LAMBDA x : x > v) < p
           q == Len(samples) + 1 - p
<1>1. /\ Len(samples) \in Nat /\ p \in Nat /\ q \in Nat /\ q \in 1..Len(samples)
      /\ \A m \in DOMAIN samples : samples[m] \in Nat
  OBVIOUS
<1>2. ASSUME NEW v \in Range(samples)
      PROVE  Fits(v) <=> Ranked(samples, q, v)
  <2>1. v \in Nat
    BY <1>1 DEF Range
  <2>2. {m \in DOMAIN samples : samples[m] >= v} =
            (DOMAIN samples) \ Below(samples, v)
    BY <1>1, <2>1 DEF Below
  <2>3. {m \in DOMAIN samples : samples[m] > v} =
            (DOMAIN samples) \ NotAbove(samples, v)
    BY <1>1, <2>1 DEF NotAbove
  <2>4. /\ CountOf(samples, LAMBDA x : x >= v) =
               Cardinality((DOMAIN samples) \ Below(samples, v))
        /\ CountOf(samples, LAMBDA x : x > v) =
               Cardinality((DOMAIN samples) \ NotAbove(samples, v))
    BY <2>2, <2>3, Zenon DEF CountOf
  <2>5. /\ Below(samples, v) \subseteq DOMAIN samples
        /\ NotAbove(samples, v) \subseteq DOMAIN samples
    BY DEF Below, NotAbove
  <2>6. /\ Cardinality(Below(samples, v)) \in Nat
        /\ Cardinality(NotAbove(samples, v)) \in Nat
        /\ Cardinality((DOMAIN samples) \ Below(samples, v)) =
               Len(samples) - Cardinality(Below(samples, v))
        /\ Cardinality((DOMAIN samples) \ NotAbove(samples, v)) =
               Len(samples) - Cardinality(NotAbove(samples, v))
    BY <2>5, Complement
  <2>7. Fits(v) <=> /\ Len(samples) - Cardinality(Below(samples, v)) >= p
                    /\ Len(samples) - Cardinality(NotAbove(samples, v)) < p
    BY <2>4, <2>6, Zenon
  <2> HIDE DEF Fits
  <2> QED
    BY <1>1, <2>6, <2>7 DEF Ranked
<1>3. AtLeastAbove(p) = CHOOSE v \in Range(samples) : Fits(v)
  BY Zenon DEF AtLeastAbove
<1> HIDE DEF Fits, q
<1>4. /\ Sorted(samples)[q] \in Range(samples)
      /\ Ranked(samples, q, Sorted(samples)[q])
  BY <1>1, SortedType
<1>5. AtLeastAbove(p) \in Range(samples) /\ Ranked(samples, q, AtLeastAbove(p))
  BY <1>2, <1>3, <1>4, Zenon
<1>6. AtLeastAbove(p) = Sorted(samples)[q]
  BY <1>1, <1>4, <1>5, OneValueAt, Zenon
<1> QED
  BY <1>6 DEF q

\* The same of the samples run_op() sorts, and the bounds that follow.
LEMMA SortedSamples ==
    ASSUME NEW s \in Seq(Nat), NEW n \in Nat, Len(s) = n + 1,
           NEW pct \in Percents
    PROVE  LET S == Sorted(s)
               a == S[Lo(pct, n) + 1]
               b == S[Hi(pct, n) + 1]
           IN  /\ a \in Nat /\ b \in Nat /\ a <= b
               /\ percentile(S, pct) = Point(a, b, Part(pct, n))
               /\ percentile(S, pct) \in Nat
               /\ 100 * a <= percentile(S, pct) /\ percentile(S, pct) <= 100 * b
<1> DEFINE S == Sorted(s)
           a == S[Lo(pct, n) + 1]
           b == S[Hi(pct, n) + 1]
<1>1. S \in Seq(Nat) /\ Len(S) = n + 1
  BY SortedType
<1>2. \A p, q \in 1..Len(s) : p <= q => S[p] <= S[q]
  BY SortedGrows
<1>3. \A p, q \in 1..Len(S) : p <= q => S[p] <= S[q]
  BY <1>1, <1>2
<1> HIDE DEF S
<1>4. /\ a \in Nat /\ b \in Nat /\ a <= b
      /\ percentile(S, pct) = Point(a, b, Part(pct, n))
  BY <1>1, <1>3, PercentileOfSorted, Zenon
<1> HIDE DEF a, b
<1>5. Part(pct, n) \in 0..100
  BY Places
<1>6. /\ percentile(S, pct) \in Nat
      /\ 100 * a <= percentile(S, pct) /\ percentile(S, pct) <= 100 * b
  <2>1. /\ Point(a, b, Part(pct, n)) \in Nat
        /\ 100 * a <= Point(a, b, Part(pct, n))
        /\ Point(a, b, Part(pct, n)) <= 100 * b
    BY <1>4, <1>5, Between
  <2> QED
    BY <1>4, <2>1
<1> QED
  BY <1>4, <1>6 DEF S, a, b

\* The median is half way between the two middle values of the sorted samples,
\* which are one for an odd number of samples.
LEMMA MedianOfSorted ==
    ASSUME NEW s \in Seq(Nat), NEW n \in Nat, Len(s) = n + 1
    PROVE  LET half == (n + 2) \div 2
           IN  2 * percentile(Sorted(s), 50) =
                   100 * (Sorted(s)[half] + Sorted(s)[n + 2 - half])
<1> DEFINE S == Sorted(s)
           lo == Lo(50, n)
           hi == Hi(50, n)
           part == Part(50, n)
           half == (n + 2) \div 2
<1>1. /\ S[lo + 1] \in Nat /\ S[hi + 1] \in Nat
      /\ percentile(S, 50) = Point(S[lo + 1], S[hi + 1], part)
  BY SortedSamples DEF Percents
<1>2. lo + 1 = half /\ hi + 1 = n + 2 - half
  BY DEF Lo, Hi
<1>3. part = 50 \/ (lo = hi /\ part = 0)
  BY DEF Lo, Hi, Part
<1> HIDE DEF lo, hi, S, half, part
<1>4. 2 * percentile(S, 50) = 100 * (S[lo + 1] + S[hi + 1])
  <2>1. CASE lo = hi /\ part = 0
    BY <1>1, <2>1 DEF Point
  <2>2. CASE part = 50
    BY <1>1, <2>2 DEF Point
  <2> QED
    BY <1>3, <2>1, <2>2
<1>5. 2 * percentile(S, 50) = 100 * (S[half] + S[n + 2 - half])
  BY <1>2, <1>4
<1> QED
  BY <1>5 DEF S, half

\* When run_op() returns with samples, there is one for each timed call.
LEMMA AllSampled ==
    ASSUME IInv, pc = "returned", Iters > 0
    PROVE  /\ samples \in Seq(Nat) /\ Len(samples) = Iters
           /\ Iters \in Nat \ {0}
<1>1. samples \in Seq(Nat)
  BY SamplesAreNumbers DEF IInv
<1>2. Len(samples) = Iters /\ Iters \in Nat
  BY Counts DEF IInv, Measured
<1> QED
  BY <1>1, <1>2

\* The median in the report is the middle of all timed calls and of them only,
\* whatever their number and their durations.
THEOREM MedianInTheMiddle == Spec => []MedianIsMiddle
<1>1. ASSUME IInv PROVE MedianIsMiddle
  <2> SUFFICES ASSUME pc = "returned", Iters > 0
               PROVE  LET half == (Iters + 1) \div 2
                      IN  /\ Len(samples) = Iters
                          /\ 2 * Median =
                                 100 * (AtLeastBelow(half) + AtLeastAbove(half))
    BY Zenon DEF MedianIsMiddle
  <2> DEFINE n == Iters - 1
             half == (n + 2) \div 2
  <2>1. /\ samples \in Seq(Nat) /\ Len(samples) = Iters
        /\ Iters \in Nat \ {0}
    BY <1>1, AllSampled
  <2>2. /\ n \in Nat /\ Len(samples) = n + 1 /\ half \in 1..Len(samples)
        /\ half = (Iters + 1) \div 2
        /\ Len(samples) + 1 - half = n + 2 - half
    BY <2>1
  <2>3. 2 * Median = 100 * (Sorted(samples)[half]
                                + Sorted(samples)[n + 2 - half])
    <3> HIDE DEF n
    <3> QED
      BY <2>1, <2>2, MedianOfSorted DEF Median
  <2> HIDE DEF half, n
  <2>4. /\ AtLeastBelow(half) = Sorted(samples)[half]
        /\ AtLeastAbove(half) = Sorted(samples)[Len(samples) + 1 - half]
    BY <2>1, <2>2, CountedFromBelow, CountedFromAbove, Zenon
  <2>5. 2 * Median = 100 * (AtLeastBelow(half) + AtLeastAbove(half))
    BY <2>2, <2>3, <2>4
  <2> QED
    BY <2>1, <2>2, <2>5
<1> QED
  BY <1>1, Inductive, PTL

\* A median is not above the 95th percentile of the same samples.
LEMMA MedianFirst ==
    ASSUME NEW s \in Seq(Nat), NEW n \in Nat, Len(s) = n + 1
    PROVE  percentile(Sorted(s), 50) <= percentile(Sorted(s), 95)
<1> DEFINE S == Sorted(s)
           a == S[Lo(50, n) + 1]
           b == S[Hi(50, n) + 1]
           c == S[Lo(95, n) + 1]
           d == S[Hi(95, n) + 1]
<1>1. 50 \in Percents /\ 95 \in Percents
  BY DEF Percents
<1>2. /\ a \in Nat /\ b \in Nat /\ a <= b
      /\ percentile(S, 50) = Point(a, b, Part(50, n))
      /\ percentile(S, 50) \in Nat /\ percentile(S, 50) <= 100 * b
  BY <1>1, SortedSamples
<1>3. /\ c \in Nat /\ d \in Nat /\ c <= d
      /\ percentile(S, 95) = Point(c, d, Part(95, n))
      /\ percentile(S, 95) \in Nat /\ 100 * c <= percentile(S, 95)
  BY <1>1, SortedSamples
<1>4. CASE n = 1
  <2>1. /\ Lo(50, n) = Lo(95, n) /\ Hi(50, n) = Hi(95, n)
        /\ Part(50, n) = 50 /\ Part(95, n) = 95
    BY <1>4 DEF Lo, Hi, Part
  <2>2. a = c /\ b = d
    BY <2>1
  <2> HIDE DEF S, a, b, c, d
  <2> QED
    BY <1>2, <1>3, <2>1, <2>2 DEF Point, S
<1>5. CASE n # 1
  <2>1. Hi(50, n) + 1 <= Lo(95, n) + 1
    BY <1>5 DEF Lo, Hi
  <2>2. Hi(50, n) + 1 \in 1..Len(s) /\ Lo(95, n) + 1 \in 1..Len(s)
    BY DEF Lo, Hi
  <2>3. b <= c
    BY <2>1, <2>2, SortedGrows, Zenon
  <2> HIDE DEF S, a, b, c, d
  <2> QED
    BY <1>2, <1>3, <2>3 DEF S
<1> QED
  BY <1>4, <1>5

\* How many of the samples are not above a percentile, and how many not below.
LEMMA SharesOfP95 ==
    ASSUME NEW s \in Seq(Nat), NEW n \in Nat, Len(s) = n + 1
    PROVE  LET P == percentile(Sorted(s), 95)
           IN  /\ 100 * Cardinality({m \in DOMAIN s : 100 * s[m] <= P}) > 95 * n
               /\ 100 * Cardinality({m \in DOMAIN s : 100 * s[m] >= P}) > 5 * n
               /\ \E x \in Range(s) : P <= 100 * x
<1> DEFINE P == percentile(Sorted(s), 95)
           a == Sorted(s)[Lo(95, n) + 1]
           b == Sorted(s)[Hi(95, n) + 1]
           NotOver == {m \in DOMAIN s : 100 * s[m] <= P}
           NotUnder == {m \in DOMAIN s : 100 * s[m] >= P}
<1>1. /\ a \in Nat /\ b \in Nat /\ P \in Nat
      /\ 100 * a <= P /\ P <= 100 * b
  BY SortedSamples DEF Percents
<1>2. Lo(95, n) + 1 \in 1..Len(s) /\ Hi(95, n) + 1 \in 1..Len(s)
  BY DEF Lo, Hi
<1>3. Ranked(s, Lo(95, n) + 1, a) /\ b \in Range(s) /\ Ranked(s, Hi(95, n) + 1, b)
  BY <1>2, SortedType
<1>4. \A m \in DOMAIN s : s[m] \in Nat
  OBVIOUS
<1> HIDE DEF P, a, b
<1>5. 100 * Cardinality(NotOver) > 95 * n
  <2>1. NotAbove(s, a) \subseteq NotOver /\ NotOver \subseteq DOMAIN s
    BY <1>1, <1>4 DEF NotAbove
  <2> HIDE DEF NotOver
  <2>2. /\ Cardinality(NotAbove(s, a)) \in Nat /\ Cardinality(NotOver) \in Nat
        /\ Cardinality(NotAbove(s, a)) <= Cardinality(NotOver)
    BY <2>1, PartOfPlaces
  <2>3. Cardinality(NotAbove(s, a)) >= Lo(95, n) + 1
    BY <1>3 DEF Ranked
  <2> QED
    BY <2>2, <2>3 DEF Lo
<1>6. 100 * Cardinality(NotUnder) > 5 * n
  <2>1. /\ (DOMAIN s) \ Below(s, b) \subseteq NotUnder
        /\ NotUnder \subseteq DOMAIN s /\ Below(s, b) \subseteq DOMAIN s
    BY <1>1, <1>4 DEF Below
  <2> HIDE DEF NotUnder
  <2>2. /\ Cardinality((DOMAIN s) \ Below(s, b)) \in Nat
        /\ Cardinality(NotUnder) \in Nat
        /\ Cardinality((DOMAIN s) \ Below(s, b)) <= Cardinality(NotUnder)
    BY <2>1, PartOfPlaces
  <2>3. /\ Cardinality(Below(s, b)) \in Nat
        /\ Cardinality((DOMAIN s) \ Below(s, b)) =
               Len(s) - Cardinality(Below(s, b))
    BY <2>1, Complement, Zenon
  <2>4. Cardinality(Below(s, b)) < Hi(95, n) + 1
    BY <1>3 DEF Ranked
  <2> QED
    BY <2>2, <2>3, <2>4 DEF Hi
<1> QED
  BY <1>1, <1>3, <1>5, <1>6 DEF P

\* The way from the fastest call to the one p95 names, in calls, and the two
\* calls next to it.
LEMMA PlaceOfP95 ==
    ASSUME samples \in Seq(Nat), NEW n \in Nat, Len(samples) = n + 1
    PROVE  LET way == 95 * n
               below == AtLeastBelow(way \div 100 + 1)
               above == AtLeastBelow((way + 99) \div 100 + 1)
           IN  P95 = 100 * below + (above - below) * (way % 100)
<1> DEFINE way == 95 * n
           lo == way \div 100
           hi == (way + 99) \div 100
           a == Sorted(samples)[lo + 1]
           b == Sorted(samples)[hi + 1]
<1>1. /\ lo = Lo(95, n) /\ hi = Hi(95, n) /\ way % 100 = Part(95, n)
      /\ lo + 1 \in 1..Len(samples) /\ hi + 1 \in 1..Len(samples)
  BY DEF Lo, Hi, Part
<1>2. P95 = Point(a, b, Part(95, n))
  <2>1. 95 \in Percents
    BY DEF Percents
  <2>2. percentile(Sorted(samples), 95) =
            Point(Sorted(samples)[Lo(95, n) + 1], Sorted(samples)[Hi(95, n) + 1],
                  Part(95, n))
    BY <2>1, SortedSamples
  <2> HIDE DEF lo, hi
  <2> QED
    BY <1>1, <2>2, Zenon DEF P95
<1>3. a = AtLeastBelow(lo + 1) /\ b = AtLeastBelow(hi + 1)
  <2> HIDE DEF lo, hi
  <2> QED
    BY <1>1, CountedFromBelow
<1>4. P95 = 100 * a + (b - a) * Part(95, n)
  BY <1>2, Zenon DEF Point
<1> HIDE DEF a, b, lo, hi
<1>5. P95 = 100 * AtLeastBelow(lo + 1)
                + (AtLeastBelow(hi + 1) - AtLeastBelow(lo + 1)) * (way % 100)
  BY <1>1, <1>3, <1>4, Zenon
<1> QED
  BY <1>5, Zenon DEF lo, hi

\* p95 is where the slowest calls begin: enough samples on either side of it,
\* between the median and the slowest call, and between the two calls next to
\* it as far up as its place is, whatever the samples are.
THEOREM TailBeginsThere == Spec => []TailBeginsAtP95
<1>1. ASSUME IInv PROVE TailBeginsAtP95
  <2> SUFFICES ASSUME pc = "returned", Iters > 0
               PROVE  TailBeginsAtP95
    BY Zenon DEF TailBeginsAtP95
  <2> DEFINE n == Iters - 1
  <2>1. /\ samples \in Seq(Nat) /\ Len(samples) = n + 1 /\ n \in Nat
    BY <1>1, AllSampled
  <2>2. /\ CountOf(samples, LAMBDA x : 100 * x <= P95) =
               Cardinality({m \in DOMAIN samples : 100 * samples[m] <= P95})
        /\ CountOf(samples, LAMBDA x : 100 * x >= P95) =
               Cardinality({m \in DOMAIN samples : 100 * samples[m] >= P95})
    BY DEF CountOf
  <2> HIDE DEF n
  <2>3. Median <= P95
    BY <2>1, MedianFirst DEF Median, P95
  <2>4. /\ 100 * Cardinality({m \in DOMAIN samples : 100 * samples[m] <= P95})
               > 95 * n
        /\ 100 * Cardinality({m \in DOMAIN samples : 100 * samples[m] >= P95})
               > 5 * n
        /\ \E x \in Range(samples) : P95 <= 100 * x
    BY <2>1, SharesOfP95 DEF P95
  <2>5. LET way == 95 * (Iters - 1)
            below == AtLeastBelow(way \div 100 + 1)
            above == AtLeastBelow((way + 99) \div 100 + 1)
        IN  P95 = 100 * below + (above - below) * (way % 100)
    BY <2>1, PlaceOfP95, Zenon DEF n
  <2>6. 100 * CountOf(samples, LAMBDA x : 100 * x <= P95) > 95 * (Iters - 1)
    BY <2>2, <2>4 DEF n
  <2>7. 100 * CountOf(samples, LAMBDA x : 100 * x >= P95) > 5 * (Iters - 1)
    BY <2>2, <2>4 DEF n
  <2> QED
    BY <2>3, <2>4, <2>5, <2>6, <2>7, Zenon DEF TailBeginsAtP95
<1> QED
  BY <1>1, Inductive, PTL

=======================================================================
