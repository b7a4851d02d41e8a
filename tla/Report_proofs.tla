------------------------- MODULE Report_proofs ------------------------
(* Proofs about Report, for every lineup of suites and all medians.  What    *)
(* they need of the operations is said once, in Lists and ListsAgree.        *)
EXTENDS Report, SequenceTheorems, FiniteSetTheorems, WellFoundedInduction,
        TLAPS

-----------------------------------------------------------------------

\* There are reads and writes among the operations.
LEMMA Lists ==
    /\ NumOps \in Nat \ {0}
    /\ READ_OPS \subseteq 1..NumOps /\ READ_OPS # 1..NumOps
    /\ IterOps \subseteq 1..NumOps
  BY DEF NumOps, READ_OPS, IterOps

\* What run_suite() leaves out for a read-only suite is what the report does
\* not rank as a read.
LEMMA ListsAgree == \A o \in Ops : o \in IfWrites <=> o \notin READ_OPS
  BY DEF Ops, NumOps, IfWrites, READ_OPS

\* A section is about operations there are, the read-only one about READ_OPS.
Section ==
    {section \in [kind : {"op", "overall", "reads"}, ops : SUBSET Ops,
                  engine : {""} \cup {Engines[e] : e \in 1..2}] :
        /\ section.kind = "op" => \E o \in Ops : section.ops = {o}
        /\ section.kind = "reads" => section.ops = READ_OPS}

\* A function on 1..n is a sequence, whatever its elements are.
LEMMA FunctionIsSeq ==
    ASSUME NEW n \in Nat, NEW S, NEW f \in [1..n -> S]
    PROVE  f \in Seq(S)
  BY SMT

\* Every table render_report() makes is a section of this type.
LEMMA SectionsType == Sections \in Seq(Section)
<1> DEFINE perOp == [o \in Ops |-> [kind |-> "op", ops |-> {o}, engine |-> ""]]
           overall == [e \in 1..2 |->
                          [kind |-> "overall", ops |-> Ops, engine |-> Engines[e]]]
           reads == [e \in 1..2 |->
                        [kind |-> "reads", ops |-> READ_OPS, engine |-> Engines[e]]]
<1>1. NumOps \in Nat /\ READ_OPS \subseteq Ops
  BY Lists DEF Ops
<1>2. perOp \in Seq(Section)
  <2>1. \A o \in Ops : [kind |-> "op", ops |-> {o}, engine |-> ""] \in Section
    <3> TAKE o \in Ops
    <3>1. {o} \in SUBSET Ops
      OBVIOUS
    <3> QED
      BY <3>1 DEF Section
  <2>2. perOp \in [1..NumOps -> Section]
    BY <2>1 DEF Ops
  <2> HIDE DEF perOp
  <2> QED
    BY <1>1, <2>2, FunctionIsSeq, Zenon
<1>3. overall \in Seq(Section)
  <2>1. \A e \in 1..2 :
            [kind |-> "overall", ops |-> Ops, engine |-> Engines[e]] \in Section
    BY DEF Section
  <2>2. overall \in [1..2 -> Section]
    BY <2>1
  <2> HIDE DEF overall
  <2>3. 2 \in Nat
    OBVIOUS
  <2> QED
    BY <2>2, <2>3, FunctionIsSeq, Zenon
<1>4. reads \in Seq(Section)
  <2>1. \A e \in 1..2 :
            [kind |-> "reads", ops |-> READ_OPS, engine |-> Engines[e]] \in Section
    BY <1>1 DEF Section
  <2>2. reads \in [1..2 -> Section]
    BY <2>1
  <2> HIDE DEF reads
  <2>3. 2 \in Nat
    OBVIOUS
  <2> QED
    BY <2>2, <2>3, FunctionIsSeq, Zenon
<1>5. Sections = perOp \o overall \o reads
  BY Zenon DEF Sections
<1> HIDE DEF perOp, overall, reads
<1> QED
  BY <1>2, <1>3, <1>4, <1>5, ConcatProperties

\* What run_suite() left for the suites in the lineup.
StatsType ==
    \A s \in Suites, o \in Ops :
        stats[s][o] \in
            IF lineup[s].read_only /\ o \in IfWrites THEN {None} ELSE Nat

\* Stats that are there are numbers, and there are stats of the reads.
LEMMA StatsAreNumbers ==
    ASSUME StatsType, NEW s \in Suites, NEW o \in Ops
    PROVE  /\ stats[s][o] # None => stats[s][o] \in Nat
           /\ o \in READ_OPS => stats[s][o] # None
           /\ stats[s][o] # None <=> ~lineup[s].read_only \/ o \in READ_OPS
<1>1. o \in IfWrites <=> o \notin READ_OPS
  BY ListsAgree
<1>2. \A m \in Nat : m # None
  BY DEF None
<1> QED
  BY <1>1, <1>2 DEF StatsType

\* A section unwraps only stats that are there.
LEMMA NoUnwrapFails ==
    ASSUME StatsType, NEW section \in Section
    PROVE  ~Unwraps(section)
<1> SUFFICES ASSUME NEW s \in Group(section), NEW o \in section.ops
             PROVE  stats[s][o] # None
  BY DEF Unwraps
<1>1. section.ops \subseteq Ops
  BY DEF Section
<1>2. CASE section.kind = "op"
  BY <1>2 DEF Group
<1>3. CASE section.kind = "overall"
  BY <1>1, <1>3 DEF Group
<1>4. CASE section.kind = "reads"
  <2>1. s \in Suites /\ o \in READ_OPS /\ o \in Ops
    BY <1>1, <1>4 DEF Group, Section
  <2> QED
    BY <2>1, StatsAreNumbers
<1> QED
  BY <1>2, <1>3, <1>4 DEF Section

\* A section lists suites that ran.
LEMMA GroupOfSuites ==
    ASSUME NEW section \in Section
    PROVE  Group(section) \subseteq Suites
  BY DEF Group, Section

-----------------------------------------------------------------------
(* The product of the medians.                                               *)

\* Every set of natural numbers that is not empty has a least element.
LEMMA NatMin ==
    ASSUME NEW T, T \subseteq Nat, T # {}
    PROVE  \E x \in T : \A y \in T : x <= y
<1> DEFINE R == OpToRel(<, Nat)
<1>1. \E x \in T : \A y \in T : ~ (<<y, x>> \in R)
  BY NatLessThanWellFounded, WFMin
<1>2. \A x, y \in Nat : y < x => <<y, x>> \in R
  BY Zenon DEF OpToRel
<1> HIDE DEF R
<1>3. PICK x \in T : \A y \in T : ~ (<<y, x>> \in R)
  BY <1>1
<1>4. \A y \in T : ~ (y < x)
  BY <1>2, <1>3
<1> QED
  BY <1>4

\* Induction over a set: one that holds 0 and with n also n + 1 is all of Nat.
LEMMA Induction ==
    ASSUME NEW S, 0 \in S, \A n \in Nat : n \in S => n + 1 \in S
    PROVE  Nat \subseteq S
<1> SUFFICES ASSUME Nat \ S # {} PROVE FALSE
  OBVIOUS
<1>1. PICK x \in Nat \ S : \A y \in Nat \ S : x <= y
  BY NatMin, Zenon
<1>2. x # 0 /\ x - 1 \in Nat
  BY <1>1
<1>3. x - 1 \in S
  BY <1>1, <1>2
<1> QED
  BY <1>1, <1>2, <1>3

\* What one operation contributes to the product.
Factor(s, ops, o) == IF o \in ops THEN stats[s][o] ELSE 1

\* The function that Product() takes the last value of.
IsUpto(f, s, ops) ==
    f = [o \in 0..NumOps |->
            IF o = 0 THEN 1 ELSE f[o - 1] * Factor(s, ops, o)]

\* There is such a function: one step more after every prefix of OPS.
LEMMA UptoExists ==
    ASSUME NEW s, NEW ops, \A o \in Ops : Factor(s, ops, o) \in Nat
    PROVE  \E f : IsUpto(f, s, ops)
<1> DEFINE F(k, g) == /\ g \in [0..k -> Nat]
                      /\ g[0] = 1
                      /\ \A o \in 1..k : g[o] = g[o - 1] * Factor(s, ops, o)
           S == {k \in Nat : k <= NumOps => \E g : F(k, g)}
<1>1. NumOps \in Nat
  BY Lists
<1>2. 0 \in S
  <2>1. F(0, [o \in 0..0 |-> 1])
    OBVIOUS
  <2> QED
    BY <2>1
<1>3. \A k \in Nat : k \in S => k + 1 \in S
  <2> TAKE k \in Nat
  <2> HAVE k \in S
  <2> SUFFICES ASSUME k + 1 <= NumOps PROVE \E g : F(k + 1, g)
    OBVIOUS
  <2>1. PICK g : F(k, g)
    BY <1>1
  <2>2. Factor(s, ops, k + 1) \in Nat
    BY <1>1 DEF Ops
  <2> DEFINE h == [o \in 0..(k + 1) |->
                       IF o = k + 1 THEN g[k] * Factor(s, ops, k + 1) ELSE g[o]]
  <2>3. g[k] \in Nat /\ g[k] * Factor(s, ops, k + 1) \in Nat
    BY <2>1, <2>2
  <2>4. h \in [0..(k + 1) -> Nat] /\ h[0] = 1
    BY <2>1, <2>3
  <2>5. \A o \in 1..(k + 1) : h[o] = h[o - 1] * Factor(s, ops, o)
    <3> SUFFICES ASSUME NEW o \in 1..(k + 1)
                 PROVE  h[o] = h[o - 1] * Factor(s, ops, o)
      OBVIOUS
    <3>1. CASE o = k + 1
      <4>1. o - 1 = k /\ h[o - 1] = g[k] /\ h[o] = g[k] * Factor(s, ops, k + 1)
        BY <3>1
      <4> QED
        BY <3>1, <4>1, Zenon
    <3>2. CASE o # k + 1
      <4>1. o \in 1..k /\ o \in 0..(k + 1) /\ o - 1 \in 0..(k + 1) /\ o - 1 # k + 1
        BY <3>2
      <4>2. h[o] = g[o] /\ h[o - 1] = g[o - 1]
        BY <3>2, <4>1
      <4>3. g[o] = g[o - 1] * Factor(s, ops, o)
        BY <2>1, <4>1
      <4> HIDE DEF h
      <4> QED
        BY <4>2, <4>3, Zenon
    <3> QED
      BY <3>1, <3>2
  <2>6. F(k + 1, h)
    BY <2>4, <2>5
  <2> QED
    BY <2>6
<1> HIDE DEF S
<1>4. NumOps \in S
  BY <1>1, <1>2, <1>3, Induction, Zenon
<1>5. PICK g : F(NumOps, g)
  BY <1>1, <1>4 DEF S
<1>6. IsUpto(g, s, ops)
  BY <1>1, <1>5 DEF IsUpto
<1> QED
  BY <1>6

\* The product, one operation after another.
Steps(f, s, ops) ==
    /\ f[0] = 1
    /\ \A o \in Ops : f[o] = f[o - 1] * Factor(s, ops, o)
    /\ \A o \in 0..NumOps : f[o] \in Nat

\* Product() is the last of these steps.
LEMMA ProductSteps ==
    ASSUME NEW s, NEW ops, \A o \in Ops : Factor(s, ops, o) \in Nat
    PROVE  \E f : Steps(f, s, ops) /\ Product(s, ops) = f[NumOps]
<1>1. NumOps \in Nat
  BY Lists
<1>2. Product(s, ops) = (CHOOSE f : IsUpto(f, s, ops))[NumOps]
  BY DEF Product, IsUpto, Factor
<1>3. PICK f : IsUpto(f, s, ops) /\ Product(s, ops) = f[NumOps]
  BY <1>2, UptoExists
<1>4. /\ f[0] = 1
      /\ \A o \in Ops : f[o] = f[o - 1] * Factor(s, ops, o)
  BY <1>1, <1>3 DEF IsUpto, Ops
<1> DEFINE S == {k \in Nat : k <= NumOps => f[k] \in Nat}
<1>5. 0 \in S
  BY <1>4
<1>6. \A k \in Nat : k \in S => k + 1 \in S
  <2> TAKE k \in Nat
  <2> HAVE k \in S
  <2> SUFFICES ASSUME k + 1 <= NumOps PROVE f[k + 1] \in Nat
    OBVIOUS
  <2>1. f[k] \in Nat /\ k + 1 \in Ops
    BY <1>1 DEF Ops
  <2>2. Factor(s, ops, k + 1) \in Nat /\ f[k + 1] = f[k] * Factor(s, ops, k + 1)
    BY <1>4, <2>1
  <2> QED
    BY <2>1, <2>2
<1>7. Nat \subseteq S
  <2> HIDE DEF S
  <2> QED
    BY <1>5, <1>6, Induction, Zenon
<1>8. \A o \in 0..NumOps : f[o] \in Nat
  BY <1>1, <1>7
<1> QED
  BY <1>3, <1>4, <1>8 DEF Steps

\* A product of positive numbers grows with either factor.
LEMMA TimesGrows ==
    ASSUME NEW a \in Nat, NEW b \in Nat, NEW x \in Nat, NEW y \in Nat,
           a <= b, x <= y, 0 < b, 0 < y
    PROVE  /\ a * x <= b * y /\ 0 < b * y
           /\ a < b \/ x < y => a * x < b * y
<1>1. a * x \in Nat /\ b * x \in Nat /\ a * y \in Nat /\ b * y \in Nat
  OBVIOUS
<1>2. b - a \in Nat /\ y - x \in Nat
  OBVIOUS
<1>3. (b - a) * y \in Nat /\ a * (y - x) \in Nat /\ b * (y - x) \in Nat
      /\ (b - a) * x \in Nat
  BY <1>2
<1>4. /\ b * y = a * y + (b - a) * y /\ a * y = a * x + a * (y - x)
      /\ b * y = b * x + b * (y - x) /\ b * x = a * x + (b - a) * x
  BY <1>2
<1>5. a * x <= b * y
  BY <1>1, <1>3, <1>4
<1>6. 0 < b * y
  OBVIOUS
<1>7. a < b => 0 < (b - a) * y
  OBVIOUS
<1>8. x < y => 0 < b * (y - x)
  OBVIOUS
<1> QED
  BY <1>1, <1>3, <1>4, <1>5, <1>6, <1>7, <1>8

\* A suite that is nowhere slower and somewhere faster has the smaller
\* product, if no median of the slower suite is 0.
LEMMA ProductGrows ==
    ASSUME NEW s, NEW t, NEW ops,
           \A o \in Ops : /\ Factor(s, ops, o) \in Nat
                          /\ Factor(t, ops, o) \in Nat \ {0}
                          /\ Factor(s, ops, o) <= Factor(t, ops, o),
           \E o \in Ops : Factor(s, ops, o) < Factor(t, ops, o)
    PROVE  Product(s, ops) < Product(t, ops)
<1>1. NumOps \in Nat
  BY Lists
<1>2. PICK f : Steps(f, s, ops) /\ Product(s, ops) = f[NumOps]
  BY ProductSteps
<1>3. PICK g : Steps(g, t, ops) /\ Product(t, ops) = g[NumOps]
  BY ProductSteps
<1> DEFINE faster(k) == \E o \in 1..k : Factor(s, ops, o) < Factor(t, ops, o)
           S == {k \in Nat : k <= NumOps =>
                     /\ f[k] <= g[k] /\ 0 < g[k]
                     /\ faster(k) => f[k] < g[k]}
<1>4. 0 \in S
  BY <1>2, <1>3 DEF Steps
<1>5. \A k \in Nat : k \in S => k + 1 \in S
  <2> TAKE k \in Nat
  <2> HAVE k \in S
  <2> SUFFICES ASSUME k + 1 <= NumOps
               PROVE  /\ f[k + 1] <= g[k + 1] /\ 0 < g[k + 1]
                      /\ faster(k + 1) => f[k + 1] < g[k + 1]
    OBVIOUS
  <2> DEFINE x == Factor(s, ops, k + 1)
             y == Factor(t, ops, k + 1)
  <2>1. k + 1 \in Ops /\ k \in 0..NumOps /\ (k + 1) - 1 = k
    BY <1>1 DEF Ops
  <2>2. f[k] \in Nat /\ g[k] \in Nat /\ f[k + 1] = f[k] * x /\ g[k + 1] = g[k] * y
    BY <1>2, <1>3, <2>1 DEF Steps
  <2>3. x \in Nat /\ y \in Nat /\ 0 < y /\ x <= y
    BY <2>1
  <2>4. f[k] <= g[k] /\ 0 < g[k] /\ (faster(k) => f[k] < g[k])
    BY <2>1
  <2>5. faster(k + 1) => faster(k) \/ x < y
    BY <2>1
  <2> HIDE DEF x, y, faster
  <2>6. /\ f[k] * x <= g[k] * y /\ 0 < g[k] * y
        /\ f[k] < g[k] \/ x < y => f[k] * x < g[k] * y
    BY <2>2, <2>3, <2>4, TimesGrows
  <2> QED
    BY <2>2, <2>4, <2>5, <2>6
<1>6. Nat \subseteq S
  <2> HIDE DEF S
  <2> QED
    BY <1>4, <1>5, Induction, Zenon
<1>7. faster(NumOps)
  BY DEF Ops
<1> HIDE DEF faster
<1>8. f[NumOps] < g[NumOps]
  BY <1>1, <1>6, <1>7
<1> QED
  BY <1>2, <1>3, <1>8

-----------------------------------------------------------------------
(* Ranking(): a stable sort.                                                 *)

\* Where sort_by() puts t before s, and how many suites it puts before s.
Before(t, s, ops) == Less(t, s, ops) \/ (~Less(s, t, ops) /\ t < s)
Ahead(group, s, ops) == {t \in group : Before(t, s, ops)}

\* What there is to rank: suites whose products are numbers.
Comparable(group, ops) ==
    /\ group \subseteq Nat
    /\ IsFiniteSet(group)
    /\ \A s \in group : Product(s, ops) \in Nat

\* Ties are broken by position, so this is a strict total order.
LEMMA BeforeIsOrder ==
    ASSUME NEW group, NEW ops, Comparable(group, ops)
    PROVE  /\ \A s \in group : ~Before(s, s, ops)
           /\ \A s, t \in group : s # t => Before(s, t, ops) \/ Before(t, s, ops)
           /\ \A s, t, u \in group :
                  Before(s, t, ops) /\ Before(t, u, ops) => Before(s, u, ops)
  BY DEF Comparable, Before, Less

\* Each suite has a place among the others, behind those that are before it.
LEMMA Positions ==
    ASSUME NEW group, NEW ops, Comparable(group, ops)
    PROVE  /\ Cardinality(group) \in Nat
           /\ \A s \in group :
                  Cardinality(Ahead(group, s, ops)) \in 0..(Cardinality(group) - 1)
           /\ \A s, t \in group :
                  Before(s, t, ops) =>
                      Cardinality(Ahead(group, s, ops)) <
                          Cardinality(Ahead(group, t, ops))
<1>1. IsFiniteSet(group) /\ Cardinality(group) \in Nat
  BY FS_CardinalityType DEF Comparable
<1>2. ASSUME NEW s \in group
      PROVE  /\ Ahead(group, s, ops) \subseteq group
             /\ s \notin Ahead(group, s, ops)
             /\ IsFiniteSet(Ahead(group, s, ops))
             /\ Cardinality(Ahead(group, s, ops)) \in Nat
  <2>1. Ahead(group, s, ops) \subseteq group /\ s \notin Ahead(group, s, ops)
    BY BeforeIsOrder DEF Ahead
  <2>2. IsFiniteSet(Ahead(group, s, ops))
    BY <1>1, <2>1, FS_Subset
  <2> QED
    BY <2>1, <2>2, FS_CardinalityType
<1>3. ASSUME NEW s \in group
      PROVE  Cardinality(Ahead(group, s, ops)) < Cardinality(group)
  <2>1. Ahead(group, s, ops) # group
    BY <1>2
  <2>2. /\ Cardinality(Ahead(group, s, ops)) <= Cardinality(group)
        /\ Cardinality(group) = Cardinality(Ahead(group, s, ops))
               => Ahead(group, s, ops) = group
    BY <1>1, <1>2, FS_Subset
  <2> QED
    BY <1>1, <1>2, <2>1, <2>2
<1>4. ASSUME NEW s \in group, NEW t \in group, Before(s, t, ops)
      PROVE  Cardinality(Ahead(group, s, ops)) < Cardinality(Ahead(group, t, ops))
  <2>1. Ahead(group, s, ops) \subseteq Ahead(group, t, ops)
    BY <1>4, BeforeIsOrder DEF Ahead
  <2>2. s \in Ahead(group, t, ops)
    BY <1>4 DEF Ahead
  <2>3. Ahead(group, s, ops) # Ahead(group, t, ops)
    BY <1>2, <2>2
  <2>4. /\ Cardinality(Ahead(group, s, ops)) <= Cardinality(Ahead(group, t, ops))
        /\ Cardinality(Ahead(group, t, ops)) = Cardinality(Ahead(group, s, ops))
               => Ahead(group, s, ops) = Ahead(group, t, ops)
    BY <1>2, <2>1, FS_Subset
  <2> QED
    BY <1>2, <2>3, <2>4
<1> QED
  BY <1>1, <1>2, <1>3, <1>4

\* No two suites share a place, so every place is taken.
LEMMA EveryPlaceTaken ==
    ASSUME NEW group, NEW ops, Comparable(group, ops),
           NEW place \in 1..Cardinality(group)
    PROVE  \E s \in group : Cardinality(Ahead(group, s, ops)) = place - 1
<1> DEFINE n == Cardinality(group)
           pos == [s \in group |-> Cardinality(Ahead(group, s, ops)) + 1]
<1>1. n \in Nat /\ IsFiniteSet(group)
  BY Positions DEF Comparable
<1>2. pos \in [group -> 1..n]
  <2>1. \A s \in group : Cardinality(Ahead(group, s, ops)) + 1 \in 1..n
    BY <1>1, Positions
  <2> QED
    BY <2>1
<1>3. IsInjective(pos)
  <2> SUFFICES ASSUME NEW s \in group, NEW t \in group, s # t
               PROVE  pos[s] # pos[t]
    BY DEF IsInjective
  <2>1. Before(s, t, ops) \/ Before(t, s, ops)
    BY BeforeIsOrder
  <2>2. /\ Cardinality(Ahead(group, s, ops)) \in Nat
        /\ Cardinality(Ahead(group, t, ops)) \in Nat
        /\ Cardinality(Ahead(group, s, ops)) # Cardinality(Ahead(group, t, ops))
    BY <1>1, <2>1, Positions
  <2> QED
    BY <2>2
<1>4. pos \in Injection(group, 1..n)
  BY <1>2, <1>3 DEF Injection
<1>5. IsFiniteSet(1..n) /\ Cardinality(1..n) = n
  BY <1>1, FS_Interval
<1> HIDE DEF pos, n
<1>6. pos \in Surjection(group, 1..n)
  BY <1>4, <1>5, FS_Injection DEF n
<1>7. PICK s \in group : pos[s] = place
  BY <1>6 DEF Surjection, n
<1> QED
  BY <1>7, Positions DEF pos

\* The ranking lists each suite of the group once, at its place.
LEMMA RankingOrders ==
    ASSUME NEW group, NEW ops, Comparable(group, ops)
    PROVE  LET R == Ranking(group, ops)
           IN  /\ DOMAIN R = 1..Cardinality(group)
               /\ \A p \in DOMAIN R :
                      /\ R[p] \in group
                      /\ Cardinality(Ahead(group, R[p], ops)) = p - 1
               /\ Range(R) = group
               /\ IsInjective(R)
               /\ R \in Seq(Nat)
<1> DEFINE n == Cardinality(group)
           R == Ranking(group, ops)
<1>1. R = [place \in 1..n |->
               CHOOSE s \in group : Cardinality(Ahead(group, s, ops)) = place - 1]
  BY Zenon DEF Ranking, Ahead, Before
<1>2. DOMAIN R = 1..n /\ R = [p \in 1..n |-> R[p]]
  BY <1>1
<1>3. \A p \in 1..n : /\ R[p] \in group
                      /\ Cardinality(Ahead(group, R[p], ops)) = p - 1
  BY <1>1, EveryPlaceTaken
<1>4. n \in Nat
  BY Positions
<1> HIDE DEF R, n
<1>5. ASSUME NEW s \in group PROVE s \in Range(R)
  <2> DEFINE p == Cardinality(Ahead(group, s, ops)) + 1
  <2>1. p \in 1..n /\ Cardinality(Ahead(group, s, ops)) = p - 1
    BY Positions DEF n
  <2>2. R[p] \in group /\ Cardinality(Ahead(group, R[p], ops)) = p - 1
    BY <1>3, <2>1
  <2>3. Cardinality(Ahead(group, s, ops)) \in Nat
    BY Positions
  <2> HIDE DEF p
  <2>4. R[p] = s
    <3> SUFFICES ASSUME R[p] # s PROVE FALSE
      OBVIOUS
    <3>1. Before(R[p], s, ops) \/ Before(s, R[p], ops)
      BY <2>2, BeforeIsOrder
    <3>2. Cardinality(Ahead(group, R[p], ops)) = Cardinality(Ahead(group, s, ops))
      BY <2>1, <2>2
    <3> QED
      BY <2>2, <2>3, <3>1, <3>2, Positions
  <2> QED
    BY <1>2, <2>1, <2>4 DEF Range
<1>6. Range(R) = group
  BY <1>2, <1>3, <1>5 DEF Range
<1>7. IsInjective(R)
  <2> SUFFICES ASSUME NEW p \in 1..n, NEW q \in 1..n, R[p] = R[q]
               PROVE  p = q
    BY <1>2 DEF IsInjective
  <2>1. p - 1 = q - 1
    BY <1>3
  <2> QED
    BY <2>1
<1>8. R \in Seq(Nat)
  <2>1. R \in [1..n -> Nat]
    BY <1>2, <1>3 DEF Comparable
  <2> QED
    BY <1>4, <2>1, FunctionIsSeq, Zenon
<1> QED
  BY <1>2, <1>3, <1>6, <1>7, <1>8 DEF R, n

-----------------------------------------------------------------------
(* The tables.                                                               *)

\* Elements of a sequence joined from two.
LEMMA Joined ==
    ASSUME NEW S, NEW f \in Seq(S), NEW g \in Seq(S)
    PROVE  /\ f \o g \in Seq(S)
           /\ Len(f \o g) = Len(f) + Len(g)
           /\ \A n \in 1..Len(f) : (f \o g)[n] = f[n]
           /\ \A e \in 1..Len(g) : (f \o g)[Len(f) + e] = g[e]
<1>1. Len(f) \in Nat /\ Len(g) \in Nat
  OBVIOUS
<1>2. /\ f \o g \in Seq(S) /\ Len(f \o g) = Len(f) + Len(g)
      /\ \A n \in 1..Len(f) : (f \o g)[n] = f[n]
  OBVIOUS
<1>3. \A e \in 1..Len(g) : (f \o g)[Len(f) + e] = g[e]
  OBVIOUS
<1> QED
  BY <1>2, <1>3

\* Which table is about what.
LEMMA SectionAt ==
    /\ Len(Sections) = NumOps + 4
    /\ \A o \in Ops : Sections[o] = [kind |-> "op", ops |-> {o}, engine |-> ""]
    /\ \A e \in 1..2 :
          /\ Sections[NumOps + e] =
                 [kind |-> "overall", ops |-> Ops, engine |-> Engines[e]]
          /\ Sections[NumOps + 2 + e] =
                 [kind |-> "reads", ops |-> READ_OPS, engine |-> Engines[e]]
<1> DEFINE perOp == [o \in Ops |-> [kind |-> "op", ops |-> {o}, engine |-> ""]]
           overall == [e \in 1..2 |->
                          [kind |-> "overall", ops |-> Ops, engine |-> Engines[e]]]
           reads == [e \in 1..2 |->
                        [kind |-> "reads", ops |-> READ_OPS, engine |-> Engines[e]]]
           Any == {perOp[o] : o \in Ops} \cup {overall[e] : e \in 1..2}
                      \cup {reads[e] : e \in 1..2}
<1>1. NumOps \in Nat /\ 2 \in Nat
  BY Lists
<1>2. /\ perOp \in [1..NumOps -> Any] /\ overall \in [1..2 -> Any]
      /\ reads \in [1..2 -> Any]
  BY DEF Ops
<1>3. Sections = (perOp \o overall) \o reads
  BY Zenon DEF Sections
<1>4. /\ \A o \in Ops : perOp[o] = [kind |-> "op", ops |-> {o}, engine |-> ""]
      /\ \A e \in 1..2 :
            /\ overall[e] = [kind |-> "overall", ops |-> Ops, engine |-> Engines[e]]
            /\ reads[e] = [kind |-> "reads", ops |-> READ_OPS, engine |-> Engines[e]]
  OBVIOUS
<1> HIDE DEF perOp, overall, reads, Any
<1>5. /\ perOp \in Seq(Any) /\ overall \in Seq(Any) /\ reads \in Seq(Any)
  BY <1>1, <1>2, FunctionIsSeq, Zenon
<1>6. Len(perOp) = NumOps /\ Len(overall) = 2 /\ Len(reads) = 2
  BY <1>1, <1>2, <1>5
<1> DEFINE front == perOp \o overall
           all == front \o reads
<1>7. /\ front \in Seq(Any) /\ Len(front) = Len(perOp) + Len(overall)
      /\ \A o \in 1..Len(perOp) : front[o] = perOp[o]
      /\ \A e \in 1..Len(overall) : front[Len(perOp) + e] = overall[e]
  BY <1>5, Joined
<1> HIDE DEF front
<1>8. front \in Seq(Any) /\ reads \in Seq(Any)
  BY <1>5, <1>7, Zenon
<1>9. /\ Len(all) = Len(front) + Len(reads)
      /\ \A n \in 1..Len(front) : all[n] = front[n]
      /\ \A e \in 1..Len(reads) : all[Len(front) + e] = reads[e]
  BY <1>8, Joined
<1> HIDE DEF all
<1>10. Sections = all
  BY <1>3, Zenon DEF front, all
<1>11. Len(front) = NumOps + 2 /\ Len(all) = NumOps + 4
  BY <1>1, <1>6, <1>7, <1>9
<1>12. \A o \in Ops : all[o] = perOp[o]
  BY <1>1, <1>6, <1>7, <1>9, <1>11 DEF Ops
<1>13. \A e \in 1..2 : all[NumOps + e] = overall[e]
  BY <1>1, <1>6, <1>7, <1>9, <1>11
<1>14. \A e \in 1..2 : all[NumOps + 2 + e] = reads[e]
  BY <1>1, <1>6, <1>9, <1>11
<1> QED
  BY <1>4, <1>10, <1>11, <1>12, <1>13, <1>14, Zenon

\* The suites of a section can be ranked.
LEMMA GroupComparable ==
    ASSUME StatsType, lineup \in Lineups, NEW section \in Section
    PROVE  /\ Comparable(Group(section), section.ops)
           /\ \A s \in Group(section), o \in section.ops : stats[s][o] \in Nat
<1>1. section.ops \subseteq Ops /\ Group(section) \subseteq Suites
  BY GroupOfSuites DEF Section
<1>2. \A s \in Group(section), o \in section.ops : stats[s][o] \in Nat
  BY <1>1, NoUnwrapFails, StatsAreNumbers DEF Unwraps
<1>3. Suites \subseteq Nat /\ IsFiniteSet(Suites)
  <2>1. Len(lineup) \in Nat /\ DOMAIN lineup = 1..Len(lineup)
    BY LineupsAssumption
  <2> QED
    BY <2>1, FS_Interval DEF Suites
<1>4. \A s \in Group(section) : Product(s, section.ops) \in Nat
  <2> TAKE s \in Group(section)
  <2>1. \A o \in Ops : Factor(s, section.ops, o) \in Nat
    BY <1>2 DEF Factor
  <2>2. PICK f : Steps(f, s, section.ops) /\ Product(s, section.ops) = f[NumOps]
    BY <2>1, ProductSteps
  <2> QED
    BY <2>2, Lists DEF Steps
<1>5. IsFiniteSet(Group(section))
  BY <1>1, <1>3, FS_Subset
<1> QED
  BY <1>1, <1>2, <1>3, <1>4, <1>5 DEF Comparable

\* The table of a section, and what a section that gets its table passed.
TableOf(section) == Ranking(Group(section), section.ops)

Rendered(n) == tables[n] = TableOf(Sections[n]) /\ ~ComparesNaN(Sections[n])

Progress ==
    /\ next \in 1..(Len(Sections) + 1)
    /\ tables \in Seq(Seq(Nat)) /\ Len(tables) = next - 1
    /\ pc \in {"rendering", "rendered", "panicked"}
    /\ pc = "rendered" => next = Len(Sections) + 1

IInv ==
    /\ lineup \in Lineups
    /\ StatsType
    /\ Progress
    /\ \A n \in 1..(next - 1) : Rendered(n)
    /\ PanicsOnlyWithoutSamples

\* run_suite() leaves stats of this type, and nothing is rendered yet.
LEMMA InitIInv ==
    ASSUME Init
    PROVE  IInv
<1>1. StatsType
  <2>1. PICK medians \in [Suites -> Rows], untimed \in {{}, IterOps} :
            stats = StatsOf(medians, untimed)
    BY DEF Init
  <2> SUFFICES ASSUME NEW s \in Suites, NEW o \in Ops
               PROVE  stats[s][o] \in
                          IF lineup[s].read_only /\ o \in IfWrites THEN {None}
                          ELSE Nat
    BY DEF StatsType
  <2>2. stats[s][o] = IF lineup[s].read_only /\ o \in IfWrites THEN None
                      ELSE IF o \in untimed THEN MedianOfNothing
                      ELSE medians[s][o]
    BY <2>1 DEF StatsOf
  <2>3. medians[s][o] \in Nat
    <3>1. medians[s] \in [1..7 -> Nat \ {0}]
      BY RowsAssumption
    <3>2. o \in 1..7
      BY DEF Ops, NumOps
    <3> QED
      BY <3>1, <3>2
  <2> QED
    BY <2>2, <2>3 DEF MedianOfNothing
<1>2. Progress
  <2>1. Len(Sections) \in Nat
    BY SectionsType
  <2> QED
    BY <2>1 DEF Init, Progress
<1> QED
  BY <1>1, <1>2 DEF Init, IInv, PanicsOnlyWithoutSamples

\* What has been measured does not change while the report is rendered.
LEMMA StatsStay ==
    ASSUME lineup' = lineup, stats' = stats
    PROVE  /\ StatsType' <=> StatsType
           /\ \A section :
                  /\ TableOf(section)' = TableOf(section)
                  /\ ComparesNaN(section)' <=> ComparesNaN(section)
<1>1. Suites' = Suites
  BY DEF Suites
<1>2. \A section : Group(section)' = Group(section)
  BY <1>1 DEF Group
<1>3. \A s, ops : Product(s, ops)' = Product(s, ops)
  BY DEF Product
<1>4. \A group, ops : Ranking(group, ops)' = Ranking(group, ops)
  BY <1>3 DEF Ranking, Less
<1>5. \A group, s, ops : IsNaN(group, s, ops)' <=> IsNaN(group, s, ops)
  BY DEF IsNaN, Best
<1> QED
  BY <1>1, <1>2, <1>4, <1>5 DEF StatsType, TableOf, ComparesNaN

\* A section gets the table of its ranking, or rendering panics over a 0.
LEMMA TableStep ==
    ASSUME IInv, Table
    PROVE  IInv'
<1> DEFINE section == Sections[next]
<1>1. Len(Sections) \in Nat /\ section \in Section /\ next \in Nat
  BY SectionsType DEF IInv, Progress, Table
<1>2. lineup' = lineup /\ stats' = stats
  BY DEF Table
<1>3. lineup' \in Lineups /\ StatsType'
  BY <1>2, StatsStay DEF IInv
<1>4. ~Unwraps(section)
  BY <1>1, NoUnwrapFails DEF IInv
<1>5. CASE ComparesNaN(section)
  <2>1. PICK s \in Group(section), o \in section.ops : stats[s][o] = 0
    BY <1>5 DEF ComparesNaN, IsNaN
  <2>2. s \in Suites /\ o \in Ops
    BY <1>1, GroupOfSuites DEF Section
  <2>3. next' = next /\ tables' = tables /\ pc' = "panicked"
    BY <1>5 DEF Table
  <2>4. PanicsOnlyWithoutSamples'
    BY <1>2, <2>1, <2>2 DEF PanicsOnlyWithoutSamples, MedianOfNothing, Suites
  <2>5. Progress'
    BY <2>3 DEF IInv, Progress
  <2>6. \A n \in 1..(next' - 1) : Rendered(n)'
    BY <1>2, <2>3, StatsStay DEF IInv, Rendered
  <2> QED
    BY <1>3, <2>4, <2>5, <2>6 DEF IInv
<1>6. CASE ~ComparesNaN(section)
  <2>1. /\ next' = next + 1 /\ pc' = "rendering" /\ next <= Len(Sections)
        /\ tables' = Append(tables, TableOf(section))
    BY <1>4, <1>6 DEF Table, TableOf
  <2>2. TableOf(section) \in Seq(Nat)
    BY <1>1, GroupComparable, RankingOrders DEF IInv, TableOf
  <2>3. /\ tables' \in Seq(Seq(Nat)) /\ Len(tables') = next
        /\ \A n \in 1..(next - 1) : tables'[n] = tables[n]
        /\ tables'[next] = TableOf(section)
    BY <1>1, <2>1, <2>2, AppendProperties DEF IInv, Progress
  <2>4. Progress'
    BY <1>1, <2>1, <2>3 DEF Progress
  <2>5. \A n \in 1..(next' - 1) : Rendered(n)'
    <3> SUFFICES ASSUME NEW n \in 1..(next' - 1) PROVE Rendered(n)'
      OBVIOUS
    <3>1. n \in 1..(next - 1) \/ n = next
      BY <1>1, <2>1
    <3>2. tables'[n] = TableOf(Sections[n]) /\ ~ComparesNaN(Sections[n])
      BY <1>6, <2>3, <3>1 DEF IInv, Rendered
    <3> QED
      BY <1>2, <3>2, StatsStay DEF Rendered
  <2>6. PanicsOnlyWithoutSamples'
    BY <2>1 DEF PanicsOnlyWithoutSamples
  <2> QED
    BY <1>3, <2>4, <2>5, <2>6 DEF IInv
<1> QED
  BY <1>5, <1>6

\* Nothing else changes the tables.
LEMMA OtherStep ==
    ASSUME IInv, Finish \/ UNCHANGED vars
    PROVE  IInv'
<1>1. /\ lineup' = lineup /\ stats' = stats /\ next' = next /\ tables' = tables
      /\ pc' = pc \/ (pc' = "rendered" /\ next > Len(Sections))
  BY DEF Finish, vars
<1>2. Len(Sections) \in Nat
  BY SectionsType
<1>3. Progress'
  BY <1>1, <1>2 DEF IInv, Progress
<1>4. lineup' \in Lineups /\ StatsType'
  BY <1>1, StatsStay DEF IInv
<1>5. \A n \in 1..(next' - 1) : Rendered(n)'
  BY <1>1, StatsStay DEF IInv, Rendered
<1>6. PanicsOnlyWithoutSamples'
  BY <1>1 DEF IInv, PanicsOnlyWithoutSamples, Suites
<1> QED
  BY <1>3, <1>4, <1>5, <1>6 DEF IInv

\* IInv holds in every state.
LEMMA Inductive == Spec => []IInv
<1>1. IInv /\ [Next]_vars => IInv'
  BY TableStep, OtherStep DEF Next
<1> QED
  BY <1>1, InitIInv, PTL DEF Spec

\* The suites each kind of section lists.
LEMMA GroupByKind ==
    ASSUME NEW section
    PROVE  /\ section.kind = "op" =>
                  Group(section) =
                      {s \in Suites : \A o \in section.ops : stats[s][o] # None}
           /\ section.kind = "overall" =>
                  Group(section) =
                      {s \in Suites : /\ lineup[s].engine = section.engine
                                      /\ \A o \in Ops : stats[s][o] # None}
           /\ section.kind = "reads" =>
                  Group(section) =
                      {s \in Suites : lineup[s].engine = section.engine}
<1>1. CASE section.kind = "op"
  BY <1>1, Zenon DEF Group
<1>2. CASE section.kind = "overall"
  BY <1>2 DEF Group
<1>3. CASE section.kind = "reads"
  BY <1>3 DEF Group
<1> QED
  BY <1>1, <1>2, <1>3

\* A table that is there ranks the suites of its section.
LEMMA TableRanks ==
    ASSUME IInv, NEW n \in DOMAIN tables
    PROVE  /\ n \in 1..(next - 1) /\ Sections[n] \in Section
           /\ Comparable(Group(Sections[n]), Sections[n].ops)
           /\ tables[n] = Ranking(Group(Sections[n]), Sections[n].ops)
           /\ ~ComparesNaN(Sections[n])
<1>1. n \in 1..(next - 1) /\ n \in 1..Len(Sections)
  BY SectionsType DEF IInv, Progress
<1>2. Sections[n] \in Section
  BY <1>1, SectionsType
<1>3. Rendered(n)
  BY <1>1 DEF IInv
<1> QED
  BY <1>1, <1>2, <1>3, GroupComparable DEF IInv, Rendered, TableOf

-----------------------------------------------------------------------
(* The theorems.                                                             *)

\* Rendering keeps the types: it lists suites that ran, in as many tables as
\* it has got to.
THEOREM TypeCorrect == Spec => []TypeOK
<1>1. ASSUME IInv PROVE TypeOK
  <2>1. \A n \in DOMAIN tables : Range(tables[n]) \subseteq Suites
    <3> TAKE n \in DOMAIN tables
    <3>1. Range(tables[n]) = Group(Sections[n]) /\ Sections[n] \in Section
      BY <1>1, TableRanks, RankingOrders
    <3> QED
      BY <3>1, GroupOfSuites
  <2>2. Progress /\ StatsType /\ lineup \in Lineups
    BY <1>1 DEF IInv
  <2> QED
    BY <2>1, <2>2 DEF TypeOK, Progress, StatsType
<1> QED
  BY <1>1, Inductive, PTL

\* Rendering panics over a median of no samples or not at all, whichever
\* suites ran: every unwrap() of stats in the sections finds them.
THEOREM OnlyNaNPanics == Spec => []PanicsOnlyWithoutSamples
<1>1. IInv => PanicsOnlyWithoutSamples
  BY DEF IInv
<1> QED
  BY <1>1, Inductive, PTL

\* A rendered report lists every suite in the tables of the operations it ran
\* and in the rankings it competes in, once each, and in no other.
THEOREM AllListed == Spec => []EveryoneListed
<1>1. ASSUME IInv, pc = "rendered" PROVE EveryoneListed
  <2>1. /\ NumOps \in Nat /\ READ_OPS \subseteq Ops /\ READ_OPS # Ops
        /\ DOMAIN Engines = 1..2
    BY Lists DEF Ops, Engines
  <2>2. StatsType /\ DOMAIN tables = 1..(NumOps + 4)
    <3>1. Len(Sections) = NumOps + 4
      BY SectionAt
    <3>2. tables \in Seq(Seq(Nat)) /\ Len(tables) = NumOps + 4
      BY <1>1, <2>1, <3>1 DEF IInv, Progress
    <3> QED
      BY <1>1, <3>2 DEF IInv
  <2>3. \A n \in DOMAIN tables :
            Range(tables[n]) = Group(Sections[n]) /\ IsInjective(tables[n])
    BY <1>1, TableRanks, RankingOrders
  <2>4. ASSUME NEW o \in Ops
        PROVE  Range(OpTable(o)) =
                   {s \in Suites : ~lineup[s].read_only \/ o \in READ_OPS}
    <3>1. o \in DOMAIN tables
      BY <2>1, <2>2 DEF Ops
    <3>2. Group(Sections[o]) = {s \in Suites : stats[s][o] # None}
      <4> DEFINE section == [kind |-> "op", ops |-> {o}, engine |-> ""]
      <4>1. section.kind = "op" /\ section.ops = {o}
        OBVIOUS
      <4>2. Sections[o] = section
        BY SectionAt
      <4> HIDE DEF section
      <4>3. Sections[o].kind = "op" /\ Sections[o].ops = {o}
        BY <4>1, <4>2
      <4> QED
        BY <4>3, GroupByKind
    <3>3. Group(Sections[o]) =
              {s \in Suites : ~lineup[s].read_only \/ o \in READ_OPS}
      BY <2>2, <3>2, StatsAreNumbers
    <3> QED
      BY <2>3, <3>1, <3>3, Zenon DEF OpTable
  <2>5. ASSUME NEW e \in 1..2
        PROVE  LET own == {s \in Suites : lineup[s].engine = Engines[e]}
               IN  /\ Range(Overall(e)) = {s \in own : ~lineup[s].read_only}
                   /\ Range(ReadOnly(e)) = own
    <3> DEFINE own == {s \in Suites : lineup[s].engine = Engines[e]}
    <3>1. NumOps + e \in DOMAIN tables /\ NumOps + 2 + e \in DOMAIN tables
      BY <2>1, <2>2
    <3>2. Group(Sections[NumOps + e]) =
              {s \in own : \A o \in Ops : stats[s][o] # None}
      <4>1. Sections[NumOps + e] =
                [kind |-> "overall", ops |-> Ops, engine |-> Engines[e]]
        BY SectionAt
      <4>2. /\ Sections[NumOps + e].kind = "overall"
            /\ Sections[NumOps + e].engine = Engines[e]
        BY <4>1
      <4> QED
        BY <4>2, GroupByKind
    <3>3. PICK w \in Ops : w \notin READ_OPS
      BY <2>1
    <3>4. Group(Sections[NumOps + e]) = {s \in own : ~lineup[s].read_only}
      BY <2>2, <3>2, <3>3, StatsAreNumbers
    <3>5. Group(Sections[NumOps + 2 + e]) = own
      <4>1. Sections[NumOps + 2 + e] =
                [kind |-> "reads", ops |-> READ_OPS, engine |-> Engines[e]]
        BY SectionAt
      <4>2. /\ Sections[NumOps + 2 + e].kind = "reads"
            /\ Sections[NumOps + 2 + e].engine = Engines[e]
        BY <4>1
      <4> QED
        BY <4>2, GroupByKind
    <3> HIDE DEF own
    <3>6. /\ Range(Overall(e)) = {s \in own : ~lineup[s].read_only}
          /\ Range(ReadOnly(e)) = own
      BY <2>3, <3>1, <3>4, <3>5, Zenon DEF Overall, ReadOnly
    <3> QED
      BY <3>6 DEF own
  <2> QED
    BY <2>1, <2>3, <2>4, <2>5, Zenon DEF EveryoneListed
<1>2. IInv => EveryoneListed
  BY <1>1 DEF EveryoneListed
<1> QED
  BY <1>2, Inductive, PTL

\* In a table that was sorted no suite behind another has a median of 0 where
\* it is not faster: the score would have been NaN.
LEMMA NoZeroRanked ==
    ASSUME StatsType, lineup \in Lineups, NEW section \in Section,
           ~ComparesNaN(section),
           NEW s \in Group(section), NEW t \in Group(section), s # t,
           \A o \in section.ops : stats[s][o] <= stats[t][o],
           \E o \in section.ops : stats[s][o] < stats[t][o],
           NEW o \in section.ops
    PROVE  stats[t][o] # 0
<1> DEFINE G == Group(section)
           M == {stats[u][o] : u \in G} \ {None}
<1>1. \A u \in G : stats[u][o] \in Nat /\ stats[u][o] # None
  BY GroupComparable DEF None
<1>2. CASE section.kind = "op"
  <2>1. PICK x \in Ops : section.ops = {x}
    BY <1>2 DEF Section
  <2>2. stats[s][o] < stats[t][o]
    BY <2>1
  <2> QED
    BY <1>1, <2>2
<1>3. CASE section.kind # "op"
  <2> SUFFICES ASSUME stats[t][o] = 0 PROVE FALSE
    OBVIOUS
  <2>1. Best(G, o) = 0
    <3>1. Best(G, o) = CHOOSE m \in M : \A u \in G :
                           stats[u][o] # None => m <= stats[u][o]
      BY Zenon DEF Best
    <3>2. 0 \in M /\ \A u \in G : stats[u][o] # None => 0 <= stats[u][o]
      BY <1>1
    <3>3. \A m \in M : m \in Nat
      BY <1>1
    <3>4. /\ Best(G, o) \in M
          /\ \A u \in G : stats[u][o] # None => Best(G, o) <= stats[u][o]
      <4> HIDE DEF M, G
      <4> QED
        BY <3>1, <3>2
    <3>5. Best(G, o) \in Nat /\ Best(G, o) <= 0
      BY <1>1, <3>3, <3>4
    <3> QED
      BY <3>5
  <2>2. IsNaN(G, t, section.ops)
    BY <2>1 DEF IsNaN
  <2>3. Cardinality(G) > 1
    <3>1. IsFiniteSet(G)
      BY GroupComparable DEF Comparable
    <3>2. /\ {s, t} \subseteq G /\ IsFiniteSet({s, t})
          /\ Cardinality({s, t}) = 2
      <4>1. Cardinality({s}) = 1 /\ IsFiniteSet({s})
        BY FS_Singleton
      <4>2. {s, t} = {s} \cup {t} /\ t \notin {s}
        OBVIOUS
      <4>3. IsFiniteSet({s} \cup {t}) /\ Cardinality({s} \cup {t}) = 1 + 1
        BY <4>1, <4>2, FS_AddElement
      <4> QED
        BY <4>2, <4>3
    <3>3. Cardinality({s, t}) <= Cardinality(G) /\ Cardinality(G) \in Nat
      BY <3>1, <3>2, FS_Subset, FS_CardinalityType
    <3> QED
      BY <3>2, <3>3
  <2> QED
    BY <1>3, <2>2, <2>3 DEF ComparesNaN
<1> QED
  BY <1>2, <1>3

\* No table of the report lists a suite behind one that it beats.
THEOREM BestComesFirst == Spec => []BetterIsAhead
<1>1. ASSUME IInv,
             NEW n \in DOMAIN tables,
             NEW p \in DOMAIN tables[n], NEW q \in DOMAIN tables[n],
             \A o \in Sections[n].ops :
                 stats[tables[n][p]][o] <= stats[tables[n][q]][o],
             \E o \in Sections[n].ops :
                 stats[tables[n][p]][o] < stats[tables[n][q]][o]
      PROVE  p < q
  <2> DEFINE section == Sections[n]
             G == Group(section)
             ops == section.ops
             s == tables[n][p]
             t == tables[n][q]
  <2>1. /\ section \in Section /\ Comparable(G, ops)
        /\ tables[n] = Ranking(G, ops) /\ ~ComparesNaN(section)
    BY <1>1, TableRanks
  <2>2. StatsType /\ lineup \in Lineups
    BY <1>1 DEF IInv
  <2>3. /\ p \in 1..Cardinality(G) /\ q \in 1..Cardinality(G)
        /\ s \in G /\ Cardinality(Ahead(G, s, ops)) = p - 1
        /\ t \in G /\ Cardinality(Ahead(G, t, ops)) = q - 1
    <3>1. /\ DOMAIN tables[n] = 1..Cardinality(G)
          /\ \A place \in DOMAIN tables[n] :
                 /\ tables[n][place] \in G
                 /\ Cardinality(Ahead(G, tables[n][place], ops)) = place - 1
      <4> HIDE DEF G, ops
      <4> QED
        BY <2>1, RankingOrders
    <3> HIDE DEF G, ops
    <3> QED
      BY <1>1, <3>1
  <2>4. /\ \A o \in ops : stats[s][o] <= stats[t][o]
        /\ \E o \in ops : stats[s][o] < stats[t][o]
    BY <1>1
  <2> HIDE DEF G, ops, s, t, section
  <2>5. \A o \in ops : stats[s][o] \in Nat /\ stats[t][o] \in Nat
    BY <2>1, <2>2, <2>3, GroupComparable DEF G, ops
  <2>6. s # t
    BY <2>4, <2>5
  <2>7. \A o \in ops : stats[t][o] # 0
    BY <2>1, <2>2, <2>3, <2>4, <2>6, NoZeroRanked DEF G, ops
  <2>8. Product(s, ops) < Product(t, ops)
    <3>1. \A o \in Ops : /\ Factor(s, ops, o) \in Nat
                         /\ Factor(t, ops, o) \in Nat \ {0}
                         /\ Factor(s, ops, o) <= Factor(t, ops, o)
      BY <2>4, <2>5, <2>7 DEF Factor
    <3>2. \E o \in Ops : Factor(s, ops, o) < Factor(t, ops, o)
      <4>1. ops \subseteq Ops
        BY <2>1 DEF Section, ops
      <4> QED
        BY <2>4, <4>1 DEF Factor
    <3> QED
      BY <3>1, <3>2, ProductGrows
  <2>9. Before(s, t, ops)
    BY <2>8 DEF Before, Less
  <2>10. p - 1 < q - 1
    BY <2>1, <2>3, <2>9, Positions
  <2> QED
    BY <2>3, <2>10
<1>2. IInv => BetterIsAhead
  BY <1>1 DEF BetterIsAhead
<1> QED
  BY <1>2, Inductive, PTL

=======================================================================
