---------------------------- MODULE Report ----------------------------
(* render_report(): the tables of RESULTS.md, made from the statistics that  *)
(* run_suite() left for each suite.  A table is the sequence of the suites   *)
(* it lists, best first; layout, wording and the table of code sizes (which  *)
(* does not depend on the run) are left out.                                 *)
(*                                                                           *)
(* What can go wrong is a panic: in the unwrap() of an operation's stats, or *)
(* in sort_by(), whose partial_cmp().unwrap() has no answer for NaN.  The    *)
(* report is rendered in one piece after all suites have run, so a panic     *)
(* loses everything that was measured.                                       *)
EXTENDS Integers, Sequences, FiniteSets, Functions

CONSTANTS
    Lineups,  \* the suites that may have run: sequences of
              \* [engine, read_only], in the order they ran
    Rows      \* the medians, in some unit, that the operations of a suite may
              \* have if each is timed at least once

ASSUME LineupsAssumption ==
    Lineups \subseteq
        Seq([engine : {"SQLite", "PostgreSQL"}, read_only : BOOLEAN])

\* A call takes time.
ASSUME RowsAssumption == Rows \subseteq [1..7 -> Nat \ {0}]

VARIABLES
    lineup,
    stats,    \* the median of each suite in each operation, or None
    next,     \* position in Sections of the table that is rendered next
    tables,   \* the tables rendered, by section
    pc        \* "rendering", "rendered" or "panicked"

vars == <<lineup, stats, next, tables, pc>>

-----------------------------------------------------------------------

None == -1
Engines == <<"SQLite", "PostgreSQL">>

\* Positions in OPS, counted from 1: insert_one, insert_bulk, fetch_by_id,
\* fetch_page, join_query, update_one, delete_one.
NumOps == 7
Ops == 1..NumOps

\* Three lists of them are written down in three places: the operations that
\* the report ranks as reads, the entries of run_suite()'s vec![] with `if
\* writes`, and those that are timed cfg.iters times.
READ_OPS_OffByOne == {4, 5, 6}

READ_OPS == {3, 4, 5}

IfWrites == {1, 2, 6, 7}

IterOps == {1, 3, 6, 7}

Suites == DOMAIN lineup

\* percentile() of no samples.
MedianOfNothing == 0

\* The order of the tables: one per operation, then the overall rankings,
\* then the read-only ones.
Sections ==
    [o \in Ops |-> [kind |-> "op", ops |-> {o}, engine |-> ""]]
    \o [e \in 1..2 |-> [kind |-> "overall", ops |-> Ops, engine |-> Engines[e]]]
    \o [e \in 1..2 |-> [kind |-> "reads", ops |-> READ_OPS, engine |-> Engines[e]]]

\* The suites a section lists.
Group_ReadsOfWriters(section) ==
    CASE section.kind = "op" ->
             {s \in Suites : \A o \in section.ops : stats[s][o] # None}
      [] OTHER ->
             {s \in Suites : /\ lineup[s].engine = section.engine
                             /\ \A o \in Ops : stats[s][o] # None}

Group(section) ==
    CASE section.kind = "op" ->
             {s \in Suites : \A o \in section.ops : stats[s][o] # None}
      [] section.kind = "overall" ->
             {s \in Suites : /\ lineup[s].engine = section.engine
                             /\ \A o \in Ops : stats[s][o] # None}
      [] section.kind = "reads" ->
             {s \in Suites : lineup[s].engine = section.engine}

\* The least median of the group in an operation; a suite without stats does
\* not count.
Best(group, o) ==
    CHOOSE m \in {stats[s][o] : s \in group} \ {None} :
        \A s \in group : stats[s][o] # None => m <= stats[s][o]

\* 0.0 / 0.0
IsNaN(group, s, ops) ==
    \E o \in ops : stats[s][o] = 0 /\ Best(group, o) = 0

\* The score is the geometric mean of stats[s][o] / Best(group, o).  The bests
\* are the same for all suites of the group, so the product of the medians
\* orders the suites as the score does.  (A best of 0 makes some score NaN.)
Product(s, ops) ==
    LET upto[o \in 0..NumOps] ==
            IF o = 0 THEN 1
            ELSE upto[o - 1] * (IF o \in ops THEN stats[s][o] ELSE 1)
    IN  upto[NumOps]

Less_ByLastOp(s, t, ops) ==
    LET last == CHOOSE o \in ops : \A p \in ops : p <= o
    IN  stats[s][last] < stats[t][last]

Less(s, t, ops) == Product(s, ops) < Product(t, ops)

\* sort_by() is stable.
Ranking(group, ops) ==
    [place \in 1..Cardinality(group) |->
        CHOOSE s \in group :
            Cardinality({t \in group :
                Less(t, s, ops) \/ (~Less(s, t, ops) /\ t < s)}) = place - 1]

-----------------------------------------------------------------------

\* What stops render_report() in the section: stats that are not there, or a
\* NaN that sort_by() has to compare.  The tables of the operations sort the
\* medians themselves, which are numbers.
Unwraps(section) ==
    \E s \in Group(section), o \in section.ops : stats[s][o] = None

ComparesNaN(section) ==
    /\ section.kind # "op"
    /\ Cardinality(Group(section)) > 1
    /\ \E s \in Group(section) : IsNaN(Group(section), s, section.ops)

Table ==
    /\ pc = "rendering"
    /\ next <= Len(Sections)
    /\ LET section == Sections[next]
       IN  IF Unwraps(section) \/ ComparesNaN(section)
           THEN /\ pc' = "panicked"
                /\ UNCHANGED <<next, tables>>
           ELSE /\ tables' = Append(tables, Ranking(Group(section), section.ops))
                /\ next' = next + 1
                /\ UNCHANGED pc
    /\ UNCHANGED <<lineup, stats>>

Finish ==
    /\ pc = "rendering"
    /\ next > Len(Sections)
    /\ pc' = "rendered"
    /\ UNCHANGED <<lineup, stats, next, tables>>

\* What run_suite() returns, if the timed operations have these medians: None
\* for what a read-only suite is not asked to do; with BENCH_ITERS=0 some
\* operations are not timed.
StatsOf_WritesToo(medians, untimed) ==
    [s \in Suites |-> [o \in Ops |->
        IF o \in untimed THEN MedianOfNothing ELSE medians[s][o]]]

StatsOf(medians, untimed) ==
    [s \in Suites |-> [o \in Ops |->
        IF lineup[s].read_only /\ o \in IfWrites THEN None
        ELSE IF o \in untimed THEN MedianOfNothing
        ELSE medians[s][o]]]

Init ==
    /\ lineup \in Lineups
    /\ \E medians \in [Suites -> Rows], untimed \in {{}, IterOps} :
          stats = StatsOf(medians, untimed)
    /\ next = 1
    /\ tables = <<>>
    /\ pc = "rendering"

Next == Table \/ Finish

Spec == Init /\ [][Next]_vars

-----------------------------------------------------------------------
(* Correctness.                                                              *)

\* The types of the variables.
TypeOK ==
    /\ lineup \in Lineups
    /\ \A s \in Suites, o \in Ops :
          stats[s][o] \in
              IF lineup[s].read_only /\ o \in IfWrites THEN {None} ELSE Nat
    /\ next \in 1..(Len(Sections) + 1)
    /\ Len(tables) = next - 1
    /\ \A n \in DOMAIN tables : Range(tables[n]) \subseteq Suites
    /\ pc \in {"rendering", "rendered", "panicked"}

OpTable(o) == tables[o]
Overall(e) == tables[NumOps + e]
ReadOnly(e) == tables[NumOps + 2 + e]

\* A report that gets rendered leaves no suite out and lists none where it
\* did not compete: in the table of each operation the suites that ran it, in
\* the overall ranking of an engine its suites that may write, and in the
\* read-only ranking all of its suites ("every suite runs the reads", 257).
EveryoneListed ==
    pc = "rendered" =>
        /\ \A o \in Ops :
              Range(OpTable(o)) =
                  {s \in Suites : ~lineup[s].read_only \/ o \in READ_OPS}
        /\ \A e \in DOMAIN Engines :
              LET own == {s \in Suites : lineup[s].engine = Engines[e]}
              IN  /\ Range(Overall(e)) = {s \in own : ~lineup[s].read_only}
                  /\ Range(ReadOnly(e)) = own
        /\ \A n \in DOMAIN tables : IsInjective(tables[n])

\* No suite is listed behind one that it beats: not slower in any operation
\* the table is about, and faster in one.
BetterIsAhead ==
    \A n \in DOMAIN tables :
        \A p, q \in DOMAIN tables[n] :
            LET s == tables[n][p]
                t == tables[n][q]
                ops == Sections[n].ops
            IN  (/\ \A o \in ops : stats[s][o] <= stats[t][o]
                 /\ \E o \in ops : stats[s][o] < stats[t][o])
                => p < q

\* Nothing but a median of no samples makes rendering panic: every unwrap()
\* of stats finds them, since the positions in READ_OPS are those of the
\* entries that run_suite() makes for a read-only suite too.
PanicsOnlyWithoutSamples ==
    pc = "panicked" =>
        \E s \in Suites, o \in Ops : stats[s][o] = MedianOfNothing

\* What has been measured gets into the report (README 80-82: a run "writes
\* RESULTS.md", also with BENCH_ITERS set): rendering never panics.
NeverPanics == pc # "panicked"

=======================================================================
