----------------------- MODULE Benchmark_proofs -----------------------
(* Proofs about Benchmark, for any number of runs, outages and changes of    *)
(* the server and all BenchConfigs whose victims have ids within an i32.     *)
EXTENDS Benchmark, SequenceTheorems, TLAPS

-----------------------------------------------------------------------
(* The suites main() builds.                                                 *)

Both == SqliteInOrder \o PostgresSuites

\* The thirteen suites, the eight on SQLite first.
LEMMA TheSuites ==
    /\ SqliteInOrder \in Seq(AllSuites) /\ Len(SqliteInOrder) = 8
    /\ PostgresSuites \in Seq(AllSuites) /\ Len(PostgresSuites) = 5
    /\ Both \in Seq(AllSuites) /\ Len(Both) = 13
    /\ \A n \in 1..8 : Both[n] = SqliteInOrder[n]
    /\ \A n \in 1..8 : ~IsOnServer(SqliteInOrder[n])
<1>1. Len(SqliteInOrder) = 8 /\ DOMAIN SqliteInOrder = 1..8
  BY DEF SqliteInOrder
<1>2. Len(PostgresSuites) = 5 /\ DOMAIN PostgresSuites = 1..5
  BY DEF PostgresSuites
<1>3. SqliteInOrder \in Seq(AllSuites)
  <2>1. SqliteInOrder \in Seq(Range(SqliteInOrder))
    BY DEF SqliteInOrder, Range
  <2> QED
    BY <2>1 DEF AllSuites
<1>4. PostgresSuites \in Seq(AllSuites)
  <2>1. PostgresSuites \in Seq(Range(PostgresSuites))
    BY DEF PostgresSuites, Range
  <2> QED
    BY <2>1 DEF AllSuites
<1>5. /\ Both \in Seq(AllSuites) /\ Len(Both) = 13
      /\ \A n \in 1..8 : Both[n] = SqliteInOrder[n]
  <2>1. Both \in Seq(AllSuites)
    BY <1>3, <1>4, ConcatProperties DEF Both
  <2>2. Len(Both) = Len(SqliteInOrder) + Len(PostgresSuites)
    BY <1>3, <1>4, ConcatProperties DEF Both
  <2>3. \A n \in 1..(Len(SqliteInOrder) + Len(PostgresSuites)) :
            Both[n] = IF n <= Len(SqliteInOrder) THEN SqliteInOrder[n]
                      ELSE PostgresSuites[n - Len(SqliteInOrder)]
    BY <1>3, <1>4, ConcatProperties DEF Both
  <2> QED
    BY <1>1, <1>2, <2>1, <2>2, <2>3
<1>6. \A n \in 1..8 : ~IsOnServer(SqliteInOrder[n])
  <2> TAKE n \in 1..8
  <2>1. n \in {1, 2, 3, 4, 5, 6, 7, 8}
    OBVIOUS
  <2>2. SqliteInOrder[n] \in {RusqliteSqlite, RusqliteSqliteReadonly,
                RusqliteSqliteMemory, SqlxSqlite, DieselSqlite,
                DieselSqliteMemory, DieselAsyncSqlite, SeaOrmSqlite}
    BY <2>1 DEF SqliteInOrder
  <2>3. /\ RusqliteSqlite.storage # "server"
        /\ RusqliteSqliteReadonly.storage # "server"
        /\ RusqliteSqliteMemory.storage # "server"
        /\ SqlxSqlite.storage # "server" /\ DieselSqlite.storage # "server"
        /\ DieselSqliteMemory.storage # "server"
        /\ DieselAsyncSqlite.storage # "server"
        /\ SeaOrmSqlite.storage # "server"
    BY DEF RusqliteSqlite, RusqliteSqliteReadonly, RusqliteSqliteMemory,
           SqlxSqlite, DieselSqlite, DieselSqliteMemory, DieselAsyncSqlite,
           SeaOrmSqlite
  <2> QED
    BY <2>2, <2>3, Zenon DEF IsOnServer
<1> QED
  BY <1>1, <1>2, <1>3, <1>4, <1>5, <1>6

-----------------------------------------------------------------------
(* The inductive invariant.                                                  *)

\* What is built is the first part of what is wanted, what has results the
\* first part of what is built; each stage starts when the one before it is
\* through.
OrderInv ==
    /\ pg_available \in BOOLEAN
    /\ built \in Seq(AllSuites) /\ results \in Seq(AllSuites)
    /\ IsPrefixOf(built, Wanted)
    /\ IsPrefixOf(results, built)
    /\ pc = "probe" => built = <<>> /\ failure = "none"
    /\ pc \in {"probe", "build"} => results = <<>>
    /\ pc \in {"setup", "run", "report", "write", "ok"} => built = Wanted
    /\ pc \in {"report", "write", "ok"} => results = built
    /\ pc \in {"write", "ok"} => report.suites = results

\* A record of both fields, so that writing its end keeps the suites.
ReportInv ==
    /\ report = [suites |-> report.suites, whole |-> report.whole]
    /\ report.whole \in BOOLEAN
    /\ ReportIsComplete

\* Without PostgreSQL no suite needs the server.
IInv == OrderInv /\ ReportInv /\ SqliteOnlyIfNotFound

\* all_suites has all of them, or without PostgreSQL the first eight.
LEMMA WantedSeq ==
    ASSUME pg_available \in BOOLEAN
    PROVE  /\ Wanted \in Seq(AllSuites)
           /\ Wanted \in {SqliteInOrder, Both}
           /\ ~pg_available => \A n \in 1..Len(Wanted) : ~IsOnServer(Wanted[n])
  BY TheSuites DEF Wanted, Both

\* A prefix as long as the whole is the whole.
LEMMA PrefixOfAll ==
    ASSUME NEW S, NEW s \in Seq(S), NEW t \in Seq(S),
           IsPrefixOf(s, t), Len(s) = Len(t)
    PROVE  s = t
  BY DEF IsPrefixOf

\* A prefix stays one with the next element appended.
LEMMA PrefixGrows ==
    ASSUME NEW S, NEW s \in Seq(S), NEW t \in Seq(S),
           IsPrefixOf(s, t), Len(s) < Len(t)
    PROVE  /\ t[Len(s) + 1] \in S
           /\ Append(s, t[Len(s) + 1]) \in Seq(S)
           /\ IsPrefixOf(Append(s, t[Len(s) + 1]), t)
  BY DEF IsPrefixOf

\* postgres_reachable() decides what is wanted before anything is built.
LEMMA ProbeStep ==
    ASSUME IInv, Probe
    PROVE  IInv'
<1>1. built = <<>> /\ results = <<>>
  BY DEF IInv, OrderInv, Probe
<1>2. pg_available' \in BOOLEAN
  BY DEF Probe
<1>3. IsPrefixOf(<<>>, Wanted)'
  <2>1. Wanted' \in {SqliteInOrder, Both}
    BY <1>2 DEF Wanted, Both
  <2>2. Len(Wanted') \in Nat
    BY <2>1, TheSuites
  <2> QED
    BY <2>2 DEF IsPrefixOf
<1>4. IsPrefixOf(built', Wanted') /\ IsPrefixOf(results', built')
  BY <1>1, <1>3 DEF Probe, IsPrefixOf
<1> QED
  BY <1>1, <1>2, <1>4
     DEF IInv, OrderInv, ReportInv, ReportIsComplete, SqliteOnlyIfNotFound, Probe

\* A new() that succeeds adds the next suite wanted.
LEMMA BuildStep ==
    ASSUME IInv, Build
    PROVE  IInv'
<1> DEFINE s == Wanted[Len(built) + 1]
<1>1. /\ Wanted \in Seq(AllSuites) /\ built \in Seq(AllSuites)
      /\ IsPrefixOf(built, Wanted) /\ Len(built) < Len(Wanted)
      /\ results = <<>> /\ pc = "build" /\ Wanted' = Wanted
  BY WantedSeq DEF IInv, OrderInv, Build, Wanted
<1>2. CASE IsOnServer(s) /\ server # "ready"
  <2>1. pg_available
    BY <1>1, <1>2, WantedSeq DEF IInv, OrderInv
  <2>2. pc' = "failed" /\ built' = built
    BY <1>2 DEF Build, Fail
  <2> QED
    BY <1>1, <2>1, <2>2
       DEF IInv, OrderInv, ReportInv, ReportIsComplete, SqliteOnlyIfNotFound,
           Build
<1>3. CASE ~(IsOnServer(s) /\ server # "ready")
  <2>1. built' = Append(built, s) /\ pc' = pc /\ failure' = failure
    BY <1>3 DEF Build
  <2>2. built' \in Seq(AllSuites) /\ IsPrefixOf(built', Wanted)
    BY <1>1, <2>1, PrefixGrows
  <2>3. IsPrefixOf(<<>>, built')
    BY <2>2 DEF IsPrefixOf
  <2> QED
    BY <1>1, <2>1, <2>2, <2>3
       DEF IInv, OrderInv, ReportInv, ReportIsComplete, SqliteOnlyIfNotFound,
           Build
<1> QED
  BY <1>2, <1>3

\* The loop over the suites starts with all that are wanted.
LEMMA AllBuiltStep ==
    ASSUME IInv, AllBuilt
    PROVE  IInv'
<1>1. built = Wanted
  BY WantedSeq, PrefixOfAll DEF IInv, OrderInv, AllBuilt
<1> QED
  BY <1>1 DEF IInv, OrderInv, ReportInv, ReportIsComplete,
              SqliteOnlyIfNotFound, AllBuilt, Wanted

\* The suite whose turn it is follows those that have results.
LEMMA TurnIsWanted ==
    ASSUME IInv, pc \in {"setup", "run"}, Len(results) < Len(built)
    PROVE  /\ built = Wanted /\ Turn \in AllSuites
           /\ Append(results, Turn) \in Seq(AllSuites)
           /\ IsPrefixOf(Append(results, Turn), built)
           /\ IsOnServer(Turn) => pg_available
<1>1. /\ built = Wanted /\ built \in Seq(AllSuites)
      /\ results \in Seq(AllSuites) /\ IsPrefixOf(results, built)
  BY DEF IInv, OrderInv
<1>2. /\ Turn \in AllSuites /\ Append(results, Turn) \in Seq(AllSuites)
      /\ IsPrefixOf(Append(results, Turn), built)
  BY <1>1, PrefixGrows DEF Turn
<1>3. ~pg_available => ~IsOnServer(Turn)
  <2>1. Len(results) + 1 \in 1..Len(Wanted)
    BY <1>1
  <2> QED
    BY <1>1, <2>1, WantedSeq DEF Turn, IInv, OrderInv
<1> QED
  BY <1>1, <1>2, <1>3

\* A turn adds the next result or ends the process: for want of the server or
\* for a refused statement only if PostgreSQL takes part.
LEMMA Turns ==
    ASSUME SetupSuite \/ RunSuite
    PROVE  /\ pc \in {"setup", "run"} /\ Len(results) < Len(built)
           /\ UNCHANGED <<cfg, server, pg_available, built, answered, report,
                          bounds>>
           /\ results' = results \/ results' = Append(results, Turn)
           /\ connected' = connected \/ (IsOnServer(Turn)
                  /\ connected' = connected \cup {Turn})
           /\ \/ pc' \in {"setup", "run"} /\ failure' = failure
              \/ /\ pc' = "failed" /\ failure' \in {"postgres", "statement"}
                 /\ IsOnServer(Turn)
<1>1. /\ pc \in {"setup", "run"} /\ Len(results) < Len(built)
      /\ UNCHANGED <<cfg, server, pg_available, built, answered, report,
                     bounds>>
  BY DEF SetupSuite, RunSuite, Work
<1>2. CASE /\ Works /\ pc' \in {"setup", "run"}
           /\ results' = results \/ results' = Append(results, Turn)
  BY <1>1, <1>2 DEF Works
<1>3. CASE LosesServer
  BY <1>1, <1>3 DEF LosesServer, CanWork, Fail
<1>4. CASE InsertRefused /\ Fail("statement") /\ UNCHANGED <<connected, results>>
  BY <1>1, <1>4 DEF InsertRefused, Fail
<1>5. CASE SetupSuite
  BY <1>2, <1>3, <1>5 DEF SetupSuite
<1>6. CASE RunSuite
  BY <1>2, <1>3, <1>4, <1>6 DEF RunSuite
<1> QED
  BY <1>5, <1>6

\* So the suites keep their order.
LEMMA SuiteSteps ==
    ASSUME IInv, SetupSuite \/ RunSuite
    PROVE  IInv'
<1>1. /\ pc \in {"setup", "run"} /\ Len(results) < Len(built)
      /\ UNCHANGED <<pg_available, built, report>>
  BY Turns
<1>2. /\ built = Wanted
      /\ IsOnServer(Turn) => pg_available
      /\ Append(results, Turn) \in Seq(AllSuites)
      /\ IsPrefixOf(Append(results, Turn), built)
  BY <1>1, TurnIsWanted
<1>3. \/ pc' \in {"setup", "run"} /\ failure' = failure
      \/ /\ pc' = "failed" /\ failure' \in {"postgres", "statement"}
         /\ pg_available
  <2>1. \/ pc' \in {"setup", "run"} /\ failure' = failure
        \/ /\ pc' = "failed" /\ failure' \in {"postgres", "statement"}
           /\ IsOnServer(Turn)
    BY Turns, Zenon
  <2> QED
    BY <1>2, <2>1, Zenon
<1>4. results' = results \/ results' = Append(results, Turn)
  BY Turns
<1>5. /\ results' \in Seq(AllSuites) /\ IsPrefixOf(results', built)
  BY <1>2, <1>4 DEF IInv, OrderInv
<1>6. Wanted' = Wanted
  BY <1>1 DEF Wanted
<1> QED
  BY <1>1, <1>2, <1>3, <1>5, <1>6
     DEF IInv, OrderInv, ReportInv, ReportIsComplete, SqliteOnlyIfNotFound

\* The report is begun when every suite had its turn.
LEMMA LoopEndsStep ==
    ASSUME IInv, LoopEnds
    PROVE  IInv'
<1>1. results = built
  BY PrefixOfAll DEF IInv, OrderInv, LoopEnds
<1> QED
  BY <1>1 DEF IInv, OrderInv, ReportInv, ReportIsComplete,
              SqliteOnlyIfNotFound, LoopEnds, Wanted

\* A panic in render_report() leaves RESULTS.md as it was.
LEMMA PanicStep ==
    ASSUME IInv, RenderPanics
    PROVE  IInv'
  BY DEF IInv, OrderInv, ReportInv, ReportIsComplete, SqliteOnlyIfNotFound,
         RenderPanics, Fail, Wanted

\* So what is written has the results of all suites.
LEMMA ReportSteps ==
    ASSUME IInv, OpenReport \/ WriteReport
    PROVE  IInv' /\ results = Wanted /\ built = Wanted
<1>1. results = Wanted /\ built = Wanted
  BY DEF IInv, OrderInv, OpenReport, WriteReport
<1>2. UNCHANGED <<pg_available, built, results, failure>> /\ Wanted' = Wanted
  BY DEF OpenReport, WriteReport, Wanted
<1>3. CASE OpenReport
  BY <1>1, <1>2, <1>3
     DEF IInv, OrderInv, ReportInv, ReportIsComplete, SqliteOnlyIfNotFound,
         OpenReport
<1>4. CASE WriteReport
  <2>1. report' = [suites |-> Wanted, whole |-> TRUE]
    BY <1>1, <1>4 DEF IInv, OrderInv, ReportInv, WriteReport
  <2>2. Wanted \in {SqliteInOrder, Both}
    BY WantedSeq DEF IInv, OrderInv
  <2>3. /\ report'.suites = Wanted /\ report'.whole = TRUE
        /\ report' = [suites |-> report'.suites, whole |-> report'.whole]
    BY <2>1
  <2>4. ReportInv'
    BY <1>2, <2>1, <2>2, <2>3, Zenon DEF ReportInv, ReportIsComplete, Both
  <2>5. OrderInv'
    <3>1. report'.suites = Wanted /\ pc' = "ok"
      BY <1>4, <2>3 DEF WriteReport
    <3>2. OrderInv
      BY DEF IInv
    <3> HIDE DEF IInv, Wanted
    <3> QED
      BY <1>1, <1>2, <3>1, <3>2 DEF OrderInv
  <2> QED
    BY <1>1, <1>2, <2>4, <2>5 DEF IInv, SqliteOnlyIfNotFound
<1> QED
  BY <1>1, <1>3, <1>4

\* What the outside does leaves order and report as they are.
LEMMA OutsideSteps ==
    ASSUME IInv, Outage \/ ServerChanges \/ Rerun \/ UNCHANGED vars
    PROVE  IInv'
<1>1. CASE Outage
  BY <1>1 DEF IInv, OrderInv, ReportInv, ReportIsComplete, SqliteOnlyIfNotFound,
              Outage, Fail, Wanted
<1>2. CASE ServerChanges
  BY <1>2 DEF IInv, OrderInv, ReportInv, ReportIsComplete, SqliteOnlyIfNotFound,
              ServerChanges, Wanted
<1>3. CASE Rerun
  <2>1. Wanted' = SqliteInOrder
    BY <1>3 DEF Rerun, Wanted
  <2>2. IsPrefixOf(<<>>, SqliteInOrder) /\ IsPrefixOf(<<>>, <<>>)
    BY TheSuites DEF IsPrefixOf
  <2>3. OrderInv'
    <3>1. /\ pc' = "probe" /\ pg_available' = FALSE /\ failure' = "none"
          /\ built' = <<>> /\ results' = <<>>
      BY <1>3 DEF Rerun
    <3>2. <<>> \in Seq(AllSuites)
      OBVIOUS
    <3>3. IsPrefixOf(built', Wanted') /\ IsPrefixOf(results', built')
      BY <2>1, <2>2, <3>1
    <3> QED
      BY <3>1, <3>2, <3>3 DEF OrderInv
  <2> QED
    BY <1>3, <2>3
       DEF IInv, ReportInv, ReportIsComplete, SqliteOnlyIfNotFound, Rerun
<1>4. CASE UNCHANGED vars
  BY <1>4 DEF IInv, OrderInv, ReportInv, ReportIsComplete, SqliteOnlyIfNotFound,
              vars, Wanted
<1> QED
  BY <1>1, <1>2, <1>3, <1>4

\* IInv holds in every state.
LEMMA Inductive == Spec => []IInv
<1>1. Init => IInv
  <2> SUFFICES ASSUME Init PROVE IInv
    OBVIOUS
  <2>1. IsPrefixOf(<<>>, SqliteInOrder) /\ IsPrefixOf(<<>>, <<>>)
    BY TheSuites DEF IsPrefixOf
  <2>2. Wanted = SqliteInOrder /\ <<>> \in Seq(AllSuites)
    BY DEF Init, Wanted
  <2>3. IsPrefixOf(built, Wanted) /\ IsPrefixOf(results, built)
    BY <2>1, <2>2 DEF Init
  <2>4. OrderInv
    BY <2>2, <2>3 DEF Init, OrderInv
  <2>5. report.whole = FALSE /\ report = [suites |-> report.suites, whole |-> FALSE]
    BY DEF Init, NoReport
  <2> QED
    BY <2>4, <2>5 DEF Init, IInv, ReportInv, ReportIsComplete,
                      SqliteOnlyIfNotFound
<1>2. IInv /\ [Next]_vars => IInv'
  BY ProbeStep, BuildStep, AllBuiltStep, SuiteSteps, LoopEndsStep, PanicStep,
     ReportSteps, OutsideSteps DEF Next, Main
<1> QED
  BY <1>1, <1>2, PTL DEF Spec

-----------------------------------------------------------------------
(* The theorems.                                                             *)

\* A whole RESULTS.md has all suites of an engine or none.
THEOREM ReportsAreComplete == Spec => []ReportIsComplete
<1>1. IInv => ReportIsComplete
  BY DEF IInv, ReportInv
<1> QED
  BY <1>1, Inductive, PTL

\* A run that did not find PostgreSQL does not fail for want of it, nor for a
\* statement that only PostgreSQL refuses.
THEOREM NotFoundNotNeeded == Spec => []SqliteOnlyIfNotFound
<1>1. IInv => SqliteOnlyIfNotFound
  BY DEF IInv
<1> QED
  BY <1>1, Inductive, PTL

\* RESULTS.md is touched only by a run all of whose suites have results.
THEOREM EarlierReportSurvives == Spec => EarlierReportKept
<1>1. IInv /\ [Next]_vars
      => [report' # report => results = Wanted /\ built = Wanted]_vars
  <2> SUFFICES ASSUME IInv, [Next]_vars, report' # report
               PROVE  results = Wanted /\ built = Wanted
    OBVIOUS
  <2>1. CASE OpenReport \/ WriteReport
    BY <2>1, ReportSteps
  <2>2. CASE Probe \/ Build \/ AllBuilt \/ LoopEnds \/ RenderPanics
    BY <2>2 DEF Probe, Build, AllBuilt, LoopEnds, RenderPanics
  <2>3. CASE Outage \/ ServerChanges \/ Rerun \/ UNCHANGED vars
    BY <2>3 DEF Outage, ServerChanges, Rerun, vars
  <2>4. CASE SetupSuite \/ RunSuite
    BY <2>4, Turns
  <2> QED
    BY <2>1, <2>2, <2>3, <2>4 DEF Next, Main
<1> QED
  BY <1>1, Inductive, PTL DEF Spec, EarlierReportKept

-----------------------------------------------------------------------
(* The types.                                                                *)

\* What OrderInv leaves open: connections belong to suites that were built,
\* the report names suites of the catalogue, the bounds are kept.
RestOK ==
    /\ cfg \in Configs
    /\ server \in {"down", "starting", "ready"}
    /\ pc \in {"probe", "build", "setup", "run", "report", "write"} \cup Ended
    /\ connected \subseteq {s \in Range(built) : IsOnServer(s)}
    /\ failure \in {"none", "postgres", "statement", "panic", "outside"}
    /\ answered \in BOOLEAN
    /\ Range(report.suites) \subseteq AllSuites
    /\ runs \in 0..MaxRuns /\ outages \in 0..MaxOutages
    /\ changes \in 0..MaxChanges

\* A suite that was built stays so when the next one is.
LEMMA RangeOfAppend ==
    ASSUME NEW S, NEW s \in Seq(S), NEW x
    PROVE  Range(Append(s, x)) = Range(s) \cup {x}
<1>1. /\ DOMAIN s = 1..Len(s) /\ Len(s) \in Nat
      /\ DOMAIN Append(s, x) = 1..(Len(s) + 1)
      /\ \A n \in 1..Len(s) : Append(s, x)[n] = s[n]
      /\ Append(s, x)[Len(s) + 1] = x
  OBVIOUS
<1>2. 1..(Len(s) + 1) = (1..Len(s)) \cup {Len(s) + 1}
  BY <1>1
<1> QED
  BY <1>1, <1>2, Zenon DEF Range

\* The suite whose turn it is, is one of those that were built.
LEMMA TurnIsBuilt ==
    ASSUME IInv, pc \in {"setup", "run"}, Len(results) < Len(built)
    PROVE  Turn \in Range(built)
<1>1. built \in Seq(AllSuites) /\ results \in Seq(AllSuites)
  BY DEF IInv, OrderInv
<1>2. Len(results) + 1 \in DOMAIN built
  BY <1>1
<1> QED
  BY <1>2 DEF Turn, Range

\* main() keeps the types of the variables IInv says nothing of.
LEMMA MainRest ==
    ASSUME IInv, RestOK, Main
    PROVE  RestOK'
<1> USE BenchmarkBounds DEF Ended
<1>1. CASE Probe \/ AllBuilt
  BY <1>1 DEF RestOK, Probe, AllBuilt, bounds
<1>2. CASE Build
  <2> DEFINE s == Wanted[Len(built) + 1]
  <2>1. built \in Seq(AllSuites)
    BY DEF IInv, OrderInv
  <2>2. CASE built' = Append(built, s)
    <3>1. Range(built') = Range(built) \cup {s}
      BY <2>1, <2>2, RangeOfAppend
    <3>2. connected' = IF IsOnServer(s) THEN connected \cup {s} ELSE connected
      BY <1>2, <2>1, <2>2 DEF Build
    <3>3. pc' = pc /\ failure' = failure
      BY <1>2, <2>1, <2>2 DEF Build
    <3>4. connected' \subseteq {t \in Range(built') : IsOnServer(t)}
      BY <3>1, <3>2 DEF RestOK
    <3> QED
      BY <1>2, <3>3, <3>4 DEF RestOK, Build, bounds
  <2>3. CASE pc' = "failed" /\ failure' = "postgres" /\ UNCHANGED <<built, connected>>
    BY <1>2, <2>3 DEF RestOK, Build, bounds
  <2> QED
    BY <1>2, <2>2, <2>3 DEF Build, Fail
<1>3. CASE SetupSuite \/ RunSuite
  <2>1. /\ pc \in {"setup", "run"} /\ Len(results) < Len(built)
        /\ UNCHANGED <<cfg, server, built, answered, report, bounds>>
    BY <1>3, Turns
  <2>2. /\ pc' \in {"setup", "run", "failed"}
        /\ failure' \in {failure, "postgres", "statement"}
        /\ connected' = connected \/ (IsOnServer(Turn)
               /\ connected' = connected \cup {Turn})
    BY <1>3, Turns
  <2>3. Turn \in Range(built)
    BY <2>1, TurnIsBuilt
  <2>4. connected' \subseteq {s \in Range(built) : IsOnServer(s)}
    BY <2>2, <2>3 DEF RestOK
  <2> QED
    BY <2>1, <2>2, <2>4 DEF RestOK, bounds
<1>4. CASE LoopEnds \/ RenderPanics
  BY <1>4 DEF RestOK, LoopEnds, RenderPanics, Fail, bounds
<1>5. CASE OpenReport
  <2>1. /\ results = Wanted /\ Wanted \in Seq(AllSuites)
    BY <1>5, ReportSteps, WantedSeq DEF IInv, OrderInv
  <2>2. report'.suites = Wanted
    BY <1>5, <2>1 DEF OpenReport
  <2>3. Range(Wanted) \subseteq AllSuites
    BY <2>1 DEF Range
  <2> QED
    BY <1>5, <2>2, <2>3 DEF RestOK, OpenReport, bounds
<1>6. CASE WriteReport
  <2>1. report'.suites = report.suites
    BY <1>6 DEF WriteReport, IInv, ReportInv
  <2> QED
    BY <1>6, <2>1 DEF RestOK, WriteReport, bounds
<1> QED
  BY <1>1, <1>2, <1>3, <1>4, <1>5, <1>6 DEF Main

\* So does the outside.
LEMMA OutsideRest ==
    ASSUME RestOK, Outage \/ ServerChanges \/ Rerun \/ UNCHANGED vars
    PROVE  RestOK'
<1> USE BenchmarkBounds DEF Ended
<1>1. CASE Outage
  BY <1>1 DEF RestOK, Outage, Fail
<1>2. CASE ServerChanges
  BY <1>2 DEF RestOK, ServerChanges
<1>3. CASE Rerun
  BY <1>3 DEF RestOK, Rerun
<1>4. CASE UNCHANGED vars
  BY <1>4 DEF RestOK, vars, bounds
<1> QED
  BY <1>1, <1>2, <1>3, <1>4

\* They have them at the start.
LEMMA InitRest ==
    ASSUME Init
    PROVE  RestOK
<1>1. Range(report.suites) = {}
  BY DEF Init, NoReport, Range
<1> QED
  BY <1>1, BenchmarkBounds DEF Init, RestOK, Ended

\* The variables have their types: whatever the server does and however often
\* the program is killed and started again, the suites with a live connection
\* are suites main() built, and those with results come in its order.
THEOREM TypeCorrect == Spec => []TypeOK
<1>1. Init => RestOK
  BY InitRest
<1>2. IInv /\ RestOK /\ [Next]_vars => RestOK'
  BY MainRest, OutsideRest DEF Next
<1>3. IInv /\ RestOK => TypeOK
  <2> SUFFICES ASSUME IInv, RestOK PROVE TypeOK
    OBVIOUS
  <2>1. /\ Wanted \in {SqliteInOrder, Both} /\ IsPrefixOf(built, Wanted)
        /\ built \in Seq(AllSuites)
    BY WantedSeq DEF IInv, OrderInv
  <2>2. ASSUME Wanted = SqliteInOrder PROVE IsPrefixOf(built, Both)
    <3>1. /\ Len(built) \in Nat /\ Len(built) <= 8 /\ DOMAIN built = 1..Len(built)
          /\ \A n \in DOMAIN built : built[n] = SqliteInOrder[n]
      BY <2>1, <2>2, TheSuites DEF IsPrefixOf
    <3>2. \A n \in DOMAIN built : built[n] = Both[n]
      <4>1. \A n \in 1..Len(built) : n \in 1..8
        BY <3>1
      <4>2. \A n \in 1..8 : Both[n] = SqliteInOrder[n]
        BY TheSuites
      <4> QED
        BY <3>1, <4>1, <4>2, Zenon
    <3>3. Len(built) <= Len(Both)
      BY <3>1, TheSuites
    <3> QED
      BY <3>2, <3>3 DEF IsPrefixOf
  <2>3. IsPrefixOf(built, Both)
    BY <2>1, <2>2
  <2> QED
    BY <2>3 DEF IInv, OrderInv, ReportInv, RestOK, TypeOK, Both
<1> QED
  BY <1>1, <1>2, <1>3, Inductive, PTL DEF Spec

=======================================================================
