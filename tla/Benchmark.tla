--------------------------- MODULE Benchmark ---------------------------
(* main(): a process probes PostgreSQL once, builds all suites, runs them    *)
(* one after another, and writes RESULTS.md at the very end.  Every Err ends *)
(* it.  Around it the PostgreSQL server comes and goes, a signal may kill    *)
(* the process, and it may be started again, with the RESULTS.md of an       *)
(* earlier run still there.                                                  *)
(*                                                                           *)
(* What a suite does to its database is SuiteRun, and what the report says   *)
(* is Report; here setup() and the operations succeed, or fail for want of   *)
(* the server or for the one statement that SuiteRun finds refused, and      *)
(* render_report() returns, or panics where Report finds that it does.       *)
EXTENDS Suites, Integers, Sequences, FiniteSets, Functions

CONSTANTS
    Configs,     \* the BenchConfigs a process may read from its environment
    DELETE_BASE, SeqStart, \* as in SuiteRun
    MaxRuns,     \* bound: processes started after the first
    MaxOutages,  \* bound: processes killed, writes of RESULTS.md that fail
    MaxChanges   \* bound: changes of the server

ASSUME BenchmarkBounds ==
    MaxRuns \in Nat /\ MaxOutages \in Nat /\ MaxChanges \in Nat

\* Victim ids stay within an i32, so that no sum of u32 wraps.
ASSUME ConfigsAssumption ==
    /\ Configs \subseteq [warmup : Nat, iters : Nat, bulk_iters : Nat,
                         read_iters : Nat]
    /\ DELETE_BASE \in Nat /\ SeqStart \in Nat
    /\ \A c \in Configs : DELETE_BASE + c.warmup + c.iters <= 2147483647

VARIABLES
    cfg,          \* the BenchConfig
    server,       \* "down"; "starting": the port accepts connections (a
                  \* forwarded port, a server starting up), nobody can log
                  \* in; "ready"
    pc,           \* what main() does next
    pg_available,
    built,        \* the suites in all_suites
    connected,    \* the PostgreSQL suites whose connection is alive
    results,      \* the suites in results
    failure,      \* why the process ended early: no "postgres", a refused
                  \* "statement", a "panic", or something "outside"
    answered,     \* the server was ready at some time of this process
    report,       \* RESULTS.md: the suites in it, and whether all of it is
                  \* there; NoReport if there is no such file
    runs, outages, changes \* how much of the bounds is used

vars == <<cfg, server, pc, pg_available, built, connected, results, failure,
          answered, report, runs, outages, changes>>

bounds == <<runs, outages, changes>>

NoReport == [suites |-> <<>>, whole |-> FALSE]

Ended == {"ok", "failed"}

-----------------------------------------------------------------------

IsOnServer(s) == s.storage = "server"

\* SQLx and SeaORM keep a pool, which replaces a connection that is dead; the
\* others hold one connection for good.
Reconnects(s) == s \in {SqlxPostgres, SeaOrmPostgres}

\* The suites main() goes on to build after the probe.
Wanted_Unprobed == SqliteInOrder \o PostgresSuites

Wanted_PostgresFirst ==
    IF pg_available THEN PostgresSuites \o SqliteInOrder ELSE SqliteInOrder

Wanted ==
    IF pg_available THEN SqliteInOrder \o PostgresSuites ELSE SqliteInOrder

\* `?` on an Err.
Fail_BreaksLoop(cause) ==
    /\ pc' = "report"
    /\ failure' = cause

Fail(cause) ==
    /\ pc' = "failed"
    /\ failure' = cause

-----------------------------------------------------------------------

\* postgres_reachable() only opens the port.
Probe_TruncatesReport ==
    /\ pc = "probe"
    /\ pg_available' = (server # "down")
    /\ pc' = "build"
    /\ report' = NoReport
    /\ UNCHANGED <<cfg, server, built, connected, results, failure, answered,
                   bounds>>

Probe ==
    /\ pc = "probe"
    /\ pg_available' = (server # "down")
    /\ pc' = "build"
    /\ UNCHANGED <<cfg, server, built, connected, results, failure, answered,
                   report, bounds>>

\* new() of the next suite; that of a PostgreSQL suite connects.
Build ==
    /\ pc = "build"
    /\ Len(built) < Len(Wanted)
    /\ LET s == Wanted[Len(built) + 1]
       IN  IF IsOnServer(s) /\ server # "ready"
           THEN /\ Fail("postgres")
                /\ UNCHANGED <<built, connected>>
           ELSE /\ built' = Append(built, s)
                /\ connected' = IF IsOnServer(s) THEN connected \cup {s}
                                ELSE connected
                /\ UNCHANGED <<pc, failure>>
    /\ UNCHANGED <<cfg, server, pg_available, results, answered, report,
                   bounds>>

AllBuilt_ExpectsServer ==
    /\ pc = "build"
    /\ Len(built) = Len(SqliteInOrder \o PostgresSuites)
    /\ pc' = "setup"
    /\ UNCHANGED <<cfg, server, pg_available, built, connected, results,
                   failure, answered, report, bounds>>

AllBuilt ==
    /\ pc = "build"
    /\ Len(built) = Len(Wanted)
    /\ pc' = "setup"
    /\ UNCHANGED <<cfg, server, pg_available, built, connected, results,
                   failure, answered, report, bounds>>

\* The suite whose turn it is.
Turn == built[Len(results) + 1]

\* A suite that works on the server needs its connection, or a new one.
CanWork(s) ==
    IsOnServer(s) =>
        \/ s \in connected
        \/ Reconnects(s) /\ server = "ready"

Works ==
    /\ CanWork(Turn)
    /\ connected' = IF IsOnServer(Turn) THEN connected \cup {Turn}
                    ELSE connected
    /\ UNCHANGED failure

LosesServer ==
    /\ ~CanWork(Turn)
    /\ Fail("postgres")
    /\ UNCHANGED <<connected, results>>

Work(stage) ==
    /\ pc = stage
    /\ Len(results) < Len(built)
    /\ UNCHANGED <<cfg, server, pg_available, built, answered, report,
                   bounds>>

\* suite.setup(delete_rows)?  It gives every row its id, and none twice.
SetupSuite ==
    /\ Work("setup")
    /\ \/ Works /\ pc' = "run" /\ UNCHANGED results
       \/ LosesServer

\* The victims reach the id that the first insert_one() on PostgreSQL draws.
InsertRefused ==
    IsOnServer(Turn) /\ DELETE_BASE + cfg.warmup + cfg.iters > SeqStart

\* run_suite()?, teardown()?, push.
RunSuite ==
    /\ Work("run")
    /\ \/ /\ ~InsertRefused
          /\ Works
          /\ pc' = "setup"
          /\ results' = Append(results, Turn)
       \/ /\ InsertRefused
          /\ CanWork(Turn)
          /\ Fail("statement")
          /\ UNCHANGED <<connected, results>>
       \/ LosesServer

\* drop(all_suites) closes the connections.
LoopEnds ==
    /\ pc = "setup"
    /\ Len(results) = Len(built)
    /\ pc' = "report"
    /\ connected' = {}
    /\ UNCHANGED <<cfg, server, pg_available, built, results, failure,
                   answered, report, bounds>>

\* Some operation was timed not once: its median is 0 in every suite, and the
\* comparison of two ranks that are no numbers panics.
NoSamples == 0 \in {cfg.iters, cfg.bulk_iters, cfg.read_iters}

RenderPanics ==
    /\ pc = "report"
    /\ NoSamples
    /\ Fail("panic")
    /\ UNCHANGED <<cfg, server, pg_available, built, connected, results,
                   answered, report, bounds>>

\* render_report(), and fs::write() as far as opening the file, which cuts an
\* older report to nothing.
OpenReport ==
    /\ pc = "report"
    /\ ~NoSamples
    /\ pc' = "write"
    /\ report' = [suites |-> results, whole |-> FALSE]
    /\ UNCHANGED <<cfg, server, pg_available, built, connected, results,
                   failure, answered, bounds>>

WriteReport ==
    /\ pc = "write"
    /\ pc' = "ok"
    /\ report' = [report EXCEPT !.whole = TRUE]
    /\ UNCHANGED <<cfg, server, pg_available, built, connected, results,
                   failure, answered, bounds>>

-----------------------------------------------------------------------
(* From outside.                                                             *)

\* The process is killed, or the disk is full; in "write" with the file cut.
Outage ==
    /\ pc \notin Ended
    /\ outages < MaxOutages
    /\ outages' = outages + 1
    /\ Fail("outside")
    /\ connected' = {}
    /\ UNCHANGED <<cfg, server, pg_available, built, results, answered,
                   report, runs, changes>>

\* A server that goes away takes its connections with it.
ServerChanges ==
    /\ changes < MaxChanges
    /\ changes' = changes + 1
    /\ server' \in {"down", "starting", "ready"} \ {server}
    /\ answered' = (answered \/ server' = "ready")
    /\ connected' = {}
    /\ UNCHANGED <<cfg, pc, pg_available, built, results, failure, report,
                   runs, outages>>

Rerun ==
    /\ pc \in Ended
    /\ runs < MaxRuns
    /\ runs' = runs + 1
    /\ cfg' \in Configs
    /\ pc' = "probe"
    /\ pg_available' = FALSE
    /\ built' = <<>>
    /\ connected' = {}
    /\ results' = <<>>
    /\ failure' = "none"
    /\ answered' = (server = "ready")
    /\ UNCHANGED <<server, report, outages, changes>>

-----------------------------------------------------------------------

Init ==
    /\ cfg \in Configs
    /\ server \in {"down", "starting", "ready"}
    /\ pc = "probe"
    /\ pg_available = FALSE
    /\ built = <<>>
    /\ connected = {}
    /\ results = <<>>
    /\ failure = "none"
    /\ answered = (server = "ready")
    /\ report = NoReport
    /\ runs = 0
    /\ outages = 0
    /\ changes = 0

Main ==
    \/ Probe \/ Build \/ AllBuilt
    \/ SetupSuite \/ RunSuite \/ LoopEnds
    \/ RenderPanics \/ OpenReport \/ WriteReport

Next == Main \/ Outage \/ ServerChanges \/ Rerun

Spec == Init /\ [][Next]_vars

\* Nothing main() does has to wait for anything but an answer.
FairSpec == Spec /\ WF_vars(Main)

-----------------------------------------------------------------------
(* Correctness.                                                              *)

AllSuites == Range(SqliteInOrder) \cup Range(PostgresSuites)

IsPrefixOf(s, t) == Len(s) <= Len(t) /\ \A n \in DOMAIN s : s[n] = t[n]

\* The types of the variables.
TypeOK ==
    /\ cfg \in Configs
    /\ server \in {"down", "starting", "ready"}
    /\ pc \in {"probe", "build", "setup", "run", "report", "write"} \cup Ended
    /\ pg_available \in BOOLEAN
    /\ IsPrefixOf(built, SqliteInOrder \o PostgresSuites)
    /\ connected \subseteq {s \in Range(built) : IsOnServer(s)}
    /\ IsPrefixOf(results, built)
    /\ failure \in {"none", "postgres", "statement", "panic", "outside"}
    /\ answered \in BOOLEAN
    /\ report.whole \in BOOLEAN /\ Range(report.suites) \subseteq AllSuites
    /\ runs \in 0..MaxRuns /\ outages \in 0..MaxOutages
    /\ changes \in 0..MaxChanges

\* A whole RESULTS.md compares all suites of an engine or none of it: a run
\* that broke off, of this process or of an earlier one, never shows as a
\* report with suites missing.  After a successful run PostgreSQL is in it if
\* and only if the probe found it.
ReportIsComplete ==
    /\ report.whole =>
          report.suites \in {SqliteInOrder, SqliteInOrder \o PostgresSuites}
    /\ pc = "ok" => report = [suites |-> Wanted, whole |-> TRUE]

\* RESULTS.md of an earlier run is touched only when all suites of a new one
\* have results: a run that fails for want of the server, or is killed while
\* it measures, leaves it as it was.
EarlierReportKept ==
    [][report' # report => results = Wanted /\ built = Wanted]_vars

\* If the probe does not find PostgreSQL, the run does not depend on it any
\* more, whatever the server does afterwards, and not on what only PostgreSQL
\* refuses, however many iterations are asked for.
SqliteOnlyIfNotFound == failure \in {"postgres", "statement"} => pg_available

\* "If Postgres isn't reachable the suite automatically runs SQLite-only"
\* (README 85): a run does not fail for want of a PostgreSQL server that could
\* not be reached at any time of the run.
SqliteOnlyIfUnreachable == failure = "postgres" => answered

\* Every operation is timed, and if PostgreSQL takes part its sequences start
\* above the victims: the other BenchConfigs cannot be reported.
Reportable ==
    /\ ~NoSamples
    /\ server = "ready" => DELETE_BASE + cfg.warmup + cfg.iters <= SeqStart

\* Once nobody kills it and the server stays as it is, ready or down, a run
\* with a reportable configuration ends with its report written, whatever the
\* runs before it left; on SQLite alone any number of iterations but 0 is one.
RunsToReport ==
    (pc = "probe" /\ server # "starting" /\ outages = MaxOutages
     /\ changes = MaxChanges /\ Reportable) ~> (pc = "ok")

=======================================================================
