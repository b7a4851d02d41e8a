--------------------------- MODULE MCReport ---------------------------
(* Small instances of Report for TLC, with the seven operations.             *)
EXTENDS Report

Writer(e) == [engine |-> e, read_only |-> FALSE]
Reader == [engine |-> "SQLite", read_only |-> TRUE]

\* Without and with PostgreSQL; three suites in one ranking, or one alone.
SmallLineups ==
    {<<Writer("SQLite"), Reader, Writer("SQLite")>>,
     <<Writer("SQLite"), Reader, Writer("PostgreSQL")>>}

\* The suites differ in a write, in a read timed BENCH_ITERS times, and in a
\* read that is not.
SmallRows ==
    {[o \in Ops |-> CASE o = 1 -> write [] o = 3 -> byId [] o = 4 -> page
                      [] OTHER -> 1] :
        write \in 1..3, byId \in 1..3, page \in 1..3}

=======================================================================
