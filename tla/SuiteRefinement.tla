------------------------ MODULE SuiteRefinement ------------------------
(* SuiteRun implements SuiteContract: every suite of the catalogue, seeding  *)
(* statement by statement on whatever is in its database, and inserting rows *)
(* one by one inside a transaction, looks to main() like the contract.       *)
EXTENDS SuiteRun

CONSTANT Ids

\* A process that ended for a cause within the program is in a phase the
\* contract does not know.
ContractPhase ==
    CASE stage \in SetupStages            -> "setup"
      [] stage = "ops"                    -> "ops"
      [] stage \in {"teardown", "finished"} -> "done"
      [] stage = "aborted"                ->
             IF failure = "outside" THEN "dead" ELSE "failed"

\* Nobody sees the tables while they are set up or after the process ended.
Visible(table) ==
    IF stage \in {"ops", "teardown", "finished"} THEN table ELSE NoRows

Contract ==
    INSTANCE SuiteContract WITH
        phase <- ContractPhase,
        read_only <- suite.read_only,
        op <- IF stage = "ops" THEN op + 1 ELSE 1,
        calls <- IF stage = "ops" THEN k ELSE 0,
        users <- Visible(users),
        posts <- Visible(posts)

\* The suites keep the contract of the trait (mod.rs 33-61): setup() appears
\* to happen at once and to end in the seed whatever it found, a transaction
\* is seen only when it commits, no call fails.
KeepsContract == Contract!Spec

\* A suite gets done unless something outside ends it.
GetsDone == Contract!Progress

=======================================================================
