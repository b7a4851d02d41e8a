-------------------------- MODULE MemorySuite --------------------------
(* The two in-memory suites.  setup() builds and seeds a database file like  *)
(* every suite, then copies it into a :memory: database; the operations run  *)
(* on the copy.  rusqlite copies pages with the backup API and then closes   *)
(* the file; Diesel has closed it, creates the tables in memory, attaches    *)
(* the file and copies table by table.                                       *)
(*                                                                           *)
(* Two instances of SuiteRefinement share the control of the suite: Disk     *)
(* with the tables of the file, for the statements of ddl() and seed_sql(),  *)
(* and Mem with the tables in memory, for everything after the load.  The    *)
(* load takes the place of the stage "setval", which SQLite does not need.   *)
EXTENDS Suites, Integers, Sequences, FiniteSets

CONSTANTS
    SEED_USERS, SEED_POSTS, DELETE_BASE, PAGE_SIZE, BULK_SIZE, Chunk,
    SeqStart, U32, Configs, SqliteForeignKeys,
    Ids,       \* the ids a database may give to a row
    MaxRuns,   \* bound: processes started after the first
    MaxOutages \* bound: interruptions from outside

\* As in SuiteRun.
ASSUME SizesAssumption ==
    /\ SEED_USERS \in Nat \ {0}
    /\ SEED_POSTS \in Nat
    /\ PAGE_SIZE \in Nat
    /\ BULK_SIZE \in Nat \ {0}
    /\ Chunk \in Nat \ {0}

ASSUME IdsAssumption ==
    /\ DELETE_BASE \in Nat
    /\ SEED_USERS < DELETE_BASE
    /\ SeqStart \in Nat
    /\ U32 \in Nat
    /\ DELETE_BASE < U32 \div 2

ASSUME ConfigsAssumption ==
    Configs \subseteq [warmup : Nat, iters : Nat, bulk_iters : Nat,
                       read_iters : Nat]

ASSUME BuildAssumption == SqliteForeignKeys \in BOOLEAN

ASSUME BoundsAssumption == MaxRuns \in Nat /\ MaxOutages \in Nat

VARIABLES
    suite, cfg, stage, op, k, row, pending, failure, runs, outages, \* as in SuiteRun
    disk_tables, disk_users, disk_posts,  \* committed in the file
    mem_tables, mem_users, mem_posts,     \* committed in memory
    loaded                                \* steps of the load done

control == <<suite, cfg, stage, op, k, row, pending, failure, runs, outages>>
disk == <<disk_tables, disk_users, disk_posts>>
mem == <<mem_tables, mem_users, mem_posts>>
vars == <<control, disk, mem, loaded>>

Disk ==
    INSTANCE SuiteRefinement WITH
        RunnableSuites <- MemorySuites, users_seq <- 0, posts_seq <- 0,
        tables <- disk_tables, users <- disk_users, posts <- disk_posts

Mem ==
    INSTANCE SuiteRefinement WITH
        RunnableSuites <- MemorySuites, users_seq <- 0, posts_seq <- 0,
        tables <- mem_tables, users <- mem_users, posts <- mem_posts

-----------------------------------------------------------------------
(* The load.                                                                 *)

\* One step of the backup copies everything: nobody writes in between.
LoadSteps_BeforePosts ==
    IF suite = RusqliteSqliteMemory
    THEN <<"Backup">>
    ELSE <<"MemoryDdl", "CopyPosts", "CopyUsers">>

LoadSteps ==
    IF suite = RusqliteSqliteMemory
    THEN <<"Backup">>
    ELSE <<"MemoryDdl", "CopyUsers", "CopyPosts">>

LoadStep(step) ==
    /\ stage = "setval"
    /\ loaded < Len(LoadSteps)
    /\ LoadSteps[loaded + 1] = step
    /\ loaded' = loaded + 1
    /\ UNCHANGED <<suite, cfg, row, pending, runs, outages, disk>>

Backup ==
    /\ LoadStep("Backup")
    /\ mem_tables' = disk_tables
    /\ mem_users' = disk_users
    /\ mem_posts' = disk_posts
    /\ UNCHANGED <<stage, op, k, failure>>

\* The batch of ddl() on the empty database in memory.
MemoryDdl ==
    /\ LoadStep("MemoryDdl")
    /\ LET ok == mem_tables = {}
       IN  /\ mem_tables' = IF ok THEN {"users", "posts"} ELSE mem_tables
           /\ Disk!Settle(ok, "statement", k)
    /\ UNCHANGED <<mem_users, mem_posts>>

CopyUsers ==
    /\ LoadStep("CopyUsers")
    /\ LET ok == DOMAIN disk_users \cap DOMAIN mem_users = {}
       IN  /\ mem_users' = IF ok THEN Mem!Overlay(mem_users, disk_users)
                           ELSE mem_users
           /\ Disk!Settle(ok, "statement", k)
    /\ UNCHANGED <<mem_tables, mem_posts>>

CopyPosts ==
    /\ LoadStep("CopyPosts")
    /\ LET ok == /\ DOMAIN disk_posts \cap DOMAIN mem_posts = {}
                 /\ Mem!EnforcesForeignKeys =>
                    \A p \in DOMAIN disk_posts :
                        disk_posts[p].user_id \in DOMAIN mem_users
       IN  /\ mem_posts' = IF ok THEN Mem!Overlay(mem_posts, disk_posts)
                           ELSE mem_posts
           /\ Disk!Settle(ok, "statement", k)
    /\ UNCHANGED <<mem_tables, mem_users>>

-----------------------------------------------------------------------

\* ddl() and seed_sql() on the file.
SeedDisk ==
    /\ stage # "setval"
    /\ Disk!Setup
    /\ UNCHANGED <<mem, loaded>>

\* self.conn = Some(mem): from here on the file is not open.
UseMemory ==
    /\ stage = "setval"
    /\ loaded = Len(LoadSteps)
    /\ Mem!EndOfSetupLoop
    /\ UNCHANGED <<disk, loaded>>

Operate_OnFile ==
    /\ Disk!RunSuite
    /\ UNCHANGED <<mem, loaded>>

Operate ==
    /\ Mem!RunSuite
    /\ UNCHANGED <<disk, loaded>>

Finish ==
    /\ Mem!Teardown
    /\ UNCHANGED <<disk, loaded>>

Forget ==
    /\ mem_tables' = {}
    /\ mem_users' = Mem!NoRows
    /\ mem_posts' = Mem!NoRows
    /\ loaded' = 0

\* A new process: the file is there as the last one left it, or removed; the
\* database in memory went with the process.
Rerun ==
    /\ Disk!Rerun
    /\ Forget

Outage ==
    /\ Disk!Outage
    /\ Forget

Init ==
    /\ Disk!Init
    /\ mem_tables = {}
    /\ mem_users = Mem!NoRows
    /\ mem_posts = Mem!NoRows
    /\ loaded = 0

Program ==
    \/ SeedDisk
    \/ Backup \/ MemoryDdl \/ CopyUsers \/ CopyPosts
    \/ UseMemory \/ Operate \/ Finish

Next == Program \/ Rerun \/ Outage

Spec == Init /\ [][Next]_vars

\* As in SuiteRun: statements are answered.
FairSpec == Spec /\ WF_vars(Program)

-----------------------------------------------------------------------
(* Correctness.                                                              *)

\* The types of the variables, for both databases.
TypeOK ==
    /\ Disk!TypeOK
    /\ Mem!TypeOK
    /\ loaded \in 0..Len(LoadSteps)

\* The in-memory suites keep the contract of the trait like all others: the
\* copy the operations see is the whole seed, whatever the file held when the
\* process came to it, and no statement of the load is refused.
KeepsContract == Mem!KeepsContract

\* ... and get done unless something outside ends them.
GetsDone == Mem!GetsDone

\* The file ends up as "a deployed database" (rusqlite_sqlite_memory.rs 35-36)
\* and stays one: it holds exactly the seed, every victim included, while the
\* operations write, when the suite is done, and when the process has died
\* after its first operation, with all it wrote.
FileKeepsSeed ==
    (\/ stage \in {"ops", "teardown", "finished"}
     \/ stage = "aborted" /\ op # Disk!INSERT_ONE)
    => /\ disk_users =
              [id \in 1..SEED_USERS
                     \cup {DELETE_BASE + i : i \in 1..(cfg.warmup + cfg.iters)}
                  |-> Disk!SeedUser(id)]
       /\ disk_posts = [p \in 1..SEED_POSTS |-> Disk!SeedPost(p)]

=======================================================================
