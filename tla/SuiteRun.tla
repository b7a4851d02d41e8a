--------------------------- MODULE SuiteRun ---------------------------
(* The life of one benchmark database: the processes that come to it one     *)
(* after another, and in each of them the suites that main() runs on it.     *)
(* A suite executes ddl() and seed_sql() in setup(), then the seven          *)
(* operations in the order of run_suite(), then teardown().  Between any two *)
(* steps something outside the program (a signal, a full disk, the server    *)
(* going away) may end the process; what was committed stays, and a later    *)
(* process starts over on it.                                                *)
(*                                                                           *)
(* A step is one statement the database commits or refuses.  A refused       *)
(* statement, or an ensure!/bail! of the suite, is an Err that every caller  *)
(* up to main() passes on with `?`: it ends the process.                     *)
EXTENDS Suites, Integers, Sequences, FiniteSets

CONSTANTS
    SEED_USERS, SEED_POSTS, DELETE_BASE, PAGE_SIZE, BULK_SIZE,
    Chunk,         \* rows per seeding statement
    SeqStart,      \* where setval() puts the PostgreSQL sequences
    U32,           \* number of values of a u32
    Configs,       \* the BenchConfigs a process may be started with
    RunnableSuites,
    SqliteForeignKeys, \* SQLite connections enforce foreign keys by default
    MaxRuns,       \* bound: suites and processes started after the first
    MaxOutages     \* bound: interruptions from outside

ASSUME SizesAssumption ==
    /\ SEED_USERS \in Nat \ {0}
    /\ SEED_POSTS \in Nat
    /\ PAGE_SIZE \in Nat
    /\ BULK_SIZE \in Nat \ {0}
    /\ Chunk \in Nat \ {0}

ASSUME IdsAssumption ==
    /\ DELETE_BASE \in Nat
    /\ SEED_USERS < DELETE_BASE
    /\ SeqStart \in Nat
    /\ U32 \in Nat
    /\ DELETE_BASE < U32 \div 2

ASSUME ConfigsAssumption ==
    Configs \subseteq [warmup : Nat, iters : Nat, bulk_iters : Nat,
                       read_iters : Nat]

\* MemorySuite gives an in-memory suite the tables its statements reach: those
\* of the file, then those in memory.
ASSUME SuitesAssumption ==
    RunnableSuites \subseteq
        SqliteSuites \cup MemorySuites
            \cup {PostgresSuites[n] : n \in DOMAIN PostgresSuites}

ASSUME BuildAssumption == SqliteForeignKeys \in BOOLEAN

ASSUME BoundsAssumption == MaxRuns \in Nat /\ MaxOutages \in Nat

VARIABLES
    suite,         \* the suite that is running
    cfg,           \* the BenchConfig of the process
    stage,         \* how far main() is with the suite
    op,            \* index into OPS
    k,             \* statements, rows or calls of the current loop done so far
    tables,        \* tables that exist
    users,         \* committed rows of users, by id
    posts,         \* committed rows of posts, by id
    users_seq,     \* users_id_seq: the last id it gave out (PostgreSQL)
    posts_seq,     \* posts_id_seq
    row,           \* rows the open transaction has inserted, or NoTx
    pending,       \* rows of users written by the open transaction
    failure,       \* why the process ended early
    runs, outages  \* how much of the bounds is used

vars == <<suite, cfg, stage, op, k, tables, users, posts, users_seq, posts_seq,
          row, pending, failure, runs, outages>>

db == <<tables, users, posts, users_seq, posts_seq>>
tx == <<row, pending>>
env == <<suite, cfg, runs, outages>>

-----------------------------------------------------------------------
(* Data.  A name is kept as its kind: the number in it follows from the id.  *)

UserRow == [name : {"user", "victim", "new_user", "bulk_user", "renamed"},
            active : BOOLEAN]
PostRow == [user_id : Int, published : BOOLEAN]

NoRows == [id \in {} |-> 0]

\* No transaction is open.
NoTx == -1

Overlay(table, rows) ==
    [id \in DOMAIN table \cup DOMAIN rows |->
        IF id \in DOMAIN rows THEN rows[id] ELSE table[id]]

Without(table, ids) == [id \in DOMAIN table \ ids |-> table[id]]

Lesser(a, b) == IF a <= b THEN a ELSE b

IsPostgres == suite.dialect = "Postgres"

\* No suite sets PRAGMA foreign_keys: on SQLite the build decides, or a driver
\* that sets it for every connection.
EnforcesForeignKeys == IsPostgres \/ SqliteForeignKeys

\* u32 addition in the release build; the operands are below 2^32.
Wrap32(x) == IF x >= U32 THEN x - U32 ELSE x

\* `x as i32` of a u32.
AsI32(x) == IF x >= U32 \div 2 THEN x - U32 ELSE x

\* The id the next default insert gets is one above this: the sequence on
\* PostgreSQL, the largest rowid on SQLite.
LastId(ids, seq) ==
    IF IsPostgres THEN seq
    ELSE IF ids = {} THEN 0
    ELSE CHOOSE m \in ids : \A x \in ids : x <= m

-----------------------------------------------------------------------
(* The seed data of seed_sql(), and the target ids of the operations.        *)

DeleteRows == Wrap32(cfg.warmup + cfg.iters)

\* The id of the j-th row that seed_sql() puts into users.
SeedUserId(j) ==
    IF j <= SEED_USERS THEN j ELSE Wrap32(DELETE_BASE + (j - SEED_USERS))

SeedUser(id) ==
    IF id \in 1..SEED_USERS
    THEN [name |-> "user", active |-> id % 4 # 0]
    ELSE [name |-> "victim", active |-> TRUE]

SeedPost(i) == [user_id |-> 1 + (i % SEED_USERS), published |-> i % 3 # 0]

target_id_SkipsLast(i) ==
    1 + (i % (IF SEED_USERS = 1 THEN 1 ELSE SEED_USERS - 1))

target_id(i) == AsI32(1 + (i % SEED_USERS))

delete_id_OffByOne(i) == AsI32(Wrap32(DELETE_BASE + 2 + i))

delete_id(i) == AsI32(Wrap32(DELETE_BASE + 1 + i))

-----------------------------------------------------------------------
(* The loops.                                                                *)

INSERT_ONE == 0
INSERT_BULK == 1
FETCH_BY_ID == 2
FETCH_PAGE == 3
JOIN_QUERY == 4
UPDATE_ONE == 5
DELETE_ONE == 6

\* The entries of run_suite()'s vec![] without `if writes`.
UnguardedOps == {FETCH_BY_ID, FETCH_PAGE, JOIN_QUERY}

\* The calls run_suite() has run_op() make of operation o of a suite that may
\* write, warmup and timed calls together.
AllCalls(o) ==
    IF o = INSERT_BULK
    THEN Lesser(cfg.warmup, 5) + cfg.bulk_iters
    ELSE IF o \in {FETCH_PAGE, JOIN_QUERY}
    THEN cfg.warmup + cfg.read_iters
    ELSE cfg.warmup + cfg.iters

Calls_WritesToReadOnly(o) == AllCalls(o)

Calls(o) == IF suite.read_only /\ o \notin UnguardedOps THEN 0 ELSE AllCalls(o)

\* The index run_op() passes to the call that is due: 0 .. warmup-1, then
\* warmup + i.
CallIndex == Wrap32(k)

Ddl_UsersDroppedFirst ==
    <<"DropUsers", "DropPosts", "CreateUsers", "CreatePosts">>

Ddl_WithoutDrops == <<"CreateUsers", "CreatePosts">>

\* The statements of ddl(); CREATE INDEX belongs to the last.
Ddl == <<"DropPosts", "DropUsers", "CreateUsers", "CreatePosts">>

LoopLength ==
    CASE stage = "ddl"    -> Len(Ddl)
      [] stage = "users"  -> SEED_USERS + DeleteRows
      [] stage = "posts"  -> SEED_POSTS
      [] stage = "setval" -> IF IsPostgres THEN 2 ELSE 0
      [] stage = "ops"    -> Calls(op)
      [] OTHER            -> 0

SetupStages == {"ddl", "users", "posts", "setval"}
Working == SetupStages \cup {"ops", "teardown"}

StageAfter(s) ==
    CASE s = "ddl"    -> "users"
      [] s = "users"  -> "posts"
      [] s = "posts"  -> "setval"
      [] s = "setval" -> "ops"

-----------------------------------------------------------------------
(* How a step ends: with Ok, and the loop goes on at `next`, or with an Err  *)
(* of the database ("statement") or of the suite ("suite").                  *)
Settle(ok, cause, next) ==
    /\ stage' = IF ok THEN stage ELSE "aborted"
    /\ failure' = IF ok THEN failure ELSE cause
    /\ k' = IF ok THEN next ELSE k
    /\ op' = op

-----------------------------------------------------------------------
(* setup(): ddl().  SQLite commits each statement of the batch by itself;    *)
(* PostgreSQL runs the batch as one implicit transaction.                    *)

AtDdl(statement) ==
    /\ stage = "ddl"
    /\ ~IsPostgres
    /\ k < Len(Ddl)
    /\ Ddl[k + 1] = statement

DropPosts ==
    /\ AtDdl("DropPosts")
    /\ tables' = tables \ {"posts"}
    /\ posts' = NoRows
    /\ Settle(TRUE, "", k + 1)
    /\ UNCHANGED <<users, users_seq, posts_seq, tx, env>>

\* Dropping users deletes its rows first, which rows of posts may forbid.
DropUsers ==
    /\ AtDdl("DropUsers")
    /\ LET ok == EnforcesForeignKeys =>
                 \A p \in DOMAIN posts : posts[p].user_id \notin DOMAIN users
       IN  /\ tables' = IF ok THEN tables \ {"users"} ELSE tables
           /\ users' = IF ok THEN NoRows ELSE users
           /\ Settle(ok, "statement", k + 1)
    /\ UNCHANGED <<posts, users_seq, posts_seq, tx, env>>

CreateUsers ==
    /\ AtDdl("CreateUsers")
    /\ LET ok == "users" \notin tables
       IN  /\ tables' = tables \cup {"users"}
           /\ Settle(ok, "statement", k + 1)
    /\ UNCHANGED <<users, posts, users_seq, posts_seq, tx, env>>

CreatePosts ==
    /\ AtDdl("CreatePosts")
    /\ LET ok == "posts" \notin tables
       IN  /\ tables' = tables \cup {"posts"}
           /\ Settle(ok, "statement", k + 1)
    /\ UNCHANGED <<users, posts, users_seq, posts_seq, tx, env>>

\* SERIAL columns bring new sequences with them.
DdlBatch ==
    /\ stage = "ddl"
    /\ IsPostgres
    /\ k = 0
    /\ tables' = {"users", "posts"}
    /\ users' = NoRows
    /\ posts' = NoRows
    /\ users_seq' = 0
    /\ posts_seq' = 0
    /\ Settle(TRUE, "", Len(Ddl))
    /\ UNCHANGED <<tx, env>>

-----------------------------------------------------------------------
(* setup(): the statements of seed_sql(), one chunk of rows each.            *)

ChunkEnd_DropsLastPartial == Lesser(k + Chunk, LoopLength - (LoopLength % Chunk))

ChunkEnd == Lesser(k + Chunk, LoopLength)

\* Explicit ids: a duplicate primary key refuses the whole statement.
SeedUsers ==
    /\ stage = "users"
    /\ k < LoopLength
    /\ LET batch == (k + 1)..ChunkEnd
           ids == {SeedUserId(j) : j \in batch}
           ok == /\ ids \cap DOMAIN users = {}
                 /\ \A a, b \in batch : SeedUserId(a) = SeedUserId(b) => a = b
       IN  /\ users' = IF ok THEN Overlay(users, [id \in ids |-> SeedUser(id)])
                       ELSE users
           /\ Settle(ok, "statement", ChunkEnd)
    /\ UNCHANGED <<tables, posts, users_seq, posts_seq, tx, env>>

\* Ids by default; every post must refer to a user.
SeedPosts ==
    /\ stage = "posts"
    /\ k < LoopLength
    /\ LET last == LastId(DOMAIN posts, posts_seq)
           new == [p \in (last + 1)..(last + ChunkEnd - k) |->
                       SeedPost(k + p - last)]
           ok == /\ DOMAIN new \cap DOMAIN posts = {}
                 /\ EnforcesForeignKeys =>
                    \A p \in DOMAIN new : new[p].user_id \in DOMAIN users
       IN  /\ posts' = IF ok THEN Overlay(posts, new) ELSE posts
           /\ posts_seq' = IF IsPostgres THEN last + ChunkEnd - k
                           ELSE posts_seq
           /\ Settle(ok, "statement", ChunkEnd)
    /\ UNCHANGED <<tables, users, users_seq, tx, env>>

SetvalUsers_Missing ==
    /\ stage = "setval"
    /\ k < LoopLength
    /\ k = 0
    /\ Settle(TRUE, "", 1)
    /\ UNCHANGED <<db, tx, env>>

SetvalUsers ==
    /\ stage = "setval"
    /\ k < LoopLength
    /\ k = 0
    /\ users_seq' = SeqStart
    /\ Settle(TRUE, "", 1)
    /\ UNCHANGED <<tables, users, posts, posts_seq, tx, env>>

SetvalPosts ==
    /\ stage = "setval"
    /\ k < LoopLength
    /\ k = 1
    /\ posts_seq' = SeqStart
    /\ Settle(TRUE, "", 2)
    /\ UNCHANGED <<tables, users, posts, users_seq, tx, env>>

\* The loop of a seeding stage is over.  After the last one setup() prepares
\* statements (tokio-postgres) or reopens the file (read-only): the database
\* stays as it is.
EndOfSetupLoop ==
    /\ stage \in SetupStages
    /\ k = LoopLength
    /\ stage' = StageAfter(stage)
    /\ k' = 0
    /\ UNCHANGED <<op, failure, db, tx, env>>

-----------------------------------------------------------------------
(* run_suite().                                                              *)

AtCall(o) ==
    /\ stage = "ops"
    /\ op = o
    /\ k < Calls(o)

InsertOne ==
    /\ AtCall(INSERT_ONE)
    /\ LET id == LastId(DOMAIN users, users_seq) + 1
           ok == ~suite.read_only /\ id \notin DOMAIN users
           new == [x \in {id} |-> [name |-> "new_user", active |-> TRUE]]
       IN  /\ users' = IF ok THEN Overlay(users, new) ELSE users
           /\ users_seq' = IF IsPostgres THEN id ELSE users_seq
           /\ Settle(ok, IF suite.read_only THEN "suite" ELSE "statement", k + 1)
    /\ UNCHANGED <<tables, posts, posts_seq, tx, env>>

BulkUser == [name |-> "bulk_user", active |-> TRUE]

\* insert_bulk() as one statement.  A refused one has drawn ids too: all of
\* them here, which nobody can tell, since the process ends and the next
\* ddl() brings new sequences.
InsertBulk ==
    /\ AtCall(INSERT_BULK)
    /\ suite.bulk = "statement"
    /\ LET last == LastId(DOMAIN users, users_seq)
           ids == (last + 1)..(last + BULK_SIZE)
           ok == ~suite.read_only /\ ids \cap DOMAIN users = {}
       IN  /\ users' = IF ok THEN Overlay(users, [id \in ids |-> BulkUser])
                       ELSE users
           /\ users_seq' = IF IsPostgres THEN last + BULK_SIZE ELSE users_seq
           /\ Settle(ok, IF suite.read_only THEN "suite" ELSE "statement", k + 1)
    /\ UNCHANGED <<tables, posts, posts_seq, tx, env>>

\* insert_bulk() row by row inside a transaction.
BulkBegin ==
    /\ AtCall(INSERT_BULK)
    /\ suite.bulk = "rows"
    /\ row = NoTx
    /\ row' = 0
    /\ pending' = NoRows
    /\ UNCHANGED <<stage, op, k, failure, db, env>>

BulkRow_OneTooMany ==
    /\ AtCall(INSERT_BULK)
    /\ row \in 0..BULK_SIZE
    /\ row' = row + 1
    /\ UNCHANGED <<stage, op, k, failure, db, pending, env>>

BulkRow_Autocommits ==
    /\ AtCall(INSERT_BULK)
    /\ row \in 0..(BULK_SIZE - 1)
    /\ LET id == LastId(DOMAIN users, users_seq) + 1
       IN  users' = Overlay(users, [x \in {id} |-> BulkUser])
    /\ row' = row + 1
    /\ UNCHANGED <<stage, op, k, failure, tables, posts, users_seq, posts_seq,
                   pending, env>>

\* No suite inserts row by row into PostgreSQL: no sequence is involved.
BulkRow ==
    /\ AtCall(INSERT_BULK)
    /\ row \in 0..(BULK_SIZE - 1)
    /\ LET seen == DOMAIN users \cup DOMAIN pending
           id == LastId(seen, users_seq) + 1
           ok == id \notin seen
       IN  /\ pending' = IF ok THEN Overlay(pending, [x \in {id} |-> BulkUser])
                         ELSE NoRows
           /\ row' = IF ok THEN row + 1 ELSE NoTx
           /\ Settle(ok, "statement", k)
    /\ UNCHANGED <<db, env>>

BulkCommit ==
    /\ AtCall(INSERT_BULK)
    /\ row = BULK_SIZE
    /\ users' = Overlay(users, pending)
    /\ row' = NoTx
    /\ pending' = NoRows
    /\ Settle(TRUE, "", k + 1)
    /\ UNCHANGED <<tables, posts, users_seq, posts_seq, env>>

FetchById ==
    /\ AtCall(FETCH_BY_ID)
    /\ Settle(target_id(CallIndex) \in DOMAIN users, "statement", k + 1)
    /\ UNCHANGED <<db, tx, env>>

\* LIMIT PAGE_SIZE yields a full page iff that many rows qualify.
ActiveUsers == {id \in DOMAIN users : users[id].active}

FetchPage ==
    /\ AtCall(FETCH_PAGE)
    /\ Settle(Cardinality(ActiveUsers) >= PAGE_SIZE, "suite", k + 1)
    /\ UNCHANGED <<db, tx, env>>

JoinedPosts ==
    {p \in DOMAIN posts : posts[p].published /\ posts[p].user_id \in ActiveUsers}

JoinQuery ==
    /\ AtCall(JOIN_QUERY)
    /\ Settle(Cardinality(JoinedPosts) >= PAGE_SIZE, "suite", k + 1)
    /\ UNCHANGED <<db, tx, env>>

UpdateOne ==
    /\ AtCall(UPDATE_ONE)
    /\ LET id == target_id(CallIndex)
           ok == ~suite.read_only /\ id \in DOMAIN users
       IN  /\ users' = IF ok THEN [users EXCEPT ![id].name = "renamed"] ELSE users
           /\ Settle(ok, "suite", k + 1)
    /\ UNCHANGED <<tables, posts, users_seq, posts_seq, tx, env>>

\* A post that refers to the row makes the database refuse; a missing row is
\* n = 0 and fails the ensure!.
DeleteOne ==
    /\ AtCall(DELETE_ONE)
    /\ LET id == delete_id(CallIndex)
           free == EnforcesForeignKeys =>
                       \A p \in DOMAIN posts : posts[p].user_id # id
           ok == ~suite.read_only /\ id \in DOMAIN users /\ free
       IN  /\ users' = IF ok THEN Without(users, {id}) ELSE users
           /\ Settle(ok, IF free THEN "suite" ELSE "statement", k + 1)
    /\ UNCHANGED <<tables, posts, users_seq, posts_seq, tx, env>>

\* run_op() returned; the next entry of the vec![] in run_suite() is due.
EndOfOp ==
    /\ stage = "ops"
    /\ k = LoopLength
    /\ IF op = DELETE_ONE
       THEN stage' = "teardown" /\ op' = op
       ELSE stage' = stage /\ op' = op + 1
    /\ k' = 0
    /\ UNCHANGED <<failure, db, tx, env>>

\* Closes the connection at most.
Teardown ==
    /\ stage = "teardown"
    /\ stage' = "finished"
    /\ UNCHANGED <<op, k, failure, db, tx, env>>

-----------------------------------------------------------------------
(* The process around the suite, and what comes from outside.                *)

\* The suites that can be the first of a process on this database: a SQLite
\* suite has its file to itself, the PostgreSQL suites come in their order.
RunsBefore(a, b) ==
    \E m, n \in DOMAIN PostgresSuites :
        m < n /\ PostgresSuites[m] = a /\ PostgresSuites[n] = b

FirstSuites ==
    {s \in RunnableSuites : \A t \in RunnableSuites : ~RunsBefore(t, s)}

Idle ==
    /\ stage' = "ddl"
    /\ op' = INSERT_ONE
    /\ k' = 0
    /\ failure' = "none"
    /\ UNCHANGED tx

\* main() turns to the next suite, which finds in the PostgreSQL database
\* what the one before it left there.
NextSuite ==
    /\ stage = "finished"
    /\ runs < MaxRuns
    /\ suite' \in {s \in RunnableSuites : RunsBefore(suite, s)}
    /\ Idle
    /\ runs' = runs + 1
    /\ UNCHANGED <<db, cfg, outages>>

\* main() in a new process, perhaps with another BENCH_ITERS.  The error of
\* remove_file() is ignored: the old database file may survive.
Rerun ==
    /\ stage \in {"finished", "aborted"}
    /\ runs < MaxRuns
    /\ cfg' \in Configs
    /\ Idle
    /\ runs' = runs + 1
    /\ UNCHANGED outages
    /\ IF IsPostgres
       THEN /\ suite' \in FirstSuites
            /\ suite'.storage = "server"
            /\ UNCHANGED db
       ELSE /\ suite' = suite
            /\ \E removed \in BOOLEAN :
                  IF removed THEN /\ tables' = {}
                                  /\ users' = NoRows
                                  /\ posts' = NoRows
                             ELSE UNCHANGED <<tables, users, posts>>
            /\ UNCHANGED <<users_seq, posts_seq>>

\* The process or its database connection ends, with the process then
\* exiting; the database rolls an open transaction back.
Outage ==
    /\ stage \in Working
    /\ outages < MaxOutages
    /\ outages' = outages + 1
    /\ stage' = "aborted"
    /\ failure' = "outside"
    /\ row' = NoTx
    /\ pending' = NoRows
    /\ UNCHANGED <<op, k, db, suite, cfg, runs>>

-----------------------------------------------------------------------

Init ==
    /\ suite \in FirstSuites
    /\ cfg \in Configs
    /\ stage = "ddl"
    /\ op = INSERT_ONE
    /\ k = 0
    /\ tables = {}
    /\ users = NoRows
    /\ posts = NoRows
    /\ users_seq = 0
    /\ posts_seq = 0
    /\ row = NoTx
    /\ pending = NoRows
    /\ failure = "none"
    /\ runs = 0
    /\ outages = 0

Setup ==
    \/ DropPosts \/ DropUsers \/ CreateUsers \/ CreatePosts \/ DdlBatch
    \/ SeedUsers \/ SeedPosts \/ SetvalUsers \/ SetvalPosts
    \/ EndOfSetupLoop

RunSuite ==
    \/ InsertOne
    \/ InsertBulk \/ BulkBegin \/ BulkRow \/ BulkCommit
    \/ FetchById \/ FetchPage \/ JoinQuery
    \/ UpdateOne \/ DeleteOne
    \/ EndOfOp

\* What the program does by itself.
Program == Setup \/ RunSuite \/ Teardown

Next == Program \/ NextSuite \/ Rerun \/ Outage

Spec == Init /\ [][Next]_vars

\* Statements are answered (no suite sets a timeout), and main() has nothing
\* to wait for but the answer: a step of the program that can be taken is.
FairSpec == Spec /\ WF_vars(Program)

-----------------------------------------------------------------------
(* Correctness.                                                              *)

\* The types of the variables.
TypeOK ==
    /\ suite \in RunnableSuites
    /\ cfg \in Configs
    /\ stage \in Working \cup {"finished", "aborted"}
    /\ op \in INSERT_ONE..DELETE_ONE
    /\ k \in Nat
    /\ tables \subseteq {"users", "posts"}
    /\ DOMAIN users \subseteq Nat /\ users \in [DOMAIN users -> UserRow]
    /\ DOMAIN posts \subseteq Nat /\ posts \in [DOMAIN posts -> PostRow]
    /\ users_seq \in Nat /\ posts_seq \in Nat
    /\ row \in NoTx..BULK_SIZE
    /\ DOMAIN pending \subseteq Nat /\ pending \in [DOMAIN pending -> UserRow]
    /\ failure \in {"none", "outside", "statement", "suite"}
    /\ runs \in 0..MaxRuns
    /\ outages \in 0..MaxOutages

\* What the sizes of mod.rs and a BenchConfig must satisfy for the run to
\* make sense: a page of seeded rows exists, no id wraps around, and posts and
\* victims end at or below the value the sequences are set to.
SeededActive == {id \in 1..SEED_USERS : id % 4 # 0}

SeededJoin ==
    {p \in 1..SEED_POSTS :
        p % 3 # 0 /\ 1 + (p % SEED_USERS) \in SeededActive}

SafeConfig(c) ==
    /\ DELETE_BASE + c.warmup + c.iters < U32 \div 2
    /\ DELETE_BASE + c.warmup + c.iters <= SeqStart

SafeSizes ==
    /\ SEED_POSTS <= SeqStart
    /\ PAGE_SIZE <= Cardinality(SeededActive)
    /\ PAGE_SIZE <= Cardinality(SeededJoin)
    /\ \A c \in Configs : SafeConfig(c)

\* Every post refers to a user, whatever was interrupted where, also when the
\* database does not see to it: the order in which ddl() drops and seed_sql()
\* fills the tables, and the ids that are deleted, leave nothing dangling.
ReferentialIntegrity ==
    \A p \in DOMAIN posts : posts[p].user_id \in DOMAIN users

\* No statement is refused and no ensure!/bail! fires, whatever an earlier
\* suite, process or interruption left in the database: a run ends early for
\* a cause outside the program or not at all.  (mod.rs 27-28: a delete's row
\* "is guaranteed to exist"; 58-60 of main.rs: read-only suites get no write.)
OnlyOutsideFailures == failure \in {"none", "outside"}

\* "Every suite starts from byte-identical state" (mod.rs 127-128): when the
\* first operation is due, the database holds the seed data and nothing else,
\* and the sequences are past every id in use.
SeededIdentically ==
    stage = "ops" /\ op = INSERT_ONE /\ k = 0 =>
        /\ users = [id \in 1..SEED_USERS \cup
                           {DELETE_BASE + i : i \in 1..(cfg.warmup + cfg.iters)}
                    |-> SeedUser(id)]
        /\ posts = [p \in 1..SEED_POSTS |-> SeedPost(p)]
        /\ IsPostgres => /\ \A id \in DOMAIN users : id <= users_seq
                         /\ \A p \in DOMAIN posts : p <= posts_seq

Named(name) == {id \in DOMAIN users : users[id].name = name}

\* A bulk insert is visible as a whole or not at all, also when the process
\* ends in the middle of it.
BulkAllOrNothing == Cardinality(Named("bulk_user")) % BULK_SIZE = 0

\* A finished suite has done exactly the work it was timed for: each call of
\* insert_one and insert_bulk left its rows, the calls of delete_one took all
\* victims and no other row, and the updates reached every user they cycle
\* through.  A read-only suite has changed nothing.
FinalContents ==
    stage = "finished" =>
        LET n == cfg.warmup + cfg.iters
            bulks == Lesser(cfg.warmup, 5) + cfg.bulk_iters
        IN  IF suite.read_only
            THEN /\ Named("user") = 1..SEED_USERS
                 /\ Cardinality(Named("victim")) = n
                 /\ Cardinality(DOMAIN users) = SEED_USERS + n
            ELSE /\ Cardinality(Named("new_user")) = n
                 /\ Cardinality(Named("bulk_user")) = bulks * BULK_SIZE
                 /\ Named("victim") = {}
                 /\ Named("renamed") =
                        {1 + (i % SEED_USERS) : i \in 0..(n - 1)}
                 /\ Named("user") \cup Named("renamed") = 1..SEED_USERS

\* A default insert is never refused: the sequences are moved "past every
\* seeded id so later default inserts cannot collide" (mod.rs 174-175).
DefaultInsertsDoNotCollide ==
    failure = "statement" => op \notin {INSERT_ONE, INSERT_BULK}

\* While the operations run, the only rows that disappear are victims: the
\* deletes never eat into the seeded users or into the rows just inserted,
\* although on SQLite those are numbered on right after the victims.
OnlyVictimsVanish ==
    [][stage = "ops" =>
         \A id \in DOMAIN users \ DOMAIN users' : users[id].name = "victim"]_vars

\* Once nothing interrupts any more, a suite that starts finishes, on
\* whatever database the interruptions before it left.
RecoversAfterOutage ==
    (stage = "ddl" /\ outages = MaxOutages) ~> (stage = "finished")

=======================================================================
