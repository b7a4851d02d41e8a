---------------------- MODULE MemorySuite_proofs ----------------------
(* Proofs about MemorySuite, for every size, every BenchConfig and both      *)
(* suites, as long as SafeSizes holds.  The statements of an in-memory suite *)
(* reach the tables of the file up to the load and those in memory from      *)
(* there on: seen that way, the suite runs as SuiteRun says, and what is     *)
(* proved about SuiteRun holds of it.                                        *)
EXTENDS MemorySuite, FiniteSetTheorems, TLAPS

-----------------------------------------------------------------------
(* The suite as SuiteRun has it.                                             *)

\* From the load on, also for a process that a refused statement has ended
\* there (none is, as it turns out).
OnMemory ==
    \/ stage \in {"ops", "teardown", "finished"}
    \/ stage = "aborted" /\ failure # "outside" /\ loaded # 0

Users == IF OnMemory THEN mem_users ELSE disk_users

Posts == IF OnMemory THEN mem_posts ELSE disk_posts

\* The tables that exist matter to ddl() only, which runs on the file.
V == INSTANCE SuiteRefinement_proofs WITH
        RunnableSuites <- MemorySuites, users_seq <- 0, posts_seq <- 0,
        tables <- disk_tables, users <- Users, posts <- Posts

-----------------------------------------------------------------------
(* The inductive invariant.                                                  *)

\* The file by itself.
DiskSound ==
    /\ disk_tables \subseteq {"users", "posts"}
    /\ DOMAIN disk_users \subseteq Nat
    /\ disk_users \in [DOMAIN disk_users -> Disk!UserRow]
    /\ DOMAIN disk_posts \subseteq Nat
    /\ disk_posts \in [DOMAIN disk_posts -> Disk!PostRow]
    /\ \A p \in DOMAIN disk_posts : disk_posts[p].user_id \in DOMAIN disk_users

\* The process died after the first operation.
DiedLate == stage = "aborted" /\ op # V!INSERT_ONE

\* What was copied stays in the file.
DiskSeeded ==
    OnMemory \/ DiedLate =>
        /\ disk_users = V!SeededUsers(SEED_USERS + V!Victims)
        /\ disk_posts = V!SeededPosts(SEED_POSTS)

NothingInMemory ==
    mem_tables = {} /\ mem_users = Mem!NoRows /\ mem_posts = Mem!NoRows

\* How far the load is, table by table.
LoadInv ==
    /\ loaded \in 0..Len(LoadSteps)
    /\ mem_tables \subseteq {"users", "posts"}
    /\ stage \in {"ddl", "users", "posts", "aborted"} =>
          loaded = 0 /\ NothingInMemory
    /\ stage \in {"ops", "teardown", "finished"} => loaded = Len(LoadSteps)
    /\ stage = "setval" =>
          /\ loaded = 0 => NothingInMemory
          /\ loaded = 1 /\ suite # RusqliteSqliteMemory =>
                mem_users = Mem!NoRows /\ mem_posts = Mem!NoRows
          /\ loaded = 2 => mem_users = disk_users /\ mem_posts = Mem!NoRows
          /\ loaded = Len(LoadSteps) =>
                mem_users = disk_users /\ mem_posts = disk_posts

\* SuiteRun's invariant of the tables that can be reached, and what it does
\* not know: the file behind the memory, the memory before it is used.
MInv == V!RInv /\ DiskSound /\ DiskSeeded /\ LoadInv

-----------------------------------------------------------------------
(* SuiteRun's assumptions hold of the in-memory suites.                      *)

\* The in-memory suites are suites the view's theorems are about.
LEMMA SuitesOk ==
    MemorySuites \subseteq
        V!SqliteSuites \cup V!MemorySuites
            \cup {V!PostgresSuites[n] : n \in DOMAIN V!PostgresSuites}
<1>1. V!MemorySuites = MemorySuites
  BY Zenon DEF V!MemorySuites, MemorySuites, V!RusqliteSqliteMemory,
               RusqliteSqliteMemory, V!DieselSqliteMemory, DieselSqliteMemory
<1> QED
  BY <1>1

-----------------------------------------------------------------------
(* The load.                                                                 *)

\* The load is one backup for rusqlite and three statements for Diesel.
LEMMA LoadStepsFacts ==
    /\ suite = RusqliteSqliteMemory => LoadSteps = <<"Backup">>
    /\ suite # RusqliteSqliteMemory =>
          LoadSteps = <<"MemoryDdl", "CopyUsers", "CopyPosts">>
    /\ Len(LoadSteps) \in {1, 3}
  BY DEF LoadSteps

-----------------------------------------------------------------------
(* A statement of ddl() or seed_sql() on the file is the statement of        *)
(* SuiteRun.                                                                 *)

SameOnFile ==
    /\ Users = disk_users /\ Users' = disk_users'
    /\ Posts = disk_posts /\ Posts' = disk_posts'

\* While the file is set up the view's tables are the file's: a statement of
\* ddl on the one is that statement on the other.
LEMMA DdlOnFile ==
    ASSUME SameOnFile
    PROVE  /\ Disk!DropPosts => V!DropPosts
           /\ Disk!DropUsers => V!DropUsers
           /\ Disk!CreateUsers => V!CreateUsers
           /\ Disk!CreatePosts => V!CreatePosts
           /\ Disk!DdlBatch => V!DdlBatch
<1>1. \A s : Disk!AtDdl(s) => V!AtDdl(s)
  BY Zenon DEF Disk!AtDdl, V!AtDdl, Disk!Ddl, V!Ddl, Disk!IsPostgres, V!IsPostgres
<1>2. \A ok, cause, next : Disk!Settle(ok, cause, next) <=> V!Settle(ok, cause, next)
  BY Zenon DEF Disk!Settle, V!Settle
<1>3. /\ V!NoRows = Disk!NoRows /\ V!EnforcesForeignKeys = Disk!EnforcesForeignKeys
      /\ V!tx = Disk!tx /\ V!tx' = Disk!tx' /\ V!env = Disk!env /\ V!env' = Disk!env'
      /\ V!IsPostgres = Disk!IsPostgres /\ V!Ddl = Disk!Ddl
  BY Zenon DEF V!NoRows, Disk!NoRows, V!EnforcesForeignKeys,
       Disk!EnforcesForeignKeys, V!IsPostgres, Disk!IsPostgres, V!tx, Disk!tx,
       V!env, Disk!env, V!Ddl, Disk!Ddl
<1>4. Disk!DropPosts => V!DropPosts
  BY <1>1, <1>2, <1>3, Zenon DEF SameOnFile, Disk!DropPosts, V!DropPosts
<1>5. Disk!DropUsers => V!DropUsers
  BY <1>1, <1>2, <1>3, Zenon DEF SameOnFile, Disk!DropUsers, V!DropUsers
<1>6. Disk!CreateUsers => V!CreateUsers
  BY <1>1, <1>2, <1>3, Zenon DEF SameOnFile, Disk!CreateUsers, V!CreateUsers
<1>7. Disk!CreatePosts => V!CreatePosts
  BY <1>1, <1>2, <1>3, Zenon DEF SameOnFile, Disk!CreatePosts, V!CreatePosts
<1>8. Disk!DdlBatch => V!DdlBatch
  BY <1>1, <1>2, <1>3, Zenon DEF SameOnFile, Disk!DdlBatch, V!DdlBatch
<1> QED
  BY <1>4, <1>5, <1>6, <1>7, <1>8

\* Both count the same chunks.
LEMMA LoopsOnFile ==
    /\ V!LoopLength = Disk!LoopLength
    /\ V!ChunkEnd = Disk!ChunkEnd
<1>1. V!LoopLength = Disk!LoopLength
  BY Zenon DEF V!LoopLength, Disk!LoopLength, V!Ddl, Disk!Ddl, V!DeleteRows,
       Disk!DeleteRows, V!Wrap32, Disk!Wrap32, V!IsPostgres, Disk!IsPostgres,
       V!Calls, Disk!Calls, V!AllCalls, Disk!AllCalls, V!Lesser, Disk!Lesser,
       V!UnguardedOps, Disk!UnguardedOps, V!INSERT_BULK, Disk!INSERT_BULK,
       V!FETCH_BY_ID, Disk!FETCH_BY_ID, V!FETCH_PAGE, Disk!FETCH_PAGE,
       V!JOIN_QUERY, Disk!JOIN_QUERY
<1> QED
  BY <1>1, Zenon DEF V!ChunkEnd, Disk!ChunkEnd, V!Lesser, Disk!Lesser

\* The same of the chunks of seed_sql.
LEMMA SeedOnFile ==
    ASSUME SameOnFile
    PROVE  /\ Disk!SeedUsers => V!SeedUsers
           /\ Disk!SeedPosts => V!SeedPosts
           /\ Disk!EndOfSetupLoop => V!EndOfSetupLoop
<1>1. Disk!SeedUsers => V!SeedUsers
  BY LoopsOnFile, Zenon
     DEF SameOnFile, Disk!SeedUsers, V!SeedUsers, Disk!Settle, V!Settle,
         Disk!Overlay, V!Overlay, Disk!SeedUserId, V!SeedUserId, Disk!Wrap32,
         V!Wrap32, Disk!SeedUser, V!SeedUser, Disk!tx, V!tx, Disk!env, V!env
<1>2. ASSUME Disk!SeedPosts
      PROVE  V!SeedPosts
  <2> DEFINE last == Disk!LastId(DOMAIN disk_posts, 0)
             new == [p \in (last + 1)..(last + Disk!ChunkEnd - k) |->
                         Disk!SeedPost(k + p - last)]
             ok == /\ DOMAIN new \cap DOMAIN disk_posts = {}
                   /\ Disk!EnforcesForeignKeys =>
                      \A p \in DOMAIN new : new[p].user_id \in DOMAIN disk_users
             next == Disk!ChunkEnd
  <2>1. /\ V!LastId(DOMAIN Posts, 0) = last
        /\ V!EnforcesForeignKeys = Disk!EnforcesForeignKeys
        /\ V!IsPostgres = Disk!IsPostgres
    <3>1. \A ids : V!LastId(ids, 0) = Disk!LastId(ids, 0)
      BY Zenon DEF Disk!LastId, V!LastId, Disk!IsPostgres, V!IsPostgres
    <3>2. Posts = disk_posts
      BY DEF SameOnFile
    <3> QED
      BY <3>1, <3>2, Zenon
         DEF Disk!EnforcesForeignKeys, V!EnforcesForeignKeys, Disk!IsPostgres,
             V!IsPostgres
  <2>2. [p \in (last + 1)..(last + V!ChunkEnd - k) |-> V!SeedPost(k + p - last)]
        = new
    BY LoopsOnFile, Zenon DEF V!SeedPost, Disk!SeedPost
  <2>3. /\ stage = "posts" /\ k < Disk!LoopLength
        /\ disk_posts' = IF ok THEN Disk!Overlay(disk_posts, new) ELSE disk_posts
        /\ 0 = IF Disk!IsPostgres THEN last + Disk!ChunkEnd - k ELSE 0
        /\ Disk!Settle(ok, "statement", next)
        /\ UNCHANGED <<disk_tables, disk_users, 0, Disk!tx, Disk!env>>
    BY <1>2, Zenon DEF Disk!SeedPosts
  <2>4. /\ V!Overlay(disk_posts, new) = Disk!Overlay(disk_posts, new)
        /\ V!Settle(ok, "statement", next)
        /\ UNCHANGED <<disk_tables, disk_users, 0, V!tx, V!env>>
    BY <2>3, Zenon DEF Disk!Overlay, V!Overlay, Disk!Settle, V!Settle, Disk!tx,
                       V!tx, Disk!env, V!env
  <2> HIDE DEF last, new
  <2> QED
    BY <2>1, <2>2, <2>3, <2>4, LoopsOnFile, Zenon DEF SameOnFile, V!SeedPosts
<1>3. Disk!EndOfSetupLoop => V!EndOfSetupLoop
  BY LoopsOnFile, Zenon
     DEF SameOnFile, Disk!EndOfSetupLoop, V!EndOfSetupLoop, Disk!SetupStages,
         V!SetupStages, Disk!StageAfter, V!StageAfter, Disk!db, V!db, Disk!tx,
         V!tx, Disk!env, V!env
<1> QED
  BY <1>1, <1>2, <1>3

\* ddl() and seed_sql(): before the load, all there is is the file.
LEMMA SetupOnFile ==
    ASSUME SeedDisk, LoadInv
    PROVE  /\ V!Setup
           /\ stage' \in {"ddl", "users", "posts", "setval", "aborted"}
           /\ loaded = 0 /\ NothingInMemory /\ SameOnFile
           /\ UNCHANGED <<suite, mem, loaded>>
<1>1. /\ Disk!Setup /\ stage # "setval" /\ UNCHANGED <<mem, loaded>>
  BY DEF SeedDisk
<1>2. /\ stage \in {"ddl", "users", "posts"}
      /\ stage' \in {"ddl", "users", "posts", "setval", "aborted"}
      /\ ~Disk!SetvalUsers /\ ~Disk!SetvalPosts
  BY <1>1
     DEF Disk!Setup, Disk!DropPosts, Disk!DropUsers, Disk!CreateUsers,
         Disk!CreatePosts, Disk!AtDdl, Disk!DdlBatch, Disk!SeedUsers,
         Disk!SeedPosts, Disk!SetvalUsers, Disk!SetvalPosts,
         Disk!EndOfSetupLoop, Disk!Settle, Disk!SetupStages, Disk!StageAfter
<1>3. loaded = 0
  BY <1>2 DEF LoadInv
<1>4. SameOnFile
  BY <1>1, <1>2, <1>3 DEF SameOnFile, Users, Posts, OnMemory
<1>5. V!Setup
  BY <1>1, <1>2, <1>4, DdlOnFile, SeedOnFile, Zenon DEF Disk!Setup, V!Setup
<1>6. suite' = suite
  BY <1>1
     DEF Disk!Setup, Disk!DropPosts, Disk!DropUsers, Disk!CreateUsers,
         Disk!CreatePosts, Disk!DdlBatch, Disk!SeedUsers, Disk!SeedPosts,
         Disk!SetvalUsers, Disk!SetvalPosts, Disk!EndOfSetupLoop, Disk!env
<1> QED
  BY <1>1, <1>2, <1>3, <1>4, <1>5, <1>6 DEF LoadInv

-----------------------------------------------------------------------
(* A call on the database in memory is the call of SuiteRun.                 *)

SameInMemory ==
    /\ Users = mem_users /\ Users' = mem_users'
    /\ Posts = mem_posts /\ Posts' = mem_posts'
    /\ UNCHANGED disk_tables

\* The operations and their calls are the same in both.
LEMMA CallsInMemory ==
    /\ V!LoopLength = Mem!LoopLength
    /\ \A o : V!AtCall(o) <=> Mem!AtCall(o)
    /\ V!CallIndex = Mem!CallIndex
    /\ \A i : V!target_id(i) = Mem!target_id(i)
    /\ \A i : V!delete_id(i) = Mem!delete_id(i)
    /\ V!EnforcesForeignKeys = Mem!EnforcesForeignKeys
    /\ V!IsPostgres = Mem!IsPostgres
    /\ V!BulkUser = Mem!BulkUser /\ V!NoRows = Mem!NoRows /\ V!NoTx = Mem!NoTx
    /\ V!INSERT_ONE = Mem!INSERT_ONE /\ V!INSERT_BULK = Mem!INSERT_BULK
    /\ V!FETCH_BY_ID = Mem!FETCH_BY_ID /\ V!FETCH_PAGE = Mem!FETCH_PAGE
    /\ V!JOIN_QUERY = Mem!JOIN_QUERY /\ V!UPDATE_ONE = Mem!UPDATE_ONE
    /\ V!DELETE_ONE = Mem!DELETE_ONE
<1>1. /\ V!EnforcesForeignKeys = Mem!EnforcesForeignKeys
      /\ V!IsPostgres = Mem!IsPostgres
      /\ V!BulkUser = Mem!BulkUser /\ V!NoRows = Mem!NoRows /\ V!NoTx = Mem!NoTx
  BY Zenon DEF V!EnforcesForeignKeys, Mem!EnforcesForeignKeys, V!IsPostgres,
       Mem!IsPostgres, V!BulkUser, Mem!BulkUser, V!NoRows, Mem!NoRows, V!NoTx,
       Mem!NoTx
<1>2. /\ V!INSERT_ONE = Mem!INSERT_ONE /\ V!INSERT_BULK = Mem!INSERT_BULK
      /\ V!FETCH_BY_ID = Mem!FETCH_BY_ID /\ V!FETCH_PAGE = Mem!FETCH_PAGE
      /\ V!JOIN_QUERY = Mem!JOIN_QUERY /\ V!UPDATE_ONE = Mem!UPDATE_ONE
      /\ V!DELETE_ONE = Mem!DELETE_ONE
  BY DEF V!INSERT_ONE, Mem!INSERT_ONE, V!INSERT_BULK, Mem!INSERT_BULK,
         V!FETCH_BY_ID, Mem!FETCH_BY_ID, V!FETCH_PAGE, Mem!FETCH_PAGE,
         V!JOIN_QUERY, Mem!JOIN_QUERY, V!UPDATE_ONE, Mem!UPDATE_ONE,
         V!DELETE_ONE, Mem!DELETE_ONE
<1>3. \A o : V!Calls(o) = Mem!Calls(o)
  <2>1. V!UnguardedOps = Mem!UnguardedOps
    BY <1>2, Zenon DEF V!UnguardedOps, Mem!UnguardedOps
  <2>2. \A o : V!AllCalls(o) = Mem!AllCalls(o)
    BY <1>2, Zenon DEF V!AllCalls, Mem!AllCalls, V!Lesser, Mem!Lesser
  <2> QED
    BY <2>1, <2>2, Zenon DEF V!Calls, Mem!Calls
<1>4. V!LoopLength = Mem!LoopLength
  BY <1>1, <1>3, Zenon
     DEF V!LoopLength, Mem!LoopLength, V!Ddl, Mem!Ddl, V!DeleteRows,
         Mem!DeleteRows, V!Wrap32, Mem!Wrap32
<1>5. \A o : V!AtCall(o) <=> Mem!AtCall(o)
  BY <1>3, Zenon DEF V!AtCall, Mem!AtCall
<1>6. /\ V!CallIndex = Mem!CallIndex
      /\ \A i : V!target_id(i) = Mem!target_id(i)
      /\ \A i : V!delete_id(i) = Mem!delete_id(i)
  BY Zenon DEF V!CallIndex, Mem!CallIndex, V!target_id, Mem!target_id,
       V!delete_id, Mem!delete_id, V!AsI32, Mem!AsI32, V!Wrap32, Mem!Wrap32
<1> QED
  BY <1>1, <1>2, <1>4, <1>5, <1>6

\* ... and what they do to rows.
LEMMA RowsInMemory ==
    /\ \A ok, cause, next : V!Settle(ok, cause, next) <=> Mem!Settle(ok, cause, next)
    /\ \A t, r : V!Overlay(t, r) = Mem!Overlay(t, r)
    /\ \A t, ids : V!Without(t, ids) = Mem!Without(t, ids)
    /\ \A ids : V!LastId(ids, 0) = Mem!LastId(ids, 0)
    /\ V!tx = Mem!tx /\ V!tx' = Mem!tx' /\ V!env = Mem!env /\ V!env' = Mem!env'
<1>1. \A ok, cause, next : V!Settle(ok, cause, next) <=> Mem!Settle(ok, cause, next)
  BY Zenon DEF V!Settle, Mem!Settle
<1>2. /\ \A t, r : V!Overlay(t, r) = Mem!Overlay(t, r)
      /\ \A t, ids : V!Without(t, ids) = Mem!Without(t, ids)
      /\ \A ids : V!LastId(ids, 0) = Mem!LastId(ids, 0)
  BY Zenon DEF V!Overlay, Mem!Overlay, V!Without, Mem!Without, V!LastId,
       Mem!LastId, V!IsPostgres, Mem!IsPostgres
<1>3. /\ V!tx = Mem!tx /\ V!tx' = Mem!tx' /\ V!env = Mem!env /\ V!env' = Mem!env'
  BY Zenon DEF V!tx, Mem!tx, V!env, Mem!env
<1> QED
  BY <1>1, <1>2, <1>3

\* While the operations run the view's tables are those in memory: a writing
\* call on the one is that call on the other.
LEMMA WritesInMemory ==
    ASSUME SameInMemory
    PROVE  /\ Mem!InsertOne => V!InsertOne
           /\ Mem!InsertBulk => V!InsertBulk
           /\ Mem!UpdateOne => V!UpdateOne
           /\ Mem!DeleteOne => V!DeleteOne
<1>1. Mem!InsertOne => V!InsertOne
  BY CallsInMemory, RowsInMemory, Zenon
     DEF SameInMemory, Mem!InsertOne, V!InsertOne
<1>2. Mem!InsertBulk => V!InsertBulk
  BY CallsInMemory, RowsInMemory, Zenon
     DEF SameInMemory, Mem!InsertBulk, V!InsertBulk
<1>3. Mem!UpdateOne => V!UpdateOne
  BY CallsInMemory, RowsInMemory, Zenon
     DEF SameInMemory, Mem!UpdateOne, V!UpdateOne
<1>4. Mem!DeleteOne => V!DeleteOne
  BY CallsInMemory, RowsInMemory, Zenon
     DEF SameInMemory, Mem!DeleteOne, V!DeleteOne
<1> QED
  BY <1>1, <1>2, <1>3, <1>4

\* The same of the transaction of a row-by-row insert_bulk.
LEMMA TransactionInMemory ==
    ASSUME SameInMemory
    PROVE  /\ Mem!BulkBegin => V!BulkBegin
           /\ Mem!BulkRow => V!BulkRow
           /\ Mem!BulkCommit => V!BulkCommit
<1>1. Mem!BulkBegin => V!BulkBegin
  BY CallsInMemory, RowsInMemory, Zenon
     DEF SameInMemory, Mem!BulkBegin, V!BulkBegin, Mem!db, V!db
<1>2. ASSUME Mem!BulkRow PROVE V!BulkRow
  <2> DEFINE seen == DOMAIN mem_users \cup DOMAIN pending
             id == Mem!LastId(seen, 0) + 1
             new == [x \in {id} |-> Mem!BulkUser]
             ok == id \notin seen
  <2>1. /\ Mem!AtCall(Mem!INSERT_BULK) /\ row \in 0..(BULK_SIZE - 1)
        /\ pending' = IF ok THEN Mem!Overlay(pending, new) ELSE Mem!NoRows
        /\ row' = IF ok THEN row + 1 ELSE Mem!NoTx
        /\ Mem!Settle(ok, "statement", k)
        /\ UNCHANGED <<Mem!db, Mem!env>>
    BY <1>2, Zenon DEF Mem!BulkRow
  <2>2. DOMAIN Users \cup DOMAIN pending = seen
    BY DEF SameInMemory
  <2>3. /\ V!LastId(seen, 0) + 1 = id
        /\ V!Overlay(pending, new) = Mem!Overlay(pending, new)
        /\ V!Settle(ok, "statement", k)
    BY <2>1, RowsInMemory
  <2>4. UNCHANGED <<V!db, V!env>>
    BY <2>1, RowsInMemory, Zenon DEF SameInMemory, Mem!db, V!db
  <2> HIDE DEF seen, id
  <2> QED
    BY <2>1, <2>2, <2>3, <2>4, CallsInMemory, Zenon DEF V!BulkRow
<1>3. Mem!BulkCommit => V!BulkCommit
  BY CallsInMemory, RowsInMemory, Zenon
     DEF SameInMemory, Mem!BulkCommit, V!BulkCommit
<1> QED
  BY <1>1, <1>2, <1>3

\* The same of the reads, and of what ends an operation and the suite.
LEMMA ReadsInMemory ==
    ASSUME SameInMemory
    PROVE  /\ Mem!FetchById => V!FetchById
           /\ Mem!FetchPage => V!FetchPage
           /\ Mem!JoinQuery => V!JoinQuery
           /\ Mem!EndOfOp => V!EndOfOp
           /\ Mem!Teardown => V!Teardown
<1>1. /\ V!ActiveUsers = Mem!ActiveUsers
      /\ V!JoinedPosts = Mem!JoinedPosts
  BY Zenon DEF SameInMemory, V!ActiveUsers, Mem!ActiveUsers, V!JoinedPosts,
               Mem!JoinedPosts
<1>2. \A S : V!Cardinality(S) = Mem!Cardinality(S)
  BY Zenon DEF V!Cardinality, Mem!Cardinality
<1>3. Mem!FetchById => V!FetchById
  BY CallsInMemory, RowsInMemory, Zenon
     DEF SameInMemory, Mem!FetchById, V!FetchById, Mem!db, V!db
<1>4. Mem!FetchPage => V!FetchPage
  BY CallsInMemory, RowsInMemory, <1>1, <1>2, Zenon
     DEF SameInMemory, Mem!FetchPage, V!FetchPage, Mem!db, V!db
<1>5. Mem!JoinQuery => V!JoinQuery
  BY CallsInMemory, RowsInMemory, <1>1, <1>2, Zenon
     DEF SameInMemory, Mem!JoinQuery, V!JoinQuery, Mem!db, V!db
<1>6. Mem!EndOfOp => V!EndOfOp
  BY CallsInMemory, RowsInMemory, Zenon
     DEF SameInMemory, Mem!EndOfOp, V!EndOfOp, Mem!db, V!db
<1>7. Mem!Teardown => V!Teardown
  BY CallsInMemory, RowsInMemory, Zenon
     DEF SameInMemory, Mem!Teardown, V!Teardown, Mem!db, V!db
<1> QED
  BY <1>3, <1>4, <1>5, <1>6, <1>7

\* Operations and teardown(): after the load, nobody sees the file.
LEMMA WorkInMemory ==
    ASSUME Operate \/ Finish, LoadInv
    PROVE  /\ V!RunSuite \/ V!Teardown
           /\ stage \in {"ops", "teardown"}
           /\ \/ stage' \in {"ops", "teardown", "finished"}
              \/ stage' = "aborted" /\ failure' \in {"statement", "suite"}
           /\ UNCHANGED <<suite, cfg, disk, loaded>>
           /\ mem_tables' = mem_tables
<1>1. UNCHANGED <<disk, loaded>> /\ (Mem!RunSuite \/ Mem!Teardown)
  BY DEF Operate, Finish
<1>2. ASSUME Mem!RunSuite
      PROVE  /\ V!RunSuite /\ stage = "ops"
             /\ \/ stage' \in {"ops", "teardown"}
                \/ stage' = "aborted" /\ failure' \in {"statement", "suite"}
             /\ UNCHANGED <<suite, cfg, mem_tables>>
  <2>1. /\ stage = "ops"
        /\ \/ stage' \in {"ops", "teardown"}
           \/ stage' = "aborted" /\ failure' \in {"statement", "suite"}
        /\ UNCHANGED <<suite, cfg, mem_tables>>
    BY <1>2
       DEF Mem!RunSuite, Mem!InsertOne, Mem!InsertBulk, Mem!BulkBegin,
           Mem!BulkRow, Mem!BulkCommit, Mem!FetchById, Mem!FetchPage,
           Mem!JoinQuery, Mem!UpdateOne, Mem!DeleteOne, Mem!AtCall, Mem!EndOfOp,
           Mem!Settle, Mem!env, Mem!db
  <2>2. loaded # 0
    BY <2>1, LoadStepsFacts DEF LoadInv
  <2>3. SameInMemory
    BY <1>1, <2>1, <2>2 DEF SameInMemory, Users, Posts, OnMemory, disk
  <2> QED
    BY <1>2, <2>1, <2>3, WritesInMemory, TransactionInMemory, ReadsInMemory,
       Zenon
       DEF Mem!RunSuite, V!RunSuite
<1>3. ASSUME Mem!Teardown
      PROVE  /\ V!Teardown /\ stage = "teardown" /\ stage' = "finished"
             /\ UNCHANGED <<suite, cfg, mem_tables>>
  <2>1. /\ stage = "teardown" /\ stage' = "finished"
        /\ UNCHANGED <<suite, cfg, mem_tables>>
    BY <1>3 DEF Mem!Teardown, Mem!env, Mem!db
  <2>2. SameInMemory
    BY <1>1, <2>1 DEF SameInMemory, Users, Posts, OnMemory, disk
  <2> QED
    BY <1>3, <2>1, <2>2, ReadsInMemory
<1> QED
  BY <1>1, <1>2, <1>3

-----------------------------------------------------------------------
(* The load, step by step.                                                   *)

\* A step of the load is taken at its place in LoadSteps only.
LEMMA LoadPosition ==
    ASSUME LoadInv, NEW step, LoadStep(step)
    PROVE  /\ stage = "setval" /\ loaded \in Nat /\ loaded' = loaded + 1
           /\ step = "Backup" => suite = RusqliteSqliteMemory /\ loaded = 0
           /\ step = "MemoryDdl" => suite # RusqliteSqliteMemory /\ loaded = 0
           /\ step = "CopyUsers" => suite # RusqliteSqliteMemory /\ loaded = 1
           /\ step = "CopyPosts" => suite # RusqliteSqliteMemory /\ loaded = 2
           /\ UNCHANGED <<suite, cfg, row, pending, runs, outages, disk>>
<1>1. /\ stage = "setval" /\ loaded \in Nat /\ loaded < Len(LoadSteps)
      /\ LoadSteps[loaded + 1] = step /\ loaded' = loaded + 1
      /\ UNCHANGED <<suite, cfg, row, pending, runs, outages, disk>>
  BY DEF LoadStep, LoadInv
<1>2. CASE suite = RusqliteSqliteMemory
  <2>1. LoadSteps = <<"Backup">>
    BY <1>2, LoadStepsFacts
  <2>2. loaded = 0
    BY <1>1, <2>1
  <2> QED
    BY <1>1, <1>2, <2>1, <2>2
<1>3. CASE suite # RusqliteSqliteMemory
  <2>1. LoadSteps = <<"MemoryDdl", "CopyUsers", "CopyPosts">>
    BY <1>3, LoadStepsFacts
  <2>2. loaded \in {0, 1, 2}
    BY <1>1, <2>1
  <2> QED
    BY <1>1, <1>3, <2>1, <2>2
<1> QED
  BY <1>2, <1>3

\* A table copied into an empty one.
LEMMA CopyOfTable ==
    ASSUME NEW R, NEW t, t \in [DOMAIN t -> R]
    PROVE  /\ Mem!Overlay(Mem!NoRows, t) = t
           /\ DOMAIN t \cap DOMAIN Mem!NoRows = {}
<1>1. DOMAIN Mem!NoRows = {}
  BY DEF Mem!NoRows
<1>2. Mem!Overlay(Mem!NoRows, t) = [id \in DOMAIN t |-> t[id]]
  BY <1>1 DEF Mem!Overlay
<1> QED
  BY <1>1, <1>2

\* No step of the load is refused, and none shows: each finds its table empty
\* in memory, and posts come after the users they refer to.
LEMMA LoadGoesOn ==
    ASSUME MInv, Backup \/ MemoryDdl \/ CopyUsers \/ CopyPosts
    PROVE  /\ stage = "setval" /\ UNCHANGED V!vars
           /\ UNCHANGED <<control, disk>>
           /\ loaded' \in 0..Len(LoadSteps) /\ LoadInv'
<1>1. /\ LoadInv /\ DiskSound
      /\ \E step : LoadStep(step)
  BY DEF MInv, Backup, MemoryDdl, CopyUsers, CopyPosts
<1>2. /\ stage = "setval" /\ loaded' = loaded + 1
      /\ UNCHANGED <<suite, cfg, row, pending, runs, outages, disk>>
      /\ loaded \in Nat /\ loaded < Len(LoadSteps)
      /\ LoadSteps' = LoadSteps
  BY <1>1, LoadPosition DEF LoadStep, LoadSteps
<1>3. suite = RusqliteSqliteMemory => Len(LoadSteps) = 1
  BY LoadStepsFacts
<1>4. suite # RusqliteSqliteMemory => Len(LoadSteps) = 3
  BY LoadStepsFacts
<1>5. /\ mem_tables' \subseteq {"users", "posts"}
      /\ UNCHANGED <<stage, op, k, failure>>
      /\ loaded' = 1 /\ suite # RusqliteSqliteMemory =>
            mem_users' = Mem!NoRows /\ mem_posts' = Mem!NoRows
      /\ loaded' = 2 => mem_users' = disk_users /\ mem_posts' = Mem!NoRows
      /\ loaded' = Len(LoadSteps) =>
            mem_users' = disk_users /\ mem_posts' = disk_posts
  <2>1. CASE Backup
    <3>1. suite = RusqliteSqliteMemory /\ loaded' = 1
      BY <1>1, <2>1, LoadPosition DEF Backup
    <3> QED
      BY <1>1, <2>1, <3>1 DEF Backup, DiskSound
  <2>2. CASE MemoryDdl
    <3>1. suite # RusqliteSqliteMemory /\ loaded = 0 /\ loaded' = 1
      BY <1>1, <1>2, <2>2, LoadPosition DEF MemoryDdl
    <3>2. NothingInMemory
      BY <1>1, <1>2, <3>1 DEF LoadInv
    <3>3. /\ mem_tables' = {"users", "posts"}
          /\ UNCHANGED <<mem_users, mem_posts, stage, op, k, failure>>
      BY <2>2, <3>2 DEF MemoryDdl, NothingInMemory, Disk!Settle
    <3> QED
      BY <1>4, <3>1, <3>2, <3>3 DEF NothingInMemory
  <2>3. CASE CopyUsers
    <3>1. suite # RusqliteSqliteMemory /\ loaded = 1 /\ loaded' = 2
      BY <1>1, <1>2, <2>3, LoadPosition DEF CopyUsers
    <3>2. mem_users = Mem!NoRows /\ mem_posts = Mem!NoRows
      BY <1>1, <1>2, <3>1 DEF LoadInv
    <3>3. /\ DOMAIN disk_users \cap DOMAIN mem_users = {}
          /\ Mem!Overlay(mem_users, disk_users) = disk_users
      BY <1>1, <3>2, CopyOfTable DEF DiskSound
    <3>4. /\ mem_users' = disk_users
          /\ UNCHANGED <<mem_tables, mem_posts, stage, op, k, failure>>
      BY <2>3, <3>3 DEF CopyUsers, Disk!Settle
    <3> QED
      BY <1>1, <1>4, <3>1, <3>2, <3>4 DEF LoadInv
  <2>4. CASE CopyPosts
    <3>1. suite # RusqliteSqliteMemory /\ loaded = 2 /\ loaded' = 3
      BY <1>1, <1>2, <2>4, LoadPosition DEF CopyPosts
    <3>2. mem_users = disk_users /\ mem_posts = Mem!NoRows
      BY <1>1, <1>2, <3>1 DEF LoadInv
    <3>3. /\ DOMAIN disk_posts \cap DOMAIN mem_posts = {}
          /\ Mem!Overlay(mem_posts, disk_posts) = disk_posts
      BY <1>1, <3>2, CopyOfTable DEF DiskSound
    <3>4. \A p \in DOMAIN disk_posts :
             disk_posts[p].user_id \in DOMAIN mem_users
      BY <1>1, <3>2 DEF DiskSound
    <3>5. /\ mem_posts' = disk_posts
          /\ UNCHANGED <<mem_tables, mem_users, stage, op, k, failure>>
      BY <2>4, <3>3, <3>4 DEF CopyPosts, Disk!Settle
    <3> QED
      BY <1>1, <1>4, <3>1, <3>2, <3>5 DEF LoadInv
  <2> QED
    BY <2>1, <2>2, <2>3, <2>4
<1>6. loaded' \in 0..Len(LoadSteps) /\ loaded' # 0
  BY <1>2, LoadStepsFacts
<1>7. LoadInv'
  BY <1>2, <1>5, <1>6 DEF LoadInv, disk
<1>8. UNCHANGED <<Users, Posts>>
  BY <1>2, <1>5 DEF Users, Posts, OnMemory, disk
<1> QED
  BY <1>2, <1>5, <1>6, <1>7, <1>8 DEF V!vars, control, disk

-----------------------------------------------------------------------
(* From the file to the memory, and back.                                    *)

\* The operations begin on what setup() left in the file.
LEMMA UseMemoryStep ==
    ASSUME MInv, UseMemory
    PROVE  /\ V!EndOfSetupLoop /\ stage' = "ops"
           /\ disk_users = V!SeededUsers(SEED_USERS + V!Victims)
           /\ disk_posts = V!SeededPosts(SEED_POSTS)
<1>1. /\ stage = "setval" /\ loaded = Len(LoadSteps) /\ Mem!EndOfSetupLoop
      /\ UNCHANGED <<disk, loaded>>
  BY DEF UseMemory
<1>2. stage' = "ops"
  BY <1>1 DEF Mem!EndOfSetupLoop, Mem!StageAfter
<1>3. mem_users = disk_users /\ mem_posts = disk_posts
  BY <1>1 DEF MInv, LoadInv
<1>4. UNCHANGED <<mem_tables, mem_users, mem_posts>>
  BY <1>1 DEF Mem!EndOfSetupLoop, Mem!db
<1>5. /\ Users = disk_users /\ Posts = disk_posts
      /\ Users' = mem_users /\ Posts' = mem_posts
  BY <1>1, <1>2, <1>4 DEF Users, Posts, OnMemory
<1>6. V!EndOfSetupLoop
  <2>1. UNCHANGED V!db
    BY <1>1, <1>3, <1>5 DEF V!db, disk
  <2> QED
    BY <1>1, <2>1, CallsInMemory, RowsInMemory, Zenon
       DEF Mem!EndOfSetupLoop, V!EndOfSetupLoop, Mem!SetupStages, V!SetupStages,
           Mem!StageAfter, V!StageAfter
<1>7. V!SetvalInv
  BY DEF MInv, V!RInv, V!IInv
<1> QED
  BY <1>1, <1>2, <1>5, <1>6, <1>7 DEF V!SetvalInv

\* What is left when a process has died, or when the next one begins, is the
\* file, or no file.
LEMMA FileAtRest ==
    ASSUME MInv, DiskSound', Forget, UNCHANGED cfg \/ cfg' \in Configs,
           suite' = suite, row' = V!NoTx, pending' = V!NoRows,
           runs' \in 0..MaxRuns, outages' \in 0..MaxOutages,
           \/ /\ stage' = "aborted" /\ failure' = "outside"
              /\ stage \in V!Working
              /\ UNCHANGED <<op, k, disk, cfg>>
           \/ /\ stage' = "ddl" /\ failure' = "none" /\ op' = V!INSERT_ONE
              /\ k' = 0
    PROVE  MInv'
<1>1. /\ ~OnMemory' /\ Users' = disk_users' /\ Posts' = disk_posts'
  BY DEF OnMemory, Users, Posts
<1>2. /\ suite \in MemorySuites /\ cfg \in Configs /\ k \in Nat
      /\ op \in V!INSERT_ONE..V!DELETE_ONE
  BY DEF MInv, V!RInv, V!IInv, V!TypeOK
<1>3. V!TypeOK'
  <2>1. /\ stage' \in V!Working \cup {"finished", "aborted"}
        /\ failure' \in {"none", "outside", "statement", "suite"}
    BY DEF V!Working, V!SetupStages
  <2>2. op' \in V!INSERT_ONE..V!DELETE_ONE /\ k' \in Nat
    BY <1>2 DEF V!INSERT_ONE, V!DELETE_ONE
  <2>3. row' \in V!NoTx..BULK_SIZE
    BY SizesAssumption DEF V!NoTx
  <2>4. /\ DOMAIN pending' \subseteq Nat
        /\ pending' \in [DOMAIN pending' -> V!UserRow]
    BY DEF V!NoRows
  <2>5. /\ disk_tables' \subseteq {"users", "posts"}
        /\ DOMAIN Users' \subseteq Nat /\ Users' \in [DOMAIN Users' -> V!UserRow]
        /\ DOMAIN Posts' \subseteq Nat /\ Posts' \in [DOMAIN Posts' -> V!PostRow]
    BY <1>1 DEF DiskSound, Disk!UserRow, V!UserRow, Disk!PostRow, V!PostRow
  <2> QED
    BY <1>2, <2>1, <2>2, <2>3, <2>4, <2>5 DEF V!TypeOK
<1>4. V!ReferentialIntegrity'
  BY <1>1 DEF V!ReferentialIntegrity, DiskSound
<1>5. V!RInv'
  BY <1>3, <1>4, SizesAssumption, IdsAssumption, ConfigsAssumption,
     BuildAssumption, BoundsAssumption, SuitesOk, V!AtRestIsR
<1>6. DiskSeeded'
  <2>1. CASE DiedLate'
    <3>1. /\ stage' = "aborted" /\ op' # V!INSERT_ONE
      BY <2>1 DEF DiedLate, V!INSERT_ONE
    <3>2. /\ stage \in V!Working /\ UNCHANGED <<op, k, disk, cfg>>
          /\ op # V!INSERT_ONE
      BY <3>1
    <3>3. stage \in {"ops", "teardown"}
      BY <3>2 DEF V!Working, MInv, V!RInv, V!FirstOp
    <3>4. /\ disk_users = V!SeededUsers(SEED_USERS + V!Victims)
          /\ disk_posts = V!SeededPosts(SEED_POSTS)
      BY <3>3 DEF MInv, DiskSeeded, OnMemory
    <3> QED
      BY <3>2, <3>4
         DEF DiskSeeded, disk, V!SeededUsers, V!Victims, V!SeededPosts,
             V!SeedUserId
  <2>2. CASE ~DiedLate'
    BY <1>1, <2>2 DEF DiskSeeded
  <2> QED
    BY <2>1, <2>2
<1>7. LoadInv'
  <2>1. 0 \in 0..Len(LoadSteps)'
    BY DEF LoadSteps
  <2> QED
    BY <2>1 DEF LoadInv, Forget, NothingInMemory
<1> QED
  BY <1>5, <1>6, <1>7 DEF MInv

\* Whatever ends the process leaves a sound file and nothing in memory.
LEMMA OutageStep ==
    ASSUME MInv, Outage
    PROVE  MInv'
<1>1. /\ Forget /\ stage' = "aborted" /\ failure' = "outside"
      /\ stage \in V!Working
      /\ UNCHANGED <<op, k, disk, suite, cfg, runs>>
      /\ row' = V!NoTx /\ pending' = V!NoRows
      /\ outages < MaxOutages /\ outages' = outages + 1
  BY CallsInMemory
     DEF Outage, Disk!Outage, Disk!db, disk, Disk!NoTx, V!NoTx, Disk!NoRows,
         V!NoRows, Disk!Working, V!Working, Disk!SetupStages, V!SetupStages
<1>2. runs \in 0..MaxRuns /\ outages \in 0..MaxOutages
  BY DEF MInv, V!RInv, V!IInv, V!TypeOK
<1>3. outages' \in 0..MaxOutages
  BY <1>1, <1>2, BoundsAssumption
<1>4. DiskSound'
  BY <1>1 DEF MInv, DiskSound, disk
<1>5. UNCHANGED <<op, k, disk, cfg>>
  BY <1>1
<1> QED
  BY <1>1, <1>2, <1>3, <1>4, <1>5, FileAtRest

\* So a new process starts from a sound file, removed or not.
LEMMA RerunStep ==
    ASSUME MInv, Rerun
    PROVE  MInv'
<1>1. suite \in MemorySuites /\ V!TxInv /\ runs \in 0..MaxRuns
      /\ outages \in 0..MaxOutages
  BY DEF MInv, V!RInv, V!IInv, V!TypeOK
<1>2. ~Disk!IsPostgres
  BY <1>1 DEF Disk!IsPostgres, MemorySuites, RusqliteSqliteMemory,
              DieselSqliteMemory
<1>3. /\ Forget /\ stage \in {"finished", "aborted"} /\ cfg' \in Configs
      /\ stage' = "ddl" /\ op' = V!INSERT_ONE /\ k' = 0 /\ failure' = "none"
      /\ UNCHANGED <<row, pending, outages>>
      /\ runs < MaxRuns /\ runs' = runs + 1 /\ suite' = suite
      /\ \/ disk_tables' = {} /\ disk_users' = V!NoRows /\ disk_posts' = V!NoRows
         \/ UNCHANGED disk
  BY <1>2
     DEF Rerun, Disk!Rerun, Disk!Idle, Disk!tx, Disk!INSERT_ONE, V!INSERT_ONE,
         Disk!NoRows, V!NoRows, disk
<1>4. row' = V!NoTx /\ pending' = V!NoRows
  BY <1>1, <1>3 DEF V!TxInv
<1>5. runs' \in 0..MaxRuns
  BY <1>1, <1>3, BoundsAssumption
<1>6. DiskSound'
  <2>1. CASE UNCHANGED disk
    BY <2>1 DEF MInv, DiskSound, disk
  <2>2. CASE disk_tables' = {} /\ disk_users' = V!NoRows /\ disk_posts' = V!NoRows
    BY <2>2 DEF DiskSound, V!NoRows
  <2> QED
    BY <1>3, <2>1, <2>2
<1> QED
  BY <1>1, <1>3, <1>4, <1>5, <1>6, FileAtRest

\* The first process starts from no file.
LEMMA InitStep ==
    ASSUME V!SafeSizes, Init
    PROVE  V!Init /\ MInv
<1>1. /\ stage = "ddl" /\ loaded = 0 /\ Users = disk_users /\ Posts = disk_posts
      /\ disk_users = V!NoRows /\ disk_posts = V!NoRows /\ disk_tables = {}
      /\ NothingInMemory
  BY DEF Init, Disk!Init, Users, Posts, OnMemory, Disk!NoRows, V!NoRows,
         NothingInMemory
<1>2. V!Init
  <2>1. Disk!FirstSuites = V!FirstSuites
    BY Zenon DEF Disk!FirstSuites, V!FirstSuites, Disk!RunsBefore, V!RunsBefore,
       Disk!PostgresSuites, V!PostgresSuites, Disk!TokioPostgres,
       V!TokioPostgres, Disk!SqlxPostgres, V!SqlxPostgres, Disk!DieselPostgres,
       V!DieselPostgres, Disk!DieselAsyncPostgres, V!DieselAsyncPostgres,
       Disk!SeaOrmPostgres, V!SeaOrmPostgres
  <2>2. Disk!INSERT_ONE = V!INSERT_ONE /\ Disk!NoTx = V!NoTx
        /\ Disk!NoRows = V!NoRows
    BY DEF Disk!INSERT_ONE, V!INSERT_ONE, Disk!NoTx, V!NoTx, Disk!NoRows,
           V!NoRows
  <2> QED
    BY <1>1, <2>1, <2>2, Zenon DEF Init, Disk!Init, V!Init
<1>3. V!RInv
  <2>1. V!IInv
    BY <1>2, SizesAssumption, IdsAssumption, ConfigsAssumption,
       BuildAssumption, BoundsAssumption, SuitesOk, V!InitIInv
  <2> QED
    BY <1>2, <2>1
       DEF V!RInv, V!Init, V!SeededIdentically, V!WhyAborted, V!FirstOp,
           V!OpenRows
<1>4. DiskSound /\ DiskSeeded
  BY <1>1 DEF DiskSound, DiskSeeded, OnMemory, DiedLate, V!NoRows
<1>5. LoadInv
  <2>1. 0 \in 0..Len(LoadSteps)
    BY DEF LoadSteps
  <2> QED
    BY <1>1, <2>1 DEF LoadInv, NothingInMemory
<1> QED
  BY <1>2, <1>3, <1>4, <1>5 DEF MInv

-----------------------------------------------------------------------
(* The invariant holds.                                                      *)

\* Seeding the file is a step of the view's setup().
LEMMA SeedDiskStep ==
    ASSUME V!SafeSizes, MInv, SeedDisk
    PROVE  MInv' /\ V!Next
<1>1. /\ V!Setup /\ loaded = 0 /\ NothingInMemory /\ SameOnFile
      /\ stage' \in {"ddl", "users", "posts", "setval", "aborted"}
      /\ UNCHANGED <<suite, mem, loaded>>
  BY SetupOnFile DEF MInv
<1>2. V!Next
  BY <1>1 DEF V!Next, V!Program
<1>3. V!RInv'
  BY <1>2, SizesAssumption, IdsAssumption, ConfigsAssumption, BuildAssumption,
     BoundsAssumption, SuitesOk, V!RInvStep DEF MInv
<1>4. ~OnMemory' /\ ~DiedLate'
  <2>1. op' = op /\ stage \in V!SetupStages
    BY DEF SeedDisk, Disk!Setup, Disk!DropPosts, Disk!DropUsers,
       Disk!CreateUsers, Disk!CreatePosts, Disk!DdlBatch, Disk!SeedUsers,
       Disk!SeedPosts, Disk!SetvalUsers, Disk!SetvalPosts,
       Disk!EndOfSetupLoop, Disk!AtDdl, Disk!Settle, Disk!SetupStages,
       V!SetupStages
  <2>2. op' = V!INSERT_ONE
    BY <2>1 DEF MInv, V!RInv, V!FirstOp
  <2> QED
    BY <1>1, <2>2 DEF OnMemory, DiedLate, V!INSERT_ONE
<1>5. DiskSound'
  BY <1>1, <1>3
     DEF SameOnFile, DiskSound, V!RInv, V!IInv, V!TypeOK,
         V!ReferentialIntegrity, Disk!UserRow, V!UserRow, Disk!PostRow, V!PostRow
<1>6. DiskSeeded'
  BY <1>4 DEF DiskSeeded
<1>7. LoadInv'
  <2>1. LoadSteps' = LoadSteps /\ Len(LoadSteps) # 0
    BY <1>1, LoadStepsFacts DEF LoadSteps
  <2> QED
    BY <1>1, <2>1 DEF MInv, LoadInv, NothingInMemory, mem
<1> QED
  BY <1>2, <1>3, <1>5, <1>6, <1>7 DEF MInv

\* The end of the load is the view's end of setup(): the copy is the seed.
LEMMA UseMemoryInv ==
    ASSUME V!SafeSizes, MInv, UseMemory
    PROVE  MInv' /\ V!Next
<1>1. /\ V!EndOfSetupLoop /\ stage' = "ops"
      /\ disk_users = V!SeededUsers(SEED_USERS + V!Victims)
      /\ disk_posts = V!SeededPosts(SEED_POSTS)
  BY UseMemoryStep
<1>2. V!Next
  BY <1>1 DEF V!Next, V!Program, V!Setup
<1>3. V!RInv'
  BY <1>2, SizesAssumption, IdsAssumption, ConfigsAssumption, BuildAssumption,
     BoundsAssumption, SuitesOk, V!RInvStep DEF MInv
<1>4. UNCHANGED <<suite, cfg, disk, loaded, mem>> /\ loaded = Len(LoadSteps)
  BY DEF UseMemory, Mem!EndOfSetupLoop, Mem!env, Mem!db, mem
<1>5. DiskSound'
  BY <1>4 DEF MInv, DiskSound, disk
<1>6. DiskSeeded'
  BY <1>1, <1>4
     DEF DiskSeeded, disk, V!SeededUsers, V!Victims, V!SeededPosts, V!SeedUserId
<1>7. LoadInv'
  <2>1. LoadSteps' = LoadSteps
    BY <1>4 DEF LoadSteps
  <2> QED
    BY <1>1, <1>4, <2>1 DEF MInv, LoadInv, mem
<1> QED
  BY <1>2, <1>3, <1>5, <1>6, <1>7 DEF MInv

\* The operations are the view's, and leave the file alone.
LEMMA WorkStep ==
    ASSUME V!SafeSizes, MInv, Operate \/ Finish
    PROVE  MInv' /\ V!Next
<1>1. /\ V!RunSuite \/ V!Teardown
      /\ stage \in {"ops", "teardown"}
      /\ \/ stage' \in {"ops", "teardown", "finished"}
         \/ stage' = "aborted" /\ failure' \in {"statement", "suite"}
      /\ UNCHANGED <<suite, cfg, disk, loaded>> /\ mem_tables' = mem_tables
  BY WorkInMemory DEF MInv
<1>2. V!Next
  BY <1>1 DEF V!Next, V!Program
<1>3. V!RInv'
  BY <1>2, SizesAssumption, IdsAssumption, ConfigsAssumption, BuildAssumption,
     BoundsAssumption, SuitesOk, V!RInvStep DEF MInv
<1>4. stage' \in {"ops", "teardown", "finished"}
  BY <1>1, <1>3 DEF V!RInv, V!WhyAborted
<1>5. DiskSound'
  BY <1>1 DEF MInv, DiskSound, disk
<1>6. DiskSeeded'
  <2>1. DiskSeeded /\ OnMemory
    BY <1>1 DEF MInv, OnMemory
  <2> QED
    BY <1>1, <2>1
       DEF DiskSeeded, disk, V!SeededUsers, V!Victims, V!SeededPosts,
           V!SeedUserId
<1>7. LoadInv'
  <2>1. LoadSteps' = LoadSteps
    BY <1>1 DEF LoadSteps
  <2> QED
    BY <1>1, <1>4, <2>1 DEF MInv, LoadInv
<1> QED
  BY <1>2, <1>3, <1>5, <1>6, <1>7 DEF MInv

\* A step that the view does not see keeps what is known of the view.
LEMMA StillStep ==
    ASSUME V!SafeSizes, MInv, UNCHANGED V!vars, UNCHANGED <<control, disk>>,
           LoadInv', OnMemory' <=> OnMemory
    PROVE  MInv'
<1>1. V!RInv'
  BY SizesAssumption, IdsAssumption, ConfigsAssumption, BuildAssumption,
     BoundsAssumption, SuitesOk, V!RInvStep DEF MInv
<1>2. DiskSound' /\ DiskSeeded'
  BY DEF MInv, DiskSound, DiskSeeded, DiedLate, V!INSERT_ONE, disk, control,
         V!SeededUsers, V!Victims, V!SeededPosts, V!SeedUserId
<1> QED
  BY <1>1, <1>2 DEF MInv

\* The load is such a step: the view looks at the file until it is over.
LEMMA LoadKeepsInv ==
    ASSUME V!SafeSizes, MInv, Backup \/ MemoryDdl \/ CopyUsers \/ CopyPosts
    PROVE  MInv' /\ UNCHANGED V!vars
<1>1. /\ stage = "setval" /\ UNCHANGED V!vars /\ UNCHANGED <<control, disk>>
      /\ LoadInv'
  BY LoadGoesOn
<1>2. ~OnMemory /\ ~OnMemory'
  BY <1>1 DEF OnMemory, control
<1> QED
  BY <1>1, <1>2, StillStep

\* MInv is inductive.
LEMMA NextInv ==
    ASSUME V!SafeSizes, MInv, [Next]_vars
    PROVE  MInv'
<1>1. CASE UNCHANGED vars
  <2>1. /\ UNCHANGED V!vars /\ UNCHANGED <<control, disk>>
        /\ OnMemory' <=> OnMemory
    BY <1>1 DEF vars, control, disk, mem, V!vars, Users, Posts, OnMemory
  <2>2. LoadInv'
    BY <1>1 DEF MInv, LoadInv, NothingInMemory, LoadSteps, vars, control, disk,
                mem
  <2> QED
    BY <2>1, <2>2, StillStep
<1> QED
  BY <1>1, SeedDiskStep, LoadKeepsInv, UseMemoryInv, WorkStep, OutageStep,
     RerunStep DEF Next, Program

\* MInv holds in every state.
LEMMA InductiveM ==
    ASSUME V!SafeSizes
    PROVE  Spec => []MInv
<1>1. Init => MInv
  BY InitStep
<1>2. MInv /\ [Next]_vars => MInv'
  BY NextInv
<1> QED
  BY <1>1, <1>2, PTL DEF Spec

-----------------------------------------------------------------------
(* The theorems.                                                             *)

\* SafeSizes speaks of constants only, which the view shares with the file.
LEMMA SafeForBoth ==
    ASSUME Disk!SafeSizes
    PROVE  V!SafeSizes
  BY Zenon
     DEF Disk!SafeSizes, V!SafeSizes, Disk!SafeConfig, V!SafeConfig,
         Disk!SeededActive, V!SeededActive, Disk!SeededJoin, V!SeededJoin,
         Disk!Cardinality, V!Cardinality

\* The types of both databases, at every moment of the load, of the operations
\* and of what follows when the process dies.
THEOREM TypeCorrect ==
    ASSUME Disk!SafeSizes
    PROVE  Spec => []TypeOK
<1>1. MInv => TypeOK
  <2> SUFFICES ASSUME MInv PROVE TypeOK
    OBVIOUS
  <2>1. V!TypeOK /\ DiskSound /\ LoadInv
    BY DEF MInv, V!RInv, V!IInv
  <2>2. /\ Disk!NoTx = V!NoTx /\ Mem!NoTx = V!NoTx
        /\ Disk!UserRow = V!UserRow /\ Mem!UserRow = V!UserRow
        /\ Disk!PostRow = V!PostRow /\ Mem!PostRow = V!PostRow
        /\ Disk!INSERT_ONE = V!INSERT_ONE /\ Mem!INSERT_ONE = V!INSERT_ONE
        /\ Disk!DELETE_ONE = V!DELETE_ONE /\ Mem!DELETE_ONE = V!DELETE_ONE
        /\ Disk!Working = V!Working /\ Mem!Working = V!Working
    BY DEF Disk!NoTx, V!NoTx, Mem!NoTx, Disk!UserRow, V!UserRow, Mem!UserRow,
           Disk!PostRow, V!PostRow, Mem!PostRow, Disk!INSERT_ONE, V!INSERT_ONE,
           Mem!INSERT_ONE, Disk!DELETE_ONE, V!DELETE_ONE, Mem!DELETE_ONE,
           Disk!Working, V!Working, Mem!Working, Disk!SetupStages,
           V!SetupStages, Mem!SetupStages
  <2>3. Disk!TypeOK
    BY <2>1, <2>2, Zenon DEF DiskSound, V!TypeOK, Disk!TypeOK
  <2>4. /\ DOMAIN mem_users \subseteq Nat
        /\ mem_users \in [DOMAIN mem_users -> V!UserRow]
        /\ DOMAIN mem_posts \subseteq Nat
        /\ mem_posts \in [DOMAIN mem_posts -> V!PostRow]
    <3>1. CASE stage \in {"ops", "teardown", "finished"}
      <4>1. Users = mem_users /\ Posts = mem_posts
        BY <3>1 DEF Users, Posts, OnMemory
      <4> QED
        BY <2>1, <4>1 DEF V!TypeOK
    <3>2. CASE stage \notin {"ops", "teardown", "finished"}
      <4>1. /\ mem_users \in {Mem!NoRows, disk_users}
            /\ mem_posts \in {Mem!NoRows, disk_posts}
        <5>1. stage \in {"ddl", "users", "posts", "aborted", "setval"}
          BY <2>1, <3>2 DEF V!TypeOK, V!Working, V!SetupStages
        <5>2. CASE stage = "setval"
          <6>1. CASE suite = RusqliteSqliteMemory
            <7>1. Len(LoadSteps) = 1 /\ loaded \in {0, 1}
              <8>1. LoadSteps = <<"Backup">>
                BY <6>1, LoadStepsFacts
              <8> QED
                BY <2>1, <8>1 DEF LoadInv
            <7> QED
              BY <2>1, <5>2, <7>1 DEF LoadInv, NothingInMemory
          <6>2. CASE suite # RusqliteSqliteMemory
            <7>1. Len(LoadSteps) = 3 /\ loaded \in {0, 1, 2, 3}
              <8>1. LoadSteps = <<"MemoryDdl", "CopyUsers", "CopyPosts">>
                BY <6>2, LoadStepsFacts
              <8> QED
                BY <2>1, <8>1 DEF LoadInv
            <7> QED
              BY <2>1, <5>2, <6>2, <7>1 DEF LoadInv, NothingInMemory
          <6> QED
            BY <6>1, <6>2
        <5> QED
          BY <2>1, <5>1, <5>2 DEF LoadInv, NothingInMemory
      <4>2. /\ DOMAIN Mem!NoRows \subseteq Nat
            /\ Mem!NoRows \in [DOMAIN Mem!NoRows -> V!UserRow]
            /\ Mem!NoRows \in [DOMAIN Mem!NoRows -> V!PostRow]
        BY DEF Mem!NoRows
      <4> QED
        BY <2>1, <2>2, <4>1, <4>2 DEF DiskSound
    <3> QED
      BY <3>1, <3>2
  <2>5. Mem!TypeOK
    BY <2>1, <2>2, <2>4, Zenon DEF LoadInv, V!TypeOK, Mem!TypeOK
  <2> QED
    BY <2>1, <2>3, <2>5 DEF LoadInv, TypeOK
<1> QED
  BY <1>1, SafeForBoth, InductiveM, PTL

\* The file keeps exactly the seed while the operations write into memory, when
\* they are done, and when the process dies in between.
THEOREM FileIsLeftAlone ==
    ASSUME Disk!SafeSizes
    PROVE  Spec => []FileKeepsSeed
<1>1. ASSUME V!SafeSizes, MInv
      PROVE  FileKeepsSeed
  <2> DEFINE ids == 1..SEED_USERS
                        \cup {DELETE_BASE + i : i \in 1..(cfg.warmup + cfg.iters)}
  <2> SUFFICES ASSUME \/ stage \in {"ops", "teardown", "finished"}
                      \/ stage = "aborted" /\ op # Disk!INSERT_ONE
               PROVE  /\ disk_users = [id \in ids |-> Disk!SeedUser(id)]
                      /\ disk_posts = [p \in 1..SEED_POSTS |-> Disk!SeedPost(p)]
    BY DEF FileKeepsSeed
  <2>1. /\ disk_users = V!SeededUsers(SEED_USERS + V!Victims)
        /\ disk_posts = V!SeededPosts(SEED_POSTS)
        /\ cfg \in Configs
    <3>1. OnMemory \/ DiedLate
      BY DEF OnMemory, DiedLate, V!INSERT_ONE, Disk!INSERT_ONE
    <3> QED
      BY <1>1, <3>1 DEF MInv, DiskSeeded, V!RInv, V!IInv, V!TypeOK
  <2>2. \A id : V!SeedUser(id) = Disk!SeedUser(id)
    BY DEF V!SeedUser, Disk!SeedUser
  <2>3. disk_posts = [p \in 1..SEED_POSTS |-> Disk!SeedPost(p)]
    BY <2>1 DEF V!SeededPosts, V!SeedPost, Disk!SeedPost
  <2>4. DOMAIN disk_users = 1..SEED_USERS \cup V!VictimIds
    BY <1>1, <2>1, SizesAssumption, IdsAssumption, ConfigsAssumption,
       BuildAssumption, BoundsAssumption, SuitesOk, V!AllSeedIds
  <2>5. V!VictimIds = {DELETE_BASE + i : i \in 1..(cfg.warmup + cfg.iters)}
    <3>1. cfg \in [warmup : Nat, iters : Nat, bulk_iters : Nat, read_iters : Nat]
      BY <2>1, ConfigsAssumption
    <3> DEFINE n == cfg.warmup + cfg.iters
    <3>2. n \in Nat /\ DELETE_BASE \in Nat /\ V!Victims = n
      BY <3>1, IdsAssumption DEF V!Victims
    <3>3. V!VictimIds = (DELETE_BASE + 1)..(DELETE_BASE + n)
      BY <3>2 DEF V!VictimIds
    <3> HIDE DEF n
    <3>4. (DELETE_BASE + 1)..(DELETE_BASE + n) = {DELETE_BASE + i : i \in 1..n}
      <4>1. \A x \in (DELETE_BASE + 1)..(DELETE_BASE + n) :
                x - DELETE_BASE \in 1..n /\ x = DELETE_BASE + (x - DELETE_BASE)
        BY <3>2
      <4>2. \A i \in 1..n :
                DELETE_BASE + i \in (DELETE_BASE + 1)..(DELETE_BASE + n)
        BY <3>2
      <4> QED
        BY <4>1, <4>2
    <3> QED
      BY <3>3, <3>4 DEF n
  <2>6. \A id \in DOMAIN disk_users : disk_users[id] = V!SeedUser(id)
    BY <2>1 DEF V!SeededUsers
  <2>7. disk_users = [id \in DOMAIN disk_users |-> disk_users[id]]
    BY <2>1 DEF V!SeededUsers
  <2>8. DOMAIN disk_users = ids
    BY <2>4, <2>5
  <2> HIDE DEF ids
  <2>9. disk_users = [id \in ids |-> Disk!SeedUser(id)]
    BY <2>2, <2>6, <2>7, <2>8
  <2> QED
    BY <2>3, <2>9
<1>2. MInv => FileKeepsSeed
  BY <1>1, SafeForBoth
<1> QED
  BY <1>2, SafeForBoth, InductiveM, PTL

-----------------------------------------------------------------------
(* The refinement.                                                           *)

\* The contract sees the same, whether it looks through SuiteRun or at the
\* database in memory.
SameView ==
    /\ V!ContractPhase = Mem!ContractPhase
    /\ V!Visible(Users) = Mem!Visible(mem_users)
    /\ V!Visible(Posts) = Mem!Visible(mem_posts)

\* What the contract looks at is the same through the view as through memory.
LEMMA ViewIsSame == SameView
<1>1. V!ContractPhase = Mem!ContractPhase
  BY Zenon DEF V!ContractPhase, Mem!ContractPhase, V!SetupStages, Mem!SetupStages
<1>2. /\ V!Visible(Users) = Mem!Visible(mem_users)
      /\ V!Visible(Posts) = Mem!Visible(mem_posts)
  BY DEF V!Visible, Mem!Visible, V!NoRows, Mem!NoRows, Users, Posts, OnMemory
<1> QED
  BY <1>1, <1>2 DEF SameView

\* So the contract's data are the same through both.
LEMMA ContractData ==
    ASSUME SameView
    PROVE  /\ V!Contract!Order = Mem!Contract!Order
           /\ \A name : V!Contract!Total(name) = Mem!Contract!Total(name)
           /\ V!Contract!NoRows = Mem!Contract!NoRows
           /\ \A n : V!Contract!SeededUsers(n) = Mem!Contract!SeededUsers(n)
           /\ V!Contract!SeededPosts = Mem!Contract!SeededPosts
           /\ \A i : V!Contract!Target(i) = Mem!Contract!Target(i)
           /\ \A rows, ids, r :
                 V!Contract!With(rows, ids, r) = Mem!Contract!With(rows, ids, r)
           /\ V!Contract!Active = Mem!Contract!Active
           /\ \A S : V!Contract!Cardinality(S) = Mem!Contract!Cardinality(S)
<1>1. /\ V!Contract!Order = Mem!Contract!Order
      /\ V!Contract!NoRows = Mem!Contract!NoRows
      /\ V!Contract!SeededPosts = Mem!Contract!SeededPosts
      /\ V!Contract!Active = Mem!Contract!Active
  BY Zenon
     DEF SameView, V!Contract!Order, Mem!Contract!Order, V!Contract!NoRows,
         Mem!Contract!NoRows, V!Contract!SeededPosts, Mem!Contract!SeededPosts,
         V!Contract!Active, Mem!Contract!Active
<1>2. \A name : V!Contract!Total(name) = Mem!Contract!Total(name)
  BY Zenon DEF V!Contract!Total, Mem!Contract!Total, V!Contract!Reads,
               Mem!Contract!Reads
<1>3. \A n : V!Contract!SeededUsers(n) = Mem!Contract!SeededUsers(n)
  BY Zenon DEF V!Contract!SeededUsers, Mem!Contract!SeededUsers,
               V!Contract!Victims, Mem!Contract!Victims
<1>4. /\ \A i : V!Contract!Target(i) = Mem!Contract!Target(i)
      /\ \A rows, ids, r :
            V!Contract!With(rows, ids, r) = Mem!Contract!With(rows, ids, r)
      /\ \A S : V!Contract!Cardinality(S) = Mem!Contract!Cardinality(S)
  BY Zenon DEF V!Contract!Target, Mem!Contract!Target, V!Contract!With,
               Mem!Contract!With, V!Contract!Cardinality, Mem!Contract!Cardinality
<1> QED
  BY <1>1, <1>2, <1>3, <1>4

\* So are its steps other than the operations.
LEMMA ContractSteps ==
    ASSUME SameView, SameView'
    PROVE  /\ V!Contract!Setup => Mem!Contract!Setup
           /\ V!Contract!NextOp => Mem!Contract!NextOp
           /\ V!Contract!Begin => Mem!Contract!Begin
           /\ V!Contract!Die => Mem!Contract!Die
           /\ UNCHANGED V!Contract!vars => UNCHANGED Mem!Contract!vars
<1>1. V!Contract!Setup => Mem!Contract!Setup
  BY ContractData, Zenon DEF SameView, V!Contract!Setup, Mem!Contract!Setup
<1>2. V!Contract!NextOp => Mem!Contract!NextOp
  BY ContractData, Zenon DEF SameView, V!Contract!NextOp, Mem!Contract!NextOp
<1>3. V!Contract!Begin => Mem!Contract!Begin
  BY ContractData, Zenon DEF SameView, V!Contract!Begin, Mem!Contract!Begin
<1>4. V!Contract!Die => Mem!Contract!Die
  BY ContractData, Zenon DEF SameView, V!Contract!Die, Mem!Contract!Die
<1>5. UNCHANGED V!Contract!vars => UNCHANGED Mem!Contract!vars
  BY Zenon DEF SameView, V!Contract!vars, Mem!Contract!vars
<1> QED
  BY <1>1, <1>2, <1>3, <1>4, <1>5

\* And the operations.
LEMMA ContractOperations ==
    ASSUME SameView, SameView'
    PROVE  V!Contract!Operation => Mem!Contract!Operation
<1>1. \A name : V!Contract!Call(name) => Mem!Contract!Call(name)
  BY ContractData, Zenon DEF SameView, V!Contract!Call, Mem!Contract!Call
<1>2. V!Contract!insert_one => Mem!Contract!insert_one
  BY <1>1, ContractData
     DEF SameView, V!Contract!insert_one, Mem!Contract!insert_one
<1>3. V!Contract!insert_bulk => Mem!Contract!insert_bulk
  BY <1>1, ContractData, Zenon
     DEF SameView, V!Contract!insert_bulk, Mem!Contract!insert_bulk
<1>4. V!Contract!fetch_by_id => Mem!Contract!fetch_by_id
  BY <1>1, ContractData
     DEF SameView, V!Contract!fetch_by_id, Mem!Contract!fetch_by_id
<1>5. V!Contract!fetch_page => Mem!Contract!fetch_page
  BY <1>1, ContractData, Zenon
     DEF SameView, V!Contract!fetch_page, Mem!Contract!fetch_page
<1>6. V!Contract!join_query => Mem!Contract!join_query
  BY <1>1, ContractData, Zenon
     DEF SameView, V!Contract!join_query, Mem!Contract!join_query
<1>7. ASSUME V!Contract!update_one
      PROVE  Mem!Contract!update_one
  <2> DEFINE n == IF stage = "ops" THEN k ELSE 0
             rows == Mem!Visible(mem_users)
             i == Mem!Contract!Target(n)
  <2>1. V!Visible(Users) = rows /\ V!Visible(Users)' = rows'
    BY DEF SameView
  <2>2. V!Contract!Target(n) = i
    BY ContractData
  <2>3. /\ V!Contract!Call("update_one")
        /\ V!Contract!Target(n) \in DOMAIN V!Visible(Users)
        /\ V!Visible(Users)' = [V!Visible(Users) EXCEPT
                                   ![V!Contract!Target(n)].name = "renamed"]
    BY <1>7, Zenon DEF V!Contract!update_one
  <2>4. i \in DOMAIN rows /\ rows' = [rows EXCEPT ![i].name = "renamed"]
    <3> HIDE DEF i, rows
    <3> QED
      BY <2>1, <2>2, <2>3
  <2> QED
    BY <1>1, <2>3, <2>4, Zenon DEF Mem!Contract!update_one
<1>8. V!Contract!delete_one => Mem!Contract!delete_one
  BY <1>1, ContractData, Zenon
     DEF SameView, V!Contract!delete_one, Mem!Contract!delete_one
<1> QED
  BY <1>2, <1>3, <1>4, <1>5, <1>6, <1>7, <1>8, Zenon
     DEF V!Contract!Operation, Mem!Contract!Operation

\* Each step is one of the contract or does not show.
LEMMA NextShown ==
    ASSUME V!SafeSizes, Nat \ {0} \subseteq Ids, MInv, MInv', [Next]_vars
    PROVE  [V!Contract!Next]_(V!Contract!vars)
<1>1. V!RInv /\ V!RInv'
  BY DEF MInv
<1>2. CASE [V!Next]_(V!vars)
  BY <1>1, <1>2, SizesAssumption, IdsAssumption, ConfigsAssumption,
     BuildAssumption, BoundsAssumption, SuitesOk, V!NextShown
<1>3. CASE Outage
  <2>1. /\ stage \in V!Working /\ stage' = "aborted" /\ failure' = "outside"
        /\ UNCHANGED <<suite, cfg>>
    BY <1>3 DEF Outage, Disk!Outage, Disk!Working, V!Working, Disk!SetupStages,
                V!SetupStages
  <2>2. V!Contract!Die
    BY <2>1, SizesAssumption, IdsAssumption, ConfigsAssumption,
       BuildAssumption, BoundsAssumption, SuitesOk, V!EndShown
  <2> QED
    BY <2>2 DEF V!Contract!Next
<1>4. CASE Rerun
  <2>1. /\ stage \in {"finished", "aborted"} /\ stage' = "ddl"
        /\ cfg' \in Configs
    BY <1>4 DEF Rerun, Disk!Rerun, Disk!Idle
  <2>2. V!WhyAborted /\ suite' \in MemorySuites
    BY <1>1 DEF V!RInv, V!IInv, V!TypeOK
  <2>3. V!Contract!Begin
    BY <2>1, <2>2, SizesAssumption, IdsAssumption, ConfigsAssumption,
       BuildAssumption, BoundsAssumption, SuitesOk, V!StartShown
  <2> QED
    BY <2>3 DEF V!Contract!Next
<1>5. CASE UNCHANGED vars
  <2>1. UNCHANGED V!vars
    BY <1>5 DEF vars, control, disk, mem, V!vars, Users, Posts, OnMemory
  <2> QED
    BY <1>2, <2>1
<1> QED
  BY <1>2, <1>3, <1>4, <1>5, SeedDiskStep, LoadKeepsInv, UseMemoryInv, WorkStep
     DEF Next, Program

\* The in-memory suites keep the contract of the trait: setup() with its seed
\* on a file and its copy of the file looks like one step to the seed, on
\* whatever file an earlier process left, and each operation on the copy like
\* one step that succeeds.
THEOREM MemoryKeepsContract ==
    ASSUME Disk!SafeSizes, Nat \ {0} \subseteq Ids
    PROVE  Spec => KeepsContract
<1>1. ASSUME V!SafeSizes, Init
      PROVE  Mem!Contract!Init
  <2>1. V!Init
    BY <1>1, InitStep
  <2>2. V!Contract!Init
    BY <2>1, SizesAssumption, IdsAssumption, ConfigsAssumption,
       BuildAssumption, BoundsAssumption, SuitesOk, V!InitShown
  <2> QED
    BY <2>2, ViewIsSame, ContractData, Zenon
       DEF SameView, V!Contract!Init, Mem!Contract!Init
<1>2. ASSUME V!SafeSizes, MInv, MInv', [Next]_vars
      PROVE  [Mem!Contract!Next]_(Mem!Contract!vars)
  <2>1. SameView /\ SameView'
    BY ViewIsSame, PTL
  <2>2. [V!Contract!Next]_(V!Contract!vars)
    BY <1>2, NextShown
  <2> QED
    BY <2>1, <2>2, ContractSteps, ContractOperations, Zenon
       DEF V!Contract!Next, Mem!Contract!Next, V!Contract!Work, Mem!Contract!Work
<1>3. Init => Mem!Contract!Init
  BY <1>1, SafeForBoth
<1>4. MInv /\ MInv' /\ [Next]_vars => [Mem!Contract!Next]_(Mem!Contract!vars)
  BY <1>2, SafeForBoth
<1> QED
  BY <1>3, <1>4, SafeForBoth, InductiveM, PTL
     DEF Spec, KeepsContract, Mem!KeepsContract, Mem!Contract!Spec

=======================================================================
