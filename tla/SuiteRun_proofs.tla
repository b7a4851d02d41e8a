------------------------ MODULE SuiteRun_proofs -----------------------
(* Proofs about SuiteRun, for every size, every BenchConfig and every set of *)
(* suites that satisfy SafeSizes.                                            *)
EXTENDS SuiteRun, FiniteSetTheorems, TLAPS

-----------------------------------------------------------------------
(* Facts about the constants and the numbering of rows.                      *)

\* The number of victims, as long as nothing wraps.
Victims == cfg.warmup + cfg.iters

VictimIds == (DELETE_BASE + 1)..(DELETE_BASE + Victims)

LEMMA ConfigFacts ==
    ASSUME SafeSizes, cfg \in Configs
    PROVE  /\ cfg.warmup \in Nat /\ cfg.iters \in Nat
           /\ cfg.bulk_iters \in Nat /\ cfg.read_iters \in Nat
           /\ Victims \in Nat
           /\ DeleteRows = Victims
           /\ DELETE_BASE + Victims < U32 \div 2
           /\ DELETE_BASE + Victims <= SeqStart
<1>1. cfg \in [warmup : Nat, iters : Nat, bulk_iters : Nat, read_iters : Nat]
  BY ConfigsAssumption
<1>2. U32 \div 2 \in Nat /\ U32 \div 2 <= U32
  BY IdsAssumption
<1>3. SafeConfig(cfg)
  BY DEF SafeSizes
<1> QED
  BY <1>1, <1>2, <1>3, IdsAssumption
     DEF SafeConfig, Victims, DeleteRows, Wrap32

\* The number of calls of an operation is a natural number.
LEMMA CallsType ==
    ASSUME SafeSizes, cfg \in Configs, NEW o
    PROVE  Calls(o) \in Nat
  BY ConfigFacts DEF Calls, AllCalls, Lesser

\* Reads and updates aim at a seeded user.
LEMMA TargetIsSeeded ==
    ASSUME NEW i \in Nat
    PROVE  /\ target_id(i) = 1 + (i % SEED_USERS)
           /\ target_id(i) \in 1..SEED_USERS
<1>1. i % SEED_USERS \in 0..(SEED_USERS - 1)
  BY SizesAssumption
<1>2. 1 + (i % SEED_USERS) < U32 \div 2
  BY <1>1, SizesAssumption, IdsAssumption
<1> QED
  BY <1>1, <1>2, SizesAssumption, IdsAssumption DEF target_id, AsI32

\* Posts refer to seeded users.
LEMMA PostRefersToSeeded ==
    ASSUME NEW i \in Nat
    PROVE  /\ SeedPost(i) \in PostRow
           /\ SeedPost(i).user_id \in 1..SEED_USERS
<1>1. i % SEED_USERS \in 0..(SEED_USERS - 1)
  BY SizesAssumption
<1> QED
  BY <1>1, SizesAssumption DEF SeedPost, PostRow

\* The i-th delete aims at the i-th victim.
LEMMA DeleteIsVictim ==
    ASSUME SafeSizes, cfg \in Configs, NEW i \in Nat, i < Victims
    PROVE  delete_id(i) = DELETE_BASE + 1 + i /\ Wrap32(i) = i
<1>1. U32 \div 2 \in Nat /\ U32 \div 2 <= U32
  BY IdsAssumption
<1> QED
  BY <1>1, ConfigFacts, IdsAssumption DEF delete_id, AsI32, Wrap32

\* A seeding statement continues where the one before it ended.
LEMMA SeedIds ==
    ASSUME SafeSizes, cfg \in Configs,
           NEW j \in Nat, 1 <= j, j <= SEED_USERS + Victims
    PROVE  /\ SeedUserId(j) \in Nat
           /\ j <= SEED_USERS => SeedUserId(j) = j
           /\ j > SEED_USERS => SeedUserId(j) = DELETE_BASE + (j - SEED_USERS)
<1>1. U32 \div 2 \in Nat /\ U32 \div 2 <= U32
  BY IdsAssumption
<1> QED
  BY <1>1, ConfigFacts, IdsAssumption, SizesAssumption DEF SeedUserId, Wrap32


-----------------------------------------------------------------------
(* The inductive invariant.  Whatever the stage "ddl" finds is dropped; from *)
(* there on each stage knows exactly what the ones before it left.           *)

\* The rows of users after the first n of seed_sql().
SeededUsers(n) ==
    [id \in {SeedUserId(j) : j \in 1..n} |-> SeedUser(id)]

SeededPosts(n) == [p \in 1..n |-> SeedPost(p)]

\* A transaction is open only between BulkBegin and BulkCommit; what it holds
\* collides neither with a seeded user nor with a victim.
TxInv ==
    /\ row # NoTx =>
          /\ stage = "ops" /\ op = INSERT_BULK
          /\ k < Calls(op) /\ suite.bulk = "rows"
    /\ row = NoTx => pending = NoRows
    /\ DOMAIN pending \cap (1..SEED_USERS \cup VictimIds) = {}

DdlInv ==
    stage = "ddl" =>
        /\ k \in 0..4
        /\ k >= 1 => posts = NoRows
        /\ k >= 2 => users = NoRows
        /\ k \in {1, 2, 3} => "posts" \notin tables
        /\ k = 2 => "users" \notin tables
        /\ k = 4 /\ IsPostgres => posts_seq = 0

SeedUsersInv ==
    stage = "users" =>
        /\ k <= SEED_USERS + Victims
        /\ users = SeededUsers(k)
        /\ posts = NoRows
        /\ IsPostgres => posts_seq = 0

SeedPostsInv ==
    stage = "posts" =>
        /\ k <= SEED_POSTS
        /\ users = SeededUsers(SEED_USERS + Victims)
        /\ posts = SeededPosts(k)
        /\ IsPostgres => posts_seq = k

SetvalInv ==
    stage = "setval" =>
        /\ users = SeededUsers(SEED_USERS + Victims)
        /\ posts = SeededPosts(SEED_POSTS)
        /\ k <= IF IsPostgres THEN 2 ELSE 0
        /\ k >= 1 => users_seq = SeqStart
        /\ k >= 2 => posts_seq = SeqStart

\* Victims deleted so far.
Deleted == IF op = DELETE_ONE THEN k ELSE 0

HasLargest(ids) == \E m \in ids : \A x \in ids : x <= m

OpsInv ==
    stage = "ops" =>
        /\ k <= Calls(op)
        /\ posts = SeededPosts(SEED_POSTS)
        /\ IsFiniteSet(DOMAIN users)
        /\ \A id \in 1..SEED_USERS :
              /\ id \in DOMAIN users
              /\ users[id].active = (id % 4 # 0)
        /\ \A id \in VictimIds :
              /\ id \in DOMAIN users <=> id > DELETE_BASE + Deleted
              /\ id \in DOMAIN users => users[id].name = "victim"
        /\ IsPostgres => \A id \in DOMAIN users : id <= users_seq
        /\ IsPostgres => SeqStart <= users_seq
        /\ ~IsPostgres /\ op <= INSERT_BULK =>
              HasLargest(DOMAIN users \cup DOMAIN pending)
        /\ IsFiniteSet(DOMAIN pending)

IInv ==
    /\ TypeOK
    /\ OnlyOutsideFailures
    /\ ReferentialIntegrity
    /\ TxInv
    /\ DdlInv
    /\ SeedUsersInv
    /\ SeedPostsInv
    /\ SetvalInv
    /\ OpsInv


LEMMA NoRowsFacts ==
    /\ DOMAIN NoRows = {}
    /\ NoRows \in [DOMAIN NoRows -> UserRow]
    /\ NoRows \in [DOMAIN NoRows -> PostRow]
  BY DEF NoRows

LEMMA OverlayFacts ==
    ASSUME NEW t, NEW r
    PROVE  /\ DOMAIN Overlay(t, r) = DOMAIN t \cup DOMAIN r
           /\ \A id \in DOMAIN r : Overlay(t, r)[id] = r[id]
           /\ \A id \in DOMAIN t \ DOMAIN r : Overlay(t, r)[id] = t[id]
           /\ \A T : t \in [DOMAIN t -> T] /\ r \in [DOMAIN r -> T] =>
                        Overlay(t, r) \in [DOMAIN Overlay(t, r) -> T]
  BY DEF Overlay

\* Each statement of ddl() has its place in the batch.
LEMMA DdlPosition ==
    ASSUME k \in Nat, NEW s, AtDdl(s)
    PROVE  /\ s = "DropPosts" => k = 0
           /\ s = "DropUsers" => k = 1
           /\ s = "CreateUsers" => k = 2
           /\ s = "CreatePosts" => k = 3
<1>1. k \in 0..3
  BY DEF AtDdl, Ddl
<1> QED
  BY <1>1 DEF AtDdl, Ddl

-----------------------------------------------------------------------
(* One lemma per step of the program.                                        *)

LEMMA InitIInv ==
    ASSUME SafeSizes, Init
    PROVE  IInv
<1>1. TypeOK
  BY NoRowsFacts, BoundsAssumption, SizesAssumption
     DEF Init, TypeOK, FirstSuites, Working, SetupStages, INSERT_ONE, DELETE_ONE,
         NoTx
<1> QED
  BY <1>1, NoRowsFacts
     DEF Init, IInv, OnlyOutsideFailures, ReferentialIntegrity, TxInv, DdlInv,
         SeedUsersInv, SeedPostsInv, SetvalInv, OpsInv

LEMMA DropPostsStep ==
    ASSUME SafeSizes, IInv, DropPosts
    PROVE  IInv'
<1>1. k = 0
  BY DdlPosition DEF IInv, TypeOK, DropPosts
<1>2. TypeOK'
  BY <1>1, NoRowsFacts
     DEF IInv, TypeOK, DropPosts, AtDdl, Settle, tx, env, Working, SetupStages
<1> QED
  BY <1>1, <1>2, NoRowsFacts
     DEF IInv, TypeOK, DropPosts, AtDdl, Settle, tx, env, OnlyOutsideFailures,
         ReferentialIntegrity, TxInv, DdlInv, SeedUsersInv, SeedPostsInv,
         SetvalInv, OpsInv, VictimIds, Victims, IsPostgres

LEMMA DropUsersStep ==
    ASSUME SafeSizes, IInv, DropUsers
    PROVE  IInv'
<1>1. k = 1 /\ posts = NoRows
  BY DdlPosition DEF IInv, TypeOK, DropUsers, AtDdl, DdlInv
<1>2. TypeOK'
  BY <1>1, NoRowsFacts
     DEF IInv, TypeOK, DropUsers, AtDdl, Settle, tx, env, Working, SetupStages
<1> QED
  BY <1>1, <1>2, NoRowsFacts
     DEF IInv, TypeOK, DropUsers, AtDdl, Settle, tx, env, OnlyOutsideFailures,
         ReferentialIntegrity, TxInv, DdlInv, SeedUsersInv, SeedPostsInv,
         SetvalInv, OpsInv, VictimIds, Victims, IsPostgres

LEMMA CreateUsersStep ==
    ASSUME SafeSizes, IInv, CreateUsers
    PROVE  IInv'
<1>1. k = 2 /\ "users" \notin tables /\ "posts" \notin tables
  BY DdlPosition DEF IInv, TypeOK, CreateUsers, AtDdl, DdlInv
<1>2. TypeOK'
  BY <1>1
     DEF IInv, TypeOK, CreateUsers, AtDdl, Settle, tx, env, Working, SetupStages
<1> QED
  BY <1>1, <1>2
     DEF IInv, TypeOK, CreateUsers, AtDdl, Settle, tx, env, OnlyOutsideFailures,
         ReferentialIntegrity, TxInv, DdlInv, SeedUsersInv, SeedPostsInv,
         SetvalInv, OpsInv, VictimIds, Victims, IsPostgres

LEMMA CreatePostsStep ==
    ASSUME SafeSizes, IInv, CreatePosts
    PROVE  IInv'
<1>1. k = 3 /\ "posts" \notin tables
  BY DdlPosition DEF IInv, TypeOK, CreatePosts, AtDdl, DdlInv
<1>2. TypeOK'
  BY <1>1
     DEF IInv, TypeOK, CreatePosts, AtDdl, Settle, tx, env, Working, SetupStages
<1> QED
  BY <1>1, <1>2
     DEF IInv, TypeOK, CreatePosts, AtDdl, Settle, tx, env, OnlyOutsideFailures,
         ReferentialIntegrity, TxInv, DdlInv, SeedUsersInv, SeedPostsInv,
         SetvalInv, OpsInv, VictimIds, Victims, IsPostgres

LEMMA DdlBatchStep ==
    ASSUME SafeSizes, IInv, DdlBatch
    PROVE  IInv'
<1>1. TypeOK'
  BY NoRowsFacts
     DEF IInv, TypeOK, DdlBatch, Settle, tx, env, Working, SetupStages, Ddl
<1> QED
  BY <1>1, NoRowsFacts
     DEF IInv, TypeOK, DdlBatch, Settle, tx, env, OnlyOutsideFailures,
         ReferentialIntegrity, TxInv, DdlInv, SeedUsersInv, SeedPostsInv,
         SetvalInv, OpsInv, VictimIds, Victims, IsPostgres, Ddl


\* The length of the loop of each stage.
LEMMA LoopLengths ==
    ASSUME SafeSizes, cfg \in Configs
    PROVE  /\ stage = "ddl" => LoopLength = 4
           /\ stage = "users" => LoopLength = SEED_USERS + Victims
           /\ stage = "posts" => LoopLength = SEED_POSTS
           /\ stage = "setval" => LoopLength = IF IsPostgres THEN 2 ELSE 0
           /\ stage = "ops" => LoopLength = Calls(op)
  BY ConfigFacts DEF LoopLength, Ddl

LEMMA SeededUsersType ==
    ASSUME SafeSizes, cfg \in Configs, NEW n \in 0..(SEED_USERS + Victims)
    PROVE  /\ DOMAIN SeededUsers(n) \subseteq Nat
           /\ SeededUsers(n) \in [DOMAIN SeededUsers(n) -> UserRow]
           /\ DOMAIN SeededUsers(n) = {SeedUserId(j) : j \in 1..n}
           /\ SeededUsers(0) = NoRows
<1>1. \A j \in 1..n : SeedUserId(j) \in Nat
  BY SeedIds, ConfigFacts, SizesAssumption
<1>2. \A id : SeedUser(id) \in UserRow
  BY DEF SeedUser, UserRow
<1>3. DOMAIN SeededUsers(n) = {SeedUserId(j) : j \in 1..n}
  BY DEF SeededUsers
<1>4. SeededUsers(0) = NoRows
  <2>1. 1..0 = {}
    OBVIOUS
  <2> QED
    BY <2>1 DEF SeededUsers, NoRows
<1> QED
  BY <1>1, <1>2, <1>3, <1>4 DEF SeededUsers

\* All the ids seed_sql() gives to users.
LEMMA AllSeedIds ==
    ASSUME SafeSizes, cfg \in Configs
    PROVE  DOMAIN SeededUsers(SEED_USERS + Victims) = 1..SEED_USERS \cup VictimIds
<1> DEFINE N == SEED_USERS + Victims
<1>1. N \in Nat /\ SEED_USERS \in Nat /\ Victims \in Nat /\ DELETE_BASE \in Nat
  BY ConfigFacts, SizesAssumption, IdsAssumption
<1>2. DOMAIN SeededUsers(N) = {SeedUserId(j) : j \in 1..N}
  BY DEF SeededUsers
<1>3. \A j \in 1..N : SeedUserId(j) \in 1..SEED_USERS \cup VictimIds
  <2> TAKE j \in 1..N
  <2>1. /\ SeedUserId(j) \in Nat
        /\ j <= SEED_USERS => SeedUserId(j) = j
        /\ j > SEED_USERS => SeedUserId(j) = DELETE_BASE + (j - SEED_USERS)
    BY <1>1, SeedIds
  <2> QED
    BY <2>1, <1>1 DEF VictimIds
<1>4. \A id \in 1..SEED_USERS : \E j \in 1..N : SeedUserId(j) = id
  <2> TAKE id \in 1..SEED_USERS
  <2>1. id \in 1..N /\ SeedUserId(id) = id
    BY <1>1, SeedIds
  <2> QED
    BY <2>1
<1>5. \A id \in VictimIds : \E j \in 1..N : SeedUserId(j) = id
  <2> TAKE id \in VictimIds
  <2> DEFINE j == SEED_USERS + (id - DELETE_BASE)
  <2>1. j \in 1..N /\ j > SEED_USERS /\ id = DELETE_BASE + (j - SEED_USERS)
    BY <1>1 DEF VictimIds
  <2>2. SeedUserId(j) = id
    BY <2>1, <1>1, SeedIds
  <2> QED
    BY <2>1, <2>2
<1> QED
  BY <1>2, <1>3, <1>4, <1>5

\* Different rows have different ids: SEED_USERS < DELETE_BASE.
LEMMA SeedIdsDiffer ==
    ASSUME SafeSizes, cfg \in Configs,
           NEW a \in 1..(SEED_USERS + Victims), NEW b \in 1..(SEED_USERS + Victims),
           SeedUserId(a) = SeedUserId(b)
    PROVE  a = b
<1>1. /\ SEED_USERS \in Nat /\ Victims \in Nat /\ DELETE_BASE \in Nat
      /\ SEED_USERS < DELETE_BASE /\ a \in Nat /\ b \in Nat
  BY ConfigFacts, SizesAssumption, IdsAssumption
<1>2. /\ a <= SEED_USERS => SeedUserId(a) = a
      /\ a > SEED_USERS => SeedUserId(a) = DELETE_BASE + (a - SEED_USERS)
  BY <1>1, SeedIds
<1>3. /\ b <= SEED_USERS => SeedUserId(b) = b
      /\ b > SEED_USERS => SeedUserId(b) = DELETE_BASE + (b - SEED_USERS)
  BY <1>1, SeedIds
<1> QED
  BY <1>1, <1>2, <1>3

LEMMA SeedUsersStep ==
    ASSUME SafeSizes, IInv, SeedUsers
    PROVE  IInv'
<1> DEFINE N == SEED_USERS + Victims
           batch == (k + 1)..ChunkEnd
           ids == {SeedUserId(j) : j \in batch}
<1>1. /\ stage = "users" /\ k \in Nat /\ k < N /\ N \in Nat /\ cfg \in Configs
      /\ users = SeededUsers(k) /\ posts = NoRows
  BY LoopLengths, ConfigFacts, SizesAssumption
     DEF IInv, TypeOK, SeedUsers, SeedUsersInv
<1>2. ChunkEnd \in Nat /\ k < ChunkEnd /\ ChunkEnd <= N
  BY <1>1, LoopLengths, SizesAssumption DEF ChunkEnd, Lesser
<1>3. DOMAIN users = {SeedUserId(j) : j \in 1..k}
  BY <1>1 DEF SeededUsers
<1>4. ids \cap DOMAIN users = {}
  <2> SUFFICES ASSUME NEW a \in 1..k, NEW b \in batch,
                      SeedUserId(a) = SeedUserId(b)
               PROVE  FALSE
    BY <1>3
  <2>1. a \in 1..N /\ b \in 1..N /\ a # b
    BY <1>1, <1>2
  <2> QED
    BY <2>1, <1>1, SeedIdsDiffer
<1>5. \A a, b \in batch : SeedUserId(a) = SeedUserId(b) => a = b
  <2> SUFFICES ASSUME NEW a \in batch, NEW b \in batch,
                      SeedUserId(a) = SeedUserId(b)
               PROVE  a = b
    OBVIOUS
  <2>1. a \in 1..N /\ b \in 1..N
    BY <1>1, <1>2
  <2> QED
    BY <2>1, <1>1, SeedIdsDiffer
<1> DEFINE ok == /\ ids \cap DOMAIN users = {}
                 /\ \A a, b \in batch : SeedUserId(a) = SeedUserId(b) => a = b
<1> HIDE DEF ids, batch
<1>6. /\ users' = Overlay(users, [id \in ids |-> SeedUser(id)])
      /\ stage' = "users" /\ failure' = failure /\ k' = ChunkEnd /\ op' = op
      /\ UNCHANGED <<tables, posts, users_seq, posts_seq, tx, env>>
  <2>1. ok
    BY <1>4, <1>5
  <2>2. /\ users' = IF ok THEN Overlay(users, [id \in ids |-> SeedUser(id)])
                    ELSE users
        /\ Settle(ok, "statement", ChunkEnd)
        /\ UNCHANGED <<tables, posts, users_seq, posts_seq, tx, env>>
    BY DEF SeedUsers, ids, batch
  <2> HIDE DEF ok
  <2> QED
    BY <1>1, <2>1, <2>2 DEF Settle
<1> USE DEF ids, batch
<1>7. users' = SeededUsers(ChunkEnd)
  <2>1. {SeedUserId(j) : j \in 1..k} \cup ids
            = {SeedUserId(j) : j \in 1..ChunkEnd}
    <3>1. 1..ChunkEnd = 1..k \cup batch
      BY <1>1, <1>2
    <3> QED
      BY <3>1
  <2> QED
    BY <2>1, <1>1, <1>3, <1>6 DEF SeededUsers, Overlay
<1>8. TypeOK'
  <2>1. DOMAIN users' \subseteq Nat /\ users' \in [DOMAIN users' -> UserRow]
    <3>1. ChunkEnd \in 0..N
      BY <1>1, <1>2
    <3> QED
      BY <3>1, <1>1, <1>7, SeededUsersType
  <2> QED
    BY <1>1, <1>2, <1>6, <2>1 DEF IInv, TypeOK, tx, env, Working, SetupStages
<1> QED
  BY <1>1, <1>2, <1>6, <1>7, <1>8, NoRowsFacts
     DEF IInv, TypeOK, tx, env, OnlyOutsideFailures,
         ReferentialIntegrity, TxInv, DdlInv, SeedUsersInv, SeedPostsInv,
         SetvalInv, OpsInv, VictimIds, Victims, IsPostgres, SeededUsers


\* The largest of a set that has one.
LEMMA LargestChosen ==
    ASSUME NEW ids \in SUBSET Nat, HasLargest(ids)
    PROVE  LET m == CHOOSE m \in ids : \A x \in ids : x <= m
           IN  m \in ids /\ \A x \in ids : x <= m
  BY DEF HasLargest

LEMMA LastIdOfInterval ==
    ASSUME NEW n \in Nat, NEW seq, IsPostgres => seq = n
    PROVE  LastId(1..n, seq) = n
<1>1. CASE IsPostgres
  BY <1>1 DEF LastId
<1>2. CASE ~IsPostgres /\ n = 0
  <2>1. 1..n = {}
    BY <1>2
  <2> QED
    BY <1>2, <2>1 DEF LastId
<1>3. CASE ~IsPostgres /\ n # 0
  <2> DEFINE m == CHOOSE m \in 1..n : \A x \in 1..n : x <= m
  <2>1. n \in 1..n /\ \A x \in 1..n : x <= n
    BY <1>3
  <2>2. HasLargest(1..n)
    BY <2>1 DEF HasLargest
  <2>3. m \in 1..n /\ \A x \in 1..n : x <= m
    <3>1. 1..n \in SUBSET Nat
      OBVIOUS
    <3> QED
      BY <3>1, <2>2, LargestChosen, Zenon
  <2>4. m = n
    <3> HIDE DEF m
    <3> QED
      BY <2>1, <2>3
  <2>5. 1..n # {}
    BY <2>1
  <2> QED
    BY <1>3, <2>4, <2>5 DEF LastId
<1> QED
  BY <1>1, <1>2, <1>3

LEMMA SeededPostsFacts ==
    ASSUME NEW n \in Nat
    PROVE  /\ DOMAIN SeededPosts(n) = 1..n
           /\ DOMAIN SeededPosts(n) \subseteq Nat
           /\ SeededPosts(n) \in [DOMAIN SeededPosts(n) -> PostRow]
           /\ \A p \in 1..n : SeededPosts(n)[p].user_id \in 1..SEED_USERS
<1>1. \A p \in 1..n : /\ SeedPost(p) \in PostRow
                      /\ SeedPost(p).user_id \in 1..SEED_USERS
  BY PostRefersToSeeded
<1> QED
  BY <1>1 DEF SeededPosts

LEMMA SeedPostsStep ==
    ASSUME SafeSizes, IInv, SeedPosts
    PROVE  IInv'
<1>1. /\ stage = "posts" /\ k \in Nat /\ k < SEED_POSTS /\ SEED_POSTS \in Nat
      /\ cfg \in Configs
      /\ users = SeededUsers(SEED_USERS + Victims) /\ posts = SeededPosts(k)
      /\ IsPostgres => posts_seq = k
  BY LoopLengths, SizesAssumption DEF IInv, TypeOK, SeedPosts, SeedPostsInv
<1>2. ChunkEnd \in Nat /\ k < ChunkEnd /\ ChunkEnd <= SEED_POSTS
  BY <1>1, LoopLengths, SizesAssumption DEF ChunkEnd, Lesser
<1>3. DOMAIN posts = 1..k
  BY <1>1, SeededPostsFacts
<1>4. LastId(DOMAIN posts, posts_seq) = k
  BY <1>1, <1>3, LastIdOfInterval
<1>5. 1..SEED_USERS \subseteq DOMAIN users
  BY <1>1, AllSeedIds
<1> DEFINE new == [p \in (k + 1)..(k + ChunkEnd - k) |-> SeedPost(k + p - k)]
           ok == /\ DOMAIN new \cap DOMAIN posts = {}
                 /\ EnforcesForeignKeys =>
                      \A p \in DOMAIN new : new[p].user_id \in DOMAIN users
<1>6. new = [p \in (k + 1)..ChunkEnd |-> SeedPost(p)]
  <2>1. k + ChunkEnd - k = ChunkEnd
    BY <1>1, <1>2
  <2>2. \A p \in (k + 1)..ChunkEnd : k + p - k = p
    BY <1>1, <1>2
  <2> QED
    BY <2>1, <2>2
<1>7. ok
  <2>1. \A p \in (k + 1)..ChunkEnd : SeedPost(p).user_id \in 1..SEED_USERS
    BY <1>1, <1>2, PostRefersToSeeded
  <2>2. ((k + 1)..ChunkEnd) \cap (1..k) = {}
    BY <1>1, <1>2
  <2> HIDE DEF new
  <2> QED
    BY <2>1, <2>2, <1>3, <1>5, <1>6
<1>8. /\ posts' = Overlay(posts, new)
      /\ posts_seq' = IF IsPostgres THEN ChunkEnd ELSE posts_seq
      /\ stage' = "posts" /\ failure' = failure /\ k' = ChunkEnd /\ op' = op
      /\ UNCHANGED <<tables, users, users_seq, tx, env>>
  <2>1. /\ posts' = IF ok THEN Overlay(posts, new) ELSE posts
        /\ posts_seq' = IF IsPostgres THEN k + ChunkEnd - k ELSE posts_seq
        /\ Settle(ok, "statement", ChunkEnd)
        /\ UNCHANGED <<tables, users, users_seq, tx, env>>
    BY <1>4 DEF SeedPosts
  <2>2. k + ChunkEnd - k = ChunkEnd
    BY <1>1, <1>2
  <2> HIDE DEF ok, new
  <2> QED
    BY <1>1, <1>7, <2>1, <2>2 DEF Settle
<1>9. posts' = SeededPosts(ChunkEnd)
  <2>1. 1..ChunkEnd = 1..k \cup ((k + 1)..ChunkEnd)
    BY <1>1, <1>2
  <2> HIDE DEF new
  <2> QED
    BY <2>1, <1>1, <1>3, <1>6, <1>8 DEF SeededPosts, Overlay
<1>10. ReferentialIntegrity'
  BY <1>2, <1>5, <1>8, <1>9, SeededPostsFacts DEF ReferentialIntegrity
<1>11. TypeOK'
  <2>1. DOMAIN posts' \subseteq Nat /\ posts' \in [DOMAIN posts' -> PostRow]
    BY <1>2, <1>9, SeededPostsFacts
  <2> QED
    BY <1>1, <1>2, <1>8, <2>1 DEF IInv, TypeOK, tx, env, Working, SetupStages
<1> QED
  BY <1>1, <1>2, <1>8, <1>9, <1>10, <1>11
     DEF IInv, TypeOK, tx, env, OnlyOutsideFailures,
         TxInv, DdlInv, SeedUsersInv, SeedPostsInv,
         SetvalInv, OpsInv, VictimIds, Victims, IsPostgres, SeededUsers

LEMMA SetvalUsersStep ==
    ASSUME SafeSizes, IInv, SetvalUsers
    PROVE  IInv'
<1>1. cfg \in Configs /\ stage = "setval" /\ k < LoopLength /\ k = 0
  BY DEF IInv, TypeOK, SetvalUsers
<1>2. IsPostgres
  BY <1>1, LoopLengths
<1>3. TypeOK'
  BY <1>1, IdsAssumption
     DEF IInv, TypeOK, SetvalUsers, Settle, tx, env, Working, SetupStages
<1> QED
  BY <1>1, <1>2, <1>3
     DEF IInv, TypeOK, SetvalUsers, Settle, tx, env, OnlyOutsideFailures,
         ReferentialIntegrity, TxInv, DdlInv, SeedUsersInv, SeedPostsInv,
         SetvalInv, OpsInv, VictimIds, Victims, IsPostgres, SeededUsers

LEMMA SetvalPostsStep ==
    ASSUME SafeSizes, IInv, SetvalPosts
    PROVE  IInv'
<1>1. cfg \in Configs /\ stage = "setval" /\ k < LoopLength /\ k = 1
  BY DEF IInv, TypeOK, SetvalPosts
<1>2. IsPostgres
  BY <1>1, LoopLengths
<1>3. TypeOK'
  BY <1>1, IdsAssumption
     DEF IInv, TypeOK, SetvalPosts, Settle, tx, env, Working, SetupStages
<1> QED
  BY <1>1, <1>2, <1>3
     DEF IInv, TypeOK, SetvalPosts, Settle, tx, env, OnlyOutsideFailures,
         ReferentialIntegrity, TxInv, DdlInv, SeedUsersInv, SeedPostsInv,
         SetvalInv, OpsInv, VictimIds, Victims, IsPostgres, SeededUsers


\* What the operations start from.
LEMMA OpsStart ==
    ASSUME SafeSizes, cfg \in Configs,
           users = SeededUsers(SEED_USERS + Victims)
    PROVE  /\ IsFiniteSet(DOMAIN users)
           /\ HasLargest(DOMAIN users)
           /\ \A id \in DOMAIN users : id <= SeqStart
           /\ \A id \in 1..SEED_USERS : /\ id \in DOMAIN users
                                        /\ users[id].active = (id % 4 # 0)
           /\ \A id \in VictimIds : /\ id \in DOMAIN users
                                    /\ users[id].name = "victim"
<1>1. /\ SEED_USERS \in Nat /\ SEED_USERS >= 1 /\ Victims \in Nat
      /\ DELETE_BASE \in Nat /\ SEED_USERS < DELETE_BASE
      /\ SeqStart \in Nat /\ DELETE_BASE + Victims <= SeqStart
  BY ConfigFacts, SizesAssumption, IdsAssumption
<1>2. DOMAIN users = 1..SEED_USERS \cup VictimIds
  BY AllSeedIds
<1>3. IsFiniteSet(DOMAIN users)
  <2>1. IsFiniteSet(1..SEED_USERS) /\ IsFiniteSet(VictimIds)
    BY <1>1, FS_Interval DEF VictimIds
  <2> QED
    BY <2>1, <1>2, FS_Union
<1>4. \A id \in DOMAIN users : users[id] = SeedUser(id)
  BY <1>2 DEF SeededUsers
<1>5. HasLargest(DOMAIN users)
  <2> DEFINE m == IF Victims = 0 THEN SEED_USERS ELSE DELETE_BASE + Victims
  <2>1. m \in DOMAIN users /\ \A x \in DOMAIN users : x <= m
    BY <1>1, <1>2 DEF VictimIds
  <2> QED
    BY <2>1 DEF HasLargest
<1>6. \A id \in 1..SEED_USERS : SeedUser(id).active = (id % 4 # 0)
  BY DEF SeedUser
<1>7. \A id \in VictimIds : SeedUser(id).name = "victim"
  BY <1>1 DEF SeedUser, VictimIds
<1>8. \A id \in DOMAIN users : id <= SeqStart
  BY <1>1, <1>2 DEF VictimIds
<1> QED
  BY <1>2, <1>3, <1>4, <1>5, <1>6, <1>7, <1>8

LEMMA EndOfSetupLoopStep ==
    ASSUME SafeSizes, IInv, EndOfSetupLoop
    PROVE  IInv'
<1>1. /\ cfg \in Configs /\ k = LoopLength /\ stage \in SetupStages
      /\ k' = 0 /\ row = NoTx /\ pending = NoRows
      /\ UNCHANGED <<op, failure, db, tx, env>>
  BY DEF IInv, TypeOK, TxInv, EndOfSetupLoop, SetupStages
<1>2. TypeOK'
  BY <1>1 DEF IInv, TypeOK, EndOfSetupLoop, StageAfter, db, tx, env, Working,
              SetupStages
<1>3. (OnlyOutsideFailures /\ ReferentialIntegrity /\ TxInv)'
  BY <1>1 DEF IInv, OnlyOutsideFailures, ReferentialIntegrity, TxInv, db, tx,
              env, VictimIds, Victims
<1>4. CASE stage = "ddl"
  <2>1. k = 4 /\ users = NoRows /\ posts = NoRows
        /\ (IsPostgres => posts_seq = 0)
    BY <1>1, <1>4, LoopLengths DEF IInv, DdlInv
  <2>2. users = SeededUsers(0)
    <3>1. 0 \in 0..(SEED_USERS + Victims)
      BY <1>1, ConfigFacts, SizesAssumption
    <3> QED
      BY <1>1, <2>1, <3>1, SeededUsersType
  <2>3. stage' = "users"
    BY <1>4 DEF EndOfSetupLoop, StageAfter
  <2>4. 0 <= SEED_USERS + Victims
    BY <1>1, ConfigFacts, SizesAssumption
  <2> QED
    BY <1>1, <1>2, <1>3, <2>1, <2>2, <2>3, <2>4
       DEF IInv, DdlInv, SeedUsersInv, SeedPostsInv, SetvalInv, OpsInv, Victims,
           IsPostgres, SeededUsers, db, tx, env
<1>5. CASE stage = "users"
  <2>1. users = SeededUsers(SEED_USERS + Victims) /\ posts = NoRows
        /\ (IsPostgres => posts_seq = 0)
    BY <1>1, <1>5, LoopLengths DEF IInv, SeedUsersInv
  <2>2. posts = SeededPosts(0)
    <3>1. 1..0 = {}
      OBVIOUS
    <3> QED
      BY <2>1, <3>1 DEF SeededPosts, NoRows
  <2>3. stage' = "posts"
    BY <1>5 DEF EndOfSetupLoop, StageAfter
  <2>4. 0 <= SEED_POSTS
    BY SizesAssumption
  <2> QED
    BY <1>1, <1>2, <1>3, <2>1, <2>2, <2>3, <2>4
       DEF IInv, DdlInv, SeedUsersInv, SeedPostsInv, SetvalInv, OpsInv, Victims,
           IsPostgres, SeededUsers, db, tx, env
<1>6. CASE stage = "posts"
  <2>1. users = SeededUsers(SEED_USERS + Victims)
        /\ posts = SeededPosts(SEED_POSTS)
    BY <1>1, <1>6, LoopLengths DEF IInv, SeedPostsInv
  <2>2. stage' = "setval"
    BY <1>6 DEF EndOfSetupLoop, StageAfter
  <2> QED
    BY <1>1, <1>2, <1>3, <2>1, <2>2
       DEF IInv, DdlInv, SeedUsersInv, SeedPostsInv, SetvalInv, OpsInv, Victims,
           IsPostgres, SeededUsers, db, tx, env
<1>7. CASE stage = "setval"
  <2>1. /\ users = SeededUsers(SEED_USERS + Victims)
        /\ posts = SeededPosts(SEED_POSTS)
        /\ k = IF IsPostgres THEN 2 ELSE 0
        /\ k >= 1 => users_seq = SeqStart
    BY <1>1, <1>7, LoopLengths DEF IInv, SetvalInv
  <2>2. IsPostgres => users_seq = SeqStart
    BY <2>1
  <2>3. stage' = "ops"
    BY <1>7 DEF EndOfSetupLoop, StageAfter
  <2>4. /\ UNCHANGED <<suite, cfg, op, users, posts, users_seq, pending>>
        /\ k' = 0 /\ DOMAIN pending = {}
    BY <1>1, NoRowsFacts DEF db, tx, env
  <2>5. 0 <= Calls(op)'
    <3>1. Calls(op)' = Calls(op)
      BY <2>4 DEF Calls, AllCalls
    <3> QED
      BY <1>1, <3>1, CallsType
  <2>6. OpsInv'
    <3>1. Deleted' = 0 /\ VictimIds' = VictimIds /\ IsPostgres' = IsPostgres
      BY <2>4 DEF Deleted, VictimIds, Victims, IsPostgres
    <3>2. IsFiniteSet(DOMAIN pending) /\ DOMAIN users \cup DOMAIN pending = DOMAIN users
      BY <2>4, FS_EmptySet
    <3>3. \A id \in VictimIds : id > DELETE_BASE + 0
      BY IdsAssumption, ConfigFacts, <1>1 DEF VictimIds
    <3>4. IsPostgres => \A id \in DOMAIN users : id <= users_seq
      BY <1>1, <2>1, <2>2, OpsStart
    <3>5. /\ IsFiniteSet(DOMAIN users)
          /\ HasLargest(DOMAIN users)
          /\ \A id \in 1..SEED_USERS : /\ id \in DOMAIN users
                                       /\ users[id].active = (id % 4 # 0)
          /\ \A id \in VictimIds : /\ id \in DOMAIN users
                                   /\ users[id].name = "victim"
      BY <1>1, <2>1, OpsStart
    <3>6. IsPostgres => SeqStart <= users_seq
      BY <2>2, IdsAssumption
    <3> QED
      BY <2>1, <2>3, <2>4, <2>5, <3>1, <3>2, <3>3, <3>4, <3>5, <3>6
         DEF OpsInv, HasLargest, SeededPosts
  <2> QED
    BY <1>2, <1>3, <2>3, <2>6
       DEF IInv, DdlInv, SeedUsersInv, SeedPostsInv, SetvalInv
<1> QED
  BY <1>1, <1>4, <1>5, <1>6, <1>7 DEF SetupStages

-----------------------------------------------------------------------
(* The operations.                                                           *)

\* What a call in the stage "ops" can rely on.
LEMMA CallFacts ==
    ASSUME SafeSizes, IInv, NEW o, AtCall(o)
    PROVE  /\ cfg \in Configs /\ stage = "ops" /\ op = o /\ k \in Nat
           /\ k < Calls(op) /\ Calls(op) \in Nat
           /\ posts = SeededPosts(SEED_POSTS)
           /\ o # INSERT_BULK => row = NoTx /\ pending = NoRows
           /\ o \notin UnguardedOps => ~suite.read_only
           /\ o \in {FETCH_BY_ID, UPDATE_ONE, DELETE_ONE, INSERT_ONE} =>
                 k < Victims /\ CallIndex = k
<1>1. /\ cfg \in Configs /\ stage = "ops" /\ op = o /\ k \in Nat
      /\ k < Calls(op) /\ posts = SeededPosts(SEED_POSTS)
      /\ o # INSERT_BULK => row = NoTx /\ pending = NoRows
  BY DEF IInv, TypeOK, AtCall, OpsInv, TxInv
<1>2. Calls(op) \in Nat
  BY <1>1, CallsType
<1>3. o \notin UnguardedOps => ~suite.read_only
  BY <1>1 DEF Calls
<1>4. o \in {FETCH_BY_ID, UPDATE_ONE, DELETE_ONE, INSERT_ONE} => k < Victims
  <2>1. o \in {FETCH_BY_ID, UPDATE_ONE, DELETE_ONE, INSERT_ONE} =>
            /\ o # INSERT_BULK /\ o \notin {FETCH_PAGE, JOIN_QUERY}
            /\ o \in {0, 2, 5, 6}
    BY DEF INSERT_ONE, INSERT_BULK, FETCH_BY_ID, FETCH_PAGE, JOIN_QUERY,
           UPDATE_ONE, DELETE_ONE
  <2>2. o \in {FETCH_BY_ID, UPDATE_ONE, DELETE_ONE, INSERT_ONE} =>
            Calls(o) = 0 \/ Calls(o) = Victims
    BY <2>1, Zenon DEF Calls, AllCalls, Victims
  <2> QED
    BY <1>1, <2>2
<1>5. k < Victims => CallIndex = k
  BY <1>1, DeleteIsVictim DEF CallIndex
<1> QED
  BY <1>1, <1>2, <1>3, <1>4, <1>5

\* A call that succeeds and leaves the database alone.
LEMMA ReadStep ==
    ASSUME SafeSizes, IInv, stage = "ops", op \in UnguardedOps, k < Calls(op),
           k' = k + 1, UNCHANGED <<stage, op, failure, db, tx, env>>
    PROVE  IInv'
<1>1. TypeOK'
  BY DEF IInv, TypeOK, db, tx, env
<1>2. k' <= Calls(op)' /\ k \in Nat /\ Calls(op) \in Nat
  <2>1. k \in Nat /\ Calls(op) \in Nat
    BY CallsType DEF IInv, TypeOK
  <2>2. Calls(op)' = Calls(op)
    BY DEF Calls, AllCalls, env
  <2> QED
    BY <2>1, <2>2
<1>3. op # DELETE_ONE /\ op # INSERT_BULK
  BY DEF UnguardedOps, FETCH_BY_ID, FETCH_PAGE, JOIN_QUERY, DELETE_ONE, INSERT_BULK
<1> QED
  BY <1>1, <1>2, <1>3
     DEF IInv, db, tx, env, OnlyOutsideFailures, ReferentialIntegrity, TxInv,
         DdlInv, SeedUsersInv, SeedPostsInv, SetvalInv, OpsInv, VictimIds,
         Victims, IsPostgres, SeededUsers, SeededPosts, Deleted, HasLargest

LEMMA FetchByIdStep ==
    ASSUME SafeSizes, IInv, FetchById
    PROVE  IInv'
<1>1. AtCall(FETCH_BY_ID)
  BY DEF FetchById
<1>2. target_id(CallIndex) \in DOMAIN users
  <2>1. target_id(CallIndex) \in 1..SEED_USERS
    BY <1>1, CallFacts, TargetIsSeeded
  <2> QED
    BY <2>1, <1>1, CallFacts DEF IInv, OpsInv
<1>3. stage = "ops" /\ op = FETCH_BY_ID /\ k < Calls(op)
  BY <1>1, CallFacts
<1> QED
  BY <1>2, <1>3, ReadStep DEF FetchById, Settle, UnguardedOps

\* A full page: the active seeded users alone fill it.
LEMMA PageIsFull ==
    ASSUME SafeSizes, IInv, stage = "ops"
    PROVE  Cardinality(ActiveUsers) >= PAGE_SIZE
<1>1. SeededActive \subseteq ActiveUsers
  BY DEF IInv, OpsInv, SeededActive, ActiveUsers
<1>2. IsFiniteSet(ActiveUsers)
  BY FS_Subset DEF IInv, OpsInv, ActiveUsers
<1>3. /\ Cardinality(SeededActive) <= Cardinality(ActiveUsers)
      /\ Cardinality(SeededActive) \in Nat /\ Cardinality(ActiveUsers) \in Nat
  BY <1>1, <1>2, FS_Subset, FS_CardinalityType
<1> QED
  BY <1>3, SizesAssumption DEF SafeSizes

LEMMA FetchPageStep ==
    ASSUME SafeSizes, IInv, FetchPage
    PROVE  IInv'
<1>1. stage = "ops" /\ op = FETCH_PAGE /\ k < Calls(op)
  BY DEF FetchPage, AtCall
<1>2. Cardinality(ActiveUsers) >= PAGE_SIZE
  BY <1>1, PageIsFull
<1> QED
  BY <1>1, <1>2, ReadStep DEF FetchPage, Settle, UnguardedOps

LEMMA JoinIsFull ==
    ASSUME SafeSizes, IInv, stage = "ops"
    PROVE  Cardinality(JoinedPosts) >= PAGE_SIZE
<1>1. posts = SeededPosts(SEED_POSTS) /\ SEED_POSTS \in Nat
  BY SizesAssumption DEF IInv, OpsInv
<1>2. SeededActive \subseteq ActiveUsers
  BY DEF IInv, OpsInv, SeededActive, ActiveUsers
<1>3. SeededJoin \subseteq JoinedPosts
  BY <1>1, <1>2 DEF SeededJoin, JoinedPosts, SeededPosts, SeedPost
<1>4. IsFiniteSet(JoinedPosts)
  <2>1. DOMAIN posts = 1..SEED_POSTS
    BY <1>1 DEF SeededPosts
  <2>2. IsFiniteSet(DOMAIN posts)
    BY <1>1, <2>1, FS_Interval
  <2> QED
    BY <2>2, FS_Subset DEF JoinedPosts
<1>5. /\ Cardinality(SeededJoin) <= Cardinality(JoinedPosts)
      /\ Cardinality(SeededJoin) \in Nat /\ Cardinality(JoinedPosts) \in Nat
  BY <1>3, <1>4, FS_Subset, FS_CardinalityType
<1> QED
  BY <1>5, SizesAssumption DEF SafeSizes

LEMMA JoinQueryStep ==
    ASSUME SafeSizes, IInv, JoinQuery
    PROVE  IInv'
<1>1. stage = "ops" /\ op = JOIN_QUERY /\ k < Calls(op)
  BY DEF JoinQuery, AtCall
<1>2. Cardinality(JoinedPosts) >= PAGE_SIZE
  BY <1>1, JoinIsFull
<1> QED
  BY <1>1, <1>2, ReadStep DEF JoinQuery, Settle, UnguardedOps

LEMMA UpdateOneStep ==
    ASSUME SafeSizes, IInv, UpdateOne
    PROVE  IInv'
<1> DEFINE id == target_id(CallIndex)
<1>1. /\ AtCall(UPDATE_ONE) /\ op = UPDATE_ONE /\ stage = "ops" /\ k \in Nat
      /\ k < Calls(op) /\ Calls(op) \in Nat /\ ~suite.read_only /\ CallIndex = k
      /\ row = NoTx /\ pending = NoRows
  BY CallFacts DEF UpdateOne, UnguardedOps, UPDATE_ONE, INSERT_BULK, FETCH_BY_ID,
                   FETCH_PAGE, JOIN_QUERY
<1>2. id \in 1..SEED_USERS /\ id \in DOMAIN users
  <2>1. id \in 1..SEED_USERS
    BY <1>1, TargetIsSeeded
  <2> QED
    BY <2>1, <1>1 DEF IInv, OpsInv
<1> HIDE DEF id
<1>3. /\ users' = [users EXCEPT ![id].name = "renamed"]
      /\ stage' = stage /\ failure' = failure /\ k' = k + 1 /\ op' = op
      /\ UNCHANGED <<tables, posts, users_seq, posts_seq, tx, env>>
  BY <1>1, <1>2 DEF UpdateOne, Settle, id
<1>4. /\ DOMAIN users' = DOMAIN users
      /\ \A x \in DOMAIN users : users'[x].active = users[x].active
      /\ \A x \in DOMAIN users : x # id => users'[x] = users[x]
      /\ users' \in [DOMAIN users -> UserRow]
  BY <1>2, <1>3 DEF IInv, TypeOK, UserRow
<1>5. TypeOK'
  BY <1>1, <1>3, <1>4 DEF IInv, TypeOK, tx, env
<1>6. k' <= Calls(op)'
  <2>1. Calls(op)' = Calls(op)
    BY <1>3 DEF Calls, AllCalls, env
  <2> QED
    BY <2>1, <1>1, <1>3
<1>7. OpsInv'
  <2>1. /\ VictimIds' = VictimIds /\ IsPostgres' = IsPostgres
        /\ Deleted' = 0 /\ Deleted = 0 /\ ~(op <= INSERT_BULK)
    BY <1>1, <1>3 DEF env, VictimIds, Victims, IsPostgres, Deleted, UPDATE_ONE,
                      DELETE_ONE, INSERT_BULK
  <2>2. id \notin VictimIds
    BY <1>2, IdsAssumption, SizesAssumption, ConfigFacts
       DEF VictimIds, IInv, TypeOK
  <2> QED
    BY <1>1, <1>2, <1>3, <1>4, <1>6, <2>1, <2>2
       DEF IInv, OpsInv, tx, SeededPosts
<1> QED
  BY <1>1, <1>3, <1>4, <1>5, <1>6, <1>7
     DEF IInv, tx, env, OnlyOutsideFailures, ReferentialIntegrity, TxInv,
         DdlInv, SeedUsersInv, SeedPostsInv, SetvalInv, VictimIds, Victims

LEMMA DeleteOneStep ==
    ASSUME SafeSizes, IInv, DeleteOne
    PROVE  /\ IInv'
           /\ users' = Without(users, {DELETE_BASE + 1 + k})
           /\ DELETE_BASE + 1 + k \in VictimIds
<1> DEFINE id == DELETE_BASE + 1 + k
<1>1. /\ cfg \in Configs
      /\ AtCall(DELETE_ONE) /\ op = DELETE_ONE /\ stage = "ops" /\ k \in Nat
      /\ k < Calls(op) /\ Calls(op) \in Nat /\ ~suite.read_only /\ CallIndex = k
      /\ row = NoTx /\ pending = NoRows /\ k < Victims
      /\ posts = SeededPosts(SEED_POSTS)
  BY CallFacts DEF DeleteOne, UnguardedOps, DELETE_ONE, INSERT_BULK, FETCH_BY_ID,
                   FETCH_PAGE, JOIN_QUERY
<1>2. id \in VictimIds /\ id \in Nat /\ delete_id(CallIndex) = id
  <2>1. Victims \in Nat /\ DELETE_BASE \in Nat
    BY <1>1, ConfigFacts, IdsAssumption
  <2>2. delete_id(k) = id
    BY <1>1, DeleteIsVictim
  <2>3. delete_id(CallIndex) = delete_id(k)
    BY <1>1
  <2> QED
    BY <1>1, <2>1, <2>2, <2>3 DEF VictimIds
<1>3. id \in DOMAIN users
  <2>1. id > DELETE_BASE + Deleted
    BY <1>1, IdsAssumption DEF Deleted
  <2> QED
    BY <2>1, <1>1, <1>2 DEF IInv, OpsInv
<1>4. \A p \in DOMAIN posts : posts[p].user_id # id
  <2>1. \A p \in DOMAIN posts : posts[p].user_id \in 1..SEED_USERS
    BY <1>1, SeededPostsFacts, SizesAssumption
  <2>2. id \notin 1..SEED_USERS
    BY <1>1, IdsAssumption, SizesAssumption
  <2> QED
    BY <2>1, <2>2
<1> HIDE DEF id
<1>5. /\ users' = Without(users, {id})
      /\ stage' = stage /\ failure' = failure /\ k' = k + 1 /\ op' = op
      /\ UNCHANGED <<tables, posts, users_seq, posts_seq, tx, env>>
  BY <1>1, <1>2, <1>3, <1>4 DEF DeleteOne, Settle
<1>6. /\ DOMAIN users' = DOMAIN users \ {id}
      /\ \A x \in DOMAIN users' : users'[x] = users[x]
      /\ users' \in [DOMAIN users' -> UserRow]
  BY <1>5 DEF IInv, TypeOK, Without
<1>7. TypeOK'
  <2>1. DOMAIN users' \subseteq Nat
    BY <1>6 DEF IInv, TypeOK
  <2>2. stage' \in Working \cup {"finished", "aborted"} /\ k' \in Nat
    BY <1>1, <1>5 DEF Working
  <2>3. /\ posts' = posts /\ tables' = tables /\ users_seq' = users_seq
        /\ posts_seq' = posts_seq /\ row' = row /\ pending' = pending
        /\ suite' = suite /\ cfg' = cfg /\ runs' = runs /\ outages' = outages
    BY <1>5 DEF tx, env
  <2> QED
    BY <1>5, <1>6, <2>1, <2>2, <2>3 DEF IInv, TypeOK
<1>8. k' <= Calls(op)'
  <2>1. Calls(op)' = Calls(op)
    BY <1>5 DEF Calls, AllCalls, env
  <2> QED
    BY <2>1, <1>1, <1>5
<1>9. OpsInv'
  <2>1. /\ VictimIds' = VictimIds /\ IsPostgres' = IsPostgres
        /\ Deleted' = k + 1 /\ Deleted = k /\ ~(op <= INSERT_BULK)
    BY <1>1, <1>5 DEF env, VictimIds, Victims, IsPostgres, Deleted,
                      DELETE_ONE, INSERT_BULK
  <2>2. \A x \in 1..SEED_USERS : x # id
    BY <1>1, IdsAssumption, SizesAssumption DEF id
  <2>3. IsFiniteSet(DOMAIN users')
    BY <1>1, <1>6, FS_RemoveElement DEF IInv, OpsInv
  <2>4. \A x \in VictimIds : x \in DOMAIN users' <=> x > DELETE_BASE + (k + 1)
    <3>1. \A x \in VictimIds : x \in DOMAIN users <=> x > DELETE_BASE + k
      BY <1>1, <2>1 DEF IInv, OpsInv
    <3>2. \A x \in VictimIds :
             x > DELETE_BASE + (k + 1) <=> (x > DELETE_BASE + k /\ x # id)
      BY <1>1, IdsAssumption, ConfigFacts DEF VictimIds, id
    <3> QED
      BY <3>1, <3>2, <1>6
  <2> QED
    BY <1>1, <1>5, <1>6, <1>8, <2>1, <2>2, <2>3, <2>4
       DEF IInv, OpsInv, tx, SeededPosts
<1>10. ReferentialIntegrity'
  BY <1>4, <1>5, <1>6 DEF IInv, ReferentialIntegrity
<1>11. IInv'
  BY <1>1, <1>5, <1>6, <1>7, <1>8, <1>9, <1>10
     DEF IInv, tx, env, OnlyOutsideFailures, TxInv,
         DdlInv, SeedUsersInv, SeedPostsInv, SetvalInv, VictimIds, Victims
<1> QED
  BY <1>2, <1>5, <1>11 DEF id

\* No suite inserts row by row into PostgreSQL.
LEMMA RowsOnSqlite ==
    ASSUME suite \in RunnableSuites, suite.bulk = "rows"
    PROVE  ~IsPostgres
<1>1. \/ suite \in SqliteSuites
      \/ suite \in MemorySuites
      \/ suite \in {PostgresSuites[n] : n \in DOMAIN PostgresSuites}
  BY SuitesAssumption
<1>2. CASE suite \in SqliteSuites
  BY <1>2 DEF SqliteSuites, RusqliteSqlite, RusqliteSqliteReadonly, SqlxSqlite,
              DieselSqlite, DieselAsyncSqlite, SeaOrmSqlite, IsPostgres
<1>4. CASE suite \in MemorySuites
  BY <1>4 DEF MemorySuites, RusqliteSqliteMemory, DieselSqliteMemory, IsPostgres
<1>3. CASE suite \in {PostgresSuites[n] : n \in DOMAIN PostgresSuites}
  <2>1. PICK n \in 1..5 : suite = PostgresSuites[n]
    BY <1>3 DEF PostgresSuites
  <2>2. n = 1 \/ n = 2 \/ n = 3 \/ n = 4 \/ n = 5
    OBVIOUS
  <2>3. suite \in {TokioPostgres, SqlxPostgres, DieselPostgres,
                   DieselAsyncPostgres, SeaOrmPostgres}
    BY <2>1, <2>2 DEF PostgresSuites
  <2> QED
    BY <2>3 DEF TokioPostgres, SqlxPostgres, DieselPostgres,
                DieselAsyncPostgres, SeaOrmPostgres
<1> QED
  BY <1>1, <1>2, <1>3, <1>4

\* The ids of default inserts are new, and are neither a seeded user's nor a
\* victim's: on SQLite because seeded rows stay until the inserts are over, on
\* PostgreSQL because setval() put the sequence past them.
LEMMA FreshIds ==
    ASSUME SafeSizes, IInv, stage = "ops", op <= INSERT_BULK,
           IsPostgres => pending = NoRows
    PROVE  LET seen == DOMAIN users \cup DOMAIN pending
               last == LastId(seen, users_seq)
           IN  /\ last \in Nat
               /\ IsPostgres => last = users_seq
               /\ \A x \in seen : x <= last
               /\ \A id \in Nat :
                     id > last => id \notin 1..SEED_USERS \cup VictimIds
<1> DEFINE seen == DOMAIN users \cup DOMAIN pending
           last == LastId(seen, users_seq)
<1>1. /\ SEED_USERS \in Nat /\ SEED_USERS >= 1 /\ Victims \in Nat
      /\ DELETE_BASE \in Nat /\ SEED_USERS < DELETE_BASE
      /\ SeqStart \in Nat /\ DELETE_BASE + Victims <= SeqStart
  BY ConfigFacts, SizesAssumption, IdsAssumption DEF IInv, TypeOK
<1>2. seen \in SUBSET Nat /\ users_seq \in Nat
  BY DEF IInv, TypeOK
<1>3. CASE IsPostgres
  <2>1. last = users_seq
    BY <1>3 DEF LastId
  <2>2. seen = DOMAIN users
    BY <1>3, NoRowsFacts
  <2>3. \A x \in seen : x <= users_seq
    BY <1>3, <2>2 DEF IInv, OpsInv
  <2>4. SeqStart <= users_seq
    BY <1>3 DEF IInv, OpsInv
  <2>5. \A id \in Nat : id > users_seq => id \notin 1..SEED_USERS \cup VictimIds
    BY <1>1, <1>2, <2>4 DEF VictimIds
  <2> QED
    BY <1>2, <2>1, <2>3, <2>5
<1>4. CASE ~IsPostgres
  <2> DEFINE m == CHOOSE m \in seen : \A x \in seen : x <= m
  <2>1. HasLargest(seen)
    BY <1>4 DEF IInv, OpsInv
  <2>2. 1..SEED_USERS \subseteq seen
    BY DEF IInv, OpsInv
  <2>3. VictimIds \subseteq seen
    <3>1. Deleted = 0
      BY DEF Deleted, IInv, TypeOK, INSERT_BULK, DELETE_ONE
    <3>2. \A id \in VictimIds : id > DELETE_BASE + 0
      BY <1>1 DEF VictimIds
    <3> QED
      BY <3>1, <3>2 DEF IInv, OpsInv
  <2>4. seen # {}
    BY <1>1, <2>2
  <2> HIDE DEF seen
  <2>5. last = m
    BY <1>4, <2>4 DEF LastId
  <2>6. m \in seen /\ \A x \in seen : x <= m
    BY <1>2, <2>1, LargestChosen, Zenon
  <2> HIDE DEF m, last
  <2>7. /\ last \in Nat /\ \A x \in seen : x <= last
        /\ \A id \in Nat : id > last => id \notin 1..SEED_USERS \cup VictimIds
    <3>1. \A id \in Nat : id > last => id \notin seen
      BY <1>2, <2>5, <2>6
    <3> QED
      BY <1>2, <2>2, <2>3, <2>5, <2>6, <3>1
  <2> QED
    BY <1>4, <2>7 DEF seen, last
<1> QED
  BY <1>3, <1>4

\* A committed insert of new rows, by whatever statement.
LEMMA InsertPreserves ==
    ASSUME SafeSizes, IInv, stage = "ops", op \in {INSERT_ONE, INSERT_BULK},
           k < Calls(op), NEW rows,
           DOMAIN rows \subseteq Nat, rows \in [DOMAIN rows -> UserRow],
           IsFiniteSet(DOMAIN rows),
           DOMAIN rows \cap (1..SEED_USERS \cup VictimIds) = {},
           users' = Overlay(users, rows), users_seq' \in Nat,
           pending' = NoRows, row' = NoTx, k' = k + 1,
           UNCHANGED <<stage, op, failure, tables, posts, posts_seq, env>>,
           IsPostgres => /\ users_seq <= users_seq'
                         /\ \A id \in DOMAIN rows : id <= users_seq',
           ~IsPostgres => HasLargest(DOMAIN users \cup DOMAIN rows)
    PROVE  IInv'
<1>1. /\ DOMAIN users' = DOMAIN users \cup DOMAIN rows
      /\ \A id \in 1..SEED_USERS \cup VictimIds :
            id \in DOMAIN users => users'[id] = users[id]
      /\ users' \in [DOMAIN users' -> UserRow]
      /\ DOMAIN users' \subseteq Nat
  <2>1. users \in [DOMAIN users -> UserRow] /\ DOMAIN users \subseteq Nat
    BY DEF IInv, TypeOK
  <2>2. /\ DOMAIN users' = DOMAIN users \cup DOMAIN rows
        /\ \A id \in DOMAIN users \ DOMAIN rows : users'[id] = users[id]
    BY OverlayFacts
  <2>3. users' \in [DOMAIN users' -> UserRow]
    BY <2>1 DEF Overlay
  <2> QED
    BY <2>1, <2>2, <2>3
<1>2. k \in Nat /\ Calls(op) \in Nat /\ Calls(op)' = Calls(op)
  BY CallsType DEF IInv, TypeOK, Calls, AllCalls, env
<1>3. TypeOK'
  <2>1. row' \in NoTx..BULK_SIZE
    BY SizesAssumption DEF NoTx
  <2> QED
    BY <1>1, <1>2, <2>1, NoRowsFacts DEF IInv, TypeOK, env
<1>4. /\ VictimIds' = VictimIds /\ IsPostgres' = IsPostgres
      /\ Deleted' = 0 /\ Deleted = 0
  BY DEF env, VictimIds, Victims, IsPostgres, Deleted, INSERT_ONE, INSERT_BULK,
         DELETE_ONE
<1>5. OpsInv'
  <2>1. IsFiniteSet(DOMAIN users')
    <3>1. IsFiniteSet(DOMAIN users)
      BY DEF IInv, OpsInv
    <3>2. IsFiniteSet(DOMAIN users \cup DOMAIN rows)
      BY <3>1, FS_Union
    <3> QED
      BY <1>1, <3>2
  <2>2. IsFiniteSet(DOMAIN pending') /\ DOMAIN pending' = {}
    BY NoRowsFacts, FS_EmptySet
  <2>3. \A id \in 1..SEED_USERS : /\ id \in DOMAIN users'
                                  /\ users'[id].active = (id % 4 # 0)
    BY <1>1 DEF IInv, OpsInv
  <2>4. \A id \in VictimIds :
              /\ id \in DOMAIN users' <=> id > DELETE_BASE + 0
              /\ id \in DOMAIN users' => users'[id].name = "victim"
    BY <1>1, <1>4 DEF IInv, OpsInv
  <2>5. IsPostgres => \A id \in DOMAIN users' : id <= users_seq'
    <3>1. IsPostgres => \A id \in DOMAIN users : id <= users_seq
      BY DEF IInv, OpsInv
    <3>2. users_seq \in Nat /\ DOMAIN users \subseteq Nat
      BY DEF IInv, TypeOK
    <3> QED
      BY <1>1, <3>1, <3>2
  <2>6. IsPostgres => SeqStart <= users_seq'
    <3>1. IsPostgres => SeqStart <= users_seq
      BY DEF IInv, OpsInv
    <3>2. users_seq \in Nat /\ SeqStart \in Nat
      BY IdsAssumption DEF IInv, TypeOK
    <3> QED
      BY <3>1, <3>2
  <2>7. ~IsPostgres => HasLargest(DOMAIN users \cup DOMAIN rows)
    OBVIOUS
  <2>8. DOMAIN users' \cup DOMAIN pending' = DOMAIN users \cup DOMAIN rows
    BY <1>1, <2>2
  <2>9. posts = SeededPosts(SEED_POSTS)
    BY DEF IInv, OpsInv
  <2> QED
    BY <1>2, <1>4, <2>1, <2>2, <2>3, <2>4, <2>5, <2>6, <2>7, <2>8, <2>9
       DEF OpsInv, HasLargest, SeededPosts
<1>6. ReferentialIntegrity'
  BY <1>1 DEF IInv, ReferentialIntegrity
<1>7. TxInv'
  BY NoRowsFacts DEF TxInv
<1> QED
  BY <1>3, <1>5, <1>6, <1>7
     DEF IInv, OnlyOutsideFailures, DdlInv, SeedUsersInv, SeedPostsInv, SetvalInv

\* FreshIds for an insert outside a transaction.
LEMMA FreshDefaultIds ==
    ASSUME SafeSizes, IInv, stage = "ops", op <= INSERT_BULK, pending = NoRows
    PROVE  LET last == LastId(DOMAIN users, users_seq)
           IN  /\ last \in Nat
               /\ IsPostgres => last = users_seq
               /\ \A x \in DOMAIN users : x <= last
               /\ \A id \in Nat :
                     id > last => id \notin 1..SEED_USERS \cup VictimIds
<1>1. DOMAIN users \cup DOMAIN pending = DOMAIN users
  BY NoRowsFacts
<1> QED
  BY <1>1, FreshIds

LEMMA InsertOneStep ==
    ASSUME SafeSizes, IInv, InsertOne
    PROVE  /\ IInv'
           /\ DOMAIN users \subseteq DOMAIN users'
<1> DEFINE last == LastId(DOMAIN users, users_seq)
           id == last + 1
           new == [x \in {id} |-> [name |-> "new_user", active |-> TRUE]]
<1>1. /\ AtCall(INSERT_ONE) /\ op = INSERT_ONE /\ stage = "ops"
      /\ k < Calls(op) /\ ~suite.read_only /\ row = NoTx /\ pending = NoRows
  BY CallFacts DEF InsertOne, UnguardedOps, INSERT_ONE, INSERT_BULK, FETCH_BY_ID,
                   FETCH_PAGE, JOIN_QUERY
<1>2. /\ last \in Nat
      /\ IsPostgres => last = users_seq
      /\ \A x \in DOMAIN users : x <= last
      /\ \A x \in Nat : x > last => x \notin 1..SEED_USERS \cup VictimIds
  <2>1. op <= INSERT_BULK
    BY <1>1 DEF INSERT_ONE, INSERT_BULK
  <2> QED
    BY <1>1, <2>1, FreshDefaultIds
<1>3. InsertOne
  OBVIOUS
<1>4. /\ users' = IF ~suite.read_only /\ id \notin DOMAIN users
                  THEN Overlay(users, new) ELSE users
      /\ users_seq' = IF IsPostgres THEN id ELSE users_seq
      /\ Settle(~suite.read_only /\ id \notin DOMAIN users,
                IF suite.read_only THEN "suite" ELSE "statement", k + 1)
      /\ UNCHANGED <<tables, posts, posts_seq, tx, env>>
  BY <1>3 DEF InsertOne
<1>5. DOMAIN new = {id} /\ new \in [DOMAIN new -> UserRow]
  BY DEF UserRow
<1> HIDE DEF last, new
<1>6. /\ id \in Nat /\ id > last /\ id \notin DOMAIN users
      /\ id \notin 1..SEED_USERS \cup VictimIds
  BY <1>2 DEF IInv, TypeOK
<1>7. /\ users' = Overlay(users, new)
      /\ stage' = stage /\ failure' = failure /\ k' = k + 1 /\ op' = op
  BY <1>1, <1>4, <1>6 DEF Settle
<1>8. HasLargest(DOMAIN users \cup DOMAIN new)
  <2>1. \A x \in DOMAIN users : x <= id
    BY <1>2, <1>6 DEF IInv, TypeOK
  <2> QED
    BY <1>5, <1>6, <2>1 DEF HasLargest
<1>9. IsFiniteSet(DOMAIN new)
  BY <1>5, FS_Singleton
<1>10. /\ users_seq' \in Nat
       /\ IsPostgres => users_seq <= users_seq'
       /\ IsPostgres => \A x \in DOMAIN new : x <= users_seq'
  BY <1>2, <1>4, <1>5, <1>6 DEF IInv, TypeOK
<1>11. IInv'
  <2>1. op \in {INSERT_ONE, INSERT_BULK}
    BY <1>1
  <2>2. /\ DOMAIN new \subseteq Nat
        /\ DOMAIN new \cap (1..SEED_USERS \cup VictimIds) = {}
    BY <1>5, <1>6
  <2>3. pending' = NoRows /\ row' = NoTx
    BY <1>1, <1>4 DEF tx
  <2> QED
    BY <1>1, <1>4, <1>5, <1>7, <1>8, <1>9, <1>10, <2>1, <2>2, <2>3,
       InsertPreserves
<1> QED
  BY <1>7, <1>11, OverlayFacts

LEMMA InsertBulkStep ==
    ASSUME SafeSizes, IInv, InsertBulk
    PROVE  /\ IInv'
           /\ DOMAIN users \subseteq DOMAIN users'
<1> DEFINE last == LastId(DOMAIN users, users_seq)
           ids == (last + 1)..(last + BULK_SIZE)
           new == [x \in ids |-> BulkUser]
<1>1. /\ AtCall(INSERT_BULK) /\ op = INSERT_BULK /\ stage = "ops"
      /\ k < Calls(op) /\ ~suite.read_only
  BY CallFacts DEF InsertBulk, UnguardedOps, INSERT_BULK, FETCH_BY_ID,
                   FETCH_PAGE, JOIN_QUERY
<1>2. row = NoTx /\ pending = NoRows
  BY <1>1 DEF InsertBulk, IInv, TxInv
<1>3. /\ last \in Nat
      /\ IsPostgres => last = users_seq
      /\ \A x \in DOMAIN users : x <= last
      /\ \A x \in Nat : x > last => x \notin 1..SEED_USERS \cup VictimIds
  <2>1. op <= INSERT_BULK
    BY <1>1 DEF INSERT_BULK
  <2> QED
    BY <1>1, <1>2, <2>1, FreshDefaultIds
<1>4. InsertBulk
  OBVIOUS
<1>5. /\ users' = IF ~suite.read_only /\ ids \cap DOMAIN users = {}
                  THEN Overlay(users, new) ELSE users
      /\ users_seq' = IF IsPostgres THEN last + BULK_SIZE ELSE users_seq
      /\ Settle(~suite.read_only /\ ids \cap DOMAIN users = {},
                IF suite.read_only THEN "suite" ELSE "statement", k + 1)
      /\ UNCHANGED <<tables, posts, posts_seq, tx, env>>
  BY <1>4 DEF InsertBulk
<1>6. DOMAIN new = ids /\ new \in [DOMAIN new -> UserRow]
  BY DEF UserRow, BulkUser
<1> HIDE DEF last, new
<1>7. /\ ids \subseteq Nat /\ ids \cap DOMAIN users = {}
      /\ ids \cap (1..SEED_USERS \cup VictimIds) = {}
      /\ IsFiniteSet(ids)
  <2>1. BULK_SIZE \in Nat
    BY SizesAssumption
  <2>2. IsFiniteSet(ids)
    BY <1>3, <2>1, FS_Interval
  <2>3. \A x \in ids : x \in Nat /\ x > last
    BY <1>3, <2>1
  <2>4. \A x \in ids : x \notin DOMAIN users
    BY <1>3, <2>3 DEF IInv, TypeOK
  <2> QED
    BY <1>3, <2>2, <2>3, <2>4
<1>8. /\ users' = Overlay(users, new)
      /\ stage' = stage /\ failure' = failure /\ k' = k + 1 /\ op' = op
  BY <1>1, <1>5, <1>7 DEF Settle
<1>9. HasLargest(DOMAIN users \cup DOMAIN new)
  <2>1. last + BULK_SIZE \in ids /\ \A x \in ids : x <= last + BULK_SIZE
    BY <1>3, SizesAssumption
  <2>2. \A x \in DOMAIN users : x <= last + BULK_SIZE
    BY <1>3, SizesAssumption DEF IInv, TypeOK
  <2> QED
    BY <1>6, <2>1, <2>2 DEF HasLargest
<1>10. /\ users_seq' \in Nat
       /\ IsPostgres => users_seq <= users_seq'
       /\ IsPostgres => \A x \in DOMAIN new : x <= users_seq'
  <2>1. users_seq \in Nat
    BY DEF IInv, TypeOK
  <2>2. \A x \in DOMAIN new : x <= last + BULK_SIZE
    BY <1>3, <1>6, SizesAssumption
  <2> QED
    BY <1>3, <1>5, <2>1, <2>2, SizesAssumption
<1>11. IInv'
  <2>1. op \in {INSERT_ONE, INSERT_BULK}
    BY <1>1
  <2>2. /\ DOMAIN new \subseteq Nat
        /\ DOMAIN new \cap (1..SEED_USERS \cup VictimIds) = {}
        /\ IsFiniteSet(DOMAIN new)
    BY <1>6, <1>7
  <2>3. pending' = NoRows /\ row' = NoTx
    BY <1>2, <1>5 DEF tx
  <2> QED
    BY <1>1, <1>5, <1>6, <1>8, <1>9, <1>10, <2>1, <2>2, <2>3, InsertPreserves
<1> QED
  BY <1>8, <1>11, OverlayFacts

\* The last statement of a step that keeps to the operation loop, without
\* committing anything: only the open transaction moves.
LEMMA TransactionPreserves ==
    ASSUME SafeSizes, IInv, stage = "ops", op = INSERT_BULK, k < Calls(op),
           suite.bulk = "rows", row' \in NoTx..BULK_SIZE, row' # NoTx,
           DOMAIN pending' \subseteq Nat,
           pending' \in [DOMAIN pending' -> UserRow],
           IsFiniteSet(DOMAIN pending'),
           DOMAIN pending' \cap (1..SEED_USERS \cup VictimIds) = {},
           HasLargest(DOMAIN users \cup DOMAIN pending'),
           UNCHANGED <<stage, op, k, failure, db, env>>
    PROVE  IInv'
<1>1. TypeOK'
  BY DEF IInv, TypeOK, db, env
<1>2. /\ Calls(op)' = Calls(op) /\ VictimIds' = VictimIds
      /\ IsPostgres' = IsPostgres /\ Deleted' = Deleted
  BY DEF Calls, AllCalls, env, VictimIds, Victims, IsPostgres, Deleted
<1>3. TxInv'
  BY <1>2 DEF TxInv, env
<1>4. OpsInv'
  <2>1. OpsInv
    BY DEF IInv
  <2>2. HasLargest(DOMAIN users \cup DOMAIN pending)'
    BY DEF HasLargest, db
  <2> QED
    BY <1>2, <2>1, <2>2 DEF OpsInv, db, SeededPosts
<1> QED
  BY <1>1, <1>3, <1>4
     DEF IInv, db, env, OnlyOutsideFailures, ReferentialIntegrity,
         DdlInv, SeedUsersInv, SeedPostsInv, SetvalInv

\* A transaction begins on SQLite, with the largest rowid known.
LEMMA BulkBeginStep ==
    ASSUME SafeSizes, IInv, BulkBegin
    PROVE  IInv'
<1>1. /\ AtCall(INSERT_BULK) /\ op = INSERT_BULK /\ stage = "ops"
      /\ k < Calls(op) /\ suite.bulk = "rows" /\ row = NoTx
      /\ row' = 0 /\ pending' = NoRows
      /\ UNCHANGED <<stage, op, k, failure, db, env>>
  BY DEF BulkBegin, AtCall
<1>2. pending = NoRows
  BY <1>1 DEF IInv, TxInv
<1>3. ~IsPostgres
  BY <1>1, RowsOnSqlite DEF IInv, TypeOK
<1>4. HasLargest(DOMAIN users \cup DOMAIN pending')
  BY <1>1, <1>2, <1>3 DEF IInv, OpsInv, INSERT_BULK
<1>5. /\ row' \in NoTx..BULK_SIZE /\ row' # NoTx
      /\ DOMAIN pending' = {} /\ IsFiniteSet(DOMAIN pending')
  BY <1>1, NoRowsFacts, FS_EmptySet, SizesAssumption DEF NoTx
<1>6. pending' \in [DOMAIN pending' -> UserRow]
  BY <1>1, NoRowsFacts
<1> QED
  BY <1>1, <1>4, <1>5, <1>6, TransactionPreserves

LEMMA BulkRowStep ==
    ASSUME SafeSizes, IInv, BulkRow
    PROVE  /\ IInv'
           /\ users' = users
<1> DEFINE seen == DOMAIN users \cup DOMAIN pending
           last == LastId(seen, users_seq)
           id == last + 1
           new == [x \in {id} |-> BulkUser]
<1>1. /\ AtCall(INSERT_BULK) /\ op = INSERT_BULK /\ stage = "ops"
      /\ k < Calls(op) /\ row \in 0..(BULK_SIZE - 1)
  BY DEF BulkRow, AtCall
<1>2. row # NoTx /\ suite.bulk = "rows" /\ ~IsPostgres
  <2>1. row # NoTx
    BY <1>1, SizesAssumption DEF NoTx
  <2>2. suite.bulk = "rows"
    BY <2>1 DEF IInv, TxInv
  <2> QED
    BY <2>1, <2>2, RowsOnSqlite DEF IInv, TypeOK
<1>3. /\ last \in Nat
      /\ \A x \in seen : x <= last
      /\ \A x \in Nat : x > last => x \notin 1..SEED_USERS \cup VictimIds
  <2>1. op <= INSERT_BULK
    BY <1>1 DEF INSERT_BULK
  <2> QED
    BY <1>1, <1>2, <2>1, FreshIds
<1>4. BulkRow
  OBVIOUS
<1>5. /\ pending' = IF id \notin seen THEN Overlay(pending, new) ELSE NoRows
      /\ row' = IF id \notin seen THEN row + 1 ELSE NoTx
      /\ Settle(id \notin seen, "statement", k)
      /\ UNCHANGED <<db, env>>
  BY <1>4 DEF BulkRow
<1>6. DOMAIN new = {id} /\ new \in [DOMAIN new -> UserRow]
  BY DEF UserRow, BulkUser
<1>7. seen \subseteq Nat
  BY DEF IInv, TypeOK
<1>8. /\ IsFiniteSet(DOMAIN pending) /\ DOMAIN pending \subseteq Nat
      /\ pending \in [DOMAIN pending -> UserRow]
      /\ DOMAIN pending \cap (1..SEED_USERS \cup VictimIds) = {}
  BY <1>1 DEF IInv, OpsInv, TypeOK, TxInv
<1> HIDE DEF last, new
<1>9. /\ id \in Nat /\ id > last /\ id \notin seen
      /\ id \notin 1..SEED_USERS \cup VictimIds
  BY <1>3, <1>7
<1>10. /\ pending' = Overlay(pending, new) /\ row' = row + 1
       /\ UNCHANGED <<stage, op, k, failure, db, env>>
  BY <1>5, <1>9 DEF Settle
<1>11. /\ DOMAIN pending' = DOMAIN pending \cup {id}
       /\ pending' \in [DOMAIN pending' -> UserRow]
  BY <1>6, <1>8, <1>10 DEF Overlay
<1>12. HasLargest(DOMAIN users \cup DOMAIN pending')
  <2>1. \A x \in seen : x <= id
    BY <1>3, <1>7, <1>9
  <2> QED
    BY <1>9, <1>11, <2>1 DEF HasLargest
<1>13. IsFiniteSet(DOMAIN pending')
  <2>1. IsFiniteSet(DOMAIN pending \cup {id})
    BY <1>8, FS_AddElement
  <2> QED
    BY <1>11, <2>1
<1>14. /\ DOMAIN pending' \subseteq Nat
       /\ DOMAIN pending' \cap (1..SEED_USERS \cup VictimIds) = {}
  BY <1>8, <1>9, <1>11
<1>15. row' \in NoTx..BULK_SIZE /\ row' # NoTx
  BY <1>1, <1>10, SizesAssumption DEF NoTx
<1>16. IInv'
  BY <1>1, <1>2, <1>10, <1>11, <1>12, <1>13, <1>14, <1>15, TransactionPreserves
<1> QED
  BY <1>10, <1>16 DEF db

LEMMA BulkCommitStep ==
    ASSUME SafeSizes, IInv, BulkCommit
    PROVE  /\ IInv'
           /\ DOMAIN users \subseteq DOMAIN users'
<1>1. /\ op = INSERT_BULK /\ stage = "ops" /\ k < Calls(op) /\ row = BULK_SIZE
      /\ users' = Overlay(users, pending) /\ row' = NoTx /\ pending' = NoRows
      /\ stage' = stage /\ failure' = failure /\ k' = k + 1 /\ op' = op
      /\ UNCHANGED <<tables, posts, users_seq, posts_seq, env>>
  BY DEF BulkCommit, AtCall, Settle
<1>2. ~IsPostgres
  <2>1. row # NoTx
    BY <1>1, SizesAssumption DEF NoTx
  <2>2. suite.bulk = "rows"
    BY <2>1 DEF IInv, TxInv
  <2> QED
    BY <2>2, RowsOnSqlite DEF IInv, TypeOK
<1>3. /\ IsFiniteSet(DOMAIN pending) /\ DOMAIN pending \subseteq Nat
      /\ pending \in [DOMAIN pending -> UserRow]
      /\ DOMAIN pending \cap (1..SEED_USERS \cup VictimIds) = {}
      /\ users_seq' \in Nat
  BY <1>1 DEF IInv, OpsInv, TypeOK, TxInv
<1>4. HasLargest(DOMAIN users \cup DOMAIN pending)
  <2>1. op <= INSERT_BULK
    BY <1>1 DEF INSERT_BULK
  <2> QED
    BY <1>1, <1>2, <2>1 DEF IInv, OpsInv
<1>5. op \in {INSERT_ONE, INSERT_BULK}
  BY <1>1
<1>6. IInv'
  BY <1>1, <1>2, <1>3, <1>4, <1>5, InsertPreserves
<1> QED
  BY <1>1, <1>6, OverlayFacts

\* The next operation starts with no call made and no transaction open.
LEMMA EndOfOpStep ==
    ASSUME SafeSizes, IInv, EndOfOp
    PROVE  IInv'
<1>1. /\ stage = "ops" /\ k = LoopLength /\ k' = 0 /\ cfg \in Configs
      /\ UNCHANGED <<failure, db, tx, env>>
  BY DEF EndOfOp, IInv, TypeOK
<1>2. k = Calls(op)
  BY <1>1, LoopLengths
<1>3. row = NoTx /\ pending = NoRows
  <2>1. Calls(op) \in Nat
    BY <1>1, CallsType
  <2> QED
    BY <1>2, <2>1 DEF IInv, TxInv
<1>4. CASE op = DELETE_ONE
  <2>1. stage' = "teardown" /\ op' = op
    BY <1>4 DEF EndOfOp
  <2>2. TypeOK'
    BY <1>1, <2>1 DEF IInv, TypeOK, db, tx, env, Working
  <2> QED
    BY <1>1, <1>3, <2>1, <2>2, NoRowsFacts
       DEF IInv, db, tx, env, OnlyOutsideFailures, ReferentialIntegrity, TxInv,
           DdlInv, SeedUsersInv, SeedPostsInv, SetvalInv, OpsInv
<1>5. CASE op # DELETE_ONE
  <2>1. stage' = stage /\ op' = op + 1
    BY <1>5 DEF EndOfOp
  <2>2. op \in 0..5
    BY <1>5 DEF IInv, TypeOK, INSERT_ONE, DELETE_ONE
  <2>3. TypeOK'
    BY <1>1, <2>1, <2>2 DEF IInv, TypeOK, db, tx, env, INSERT_ONE, DELETE_ONE
  <2>4. /\ VictimIds' = VictimIds /\ IsPostgres' = IsPostgres
        /\ Deleted' = 0 /\ Deleted = 0
    BY <1>1, <1>5, <2>1
       DEF env, VictimIds, Victims, IsPostgres, Deleted
  <2>5. 0 <= Calls(op)'
    <3>1. /\ cfg.warmup \in Nat /\ cfg.iters \in Nat
          /\ cfg.bulk_iters \in Nat /\ cfg.read_iters \in Nat
      BY <1>1, ConfigFacts
    <3> QED
      BY <1>1, <3>1 DEF Calls, AllCalls, Lesser, env
  <2>6. OpsInv'
    <3>1. op' <= INSERT_BULK => op <= INSERT_BULK
      BY <2>1, <2>2 DEF INSERT_BULK
    <3>2. OpsInv
      BY DEF IInv
    <3>3. /\ users' = users /\ posts' = posts /\ users_seq' = users_seq
          /\ pending' = pending
      BY <1>1 DEF db, tx
    <3>4. HasLargest(DOMAIN users \cup DOMAIN pending)' =
          HasLargest(DOMAIN users \cup DOMAIN pending)
      BY <3>3 DEF HasLargest
    <3> QED
      BY <1>1, <2>4, <2>5, <3>1, <3>2, <3>3, <3>4 DEF OpsInv, SeededPosts
  <2> QED
    BY <1>1, <1>3, <2>1, <2>3, <2>6, NoRowsFacts
       DEF IInv, db, tx, env, OnlyOutsideFailures, ReferentialIntegrity, TxInv,
           DdlInv, SeedUsersInv, SeedPostsInv, SetvalInv
<1> QED
  BY <1>4, <1>5

LEMMA TeardownStep ==
    ASSUME SafeSizes, IInv, Teardown
    PROVE  IInv'
<1>1. TypeOK'
  BY DEF IInv, TypeOK, Teardown, db, tx, env
<1> QED
  BY <1>1
     DEF IInv, Teardown, db, tx, env, OnlyOutsideFailures, ReferentialIntegrity,
         TxInv, DdlInv, SeedUsersInv, SeedPostsInv, SetvalInv, OpsInv, VictimIds,
         Victims

\* A suite starts over on what others left; its ddl() will not mind.
LEMMA StartOver ==
    ASSUME SafeSizes, IInv, stage \in {"finished", "aborted"}, Idle,
           cfg' \in Configs, suite' \in RunnableSuites,
           runs < MaxRuns, runs' = runs + 1, outages' = outages,
           \/ UNCHANGED <<tables, users, posts>>
           \/ tables' = {} /\ users' = NoRows /\ posts' = NoRows,
           UNCHANGED <<users_seq, posts_seq>>
    PROVE  IInv'
<1>1. stage' = "ddl" /\ op' = INSERT_ONE /\ k' = 0 /\ failure' = "none"
      /\ row' = row /\ pending' = pending
  BY DEF Idle, tx
<1>2. row = NoTx /\ pending = NoRows
  BY DEF IInv, TxInv
<1>3. runs' \in 0..MaxRuns
  BY BoundsAssumption DEF IInv, TypeOK
<1>4. op' \in INSERT_ONE..DELETE_ONE /\ stage' \in Working
  BY <1>1 DEF INSERT_ONE, DELETE_ONE, Working, SetupStages
<1>5. /\ tables' \subseteq {"users", "posts"}
      /\ DOMAIN users' \subseteq Nat /\ users' \in [DOMAIN users' -> UserRow]
      /\ DOMAIN posts' \subseteq Nat /\ posts' \in [DOMAIN posts' -> PostRow]
  BY NoRowsFacts DEF IInv, TypeOK
<1>6. TypeOK'
  BY <1>1, <1>2, <1>3, <1>4, <1>5 DEF IInv, TypeOK
<1>7. ReferentialIntegrity'
  BY NoRowsFacts DEF IInv, ReferentialIntegrity
<1> QED
  BY <1>1, <1>2, <1>6, <1>7, NoRowsFacts
     DEF IInv, OnlyOutsideFailures, TxInv, DdlInv, SeedUsersInv, SeedPostsInv,
         SetvalInv, OpsInv

LEMMA NextSuiteStep ==
    ASSUME SafeSizes, IInv, NextSuite
    PROVE  IInv'
<1>1. cfg' \in Configs /\ suite' \in RunnableSuites
  BY DEF NextSuite, IInv, TypeOK
<1> QED
  BY <1>1, StartOver DEF NextSuite, db

LEMMA RerunStep ==
    ASSUME SafeSizes, IInv, Rerun
    PROVE  IInv'
<1>1. /\ stage \in {"finished", "aborted"} /\ Idle /\ cfg' \in Configs
      /\ runs < MaxRuns /\ runs' = runs + 1 /\ outages' = outages
  BY DEF Rerun
<1>2. CASE IsPostgres
  <2>1. suite' \in RunnableSuites /\ UNCHANGED db
    BY <1>2 DEF Rerun, FirstSuites
  <2> QED
    BY <1>1, <2>1, StartOver DEF db
<1>3. CASE ~IsPostgres
  <2>1. /\ suite' = suite /\ UNCHANGED <<users_seq, posts_seq>>
        /\ \/ UNCHANGED <<tables, users, posts>>
           \/ tables' = {} /\ users' = NoRows /\ posts' = NoRows
    BY <1>3 DEF Rerun
  <2>2. suite' \in RunnableSuites
    BY <2>1 DEF IInv, TypeOK
  <2> QED
    BY <1>1, <2>1, <2>2, StartOver
<1> QED
  BY <1>2, <1>3

\* An interruption rolls back what was open and keeps what was committed.
LEMMA OutageStep ==
    ASSUME SafeSizes, IInv, Outage
    PROVE  IInv'
<1>1. /\ stage' = "aborted" /\ failure' = "outside" /\ row' = NoTx
      /\ pending' = NoRows /\ UNCHANGED <<op, k, db, suite, cfg, runs>>
  BY DEF Outage
<1>2. outages' \in 0..MaxOutages
  BY BoundsAssumption DEF Outage, IInv, TypeOK
<1>3. TypeOK'
  <2>1. row' \in NoTx..BULK_SIZE
    BY <1>1, SizesAssumption DEF NoTx
  <2> QED
    BY <1>1, <1>2, <2>1, NoRowsFacts DEF IInv, TypeOK, db
<1> QED
  BY <1>1, <1>3, NoRowsFacts
     DEF IInv, db, OnlyOutsideFailures, ReferentialIntegrity, TxInv, DdlInv,
         SeedUsersInv, SeedPostsInv, SetvalInv, OpsInv

LEMMA StutterStep ==
    ASSUME IInv, UNCHANGED vars
    PROVE  IInv'
<1>1. /\ VictimIds' = VictimIds /\ IsPostgres' = IsPostgres
      /\ Deleted' = Deleted /\ Calls(op)' = Calls(op)
      /\ HasLargest(DOMAIN users \cup DOMAIN pending)' =
         HasLargest(DOMAIN users \cup DOMAIN pending)
      /\ \A n : SeededUsers(n)' = SeededUsers(n)
      /\ Victims' = Victims
  BY DEF vars, VictimIds, Victims, IsPostgres, Deleted, Calls, AllCalls,
         HasLargest, SeededUsers, SeedUserId
<1>2. TypeOK'
  BY DEF IInv, TypeOK, vars
<1>3. OpsInv'
  BY <1>1 DEF IInv, OpsInv, vars, SeededPosts
<1> QED
  BY <1>1, <1>2, <1>3
     DEF IInv, vars, OnlyOutsideFailures, ReferentialIntegrity, TxInv, DdlInv,
         SeedUsersInv, SeedPostsInv, SetvalInv, SeededPosts

-----------------------------------------------------------------------
(* The theorems.                                                             *)

\* Every step of the program and of its surroundings preserves the invariant.
LEMMA NextPreserves ==
    ASSUME SafeSizes, IInv, [Next]_vars
    PROVE  IInv'
<1>1. CASE Setup
  BY <1>1, DropPostsStep, DropUsersStep, CreateUsersStep, CreatePostsStep,
     DdlBatchStep, SeedUsersStep, SeedPostsStep, SetvalUsersStep,
     SetvalPostsStep, EndOfSetupLoopStep
     DEF Setup
<1>2. CASE RunSuite
  BY <1>2, InsertOneStep, InsertBulkStep, BulkBeginStep, BulkRowStep,
     BulkCommitStep, FetchByIdStep, FetchPageStep, JoinQueryStep,
     UpdateOneStep, DeleteOneStep, EndOfOpStep
     DEF RunSuite
<1>3. CASE Teardown
  BY <1>3, TeardownStep
<1>4. CASE NextSuite
  BY <1>4, NextSuiteStep
<1>5. CASE Rerun
  BY <1>5, RerunStep
<1>6. CASE Outage
  BY <1>6, OutageStep
<1>7. CASE UNCHANGED vars
  BY <1>7, StutterStep
<1> QED
  BY <1>1, <1>2, <1>3, <1>4, <1>5, <1>6, <1>7 DEF Next, Program

LEMMA Inductive ==
    ASSUME SafeSizes
    PROVE  Spec => []IInv
<1>1. Init => IInv
  BY InitIInv
<1>2. IInv /\ [Next]_vars => IInv'
  BY NextPreserves
<1> QED
  BY <1>1, <1>2, PTL DEF Spec

\* The variables keep their types.
THEOREM TypeCorrect ==
    ASSUME SafeSizes
    PROVE  Spec => []TypeOK
<1>1. IInv => TypeOK
  BY DEF IInv
<1> QED
  BY <1>1, Inductive, PTL

\* Whatever is interrupted where, and whatever an earlier suite or process
\* left, no statement of ddl(), seed_sql() and the seven operations is refused
\* and no ensure!/bail! of a suite fires, as long as SafeSizes holds.
THEOREM NoRefusals ==
    ASSUME SafeSizes
    PROVE  Spec => []OnlyOutsideFailures
<1>1. IInv => OnlyOutsideFailures
  BY DEF IInv
<1> QED
  BY <1>1, Inductive, PTL

\* Default inserts of insert_one() and insert_bulk() never meet an id in use,
\* as long as the victims end below the sequences (SafeSizes).
THEOREM NoCollisions ==
    ASSUME SafeSizes
    PROVE  Spec => []DefaultInsertsDoNotCollide
<1>1. IInv => DefaultInsertsDoNotCollide
  BY DEF IInv, OnlyOutsideFailures, DefaultInsertsDoNotCollide
<1> QED
  BY <1>1, Inductive, PTL

\* No post ever refers to a missing user, also where SQLite would not notice:
\* BuildAssumption leaves SqliteForeignKeys open.
THEOREM NothingDangles ==
    ASSUME SafeSizes
    PROVE  Spec => []ReferentialIntegrity
<1>1. IInv => ReferentialIntegrity
  BY DEF IInv
<1> QED
  BY <1>1, Inductive, PTL

\* The last step of setup() leads to the same database everywhere, and no later
\* step leads back to where the first operation is due.
LEMMA SeededIdenticallyStep ==
    ASSUME SafeSizes, IInv, SeededIdentically, [Next]_vars
    PROVE  SeededIdentically'
<1>2. ASSUME IInv, SeededIdentically, EndOfSetupLoop, (stage = "ops")'
      PROVE  SeededIdentically'
  <2>1. /\ cfg \in Configs /\ stage = "setval" /\ k = LoopLength
        /\ UNCHANGED <<suite, cfg, users, posts, users_seq, posts_seq>>
    BY <1>2 DEF IInv, TypeOK, EndOfSetupLoop, SetupStages, StageAfter, db, env
  <2>2. /\ users = SeededUsers(SEED_USERS + Victims)
        /\ posts = SeededPosts(SEED_POSTS)
        /\ IsPostgres => users_seq = SeqStart /\ posts_seq = SeqStart
    BY <1>2, <2>1, LoopLengths DEF IInv, SetvalInv
  <2>3. /\ DOMAIN users = 1..SEED_USERS \cup VictimIds
        /\ \A id \in DOMAIN users : id <= SeqStart
    BY <2>1, <2>2, AllSeedIds, OpsStart
  <2>4. users = [id \in 1..SEED_USERS \cup VictimIds |-> SeedUser(id)]
    BY <2>2, <2>3 DEF SeededUsers
  <2>5. VictimIds = {DELETE_BASE + i : i \in 1..Victims}
    <3>1. Victims \in Nat /\ DELETE_BASE \in Nat
      BY <2>1, ConfigFacts, IdsAssumption
    <3>2. \A x \in VictimIds : x - DELETE_BASE \in 1..Victims
                               /\ x = DELETE_BASE + (x - DELETE_BASE)
      BY <3>1 DEF VictimIds
    <3>3. \A i \in 1..Victims : DELETE_BASE + i \in VictimIds
      BY <3>1 DEF VictimIds
    <3> QED
      BY <3>2, <3>3
  <2>6. \A p \in DOMAIN posts : p <= SeqStart
    <3>1. DOMAIN posts = 1..SEED_POSTS
      BY <2>2 DEF SeededPosts
    <3> QED
      BY <3>1, SizesAssumption, IdsAssumption DEF SafeSizes
  <2>7. /\ users = [id \in 1..SEED_USERS \cup
                             {DELETE_BASE + i : i \in 1..(cfg.warmup + cfg.iters)}
                     |-> SeedUser(id)]
        /\ posts = [p \in 1..SEED_POSTS |-> SeedPost(p)]
    BY <2>2, <2>4, <2>5 DEF Victims, SeededPosts
  <2>8. IsPostgres => /\ \A id \in DOMAIN users : id <= users_seq
                      /\ \A p \in DOMAIN posts : p <= posts_seq
    BY <2>2, <2>3, <2>6
  <2> QED
    BY <2>1, <2>7, <2>8 DEF SeededIdentically, IsPostgres
<1>3. ASSUME IInv, SeededIdentically, [Next]_vars, (stage = "ops")',
             ~EndOfSetupLoop, ~UNCHANGED vars
      PROVE  ~(op = INSERT_ONE /\ k = 0)'
  <2>1. k \in Nat /\ op \in Nat /\ row \in Int
    BY <1>3, SizesAssumption
       DEF IInv, TypeOK, INSERT_ONE, DELETE_ONE, NoTx
  <2>2. CASE RunSuite
    <3>1. CASE BulkBegin \/ BulkRow
      BY <3>1 DEF BulkBegin, BulkRow, AtCall, Settle, INSERT_ONE, INSERT_BULK
    <3>2. CASE EndOfOp
      BY <3>2, <1>3, <2>1 DEF EndOfOp, INSERT_ONE
    <3>3. CASE ~(BulkBegin \/ BulkRow \/ EndOfOp)
      <4>1. k' = k + 1
        BY <1>3, <2>2, <3>3
           DEF RunSuite, InsertOne, InsertBulk, BulkCommit, FetchById,
               FetchPage, JoinQuery, UpdateOne, DeleteOne, Settle
      <4> QED
        BY <2>1, <4>1
    <3> QED
      BY <3>1, <3>2, <3>3
  <2>3. CASE ~RunSuite
    <3>1. stage' # "ops"
      BY <1>3, <2>3
         DEF Next, Program, Setup, DropPosts, DropUsers, CreateUsers,
             CreatePosts, AtDdl, DdlBatch, SeedUsers, SeedPosts, SetvalUsers,
             SetvalPosts, Settle, Teardown, NextSuite, Rerun, Idle, Outage
    <3> QED
      BY <1>3, <3>1
  <2> QED
    BY <2>2, <2>3
<1>4. ASSUME SeededIdentically, UNCHANGED vars
      PROVE  SeededIdentically'
  BY <1>4 DEF SeededIdentically, vars, IsPostgres
<1>5. ASSUME (stage # "ops" \/ ~(op = INSERT_ONE /\ k = 0))'
      PROVE  SeededIdentically'
  BY <1>5 DEF SeededIdentically
<1> QED
  BY <1>2, <1>3, <1>4, <1>5

\* When the first operation is due, every suite has the same database, down to
\* the values of the sequences the default ids come from.
THEOREM SameStart ==
    ASSUME SafeSizes
    PROVE  Spec => []SeededIdentically
<1>1. Init => SeededIdentically
  BY DEF Init, SeededIdentically
<1>2. IInv /\ SeededIdentically /\ [Next]_vars => SeededIdentically'
  BY SeededIdenticallyStep
<1> QED
  BY <1>1, <1>2, Inductive, PTL DEF Spec

\* While the operations run, a row that disappears is a victim.
THEOREM DeletesOnlyVictims ==
    ASSUME SafeSizes
    PROVE  Spec => OnlyVictimsVanish
<1> DEFINE Vanishing == \A id \in DOMAIN users \ DOMAIN users' :
                           users[id].name = "victim"
<1>1. ASSUME IInv, Next, stage = "ops"
      PROVE  Vanishing
  <2>1. RunSuite \/ Outage
    BY <1>1
       DEF Next, Program, Setup, DropPosts, DropUsers, CreateUsers,
           CreatePosts, AtDdl, DdlBatch, SeedUsers, SeedPosts, SetvalUsers,
           SetvalPosts, EndOfSetupLoop, SetupStages, Teardown, NextSuite, Rerun
  <2>2. CASE InsertOne \/ InsertBulk \/ BulkCommit
    BY <1>1, <2>2, InsertOneStep, InsertBulkStep, BulkCommitStep
  <2>3. CASE BulkRow
    BY <1>1, <2>3, BulkRowStep
  <2>4. CASE BulkBegin \/ FetchById \/ FetchPage \/ JoinQuery \/ EndOfOp \/ Outage
    <3>1. users' = users
      BY <2>4 DEF BulkBegin, FetchById, FetchPage, JoinQuery, EndOfOp, Outage, db
    <3> QED
      BY <3>1
  <2>5. CASE UpdateOne
    <3>1. DOMAIN users' = DOMAIN users
      BY <2>5 DEF UpdateOne
    <3> QED
      BY <3>1
  <2>6. CASE DeleteOne
    <3> DEFINE id == DELETE_BASE + 1 + k
    <3>1. users' = Without(users, {id}) /\ id \in VictimIds
      BY <1>1, <2>6, DeleteOneStep
    <3> HIDE DEF id
    <3>2. id \in DOMAIN users => users[id].name = "victim"
      BY <1>1, <3>1 DEF IInv, OpsInv
    <3>3. DOMAIN users' = DOMAIN users \ {id}
      BY <3>1 DEF Without
    <3> QED
      BY <3>2, <3>3
  <2> QED
    BY <2>1, <2>2, <2>3, <2>4, <2>5, <2>6 DEF RunSuite
<1>2. IInv /\ [Next]_vars => [stage = "ops" => Vanishing]_vars
  BY <1>1
<1> QED
  BY <1>2, Inductive, PTL DEF Spec, OnlyVictimsVanish

=======================================================================
