-------------------- MODULE SuiteRefinement_proofs --------------------
(* Proof that SuiteRun implements SuiteContract, for every size, every       *)
(* BenchConfig and every set of suites that satisfy SafeSizes.  Liveness     *)
(* (GetsDone) is left to TLC.                                                *)
EXTENDS SuiteRefinement, SuiteWork_proofs

-----------------------------------------------------------------------
(* The simulation.                                                           *)

\* The operations in their order.
LEMMA NameOfCall ==
    ASSUME op \in INSERT_ONE..DELETE_ONE
    PROVE  /\ op = INSERT_ONE  => Contract!Order[op + 1] = "insert_one"
           /\ op = INSERT_BULK => Contract!Order[op + 1] = "insert_bulk"
           /\ op = FETCH_BY_ID => Contract!Order[op + 1] = "fetch_by_id"
           /\ op = FETCH_PAGE  => Contract!Order[op + 1] = "fetch_page"
           /\ op = JOIN_QUERY  => Contract!Order[op + 1] = "join_query"
           /\ op = UPDATE_ONE  => Contract!Order[op + 1] = "update_one"
           /\ op = DELETE_ONE  => Contract!Order[op + 1] = "delete_one"
  BY DEF Contract!Order, INSERT_ONE, INSERT_BULK, FETCH_BY_ID, FETCH_PAGE,
         JOIN_QUERY, UPDATE_ONE, DELETE_ONE

\* The contract counts the same calls.
LEMMA SameTotal ==
    ASSUME op \in INSERT_ONE..DELETE_ONE
    PROVE  Contract!Total(Contract!Order[op + 1]) = Calls(op)
<1>1. op \in {0, 1, 2, 3, 4, 5, 6}
  BY DEF INSERT_ONE, DELETE_ONE
<1>2. CASE op \in UnguardedOps
  BY <1>2, NameOfCall
     DEF Contract!Total, Contract!Reads, Calls, AllCalls, UnguardedOps, INSERT_ONE,
         INSERT_BULK, FETCH_BY_ID, FETCH_PAGE, JOIN_QUERY, UPDATE_ONE, DELETE_ONE
<1>3. CASE op = INSERT_BULK
  <2>1. /\ Contract!Order[op + 1] = "insert_bulk"
        /\ "insert_bulk" \notin Contract!Reads /\ op \notin UnguardedOps
    BY <1>3, NameOfCall
       DEF Contract!Reads, UnguardedOps, INSERT_BULK, FETCH_BY_ID, FETCH_PAGE,
           JOIN_QUERY
  <2> QED
    BY <1>3, <2>1 DEF Contract!Total, Calls, AllCalls, Lesser
<1>4. CASE op \in {INSERT_ONE, UPDATE_ONE, DELETE_ONE}
  <2>1. /\ Contract!Order[op + 1] \in {"insert_one", "update_one", "delete_one"}
        /\ op \notin UnguardedOps /\ op # INSERT_BULK
        /\ op \notin {FETCH_PAGE, JOIN_QUERY}
    BY <1>4, NameOfCall
       DEF UnguardedOps, INSERT_ONE, INSERT_BULK, FETCH_BY_ID,
           FETCH_PAGE, JOIN_QUERY, UPDATE_ONE, DELETE_ONE
  <2> QED
    BY <2>1 DEF Contract!Total, Contract!Reads, Calls, AllCalls
<1> QED
  BY <1>1, <1>2, <1>3, <1>4
     DEF UnguardedOps, INSERT_ONE, INSERT_BULK, FETCH_BY_ID,
         FETCH_PAGE, JOIN_QUERY, UPDATE_ONE, DELETE_ONE

\* Setting up does not show.
LEMMA StatementsHidden ==
    ASSUME Statements, OnlyOutsideFailures'
    PROVE  UNCHANGED Contract!vars
<1>1. /\ stage \in SetupStages
      /\ UNCHANGED <<stage, failure, op, suite, cfg>>
  BY StatementsGoOn DEF env
<1> QED
  BY <1>1 DEF Contract!vars, ContractPhase, Visible, SetupStages

\* The last step of setup() is the one that shows, and shows the seed.
LEMMA SetupShown ==
    ASSUME SafeSizes, RInv, RInv', EndOfSetupLoop
    PROVE  Contract!Setup \/ UNCHANGED Contract!vars
<1>1. /\ stage \in SetupStages /\ stage' = StageAfter(stage) /\ k' = 0
      /\ UNCHANGED <<op, failure, db, tx, suite, cfg>>
      /\ op = INSERT_ONE /\ cfg \in Configs
  BY DEF EndOfSetupLoop, env, RInv, FirstOp, IInv, TypeOK
<1>2. CASE stage = "setval"
  <2>1. stage' = "ops" /\ op' = INSERT_ONE
    BY <1>1, <1>2 DEF StageAfter
  <2>2. /\ users' = [id \in 1..SEED_USERS \cup
                            {DELETE_BASE + i : i \in 1..(cfg.warmup + cfg.iters)}
                     |-> SeedUser(id)]
        /\ posts' = [p \in 1..SEED_POSTS |-> SeedPost(p)]
    BY <1>1, <2>1 DEF RInv, SeededIdentically, SeedUser, SeedPost
  <2>3. users' = Contract!SeededUsers(cfg.warmup + cfg.iters)
    <3>1. /\ Victims \in Nat /\ DELETE_BASE \in Nat /\ SEED_USERS \in Nat
          /\ SEED_USERS < DELETE_BASE
      BY <1>1, ConfigFacts, IdsAssumption, SizesAssumption
    <3>2. {DELETE_BASE + i : i \in 1..Victims} =
          (DELETE_BASE + 1)..(DELETE_BASE + Victims)
      <4>1. \A x \in (DELETE_BASE + 1)..(DELETE_BASE + Victims) :
               /\ x - DELETE_BASE \in 1..Victims
               /\ x = DELETE_BASE + (x - DELETE_BASE)
        BY <3>1
      <4>2. \A i \in 1..Victims :
               DELETE_BASE + i \in (DELETE_BASE + 1)..(DELETE_BASE + Victims)
        BY <3>1
      <4> QED
        BY <4>1, <4>2
    <3>3. \A id \in 1..SEED_USERS \cup
                     ((DELETE_BASE + 1)..(DELETE_BASE + Victims)) :
             id \in 1..SEED_USERS <=> id <= SEED_USERS
      BY <3>1
    <3> QED
      BY <2>2, <3>2, <3>3
         DEF Contract!SeededUsers, Contract!Victims, SeedUser, Victims
  <2>4. posts' = Contract!SeededPosts
    BY <2>2 DEF Contract!SeededPosts, SeedPost
  <2> QED
    BY <1>1, <1>2, <2>1, <2>3, <2>4
       DEF Contract!Setup, ContractPhase, Visible, SetupStages, INSERT_ONE
<1>3. CASE stage # "setval"
  <2>1. stage' \in SetupStages
    BY <1>1, <1>3 DEF StageAfter, SetupStages
  <2> QED
    BY <1>1, <2>1 DEF Contract!vars, ContractPhase, Visible, SetupStages
<1> QED
  BY <1>2, <1>3

\* A call that returned is a call of the contract.
LEMMA CallShown ==
    ASSUME IInv, IInv', Calling, NEW o, AtCall(o), k' = k + 1
    PROVE  /\ Contract!Call(Contract!Order[op + 1])
           /\ Visible(users) = users /\ Visible(users)' = users'
           /\ Visible(posts) = posts
<1>1. /\ stage = "ops" /\ UNCHANGED <<stage, op, posts, suite, cfg>>
      /\ op \in INSERT_ONE..DELETE_ONE /\ k < Calls(op)
  BY CallsGoOn DEF IInv, TypeOK, AtCall, env
<1>2. Contract!Total(Contract!Order[op + 1]) = Calls(op)
  BY <1>1, SameTotal
<1> QED
  BY <1>1, <1>2 DEF Contract!Call, ContractPhase, Visible, SetupStages

LEMMA InsertOneShown ==
    ASSUME SafeSizes, Nat \ {0} \subseteq Ids, RInv, IInv', InsertOne
    PROVE  Contract!insert_one
<1> DEFINE id == LastUser + 1
           new == [x \in {id} |-> [name |-> "new_user", active |-> TRUE]]
<1>1. /\ AtCall(INSERT_ONE) /\ op = INSERT_ONE /\ stage = "ops"
      /\ op \in INSERT_ONE..DELETE_ONE /\ IInv /\ pending = NoRows
  BY CallFacts DEF InsertOne, RInv, IInv, TypeOK, AtCall, INSERT_ONE, INSERT_BULK
<1>2. /\ id \notin DOMAIN users
      /\ users' = Overlay(users, new) /\ k' = k + 1
  BY DEF InsertOne, Settle, IInv, OnlyOutsideFailures, LastUser
<1>3. id \in Ids
  <2>1. op <= INSERT_BULK
    BY <1>1 DEF INSERT_ONE, INSERT_BULK
  <2>2. LastUser \in Nat
    BY <1>1, <2>1, FreshDefaultIds DEF LastUser
  <2> QED
    BY <2>2
<1>4. /\ Contract!Call("insert_one")
      /\ Visible(users) = users /\ Visible(users)' = users'
  BY <1>1, <1>2, CallShown, NameOfCall DEF Calling
<1>5. users' = Contract!With(users, {id}, [name |-> "new_user", active |-> TRUE])
  BY <1>2 DEF Overlay, Contract!With
<1> HIDE DEF id
<1> QED
  BY <1>2, <1>3, <1>4, <1>5 DEF Contract!insert_one, Contract!With

LEMMA InsertBulkShown ==
    ASSUME SafeSizes, Nat \ {0} \subseteq Ids, RInv, IInv', InsertBulk
    PROVE  Contract!insert_bulk
<1> DEFINE ids == (LastUser + 1)..(LastUser + BULK_SIZE)
           new == [x \in ids |-> BulkUser]
<1>1. /\ AtCall(INSERT_BULK) /\ op = INSERT_BULK /\ stage = "ops"
      /\ op \in INSERT_ONE..DELETE_ONE /\ IInv /\ pending = NoRows
  BY DEF InsertBulk, AtCall, RInv, IInv, TypeOK, TxInv
<1>2. /\ ids \cap DOMAIN users = {}
      /\ users' = Overlay(users, new) /\ k' = k + 1
  BY DEF InsertBulk, Settle, IInv, OnlyOutsideFailures, LastUser
<1>3. /\ LastUser + 1 \in Ids
      /\ (LastUser + 1)..(LastUser + 1 + BULK_SIZE - 1) = ids
  <2>1. LastUser \in Nat
    BY <1>1, FreshDefaultIds DEF LastUser, INSERT_BULK
  <2> QED
    BY <2>1, SizesAssumption
<1>4. /\ Contract!Call("insert_bulk")
      /\ Visible(users) = users /\ Visible(users)' = users'
  BY <1>1, <1>2, CallShown, NameOfCall DEF Calling
<1>5. users' = Contract!With(users, ids, [name |-> "bulk_user", active |-> TRUE])
  BY <1>2 DEF Overlay, Contract!With, BulkUser
<1> HIDE DEF ids
<1> QED
  BY <1>2, <1>3, <1>4, <1>5 DEF Contract!insert_bulk, Contract!With

\* The rows of a transaction show together when it commits.
LEMMA BulkCommitShown ==
    ASSUME SafeSizes, Nat \ {0} \subseteq Ids, RInv, IInv', BulkCommit
    PROVE  Contract!insert_bulk
<1> DEFINE ids == (LastUser + 1)..(LastUser + BULK_SIZE)
<1>1. /\ AtCall(INSERT_BULK) /\ op = INSERT_BULK /\ stage = "ops"
      /\ op \in INSERT_ONE..DELETE_ONE /\ IInv /\ row = BULK_SIZE
      /\ users' = Overlay(users, pending) /\ k' = k + 1
  BY DEF BulkCommit, AtCall, RInv, IInv, TypeOK, Settle
<1>2. /\ LastUser \in Nat /\ DOMAIN pending = ids
      /\ \A id \in ids : pending[id] = BulkUser
  <2>1. row # NoTx
    BY <1>1, SizesAssumption DEF NoTx
  <2> QED
    BY <1>1, <2>1, LastPending DEF RInv
<1>3. /\ LastUser + 1 \in Ids
      /\ (LastUser + 1)..(LastUser + 1 + BULK_SIZE - 1) = ids
      /\ ids \cap DOMAIN users = {}
  <2>1. row # NoTx /\ DOMAIN users \subseteq Nat
    BY <1>1, SizesAssumption DEF NoTx, IInv, TypeOK
  <2>2. \A id \in DOMAIN users : id <= LastUser
    BY <2>1 DEF RInv, OpenRows
  <2> QED
    BY <1>2, <2>1, <2>2, SizesAssumption
<1>4. /\ Contract!Call("insert_bulk")
      /\ Visible(users) = users /\ Visible(users)' = users'
  BY <1>1, CallShown, NameOfCall DEF Calling
<1>5. users' = Contract!With(users, ids, [name |-> "bulk_user", active |-> TRUE])
  BY <1>1, <1>2 DEF Overlay, Contract!With, BulkUser
<1> HIDE DEF ids
<1> QED
  BY <1>3, <1>4, <1>5 DEF Contract!insert_bulk, Contract!With

LEMMA TransactionHidden ==
    ASSUME BulkBegin \/ BulkRow, OnlyOutsideFailures'
    PROVE  UNCHANGED Contract!vars
<1>1. stage = "ops" /\ UNCHANGED <<stage, failure, op, k, db, suite, cfg>>
  BY DEF BulkBegin, BulkRow, AtCall, env, Settle, OnlyOutsideFailures
<1> QED
  BY <1>1 DEF Contract!vars, ContractPhase, Visible, SetupStages, db

\* The contract counts with the same operator.
LEMMA SameCardinality ==
    ASSUME NEW S
    PROVE  Contract!Cardinality(S) = Cardinality(S)
  BY Zenon DEF Contract!Cardinality, Cardinality

LEMMA FetchByIdShown ==
    ASSUME SafeSizes, RInv, IInv', FetchById
    PROVE  Contract!fetch_by_id
<1>1. /\ AtCall(FETCH_BY_ID) /\ op = FETCH_BY_ID /\ stage = "ops"
      /\ op \in INSERT_ONE..DELETE_ONE /\ IInv /\ k \in Nat
      /\ k' = k + 1 /\ users' = users
  BY DEF FetchById, AtCall, RInv, IInv, TypeOK, Settle, OnlyOutsideFailures, db
<1>2. Contract!Target(k) \in DOMAIN users
  <2>1. Contract!Target(k) \in 1..SEED_USERS
    BY <1>1, SizesAssumption DEF Contract!Target
  <2> QED
    BY <1>1, <2>1 DEF IInv, OpsInv
<1>3. /\ Contract!Call("fetch_by_id")
      /\ Visible(users) = users /\ Visible(users)' = users'
  BY <1>1, CallShown, NameOfCall DEF Calling
<1> QED
  BY <1>1, <1>2, <1>3 DEF Contract!fetch_by_id

LEMMA FetchPageShown ==
    ASSUME SafeSizes, RInv, IInv', FetchPage
    PROVE  Contract!fetch_page
<1>1. /\ AtCall(FETCH_PAGE) /\ op = FETCH_PAGE /\ stage = "ops"
      /\ op \in INSERT_ONE..DELETE_ONE /\ IInv
      /\ k' = k + 1 /\ users' = users /\ Cardinality(ActiveUsers) >= PAGE_SIZE
  BY DEF FetchPage, AtCall, RInv, IInv, TypeOK, Settle, OnlyOutsideFailures, db
<1>2. /\ Contract!Call("fetch_page")
      /\ Visible(users) = users /\ Visible(users)' = users'
  BY <1>1, CallShown, NameOfCall DEF Calling
<1>3. Contract!Active = ActiveUsers
  BY <1>2 DEF Contract!Active, ActiveUsers
<1> QED
  BY <1>1, <1>2, <1>3, SameCardinality DEF Contract!fetch_page

LEMMA JoinQueryShown ==
    ASSUME SafeSizes, RInv, IInv', JoinQuery
    PROVE  Contract!join_query
<1>1. /\ AtCall(JOIN_QUERY) /\ op = JOIN_QUERY /\ stage = "ops"
      /\ op \in INSERT_ONE..DELETE_ONE /\ IInv
      /\ k' = k + 1 /\ users' = users /\ Cardinality(JoinedPosts) >= PAGE_SIZE
  BY DEF JoinQuery, AtCall, RInv, IInv, TypeOK, Settle, OnlyOutsideFailures, db
<1>2. /\ Contract!Call("join_query")
      /\ Visible(users) = users /\ Visible(users)' = users'
      /\ Visible(posts) = posts
  BY <1>1, CallShown, NameOfCall DEF Calling
<1>3. Contract!Active = ActiveUsers
  BY <1>2 DEF Contract!Active, ActiveUsers
<1> QED
  BY <1>1, <1>2, <1>3, SameCardinality DEF Contract!join_query, JoinedPosts

LEMMA UpdateOneShown ==
    ASSUME SafeSizes, RInv, IInv', UpdateOne
    PROVE  Contract!update_one
<1>1. /\ AtCall(UPDATE_ONE) /\ op = UPDATE_ONE /\ stage = "ops"
      /\ op \in INSERT_ONE..DELETE_ONE /\ IInv /\ k \in Nat /\ CallIndex = k
  BY CallFacts DEF UpdateOne, AtCall, RInv, IInv, TypeOK
<1>2. target_id(k) = Contract!Target(k) /\ target_id(k) \in 1..SEED_USERS
  <2>1. target_id(k) = 1 + (k % SEED_USERS) /\ target_id(k) \in 1..SEED_USERS
    BY <1>1, TargetIsSeeded
  <2> QED
    BY <2>1 DEF Contract!Target
<1>3. /\ k' = k + 1 /\ target_id(k) \in DOMAIN users
      /\ users' = [users EXCEPT ![target_id(k)].name = "renamed"]
  BY <1>1 DEF UpdateOne, Settle, IInv, OnlyOutsideFailures
<1>4. /\ Contract!Call("update_one")
      /\ Visible(users) = users /\ Visible(users)' = users'
  BY <1>1, <1>3, CallShown, NameOfCall DEF Calling
<1> QED
  BY <1>1, <1>2, <1>3, <1>4 DEF Contract!update_one

LEMMA DeleteOneShown ==
    ASSUME SafeSizes, RInv, IInv', DeleteOne
    PROVE  Contract!delete_one
<1> DEFINE id == DELETE_BASE + 1 + k
<1>1. /\ AtCall(DELETE_ONE) /\ op = DELETE_ONE /\ stage = "ops"
      /\ op \in INSERT_ONE..DELETE_ONE /\ IInv
      /\ k' = k + 1
  BY DEF DeleteOne, AtCall, RInv, IInv, TypeOK, Settle, OnlyOutsideFailures
<1>2. users' = Without(users, {id}) /\ id \in VictimIds
  BY <1>1, DeleteOneStep
<1>3. id \in DOMAIN users
  <2>1. /\ cfg \in Configs /\ k \in Nat
    BY <1>1 DEF IInv, TypeOK
  <2>2. id > DELETE_BASE + Deleted
    BY <1>1, <2>1, IdsAssumption DEF Deleted
  <2> HIDE DEF id
  <2> QED
    BY <1>1, <1>2, <2>2 DEF IInv, OpsInv
<1>4. /\ Contract!Call("delete_one")
      /\ Visible(users) = users /\ Visible(users)' = users'
  BY <1>1, CallShown, NameOfCall DEF Calling
<1> QED
  BY <1>1, <1>2, <1>3, <1>4 DEF Contract!delete_one, Without

LEMMA EndOfOpShown ==
    ASSUME SafeSizes, RInv, EndOfOp
    PROVE  Contract!NextOp
<1>1. /\ stage = "ops" /\ k = LoopLength /\ k' = 0
      /\ UNCHANGED <<users, posts, suite, cfg>>
      /\ op \in INSERT_ONE..DELETE_ONE /\ cfg \in Configs
  BY DEF EndOfOp, db, env, RInv, IInv, TypeOK
<1>2. Contract!Total(Contract!Order[op + 1]) = k
  BY <1>1, SameTotal, LoopLengths
<1>3. op \in 0..6 /\ DELETE_ONE = 6 /\ Len(Contract!Order) = 7
  BY <1>1 DEF INSERT_ONE, DELETE_ONE, Contract!Order
<1>4. CASE op = DELETE_ONE
  <2>1. stage' = "teardown"
    BY <1>4 DEF EndOfOp
  <2> QED
    BY <1>1, <1>2, <1>3, <1>4, <2>1
       DEF Contract!NextOp, ContractPhase, Visible, SetupStages
<1>5. CASE op # DELETE_ONE
  <2>1. stage' = "ops" /\ op' = op + 1
    BY <1>1, <1>5 DEF EndOfOp
  <2> QED
    BY <1>1, <1>2, <1>3, <1>5, <2>1
       DEF Contract!NextOp, ContractPhase, Visible, SetupStages
<1> QED
  BY <1>4, <1>5

LEMMA TeardownHidden ==
    ASSUME Teardown
    PROVE  UNCHANGED Contract!vars
  BY DEF Teardown, db, env, Contract!vars, ContractPhase, Visible, SetupStages

\* Every suite of the catalogue answers read_only() with true or false.
LEMMA ReadOnlyType ==
    ASSUME NEW s \in RunnableSuites
    PROVE  s.read_only \in BOOLEAN
<1>1. \/ s \in SqliteSuites
      \/ s \in MemorySuites
      \/ s \in {PostgresSuites[n] : n \in DOMAIN PostgresSuites}
  BY SuitesAssumption
<1>2. CASE s \in SqliteSuites
  <2>1. /\ RusqliteSqliteReadonly.read_only = TRUE
        /\ RusqliteSqlite.read_only = FALSE /\ SqlxSqlite.read_only = FALSE
        /\ DieselSqlite.read_only = FALSE /\ DieselAsyncSqlite.read_only = FALSE
        /\ SeaOrmSqlite.read_only = FALSE
    BY DEF RusqliteSqlite, RusqliteSqliteReadonly, SqlxSqlite, DieselSqlite,
           DieselAsyncSqlite, SeaOrmSqlite
  <2> QED
    BY <1>2, <2>1, Zenon DEF SqliteSuites
<1>3. CASE s \in {PostgresSuites[n] : n \in DOMAIN PostgresSuites}
  <2>1. PICK n \in 1..5 : s = PostgresSuites[n]
    BY <1>3 DEF PostgresSuites
  <2>2. n = 1 \/ n = 2 \/ n = 3 \/ n = 4 \/ n = 5
    OBVIOUS
  <2>3. s \in {TokioPostgres, SqlxPostgres, DieselPostgres,
               DieselAsyncPostgres, SeaOrmPostgres}
    BY <2>1, <2>2 DEF PostgresSuites
  <2>4. /\ TokioPostgres.read_only = FALSE /\ SqlxPostgres.read_only = FALSE
        /\ DieselPostgres.read_only = FALSE
        /\ DieselAsyncPostgres.read_only = FALSE
        /\ SeaOrmPostgres.read_only = FALSE
    BY DEF TokioPostgres, SqlxPostgres, DieselPostgres, DieselAsyncPostgres,
           SeaOrmPostgres
  <2> QED
    BY <2>3, <2>4, Zenon
<1>4. CASE s \in MemorySuites
  <2>1. /\ RusqliteSqliteMemory.read_only = FALSE
        /\ DieselSqliteMemory.read_only = FALSE
    BY DEF RusqliteSqliteMemory, DieselSqliteMemory
  <2> QED
    BY <1>4, <2>1, Zenon DEF MemorySuites
<1> QED
  BY <1>1, <1>2, <1>3, <1>4

\* Whatever the tables are like from now on, nobody sees them yet.
LEMMA StartShown ==
    ASSUME WhyAborted, stage \in {"finished", "aborted"}, stage' = "ddl",
           cfg' \in Configs, suite' \in RunnableSuites
    PROVE  Contract!Begin
<1>1. suite'.read_only \in BOOLEAN
  BY ReadOnlyType
<1> QED
  BY <1>1
     DEF WhyAborted, Contract!Begin, ContractPhase, Visible, SetupStages,
         Contract!NoRows, NoRows

LEMMA BeginShown ==
    ASSUME RInv, IInv', NextSuite \/ Rerun
    PROVE  Contract!Begin
<1>1. /\ stage \in {"finished", "aborted"} /\ stage' = "ddl"
      /\ cfg' \in Configs /\ suite' \in RunnableSuites
  BY DEF NextSuite, Rerun, Idle, IInv, TypeOK
<1> QED
  BY <1>1, StartShown DEF RInv

\* ... or any more.
LEMMA EndShown ==
    ASSUME stage \in Working, stage' = "aborted", failure' = "outside",
           UNCHANGED <<suite, cfg>>
    PROVE  Contract!Die
  BY DEF Contract!Die, ContractPhase, Visible, SetupStages, Working,
         Contract!NoRows, NoRows

LEMMA OutageShown ==
    ASSUME Outage
    PROVE  Contract!Die
  BY EndShown DEF Outage

-----------------------------------------------------------------------
(* The theorem.                                                              *)

LEMMA InitShown ==
    ASSUME Init
    PROVE  Contract!Init
<1>1. stage = "ddl" /\ cfg \in Configs /\ suite \in RunnableSuites
  BY DEF Init, FirstSuites
<1>2. suite.read_only \in BOOLEAN
  BY <1>1, ReadOnlyType
<1> QED
  BY <1>1, <1>2
     DEF Contract!Init, ContractPhase, Visible, SetupStages, Contract!NoRows,
         NoRows

LEMMA NextShown ==
    ASSUME SafeSizes, Nat \ {0} \subseteq Ids, RInv, RInv', [Next]_vars
    PROVE  [Contract!Next]_(Contract!vars)
<1>1. IInv' /\ OnlyOutsideFailures'
  BY DEF RInv, IInv
<1>2. CASE Setup
  BY <1>1, <1>2, StatementsHidden, SetupShown
     DEF Setup, Statements, Contract!Next, Contract!Work
<1>3. CASE RunSuite
  <2>1. CASE InsertOne \/ InsertBulk \/ BulkCommit
    BY <1>1, <2>1, InsertOneShown, InsertBulkShown, BulkCommitShown
       DEF Contract!Next, Contract!Work, Contract!Operation
  <2>2. CASE BulkBegin \/ BulkRow
    BY <1>1, <2>2, TransactionHidden
  <2>3. CASE FetchById \/ FetchPage \/ JoinQuery
    BY <1>1, <2>3, FetchByIdShown, FetchPageShown, JoinQueryShown
       DEF Contract!Next, Contract!Work, Contract!Operation
  <2>4. CASE UpdateOne \/ DeleteOne
    BY <1>1, <2>4, UpdateOneShown, DeleteOneShown
       DEF Contract!Next, Contract!Work, Contract!Operation
  <2>5. CASE EndOfOp
    BY <2>5, EndOfOpShown DEF Contract!Next, Contract!Work
  <2> QED
    BY <1>3, <2>1, <2>2, <2>3, <2>4, <2>5 DEF RunSuite
<1>4. CASE Teardown
  BY <1>4, TeardownHidden
<1>5. CASE NextSuite \/ Rerun
  BY <1>1, <1>5, BeginShown DEF Contract!Next
<1>6. CASE Outage
  BY <1>6, OutageShown DEF Contract!Next
<1>7. CASE UNCHANGED vars
  BY <1>7 DEF vars, Contract!vars, ContractPhase, Visible, SetupStages, NoRows
<1> QED
  BY <1>2, <1>3, <1>4, <1>5, <1>6, <1>7 DEF Next, Program

\* The suites keep the contract of the trait: whatever is in their database,
\* however the rows get in there and whatever is interrupted, each setup()
\* appears as one step to the seed, each call as one step that succeeds.
THEOREM SuitesKeepContract ==
    ASSUME SafeSizes, Nat \ {0} \subseteq Ids
    PROVE  Spec => KeepsContract
<1>1. Init => Contract!Init
  BY InitShown
<1>2. RInv /\ RInv' /\ [Next]_vars => [Contract!Next]_(Contract!vars)
  BY NextShown
<1> QED
  BY <1>1, <1>2, InductiveR, PTL DEF Spec, KeepsContract, Contract!Spec

=======================================================================
