------------------------ MODULE SuiteWork_proofs ----------------------
(* Proofs about the work of the suites in SuiteRun: what their transactions  *)
(* hold, and how many rows their operations leave.                           *)
EXTENDS SuiteRun_proofs

-----------------------------------------------------------------------
(* Where a suite is, and the rows of its open transaction.                   *)

\* A process that broke off was ended from outside.
WhyAborted == stage = "aborted" => failure = "outside"

\* The operations begin with the first.
FirstOp == stage \in SetupStages => op = INSERT_ONE

LastUser == LastId(DOMAIN users, users_seq)

\* An open transaction holds the rows numbered on after the committed ones.
OpenRows ==
    row # NoTx =>
        /\ LastUser \in DOMAIN users
        /\ \A id \in DOMAIN users : id <= LastUser
        /\ pending = [id \in (LastUser + 1)..(LastUser + row) |-> BulkUser]

RInv == IInv /\ SeededIdentically /\ WhyAborted /\ FirstOp /\ OpenRows

Statements ==
    \/ DropPosts \/ DropUsers \/ CreateUsers \/ CreatePosts \/ DdlBatch
    \/ SeedUsers \/ SeedPosts \/ SetvalUsers \/ SetvalPosts

Calling ==
    \/ InsertOne
    \/ InsertBulk \/ BulkBegin \/ BulkRow \/ BulkCommit
    \/ FetchById \/ FetchPage \/ JoinQuery
    \/ UpdateOne \/ DeleteOne

\* Such a step stays where it is in the run of the suite.
LEMMA StatementsGoOn ==
    ASSUME Statements, OnlyOutsideFailures'
    PROVE  /\ stage \in SetupStages
           /\ UNCHANGED <<stage, failure, op, tx, env>>
<1>1. CASE DropPosts \/ DropUsers \/ CreateUsers \/ CreatePosts \/ DdlBatch
  BY <1>1
     DEF DropPosts, DropUsers, CreateUsers, CreatePosts, DdlBatch, AtDdl,
         SetupStages, Settle, OnlyOutsideFailures
<1>2. CASE SeedUsers \/ SeedPosts \/ SetvalUsers \/ SetvalPosts
  BY <1>2
     DEF SeedUsers, SeedPosts, SetvalUsers, SetvalPosts, SetupStages, Settle,
         OnlyOutsideFailures
<1> QED
  BY <1>1, <1>2 DEF Statements

LEMMA CallsGoOn ==
    ASSUME Calling, OnlyOutsideFailures'
    PROVE  /\ stage = "ops"
           /\ UNCHANGED <<stage, failure, op, posts, env>>
<1>1. CASE InsertOne \/ InsertBulk \/ UpdateOne \/ DeleteOne
  BY <1>1 DEF InsertOne, InsertBulk, UpdateOne, DeleteOne, AtCall, Settle,
              OnlyOutsideFailures
<1>2. CASE BulkBegin \/ BulkRow \/ BulkCommit
  BY <1>2 DEF BulkBegin, BulkRow, BulkCommit, AtCall, db, Settle,
              OnlyOutsideFailures
<1>3. CASE FetchById \/ FetchPage \/ JoinQuery
  BY <1>3 DEF FetchById, FetchPage, JoinQuery, AtCall, db, Settle,
              OnlyOutsideFailures
<1> QED
  BY <1>1, <1>2, <1>3 DEF Calling

-----------------------------------------------------------------------
(* RInv is an invariant.                                                     *)

\* The largest id among committed and pending rows is that of the last one.
LEMMA LastPending ==
    ASSUME SafeSizes, IInv, OpenRows, row # NoTx
    PROVE  /\ LastUser \in Nat /\ row \in Nat /\ ~IsPostgres
           /\ DOMAIN pending = (LastUser + 1)..(LastUser + row)
           /\ \A id \in DOMAIN pending : pending[id] = BulkUser
           /\ LastId(DOMAIN users \cup DOMAIN pending, users_seq) = LastUser + row
<1> DEFINE seen == DOMAIN users \cup DOMAIN pending
           m == CHOOSE m \in seen : \A x \in seen : x <= m
<1>1. /\ row \in Nat /\ ~IsPostgres /\ DOMAIN users \subseteq Nat
      /\ LastUser \in Nat
  BY RowsOnSqlite, SizesAssumption DEF IInv, TypeOK, TxInv, NoTx, OpenRows
<1>2. /\ DOMAIN pending = (LastUser + 1)..(LastUser + row)
      /\ \A id \in DOMAIN pending : pending[id] = BulkUser
  BY DEF OpenRows
<1>3. LastUser + row \in seen /\ \A x \in seen : x <= LastUser + row
  BY <1>1, <1>2 DEF OpenRows
<1>4. m \in seen /\ \A x \in seen : x <= m
  <2>1. seen \in SUBSET Nat
    BY <1>1, <1>2
  <2>2. HasLargest(seen)
    BY <1>3 DEF HasLargest
  <2> QED
    BY <2>1, <2>2, LargestChosen, Zenon
<1>5. seen \subseteq Nat /\ seen # {}
  BY <1>1, <1>2, <1>3
<1>6. LastId(seen, users_seq) = m
  BY <1>1, <1>5 DEF LastId
<1> HIDE DEF m, seen
<1>7. m = LastUser + row
  BY <1>1, <1>3, <1>4, <1>5
<1> QED
  BY <1>1, <1>2, <1>6, <1>7 DEF seen

LEMMA OpenRowsStep ==
    ASSUME SafeSizes, IInv, OpenRows, IInv', [Next]_vars
    PROVE  OpenRows'
<1>1. CASE BulkBegin
  <2>1. /\ stage = "ops" /\ op = INSERT_BULK /\ suite.bulk = "rows"
        /\ row = NoTx /\ row' = 0 /\ pending' = NoRows
        /\ UNCHANGED <<db, env>>
    BY <1>1 DEF BulkBegin, AtCall
  <2>2. pending = NoRows /\ ~IsPostgres /\ op <= INSERT_BULK
    BY <2>1, RowsOnSqlite DEF IInv, TypeOK, TxInv, INSERT_BULK
  <2>3. LastUser \in Nat /\ \A x \in DOMAIN users : x <= LastUser
    BY <2>1, <2>2, FreshDefaultIds DEF LastUser
  <2>4. LastUser \in DOMAIN users
    <3>1. /\ HasLargest(DOMAIN users \cup DOMAIN pending)
          /\ DOMAIN users \cup DOMAIN pending = DOMAIN users
      BY <2>1, <2>2, NoRowsFacts DEF IInv, OpsInv
    <3>2. DOMAIN users \in SUBSET Nat /\ DOMAIN users # {}
      BY <3>1 DEF IInv, TypeOK, HasLargest
    <3> DEFINE m == CHOOSE m \in DOMAIN users : \A x \in DOMAIN users : x <= m
    <3>3. m \in DOMAIN users
      BY <3>1, <3>2, LargestChosen, Zenon
    <3>4. LastUser = m
      BY <2>2, <3>2 DEF LastUser, LastId
    <3> QED
      BY <3>3, <3>4
  <2>5. LastUser' = LastUser /\ users' = users
    BY <2>1 DEF db, env, LastUser, LastId, IsPostgres
  <2>6. (LastUser + 1)..(LastUser + 0) = {}
    BY <2>3
  <2> QED
    BY <2>1, <2>3, <2>4, <2>5, <2>6 DEF OpenRows, NoRows
<1>2. CASE BulkRow
  <2> DEFINE seen == DOMAIN users \cup DOMAIN pending
             id == LastId(seen, users_seq) + 1
             new == [x \in {id} |-> BulkUser]
  <2>1. row # NoTx
    BY <1>2, SizesAssumption DEF BulkRow, NoTx
  <2>2. /\ LastUser \in Nat /\ row \in Nat
        /\ DOMAIN pending = (LastUser + 1)..(LastUser + row)
        /\ \A x \in DOMAIN pending : pending[x] = BulkUser
        /\ id = LastUser + row + 1
    BY <2>1, LastPending
  <2>3. /\ pending' = Overlay(pending, new) /\ row' = row + 1
        /\ UNCHANGED <<db, env>>
    <3>1. id \notin seen
      <4>1. \A x \in DOMAIN users : x <= LastUser
        BY <2>1 DEF OpenRows
      <4>2. DOMAIN users \subseteq Nat
        BY DEF IInv, TypeOK
      <4> HIDE DEF id
      <4> QED
        BY <2>2, <4>1, <4>2
    <3> HIDE DEF seen, id, new
    <3> QED
      BY <1>2, <3>1 DEF BulkRow, seen, id, new
  <2>4. LastUser' = LastUser /\ users' = users
    BY <2>3 DEF db, env, LastUser, LastId, IsPostgres
  <2>5. /\ DOMAIN pending' = (LastUser + 1)..(LastUser + row')
        /\ \A x \in DOMAIN pending' : pending'[x] = BulkUser
    <3>1. DOMAIN pending' = DOMAIN pending \cup {id}
      BY <2>3, OverlayFacts
    <3>2. \A x \in DOMAIN pending' : pending'[x] = BulkUser
      BY <2>2, <2>3 DEF Overlay
    <3>3. (LastUser + 1)..(LastUser + (row + 1)) =
          (LastUser + 1)..(LastUser + row) \cup {LastUser + row + 1}
      <4>1. LastUser \in Nat /\ row \in Nat
        BY <2>2
      <4> HIDE DEF id
      <4> QED
        BY <4>1
    <3> QED
      BY <2>2, <2>3, <3>1, <3>2, <3>3
  <2>6. pending' = [x \in DOMAIN pending' |-> pending'[x]]
    BY DEF IInv, TypeOK
  <2> QED
    BY <2>1, <2>4, <2>5, <2>6 DEF OpenRows
<1>3. CASE ~BulkBegin /\ ~BulkRow
  <2>1. row' = NoTx \/ UNCHANGED <<suite, users, users_seq, row, pending>>
    <3>1. CASE row = NoTx
      <4>1. row' = NoTx
        BY <1>3, <3>1, SizesAssumption
           DEF Next, Program, Setup, RunSuite, DropPosts, DropUsers,
               CreateUsers, CreatePosts, DdlBatch, SeedUsers, SeedPosts,
               SetvalUsers, SetvalPosts, EndOfSetupLoop, InsertOne, InsertBulk,
               BulkCommit, FetchById, FetchPage, JoinQuery, UpdateOne,
               DeleteOne, EndOfOp, Teardown, NextSuite, Rerun, Idle, Outage,
               vars, tx
      <4> QED
        BY <4>1
    <3>2. CASE row # NoTx
      <4>1. /\ stage = "ops" /\ op = INSERT_BULK /\ k < Calls(op)
            /\ suite.bulk = "rows"
        BY <3>2 DEF IInv, TxInv
      <4>2. k # LoopLength
        BY <4>1, LoopLengths, CallsType DEF IInv, TypeOK
      <4>3. BulkCommit \/ Outage \/ UNCHANGED vars
        BY <1>3, <4>1, <4>2
           DEF Next, Program, Setup, RunSuite, DropPosts, DropUsers,
               CreateUsers, CreatePosts, AtDdl, DdlBatch, SeedUsers, SeedPosts,
               SetvalUsers, SetvalPosts, EndOfSetupLoop, SetupStages, InsertOne,
               InsertBulk, FetchById, FetchPage, JoinQuery, UpdateOne,
               DeleteOne, AtCall, EndOfOp, Teardown, NextSuite, Rerun,
               INSERT_ONE, INSERT_BULK, FETCH_BY_ID, FETCH_PAGE, JOIN_QUERY,
               UPDATE_ONE, DELETE_ONE
      <4> QED
        BY <4>3 DEF BulkCommit, Outage, vars
    <3> QED
      BY <3>1, <3>2
  <2>2. CASE row' = NoTx
    BY <2>2 DEF OpenRows
  <2>3. CASE UNCHANGED <<suite, users, users_seq, row, pending>>
    <3>1. LastUser' = LastUser
      BY <2>3 DEF LastUser, LastId, IsPostgres
    <3> QED
      BY <2>3, <3>1 DEF OpenRows
  <2> QED
    BY <2>1, <2>2, <2>3
<1> QED
  BY <1>1, <1>2, <1>3

LEMMA WhereItIsStep ==
    ASSUME WhyAborted, FirstOp, IInv', [Next]_vars
    PROVE  WhyAborted' /\ FirstOp'
<1>1. OnlyOutsideFailures'
  BY DEF IInv
<1>2. CASE Statements
  BY <1>1, <1>2, StatementsGoOn DEF WhyAborted, FirstOp
<1>3. CASE Calling
  BY <1>1, <1>3, CallsGoOn DEF WhyAborted, FirstOp, SetupStages
<1>4. CASE EndOfSetupLoop
  BY <1>4 DEF EndOfSetupLoop, StageAfter, WhyAborted, FirstOp, SetupStages
<1>5. CASE EndOfOp \/ Teardown \/ NextSuite \/ Rerun \/ Outage
  BY <1>5 DEF EndOfOp, Teardown, NextSuite, Rerun, Idle, Outage, WhyAborted,
              FirstOp, SetupStages
<1>6. CASE UNCHANGED vars
  BY <1>6 DEF vars, WhyAborted, FirstOp
<1> QED
  BY <1>2, <1>3, <1>4, <1>5, <1>6
     DEF Next, Program, Setup, RunSuite, Statements, Calling

LEMMA InductiveR ==
    ASSUME SafeSizes
    PROVE  Spec => []RInv
<1>1. Init => WhyAborted /\ FirstOp /\ OpenRows
  BY DEF Init, WhyAborted, FirstOp, OpenRows
<1>2. /\ IInv /\ IInv' /\ WhyAborted /\ FirstOp /\ OpenRows /\ [Next]_vars
      => WhyAborted' /\ FirstOp' /\ OpenRows'
  BY WhereItIsStep, OpenRowsStep
<1>3. IInv /\ SeededIdentically /\ WhyAborted /\ FirstOp /\ OpenRows => RInv
  BY DEF RInv
<1> QED
  BY <1>1, <1>2, <1>3, Inductive, SameStart, PTL DEF Spec

\* As one step.
LEMMA RInvStep ==
    ASSUME SafeSizes, RInv, [Next]_vars
    PROVE  RInv'
<1>1. IInv /\ SeededIdentically /\ WhyAborted /\ FirstOp /\ OpenRows
  BY DEF RInv
<1>2. IInv'
  BY <1>1, NextPreserves
<1>3. SeededIdentically' /\ WhyAborted' /\ FirstOp' /\ OpenRows'
  BY <1>1, <1>2, SeededIdenticallyStep, WhereItIsStep, OpenRowsStep
<1> QED
  BY <1>2, <1>3 DEF RInv

\* Where no process works on the tables, or one has just begun, RInv asks no
\* more of them than their types and that nothing dangles.
LEMMA AtRestIsR ==
    ASSUME TypeOK', ReferentialIntegrity', row' = NoTx, pending' = NoRows,
           \/ stage' = "aborted" /\ failure' = "outside"
           \/ /\ stage' = "ddl" /\ k' = 0 /\ op' = INSERT_ONE
              /\ failure' = "none"
    PROVE  RInv'
<1>1. DOMAIN pending' = {}
  BY DEF NoRows
<1>2. TxInv'
  BY <1>1 DEF TxInv
<1>3. DdlInv' /\ SeedUsersInv' /\ SeedPostsInv' /\ SetvalInv' /\ OpsInv'
  BY DEF DdlInv, SeedUsersInv, SeedPostsInv, SetvalInv, OpsInv
<1> QED
  BY <1>2, <1>3
     DEF RInv, IInv, OnlyOutsideFailures, SeededIdentically, WhyAborted, FirstOp,
         OpenRows, SetupStages

-----------------------------------------------------------------------
(* What each operation does to the rows it is about.                         *)

LEMMA InsertOneRows ==
    ASSUME SafeSizes, IInv, IInv', InsertOne
    PROVE  /\ LastUser \in Nat /\ LastUser + 1 \notin DOMAIN users
           /\ k' = k + 1
           /\ users' = Overlay(users, [x \in {LastUser + 1} |->
                                  [name |-> "new_user", active |-> TRUE]])
<1>1. stage = "ops" /\ op <= INSERT_BULK /\ pending = NoRows
  BY CallFacts DEF InsertOne, AtCall, INSERT_ONE, INSERT_BULK
<1>2. LastUser \in Nat
  BY <1>1, FreshDefaultIds DEF LastUser
<1> QED
  BY <1>2 DEF InsertOne, Settle, IInv, OnlyOutsideFailures, LastUser

BulkIds == (LastUser + 1)..(LastUser + BULK_SIZE)

\* Both ways of insert_bulk() come to the same.
LEMMA InsertBulkRows ==
    ASSUME SafeSizes, IInv, OpenRows, IInv', InsertBulk \/ BulkCommit
    PROVE  /\ LastUser \in Nat /\ BulkIds \cap DOMAIN users = {}
           /\ k' = k + 1
           /\ users' = Overlay(users, [id \in BulkIds |-> BulkUser])
<1>1. CASE InsertBulk
  <2>1. stage = "ops" /\ op <= INSERT_BULK /\ pending = NoRows
    BY <1>1 DEF InsertBulk, AtCall, INSERT_BULK, IInv, TxInv
  <2>2. LastUser \in Nat
    BY <2>1, FreshDefaultIds DEF LastUser
  <2>3. \/ /\ BulkIds \cap DOMAIN users = {} /\ k' = k + 1
           /\ users' = Overlay(users, [id \in BulkIds |-> BulkUser])
        \/ failure' \in {"statement", "suite"}
    BY <1>1 DEF InsertBulk, Settle, LastUser, BulkIds
  <2>4. failure' \notin {"statement", "suite"}
    BY DEF IInv, OnlyOutsideFailures
  <2> QED
    BY <2>2, <2>3, <2>4
<1>2. CASE BulkCommit
  <2>1. row = BULK_SIZE /\ row # NoTx
    <3>1. row = BULK_SIZE
      BY <1>2 DEF BulkCommit
    <3> QED
      BY <3>1, SizesAssumption DEF NoTx
  <2>2. /\ LastUser \in Nat
        /\ pending = [id \in BulkIds |-> BulkUser]
        /\ \A id \in DOMAIN users : id <= LastUser
    BY <2>1, LastPending DEF OpenRows, BulkIds
  <2>3. BulkIds \cap DOMAIN users = {}
    <3>1. \A id \in BulkIds : id > LastUser
      BY <2>2, SizesAssumption DEF BulkIds
    <3> QED
      BY <2>2, <3>1 DEF IInv, TypeOK
  <2> QED
    BY <1>2, <2>2, <2>3 DEF BulkCommit, Settle
<1> QED
  BY <1>1, <1>2

\* New rows join the rows of their name and leave the others alone.
LEMMA NamedAfterInsert ==
    ASSUME NEW ids, ids \cap DOMAIN users = {},
           NEW r, users' = Overlay(users, [id \in ids |-> r])
    PROVE  \A name : Named(name)' = IF name = r.name THEN Named(name) \cup ids
                                    ELSE Named(name)
<1>1. /\ DOMAIN users' = DOMAIN users \cup ids
      /\ \A id \in ids : users'[id] = r
      /\ \A id \in DOMAIN users : users'[id] = users[id]
  BY DEF Overlay
<1> QED
  BY <1>1 DEF Named

\* An updated row changes its name.
LEMMA NamedAfterUpdate ==
    ASSUME NEW id \in DOMAIN users, NEW n,
           users[id] = [name |-> users[id].name, active |-> users[id].active],
           users' = [users EXCEPT ![id].name = n]
    PROVE  \A name : Named(name)' = IF name = n THEN Named(name) \cup {id}
                                    ELSE Named(name) \ {id}
<1>1. DOMAIN users' = DOMAIN users
  OBVIOUS
<1>2. users'[id].name = n
  OBVIOUS
<1>3. \A x \in DOMAIN users : x # id => users'[x] = users[x]
  OBVIOUS
<1> QED
  BY <1>1, <1>2, <1>3 DEF Named

LEMMA NamedAfterDelete ==
    ASSUME NEW ids, users' = Without(users, ids)
    PROVE  \A name : Named(name)' = Named(name) \ ids
  BY DEF Named, Without

LEMMA NamedOfSame ==
    ASSUME users' = users
    PROVE  \A name : Named(name)' = Named(name)
  BY DEF Named

-----------------------------------------------------------------------
(* The work done so far.                                                     *)

\* The calls of operation o that have returned.
Done(o) ==
    IF stage # "ops" THEN Calls(o)
    ELSE IF op = o THEN k ELSE IF op > o THEN Calls(o) ELSE 0

\* The targets of the first n updates.
Updated(n) ==
    {id \in 1..SEED_USERS : \E i \in 0..(n - 1) : id = 1 + (i % SEED_USERS)}

\* Every returned call has left its mark, and nothing else has.
Work ==
    /\ IsFiniteSet(Named("new_user"))
    /\ Cardinality(Named("new_user")) = Done(INSERT_ONE)
    /\ IsFiniteSet(Named("bulk_user"))
    /\ Cardinality(Named("bulk_user")) = Done(INSERT_BULK) * BULK_SIZE
    /\ Named("victim") = {id \in VictimIds : id > DELETE_BASE + Done(DELETE_ONE)}
    /\ Named("renamed") = Updated(Done(UPDATE_ONE))
    /\ Named("user") \cup Named("renamed") = 1..SEED_USERS

WorkInv == stage \in {"ops", "teardown", "finished"} => Work

\* Bulk users have come BULK_SIZE at a time.
WholeBulks ==
    /\ IsFiniteSet(Named("bulk_user"))
    /\ \E q \in Nat : Cardinality(Named("bulk_user")) = q * BULK_SIZE

Operations == INSERT_ONE..DELETE_ONE

LEMMA CallsSame ==
    ASSUME NEW o, UNCHANGED <<suite, cfg>>
    PROVE  Calls(o)' = Calls(o)
  BY DEF Calls, AllCalls, Lesser

LEMMA DoneType ==
    ASSUME SafeSizes, IInv, NEW o
    PROVE  Done(o) \in Nat
  BY CallsType DEF IInv, TypeOK, Done

\* A call counts for its own operation only.
LEMMA DoneAfterCall ==
    ASSUME stage = "ops", k' = k + 1, UNCHANGED <<stage, op, suite, cfg>>,
           NEW o
    PROVE  Done(o)' = IF o = op THEN Done(o) + 1 ELSE Done(o)
  BY CallsSame DEF Done

LEMMA DoneSame ==
    ASSUME UNCHANGED <<stage, op, k, suite, cfg>>, NEW o
    PROVE  Done(o)' = Done(o)
  BY CallsSame DEF Done

LEMMA DoneAtEndOfOp ==
    ASSUME SafeSizes, IInv, EndOfOp, NEW o \in Operations
    PROVE  Done(o)' = Done(o)
<1>1. /\ stage = "ops" /\ k = Calls(op) /\ op \in Operations
      /\ k' = 0 /\ UNCHANGED <<suite, cfg>>
      /\ IF op = DELETE_ONE THEN stage' = "teardown" /\ op' = op
                            ELSE stage' = stage /\ op' = op + 1
  BY LoopLengths DEF EndOfOp, IInv, TypeOK, Operations, env
<1>2. Calls(o)' = Calls(o) /\ o \in 0..6 /\ op \in 0..6
  BY <1>1, CallsSame DEF Operations, INSERT_ONE, DELETE_ONE
<1>3. CASE op = DELETE_ONE
  BY <1>1, <1>2, <1>3 DEF Done, DELETE_ONE
<1>4. CASE op # DELETE_ONE
  <2>1. stage' = "ops" /\ op' = op + 1
    BY <1>1, <1>4
  <2>2. CASE o = op
    BY <1>1, <1>2, <2>1, <2>2 DEF Done
  <2>3. CASE o < op
    BY <1>1, <1>2, <2>1, <2>3 DEF Done
  <2>4. CASE o > op
    BY <1>1, <1>2, <2>1, <2>4 DEF Done
  <2> QED
    BY <1>2, <2>2, <2>3, <2>4
<1> QED
  BY <1>3, <1>4

LEMMA WorkSame ==
    ASSUME Work, UNCHANGED <<users, cfg>>,
           \A o \in Operations \ {FETCH_BY_ID, FETCH_PAGE, JOIN_QUERY} :
               Done(o)' = Done(o)
    PROVE  Work'
<1>1. /\ Done(INSERT_ONE)' = Done(INSERT_ONE)
      /\ Done(INSERT_BULK)' = Done(INSERT_BULK)
      /\ Done(UPDATE_ONE)' = Done(UPDATE_ONE)
      /\ Done(DELETE_ONE)' = Done(DELETE_ONE)
  BY DEF Operations, INSERT_ONE, INSERT_BULK, FETCH_BY_ID, FETCH_PAGE,
         JOIN_QUERY, UPDATE_ONE, DELETE_ONE
<1>2. \A name : Named(name)' = Named(name)
  BY NamedOfSame
<1>3. VictimIds' = VictimIds
  BY DEF VictimIds, Victims
<1>4. Updated(Done(UPDATE_ONE))' = Updated(Done(UPDATE_ONE))
  BY <1>1 DEF Updated
<1> QED
  BY <1>1, <1>2, <1>3, <1>4 DEF Work

-----------------------------------------------------------------------
(* Each operation does its work.                                             *)

\* The names of rows, all different.
Names == {"user", "victim", "new_user", "bulk_user", "renamed"}

\* What a call of operation o leaves as it was.
LEMMA WritesCount ==
    ASSUME SafeSizes, NEW o \in {INSERT_ONE, INSERT_BULK, UPDATE_ONE, DELETE_ONE},
           stage = "ops", op = o, k' = k + 1, UNCHANGED <<stage, op, suite, cfg>>
    PROVE  /\ Done(INSERT_ONE)' = IF o = INSERT_ONE THEN Done(INSERT_ONE) + 1
                                  ELSE Done(INSERT_ONE)
           /\ Done(INSERT_BULK)' = IF o = INSERT_BULK THEN Done(INSERT_BULK) + 1
                                   ELSE Done(INSERT_BULK)
           /\ Done(UPDATE_ONE)' = IF o = UPDATE_ONE THEN Done(UPDATE_ONE) + 1
                                  ELSE Done(UPDATE_ONE)
           /\ Done(DELETE_ONE)' = IF o = DELETE_ONE THEN Done(DELETE_ONE) + 1
                                  ELSE Done(DELETE_ONE)
           /\ Done(o) = k
           /\ VictimIds' = VictimIds
  BY DoneAfterCall DEF Done, VictimIds, Victims

LEMMA InsertOneWork ==
    ASSUME SafeSizes, IInv, IInv', InsertOne, Work
    PROVE  Work'
<1> DEFINE id == LastUser + 1
           r == [name |-> "new_user", active |-> TRUE]
<1>1. /\ id \notin DOMAIN users
      /\ users' = Overlay(users, [x \in {id} |-> r])
  BY InsertOneRows
<1>2. \A name : Named(name)' = IF name = "new_user" THEN Named(name) \cup {id}
                               ELSE Named(name)
  <2>1. {id} \cap DOMAIN users = {} /\ r.name = "new_user"
    BY <1>1
  <2> HIDE DEF id, r
  <2> QED
    BY <1>1, <2>1, NamedAfterInsert
<1>3. id \notin Named("new_user")
  BY <1>1 DEF Named
<1> HIDE DEF id
<1>4. /\ IsFiniteSet(Named("new_user"))'
      /\ Cardinality(Named("new_user"))' = Cardinality(Named("new_user")) + 1
  BY <1>2, <1>3, FS_AddElement DEF Work
<1>5. /\ stage = "ops" /\ op = INSERT_ONE /\ k' = k + 1
      /\ UNCHANGED <<stage, op, suite, cfg>>
  BY InsertOneRows, CallsGoOn DEF InsertOne, AtCall, Calling, IInv, env
<1>6. /\ Done(INSERT_ONE)' = Done(INSERT_ONE) + 1
      /\ Done(INSERT_BULK)' = Done(INSERT_BULK)
      /\ Done(UPDATE_ONE)' = Done(UPDATE_ONE)
      /\ Done(DELETE_ONE)' = Done(DELETE_ONE)
      /\ VictimIds' = VictimIds
  BY <1>5, WritesCount DEF INSERT_ONE, INSERT_BULK, UPDATE_ONE, DELETE_ONE
<1>7. Updated(Done(UPDATE_ONE))' = Updated(Done(UPDATE_ONE))
  BY <1>6 DEF Updated
<1> QED
  BY <1>2, <1>4, <1>6, <1>7 DEF Work

LEMMA InsertBulkWork ==
    ASSUME SafeSizes, IInv, OpenRows, IInv', InsertBulk \/ BulkCommit, Work
    PROVE  Work'
<1>1. /\ LastUser \in Nat /\ BulkIds \cap DOMAIN users = {}
      /\ users' = Overlay(users, [x \in BulkIds |-> BulkUser])
  BY InsertBulkRows
<1>2. \A name : Named(name)' = IF name = "bulk_user" THEN Named(name) \cup BulkIds
                               ELSE Named(name)
  <2>1. BulkUser.name = "bulk_user"
    BY DEF BulkUser
  <2> QED
    BY <1>1, <2>1, NamedAfterInsert
<1>3. IsFiniteSet(BulkIds) /\ Cardinality(BulkIds) = BULK_SIZE
  <2> DEFINE a == LastUser + 1
             b == LastUser + BULK_SIZE
  <2>1. a \in Int /\ b \in Int /\ b - a + 1 = BULK_SIZE /\ ~(a > b)
    BY <1>1, SizesAssumption
  <2>2. BulkIds = a..b
    BY DEF BulkIds
  <2> HIDE DEF a, b
  <2>3. IsFiniteSet(a..b) /\ Cardinality(a..b) = IF a > b THEN 0 ELSE b - a + 1
    BY <2>1, FS_Interval
  <2> QED
    BY <2>1, <2>2, <2>3
<1>4. Named("bulk_user") \cap BulkIds = {}
  BY <1>1 DEF Named
<1>5. /\ IsFiniteSet(Named("bulk_user"))'
      /\ Cardinality(Named("bulk_user"))' =
             Cardinality(Named("bulk_user")) + BULK_SIZE
  <2>1. Named("bulk_user")' = Named("bulk_user") \cup BulkIds
    BY <1>2
  <2>2. /\ IsFiniteSet(Named("bulk_user") \cup BulkIds)
        /\ Cardinality(Named("bulk_user") \cup BulkIds) =
               Cardinality(Named("bulk_user")) + Cardinality(BulkIds)
               - Cardinality(Named("bulk_user") \cap BulkIds)
    BY <1>3, FS_Union DEF Work
  <2>3. Cardinality(Named("bulk_user") \cap BulkIds) = 0
    BY <1>4, FS_EmptySet
  <2>4. Cardinality(Named("bulk_user")) \in Nat
    BY FS_CardinalityType DEF Work
  <2>5. Cardinality(Named("bulk_user") \cup BulkIds) =
            Cardinality(Named("bulk_user")) + BULK_SIZE
    BY <1>3, <2>2, <2>3, <2>4, SizesAssumption
  <2> QED
    BY <2>1, <2>2, <2>5
<1>6. /\ stage = "ops" /\ op = INSERT_BULK /\ k' = k + 1
      /\ UNCHANGED <<stage, op, suite, cfg>>
  BY InsertBulkRows, CallsGoOn
     DEF InsertBulk, BulkCommit, AtCall, Calling, IInv, env
<1>7. /\ Done(INSERT_ONE)' = Done(INSERT_ONE)
      /\ Done(INSERT_BULK)' = Done(INSERT_BULK) + 1
      /\ Done(UPDATE_ONE)' = Done(UPDATE_ONE)
      /\ Done(DELETE_ONE)' = Done(DELETE_ONE)
      /\ VictimIds' = VictimIds
  BY <1>6, WritesCount DEF INSERT_ONE, INSERT_BULK, UPDATE_ONE, DELETE_ONE
<1>8. Updated(Done(UPDATE_ONE))' = Updated(Done(UPDATE_ONE))
  BY <1>7 DEF Updated
<1>9. Cardinality(Named("bulk_user"))' = Done(INSERT_BULK)' * BULK_SIZE
  <2>1. Done(INSERT_BULK) \in Nat /\ BULK_SIZE \in Nat
    BY DoneType, SizesAssumption
  <2>2. \A d, b \in Nat : (d + 1) * b = d * b + b
    OBVIOUS
  <2>3. (Done(INSERT_BULK) + 1) * BULK_SIZE =
            Done(INSERT_BULK) * BULK_SIZE + BULK_SIZE
    BY <2>1, <2>2
  <2> QED
    BY <1>5, <1>7, <2>3 DEF Work
<1> QED
  BY <1>2, <1>5, <1>7, <1>8, <1>9 DEF Work

LEMMA UpdateOneWork ==
    ASSUME SafeSizes, IInv, IInv', UpdateOne, Work
    PROVE  Work'
<1> DEFINE id == 1 + (k % SEED_USERS)
<1>1. /\ op = UPDATE_ONE /\ stage = "ops" /\ k \in Nat /\ ~suite.read_only
      /\ target_id(CallIndex) = id /\ id \in 1..SEED_USERS
  <2>1. /\ op = UPDATE_ONE /\ stage = "ops" /\ k \in Nat /\ CallIndex = k
        /\ ~suite.read_only
    BY CallFacts DEF UpdateOne, UnguardedOps, UPDATE_ONE, FETCH_BY_ID, FETCH_PAGE,
                     JOIN_QUERY
  <2> QED
    BY <2>1, TargetIsSeeded
<1>2. id \in DOMAIN users
  BY <1>1 DEF IInv, OpsInv
<1> HIDE DEF id
<1>3. /\ users' = [users EXCEPT ![id].name = "renamed"]
      /\ k' = k + 1 /\ UNCHANGED <<stage, op, suite, cfg>>
  BY <1>1, <1>2 DEF UpdateOne, Settle, env
<1>4. \A name : Named(name)' = IF name = "renamed" THEN Named(name) \cup {id}
                               ELSE Named(name) \ {id}
  <2>1. users[id] = [name |-> users[id].name, active |-> users[id].active]
    BY <1>2 DEF IInv, TypeOK, UserRow
  <2> QED
    BY <1>2, <1>3, <2>1, NamedAfterUpdate
<1>5. users[id].name \in {"user", "renamed"}
  BY <1>1 DEF Work, Named
<1>6. /\ id \notin Named("new_user") /\ id \notin Named("bulk_user")
      /\ id \notin Named("victim")
  BY <1>5 DEF Named
<1>7. /\ Named("new_user")' = Named("new_user")
      /\ Named("bulk_user")' = Named("bulk_user")
      /\ Named("victim")' = Named("victim")
      /\ Named("renamed")' = Named("renamed") \cup {id}
      /\ Named("user")' = Named("user") \ {id}
  BY <1>4, <1>6
<1>8. /\ Done(INSERT_ONE)' = Done(INSERT_ONE)
      /\ Done(INSERT_BULK)' = Done(INSERT_BULK)
      /\ Done(UPDATE_ONE)' = Done(UPDATE_ONE) + 1 /\ Done(UPDATE_ONE) = k
      /\ Done(DELETE_ONE)' = Done(DELETE_ONE)
      /\ VictimIds' = VictimIds
  BY <1>1, <1>3, WritesCount DEF INSERT_ONE, INSERT_BULK, UPDATE_ONE, DELETE_ONE
<1>9. Named("renamed")' = Updated(Done(UPDATE_ONE)')
  <2>1. Updated(k + 1) = Updated(k) \cup {id}
    <3>1. 0..(k + 1 - 1) = 0..(k - 1) \cup {k}
      BY <1>1
    <3> QED
      BY <1>1, <3>1 DEF Updated, id
  <2> QED
    BY <1>7, <1>8, <2>1 DEF Work
<1>10. Named("user")' \cup Named("renamed")' = 1..SEED_USERS
  BY <1>1, <1>7 DEF Work
<1>11. /\ IsFiniteSet(Named("new_user"))' = IsFiniteSet(Named("new_user"))
       /\ Cardinality(Named("new_user"))' = Cardinality(Named("new_user"))
       /\ IsFiniteSet(Named("bulk_user"))' = IsFiniteSet(Named("bulk_user"))
       /\ Cardinality(Named("bulk_user"))' = Cardinality(Named("bulk_user"))
  BY <1>7
<1> QED
  BY <1>7, <1>8, <1>9, <1>10, <1>11 DEF Work, Updated

LEMMA DeleteOneWork ==
    ASSUME SafeSizes, IInv, IInv', DeleteOne, Work
    PROVE  Work'
<1> DEFINE id == DELETE_BASE + 1 + k
<1>1. /\ op = DELETE_ONE /\ stage = "ops" /\ k \in Nat
  BY CallFacts DEF DeleteOne
<1>2. users' = Without(users, {id}) /\ id \in VictimIds
  BY DeleteOneStep
<1>3. /\ k' = k + 1 /\ UNCHANGED <<stage, op, suite, cfg>>
  <2>1. UNCHANGED <<stage, op, suite, cfg>>
    BY CallsGoOn DEF Calling, IInv, env
  <2>2. stage' # "aborted"
    BY <2>1, <1>1
  <2> QED
    BY <2>1, <2>2 DEF DeleteOne, Settle
<1>4. \A name : Named(name)' = Named(name) \ {id}
  BY <1>2, NamedAfterDelete
<1>5. /\ Done(INSERT_ONE)' = Done(INSERT_ONE)
      /\ Done(INSERT_BULK)' = Done(INSERT_BULK)
      /\ Done(UPDATE_ONE)' = Done(UPDATE_ONE)
      /\ Done(DELETE_ONE)' = Done(DELETE_ONE) + 1 /\ Done(DELETE_ONE) = k
      /\ VictimIds' = VictimIds
  BY <1>1, <1>3, WritesCount DEF INSERT_ONE, INSERT_BULK, UPDATE_ONE, DELETE_ONE
<1>6. id \in Named("victim") /\ DELETE_BASE \in Nat /\ Victims \in Nat
  <2>1. DELETE_BASE \in Nat /\ Victims \in Nat
    BY IdsAssumption, ConfigFacts DEF IInv, TypeOK
  <2>2. id > DELETE_BASE + k
    BY <1>1, <2>1
  <2> QED
    BY <1>2, <1>5, <2>1, <2>2 DEF Work
<1> HIDE DEF id
<1>7. /\ Named("new_user")' = Named("new_user")
      /\ Named("bulk_user")' = Named("bulk_user")
      /\ Named("renamed")' = Named("renamed")
      /\ Named("user")' = Named("user")
      /\ Named("victim")' = Named("victim") \ {id}
  <2>1. /\ id \notin Named("new_user") /\ id \notin Named("bulk_user")
        /\ id \notin Named("renamed") /\ id \notin Named("user")
    BY <1>6 DEF Named
  <2> QED
    BY <1>4, <2>1
<1>8. Named("victim")' = {x \in VictimIds : x > DELETE_BASE + (k + 1)}
  <2>1. \A x \in VictimIds :
            x > DELETE_BASE + (k + 1) <=> (x > DELETE_BASE + k /\ x # id)
    BY <1>1, <1>6 DEF VictimIds, id
  <2>2. Named("victim") = {x \in VictimIds : x > DELETE_BASE + k}
    BY <1>5 DEF Work
  <2> QED
    BY <1>7, <2>1, <2>2
<1>9. /\ IsFiniteSet(Named("new_user"))' = IsFiniteSet(Named("new_user"))
      /\ Cardinality(Named("new_user"))' = Cardinality(Named("new_user"))
      /\ IsFiniteSet(Named("bulk_user"))' = IsFiniteSet(Named("bulk_user"))
      /\ Cardinality(Named("bulk_user"))' = Cardinality(Named("bulk_user"))
  BY <1>7
<1> QED
  BY <1>5, <1>7, <1>8, <1>9 DEF Work, Updated

\* The work begins on the seed data.
LEMMA WorkStarts ==
    ASSUME SafeSizes, cfg \in Configs,
           users = SeededUsers(SEED_USERS + Victims),
           stage' = "ops", op' = INSERT_ONE, k' = 0, UNCHANGED <<users, cfg>>
    PROVE  Work'
<1>1. /\ SEED_USERS \in Nat /\ Victims \in Nat /\ DELETE_BASE \in Nat
      /\ SEED_USERS < DELETE_BASE
  BY ConfigFacts, SizesAssumption, IdsAssumption
<1>2. DOMAIN users = 1..SEED_USERS \cup VictimIds
  BY AllSeedIds
<1>3. \A id \in DOMAIN users : users[id] = SeedUser(id)
  BY DEF SeededUsers
<1>4. \A id \in VictimIds : id \notin 1..SEED_USERS
  BY <1>1 DEF VictimIds
<1>5. /\ Named("user") = 1..SEED_USERS /\ Named("victim") = VictimIds
      /\ Named("new_user") = {} /\ Named("bulk_user") = {}
      /\ Named("renamed") = {}
  <2>1. \A id \in 1..SEED_USERS : users[id].name = "user"
    <3> TAKE id \in 1..SEED_USERS
    <3>1. users[id] = SeedUser(id)
      BY <1>2, <1>3
    <3>2. SeedUser(id).name = "user"
      BY Zenon DEF SeedUser
    <3> QED
      BY <3>1, <3>2
  <2>2. \A id \in VictimIds : users[id].name = "victim"
    BY OpsStart
  <2> QED
    BY <1>2, <2>1, <2>2 DEF Named
<1>6. /\ Done(INSERT_ONE)' = 0 /\ Done(INSERT_BULK)' = 0
      /\ Done(UPDATE_ONE)' = 0 /\ Done(DELETE_ONE)' = 0
  BY DEF Done, INSERT_ONE, INSERT_BULK, UPDATE_ONE, DELETE_ONE
<1>7. VictimIds = {id \in VictimIds : id > DELETE_BASE + 0}
  BY <1>1 DEF VictimIds
<1>8. Updated(0) = {}
  BY DEF Updated
<1>9. 0 * BULK_SIZE = 0
  BY SizesAssumption
<1>10. VictimIds' = VictimIds /\ \A name : Named(name)' = Named(name)
  BY NamedOfSame DEF VictimIds, Victims
<1>11. /\ Named("user")' = 1..SEED_USERS /\ Named("victim")' = VictimIds
       /\ Named("new_user")' = {} /\ Named("bulk_user")' = {}
       /\ Named("renamed")' = {}
  BY <1>5, <1>10
<1>12. Updated(Done(UPDATE_ONE))' = {}
  BY <1>6, <1>8 DEF Updated
<1> QED
  BY <1>6, <1>7, <1>9, <1>10, <1>11, <1>12, FS_EmptySet DEF Work

LEMMA CallsWork ==
    ASSUME SafeSizes, IInv, OpenRows, IInv', Calling, Work
    PROVE  Work'
<1>1. CASE InsertOne
  BY <1>1, InsertOneWork
<1>2. CASE InsertBulk \/ BulkCommit
  BY <1>2, InsertBulkWork
<1>3. CASE BulkBegin \/ BulkRow
  <2>1. UNCHANGED <<users, k, stage, op, suite, cfg>>
    <3>1. UNCHANGED <<stage, op, suite, cfg>>
      BY CallsGoOn DEF IInv, env
    <3>2. stage' # "aborted"
      BY <3>1, CallsGoOn DEF IInv
    <3> QED
      BY <1>3, <3>1, <3>2 DEF BulkBegin, BulkRow, Settle, db
  <2> QED
    BY <2>1, DoneSame, WorkSame
<1>4. CASE FetchById \/ FetchPage \/ JoinQuery
  <2>1. /\ stage = "ops" /\ op \in {FETCH_BY_ID, FETCH_PAGE, JOIN_QUERY}
        /\ UNCHANGED <<stage, op, suite, cfg>>
    BY <1>4, CallsGoOn
       DEF IInv, env, FetchById, FetchPage, JoinQuery, AtCall
  <2>2. users' = users /\ k' = k + 1
    BY <1>4, <2>1 DEF FetchById, FetchPage, JoinQuery, Settle, db
  <2>3. \A o \in Operations \ {FETCH_BY_ID, FETCH_PAGE, JOIN_QUERY} :
            Done(o)' = Done(o)
    BY <2>1, <2>2, DoneAfterCall
  <2> QED
    BY <2>1, <2>2, <2>3, WorkSame
<1>5. CASE UpdateOne
  BY <1>5, UpdateOneWork
<1>6. CASE DeleteOne
  BY <1>6, DeleteOneWork
<1> QED
  BY <1>1, <1>2, <1>3, <1>4, <1>5, <1>6 DEF Calling

LEMMA WorkInvStep ==
    ASSUME SafeSizes, RInv, RInv', WorkInv, [Next]_vars
    PROVE  WorkInv'
<1>1. IInv /\ IInv' /\ OpenRows /\ OnlyOutsideFailures'
  BY DEF RInv, IInv
<1>2. CASE Statements
  BY <1>1, <1>2, StatementsGoOn DEF WorkInv, SetupStages
<1>3. CASE Calling
  BY <1>1, <1>3, CallsGoOn, CallsWork DEF WorkInv
<1>4. CASE EndOfSetupLoop
  <2> SUFFICES ASSUME stage' \in {"ops", "teardown", "finished"}
               PROVE  Work'
    BY DEF WorkInv
  <2>1. /\ stage = "setval" /\ stage' = "ops" /\ k' = 0 /\ op' = INSERT_ONE
        /\ UNCHANGED <<users, cfg>>
    BY <1>4 DEF EndOfSetupLoop, StageAfter, SetupStages, RInv, FirstOp, db, env
  <2>2. users = SeededUsers(SEED_USERS + Victims) /\ cfg \in Configs
    BY <1>1, <2>1 DEF IInv, SetvalInv, TypeOK
  <2> QED
    BY <2>1, <2>2, WorkStarts
<1>5. CASE EndOfOp
  <2>1. \A o \in Operations : Done(o)' = Done(o)
    BY <1>1, <1>5, DoneAtEndOfOp
  <2>2. stage = "ops" /\ UNCHANGED <<users, cfg>>
    BY <1>5 DEF EndOfOp, db, env
  <2> QED
    BY <2>1, <2>2, WorkSame DEF WorkInv
<1>6. CASE Teardown
  <2>1. /\ stage = "teardown" /\ stage' = "finished"
        /\ UNCHANGED <<users, suite, cfg>>
    BY <1>6 DEF Teardown, db, env
  <2>2. \A o : Done(o)' = Done(o)
    BY <2>1, CallsSame DEF Done
  <2> QED
    BY <2>1, <2>2, WorkSame DEF WorkInv
<1>7. CASE NextSuite \/ Rerun \/ Outage
  BY <1>7 DEF NextSuite, Rerun, Idle, Outage, WorkInv
<1>8. CASE UNCHANGED vars
  BY <1>8, DoneSame, WorkSame DEF vars, WorkInv
<1> QED
  BY <1>2, <1>3, <1>4, <1>5, <1>6, <1>7, <1>8
     DEF Next, Program, Setup, RunSuite, Statements, Calling

\* Where the work is known, so is what the bulk inserts left.
LEMMA WorkIsWhole ==
    ASSUME SafeSizes, IInv', Work'
    PROVE  WholeBulks'
<1>1. Done(INSERT_BULK)' \in Nat
  <2>1. cfg' \in Configs /\ k' \in Nat
    BY DEF IInv, TypeOK
  <2>2. Calls(INSERT_BULK)' \in Nat
    BY <2>1, ConfigsAssumption DEF Calls, AllCalls, Lesser
  <2> QED
    BY <2>1, <2>2 DEF Done
<1> QED
  BY <1>1 DEF Work, WholeBulks

LEMMA NoneIsWhole == IsFiniteSet({}) /\ \E q \in Nat : Cardinality({}) = q * BULK_SIZE
<1>1. 0 * BULK_SIZE = 0
  BY SizesAssumption
<1> QED
  BY <1>1, FS_EmptySet

LEMMA WholeSame ==
    ASSUME WholeBulks, users' = users
    PROVE  WholeBulks'
<1>1. Named("bulk_user")' = Named("bulk_user")
  BY NamedOfSame
<1> QED
  BY <1>1 DEF WholeBulks

LEMMA WholeBulksStep ==
    ASSUME SafeSizes, RInv, RInv', WorkInv, WorkInv', WholeBulks, [Next]_vars
    PROVE  WholeBulks'
<1>1. IInv /\ IInv' /\ OnlyOutsideFailures' /\ SafeSizes'
  BY DEF RInv, IInv, SafeSizes
<1>2. CASE Statements
  <2>1. users' = users \/ users' = NoRows \/ SeedUsers
    BY <1>2 DEF Statements, DropPosts, DropUsers, CreateUsers, CreatePosts,
                DdlBatch, SeedPosts, SetvalUsers, SetvalPosts
  <2>2. CASE users' = NoRows
    <3>1. Named("bulk_user")' = {}
      BY <2>2, NoRowsFacts DEF Named
    <3> QED
      BY <3>1, NoneIsWhole DEF WholeBulks
  <2>3. CASE SeedUsers
    <3>1. stage' = "users"
      BY <1>1, <1>2, <2>3, StatementsGoOn DEF SeedUsers
    <3>2. users' = SeededUsers(k)'
      BY <1>1, <3>1 DEF IInv, SeedUsersInv
    <3>3. \A id \in DOMAIN users' : users'[id] = SeedUser(id)
      BY <3>2 DEF SeededUsers
    <3>4. \A id : SeedUser(id).name # "bulk_user"
      <4>1. \A id : SeedUser(id).name \in {"user", "victim"}
        BY Zenon DEF SeedUser
      <4> QED
        BY <4>1
    <3>5. Named("bulk_user")' = {}
      BY <3>3, <3>4 DEF Named
    <3> QED
      BY <3>5, NoneIsWhole DEF WholeBulks
  <2> QED
    BY <2>1, <2>2, <2>3, WholeSame
<1>3. CASE Calling
  <2>1. stage' = "ops"
    BY <1>1, <1>3, CallsGoOn
  <2>2. Work'
    BY <2>1 DEF WorkInv
  <2> QED
    BY <1>1, <2>2, WorkIsWhole
<1>4. CASE EndOfSetupLoop \/ EndOfOp \/ Teardown \/ NextSuite \/ Outage
           \/ UNCHANGED vars
  BY <1>4, WholeSame
     DEF EndOfSetupLoop, EndOfOp, Teardown, NextSuite, Outage, vars, db
<1>5. CASE Rerun
  <2>1. users' = users \/ users' = NoRows
    BY <1>5 DEF Rerun, db
  <2>2. CASE users' = NoRows
    <3>1. Named("bulk_user")' = {}
      BY <2>2, NoRowsFacts DEF Named
    <3> QED
      BY <3>1, NoneIsWhole DEF WholeBulks
  <2> QED
    BY <2>1, <2>2, WholeSame
<1> QED
  BY <1>2, <1>3, <1>4, <1>5
     DEF Next, Program, Setup, RunSuite, Statements, Calling

LEMMA InductiveWork ==
    ASSUME SafeSizes
    PROVE  Spec => [](RInv /\ WorkInv /\ WholeBulks)
<1>1. Init => WorkInv
  BY DEF Init, WorkInv
<1>2. Init => WholeBulks
  <2> SUFFICES ASSUME Init PROVE WholeBulks
    OBVIOUS
  <2>1. Named("bulk_user") = {}
    BY NoRowsFacts DEF Init, Named
  <2> QED
    BY <2>1, NoneIsWhole DEF WholeBulks
<1>3. /\ RInv /\ RInv' /\ WorkInv /\ WholeBulks /\ [Next]_vars
      => WorkInv' /\ WholeBulks'
  BY WorkInvStep, WholeBulksStep
<1> QED
  BY <1>1, <1>2, <1>3, InductiveR, PTL DEF Spec

-----------------------------------------------------------------------
(* The theorems.                                                             *)

\* A bulk insert is visible as a whole or not at all, for every BULK_SIZE and
\* wherever a process ends: the explicit BEGIN/COMMIT of the suites that
\* insert row by row hides what an interrupted insert_bulk() got done.
THEOREM BulkIsAtomic ==
    ASSUME SafeSizes
    PROVE  Spec => []BulkAllOrNothing
<1>1. WholeBulks => BulkAllOrNothing
  <2> SUFFICES ASSUME WholeBulks PROVE BulkAllOrNothing
    OBVIOUS
  <2>1. PICK q \in Nat : Cardinality(Named("bulk_user")) = q * BULK_SIZE
    BY DEF WholeBulks
  <2>2. \A b \in Nat \ {0} : (q * b) % b = 0
    OBVIOUS
  <2> QED
    BY <2>1, <2>2, SizesAssumption DEF BulkAllOrNothing
<1> QED
  BY <1>1, InductiveWork, PTL

LEMMA VictimsLeft ==
    ASSUME SafeSizes, cfg \in Configs, Work, stage = "finished"
    PROVE  /\ suite.read_only =>
                 /\ Named("victim") = VictimIds
                 /\ Cardinality(VictimIds) = Victims /\ IsFiniteSet(VictimIds)
           /\ ~suite.read_only => Named("victim") = {}
<1>1. Victims \in Nat /\ DELETE_BASE \in Nat
  BY ConfigFacts, IdsAssumption
<1>2. Named("victim") = {id \in VictimIds : id > DELETE_BASE + Calls(DELETE_ONE)}
  BY DEF Work, Done
<1>3. CASE suite.read_only
  <2>1. Calls(DELETE_ONE) = 0
    BY <1>3 DEF Calls, UnguardedOps, DELETE_ONE, FETCH_BY_ID, FETCH_PAGE, JOIN_QUERY
  <2>2. Named("victim") = VictimIds
    <3>1. \A id \in VictimIds : id > DELETE_BASE + Calls(DELETE_ONE)
      BY <1>1, <2>1 DEF VictimIds
    <3> QED
      BY <1>2, <3>1
  <2> DEFINE a == DELETE_BASE + 1
             b == DELETE_BASE + Victims
  <2>3. a \in Int /\ b \in Int /\ b - a + 1 = Victims /\ (a > b => Victims = 0)
    BY <1>1
  <2>4. VictimIds = a..b
    BY DEF VictimIds
  <2> HIDE DEF a, b
  <2>5. IsFiniteSet(a..b) /\ Cardinality(a..b) = IF a > b THEN 0 ELSE b - a + 1
    BY <2>3, FS_Interval
  <2> QED
    BY <1>3, <2>2, <2>3, <2>4, <2>5
<1>4. CASE ~suite.read_only
  <2>1. Calls(DELETE_ONE) = Victims
    BY <1>4 DEF Calls, AllCalls, DELETE_ONE, INSERT_BULK, FETCH_PAGE,
                JOIN_QUERY, Victims
  <2> QED
    BY <1>1, <1>2, <1>4, <2>1 DEF VictimIds
<1> QED
  BY <1>3, <1>4

LEMMA WorkOfReader ==
    ASSUME SafeSizes, IInv, Work, stage = "finished", suite.read_only
    PROVE  /\ Named("user") = 1..SEED_USERS
           /\ Cardinality(Named("victim")) = Victims
           /\ Cardinality(DOMAIN users) = SEED_USERS + Victims
<1>1. cfg \in Configs /\ DOMAIN users \subseteq Nat
      /\ \A id \in DOMAIN users : users[id].name \in Names
  BY DEF IInv, TypeOK, UserRow, Names
<1>2. /\ SEED_USERS \in Nat /\ DELETE_BASE \in Nat /\ SEED_USERS < DELETE_BASE
      /\ Victims \in Nat
  BY <1>1, ConfigFacts, SizesAssumption, IdsAssumption
<1>3. /\ Done(INSERT_ONE) = 0 /\ Done(INSERT_BULK) = 0 /\ Done(UPDATE_ONE) = 0
  BY DEF Done, Calls, UnguardedOps, INSERT_ONE, INSERT_BULK, UPDATE_ONE, FETCH_BY_ID,
         FETCH_PAGE, JOIN_QUERY
<1>4. 0 * BULK_SIZE = 0
  BY SizesAssumption
<1>5. Named("new_user") = {} /\ Named("bulk_user") = {}
  <2>1. /\ IsFiniteSet(Named("new_user")) /\ Cardinality(Named("new_user")) = 0
        /\ IsFiniteSet(Named("bulk_user")) /\ Cardinality(Named("bulk_user")) = 0
    BY <1>3, <1>4 DEF Work
  <2>2. \A S : IsFiniteSet(S) => (Cardinality(S) = 0 <=> S = {})
    BY FS_EmptySet
  <2> QED
    BY <2>1, <2>2
<1>6. Named("renamed") = {} /\ Named("user") = 1..SEED_USERS
  <2>1. Updated(0) = {}
    BY DEF Updated
  <2>2. Named("renamed") = Updated(0)
    BY <1>3 DEF Work
  <2> QED
    BY <2>1, <2>2 DEF Work
<1>7. Named("victim") = VictimIds /\ Cardinality(VictimIds) = Victims
      /\ IsFiniteSet(VictimIds)
  BY <1>1, VictimsLeft
<1>8. DOMAIN users = 1..SEED_USERS \cup VictimIds
  <2>1. DOMAIN users = Named("user") \cup Named("victim") \cup Named("new_user")
                       \cup Named("bulk_user") \cup Named("renamed")
    BY <1>1 DEF Named, Names
  <2> QED
    BY <2>1, <1>5, <1>6, <1>7
<1>9. Cardinality(1..SEED_USERS) = SEED_USERS /\ IsFiniteSet(1..SEED_USERS)
  BY <1>2, FS_Interval
<1>10. Cardinality(1..SEED_USERS \cap VictimIds) = 0
  <2>1. 1..SEED_USERS \cap VictimIds = {}
    BY <1>2 DEF VictimIds
  <2> QED
    BY <2>1, FS_EmptySet
<1>11. Cardinality(1..SEED_USERS \cup VictimIds) = SEED_USERS + Victims
  <2>1. Cardinality(1..SEED_USERS \cup VictimIds) =
            Cardinality(1..SEED_USERS) + Cardinality(VictimIds)
            - Cardinality(1..SEED_USERS \cap VictimIds)
    BY <1>7, <1>9, FS_Union
  <2> QED
    BY <1>2, <1>7, <1>9, <1>10, <2>1
<1> QED
  BY <1>6, <1>7, <1>8, <1>11

LEMMA WorkOfWriter ==
    ASSUME SafeSizes, IInv, Work, stage = "finished", ~suite.read_only
    PROVE  /\ Cardinality(Named("new_user")) = Victims
           /\ Cardinality(Named("bulk_user")) =
                  (Lesser(cfg.warmup, 5) + cfg.bulk_iters) * BULK_SIZE
           /\ Named("victim") = {}
           /\ Named("renamed") = {1 + (i % SEED_USERS) : i \in 0..(Victims - 1)}
           /\ Named("user") \cup Named("renamed") = 1..SEED_USERS
<1>1. cfg \in Configs
  BY DEF IInv, TypeOK
<1>2. /\ Done(INSERT_ONE) = Victims /\ Done(UPDATE_ONE) = Victims
      /\ Done(INSERT_BULK) = Lesser(cfg.warmup, 5) + cfg.bulk_iters
  BY DEF Done, Calls, AllCalls, Victims, INSERT_ONE, INSERT_BULK, UPDATE_ONE,
         FETCH_PAGE, JOIN_QUERY
<1>3. Updated(Victims) = {1 + (i % SEED_USERS) : i \in 0..(Victims - 1)}
  <2>1. Victims \in Nat
    BY <1>1, ConfigFacts
  <2>2. \A i \in 0..(Victims - 1) : 1 + (i % SEED_USERS) \in 1..SEED_USERS
    <3> TAKE i \in 0..(Victims - 1)
    <3>1. i % SEED_USERS \in 0..(SEED_USERS - 1)
      BY <2>1, SizesAssumption
    <3> QED
      BY <3>1, SizesAssumption
  <2> QED
    BY <2>2 DEF Updated
<1> QED
  BY <1>1, <1>2, <1>3, VictimsLeft DEF Work

\* What a finished suite leaves is exactly the work it was timed for, whatever
\* SEED_USERS, BULK_SIZE and BenchConfig are, and whatever an earlier suite,
\* process or interruption left: no call is lost, doubled or misdirected by
\* the warmup, the chunking or the numbering of ids.
THEOREM WorkIsExact ==
    ASSUME SafeSizes
    PROVE  Spec => []FinalContents
<1>1. IInv /\ WorkInv => FinalContents
  <2> SUFFICES ASSUME IInv, WorkInv, stage = "finished"
               PROVE  FinalContents
    BY DEF FinalContents
  <2>1. Work
    BY DEF WorkInv
  <2>2. CASE suite.read_only
    BY <2>1, <2>2, WorkOfReader DEF FinalContents, Victims
  <2>3. CASE ~suite.read_only
    BY <2>1, <2>3, WorkOfWriter DEF FinalContents, Victims
  <2> QED
    BY <2>2, <2>3
<1>2. RInv => IInv
  BY DEF RInv
<1> QED
  BY <1>1, <1>2, InductiveWork, PTL

=======================================================================
