------------------------- MODULE SuiteContract -------------------------
(* What the Suite trait promises to main(), whatever database is behind it:  *)
(* setup() happens at once and ends in the seed data, each call of an        *)
(* operation happens at once and succeeds, the operations are called in the  *)
(* order of OPS, and only something outside the program ends it before the   *)
(* suite is done.  How the rows get into the tables, sequences, transactions *)
(* and what earlier suites or processes left in the database do not show.    *)
EXTENDS Integers, Sequences, FiniteSets

CONSTANTS
    SEED_USERS, SEED_POSTS, DELETE_BASE, PAGE_SIZE, BULK_SIZE,
    Configs,   \* the BenchConfigs a process may be started with
    Ids        \* the ids a database may give to a row

VARIABLES
    phase,     \* "setup", "ops", "done", or "dead"
    cfg,
    read_only, \* what read_only() answers
    op,        \* position in Order
    calls,     \* calls of the operation that returned Ok
    users,     \* rows the operations see, by id
    posts

vars == <<phase, cfg, read_only, op, calls, users, posts>>

-----------------------------------------------------------------------

Order == <<"insert_one", "insert_bulk", "fetch_by_id", "fetch_page",
           "join_query", "update_one", "delete_one">>
Reads == {"fetch_by_id", "fetch_page", "join_query"}

\* Warmup and timed calls.
Total(name) ==
    IF read_only /\ name \notin Reads THEN 0
    ELSE CASE name = "insert_bulk" ->
                  (IF cfg.warmup <= 5 THEN cfg.warmup ELSE 5) + cfg.bulk_iters
           [] name \in {"fetch_page", "join_query"} ->
                  cfg.warmup + cfg.read_iters
           [] OTHER -> cfg.warmup + cfg.iters

NoRows == [id \in {} |-> 0]

Victims(n) == (DELETE_BASE + 1)..(DELETE_BASE + n)

SeededUsers(n) ==
    [id \in 1..SEED_USERS \cup Victims(n) |->
        IF id <= SEED_USERS THEN [name |-> "user", active |-> id % 4 # 0]
                            ELSE [name |-> "victim", active |-> TRUE]]

SeededPosts ==
    [p \in 1..SEED_POSTS |->
        [user_id |-> 1 + (p % SEED_USERS), published |-> p % 3 # 0]]

Target(i) == 1 + (i % SEED_USERS)

With(rows, ids, row) ==
    [id \in DOMAIN rows \cup ids |-> IF id \in ids THEN row ELSE rows[id]]

Active == {id \in DOMAIN users : users[id].active}

-----------------------------------------------------------------------

Setup ==
    /\ phase = "setup"
    /\ phase' = "ops"
    /\ users' = SeededUsers(cfg.warmup + cfg.iters)
    /\ posts' = SeededPosts
    /\ UNCHANGED <<cfg, read_only, op, calls>>

Call(name) ==
    /\ phase = "ops"
    /\ Order[op] = name
    /\ calls < Total(name)
    /\ calls' = calls + 1
    /\ UNCHANGED <<phase, cfg, read_only, op, posts>>

insert_one ==
    /\ Call("insert_one")
    /\ \E id \in Ids \ DOMAIN users :
          users' = With(users, {id}, [name |-> "new_user", active |-> TRUE])

\* BULK_SIZE rows become visible together; a database numbers them on.
insert_bulk ==
    /\ Call("insert_bulk")
    /\ \E first \in Ids :
          LET ids == first..(first + BULK_SIZE - 1)
          IN  /\ ids \cap DOMAIN users = {}
              /\ users' = With(users, ids, [name |-> "bulk_user", active |-> TRUE])

fetch_by_id ==
    /\ Call("fetch_by_id")
    /\ Target(calls) \in DOMAIN users
    /\ UNCHANGED users

fetch_page ==
    /\ Call("fetch_page")
    /\ Cardinality(Active) >= PAGE_SIZE
    /\ UNCHANGED users

join_query ==
    /\ Call("join_query")
    /\ Cardinality({p \in DOMAIN posts :
                       posts[p].published /\ posts[p].user_id \in Active})
           >= PAGE_SIZE
    /\ UNCHANGED users

update_one ==
    /\ Call("update_one")
    /\ Target(calls) \in DOMAIN users
    /\ users' = [users EXCEPT ![Target(calls)].name = "renamed"]

\* Each call takes the next victim.
delete_one ==
    /\ Call("delete_one")
    /\ DELETE_BASE + 1 + calls \in DOMAIN users
    /\ users' = [id \in DOMAIN users \ {DELETE_BASE + 1 + calls} |-> users[id]]

NextOp ==
    /\ phase = "ops"
    /\ calls = Total(Order[op])
    /\ calls' = 0
    /\ IF op = Len(Order)
       THEN phase' = "done" /\ op' = 1
       ELSE phase' = phase /\ op' = op + 1
    /\ UNCHANGED <<cfg, read_only, users, posts>>

\* The next suite of the process, or another process.
Begin ==
    /\ phase \in {"done", "dead"}
    /\ phase' = "setup"
    /\ cfg' \in Configs
    /\ read_only' \in BOOLEAN
    /\ users' = NoRows
    /\ posts' = NoRows
    /\ UNCHANGED <<op, calls>>

\* From outside.
Die ==
    /\ phase # "dead"
    /\ phase' = "dead"
    /\ op' = 1
    /\ calls' = 0
    /\ users' = NoRows
    /\ posts' = NoRows
    /\ UNCHANGED <<cfg, read_only>>

-----------------------------------------------------------------------

Init ==
    /\ phase = "setup"
    /\ cfg \in Configs
    /\ read_only \in BOOLEAN
    /\ op = 1
    /\ calls = 0
    /\ users = NoRows
    /\ posts = NoRows

Operation ==
    \/ insert_one \/ insert_bulk
    \/ fetch_by_id \/ fetch_page \/ join_query
    \/ update_one \/ delete_one

\* What the suite and its caller do.
Work == Setup \/ Operation \/ NextOp

Next == Work \/ Begin \/ Die

Spec == Init /\ [][Next]_vars

\* A suite that is not ended from outside gets done.
Progress == WF_vars(Work)

FairSpec == Spec /\ Progress

=======================================================================
