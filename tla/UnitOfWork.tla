----------------------------- MODULE UnitOfWork -----------------------------
(***************************************************************************)
(* Requests on a resource and the units of work they run in: the handlers  *)
(* of flama.resources.crud inside `async with worker` (flama.ddd.workers), *)
(* and the connection manager of flama.sqlalchemy that hands connections   *)
(* and transactions to the workers, one each or one for all.               *)
(*                                                                         *)
(* A worker is one object for every request that uses it, so the           *)
(* connection and the transaction are attributes of the worker, guarded by *)
(* its lock. An action is what runs between two suspensions: the awaits of *)
(* the database driver and of the lock. The database is external: it keeps *)
(* what a transaction changed apart until the commit, locks the rows it    *)
(* changed, and may fail at any await.                                     *)
(***************************************************************************)
EXTENDS Naturals, Sequences, FiniteSets

CONSTANTS
    Units,       \* units of work, one per request; names its connection too
    Workers,     \* workers of the application
    Keys,        \* primary keys of the resource
    Verbs,       \* methods of the resource the requests use
    MayFail,     \* TRUE: the database may fail
    Concurrent   \* TRUE: several workers may share a single connection

None == "none"
Absent == "absent"
Same == "same"
Old == "old"

ASSUME UnitsAssumption == {None, Absent, Same, Old} \cap Units = {}
ASSUME FlagsAssumption == MayFail \in BOOLEAN /\ Concurrent \in BOOLEAN

VARIABLES
    single,       \* the module was given single_connection
    workerOf,     \* the worker of each unit
    handler,      \* the request of each unit
    pc,           \* where each unit is suspended
    at,           \* statements of the handler done
    raised,       \* the body of the unit raised
    lock,         \* unit holding each worker's lock
    conn, txn,    \* attributes of each worker: connection and transaction
    connections,  \* the manager's connections (_connection when single)
    transactions, \* the manager's transactions (_transaction when single)
    clients, txClients,  \* client counters of the single manager
    link,         \* state of each connection
    tx,           \* state of each transaction
    delta,        \* what each transaction changed
    rows          \* the table: who wrote the element under each key

setting == <<single, workerOf, handler>>
progress == <<pc, at, raised>>
attributes == <<conn, txn>>
manager == <<connections, transactions, clients, txClients>>
database == <<link, tx, delta, rows>>
vars == <<setting, progress, lock, attributes, manager, database>>

\* The statements each method runs on the repository of its worker.
Statements ==
    [create |-> <<"insert">>, retrieve |-> <<"retrieve">>, list |-> <<"list">>,
     update |-> <<"retrieve", "delete", "insert">>, partial_update |-> <<"update">>,
     delete |-> <<"retrieve", "delete">>, replace |-> <<"drop", "insert">>,
     partial_replace |-> <<"delete", "insert">>, drop |-> <<"drop">>]

ASSUME VerbsAssumption == Verbs \subseteq DOMAIN Statements

Handlers ==
    {h \in [verb : Verbs, keys : SUBSET Keys] :
        IF h.verb \in {"list", "drop"} THEN h.keys = {}
        ELSE IF h.verb \in {"replace", "partial_replace"} THEN h.keys # {}
        ELSE Cardinality(h.keys) = 1}

W(u) == workerOf[u]
Inside == {"opening", "beginning", "working", "ending", "closing"}

-----------------------------------------------------------------------------
(* The way out: end_transaction, close_connection, the lock *)

\* Mutant of Return: the lock is not released.
ReturnHolding(u) ==
    /\ pc' = [pc EXCEPT ![u] = IF raised'[u] THEN "refused" ELSE "answered"]
    /\ conn' = [conn EXCEPT ![W(u)] = None]
    /\ UNCHANGED lock

\* `del self.connection`, and the lock is released.
Return(u) ==
    /\ pc' = [pc EXCEPT ![u] = IF raised'[u] THEN "refused" ELSE "answered"]
    /\ conn' = [conn EXCEPT ![W(u)] = None]
    /\ lock' = [lock EXCEPT ![W(u)] = None]

\* begin or end raised: __aenter__ and __aexit__ do not release the lock.
Break(u) ==
    /\ pc' = [pc EXCEPT ![u] = "broken"]
    /\ UNCHANGED <<lock, conn>>

\* Mutant of Close: the last client does not close the connection.
CloseLater(u) ==
    LET c == conn[W(u)] IN
    IF ~single
    THEN /\ connections' = connections \ {c}
         /\ pc' = [pc EXCEPT ![u] = "closing"]
         /\ UNCHANGED <<clients, lock, conn>>
    ELSE IF c \notin connections
    THEN Break(u) /\ UNCHANGED <<connections, clients>>
    ELSE clients' = clients - 1 /\ UNCHANGED connections /\ Return(u)

\* close_connection, up to its await: the single manager closes for the last
\* client, and refuses a connection that is not the current one.
Close(u) ==
    LET c == conn[W(u)] IN
    IF ~single
    THEN /\ connections' = connections \ {c}
         /\ pc' = [pc EXCEPT ![u] = "closing"]
         /\ UNCHANGED <<clients, lock, conn>>
    ELSE IF c \notin connections
    THEN Break(u) /\ UNCHANGED <<connections, clients>>
    ELSE /\ clients' = clients - 1
         /\ UNCHANGED connections
         /\ IF clients = 1
            THEN pc' = [pc EXCEPT ![u] = "closing"] /\ UNCHANGED <<lock, conn>>
            ELSE Return(u)

\* __aexit__ and end_transaction, up to its await: a single manager ends the
\* transaction for the last client only, whatever the other ones asked for.
Leave(u, raises) ==
    LET t == txn[W(u)] IN
    /\ pc[u] = "working"
    /\ raised' = [raised EXCEPT ![u] = raises]
    /\ IF t \notin transactions
       THEN Break(u) /\ UNCHANGED <<txn, connections, transactions, clients, txClients>>
       ELSE IF single /\ txClients > 1
       THEN /\ txClients' = txClients - 1
            /\ txn' = [txn EXCEPT ![W(u)] = None]
            /\ Close(u)
            /\ UNCHANGED transactions
       ELSE /\ txClients' = IF single THEN txClients - 1 ELSE txClients
            /\ transactions' = IF single THEN transactions ELSE transactions \ {t}
            /\ pc' = [pc EXCEPT ![u] = "ending"]
            /\ UNCHANGED <<lock, attributes, connections, clients>>
    /\ UNCHANGED <<setting, at, database>>

\* Mutant of Outcome: __aexit__ does not pass on that the body raised.
OutcomeCommitted(u) == "committed"
Outcome(u) == IF raised[u] THEN "rolled back" ELSE "committed"

\* The commit or the rollback returns. A transaction that was never started
\* raises instead.
Ended(u) ==
    LET t == txn[W(u)] IN
    /\ pc[u] = "ending"
    /\ raised' = raised
    /\ IF tx[t] # "active"
       THEN Break(u) /\ UNCHANGED <<tx, rows, txn, connections, transactions, clients>>
       ELSE /\ tx' = [tx EXCEPT ![t] = Outcome(u)]
            /\ rows' = IF Outcome(u) = "committed"
                       THEN [k \in Keys |-> IF delta[t][k] = Same THEN rows[k] ELSE delta[t][k]]
                       ELSE rows
            /\ transactions' = IF single THEN {} ELSE transactions
            /\ txn' = [txn EXCEPT ![W(u)] = None]
            /\ Close(u)
    /\ UNCHANGED <<setting, at, txClients, link, delta>>

Closed(u) ==
    LET c == conn[W(u)] IN
    /\ pc[u] = "closing"
    /\ link' = [link EXCEPT ![c] = "closed"]
    /\ connections' = IF single THEN {} ELSE connections
    /\ raised' = raised
    /\ Return(u)
    /\ UNCHANGED <<setting, at, txn, transactions, clients, txClients, tx, delta, rows>>

-----------------------------------------------------------------------------
(* The way in: the lock, open_connection, begin_transaction *)

\* begin_transaction on the connection of the worker, up to its await: a
\* single manager shares the transaction it has. A connection that is not
\* started refuses.
Begin(u, started) ==
    IF single /\ transactions # {}
    THEN /\ \E t \in transactions : txn' = [txn EXCEPT ![W(u)] = t]
         /\ txClients' = txClients + 1
         /\ pc' = [pc EXCEPT ![u] = "working"]
         /\ UNCHANGED transactions
    ELSE /\ transactions' = IF single /\ started THEN {u} ELSE transactions
         /\ pc' = [pc EXCEPT ![u] = IF started THEN "beginning" ELSE "broken"]
         /\ UNCHANGED <<txn, txClients>>

\* Mutant of Enter: the lock is not waited for.
EnterUnlocked(u) ==
    /\ pc[u] = "locking"
    /\ lock' = [lock EXCEPT ![W(u)] = u]
    /\ link' = [link EXCEPT ![u] = "starting"]
    /\ pc' = [pc EXCEPT ![u] = "opening"]
    /\ UNCHANGED <<setting, at, raised, attributes, manager, tx, delta, rows>>

\* The worker is locked and opens a connection; a single manager shares the
\* one it has, started or not, and goes on to the transaction.
Enter(u) ==
    /\ pc[u] = "locking"
    /\ lock[W(u)] = None
    /\ lock' = [lock EXCEPT ![W(u)] = u]
    /\ IF single /\ connections # {}
       THEN \E c \in connections :
              /\ clients' = clients + 1
              /\ conn' = [conn EXCEPT ![W(u)] = c]
              /\ Begin(u, link[c] = "open")
              /\ UNCHANGED <<connections, link>>
       ELSE /\ link' = [link EXCEPT ![u] = "starting"]
            /\ connections' = IF single THEN {u} ELSE connections
            /\ pc' = [pc EXCEPT ![u] = "opening"]
            /\ UNCHANGED <<attributes, transactions, clients, txClients>>
    /\ UNCHANGED <<setting, at, raised, tx, delta, rows>>

\* The connection is up, and a transaction is begun on it.
Opened(u) ==
    /\ pc[u] = "opening"
    /\ link' = [link EXCEPT ![u] = "open"]
    /\ connections' = IF single THEN connections ELSE connections \cup {u}
    /\ clients' = IF single THEN clients + 1 ELSE clients
    /\ conn' = [conn EXCEPT ![W(u)] = u]
    /\ Begin(u, TRUE)
    /\ UNCHANGED <<setting, at, raised, lock, tx, delta, rows>>

\* The transaction is begun: the repositories are made, and the body runs.
Begun(u) ==
    /\ pc[u] = "beginning"
    /\ tx' = [tx EXCEPT ![u] = "active"]
    /\ transactions' = transactions \cup {u}
    /\ txClients' = IF single THEN txClients + 1 ELSE txClients
    /\ txn' = [txn EXCEPT ![W(u)] = u]
    /\ pc' = [pc EXCEPT ![u] = "working"]
    /\ UNCHANGED <<setting, at, raised, lock, conn, connections, clients, link, delta, rows>>

-----------------------------------------------------------------------------
(* The body *)

Program(u) == Statements[handler[u].verb]

Touched(u, s) == IF s = "drop" THEN Keys ELSE IF s = "list" THEN {} ELSE handler[u].keys

\* What a transaction sees of the table.
Seen(t, k) == IF delta[t][k] = Same THEN rows[k] ELSE delta[t][k]

\* A row a transaction changed is locked until it ends, its uncommitted insert
\* included: the database serialises conflicting writers.
RowsFree(t, keys) ==
    \A v \in Units \ {t} : tx[v] = "active" => \A k \in keys : delta[v][k] = Same

Change(u, s, t) ==
    [k \in Keys |->
        IF k \notin Touched(u, s) THEN delta[t][k]
        ELSE IF s \in {"insert", "update"} THEN u
        ELSE IF s \in {"delete", "drop"} THEN Absent
        ELSE delta[t][k]]

\* The next statement of the method succeeds.
Statement(u) ==
    LET t == txn[W(u)]
        s == Program(u)[at[u] + 1]
    IN  /\ pc[u] = "working"
        /\ at[u] < Len(Program(u))
        /\ tx[t] = "active"
        /\ s \in {"insert", "update", "delete", "drop"} => RowsFree(t, Touched(u, s))
        /\ s \in {"retrieve", "update"} => \A k \in Touched(u, s) : Seen(t, k) # Absent
        /\ s = "insert" => \A k \in Touched(u, s) : Seen(t, k) = Absent
        /\ delta' = [delta EXCEPT ![t] = Change(u, s, t)]
        /\ at' = [at EXCEPT ![u] = @ + 1]
        /\ UNCHANGED <<setting, pc, raised, lock, attributes, manager, link, tx, rows>>

\* The body raises: a statement that was refused (NotFoundError, IntegrityError)
\* or anything else before its end.
Raise(u) ==
    /\ at[u] < Len(Program(u))
    /\ Leave(u, TRUE)

Finish(u) ==
    /\ at[u] = Len(Program(u))
    /\ Leave(u, FALSE)

\* The database fails at an await; a commit that fails takes no effect.
Failure(u) ==
    /\ MayFail
    /\ pc[u] \in {"opening", "beginning", "ending", "closing"}
    /\ Break(u)
    /\ link' = [link EXCEPT ![u] = IF pc[u] = "opening" THEN "closed" ELSE @]
    /\ tx' = IF pc[u] = "ending" THEN [tx EXCEPT ![txn[W(u)]] = "rolled back"] ELSE tx
    /\ UNCHANGED <<setting, at, raised, txn, manager, delta, rows>>

-----------------------------------------------------------------------------
\* Workers do not share a single connection unless the instance says so.
Init ==
    /\ single \in BOOLEAN
    /\ workerOf \in [Units -> Workers]
    /\ single /\ ~Concurrent => \A u, v \in Units : workerOf[u] = workerOf[v]
    /\ handler \in [Units -> Handlers]
    /\ pc = [u \in Units |-> "locking"]
    /\ at = [u \in Units |-> 0] /\ raised = [u \in Units |-> FALSE]
    /\ lock = [w \in Workers |-> None]
    /\ conn = [w \in Workers |-> None] /\ txn = [w \in Workers |-> None]
    /\ connections = {} /\ transactions = {} /\ clients = 0 /\ txClients = 0
    /\ link = [u \in Units |-> "none"] /\ tx = [u \in Units |-> "none"]
    /\ delta = [u \in Units |-> [k \in Keys |-> Same]]
    /\ rows \in [Keys -> {Absent, Old}]

Work(u) ==
    \/ Enter(u) \/ Opened(u) \/ Begun(u) \/ Statement(u) \/ Raise(u) \/ Finish(u)
    \/ Ended(u) \/ Closed(u) \/ Failure(u)

Next == \E u \in Units : Work(u)

\* The loop runs what is ready, and the driver answers.
Spec == Init /\ [][Next]_vars /\ \A u \in Units : WF_vars(Work(u))

-----------------------------------------------------------------------------
(* Properties *)

TypeOK ==
    /\ single \in BOOLEAN /\ workerOf \in [Units -> Workers] /\ handler \in [Units -> Handlers]
    /\ pc \in [Units -> Inside \cup {"locking", "answered", "refused", "broken"}]
    /\ at \in [Units -> 0..3] /\ raised \in [Units -> BOOLEAN]
    /\ lock \in [Workers -> Units \cup {None}]
    /\ conn \in [Workers -> Units \cup {None}] /\ txn \in [Workers -> Units \cup {None}]
    /\ connections \subseteq Units /\ transactions \subseteq Units
    /\ clients \in Nat /\ txClients \in Nat
    /\ link \in [Units -> {"none", "starting", "open", "closed"}]
    /\ tx \in [Units -> {"none", "active", "committed", "rolled back"}]
    /\ delta \in [Units -> [Keys -> Units \cup {Same, Absent}]]
    /\ rows \in [Keys -> Units \cup {Absent, Old}]

\* A body only ever works on the connection and the transaction its own unit
\* opened, and the manager knows both: the attributes of the worker are not
\* another unit's ("a mechanism to isolate a single unit of work").
OwnConnection ==
    \A u \in Units : pc[u] = "working" =>
        /\ lock[W(u)] = u
        /\ conn[W(u)] = u /\ u \in connections /\ link[u] = "open"
        /\ txn[W(u)] = u /\ u \in transactions /\ tx[u] = "active"

\* A unit that returned left neither a connection nor a transaction behind, and
\* the single manager counts the units inside.
NothingLeaks ==
    /\ \A u \in Units : pc[u] \in {"answered", "refused"} =>
         /\ u \notin connections \cup transactions
         /\ link[u] = "closed" /\ tx[u] # "active"
    /\ single /\ (\A u \in Units : pc[u] # "broken") =>
         clients = Cardinality({u \in Units : pc[u] \in {"beginning", "working", "ending"}})

\* Whatever failed, the lock of the worker and the connection are given back:
\* fails, as end() and begin_transaction may raise before they are.
BrokenReleases ==
    \A u \in Units : pc[u] = "broken" => lock[W(u)] # u /\ link[u] # "open"

\* Every request comes to an end and stays there, unless the database failed
\* under a unit of the same worker, which then keeps the lock: the requests of
\* the other workers end all the same.
EveryUnitEnds ==
    <>[](\A u \in Units : \/ pc[u] \in {"answered", "refused", "broken"}
                          \/ \E v \in Units : W(v) = W(u) /\ pc[v] = "broken")

\* "A single connection is opened when requested, and subsequent requests will
\* share this same connection": with no failure of the database, none breaks.
SharersWork == ~MayFail => \A u \in Units : pc[u] # "broken"

\* A request takes effect when its transaction commits, and is answered when its
\* unit returns.
AsCollection == INSTANCE Collection WITH
    Requests <- Units,
    applied <- {u \in Units : tx[u] = "committed"},
    answer <- [u \in Units |-> IF pc[u] = "answered" THEN "ok"
                               ELSE IF pc[u] = "refused" THEN "refused" ELSE "none"]

\* The units of work implement the atomic requests of the collection.
ImplementsCollection == AsCollection!Spec
=============================================================================
