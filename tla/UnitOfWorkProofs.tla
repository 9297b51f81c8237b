-------------------------- MODULE UnitOfWorkProofs --------------------------
(***************************************************************************)
(* Proofs about both sides of a resource. UnitOfWork, for any number of    *)
(* units, workers and keys, as long as a single connection is not shared   *)
(* by several workers: isolation, no leaks, and that every step is one of  *)
(* Collection or changes nothing of it. RemoteResource, for any clients,   *)
(* elements and calls: what an answer tells its caller is true of the      *)
(* table it was given from.                                                *)
(***************************************************************************)
EXTENDS BothSides, FiniteSetTheorems, SequenceTheorems, TLAPS

\* A single connection serves one worker.
NotShared == single => \A u, v \in Units : W(u) = W(v)

Holding == Inside \cup {"broken"}

\* A unit inside its worker holds the lock of the worker, and so does a unit
\* that broke.
Locked == \A u \in Units : pc[u] \in Holding <=> lock[W(u)] = u

Connected(u) == conn[W(u)] = u /\ link[u] = "open"
Known(u) == u \in connections
Started(u) == txn[W(u)] = u /\ tx[u] = "active"

\* What the single manager has: its connection, its transaction and the number
\* of their clients.
Has(cs, ts, n, m) == single => connections = cs /\ transactions = ts /\ clients = n /\ txClients = m

\* What holds of a unit at each await, of its own connection and transaction.
Stage(u) ==
    /\ pc[u] = "locking" =>
         link[u] = "none" /\ tx[u] = "none" /\ u \notin connections /\ u \notin transactions
    /\ pc[u] = "opening" =>
         /\ tx[u] = "none" /\ u \notin transactions
         /\ ~single => u \notin connections
         /\ Has({u}, {}, 0, 0)
    /\ pc[u] = "beginning" =>
         /\ Connected(u) /\ Known(u) /\ tx[u] = "none"
         /\ ~single => u \notin transactions
         /\ Has({u}, {u}, 1, 0)
    /\ pc[u] = "working" =>
         Connected(u) /\ Known(u) /\ Started(u) /\ u \in transactions /\ Has({u}, {u}, 1, 1)
    /\ pc[u] = "ending" =>
         /\ Connected(u) /\ Known(u) /\ Started(u)
         /\ ~single => u \notin transactions
         /\ Has({u}, {u}, 1, 0)
    /\ pc[u] = "closing" =>
         /\ Connected(u) /\ tx[u] # "active" /\ u \notin transactions
         /\ ~single => u \notin connections
         /\ Has({u}, {}, 0, 0)
    /\ pc[u] \in {"answered", "refused"} =>
         link[u] = "closed" /\ tx[u] # "active" /\ u \notin connections /\ u \notin transactions

Stages == \A u \in Units : Stage(u)

\* With nobody inside, a single manager has nothing.
Idle == (\A u \in Units : pc[u] \notin Holding) => Has({}, {}, 0, 0)

Core == Locked /\ Stages /\ Idle

\* The inductive invariant.
IndInv == NotShared => TypeOK /\ Core

\* What a step of a unit leaves alone: the other units, with what the manager
\* has of them, and the other workers.
Frame(u) ==
    /\ \A v \in Units \ {u} :
         /\ pc'[v] = pc[v] /\ link'[v] = link[v] /\ tx'[v] = tx[v]
         /\ v \in connections' <=> v \in connections
         /\ v \in transactions' <=> v \in transactions
    /\ \A w \in Workers \ {W(u)} : lock'[w] = lock[w] /\ conn'[w] = conn[w] /\ txn'[w] = txn[w]
    /\ setting' = setting

\* A step ends inside the worker with the lock, or outside without.
Ends(u) ==
    \/ pc'[u] \in Holding /\ lock'[W(u)] = u
    \/ pc'[u] \notin Holding /\ lock'[W(u)] = None /\ Has({}, {}, 0, 0)'

-----------------------------------------------------------------------------
(* Lemmas *)

\* The units of the others are not None, and have a worker.
LEMMA Basics ==
    ASSUME TypeOK, NEW u \in Units
    PROVE  W(u) \in Workers /\ None # u /\ workerOf \in [Units -> Workers]
BY UnitsAssumption DEF TypeOK, W

\* Mutual exclusion: while a unit holds the lock of a worker, or nobody does,
\* no other unit is inside; with a single connection, inside any worker.
LEMMA Alone ==
    ASSUME NotShared, TypeOK, Core, NEW u \in Units, NEW v \in Units \ {u},
           pc[u] \in Holding \/ lock[W(u)] = None,
           single \/ W(v) = W(u)
    PROVE  pc[v] \notin Holding
<1>1. W(v) = W(u)
  BY DEF NotShared
<1>2. None # v /\ None # u
  BY Basics
<1>3. lock[W(u)] # v
  BY <1>2 DEF Core, Locked
<1> QED BY <1>1, <1>3 DEF Core, Locked

\* A step within its frame keeps what holds of the other units.
LEMMA OthersKept ==
    ASSUME NotShared, TypeOK, Core, NEW u \in Units, NEW v \in Units \ {u},
           pc[u] \in Holding \/ lock[W(u)] = None, Frame(u)
    PROVE  Stage(v)'
<1>1. /\ pc'[v] = pc[v] /\ link'[v] = link[v] /\ tx'[v] = tx[v]
      /\ v \in connections' <=> v \in connections
      /\ v \in transactions' <=> v \in transactions
      /\ W(v)' = W(v) /\ single' = single
  BY DEF Frame, setting, W
<1>2. Stage(v)
  BY DEF Core, Stages
<1>3. CASE pc[v] \notin Holding
  BY <1>1, <1>2, <1>3 DEF Stage, Holding, Inside
<1>4. CASE pc[v] \in Holding
  <2>1. ~single /\ W(v) # W(u)
    BY <1>4, Alone
  <2>2. W(v) \in Workers
    BY Basics
  <2>3. conn'[W(v)] = conn[W(v)] /\ txn'[W(v)] = txn[W(v)]
    BY <2>1, <2>2 DEF Frame
  <2> QED BY <1>1, <1>2, <1>4, <2>1, <2>3 DEF Stage, Has, Connected, Known, Started, Holding, Inside
<1> QED BY <1>3, <1>4

\* A step within its frame that does right by its own unit keeps the invariant.
LEMMA FrameKeeps ==
    ASSUME NotShared, TypeOK, Core, NEW u \in Units,
           pc[u] \in Holding \/ lock[W(u)] = None, Frame(u), Ends(u), Stage(u)'
    PROVE  Core'
<1>1. \A v \in Units : W(v)' = W(v) /\ W(v) \in Workers /\ None # v
  BY Basics DEF Frame, setting, W
<1>2. Locked'
  <2> SUFFICES ASSUME NEW v \in Units PROVE (pc[v] \in Holding <=> lock[W(v)] = v)'
    BY DEF Locked
  <2>1. CASE v = u
    BY <1>1, <2>1 DEF Ends
  <2>2. CASE v # u /\ W(v) = W(u)
    <3>1. pc'[v] = pc[v] /\ pc[v] \notin Holding
      BY <2>2, Alone DEF Frame
    <3>2. lock'[W(u)] # v
      BY <1>1, <2>2 DEF Ends
    <3> QED BY <1>1, <2>2, <3>1, <3>2
  <2>3. CASE v # u /\ W(v) # W(u)
    <3>1. pc'[v] = pc[v] /\ lock'[W(v)] = lock[W(v)]
      BY <1>1, <2>3 DEF Frame
    <3> QED BY <1>1, <3>1 DEF Core, Locked
  <2> QED BY <2>1, <2>2, <2>3
<1>3. Stages'
  BY OthersKept DEF Stages
<1>4. Idle'
  BY DEF Ends, Idle
<1> QED BY <1>2, <1>3, <1>4 DEF Core

-----------------------------------------------------------------------------
(* The steps of a unit *)

\* A single manager has nothing when a unit enters, and one client afterwards.
LEMMA EnterKeeps ==
    ASSUME NotShared, TypeOK, Core, NEW u \in Units, Enter(u)
    PROVE  TypeOK' /\ Core'
<1>1. pc[u] = "locking" /\ lock[W(u)] = None
  BY DEF Enter
<1>2. Has({}, {}, 0, 0) /\ pc[u] \notin Holding
  <2>1. SUFFICES ASSUME single PROVE \A v \in Units : pc[v] \notin Holding
    BY <1>1 DEF Core, Idle, Has, Holding, Inside
  <2>2. \A v \in Units \ {u} : pc[v] \notin Holding
    BY <1>1, <2>1, Alone
  <2> QED BY <1>1, <2>2 DEF Holding, Inside
<1>3. /\ lock' = [lock EXCEPT ![W(u)] = u]
      /\ link' = [link EXCEPT ![u] = "starting"]
      /\ connections' = IF single THEN {u} ELSE connections
      /\ pc' = [pc EXCEPT ![u] = "opening"]
      /\ UNCHANGED <<attributes, transactions, clients, txClients>>
      /\ UNCHANGED <<setting, at, raised, tx, delta, rows>>
  BY <1>2 DEF Enter, Has
<1>4. W(u) \in Workers
  BY Basics
<1>5. TypeOK'
  BY <1>3, <1>4 DEF TypeOK, setting, attributes, Inside
<1>6. Frame(u)
  BY <1>2, <1>3, <1>4 DEF TypeOK, Frame, attributes, Has
<1>7. Stage(u)'
  <2>1. pc'[u] = "opening"
    BY <1>3 DEF TypeOK
  <2>2. tx[u] = "none" /\ u \notin connections /\ u \notin transactions
    BY <1>1 DEF Core, Stages, Stage
  <2>3. single' = single
    BY <1>3 DEF setting
  <2> QED BY <1>2, <1>3, <2>1, <2>2, <2>3 DEF Stage, Has
<1>8. Ends(u)
  BY <1>3, <1>4 DEF TypeOK, Ends, Holding, Inside
<1> QED BY <1>1, <1>5, <1>6, <1>7, <1>8, FrameKeeps

\* The connection is the unit's own, and so will the transaction be.
LEMMA OpenedKeeps ==
    ASSUME NotShared, TypeOK, Core, NEW u \in Units, Opened(u)
    PROVE  TypeOK' /\ Core'
<1>1. pc[u] = "opening" /\ W(u) \in Workers
  BY Basics DEF Opened
<1>2. tx[u] = "none" /\ u \notin transactions /\ Has({u}, {}, 0, 0) /\ (~single => u \notin connections)
  BY <1>1 DEF Core, Stages, Stage
<1>3. /\ link' = [link EXCEPT ![u] = "open"]
      /\ connections' = IF single THEN connections ELSE connections \cup {u}
      /\ clients' = IF single THEN clients + 1 ELSE clients
      /\ conn' = [conn EXCEPT ![W(u)] = u]
      /\ transactions' = IF single THEN {u} ELSE transactions
      /\ pc' = [pc EXCEPT ![u] = "beginning"]
      /\ UNCHANGED <<txn, txClients>>
      /\ UNCHANGED <<setting, at, raised, lock, tx, delta, rows>>
  BY <1>2 DEF Opened, Begin, Has
<1>4. lock[W(u)] = u /\ pc[u] \in Holding
  BY <1>1 DEF Core, Locked, Holding, Inside
<1>5. TypeOK'
  <2>1. connections' \subseteq Units /\ transactions' \subseteq Units
    BY <1>3 DEF TypeOK
  <2>2. clients' \in Nat /\ txClients' \in Nat
    <3>1. clients \in Nat /\ txClients \in Nat
      BY DEF TypeOK
    <3>2. clients' \in {clients, clients + 1} /\ txClients' \in {txClients, txClients + 1}
      BY <1>3
    <3> QED BY <3>1, <3>2
  <2>3. /\ link' \in [Units -> {"none", "starting", "open", "closed"}]
        /\ tx' \in [Units -> {"none", "active", "committed", "rolled back"}]
        /\ pc' \in [Units -> Inside \cup {"locking", "answered", "refused", "broken"}]
    BY <1>3 DEF TypeOK, Inside
  <2>4. conn' \in [Workers -> Units \cup {None}] /\ txn' \in [Workers -> Units \cup {None}]
    BY <1>1, <1>3 DEF TypeOK
  <2> QED BY <1>3, <2>1, <2>2, <2>3, <2>4 DEF TypeOK, setting
<1>6. Frame(u)
  BY <1>1, <1>2, <1>3 DEF TypeOK, Frame, Has
<1>7. Stage(u)'
  <2>1. /\ pc'[u] = "beginning" /\ link'[u] = "open" /\ conn'[W(u)] = u
        /\ single' = single /\ W(u)' = W(u)
    BY <1>1, <1>3 DEF TypeOK, setting, W
  <2> QED BY <1>2, <1>3, <2>1 DEF Stage, Has, Connected, Known
<1>8. Ends(u)
  BY <1>3, <1>4 DEF TypeOK, Ends, Holding, Inside
<1> QED BY <1>4, <1>5, <1>6, <1>7, <1>8, FrameKeeps

\* A unit that began its transaction is inside its worker.
LEMMA BegunKeeps ==
    ASSUME NotShared, TypeOK, Core, NEW u \in Units, Begun(u)
    PROVE  TypeOK' /\ Core'
<1>1. pc[u] = "beginning" /\ W(u) \in Workers
  BY Basics DEF Begun
<1>2. Connected(u) /\ Known(u) /\ Has({u}, {u}, 1, 0)
  BY <1>1 DEF Core, Stages, Stage
<1>3. /\ tx' = [tx EXCEPT ![u] = "active"]
      /\ transactions' = transactions \cup {u}
      /\ txClients' = IF single THEN txClients + 1 ELSE txClients
      /\ txn' = [txn EXCEPT ![W(u)] = u]
      /\ pc' = [pc EXCEPT ![u] = "working"]
      /\ UNCHANGED <<setting, at, raised, lock, conn, connections, clients, link, delta, rows>>
  BY DEF Begun
<1>4. lock[W(u)] = u /\ pc[u] \in Holding
  BY <1>1 DEF Core, Locked, Holding, Inside
<1>5. TypeOK'
  <2>1. connections' \subseteq Units /\ transactions' \subseteq Units
    BY <1>3 DEF TypeOK
  <2>2. clients' \in Nat /\ txClients' \in Nat
    <3>1. clients \in Nat /\ txClients \in Nat
      BY DEF TypeOK
    <3>2. clients' \in {clients, clients + 1} /\ txClients' \in {txClients, txClients + 1}
      BY <1>3
    <3> QED BY <3>1, <3>2
  <2>3. /\ link' \in [Units -> {"none", "starting", "open", "closed"}]
        /\ tx' \in [Units -> {"none", "active", "committed", "rolled back"}]
        /\ pc' \in [Units -> Inside \cup {"locking", "answered", "refused", "broken"}]
    BY <1>3 DEF TypeOK, Inside
  <2>4. conn' \in [Workers -> Units \cup {None}] /\ txn' \in [Workers -> Units \cup {None}]
    BY <1>1, <1>3 DEF TypeOK
  <2> QED BY <1>3, <2>1, <2>2, <2>3, <2>4 DEF TypeOK, setting
<1>6. Frame(u)
  BY <1>1, <1>3 DEF TypeOK, Frame
<1>7. Stage(u)'
  <2>1. /\ pc'[u] = "working" /\ tx'[u] = "active" /\ txn'[W(u)] = u
        /\ single' = single /\ W(u)' = W(u)
    BY <1>1, <1>3 DEF TypeOK, setting, W
  <2> QED BY <1>2, <1>3, <2>1 DEF Stage, Has, Connected, Known, Started
<1>8. Ends(u)
  BY <1>3, <1>4 DEF TypeOK, Ends, Holding, Inside
<1> QED BY <1>4, <1>5, <1>6, <1>7, <1>8, FrameKeeps

\* A method runs three statements at most.
LEMMA Programs ==
    ASSUME NEW verb \in DOMAIN Statements
    PROVE  Len(Statements[verb]) \in 0..3
<1>1. CASE verb \in {"create", "retrieve", "list", "partial_update", "drop"}
  <2>1. Statements[verb] \in {<<"insert">>, <<"retrieve">>, <<"list">>, <<"update">>, <<"drop">>}
    BY <1>1 DEF Statements
  <2> QED BY <2>1
<1>2. CASE verb \in {"delete", "replace", "partial_replace"}
  <2>1. Statements[verb] \in
          {<<"retrieve", "delete">>, <<"drop", "insert">>, <<"delete", "insert">>}
    BY <1>2 DEF Statements
  <2> QED BY <2>1
<1>3. CASE verb = "update"
  <2>1. Statements[verb] = <<"retrieve", "delete", "insert">>
    BY <1>3 DEF Statements
  <2> QED BY <2>1
<1>4. verb \in {"create", "retrieve", "list", "update", "partial_update", "delete",
               "replace", "partial_replace", "drop"}
  BY DEF Statements
<1> QED BY <1>1, <1>2, <1>3, <1>4

\* A statement changes only what the transaction of its unit changed.
LEMMA StatementKeeps ==
    ASSUME NotShared, TypeOK, Core, NEW u \in Units, Statement(u)
    PROVE  TypeOK' /\ Core'
<1>1. pc[u] = "working" /\ W(u) \in Workers
  BY Basics DEF Statement
<1>2. txn[W(u)] = u /\ lock[W(u)] = u /\ pc[u] \in Holding
  BY <1>1 DEF Core, Stages, Stage, Started, Locked, Holding, Inside
<1> DEFINE s == Program(u)[at[u] + 1]
<1>3. /\ at[u] < Len(Program(u))
      /\ delta' = [delta EXCEPT ![u] = Change(u, s, u)]
      /\ at' = [at EXCEPT ![u] = @ + 1]
      /\ UNCHANGED <<setting, pc, raised, lock, attributes, manager, link, tx, rows>>
  BY <1>2 DEF Statement
<1>4. Change(u, s, u) \in [Keys -> Units \cup {Same, Absent}]
  <2>1. delta[u] \in [Keys -> Units \cup {Same, Absent}]
    BY DEF TypeOK
  <2> QED BY <2>1 DEF Change
<1>5. at[u] + 1 \in 0..3
  <2>1. handler[u].verb \in DOMAIN Statements
    BY VerbsAssumption DEF TypeOK, Handlers
  <2>2. Len(Program(u)) \in 0..3
    BY <2>1, Programs DEF Program
  <2>3. at[u] \in 0..3
    BY DEF TypeOK
  <2>4. at[u] < Len(Program(u))
    BY <1>3
  <2>5. \A m, n \in 0..3 : m < n => m + 1 \in 0..3
    OBVIOUS
  <2> QED BY <2>2, <2>3, <2>4, <2>5
<1>6. TypeOK'
  BY <1>3, <1>4, <1>5 DEF TypeOK, setting, attributes, manager
<1>7. Frame(u)
  BY <1>3 DEF Frame, attributes, manager
<1>8. Stage(u)'
  <2>1. Stage(u)
    BY DEF Core, Stages
  <2> QED BY <1>3, <2>1 DEF Stage, Has, Connected, Known, Started, W, setting, attributes, manager
<1>9. Ends(u)
  BY <1>2, <1>3 DEF Ends
<1> QED BY <1>2, <1>6, <1>7, <1>8, <1>9, FrameKeeps

\* A body that leaves ends its own transaction, being its only client.
LEMMA LeaveKeeps ==
    ASSUME NotShared, TypeOK, Core, NEW u \in Units, NEW raises \in BOOLEAN, Leave(u, raises)
    PROVE  TypeOK' /\ Core'
<1>1. pc[u] = "working" /\ W(u) \in Workers
  BY Basics DEF Leave
<1>2. /\ Connected(u) /\ Known(u) /\ Started(u) /\ u \in transactions
      /\ Has({u}, {u}, 1, 1) /\ lock[W(u)] = u /\ pc[u] \in Holding
  BY <1>1 DEF Core, Stages, Stage, Locked, Holding, Inside
<1>3. /\ raised' = [raised EXCEPT ![u] = raises]
      /\ txClients' = IF single THEN txClients - 1 ELSE txClients
      /\ transactions' = IF single THEN transactions ELSE transactions \ {u}
      /\ pc' = [pc EXCEPT ![u] = "ending"]
      /\ UNCHANGED <<lock, attributes, connections, clients>>
      /\ UNCHANGED <<setting, at, database>>
  BY <1>2 DEF Leave, Started, Has
<1>4. TypeOK'
  <2>1. connections' \subseteq Units /\ transactions' \subseteq Units
    BY <1>3 DEF TypeOK
  <2>2. clients' \in Nat /\ txClients' \in Nat
    <3>1. clients \in Nat /\ txClients \in Nat
      BY DEF TypeOK
    <3>2. CASE single
      <4>1. clients' \in {0, 1} /\ txClients' \in {0, 1}
        BY <1>2, <1>3, <3>2 DEF Has
      <4> QED BY <4>1
    <3>3. CASE ~single
      BY <1>2, <1>3, <3>1, <3>3
    <3> QED BY <3>2, <3>3
  <2>3. pc' \in [Units -> Inside \cup {"locking", "answered", "refused", "broken"}]
    BY <1>3 DEF TypeOK, Inside
  <2> QED BY <1>3, <2>1, <2>2, <2>3 DEF TypeOK, setting, attributes, database
<1>5. Frame(u)
  BY <1>3 DEF TypeOK, Frame, attributes, database
<1>6. Stage(u)'
  <2>1. pc'[u] = "ending" /\ single' = single /\ W(u)' = W(u)
    BY <1>3 DEF TypeOK, setting, W
  <2> QED BY <1>2, <1>3, <2>1 DEF Stage, Has, Connected, Known, Started, attributes, database
<1>7. Ends(u)
  BY <1>2, <1>3 DEF TypeOK, Ends, Holding, Inside
<1> QED BY <1>2, <1>4, <1>5, <1>6, <1>7, FrameKeeps

\* After the commit or the rollback the connection is closed, by its last client.
LEMMA EndedKeeps ==
    ASSUME NotShared, TypeOK, Core, NEW u \in Units, Ended(u)
    PROVE  TypeOK' /\ Core'
<1>1. pc[u] = "ending" /\ W(u) \in Workers
  BY Basics DEF Ended
<1>2. /\ Connected(u) /\ Known(u) /\ Started(u) /\ (~single => u \notin transactions)
      /\ Has({u}, {u}, 1, 0) /\ lock[W(u)] = u /\ pc[u] \in Holding
  BY <1>1 DEF Core, Stages, Stage, Locked, Holding, Inside
<1>3. /\ tx' = [tx EXCEPT ![u] = Outcome(u)]
      /\ rows' \in {rows, [k \in Keys |-> IF delta[u][k] = Same THEN rows[k] ELSE delta[u][k]]}
      /\ transactions' = IF single THEN {} ELSE transactions
      /\ txn' = [txn EXCEPT ![W(u)] = None]
      /\ Close(u)
      /\ UNCHANGED <<setting, at, raised, txClients, link, delta>>
  BY <1>2 DEF Ended, Started
<1>4. /\ connections' = IF single THEN connections ELSE connections \ {u}
      /\ clients' = IF single THEN clients - 1 ELSE clients
      /\ pc' = [pc EXCEPT ![u] = "closing"]
      /\ UNCHANGED <<lock, conn>>
  BY <1>2, <1>3 DEF Close, Connected, Known, Has
<1>5. TypeOK'
  <2>1. connections' \subseteq Units /\ transactions' \subseteq Units
    BY <1>3, <1>4 DEF TypeOK
  <2>2. clients' \in Nat /\ txClients' \in Nat
    <3>1. clients \in Nat /\ txClients \in Nat
      BY DEF TypeOK
    <3>2. CASE single
      <4>1. clients' \in {0, 1} /\ txClients' \in {0, 1}
        BY <1>2, <1>3, <1>4, <3>2 DEF Has
      <4> QED BY <4>1
    <3>3. CASE ~single
      BY <1>2, <1>3, <1>4, <3>1, <3>3
    <3> QED BY <3>2, <3>3
  <2>3. /\ tx' \in [Units -> {"none", "active", "committed", "rolled back"}]
        /\ pc' \in [Units -> Inside \cup {"locking", "answered", "refused", "broken"}]
    BY <1>3, <1>4 DEF TypeOK, Inside, Outcome
  <2>4. txn' \in [Workers -> Units \cup {None}]
    BY <1>1, <1>3 DEF TypeOK
  <2>5. rows' \in [Keys -> Units \cup {Absent, Old}]
    <3>1. delta[u] \in [Keys -> Units \cup {Same, Absent}] /\ rows \in [Keys -> Units \cup {Absent, Old}]
      BY DEF TypeOK
    <3> QED BY <1>3, <3>1
  <2> QED BY <1>3, <1>4, <2>1, <2>2, <2>3, <2>4, <2>5 DEF TypeOK, setting
<1>6. Frame(u)
  BY <1>1, <1>2, <1>3, <1>4 DEF TypeOK, Frame, Has
<1>7. Stage(u)'
  <2>1. /\ pc'[u] = "closing" /\ tx'[u] # "active" /\ single' = single /\ W(u)' = W(u)
    BY <1>3, <1>4 DEF TypeOK, setting, W, Outcome
  <2> QED BY <1>2, <1>3, <1>4, <2>1 DEF Stage, Has, Connected, Known
<1>8. Ends(u)
  BY <1>2, <1>4 DEF TypeOK, Ends, Holding, Inside
<1> QED BY <1>2, <1>5, <1>6, <1>7, <1>8, FrameKeeps

\* The unit returns with nothing left of it, and releases its lock.
LEMMA ClosedKeeps ==
    ASSUME NotShared, TypeOK, Core, NEW u \in Units, Closed(u)
    PROVE  TypeOK' /\ Core'
<1>1. pc[u] = "closing" /\ W(u) \in Workers
  BY Basics DEF Closed
<1>2. /\ Connected(u) /\ tx[u] # "active" /\ u \notin transactions /\ (~single => u \notin connections)
      /\ Has({u}, {}, 0, 0) /\ lock[W(u)] = u /\ pc[u] \in Holding
  BY <1>1 DEF Core, Stages, Stage, Locked, Holding, Inside
<1>3. /\ link' = [link EXCEPT ![u] = "closed"]
      /\ connections' = IF single THEN {} ELSE connections
      /\ pc' \in {[pc EXCEPT ![u] = "answered"], [pc EXCEPT ![u] = "refused"]}
      /\ conn' = [conn EXCEPT ![W(u)] = None]
      /\ lock' = [lock EXCEPT ![W(u)] = None]
      /\ UNCHANGED <<setting, at, raised, txn, transactions, clients, txClients, tx, delta, rows>>
  BY <1>2 DEF Closed, Return, Connected
<1>4. TypeOK'
  <2>1. connections' \subseteq Units
    BY <1>3 DEF TypeOK
  <2>2. /\ link' \in [Units -> {"none", "starting", "open", "closed"}]
        /\ pc' \in [Units -> Inside \cup {"locking", "answered", "refused", "broken"}]
    BY <1>3 DEF TypeOK, Inside
  <2>3. conn' \in [Workers -> Units \cup {None}] /\ lock' \in [Workers -> Units \cup {None}]
    BY <1>1, <1>3 DEF TypeOK
  <2> QED BY <1>3, <2>1, <2>2, <2>3 DEF TypeOK, setting
<1>5. Frame(u)
  BY <1>1, <1>2, <1>3 DEF TypeOK, Frame, Has
<1>6. pc'[u] \in {"answered", "refused"} /\ link'[u] = "closed" /\ single' = single
  BY <1>3 DEF TypeOK, setting
<1>7. Stage(u)'
  BY <1>2, <1>3, <1>6 DEF Stage, Has
<1>8. Ends(u)
  BY <1>1, <1>2, <1>3, <1>6 DEF TypeOK, Ends, Has, Holding, Inside
<1> QED BY <1>2, <1>4, <1>5, <1>7, <1>8, FrameKeeps

\* A unit that breaks keeps its lock: nobody sees what it left behind.
LEMMA FailureKeeps ==
    ASSUME NotShared, TypeOK, Core, NEW u \in Units, Failure(u)
    PROVE  TypeOK' /\ Core'
<1>1. pc[u] \in {"opening", "beginning", "ending", "closing"} /\ W(u) \in Workers
  BY Basics DEF Failure
<1>2. lock[W(u)] = u /\ pc[u] \in Holding /\ (pc[u] = "ending" => txn[W(u)] = u)
  BY <1>1 DEF Core, Stages, Stage, Started, Locked, Holding, Inside
<1>3. /\ pc' = [pc EXCEPT ![u] = "broken"]
      /\ link' \in {link, [link EXCEPT ![u] = "closed"]}
      /\ tx' \in {tx, [tx EXCEPT ![u] = "rolled back"]}
      /\ UNCHANGED <<lock, conn>>
      /\ UNCHANGED <<setting, at, raised, txn, manager, delta, rows>>
  <2>1. link' \in {link, [link EXCEPT ![u] = "closed"]}
    BY DEF Failure, TypeOK
  <2> QED BY <1>2, <2>1 DEF Failure, Break
<1>4. TypeOK'
  BY <1>3 DEF TypeOK, setting, manager, Inside
<1>5. Frame(u)
  BY <1>3 DEF TypeOK, Frame, manager
<1>6. pc'[u] = "broken"
  BY <1>3 DEF TypeOK
<1>7. Stage(u)' /\ Ends(u)
  BY <1>2, <1>3, <1>6 DEF Stage, Ends, Holding
<1> QED BY <1>2, <1>4, <1>5, <1>7, FrameKeeps

\* Every step of a unit.
LEMMA WorkKeeps ==
    ASSUME NotShared, TypeOK, Core, NEW u \in Units, Work(u)
    PROVE  TypeOK' /\ Core'
<1>1. CASE Enter(u) BY <1>1, EnterKeeps
<1>2. CASE Opened(u) BY <1>2, OpenedKeeps
<1>3. CASE Begun(u) BY <1>3, BegunKeeps
<1>4. CASE Statement(u) BY <1>4, StatementKeeps
<1>5. CASE Raise(u) BY <1>5, LeaveKeeps DEF Raise
<1>6. CASE Finish(u) BY <1>6, LeaveKeeps DEF Finish
<1>7. CASE Ended(u) BY <1>7, EndedKeeps
<1>8. CASE Closed(u) BY <1>8, ClosedKeeps
<1>9. CASE Failure(u) BY <1>9, FailureKeeps
<1> QED BY <1>1, <1>2, <1>3, <1>4, <1>5, <1>6, <1>7, <1>8, <1>9 DEF Work

\* Which worker serves a unit, and over how many connections, is settled at
\* the start.
LEMMA SettingStays ==
    ASSUME [Next]_vars
    PROVE  setting' = setting
<1>1. CASE UNCHANGED vars
  BY <1>1 DEF vars, setting
<1>2. CASE Next
  <2>1. PICK u \in Units : Work(u)
    BY <1>2 DEF Next
  <2> QED BY <2>1 DEF Work, Enter, Opened, Begun, Statement, Raise, Finish, Leave, Ended, Closed,
                     Failure, setting
<1> QED BY <1>1, <1>2

-----------------------------------------------------------------------------
(* Theorems *)

\* Every reachable state satisfies the inductive invariant (the awaits of
\* SQLAlchemyWorker.set_up and tear_down under the lock of the worker).
THEOREM Inductive == Spec => []IndInv
<1>1. Init => IndInv
  <2> SUFFICES ASSUME Init PROVE TypeOK /\ Core
    BY DEF IndInv
  <2>1. TypeOK
    BY DEF Init, TypeOK, Inside
  <2>2. Core
    BY UnitsAssumption DEF Init, TypeOK, Core, Locked, Stages, Stage, Idle, Has, Holding, Inside, W
  <2> QED BY <2>1, <2>2
<1>2. IndInv /\ [Next]_vars => IndInv'
  <2> SUFFICES ASSUME IndInv, [Next]_vars, NotShared' PROVE TypeOK' /\ Core'
    BY DEF IndInv
  <2>1. NotShared
    BY SettingStays DEF NotShared, setting, W
  <2>2. TypeOK /\ Core
    BY <2>1 DEF IndInv
  <2>3. CASE UNCHANGED vars
    <3>1. TypeOK'
      BY <2>2, <2>3 DEF TypeOK, vars, setting, progress, attributes, manager, database
    <3>2. Core'
      BY <2>2, <2>3 DEF Core, Locked, Stages, Stage, Idle, Has, Connected, Known, Started, W,
           vars, setting, progress, attributes, manager, database
    <3> QED BY <3>1, <3>2
  <2>4. CASE Next
    BY <2>1, <2>2, <2>4, WorkKeeps DEF Next
  <2> QED BY <2>3, <2>4
<1> QED BY <1>1, <1>2, PTL DEF Spec

\* Type correctness of workers, manager and database.
THEOREM TypeCorrect == Spec => [](NotShared => TypeOK)
<1>1. IndInv => (NotShared => TypeOK)
  BY DEF IndInv
<1> QED BY <1>1, Inductive, PTL

\* A unit of work is isolated, for any number of requests, workers and keys, in
\* either mode of the module and whatever the database does: a body works on
\* the connection and the transaction of its own unit (BaseWorker).
THEOREM Isolation == Spec => [](NotShared => OwnConnection)
<1>1. IndInv => (NotShared => OwnConnection)
  <2> SUFFICES ASSUME IndInv, NotShared, NEW u \in Units, pc[u] = "working"
               PROVE  /\ lock[W(u)] = u
                      /\ conn[W(u)] = u /\ u \in connections /\ link[u] = "open"
                      /\ txn[W(u)] = u /\ u \in transactions /\ tx[u] = "active"
    BY DEF OwnConnection
  <2>1. Stage(u) /\ (pc[u] \in Holding <=> lock[W(u)] = u)
    BY DEF IndInv, Core, Stages, Locked
  <2> QED BY <2>1 DEF Stage, Connected, Known, Started, Holding, Inside
<1> QED BY <1>1, Inductive, PTL

\* A unit that returned left neither connection nor transaction behind, and the
\* single manager counts the units inside (SingleConnectionManager.close, end).
THEOREM NoLeak == Spec => [](NotShared => NothingLeaks)
<1>1. IndInv => (NotShared => NothingLeaks)
  <2> SUFFICES ASSUME IndInv, NotShared PROVE NothingLeaks
    OBVIOUS
  <2>1. \A u \in Units : Stage(u)
    BY DEF IndInv, Core, Stages
  <2>2. ASSUME NEW u \in Units, pc[u] \in {"answered", "refused"}
        PROVE  /\ u \notin connections \cup transactions
               /\ link[u] = "closed" /\ tx[u] # "active"
    BY <2>1, <2>2 DEF Stage
  <2> DEFINE counted == {u \in Units : pc[u] \in {"beginning", "working", "ending"}}
  <2>3. ASSUME single, \A u \in Units : pc[u] # "broken"
        PROVE  clients = Cardinality(counted)
    <3>1. CASE \A u \in Units : pc[u] \notin Holding
      <4>1. counted = {}
        BY <3>1 DEF Holding, Inside
      <4>2. clients = 0
        BY <2>3, <3>1 DEF IndInv, Core, Idle, Has
      <4> QED BY <4>1, <4>2, FS_EmptySet
    <3>2. CASE \E u \in Units : pc[u] \in Holding
      <4>1. PICK u \in Units : pc[u] \in Holding
        BY <3>2
      <4>2. \A v \in Units \ {u} : pc[v] \notin Holding
        BY <2>3, <4>1, Alone DEF IndInv
      <4>3. CASE pc[u] \in {"beginning", "working", "ending"}
        <5>1. counted = {u}
          BY <4>2, <4>3 DEF Holding, Inside
        <5>2. clients = 1
          BY <2>1, <2>3, <4>3 DEF Stage, Has
        <5> QED BY <5>1, <5>2, FS_Singleton
      <4>4. CASE pc[u] \in {"opening", "closing"}
        <5>1. counted = {}
          BY <4>2, <4>4 DEF Holding, Inside
        <5>2. clients = 0
          BY <2>1, <2>3, <4>4 DEF Stage, Has
        <5> QED BY <5>1, <5>2, FS_EmptySet
      <4> QED BY <2>3, <4>1, <4>3, <4>4 DEF Holding, Inside
    <3> QED BY <3>1, <3>2
  <2> QED BY <2>2, <2>3 DEF NothingLeaks
<1> QED BY <1>1, Inductive, PTL

-----------------------------------------------------------------------------
(* Requests are atomic *)

\* What the keys of a request, and the other ones, have in its transaction after n of
\* its statements.
Left(u, n) ==
    LET s == IF n = 0 THEN "none" ELSE Program(u)[n]
    IN  IF s \in {"insert", "update"} THEN u ELSE IF s \in {"delete", "drop"} THEN Absent ELSE Same
Elsewhere(u, n) == IF n > 0 /\ Program(u)[1] = "drop" THEN Absent ELSE Same
Changed(u, n) == [k \in Keys |-> IF k \in handler[u].keys THEN Left(u, n) ELSE Elsewhere(u, n)]

\* How far a unit is: its transaction holds what its statements changed, the whole of
\* them if it is to be committed; and what the first of them found in the table is
\* still there, for the row is locked.
Proper(u) ==
    /\ at[u] <= Len(Program(u))
    /\ delta[u] = Changed(u, at[u])
    /\ pc[u] \in {"locking", "opening", "beginning"} => at[u] = 0
    /\ pc[u] = "ending" /\ ~(raised[u]) => at[u] = Len(Program(u))
    /\ pc[u] = "closing" => tx[u] = Outcome(u)
    /\ tx[u] = "active" /\ at[u] > 0 =>
         \A k \in handler[u].keys :
            /\ handler[u].verb = "create" => rows[k] = Absent
            /\ handler[u].verb = "partial_update" => rows[k] # Absent

\* No two transactions in progress changed the same row.
Apart ==
    \A u, v \in Units : u # v /\ tx[u] = "active" /\ tx[v] = "active" =>
        \A k \in Keys : delta[u][k] = Same \/ delta[v][k] = Same

Effects == (\A u \in Units : Proper(u)) /\ Apart
EffectsInv == NotShared => Effects

-----------------------------------------------------------------------------
(* What a step does to a request *)

\* The steps of a unit that has its worker to itself, without the bookkeeping of the
\* manager: the state of the request, of its transaction and of the table.
Enters(u) ==
    /\ \/ pc[u] = "locking" /\ pc' = [pc EXCEPT ![u] = "opening"]
       \/ pc[u] = "opening" /\ pc' = [pc EXCEPT ![u] = "beginning"]
    /\ UNCHANGED <<at, raised, tx, delta, rows>>
Begins(u) ==
    /\ pc[u] = "beginning" /\ pc' = [pc EXCEPT ![u] = "working"]
    /\ tx' = [tx EXCEPT ![u] = "active"]
    /\ UNCHANGED <<at, raised, delta, rows>>
States(u) ==
    LET s == Program(u)[at[u] + 1]
    IN  /\ pc[u] = "working" /\ at[u] < Len(Program(u)) /\ tx[u] = "active"
        /\ s \in {"insert", "update", "delete", "drop"} => RowsFree(u, Touched(u, s))
        /\ s \in {"retrieve", "update"} => \A k \in Touched(u, s) : Seen(u, k) # Absent
        /\ s = "insert" => \A k \in Touched(u, s) : Seen(u, k) = Absent
        /\ delta' = [delta EXCEPT ![u] = Change(u, s, u)]
        /\ at' = [at EXCEPT ![u] = @ + 1]
        /\ UNCHANGED <<pc, raised, tx, rows>>
Leaves(u) ==
    /\ pc[u] = "working" /\ pc' = [pc EXCEPT ![u] = "ending"]
    /\ raised'[u] \/ at[u] = Len(Program(u))
    /\ \A v \in Units \ {u} : raised'[v] = raised[v]
    /\ UNCHANGED <<at, tx, delta, rows>>
Decides(u) ==
    /\ pc[u] = "ending" /\ pc' = [pc EXCEPT ![u] = "closing"]
    /\ tx[u] = "active" /\ tx' = [tx EXCEPT ![u] = Outcome(u)]
    /\ rows' = IF Outcome(u) = "committed"
               THEN [k \in Keys |-> IF delta[u][k] = Same THEN rows[k] ELSE delta[u][k]]
               ELSE rows
    /\ UNCHANGED <<at, raised, delta>>
Returns(u) ==
    /\ pc[u] = "closing"
    /\ pc' = [pc EXCEPT ![u] = IF raised[u] THEN "refused" ELSE "answered"]
    /\ UNCHANGED <<at, raised, tx, delta, rows>>
Breaks(u) ==
    /\ pc[u] \in Inside /\ pc' = [pc EXCEPT ![u] = "broken"]
    /\ tx' = tx \/ (tx[u] = "active" /\ tx' = [tx EXCEPT ![u] = "rolled back"])
    /\ UNCHANGED <<at, raised, delta, rows>>
Does(u) ==
    /\ UNCHANGED setting
    /\ Enters(u) \/ Begins(u) \/ States(u) \/ Leaves(u) \/ Decides(u) \/ Returns(u) \/ Breaks(u)

\* These are the steps: no other unit is in the way, and the manager does not refuse.
LEMMA WorkDoes ==
    ASSUME NotShared, TypeOK, Core, NEW u \in Units, Work(u)
    PROVE  Does(u)
<1>1. W(u) \in Workers /\ Stage(u)
  BY Basics DEF Core, Stages
<1>2. CASE Enter(u)
  <2>1. pc[u] = "locking" /\ lock[W(u)] = None
    BY <1>2 DEF Enter
  <2>2. Has({}, {}, 0, 0)
    <3>1. SUFFICES ASSUME single PROVE \A v \in Units : pc[v] \notin Holding
      BY DEF Core, Idle, Has
    <3>2. \A v \in Units \ {u} : pc[v] \notin Holding
      BY <2>1, <3>1, Alone
    <3> QED BY <2>1, <3>2 DEF Holding, Inside
  <2>3. Enters(u) /\ UNCHANGED setting
    BY <1>2, <2>1, <2>2 DEF Enter, Has, Enters
  <2> QED BY <2>3 DEF Does
<1>3. CASE Opened(u)
  <2>1. Has({u}, {}, 0, 0)
    BY <1>1, <1>3 DEF Opened, Stage
  <2>2. Enters(u) /\ UNCHANGED setting
    BY <1>3, <2>1 DEF Opened, Begin, Has, Enters
  <2> QED BY <2>2 DEF Does
<1>4. CASE Begun(u)
  BY <1>4 DEF Begun, Begins, Does
<1>5. CASE Statement(u)
  <2>1. txn[W(u)] = u
    BY <1>1, <1>5 DEF Statement, Stage, Started
  <2> QED BY <1>5, <2>1 DEF Statement, States, Does
<1>6. ASSUME NEW raises \in BOOLEAN, Leave(u, raises), raises \/ at[u] = Len(Program(u))
      PROVE  Does(u)
  <2>1. pc[u] = "working" /\ raised' = [raised EXCEPT ![u] = raises] /\ UNCHANGED <<setting, at, database>>
    BY <1>6 DEF Leave
  <2>2. Started(u) /\ u \in transactions /\ Has({u}, {u}, 1, 1)
    BY <1>1, <2>1 DEF Stage
  <2>3. pc' = [pc EXCEPT ![u] = "ending"]
    BY <1>6, <2>2 DEF Leave, Started, Has
  <2>4. raised'[u] = raises /\ \A v \in Units \ {u} : raised'[v] = raised[v]
    BY <2>1 DEF TypeOK
  <2> QED BY <1>6, <2>1, <2>3, <2>4 DEF Does, Leaves, database
<1>7. CASE Ended(u)
  <2>1. pc[u] = "ending" /\ Connected(u) /\ Known(u) /\ Started(u) /\ Has({u}, {u}, 1, 0)
    BY <1>1, <1>7 DEF Ended, Stage
  <2>2. /\ tx' = [tx EXCEPT ![u] = Outcome(u)] /\ tx[u] = "active" /\ Close(u)
        /\ rows' = IF Outcome(u) = "committed"
                   THEN [k \in Keys |-> IF delta[u][k] = Same THEN rows[k] ELSE delta[u][k]]
                   ELSE rows
        /\ UNCHANGED <<setting, at, raised, delta>>
    BY <1>7, <2>1 DEF Ended, Started
  <2>3. pc' = [pc EXCEPT ![u] = "closing"]
    BY <2>1, <2>2 DEF Close, Connected, Known, Has
  <2> QED BY <2>1, <2>2, <2>3 DEF Does, Decides
<1>8. CASE Closed(u)
  BY <1>8 DEF Closed, Return, Does, Returns
<1>9. CASE Failure(u)
  <2>1. /\ pc[u] \in Inside /\ pc' = [pc EXCEPT ![u] = "broken"]
        /\ UNCHANGED <<setting, at, raised, delta, rows>>
    BY <1>9 DEF Failure, Break, Inside
  <2>2. tx' = tx \/ (tx[u] = "active" /\ tx' = [tx EXCEPT ![u] = "rolled back"])
    <3>1. CASE pc[u] = "ending"
      BY <1>1, <1>9, <3>1 DEF Failure, Stage, Started
    <3>2. CASE pc[u] # "ending"
      BY <1>9, <3>2 DEF Failure
    <3> QED BY <3>1, <3>2
  <2> QED BY <2>1, <2>2 DEF Does, Breaks
<1> QED BY <1>2, <1>3, <1>4, <1>5, <1>6, <1>7, <1>8, <1>9 DEF Work, Raise, Finish

-----------------------------------------------------------------------------
(* What a transaction holds *)

\* The statements that find and those that clear the table come first in their program.
LEMMA Order ==
    ASSUME NEW verb \in DOMAIN Statements, NEW n \in 1..Len(Statements[verb])
    PROVE  /\ Statements[verb][n] \in {"insert", "retrieve", "list", "update", "delete", "drop"}
           /\ Statements[verb][n] \in {"retrieve", "list", "drop", "update"} => n = 1
           /\ verb = "create" => Statements[verb] = <<"insert">> /\ n = 1
           /\ verb = "partial_update" => Statements[verb] = <<"update">> /\ n = 1
<1>1. CASE verb \in {"create", "retrieve", "list", "partial_update", "drop"}
  <2>1. Statements[verb] \in {<<"insert">>, <<"retrieve">>, <<"list">>, <<"update">>, <<"drop">>}
    BY <1>1 DEF Statements
  <2>2. Len(Statements[verb]) = 1
    BY <2>1
  <2>3. n = 1
    BY <2>2
  <2> QED BY <1>1, <2>1, <2>3 DEF Statements
<1>2. CASE verb \in {"delete", "replace", "partial_replace"}
  <2>1. Statements[verb] \in
          {<<"retrieve", "delete">>, <<"drop", "insert">>, <<"delete", "insert">>}
    BY <1>2 DEF Statements
  <2>2. Len(Statements[verb]) = 2
    BY <2>1
  <2>3. n \in {1, 2}
    BY <2>2
  <2> QED BY <1>2, <2>1, <2>3
<1>3. CASE verb = "update"
  <2>1. Statements[verb] = <<"retrieve", "delete", "insert">>
    BY <1>3 DEF Statements
  <2>2. n \in {1, 2, 3}
    BY <2>1
  <2> QED BY <1>3, <2>1, <2>2
<1>4. verb \in {"create", "retrieve", "list", "update", "partial_update", "delete",
               "replace", "partial_replace", "drop"}
  BY DEF Statements
<1> QED BY <1>1, <1>2, <1>3, <1>4

\* What is left when a program is done.
LEMMA Finals ==
    ASSUME NEW verb \in DOMAIN Statements
    PROVE  LET p == Statements[verb]
           IN  /\ Len(p) > 0
               /\ p[Len(p)] \in {"insert", "update"} <=> verb \in AsCollection!Writes
               /\ p[Len(p)] \in {"delete", "drop"} <=> verb \in {"delete", "drop"}
               /\ p[1] = "drop" <=> verb \in {"replace", "drop"}
<1>1. CASE verb \in {"create", "retrieve", "list", "partial_update", "drop"}
  <2>1. Statements[verb] = CASE verb = "create" -> <<"insert">> [] verb = "retrieve" -> <<"retrieve">>
          [] verb = "list" -> <<"list">> [] verb = "partial_update" -> <<"update">>
          [] verb = "drop" -> <<"drop">>
    BY <1>1 DEF Statements
  <2> QED BY <1>1, <2>1 DEF AsCollection!Writes
<1>2. CASE verb \in {"delete", "replace", "partial_replace"}
  <2>1. Statements[verb] = CASE verb = "delete" -> <<"retrieve", "delete">>
          [] verb = "replace" -> <<"drop", "insert">> [] verb = "partial_replace" -> <<"delete", "insert">>
    BY <1>2 DEF Statements
  <2> QED BY <1>2, <2>1 DEF AsCollection!Writes
<1>3. CASE verb = "update"
  <2>1. Statements[verb] = <<"retrieve", "delete", "insert">>
    BY <1>3 DEF Statements
  <2> QED BY <1>3, <2>1 DEF AsCollection!Writes
<1>4. verb \in {"create", "retrieve", "list", "update", "partial_update", "delete",
               "replace", "partial_replace", "drop"}
  BY DEF Statements
<1> QED BY <1>1, <1>2, <1>3, <1>4

\* The verb and the keys of a request.
LEMMA Asked ==
    ASSUME TypeOK, NEW u \in Units
    PROVE  /\ handler[u].verb \in DOMAIN Statements /\ handler[u].keys \subseteq Keys
           /\ handler[u].verb \in {"list", "drop"} => handler[u].keys = {}
           /\ at[u] \in Nat /\ Len(Program(u)) \in Nat
<1>1. handler[u] \in Handlers
  BY DEF TypeOK
<1>2. /\ handler[u].verb \in Verbs /\ handler[u].keys \subseteq Keys
      /\ handler[u].verb \in {"list", "drop"} => handler[u].keys = {}
  BY <1>1 DEF Handlers
<1>3. handler[u].verb \in DOMAIN Statements
  BY <1>2, VerbsAssumption
<1>4. Len(Program(u)) \in 0..3
  BY <1>3, Programs DEF Program
<1>5. Len(Program(u)) \in Nat
  BY <1>4
<1>6. at[u] \in 0..3
  BY DEF TypeOK
<1>7. at[u] \in Nat
  BY <1>6
<1> QED BY <1>2, <1>3, <1>5, <1>7

\* One more statement, one more line of the account of what changed.
LEMMA StatementAdds ==
    ASSUME TypeOK, NEW u \in Units, delta[u] = Changed(u, at[u]), at[u] < Len(Program(u))
    PROVE  Change(u, Program(u)[at[u] + 1], u) = Changed(u, at[u] + 1)
<1> DEFINE n == at[u]
           s == Program(u)[n + 1]
<1>1. n \in Nat /\ n + 1 \in 1..Len(Program(u)) /\ n + 1 # 0 /\ n + 1 > 0
  BY Asked
<1>2. /\ s \in {"insert", "retrieve", "list", "update", "delete", "drop"}
      /\ s \in {"retrieve", "list", "drop", "update"} => n = 0
  BY <1>1, Asked, Order DEF Program
<1>3. handler[u].keys \subseteq Keys
  BY Asked
<1> SUFFICES ASSUME NEW k \in Keys
             PROVE  (IF k \notin Touched(u, s) THEN delta[u][k]
                     ELSE IF s \in {"insert", "update"} THEN u
                     ELSE IF s \in {"delete", "drop"} THEN Absent
                     ELSE delta[u][k])
                      = IF k \in handler[u].keys THEN Left(u, n + 1) ELSE Elsewhere(u, n + 1)
  BY DEF Change, Changed
<1>4. delta[u][k] = IF k \in handler[u].keys THEN Left(u, n) ELSE Elsewhere(u, n)
  BY DEF Changed
<1>5. n = 0 => delta[u][k] = Same
  BY <1>4 DEF Left, Elsewhere
<1>6. Left(u, n + 1) = IF s \in {"insert", "update"} THEN u
                       ELSE IF s \in {"delete", "drop"} THEN Absent ELSE Same
  BY <1>1 DEF Left
<1>7. s # "drop" => Elsewhere(u, n + 1) = Elsewhere(u, n)
  BY <1>1 DEF Elsewhere
<1>8. s = "drop" => Elsewhere(u, n + 1) = Absent
  BY <1>1, <1>2 DEF Elsewhere
<1> HIDE DEF n, s
<1>9. CASE s = "drop"
  BY <1>6, <1>8, <1>9 DEF Touched
<1>10. CASE s \in {"insert", "update", "delete"}
  BY <1>4, <1>6, <1>7, <1>10 DEF Touched
<1>11. CASE s \in {"retrieve", "list"}
  <2>1. Left(u, n + 1) = Same /\ Elsewhere(u, n + 1) = Elsewhere(u, n) /\ n = 0
    BY <1>2, <1>6, <1>7, <1>11
  <2>2. Elsewhere(u, n) = Same
    BY <2>1 DEF Elsewhere
  <2> QED BY <1>5, <1>11, <2>1, <2>2
<1> QED BY <1>2, <1>9, <1>10, <1>11

\* The whole of a program is the effect the request has in the collection.
LEMMA WholeEffect ==
    ASSUME TypeOK, NEW u \in Units, delta[u] = Changed(u, Len(Program(u)))
    PROVE  [k \in Keys |-> IF delta[u][k] = Same THEN rows[k] ELSE delta[u][k]]
             = AsCollection!Effect(u)
<1> DEFINE n == Len(Program(u))
           verb == handler[u].verb
<1>1. /\ n \in Nat /\ handler[u].keys \subseteq Keys /\ verb \in DOMAIN Statements
      /\ verb \in {"list", "drop"} => handler[u].keys = {}
  BY Asked
<1>2. Program(u) = Statements[verb]
  BY DEF Program
<1>3. /\ n > 0 /\ n # 0
      /\ Program(u)[n] \in {"insert", "update"} <=> verb \in AsCollection!Writes
      /\ Program(u)[n] \in {"delete", "drop"} <=> verb \in {"delete", "drop"}
      /\ Program(u)[1] = "drop" <=> verb \in {"replace", "drop"}
  <2> HIDE DEF verb
  <2>0. verb \in DOMAIN Statements
    BY <1>1
  <2>1. /\ Len(Statements[verb]) > 0
        /\ Statements[verb][Len(Statements[verb])] \in {"insert", "update"} <=> verb \in AsCollection!Writes
        /\ Statements[verb][Len(Statements[verb])] \in {"delete", "drop"} <=> verb \in {"delete", "drop"}
        /\ Statements[verb][1] = "drop" <=> verb \in {"replace", "drop"}
    BY <2>0, Finals, Zenon
  <2> QED BY <1>1, <1>2, <2>1
<1>4. /\ Left(u, n) = IF verb \in AsCollection!Writes THEN u
                      ELSE IF verb \in {"delete", "drop"} THEN Absent ELSE Same
      /\ Elsewhere(u, n) = IF verb \in {"replace", "drop"} THEN Absent ELSE Same
  BY <1>3 DEF Left, Elsewhere
<1>5. u # Same /\ Absent # Same
  BY UnitsAssumption DEF Absent, Same
<1> SUFFICES ASSUME NEW k \in Keys
             PROVE  (IF delta[u][k] = Same THEN rows[k] ELSE delta[u][k])
                      = IF verb \in AsCollection!Writes /\ k \in handler[u].keys THEN u
                        ELSE IF k \in AsCollection!Clears(handler[u]) THEN Absent
                        ELSE rows[k]
  BY DEF AsCollection!Effect
<1>6. delta[u][k] = IF k \in handler[u].keys THEN Left(u, n) ELSE Elsewhere(u, n)
  BY DEF Changed
<1>7. AsCollection!Clears(handler[u])
        = IF verb \in {"replace", "drop"} THEN Keys ELSE IF verb = "delete" THEN handler[u].keys ELSE {}
  BY DEF AsCollection!Clears
<1>8. verb \in {"delete", "drop"} => verb \notin AsCollection!Writes
  BY DEF AsCollection!Writes
<1> HIDE DEF n, verb
<1>9. CASE k \in handler[u].keys
  <2>1. verb # "drop"
    BY <1>1, <1>9
  <2>2. CASE verb \in AsCollection!Writes
    BY <1>4, <1>5, <1>6, <1>9, <2>2
  <2>3. CASE verb = "delete"
    BY <1>4, <1>5, <1>6, <1>7, <1>8, <1>9, <2>3
  <2>4. CASE verb \notin AsCollection!Writes /\ verb # "delete"
    <3>1. verb # "replace"
      BY <2>4 DEF AsCollection!Writes
    <3> QED BY <1>4, <1>6, <1>7, <1>9, <2>1, <2>4, <3>1
  <2> QED BY <2>2, <2>3, <2>4
<1>10. CASE k \notin handler[u].keys
  <2>1. CASE verb \in {"replace", "drop"}
    BY <1>4, <1>5, <1>6, <1>7, <1>10, <2>1
  <2>2. CASE verb \notin {"replace", "drop"}
    BY <1>4, <1>6, <1>7, <1>10, <2>2
  <2> QED BY <2>1, <2>2
<1> QED BY <1>9, <1>10

-----------------------------------------------------------------------------
(* A step keeps the account of the effects *)

\* What a request asks for does not change, nor does the account of a number of its
\* statements.
LEMMA Settled ==
    ASSUME UNCHANGED setting, NEW u \in Units
    PROVE  /\ handler' = handler /\ Program(u)' = Program(u)
           /\ at'[u] = at[u] => Changed(u, at[u])' = Changed(u, at[u])
<1>1. handler' = handler
  BY DEF setting
<1> QED BY <1>1 DEF Program, Changed, Left, Elsewhere

\* A step of a unit leaves the others alone, and the rows they have changed.
LEMMA DoesSpares ==
    ASSUME TypeOK, Effects, NEW u \in Units, NEW v \in Units \ {u}, Does(u)
    PROVE  /\ pc'[v] = pc[v] /\ at'[v] = at[v] /\ raised'[v] = raised[v]
           /\ tx'[v] = tx[v] /\ delta'[v] = delta[v]
           /\ tx[v] = "active" => \A k \in Keys : rows'[k] = rows[k] \/ delta[v][k] = Same
<1>1. CASE Enters(u)
  BY <1>1 DEF Enters, TypeOK
<1>2. CASE Begins(u)
  BY <1>2 DEF Begins, TypeOK
<1>3. CASE States(u)
  BY <1>3 DEF States, TypeOK
<1>4. CASE Leaves(u)
  BY <1>4 DEF Leaves, TypeOK
<1>5. CASE Decides(u)
  <2>1. /\ pc'[v] = pc[v] /\ at'[v] = at[v] /\ raised'[v] = raised[v]
        /\ tx'[v] = tx[v] /\ delta'[v] = delta[v]
    BY <1>5 DEF Decides, TypeOK
  <2>2. ASSUME tx[v] = "active", NEW k \in Keys
        PROVE  rows'[k] = rows[k] \/ delta[v][k] = Same
    <3>1. delta[u][k] = Same \/ delta[v][k] = Same
      BY <1>5, <2>2 DEF Decides, Effects, Apart
    <3>2. delta[u][k] = Same => rows'[k] = rows[k]
      BY <1>5 DEF Decides
    <3> QED BY <3>1, <3>2
  <2> QED BY <2>1, <2>2
<1>6. CASE Returns(u)
  BY <1>6 DEF Returns, TypeOK
<1>7. CASE Breaks(u)
  BY <1>7 DEF Breaks, TypeOK
<1> QED BY <1>1, <1>2, <1>3, <1>4, <1>5, <1>6, <1>7 DEF Does

\* The account of another unit stays true: a row its statement was about is one it
\* has changed, which nobody else does before it ends.
LEMMA OthersProper ==
    ASSUME TypeOK, Effects, NEW u \in Units, NEW v \in Units \ {u}, Does(u)
    PROVE  Proper(v)'
<1>1. /\ pc'[v] = pc[v] /\ at'[v] = at[v] /\ raised'[v] = raised[v]
      /\ tx'[v] = tx[v] /\ delta'[v] = delta[v]
      /\ tx[v] = "active" => \A k \in Keys : rows'[k] = rows[k] \/ delta[v][k] = Same
  BY DoesSpares
<1>2. /\ handler' = handler /\ Program(v)' = Program(v)
      /\ Changed(v, at[v])' = Changed(v, at[v])
  BY <1>1, Settled DEF Does
<1>3. Proper(v)
  BY DEF Effects
<1>4. at[v] \in Nat /\ handler[v].keys \subseteq Keys /\ handler[v].verb \in DOMAIN Statements
  BY Asked
<1>5. ASSUME at[v] > 0, handler[v].verb \in {"create", "partial_update"}, NEW k \in handler[v].keys
      PROVE  delta[v][k] # Same
  <2>1. at[v] \in 1..Len(Statements[handler[v].verb])
    BY <1>3, <1>4, <1>5, Asked DEF Proper, Program
  <2>2. Program(v)[at[v]] \in {"insert", "update"}
    BY <1>4, <1>5, <2>1, Order DEF Program
  <2>3. Left(v, at[v]) = v
    BY <1>5, <2>2 DEF Left
  <2>4. delta[v][k] = v
    BY <1>3, <1>4, <1>5, <2>3 DEF Proper, Changed
  <2> QED BY <2>4, UnitsAssumption DEF Same
<1>6. ASSUME tx[v] = "active", at[v] > 0, NEW k \in handler[v].keys
      PROVE  /\ handler[v].verb = "create" => rows'[k] = Absent
             /\ handler[v].verb = "partial_update" => rows'[k] # Absent
  <2>1. k \in Keys /\ (rows'[k] = rows[k] \/ delta[v][k] = Same)
    BY <1>1, <1>4, <1>6
  <2>2. /\ handler[v].verb = "create" => rows[k] = Absent
        /\ handler[v].verb = "partial_update" => rows[k] # Absent
    BY <1>3, <1>6 DEF Proper
  <2> QED BY <1>5, <1>6, <2>1, <2>2
<1>7. /\ at'[v] <= Len(Program(v)') /\ delta'[v] = Changed(v, at[v])'
      /\ pc'[v] \in {"locking", "opening", "beginning"} => at'[v] = 0
      /\ pc'[v] = "ending" /\ ~(raised'[v]) => at'[v] = Len(Program(v)')
      /\ pc'[v] = "closing" => tx'[v] = Outcome(v)'
  BY <1>1, <1>2, <1>3 DEF Proper, Outcome
<1> QED BY <1>1, <1>2, <1>6, <1>7 DEF Proper

\* Before its first statement a transaction has changed nothing.
LEMMA Fresh ==
    ASSUME NEW u \in Units, Proper(u), at[u] = 0, NEW k \in Keys
    PROVE  delta[u][k] = Same
BY DEF Proper, Changed, Left, Elsewhere

\* A statement adds to the account of its own unit.
LEMMA StatesProper ==
    ASSUME TypeOK, NEW u \in Units, Proper(u), UNCHANGED setting, States(u)
    PROVE  Proper(u)'
<1> DEFINE n == at[u]
           s == Program(u)[n + 1]
<1>1. /\ n \in Nat /\ handler[u].keys \subseteq Keys /\ handler[u].verb \in DOMAIN Statements
      /\ Len(Program(u)) \in Nat
  BY Asked
<1>2. handler' = handler /\ Program(u)' = Program(u)
  BY Settled
<1>3. /\ pc' = pc /\ raised' = raised /\ tx' = tx /\ rows' = rows /\ pc[u] = "working"
      /\ at'[u] = n + 1 /\ n < Len(Program(u))
      /\ delta'[u] = Change(u, s, u)
  BY DEF States, TypeOK
<1>4. delta'[u] = Changed(u, n + 1)
  BY <1>3, StatementAdds DEF Proper
<1>5. Changed(u, at[u])' = Changed(u, n + 1)
  BY <1>2, <1>3 DEF Changed, Left, Elsewhere, Program
<1>6. n + 1 \in 1..Len(Statements[handler[u].verb])
  BY <1>1, <1>3 DEF Program
<1>7. ASSUME NEW k \in handler[u].keys
      PROVE  /\ handler[u].verb = "create" => rows[k] = Absent
             /\ handler[u].verb = "partial_update" => rows[k] # Absent
  <2>1. handler[u].verb \in {"create", "partial_update"} => n = 0
    BY <1>1, <1>6, Order
  <2>2. n = 0 => Seen(u, k) = rows[k]
    BY <1>1, <1>7, Fresh DEF Seen
  <2>3. CASE handler[u].verb = "create"
    <3>1. s = "insert"
      BY <1>1, <1>6, <2>1, <2>3, Order DEF Program
    <3>2. Seen(u, k) = Absent
      BY <1>7, <3>1 DEF States, Touched
    <3> QED BY <2>1, <2>2, <2>3, <3>2
  <2>4. CASE handler[u].verb = "partial_update"
    <3>1. s = "update"
      BY <1>1, <1>6, <2>1, <2>4, Order DEF Program
    <3>2. Seen(u, k) # Absent
      BY <1>7, <3>1 DEF States, Touched
    <3> QED BY <2>1, <2>2, <2>4, <3>2
  <2> QED BY <2>3, <2>4
<1>8. at'[u] <= Len(Program(u)') /\ delta'[u] = Changed(u, at[u])'
  BY <1>1, <1>2, <1>3, <1>4, <1>5
<1> QED BY <1>2, <1>3, <1>7, <1>8 DEF Proper

\* A step keeps the account of its own unit.
LEMMA SelfProper ==
    ASSUME TypeOK, Core, Effects, NEW u \in Units, Does(u)
    PROVE  Proper(u)'
<1>1. Proper(u) /\ Stage(u) /\ UNCHANGED setting
  BY DEF Effects, Core, Stages, Does
<1>2. /\ handler' = handler /\ Program(u)' = Program(u)
      /\ at'[u] = at[u] => Changed(u, at[u])' = Changed(u, at[u])
  BY <1>1, Settled
<1>3. CASE Enters(u)
  <2>1. pc'[u] \in {"opening", "beginning"} /\ tx'[u] = "none" /\ at[u] = 0
    BY <1>1, <1>3 DEF Enters, Stage, TypeOK, Proper
  <2> QED BY <1>1, <1>2, <1>3, <2>1 DEF Enters, Proper
<1>4. CASE Begins(u)
  <2>1. pc'[u] = "working" /\ at[u] = 0
    BY <1>1, <1>4 DEF Begins, TypeOK, Proper
  <2> QED BY <1>1, <1>2, <1>4, <2>1 DEF Begins, Proper
<1>5. CASE States(u)
  BY <1>1, <1>5, StatesProper
<1>6. CASE Leaves(u)
  <2>1. pc'[u] = "ending"
    BY <1>6 DEF Leaves, TypeOK
  <2> QED BY <1>1, <1>2, <1>6, <2>1 DEF Leaves, Proper
<1>7. CASE Decides(u)
  <2>1. pc'[u] = "closing" /\ tx'[u] = Outcome(u) /\ Outcome(u)' = Outcome(u)
    BY <1>7 DEF Decides, TypeOK, Outcome
  <2>2. Outcome(u) # "active"
    BY DEF Outcome
  <2> QED BY <1>1, <1>2, <1>7, <2>1, <2>2 DEF Decides, Proper
<1>8. CASE Returns(u)
  <2>1. pc'[u] \in {"answered", "refused"}
    BY <1>8 DEF Returns, TypeOK
  <2> QED BY <1>1, <1>2, <1>8, <2>1 DEF Returns, Proper
<1>9. CASE Breaks(u)
  <2>1. pc'[u] = "broken" /\ (tx'[u] = "active" => tx[u] = "active")
    BY <1>9 DEF Breaks, TypeOK
  <2> QED BY <1>1, <1>2, <1>9, <2>1 DEF Breaks, Proper
<1> QED BY <1>3, <1>4, <1>5, <1>6, <1>7, <1>8, <1>9 DEF Does

\* Two transactions in progress stay apart: a statement waits for the rows of the
\* others.
LEMMA ApartKept ==
    ASSUME TypeOK, Effects, NEW u \in Units, Does(u)
    PROVE  Apart'
<1>1. ASSUME NEW v \in Units \ {u}, tx'[u] = "active", tx'[v] = "active", NEW k \in Keys
      PROVE  delta'[u][k] = Same \/ delta'[v][k] = Same
  <2>1. tx[v] = "active" /\ delta'[v] = delta[v]
    BY <1>1, DoesSpares
  <2>2. tx[u] = "active" => delta[u][k] = Same \/ delta[v][k] = Same
    BY <1>1, <2>1 DEF Effects, Apart
  <2>3. CASE Enters(u) \/ Leaves(u) \/ Returns(u)
    BY <1>1, <2>1, <2>2, <2>3 DEF Enters, Leaves, Returns
  <2>4. CASE Begins(u)
    <3>1. delta[u][k] = Same
      BY <2>4, Fresh DEF Begins, Effects, Proper
    <3> QED BY <2>4, <3>1 DEF Begins
  <2>5. CASE Decides(u)
    <3>1. tx'[u] = Outcome(u)
      BY <2>5 DEF Decides, TypeOK
    <3> QED BY <1>1, <3>1 DEF Outcome
  <2>6. CASE Breaks(u)
    <3>1. tx[u] = "active" /\ delta' = delta
      BY <1>1, <2>6 DEF Breaks, TypeOK
    <3> QED BY <2>1, <2>2, <3>1
  <2>7. CASE States(u)
    <3> DEFINE s == Program(u)[at[u] + 1]
    <3>1. tx[u] = "active" /\ delta'[u] = Change(u, s, u)
      BY <2>7 DEF States, TypeOK
    <3>2. delta'[u][k] = IF k \notin Touched(u, s) THEN delta[u][k]
                         ELSE IF s \in {"insert", "update"} THEN u
                         ELSE IF s \in {"delete", "drop"} THEN Absent
                         ELSE delta[u][k]
      BY <3>1 DEF Change
    <3>3. s \in {"insert", "update", "delete", "drop"} /\ k \in Touched(u, s) => delta[v][k] = Same
      BY <2>1, <2>7 DEF States, RowsFree
    <3> HIDE DEF s
    <3> QED BY <2>1, <2>2, <3>1, <3>2, <3>3
  <2> QED BY <2>3, <2>4, <2>5, <2>6, <2>7 DEF Does
<1>2. ASSUME NEW v \in Units \ {u}, NEW w \in Units \ {u}, v # w,
             tx'[v] = "active", tx'[w] = "active", NEW k \in Keys
      PROVE  delta'[v][k] = Same \/ delta'[w][k] = Same
  <2>1. tx[v] = "active" /\ delta'[v] = delta[v] /\ tx[w] = "active" /\ delta'[w] = delta[w]
    BY <1>2, DoesSpares
  <2> QED BY <1>2, <2>1 DEF Effects, Apart
<1> SUFFICES ASSUME NEW v \in Units, NEW w \in Units, v # w,
                    tx'[v] = "active", tx'[w] = "active", NEW k \in Keys
             PROVE  delta'[v][k] = Same \/ delta'[w][k] = Same
  BY DEF Apart
<1>3. CASE v = u
  BY <1>1, <1>3
<1>4. CASE w = u
  BY <1>1, <1>4
<1>5. CASE v # u /\ w # u
  BY <1>2, <1>5
<1> QED BY <1>3, <1>4, <1>5

\* So a step keeps the whole account.
LEMMA EffectsKept ==
    ASSUME NotShared, TypeOK, Core, Effects, Next
    PROVE  Effects'
<1>1. PICK u \in Units : Work(u)
  BY DEF Next
<1>2. Does(u)
  BY <1>1, WorkDoes
<1>3. Proper(u)'
  BY <1>2, SelfProper
<1>4. \A v \in Units \ {u} : Proper(v)'
  BY <1>2, OthersProper
<1>5. Apart'
  BY <1>2, ApartKept
<1> QED BY <1>3, <1>4, <1>5 DEF Effects

-----------------------------------------------------------------------------
(* A step is one of the collection, or none *)

Applied == {u \in Units : tx[u] = "committed"}
Answered == [u \in Units |-> IF pc[u] = "answered" THEN "ok"
                             ELSE IF pc[u] = "refused" THEN "refused" ELSE "none"]

\* A commit applies its request as a whole.
LEMMA CommitApplies ==
    ASSUME TypeOK, Core, Effects, NEW u \in Units, UNCHANGED setting, Decides(u),
           Outcome(u) = "committed"
    PROVE  AsCollection!Apply(u)
<1>1. Proper(u) /\ ~raised[u] /\ pc[u] = "ending" /\ tx[u] = "active"
  BY DEF Effects, Decides, Outcome
<1>2. at[u] = Len(Program(u)) /\ delta[u] = Changed(u, Len(Program(u)))
  BY <1>1 DEF Proper
<1>3. handler[u].verb \in DOMAIN Statements
  BY Asked
<1>4. at[u] > 0
  BY <1>2, <1>3, Finals DEF Program
<1>5. /\ handler[u].verb = "create" => \A k \in handler[u].keys : rows[k] = Absent
      /\ handler[u].verb = "partial_update" => \A k \in handler[u].keys : rows[k] # Absent
  BY <1>1, <1>4 DEF Proper
<1>6. rows' = AsCollection!Effect(u)
  <2>1. rows' = [k \in Keys |-> IF delta[u][k] = Same THEN rows[k] ELSE delta[u][k]]
    BY DEF Decides
  <2> QED BY <1>2, <2>1, WholeEffect
<1>7. Answered[u] = "none" /\ Answered' = Answered
  <2>1. pc'[u] = "closing" /\ \A v \in Units \ {u} : pc'[v] = pc[v]
    BY DEF Decides, TypeOK
  <2> QED BY <1>1, <2>1 DEF Answered
<1>8. u \notin Applied /\ Applied' = Applied \cup {u}
  <2>1. tx'[u] = "committed" /\ \A v \in Units \ {u} : tx'[v] = tx[v]
    BY DEF Decides, TypeOK
  <2> QED BY <1>1, <2>1 DEF Applied
<1> QED BY <1>5, <1>6, <1>7, <1>8 DEF AsCollection!Apply, Applied, Answered, setting

\* A return answers the request with what became of it.
LEMMA ReturnAnswers ==
    ASSUME TypeOK, Core, Effects, NEW u \in Units, UNCHANGED setting, Returns(u)
    PROVE  AsCollection!Answer(u)
<1>1. tx[u] = Outcome(u) /\ pc[u] = "closing" /\ raised[u] \in BOOLEAN
  BY DEF Effects, Proper, Returns, TypeOK
<1>2. u \in Applied <=> ~raised[u]
  BY <1>1 DEF Applied, Outcome
<1>3. Applied' = Applied /\ rows' = rows /\ handler' = handler
  BY DEF Applied, Returns, setting
<1>4. Answered[u] = "none"
  BY <1>1 DEF Answered
<1>5. Answered' = [Answered EXCEPT ![u] = IF u \in Applied THEN "ok" ELSE "refused"]
  <2>1. /\ pc'[u] = IF raised[u] THEN "refused" ELSE "answered"
        /\ \A v \in Units \ {u} : pc'[v] = pc[v]
    BY DEF Returns, TypeOK
  <2> QED BY <1>2, <2>1 DEF Answered
<1> QED BY <1>3, <1>4, <1>5 DEF AsCollection!Answer, Applied, Answered

\* Nothing else is seen of a unit.
LEMMA RestStutters ==
    ASSUME TypeOK, Core, NEW u \in Units, UNCHANGED setting,
           \/ Enters(u) \/ Begins(u) \/ States(u) \/ Leaves(u) \/ Breaks(u)
           \/ Decides(u) /\ Outcome(u) # "committed"
    PROVE  UNCHANGED AsCollection!vars
<1>1. rows' = rows /\ handler' = handler
  BY DEF Enters, Begins, States, Leaves, Breaks, Decides, setting
<1>2. /\ pc[u] \notin {"answered", "refused"} /\ pc'[u] \notin {"answered", "refused"}
      /\ \A v \in Units \ {u} : pc'[v] = pc[v]
  BY DEF Enters, Begins, States, Leaves, Breaks, Decides, TypeOK, Inside
<1>3. tx[u] = "committed" <=> tx'[u] = "committed"
  BY DEF Enters, Begins, States, Leaves, Breaks, Decides, TypeOK, Core, Stages, Stage
<1>4. \A v \in Units \ {u} : tx'[v] = tx[v]
  BY DEF Enters, Begins, States, Leaves, Breaks, Decides, TypeOK
<1>5. Applied' = Applied
  BY <1>3, <1>4 DEF Applied
<1>6. Answered' = Answered
  BY <1>2 DEF Answered
<1> QED BY <1>1, <1>5, <1>6 DEF AsCollection!vars, Applied, Answered

\* Every step is one of the collection, or changes nothing of it.
LEMMA StepSimulates ==
    ASSUME NotShared, TypeOK, Core, Effects, Next
    PROVE  AsCollection!Next \/ UNCHANGED AsCollection!vars
<1>1. PICK u \in Units : Work(u)
  BY DEF Next
<1>2. Does(u)
  BY <1>1, WorkDoes
<1>3. AsCollection!Apply(u) \/ AsCollection!Answer(u) \/ UNCHANGED AsCollection!vars
  BY <1>2, CommitApplies, ReturnAnswers, RestStutters DEF Does
<1> QED BY <1>3 DEF AsCollection!Next

-----------------------------------------------------------------------------
(* The theorem *)

\* The account of the effects is inductive.
LEMMA EffectsHold == Spec => []EffectsInv
<1>1. Init => EffectsInv
  <2> SUFFICES ASSUME Init PROVE Effects
    BY DEF EffectsInv
  <2>1. ASSUME NEW u \in Units PROVE Proper(u)
    <3>1. at[u] = 0 /\ pc[u] = "locking" /\ delta[u] = [k \in Keys |-> Same]
      BY DEF Init
    <3>2. delta[u] = Changed(u, 0)
      BY <3>1 DEF Changed, Left, Elsewhere
    <3>3. Len(Program(u)) \in 0..3
      <4>1. handler[u] \in Handlers
        BY DEF Init
      <4>2. handler[u].verb \in DOMAIN Statements
        BY <4>1, VerbsAssumption DEF Handlers
      <4> QED BY <4>2, Programs DEF Program
    <3> QED BY <3>1, <3>2, <3>3 DEF Proper
  <2>2. Apart
    BY DEF Init, Apart
  <2> QED BY <2>1, <2>2 DEF Effects
<1>2. IndInv /\ EffectsInv /\ [Next]_vars => EffectsInv'
  <2> SUFFICES ASSUME IndInv, EffectsInv, [Next]_vars, NotShared' PROVE Effects'
    BY DEF EffectsInv
  <2>1. NotShared
    BY SettingStays DEF NotShared, setting, W
  <2>2. TypeOK /\ Core /\ Effects
    BY <2>1 DEF IndInv, EffectsInv
  <2>3. CASE Next
    BY <2>1, <2>2, <2>3, EffectsKept
  <2>4. CASE UNCHANGED vars
    <3>1. UNCHANGED <<setting, pc, at, raised, tx, delta, rows>>
      BY <2>4 DEF vars, progress, database
    <3>2. ASSUME NEW u \in Units PROVE Proper(u)'
      <4>1. handler' = handler /\ Program(u)' = Program(u) /\ Outcome(u)' = Outcome(u)
            /\ Changed(u, at[u])' = Changed(u, at[u])
        BY <3>1, Settled DEF Outcome
      <4>2. Proper(u)
        BY <2>2 DEF Effects
      <4> QED BY <3>1, <4>1, <4>2 DEF Proper
    <3>3. Apart'
      BY <2>2, <3>1 DEF Effects, Apart
    <3> QED BY <3>2, <3>3 DEF Effects
  <2> QED BY <2>3, <2>4
<1> QED BY <1>1, <1>2, Inductive, PTL DEF Spec

\* The units of work implement the atomic requests of the collection, for any number of
\* requests, workers, keys and methods, in either mode of the module and whatever the
\* database does at its awaits: a request takes effect as a whole at its commit or not
\* at all, and it is answered accordingly (BaseWorker.__aexit__, ResourceMethods).
THEOREM Atomic == NotShared /\ Spec => ImplementsCollection
<1>1. NotShared /\ [Next]_vars => NotShared'
  BY SettingStays DEF NotShared, setting, W
<1>2. Init => AsCollection!Init
  BY DEF Init, AsCollection!Init
<1>3. ASSUME NotShared, IndInv, EffectsInv, [Next]_vars
      PROVE  [AsCollection!Next]_(AsCollection!vars)
  <2>1. CASE Next
    BY <1>3, <2>1, StepSimulates DEF IndInv, EffectsInv
  <2>2. CASE UNCHANGED vars
    BY <2>2 DEF vars, setting, progress, database, AsCollection!vars
  <2> QED BY <1>3, <2>1, <2>2
<1> QED BY <1>1, <1>2, <1>3, Inductive, EffectsHold, PTL DEF Spec, ImplementsCollection, AsCollection!Spec
-----------------------------------------------------------------------------
(* What the caller of a remote repository is told *)

\* A table has a cell under each key.
Rows(t) == t = [k \in Ids |-> t[k]]

\* What holds of every answer to a call: a failure left the table as it was.
Honest(q, old, a) ==
    /\ Rows(a.rows) /\ a.status \in Nat
    /\ a.status >= 400 => a.rows = old
    /\ a.status = 404 => q.verb \in {"retrieve", "update", "partial_update", "delete"}
                           /\ old[q.id] = Remote!Gone
    /\ a.status < 400 => Remote!Did(q, old, a.rows, a.body)

\* The answers on their way are of the tables they were made of.
Promised ==
    \A c \in Clients :
        /\ Remote!Asks(call[c])
        /\ stage[c] = "waiting" =>
             Honest(call[c], before[c],
                    [status |-> reply[c].status, body |-> reply[c].body, rows |-> after[c]])

RemoteTyped ==
    /\ Rows(table)
    /\ stage \in [Clients -> {"sending", "waiting", "done"}]
    /\ reply = [c \in Clients |-> reply[c]]
    /\ before = [c \in Clients |-> before[c]] /\ after = [c \in Clients |-> after[c]]
    /\ outcome = [c \in Clients |-> outcome[c]]

RemoteInv == RemoteTyped /\ Promised /\ Remote!AnswerTells

\* What is assumed of the tables and their cells.
LEMMA CellsHold ==
    /\ Cells \subseteq Int /\ Remote!Gone \notin Cells /\ Remote!Gone \in Int
    /\ \A t \in Tables : t \in [Ids -> Cells \cup {Remote!Gone}]
  BY CallsAssumption DEF Remote!CallsMakeSense, Remote!Gone

\* An insert that is accepted adds its elements under free keys.
LEMMA InsertAdds ==
    ASSUME NEW old, NEW elements, Remote!Insert(old, elements) # Remote!Refused
    PROVE  /\ Head(Remote!Insert(old, elements))
                = [k \in Ids |-> IF k \in DOMAIN elements THEN elements[k] ELSE old[k]]
           /\ DOMAIN elements \cap Remote!Present(old) = {}
  BY DEF Remote!Insert, Remote!Refused

\* The element given is stored under its key, or under the one the database gives.
LEMMA CreateHonest ==
    ASSUME NEW q, q.verb = "create", NEW id \in Ids, q.id # Remote!NoId => id = q.id, NEW old, Rows(old)
    PROVE  Honest(q, old, Remote!Create(old, id, q.cell))
<1> DEFINE new == Remote!Insert(old, Remote!Element(id, q.cell))
<1>1. CASE new = Remote!Refused
  <2>1. Remote!Create(old, id, q.cell) = [status |-> 400, body |-> Remote!NoBody, rows |-> old]
    BY <1>1 DEF Remote!Create, Remote!Answered
  <2>2. QED BY <2>1 DEF Honest
<1>2. CASE new # Remote!Refused
  <2>1. Remote!Create(old, id, q.cell) = [status |-> 201, body |-> <<id>>, rows |-> Head(new)]
    BY <1>2 DEF Remote!Create, Remote!Answered
  <2>2. /\ Head(new) = [k \in Ids |-> IF k \in {id} THEN q.cell ELSE old[k]]
        /\ {id} \cap Remote!Present(old) = {}
    BY <1>2, InsertAdds DEF Remote!Element
  <2>3. Head(new) = [old EXCEPT ![id] = q.cell] /\ old[id] = Remote!Gone
    BY <2>2 DEF Rows, Remote!Present
  <2> HIDE DEF new
  <2>4. Remote!Did(q, old, Head(new), <<id>>)
    BY <2>3 DEF Remote!Did
  <2>5. Rows(Head(new))
    BY <2>2 DEF Rows
  <2>6. QED BY <2>1, <2>4, <2>5 DEF Honest
<1>3. QED BY <1>1, <1>2

\* An element is replaced as a whole under its key, or was not there, or is refused.
LEMMA UpdateHonest ==
    ASSUME NEW q, q.verb \in {"update", "partial_update"}, q.id \in Ids, NEW old, Rows(old)
    PROVE  /\ Honest(q, old, Remote!Update(old, q.id, q.cell))
           /\ Honest(q, old, Remote!PartialUpdate(old, q.id, q.cell))
<1> DEFINE cleared == Remote!Without(old, {q.id})
           new == Remote!Insert(cleared, Remote!Element(q.id, q.cell))
           a == IF old[q.id] = Remote!Gone THEN [status |-> 404, body |-> Remote!NoBody, rows |-> old]
                ELSE IF new = Remote!Refused THEN [status |-> 400, body |-> Remote!NoBody, rows |-> old]
                ELSE [status |-> 200, body |-> <<q.id>>, rows |-> Head(new)]
<1>1. Remote!Update(old, q.id, q.cell) = a /\ Remote!PartialUpdate(old, q.id, q.cell) = a
  BY DEF Remote!Update, Remote!PartialUpdate, Remote!Answered
<1>2. ASSUME old[q.id] = Remote!Gone \/ new = Remote!Refused
      PROVE  Honest(q, old, a)
  <2>1. \/ a = [status |-> 404, body |-> Remote!NoBody, rows |-> old] /\ old[q.id] = Remote!Gone
        \/ a = [status |-> 400, body |-> Remote!NoBody, rows |-> old]
    BY <1>2
  <2> HIDE DEF a
  <2>2. QED BY <2>1 DEF Honest
<1>3. ASSUME old[q.id] # Remote!Gone, new # Remote!Refused
      PROVE  Honest(q, old, a)
  <2>1. a = [status |-> 200, body |-> <<q.id>>, rows |-> Head(new)]
    BY <1>3
  <2>2. Head(new) = [k \in Ids |-> IF k \in {q.id} THEN q.cell ELSE cleared[k]]
    BY <1>3, InsertAdds DEF Remote!Element
  <2>3. cleared = [k \in Ids |-> IF k \in {q.id} THEN Remote!Gone ELSE old[k]]
    BY DEF Remote!Without
  <2> HIDE DEF new, cleared, a
  <2>4. Head(new)[q.id] = q.cell /\ \A k \in Ids : k # q.id => Head(new)[k] = old[k]
    BY <2>2, <2>3
  <2>5. Remote!Without(old, {q.id}) = Remote!Without(Head(new), {q.id})
    BY <2>4 DEF Remote!Without
  <2>6. Remote!Did(q, old, Head(new), <<q.id>>)
    BY <1>3, <2>4, <2>5 DEF Remote!Did
  <2>7. Rows(Head(new))
    BY <2>2 DEF Rows
  <2>8. QED BY <2>1, <2>6, <2>7 DEF Honest
<1>4. QED BY <1>1, <1>2, <1>3

\* An element is deleted alone, or was not there.
LEMMA DeleteHonest ==
    ASSUME NEW q, q.verb = "delete", q.id \in Ids, NEW old, Rows(old)
    PROVE  Honest(q, old, Remote!Delete(old, q.id))
<1> DEFINE new == Remote!Without(old, {q.id})
<1>1. CASE old[q.id] = Remote!Gone
  <2>1. Remote!Delete(old, q.id) = [status |-> 404, body |-> Remote!NoBody, rows |-> old]
    BY <1>1 DEF Remote!Delete, Remote!Answered
  <2>2. QED BY <1>1, <2>1 DEF Honest
<1>2. CASE old[q.id] # Remote!Gone
  <2>1. Remote!Delete(old, q.id) = [status |-> 204, body |-> Remote!NoBody, rows |-> new]
    BY <1>2 DEF Remote!Delete, Remote!Answered
  <2>2. /\ Rows(new) /\ new[q.id] = Remote!Gone
        /\ Remote!Without(old, {q.id}) = Remote!Without(new, {q.id})
    BY DEF Rows, Remote!Without
  <2> HIDE DEF new
  <2>3. Remote!Did(q, old, new, Remote!NoBody)
    BY <1>2, <2>2 DEF Remote!Did
  <2>4. QED BY <2>1, <2>2, <2>3 DEF Honest
<1>3. QED BY <1>1, <1>2

\* A whole collection, or the keys given, or everything: all of it or nothing.
LEMMA CollectionHonest ==
    ASSUME NEW q, Remote!Asks(q), NEW old, Rows(old)
    PROVE  /\ q.verb = "replace" => Honest(q, old, Remote!ReplaceCollection(old, q.elements))
           /\ q.verb = "partial_replace" => Honest(q, old, Remote!PartialReplace(old, q.elements))
           /\ q.verb = "drop" => Honest(q, old, Remote!Drop(old))
<1>1. ASSUME q.verb \in {"replace", "partial_replace"}, NEW keys, NEW body,
             keys = Ids \/ keys = DOMAIN q.elements,
             q.verb = "replace" => keys = Ids, q.verb = "partial_replace" => keys = DOMAIN q.elements,
             Remote!Insert(Remote!Without(old, keys), q.elements) # Remote!Refused
      PROVE  Honest(q, old, [status |-> 200, body |-> body,
                             rows |-> Head(Remote!Insert(Remote!Without(old, keys), q.elements))])
  <2> DEFINE cleared == Remote!Without(old, keys)
             new == Head(Remote!Insert(cleared, q.elements))
             given == DOMAIN q.elements
  <2>1. new = [k \in Ids |-> IF k \in given THEN q.elements[k] ELSE cleared[k]]
    BY <1>1, InsertAdds
  <2>2. cleared = [k \in Ids |-> IF k \in keys THEN Remote!Gone ELSE old[k]]
    BY DEF Remote!Without
  <2>3. given \subseteq Ids /\ \A k \in given : q.elements[k] # Remote!Gone
    BY <1>1, CellsHold DEF Remote!Asks
  <2> HIDE DEF new, cleared
  <2>4. \A j \in given : new[j] = q.elements[j]
    BY <2>1, <2>3
  <2>5. q.verb = "replace" => Remote!Present(new) = given
    BY <1>1, <2>1, <2>2, <2>3 DEF Remote!Present
  <2>6. q.verb = "partial_replace" => Remote!Without(new, given) = Remote!Without(old, given)
    BY <1>1, <2>1, <2>2, <2>3 DEF Remote!Without
  <2>7. Remote!Did(q, old, new, body)
    BY <1>1, <2>4, <2>5, <2>6 DEF Remote!Did
  <2>8. Rows(new)
    BY <2>1 DEF Rows
  <2>9. QED BY <2>7, <2>8 DEF Honest, new, cleared
<1>2. \A verb \in {"replace", "partial_replace", "drop"} :
         q.verb = verb => Honest(q, old, [status |-> 400, body |-> Remote!NoBody, rows |-> old])
  BY DEF Honest
<1>3. ASSUME q.verb = "replace"
      PROVE  Honest(q, old, Remote!ReplaceCollection(old, q.elements))
  BY <1>1, <1>2, <1>3 DEF Remote!ReplaceCollection, Remote!Answered
<1>4. ASSUME q.verb = "partial_replace"
      PROVE  Honest(q, old, Remote!PartialReplace(old, q.elements))
  BY <1>1, <1>2, <1>4 DEF Remote!PartialReplace, Remote!Answered
<1>5. ASSUME q.verb = "drop"
      PROVE  Honest(q, old, Remote!Drop(old))
  <2> DEFINE new == Remote!Without(old, Ids)
             body == Remote!Drop(old).body
  <2>1. Remote!Drop(old) = [status |-> 204, body |-> body, rows |-> new]
    BY DEF Remote!Drop, Remote!Answered
  <2>2. Rows(new) /\ Remote!Present(new) = {}
    BY DEF Rows, Remote!Without, Remote!Present
  <2> HIDE DEF new
  <2>3. Remote!Did(q, old, new, body)
    BY <1>5, <2>2 DEF Remote!Did, Remote!Drop, Remote!Answered
  <2>4. QED BY <2>1, <2>2, <2>3 DEF Honest
<1>6. QED BY <1>3, <1>4, <1>5

\* The verbs that change something.
Writers == {"create", "update", "partial_update", "delete", "replace", "partial_replace", "drop"}

\* Any answer that leaves the table alone to a call that changes nothing, or that failed.
LEMMA ReadHonest ==
    ASSUME NEW q, NEW old, Rows(old), NEW status \in Nat, NEW body,
           status = 404 => q.verb = "retrieve" /\ old[q.id] = Remote!Gone,
           q.verb \in Writers => status >= 400
    PROVE  Honest(q, old, Remote!Answered(status, body, old))
<1>1. Remote!Answered(status, body, old) = [status |-> status, body |-> body, rows |-> old]
  BY DEF Remote!Answered
<1>2. status < 400 => Remote!Did(q, old, old, body)
  BY DEF Remote!Did, Writers
<1>3. QED BY <1>1, <1>2 DEF Honest

\* The server answers a call.
LEMMA ServeTells ==
    ASSUME RemoteInv, NEW c \in Clients, NEW a, a = Remote!Answered(a.status, a.body, a.rows),
           Honest(call[c], table, a), Remote!Serve(c, a)
    PROVE  RemoteInv'
<1>1. /\ stage[c] = "sending" /\ stage' = [stage EXCEPT ![c] = "waiting"]
      /\ reply' = [reply EXCEPT ![c] = [status |-> a.status, body |-> a.body]]
      /\ table' = a.rows
      /\ before' = [before EXCEPT ![c] = table] /\ after' = [after EXCEPT ![c] = a.rows]
      /\ UNCHANGED <<call, outcome>>
  BY DEF Remote!Serve, Remote!config
<1>2. RemoteTyped'
  BY <1>1 DEF RemoteInv, RemoteTyped, Honest
<1>3. /\ stage'[c] = "waiting" /\ reply'[c] = [status |-> a.status, body |-> a.body]
      /\ before'[c] = table /\ after'[c] = a.rows
  BY <1>1 DEF RemoteInv, RemoteTyped
<1>4. \A d \in Clients : d # c =>
         /\ stage'[d] = stage[d] /\ reply'[d] = reply[d] /\ before'[d] = before[d]
         /\ after'[d] = after[d]
  BY <1>1 DEF RemoteInv, RemoteTyped
<1>5. Promised'
  <2>1. ASSUME NEW d \in Clients, d # c, stage'[d] = "waiting"
        PROVE  Honest(call'[d], before'[d],
                      [status |-> reply'[d].status, body |-> reply'[d].body, rows |-> after'[d]])
    BY <1>1, <1>4, <2>1 DEF RemoteInv, Promised
  <2>2. [status |-> reply'[c].status, body |-> reply'[c].body, rows |-> after'[c]] = a
    BY <1>3 DEF Remote!Answered
  <2>3. \A d \in Clients : Remote!Asks(call'[d])
    BY <1>1 DEF RemoteInv, Promised
  <2>4. QED BY <1>1, <1>3, <2>1, <2>2, <2>3 DEF Promised
<1>6. Remote!AnswerTells'
  <2>1. ASSUME NEW d \in Clients, stage'[d] = "done"
        PROVE  /\ stage[d] = "done" /\ outcome'[d] = outcome[d] /\ call'[d] = call[d]
               /\ reply'[d] = reply[d] /\ before'[d] = before[d] /\ after'[d] = after[d]
    BY <1>1, <1>3, <1>4, <2>1
  <2>2. QED BY <2>1 DEF RemoteInv, Remote!AnswerTells, Remote!Done
<1>7. QED BY <1>2, <1>5, <1>6 DEF RemoteInv

\* The client takes an answer, or gives up.
LEMMA FinishTells ==
    ASSUME RemoteInv, NEW c \in Clients, stage[c] = "waiting", NEW result, Remote!Finish(c, result),
           UNCHANGED <<call, table, reply, before, after>>,
           result \in {"NotFoundError", "IntegrityError", "HTTPStatusError"} => reply[c].status >= 400,
           result = "NotFoundError" => reply[c].status = 404,
           result = "ok" => reply[c].status < 400
    PROVE  RemoteInv'
<1>1. stage' = [stage EXCEPT ![c] = "done"] /\ outcome' = [outcome EXCEPT ![c] = result]
  BY DEF Remote!Finish
<1>2. RemoteTyped'
  BY <1>1 DEF RemoteInv, RemoteTyped
<1>3. outcome'[c] = result /\ stage'[c] = "done"
  BY <1>1 DEF RemoteInv, RemoteTyped
<1>4. \A d \in Clients : d # c => outcome'[d] = outcome[d] /\ stage'[d] = stage[d]
  BY <1>1 DEF RemoteInv, RemoteTyped
<1>5. Promised'
  BY <1>3, <1>4 DEF RemoteInv, Promised
<1>6. Honest(call[c], before[c],
             [status |-> reply[c].status, body |-> reply[c].body, rows |-> after[c]])
  BY DEF RemoteInv, Promised
<1>7. /\ reply[c].status >= 400 => after[c] = before[c]
      /\ reply[c].status = 404 => before[c][call[c].id] = Remote!Gone
      /\ reply[c].status < 400 => Remote!Done(c)
  BY <1>6 DEF Honest, Remote!Done
<1>8. Remote!AnswerTells'
  <2>1. \A d \in Clients : Remote!Done(d)' = Remote!Done(d)
    BY DEF Remote!Done
  <2>2. QED BY <1>3, <1>4, <1>7, <2>1 DEF RemoteInv, Remote!AnswerTells
<1>9. QED BY <1>2, <1>5, <1>8 DEF RemoteInv

\* Every answer the server makes is honest.
LEMMA ServedTells ==
    ASSUME RemoteInv, NEW c \in Clients, Remote!Served(c)
    PROVE  RemoteInv'
<1>1. Rows(table) /\ Remote!Asks(call[c])
  BY DEF RemoteInv, RemoteTyped, Promised
<1>2. \A a : Honest(call[c], table, a) /\ Remote!Serve(c, a)
               /\ a = Remote!Answered(a.status, a.body, a.rows) => RemoteInv'
  BY ServeTells
<1>3. CASE Remote!ServeCreate(c)
  <2>1. call[c].verb = "create"
    BY <1>3 DEF Remote!ServeCreate, Remote!Admitted
  <2>2. PICK id \in Ids : /\ call[c].id # Remote!NoId => id = call[c].id
                          /\ Remote!Serve(c, Remote!Create(table, id, call[c].cell))
    BY <1>1, <1>3, <2>1 DEF Remote!ServeCreate, Remote!Asks
  <2>3. Honest(call[c], table, Remote!Create(table, id, call[c].cell))
    BY <1>1, <2>1, <2>2, CreateHonest
  <2>4. \E s, b, t : Remote!Create(table, id, call[c].cell) = Remote!Answered(s, b, t)
    BY DEF Remote!Create
  <2>5. QED BY <1>2, <2>2, <2>3, <2>4 DEF Remote!Answered
<1>4. CASE Remote!ServeUpdate(c) \/ Remote!ServePartialUpdate(c)
  <2>1. call[c].verb \in {"update", "partial_update"}
    BY <1>4 DEF Remote!ServeUpdate, Remote!ServePartialUpdate, Remote!Admitted
  <2>2. PICK a \in {Remote!Update(table, call[c].id, call[c].cell),
                    Remote!PartialUpdate(table, call[c].id, call[c].cell)} : Remote!Serve(c, a)
    BY <1>4 DEF Remote!ServeUpdate, Remote!ServePartialUpdate
  <2>3. Honest(call[c], table, a)
    BY <1>1, <2>1, <2>2, UpdateHonest DEF Remote!Asks
  <2>4. \E s, b, t : a = Remote!Answered(s, b, t)
    BY <2>2 DEF Remote!Update, Remote!PartialUpdate
  <2>5. QED BY <1>2, <2>2, <2>3, <2>4 DEF Remote!Answered
<1>5. CASE Remote!ServeDelete(c)
  <2>1. call[c].verb = "delete" /\ Remote!Serve(c, Remote!Delete(table, call[c].id))
    BY <1>5 DEF Remote!ServeDelete, Remote!Admitted
  <2>2. Honest(call[c], table, Remote!Delete(table, call[c].id))
    BY <1>1, <2>1, DeleteHonest DEF Remote!Asks
  <2>3. \E s, b, t : Remote!Delete(table, call[c].id) = Remote!Answered(s, b, t)
    BY DEF Remote!Delete
  <2>4. QED BY <1>2, <2>1, <2>2, <2>3 DEF Remote!Answered
<1>6. CASE Remote!ServeReplace(c) \/ Remote!ServePartialReplace(c) \/ Remote!ServeDrop(c)
  <2>1. PICK a : /\ Remote!Serve(c, a)
                 /\ \/ call[c].verb = "replace" /\ a = Remote!ReplaceCollection(table, call[c].elements)
                    \/ call[c].verb = "partial_replace" /\ a = Remote!PartialReplace(table, call[c].elements)
                    \/ call[c].verb = "drop" /\ a = Remote!Drop(table)
    BY <1>6 DEF Remote!ServeReplace, Remote!ServePartialReplace, Remote!ServeDrop, Remote!Admitted
  <2>2. Honest(call[c], table, a)
    BY <1>1, <2>1, CollectionHonest
  <2>3. \E s, b, t : a = Remote!Answered(s, b, t)
    BY <2>1 DEF Remote!ReplaceCollection, Remote!PartialReplace, Remote!Drop
  <2>4. QED BY <1>2, <2>1, <2>2, <2>3 DEF Remote!Answered
<1>7. CASE Remote!ServeRetrieve(c) \/ Remote!ServePage(c) \/ Remote!ServeSearch(c) \/ Remote!Reject(c)
  <2>1. PICK status, body :
          /\ status \in Nat
          /\ Remote!Serve(c, Remote!Answered(status, body, table))
          /\ status = 404 => call[c].verb = "retrieve" /\ table[call[c].id] = Remote!Gone
          /\ call[c].verb \in Writers => status >= 400
    <3>1. CASE Remote!ServeRetrieve(c)
      BY <3>1 DEF Remote!ServeRetrieve, Remote!Admitted, Remote!Retrieve, Writers
    <3>2. CASE Remote!ServePage(c)
      BY <3>2 DEF Remote!ServePage, Remote!Admitted, Remote!List, Writers
    <3>3. CASE Remote!ServeSearch(c)
      BY <3>3 DEF Remote!ServeSearch, Remote!List, Writers
    <3>4. CASE Remote!Reject(c)
      <4>1. PICK status \in {405, 400, 500} : Remote!Serve(c, Remote!Answered(status, Remote!NoBody, table))
        BY <3>4 DEF Remote!Reject
      <4>2. status \in Nat /\ status # 404 /\ status >= 400
        BY <4>1
      <4>3. QED BY <4>1, <4>2
    <3>5. QED BY <1>7, <3>1, <3>2, <3>3, <3>4
  <2>2. Honest(call[c], table, Remote!Answered(status, body, table))
    BY <1>1, <2>1, ReadHonest
  <2>3. QED BY <1>2, <2>1, <2>2 DEF Remote!Answered
<1>8. QED BY <1>3, <1>4, <1>5, <1>6, <1>7 DEF Remote!Served

\* Every step of the remote side.
LEMMA RemoteKeeps == RemoteInv /\ [Remote!Next]_(Remote!vars) => RemoteInv'
<1> SUFFICES ASSUME RemoteInv, [Remote!Next]_(Remote!vars) PROVE RemoteInv'
  OBVIOUS
<1>1. ASSUME NEW c \in Clients, Remote!Served(c)
      PROVE  RemoteInv'
  BY <1>1, ServedTells
<1>2. ASSUME NEW c \in Clients, Remote!Receive(c)
      PROVE  RemoteInv'
  <2> DEFINE result == IF call[c].verb = "search"
                       THEN IF reply[c].status < 400 THEN "ok" ELSE "HTTPStatusError"
                       ELSE Remote!Raised(call[c].verb, reply[c].status)
  <2>1. /\ stage[c] = "waiting" /\ Remote!Finish(c, result)
        /\ UNCHANGED <<call, table, reply, before, after>>
    BY <1>2 DEF Remote!Receive, Remote!config
  <2>2. reply[c].status \in Nat
    BY <2>1 DEF RemoteInv, Promised, Honest
  <2>3. /\ result \in {"NotFoundError", "IntegrityError", "HTTPStatusError"} => reply[c].status >= 400
        /\ result = "NotFoundError" => reply[c].status = 404
        /\ result = "ok" => reply[c].status < 400
    BY <2>2 DEF Remote!Raised
  <2> HIDE DEF result
  <2>4. QED BY <2>1, <2>3, FinishTells
<1>3. ASSUME NEW c \in Clients, Remote!ReceivePage(c)
      PROVE  RemoteInv'
  <2>1. stage[c] = "waiting" /\ UNCHANGED <<call, table, reply, before, after>>
    BY <1>3 DEF Remote!ReceivePage, Remote!config
  <2>2. reply[c].status \in Nat
    BY <2>1 DEF RemoteInv, Promised, Honest
  <2>3. CASE Remote!Finish(c, "KeyError")
    BY <2>1, <2>3, FinishTells
  <2>4. CASE reply[c].status < 400 /\ Remote!Finish(c, "ok")
    BY <2>1, <2>4, FinishTells
  <2>5. CASE stage' = [stage EXCEPT ![c] = "sending"] /\ UNCHANGED outcome
    <3>1. RemoteTyped'
      BY <2>1, <2>5 DEF RemoteInv, RemoteTyped
    <3>2. \A d \in Clients : stage'[d] \in {"waiting", "done"} => stage'[d] = stage[d]
      BY <2>5 DEF RemoteInv, RemoteTyped
    <3>3. Promised'
      BY <2>1, <3>2 DEF RemoteInv, Promised
    <3>4. \A d \in Clients : Remote!Done(d)' = Remote!Done(d)
      BY <2>1 DEF Remote!Done
    <3>5. Remote!AnswerTells'
      BY <2>1, <2>5, <3>2, <3>4 DEF RemoteInv, Remote!AnswerTells
    <3>6. QED BY <3>1, <3>3, <3>5 DEF RemoteInv
  <2>6. \/ Remote!Finish(c, "KeyError")
        \/ ~(reply[c].status >= 400) /\ Remote!Finish(c, "ok")
        \/ stage' = [stage EXCEPT ![c] = "sending"] /\ UNCHANGED outcome
    BY <1>3 DEF Remote!ReceivePage
  <2>7. ~(reply[c].status >= 400) => reply[c].status < 400
    BY <2>2
  <2>8. QED BY <2>3, <2>4, <2>5, <2>6, <2>7
<1>4. ASSUME NEW c \in Clients, Remote!Lost(c)
      PROVE  RemoteInv'
  <2>1. /\ stage[c] = "waiting" /\ Remote!Finish(c, "TransportError")
        /\ UNCHANGED <<call, table, reply, before, after>>
    BY <1>4 DEF Remote!Lost, Remote!config
  <2>2. QED BY <2>1, FinishTells
<1>5. CASE UNCHANGED Remote!vars
  <2>1. UNCHANGED <<table, call, stage, reply, outcome, before, after>>
    BY <1>5 DEF Remote!vars
  <2>2. \A d \in Clients : Remote!Done(d)' = Remote!Done(d)
    BY <2>1 DEF Remote!Done
  <2>3. QED BY <2>1, <2>2 DEF RemoteInv, RemoteTyped, Promised, Remote!AnswerTells
<1>6. QED BY <1>1, <1>2, <1>3, <1>4, <1>5 DEF Remote!Next

\* Nobody has been told anything yet.
LEMMA RemoteBegins == Remote!Init => RemoteInv
<1> SUFFICES ASSUME Remote!Init PROVE RemoteInv
  OBVIOUS
<1>1. /\ table \in Tables /\ call \in Calls
      /\ stage = [c \in Clients |-> IF call[c].verb = "none" THEN "done" ELSE "sending"]
      /\ reply = [c \in Clients |-> [status |-> 0, body |-> Remote!NoBody]]
      /\ outcome = [c \in Clients |-> "none"]
      /\ before = [c \in Clients |-> table] /\ after = [c \in Clients |-> table]
  BY DEF Remote!Init
<1>2. RemoteTyped
  <2>1. Rows(table)
    BY <1>1, CellsHold DEF Rows
  <2>2. QED BY <1>1, <2>1 DEF RemoteTyped
<1>3. Promised
  BY <1>1, CallsAssumption DEF Promised, Remote!CallsMakeSense
<1>4. Remote!AnswerTells
  BY <1>1 DEF Remote!AnswerTells
<1>5. QED BY <1>2, <1>3, <1>4 DEF RemoteInv

\* What the caller of a remote repository is told is what happened to the table, for any
\* tables, any number of clients and calls, answers lost on the way and failures of the
\* database: an exception that the repository translates left the table alone, an element
\* is missing only if it was, and no exception means the whole of what was asked
\* (flama.ddd.repositories.http, flama.resources.crud).
THEOREM CallersAreTold == Remote!Spec => []AnswerTells
<1>1. RemoteInv => AnswerTells
  BY DEF RemoteInv, AnswerTells
<1>2. QED BY <1>1, RemoteBegins, RemoteKeeps, PTL DEF Remote!Spec

-----------------------------------------------------------------------------
(* A walk over the pages of a table that others change *)

\* The keys of a table before one.
Below(S, x) == {y \in S : y < x}

\* What a walk has seen: the elements it yielded and those on their way.
Coming(c) == stage[c] = "waiting" /\ reply[c].status < 400
Yielded(c) == IF Coming(c) THEN listed[c] \o reply[c].body ELSE listed[c]

\* Keys come in order, each at a place no smaller than the one it has now.
Advances(s, S) ==
    /\ \A i, j \in DOMAIN s : i < j => s[i] < s[j]
    /\ \A i \in DOMAIN s : Cardinality(Below(S, s[i])) < i

WalkTyped(c) ==
    /\ listed[c] \in Seq(Ids)
    /\ Coming(c) => reply[c].body \in Seq(Ids)
    /\ ~walk[c].begun => stage[c] = "sending" /\ listed[c] = <<>>
    /\ stage[c] # "done" => outcome[c] # "ok"
    /\ walk[c].begun => /\ Remote!Present(table) \subseteq walk[c].ever
                        /\ walk[c].always \subseteq Remote!Present(table)

\* Every element was there at some time, and none is listed twice unless some came.
WalkSound(c) ==
    /\ Remote!Range(Yielded(c)) \subseteq walk[c].ever
    /\ Len(Yielded(c)) <= Cardinality(walk[c].ever)
    /\ walk[c].begun /\ ~walk[c].created => Advances(Yielded(c), Remote!Present(table))

\* An element that has been there all along is listed, or is still ahead, unless some went.
WalkWhole(c) ==
    walk[c].begun /\ ~walk[c].deleted =>
        /\ stage[c] # "done" =>
             \A x \in walk[c].always \ Remote!Range(Yielded(c)) :
                 Cardinality(Below(Remote!Present(table), x)) >= Len(Yielded(c))
        /\ (Coming(c) /\ reply[c].body = <<>>) \/ outcome[c] = "ok" =>
             walk[c].always \subseteq Remote!Range(listed[c])

WalkKept(c) == Remote!Walks(c) => WalkTyped(c) /\ WalkSound(c) /\ WalkWhole(c)

\* The inductive invariant of the walks.
WalksKept ==
    /\ walk \in [Clients -> [begun : BOOLEAN, pages : Nat, always : SUBSET Ids, ever : SUBSET Ids,
                             deleted : BOOLEAN, created : BOOLEAN]]
    /\ listed = [c \in Clients |-> listed[c]]
    /\ \A c \in Clients : WalkKept(c)

\* B has what comes before each element of S, in an order of S.
Orders(S, B) ==
    /\ B \in [S -> SUBSET S]
    /\ \A x \in S : x \notin B[x]
    /\ \A x, y \in S : x # y => x \in B[y] \/ y \in B[x]
    /\ \A x, y \in S : x \in B[y] => B[x] \subseteq B[y]

\* In a finite set ordered by what comes before each element, the number of those
\* before tells every element, and is any number smaller than the size of the set.
LEMMA Ranks ==
    ASSUME NEW S, IsFiniteSet(S), NEW B, Orders(S, B)
    PROVE  /\ \A x \in S : Cardinality(B[x]) \in 0..(Cardinality(S) - 1)
           /\ \A x, y \in S : x \in B[y] <=> Cardinality(B[x]) < Cardinality(B[y])
           /\ \A i \in 1..Cardinality(S) : \E x \in S : Cardinality(B[x]) = i - 1
<1> DEFINE N == Cardinality(S)
           n == [x \in S |-> Cardinality(B[x])]
           rank == [x \in S |-> n[x] + 1]
<1>1. N \in Nat
  BY FS_CardinalityType
<1>2. ASSUME NEW x \in S
      PROVE  /\ IsFiniteSet(B[x]) /\ n[x] \in Nat
             /\ Cardinality(B[x] \cup {x}) = n[x] + 1
             /\ n[x] + 1 <= N
  <2>1. /\ B[x] \in SUBSET S /\ x \notin B[x]
        /\ B[x] \cup {x} \in SUBSET S
    BY DEF Orders
  <2>2. IsFiniteSet(B[x])
    BY <2>1, FS_Subset
  <2>3. Cardinality(B[x] \cup {x}) = Cardinality(B[x]) + 1
    BY <2>1, <2>2, FS_AddElement
  <2>4. Cardinality(B[x] \cup {x}) <= N
    BY <2>1, FS_Subset
  <2>5. Cardinality(B[x]) \in Nat /\ n[x] = Cardinality(B[x])
    BY <2>2, FS_CardinalityType
  <2>6. QED BY <2>2, <2>3, <2>4, <2>5
<1>3. ASSUME NEW x \in S, NEW y \in S, x \in B[y]
      PROVE  n[x] < n[y]
  <2>1. B[x] \cup {x} \in SUBSET B[y]
    BY <1>3 DEF Orders
  <2>2. Cardinality(B[x] \cup {x}) <= Cardinality(B[y])
    BY <1>2, <2>1, FS_Subset
  <2>3. n[x] \in Nat /\ n[y] \in Nat /\ Cardinality(B[x] \cup {x}) = n[x] + 1
    BY <1>2
  <2>4. Cardinality(B[y]) = n[y]
    OBVIOUS
  <2> HIDE DEF n
  <2>5. QED BY <2>2, <2>3, <2>4
<1>4. n \in [S -> 0..(N - 1)]
  <2>1. \A x \in S : n[x] \in Nat /\ n[x] + 1 <= N
    BY <1>2
  <2>2. n = [x \in S |-> n[x]]
    OBVIOUS
  <2> HIDE DEF n
  <2>3. QED BY <1>1, <2>1, <2>2
<1>5. \A x, y \in S : x # y => n[x] < n[y] \/ n[y] < n[x]
  BY <1>3 DEF Orders
<1>6. \A x \in S : n[x] = Cardinality(B[x])
  OBVIOUS
<1>7. \A x, y \in S : x \in B[y] => n[x] < n[y]
  BY <1>3
<1> HIDE DEF n
<1>8. rank \in Injection(S, 1..N)
  <2>1. rank \in [S -> 1..N]
    BY <1>1, <1>4
  <2>2. \A x, y \in S : rank[x] = rank[y] => x = y
    BY <1>1, <1>4, <1>5
  <2>3. QED BY <2>1, <2>2 DEF Injection, IsInjective
<1>9. rank \in Surjection(S, 1..N)
  <2>1. IsFiniteSet(1..N) /\ Cardinality(1..N) = N
    BY <1>1, FS_Interval
  <2> HIDE DEF rank
  <2>2. QED BY <1>8, <2>1, FS_Injection
<1>10. \A i \in 1..N : \E x \in S : rank[x] = i
  BY <1>9 DEF Surjection
<1>11. \A i \in 1..N : \E x \in S : n[x] = i - 1
  <2>1. ASSUME NEW i \in 1..N PROVE \E x \in S : n[x] = i - 1
    <3>1. PICK x \in S : n[x] + 1 = i
      BY <1>10
    <3>2. n[x] = i - 1
      BY <1>1, <1>4, <3>1
    <3>3. QED BY <3>2
  <2>2. QED BY <2>1
<1>12. \A x, y \in S : n[x] < n[y] => x \in B[y]
  <2>1. ASSUME NEW x \in S, NEW y \in S, n[x] < n[y] PROVE x \in B[y]
    <3>1. n[x] \in Int /\ n[y] \in Int
      BY <1>1, <1>4
    <3>2. x # y /\ ~(n[y] < n[x])
      BY <2>1, <3>1
    <3>3. QED BY <1>7, <3>2 DEF Orders
  <2>2. QED BY <2>1
<1>13. QED BY <1>4, <1>6, <1>7, <1>11, <1>12

\* The instance counts as this module does.
LEMMA SameSize ==
    \A S : (Remote!IsFiniteSet(S) <=> IsFiniteSet(S)) /\ Remote!Cardinality(S) = Cardinality(S)
  BY DEF Remote!IsFiniteSet, IsFiniteSet, Remote!Cardinality, Cardinality

\* The keys of a table are numbers.
LEMMA SomeKeys ==
    ASSUME NEW S \in SUBSET Ids
    PROVE  /\ IsFiniteSet(S) /\ Cardinality(S) \in Nat /\ S \subseteq Nat
           /\ \A x : IsFiniteSet(Below(S, x)) /\ Cardinality(Below(S, x)) \in Nat
<1>1. IsFiniteSet(S) /\ S \subseteq Nat
  <2>1. IsFiniteSet(Ids) /\ Ids \subseteq Nat
    BY CallsAssumption, SameSize DEF Remote!CallsMakeSense
  <2>2. QED BY <2>1, FS_Subset
<1>2. \A x : Below(S, x) \in SUBSET S
  BY DEF Below
<1>3. QED BY <1>1, <1>2, FS_Subset, FS_CardinalityType

\* What the list handler pages over: the keys that are there, each after the smaller ones.
Listing(S) ==
    [i \in 1..Cardinality(S) |-> CHOOSE k \in S : Cardinality({l \in S : l < k}) = i - 1]

LEMMA ListingOrders ==
    ASSUME NEW S \in SUBSET Ids
    PROVE  /\ Listing(S) \in [1..Cardinality(S) -> S]
           /\ \A i \in 1..Cardinality(S) : Cardinality(Below(S, Listing(S)[i])) = i - 1
           /\ \A x \in S : \E i \in 1..Cardinality(S) : Listing(S)[i] = x
           /\ \A x, y \in S : Cardinality(Below(S, x)) < Cardinality(Below(S, y)) <=> x < y
<1> DEFINE N == Cardinality(S)
           e == Listing(S)
           n == [x \in S |-> Cardinality(Below(S, x))]
           B == [x \in S |-> Below(S, x)]
<1>1. /\ IsFiniteSet(S) /\ N \in Nat /\ S \subseteq Nat
  BY SomeKeys
<1>2. Orders(S, B)
  <2>1. \A x, y \in S : x # y => x < y \/ y < x
    BY <1>1
  <2>2. \A x, y, z \in S : x < y /\ z < x => z < y
    BY <1>1
  <2>3. \A x \in S : ~(x < x)
    BY <1>1
  <2>4. \A x, y \in S : x \in B[y] <=> x < y
    BY DEF Below
  <2>5. B \in [S -> SUBSET S]
    BY DEF Below
  <2> HIDE DEF B
  <2>6. \A x, y \in S : x \in B[y] => B[x] \subseteq B[y]
    BY <2>2, <2>4, <2>5
  <2>7. QED BY <2>1, <2>3, <2>4, <2>5, <2>6 DEF Orders
<1>3. \A x \in S : B[x] = Below(S, x) /\ Below(S, x) = {l \in S : l < x} /\ n[x] = Cardinality(B[x])
  BY DEF Below
<1>4. \A x, y \in S : x \in B[y] <=> x < y
  BY DEF Below
<1> HIDE DEF B
<1>5. n \in [S -> 0..(N - 1)]
  <2>1. \A x \in S : n[x] \in 0..(N - 1)
    BY <1>1, <1>2, <1>3, Ranks
  <2>2. QED BY <2>1
<1>6. \A x, y \in S : x < y <=> n[x] < n[y]
  <2>1. \A x, y \in S : x \in B[y] <=> Cardinality(B[x]) < Cardinality(B[y])
    BY <1>1, <1>2, Ranks
  <2>2. QED BY <2>1, <1>3, <1>4
<1>7. \A i \in 1..N : \E x \in S : n[x] = i - 1
  <2>1. \A i \in 1..N : \E x \in S : Cardinality(B[x]) = i - 1
    BY <1>1, <1>2, Ranks
  <2>2. QED BY <2>1, <1>3
<1>8. ASSUME NEW i \in 1..N
      PROVE  e[i] \in S /\ Cardinality(Below(S, e[i])) = i - 1
  <2>1. e[i] = CHOOSE k \in S : Cardinality({l \in S : l < k}) = i - 1
    BY DEF Listing
  <2>2. \E k \in S : Cardinality({l \in S : l < k}) = i - 1
    BY <1>3, <1>7
  <2>3. e[i] \in S /\ Cardinality({l \in S : l < e[i]}) = i - 1
    BY <2>1, <2>2
  <2>4. QED BY <2>3, <1>3
<1>9. e \in [1..N -> S]
  <2>1. e = [i \in 1..N |-> CHOOSE k \in S : Cardinality({l \in S : l < k}) = i - 1]
    BY DEF Listing
  <2>2. QED BY <1>8, <2>1
<1>10. \A x \in S : n[x] = Cardinality(Below(S, x))
  OBVIOUS
<1> HIDE DEF n
<1>11. ASSUME NEW x \in S
      PROVE  \E i \in 1..N : e[i] = x
  <2> DEFINE i == n[x] + 1
  <2>1. i \in 1..N /\ n[x] = i - 1 /\ n[x] \in Nat
    BY <1>1, <1>5
  <2>2. e[i] \in S /\ n[e[i]] = n[x]
    BY <1>8, <1>10, <2>1
  <2>3. ~(e[i] < x) /\ ~(x < e[i])
    BY <1>6, <2>1, <2>2
  <2>4. \A z \in S : ~(z < x) /\ ~(x < z) => z = x
    BY <1>1
  <2>5. e[i] = x
    BY <2>2, <2>3, <2>4
  <2>6. QED BY <2>1, <2>5
<1>12. QED BY <1>6, <1>8, <1>9, <1>10, <1>11

\* A page by offset holds the keys after as many as the offset says.
LEMMA PageIs ==
    ASSUME NEW S \in SUBSET Ids, NEW n \in Nat, NEW page,
           page = Remote!Page("limit_offset", Listing(S), [offset |-> n])
    PROVE  LET end == IF Cardinality(S) <= n THEN n
                      ELSE IF n + PageSize <= Cardinality(S) THEN n + PageSize ELSE Cardinality(S)
           IN  /\ page \in Seq(S) /\ Len(page) = end - n
               /\ \A i \in 1..(end - n) : page[i] = Listing(S)[n + i]
<1> DEFINE N == Cardinality(S)
           e == Listing(S)
           end == IF N <= n THEN n ELSE IF n + PageSize <= N THEN n + PageSize ELSE N
<1>1. N \in Nat /\ PageSize \in Nat
  BY SomeKeys, CallsAssumption DEF Remote!CallsMakeSense
<1>2. e \in [1..N -> S] /\ Len(e) = N
  <2>1. e \in [1..N -> S]
    BY ListingOrders
  <2> HIDE DEF e
  <2>2. QED BY <1>1, <2>1
<1>3. \A i \in Nat : Remote!Min({i, N}) = IF i <= N THEN i ELSE N
  BY <1>1 DEF Remote!Min
<1> HIDE DEF e
<1>4. page = Remote!PySlice(e, n, n + PageSize)
  BY DEF Remote!Page, Remote!None, e
<1> DEFINE m == (IF n <= N THEN n ELSE N) + 1
           to == IF n + PageSize <= N THEN n + PageSize ELSE N
<1>5. page = SubSeq(e, m, to)
  <2>1. ~(n < 0) /\ ~(n + PageSize < 0) /\ n + PageSize \in Nat
    BY <1>1
  <2>2. page = SubSeq(e, Remote!Min({n, N}) + 1, Remote!Min({n + PageSize, N}))
    BY <1>2, <1>4, <2>1 DEF Remote!PySlice
  <2>3. Remote!Min({n, N}) + 1 = m /\ Remote!Min({n + PageSize, N}) = to
    BY <1>3, <2>1
  <2> HIDE DEF m, to
  <2>4. QED BY <2>2, <2>3
<1>6. /\ m \in Int /\ to \in Int /\ m >= 1 /\ to <= N
      /\ (IF m <= to THEN to - m + 1 ELSE 0) = end - n
      /\ \A i \in 1..(end - n) : i \in 1..(to - m + 1) /\ m + i - 1 = n + i
  BY <1>1
<1> HIDE DEF m, to
<1>7. \A i \in m..to : e[i] \in S
  <2>1. \A i \in m..to : i \in 1..N
    BY <1>1, <1>6
  <2>2. QED BY <1>2, <2>1
<1>8. /\ page \in Seq(S)
      /\ Len(page) = IF m <= to THEN to - m + 1 ELSE 0
      /\ \A i \in 1..(to - m + 1) : page[i] = e[m + i - 1]
  <2>1. m \in Int /\ to \in Int
    BY <1>6
  <2> HIDE DEF N, end
  <2>2. /\ SubSeq(e, m, to) \in Seq(S)
        /\ Len(SubSeq(e, m, to)) = IF m <= to THEN to - m + 1 ELSE 0
        /\ \A i \in 1..(to - m + 1) : SubSeq(e, m, to)[i] = e[m + i - 1]
    BY <1>7, <2>1, SubSeqProperties
  <2>3. QED BY <1>5, <2>2
<1>9. page \in Seq(S) /\ Len(page) = end - n /\ \A i \in 1..(end - n) : page[i] = e[n + i]
  <2> HIDE DEF end
  <2>1. QED BY <1>6, <1>8
<1>10. QED BY <1>9 DEF e

\* What a page by offset adds to a walk over a table: keys that are there, in their
\* places; none that is as far as the offset is left behind.
Extends(S, L, page) ==
    /\ page \in Seq(S) /\ L \o page \in Seq(Ids)
    /\ Remote!Range(L \o page) \subseteq Remote!Range(L) \cup S
    /\ Remote!Range(L) \subseteq Remote!Range(L \o page)
    /\ page = <<>> \/ Len(L \o page) <= Cardinality(S)
    /\ Advances(L, S) => Advances(L \o page, S)
    /\ \A x \in S : Cardinality(Below(S, x)) >= Len(L) =>
         page # <<>> /\ (x \in Remote!Range(L \o page) \/ Cardinality(Below(S, x)) >= Len(L \o page))

LEMMA PageExtends ==
    ASSUME NEW S \in SUBSET Ids, NEW L \in Seq(Ids), NEW page,
           page = Remote!Page("limit_offset", Listing(S), [offset |-> Len(L)])
    PROVE  Extends(S, L, page)
<1> DEFINE N == Cardinality(S)
           e == Listing(S)
           n == Len(L)
           M == Len(page)
           P == L \o page
           r == [x \in S |-> Cardinality(Below(S, x))]
<1>1. N \in Nat /\ PageSize \in Nat \ {0} /\ n \in Nat /\ S \subseteq Int /\ Ids \subseteq Int
  BY SomeKeys, LenProperties, CallsAssumption DEF Remote!CallsMakeSense
<1>2. /\ e \in [1..N -> S]
      /\ \A i \in 1..N : r[e[i]] = i - 1
      /\ \A x \in S : \E i \in 1..N : e[i] = x
      /\ \A x, y \in S : r[x] < r[y] <=> x < y
  BY ListingOrders
<1>3. \A x \in S : r[x] = Cardinality(Below(S, x)) /\ r[x] \in Nat
  BY SomeKeys
<1>4. /\ page \in Seq(S)
      /\ M = (IF N <= n THEN n ELSE IF n + PageSize <= N THEN n + PageSize ELSE N) - n
      /\ \A i \in 1..M : page[i] = e[n + i]
  <2> DEFINE end == IF N <= n THEN n ELSE IF n + PageSize <= N THEN n + PageSize ELSE N
  <2>1. page = Remote!Page("limit_offset", Listing(S), [offset |-> n])
    OBVIOUS
  <2>2. page \in Seq(S) /\ M = end - n /\ \A i \in 1..(end - n) : page[i] = e[n + i]
    <3> HIDE DEF n
    <3>1. QED BY <1>1, <2>1, PageIs
  <2>3. QED BY <2>2
<1>5. /\ M \in Nat /\ (M # 0 => n + M <= N) /\ (N > n => M # 0)
      /\ (M # PageSize => N <= n + M)
  BY <1>1, <1>4
<1>6. page = <<>> <=> M = 0
  BY <1>4, EmptySeq
<1>7. /\ P \in Seq(Ids) /\ Len(P) = n + M
      /\ \A i \in 1..(n + M) : P[i] = IF i <= n THEN L[i] ELSE page[i - n]
  <2>1. page \in Seq(Ids)
    BY <1>4, SeqMonotonic
  <2>2. QED BY <2>1, ConcatProperties
<1>8. DOMAIN P = 1..(n + M) /\ DOMAIN L = 1..n
  BY <1>7, LenProperties
<1> HIDE DEF N, e, n, M, P, r
<1>9. ASSUME NEW i \in 1..(n + M)
      PROVE  \/ i \in 1..n /\ P[i] = L[i]
             \/ i > n /\ i \in 1..N /\ P[i] = e[i] /\ P[i] \in S /\ r[P[i]] = i - 1
  <2>1. CASE i <= n
    BY <1>1, <1>7, <2>1
  <2>2. CASE i > n
    <3>1. i - n \in 1..M /\ n + (i - n) = i /\ i \in 1..N
      BY <1>1, <1>5, <2>2
    <3>2. P[i] = page[i - n] /\ page[i - n] = e[i]
      BY <1>1, <1>4, <1>7, <2>2, <3>1
    <3>3. QED BY <1>2, <2>2, <3>1, <3>2
  <2>3. QED BY <1>1, <2>1, <2>2
<1>10. \A i \in 1..n : i \in 1..(n + M) /\ P[i] = L[i]
  BY <1>1, <1>5, <1>7
<1>11. Remote!Range(L) \subseteq Remote!Range(P) /\ Remote!Range(P) \subseteq Remote!Range(L) \cup S
  BY <1>8, <1>9, <1>10 DEF Remote!Range
<1>12. ASSUME Advances(L, S)
       PROVE  Advances(P, S)
  <2>1. \A i \in 1..n : Cardinality(Below(S, L[i])) < i
    BY <1>8, <1>12 DEF Advances
  <2>2. ASSUME NEW i \in 1..(n + M)
        PROVE  Cardinality(Below(S, P[i])) < i
    <3>1. CASE i \in 1..n /\ P[i] = L[i]
      BY <2>1, <3>1
    <3>2. CASE P[i] \in S /\ r[P[i]] = i - 1
      <4>1. Cardinality(Below(S, P[i])) = i - 1
        BY <1>3, <3>2
      <4>2. QED BY <1>1, <1>5, <4>1
    <3>3. QED BY <1>9, <3>1, <3>2
  <2>3. ASSUME NEW i \in 1..(n + M), NEW j \in 1..(n + M), i < j
        PROVE  P[i] < P[j]
    <3>1. CASE j <= n
      <4>1. i \in 1..n /\ j \in 1..n
        BY <1>1, <2>3, <3>1
      <4>2. QED BY <1>8, <1>10, <1>12, <2>3, <4>1 DEF Advances
    <3>2. CASE j > n
      <4>1. P[j] \in S /\ r[P[j]] = j - 1
        BY <1>1, <1>9, <3>2
      <4>2. P[i] \in Int
        <5>1. P[i] \in Ids
          BY <1>7, <1>8, ElementOfSeq
        <5>2. QED BY <1>1, <5>1
      <4>3. ASSUME ~(P[i] < P[j]) PROVE FALSE
        <5>1. Below(S, P[j]) \in SUBSET Below(S, P[i])
          <6>1. P[j] \in Int
            BY <1>1, <4>1
          <6>2. \A y \in S : y < P[j] => y < P[i]
            BY <1>1, <4>2, <4>3, <6>1
          <6>3. QED BY <6>2 DEF Below
        <5>2. Cardinality(Below(S, P[j])) <= Cardinality(Below(S, P[i]))
          BY <5>1, SomeKeys, FS_Subset
        <5>3. /\ Cardinality(Below(S, P[j])) = j - 1 /\ Cardinality(Below(S, P[i])) < i
              /\ Cardinality(Below(S, P[i])) \in Int
          BY <1>3, <2>2, <4>1, SomeKeys
        <5>4. QED BY <1>1, <1>5, <2>3, <5>2, <5>3
      <4>4. QED BY <4>3
    <3>3. QED BY <1>1, <3>1, <3>2
  <2>4. QED BY <1>8, <2>2, <2>3 DEF Advances
<1>13. ASSUME NEW x \in S, r[x] >= n
       PROVE  M # 0 /\ (x \in Remote!Range(P) \/ r[x] >= n + M)
  <2>1. PICK i \in 1..N : e[i] = x
    BY <1>2
  <2>2. r[x] = i - 1
    BY <1>2, <2>1
  <2>3. i > n /\ N > n
    BY <1>1, <1>13, <2>2
  <2>4. CASE i <= n + M
    <3>1. i \in 1..(n + M)
      BY <1>1, <1>5, <2>4
    <3>2. P[i] = x
      BY <1>1, <1>9, <2>1, <2>3, <3>1
    <3>3. x \in Remote!Range(P)
      BY <1>8, <3>1, <3>2 DEF Remote!Range
    <3>4. QED BY <1>5, <2>3, <3>3
  <2>5. CASE i > n + M
    <3>1. r[x] >= n + M
      BY <1>1, <1>5, <2>2, <2>5
    <3>2. QED BY <1>5, <2>3, <3>1
  <2>6. QED BY <1>1, <1>5, <2>4, <2>5
<1>14. page = <<>> \/ Len(P) <= N
  BY <1>5, <1>6, <1>7
<1>15. \A x \in S : Cardinality(Below(S, x)) >= n =>
          page # <<>> /\ (x \in Remote!Range(P) \/ Cardinality(Below(S, x)) >= Len(P))
  BY <1>3, <1>6, <1>7, <1>13
<1>16. QED BY <1>4, <1>7, <1>11, <1>12, <1>14, <1>15 DEF Extends, N, n, P

\* What a change of the table does to a walk: without a deletion no key comes earlier
\* than it did, without a creation none comes later.
LEMMA ChangeMoves ==
    ASSUME NEW S \in SUBSET Ids, NEW T \in SUBSET Ids
    PROVE  /\ S \subseteq T => \A x \in S : Cardinality(Below(S, x)) <= Cardinality(Below(T, x))
           /\ T \subseteq S => \A s : s \in Seq(Ids) /\ Advances(s, S) => Advances(s, T)
<1>1. ASSUME NEW x, S \subseteq T
      PROVE  Cardinality(Below(S, x)) <= Cardinality(Below(T, x))
  <2>1. Below(S, x) \in SUBSET Below(T, x)
    BY <1>1 DEF Below
  <2>2. QED BY <2>1, SomeKeys, FS_Subset
<1>2. ASSUME NEW s \in Seq(Ids), T \subseteq S, Advances(s, S)
      PROVE  Advances(s, T)
  <2>1. ASSUME NEW i \in DOMAIN s PROVE Cardinality(Below(T, s[i])) < i
    <3>1. Below(T, s[i]) \in SUBSET Below(S, s[i])
      BY <1>2 DEF Below
    <3>2. Cardinality(Below(T, s[i])) <= Cardinality(Below(S, s[i]))
      BY <3>1, SomeKeys, FS_Subset
    <3>3. Cardinality(Below(S, s[i])) < i
      BY <1>2 DEF Advances
    <3>4. i \in Int
      BY LenProperties
    <3>5. Cardinality(Below(T, s[i])) \in Nat /\ Cardinality(Below(S, s[i])) \in Nat
      BY SomeKeys
    <3>6. QED BY <3>2, <3>3, <3>4, <3>5
  <2>2. QED BY <1>2, <2>1 DEF Advances
<1>3. QED BY <1>1, <1>2

\* What is listed of what is yielded.
LEMMA Prefix ==
    ASSUME NEW s \in Seq(Ids), NEW t \in Seq(Ids)
    PROVE  /\ s \o t \in Seq(Ids) /\ Len(s) <= Len(s \o t)
           /\ Remote!Range(s) \subseteq Remote!Range(s \o t)
           /\ \A S : Advances(s \o t, S) => Advances(s, S)
           /\ t = <<>> => s \o t = s
<1>1. /\ s \o t \in Seq(Ids) /\ Len(s \o t) = Len(s) + Len(t)
      /\ \A i \in 1..(Len(s) + Len(t)) : (s \o t)[i] = IF i <= Len(s) THEN s[i] ELSE t[i - Len(s)]
  BY ConcatProperties
<1>2. Len(s) \in Nat /\ Len(t) \in Nat /\ DOMAIN s = 1..Len(s) /\ DOMAIN (s \o t) = 1..Len(s \o t)
  BY <1>1, LenProperties
<1>3. \A i \in DOMAIN s : i \in DOMAIN (s \o t) /\ (s \o t)[i] = s[i]
  BY <1>1, <1>2
<1>4. \A S : Advances(s \o t, S) => Advances(s, S)
  BY <1>3 DEF Advances
<1>5. Remote!Range(s) \subseteq Remote!Range(s \o t)
  BY <1>3 DEF Remote!Range
<1>6. t = <<>> => s \o t = s
  BY ConcatEmptySeq
<1>7. Len(s) <= Len(s \o t)
  BY <1>1, <1>2
<1>8. s \o t \in Seq(Ids)
  BY <1>1
<1>9. QED BY <1>4, <1>5, <1>6, <1>7, <1>8

\* A walk that no step is about.
LEMMA WalkRests ==
    ASSUME NEW d \in Clients, WalkKept(d), UNCHANGED <<table, call, resource>>,
           stage'[d] = stage[d], reply'[d] = reply[d], listed'[d] = listed[d],
           outcome'[d] = outcome[d], walk'[d] = walk[d]
    PROVE  WalkKept(d)'
<1>1. Remote!Walks(d)' <=> Remote!Walks(d)
  BY DEF Remote!Walks
<1>2. Coming(d)' = Coming(d) /\ Yielded(d)' = Yielded(d)
  BY DEF Coming, Yielded
<1>3. Remote!Present(table)' = Remote!Present(table)
  BY DEF Remote!Present
<1>4. (WalkTyped(d) => WalkTyped(d)') /\ (WalkSound(d) => WalkSound(d)') /\ (WalkWhole(d) => WalkWhole(d)')
  BY <1>2, <1>3 DEF WalkTyped, WalkSound, WalkWhole
<1>5. QED BY <1>1, <1>4 DEF WalkKept

\* Somebody else changes the table.
LEMMA WalkWatches ==
    ASSUME WalksKept, NEW d \in Clients, UNCHANGED <<call, resource>>,
           stage'[d] = stage[d], reply'[d] = reply[d], listed'[d] = listed[d],
           outcome'[d] = outcome[d], walk'[d] = Remote!Watched(walk[d], table')
    PROVE  WalkKept(d)'
<1> SUFFICES ASSUME Remote!Walks(d) PROVE WalkTyped(d)' /\ WalkSound(d)' /\ WalkWhole(d)'
  BY DEF WalkKept, Remote!Walks
<1> DEFINE S == Remote!Present(table)
           T == Remote!Present(table')
           w == walk[d]
           P == Yielded(d)
<1>1. WalkTyped(d) /\ WalkSound(d) /\ WalkWhole(d)
  BY DEF WalksKept, WalkKept
<1>2. Coming(d)' = Coming(d) /\ Yielded(d)' = P
  BY DEF Coming, Yielded
<1>3. S \in SUBSET Ids /\ T \in SUBSET Ids /\ Remote!Present(table)' = T
  BY DEF Remote!Present
<1>4. P \in Seq(Ids)
  BY <1>1, Prefix DEF WalkTyped, Yielded
<1>5. w \in [begun : BOOLEAN, pages : Nat, always : SUBSET Ids, ever : SUBSET Ids,
             deleted : BOOLEAN, created : BOOLEAN]
  BY DEF WalksKept
<1>6. CASE ~w.begun
  <2>1. walk'[d] = w
    BY <1>6 DEF Remote!Watched
  <2>2. QED BY <1>1, <1>2, <1>6, <2>1 DEF WalkTyped, WalkSound, WalkWhole
<1>7. CASE w.begun
  <2>1. /\ walk'[d].begun
        /\ walk'[d].always = w.always \cap T /\ walk'[d].ever = w.ever \cup T
        /\ walk'[d].deleted <=> w.deleted \/ ~(S \subseteq T)
        /\ walk'[d].created <=> w.created \/ ~(T \subseteq S)
    BY <1>5, <1>7 DEF Remote!Watched
  <2>2. WalkTyped(d)'
    BY <1>1, <1>2, <1>3, <2>1 DEF WalkTyped
  <2>3. WalkSound(d)'
    <3>1. Remote!Range(P) \subseteq w.ever \cup T
      BY <1>1 DEF WalkSound
    <3>2. Cardinality(w.ever) <= Cardinality(w.ever \cup T)
      <4>1. w.ever \cup T \in SUBSET Ids /\ w.ever \in SUBSET (w.ever \cup T)
        BY <1>3, <1>5
      <4>2. QED BY <4>1, SomeKeys, FS_Subset
    <3>3. Len(P) <= Cardinality(w.ever \cup T)
      <4>1. Cardinality(w.ever) \in Nat /\ Cardinality(w.ever \cup T) \in Nat /\ Len(P) \in Nat
        BY <1>3, <1>4, <1>5, SomeKeys, LenProperties
      <4>2. Len(P) <= Cardinality(w.ever)
        BY <1>1 DEF WalkSound
      <4>3. QED BY <3>2, <4>1, <4>2
    <3>4. ~w.created /\ T \subseteq S => Advances(P, T)
      BY <1>1, <1>3, <1>4, <1>7, ChangeMoves DEF WalkSound
    <3>5. QED BY <1>2, <1>3, <2>1, <3>1, <3>3, <3>4 DEF WalkSound
  <2>4. WalkWhole(d)'
    <3>1. ASSUME ~w.deleted, S \subseteq T, stage[d] # "done", NEW x \in (w.always \cap T) \ Remote!Range(P)
          PROVE  Cardinality(Below(T, x)) >= Len(P)
      <4>1. x \in S /\ Cardinality(Below(S, x)) >= Len(P)
        BY <1>1, <1>7, <3>1 DEF WalkTyped, WalkWhole
      <4>2. Cardinality(Below(S, x)) <= Cardinality(Below(T, x))
        BY <1>3, <3>1, <4>1, ChangeMoves
      <4>3. Cardinality(Below(S, x)) \in Nat /\ Cardinality(Below(T, x)) \in Nat /\ Len(P) \in Nat
        BY <1>3, <1>4, SomeKeys, LenProperties
      <4>4. QED BY <4>1, <4>2, <4>3
    <3>2. ~w.deleted /\ ((Coming(d) /\ reply[d].body = <<>>) \/ outcome[d] = "ok") =>
             w.always \cap T \subseteq Remote!Range(listed[d])
      BY <1>1, <1>7 DEF WalkWhole
    <3>3. QED BY <1>2, <1>3, <2>1, <3>1, <3>2 DEF WalkWhole
  <2>5. QED BY <2>2, <2>3, <2>4
<1>8. QED BY <1>6, <1>7

\* A page of the list handler by offset, or a refusal.
LEMMA WalkServed ==
    ASSUME WalksKept, RemoteTyped, NEW c \in Clients, Remote!Walks(c), stage[c] = "sending",
           NEW status, NEW body, UNCHANGED <<table, call, resource, listed, outcome>>,
           status >= 400 \/ body = Remote!Page("limit_offset", Listing(Remote!Present(table)),
                                               [offset |-> Len(listed[c])]),
           stage'[c] = "waiting", reply'[c] = [status |-> status, body |-> body],
           status \in Nat, walk'[c] = Remote!Begun(walk[c])
    PROVE  WalkKept(c)'
<1> DEFINE S == Remote!Present(table)
           L == listed[c]
           w == walk[c]
           v == walk'[c]
<1>1. WalkTyped(c) /\ WalkSound(c) /\ WalkWhole(c)
  BY DEF WalksKept, WalkKept
<1>2. /\ w \in [begun : BOOLEAN, pages : Nat, always : SUBSET Ids, ever : SUBSET Ids,
                deleted : BOOLEAN, created : BOOLEAN]
      /\ S \in SUBSET Ids /\ L \in Seq(Ids)
  BY <1>1 DEF WalksKept, WalkTyped, Remote!Present
<1>3. Yielded(c) = L /\ ~Coming(c)
  BY DEF Yielded, Coming
<1>4. /\ v.begun /\ S \subseteq v.ever /\ v.always \subseteq S /\ v.ever \in SUBSET Ids
      /\ Remote!Range(L) \subseteq v.ever /\ Len(L) <= Cardinality(v.ever)
      /\ ~v.created => Advances(L, S)
      /\ ~v.deleted => \A x \in v.always \ Remote!Range(L) : Cardinality(Below(S, x)) >= Len(L)
  <2>1. CASE w.begun
    <3>1. v = w
      BY <2>1 DEF Remote!Begun
    <3>2. QED BY <1>1, <1>2, <1>3, <2>1, <3>1 DEF WalkTyped, WalkSound, WalkWhole
  <2>2. CASE ~w.begun
    <3>1. v.begun /\ v.ever = S /\ v.always = S
      BY <1>2, <2>2 DEF Remote!Begun
    <3>2. L = <<>> /\ Len(L) = 0 /\ DOMAIN L = {}
      BY <1>1, <2>2 DEF WalkTyped
    <3>3. Remote!Range(L) = {} /\ Advances(L, S)
      BY <3>2 DEF Remote!Range, Advances
    <3>4. /\ Cardinality(S) >= 0 /\ \A x : Cardinality(Below(S, x)) >= 0
      BY <1>2, SomeKeys
    <3>5. QED BY <1>2, <3>1, <3>2, <3>3, <3>4
  <2>3. QED BY <2>1, <2>2
<1>5. /\ Remote!Walks(c)' /\ S' = S /\ L' = L /\ outcome'[c] # "ok" /\ stage'[c] = "waiting"
      /\ reply'[c].status = status /\ reply'[c].body = body
  BY <1>1 DEF Remote!Walks, Remote!Present, WalkTyped
<1> HIDE DEF S, L, v
<1>6. CASE status >= 400
  <2>1. ~(status < 400)
    BY <1>6
  <2>2. ~Coming(c)' /\ Yielded(c)' = L
    BY <1>5, <2>1 DEF Coming, Yielded, L
  <2>3. WalkTyped(c)'
    BY <1>2, <1>4, <1>5, <2>2 DEF WalkTyped, L, S, v
  <2>4. WalkSound(c)'
    BY <1>4, <1>5, <2>2 DEF WalkSound, S, v
  <2>5. WalkWhole(c)'
    BY <1>4, <1>5, <2>2 DEF WalkWhole, S, v
  <2>6. QED BY <2>3, <2>4, <2>5 DEF WalkKept
<1>7. CASE status < 400
  <2> DEFINE P == L \o body
  <2>0. body = Remote!Page("limit_offset", Listing(S), [offset |-> Len(L)])
    BY <1>7 DEF S, L
  <2>1. /\ body \in Seq(S) /\ P \in Seq(Ids)
        /\ Remote!Range(P) \subseteq Remote!Range(L) \cup S
        /\ Remote!Range(L) \subseteq Remote!Range(P)
        /\ body = <<>> \/ Len(P) <= Cardinality(S)
        /\ Advances(L, S) => Advances(P, S)
        /\ \A x \in S : Cardinality(Below(S, x)) >= Len(L) =>
             body # <<>> /\ (x \in Remote!Range(P) \/ Cardinality(Below(S, x)) >= Len(P))
    <3>1. Extends(S, L, body)
      BY <1>2, <2>0, PageExtends
    <3>2. QED BY <3>1 DEF Extends
  <2>2. body \in Seq(Ids) /\ (body = <<>> => P = L)
    BY <1>2, <2>1, SeqMonotonic, Prefix
  <2>3. Coming(c)' /\ Yielded(c)' = P
    BY <1>5, <1>7 DEF Coming, Yielded, L
  <2> HIDE DEF P
  <2>4. WalkTyped(c)'
    BY <1>2, <1>4, <1>5, <2>2 DEF WalkTyped, L, S, v
  <2>5. Remote!Range(P) \subseteq v.ever /\ Len(P) <= Cardinality(v.ever)
    <3>1. Cardinality(S) <= Cardinality(v.ever) /\ Cardinality(S) \in Nat /\ Cardinality(v.ever) \in Nat
      BY <1>2, <1>4, SomeKeys, FS_Subset
    <3>2. Len(P) \in Nat
      BY <2>1, LenProperties
    <3>3. Len(P) <= Cardinality(v.ever)
      BY <1>4, <2>1, <2>2, <3>1, <3>2
    <3>4. QED BY <1>4, <2>1, <3>3
  <2>6. WalkSound(c)'
    BY <1>4, <1>5, <2>1, <2>3, <2>5 DEF WalkSound, S, v
  <2>7. WalkWhole(c)'
    <3>1. ~v.deleted => \A x \in v.always \ Remote!Range(P) : Cardinality(Below(S, x)) >= Len(P)
      BY <1>4, <2>1
    <3>2. ~v.deleted /\ body = <<>> => v.always \subseteq Remote!Range(L)
      BY <1>4, <2>1
    <3>3. QED BY <1>5, <2>3, <3>1, <3>2 DEF WalkWhole, S, L, v
  <2>8. QED BY <2>4, <2>6, <2>7 DEF WalkKept
<1>8. QED BY <1>6, <1>7

\* The table is served to one client, and every walk looks on.
LEMMA ServeWalks ==
    ASSUME WalksKept, RemoteTyped, NEW c \in Clients, NEW a, Remote!Serve(c, a),
           Remote!Walks(c) => /\ a.rows = table /\ a.status \in Nat
                              /\ a.status >= 400 \/ a.body = Remote!Page("limit_offset",
                                    Listing(Remote!Present(table)), [offset |-> Len(listed[c])])
    PROVE  WalksKept'
<1>1. /\ stage[c] = "sending" /\ stage' = [stage EXCEPT ![c] = "waiting"]
      /\ reply' = [reply EXCEPT ![c] = [status |-> a.status, body |-> a.body]]
      /\ table' = a.rows
      /\ walk' = [d \in Clients |-> IF d = c /\ call[c].verb = "list" THEN Remote!Begun(walk[d])
                                    ELSE Remote!Watched(walk[d], a.rows)]
      /\ UNCHANGED <<call, resource, listed, outcome>>
  BY DEF Remote!Serve, Remote!config
<1>2. \A T : Remote!Present(T) \in SUBSET Ids
  BY DEF Remote!Present
<1>3. walk' \in [Clients -> [begun : BOOLEAN, pages : Nat, always : SUBSET Ids, ever : SUBSET Ids,
                             deleted : BOOLEAN, created : BOOLEAN]]
  <2>1. ASSUME NEW d \in Clients
        PROVE  walk'[d] \in [begun : BOOLEAN, pages : Nat, always : SUBSET Ids, ever : SUBSET Ids,
                             deleted : BOOLEAN, created : BOOLEAN]
    <3>1. walk[d] \in [begun : BOOLEAN, pages : Nat, always : SUBSET Ids, ever : SUBSET Ids,
                       deleted : BOOLEAN, created : BOOLEAN]
      BY DEF WalksKept
    <3>2. walk'[d] = Remote!Begun(walk[d]) \/ walk'[d] = Remote!Watched(walk[d], a.rows)
      BY <1>1
    <3>3. Remote!Begun(walk[d]) \in [begun : BOOLEAN, pages : Nat, always : SUBSET Ids,
                                     ever : SUBSET Ids, deleted : BOOLEAN, created : BOOLEAN]
      BY <1>2, <3>1 DEF Remote!Begun
    <3>4. Remote!Watched(walk[d], a.rows) \in [begun : BOOLEAN, pages : Nat, always : SUBSET Ids,
                                     ever : SUBSET Ids, deleted : BOOLEAN, created : BOOLEAN]
      <4> DEFINE went == walk[d].deleted \/ ~(Remote!Present(table) \subseteq Remote!Present(a.rows))
                 came == walk[d].created \/ ~(Remote!Present(a.rows) \subseteq Remote!Present(table))
      <4>1. went \in BOOLEAN /\ came \in BOOLEAN
        OBVIOUS
      <4>2. /\ walk[d].always \cap Remote!Present(a.rows) \in SUBSET Ids
            /\ walk[d].ever \cup Remote!Present(a.rows) \in SUBSET Ids
        BY <1>2, <3>1
      <4>3. Remote!Watched(walk[d], a.rows)
              = IF ~walk[d].begun THEN walk[d]
                ELSE [walk[d] EXCEPT !.always = @ \cap Remote!Present(a.rows),
                        !.ever = @ \cup Remote!Present(a.rows), !.deleted = went, !.created = came]
        BY DEF Remote!Watched
      <4> HIDE DEF went, came
      <4>4. QED BY <3>1, <4>1, <4>2, <4>3
    <3>5. QED BY <3>2, <3>3, <3>4
  <2>2. QED BY <1>1, <2>1
<1>4. listed' = [d \in Clients |-> listed'[d]]
  BY <1>1 DEF WalksKept
<1>5. ASSUME NEW d \in Clients
      PROVE  WalkKept(d)'
  <2>1. CASE d # c \/ ~Remote!Walks(c)
    <3>1. CASE d = c
      BY <1>1, <2>1, <3>1 DEF WalkKept, Remote!Walks
    <3>2. CASE d # c
      <4>1. /\ stage'[d] = stage[d] /\ reply'[d] = reply[d]
            /\ walk'[d] = Remote!Watched(walk[d], table')
        BY <1>1, <3>2 DEF RemoteTyped
      <4>2. QED BY <1>1, <4>1, WalkWatches
    <3>3. QED BY <3>1, <3>2
  <2>2. CASE d = c /\ Remote!Walks(c)
    <3>1. /\ stage'[c] = "waiting" /\ reply'[c] = [status |-> a.status, body |-> a.body]
          /\ walk'[c] = Remote!Begun(walk[c])
      BY <1>1, <2>2 DEF RemoteTyped, Remote!Walks
    <3>2. QED BY <1>1, <2>2, <3>1, WalkServed
  <2>3. QED BY <2>1, <2>2
<1>6. QED BY <1>3, <1>4, <1>5 DEF WalksKept

\* An unordered select is in key order.
LEMMA SortedByKey ==
    ASSUME NEW S \in SUBSET Ids, NEW t
    PROVE  Remote!Sorted(t, S, Remote!None) = Listing(S)
<1> DEFINE N == Cardinality(S)
           Ahead(k) == {l \in S : IF Remote!None = Remote!None \/ t[l] = t[k] THEN l < k
                                  ELSE IF Remote!None = "desc" THEN t[l] > t[k] ELSE t[l] < t[k]}
           e == [i \in 1..N |-> CHOOSE k \in S : Cardinality(Ahead(k)) = i - 1]
           f == Listing(S)
<1>1. Remote!Sorted(t, S, Remote!None) = e
  BY DEF Remote!Sorted, Remote!InOrder, Remote!Cardinality, Cardinality
<1>2. \A k : Ahead(k) = Below(S, k)
  BY DEF Below
<1>3. /\ f \in [1..N -> S]
      /\ \A i \in 1..N : Cardinality(Below(S, f[i])) = i - 1
      /\ \A x, y \in S : Cardinality(Below(S, x)) < Cardinality(Below(S, y)) <=> x < y
      /\ \A x, y \in S : x # y => x < y \/ y < x
  BY ListingOrders, SomeKeys
<1> HIDE DEF f, N
<1>4. ASSUME NEW i \in 1..N
      PROVE  e[i] = f[i]
  <2>1. e[i] = CHOOSE k \in S : Cardinality(Ahead(k)) = i - 1
    OBVIOUS
  <2> HIDE DEF Ahead
  <2>2. \E k \in S : Cardinality(Ahead(k)) = i - 1
    BY <1>2, <1>3
  <2>3. e[i] \in S /\ Cardinality(Ahead(e[i])) = i - 1
    BY <2>1, <2>2
  <2> HIDE DEF e
  <2>4. /\ e[i] \in S /\ f[i] \in S
        /\ Cardinality(Below(S, e[i])) = Cardinality(Below(S, f[i]))
        /\ Cardinality(Below(S, e[i])) \in Nat
    BY <1>2, <1>3, <2>3, SomeKeys
  <2>5. ~(Cardinality(Below(S, e[i])) < Cardinality(Below(S, f[i])))
        /\ ~(Cardinality(Below(S, f[i])) < Cardinality(Below(S, e[i])))
    BY <2>4
  <2>6. QED BY <1>3, <2>4, <2>5
<1>5. e = f
  BY <1>3, <1>4
<1>6. QED BY <1>1, <1>5 DEF f

\* What the list handler answers to a walk.
LEMMA PageServed ==
    ASSUME NEW c \in Clients, Remote!Walks(c), NEW a, a = Remote!List(table, <<>>, Remote!None, Remote!Params(c))
    PROVE  /\ a.rows = table /\ a.status = 200
           /\ a.body = Remote!Page("limit_offset", Listing(Remote!Present(table)), [offset |-> Len(listed[c])])
<1> DEFINE filters == Head(resource.filters)
<1>1. Remote!AllClauses(filters, <<>>) = <<{}>>
  <2> HIDE DEF filters
  <2>1. DOMAIN <<>> = {}
    OBVIOUS
  <2>2. QED BY <2>1 DEF Remote!AllClauses
<1>2. Remote!AllClauses(filters, <<>>) # Remote!Refused
  BY <1>1 DEF Remote!Refused
<1>3. Remote!Matching(table, Head(Remote!AllClauses(filters, <<>>))) = Remote!Present(table)
  <2>1. Head(Remote!AllClauses(filters, <<>>)) = {}
    BY <1>1
  <2>2. QED BY <2>1 DEF Remote!Matching
<1>4. Remote!Params(c) = [offset |-> Len(listed[c])] /\ resource.methods["list"] = "limit_offset"
  BY DEF Remote!Params, Remote!Walks
<1>5. Remote!Sorted(table, Remote!Present(table), Remote!None) = Listing(Remote!Present(table))
  BY SortedByKey DEF Remote!Present
<1>6. a = Remote!Answered(200, Remote!Page("limit_offset", Listing(Remote!Present(table)),
                                           [offset |-> Len(listed[c])]), table)
  BY <1>2, <1>3, <1>4, <1>5 DEF Remote!List
<1>7. QED BY <1>6 DEF Remote!Answered

\* Every answer of the server keeps the walks.
LEMMA ServedWalks ==
    ASSUME WalksKept, RemoteTyped, NEW c \in Clients, Remote!Served(c)
    PROVE  WalksKept'
<1>1. CASE Remote!Walks(c)
  <2>1. call[c].verb = "list"
    BY <1>1 DEF Remote!Walks
  <2>2. Remote!ServePage(c) \/ Remote!Reject(c)
    BY <2>1 DEF Remote!Served, Remote!Admitted, Remote!ServeCreate, Remote!ServeRetrieve,
                Remote!ServeUpdate, Remote!ServePartialUpdate, Remote!ServeDelete, Remote!ServeReplace,
                Remote!ServePartialReplace, Remote!ServeDrop, Remote!ServeSearch
  <2>3. CASE Remote!ServePage(c)
    <3> DEFINE a == Remote!List(table, <<>>, Remote!None, Remote!Params(c))
    <3>1. Remote!Serve(c, a)
      BY <2>3 DEF Remote!ServePage
    <3>2. /\ a.rows = table /\ a.status = 200
          /\ a.body = Remote!Page("limit_offset", Listing(Remote!Present(table)), [offset |-> Len(listed[c])])
      BY <1>1, PageServed
    <3> HIDE DEF a
    <3>3. a.status \in Nat
      BY <3>2
    <3>4. QED BY <3>1, <3>2, <3>3, ServeWalks
  <2>4. CASE Remote!Reject(c)
    <3>1. PICK status \in {405, 400, 500} : Remote!Serve(c, Remote!Answered(status, Remote!NoBody, table))
      BY <2>4 DEF Remote!Reject
    <3>2. status \in Nat /\ status >= 400
      BY <3>1
    <3> DEFINE a == Remote!Answered(status, Remote!NoBody, table)
    <3>3. a.rows = table /\ a.status = status
      BY DEF Remote!Answered
    <3> HIDE DEF a
    <3>4. Remote!Serve(c, a) /\ a.status \in Nat /\ a.status >= 400
      BY <3>1, <3>2, <3>3 DEF a
    <3>5. QED BY <3>3, <3>4, ServeWalks
  <2>5. QED BY <2>2, <2>3, <2>4
<1>2. CASE ~Remote!Walks(c)
  <2>1. \E a : Remote!Serve(c, a)
    BY DEF Remote!Served, Remote!ServeCreate, Remote!ServeRetrieve,
           Remote!ServeUpdate, Remote!ServePartialUpdate, Remote!ServeDelete, Remote!ServeReplace,
           Remote!ServePartialReplace, Remote!ServeDrop, Remote!ServePage, Remote!ServeSearch, Remote!Reject
  <2>2. QED BY <1>2, <2>1, ServeWalks
<1>3. QED BY <1>1, <1>2

\* What is known of a walk whose answer is there.
LEMMA WalkKnown ==
    ASSUME WalksKept, NEW c \in Clients, Remote!Walks(c), stage[c] = "waiting"
    PROVE  /\ WalkTyped(c) /\ WalkSound(c) /\ WalkWhole(c) /\ walk[c].begun
           /\ listed[c] \in Seq(Ids) /\ Yielded(c) \in Seq(Ids)
           /\ Len(listed[c]) <= Len(Yielded(c))
           /\ Remote!Range(listed[c]) \subseteq Remote!Range(Yielded(c))
           /\ \A S : Advances(Yielded(c), S) => Advances(listed[c], S)
<1>1. WalkTyped(c) /\ WalkSound(c) /\ WalkWhole(c) /\ walk[c].begun
  BY DEF WalksKept, WalkKept, WalkTyped
<1>2. listed[c] \in Seq(Ids) /\ Len(listed[c]) \in Nat /\ (Coming(c) => reply[c].body \in Seq(Ids))
  BY <1>1, LenProperties DEF WalkTyped
<1>3. CASE Coming(c)
  <2>1. Yielded(c) = listed[c] \o reply[c].body
    BY <1>3 DEF Yielded
  <2> DEFINE L == listed[c]
             b == reply[c].body
  <2>2. L \in Seq(Ids) /\ b \in Seq(Ids)
    BY <1>2, <1>3
  <2> HIDE DEF L, b
  <2>3. /\ L \o b \in Seq(Ids) /\ Len(L) <= Len(L \o b)
        /\ Remote!Range(L) \subseteq Remote!Range(L \o b)
        /\ \A S : Advances(L \o b, S) => Advances(L, S)
    BY <2>2, Prefix
  <2>4. QED BY <1>1, <2>1, <2>2, <2>3 DEF L, b
<1>4. CASE ~Coming(c)
  <2>1. Yielded(c) = listed[c]
    BY <1>4 DEF Yielded
  <2>2. Len(listed[c]) <= Len(listed[c])
    BY <1>2
  <2>3. QED BY <1>1, <1>2, <2>1, <2>2
<1>5. QED BY <1>3, <1>4

\* A walk ends, well after an empty page only.
LEMMA WalkStops ==
    ASSUME WalksKept, RemoteTyped, NEW c \in Clients, stage[c] = "waiting",
           UNCHANGED <<call, resource, table, reply, listed, walk>>, NEW result, Remote!Finish(c, result),
           result = "ok" /\ Remote!Walks(c) => Coming(c) /\ reply[c].body = <<>>
    PROVE  WalksKept'
<1>1. /\ stage' = [stage EXCEPT ![c] = "done"] /\ outcome' = [outcome EXCEPT ![c] = result]
  BY DEF Remote!Finish
<1>2. ASSUME NEW d \in Clients, d # c
      PROVE  WalkKept(d)'
  <2>1. stage'[d] = stage[d] /\ outcome'[d] = outcome[d] /\ WalkKept(d)
    BY <1>1, <1>2 DEF RemoteTyped, WalksKept
  <2>2. QED BY <2>1, WalkRests
<1>3. stage'[c] = "done" /\ outcome'[c] = result
  BY <1>1 DEF RemoteTyped
<1>4. ASSUME Remote!Walks(c)
      PROVE  WalkTyped(c)' /\ WalkSound(c)' /\ WalkWhole(c)'
  <2> DEFINE S == Remote!Present(table)
             L == listed[c]
             P == Yielded(c)
             w == walk[c]
  <2>1. /\ WalkTyped(c) /\ WalkSound(c) /\ WalkWhole(c) /\ w.begun
        /\ L \in Seq(Ids) /\ P \in Seq(Ids) /\ Len(L) <= Len(P)
        /\ Remote!Range(L) \subseteq Remote!Range(P)
        /\ Advances(P, S) => Advances(L, S)
    BY <1>4, WalkKnown
  <2>2. Remote!Present(table)' = S
    BY DEF Remote!Present
  <2>3. ~Coming(c)' /\ Yielded(c)' = L
    BY <1>3 DEF Coming, Yielded
  <2>4. WalkTyped(c)'
    BY <2>1, <2>2, <1>3, <2>3 DEF WalkTyped
  <2>5. WalkSound(c)'
    <3>1. Remote!Range(L) \subseteq w.ever
      BY <2>1 DEF WalkSound
    <3>2. Len(L) <= Cardinality(w.ever)
      <4>1. Len(P) <= Cardinality(w.ever)
        BY <2>1 DEF WalkSound
      <4>2. Len(L) \in Nat /\ Len(P) \in Nat
        BY <2>1, LenProperties
      <4>3. Cardinality(w.ever) \in Nat
        <5>1. w.ever \in SUBSET Ids
          BY DEF WalksKept
        <5>2. QED BY <5>1, SomeKeys
      <4>4. QED BY <2>1, <4>1, <4>2, <4>3
    <3>3. ~w.created => Advances(L, S)
      BY <2>1 DEF WalkSound
    <3>4. QED BY <2>2, <2>3, <3>1, <3>2, <3>3 DEF WalkSound
  <2>6. WalkWhole(c)'
    <3>1. Coming(c) /\ reply[c].body = <<>> /\ ~w.deleted => w.always \subseteq Remote!Range(L)
      BY <2>1 DEF WalkWhole
    <3>2. QED BY <1>3, <1>4, <2>3, <3>1 DEF WalkWhole
  <2>7. QED BY <2>4, <2>5, <2>6
<1>5. WalkKept(c)'
  BY <1>4 DEF WalkKept, Remote!Walks
<1>6. QED BY <1>2, <1>5 DEF WalksKept

\* A walk takes a page and asks for the next one.
LEMMA WalkGoesOn ==
    ASSUME WalksKept, RemoteTyped, NEW c \in Clients, Coming(c), UNCHANGED <<call, resource, table, reply, outcome>>,
           listed' = [listed EXCEPT ![c] = @ \o reply[c].body],
           walk' = [walk EXCEPT ![c].pages = @ + 1], stage' = [stage EXCEPT ![c] = "sending"]
    PROVE  WalksKept'
<1> DEFINE w == walk[c]
           Record == [begun : BOOLEAN, pages : Nat, always : SUBSET Ids, ever : SUBSET Ids,
                      deleted : BOOLEAN, created : BOOLEAN]
<1>1. walk \in [Clients -> Record] /\ w \in Record
  BY DEF WalksKept
<1>2. /\ [w EXCEPT !.pages = w.pages + 1] \in Record
      /\ walk'[c] = [w EXCEPT !.pages = w.pages + 1]
      /\ \A d \in Clients : d # c => walk'[d] = walk[d]
  BY <1>1
<1>3. /\ walk'[c].begun = w.begun /\ walk'[c].always = w.always /\ walk'[c].ever = w.ever
      /\ walk'[c].deleted = w.deleted /\ walk'[c].created = w.created
  BY <1>1, <1>2
<1> HIDE DEF Record
<1>4. walk' \in [Clients -> Record]
  <2>1. walk' = [d \in Clients |-> walk'[d]]
    BY <1>1
  <2>2. QED BY <1>1, <1>2, <2>1
<1>5. listed' = [d \in Clients |-> listed'[d]]
  BY DEF WalksKept
<1>6. ASSUME NEW d \in Clients, d # c
      PROVE  WalkKept(d)'
  <2>1. /\ stage'[d] = stage[d] /\ listed'[d] = listed[d] /\ walk'[d] = walk[d] /\ WalkKept(d)
    BY <1>2, <1>6 DEF RemoteTyped, WalksKept
  <2>2. QED BY <2>1, WalkRests
<1>7. ASSUME Remote!Walks(c)
      PROVE  WalkTyped(c)' /\ WalkSound(c)' /\ WalkWhole(c)'
  <2> DEFINE P == Yielded(c)
  <2>1. WalkTyped(c) /\ WalkSound(c) /\ WalkWhole(c) /\ w.begun /\ P \in Seq(Ids) /\ stage[c] = "waiting"
    BY <1>7, WalkKnown DEF Coming
  <2>2. Remote!Present(table)' = Remote!Present(table)
    BY DEF Remote!Present
  <2>3. /\ stage'[c] = "sending" /\ listed'[c] = P /\ outcome'[c] = outcome[c] /\ outcome[c] # "ok"
    BY <2>1 DEF RemoteTyped, WalksKept, WalkTyped, Yielded
  <2>4. ~Coming(c)' /\ Yielded(c)' = P
    BY <2>3 DEF Coming, Yielded
  <2>5. WalkTyped(c)'
    BY <1>3, <2>1, <2>2, <2>3, <2>4 DEF WalkTyped
  <2>6. WalkSound(c)'
    BY <1>3, <2>1, <2>2, <2>4 DEF WalkSound
  <2>7. WalkWhole(c)'
    BY <1>3, <2>1, <2>2, <2>3, <2>4 DEF WalkWhole
  <2>8. QED BY <2>5, <2>6, <2>7
<1>8. WalkKept(c)'
  BY <1>7 DEF WalkKept, Remote!Walks
<1>9. QED BY <1>4, <1>5, <1>6, <1>8 DEF WalksKept, Record

\* Every step of the remote side keeps the walks.
LEMMA StepWalks ==
    ASSUME WalksKept, RemoteInv, [Remote!Next]_(Remote!vars)
    PROVE  WalksKept'
<1>1. RemoteTyped /\ Promised
  BY DEF RemoteInv
<1>2. ASSUME NEW c \in Clients, Remote!Served(c)
      PROVE  WalksKept'
  BY <1>1, <1>2, ServedWalks
<1>3. ASSUME NEW c \in Clients, Remote!Lost(c)
      PROVE  WalksKept'
  <2>1. /\ stage[c] = "waiting" /\ Remote!Finish(c, "TransportError")
        /\ UNCHANGED <<call, resource, table, reply, listed, walk>>
    BY <1>3 DEF Remote!Lost, Remote!config
  <2>2. QED BY <1>1, <2>1, WalkStops
<1>4. ASSUME NEW c \in Clients, Remote!ReceivePage(c)
      PROVE  WalksKept'
  <2>1. stage[c] = "waiting" /\ UNCHANGED <<call, resource, table, reply>>
    BY <1>4 DEF Remote!ReceivePage, Remote!config
  <2>2. reply[c].status \in Nat
    BY <1>1, <2>1 DEF Promised, Honest
  <2>3. CASE reply[c].status >= 400
    <3>1. Remote!Finish(c, "KeyError") /\ UNCHANGED <<listed, walk>>
      BY <1>4, <2>3 DEF Remote!ReceivePage
    <3>2. QED BY <1>1, <2>1, <3>1, WalkStops
  <2>4. CASE ~(reply[c].status >= 400) /\ reply[c].body = <<>>
    <3>1. Remote!Finish(c, "ok") /\ UNCHANGED <<listed, walk>>
      BY <1>4, <2>4 DEF Remote!ReceivePage
    <3>2. Coming(c)
      BY <2>1, <2>2, <2>4 DEF Coming
    <3>3. QED BY <1>1, <2>1, <2>4, <3>1, <3>2, WalkStops
  <2>5. CASE ~(reply[c].status >= 400) /\ reply[c].body # <<>>
    <3>1. /\ listed' = [listed EXCEPT ![c] = @ \o reply[c].body]
          /\ walk' = [walk EXCEPT ![c].pages = @ + 1]
          /\ stage' = [stage EXCEPT ![c] = "sending"] /\ UNCHANGED outcome
      BY <1>4, <2>5 DEF Remote!ReceivePage
    <3>2. Coming(c)
      BY <2>1, <2>2, <2>5 DEF Coming
    <3>3. QED BY <1>1, <2>1, <3>1, <3>2, WalkGoesOn
  <2>6. QED BY <2>3, <2>4, <2>5
<1>5. ASSUME NEW c \in Clients, Remote!Receive(c)
      PROVE  WalksKept'
  <2>1. /\ stage[c] = "waiting" /\ call[c].verb # "list" /\ UNCHANGED <<call, resource, table, reply, walk>>
        /\ \E result, found : /\ Remote!Finish(c, result)
                              /\ listed' = [listed EXCEPT ![c] = found]
    BY <1>5 DEF Remote!Receive, Remote!config
  <2>2. ASSUME NEW d \in Clients
        PROVE  WalkKept(d)'
    <3>1. CASE d = c
      BY <2>1, <3>1 DEF WalkKept, Remote!Walks
    <3>2. CASE d # c
      <4>1. /\ stage'[d] = stage[d] /\ listed'[d] = listed[d] /\ outcome'[d] = outcome[d] /\ WalkKept(d)
        BY <1>1, <2>1, <3>2 DEF RemoteTyped, WalksKept, Remote!Finish
      <4>2. QED BY <2>1, <4>1, WalkRests
    <3>3. QED BY <3>1, <3>2
  <2>3. listed' = [d \in Clients |-> listed'[d]] /\ UNCHANGED walk
    BY <2>1 DEF WalksKept
  <2>4. QED BY <2>2, <2>3 DEF WalksKept
<1>6. CASE UNCHANGED Remote!vars
  <2>1. UNCHANGED <<table, call, resource, stage, reply, listed, outcome, walk>>
    BY <1>6 DEF Remote!vars
  <2>2. \A d \in Clients : WalkKept(d)'
    BY <2>1, WalkRests DEF WalksKept
  <2>3. QED BY <2>1, <2>2 DEF WalksKept
<1>7. QED BY <1>2, <1>3, <1>4, <1>5, <1>6 DEF Remote!Next

\* No walk has begun.
LEMMA WalksBegin ==
    ASSUME Remote!Init
    PROVE  WalksKept
<1>1. /\ stage = [c \in Clients |-> IF call[c].verb = "none" THEN "done" ELSE "sending"]
      /\ listed = [c \in Clients |-> <<>>] /\ outcome = [c \in Clients |-> "none"]
      /\ walk = [c \in Clients |-> [begun |-> FALSE, pages |-> 0, always |-> {}, ever |-> {},
                                    deleted |-> FALSE, created |-> FALSE]]
  BY DEF Remote!Init
<1>2. walk \in [Clients -> [begun : BOOLEAN, pages : Nat, always : SUBSET Ids, ever : SUBSET Ids,
                           deleted : BOOLEAN, created : BOOLEAN]]
  BY <1>1
<1>3. ASSUME NEW c \in Clients, Remote!Walks(c)
      PROVE  WalkTyped(c) /\ WalkSound(c) /\ WalkWhole(c)
  <2>1. /\ stage[c] = "sending" /\ listed[c] = <<>> /\ outcome[c] = "none" /\ ~walk[c].begun
        /\ walk[c].ever = {}
    BY <1>1, <1>3 DEF Remote!Walks
  <2>2. ~Coming(c) /\ Yielded(c) = <<>>
    BY <2>1 DEF Coming, Yielded
  <2>3. <<>> \in Seq(Ids) /\ Len(<<>>) = 0 /\ DOMAIN <<>> = {} /\ Cardinality({}) = 0
    BY EmptySeq, FS_EmptySet
  <2>4. Remote!Range(<<>>) = {}
    BY <2>3 DEF Remote!Range
  <2>5. QED BY <2>1, <2>2, <2>3, <2>4 DEF WalkTyped, WalkSound, WalkWhole
<1>4. QED BY <1>1, <1>2, <1>3 DEF WalksKept, WalkKept

\* The invariant is more than what is promised.
LEMMA WalksAreFaithful ==
    ASSUME WalksKept
    PROVE  ListingFaithful
<1>1. ASSUME NEW c \in Clients, Remote!Walks(c)
      PROVE  /\ Remote!Range(listed[c]) \subseteq walk[c].ever
             /\ Len(listed[c]) <= Remote!Cardinality(walk[c].ever)
             /\ ~walk[c].created => Remote!IsInjective(listed[c])
             /\ outcome[c] = "ok" /\ ~walk[c].deleted => walk[c].always \subseteq Remote!Range(listed[c])
  <2> DEFINE S == Remote!Present(table)
             L == listed[c]
             w == walk[c]
  <2>1. WalkTyped(c) /\ WalkSound(c) /\ WalkWhole(c) /\ L \in Seq(Ids)
    BY <1>1 DEF WalksKept, WalkKept, WalkTyped
  <2>2. /\ Len(L) \in Nat /\ Len(Yielded(c)) \in Nat /\ Len(L) <= Len(Yielded(c))
        /\ Remote!Range(L) \subseteq Remote!Range(Yielded(c))
        /\ Advances(Yielded(c), S) => Advances(L, S)
    <3>1. CASE stage[c] = "waiting"
      BY <1>1, <2>1, <3>1, WalkKnown, LenProperties
    <3>2. CASE stage[c] # "waiting"
      <4>1. Yielded(c) = L
        BY <3>2 DEF Yielded, Coming
      <4>2. Len(L) \in Nat /\ Len(L) <= Len(L)
        BY <2>1, LenProperties
      <4>3. QED BY <4>1, <4>2
    <3>3. QED BY <3>1, <3>2
  <2>3. Len(L) <= Cardinality(w.ever)
    <3>1. w.ever \in SUBSET Ids
      BY DEF WalksKept
    <3>2. Len(Yielded(c)) <= Cardinality(w.ever) /\ Cardinality(w.ever) \in Nat
      BY <2>1, <3>1, SomeKeys DEF WalkSound
    <3>3. QED BY <2>2, <3>2
  <2>4. ASSUME ~w.created PROVE Remote!IsInjective(L)
    <3>1. CASE w.begun
      <4>1. Advances(L, S)
        BY <2>1, <2>2, <2>4, <3>1 DEF WalkSound
      <4>2. \A i \in DOMAIN L : i \in Int /\ L[i] \in Int
        <5>1. DOMAIN L = 1..Len(L) /\ \A i \in 1..Len(L) : L[i] \in Ids
          BY <2>1, LenProperties, ElementOfSeq
        <5>2. Ids \subseteq Int
          BY CallsAssumption DEF Remote!CallsMakeSense
        <5>3. \A i \in 1..Len(L) : i \in Int
          BY <2>2
        <5>4. QED BY <5>1, <5>2, <5>3
      <4>3. \A i, j \in DOMAIN L : i < j => L[i] < L[j]
        BY <4>1 DEF Advances
      <4>4. \A i, j \in DOMAIN L : L[i] = L[j] => i = j
        BY <4>2, <4>3
      <4>5. QED BY <4>4 DEF Remote!IsInjective
    <3>2. CASE ~w.begun
      <4>1. L = <<>> /\ DOMAIN <<>> = {}
        BY <2>1, <3>2 DEF WalkTyped
      <4>2. QED BY <4>1 DEF Remote!IsInjective
    <3>3. QED BY <3>1, <3>2
  <2>5. outcome[c] = "ok" /\ ~w.deleted => w.always \subseteq Remote!Range(L)
    <3>1. CASE w.begun
      BY <2>1, <3>1 DEF WalkWhole
    <3>2. CASE ~w.begun
      BY <2>1, <3>2 DEF WalkTyped
    <3>3. QED BY <3>1, <3>2
  <2>6. QED BY <2>1, <2>2, <2>3, <2>4, <2>5, SameSize DEF WalkSound
<1>2. QED BY <1>1 DEF ListingFaithful, Remote!ListingFaithful

\* What is kept of every walk by offsets, whatever its table becomes between two pages:
\* where each key listed stands, and where each one that is still to be listed does
\* (flama.ddd.repositories.http, flama.pagination.paginators.limit_offset).
THEOREM WalksAre == Remote!Spec => []WalksKept
<1>1. Remote!Init => RemoteInv /\ WalksKept
  BY RemoteBegins, WalksBegin
<1>2. RemoteInv /\ WalksKept /\ [Remote!Next]_(Remote!vars) => (RemoteInv /\ WalksKept)'
  BY RemoteKeeps, StepWalks
<1>3. QED BY <1>1, <1>2, PTL DEF Remote!Spec

\* A walk by offsets that ended well listed every element that was there all along if
\* none was deleted meanwhile, none twice if none was created, never one that was not
\* there, and no more than there were, for any tables, page sizes, clients and calls.
THEOREM WalksFaithful == Remote!Spec => []ListingFaithful
  BY WalksAre, WalksAreFaithful, PTL

-----------------------------------------------------------------------------
(* What a search finds *)

\* Operators that compare numbers.
NumberOperators == {"eq", "gt", "gte", "lt", "lte", "in", "isnull"}

\* A value as it was written.
Written(r) ==
    /\ r.negated \in BOOLEAN
    /\ r = [column |-> r.column, negated |-> r.negated, head |-> r.head, tail |-> r.tail]

\* A clause that was read of a value.
Read(f, r) == Head(Remote!Parse(f, r))

LEMMA Reads ==
    ASSUME NEW f, f.operators \cap Remote!TextOperators = {}, NEW r, r.negated \in BOOLEAN,
           Remote!Parse(f, r) # Remote!Refused
    PROVE  /\ Remote!Parse(f, r) = <<Read(f, r)>>
           /\ Read(f, r) = [operator |-> Read(f, r).operator, negated |-> r.negated, value |-> Read(f, r).value]
           /\ Read(f, r).operator \in NumberOperators
           /\ Read(f, r).operator = "in" <=> r.head = "in"
           /\ Read(f, r).operator = "isnull" <=> r.head = "isnull"
           /\ r.tail = Remote!None /\ r.head \in DOMAIN Remote!NumberIn =>
                Read(f, r).operator = "eq" /\ Read(f, r).value = {Remote!NumberIn[r.head]}
<1>1. DOMAIN Remote!OPERATORS = NumberOperators \cup Remote!TextOperators
  BY DEF Remote!OPERATORS, NumberOperators
<1>2. \A o, n, v : /\ Remote!Clause(o, n, v) = <<[operator |-> o, negated |-> n, value |-> v]>>
                   /\ Head(Remote!Clause(o, n, v)) = [operator |-> o, negated |-> n, value |-> v]
  BY DEF Remote!Clause
<1>3. \A o, n, x : Remote!ValueClause(o, n, x) # Remote!Refused =>
         Remote!ValueClause(o, n, x) = Remote!Clause(o, n, {Remote!NumberIn[x]})
  BY DEF Remote!ValueClause
<1>4. DOMAIN Remote!NumberIn = {"1", "2", "3"}
  BY DEF Remote!NumberIn
<1>5. DOMAIN Remote!NumberIn \cap (NumberOperators \cup Remote!TextOperators) = {}
  BY <1>4 DEF NumberOperators, Remote!TextOperators
<1>6. CASE r.head \notin DOMAIN Remote!OPERATORS
  <2>1. Remote!Parse(f, r) = Remote!ValueClause("eq", r.negated, r.head)
    BY <1>6 DEF Remote!Parse
  <2>2. Remote!Parse(f, r) = Remote!Clause("eq", r.negated, {Remote!NumberIn[r.head]})
    BY <1>3, <2>1
  <2>3. Read(f, r) = [operator |-> "eq", negated |-> r.negated, value |-> {Remote!NumberIn[r.head]}]
    BY <1>2, <2>2 DEF Read
  <2>4. r.head # "in" /\ r.head # "isnull"
    BY <1>1, <1>6 DEF NumberOperators
  <2>5. /\ Read(f, r).operator = "eq" /\ Read(f, r).negated = r.negated
        /\ Read(f, r).value = {Remote!NumberIn[r.head]}
    BY <2>3
  <2>6. Remote!Parse(f, r) = <<Read(f, r)>>
    BY <1>2, <2>2, <2>3
  <2>7. "eq" \in NumberOperators /\ "eq" # "in" /\ "eq" # "isnull"
    BY DEF NumberOperators
  <2>8. QED BY <2>3, <2>4, <2>5, <2>6, <2>7
<1>7. CASE r.head \in DOMAIN Remote!OPERATORS
  <2>1. r.head \in f.operators /\ r.head \in NumberOperators
    BY <1>1, <1>7 DEF Remote!Parse
  <2>2. \E v : Remote!Parse(f, r) = Remote!Clause(r.head, r.negated, v)
    <3>1. \/ Remote!Parse(f, r) = Remote!ValueClause(r.head, r.negated, r.tail)
          \/ Remote!Parse(f, r) = Remote!Clause(r.head, r.negated, {})
      BY <1>7 DEF Remote!Parse
    <3>2. \/ Remote!Parse(f, r) = Remote!Clause(r.head, r.negated, {Remote!NumberIn[r.tail]})
          \/ Remote!Parse(f, r) = Remote!Clause(r.head, r.negated, {})
      BY <1>3, <3>1
    <3>3. QED BY <3>2
  <2>3. PICK v : Remote!Parse(f, r) = Remote!Clause(r.head, r.negated, v)
    BY <2>2
  <2>4. Read(f, r) = [operator |-> r.head, negated |-> r.negated, value |-> v]
    BY <1>2, <2>3 DEF Read
  <2>5. r.head \notin DOMAIN Remote!NumberIn
    BY <1>5, <2>1
  <2>6. QED BY <1>2, <2>1, <2>3, <2>4, <2>5
<1>8. QED BY <1>6, <1>7

\* The sign is nothing but a sign.
LEMMA ReadSigned ==
    ASSUME NEW f, f.operators \cap Remote!TextOperators = {}, NEW r, Written(r),
           Remote!Parse(f, r) # Remote!Refused, NEW sign \in BOOLEAN
    PROVE  /\ Remote!Parse(f, [r EXCEPT !.negated = sign]) # Remote!Refused
           /\ Read(f, [r EXCEPT !.negated = sign])
                = [operator |-> Read(f, r).operator, negated |-> sign, value |-> Read(f, r).value]
<1> DEFINE q == [r EXCEPT !.negated = sign]
<1>1. q.head = r.head /\ q.tail = r.tail /\ q.negated = sign
  BY DEF Written
<1> HIDE DEF q
<1>2. \A o, n, v : /\ Remote!Clause(o, n, v) = <<[operator |-> o, negated |-> n, value |-> v]>>
                   /\ Head(Remote!Clause(o, n, v)) = [operator |-> o, negated |-> n, value |-> v]
                   /\ Remote!Clause(o, n, v) # Remote!Refused
  BY DEF Remote!Clause, Remote!Refused
<1>3. \A o, n, x : \/ \A m : Remote!ValueClause(o, m, x) = Remote!Refused
                   \/ \A m : Remote!ValueClause(o, m, x) = Remote!Clause(o, m, {Remote!NumberIn[x]})
  BY DEF Remote!ValueClause
<1>4. \E o, v : /\ Remote!Parse(f, r) = Remote!Clause(o, r.negated, v)
                 /\ Remote!Parse(f, q) = Remote!Clause(o, sign, v)
  <2>1. CASE r.head \notin DOMAIN Remote!OPERATORS
    <3>1. /\ Remote!Parse(f, r) = Remote!ValueClause("eq", r.negated, r.head)
          /\ Remote!Parse(f, q) = Remote!ValueClause("eq", sign, r.head)
      BY <1>1, <2>1 DEF Remote!Parse
    <3>2. /\ Remote!Parse(f, r) = Remote!Clause("eq", r.negated, {Remote!NumberIn[r.head]})
          /\ Remote!Parse(f, q) = Remote!Clause("eq", sign, {Remote!NumberIn[r.head]})
      BY <1>3, <3>1
    <3>3. QED BY <3>2
  <2>2. CASE r.head \in DOMAIN Remote!OPERATORS
    <3>1. \/ /\ Remote!Parse(f, r) = Remote!ValueClause(r.head, r.negated, r.tail)
             /\ Remote!Parse(f, q) = Remote!ValueClause(r.head, sign, r.tail)
          \/ /\ Remote!Parse(f, r) = Remote!Clause(r.head, r.negated, {})
             /\ Remote!Parse(f, q) = Remote!Clause(r.head, sign, {})
      BY <1>1, <2>2 DEF Remote!Parse
    <3>2. CASE /\ Remote!Parse(f, r) = Remote!ValueClause(r.head, r.negated, r.tail)
               /\ Remote!Parse(f, q) = Remote!ValueClause(r.head, sign, r.tail)
      <4>1. /\ Remote!Parse(f, r) = Remote!Clause(r.head, r.negated, {Remote!NumberIn[r.tail]})
            /\ Remote!Parse(f, q) = Remote!Clause(r.head, sign, {Remote!NumberIn[r.tail]})
        BY <1>3, <3>2
      <4>2. QED BY <4>1
    <3>3. QED BY <3>1, <3>2
  <2>3. QED BY <2>1, <2>2
<1>5. QED BY <1>2, <1>4 DEF Read, q

\* What a clause keeps.
LEMMA Keeping ==
    ASSUME NEW c, c.operator \in NumberOperators, c.negated \in BOOLEAN, NEW cell
    PROVE  Remote!Keeps(c, cell) <=>
             (c.operator = "isnull" \/ cell # Remote!Null) /\ (Remote!Holds(c, cell) <=> ~c.negated)
<1>1. Remote!Holds(c, cell) \in BOOLEAN
  <2>1. CASE c.operator = "isnull"
    BY <2>1 DEF Remote!Holds
  <2>2. CASE c.operator \in {"eq", "in"}
    <3>1. Remote!Holds(c, cell) = (cell \in c.value)
      BY <2>2 DEF Remote!Holds, Remote!Compared
    <3>2. (cell \in c.value) \in BOOLEAN
      OBVIOUS
    <3>3. QED BY <3>1, <3>2
  <2>3. CASE c.operator = "gt"
    BY <2>3 DEF Remote!Holds, Remote!Compared
  <2>4. CASE c.operator = "gte"
    BY <2>4 DEF Remote!Holds, Remote!Compared
  <2>5. CASE c.operator = "lt"
    BY <2>5 DEF Remote!Holds, Remote!Compared
  <2>6. CASE c.operator = "lte"
    BY <2>6 DEF Remote!Holds, Remote!Compared
  <2>7. QED BY <2>1, <2>2, <2>3, <2>4, <2>5, <2>6 DEF NumberOperators
<1>2. (Remote!Holds(c, cell) # c.negated) <=> (Remote!Holds(c, cell) <=> ~c.negated)
  BY <1>1
<1>3. QED BY <1>2 DEF Remote!Keeps, Remote!Unknown

\* A value offered together with others.
Offered(r) == r.head = "in" /\ ~r.negated

\* What the clauses of one column keep: what every value keeps alone, and one of the
\* values that are offered together.
LEMMA ColumnKeeps ==
    ASSUME NEW f, f.operators \cap Remote!TextOperators = {}, NEW raws,
           \A i \in DOMAIN raws : raws[i].negated \in BOOLEAN
    PROVE  /\ Remote!Clauses(f, raws) # Remote!Refused <=>
                \A i \in DOMAIN raws : Remote!Parse(f, raws[i]) # Remote!Refused
           /\ Remote!Clauses(f, raws) # Remote!Refused => \A cell :
                (\A p \in Head(Remote!Clauses(f, raws)) : Remote!Keeps(p, cell)) <=>
                  /\ \A i \in DOMAIN raws : ~Offered(raws[i]) => Remote!Keeps(Read(f, raws[i]), cell)
                  /\ \A i \in DOMAIN raws : Offered(raws[i]) =>
                       \E j \in DOMAIN raws : Offered(raws[j]) /\ Remote!Keeps(Read(f, raws[j]), cell)
<1> DEFINE parsed == {Remote!Parse(f, raws[i]) : i \in DOMAIN raws}
           read == {Head(p) : p \in parsed \ {Remote!Refused}}
           offered == {p \in read : Remote!OPERATORS[p.operator].aggregate}
           Joined(p) == UNION {q.value : q \in {r \in offered : r.negated = p.negated}}
           result == (read \ offered) \cup {[p EXCEPT !.value = Joined(p)] : p \in offered}
<1>1. Remote!Clauses(f, raws) = IF Remote!Refused \in parsed THEN Remote!Refused ELSE <<result>>
  BY DEF Remote!Clauses
<1>2. Remote!Refused \in parsed <=> \E i \in DOMAIN raws : Remote!Parse(f, raws[i]) = Remote!Refused
  OBVIOUS
<1>3. <<result>> # Remote!Refused /\ Head(<<result>>) = result
  <2> HIDE DEF result
  <2>1. QED BY DEF Remote!Refused
<1> HIDE DEF result
<1>4. ASSUME \A i \in DOMAIN raws : Remote!Parse(f, raws[i]) # Remote!Refused, NEW cell
      PROVE  (\A p \in result : Remote!Keeps(p, cell)) <=>
                  /\ \A i \in DOMAIN raws : ~Offered(raws[i]) => Remote!Keeps(Read(f, raws[i]), cell)
                  /\ \A i \in DOMAIN raws : Offered(raws[i]) =>
                       \E j \in DOMAIN raws : Offered(raws[j]) /\ Remote!Keeps(Read(f, raws[j]), cell)
  <2>1. /\ \A i \in DOMAIN raws : Read(f, raws[i]) \in read
        /\ \A p \in read : \E i \in DOMAIN raws : p = Read(f, raws[i])
    BY <1>4 DEF Read
  <2>2. \A i \in DOMAIN raws :
          LET p == Read(f, raws[i])
          IN  /\ p = [operator |-> p.operator, negated |-> raws[i].negated, value |-> p.value]
              /\ p.operator \in NumberOperators
              /\ p.operator = "in" <=> raws[i].head = "in"
    BY <1>4, Reads
  <2> HIDE DEF read, parsed
  <2>3. \A p \in read : /\ p = [operator |-> p.operator, negated |-> p.negated, value |-> p.value]
                        /\ p.negated \in BOOLEAN /\ p.operator \in NumberOperators
    BY <2>1, <2>2
  <2>4. \A o \in NumberOperators : Remote!OPERATORS[o].aggregate <=> o = "in"
    BY DEF Remote!OPERATORS, Remote!Operator, NumberOperators
  <2>5. offered = {p \in read : p.operator = "in"}
    BY <2>3, <2>4
  <2> HIDE DEF offered
  <2>6. ASSUME NEW p \in offered
        PROVE  /\ Remote!Keeps(p, cell) <=> cell # Remote!Null /\ (cell \in p.value <=> ~p.negated)
               /\ Remote!Keeps([p EXCEPT !.value = Joined(p)], cell) <=>
                    cell # Remote!Null /\ (cell \in Joined(p) <=> ~p.negated)
    <3> DEFINE q == [p EXCEPT !.value = Joined(p)]
    <3>1. /\ p = [operator |-> "in", negated |-> p.negated, value |-> p.value]
          /\ p.operator = "in" /\ p.negated \in BOOLEAN
      BY <2>3, <2>5
    <3>2. q = [operator |-> "in", negated |-> p.negated, value |-> Joined(p)]
      <4> HIDE DEF Joined
      <4>1. QED BY <3>1
    <3>3. \A c : c.operator = "in" => Remote!Holds(c, cell) = (cell \in c.value)
      BY DEF Remote!Holds, Remote!Compared
    <3>4. /\ Remote!Keeps(p, cell) <=> cell # Remote!Null /\ (Remote!Holds(p, cell) <=> ~p.negated)
          /\ Remote!Holds(p, cell) = (cell \in p.value)
      BY <3>1, <3>3, Keeping DEF NumberOperators
    <3> HIDE DEF Joined
    <3>5. q.operator = "in" /\ q.negated = p.negated /\ q.value = Joined(p)
      BY <3>2
    <3> HIDE DEF q
    <3>6. /\ Remote!Keeps(q, cell) <=> cell # Remote!Null /\ (Remote!Holds(q, cell) <=> ~q.negated)
          /\ Remote!Holds(q, cell) = (cell \in q.value)
      BY <3>1, <3>3, <3>5, Keeping DEF NumberOperators
    <3>7. QED BY <3>4, <3>5, <3>6 DEF q
  <2>7. (\A p \in result : Remote!Keeps(p, cell)) <=>
          /\ \A p \in read \ offered : Remote!Keeps(p, cell)
          /\ \A p \in offered : Remote!Keeps([p EXCEPT !.value = Joined(p)], cell)
    <3> HIDE DEF Joined
    <3>1. QED BY DEF result
  <2>8. ASSUME NEW p \in offered, p.negated
        PROVE  (cell # Remote!Null /\ (cell \in Joined(p) <=> ~p.negated)) <=>
               \A q \in offered : q.negated => Remote!Keeps(q, cell)
    <3>1. \A q \in offered : q.negated => (q.negated = p.negated)
      BY <2>3, <2>5, <2>8
    <3>2. \A q \in offered : (q.negated = p.negated) => q.negated
      BY <2>8
    <3>3. cell \in Joined(p) <=> \E q \in offered : q.negated = p.negated /\ cell \in q.value
      OBVIOUS
    <3> HIDE DEF Joined
    <3>4. QED BY <2>6, <2>8, <3>1, <3>2, <3>3
  <2>9. ASSUME NEW p \in offered, ~p.negated
        PROVE  (cell # Remote!Null /\ (cell \in Joined(p) <=> ~p.negated)) <=>
               \E q \in offered : ~q.negated /\ Remote!Keeps(q, cell)
    <3>1. \A q \in offered : ~q.negated => (q.negated = p.negated)
      BY <2>3, <2>5, <2>9
    <3>2. \A q \in offered : (q.negated = p.negated) => ~q.negated
      BY <2>9
    <3>3. cell \in Joined(p) <=> \E q \in offered : q.negated = p.negated /\ cell \in q.value
      OBVIOUS
    <3> HIDE DEF Joined
    <3>4. QED BY <2>6, <2>9, <3>1, <3>2, <3>3
  <2>10. (\A p \in result : Remote!Keeps(p, cell)) <=>
           /\ \A p \in read : ~(p.operator = "in" /\ ~p.negated) => Remote!Keeps(p, cell)
           /\ \A p \in read : p.operator = "in" /\ ~p.negated =>
                \E q \in read : q.operator = "in" /\ ~q.negated /\ Remote!Keeps(q, cell)
    <3> HIDE DEF Joined
    <3>1. QED BY <2>5, <2>6, <2>7, <2>8, <2>9
  <2>11. \A i \in DOMAIN raws : LET p == Read(f, raws[i]) IN Offered(raws[i]) <=> p.operator = "in" /\ ~p.negated
    BY <2>2 DEF Offered
  <2>12. QED BY <2>1, <2>10, <2>11
<1>5. QED BY <1>1, <1>2, <1>3, <1>4

\* The values asked of the columns that can be searched.
Raws(F, asked) ==
    {r \in UNION {{asked[n][i] : i \in DOMAIN asked[n]} : n \in DOMAIN asked} : r.column \in DOMAIN F}

\* The filters of a class whose column holds numbers, and what may be asked of them.
Numeric(F) == \A n \in DOMAIN F : F[n].operators \cap Remote!TextOperators = {}
Askable(asked) ==
    /\ DOMAIN asked \cap Remote!Reserved = {}
    /\ \A n \in DOMAIN asked : \A i \in DOMAIN asked[n] : Written(asked[n][i]) /\ asked[n][i].column = n

LEMMA RawsAre ==
    ASSUME NEW F, NEW asked, Askable(asked)
    PROVE  /\ \A r \in Raws(F, asked) :
                /\ Written(r) /\ r.column \in DOMAIN F /\ r.column \in DOMAIN asked
                /\ \E i \in DOMAIN asked[r.column] : asked[r.column][i] = r
           /\ \A n \in DOMAIN asked \cap DOMAIN F : \A i \in DOMAIN asked[n] :
                asked[n][i] \in Raws(F, asked) /\ asked[n][i].column = n /\ Written(asked[n][i])
<1>1. ASSUME NEW r \in Raws(F, asked)
      PROVE  /\ Written(r) /\ r.column \in DOMAIN F /\ r.column \in DOMAIN asked
             /\ \E i \in DOMAIN asked[r.column] : asked[r.column][i] = r
  <2>1. PICK n \in DOMAIN asked : r \in {asked[n][i] : i \in DOMAIN asked[n]}
    BY DEF Raws
  <2>2. PICK i \in DOMAIN asked[n] : r = asked[n][i]
    BY <2>1
  <2>3. Written(r) /\ r.column = n
    BY <2>2 DEF Askable
  <2>4. r.column \in DOMAIN F
    BY DEF Raws
  <2>5. QED BY <2>2, <2>3, <2>4
<1>2. ASSUME NEW n \in DOMAIN asked \cap DOMAIN F, NEW i \in DOMAIN asked[n]
      PROVE  asked[n][i] \in Raws(F, asked) /\ asked[n][i].column = n /\ Written(asked[n][i])
  BY DEF Raws, Askable
<1>3. QED BY <1>1, <1>2

\* What the clauses of all the columns keep.
LEMMA SearchKeeps ==
    ASSUME NEW F, Numeric(F), NEW asked, Askable(asked), NEW t,
           Remote!AllClauses(F, asked) # Remote!Refused
    PROVE  /\ \A r \in Raws(F, asked) : Remote!Parse(F[r.column], r) # Remote!Refused
           /\ \A k \in Remote!Present(t) :
                k \in Remote!Matching(t, Head(Remote!AllClauses(F, asked))) <=>
                  /\ \A r \in Raws(F, asked) : ~Offered(r) => Remote!Keeps(Read(F[r.column], r), t[k])
                  /\ \A r \in Raws(F, asked) : Offered(r) =>
                       \E q \in Raws(F, asked) :
                          q.column = r.column /\ Offered(q) /\ Remote!Keeps(Read(F[q.column], q), t[k])
<1> DEFINE columns == DOMAIN F \cap DOMAIN asked
           R == Raws(F, asked)
           of == [c \in columns |-> Remote!Clauses(F[c], asked[c])]
           all == UNION {{<<c, p>> : p \in Head(of[c])} : c \in columns}
<1>1. Remote!FilterParameters(F) \cap DOMAIN asked = columns
  BY DEF Remote!FilterParameters, Askable
<1>2. Remote!AllClauses(F, asked) = IF \E c \in columns : of[c] = Remote!Refused THEN Remote!Refused ELSE <<all>>
  BY <1>1 DEF Remote!AllClauses
<1>3. (\A c \in columns : Remote!Clauses(F[c], asked[c]) # Remote!Refused) /\ Head(Remote!AllClauses(F, asked)) = all
  BY <1>2
<1>4. \A c \in columns : /\ F[c].operators \cap Remote!TextOperators = {}
                         /\ \A i \in DOMAIN asked[c] : asked[c][i].negated \in BOOLEAN
  BY DEF Numeric, Askable, Written
<1>5. /\ \A r \in R : /\ r.column \in columns
                     /\ \E i \in DOMAIN asked[r.column] : asked[r.column][i] = r
      /\ \A c \in columns : \A i \in DOMAIN asked[c] : asked[c][i] \in R /\ asked[c][i].column = c
  BY RawsAre
<1>6. \A k : (\A p \in all : Remote!Keeps(p[2], t[k])) <=>
             \A c \in columns : \A p \in Head(Remote!Clauses(F[c], asked[c])) : Remote!Keeps(p, t[k])
  <2>1. \A c \in columns : of[c] = Remote!Clauses(F[c], asked[c])
    OBVIOUS
  <2> HIDE DEF of
  <2>2. ASSUME NEW k, \A p \in all : Remote!Keeps(p[2], t[k]), NEW c \in columns, NEW p \in Head(of[c])
        PROVE  Remote!Keeps(p, t[k])
    <3>1. <<c, p>> \in all /\ <<c, p>>[2] = p
      OBVIOUS
    <3>2. QED BY <2>2, <3>1
  <2>3. ASSUME NEW k, \A c \in columns : \A p \in Head(of[c]) : Remote!Keeps(p, t[k]), NEW q \in all
        PROVE  Remote!Keeps(q[2], t[k])
    <3>1. PICK c \in columns : q \in {<<c, p>> : p \in Head(of[c])}
      OBVIOUS
    <3>2. PICK p \in Head(of[c]) : q = <<c, p>>
      BY <3>1
    <3>3. QED BY <2>3, <3>2
  <2>4. QED BY <2>1, <2>2, <2>3
<1> HIDE DEF all, of, columns, R
<1>7. \A c \in columns : \A i \in DOMAIN asked[c] : Remote!Parse(F[c], asked[c][i]) # Remote!Refused
  BY <1>3, <1>4, ColumnKeeps
<1>8. \A c \in columns : \A cell :
        (\A p \in Head(Remote!Clauses(F[c], asked[c])) : Remote!Keeps(p, cell)) <=>
          /\ \A i \in DOMAIN asked[c] : ~Offered(asked[c][i]) => Remote!Keeps(Read(F[c], asked[c][i]), cell)
          /\ \A i \in DOMAIN asked[c] : Offered(asked[c][i]) =>
               \E j \in DOMAIN asked[c] : Offered(asked[c][j]) /\ Remote!Keeps(Read(F[c], asked[c][j]), cell)
  BY <1>3, <1>4, ColumnKeeps
<1>9. ASSUME NEW k \in Remote!Present(t)
      PROVE  k \in Remote!Matching(t, all) <=>
              \A c \in columns : \A p \in Head(Remote!Clauses(F[c], asked[c])) : Remote!Keeps(p, t[k])
  BY <1>6 DEF Remote!Matching
<1>10. ASSUME NEW k \in Remote!Present(t)
       PROVE  k \in Remote!Matching(t, all) <=>
                  /\ \A r \in R : ~Offered(r) => Remote!Keeps(Read(F[r.column], r), t[k])
                  /\ \A r \in R : Offered(r) =>
                       \E q \in R : q.column = r.column /\ Offered(q) /\ Remote!Keeps(Read(F[q.column], q), t[k])
  <2>1. (\A c \in columns : \A i \in DOMAIN asked[c] :
           ~Offered(asked[c][i]) => Remote!Keeps(Read(F[c], asked[c][i]), t[k]))
         <=> \A r \in R : ~Offered(r) => Remote!Keeps(Read(F[r.column], r), t[k])
    BY <1>5
  <2>2. (\A c \in columns : \A i \in DOMAIN asked[c] : Offered(asked[c][i]) =>
           \E j \in DOMAIN asked[c] : Offered(asked[c][j]) /\ Remote!Keeps(Read(F[c], asked[c][j]), t[k]))
         <=> \A r \in R : Offered(r) =>
               \E q \in R : q.column = r.column /\ Offered(q) /\ Remote!Keeps(Read(F[q.column], q), t[k])
    BY <1>5
  <2>3. QED BY <1>8, <1>9, <2>1, <2>2
<1>11. \A r \in R : Remote!Parse(F[r.column], r) # Remote!Refused
  BY <1>5, <1>7
<1>12. QED BY <1>3, <1>10, <1>11 DEF R

\* What a value alone finds.
LEMMA AloneFinds ==
    ASSUME NEW F, Numeric(F), NEW r, r.negated \in BOOLEAN, r.column \in DOMAIN F, NEW t,
           Remote!Parse(F[r.column], r) # Remote!Refused
    PROVE  /\ Remote!Clauses(F[r.column], <<r>>) # Remote!Refused
           /\ Remote!Matching(t, {<<r.column, p>> : p \in Head(Remote!Clauses(F[r.column], <<r>>))})
                = {k \in Remote!Present(t) : Remote!Keeps(Read(F[r.column], r), t[k])}
<1> DEFINE f == F[r.column]
           raws == <<r>>
           C == Head(Remote!Clauses(f, raws))
<1>1. f.operators \cap Remote!TextOperators = {}
  BY DEF Numeric
<1>2. DOMAIN raws = {1} /\ raws[1] = r
  OBVIOUS
<1> HIDE DEF raws, f
<1>3. Remote!Clauses(f, raws) # Remote!Refused
  BY <1>1, <1>2, ColumnKeeps DEF f
<1>4. \A cell : (\A p \in C : Remote!Keeps(p, cell)) <=> Remote!Keeps(Read(f, r), cell)
  <2>1. \A cell :
                (\A p \in Head(Remote!Clauses(f, raws)) : Remote!Keeps(p, cell)) <=>
                  /\ \A i \in DOMAIN raws : ~Offered(raws[i]) => Remote!Keeps(Read(f, raws[i]), cell)
                  /\ \A i \in DOMAIN raws : Offered(raws[i]) =>
                       \E j \in DOMAIN raws : Offered(raws[j]) /\ Remote!Keeps(Read(f, raws[j]), cell)
    BY <1>1, <1>2, <1>3, ColumnKeeps
  <2>2. QED BY <1>2, <2>1
<1> HIDE DEF C
<1>5. \A k : (\A p \in {<<r.column, p>> : p \in C} : Remote!Keeps(p[2], t[k])) <=> Remote!Keeps(Read(f, r), t[k])
  <2>1. ASSUME NEW k, \A p \in {<<r.column, p>> : p \in C} : Remote!Keeps(p[2], t[k]), NEW p \in C
        PROVE  Remote!Keeps(p, t[k])
    <3>1. <<r.column, p>> \in {<<r.column, q>> : q \in C} /\ <<r.column, p>>[2] = p
      OBVIOUS
    <3>2. QED BY <2>1, <3>1
  <2>2. ASSUME NEW k, \A p \in C : Remote!Keeps(p, t[k]), NEW q \in {<<r.column, p>> : p \in C}
        PROVE  Remote!Keeps(q[2], t[k])
    <3>1. PICK p \in C : q = <<r.column, p>>
      OBVIOUS
    <3>2. QED BY <2>2, <3>1
  <2>3. QED BY <1>4, <2>1, <2>2
<1>6. QED BY <1>3, <1>5 DEF f, raws, C, Remote!Matching

\* What comes before another element in the order asked for.
Comes(t, order, k, l) ==
    IF order = Remote!None \/ t[k] = t[l] THEN k < l
    ELSE IF order = "desc" THEN t[k] > t[l] ELSE t[k] < t[l]
Ahead(t, order, S, k) == {l \in S : Comes(t, order, l, k)}

\* Any order that can be asked for is one.
LEMMA ComesOrders ==
    ASSUME NEW S \in SUBSET Ids, NEW t, \A k \in S : t[k] \in Int, NEW order
    PROVE  Orders(S, [x \in S |-> Ahead(t, order, S, x)])
<1> DEFINE B == [x \in S |-> Ahead(t, order, S, x)]
<1>1. \A x \in S : x \in Int /\ t[x] \in Int
  BY SomeKeys
<1>2. \A x \in S : ~Comes(t, order, x, x)
  BY <1>1 DEF Comes
<1>3. \A x, y \in S : x # y => Comes(t, order, x, y) \/ Comes(t, order, y, x)
  BY <1>1 DEF Comes
<1>4. \A x, y, z \in S : Comes(t, order, x, y) /\ Comes(t, order, z, x) => Comes(t, order, z, y)
  BY <1>1 DEF Comes
<1>5. \A x, y \in S : x \in B[y] <=> Comes(t, order, x, y)
  BY DEF Ahead
<1>6. B \in [S -> SUBSET S]
  BY DEF Ahead
<1> HIDE DEF B
<1>7. \A x, y \in S : x \in B[y] => B[x] \subseteq B[y]
  BY <1>4, <1>5, <1>6
<1>8. QED BY <1>2, <1>3, <1>5, <1>6, <1>7 DEF Orders, B

\* A list in the order asked for holds every key, with those that come before it before it.
LEMMA SortedOrders ==
    ASSUME NEW S \in SUBSET Ids, NEW t, \A k \in S : t[k] \in Int, NEW order
    PROVE  /\ Remote!Sorted(t, S, order) \in [1..Cardinality(S) -> S]
           /\ \A i \in 1..Cardinality(S) :
                Cardinality(Ahead(t, order, S, Remote!Sorted(t, S, order)[i])) = i - 1
           /\ \A x \in S : /\ Cardinality(Ahead(t, order, S, x)) \in 0..(Cardinality(S) - 1)
                           /\ Remote!Sorted(t, S, order)[Cardinality(Ahead(t, order, S, x)) + 1] = x
<1> DEFINE N == Cardinality(S)
           A(k) == Ahead(t, order, S, k)
           n(k) == Cardinality(A(k))
           B == [x \in S |-> A(x)]
           e == [i \in 1..N |-> CHOOSE k \in S : n(k) = i - 1]
<1>1. Remote!Sorted(t, S, order) = e
  BY DEF Remote!Sorted, Remote!InOrder, Remote!Cardinality, Cardinality, Ahead, Comes
<1>2. IsFiniteSet(S) /\ N \in Nat
  BY SomeKeys
<1>3. Orders(S, B)
  BY ComesOrders
<1>4. \A x \in S : B[x] = A(x)
  OBVIOUS
<1>5. \A x, y \in S : x # y => x \in B[y] \/ y \in B[x]
  BY <1>3 DEF Orders
<1> HIDE DEF A, B
<1>6. /\ \A x \in S : n(x) \in 0..(N - 1)
      /\ \A x, y \in S : x \in B[y] <=> n(x) < n(y)
      /\ \A i \in 1..N : \E x \in S : n(x) = i - 1
  <2>1. /\ \A x \in S : Cardinality(B[x]) \in 0..(N - 1)
        /\ \A x, y \in S : x \in B[y] <=> Cardinality(B[x]) < Cardinality(B[y])
        /\ \A i \in 1..N : \E x \in S : Cardinality(B[x]) = i - 1
    BY <1>2, <1>3, Ranks
  <2>2. QED BY <1>4, <2>1
<1> HIDE DEF n
<1>7. ASSUME NEW i \in 1..N
      PROVE  e[i] \in S /\ n(e[i]) = i - 1
  <2>1. e[i] = CHOOSE k \in S : n(k) = i - 1
    OBVIOUS
  <2>2. \E k \in S : n(k) = i - 1
    BY <1>6
  <2>3. QED BY <2>1, <2>2
<1>8. e \in [1..N -> S]
  BY <1>7
<1> HIDE DEF e
<1>9. ASSUME NEW x \in S
      PROVE  n(x) \in 0..(N - 1) /\ e[n(x) + 1] = x
  <2>1. n(x) \in 0..(N - 1) /\ n(x) + 1 \in 1..N /\ (n(x) + 1) - 1 = n(x)
    BY <1>2, <1>6
  <2>2. e[n(x) + 1] \in S /\ n(e[n(x) + 1]) = n(x)
    BY <1>7, <2>1
  <2>3. ~(n(x) < n(x))
    BY <2>1
  <2>4. QED BY <1>5, <1>6, <2>2, <2>3
<1>10. QED BY <1>1, <1>7, <1>8, <1>9 DEF n, A

\* Of two elements the first is the one that comes before the other.
LEMMA FirstOfTwo ==
    ASSUME NEW k \in Ids, NEW l \in Ids, k # l, NEW t, t[k] \in Int, t[l] \in Int, NEW order
    PROVE  Remote!Sorted(t, {k, l}, order)[1] = l <=> Comes(t, order, l, k)
<1> DEFINE S == {k, l}
           e == Remote!Sorted(t, S, order)
<1>1. S \in SUBSET Ids /\ \A x \in S : t[x] \in Int
  OBVIOUS
<1>2. Cardinality(S) = 2
  <2>1. IsFiniteSet({l}) /\ Cardinality({l}) = 1
    BY FS_Singleton
  <2>2. Cardinality({l} \cup {k}) = 1 + 1
    BY <2>1, FS_AddElement
  <2>3. S = {l} \cup {k}
    OBVIOUS
  <2>4. QED BY <2>2, <2>3
<1> HIDE DEF S
<1>3. /\ e \in [1..2 -> S]
      /\ \A i \in 1..2 : Cardinality(Ahead(t, order, S, e[i])) = i - 1
      /\ \A x \in S : Cardinality(Ahead(t, order, S, x)) \in 0..1 /\ e[Cardinality(Ahead(t, order, S, x)) + 1] = x
  <2>1. /\ e \in [1..Cardinality(S) -> S]
        /\ \A i \in 1..Cardinality(S) : Cardinality(Ahead(t, order, S, e[i])) = i - 1
        /\ \A x \in S : /\ Cardinality(Ahead(t, order, S, x)) \in 0..(Cardinality(S) - 1)
                        /\ e[Cardinality(Ahead(t, order, S, x)) + 1] = x
    BY <1>1, SortedOrders
  <2>2. 2 - 1 = 1
    OBVIOUS
  <2> HIDE DEF e
  <2>3. QED BY <1>2, <2>1, <2>2
<1> HIDE DEF e
<1>4. Orders(S, [x \in S |-> Ahead(t, order, S, x)])
  BY <1>1, ComesOrders
<1>5. /\ l \in Ahead(t, order, S, k) \/ k \in Ahead(t, order, S, l)
      /\ \A x \in S : x \notin Ahead(t, order, S, x) /\ Ahead(t, order, S, x) \subseteq S
      /\ k \in S /\ l \in S /\ S = {k, l}
  BY <1>4 DEF Orders, S
<1>6. ASSUME NEW x \in S, Ahead(t, order, S, x) = {}
      PROVE  e[1] = x
  BY <1>3, <1>6, FS_EmptySet
<1>7. CASE Comes(t, order, l, k)
  <2>1. l \in Ahead(t, order, S, k)
    BY <1>5, <1>7 DEF Ahead
  <2>2. Ahead(t, order, S, k) = {l}
    BY <1>5, <2>1
  <2>3. Cardinality(Ahead(t, order, S, k)) = 1
    BY <2>2, FS_Singleton
  <2>4. e[1] # k
    <3>1. Cardinality(Ahead(t, order, S, e[1])) = 0
      BY <1>3
    <3>2. QED BY <2>3, <3>1
  <2>5. e[1] = l
    BY <1>3, <1>5, <2>4
  <2>6. QED BY <1>7, <2>5 DEF e, S
<1>8. CASE ~Comes(t, order, l, k)
  <2>1. Ahead(t, order, S, k) = {}
    BY <1>5, <1>8 DEF Ahead
  <2>2. e[1] = k
    BY <1>5, <1>6, <2>1
  <2>3. QED BY <1>8, <2>2 DEF e, S
<1>9. QED BY <1>7, <1>8

\* A number is in the block its quotient tells.
LEMMA Blocks ==
    ASSUME NEW n \in Nat, NEW d \in Nat \ {0}, NEW q \in Nat
    PROVE  (n \div d = q) <=> (q * d <= n /\ n < (q + 1) * d)
  OBVIOUS

\* A slice is of places that are there, whatever its bounds.
LEMMA SliceIs ==
    ASSUME NEW e, Len(e) \in Nat, NEW from \in Int, NEW to \in Int
    PROVE  \E a, b \in 0..Len(e) :
             /\ Remote!PySlice(e, from, to) = SubSeq(e, a + 1, b)
             /\ from >= 0 => a = IF from <= Len(e) THEN from ELSE Len(e)
             /\ to >= 0 => b = IF to <= Len(e) THEN to ELSE Len(e)
<1> DEFINE N == Len(e)
           Bound(i) == IF i < 0 THEN Remote!Max({0, N + i}) ELSE Remote!Min({i, N})
<1>1. Remote!PySlice(e, from, to) = SubSeq(e, Bound(from) + 1, Bound(to))
  BY DEF Remote!PySlice
<1>2. N \in Nat
  OBVIOUS
<1> HIDE DEF N
<1>3. ASSUME NEW i \in Int
      PROVE  Bound(i) \in 0..N /\ (i >= 0 => Bound(i) = IF i <= N THEN i ELSE N)
  <2>1. CASE i < 0
    <3>1. Remote!Max({0, N + i}) = IF 0 <= N + i THEN N + i ELSE 0
      BY <1>2 DEF Remote!Max
    <3>2. QED BY <1>2, <2>1, <3>1
  <2>2. CASE i >= 0
    <3>1. Remote!Min({i, N}) = IF i <= N THEN i ELSE N
      BY <1>2 DEF Remote!Min
    <3>2. QED BY <1>2, <2>2, <3>1
  <2>3. QED BY <2>1, <2>2
<1> HIDE DEF Bound
<1>4. QED BY <1>1, <1>3 DEF N

\* A page holds what the list has in some places.
Taken(page, e, a, b) ==
    /\ \A i \in (a + 1)..b : e[i] \in Remote!Range(page)
    /\ \A x \in Remote!Range(page) : \E i \in (a + 1)..b : e[i] = x

\* What a slice of a list without repetition holds.
LEMMA SliceHolds ==
    ASSUME NEW N \in Nat, NEW S, NEW e \in [1..N -> S], \A i, j \in 1..N : e[i] = e[j] => i = j,
           NEW a \in 0..N, NEW b \in 0..N
    PROVE  /\ Remote!IsInjective(SubSeq(e, a + 1, b))
           /\ Taken(SubSeq(e, a + 1, b), e, a, b)
<1> DEFINE s == SubSeq(e, a + 1, b)
           n == IF a + 1 <= b THEN b - a ELSE 0
<1>1. s = [i \in 1..n |-> e[a + i]]
  <2>1. \A i \in (a + 1)..b : e[i] \in S
    OBVIOUS
  <2>2. /\ s \in Seq(S)
        /\ Len(s) = IF a + 1 <= b THEN b - (a + 1) + 1 ELSE 0
        /\ \A i \in 1..(b - (a + 1) + 1) : s[i] = e[(a + 1) + i - 1]
    BY <2>1, SubSeqProperties
  <2>3. DOMAIN s = 1..Len(s) /\ s = [i \in 1..Len(s) |-> s[i]]
    <3> HIDE DEF s
    <3>1. QED BY <2>2
  <2>4. Len(s) = n /\ n \in Nat
    BY <2>2
  <2>5. \A i \in 1..n : s[i] = e[a + i]
    <3>1. \A i \in 1..n : i \in 1..(b - (a + 1) + 1) /\ (a + 1) + i - 1 = a + i
      OBVIOUS
    <3>2. QED BY <2>2, <3>1
  <2> HIDE DEF s, n
  <2>6. QED BY <2>3, <2>4, <2>5
<1> HIDE DEF s
<1>2. n \in Nat /\ \A i \in 1..n : i \in Int /\ a + i \in 1..N /\ a + i \in (a + 1)..b
  OBVIOUS
<1>3. \A i \in (a + 1)..b : i - a \in 1..n /\ a + (i - a) = i
  OBVIOUS
<1> HIDE DEF n
<1>4. DOMAIN s = 1..n /\ \A i \in 1..n : s[i] = e[a + i]
  BY <1>1
<1>5. Remote!IsInjective(s)
  <2>1. ASSUME NEW i \in 1..n, NEW j \in 1..n, s[i] = s[j]
        PROVE  i = j
    <3>1. a + i = a + j
      BY <1>2, <1>4, <2>1
    <3>2. QED BY <1>2, <3>1
  <2>2. QED BY <1>4, <2>1 DEF Remote!IsInjective
<1>6. Taken(s, e, a, b)
  <2>1. \A i \in 1..n : \E j \in (a + 1)..b : e[j] = s[i]
    BY <1>2, <1>4
  <2>2. \A j \in (a + 1)..b : \E i \in 1..n : e[j] = s[i]
    BY <1>3, <1>4
  <2>3. QED BY <1>4, <2>1, <2>2 DEF Remote!Range, Taken
<1>7. QED BY <1>5, <1>6 DEF s

\* The elements with as many before them as tell the page.
OnPage(t, order, S, p) == {k \in S : Cardinality(Ahead(t, order, S, k)) \div PageSize = p - 1}

\* What a page of the list in the order asked for holds.
LEMMA PageHolds ==
    ASSUME NEW S \in SUBSET Ids, NEW t, \A k \in S : t[k] \in Int, NEW order, NEW p \in Int,
           NEW pagination \in {Remote!None, "page_number", "limit_offset"},
           NEW page, page = Remote!Page(pagination, Remote!Sorted(t, S, order), [page |-> p])
    PROVE  /\ Remote!IsInjective(page)
           /\ pagination = "page_number" /\ p > 0 =>
                Remote!Range(page) = OnPage(t, order, S, p)
<1> DEFINE N == Cardinality(S)
           e == Remote!Sorted(t, S, order)
           n(k) == Cardinality(Ahead(t, order, S, k))
<1>1. N \in Nat /\ PageSize \in Nat \ {0}
  BY SomeKeys, CallsAssumption DEF Remote!CallsMakeSense
<1>2. /\ e \in [1..N -> S]
      /\ \A i \in 1..N : n(e[i]) = i - 1
      /\ \A x \in S : n(x) \in 0..(N - 1) /\ e[n(x) + 1] = x
  BY SortedOrders
<1>3. page = Remote!Page(pagination, e, [page |-> p])
  OBVIOUS
<1> HIDE DEF N, e, n
<1>4. Len(e) = N /\ Len(e) \in Nat
  BY <1>1, <1>2
<1>5. \A i, j \in 1..N : e[i] = e[j] => i = j
  <2>1. \A i \in 1..N : i \in Int /\ n(e[i]) = i - 1
    BY <1>2
  <2>2. \A i, j \in 1..N : i - 1 = j - 1 => i = j
    OBVIOUS
  <2>3. QED BY <2>1, <2>2
<1>6. ASSUME NEW a \in 0..N, NEW b \in 0..N
       PROVE  /\ Remote!IsInjective(SubSeq(e, a + 1, b))
              /\ Taken(SubSeq(e, a + 1, b), e, a, b)
  <2>1. N \in Nat /\ e \in [1..N -> S]
    BY <1>1, <1>2
  <2>2. QED BY ONLY <1>5, <2>1, SliceHolds
<1>7. ASSUME NEW from \in Int, NEW to \in Int
      PROVE  Remote!IsInjective(Remote!PySlice(e, from, to))
  <2>1. PICK a, b \in 0..Len(e) : Remote!PySlice(e, from, to) = SubSeq(e, a + 1, b)
    BY <1>4, SliceIs
  <2>2. a \in 0..N /\ b \in 0..N
    BY <1>4
  <2>3. Remote!IsInjective(SubSeq(e, a + 1, b))
    BY <1>1, <1>2, <1>5, <2>2, SliceHolds
  <2>4. QED BY <2>1, <2>3
<1>8. CASE pagination = Remote!None
  <2>1. page = e
    <3>1. \A content, params : Remote!Page(Remote!None, content, params) = content
      BY DEF Remote!Page, Remote!None
    <3>2. QED BY <1>3, <1>8, <3>1
  <2>2. Remote!IsInjective(e)
    BY <1>2, <1>5 DEF Remote!IsInjective
  <2>3. Remote!None # "page_number"
    BY DEF Remote!None
  <2>4. QED BY <1>8, <2>1, <2>2, <2>3
<1>9. CASE pagination = "limit_offset"
  <2>1. page = Remote!PySlice(e, 0, 0 + PageSize)
    <3>1. DOMAIN [page |-> p] = {"page"}
      OBVIOUS
    <3>2. "offset" \notin {"page"} /\ "limit_offset" # Remote!None
      BY DEF Remote!None
    <3>3. QED BY <1>3, <1>9, <3>1, <3>2 DEF Remote!Page
  <2>2. 0 \in Int /\ 0 + PageSize \in Int
    BY <1>1
  <2>3. QED BY <1>7, <1>9, <2>1, <2>2
<1>10. CASE pagination = "page_number"
  <2> DEFINE from == (p - 1) * PageSize
             to == p * PageSize
  <2>1. page = Remote!PySlice(e, from, to)
    <3>1. DOMAIN [page |-> p] = {"page"} /\ [page |-> p].page = p /\ [page |-> p]["page"] = p
      OBVIOUS
    <3>2. "page_number" # Remote!None
      BY DEF Remote!None
    <3>3. QED BY <1>3, <1>10, <3>1, <3>2 DEF Remote!Page
  <2>2. from \in Int /\ to \in Int
    BY <1>1
  <2>3. Remote!IsInjective(page)
    BY <1>7, <2>1, <2>2
  <2>4. ASSUME p > 0
        PROVE  Remote!Range(page) = {k \in S : n(k) \div PageSize = p - 1}
    <3>1. from >= 0 /\ to >= 0 /\ p - 1 \in Nat /\ (p - 1) + 1 = p
      BY <1>1, <2>4
    <3>2. \A m \in Nat : m \div PageSize = p - 1 <=> from <= m /\ m < to
      <4>1. \A m \in Nat : m \div PageSize = p - 1 <=> (p - 1) * PageSize <= m /\ m < ((p - 1) + 1) * PageSize
        BY <1>1, <3>1, Blocks
      <4>2. QED BY <3>1, <4>1
    <3> HIDE DEF from, to
    <3>3. \E a, b \in 0..N :
            /\ page = SubSeq(e, a + 1, b)
            /\ a = IF from <= N THEN from ELSE N
            /\ b = IF to <= N THEN to ELSE N
      <4>1. PICK a, b \in 0..Len(e) :
              /\ Remote!PySlice(e, from, to) = SubSeq(e, a + 1, b)
              /\ from >= 0 => a = IF from <= Len(e) THEN from ELSE Len(e)
              /\ to >= 0 => b = IF to <= Len(e) THEN to ELSE Len(e)
        BY <1>4, <2>2, SliceIs
      <4>2. QED BY <1>4, <2>1, <3>1, <4>1
    <3>4. PICK a \in 0..N, b \in 0..N :
            /\ page = SubSeq(e, a + 1, b)
            /\ a = IF from <= N THEN from ELSE N
            /\ b = IF to <= N THEN to ELSE N
      BY <3>3
    <3>5. Taken(page, e, a, b)
      BY <1>6, <3>4
    <3>6. \A i \in (a + 1)..b : i \in 1..N /\ i - 1 \in Nat /\ from <= i - 1 /\ i - 1 < to
      BY <1>1, <2>2, <3>4
    <3>7. \A m \in 0..(N - 1) : from <= m /\ m < to => m + 1 \in (a + 1)..b
      BY <1>1, <2>2, <3>4
    <3>8. \A i \in (a + 1)..b : e[i] \in S /\ n(e[i]) \div PageSize = p - 1
      BY <1>2, <3>2, <3>6
    <3>9. \A k \in S : n(k) \div PageSize = p - 1 => \E i \in (a + 1)..b : e[i] = k
      <4>1. ASSUME NEW k \in S, n(k) \div PageSize = p - 1 PROVE \E i \in (a + 1)..b : e[i] = k
        <5>1. n(k) \in 0..(N - 1) /\ n(k) \in Nat /\ e[n(k) + 1] = k
          BY <1>1, <1>2
        <5>2. from <= n(k) /\ n(k) < to
          BY <3>2, <4>1, <5>1
        <5>3. QED BY <3>7, <5>1, <5>2
      <4>2. QED BY <4>1
    <3>10. QED BY <3>5, <3>8, <3>9 DEF Taken
  <2>5. QED BY <2>3, <2>4 DEF n, OnPage
<1>11. QED BY <1>8, <1>9, <1>10

\* A table of the column's cells.
Cellular(t) == t \in [Ids -> Cells \cup {Remote!Gone}]

\* What a search is answered well with, by the table it was made of.
Found(c, body) ==
    LET clauses == Remote!AllClauses(Head(resource.filters), call[c].filters)
    IN  /\ "list" \in DOMAIN resource.methods /\ clauses # Remote!Refused
        /\ body = Remote!Page(resource.methods["list"],
                              Remote!Sorted(before[c], Remote!Matching(before[c], Head(clauses)), call[c].order),
                              [page |-> call[c].page])

SearchKept(c) ==
    call[c].verb = "search" =>
        /\ Coming(c) => Found(c, reply[c].body)
        /\ stage[c] = "done" /\ outcome[c] = "ok" => Found(c, listed[c])

\* The inductive invariant of the searches.
SearchesKept ==
    /\ Cellular(table) /\ Remote!Listable(resource)
    /\ listed = [c \in Clients |-> listed[c]]
    /\ \A c \in Clients : Cellular(before[c]) /\ SearchKept(c)

\* An honest answer leaves cells of the column.
LEMMA HonestCells ==
    ASSUME NEW q, Remote!Asks(q), NEW old, Cellular(old), NEW a, Honest(q, old, a)
    PROVE  Cellular(a.rows)
<1> DEFINE new == a.rows
           Cell == Cells \cup {Remote!Gone}
           given == DOMAIN q.elements
<1>1. Rows(new)
  BY DEF Honest
<1>2. \A k \in Ids : old[k] \in Cell
  BY DEF Cellular
<1>3. CASE a.status >= 400
  BY <1>3 DEF Honest
<1>4. CASE a.status < 400
  <2>1. Remote!Did(q, old, new, a.body)
    BY <1>4 DEF Honest
  <2>2. \A keys : Remote!Without(old, keys) = Remote!Without(new, keys) =>
          \A k \in Ids \ keys : new[k] = old[k]
    <3>1. \A t, keys : \A k \in Ids \ keys : Remote!Without(t, keys)[k] = t[k]
      BY DEF Remote!Without
    <3>2. QED BY <3>1
  <2>3. \A k \in Ids : k \notin Remote!Present(new) => new[k] = Remote!Gone
    BY DEF Remote!Present
  <2> HIDE DEF new
  <2>4. CASE q.verb = "create"
    <3>1. q.cell \in Cells
      BY <2>4 DEF Remote!Asks
    <3>2. PICK j \in Ids : new = [old EXCEPT ![j] = q.cell]
      BY <2>1, <2>4 DEF Remote!Did
    <3>3. \A k \in Ids : new[k] \in Cell
      BY <1>2, <3>1, <3>2 DEF Cellular
    <3>4. QED BY <1>1, <3>3 DEF Cellular, Rows, new
  <2>5. CASE q.verb \in {"update", "partial_update"}
    <3>1. q.cell \in Cells
      BY <2>5 DEF Remote!Asks
    <3>2. new[q.id] = q.cell /\ \A k \in Ids \ {q.id} : new[k] = old[k]
      BY <2>1, <2>2, <2>5 DEF Remote!Did
    <3>3. \A k \in Ids : new[k] \in Cell
      BY <1>2, <3>1, <3>2
    <3>4. QED BY <1>1, <3>3 DEF Cellular, Rows, new
  <2>6. CASE q.verb = "delete"
    <3>1. new[q.id] = Remote!Gone /\ \A k \in Ids \ {q.id} : new[k] = old[k]
      BY <2>1, <2>2, <2>6 DEF Remote!Did
    <3>2. \A k \in Ids : new[k] \in Cell
      BY <1>2, <3>1
    <3>3. QED BY <1>1, <3>2 DEF Cellular, Rows, new
  <2>7. CASE q.verb = "replace"
    <3>1. /\ Remote!Present(new) = given /\ \A j \in given : new[j] = q.elements[j]
          /\ \A j \in given : q.elements[j] \in Cells
      BY <2>1, <2>7 DEF Remote!Did, Remote!Asks
    <3>2. \A k \in Ids : new[k] \in Cell
      BY <2>3, <3>1
    <3>3. QED BY <1>1, <3>2 DEF Cellular, Rows, new
  <2>8. CASE q.verb = "partial_replace"
    <3>1. /\ \A j \in given : new[j] = q.elements[j] /\ q.elements[j] \in Cells
          /\ Remote!Without(old, given) = Remote!Without(new, given)
      BY <2>1, <2>8 DEF Remote!Did, Remote!Asks
    <3>2. \A k \in Ids : new[k] \in Cell
      BY <1>2, <2>2, <3>1
    <3>3. QED BY <1>1, <3>2 DEF Cellular, Rows, new
  <2>9. CASE q.verb = "drop"
    <3>1. Remote!Present(new) = {}
      BY <2>1, <2>9 DEF Remote!Did
    <3>2. \A k \in Ids : new[k] \in Cell
      BY <2>3, <3>1
    <3>3. QED BY <1>1, <3>2 DEF Cellular, Rows, new
  <2>10. CASE q.verb \notin Writers
    <3>1. new = old
      BY <2>1, <2>10 DEF Remote!Did, Writers
    <3>2. QED BY <3>1 DEF new
  <2>11. QED BY <2>4, <2>5, <2>6, <2>7, <2>8, <2>9, <2>10 DEF Writers
<1>5. a.status \in Nat
  BY DEF Honest
<1>6. QED BY <1>3, <1>4, <1>5

\* A client that does nothing keeps its search.
LEMMA SearchRests ==
    ASSUME NEW c \in Clients, SearchKept(c), UNCHANGED <<call, resource>>,
           stage'[c] = stage[c], reply'[c] = reply[c], listed'[c] = listed[c], outcome'[c] = outcome[c],
           before'[c] = before[c]
    PROVE  SearchKept(c)'
<1>1. /\ call'[c].verb = call[c].verb
      /\ Coming(c)' <=> Coming(c)
      /\ Found(c, reply[c].body)' <=> Found(c, reply[c].body)
      /\ Found(c, listed[c])' <=> Found(c, listed[c])
  BY DEF Coming, Found
<1>2. QED BY <1>1 DEF SearchKept

\* The server answers.
LEMMA ServedSearches ==
    ASSUME SearchesKept, RemoteInv, RemoteInv', NEW c \in Clients, Remote!Served(c)
    PROVE  SearchesKept'
<1>1. PICK a : Remote!Serve(c, a)
  BY DEF Remote!Served, Remote!ServeCreate, Remote!ServeRetrieve,
         Remote!ServeUpdate, Remote!ServePartialUpdate, Remote!ServeDelete, Remote!ServeReplace,
         Remote!ServePartialReplace, Remote!ServeDrop, Remote!ServePage, Remote!ServeSearch, Remote!Reject
<1>2. /\ stage[c] = "sending" /\ stage' = [stage EXCEPT ![c] = "waiting"]
      /\ reply' = [reply EXCEPT ![c] = [status |-> a.status, body |-> a.body]]
      /\ table' = a.rows
      /\ before' = [before EXCEPT ![c] = table] /\ after' = [after EXCEPT ![c] = a.rows]
      /\ UNCHANGED <<call, resource, listed, outcome>>
  BY <1>1 DEF Remote!Serve, Remote!config
<1>3. /\ stage'[c] = "waiting" /\ before'[c] = table /\ after'[c] = table'
      /\ reply'[c].status = a.status /\ reply'[c].body = a.body
  BY <1>2 DEF RemoteInv, RemoteTyped
<1>4. \A d \in Clients : d # c => stage'[d] = stage[d] /\ reply'[d] = reply[d] /\ before'[d] = before[d]
  BY <1>2 DEF RemoteInv, RemoteTyped
<1>5. Cellular(table')
  <2> DEFINE b == [status |-> reply'[c].status, body |-> reply'[c].body, rows |-> after'[c]]
  <2>1. Remote!Asks(call[c]) /\ Honest(call[c], table, b)
    <3>1. Remote!Asks(call'[c]) /\ Honest(call'[c], before'[c], b)
      BY <1>3 DEF RemoteInv, Promised
    <3>2. QED BY <1>2, <1>3, <3>1
  <2>2. b.rows = table'
    BY <1>3
  <2> HIDE DEF b
  <2>3. Cellular(b.rows)
    BY <2>1, HonestCells DEF SearchesKept
  <2>4. QED BY <2>2, <2>3
<1>6. ASSUME NEW d \in Clients, d # c
      PROVE  Cellular(before'[d]) /\ SearchKept(d)'
  BY <1>2, <1>4, <1>6, SearchRests DEF SearchesKept
<1>7. SearchKept(c)'
  <2> SUFFICES ASSUME call[c].verb = "search", Coming(c)' PROVE Found(c, reply[c].body)'
    BY <1>2, <1>3 DEF SearchKept
  <2>1. Remote!ServeSearch(c) \/ Remote!Reject(c)
    BY DEF Remote!Served, Remote!Admitted, Remote!ServeCreate, Remote!ServeRetrieve,
           Remote!ServeUpdate, Remote!ServePartialUpdate, Remote!ServeDelete, Remote!ServeReplace,
           Remote!ServePartialReplace, Remote!ServeDrop, Remote!ServePage
  <2>2. ~Remote!Reject(c)
    <3>1. SUFFICES ASSUME Remote!Reject(c) PROVE FALSE
      OBVIOUS
    <3>2. PICK status \in {405, 400, 500} : Remote!Serve(c, Remote!Answered(status, Remote!NoBody, table))
      BY <3>1 DEF Remote!Reject
    <3> DEFINE b == Remote!Answered(status, Remote!NoBody, table)
    <3>3. b.status = status
      BY DEF Remote!Answered
    <3> HIDE DEF b
    <3>4. reply' = [reply EXCEPT ![c] = [status |-> b.status, body |-> b.body]]
      BY <3>2 DEF Remote!Serve, b
    <3>5. reply'[c].status = status
      BY <3>3, <3>4 DEF RemoteInv, RemoteTyped
    <3>6. ~(status < 400)
      BY <3>2
    <3>7. QED BY <3>5, <3>6 DEF Coming
  <2> DEFINE clauses == Remote!AllClauses(Head(resource.filters), call[c].filters)
             page == Remote!Page(resource.methods["list"],
                                 Remote!Sorted(table, Remote!Matching(table, Head(clauses)), call[c].order),
                                 [page |-> call[c].page])
             b == Remote!List(table, call[c].filters, call[c].order, [page |-> call[c].page])
  <2>3. "list" \in DOMAIN resource.methods /\ Remote!Serve(c, b)
    BY <2>1, <2>2 DEF Remote!ServeSearch
  <2>4. b = IF clauses = Remote!Refused THEN [status |-> 400, body |-> Remote!NoBody, rows |-> table]
            ELSE [status |-> 200, body |-> page, rows |-> table]
    BY DEF Remote!List, Remote!Answered
  <2> HIDE DEF b, page, clauses
  <2>5. reply' = [reply EXCEPT ![c] = [status |-> b.status, body |-> b.body]]
    BY <2>3 DEF Remote!Serve
  <2>6. reply'[c].status = b.status /\ reply'[c].body = b.body
    BY <2>5 DEF RemoteInv, RemoteTyped
  <2>7. clauses # Remote!Refused
    BY <2>4, <2>6 DEF Coming
  <2>8. reply'[c].body = page
    BY <2>4, <2>6, <2>7
  <2>9. QED BY <1>2, <1>3, <2>3, <2>7, <2>8 DEF Found, page, clauses
<1>8. Cellular(before'[c])
  BY <1>3 DEF SearchesKept
<1>9. \A d \in Clients : Cellular(before'[d]) /\ SearchKept(d)'
  BY <1>6, <1>7, <1>8
<1>10. QED BY <1>2, <1>5, <1>9 DEF SearchesKept

\* Every step of the remote side keeps the searches.
LEMMA StepSearches ==
    ASSUME SearchesKept, RemoteInv, RemoteInv', [Remote!Next]_(Remote!vars)
    PROVE  SearchesKept'
<1>1. RemoteTyped /\ Promised
  BY DEF RemoteInv
<1>2. ASSUME NEW c \in Clients, Remote!Served(c)
      PROVE  SearchesKept'
  BY <1>2, ServedSearches
<1>3. ASSUME NEW c \in Clients, UNCHANGED <<call, resource, table, reply, before>>,
             listed' = [d \in Clients |-> listed'[d]],
             \A d \in Clients \ {c} : stage'[d] = stage[d] /\ listed'[d] = listed[d] /\ outcome'[d] = outcome[d],
             SearchKept(c)'
      PROVE  SearchesKept'
  <2>1. \A d \in Clients : SearchKept(d)'
    BY <1>3, SearchRests DEF SearchesKept
  <2>2. QED BY <1>3, <2>1 DEF SearchesKept
<1>4. ASSUME NEW c \in Clients, Remote!Receive(c)
      PROVE  SearchesKept'
  <2> DEFINE result == IF call[c].verb = "search"
                       THEN IF reply[c].status < 400 THEN "ok" ELSE "HTTPStatusError"
                       ELSE Remote!Raised(call[c].verb, reply[c].status)
             found == IF call[c].verb = "search" THEN reply[c].body ELSE <<>>
  <2>1. /\ stage[c] = "waiting" /\ Remote!Finish(c, result)
        /\ listed' = [listed EXCEPT ![c] = found]
        /\ UNCHANGED <<call, resource, table, reply, before>>
    BY <1>4 DEF Remote!Receive, Remote!config
  <2>2. call[c].verb = "search" => found = reply[c].body /\ (result = "ok" => reply[c].status < 400)
    OBVIOUS
  <2> HIDE DEF result, found
  <2>3. /\ stage' = [stage EXCEPT ![c] = "done"] /\ outcome' = [outcome EXCEPT ![c] = result]
    BY <2>1 DEF Remote!Finish
  <2>4. stage'[c] = "done" /\ outcome'[c] = result /\ listed'[c] = found
    BY <1>1, <2>1, <2>3 DEF RemoteTyped, SearchesKept
  <2>5. SearchKept(c)'
    <3> SUFFICES ASSUME call[c].verb = "search", result = "ok" PROVE Found(c, listed[c])'
      BY <2>1, <2>4 DEF SearchKept, Coming
    <3>1. Found(c, reply[c].body)
      BY <2>1, <2>2 DEF SearchesKept, SearchKept, Coming
    <3>2. QED BY <2>1, <2>2, <2>4, <3>1 DEF Found
  <2>6. \A d \in Clients \ {c} : stage'[d] = stage[d] /\ listed'[d] = listed[d] /\ outcome'[d] = outcome[d]
    BY <1>1, <2>1, <2>3 DEF RemoteTyped, SearchesKept
  <2>7. listed' = [d \in Clients |-> listed'[d]]
    BY <2>1 DEF SearchesKept
  <2>8. QED BY <1>3, <2>1, <2>5, <2>6, <2>7
<1>5. ASSUME NEW c \in Clients, Remote!ReceivePage(c)
      PROVE  SearchesKept'
  <2>1. /\ call[c].verb = "list" /\ UNCHANGED <<call, resource, table, reply, before>>
        /\ UNCHANGED listed \/ listed' = [listed EXCEPT ![c] = @ \o reply[c].body]
        /\ UNCHANGED outcome \/ \E r : outcome' = [outcome EXCEPT ![c] = r]
        /\ \E s : stage' = [stage EXCEPT ![c] = s]
    BY <1>5 DEF Remote!ReceivePage, Remote!config, Remote!Finish
  <2>2. SearchKept(c)'
    BY <2>1 DEF SearchKept
  <2>3. \A d \in Clients \ {c} : stage'[d] = stage[d] /\ listed'[d] = listed[d] /\ outcome'[d] = outcome[d]
    BY <1>1, <2>1 DEF RemoteTyped, SearchesKept
  <2>4. listed' = [d \in Clients |-> listed'[d]]
    BY <2>1 DEF SearchesKept
  <2>5. QED BY <1>3, <2>1, <2>2, <2>3, <2>4
<1>6. ASSUME NEW c \in Clients, Remote!Lost(c)
      PROVE  SearchesKept'
  <2>1. /\ stage' = [stage EXCEPT ![c] = "done"] /\ outcome' = [outcome EXCEPT ![c] = "TransportError"]
        /\ UNCHANGED <<call, resource, table, reply, listed, before>>
    BY <1>6 DEF Remote!Lost, Remote!config, Remote!Finish
  <2>2. SearchKept(c)'
    <3>1. stage'[c] = "done" /\ outcome'[c] = "TransportError"
      BY <1>1, <2>1 DEF RemoteTyped
    <3>2. QED BY <3>1 DEF SearchKept, Coming
  <2>3. \A d \in Clients \ {c} : stage'[d] = stage[d] /\ listed'[d] = listed[d] /\ outcome'[d] = outcome[d]
    BY <1>1, <2>1 DEF RemoteTyped
  <2>4. listed' = [d \in Clients |-> listed'[d]]
    BY <2>1 DEF SearchesKept
  <2>5. QED BY <1>3, <2>1, <2>2, <2>3, <2>4
<1>7. CASE UNCHANGED Remote!vars
  <2>1. UNCHANGED <<table, call, resource, stage, reply, listed, outcome, before>>
    BY <1>7 DEF Remote!vars
  <2>2. \A d \in Clients : SearchKept(d)'
    BY <2>1, SearchRests DEF SearchesKept
  <2>3. QED BY <2>1, <2>2 DEF SearchesKept
<1>8. QED BY <1>2, <1>4, <1>5, <1>6, <1>7 DEF Remote!Next

\* No search has been answered.
LEMMA SearchesBegin ==
    ASSUME Remote!Init
    PROVE  SearchesKept
<1>1. /\ table \in Tables
      /\ stage = [c \in Clients |-> IF call[c].verb = "none" THEN "done" ELSE "sending"]
      /\ listed = [c \in Clients |-> <<>>] /\ outcome = [c \in Clients |-> "none"]
      /\ before = [c \in Clients |-> table]
  BY DEF Remote!Init
<1>2. Cellular(table)
  BY <1>1, CellsHold DEF Cellular
<1>3. Remote!Listable(resource)
  <2>1. PICK n \in DOMAIN Hierarchies :
          origin \in {<<n, c>> : c \in {d \in DOMAIN Hierarchies[n] : Remote!Serves(Hierarchies[n], d, {})}}
    BY DEF Remote!Init
  <2>2. PICK c \in DOMAIN Hierarchies[n] : Remote!Serves(Hierarchies[n], c, {}) /\ origin = <<n, c>>
    BY <2>1
  <2>3. resource = Remote!Made(Hierarchies[n], c)
    <3>1. resource = Remote!Made(Hierarchies[origin[1]], origin[2])
      BY DEF Remote!Init
    <3>2. origin[1] = n /\ origin[2] = c
      BY <2>2
    <3>3. QED BY <3>1, <3>2
  <2>4. QED BY <2>2, <2>3, CallsAssumption DEF Remote!CallsMakeSense
<1>4. \A c \in Clients : Cellular(before[c]) /\ SearchKept(c)
  BY <1>1, <1>2 DEF SearchKept, Coming
<1>5. QED BY <1>1, <1>2, <1>3, <1>4 DEF SearchesKept

\* A value known not to be met: the sign turns what is found, but for what is unknown.
LEMMA KeepsSigned ==
    ASSUME NEW p, p = [operator |-> p.operator, negated |-> TRUE, value |-> p.value],
           p.operator \in NumberOperators,
           NEW q, q = [operator |-> p.operator, negated |-> FALSE, value |-> p.value], NEW cell
    PROVE  Remote!Keeps(p, cell) <=>
             ~Remote!Keeps(q, cell) /\ (p.operator = "isnull" \/ cell # Remote!Null)
<1>1. /\ p.negated = TRUE /\ q.negated = FALSE /\ q.operator = p.operator /\ q.value = p.value
  OBVIOUS
<1>2. p.negated \in BOOLEAN /\ q.negated \in BOOLEAN /\ q.operator \in NumberOperators
  BY <1>1
<1>3. Remote!Holds(p, cell) <=> Remote!Holds(q, cell)
  BY <1>1 DEF Remote!Holds
<1>4. /\ Remote!Keeps(p, cell) <=>
             (p.operator = "isnull" \/ cell # Remote!Null) /\ (Remote!Holds(p, cell) <=> ~p.negated)
      /\ Remote!Keeps(q, cell) <=>
             (q.operator = "isnull" \/ cell # Remote!Null) /\ (Remote!Holds(q, cell) <=> ~q.negated)
  BY <1>2, Keeping
<1>5. QED BY <1>1, <1>3, <1>4

\* What a search is answered with is what its values say.
LEMMA FoundAnswers ==
    ASSUME SearchesKept, NEW c \in Clients, call[c].verb = "search", Remote!Asks(call[c]),
           Found(c, listed[c])
    PROVE  LET old == before[c]
               raws == {r \in UNION {{call[c].filters[n][i] : i \in DOMAIN call[c].filters[n]} :
                                    n \in DOMAIN call[c].filters} : r.column \in DOMAIN Head(resource.filters)}
               offered == {r \in raws : r.head = "in" /\ ~r.negated}
               wanted == {k \in Remote!Present(old) :
                            /\ \A r \in raws \ offered : k \in Remote!Finds(c, r)
                            /\ \A r \in offered :
                                 \E q \in offered : q.column = r.column /\ k \in Remote!Finds(c, q)}
               First(k) == {l \in wanted : l # k /\ Remote!Sorted(old, {k, l}, call[c].order)[1] = l}
           IN  /\ \A r \in raws : Remote!Alone(c, r) # Remote!Refused
               /\ \A r \in raws : r.tail = Remote!None /\ r.head \in DOMAIN Remote!NumberIn =>
                    Remote!Finds(c, r) = {k \in Remote!Present(old) :
                          old[k] # Remote!Null /\ (old[k] = Remote!NumberIn[r.head]) # r.negated}
               /\ \A r \in raws : r.negated =>
                    LET plain == Remote!Finds(c, [r EXCEPT !.negated = FALSE])
                    IN  Remote!Finds(c, r) = Remote!Present(old) \ (plain \cup
                          IF r.head = "isnull" THEN {} ELSE {k \in Ids : old[k] = Remote!Null})
               /\ resource.methods["list"] = "page_number" /\ call[c].page > 0 =>
                    Remote!Range(listed[c]) = {k \in wanted : Remote!Cardinality(First(k)) \div PageSize
                                                      = call[c].page - 1}
               /\ Remote!IsInjective(listed[c])
<1> DEFINE F == Head(resource.filters)
           asked == call[c].filters
           order == call[c].order
           p == call[c].page
           t == before[c]
           R == Raws(F, asked)
           offered == {r \in R : r.head = "in" /\ ~r.negated}
           wanted == {k \in Remote!Present(t) :
                            /\ \A r \in R \ offered : k \in Remote!Finds(c, r)
                            /\ \A r \in offered :
                                 \E q \in offered : q.column = r.column /\ k \in Remote!Finds(c, q)}
           First(k) == {l \in wanted : l # k /\ Remote!Sorted(t, {k, l}, order)[1] = l}
           kept == Remote!Matching(t, Head(Remote!AllClauses(F, asked)))
<1>1. /\ Numeric(F) /\ Askable(asked) /\ p \in Int
      /\ resource.methods["list"] \in {Remote!None, "page_number", "limit_offset"}
  <2>1. Remote!Listable(resource) /\ "list" \in DOMAIN resource.methods
    BY DEF SearchesKept, Found
  <2>2. Remote!Searches(call[c])
    BY DEF Remote!Asks
  <2>3. \A n \in DOMAIN asked : \A i \in DOMAIN asked[n] : Written(asked[n][i]) /\ asked[n][i].column = n
    <3>1. ASSUME NEW n \in DOMAIN asked, NEW i \in DOMAIN asked[n]
          PROVE  Written(asked[n][i]) /\ asked[n][i].column = n
      <4> DEFINE r == asked[n][i]
      <4>1. r.negated \in BOOLEAN /\ r = [column |-> n, negated |-> r.negated, head |-> r.head, tail |-> r.tail]
        BY <2>2 DEF Remote!Searches
      <4> HIDE DEF r
      <4>2. r.column = n
        BY <4>1
      <4>3. QED BY <4>1, <4>2 DEF r, Written
    <3>2. QED BY <3>1
  <2>4. QED BY <2>1, <2>2, <2>3 DEF Remote!Listable, Remote!Searches, Numeric, Askable
<1>2. \A k \in Ids : t[k] \in Int
  <2>1. Cells \cup {Remote!Gone} \subseteq Int
    BY CellsHold
  <2>2. QED BY <2>1 DEF SearchesKept, Cellular
<1>3. /\ Remote!AllClauses(F, asked) # Remote!Refused
      /\ listed[c] = Remote!Page(resource.methods["list"], Remote!Sorted(t, kept, order), [page |-> p])
  BY DEF Found
<1>4. \A r \in R : Written(r) /\ r.negated \in BOOLEAN /\ r.column \in DOMAIN F
  BY <1>1, RawsAre DEF Written
<1> HIDE DEF F, asked, order, p, t, R
<1>5. /\ \A r \in R : Remote!Parse(F[r.column], r) # Remote!Refused
      /\ \A k \in Remote!Present(t) :
                k \in kept <=>
                  /\ \A r \in R : ~Offered(r) => Remote!Keeps(Read(F[r.column], r), t[k])
                  /\ \A r \in R : Offered(r) =>
                       \E q \in R :
                          q.column = r.column /\ Offered(q) /\ Remote!Keeps(Read(F[q.column], q), t[k])
  BY <1>1, <1>3, SearchKeeps DEF R
<1>6. ASSUME NEW r, r.negated \in BOOLEAN, r.column \in DOMAIN F, Remote!Parse(F[r.column], r) # Remote!Refused
      PROVE  /\ Remote!Alone(c, r) # Remote!Refused
             /\ Remote!Finds(c, r) = {k \in Remote!Present(t) : Remote!Keeps(Read(F[r.column], r), t[k])}
  BY <1>1, <1>6, AloneFinds DEF Remote!Alone, Remote!Finds, F, t
<1>7. \A r \in R : /\ Remote!Alone(c, r) # Remote!Refused
                   /\ Remote!Finds(c, r) = {k \in Remote!Present(t) : Remote!Keeps(Read(F[r.column], r), t[k])}
  BY <1>4, <1>5, <1>6
<1>8. \A r \in R : F[r.column].operators \cap Remote!TextOperators = {}
  BY <1>1, <1>4 DEF Numeric
<1>9. ASSUME NEW r \in R, r.tail = Remote!None, r.head \in DOMAIN Remote!NumberIn
      PROVE  Remote!Finds(c, r) = {k \in Remote!Present(t) :
                          t[k] # Remote!Null /\ (t[k] = Remote!NumberIn[r.head]) # r.negated}
  <2> DEFINE q == Read(F[r.column], r)
             x == Remote!NumberIn[r.head]
  <2>1. /\ q = [operator |-> q.operator, negated |-> r.negated, value |-> q.value]
        /\ q.operator = "eq" /\ q.value = {x} /\ r.negated \in BOOLEAN
    BY <1>4, <1>5, <1>8, <1>9, Reads
  <2> HIDE DEF q, x
  <2>2. q.negated = r.negated /\ q.operator \in NumberOperators /\ q.operator # "isnull"
    BY <2>1 DEF NumberOperators
  <2>3. \A cell : Remote!Holds(q, cell) <=> cell = x
    BY <2>1 DEF Remote!Holds, Remote!Compared
  <2>4. \A cell : Remote!Keeps(q, cell) <=> cell # Remote!Null /\ ((cell = x) # r.negated)
    <3>1. ASSUME NEW cell
          PROVE  Remote!Keeps(q, cell) <=> cell # Remote!Null /\ ((cell = x) # r.negated)
      <4>1. Remote!Keeps(q, cell) <=>
              (q.operator = "isnull" \/ cell # Remote!Null) /\ (Remote!Holds(q, cell) <=> ~q.negated)
        BY <2>1, <2>2, Keeping
      <4>2. ((cell = x) # r.negated) <=> ((cell = x) <=> ~r.negated)
        BY <2>1
      <4>3. QED BY <2>2, <2>3, <4>1, <4>2
    <3>2. QED BY <3>1
  <2>5. QED BY <1>7, <2>4 DEF q, x
<1>10. ASSUME NEW r \in R, r.negated
       PROVE  Remote!Finds(c, r) = Remote!Present(t) \ (Remote!Finds(c, [r EXCEPT !.negated = FALSE]) \cup
                          IF r.head = "isnull" THEN {} ELSE {k \in Ids : t[k] = Remote!Null})
  <2> DEFINE q == [r EXCEPT !.negated = FALSE]
             f == F[r.column]
             a == Read(f, r)
             b == Read(f, q)
  <2>1. q.negated \in BOOLEAN /\ q.column = r.column
    BY <1>4 DEF Written
  <2>2. /\ Remote!Parse(f, q) # Remote!Refused
        /\ b = [operator |-> a.operator, negated |-> FALSE, value |-> a.value]
    BY <1>4, <1>5, <1>8, ReadSigned
  <2>3. /\ a = [operator |-> a.operator, negated |-> TRUE, value |-> a.value]
        /\ a.operator \in NumberOperators /\ (a.operator = "isnull" <=> r.head = "isnull")
    <3>1. /\ a = [operator |-> a.operator, negated |-> r.negated, value |-> a.value]
          /\ a.operator \in NumberOperators /\ (a.operator = "isnull" <=> r.head = "isnull")
      BY <1>4, <1>5, <1>8, Reads
    <3>2. r.negated = TRUE
      BY <1>4, <1>10
    <3>3. QED BY <3>1, <3>2
  <2> HIDE DEF q, a, b
  <2>4. \A cell : Remote!Keeps(a, cell) <=> ~Remote!Keeps(b, cell) /\ (r.head = "isnull" \/ cell # Remote!Null)
    BY <2>2, <2>3, KeepsSigned
  <2>5. /\ Remote!Finds(c, r) = {k \in Remote!Present(t) : Remote!Keeps(a, t[k])}
        /\ Remote!Finds(c, q) = {k \in Remote!Present(t) : Remote!Keeps(b, t[k])}
    BY <1>4, <1>6, <1>7, <2>1, <2>2 DEF a, b
  <2>6. Remote!Present(t) \subseteq Ids
    BY DEF Remote!Present
  <2>7. QED BY <2>4, <2>5, <2>6 DEF q
<1>11. wanted = kept
  <2>1. kept \subseteq Remote!Present(t) /\ wanted \subseteq Remote!Present(t)
    BY DEF Remote!Matching
  <2> HIDE DEF kept
  <2>2. ASSUME NEW k \in Remote!Present(t)
        PROVE  k \in wanted <=> k \in kept
    <3>1. \A r \in R : k \in Remote!Finds(c, r) <=> Remote!Keeps(Read(F[r.column], r), t[k])
      BY <1>7
    <3>2. \A r \in R : r \in offered <=> Offered(r)
      BY DEF Offered
    <3>3. k \in wanted <=> /\ \A r \in R \ offered : k \in Remote!Finds(c, r)
                           /\ \A r \in offered :
                                 \E q \in offered : q.column = r.column /\ k \in Remote!Finds(c, q)
      OBVIOUS
    <3>4. offered \subseteq R
      OBVIOUS
    <3> HIDE DEF offered, wanted
    <3>5. QED BY <1>5, <3>1, <3>2, <3>3, <3>4
  <2>3. QED BY <2>1, <2>2
<1>12. kept \in SUBSET Ids
  BY DEF Remote!Matching, Remote!Present
<1> HIDE DEF kept, wanted
<1>13. ASSUME NEW k \in kept
       PROVE  First(k) = Ahead(t, order, kept, k)
  <2>1. ASSUME NEW l \in kept
        PROVE  l \in First(k) <=> l \in Ahead(t, order, kept, k)
    <3>1. CASE l = k
      <4>1. ~Comes(t, order, k, k)
        <5>1. k \in Int /\ t[k] \in Int
          BY <1>2, <1>12, SomeKeys
        <5>2. QED BY <5>1 DEF Comes
      <4>2. QED BY <3>1, <4>1 DEF Ahead
    <3>2. CASE l # k
      <4>1. Remote!Sorted(t, {k, l}, order)[1] = l <=> Comes(t, order, l, k)
        BY <1>2, <1>12, <3>2, FirstOfTwo
      <4>2. QED BY <1>11, <3>2, <4>1 DEF Ahead
    <3>3. QED BY <3>1, <3>2
  <2>2. First(k) \subseteq kept /\ Ahead(t, order, kept, k) \subseteq kept
    BY <1>11 DEF Ahead
  <2> HIDE DEF First
  <2>3. QED BY <2>1, <2>2
<1>14. /\ Remote!IsInjective(listed[c])
       /\ resource.methods["list"] = "page_number" /\ p > 0 =>
            Remote!Range(listed[c]) = OnPage(t, order, kept, p)
  <2> DEFINE page == listed[c]
             pagination == resource.methods["list"]
  <2>1. /\ page = Remote!Page(pagination, Remote!Sorted(t, kept, order), [page |-> p])
        /\ pagination \in {Remote!None, "page_number", "limit_offset"} /\ p \in Int
        /\ \A k \in kept : t[k] \in Int
    BY <1>1, <1>2, <1>3, <1>12
  <2> HIDE DEF page, pagination
  <2>2. /\ Remote!IsInjective(page)
        /\ pagination = "page_number" /\ p > 0 =>
             Remote!Range(page) = OnPage(t, order, kept, p)
    BY <1>12, <2>1, PageHolds
  <2>3. QED BY <2>2 DEF page, pagination
<1>15. resource.methods["list"] = "page_number" /\ p > 0 =>
         Remote!Range(listed[c]) = {k \in wanted : Remote!Cardinality(First(k)) \div PageSize = p - 1}
  <2>1. \A k \in kept : Remote!Cardinality(First(k)) = Cardinality(Ahead(t, order, kept, k))
    BY <1>13, SameSize
  <2> HIDE DEF First
  <2>2. QED BY <1>11, <1>14, <2>1 DEF OnPage
<1>16. QED BY <1>7, <1>9, <1>10, <1>14, <1>15 DEF F, asked, order, p, t, R, Raws, wanted

\* The invariant is more than what is promised.
LEMMA SearchesAnswer ==
    ASSUME SearchesKept, Promised
    PROVE  SearchAnswers
<1>1. ASSUME NEW c \in Clients, call[c].verb = "search", stage[c] = "done", outcome[c] = "ok"
      PROVE  Found(c, listed[c]) /\ Remote!Asks(call[c])
  BY <1>1 DEF SearchesKept, SearchKept, Promised
<1>2. QED BY <1>1, FoundAnswers DEF SearchAnswers, Remote!SearchAnswers

\* What is kept of every search: the page that its clauses, its order and its place tell, of
\* the table as it was when the search was served (flama.resources.crud, the list handler).
THEOREM SearchesAre == Remote!Spec => []SearchesKept
<1>1. Remote!Init => RemoteInv /\ SearchesKept
  BY RemoteBegins, SearchesBegin
<1>2. RemoteInv /\ SearchesKept /\ [Remote!Next]_(Remote!vars) => (RemoteInv /\ SearchesKept)'
  BY RemoteKeeps, StepSearches
<1>3. QED BY <1>1, <1>2, PTL DEF Remote!Spec

\* A search finds what its values say, one by one, and its page holds the elements with as
\* many others before them in the order asked for: for any filters that compare numbers,
\* any values, signs, orders and pages, any tables and any number of clients
\* (flama.resources.filtering, flama.pagination.paginators).
THEOREM SearchesAnswered == Remote!Spec => []SearchAnswers
<1>1. RemoteInv => Promised
  BY DEF RemoteInv
<1>2. Remote!Spec => []RemoteInv
  BY RemoteBegins, RemoteKeeps, PTL DEF Remote!Spec
<1>3. QED BY <1>1, <1>2, SearchesAre, SearchesAnswer, PTL
=============================================================================
