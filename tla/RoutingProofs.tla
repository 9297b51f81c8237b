---------------------------- MODULE RoutingProofs ----------------------------
(***************************************************************************)
(* Theorems about how a request finds its handler, for any routers, routes *)
(* and requests: what adding a route may change (ServedStaysServed), and   *)
(* what a 405 says (AllowIsExact).                                         *)
(*                                                                         *)
(* Both rest on the first of a set of indices being well defined           *)
(* (FirstIsLeast), which needs that the natural numbers are well founded.  *)
(***************************************************************************)
EXTENDS Routing, WellFoundedInduction, TLAPS

\* What a table may hold: candidates, with the template they are compiled to.
Entries == {route @@ [template |-> Template(route.path)] : route \in UNION {Candidates[r] : r \in Routers}}

Tabled == tables \in [Routers -> Seq(Entries)]

\* A refused request stays where it was refused.
Refused == stage = "method_not_allowed" => Asked.type = "method_not_allowed"

Inv == Tabled /\ Refused
-----------------------------------------------------------------------------
(* The first of the routes *)

\* The first of some indices is one of them, before all others.
LEMMA FirstIsLeast ==
    ASSUME NEW I \in SUBSET Nat, I # {}
    PROVE  FirstOf(I) \in I /\ \A j \in I : FirstOf(I) <= j
<1> DEFINE R == {ss \in Nat \X Nat : ss[1] < ss[2]}
<1>1. IsWellFoundedOn(R, Nat)
  BY NatLessThanWellFounded DEF OpToRel
<1>2. \A m, n \in Nat : m < n => <<m, n>> \in R
  OBVIOUS
<1> HIDE DEF R
<1>3. PICK i \in I : \A j \in I : ~(<<j, i>> \in R)
  BY <1>1, WFMin
<1>4. ASSUME NEW j \in I PROVE i <= j
  <2>1. i \in Nat /\ j \in Nat
    OBVIOUS
  <2>2. ~(j < i)
    BY <1>2, <1>3, <2>1
  <2>. QED
    BY <2>1, <2>2
<1>. QED
  BY <1>4 DEF FirstOf

\* More indices after the first do not change it.
LEMMA FirstStays ==
    ASSUME NEW I \in SUBSET Nat, I # {}, NEW J \in SUBSET Nat, I \subseteq J,
           \A j \in J \ I : \A i \in I : i < j
    PROVE  FirstOf(J) = FirstOf(I)
<1>1. FirstOf(I) \in I /\ \A j \in I : FirstOf(I) <= j
  BY FirstIsLeast
<1>2. FirstOf(J) \in J /\ \A j \in J : FirstOf(J) <= j
  BY FirstIsLeast
<1>3. FirstOf(I) \in Nat /\ FirstOf(J) \in Nat
  BY <1>1, <1>2
<1>4. FirstOf(J) <= FirstOf(I)
  BY <1>1, <1>2
<1>5. FirstOf(J) \in I
  <2>1. FirstOf(J) \notin I => FirstOf(I) < FirstOf(J)
    BY <1>1, <1>2
  <2>. QED
    BY <1>3, <1>4, <2>1
<1>. QED
  BY <1>1, <1>3, <1>4, <1>5

\* A route at the end of a table takes nothing from those before it.
LEMMA AppendKeeps ==
    ASSUME NEW S, NEW table \in Seq(S), NEW route \in S, NEW path, NEW type, NEW method,
           Resolution(table, path, type, method).type \in {"full", "mount"}
    PROVE  Resolution(Append(table, route), path, type, method) = Resolution(table, path, type, method)
<1> DEFINE longer == Append(table, route)
           serving == {i \in AppliesIn(table, path, type) : Serves(table[i], method)}
           servingLonger == {i \in AppliesIn(longer, path, type) : Serves(longer[i], method)}
<1>1. /\ DOMAIN table = 1..Len(table) /\ Len(table) \in Nat
      /\ DOMAIN longer = 1..(Len(table) + 1)
      /\ \A i \in DOMAIN table : longer[i] = table[i]
  OBVIOUS
<1> HIDE DEF longer
<1>2. serving # {}
  BY DEF Resolution, ServingAmong, ResolutionAmong, NotAllowed
<1>3. serving \subseteq DOMAIN table /\ serving \subseteq servingLonger
  BY <1>1 DEF AppliesIn
<1>4. \A j \in servingLonger \ serving : j = Len(table) + 1
  BY <1>1 DEF AppliesIn
<1>5. serving \in SUBSET Nat /\ servingLonger \in SUBSET Nat
  BY <1>1 DEF AppliesIn
<1>6. Resolution(table, path, type, method) = Found(table[FirstOf(serving)], FirstOf(serving), path)
  BY <1>2 DEF Resolution, ServingAmong, ResolutionAmong
<1>7. servingLonger # {}
  BY <1>2, <1>3
<1>8. Resolution(longer, path, type, method)
        = Found(longer[FirstOf(servingLonger)], FirstOf(servingLonger), path)
  BY <1>7 DEF Resolution, ServingAmong, ResolutionAmong
<1> HIDE DEF serving, servingLonger
<1>9. \A j \in servingLonger \ serving : \A i \in serving : i < j
  BY <1>1, <1>3, <1>4
<1>10. FirstOf(servingLonger) = FirstOf(serving)
  BY <1>2, <1>3, <1>5, <1>9, FirstStays
<1>11. FirstOf(serving) \in DOMAIN table
  BY <1>2, <1>3, <1>5, FirstIsLeast
<1>. QED
  BY <1>1, <1>6, <1>8, <1>10, <1>11 DEF longer

\* A table of one route resolves to it when it applies and serves.
LEMMA AloneServes ==
    ASSUME NEW route, NEW path, NEW type, NEW method
    PROVE  Resolution(<<route>>, path, type, method).type = "full"
             <=> Applies(route, path, type) /\ Serves(route, method) /\ route.kind # "mount"
<1> DEFINE serving == {i \in AppliesIn(<<route>>, path, type) : Serves(<<route>>[i], method)}
<1>1. DOMAIN <<route>> = {1} /\ <<route>>[1] = route
  OBVIOUS
<1>2. CASE Applies(route, path, type) /\ Serves(route, method)
  <2>1. serving = {1}
    BY <1>1, <1>2 DEF AppliesIn
  <2>2. FirstOf(serving) = 1
    BY <2>1 DEF FirstOf
  <2>3. Resolution(<<route>>, path, type, method) = Found(<<route>>[FirstOf(serving)], FirstOf(serving), path)
    BY <2>1 DEF Resolution, ServingAmong, ResolutionAmong
  <2>4. Resolution(<<route>>, path, type, method) = Found(route, 1, path)
    BY <1>1, <2>2, <2>3
  <2>5. Found(route, 1, path).type = IF route.kind = "mount" THEN "mount" ELSE "full"
    BY DEF Found
  <2>. QED
    BY <1>2, <2>4, <2>5
<1>3. CASE ~(Applies(route, path, type) /\ Serves(route, method))
  <2>1. serving = {}
    BY <1>1, <1>3 DEF AppliesIn
  <2>2. Resolution(<<route>>, path, type, method).type \in {"method_not_allowed", "not_found"}
    BY <2>1 DEF Resolution, ServingAmong, ResolutionAmong, NotAllowed
  <2>. QED
    BY <1>3, <2>2
<1>. QED
  BY <1>2, <1>3
-----------------------------------------------------------------------------
(* The invariant *)

\* A router starts with no routes, and nothing is refused while it is built.
LEMMA InitInv == Init => Inv
  BY DEF Init, Inv, Tabled, Refused

\* A route that is added is one of the candidates, compiled.
LEMMA AddTabled ==
    ASSUME Tabled, NEW r \in Routers, NEW kind, Add(r, kind)
    PROVE  /\ Tabled'
           /\ \E entry \in Entries : tables' = [tables EXCEPT ![r] = Append(@, entry)]
<1>1. PICK route \in Candidates[r] :
         tables' = [tables EXCEPT ![r] = Append(@, route @@ [template |-> Template(route.path)])]
  BY DEF Add
<1> DEFINE entry == route @@ [template |-> Template(route.path)]
<1>2. entry \in Entries
  BY DEF Entries
<1>3. tables' = [tables EXCEPT ![r] = Append(@, entry)]
  BY <1>1
<1> HIDE DEF entry
<1>4. Append(tables[r], entry) \in Seq(Entries)
  BY <1>2 DEF Tabled
<1>. QED
  BY <1>2, <1>3, <1>4 DEF Tabled

\* Adding a route keeps the tables made of candidates; only Reject refuses, and
\* what it refuses the tables refuse as long as it stays refused.
LEMMA NextInv == Inv /\ [Next]_vars => Inv'
<1> SUFFICES ASSUME Inv, [Next]_vars PROVE Inv'
  OBVIOUS
<1>1. CASE \E r \in Routers : AddRoute(r) \/ AddWebSocketRoute(r) \/ Mount(r)
  <2>1. PICK r \in Routers, kind \in {"http", "websocket", "mount"} : Add(r, kind)
    BY <1>1 DEF AddRoute, AddWebSocketRoute, Mount
  <2>2. Tabled'
    BY <2>1, AddTabled DEF Inv
  <2>3. stage' = "building"
    BY <2>1 DEF Add
  <2>. QED
    BY <2>2, <2>3 DEF Inv, Refused
<1>2. CASE Reject
  <2>1. UNCHANGED <<tables, request, scope>>
    BY <1>2 DEF Reject
  <2>2. Asked' = Asked
    BY <2>1 DEF Asked
  <2>3. stage' = Asked.type
    BY <1>2 DEF Reject
  <2>. QED
    BY <2>1, <2>2, <2>3 DEF Inv, Tabled, Refused
<1>3. CASE Receive \/ Descend \/ CallMounted \/ Route \/ Rebuild \/ Handle
  <2>1. tables' = tables /\ stage' # "method_not_allowed"
    BY <1>3 DEF Receive, Descend, CallMounted, Route, Rebuild, Handle
  <2>. QED
    BY <2>1 DEF Inv, Tabled, Refused
<1>4. CASE UNCHANGED vars
  BY <1>4 DEF vars, Inv, Tabled, Refused, Asked
<1>. QED
  BY <1>1, <1>2, <1>3, <1>4 DEF Next

\* The invariant holds in every behaviour.
THEOREM Inductive == Spec => []Inv
  BY InitInv, NextInv, PTL DEF Spec
-----------------------------------------------------------------------------
(* The theorems *)

\* While the tables are written, a step that changes one has added a route to it.
LEMMA StepKeeps ==
    ASSUME Inv, [Next]_vars, stage = "building", stage' = "building", NEW r \in Routers, tables'[r] # tables[r]
    PROVE  \E entry \in Entries : tables'[r] = Append(tables[r], entry)
<1>1. \E q \in Routers : AddRoute(q) \/ AddWebSocketRoute(q) \/ Mount(q)
  BY DEF Next, vars, Receive, Reject, Descend, CallMounted, Route, Rebuild, Handle
<1>2. PICK q \in Routers, kind \in {"http", "websocket", "mount"} : Add(q, kind)
  BY <1>1 DEF AddRoute, AddWebSocketRoute, Mount
<1>3. PICK entry \in Entries : tables' = [tables EXCEPT ![q] = Append(@, entry)]
  BY <1>2, AddTabled DEF Inv
<1>. QED
  BY <1>3 DEF Inv, Tabled

\* Adding a route takes no request from the route that served it
\* (RouteTable.add_entry pushes, resolve_inner returns the first that serves).
THEOREM ServedIsKept == Spec => ServedStaysServed
<1>1. ASSUME Inv, [Next]_vars, stage = "building", stage' = "building",
             NEW r \in Routers, tables'[r] # tables[r], NEW q \in Requests,
             Resolution(tables[r], q.path, q.type, q.method).type \in {"full", "mount"}
      PROVE  Resolution(tables'[r], q.path, q.type, q.method) = Resolution(tables[r], q.path, q.type, q.method)
  <2>1. PICK entry \in Entries : tables'[r] = Append(tables[r], entry)
    BY <1>1, StepKeeps
  <2>2. tables[r] \in Seq(Entries)
    BY <1>1 DEF Inv, Tabled
  <2>. QED
    BY <1>1, <2>1, <2>2, AppendKeeps
<1>2. Inv /\ [Next]_vars =>
         [stage = "building" /\ stage' = "building" =>
            \A r \in Routers : tables'[r] # tables[r] =>
              \A q \in Requests :
                  LET before == Resolution(tables[r], q.path, q.type, q.method)
                  IN  before.type \in {"full", "mount"} =>
                          Resolution(tables'[r], q.path, q.type, q.method) = before]_vars
  BY <1>1
<1>. QED
  BY <1>2, Inductive, PTL DEF Spec, ServedStaysServed

\* A 405 tells the truth: its methods are those that some route of the table,
\* asked alone, would serve on the path, and the one asked for is none of them
\* (resolve_inner collects them while it looks for one that serves).
THEOREM AllowTellsTruth == Spec => []AllowIsExact
<1>1. Inv => AllowIsExact
  <2> SUFFICES ASSUME Inv, stage = "method_not_allowed" PROVE AllowIsExact
    BY DEF AllowIsExact
  <2> DEFINE table == tables[scope.router]
             applying == AppliesIn(table, scope.path, request.type)
             serving == {i \in applying : Serves(table[i], request.method)}
  <2>1. Asked.type = "method_not_allowed"
    BY DEF Inv, Refused
  <2>2. Asked = ResolutionAmong(table, scope.path, applying, serving)
    BY DEF Asked, Resolution, ServingAmong
  <2>3. serving = {} /\ Asked = NotAllowed(table, applying)
    <3> HIDE DEF table, applying, serving
    <3>1. \A i : Found(table[i], i, scope.path).type \in {"full", "mount"}
      BY DEF Found
    <3>. QED
      BY <2>1, <2>2, <3>1 DEF ResolutionAmong
  <2>4. Asked.allowed = UNION {WithHead(table[i].methods) : i \in applying}
    BY <2>3 DEF NotAllowed
  <2>5. \A i \in applying : table[i].kind = "http" /\ request.method \notin WithHead(table[i].methods)
    BY <2>3 DEF Serves
  <2>6. \A i : i \in applying <=> i \in DOMAIN table /\ Applies(table[i], scope.path, request.type)
    BY DEF AppliesIn
  <2> HIDE DEF table, applying, serving
  <2>7. request.method \notin Asked.allowed
    BY <2>4, <2>5
  <2>8. ASSUME NEW method
        PROVE  method \in Asked.allowed
                 <=> \E i \in DOMAIN table : Resolution(<<table[i]>>, scope.path, request.type, method).type = "full"
    <3>1. method \in Asked.allowed <=> \E i \in applying : method \in WithHead(table[i].methods)
      BY <2>4
    <3>2. \A i \in applying : Serves(table[i], method) <=> method \in WithHead(table[i].methods)
      BY <2>5 DEF Serves
    <3>3. \A i \in DOMAIN table :
             Resolution(<<table[i]>>, scope.path, request.type, method).type = "full"
               <=> i \in applying /\ Serves(table[i], method)
      BY <2>5, <2>6, AloneServes
    <3>. QED
      BY <2>6, <3>1, <3>2, <3>3
  <2>. QED
    BY <2>7, <2>8 DEF AllowIsExact, table
<1>. QED
  BY <1>1, Inductive, PTL
=============================================================================
