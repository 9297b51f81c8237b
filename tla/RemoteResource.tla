--------------------------- MODULE RemoteResource ---------------------------
(***************************************************************************)
(* A resource served over HTTP and its remote repositories: the client of  *)
(* flama.ddd.repositories.http on one side, on the other the handlers of   *)
(* flama.resources.crud with their paginator and filters, each request in  *)
(* a unit of work of its own, atomic as UnitOfWork shows. Between two      *)
(* requests of one walk over the pages anybody may change the table.       *)
(*                                                                         *)
(* The database is external: a unique column, an unordered select in key   *)
(* order, as SQLite does for an integer key, and failures. So is the       *)
(* network, which may lose an answer.                                      *)
(***************************************************************************)
EXTENDS Resources

CONSTANTS
    Clients,       \* repositories, one call each
    Ids,           \* primary keys, 1..n
    Cells,         \* what the column may hold: integers and Null
    Hierarchies,   \* classes an application may be written with
    Tables,        \* what the table may hold at the start
    Calls,         \* calls the clients may be asked for; the verb "none" for none
    PageSize,      \* default_page_size and default_limit, at least 1
    MaxListed,     \* bound: elements after which a walk is followed no longer
    MayBreak       \* TRUE: the database may fail and answers may be lost

\* A key with no element, and an element with no key.
Gone == -1
NoId == 0

VARIABLES
    origin,    \* the hierarchy and the class of the resource
    resource,  \* what the class was made into
    table,     \* the cell under each key
    call,      \* what each client was asked for
    stage,     \* "sending", "waiting" for the answer, "done"
    reply,     \* the answer on its way to each client
    listed,    \* keys of the elements each walk yielded
    outcome,   \* what the caller got: a value or the name of an exception
    before, after,  \* the table when the last request of each client was served
    walk       \* what happened to the table since the first page of each walk

vars == <<origin, resource, table, call, stage, reply, listed, outcome, before, after, walk>>
config == <<origin, resource, call>>

Present(rows) == {k \in Ids : rows[k] # Gone}

\* A search gives values for columns, none named as an argument of the handler.
Searches(q) ==
    /\ q.page \in Int /\ DOMAIN q.filters \cap Reserved = {}
    /\ \A n \in DOMAIN q.filters : \A i \in DOMAIN q.filters[n] :
         LET r == q.filters[n][i]
         IN  r.negated \in BOOLEAN
             /\ r = [column |-> n, negated |-> r.negated, head |-> r.head, tail |-> r.tail]

\* Calls name keys of the table, and give elements whose column holds something.
Asks(q) ==
    /\ q.verb \in {"retrieve", "update", "partial_update", "delete"} => q.id \in Ids
    /\ q.verb = "create" => q.id = NoId \/ q.id \in Ids
    /\ q.verb \in {"create", "update", "partial_update"} => q.cell \in Cells
    /\ q.verb \in {"replace", "partial_replace"} =>
         DOMAIN q.elements \subseteq Ids /\ \A k \in DOMAIN q.elements : q.elements[k] \in Cells
    /\ q.verb = "search" => Searches(q)

\* The column holds numbers, so that Build grants nothing that compares texts, and a
\* list has no paginator or one of the two.
Listable(made) ==
    /\ \A n \in DOMAIN Head(made.filters) : Head(made.filters)[n].operators \cap TextOperators = {}
    /\ "list" \in DOMAIN made.methods => made.methods["list"] \in {None, "page_number", "limit_offset"}

CallsMakeSense ==
    /\ IsFiniteSet(Ids) /\ Ids \subseteq Nat \ {NoId} /\ PageSize \in Nat \ {0}
    /\ Cells \subseteq Int \ {Gone}
    /\ Tables \subseteq [Ids -> Cells \cup {Gone}]
    /\ \A q \in Calls : \A c \in Clients : Asks(q[c])
    /\ \A n \in DOMAIN Hierarchies : \A c \in DOMAIN Hierarchies[n] :
         Serves(Hierarchies[n], c, {}) => Listable(Made(Hierarchies[n], c))

-----------------------------------------------------------------------------
(* Statements of a unit of work; Refused is an IntegrityError *)

\* SQLAlchemyTableManager.create: all the elements or none.
Insert(rows, elements) ==
    LET new == [k \in Ids |-> IF k \in DOMAIN elements THEN elements[k] ELSE rows[k]]
        kept == Present(new)
    IN  IF \/ DOMAIN elements \cap Present(rows) # {}
                \/ \E k, l \in kept : k # l /\ new[k] = new[l] /\ new[k] # Null
        THEN Refused ELSE <<new>>

Element(id, cell) == [k \in {id} |-> cell]
Without(rows, keys) == [k \in Ids |-> IF k \in keys THEN Gone ELSE rows[k]]

-----------------------------------------------------------------------------
(* The paginators *)

\* content[from:to] of Python: a negative bound counts from the end.
PySlice(content, from, to) ==
    LET Bound(i) == IF i < 0 THEN Max({0, Len(content) + i}) ELSE Min({i, Len(content)})
    IN  SubSeq(content, Bound(from) + 1, Bound(to))

\* Mutant of Page: pages are counted from zero.
PageFromZero(pagination, content, params) ==
    LET Given(p, default) == IF p \in DOMAIN params THEN params[p] ELSE default
        first == Given("page", 1) * PageSize
    IN  CASE pagination = None -> content
          [] pagination = "page_number" -> PySlice(content, first, first + PageSize)
          [] pagination = "limit_offset" ->
               PySlice(content, Given("offset", 0), Given("offset", 0) + PageSize)

\* PageNumberResponse.render and LimitOffsetResponse.render. A parameter of the
\* other name is nobody's, and is left aside.
Page(pagination, content, params) ==
    LET Given(p, default) == IF p \in DOMAIN params THEN params[p] ELSE default
        page == Given("page", 1)
    IN  CASE pagination = None -> content
          [] pagination = "page_number" ->
               PySlice(content, (page - 1) * PageSize, page * PageSize)
          [] pagination = "limit_offset" ->
               PySlice(content, Given("offset", 0), Given("offset", 0) + PageSize)

-----------------------------------------------------------------------------
(* The handlers: status and body of the answer, and the table after it *)

Answered(status, body, rows) == [status |-> status, body |-> body, rows |-> rows]
NoBody == <<>>

\* A unit of work that raised is rolled back: `rows` is the table as it was.
Create(rows, id, cell) ==
    LET new == Insert(rows, Element(id, cell))
    IN  IF new = Refused THEN Answered(400, NoBody, rows) ELSE Answered(201, <<id>>, Head(new))

Retrieve(rows, id) ==
    IF rows[id] = Gone THEN Answered(404, NoBody, rows) ELSE Answered(200, <<id>>, rows)

\* Mutant of Update: what was deleted stays deleted when the insert is refused.
UpdateDeleting(rows, id, cell) ==
    LET cleared == Without(rows, {id})
        new == Insert(cleared, Element(id, cell))
    IN  IF rows[id] = Gone THEN Answered(404, NoBody, rows)
        ELSE IF new = Refused THEN Answered(400, NoBody, cleared)
        ELSE Answered(200, <<id>>, Head(new))

Update(rows, id, cell) ==
    LET new == Insert(Without(rows, {id}), Element(id, cell))
    IN  IF rows[id] = Gone THEN Answered(404, NoBody, rows)
        ELSE IF new = Refused THEN Answered(400, NoBody, rows)
        ELSE Answered(200, <<id>>, Head(new))

PartialUpdate(rows, id, cell) ==
    LET new == Insert(Without(rows, {id}), Element(id, cell))
    IN  IF rows[id] = Gone THEN Answered(404, NoBody, rows)
        ELSE IF new = Refused THEN Answered(400, NoBody, rows)
        ELSE Answered(200, <<id>>, Head(new))

Delete(rows, id) ==
    IF rows[id] = Gone THEN Answered(404, NoBody, rows)
    ELSE Answered(204, NoBody, Without(rows, {id}))

\* Keys in an order: each comes after as many as are before it.
InOrder(keys, Before(_, _)) ==
    [i \in 1..Cardinality(keys) |->
        CHOOSE k \in keys : Cardinality({l \in keys : Before(l, k)}) = i - 1]

InKeyOrder(elements) == InOrder(DOMAIN elements, <)

ReplaceCollection(rows, elements) ==
    LET new == Insert(Without(rows, Ids), elements)
    IN  IF new = Refused THEN Answered(400, NoBody, rows)
        ELSE Answered(200, InKeyOrder(elements), Head(new))

PartialReplace(rows, elements) ==
    LET new == Insert(Without(rows, DOMAIN elements), elements)
    IN  IF new = Refused THEN Answered(400, NoBody, rows)
        ELSE Answered(200, InKeyOrder(elements), Head(new))

Drop(rows) == Answered(204, <<Cardinality(Present(rows))>>, Without(rows, Ids))

\* The list handler: filters, then the order asked for (NULL first, ties by
\* key; anything but "desc" ascends), then the page.
Sorted(rows, keys, order) ==
    InOrder(keys, LAMBDA k, l :
        IF order = None \/ rows[k] = rows[l] THEN k < l
        ELSE IF order = "desc" THEN rows[k] > rows[l]
        ELSE rows[k] < rows[l])

Matching(rows, clauses) ==
    {k \in Present(rows) : \A p \in clauses : Keeps(p[2], rows[k])}

List(rows, asked, order, params) ==
    LET clauses == AllClauses(Head(resource.filters), asked)
    IN  IF clauses = Refused THEN Answered(400, NoBody, rows)
        ELSE Answered(200, Page(resource.methods["list"],
                                Sorted(rows, Matching(rows, Head(clauses)), order), params), rows)

-----------------------------------------------------------------------------
(* The client *)

\* The page the next request of a walk asks for. One call reads a page number
\* that no handler has, the other counts what it yielded.
Params(c) ==
    IF call[c].mode = "limit_offset" THEN [offset |-> Len(listed[c])]
    ELSE [page_number |-> walk[c].pages + 1]

\* raise_for_status, and the statuses each method translates.
Raised(verb, status) ==
    IF status < 400 THEN "ok"
    ELSE IF status = 404 /\ verb \in {"retrieve", "update", "partial_update", "delete"}
    THEN "NotFoundError"
    ELSE IF status = 400 /\ verb \in {"create", "update", "partial_update",
                                      "replace", "partial_replace"}
    THEN "IntegrityError"
    ELSE "HTTPStatusError"

Finish(c, result) ==
    /\ stage' = [stage EXCEPT ![c] = "done"]
    /\ outcome' = [outcome EXCEPT ![c] = result]

\* The methods that are one request.
Receive(c) ==
    /\ stage[c] = "waiting" /\ call[c].verb # "list"
    /\ Finish(c, IF call[c].verb = "search"
                 THEN IF reply[c].status < 400 THEN "ok" ELSE "HTTPStatusError"
                 ELSE Raised(call[c].verb, reply[c].status))
    /\ listed' = [listed EXCEPT ![c] = IF call[c].verb = "search" THEN reply[c].body ELSE <<>>]
    /\ UNCHANGED <<config, table, reply, before, after, walk>>

\* Mutant of ReceivePage: an error ends the walk as an empty page does.
ReceivePageAnyway(c) ==
    /\ stage[c] = "waiting" /\ call[c].verb = "list"
    /\ IF reply[c].status >= 400 \/ reply[c].body = <<>>
       THEN Finish(c, "ok") /\ UNCHANGED <<listed, walk>>
       ELSE /\ listed' = [listed EXCEPT ![c] = @ \o reply[c].body]
            /\ walk' = [walk EXCEPT ![c].pages = @ + 1]
            /\ stage' = [stage EXCEPT ![c] = "sending"]
            /\ UNCHANGED outcome
    /\ UNCHANGED <<config, table, reply, before, after>>

\* _fetch_page_elements: no status is looked at, an error has no "data"; an
\* empty page ends the walk, and any other is followed by the next request.
ReceivePage(c) ==
    /\ stage[c] = "waiting" /\ call[c].verb = "list"
    /\ IF reply[c].status >= 400
       THEN Finish(c, "KeyError") /\ UNCHANGED <<listed, walk>>
       ELSE IF reply[c].body = <<>>
       THEN Finish(c, "ok") /\ UNCHANGED <<listed, walk>>
       ELSE /\ listed' = [listed EXCEPT ![c] = @ \o reply[c].body]
            /\ walk' = [walk EXCEPT ![c].pages = @ + 1]
            /\ stage' = [stage EXCEPT ![c] = "sending"]
            /\ UNCHANGED outcome
    /\ UNCHANGED <<config, table, reply, before, after>>

\* The answer is lost: httpx raises, whatever the server did.
Lost(c) ==
    /\ MayBreak /\ stage[c] = "waiting"
    /\ Finish(c, "TransportError")
    /\ UNCHANGED <<config, table, reply, listed, before, after, walk>>

-----------------------------------------------------------------------------
(* The server *)

\* What every walk that has begun sees of a change.
Watched(w, new) ==
    IF ~w.begun THEN w
    ELSE [w EXCEPT !.always = @ \cap Present(new), !.ever = @ \cup Present(new),
                   !.deleted = @ \/ ~(Present(table) \subseteq Present(new)),
                   !.created = @ \/ ~(Present(new) \subseteq Present(table))]
Begun(w) ==
    IF w.begun THEN w
    ELSE [w EXCEPT !.begun = TRUE, !.always = Present(table), !.ever = Present(table)]

Serve(c, answer) ==
    /\ stage[c] = "sending"
    /\ \E a \in {answer} :
         /\ reply' = [reply EXCEPT ![c] = [status |-> a.status, body |-> a.body]]
         /\ table' = a.rows
         /\ before' = [before EXCEPT ![c] = table] /\ after' = [after EXCEPT ![c] = a.rows]
         /\ walk' = [d \in Clients |-> IF d = c /\ call[c].verb = "list" THEN Begun(walk[d])
                                       ELSE Watched(walk[d], a.rows)]
    /\ stage' = [stage EXCEPT ![c] = "waiting"]
    /\ UNCHANGED <<config, listed, outcome>>

\* Reaches the handler: the resource has the method and the body is valid.
Admitted(c, verb) == call[c].verb = verb /\ verb \in DOMAIN resource.methods /\ call[c].valid

\* The database gives an element without a key the next one.
ServeCreate(c) ==
    /\ Admitted(c, "create")
    /\ \E id \in IF call[c].id # NoId THEN {call[c].id}
                 ELSE Ids \cap {Max(Present(table) \cup {0}) + 1} :
         Serve(c, Create(table, id, call[c].cell))
ServeRetrieve(c) == Admitted(c, "retrieve") /\ Serve(c, Retrieve(table, call[c].id))
ServeUpdate(c) == Admitted(c, "update") /\ Serve(c, Update(table, call[c].id, call[c].cell))
ServePartialUpdate(c) ==
    Admitted(c, "partial_update") /\ Serve(c, PartialUpdate(table, call[c].id, call[c].cell))
ServeDelete(c) == Admitted(c, "delete") /\ Serve(c, Delete(table, call[c].id))
ServeReplace(c) == Admitted(c, "replace") /\ Serve(c, ReplaceCollection(table, call[c].elements))
ServePartialReplace(c) ==
    Admitted(c, "partial_replace") /\ Serve(c, PartialReplace(table, call[c].elements))
ServeDrop(c) == Admitted(c, "drop") /\ Serve(c, Drop(table))
ServePage(c) ==
    /\ Admitted(c, "list") /\ Len(listed[c]) < MaxListed
    /\ Serve(c, List(table, <<>>, None, Params(c)))
\* A GET on the collection with filters, an order and a page, by any client.
ServeSearch(c) ==
    /\ call[c].verb = "search" /\ "list" \in DOMAIN resource.methods
    /\ Serve(c, List(table, call[c].filters, call[c].order, [page |-> call[c].page]))

\* No such route, an invalid body, or the database failed.
Reject(c) ==
    LET verb == IF call[c].verb = "search" THEN "list" ELSE call[c].verb IN
    \/ verb \notin DOMAIN resource.methods /\ Serve(c, Answered(405, NoBody, table))
    \/ /\ verb \in DOMAIN resource.methods /\ ~call[c].valid
       /\ Serve(c, Answered(400, NoBody, table))
    \/ MayBreak /\ Serve(c, Answered(500, NoBody, table))

-----------------------------------------------------------------------------
Init ==
    /\ origin \in UNION {{<<n, c>> : c \in {d \in DOMAIN Hierarchies[n] : Serves(Hierarchies[n], d, {})}} :
                            n \in DOMAIN Hierarchies}
    /\ resource = Made(Hierarchies[origin[1]], origin[2])
    /\ table \in Tables
    /\ call \in Calls
    /\ stage = [c \in Clients |-> IF call[c].verb = "none" THEN "done" ELSE "sending"]
    /\ reply = [c \in Clients |-> [status |-> 0, body |-> NoBody]]
    /\ listed = [c \in Clients |-> <<>>] /\ outcome = [c \in Clients |-> "none"]
    /\ before = [c \in Clients |-> table] /\ after = [c \in Clients |-> table]
    /\ walk = [c \in Clients |-> [begun |-> FALSE, pages |-> 0, always |-> {}, ever |-> {},
                                  deleted |-> FALSE, created |-> FALSE]]

Served(c) ==
    \/ ServeCreate(c) \/ ServeRetrieve(c) \/ ServeUpdate(c) \/ ServePartialUpdate(c)
    \/ ServeDelete(c) \/ ServeReplace(c) \/ ServePartialReplace(c) \/ ServeDrop(c)
    \/ ServePage(c) \/ ServeSearch(c) \/ Reject(c)

Next == \E c \in Clients : Served(c) \/ Receive(c) \/ ReceivePage(c) \/ Lost(c)

Spec == Init /\ [][Next]_vars

-----------------------------------------------------------------------------
(* Properties *)

Walks(c) == call[c].verb = "list" /\ call[c].mode = "limit_offset"
            /\ "list" \in DOMAIN resource.methods
            /\ resource.methods["list"] = "limit_offset"

\* A walk by offsets that ended well yielded every element that was there all
\* along if none was deleted meanwhile, none twice if none was created, never
\* one that was not there, and no more than there were: it comes to an end. The
\* last two fail for page numbers.
ListingFaithful ==
    \A c \in Clients : Walks(c) =>
        /\ Range(listed[c]) \subseteq walk[c].ever
        /\ Len(listed[c]) <= Cardinality(walk[c].ever)
        /\ ~walk[c].created => IsInjective(listed[c])
        /\ outcome[c] = "ok" /\ ~walk[c].deleted => walk[c].always \subseteq Range(listed[c])

\* The whole of what a call asks, from the table it found to the one it left.
Did(q, old, new, body) ==
    LET others == Without(old, {q.id}) = Without(new, {q.id})
        given == DOMAIN q.elements
    IN  CASE q.verb = "create" ->
               \E j \in Ids : /\ q.id # NoId => j = q.id
                              /\ old[j] = Gone /\ new = [old EXCEPT ![j] = q.cell]
          [] q.verb \in {"update", "partial_update"} ->
               old[q.id] # Gone /\ new[q.id] = q.cell /\ others
          [] q.verb = "delete" -> old[q.id] # Gone /\ new[q.id] = Gone /\ others
          [] q.verb = "replace" ->
               Present(new) = given /\ \A j \in given : new[j] = q.elements[j]
          [] q.verb = "partial_replace" ->
               /\ \A j \in given : new[j] = q.elements[j]
               /\ Without(new, given) = Without(old, given)
          [] q.verb = "drop" -> Present(new) = {} /\ body = <<Cardinality(Present(old))>>
          [] OTHER -> old = new
Done(c) == Did(call[c], before[c], after[c], reply[c].body)

\* What the caller of a repository is told is what happened to the table: an
\* exception the repository translates left it alone, an element is missing
\* only if it was, and no exception means the whole of what was asked.
AnswerTells ==
    \A c \in Clients : stage[c] = "done" =>
        /\ outcome[c] \in {"NotFoundError", "IntegrityError", "HTTPStatusError"} =>
             before[c] = after[c]
        /\ outcome[c] = "NotFoundError" => before[c][call[c].id] = Gone
        /\ outcome[c] = "ok" => Done(c)

\* A search finds what its values say, one by one: a value alone equality, the
\* values of "in" any of them, every other value one more condition, a negated
\* one the rows that are known not to meet it, and it is refused if one value
\* is. The page holds the elements with as many others before them.
Alone(c, raw) == Clauses(Head(resource.filters)[raw.column], <<raw>>)
Finds(c, raw) == Matching(before[c], {<<raw.column, p>> : p \in Head(Alone(c, raw))})
SearchAnswers ==
    \A c \in Clients : call[c].verb = "search" /\ stage[c] = "done" /\ outcome[c] = "ok" =>
        LET rows == before[c]
            raws == {r \in UNION {{call[c].filters[n][i] : i \in DOMAIN call[c].filters[n]} :
                                    n \in DOMAIN call[c].filters} : r.column \in DOMAIN Head(resource.filters)}
            offered == {r \in raws : r.head = "in" /\ ~r.negated}
            wanted == {k \in Present(rows) :
                         /\ \A r \in raws \ offered : k \in Finds(c, r)
                         /\ \A r \in offered :
                              \E q \in offered : q.column = r.column /\ k \in Finds(c, q)}
            Ahead(k) == {l \in wanted : l # k /\ Sorted(rows, {k, l}, call[c].order)[1] = l}
        IN  /\ \A r \in raws : Alone(c, r) # Refused
            /\ \A r \in raws : r.tail = None /\ r.head \in DOMAIN NumberIn =>
                 Finds(c, r) = {k \in Present(rows) :
                                  rows[k] # Null /\ (rows[k] = NumberIn[r.head]) # r.negated}
            /\ \A r \in raws : r.negated =>
                 LET plain == Finds(c, [r EXCEPT !.negated = FALSE])
                 IN  Finds(c, r) = Present(rows) \ (plain \cup
                        IF r.head = "isnull" THEN {} ELSE {k \in Ids : rows[k] = Null})
            /\ resource.methods["list"] = "page_number" /\ call[c].page > 0 =>
                 Range(listed[c]) = {k \in wanted : Cardinality(Ahead(k)) \div PageSize
                                                      = call[c].page - 1}
            /\ IsInjective(listed[c])

\* The resource the first request meets is what the classes nearest to it say.
MadeAsDeclared ==
    (\A c \in Clients : reply[c].status = 0) => InheritsNearest(Hierarchies[origin[1]], origin[2])
=============================================================================
