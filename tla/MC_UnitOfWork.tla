--------------------------- MODULE MC_UnitOfWork ---------------------------
(***************************************************************************)
(* Model-checking instance of both sides of a resource: the units of work  *)
(* its requests run in, with their refinement of Collection, or the remote *)
(* repositories that send the requests, each served at one instant as that *)
(* refinement allows. A behaviour is of one side; the other stands still.  *)
(***************************************************************************)
EXTENDS BothSides, Integers, TLC

\* Which side a behaviour is of.
VARIABLE side

-----------------------------------------------------------------------------
(* Classes an application may be written with *)

Column(type) == [type |-> type]
Table == [name |-> "things", keys |-> {"id"},
          columns |-> [id |-> Column("int"), size |-> Column("int"), blob |-> Column("none")]]
Other == [Table EXCEPT !.name = "others"]

Abstract == [abstract |-> TRUE, bases |-> <<>>, mro |-> <<"CRUDResource">>, body |-> <<>>, methods |-> <<>>]
Class(bases, mro, body, methods) ==
    [abstract |-> FALSE, bases |-> bases, mro |-> mro, body |-> body, methods |-> methods]

\* A class, its child, and one below both that says nothing.
Chain(parent, parentMethods, child, childMethods) ==
    [c \in {"CRUDResource", "Parent", "Child", "Last"} |->
        CASE c = "CRUDResource" -> Abstract
          [] c = "Parent" -> Class(<<"CRUDResource">>, <<"Parent", "CRUDResource">>, parent, parentMethods)
          [] c = "Child" -> Class(<<"Parent">>, <<"Child", "Parent", "CRUDResource">>, child, childMethods)
          [] c = "Last" -> Class(<<"Child">>, <<"Last", "Child", "Parent", "CRUDResource">>,
                                 [a \in {} |-> ""], [m \in {} |-> ""])]

Granted == [size |-> {"eq", "gt", "lte", "in", "isnull"}]
NoMethods == [m \in {} |-> "plain"]
Walkable == [list |-> "limit_offset"]

MCHierarchies == <<
    Chain([model |-> Table, schema |-> "Thing"], NoMethods,
          [filters |-> Granted], Walkable),
    Chain([model |-> Table, input_schema |-> "ThingIn", output_schema |-> "ThingOut",
           filters |-> [size |-> {"eq"}]], NoMethods, [schema |-> "Thing"], NoMethods),
    Chain([model |-> Table, schema |-> "Thing"], NoMethods,
          [filters |-> [size |-> {"eq", "contains"}]], NoMethods),
    Chain([model |-> Table, input_schema |-> "ThingIn", output_schema |-> "ThingOut",
           filters |-> Granted], [drop |-> "plain", list |-> "page_number"],
          [model |-> Other, schema |-> "Other", filters |-> [size |-> {"eq"}]], Walkable),
    Chain([model |-> Table, input_schema |-> "ThingIn", output_schema |-> "ThingOut",
           filters |-> Granted], [list |-> "none"], [m \in {} |-> 0], [list |-> "page_number"]) >>

-----------------------------------------------------------------------------
(* Calls, one per client *)

MCTables == {<<1, -1, -1>>, <<2, 1, -1>>, <<1, 0, 2>>}

Some(verb) == [verb |-> verb, id |-> 0, cell |-> 0, elements |-> <<>>, valid |-> TRUE,
               mode |-> "limit_offset", filters |-> <<>>, order |-> "none", page |-> 1]
Writes2 ==
    {[Some("create") EXCEPT !.id = i, !.cell = x] : i \in {0, 2}, x \in {0, 1}}
    \cup {[Some(v) EXCEPT !.id = i, !.cell = x] :
             v \in {"update", "partial_update"}, i \in {2}, x \in {1, 2}}
    \cup {[Some("delete") EXCEPT !.id = i] : i \in {1, 3}}
    \cup {[Some(v) EXCEPT !.elements = e] :
             v \in {"replace", "partial_replace"}, e \in {2 :> 1 @@ 3 :> 0, 2 :> 1 @@ 3 :> 1}}
    \cup {Some("drop"), [Some("update") EXCEPT !.id = 1, !.valid = FALSE]}
Movers == {[Some("create") EXCEPT !.id = 2], [Some("delete") EXCEPT !.id = 1]}
Reads ==
    {[Some("retrieve") EXCEPT !.id = 2]} \cup {[Some("list") EXCEPT !.mode = m] : m \in {"limit_offset", "page_number"}}

Raw(negated, head, tail) == [column |-> "size", negated |-> negated, head |-> head, tail |-> tail]
Raws == {Raw(n, h, t) : n \in BOOLEAN, h \in {"eq", "gt", "lte", "in"}, t \in {"1"}}
        \cup {Raw(n, h, "none") : n \in BOOLEAN, h \in {"isnull", "1"}}
        \cup {Raw(FALSE, "foo", "1"), Raw(FALSE, "1", "1"), Raw(FALSE, "isnull", "1"), Raw(FALSE, "gt", "none"),
              Raw(FALSE, "in", "2"), Raw(TRUE, "in", "2"), Raw(FALSE, "gt", "x")}
Paired == {Raw(FALSE, "gt", "1"), Raw(TRUE, "eq", "1"), Raw(FALSE, "in", "2"), Raw(TRUE, "in", "2"),
           Raw(TRUE, "isnull", "none")}
Searches == {[Some("search") EXCEPT !.filters = [size |-> s], !.order = o[1], !.page = o[2]] :
                s \in {<<r>> : r \in Raws} \cup {<<q, r>> : q \in Raws, r \in Paired},
                o \in {<<"none", 1>>, <<"desc", 2>>, <<"none", -1>>}}

\* Any two calls, a walk among two writers, or a search alone.
MCCalls ==
    {<<a, b, Some("none")>> : a \in Reads \cup Movers, b \in Writes2}
    \cup {<<Some("list"), a, b>> : a \in Movers, b \in Writes2}
    \cup {<<q, Some("none"), Some("none")>> : q \in Searches \cup {Some("none")}}

remote == <<side, origin, resource, table, call, stage, reply, listed, outcome, before, after, walk>>

-----------------------------------------------------------------------------
(* The two sides *)

StillUnits ==
    /\ single = TRUE /\ workerOf = [u \in Units |-> CHOOSE w \in Workers : TRUE]
    /\ handler = [u \in Units |-> CHOOSE h \in Handlers : h.verb = "create"]
    /\ rows = [k \in Keys |-> Absent]

StillRemote ==
    /\ origin = <<1, "Child">> /\ table = <<1, -1, -1>>
    /\ call = <<Some("none"), Some("none"), Some("none")>>

\* Workers are alike, so that the first unit has the first of them. Every class is
\* searched, the calls are made on two, and the walks among two writers on the one
\* that is listed by offsets.
MCInit ==
    \/ /\ side = "units" /\ StillRemote /\ Remote!Init /\ Init
       /\ workerOf[CHOOSE u \in Units : TRUE] = CHOOSE w \in Workers : TRUE
    \/ /\ side = "remote" /\ StillUnits /\ Init /\ Remote!Init
       /\ \/ call[1].verb = "search" /\ origin[2] # "Last"
          \/ \A c \in Clients : call[c].verb = "none"
          \/ origin = <<1, "Child">>
          \/ call[3].verb = "none" /\ origin = <<4, "Parent">>

MCNext ==
    \/ side = "units" /\ Next /\ UNCHANGED remote
    \/ side = "remote" /\ Remote!Next /\ UNCHANGED <<side, vars>>

MCSpec ==
    /\ MCInit /\ [][MCNext]_<<vars, remote>>
    /\ \A u \in Units : WF_vars(side = "units" /\ Work(u))

-----------------------------------------------------------------------------
\* Every unit of work ends, where there are units.
UnitsEnd == side = "units" => EveryUnitEnds

\* A class is made as it declares, where there is one.
MadeAsDeclared == side = "remote" => Remote!MadeAsDeclared
=============================================================================
