----------------------------- MODULE Filtering -----------------------------
(***************************************************************************)
(* The filters of a resource (flama.resources.filtering): what a class may *)
(* declare, how a value written in a query string is read, and the rows    *)
(* the clauses keep.                                                       *)
(*                                                                         *)
(* A written value "not:<head>:<tail>" is a record, tail None when there   *)
(* is no colon. Columns hold small integers or NULL; the text operators    *)
(* are named for what they refuse, no column of the instance holds text.   *)
(***************************************************************************)
EXTENDS Integers, Sequences, FiniteSets, SequencesExt

None == "none"

\* NULL of a column, below every number it may hold.
Null == 0

\* A result that may be an error, or nothing: <<result>> or <<>>.
Refused == <<>>

\* OPERATORS: the types an operator compares, whether it takes a value, and
\* whether the values written for it are offered together.
Ordered == {"int", "str", "date"}
Operator(types, value, aggregate) == [types |-> types, value |-> value, aggregate |-> aggregate]
AnyType == Ordered \cup {"bool", "uuid"}
TextOperators ==
    {"contains", "startswith", "endswith", "icontains", "istartswith", "iendswith", "like", "ilike"}
OPERATORS ==
    [o \in {"eq", "gt", "gte", "lt", "lte", "in", "isnull"} \cup TextOperators |->
        Operator(IF o \in {"gt", "gte", "lt", "lte"} THEN Ordered
                 ELSE IF o \in TextOperators THEN {"str"} ELSE AnyType,
                 o # "isnull", o = "in")]

AppliesTo(o, type) == type \in OPERATORS[o].types

-----------------------------------------------------------------------------
(* What a class declares *)

\* Types a query string can carry; None is a column type with no Python one.
IsFilterable(column) == column.type \in AnyType

\* A model: its name, its columns, and its primary key.
FilterOf(column, operators) == [column |-> column, operators |-> operators]

\* Filters.build: the columns declared with their operators, every carried one
\* but the key by equality when nothing is declared, or an error of the class.
\* The declaration maps columns to operators; a sequence of columns grants "eq".
Build(model, declaration) ==
    LET Filtered(c) == FilterOf([model |-> model.name, name |-> c, type |-> model.columns[c].type], {"eq"})
    IN  IF declaration = <<>>
        THEN <<[c \in {c \in DOMAIN model.columns : c # model.key /\ IsFilterable(model.columns[c])} |->
                  Filtered(c)]>>
        ELSE LET granted == Head(declaration) IN
             IF \E c \in DOMAIN granted :
                   \/ c \notin DOMAIN model.columns
                   \/ ~IsFilterable(model.columns[c])
                   \/ \E o \in granted[c] :
                        o \notin DOMAIN OPERATORS \/ ~AppliesTo(o, model.columns[c].type)
             THEN Refused
             ELSE <<[c \in DOMAIN granted |-> [Filtered(c) EXCEPT !.operators = granted[c]]]>>

\* The query parameters of the list handler: a filter whose column is named as
\* one of its own arguments cannot be asked for.
Reserved == {"self", "worker", "order_by", "order_direction", "kwargs",
             "page", "page_size", "count", "offset", "limit"}
FilterParameters(filters) == DOMAIN filters \ Reserved

-----------------------------------------------------------------------------
(* What a value asks for *)

\* Filter._value: texts that are numbers; any other one is a validation error.
NumberIn == [c \in {"1", "2", "3"} |-> CASE c = "1" -> 1 [] c = "2" -> 2 [] c = "3" -> 3]

Clause(o, negated, value) == <<[operator |-> o, negated |-> negated, value |-> value]>>
ValueClause(o, negated, text) ==
    IF text \in DOMAIN NumberIn THEN Clause(o, negated, {NumberIn[text]}) ELSE Refused

\* Filter._parse: a name that is no operator is a value written alone, colon
\* included; an operator must be granted, and take a value or none as written.
Parse(filter, raw) ==
    IF raw.head \notin DOMAIN OPERATORS
    THEN IF raw.tail = None THEN ValueClause("eq", raw.negated, raw.head) ELSE Refused
    ELSE IF \/ raw.head \notin filter.operators
            \/ OPERATORS[raw.head].value # (raw.tail # None)
    THEN Refused
    ELSE IF OPERATORS[raw.head].value THEN ValueClause(raw.head, raw.negated, raw.tail)
    ELSE Clause(raw.head, raw.negated, {})

\* Filter.clauses: one clause per value, one for all the values of an
\* aggregating operator and sign. The order of conjuncts does not matter.
Clauses(filter, raws) ==
    LET parsed == {Parse(filter, raws[i]) : i \in DOMAIN raws}
        read == {Head(p) : p \in parsed \ {Refused}}
        offered == {p \in read : OPERATORS[p.operator].aggregate}
    IN  IF Refused \in parsed THEN Refused
        ELSE <<(read \ offered) \cup
               {[p EXCEPT !.value = UNION {q.value : q \in {r \in offered : r.negated = p.negated}}] :
                  p \in offered}>>

\* Filters.clauses: the columns asked for, all of them to hold.
AllClauses(filters, asked) ==
    LET of == [c \in FilterParameters(filters) \cap DOMAIN asked |-> Clauses(filters[c], asked[c])]
    IN  IF \E c \in DOMAIN of : of[c] = Refused THEN Refused
        ELSE <<UNION {{<<c, p>> : p \in Head(of[c])} : c \in DOMAIN of}>>

-----------------------------------------------------------------------------
(* What the database makes of a clause: true, false, or unknown for NULL *)

Compared(o, cell, value) ==
    CASE o \in {"eq", "in"} -> cell \in value
      [] o = "gt" -> \A v \in value : cell > v
      [] o = "gte" -> \A v \in value : cell >= v
      [] o = "lt" -> \A v \in value : cell < v
      [] o = "lte" -> \A v \in value : cell <= v

Unknown(clause, cell) == cell = Null /\ clause.operator # "isnull"
Holds(clause, cell) ==
    IF clause.operator = "isnull" THEN cell = Null
    ELSE Compared(clause.operator, cell, clause.value)

Keeps(clause, cell) == ~Unknown(clause, cell) /\ Holds(clause, cell) # clause.negated
=============================================================================
