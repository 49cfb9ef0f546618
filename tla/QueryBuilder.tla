----------------------------- MODULE QueryBuilder -----------------------------
(***************************************************************************)
(* The Layer 3 fluent builder: src/src/layer3/builder.  Every verb derives *)
(* a new node from the one before; whatever chain of verbs was called, the *)
(* text the compiler makes of it has to mean what was asked.               *)
(*                                                                         *)
(* What was asked is kept beside the node, in the terms of the caller: a   *)
(* filter is the set of rows it keeps, a row being known by the facts      *)
(* <<column, value>> that hold of it.  Operands of joins and of set        *)
(* operations are plain filtered queries.                                  *)
(***************************************************************************)
EXTENDS Compiler

CONSTANTS
    Tests,      \* the facts <<column, value>> a predicate can test
    MaxCalls    \* bound: verbs called in a chain

ASSUME MaxCallsAssumption == MaxCalls \in Nat

VARIABLES
    node,       \* the builder's node
    asked,      \* what the chain of verbs asked for
    calls       \* verbs called so far

builderVars == <<node, asked, calls>>

Rows == SUBSET Tests

-----------------------------------------------------------------------------
(* What callers pass: a comparison, sql`column = ${value}`, or a bracketed *)
(* alternative written with the sql tag.                                   *)

Predicates ==
    [form : {"comparison", "sql"}, test : Tests]
        \cup {p \in [form : {"either"}, test : Tests, other : Tests] : p.test # p.other}

\* What filters the operand of a join or of a set operation.
Comparisons == {p \in Predicates : p.form = "comparison"}

\* buildPredicate, toExpr, toValue and the sql tag.
PredicateNode(p) ==
    CASE p.form = "comparison" -> Binary(Reference(p.test[1]), Value(p.test[2]))
      [] p.form = "sql" -> Raw(<< << <<"sql", p.test[1]>> >>, <<>> >>, <<Value(p.test[2])>>)
      [] p.form = "either" ->
            Raw(<< <<Kw("("), <<"sql", p.test[1]>> >>, <<Kw("OR"), <<"sql", p.other[1]>> >>, <<Kw(")")>> >>,
                <<Value(p.test[2]), Value(p.other[2])>>)

Kept(p) == {r \in Rows : p.test \in r \/ (p.form = "either" /\ p.other \in r)}

NothingAsked ==
    [source |-> <<>>, where |-> Rows, prewhere |-> Rows, having |-> Rows, selected |-> <<>>,
     joined |-> <<>>, combined |-> <<>>, assigned |-> <<>>]

Roots == {SelectFrom(Reference("t")), UpdateTable("t"), DeleteFrom("t")}

BuilderInit(roots) ==
    /\ node \in roots
    /\ asked = NothingAsked
    /\ calls = 0

-----------------------------------------------------------------------------
(* The verbs.                                                              *)

\* Mutant of Combine: any junction is extended, whichever it is.
CombineAny(existing, next, kind) ==
    IF existing = None THEN next
    ELSE IF existing.k \in {"AND", "OR"} THEN [existing EXCEPT !.items = Append(@, next)]
    ELSE [k |-> kind, items |-> <<existing, next>>]

\* combine, combinePredicate: a junction of the same kind is extended, any other becomes an operand.
Combine(existing, next, kind) ==
    IF existing = None THEN next
    ELSE IF existing.k = kind THEN [existing EXCEPT !.items = Append(@, next)]
    ELSE [k |-> kind, items |-> <<existing, next>>]

Derive(n, a) == calls < MaxCalls /\ node' = n /\ asked' = a /\ calls' = calls + 1

IsSelect == node.kind = "SelectQuery"

Where(p) ==
    /\ node.kind # "InsertSelect"
    /\ Derive([node EXCEPT !.where = Combine(@, PredicateNode(p), "AND")],
              [asked EXCEPT !.where = @ \cap Kept(p)])

\* With no predicate before it, orWhere() is where().
OrWhere(p) ==
    /\ IsSelect
    /\ Derive([node EXCEPT !.where = Combine(@, PredicateNode(p), "OR")],
              [asked EXCEPT !.where = IF node.where = None THEN Kept(p) ELSE @ \cup Kept(p)])

Prewhere(p) ==
    /\ IsSelect
    /\ Derive([node EXCEPT !.prewhere = Combine(@, PredicateNode(p), "AND")],
              [asked EXCEPT !.prewhere = @ \cap Kept(p)])

Having(p) ==
    /\ IsSelect
    /\ Derive([node EXCEPT !.having = Combine(@, PredicateNode(p), "AND")],
              [asked EXCEPT !.having = @ \cap Kept(p)])

\* select(fn('f', [value])): a selection that binds a value before every later clause.
AddSelection(v) ==
    /\ IsSelect
    /\ Derive([node EXCEPT !.selections = Append(@, Function("f", <<Value(v)>>))],
              [asked EXCEPT !.selected = Append(@, v)])

Operand(p) == [SelectFrom(Reference("t")) EXCEPT !.where = PredicateNode(p)]

JoinQuery(p) ==
    /\ IsSelect /\ node.joins = <<>>
    /\ Derive([node EXCEPT !.joins = Append(@, [source |-> Alias(Subquery(Operand(p)), "j"),
                                                on |-> Binary(Reference("l"), Reference("r"))])],
              [asked EXCEPT !.joined = Append(@, Kept(p))])

SetOperation(op, p) ==
    /\ IsSelect
    /\ Derive([node EXCEPT !.setOps = Append(@, [operator |-> op, query |-> Operand(p)])],
              [asked EXCEPT !.combined = Append(@, <<op, Kept(p)>>)])

\* selectFrom(query.as('x')): the chain so far becomes a source.
AsSource ==
    /\ IsSelect
    /\ Derive(SelectFrom(Alias(Subquery(node), "x")), [NothingAsked EXCEPT !.source = <<asked>>])

\* updateTable(t).set({column: value})
Set(t) ==
    /\ node.kind = "UpdateQuery"
    /\ Derive([node EXCEPT !.assignments = Append(@, [column |-> t[1], value |-> Value(t[2])])],
              [asked EXCEPT !.assigned = Append(@, t)])

\* insertInto(t).values(query)
InsertValues == IsSelect /\ Derive(InsertSelect("t", node), asked)

BuilderNext ==
    \/ \E p \in Predicates : Where(p) \/ OrWhere(p) \/ Prewhere(p) \/ Having(p)
    \/ \E p \in Comparisons : JoinQuery(p) \/ \E op \in SetOperators : SetOperation(op, p)
    \/ \E t \in Tests : AddSelection(t[2]) \/ Set(t)
    \/ AsSource \/ InsertValues

-----------------------------------------------------------------------------
(* Reading a compiled text back.                                           *)

\* The queries of a chain of set operations, and the operators between them.
Operators(text) == SetToSortSeq(TopLevel(text, SetOperators), LAMBDA i, j : i < j)

Bodies(text) ==
    LET cuts == <<0>> \o Operators(text) \o <<Len(text) + 1>>
    IN  [i \in 1 .. Len(cuts) - 1 |-> SubSeq(text, cuts[i] + 1, cuts[i + 1] - 1)]

KeptBy(text, word, parameters) == {r \in Rows : HoldsOf(ClauseOf(text, word), parameters, r)}

\* "(" query ")" "AS" name, optionally followed by "ON" and its comparison.
Nested(text) == SubSeq(text, 2, Len(text) - 3)
Joined1(text) == LET on == TopLevel(text, {"ON"}) IN Nested(SubSeq(text, 1, Least(on) - 1))

RECURSIVE SelectMeans(_, _, _)
SelectMeans(text, parameters, a) ==
    LET bodies == Bodies(text)  first == bodies[1]  operators == Operators(text) IN
    /\ KeptBy(first, "WHERE", parameters) = a.where
    /\ KeptBy(first, "PREWHERE", parameters) = a.prewhere
    /\ KeptBy(first, "HAVING", parameters) = a.having
    /\ ValuesOf(ClauseOf(first, "SELECT"), parameters) = a.selected
    /\ a.source # <<>> => SelectMeans(Nested(ClauseOf(first, "FROM")), parameters, a.source[1])
    /\ a.joined # <<>> => KeptBy(Joined1(ClauseOf(first, "JOIN")), "WHERE", parameters) = a.joined[1]
    /\ [i \in DOMAIN operators |-> <<text[operators[i]][2], KeptBy(bodies[i + 1], "WHERE", parameters)>>]
         = a.combined

UpdateMeans(text, parameters, a) ==
    LET sets == ClauseOf(text, "UPDATE")
        columns == SelectSeq(sets, LAMBDA t : t[1] = "ref")
    IN  /\ [i \in DOMAIN columns |-> <<columns[i][2], ValuesOf(sets, parameters)[i]>>] = a.assigned
        /\ KeptBy(text, "WHERE", parameters) = a.where

Means(n, text, parameters, a) ==
    CASE n.kind = "SelectQuery" -> SelectMeans(text, parameters, a)
      [] n.kind = "InsertSelect" -> SelectMeans(SubSeq(text, 3, Len(text)), parameters, a)
      [] n.kind = "UpdateQuery" -> UpdateMeans(text, parameters, a)
      [] n.kind = "DeleteQuery" -> KeptBy(text, "WHERE", parameters) = a.where

\* Placeholders are numbered as they come, and every value is bound by exactly one of them.
BoundOnce(text, parameters) ==
    LET pars == SelectSeq(text, LAMBDA t : t[1] = "par")
    IN  pars = [i \in DOMAIN parameters |-> <<"par", i - 1>>]

\* Read by the grammar of SQL, with its values put back, a compiled statement filters, selects, assigns and
\* combines exactly what the chain of verbs asked for: AND and OR bind as called, one numbering runs through
\* subqueries, joins and set operations, and no mutation is compiled without the predicate it was given.
StatementMeansWhatWasAsked ==
    ~Refuses(node) =>
        LET compiled == Compiled(node) IN
        /\ BoundOnce(compiled.text, compiled.parameters)
        /\ Means(node, compiled.text, compiled.parameters, asked)
=============================================================================
