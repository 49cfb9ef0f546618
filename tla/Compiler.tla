------------------------------- MODULE Compiler -------------------------------
(***************************************************************************)
(* The Layer 3 compiler: src/src/layer3/compiler.  A query is an immutable *)
(* tree; compiling it yields a text and the values bound beside it.        *)
(*                                                                         *)
(* The text is a sequence of tokens <<kind, what>>: "kw" a keyword or a    *)
(* bracket, "ref" a quoted identifier, "par" a placeholder by its number,  *)
(* "sql" a fragment the author wrote.  Quoting, names' validation and the  *)
(* placeholders' types are left out; so are the modifiers that carry no    *)
(* value and no expression (DISTINCT, FINAL, SAMPLE, LIMIT, SETTINGS,      *)
(* FORMAT).                                                                *)
(***************************************************************************)
EXTENDS Integers, Sequences, SequencesExt

None == [k |-> "None"]

Value(v) == [k |-> "Value", value |-> v]
Reference(n) == [k |-> "Reference", name |-> n]
Binary(l, r) == [k |-> "Binary", left |-> l, right |-> r]
Raw(fragments, values) == [k |-> "Raw", fragments |-> fragments, values |-> values]
Function(n, args) == [k |-> "Function", name |-> n, args |-> args]
Alias(e, n) == [k |-> "Alias", node |-> e, alias |-> n]
Subquery(q) == [k |-> "Subquery", query |-> q]

SelectFrom(source) ==
    [kind |-> "SelectQuery", ctes |-> <<>>, selections |-> <<>>, from |-> source, joins |-> <<>>,
     prewhere |-> None, where |-> None, groupBy |-> <<>>, having |-> None, orderBy |-> <<>>,
     limitBy |-> <<>>, setOps |-> <<>>]
UpdateTable(t) == [kind |-> "UpdateQuery", table |-> t, assignments |-> <<>>, where |-> None]
DeleteFrom(t) == [kind |-> "DeleteQuery", table |-> t, where |-> None]
InsertSelect(t, q) == [kind |-> "InsertSelect", table |-> t, select |-> q]

-----------------------------------------------------------------------------
(* What the compiler refuses, besides malformed names.                     *)

Refuses(node) ==
    CASE node.kind = "SelectQuery" -> node.from = None /\ node.selections = <<>>
      [] node.kind = "UpdateQuery" -> node.assignments = <<>> \/ node.where = None
      [] node.kind = "DeleteQuery" -> node.where = None
      [] node.kind = "InsertSelect" -> node.select.from = None /\ node.select.selections = <<>>

-----------------------------------------------------------------------------
(* Compilation: the text and the parameters so far, threaded through.      *)

Blank == [text |-> <<>>, parameters |-> <<>>]

Kw(word) == <<"kw", word>>
Emit(c, token) == [c EXCEPT !.text = Append(@, token)]
Emits(c, tokens) == [c EXCEPT !.text = @ \o tokens]
Word(c, word) == Emit(c, Kw(word))

\* One collector per statement: the next number is how many values it already holds.
Bind(c, v) ==
    [text |-> Append(c.text, <<"par", Len(c.parameters)>>), parameters |-> Append(c.parameters, v)]

RECURSIVE Expr(_, _), Select(_, _)

\* The expressions es in order, with sep between them.
Joined(c, es, sep) ==
    FoldLeftDomain(LAMBDA acc, i : Expr(IF i = 1 THEN acc ELSE Word(acc, sep), es[i]), c, es)

Wrapped(c, es, sep) == Word(Joined(Word(c, "("), es, sep), ")")

Expr(c, e) ==
    CASE e.k = "Value" -> Bind(c, e.value)
      [] e.k = "Reference" -> Emit(c, <<"ref", e.name>>)
      [] e.k = "Raw" ->
            FoldLeftDomain(LAMBDA acc, i : Emits(Expr(acc, e.values[i]), e.fragments[i + 1]),
                           Emits(c, e.fragments[1]), e.values)
      [] e.k = "Function" -> Wrapped(Emit(c, <<"ref", e.name>>), e.args, ",")
      [] e.k = "Binary" -> Expr(Word(Expr(c, e.left), "="), e.right)
      [] e.k \in {"AND", "OR"} -> Wrapped(c, e.items, e.k)
      [] e.k = "Alias" -> Emit(Word(Expr(c, e.node), "AS"), <<"ref", e.alias>>)
      [] e.k = "Subquery" -> Word(Select(Word(c, "("), e.query), ")")

Optional(c, word, e) == IF e = None THEN c ELSE Expr(Word(c, word), e)
Listed(c, word, es) == IF es = <<>> THEN c ELSE Joined(Word(c, word), es, ",")

SelectBody(c, q) ==
    LET selected == IF q.selections = <<>> THEN Word(Word(c, "SELECT"), "*")
                    ELSE Listed(c, "SELECT", q.selections)
        sourced  == Optional(selected, "FROM", q.from)
        joined   == FoldLeft(LAMBDA acc, j : Optional(Expr(Word(acc, "JOIN"), j.source), "ON", j.on),
                             sourced, q.joins)
        filtered == Optional(Optional(joined, "PREWHERE", q.prewhere), "WHERE", q.where)
        grouped  == Optional(Listed(filtered, "GROUP BY", q.groupBy), "HAVING", q.having)
    IN  Listed(Listed(grouped, "ORDER BY", q.orderBy), "LIMIT BY", q.limitBy)

\* Common table expressions first; a set operation's operand contributes its body only.
Select(c, q) ==
    LET cte(acc, i) ==
            Word(Select(Word(Emit(Word(acc, IF i = 1 THEN "WITH" ELSE ","), <<"ref", q.ctes[i].name>>),
                             "("), q.ctes[i].query), ")")
    IN  FoldLeft(LAMBDA acc, op : SelectBody(Word(acc, op.operator), op.query),
                 SelectBody(FoldLeftDomain(cte, c, q.ctes), q), q.setOps)

Update(c, u) ==
    LET assigned(acc, i) ==
            Expr(Word(Emit(IF i = 1 THEN acc ELSE Word(acc, ","), <<"ref", u.assignments[i].column>>), "="),
                 u.assignments[i].value)
    IN  Optional(FoldLeftDomain(assigned, Word(Emit(Word(c, "ALTER TABLE"), <<"ref", u.table>>), "UPDATE"),
                                u.assignments),
                 "WHERE", u.where)

Delete(c, d) == Optional(Word(Emit(Word(c, "ALTER TABLE"), <<"ref", d.table>>), "DELETE"), "WHERE", d.where)

\* compileQuery, for a node it does not refuse.
Compiled(node) ==
    CASE node.kind = "SelectQuery" -> Select(Blank, node)
      [] node.kind = "UpdateQuery" -> Update(Blank, node)
      [] node.kind = "DeleteQuery" -> Delete(Blank, node)
      [] node.kind = "InsertSelect" ->
            Select(Emit(Word(Blank, "INSERT INTO"), <<"ref", node.table>>), node.select)

-----------------------------------------------------------------------------
(* The reading of a text by the grammar of SQL, independent of the         *)
(* compiler: brackets, AND before OR, clauses up to the next keyword.      *)

Depth(text, i) ==
    FoldLeft(LAMBDA d, t : d + (IF t = Kw("(") THEN 1 ELSE IF t = Kw(")") THEN -1 ELSE 0),
             0, SubSeq(text, 1, i))

\* Where the words stand outside every bracket.
TopLevel(text, words) ==
    {i \in DOMAIN text : text[i][1] = "kw" /\ text[i][2] \in words /\ Depth(text, i) = 0}

Least(S) == CHOOSE i \in S : \A j \in S : i <= j

SetOperators == {"UNION DISTINCT", "UNION ALL", "INTERSECT", "EXCEPT"}
Clauses == {"SELECT", "FROM", "JOIN", "PREWHERE", "WHERE", "GROUP BY", "HAVING", "ORDER BY", "LIMIT BY",
            "UPDATE", "DELETE"}

\* What follows the first occurrence of word up to the next clause; nothing if there is none.
ClauseOf(text, word) ==
    LET starts == TopLevel(text, {word})
        ends(i) == {j \in TopLevel(text, Clauses \cup SetOperators) : j > i} \cup {Len(text) + 1}
    IN  IF starts = {} THEN <<>>
        ELSE SubSeq(text, Least(starts) + 1, Least(ends(Least(starts))) - 1)

Unwrapped(text) == SubSeq(text, 2, Len(text) - 1)

\* The column tests column = {pN} of a row's facts; an author's fragment names its column the same way.
RECURSIVE HoldsOf(_, _, _)
HoldsOf(text, parameters, facts) ==
    LET ors == TopLevel(text, {"OR"})  ands == TopLevel(text, {"AND"})
        split(i) == <<SubSeq(text, 1, i - 1), SubSeq(text, i + 1, Len(text))>>
    IN  IF text = <<>> THEN TRUE
        ELSE IF ors # {}
          THEN \E h \in ToSet(split(Least(ors))) : HoldsOf(h, parameters, facts)
        ELSE IF ands # {}
          THEN \A h \in ToSet(split(Least(ands))) : HoldsOf(h, parameters, facts)
        ELSE IF text[1] = Kw("(") THEN HoldsOf(Unwrapped(text), parameters, facts)
        ELSE \E i, j \in DOMAIN text :
                /\ text[i][1] \in {"ref", "sql"} /\ text[j][1] = "par" /\ i < j
                /\ <<text[i][2], parameters[text[j][2] + 1]>> \in facts

\* The values the placeholders of a stretch of text stand for, in order.
ValuesOf(text, parameters) ==
    LET pars == SelectSeq(text, LAMBDA t : t[1] = "par")
    IN  [i \in DOMAIN pars |-> parameters[pars[i][2] + 1]]
=============================================================================
