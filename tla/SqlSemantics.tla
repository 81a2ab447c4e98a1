---------------------------- MODULE SqlSemantics ----------------------------
(***************************************************************************)
(* What a statement should answer and write: SQL's meaning of a parse      *)
(* tree, stated on the tree itself with three-valued conditions over the   *)
(* cross product of the tables, and the properties that compare it with    *)
(* what the pipeline of SqlQuery does.                                     *)
(***************************************************************************)
EXTENDS SqlQuery

\* A row in scope: cells [a, c, v] of alias, column and value, inner tables first.
RefCells(ref, row) ==
    [i \in DOMAIN row |-> [a |-> ref[1], c |-> Catalog[ref[2]][i].name, v |-> row[i]]]
Live(d, table) == SelectSeq(d[table], LAMBDA r : r # <<>>)

RefField(u, cells) ==
    cells[SelectInSeq(cells, LAMBDA c : c.c = u.col /\ u.tab \in {"", c.a})].v

RefSum(xs) == FoldSeq(LAMBDA x, s : s + GetFloat(x), 0, xs)

RefNonNull(f, xs) ==
    CASE f = "COUNT" -> Ints(Len(xs))
      [] f # "COUNT" /\ xs = <<>> -> Null
      [] f = "SUM" /\ xs # <<>> -> IF xs[1].t = "ints" THEN Ints(RefSum(xs) \div Unit) ELSE Floats(RefSum(xs))
      [] f = "AVG" /\ xs # <<>> -> Floats(RefSum(xs) \div Len(xs))
      [] f = "MAX" /\ xs # <<>> ->
            xs[CHOOSE i \in DOMAIN xs : \A j \in DOMAIN xs : GetFloat(xs[i]) >= GetFloat(xs[j])]
      [] f = "MIN" /\ xs # <<>> ->
            xs[CHOOSE i \in DOMAIN xs : \A j \in DOMAIN xs : GetFloat(xs[i]) <= GetFloat(xs[j])]
RefAggregate(f, vals) == RefNonNull(f, SelectSeq(vals, LAMBDA x : x.t # "nulls"))

RefArithmetic(op, l, r) ==
    LET a == GetFloat(l)
        b == GetFloat(r)
        int(x) == IF {l.t, r.t} = {"ints"} THEN Ints(x \div Unit) ELSE Floats(x)
    IN  CASE "nulls" \in {l.t, r.t} /\ op # "NEGATIVE" -> Null
          [] op = "NEGATIVE" -> IF l.t = "nulls" THEN Null ELSE Floats(-a)
          [] op = "ADD" -> int(a + b) [] op = "SUB" -> int(a - b)
          [] op = "MUL" -> int((a * b) \div Unit)
          [] op = "DIV" -> IF b = 0 THEN Null ELSE Floats((a * Unit) \div b)

FirstColumn(rs) == List([i \in DOMAIN rs |-> rs[i].row[1]])

RECURSIVE RefValue(_, _, _, _), RefRows(_, _, _), Defined(_, _, _)

\* `group': the rows an aggregate ranges over, `cells' the row other names are read from.
RefValue(u, cells, group, d) ==
    CASE u.k = "value" -> u.v
      [] u.k = "unboundfield" -> RefField(u, cells)
      [] u.k = "arithmetic" -> RefArithmetic(u.op, RefValue(u.l, cells, group, d), RefValue(u.r, cells, group, d))
      [] u.k = "unboundaggregation" ->
            RefAggregate(u.f, [i \in DOMAIN group |->
                IF u.e.k = "star" THEN Ints(1) ELSE RefValue(u.e, group[i], <<>>, d)])
      [] u.k = "unboundsubselect" ->
            FirstColumn(RefRows(u.q, cells, d))

\* A scalar sub-select stands for its value, NULL if it has none.
Scalar(x) == IF x.t # "valueslists" THEN x ELSE IF x.l = <<>> THEN Null ELSE x.l[1]
Tri(b) == IF b THEN "true" ELSE "false"

RefCompare(op, l, r) ==
    LET c == GetFloat(l) - GetFloat(r)
    IN  CASE op = "IS_NULL" -> Tri(l.t = "nulls")
          [] op = "IS_NOT" -> Tri(l.t # "nulls")
          [] op \notin {"IS_NULL", "IS_NOT"} /\ "nulls" \in {l.t, r.t} -> "unknown"
          [] OTHER -> Tri(CASE op = "EQUAL_TO" -> c = 0 [] op = "NOT_EQUAL" -> c # 0
                            [] op = "LESS_THAN" -> c < 0 [] op = "LESS_EQUAL" -> c <= 0
                            [] op = "GREAT_THAN" -> c > 0 [] op = "GREAT_EQUAL" -> c >= 0)

\* IN is true if some comparison is, unknown if none is but one is unknown.
AnyTrue(ts) == IF "true" \in ts THEN "true" ELSE IF "unknown" \in ts THEN "unknown" ELSE "false"
NotTri(t) == IF t = "true" THEN "false" ELSE IF t = "false" THEN "true" ELSE t
RefIn(l, xs) == AnyTrue({RefCompare("EQUAL_TO", l, xs[i]) : i \in DOMAIN xs})

RefTruth(op, l, r) ==
    CASE op = "IN" -> RefIn(Scalar(l), r.l)
      [] op = "NOT_IN" -> NotTri(RefIn(Scalar(l), r.l))
      [] OTHER -> RefCompare(op, Scalar(l), Scalar(r))

\* The conditions that are true of a row; a list holds if one or if all of them are.
TrueConds(conds, cells, group, d) ==
    {i \in DOMAIN conds : RefTruth(conds[i].op, RefValue(conds[i].l, cells, group, d),
                                                RefValue(conds[i].r, cells, group, d)) = "true"}
Enough(true, n, conj) == IF conj = "OR" /\ n > 0 THEN true # {} ELSE true = 1..n
Holds(conds, conj, cells, group, d) == Enough(TrueConds(conds, cells, group, d), Len(conds), conj)

\* The cross product of the tables.
RefProduct(from, d) ==
    FoldSeq(LAMBDA ref, acc :
                FlattenSeq([i \in DOMAIN acc |->
                    [j \in DOMAIN Live(d, ref[2]) |-> acc[i] \o RefCells(ref, Live(d, ref[2])[j])]]),
            <<<<>>>>, from)

\* The rows in scope, in front of the outer row, of which the conditions hold.
Kept(q, outer, d) ==
    SelectSeq(LET inFront(p) == [i \in DOMAIN p |-> p[i] \o outer] IN inFront(RefProduct(q.from, d)),
              LAMBDA r : \A c \in {<<q.where, q.conj>>, <<q.on, "AND">>} : Holds(c[1], c[2], r, <<>>, d))

RECURSIVE RefAggregates(_)
RefAggregates(u) == \/ u.k = "unboundaggregation"
                    \/ u.k = "arithmetic" /\ (RefAggregates(u.l) \/ RefAggregates(u.r))
Grouped(q) == q.group # <<>> \/ \E i \in DOMAIN q.es : RefAggregates(q.es[i])

\* The groups of the kept rows, in the order of their first rows; one group without GROUP BY.
\* `keys' are the values of the GROUP BY list, row by row.
SplitBy(kept, keys) ==
    LET firsts == SetToSortSeq({i \in DOMAIN keys : \A j \in 1..i - 1 : keys[j] # keys[i]}, <)
        rows_(i) == SetToSortSeq({j \in DOMAIN keys : keys[j] = keys[i]}, <)
        pick(is) == [n \in DOMAIN is |-> kept[is[n]]]
    IN  [g \in DOMAIN firsts |-> pick(rows_(firsts[g]))]

RefGroups(q, kept, d) ==
    IF q.group = <<>> THEN <<kept>>
    ELSE SplitBy(kept, [n \in DOMAIN kept |->
                         [i \in DOMAIN q.group |-> RefValue(q.group[i], kept[n], <<>>, d)]])

Expand(q) ==
    IF q.es # <<Star>> THEN q.es
    ELSE FlattenSeq([i \in DOMAIN q.from |->
            [j \in DOMAIN Catalog[q.from[i][2]] |-> Col(q.from[i][1], Catalog[q.from[i][2]][j].name)]])

\* Every row of the answer with its sort key, before ORDER BY and LIMIT.  A row comes from a
\* row in scope and the group it stands for; an empty group is seen with the outer row.
RefRow(q, es, cells, group, d) ==
    [row |-> [i \in DOMAIN es |-> RefValue(es[i], cells, group, d)],
     key |-> [i \in DOMAIN q.order |-> RefValue(q.order[i].e, cells, group, d)]]

RefSources(q, outer, kept, d) ==
    IF ~Grouped(q) THEN [i \in DOMAIN kept |-> [cells |-> kept[i], group |-> <<>>]]
    ELSE LET seen(gs) == [i \in DOMAIN gs |-> [cells |-> IF gs[i] = <<>> THEN outer ELSE gs[i][1], group |-> gs[i]]]
         IN  SelectSeq(seen(RefGroups(q, kept, d)), LAMBDA g : Holds(q.having, "AND", g.cells, g.group, d))

RowsFrom(q, srcs, d) == [i \in DOMAIN srcs |-> RefRow(q, Expand(q), srcs[i].cells, srcs[i].group, d)]
RefRows(q, outer, d) == RowsFrom(q, RefSources(q, outer, Kept(q, outer, d), d), d)

\* Key order: NULLs below everything.
RECURSIVE KeyLess(_, _, _, _)
KeyLess(q, i, x, y) ==
    i <= Len(q.order) /\
    LET a == IF x[i].t = "nulls" THEN -IntMax ELSE GetFloat(x[i])
        b == IF y[i].t = "nulls" THEN -IntMax ELSE GetFloat(y[i])
    IN  IF a = b THEN KeyLess(q, i + 1, x, y) ELSE IF q.order[i].by = "ASC" THEN a < b ELSE b < a

\* An answer is admissible: the rows of the meaning, as many as LIMIT lets through, a first
\* part of them in some order that sorts them.
Admissible(q, answer, all) ==
    LET n == IF q.limit < 0 \/ q.limit > Len(all) THEN Len(all) ELSE q.limit
    IN  /\ Len(answer) = n
        /\ \E p \in [1..n -> 1..Len(all)] :
             /\ \A i, j \in 1..n : p[i] = p[j] => i = j
             /\ \A i \in 1..n : answer[i] = all[p[i]].row
             /\ \A i \in 1..n - 1 : ~KeyLess(q, 1, all[p[i + 1]].key, all[p[i]].key)
             /\ \A j \in 1..Len(all) : \/ \E i \in 1..n : p[i] = j
                                       \/ \A i \in 1..n : ~KeyLess(q, 1, all[j].key, all[p[i]].key)

(***************************************************************************)
(* Statements whose meaning the pipeline is known not to give.             *)
(***************************************************************************)
CondsOf(q) == q.where \o (IF q.k = "select" THEN q.on \o q.having ELSE <<>>)
SubsOf(q) == {e \in UNION {{CondsOf(q)[i].l, CondsOf(q)[i].r} : i \in DOMAIN CondsOf(q)} : e.k = "unboundsubselect"}
Plain(c) == c.l.k \in {"value", "unboundfield"} /\ c.r.k \in {"value", "unboundfield"}

\* An OR spread over several predicates becomes an AND (logical_plan_generator.cpp:140).
OrSplit(q) ==
    /\ q.conj = "OR" /\ q.k = "select"
    /\ Len(q.from) > 1 \/ \E i, j \in DOMAIN q.where : Plain(q.where[i]) /\ ~Plain(q.where[j])
\* SORT and LIMIT sit below GROUP BY (logical_plan_generator.cpp:200).
LimitBelowGroup(q) == q.k = "select" /\ Grouped(q) /\ (q.limit >= 0 \/ q.order # <<>>)
\* A projection of constants gives one row whatever the tables hold (project_physical_operator.cpp:47).
OnlyConstants(q) == q.k = "select" /\ \A i \in DOMAIN q.es : q.es[i].k = "value"
\* A sub-select's LIMIT, GROUP BY or constants are not reset between two evaluations.
KeepsState(q) == \E e \in SubsOf(q) : e.q.limit >= 0 \/ e.q.group # <<>> \/ OnlyConstants(e.q)
\* IS [NOT] NULL sees the list of a sub-select, which is never NULL; <> of an empty one fails,
\* and a sort or a write takes the failure for the end of the rows.
ListMisread(q) ==
    \E i \in DOMAIN CondsOf(q) : /\ {CondsOf(q)[i].l, CondsOf(q)[i].r} \cap SubsOf(q) # {}
                                 /\ CondsOf(q)[i].op \in {"IS_NULL", "IS_NOT", "NOT_EQUAL"}
\* The rows of the outer table hide those of an inner table of the same alias.
Shadowed(q) ==
    \E e \in SubsOf(q), i \in 1..3, j \in 1..3 :
        LET from == IF q.k = "select" THEN q.from ELSE <<<<q.table, q.table>>>>
        IN  i \in DOMAIN e.q.from /\ j \in DOMAIN from /\ e.q.from[i][1] = from[j][1]

Deviates(q) == \/ OrSplit(q) \/ LimitBelowGroup(q) \/ OnlyConstants(q)
               \/ KeepsState(q) \/ ListMisread(q) \/ Shadowed(q)

\* No scalar sub-select has two rows: then the statement has a meaning.
Defined(q, outer, d) ==
    \A e \in SubsOf(q) :
        \/ \E i \in DOMAIN CondsOf(q) : CondsOf(q)[i].op \in {"IN", "NOT_IN"} /\ CondsOf(q)[i].r = e
        \/ \A r \in ToSet(RefProduct(IF q.k = "select" THEN q.from ELSE <<<<q.table, q.table>>>>, d)) :
              Len(RefRows(e.q, r, d)) <= 1

(***************************************************************************)
(* Properties.                                                             *)
(***************************************************************************)
\* A select that ends in SUCCESS has written to the client exactly the rows SQL means: no row
\* lost or made up by the split of the conditions over the join prefixes, the casts put into
\* them, the buffered join, the grouping or a correlated sub-select run once per row, and in
\* the order and the number asked for.
AnswersExact ==
    (phase = "done" /\ rc = OK /\ query.k = "select" /\ ~Deviates(query)
       /\ Defined(query, <<>>, db))
    => Admissible(query, rows, RefRows(query, <<>>, db))

\* The rows a write should touch, by slot.
Targets(q, d) ==
    LET hit(i) == d[q.table][i] # <<>> /\
                  Holds(q.where, q.conj, RefCells(<<q.table, q.table>>, d[q.table][i]), <<>>, d)
    IN  SelectSeq([i \in DOMAIN d[q.table] |-> i], hit)

Calls(q, d) ==
    LET tagged(is) == [i \in DOMAIN is |-> <<q.k, is[i]>>]
    IN  CASE q.k \in {"update", "delete"} -> tagged(Targets(q, d))
          [] q.k = "insert" -> <<<<"insert", Len(d[q.table]) + 1>>>>
          [] OTHER -> <<>>

AsWanted(done, want) == IsPrefix(done, want) /\ (rc' = OK => done = want)

\* A write calls the transaction once for each row its WHERE clause selects on the data it
\* began with, in slot order and for no other row: all of them if it ends in SUCCESS, the
\* first ones if it fails.  EXPLAIN of a write, and a statement that fails before it is opened,
\* call nothing.
WritesExact ==
    [][ (/\ phase = "open"
         /\ query.k \in {"update", "delete"} => ~Deviates(query) /\ Defined(query, <<>>, db))
        => AsWanted(calls', Calls(query, db)) ]_vars
=============================================================================
