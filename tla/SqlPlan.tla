------------------------------ MODULE SqlPlan ------------------------------
(***************************************************************************)
(* The executable half of the SQL layer: values, tuples, bound             *)
(* expressions, aggregators and the tuple-at-a-time physical operators     *)
(* (src/observer/common/{value,type}, sql/expr, sql/operator).             *)
(*                                                                         *)
(* An operator is a record with its kind and its members; opening it,      *)
(* stepping it and closing it return the operator it has become, because   *)
(* a sub-select keeps its operator between two evaluations and what close  *)
(* does not reset is still there the next time.  `d' is the stored data:   *)
(* d[table] is the sequence of the slots of the table, a deleted row is    *)
(* the empty row.  The numbers are INTS and FLOATS; a float is a whole     *)
(* number of Unit-ths.  The rewriter has no rule enabled, so predicates    *)
(* never reach a table scan and no index scan is ever chosen.              *)
(***************************************************************************)
EXTENDS Integers, SequencesExt

CONSTANTS Unit,         \* fractions of a float
          Catalog       \* table name -> sequence of [name, ty, nullable]

OK    == "SUCCESS"
EOF_  == "RECORD_EOF"
IntMax == 2147483647

(***************************************************************************)
(* Values.                                                                 *)
(***************************************************************************)
Ints(n)   == [t |-> "ints", v |-> n]
Floats(k) == [t |-> "floats", v |-> k]
Bool(b)   == [t |-> "booleans", v |-> IF b THEN 1 ELSE 0]
List(s)   == [t |-> "valueslists", l |-> s]
Null      == [t |-> "nulls", v |-> 0]
Undefined == [t |-> "undefined", v |-> 0]
None      == [k |-> "none"]

\* get_float: the number in Unit-ths, comparable between the two types.
GetFloat(x) == IF x.t = "ints" THEN x.v * Unit ELSE x.v
GetBoolean(x) == x.t # "nulls" /\ x.v # 0

CompareNumbers(l, r) == GetFloat(l) - GetFloat(r)
CompareNull(r) == IF r.t = "nulls" THEN 0 ELSE -IntMax

RECURSIVE Compare(_, _)
Compare(l, r) ==
    CASE l.t = "nulls" -> CompareNull(r)
      [] l.t = "valueslists" -> IF Len(l.l) # 1 THEN IntMax ELSE Compare(l.l[1], r)
      [] l.t \notin {"nulls", "valueslists"} /\ r.t = "valueslists" -> -Compare(r, l)
      [] l.t \notin {"nulls", "valueslists"} /\ r.t = "nulls" -> IntMax
      [] OTHER -> CompareNumbers(l, r)

\* INTS and FLOATS cast into each other (a float rounds); NULL casts into nothing.
CastInts(x)   == Floats(x.v * Unit)
CastFloats(x) == Ints((2 * x.v + Unit) \div (2 * Unit))
CastTo(x, ty) ==
    CASE x.t = ty -> [rc |-> OK, v |-> x]
      [] x.t = "ints" /\ ty = "floats" -> [rc |-> OK, v |-> CastInts(x)]
      [] x.t = "floats" /\ ty = "ints" -> [rc |-> OK, v |-> CastFloats(x)]
      [] OTHER -> [rc |-> "UNSUPPORTED", v |-> Undefined]

CastCost(from, to) ==
    CASE from = to -> 0 [] from = "ints" /\ to = "floats" -> 1 [] OTHER -> IntMax

CalcInts(op, l, r) ==
    CASE op = "ADD" -> Ints(l.v + r.v) [] op = "SUB" -> Ints(l.v - r.v)
      [] op = "MUL" -> Ints(l.v * r.v) [] op = "NEGATIVE" -> Ints(-l.v)

CalcFloats(op, l, r) ==
    LET a == GetFloat(l)
        b == GetFloat(r)
    IN  CASE op = "ADD" -> Floats(a + b) [] op = "SUB" -> Floats(a - b)
          [] op = "MUL" -> Floats((a * b) \div Unit) [] op = "NEGATIVE" -> Floats(-a)
          [] op = "DIV" -> IF b = 0 THEN Null ELSE Floats((a * Unit) \div b)

(***************************************************************************)
(* Tuples: sequences of cells.  A column's cell is specified by the real   *)
(* table, the alias it is read under and the column; an aggregate's by     *)
(* its name.  The record's RID travels with the row.                       *)
(***************************************************************************)
Cell(s, x) == [s |-> s, v |-> x]
Rid(table) == <<"rid", table>>
ColumnSpec(table, alias, col) == <<"column", table, alias, col>>
AggregateSpec(name) == <<"aggregate", name>>

RowTuple(table, alias, rid, row) ==
    <<Cell(Rid(table), Ints(rid))>> \o
    [i \in DOMAIN row |-> Cell(ColumnSpec(table, alias, Catalog[table][i].name), row[i])]

\* JoinedTuple and CompositeTuple look left to right: the first match wins.
FindCell(t, s) ==
    IF \E i \in DOMAIN t : t[i].s = s
    THEN [rc |-> OK, v |-> t[SelectInSeq(t, LAMBDA c : c.s = s)].v]
    ELSE [rc |-> "NOTFOUND", v |-> Undefined]

\* ValueListTuple::make names a cell after the real table: the alias is lost.
ValueListMake(t) ==
    [i \in DOMAIN t |-> IF t[i].s[1] = "column"
                        THEN Cell(ColumnSpec(t[i].s[2], t[i].s[2], t[i].s[4]), t[i].v)
                        ELSE t[i]]

(***************************************************************************)
(* Bound expressions.                                                      *)
(***************************************************************************)
FieldExpr(table, alias, col, ty) ==
    [k |-> "field", s |-> ColumnSpec(table, alias, col), ty |-> ty]
ValueExpr(x) == [k |-> "value", v |-> x]
CastExpr(e, ty) == [k |-> "cast", e |-> e, ty |-> ty]
ComparisonExpr(op, l, r) == [k |-> "comparison", op |-> op, l |-> l, r |-> r]
ConjunctionExpr(op, es) == [k |-> "conjunction", op |-> op, es |-> es]
ArithmeticExpr(op, l, r) == [k |-> "arithmetic", op |-> op, l |-> l, r |-> r]
AggregateExpr(f, e, name) == [k |-> "aggregation", f |-> f, e |-> e, name |-> name]
SubSelectExpr(oper) == [k |-> "subselect", oper |-> oper]

\* ExpressionIterator::iterate_child_expr
ChildExprs(e) ==
    CASE e.k \in {"cast", "aggregation"} -> <<e.e>>
      [] e.k \in {"comparison", "arithmetic"} -> <<e.l, e.r>>
      [] e.k = "conjunction" -> e.es
      [] OTHER -> <<>>

RECURSIVE ValueType(_)
ValueType(e) ==
    CASE e.k \in {"field", "cast"} -> e.ty
      [] e.k = "value" -> e.v.t
      [] e.k \in {"comparison", "conjunction"} -> "booleans"
      [] e.k = "aggregation" -> ValueType(e.e)
      [] e.k = "subselect" -> "valueslists"
      [] e.k = "arithmetic" ->
            IF ValueType(e.l) = "ints" /\ ValueType(e.r) = "ints" /\ e.op # "DIV"
            THEN "ints" ELSE "floats"

CalcValue(e, l, r) ==
    CASE l.t = "nulls" \/ (e.op # "NEGATIVE" /\ r.t = "nulls") -> Null
      [] l.t # "nulls" /\ ValueType(e) = "ints" -> CalcInts(e.op, l, r)
      [] OTHER -> CalcFloats(e.op, l, r)

\* ComparisonExpr::compare_value once lists and NULLs are out of the way.
ByResult(op, c) ==
    CASE op \in {"EQUAL_TO", "IN", "IS_NULL"} -> c = 0
      [] op \in {"NOT_EQUAL", "NOT_IN", "IS_NOT"} -> c # 0
      [] op = "LESS_EQUAL" -> c <= 0
      [] op = "LESS_THAN" -> c < 0
      [] op = "GREAT_EQUAL" -> c >= 0
      [] op = "GREAT_THAN" -> c > 0

NotOneValue(x) == x.t = "valueslists" /\ Len(x.l) # 1

CompareValue(op, l, r) ==
    LET bad(x) == Len(x.l) > 1 \/ op = "NOT_EQUAL"
        res(b) == [rc |-> OK, b |-> b]
        error  == [rc |-> "ERROR", b |-> FALSE]
        by(c)  == c \notin {IntMax, -IntMax} /\ ByResult(op, c)
    IN  CASE NotOneValue(l) -> IF bad(l) THEN error ELSE res(FALSE)
          [] ~NotOneValue(l) /\ NotOneValue(r) ->
                IF Len(r.l) > 1 THEN error
                ELSE IF op = "NOT_IN" THEN res(TRUE)
                ELSE IF bad(r) THEN error ELSE res(FALSE)
          [] ~NotOneValue(l) /\ ~NotOneValue(r) /\ "nulls" \in {l.t, r.t} ->
                CASE op = "IS_NOT" /\ r.t = "nulls" -> res(l.t # "nulls")
                  [] op = "IS_NULL" /\ r.t = "nulls" -> res(l.t = "nulls")
                  [] OTHER -> res(FALSE)
          [] OTHER -> res(by(Compare(l, r)))

\* ... and the loops of IN and NOT IN over a list; the code of the last comparison made counts.
RECURSIVE ListLoop(_, _, _, _)
ListLoop(op, l, vals, last) ==
    IF vals = <<>> \/ last.b = (op = "IN") THEN last
    ELSE ListLoop(op, l, Tail(vals), CompareValue(op, l, Head(vals)))

CompareByOp(op, l, r) ==
    CASE op \in {"IN", "NOT_IN"} /\ r.t # "valueslists" -> [rc |-> "UNSUPPORTED", b |-> FALSE]
      [] op \in {"IN", "NOT_IN"} /\ r.t = "valueslists" ->
            ListLoop(op, l, r.l, [rc |-> OK, b |-> op = "NOT_IN"])
      [] OTHER -> CompareValue(op, l, r)

(***************************************************************************)
(* get_value: the code, the value and what the expression has become.      *)
(***************************************************************************)
RECURSIVE Run(_, _, _, _), EvalConjunction(_, _, _, _, _), PredicateNext(_, _), Rows(_, _, _), Close(_)

\* Expressions evaluate sub-selects and operators evaluate expressions: the virtual functions
\* get_value, open and next of all of them are one recursive definition.
Eval(e, t, d) == Run("get_value", e, t, d)
Open(o, d) == Run("open", o, <<>>, d)
Next(o, d) == Run("next", o, <<>>, d)

\* From here on `l', `r', `x' are what get_value of the children returned.
OfChildren(e, l, r, Result(_, _)) ==
    IF l.rc # OK THEN [l EXCEPT !.e = [e EXCEPT !.l = l.e]]
    ELSE IF r.rc # OK THEN [r EXCEPT !.e = [e EXCEPT !.l = l.e, !.r = r.e]]
    ELSE Result(l.v, r.v) @@ [e |-> [e EXCEPT !.l = l.e, !.r = r.e]]

Truth(c) == [rc |-> c.rc, v |-> Bool(c.b)]

EvalComparison(e, t, d) ==
    OfChildren(e, Eval(e.l, t, d), Eval(e.r, t, d), LAMBDA l, r : Truth(CompareByOp(e.op, l, r)))

EvalArithmetic(e, t, d) ==
    OfChildren(e, Eval(e.l, t, d), Eval(e.r, t, d), LAMBDA l, r : [rc |-> OK, v |-> CalcValue(e, l, r)])

CastOfChild(e, x) ==
    IF x.rc # OK THEN [x EXCEPT !.e = [e EXCEPT !.e = x.e]]
    ELSE CastTo(x.v, e.ty) @@ [e |-> [e EXCEPT !.e = x.e]]
EvalCast(e, t, d) == CastOfChild(e, Eval(e.e, t, d))

\* Child i - 1 gave x: the first error or the first value that decides is the result.
EvalConjunction(e, i, x, t, d) ==
    IF i > 1 /\ (x.rc # OK \/ GetBoolean(x.v) = (e.op = "OR"))
    THEN [x EXCEPT !.e = [e EXCEPT !.es[i - 1] = x.e]]
    ELSE LET f == IF i > 1 THEN [e EXCEPT !.es[i - 1] = x.e] ELSE e
         IN  IF i > Len(e.es) THEN [rc |-> OK, v |-> Bool(e.op = "AND"), e |-> f]
             ELSE EvalConjunction(f, i + 1, Eval(e.es[i], t, d), t, d)

(***************************************************************************)
(* Aggregators.  An ASSERT on the types that only a debug build compiles   *)
(* is left out: SUM and AVG of a column holding NULLs abort there.         *)
(***************************************************************************)
NewAggregator(f) == [f |-> f, v |-> Undefined, n |-> 0]
Unset(x) == x.t \in {"undefined", "nulls"}

Plus(x, y) == IF "floats" \in {x.t, y.t} THEN CalcFloats("ADD", x, y) ELSE CalcInts("ADD", x, y)

SumAccumulate(a, x) ==
    CASE Unset(a.v) -> [a EXCEPT !.v = x]
      [] ~Unset(a.v) /\ x.t # "nulls" -> [a EXCEPT !.v = Plus(x, @)]
      [] OTHER -> a

ExtremeAccumulate(a, x) ==
    IF Unset(a.v) \/ (x.t # "nulls" /\ (IF a.f = "MAX" THEN Compare(x, a.v) > 0
                                                      ELSE Compare(x, a.v) < 0))
    THEN [a EXCEPT !.v = x] ELSE a

CountAccumulate(a, x) ==
    [a EXCEPT !.v = Ints((IF @.t = "undefined" THEN 0 ELSE @.v) + (IF x.t = "nulls" THEN 0 ELSE 1))]

AvgAccumulate(a, x) ==
    IF x.t = "nulls" THEN [a EXCEPT !.v = IF Unset(@) THEN Null ELSE @]
    ELSE [SumAccumulate(a, x) EXCEPT !.n = @ + 1]

Accumulate(a, x) ==
    CASE a.f = "SUM" -> SumAccumulate(a, x) [] a.f \in {"MAX", "MIN"} -> ExtremeAccumulate(a, x)
      [] a.f = "COUNT" -> CountAccumulate(a, x) [] a.f = "AVG" -> AvgAccumulate(a, x)

\* evaluate: AVG leaves the quotient behind in the aggregator.
Evaluate(a) ==
    CASE a.v.t = "undefined" -> IF a.f = "COUNT" THEN Ints(0) ELSE Null
      [] a.f = "AVG" /\ ~Unset(a.v) -> CalcFloats("DIV", a.v, Ints(a.n))
      [] OTHER -> a.v

Evaluated(a) == IF a.f = "AVG" THEN [a EXCEPT !.v = Evaluate(a)] ELSE a

(***************************************************************************)
(* Physical operators, as the plan generator creates them.                 *)
(***************************************************************************)
TableScan(table, alias) == [k |-> "scan", table |-> table, alias |-> alias, i |-> 0]
FatherTuple == [k |-> "father", first |-> TRUE, tuple |-> <<>>]
Predicate(e, c) == [k |-> "predicate", e |-> e, c |-> c]
NestedLoopJoin(l, r) == [k |-> "join", l |-> l, r |-> r, rights |-> <<>>, idx |-> 0,
                         round_done |-> TRUE, ltuple |-> <<>>]
SortOper(es, c) == [k |-> "sort", es |-> es, c |-> c, set |-> <<>>]
LimitOper(n, c) == [k |-> "limit", limit |-> n, count |-> 0, c |-> c]
\* A group: its key, the row it began with followed by what evaluate appended, its aggregators.
GroupBy(keys, aggs, c) == [k |-> IF keys = <<>> THEN "scalar" ELSE "hash", keys |-> keys,
                           aggs |-> aggs, c |-> c, groups |-> <<>>, pos |-> 1, emitted |-> FALSE]
Project(es, c) == [k |-> "project", es |-> es, c |-> c, iterated |-> FALSE]

Fail(rc, o) == [rc |-> rc, o |-> o, t |-> <<>>]
Got(o, t) == [rc |-> OK, o |-> o, t |-> t]
\* What the child returned is what the operator o returns.
Around(o, n) == [n EXCEPT !.o = [o EXCEPT !.c = n.o]]

\* The rest of an operator's rows: `while (OB_SUCC(rc = child->next()))'.
Rows(n, ts, d) ==
    IF n.rc # OK THEN [rc |-> n.rc, o |-> n.o, ts |-> ts]
    ELSE Rows(Next(n.o, d), Append(ts, n.t), d)
Drain(o, ts, d) == Rows(Next(o, d), ts, d)

PureValue(o) == \A i \in DOMAIN o.es : o.es[i].k = "value"

TableScanNext(o, d) ==
    LET rest == {i \in DOMAIN d[o.table] : i > o.i /\ d[o.table][i] # <<>>}
        i    == CHOOSE j \in rest : \A n \in rest : j <= n
    IN  IF rest = {} THEN Fail(EOF_, o)
        ELSE Got([o EXCEPT !.i = i], RowTuple(o.table, o.alias, i, d[o.table][i]))

FatherTupleNext(o) ==
    IF o.first THEN Got([o EXCEPT !.first = FALSE], o.tuple) ELSE Fail(EOF_, o)

\* The child gave the row t, on which the predicate, now p, evaluated to x.
Judge(p, t, x, d) ==
    IF x.rc # OK THEN Fail(x.rc, [p EXCEPT !.e = x.e])
    ELSE IF GetBoolean(x.v) THEN Got([p EXCEPT !.e = x.e], t)
    ELSE PredicateNext([p EXCEPT !.e = x.e], d)

JudgeRow(o, n, d) ==
    IF n.rc # OK THEN Fail(n.rc, [o EXCEPT !.c = n.o])
    ELSE Judge([o EXCEPT !.c = n.o], n.t, Eval(o.e, n.t, d), d)

PredicateNext(o, d) == JudgeRow(o, Next(o.c, d), d)

\* Mutant: a new round goes on from where the last one ended.
MutRightNext(o) ==
    LET i == o.idx + 1
    IN  IF i > Len(o.rights) THEN Fail(EOF_, [o EXCEPT !.idx = i, !.round_done = TRUE])
        ELSE Got([o EXCEPT !.idx = i, !.round_done = FALSE], o.ltuple \o o.rights[i])

RightNext(o) ==
    LET i == (IF o.round_done THEN 0 ELSE o.idx) + 1
    IN  IF i > Len(o.rights) THEN Fail(EOF_, [o EXCEPT !.idx = i, !.round_done = TRUE])
        ELSE Got([o EXCEPT !.idx = i, !.round_done = FALSE], o.ltuple \o o.rights[i])

\* left_next, and the first right row for the new left row.
NewRound(o, l) ==
    IF l.rc # OK THEN Fail(l.rc, [o EXCEPT !.l = l.o])
    ELSE RightNext([o EXCEPT !.l = l.o, !.ltuple = l.t])

JoinStep(r, d) == IF r.rc = OK THEN r ELSE NewRound(r.o, Next(r.o.l, d))
JoinNext(o, d) == JoinStep(IF o.round_done THEN Fail(EOF_, o) ELSE RightNext(o), d)

SortNext(o) ==
    IF o.set = <<>> THEN Fail(EOF_, o) ELSE Got([o EXCEPT !.set = Tail(@)], Head(o.set))

LimitNext(o, d) ==
    IF o.count >= o.limit THEN Fail(EOF_, o)
    ELSE Around([o EXCEPT !.count = @ + 1], Next(o.c, d))

ScalarGroupByNext(o) ==
    IF o.groups = <<>> \/ o.emitted THEN Fail(EOF_, o)
    ELSE Got([o EXCEPT !.emitted = TRUE], o.groups[1].t)

HashGroupByNext(o) ==
    LET p == IF o.emitted /\ o.pos <= Len(o.groups) THEN o.pos + 1 ELSE o.pos
        q == [o EXCEPT !.pos = p, !.emitted = TRUE]
    IN  IF p > Len(o.groups) THEN Fail(EOF_, q) ELSE Got(q, o.groups[p].t)

ProjectNext(o, d) ==
    IF PureValue(o) THEN IF o.iterated THEN Fail(EOF_, o) ELSE Got([o EXCEPT !.iterated = TRUE], <<>>)
    ELSE Around(o, Next(o.c, d))

\* The right side is read whole before the left side is opened; what opening it returned is lost.
OpenLeft(o, l) == [l EXCEPT !.o = [o EXCEPT !.l = l.o]]
JoinBuffered(o, r, d) ==
    LET p == [o EXCEPT !.r = r.o, !.rights = r.ts, !.round_done = TRUE]
    IN  IF r.rc # EOF_ THEN Fail("ERROR", p) ELSE OpenLeft(p, Open(o.l, d))
JoinOpen(o, d) == JoinBuffered(o, Drain(Open(o.r, d).o, o.rights, d), d)

IfOpened(o, c, Then(_)) == IF c.rc # OK THEN Fail(c.rc, [o EXCEPT !.c = c.o]) ELSE Then(c.o)

\* compare() of sort_physical_operator.cpp: lexicographic over the order by expressions.
Before(es, x, y, d) ==
    LET cs   == [i \in DOMAIN es |-> Compare(Eval(es[i].e, x, d).v, Eval(es[i].e, y, d).v)]
        lt(c, i) == i > 0 /\ IF es[i].by = "ASC" THEN c[i] < 0 ELSE c[i] > 0
        less(c)  == lt(c, SelectInSeq(c, LAMBDA v : v # 0))
    IN  less(cs)

\* Whatever ends the child's rows, an error too, the rows so far are sorted and open succeeds.
Sorted(o, r, d) ==
    Fail(OK, [o EXCEPT !.c = r.o, !.set = SortSeq(r.ts, LAMBDA x, y : Before(o.es, x, y, d))])
SortOpen(o, d) == IfOpened(o, Open(o.c, d), LAMBDA c : Sorted(o, Drain(c, o.set, d), d))

NewGroup(o, key, t) ==
    [key |-> key, t |-> ValueListMake(t),
     aggs |-> [i \in DOMAIN o.aggs |-> NewAggregator(o.aggs[i].f)]]

\* find_group and aggregate for one row of the child; the first failing expression ends it.
FindGroup(o, key, t) ==
    LET same(g) == \A i \in DOMAIN key : Compare(key[i].v, g.key[i]) = 0
    IN  IF \E j \in DOMAIN o.groups : same(o.groups[j])
        THEN [gs |-> o.groups, j |-> SelectInSeq(o.groups, same)]
        ELSE [gs |-> Append(o.groups, NewGroup(o, [i \in DOMAIN key |-> key[i].v], t)),
              j |-> Len(o.groups) + 1]

Aggregate(o, f, vals) ==
    [o EXCEPT !.groups = [f.gs EXCEPT ![f.j].aggs = [i \in DOMAIN @ |-> Accumulate(@[i], vals[i].v)]]]

AddTo(o, t, key, vals) ==
    LET bad == SelectSeq(key \o vals, LAMBDA x : x.rc # OK)
    IN  IF bad # <<>> THEN Fail(bad[1].rc, o) ELSE Fail(OK, Aggregate(o, FindGroup(o, key, t), vals))

AddRow(o, t, d) == AddTo(o, t, [i \in DOMAIN o.keys |-> Eval(o.keys[i], t, d)],
                               [i \in DOMAIN o.aggs |-> Eval(o.aggs[i].e, t, d)])

RECURSIVE AddRows(_, _, _)
AddRows(a, ts, d) ==
    IF ts = <<>> \/ a.rc # OK THEN a ELSE AddRows(AddRow(a.o, Head(ts), d), Tail(ts), d)

\* evaluate: the aggregates' cells go behind the cells the group already has.
EvaluateGroup(o, g) ==
    [g EXCEPT !.t = @ \o [i \in DOMAIN o.aggs |-> Cell(AggregateSpec(o.aggs[i].name), Evaluate(g.aggs[i]))],
              !.aggs = [i \in DOMAIN @ |-> Evaluated(@[i])]]

AllGrouped(o) ==
    LET gs == IF o.k = "scalar" /\ o.groups = <<>> THEN <<NewGroup(o, <<>>, <<>>)>> ELSE o.groups
    IN  [o EXCEPT !.groups = [i \in DOMAIN gs |-> EvaluateGroup(o, gs[i])], !.pos = 1, !.emitted = FALSE]

\* `a': the operator after the rows r of its child were added.
GroupRows(a, r) ==
    IF a.rc # OK THEN a ELSE IF r.rc # EOF_ THEN Fail(r.rc, a.o) ELSE Fail(OK, AllGrouped(a.o))

Group(o, r, d) == GroupRows(AddRows(Fail(OK, [o EXCEPT !.c = r.o]), r.ts, d), r)
GroupByOpen(o, d) == IfOpened(o, Open(o.c, d), LAMBDA c : Group(o, Drain(c, <<>>, d), d))

\* LIMIT keeps its count, a sort its leftovers, the hash group by its groups, a projection
\* of constants the mark that it was iterated.
Close(o) ==
    CASE o.k = "scan" -> o
      [] o.k = "father" -> FatherTuple
      [] o.k = "join" -> [o EXCEPT !.l = Close(@), !.r = Close(@), !.rights = <<>>, !.idx = 0,
                                   !.ltuple = <<>>]
      [] o.k = "scalar" -> [o EXCEPT !.c = Close(@), !.groups = <<>>, !.emitted = FALSE]
      [] o.k \in {"predicate", "limit", "project", "sort", "hash"} -> [o EXCEPT !.c = Close(@)]

\* Cells of the current row of a projection.
ProjectCells(o, t, d) == [i \in DOMAIN o.es |-> Eval(o.es[i], t, d)]

(***************************************************************************)
(* A sub-select as a value: the outer row is handed to its father          *)
(* operator, its rows become a list.  The first column is all it may have. *)
(***************************************************************************)
RECURSIVE SetFatherTuple(_, _)
SetFatherTuple(o, t) ==
    CASE o.k = "father" -> [o EXCEPT !.tuple = t]
      [] o.k = "join" -> [o EXCEPT !.l = SetFatherTuple(@, t)]
      [] o.k = "scan" -> o
      [] OTHER -> [o EXCEPT !.c = SetFatherTuple(@, t)]

SubSelectRows(e, r, d) ==
    [rc |-> IF r.rc = EOF_ THEN OK ELSE r.rc,
     v  |-> List([i \in DOMAIN r.ts |-> ProjectCells(e.oper, r.ts[i], d)[1].v]),
     e  |-> [e EXCEPT !.oper = Close(r.o)]]

SubSelectOpened(e, p, d) ==
    IF p.rc # OK THEN [rc |-> p.rc, v |-> Undefined, e |-> [e EXCEPT !.oper = p.o]]
    ELSE SubSelectRows(e, Drain(p.o, <<>>, d), d)

SubSelectValue(e, t, d) ==
    IF Len(e.oper.es) # 1 THEN [rc |-> "ERROR", v |-> Undefined, e |-> e]
    ELSE SubSelectOpened(e, Open(SetFatherTuple(e.oper, t), d), d)

(***************************************************************************)
(* The dispatch on the kind of an expression or an operator.               *)
(***************************************************************************)
GetValue(e, t, d) ==
    CASE e.k = "value" -> [rc |-> OK, v |-> e.v, e |-> e]
      [] e.k = "field" -> FindCell(t, e.s) @@ [e |-> e]
      [] e.k = "aggregation" -> FindCell(t, AggregateSpec(e.name)) @@ [e |-> e]
      [] e.k = "cast" -> EvalCast(e, t, d)
      [] e.k = "comparison" -> EvalComparison(e, t, d)
      [] e.k = "arithmetic" -> EvalArithmetic(e, t, d)
      [] e.k = "conjunction" -> EvalConjunction(e, 1, None, t, d)
      [] e.k = "subselect" -> SubSelectValue(e, t, d)

OperatorNext(o, d) ==
    CASE o.k = "scan" -> TableScanNext(o, d)    [] o.k = "father" -> FatherTupleNext(o)
      [] o.k = "predicate" -> PredicateNext(o, d) [] o.k = "join" -> JoinNext(o, d)
      [] o.k = "sort" -> SortNext(o)            [] o.k = "limit" -> LimitNext(o, d)
      [] o.k = "scalar" -> ScalarGroupByNext(o) [] o.k = "hash" -> HashGroupByNext(o)
      [] o.k = "project" -> ProjectNext(o, d)

OperatorOpen(o, d) ==
    CASE o.k = "scan" -> Fail(OK, [o EXCEPT !.i = 0])
      [] o.k = "father" -> Fail(OK, o)
      [] o.k \in {"predicate", "limit", "project"} ->
            Around(o, Open(o.c, d))
      [] o.k = "join" -> JoinOpen(o, d)
      [] o.k = "sort" -> SortOpen(o, d)
      [] o.k \in {"scalar", "hash"} -> GroupByOpen(o, d)

Run(do, x, t, d) ==
    CASE do = "get_value" -> GetValue(x, t, d)
      [] do = "open" -> OperatorOpen(x, d)
      [] do = "next" -> OperatorNext(x, d)
=============================================================================
